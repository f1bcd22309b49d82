------------------------------ MODULE ExtractC ------------------------------
(***************************************************************************)
(* The C adapter, one action per handler of Builder::walk.  c of a call is *)
(* the form of its callee: "plain" a name, "macro" a name the file defines *)
(* as a function-like macro, "pointer" a name bound to a function pointer, *)
(* "computed" a field, a dereference or anything else.                     *)
(***************************************************************************)
EXTENDS SyntaxWalk

Records == {"struct_specifier", "union_specifier", "enum_specifier"}
Loops == {"for_statement", "while_statement", "do_statement"}

(* A C name is not qualified: the prefix stays empty.                      *)
Name == <<at>>
InFunction(scope) == [RootCtx EXCEPT !.scope = scope]

WalkFunction ==
    /\ IsAt({"function_definition"})
    /\ facts' = Add(Add(facts, "defs",
                        {ADef(Name, "function")}),
                    "entries",
                    IF Reads = "main" THEN {[fqn |-> Name, kind |-> "main"]} ELSE {})
    /\ Into({"body"}, InFunction(Push(Name)))
    /\ Keep

(* walk_declaration: a variable only at the top of the file, no definition *)
(* for a prototype; its initialiser is walked wherever it is.              *)
WalkDeclaration ==
    /\ IsAt({"declaration"})
    /\ facts' = IF ctx.scope = <<>> /\ Reads # "prototype"
                THEN Add(facts, "defs", {ADef(Name, "variable")}) ELSE facts
    /\ Into({"value"}, ctx)
    /\ Keep

(* walk_typedef, walk_record, walk_macro_def: definitions of the file's    *)
(* own scope, whatever they are inside of, and nothing below is walked.    *)
RecordDef ==
    /\ IsAt({"type_definition", "preproc_def", "preproc_function_def"} \cup Records)
    /\ facts' = Add(facts, "defs",
          {[fqn |-> Name, scope |-> <<>>,
            kind |-> IF Kind \in {"type_definition"} \cup Records
                     THEN "type" ELSE "constant"]})
    /\ Leave({"value", "leaf"})
    /\ Keep

(* owner_fqn, record_effects: the nearest scope that has an owner.         *)
OwnEffect == IF ctx.scope = <<>> THEN {}
             ELSE {[at |-> at, owner |-> ctx.scope[Len(ctx.scope)], what |-> "call"]}

(* classify_callee and walk_call_expression: a macro is cut, not called.   *)
WalkCall ==
    /\ IsAt({"call_expression"})
    /\ facts' = IF Reads = "macro"
                THEN Add(facts, "cuts", {[at |-> at]})
                ELSE Add(Add(facts, "refs",
                             {ARef(IF Reads = "plain" THEN "call" ELSE "callback",
                                   Condition, "none")}),
                         "effects", OwnEffect)
    /\ Into({"function", "arguments"}, ctx) \/ Leave({"leaf"})
    /\ Keep

(* walk_if, walk_loop, walk_switch.                                        *)
WalkIf ==
    /\ IsAt({"if_statement"})
    /\ \/ Into({"condition"}, ctx)
       \/ Into({"consequence", "alternative"}, With("conditional"))
    /\ UNCHANGED facts /\ Keep

WalkLoop ==
    /\ IsAt(Loops)
    /\ Into({"body"}, With("loop")) \/ Into({"condition"}, ctx)
    /\ UNCHANGED facts /\ Keep

WalkSwitch ==
    /\ IsAt({"switch_statement"})
    /\ Into({"body"}, With("conditional")) \/ Into({"condition"}, ctx)
    /\ UNCHANGED facts /\ Keep

WalkChildren == Through({"conditional_expression", "binary_expression",
                         "preproc_if", "identifier"})

CNext ==
    /\ lang = "c"
    /\ \/ WalkFunction \/ WalkDeclaration \/ RecordDef \/ WalkCall
       \/ WalkIf \/ WalkLoop \/ WalkSwitch \/ WalkChildren
=============================================================================
