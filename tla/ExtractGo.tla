----------------------------- MODULE ExtractGo -----------------------------
(***************************************************************************)
(* The Go adapter, one action per handler of Builder::walk.  c of a call   *)
(* is the form of its callee ("plain" a name, "method" x.m, "literal" a    *)
(* function literal, "reflect" or "plugin" a call into those packages), of *)
(* an if "err" when its condition compares an err with nil, of an          *)
(* assignment "many" when it has one value for several names, "field" when *)
(* its left side is not a name.                                            *)
(***************************************************************************)
EXTENDS SyntaxWalk

Functions == {"function_declaration", "method_declaration"}
Declarations == {"type_declaration", "const_declaration", "var_declaration"}
Switches == {"expression_switch_statement", "type_switch_statement",
             "select_statement"}
Assignments == {"short_var_declaration", "assignment_statement"}

(* walk_function and walk_method (a method's name has its receiver type).  *)
WalkFunction ==
    /\ IsAt(Functions)
    /\ LET body == EnterBody(Named, Push(Named))
       IN  /\ facts' = Add(Add(facts, "defs",
                  {ADef(Named, IF Kind = "method_declaration"
                               THEN "method" ELSE "function")}),
                  "entries",
                  IF Reads \in {"main", "test"} /\ Kind = "function_declaration"
                  THEN {[fqn |-> Named, kind |-> Reads]} ELSE {})
           /\ Into({"body"}, body)
           /\ frames' = Later("ssa", body)
    /\ UNCHANGED <<lang, path, pass>>

(* walk_type_declaration and walk_value_declaration: the names are defined *)
(* at any depth, and the values are not walked.                            *)
RecordDef ==
    /\ IsAt(Declarations)
    /\ facts' = Add(facts, "defs",
          {ADef(Named, IF Kind = "type_declaration" THEN "type" ELSE "variable")})
    /\ Leave({"value"})
    /\ Keep

-----------------------------------------------------------------------------
(* classify_callee, emit_call_cut_hints.  The name read off a function     *)
(* literal is the keyword func.                                            *)
CalleeKind(c) == IF c \in {"method", "reflect", "plugin"} THEN "virtual" ELSE "call"
Cuts(c, i) == IF c \in {"reflect", "plugin"} THEN {[at |-> i]} ELSE {}

WalkCall ==
    /\ IsAt({"call_expression"})
    /\ facts' = Add(Add(Add(facts, "cuts", Cuts(Reads, at)),
                        "refs", {ARef(CalleeKind(Reads), Condition, "none")}),
                    "effects", {AnEffect("call")})
    /\ Into({"function", "arguments"}, ctx) \/ Leave({"leaf"})
    /\ Keep

(* walk_go and walk_defer: a reference to what is called, and then only    *)
(* the arguments of the call are walked.                                   *)
ArgumentsOfCall ==
    IF Next1.r = "arguments" THEN at' = at + 2 /\ UNCHANGED ctx
    ELSE at' = Len(path) + 1 /\ UNCHANGED ctx

WalkGo ==
    /\ IsAt({"go_statement"})
    /\ facts' = Add(Add(facts, "refs",
                        {[ARef("spawn", Condition, "none") EXCEPT !.at = at + 1]}),
                    "effects",
                    {[AnEffect("call") EXCEPT !.at = at + 1],
                     [AnEffect("spawns") EXCEPT !.at = at + 1]})
    /\ ArgumentsOfCall
    /\ Keep

WalkDefer ==
    /\ IsAt({"defer_statement"})
    /\ facts' = Add(Add(Add(facts, "cuts", Cuts(Next1.c, at + 1)),
                        "refs", {[ARef(CalleeKind(Next1.c), Condition, "defer")
                                     EXCEPT !.at = at + 1]}),
                    "effects", {[AnEffect("call") EXCEPT !.at = at + 1]})
    /\ ArgumentsOfCall
    /\ Keep

(* walk_func_literal: a definition with a scope of its own, under the name *)
(* and the guards of the function around it.                               *)
WalkFuncLiteral ==
    /\ IsAt({"func_literal"})
    /\ facts' = Add(facts, "defs", {ADef(Named, "lambda")})
    /\ Into({"body"}, WithScope(Push(Named)))
    /\ Keep

-----------------------------------------------------------------------------
(* walk_if and is_err_nil_guard, walk_loop, walk_switch.                   *)

BranchCondition == IF Reads = "err" THEN "exception" ELSE "conditional"

WalkIf ==
    /\ IsAt({"if_statement"})
    /\ \/ Into({"initializer", "condition"}, ctx)
       \/ Into({"consequence", "alternative"}, With(BranchCondition))
    /\ UNCHANGED facts /\ Keep

WalkLoop ==
    /\ IsAt({"for_statement"})
    /\ Into({"body"}, With("loop")) \/ Into({"condition"}, ctx)
    /\ UNCHANGED facts /\ Keep

WalkSwitch ==
    /\ IsAt(Switches)
    /\ Into({"case"}, With("conditional")) \/ Into({"value"}, ctx)
    /\ UNCHANGED facts /\ Keep

WalkChildren == Through(Assignments \cup
    {"return_statement", "send_statement", "selector_expression",
     "binary_expression", "parenthesized_expression", "composite_literal",
     "index_expression", "identifier"})

-----------------------------------------------------------------------------
(* classify_rhs, operand_sources, collect_idents, opaque_call_arg_paths.   *)
Fields == {"selector_expression"}
Operators == {"binary_expression"}
Wrappers == {"parenthesized_expression"}
Composed == {"composite_literal"}
Stop == {"func_literal", "call_expression"}
Opaque == {"call_expression"}
Values ==
    [field |-> Fields, operator |-> Operators, operandWrapper |-> Wrappers,
     wrapper |-> Wrappers, baseWrapper |-> {}, composed |-> Composed, stop |-> Stop,
     opaque |-> Opaque, call |-> Opaque, through |-> Wrappers]

(* A send is a flow into the channel of every operand of what is sent.     *)
SendFlows ==
    IF ~OperandAt(Values, at + 1) THEN {}
    ELSE {[fn |-> ctx.prefix, to |-> at, how |-> "source", cut |-> "none",
           cond |-> Condition]}

(* ssa_walk.  Nothing is kept of an assignment of one call to many names.  *)
SsaAssignment ==
    /\ Kind \in Assignments \cup {"return_statement", "send_statement"}
    /\ facts' = CASE Reads \in {"many", "field"} -> facts
                  [] Kind = "send_statement" -> Add(facts, "flows", SendFlows)
                  [] OTHER -> Add(facts, "flows", FlowsOf(Values, ctx, at, at + 1))
    /\ Into({"value"}, ctx)

SsaGuarded ==
    /\ \/ /\ Kind = "if_statement"
          /\ \/ Into({"initializer", "condition"}, ctx)
             \/ Into({"consequence", "alternative"}, With(BranchCondition))
       \/ /\ Kind = "for_statement"
          /\ Into({"body"}, With("loop")) \/ Leave({"condition"})
       \/ /\ Kind \in Switches
          /\ Into({"case"}, With("conditional")) \/ Into({"value"}, ctx)
    /\ UNCHANGED facts

SsaOther ==
    /\ Kind \notin Assignments \cup Switches \cup
                   {"return_statement", "send_statement", "if_statement",
                    "for_statement"}
    /\ at' = IF Kind = "func_literal" \/ Role = "leaf"
             THEN Len(path) + 1 ELSE at + 1
    /\ UNCHANGED <<ctx, facts>>

SsaWalk ==
    /\ lang = "go" /\ Flowing
    /\ SsaAssignment \/ SsaGuarded \/ SsaOther
    /\ Keep

GoNext ==
    \/ /\ lang = "go"
       /\ \/ WalkFunction \/ RecordDef \/ WalkCall \/ WalkGo \/ WalkDefer
          \/ WalkFuncLiteral \/ WalkIf \/ WalkLoop \/ WalkSwitch \/ WalkChildren
    \/ lang = "go" /\ StartSsa({})
    \/ SsaWalk
=============================================================================
