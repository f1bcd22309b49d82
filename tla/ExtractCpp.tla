----------------------------- MODULE ExtractCpp -----------------------------
(***************************************************************************)
(* The C++ adapter, one action per handler of Builder::walk and            *)
(* walk_member.  c of a function is "main", "qualified" (T::f, outside of  *)
(* its class) or "other", of a class, a struct or a namespace "anonymous"  *)
(* or "named", of a declaration "prototype" or "data"; of a call it is the *)
(* form of its callee: "plain" a name, "macro" a name the file defines as  *)
(* a function-like macro, "method" x.m, "pointer" through a pointer,       *)
(* "literal" a lambda, which has no name at all.                           *)
(***************************************************************************)
EXTENDS SyntaxWalk

Loops == {"for_statement", "while_statement", "for_range_loop"}

(* record_effects, owner_fqn: the nearest scope that has an owner.         *)
OwnEffect == IF ctx.scope = <<>> THEN {}
             ELSE {[at |-> at, owner |-> ctx.scope[Len(ctx.scope)], what |-> "call"]}

(* walk_namespace: an anonymous one keeps the name around it.              *)
WalkNamespace ==
    /\ IsAt({"namespace_definition"})
    /\ LET name == IF Reads = "anonymous" THEN ctx.prefix ELSE Named
       IN  /\ facts' = IF Reads = "anonymous" THEN facts
                       ELSE Add(facts, "defs", {ADef(Named, "module")})
           /\ Into({"body"}, EnterBody(name, Push(name)))
    /\ Keep

(* walk_class: a class without a name has no members, only content.        *)
WalkClass ==
    /\ IsAt({"class_specifier"}) /\ Reads # "anonymous"
    /\ facts' = Add(Add(facts, "defs", {ADef(Named, "type")}), "relations",
          IF Reads = "derived" THEN {[kind |-> "inherits", at |-> at]} ELSE {})
    /\ Into({"body"}, EnterMembers(Named, Push(Named)))
    /\ Keep

WalkAnonymousClass ==
    /\ IsAt({"class_specifier"}) /\ Reads = "anonymous"
    /\ Into({"body"}, [ctx EXCEPT !.members = FALSE])
    /\ UNCHANGED facts /\ Keep

(* walk_function_vis: of a definition only the body is walked, not what    *)
(* initialises the members.                                                *)
FunctionKind == IF ctx.members \/ Reads = "qualified" THEN "method" ELSE "function"

WalkFunction ==
    /\ IsAt({"function_definition"})
    /\ facts' = Add(Add(facts, "defs", {ADef(Named, FunctionKind)}), "entries",
          IF Reads = "main" /\ ~ctx.members
          THEN {[fqn |-> Named, kind |-> "main"]} ELSE {})
    /\ Into({"body"}, EnterBody(Named, Push(Named))) \/ Leave({"initializers"})
    /\ Keep

(* walk_declaration: a prototype is a definition too, a variable only at   *)
(* the top of the file; every child is then walked.                        *)
Declared == IF Reads = "prototype" THEN {ADef(Named, FunctionKind)}
            ELSE IF ctx.scope = <<>> THEN {ADef(Named, "variable")} ELSE {}

WalkDeclaration ==
    /\ IsAt({"declaration"}) /\ ~ctx.members
    /\ facts' = Add(facts, "defs", Declared)
    /\ Into({"type", "value"}, ctx)
    /\ Keep

(* walk_member, walk_data_members: the initialiser of a field is not       *)
(* walked, the class it may be of is.                                      *)
WalkDataMember ==
    /\ IsAt({"declaration"}) /\ ctx.members
    /\ facts' = IF Role = "type" THEN facts
                ELSE Add(facts, "defs",
                  {ADef(Named, IF Reads = "prototype" THEN "method" ELSE "field")})
    /\ \/ Into({"type"}, [ctx EXCEPT !.members = FALSE])
       \/ Leave({"value"})
    /\ Keep

(* walk_enum, walk_alias, walk_typedef, walk_macro_def: a definition, and  *)
(* nothing below is walked but the class a typedef names.                  *)
RecordDef ==
    /\ IsAt({"enum_specifier", "alias_declaration", "type_definition"})
    /\ facts' = Add(facts, "defs", {ADef(Named, "type")})
    /\ \/ Into({"type"}, ctx)
       \/ Leave({"value"})
    /\ Keep

(* walk_template: the parameters are left aside.                           *)
WalkTemplate ==
    /\ IsAt({"template_declaration"})
    /\ Into({"declaration"}, ctx)
    /\ UNCHANGED facts /\ Keep

-----------------------------------------------------------------------------
(* classify_callee, callee_ident.                                          *)
CalleeKind(c) ==
    CASE c = "plain" -> "call" [] c = "method" -> "virtual" [] OTHER -> "callback"

(* walk_call and walk_new: a macro is cut, a callee without a name is no   *)
(* reference, and every child is walked.                                   *)
Called(kind) == Add(Add(facts, "refs", {ARef(kind, Condition, "none")}),
                    "effects", OwnEffect)

WalkCall ==
    /\ IsAt({"call_expression"})
    /\ facts' = CASE Reads = "macro" -> Add(facts, "cuts", {[at |-> at]})
                  [] Reads = "literal" -> facts
                  [] OTHER -> Called(CalleeKind(Reads))
    /\ Into({"function", "arguments"}, ctx) \/ Leave({"leaf"})
    /\ Keep

WalkNew ==
    /\ IsAt({"new_expression"})
    /\ facts' = Called("instantiate")
    /\ Into({"arguments"}, ctx)
    /\ Keep

-----------------------------------------------------------------------------
(* walk_if, walk_loop, walk_switch, walk_try.                              *)
WalkIf ==
    /\ IsAt({"if_statement"})
    /\ \/ Into({"condition"}, ctx)
       \/ Into({"consequence", "alternative"}, With("conditional"))
    /\ UNCHANGED facts /\ Keep

WalkLoop ==
    /\ IsAt(Loops)
    /\ Into({"body"}, With("loop")) \/ Into({"condition"}, ctx)
    /\ UNCHANGED facts /\ Keep

WalkSwitch ==
    /\ IsAt({"switch_statement"})
    /\ Into({"condition"}, ctx) \/ Into({"case"}, With("conditional"))
    /\ UNCHANGED facts /\ Keep

WalkTry ==
    /\ IsAt({"try_statement"})
    /\ Into({"body"}, ctx) \/ Into({"except"}, With("exception"))
    /\ UNCHANGED facts /\ Keep

WalkChildren == Through({"lambda_expression", "conditional_expression",
    "binary_expression", "return_statement", "throw_statement", "identifier"})

CppNext ==
    /\ lang = "cpp"
    /\ \/ WalkNamespace \/ WalkClass \/ WalkAnonymousClass \/ WalkFunction
       \/ WalkDeclaration \/ WalkDataMember \/ RecordDef \/ WalkTemplate
       \/ WalkCall \/ WalkNew \/ WalkIf \/ WalkLoop \/ WalkSwitch \/ WalkTry
       \/ WalkChildren
=============================================================================
