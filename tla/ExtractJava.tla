---------------------------- MODULE ExtractJava ----------------------------
(***************************************************************************)
(* The Java adapter, one action per handler of Builder::walk.  c of a      *)
(* method is "main", "test", "override", "synchronized" or "other", of an  *)
(* invocation "plain" m(), "method" x.m() or "reflect" Class.forName and   *)
(* loadClass.                                                              *)
(***************************************************************************)
EXTENDS SyntaxWalk

Types == {"class_declaration", "interface_declaration"}
Methods == {"method_declaration", "constructor_declaration"}
Loops == {"for_statement", "while_statement", "enhanced_for_statement"}
Calls == {"method_invocation", "object_creation_expression"}

(* walk_type, emit_inheritance: a supertype is related by its name.        *)
WalkType ==
    /\ IsAt(Types)
    /\ facts' = Add(Add(facts, "defs", {ADef(Named, "type")}), "relations",
          IF Reads = "derived"
          THEN {[kind |-> IF Kind = "interface_declaration" THEN "inherits"
                          ELSE "implements", at |-> at]}
          ELSE {})
    /\ Into({"body"}, EnterBody(Named, Push(Named)))
    /\ Keep

(* walk_method and walk_constructor, record_entrypoints; a synchronized    *)
(* method may block.                                                       *)
MethodEffects(fqn) ==
    IF Reads = "synchronized" THEN {[at |-> at, owner |-> fqn, what |-> "blocks"]}
    ELSE {}

WalkMethod ==
    /\ IsAt(Methods)
    /\ LET kind == IF Kind = "method_declaration" THEN "method" ELSE "function"
           body == EnterBody(Named, Push(Named))
       IN  /\ facts' = Add(Add(Add(facts, "defs", {ADef(Named, kind)}),
                  "entries", IF kind = "method" /\ Reads \in {"main", "test"}
                             THEN {[fqn |-> Named, kind |-> Reads]} ELSE {}),
                  "effects", IF kind = "method" THEN MethodEffects(Named) ELSE {})
           /\ Into({"body"}, body)
           /\ frames' = Later("ssa", body)
    /\ UNCHANGED <<lang, path, pass>>

(* walk_field and walk_enum_constant: neither the initialiser of a field   *)
(* nor the arguments of a constant are walked.                             *)
RecordDef ==
    /\ IsAt({"field_declaration", "enum_constant"})
    /\ facts' = Add(facts, "defs",
          {ADef(Named, IF Kind = "field_declaration" THEN "field" ELSE "constant")})
    /\ Leave({"value"})
    /\ Keep

-----------------------------------------------------------------------------
(* walk_invocation, emit_call_cut_hints: every child is walked.            *)
Cuts == IF Reads = "reflect" THEN {[at |-> at]} ELSE {}

WalkInvocation ==
    /\ IsAt({"method_invocation"})
    /\ facts' = Add(Add(Add(facts, "cuts", Cuts),
                    "refs", {ARef(IF Reads = "plain" THEN "call" ELSE "virtual",
                                  Condition, "none")}),
                    "effects", {AnEffect("call")})
    /\ Into({"function", "arguments"}, ctx) \/ Leave({"leaf"})
    /\ Keep

(* walk_object_creation: the body of an anonymous class is walked where it *)
(* stands.                                                                 *)
WalkObjectCreation ==
    /\ IsAt({"object_creation_expression"})
    /\ facts' = Add(Add(facts, "refs", {ARef("instantiate", Condition, "none")}),
                    "effects", {AnEffect("call")})
    /\ Into({"arguments", "class_body"}, ctx)
    /\ Keep

-----------------------------------------------------------------------------
(* The constructs that guard what is in them.                              *)
Branches == {"consequence", "alternative"}

WalkIf ==                                          \* and walk_ternary
    /\ IsAt({"if_statement", "ternary_expression"})
    /\ Into({"condition"}, ctx) \/ Into(Branches, With("conditional"))
    /\ UNCHANGED facts /\ Keep

WalkLoop ==
    /\ IsAt(Loops)
    /\ Into({"body"}, With("loop")) \/ Into({"condition", "value"}, ctx)
    /\ UNCHANGED facts /\ Keep

WalkSwitch ==
    /\ IsAt({"switch_expression"})
    /\ Into({"condition"}, ctx) \/ Into({"case"}, With("conditional"))
    /\ UNCHANGED facts /\ Keep

WalkTry ==
    /\ IsAt({"try_statement"})
    /\ \/ Into({"resources", "body", "finally"}, ctx)
       \/ Into({"except"}, With("exception"))
    /\ UNCHANGED facts /\ Keep

WalkSynchronized ==
    /\ IsAt({"synchronized_statement"})
    /\ facts' = Add(facts, "effects", {AnEffect("blocks")})
    /\ Into({"value", "body"}, ctx)
    /\ Keep

WalkChildren == Through({"static_initializer", "lambda_expression",
    "local_variable_declaration", "assignment_expression", "return_statement",
    "field_access", "binary_expression", "parenthesized_expression", "identifier"})

-----------------------------------------------------------------------------
(* classify_rhs, classify_field, deepest_base_ident, operand_sources,      *)
(* opaque_call_arg_paths.  Of a ternary the branches are operands.         *)
Fields == {"field_access"}
Wrappers == {"parenthesized_expression"}
Operators == {"binary_expression", "ternary_expression"}
Values ==
    [field |-> Fields, operator |-> Operators, baseWrapper |-> Wrappers,
     operandWrapper |-> Wrappers, wrapper |-> Wrappers, composed |-> {},
     stop |-> {}, opaque |-> Calls, call |-> Calls, through |-> Wrappers]

SsaAssignment ==
    /\ Kind \in {"local_variable_declaration", "assignment_expression",
                 "return_statement"}
    /\ facts' = IF Reads = "field" THEN facts         \* binding_name
                ELSE Add(facts, "flows", FlowsOf(Values, ctx, at, at + 1))
    /\ Into({"value"}, ctx)

(* The variable of an enhanced for derives from what is iterated.          *)
SsaForEach ==
    /\ Kind = "enhanced_for_statement"
    /\ \/ /\ Into({"value"}, ctx)
          /\ facts' = IF ~OperandAt(Values, at + 1) THEN facts
                      ELSE Add(facts, "flows",
                        {[fn |-> ctx.prefix, to |-> at, how |-> "source",
                          cut |-> "none", cond |-> Resolve(ctx.conds \cup {"loop"})]})
       \/ Into({"body"}, With("loop")) /\ UNCHANGED facts

SsaGuarded ==
    /\ \/ /\ Kind = "if_statement"
          /\ Into({"condition"}, ctx) \/ Into(Branches, With("conditional"))
       \/ /\ Kind \in Loops \ {"enhanced_for_statement"}
          /\ Into({"body"}, With("loop")) \/ Into({"condition"}, ctx)
       \/ /\ Kind = "switch_expression"
          /\ Into({"condition"}, ctx) \/ Into({"case"}, With("conditional"))
    /\ UNCHANGED facts

(* Everything else as it is, a catch too; only a lambda is not entered.    *)
SsaOther ==
    /\ Kind \notin Loops \cup {"local_variable_declaration", "assignment_expression",
          "return_statement", "if_statement", "switch_expression"}
    /\ at' = IF Kind = "lambda_expression" \/ Role = "leaf" THEN Len(path) + 1
             ELSE at + 1
    /\ UNCHANGED <<ctx, facts>>

SsaWalk ==
    /\ lang = "java" /\ Flowing
    /\ SsaAssignment \/ SsaForEach \/ SsaGuarded \/ SsaOther
    /\ Keep

JavaNext ==
    \/ /\ lang = "java"
       /\ \/ WalkType \/ WalkMethod \/ RecordDef \/ WalkInvocation
          \/ WalkObjectCreation \/ WalkIf \/ WalkLoop \/ WalkSwitch \/ WalkTry
          \/ WalkSynchronized \/ WalkChildren
    \/ lang = "java" /\ StartSsa({})
    \/ SsaWalk
=============================================================================
