----------------------------- MODULE ExtractTs -----------------------------
(***************************************************************************)
(* The TypeScript and JavaScript adapter, one action per handler.  Unlike  *)
(* the others it keeps the guards on a stack of the builder, which nothing *)
(* empties on the way into a function.  c of a call is the form of its     *)
(* callee: "plain" a name, "lambda" the name of an arrow function kept in  *)
(* a variable, "method" x.m with x a name, "loop" x.map and the like,      *)
(* "chained" f().m, "deep" f().x.m, "computed" no name at all, "import"    *)
(* import or require, "eval"; of an assignment "exports" when it sets a    *)
(* property of module.exports, "field" when it sets another.               *)
(***************************************************************************)
EXTENDS SyntaxWalk

Arrows == {"arrow_function", "function_expression"}
Loops == {"for_statement", "while_statement"}
Statements == Loops \cup {"if_statement", "switch_statement", "try_statement",
                          "throw_statement"}

Enter(fqn) == [ctx EXCEPT !.prefix = fqn, !.scope = Push(fqn)]
Fresh(c) == [c EXCEPT !.conds = {}]

(* record_effects, scope_owner_fqn: the nearest scope with a name, if any. *)
OwnEffects(whats) == IF ctx.scope = <<>> THEN {} ELSE {AnEffect(w) : w \in whats}

(* walk_program: at the top of a file a statement that is not a            *)
(* declaration or an expression is not walked.                             *)
WalkProgram ==
    /\ lang = "typescript" /\ Walking /\ at = 1 /\ Kind \in Statements
    /\ at' = Len(path) + 1
    /\ UNCHANGED <<ctx, facts>> /\ Keep

IsIn(kinds) == IsAt(kinds) /\ (at > 1 \/ Kind \notin Statements)

(* handle_export: a declaration is handled as if it were not exported, an  *)
(* expression is not walked.                                               *)
WalkExport ==
    /\ IsAt({"export_statement"})
    /\ Into({"declaration"}, ctx) \/ Leave({"value"})
    /\ UNCHANGED facts /\ Keep

(* handle_function_decl and handle_method_def.                             *)
WalkFunction ==
    /\ IsAt({"function_declaration", "method_definition"})
    /\ LET kind == IF Kind = "method_definition" THEN "method" ELSE "function"
       IN  facts' = Add(Add(facts, "defs", {ADef(Named, kind)}), "entries",
              IF Reads = "main" /\ kind = "function"
              THEN {[fqn |-> Named, kind |-> "main"]} ELSE {})
    /\ Into({"body"}, Enter(Named))
    /\ frames' = Later("ssa", Fresh(Enter(Named)))
    /\ UNCHANGED <<lang, path, pass>>

(* handle_class_decl and walk_class_body: of the members only methods have *)
(* a body that is walked.                                                  *)
WalkClass ==
    /\ IsAt({"class_declaration"})
    /\ facts' = Add(facts, "defs", {ADef(Named, "type")})
    /\ Into({"body"}, Enter(Named)) \/ Leave({"heritage", "static_block"})
    /\ Keep

(* handle_interface_decl, handle_named_type, handle_field_def.             *)
RecordDef ==
    /\ IsAt({"interface_declaration", "field_definition"})
    /\ facts' = Add(facts, "defs",
          {ADef(Named, IF Kind = "field_definition" THEN "field" ELSE "type")})
    /\ Leave({"value"})
    /\ Keep

-----------------------------------------------------------------------------
(* handle_variable_declarator.  The body of an arrow function kept in a    *)
(* variable is handed to walk_body, which walks the CHILDREN of a node as  *)
(* statements: those of a block, but also those of an expression, so that  *)
(* neither the expression nor what it is directly made of is handled.      *)
Skipped(body) == IF path[body].k \in Arrows \/ path[body].r \in {"arguments", "function"}
                 THEN body + 1 ELSE body + 2

WalkNamedLambda ==
    /\ IsAt({"lexical_declaration"}) /\ Role = "value" /\ Next1.k \in Arrows
    /\ facts' = Add(facts, "defs", {ADef(Named, "lambda")})
    /\ ctx' = Enter(Named)
    /\ \/ /\ Next1.r = "body"
          /\ at' = at + 2
          /\ frames' = Append(frames,
                [at |-> at + 2, ctx |-> Fresh(ctx'), then |-> "ssa"])
       \/ /\ Next1.r = "expression"
          /\ at' = IF Skipped(at + 2) > Len(path) THEN Len(path) + 1
                   ELSE Skipped(at + 2)
          /\ UNCHANGED frames
    /\ UNCHANGED <<lang, path, pass>>

WalkVariable ==
    /\ IsAt({"lexical_declaration"}) /\ ~(Role = "value" /\ Next1.k \in Arrows)
    /\ facts' = Add(facts, "defs", {ADef(Named, "constant")})
    /\ Into({"value"}, ctx)
    /\ Keep

(* try_commonjs_export: exports.f = an arrow function, at the top of the   *)
(* file.                                                                   *)
IsExport == at = 1 /\ Reads = "exports" /\ Next1.k \in Arrows

WalkCommonJsExport ==
    /\ IsAt({"assignment_expression"}) /\ IsExport
    /\ facts' = Add(facts, "defs", {ADef(Named, "lambda")})
    /\ at' = at + 2 /\ ctx' = Enter(Named)
    /\ frames' = IF Next1.r = "body"
                 THEN Append(frames, [at |-> at + 2, ctx |-> Fresh(ctx'), then |-> "ssa"])
                 ELSE frames
    /\ UNCHANGED <<lang, path, pass>>

-----------------------------------------------------------------------------
(* classify_callee; the references without a name that is known.           *)
CalleeKind(c) ==
    CASE c = "lambda" -> "closure"
      [] c \in {"method", "loop", "chained", "deep"} -> "virtual"
      [] OTHER -> "call"

Calls == {"plain", "test", "lambda", "method", "loop", "chained", "deep"}
WithCall(kind, i) ==
    Add(facts, "refs", {[ARef(kind, Condition, "none") EXCEPT !.at = i]})

(* handle_call_expr.  A callee x.m is walked only if x is a call; the      *)
(* arguments of a loop method are under a loop.                            *)
Arguments == IF Reads = "loop" THEN With("loop") ELSE ctx

WalkCall ==
    /\ IsAt({"call_expression"}) /\ Reads \in Calls
    /\ facts' = Add(Add(WithCall(CalleeKind(Reads), at),
                        "effects", OwnEffects({"call"})),
                    "entries", IF Reads = "test" /\ at = 1
                               THEN {[fqn |-> Named, kind |-> "test"]} ELSE {})
    /\ \/ Into({"arguments"}, Arguments)
       \/ Reads = "chained" /\ Into({"function"}, ctx)
       \/ Reads # "chained" /\ Leave({"function"})
       \/ Leave({"leaf"})
    /\ Keep

(* A callee that has no name: no reference, and only the arguments.        *)
WalkComputedCall ==
    /\ IsAt({"call_expression"}) /\ Reads = "computed"
    /\ Into({"arguments"}, ctx) \/ Leave({"function"})
    /\ UNCHANGED facts /\ Keep

(* handle_dynamic_import, handle_require: nothing below is walked.         *)
WalkImportCall ==
    /\ IsAt({"call_expression"}) /\ Reads = "import"
    /\ facts' = Add(WithCall("call", at), "cuts", {[at |-> at]})
    /\ Leave({"arguments", "leaf"})
    /\ Keep

(* eval, and the Function constructor of handle_new_expr.                  *)
WalkDynamicCode ==
    /\ IsAt({"call_expression", "new_expression"}) /\ Reads = "eval"
    /\ facts' = Add(Add(WithCall("call", at), "cuts", {[at |-> at]}),
                    "effects", OwnEffects({"dynamic_code"}))
    /\ Into({"arguments"}, ctx)
    /\ Keep

WalkNew ==
    /\ IsAt({"new_expression"}) /\ Reads # "eval"
    /\ facts' = Add(WithCall("instantiate", at), "effects", OwnEffects({"call"}))
    /\ Into({"arguments"}, ctx)
    /\ Keep

(* handle_await_expr: an awaited call is one asynchronous reference; of    *)
(* its callee nothing is walked.                                           *)
WalkAwait ==
    /\ IsAt({"await_expression"})
    /\ IF Next1.k = "call_expression" /\ Next1.c # "computed"
       THEN /\ facts' = IF Next1.c = "import"
                        THEN Add(WithCall("async", at + 1), "cuts", {[at |-> at + 1]})
                        ELSE Add(WithCall("async", at + 1), "effects",
                                 {[e EXCEPT !.at = at + 1] : e \in OwnEffects({"call"})})
            /\ IF Next1.r = "arguments" /\ Next1.c # "import"
               THEN at' = at + 2 /\ UNCHANGED ctx
               ELSE Leave({"operand"})
       ELSE UNCHANGED facts /\ Into({"operand"}, ctx)
    /\ Keep

-----------------------------------------------------------------------------
(* walk_if_stmt: a consequence that is neither a block nor a simple        *)
(* statement is not walked; an alternative always is.                      *)
Dropped == Role = "consequence" /\ Reads = "unbraced"
           /\ Next1.k \in Statements \ {"throw_statement"}

WalkIf ==
    /\ IsIn({"if_statement"})
    /\ \/ Into({"condition"}, ctx)
       \/ Dropped /\ Leave({"consequence"})
       \/ ~Dropped /\ Into({"consequence", "alternative"}, With("conditional"))
    /\ UNCHANGED facts /\ Keep

(* walk_switch_stmt, walk_for_stmt, walk_while_stmt: only the body.        *)
WalkSwitch ==
    /\ IsIn({"switch_statement"})
    /\ Into({"case"}, With("conditional")) \/ Leave({"value"})
    /\ UNCHANGED facts /\ Keep

WalkLoop ==
    /\ IsIn(Loops)
    /\ Into({"body"}, With("loop")) \/ Leave({"condition"})
    /\ UNCHANGED facts /\ Keep

WalkTry ==
    /\ IsIn({"try_statement"})
    /\ \/ Into({"body"}, ctx)
       \/ Into({"except"}, With("exception"))
       \/ Into({"finally"}, With("always"))
    /\ UNCHANGED facts /\ Keep

WalkTernary ==
    /\ IsAt({"ternary_expression"})
    /\ \/ Into({"condition"}, ctx)
       \/ Into({"consequence", "alternative"}, With("conditional"))
    /\ UNCHANGED facts /\ Keep

(* walk_expr of anything else, an arrow function without a name among it.  *)
WalkChildren ==
    /\ ~(IsAt({"assignment_expression"}) /\ IsExport)
    /\ Walking /\ (at > 1 \/ Kind # "throw_statement")
    /\ Through(Arrows \cup {"assignment_expression", "augmented_assignment_expression",
          "return_statement", "throw_statement", "binary_expression",
          "parenthesized_expression", "member_expression", "array", "identifier"})

-----------------------------------------------------------------------------
(* classify_rhs, classify_projection, deepest_base_ident, operand_sources, *)
(* composed_sources, unwrap_expr, opaque_call_arg_paths.                   *)
Fields == {"member_expression"}
Operators == {"binary_expression"}

(* Mutant: parentheses are not looked through.                             *)
Wrappers_AwaitOnly == {"await_expression"}
Wrappers == {"parenthesized_expression", "await_expression"}

Composed == {"array"}
Opaque == {"call_expression", "new_expression"}
Values ==
    [field |-> Fields, operator |-> Operators, baseWrapper |-> Wrappers,
     operandWrapper |-> Wrappers, wrapper |-> Wrappers, composed |-> Composed,
     stop |-> Opaque \cup Arrows, opaque |-> Opaque, call |-> Opaque,
     through |-> Wrappers]

(* ssa_augmented: the variable itself is a source too.                     *)
Augmented ==
    {[fn |-> ctx.prefix, to |-> at, how |-> h, cut |-> "none", cond |-> Condition] :
       h \in {"self"} \cup IF OperandAt(Values, at + 1) THEN {"source"} ELSE {}}

SsaBinding ==
    /\ Kind \in {"lexical_declaration", "assignment_expression",
                 "augmented_assignment_expression", "return_statement"}
    /\ facts' = CASE Reads \in {"field", "exports"} -> facts
                  [] Kind = "augmented_assignment_expression" ->
                        Add(facts, "flows", Augmented)
                  [] OTHER -> Add(facts, "flows", FlowsOf(Values, ctx, at, at + 1))
    /\ Into({"value"}, ctx)

(* ssa_walk: the label of the construct REPLACES the one around it.        *)
Now(c) == [ctx EXCEPT !.conds = {c}]

SsaGuarded ==
    /\ \/ /\ Kind = "if_statement"
          /\ \/ Into({"condition"}, ctx)
             \/ Into({"consequence", "alternative"}, Now("conditional"))
       \/ Kind \in Loops /\ (Into({"body"}, Now("loop")) \/ Leave({"condition"}))
       \/ /\ Kind = "switch_statement"
          /\ Into({"case"}, Now("conditional")) \/ Leave({"value"})
       \/ /\ Kind = "try_statement"
          /\ \/ Into({"body"}, ctx)
             \/ Into({"except"}, Now("exception"))
             \/ Into({"finally"}, Now("always"))
    /\ UNCHANGED facts

Inner == Arrows \cup {"function_declaration", "class_declaration"}

SsaOther ==
    /\ Kind \notin Loops \cup {"lexical_declaration", "assignment_expression",
          "augmented_assignment_expression", "return_statement", "if_statement",
          "switch_statement", "try_statement"}
    /\ at' = IF Kind \in Inner \/ Role = "leaf" THEN Len(path) + 1 ELSE at + 1
    /\ UNCHANGED <<ctx, facts>>

SsaWalk ==
    /\ lang = "typescript" /\ Flowing
    /\ SsaBinding \/ SsaGuarded \/ SsaOther
    /\ Keep

TsNext ==
    \/ /\ lang = "typescript"
       /\ \/ WalkProgram \/ WalkExport \/ WalkFunction \/ WalkClass \/ RecordDef
          \/ WalkNamedLambda \/ WalkVariable \/ WalkCommonJsExport
          \/ WalkCall \/ WalkComputedCall \/ WalkImportCall \/ WalkDynamicCode
          \/ WalkNew \/ WalkAwait \/ WalkIf \/ WalkSwitch \/ WalkLoop \/ WalkTry
          \/ WalkTernary \/ WalkChildren
    \/ lang = "typescript" /\ StartSsa({})
    \/ SsaWalk
=============================================================================
