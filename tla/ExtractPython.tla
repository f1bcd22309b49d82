--------------------------- MODULE ExtractPython ---------------------------
(***************************************************************************)
(* The Python adapter, one action per handler of Builder::walk.  c of a    *)
(* function is "main", "test" or "other", of a decorated definition        *)
(* "abstract" or "other", of an if "main_guard" when it compares __name__  *)
(* with "__main__".  c of a call is the form of its callee: "plain" a name,*)
(* "class" the name of a class the file has defined by then, "dynamic"     *)
(* eval or exec, "spawn" a starter of threads or tasks, "method" x.m with  *)
(* x a name, "chained" f().m, "deep" x[f()].m, "computed" no name at all.  *)
(***************************************************************************)
EXTENDS SyntaxWalk

Loops == {"for_statement", "while_statement"}
Under(c) == [ctx EXCEPT !.conds = @ \cup {c}]        \* keeps in_class

(* walk_function.  Only the body is walked: not the defaults of its        *)
(* parameters.                                                             *)
Entries == IF Reads = "test" \/ (Reads = "main" /\ ~ctx.members)
           THEN {[fqn |-> Named, kind |-> Reads]} ELSE {}

WalkFunction ==
    /\ IsAt({"function_definition"})
    /\ LET body == EnterBody(Named, Push(Named))
       IN  /\ facts' = Add(Add(facts, "defs",
                  {ADef(Named, IF ctx.members THEN "method" ELSE "function")}),
                  "entries", Entries)
           /\ \/ /\ Into({"body"}, body)
                 /\ frames' = Later("ssa", body)
              \/ /\ Leave({"parameters"})
                 /\ UNCHANGED frames
    /\ UNCHANGED <<lang, path, pass>>

(* walk_class, emit_inheritance: of the superclasses the names are related *)
(* and nothing is walked.                                                  *)
WalkClass ==
    /\ IsAt({"class_definition"})
    /\ facts' = Add(Add(Add(facts, "defs", {ADef(Named, "type")}),
                    "relations", IF Reads \in {"derived", "test"}
                                 THEN {[kind |-> "inherits", at |-> at]} ELSE {}),
                    "entries", IF Reads = "test"
                               THEN {[fqn |-> Named, kind |-> "test"]} ELSE {})
    /\ Into({"body"}, EnterMembers(Named, Push(Named))) \/ Leave({"superclasses"})
    /\ Keep

(* walk_decorated: the definition is walked, the decorators are not; then  *)
(* the definition recorded LAST is marked abstract.                        *)
WalkDecorated ==
    /\ IsAt({"decorated_definition"})
    /\ \/ /\ Into({"definition"}, ctx)
          /\ frames' = IF Reads = "abstract" THEN Later("mark", ctx) ELSE frames
       \/ /\ Leave({"decorator"})
          /\ UNCHANGED frames
    /\ UNCHANGED <<lang, path, pass, facts>>

LastDefined ==
    CHOOSE f \in {d.fqn : d \in facts.defs} :
       \A d \in facts.defs : d.fqn[Len(d.fqn)] <= f[Len(f)]

MarkAbstract ==
    /\ lang = "python"
    /\ Over /\ frames # <<>> /\ Frame.then = "mark"
    /\ facts' = Add(facts, "marks", {[at |-> Frame.at, fqn |-> LastDefined]})
    /\ frames' = SubSeq(frames, 1, Len(frames) - 1)
    /\ UNCHANGED <<lang, path, at, ctx, pass>>

(* walk_assignment: each name on the left is a definition, wherever the    *)
(* statement is; an assignment that is itself a value defines nothing.     *)
IsValue == at > 1 /\ path[at - 1].k = "assignment"
DefKind == IF ctx.members THEN "field" ELSE "variable"

WalkAssignment ==
    /\ IsAt({"assignment"})
    /\ facts' = IF IsValue \/ Reads = "field" THEN facts
                ELSE Add(facts, "defs", {ADef(Named, DefKind)})
    /\ Into({"value"}, ctx)
    /\ Keep

-----------------------------------------------------------------------------
(* classify_callee, emit_call_cut_hints.                                   *)
CalleeKind(c) ==
    CASE c = "class" -> "instantiate"
      [] c \in {"method", "chained", "deep"} -> "virtual"
      [] OTHER -> "call"
Cuts(c, i) == IF c = "dynamic" THEN {[at |-> i]} ELSE {}

(* walk_call: a callee without a name is no reference; a callee x.m is     *)
(* walked only if x is itself a call.                                      *)
WalkCall ==
    /\ IsAt({"call"})
    /\ LET kind == IF Reads = "spawn" THEN "spawn" ELSE CalleeKind(Reads)
           what == IF Reads = "spawn" THEN "spawns" ELSE "call"
           named == Add(Add(facts, "refs", {ARef(kind, Condition, "none")}),
                        "effects", {AnEffect(what)})
       IN  facts' = Add(IF Reads = "computed" THEN facts ELSE named,
                        "cuts", Cuts(Reads, at))
    /\ \/ Into({"arguments"}, ctx)
       \/ Reads \in {"chained", "computed"} /\ Into({"function"}, ctx)
       \/ Reads \notin {"chained", "computed"} /\ Leave({"function"})
       \/ Leave({"leaf"})
    /\ Keep

(* walk_await: an awaited call is one asynchronous reference; of its       *)
(* callee nothing is walked.                                               *)
WalkAwait ==
    /\ IsAt({"await"})
    /\ IF Next1.k # "call"
       THEN UNCHANGED facts /\ Into({"operand"}, ctx)
       ELSE /\ facts' = Add(IF Next1.c = "computed" THEN facts
                            ELSE Add(Add(facts, "refs",
                                 {[ARef("async", Condition, "none")
                                      EXCEPT !.at = at + 1]}),
                                 "effects", {[AnEffect("call") EXCEPT !.at = at + 1]}),
                            "cuts", Cuts(Next1.c, at + 1))
            /\ IF Next1.r = "arguments"
               THEN at' = at + 2 /\ UNCHANGED ctx
               ELSE Leave({"operand"})
    /\ Keep

-----------------------------------------------------------------------------
(* The constructs that guard what is in them.                              *)

(* walk_with: a lock in a with may block.                                  *)
WalkWith ==
    /\ IsAt({"with_statement"})
    /\ facts' = IF Reads = "lock" THEN Add(facts, "effects", {AnEffect("blocks")})
                ELSE facts
    /\ Into({"item", "body"}, ctx)
    /\ Keep

(* walk_if and detect_name_main_guard.                                     *)
WalkIf ==
    /\ IsAt({"if_statement"})
    /\ facts' = IF Reads = "main_guard" /\ ctx.scope = <<>>
                THEN Add(facts, "entries", {[fqn |-> <<at>>, kind |-> "main"]})
                ELSE facts
    /\ \/ Into({"condition"}, ctx)
       \/ Into({"consequence", "alternative"}, Under("conditional"))
    /\ Keep

WalkConditional ==
    /\ IsAt({"conditional_expression"})
    /\ Into({"condition", "consequence", "alternative"}, Under("conditional"))
    /\ UNCHANGED facts /\ Keep

WalkMatch ==
    /\ IsAt({"match_statement"})
    /\ Into({"subject"}, ctx) \/ Into({"case"}, Under("conditional"))
    /\ UNCHANGED facts /\ Keep

WalkLoop ==
    /\ IsAt(Loops)
    /\ Into({"body"}, Under("loop")) \/ Into({"condition"}, ctx)
    /\ UNCHANGED facts /\ Keep

(* walk_try: of its clauses, except* is not among those walked.            *)
WalkTry ==
    /\ IsAt({"try_statement"})
    /\ \/ Into({"body", "else"}, ctx)
       \/ Into({"except"}, Under("exception"))
       \/ Into({"finally"}, Under("always"))
       \/ Leave({"except_group"})
    /\ UNCHANGED facts /\ Keep

WalkChildren == Through({"augmented_assignment", "return_statement", "lambda",
    "attribute", "subscript", "binary_operator", "parenthesized_expression",
    "named_expression", "list", "identifier"})

-----------------------------------------------------------------------------
(* classify_rhs, classify_projection, deepest_base_ident, operand_sources, *)
(* composed_sources, opaque_call_arg_paths.                                *)
Fields == {"attribute", "subscript"}
Operators == {"binary_operator"}
Parentheses == {"parenthesized_expression"}
Wrappers == Parentheses \cup {"named_expression"}
Composed == {"list"}
Opaque == {"call"}
Values ==
    [field |-> Fields, operator |-> Operators, baseWrapper |-> Parentheses,
     operandWrapper |-> Wrappers, wrapper |-> Wrappers, composed |-> Composed,
     stop |-> {"lambda"} \cup Opaque, opaque |-> Opaque, call |-> Opaque,
     through |-> Parentheses]

(* ssa_augmented: the variable itself is a source too.                     *)
Augmented ==
    {[fn |-> ctx.prefix, to |-> at, how |-> h, cut |-> "none", cond |-> Condition] :
       h \in {"self"} \cup IF OperandAt(Values, at + 1) THEN {"source"} ELSE {}}

SsaBinding ==
    /\ Kind \in {"assignment", "augmented_assignment", "return_statement",
                 "named_expression"}
    /\ facts' = CASE Reads = "field" \/ (Kind = "assignment" /\ IsValue) -> facts
                  [] Kind = "augmented_assignment" -> Add(facts, "flows", Augmented)
                  [] OTHER -> Add(facts, "flows", FlowsOf(Values, ctx, at, at + 1))
    /\ Into({"value"}, ctx)

SsaGuarded ==
    /\ \/ /\ Kind = "if_statement"
          /\ \/ Into({"condition"}, ctx)
             \/ Into({"consequence", "alternative"}, Under("conditional"))
       \/ /\ Kind \in Loops
          /\ Into({"body"}, Under("loop")) \/ Leave({"condition"})
       \/ /\ Kind = "try_statement"
          /\ \/ Into({"body", "else", "finally"}, ctx)
             \/ Into({"except", "except_group"}, Under("exception"))
       \/ /\ Kind = "match_statement"
          /\ Into({"subject", "case"}, Under("conditional"))
    /\ UNCHANGED facts

(* Nested definitions and lambdas have a pass of their own, or none.       *)
Inner == {"function_definition", "class_definition", "decorated_definition",
          "lambda"}

SsaOther ==
    /\ Kind \notin Loops \cup {"assignment", "augmented_assignment",
          "return_statement", "named_expression", "if_statement",
          "try_statement", "match_statement"}
    /\ at' = IF Kind \in Inner \/ Role = "leaf" THEN Len(path) + 1 ELSE at + 1
    /\ UNCHANGED <<ctx, facts>>

SsaWalk ==
    /\ lang = "python" /\ Flowing
    /\ SsaBinding \/ SsaGuarded \/ SsaOther
    /\ Keep

PythonNext ==
    \/ /\ lang = "python"
       /\ \/ WalkFunction \/ WalkClass \/ WalkDecorated \/ WalkAssignment
          \/ WalkCall \/ WalkAwait \/ WalkWith \/ WalkIf \/ WalkConditional
          \/ WalkMatch \/ WalkLoop \/ WalkTry \/ WalkChildren
    \/ lang = "python" /\ StartSsa({})
    \/ MarkAbstract
    \/ SsaWalk
=============================================================================
