----------------------------- MODULE SyntaxWalk -----------------------------
(***************************************************************************)
(* What the seven language adapters have in common.  An adapter walks the  *)
(* syntax tree of one file, carrying a context (name prefix, scope, the    *)
(* guards it is under), and leaves facts: definitions, references (calls), *)
(* effects and, in a second pass over each function body, the assignments  *)
(* through which values flow.  Nothing an adapter learns from one child    *)
(* changes how it walks the next (what it collects beforehand, such as the *)
(* macros of a C file, is an attribute of the node that uses it), so the   *)
(* facts of a tree are the union of the facts of its paths: here a tree is *)
(* ONE path, from the root of the file to a leaf, any path of the grammar. *)
(*                                                                         *)
(* A node is [k |-> kind, r |-> the role of the next node in it, c |-> what*)
(* the handler reads off its text].  A qualified name is the sequence of   *)
(* the positions of the nodes that are named in it; a scope is the chain   *)
(* of the names that own the scopes around it (<<>> is the file's own).    *)
(***************************************************************************)
EXTENDS Naturals, Sequences, FiniteSets

VARIABLES
    lang,       \* the adapter that handles the file
    path,       \* the nodes from the root of the file to one leaf
    at,         \* the node the pass has come to; past the end: it is over
    ctx,        \* Ctx: what the walk carries down
    pass,       \* "walk", then "ssa" for each function met, then "done"
    frames,     \* what the handlers above still do when this one returns
    facts       \* FileFacts, as sets
walkVars == <<lang, path, at, ctx, pass, frames, facts>>

Conditions == {"always", "conditional", "loop", "exception", "panic"}

Precedence == [c \in Conditions |->
    CASE c = "always" -> 0 [] c = "conditional" -> 1 [] c = "loop" -> 2
      [] c = "exception" -> 3 [] c = "panic" -> 4]

(* EdgeCondition::resolve: the label that wins among those around a call.  *)
Resolve(conds) ==
    CHOOSE c \in conds \cup {"always"} :
       \A d \in conds \cup {"always"} : Precedence[d] <= Precedence[c]

-----------------------------------------------------------------------------
(* The context.                                                            *)

RootCtx == [prefix |-> <<>>, scope |-> <<>>, conds |-> {}, members |-> FALSE]


(* Mutant: the guards around a function stay on in its body.               *)
EnterBody_Leaks(fqn, scope) ==
    [prefix |-> fqn, scope |-> scope, conds |-> ctx.conds, members |-> FALSE]
EnterBody(fqn, scope) ==
    [prefix |-> fqn, scope |-> scope, conds |-> {}, members |-> FALSE]
EnterMembers(fqn, scope) == [EnterBody(fqn, scope) EXCEPT !.members = TRUE]
With(c) == [ctx EXCEPT !.conds = @ \cup {c}, !.members = FALSE]
WithScope(scope) == [ctx EXCEPT !.scope = scope, !.members = FALSE]
Condition == Resolve(ctx.conds)


(* Mutant: the scope is not entered.                                       *)
Push_Forgotten(owner) == ctx.scope
Push(owner) == Append(ctx.scope, owner)     \* ScopeTree::push
Named == Append(ctx.prefix, at)             \* join(prefix, the node's name)

-----------------------------------------------------------------------------
(* Moving along the path, and the facts.                                   *)

Kind == path[at].k
Role == path[at].r
Reads == path[at].c
Next1 == path[at + 1]
Walking == pass = "walk" /\ at <= Len(path)
IsAt(kinds) == Walking /\ Kind \in kinds

Into(roles, c) == Role \in roles /\ at' = at + 1 /\ ctx' = c
Leave(roles) == Role \in roles /\ at' = Len(path) + 1 /\ UNCHANGED ctx
Keep == UNCHANGED <<lang, path, pass, frames>>

NoFacts == [defs |-> {}, refs |-> {}, effects |-> {}, cuts |-> {},
            relations |-> {}, entries |-> {}, marks |-> {}, flows |-> {}]
Add(fs, field, xs) == [fs EXCEPT ![field] = @ \cup xs]

ADef(fqn, kind) == [fqn |-> fqn, kind |-> kind, scope |-> ctx.scope]
ARef(kind, cond, implicit) ==
    [at |-> at, kind |-> kind, scope |-> ctx.scope, cond |-> cond,
     implicit |-> implicit]

(* Mutant: the innermost scope is credited, a closure too.                 *)
AnEffect_Innermost(what) ==
    [at |-> at, what |-> what,
     owner |-> IF ctx.scope = <<>> THEN <<>> ELSE ctx.scope[Len(ctx.scope)]]
AnEffect(what) == [at |-> at, owner |-> ctx.prefix, what |-> what]

(* A node with no handler of its own: every child is walked as it is.      *)
Through(kinds) ==
    /\ IsAt(kinds)
    /\ at' = at + 1
    /\ UNCHANGED <<ctx, facts>> /\ Keep

-----------------------------------------------------------------------------
(* How the leaf of the path reaches the value at i (classify_rhs and what  *)
(* it calls), in a language with these kinds of expression:                *)
(*   field     x.f, x[i]: a source with the field if x is a name, else the *)
(*             deepest name, marked truncated                              *)
(*   operator  every operand is a source                                   *)
(*   wrapper   the value inside it is the value                            *)
(*   composed  every name below is a source, down to the kinds in stop     *)
(*   opaque    no source, marked as an opaque call, whose arguments are    *)
(*             kept when they are operands (through: found inside these)   *)
(* Anything else has neither source nor mark.                              *)

IsName(i) == i = Len(path) /\ path[i].k = "identifier"
IsBase(i) == path[i].r # "index"            \* the index is not the base
IsOperand(i) == path[i].r # "condition"     \* nor what a choice tests
ReadAs(how, cut) == [how |-> how, cut |-> cut]
SourceIf(ok, cut) == ReadAs(IF ok THEN "source" ELSE "none", cut)

RECURSIVE BaseAt(_, _), OperandAt(_, _), ArgumentAt(_, _), ValueAt(_, _)

BaseAt(L, i) ==                                  \* deepest_base_ident
    \/ IsName(i)
    \/ path[i].k \in L.field \cup L.baseWrapper /\ IsBase(i) /\ BaseAt(L, i + 1)

OperandAt(L, i) ==                               \* operand_sources
    \/ IsName(i)
    \/ path[i].k \in L.field /\ IsBase(i) /\ BaseAt(L, i + 1)
    \/ path[i].k \in L.operator \cup L.operandWrapper
          /\ IsOperand(i) /\ OperandAt(L, i + 1)

ArgumentAt(L, i) ==                              \* opaque_call_arg_paths
    \/ path[i].k \in L.through /\ ArgumentAt(L, i + 1)
    \/ path[i].k \in L.call /\ path[i].r = "arguments" /\ OperandAt(L, i + 1)

ValueAt(L, i) ==                                 \* classify_rhs
    CASE path[i].k = "identifier" -> SourceIf(IsName(i), "none")
      [] path[i].k \in L.field ->
            SourceIf(IsBase(i) /\ BaseAt(L, i + 1),
                     IF IsName(i + 1) THEN "none" ELSE "truncated")
      [] path[i].k \in L.operator -> SourceIf(IsOperand(i) /\ OperandAt(L, i + 1), "none")
      [] path[i].k \in L.composed ->
            SourceIf(IsName(Len(path)) /\ \A j \in i + 1 .. Len(path) :
                                             path[j].k \notin L.stop, "none")
      [] path[i].k \in L.opaque ->
            ReadAs(IF ArgumentAt(L, i) THEN "arg" ELSE "none", "opaque")
      [] path[i].k \in L.wrapper -> ValueAt(L, i + 1)
      [] OTHER -> SourceIf(FALSE, "none")

(* The facts of one assignment (ssa_assignment, ssa_return): one for each  *)
(* source, one without a source for an opaque call, or none.               *)
FlowsOf(L, c, to, i) ==
    LET v == ValueAt(L, i)
    IN  IF v.how = "none" /\ v.cut # "opaque" THEN {}
        ELSE {[fn |-> c.prefix, to |-> to, how |-> v.how, cut |-> v.cut,
               cond |-> Resolve(c.conds)]}

-----------------------------------------------------------------------------
(* The passes: the walk, then the data-flow pass of every body it entered, *)
(* the innermost first as the recursion returns.                           *)

StartWalk(l, p) ==
    /\ lang = l /\ path = p
    /\ at = 1 /\ ctx = RootCtx /\ pass = "walk"
    /\ frames = <<>> /\ facts = NoFacts

Over == pass \in {"walk", "ssa"} /\ at > Len(path)

Frame == frames[Len(frames)]
Later(then, c) == Append(frames, [at |-> at + 1, ctx |-> c, then |-> then])

StartSsa(flows) ==
    /\ Over /\ frames # <<>> /\ Frame.then = "ssa"
    /\ pass' = "ssa"
    /\ at' = Frame.at /\ ctx' = Frame.ctx
    /\ frames' = SubSeq(frames, 1, Len(frames) - 1)
    /\ facts' = Add(facts, "flows", flows)
    /\ UNCHANGED <<lang, path>>

Finish ==
    /\ Over /\ frames = <<>>
    /\ pass' = "done"
    /\ UNCHANGED <<lang, path, at, ctx, frames, facts>>

Flowing == pass = "ssa" /\ at <= Len(path)
Done == pass = "done"
=============================================================================
