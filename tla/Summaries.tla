------------------------------- MODULE Summaries -------------------------------
(***************************************************************************)
(* Data flow between functions (cgx-resolve: the data-flow half of link.rs,*)
(* ifds.rs, summary.rs, and the dirty set of graph.rs): value nodes and    *)
(* the flows inside a function, read in program order; per function, from  *)
(* which parameters its returned value derives; the edges that these       *)
(* summaries add at each call; and what a second index run reuses.         *)
(*                                                                         *)
(* Functions are numbered, in the order of their names, and so are the     *)
(* names of locals and the paths that calls are written with.  A program   *)
(* is a record: params[f], a sequence of names; facts[f], what the         *)
(* frontends say of the assignments of f, each at a statement, of a        *)
(* version of a name, from a source or else from an opaque call of a path  *)
(* with arguments; refs, the calls as the references they are, each with   *)
(* the edges the link pass gave it; named[p], the function a path is the   *)
(* exact name of, and called[p], those its last part is the name of; the   *)
(* budget; and later, the facts and refs after an edit.                    *)
(***************************************************************************)
EXTENDS Integers, Sequences, FiniteSets, SequencesExt

NoName == 0
NoValue == <<0, 0, 0>>
Return == 9
Wildcard == 0

VARIABLES
  code,       \* the program
  progress,   \* "mint", "read", "sum", "apply" or "done"
  unread,     \* facts still to read, in program order
  current,    \* current[f][x]: version of x that is live
  values,     \* value nodes <<function, name, version>>
  inside,     \* inside[f]: [formals, returns, hops, calls] of f
  summaries,  \* summaries[f]: [transform, condition] per parameter that flows
  group,      \* members of the component being summarised
  turn,       \* the next of them
  grew,       \* some summary of this round changed
  spent,      \* recomputations: [here, all]
  overruns,   \* components given up
  applied,    \* edges between the functions
  prior       \* the run before: facts per function, and its summaries

summaryVars == <<code, progress, unread, current, values, inside, summaries, group, turn, grew,
                 spent, overruns, applied, prior>>

FnIds == DOMAIN code.params

-------------------------------------------------------------------------------
(* Reading.                                                                *)

(* Program order: by statement, then as the facts are stored.              *)
FactKey(x) == <<x.at, x.derived, x.version, x.source>>
Earlier(j, k) == \E i \in DOMAIN j : j[i] < k[i] /\ \A h \in 1 .. i - 1 : j[h] = k[h]
InProgramOrder(facts) == SetToSortSeq(facts, LAMBDA x, y : Earlier(FactKey(x), FactKey(y)))

Mint ==
  /\ progress = "mint"
  /\ values' = UNION {{<<f, v, 0>> : v \in Range(code.params[f])} : f \in FnIds}
  /\ inside' = [f \in FnIds |->
       [formals |-> [i \in DOMAIN code.params[f] |-> <<f, code.params[f][i], 0>>],
        returns |-> {}, hops |-> <<>>, calls |-> <<>>]]
  /\ unread' = FlattenSeq([f \in FnIds |-> InProgramOrder(code.facts[f])])
  /\ progress' = "read"
  /\ UNCHANGED <<code, current, summaries, group, turn, grew, spent, overruns, applied, prior>>

(* The references a call may be: those of its path on its line. *)
RefsLike(x) == {r \in code.refs : r.in = x.in /\ r.line = x.at /\ r.path = x.path}
EdgesOfRef(r) == UNION {s.edges : s \in {s \in code.refs : s.in = r.in /\ s.line = r.line /\ s.col = r.col}}

(* Mutant: one of the calls of that path on the line is enough.            *)
SiteCallees_Any(x) ==
  {e.dst : e \in {e \in UNION {EdgesOfRef(r) : r \in RefsLike(x)} :
                    e.rule \in {"scope-ref", "import-ref"} /\ ~e.grouped}}

(* summary_site_callees: what every one of them was resolved to. *)
SiteCallees(x) ==
  {g \in FnIds :
     /\ RefsLike(x) # {}
     /\ \A r \in RefsLike(x) :
          /\ EdgesOfRef(r) # {}
          /\ \A e \in EdgesOfRef(r) :
               e.dst = g /\ e.rule \in {"scope-ref", "import-ref"} /\ ~e.grouped
          /\ \A s \in RefsLike(x) : s.col = r.col => s = r}

(* ground_summary_callee, 0 for none *)
GroundedCallee(x) ==
  IF SiteCallees(x) # {} THEN CHOOSE g \in SiteCallees(x) : TRUE ELSE code.named[x.path]

Live(f, x) == <<f, x, current[f][x]>>

ReadFact ==
  /\ progress = "read" /\ unread # <<>>
  /\ LET x == Head(unread)
         f == x.in
         derived == <<f, x.derived, x.version>>
         args == [i \in DOMAIN x.args |->
                    IF x.args[i] = NoName THEN NoValue ELSE Live(f, x.args[i])]
         call == [result |-> derived, callee |-> GroundedCallee(x), args |-> args,
                  condition |-> x.condition, of |-> x]
         hop == [from |-> derived, to |-> Live(f, x.source), transform |-> x.transform,
                 condition |-> x.condition]
     IN  /\ values' = values \cup {derived}
              \cup (IF x.source # NoName THEN {hop.to} ELSE {})
              \cup {args[i] : i \in {i \in DOMAIN args : x.args[i] # NoName}}
         /\ inside' = [inside EXCEPT
              ![f].returns = @ \cup (IF x.derived = Return THEN {derived} ELSE {}),
              ![f].calls = IF x.opaque THEN Append(@, call) ELSE @,
              ![f].hops = IF x.source # NoName THEN Append(@, hop) ELSE @]
         /\ current' = [current EXCEPT ![f][x.derived] = x.version]
  /\ unread' = Tail(unread)
  /\ UNCHANGED <<code, progress, summaries, group, turn, grew, spent, overruns, applied, prior>>

-------------------------------------------------------------------------------
(* Summaries.                                                              *)

JoinTransform(a, b) ==
  CASE a = "copy" -> b
    [] b = "copy" -> a
    [] OTHER      -> IF a = b THEN a ELSE "other"
JoinCondition(a, b) == IF a >= b THEN a ELSE b
JoinFact(a, b) ==
  [transform |-> JoinTransform(a.transform, b.transform),
   condition |-> JoinCondition(a.condition, b.condition)]

(* What the summary of the callee says of a call: result from argument. *)
VirtualHops(c) ==
  LET known == IF c.callee \in DOMAIN summaries THEN summaries[c.callee] ELSE <<>>
      is == SetToSortSeq({i \in DOMAIN known : i \in DOMAIN c.args /\ c.args[i] # NoValue}, <)
  IN  [k \in DOMAIN is |->
         [from |-> c.result, to |-> c.args[is[k]], transform |-> known[is[k]].transform,
          condition |-> JoinCondition(known[is[k]].condition, c.condition)]]

HopsOf(f) ==
  inside[f].hops \o FlattenSeq([k \in DOMAIN inside[f].calls |-> VirtualHops(inside[f].calls[k])])

(* Backwards from a return; the last hop of a value is taken first, and a  *)
(* value once.                                                             *)
RECURSIVE Reach(_, _, _)
Reach(hops, stack, met) ==
  IF stack = <<>> THEN met
  ELSE LET top == Last(stack)
           rest == Front(stack)
           next == SelectSeq(hops, LAMBDA h : h.from = top.at)
       IN  IF top.at \in DOMAIN met THEN Reach(hops, rest, met)
           ELSE Reach(hops,
                  rest \o [k \in DOMAIN next |->
                     [at |-> next[k].to, is |-> JoinFact(top.is, next[k])]],
                  [v \in DOMAIN met \cup {top.at} |-> IF v = top.at THEN top.is ELSE met[v]])

CopyOnly == [transform |-> "copy", condition |-> 0]

ComputeSummary(f) ==
  LET hops == HopsOf(f)
      met == [r \in inside[f].returns |-> Reach(hops, <<[at |-> r, is |-> CopyOnly]>>, <<>>)]
      formal == inside[f].formals
      Meets(i) == {r \in DOMAIN met : formal[i] \in DOMAIN met[r]}
      flowing == {i \in DOMAIN formal : Meets(i) # {}}
  IN  [i \in flowing |-> FoldSet(LAMBDA r, acc : JoinFact(acc, met[r][formal[i]]), CopyOnly, Meets(i))]

Least(S) == CHOOSE x \in S : \A y \in S : x <= y

(* Mutant: a callee counts only if it was met before its caller.           *)
Callees_Earlier(f) == {c.callee : c \in Range(inside[f].calls)} \cap 1 .. f

Callees(f) == {c.callee : c \in Range(inside[f].calls)} \cap FnIds
CallsFrom ==
  LET within[n \in 0 .. Cardinality(FnIds)] ==
        IF n = 0 THEN {<<f, f>> : f \in FnIds}
        ELSE within[n - 1] \cup {<<p[1], g>> : <<p, g>> \in
               {<<p, g>> \in within[n - 1] \X FnIds : g \in Callees(p[2])}}
  IN  within[Cardinality(FnIds)]
ComponentOf(f) == {g \in FnIds : <<f, g>> \in CallsFrom /\ <<g, f>> \in CallsFrom}

Cap == IF code.budget \div 10 > 1 THEN code.budget \div 10 ELSE 1
Spent(s) == s.here > Cap \/ s.all > code.budget

(* Components are taken callees first. *)
NextComponent ==
  /\ \/ progress = "read" /\ unread = <<>>
     \/ progress = "sum" /\ group = {}
  /\ \E f \in FnIds \ DOMAIN summaries :
       /\ \A g \in FnIds : <<f, g>> \in CallsFrom => g \in ComponentOf(f) \cup DOMAIN summaries
       /\ group' = ComponentOf(f)
       /\ turn' = Least(ComponentOf(f))
  /\ progress' = "sum"
  /\ grew' = FALSE
  /\ spent' = [spent EXCEPT !.here = 0]
  /\ UNCHANGED <<code, unread, current, values, inside, summaries, overruns, applied, prior>>

(* One member; a round that changed something is followed by another. *)
Recompute ==
  /\ progress = "sum" /\ group # {}
  /\ LET new == ComputeSummary(turn)
         changed == turn \notin DOMAIN summaries \/ summaries[turn] # new
         now == [here |-> spent.here + 1, all |-> spent.all + 1]
         rest == {g \in group : g > turn}
         ended == rest = {} /\ ~(grew \/ changed)
         known == DOMAIN summaries \cup {turn} \cup (IF Spent(now) THEN group ELSE {})
     IN  /\ summaries' = [f \in known |->
                IF f = turn THEN new
                ELSE IF f \in DOMAIN summaries THEN summaries[f] ELSE <<>>]
         /\ spent' = now
         /\ overruns' = IF Spent(now) THEN overruns + 1 ELSE overruns
         /\ progress' = IF now.all > code.budget THEN "apply" ELSE progress
         /\ group' = IF Spent(now) \/ ended THEN {} ELSE group
         /\ turn' = IF rest # {} THEN Least(rest) ELSE Least(group)
         /\ grew' = (rest # {} /\ (grew \/ changed))
  /\ UNCHANGED <<code, unread, current, values, inside, applied, prior>>

-------------------------------------------------------------------------------
(* Edges between functions.                                                *)

Applied ==
  FlattenSeq([f \in FnIds |->
    FlattenSeq([k \in DOMAIN inside[f].calls |-> VirtualHops(inside[f].calls[k])])])

(* Mutant: only the edges beyond the budget carry the mark.                *)
Apply_LateMark ==
  /\ \/ progress = "sum" /\ group = {} /\ DOMAIN summaries = FnIds
     \/ progress = "apply"
  /\ applied' = [k \in DOMAIN Applied |-> [hop |-> Applied[k], marked |-> k > code.budget]]
  /\ progress' = "done"
  /\ UNCHANGED <<code, unread, current, values, inside, summaries, group, turn, grew, spent,
                 overruns, prior>>

Apply ==
  /\ \/ progress = "sum" /\ group = {} /\ DOMAIN summaries = FnIds
     \/ progress = "apply"
  /\ applied' = [k \in DOMAIN Applied |->
                 [hop |-> Applied[k], marked |-> k > code.budget \/ overruns > 0]]
  /\ progress' = "done"
  /\ UNCHANGED <<code, unread, current, values, inside, summaries, group, turn, grew, spent,
                 overruns, prior>>

-------------------------------------------------------------------------------
(* The next run.                                                           *)

Never == [facts |-> <<>>, summaries |-> <<>>, overruns |-> 0]

(* changed_fns: of the functions with facts. *)
Changed ==
  {f \in FnIds : /\ code.facts[f] # {}
                 /\ f \notin DOMAIN prior.facts \/ prior.facts[f] # code.facts[f]}

(* ground_callee of each opaque call. *)
Dependency(x) ==
  IF x.path = NoName THEN Wildcard
  ELSE IF code.named[x.path] # 0 THEN code.named[x.path]
  ELSE IF Cardinality(code.called[x.path]) = 1 THEN CHOOSE g \in code.called[x.path] : TRUE
  ELSE Wildcard
DependsOn(f) == {Dependency(x) : x \in {x \in code.facts[f] : x.opaque}}

(* Mutant: an unknown callee is no dependency.                             *)
PropagateDirty_Known(seed) ==
  LET dirty[n \in 0 .. Cardinality(FnIds)] ==
        IF n = 0 THEN seed
        ELSE dirty[n - 1] \cup {f \in FnIds : DependsOn(f) \cap dirty[n - 1] # {}}
  IN  dirty[Cardinality(FnIds)]

(* propagate_dirty: with all that depends on a changed function, or on an  *)
(* unknown one if there is any change. *)
PropagateDirty(seed) ==
  LET dirty[n \in 0 .. Cardinality(FnIds)] ==
        IF n = 0
        THEN seed \cup (IF seed = {} THEN {} ELSE {f \in FnIds : Wildcard \in DependsOn(f)})
        ELSE dirty[n - 1] \cup {f \in FnIds : DependsOn(f) \cap dirty[n - 1] # {}}
  IN  dirty[Cardinality(FnIds)]

StartOver(c) ==
  /\ code' = c
  /\ progress' = "mint"
  /\ unread' = <<>>
  /\ current' = [f \in DOMAIN c.params |-> [x \in 1 .. Return |-> 0]]
  /\ values' = {}
  /\ inside' = <<>>
  /\ summaries' = <<>>
  /\ group' = {}
  /\ turn' = 0
  /\ grew' = FALSE
  /\ spent' = [here |-> 0, all |-> 0]
  /\ overruns' = 0
  /\ applied' = <<>>

(* The program is edited and indexed again. *)
Reindex ==
  /\ progress = "done" /\ prior = Never
  /\ StartOver([code EXCEPT !.facts = code.later.facts, !.refs = code.later.refs])
  /\ prior' = [facts |-> code.facts, summaries |-> summaries, overruns |-> overruns]

SummariesInit(c) ==
  /\ code = c
  /\ progress = "mint"
  /\ unread = <<>>
  /\ current = [f \in DOMAIN c.params |-> [x \in 1 .. Return |-> 0]]
  /\ values = {}
  /\ inside = <<>>
  /\ summaries = <<>>
  /\ group = {}
  /\ turn = 0
  /\ grew = FALSE
  /\ spent = [here |-> 0, all |-> 0]
  /\ overruns = 0
  /\ applied = <<>>
  /\ prior = Never

SummariesNext ==
  Mint \/ ReadFact \/ NextComponent \/ Recompute \/ Apply \/ Reindex

-------------------------------------------------------------------------------
(* What holds.                                                             *)

(* A hop per way through each call of f, given flows[g][i]: each way that  *)
(* the result of g derives from its parameter i.                           *)
CallHops(f, flows) ==
  UNION {
    UNION {{[from |-> c.result, to |-> c.args[i], transform |-> w.transform,
             condition |-> JoinCondition(w.condition, c.condition)] : w \in flows[c.callee][i]} :
           i \in {i \in DOMAIN flows[c.callee] \cap DOMAIN c.args : c.args[i] # NoValue}} :
    c \in {c \in Range(inside[f].calls) : c.callee \in FnIds}}

RECURSIVE WaysBack(_, _)
WaysBack(hops, ways) ==
  LET more == ways \cup UNION {{[at |-> h.to, is |-> JoinFact(w.is, h)] :
                                  h \in {h \in hops : h.from = w.at}} : w \in ways}
  IN  IF more = ways THEN ways ELSE WaysBack(hops, more)

(* Each way parameter i of f flows out, one way per return that has one.   *)
WaysOut(f, i, flows) ==
  LET hops == Range(inside[f].hops) \cup CallHops(f, flows)
      From(r) == {w.is : w \in {w \in WaysBack(hops, {[at |-> r, is |-> CopyOnly]}) :
                                  w.at = inside[f].formals[i]}}
  IN  FoldSet(LAMBDA r, acc :
                IF acc = {} \/ From(r) = {} THEN acc \cup From(r)
                ELSE {JoinFact(a, w) : a \in acc, w \in From(r)},
              {}, inside[f].returns)

RECURSIVE FlowsFrom(_)
FlowsFrom(flows) ==
  LET more == [f \in FnIds |-> [i \in DOMAIN code.params[f] |-> WaysOut(f, i, flows)]]
  IN  IF more = flows THEN flows ELSE FlowsFrom(more)

Flows == FlowsFrom([f \in FnIds |-> [i \in DOMAIN code.params[f] |-> {}]])

(* A summary is applied only at a call of its function: not at one that a  *)
(* name match, or another call of that line, led there.                    *)
SummariesComeFromTheCallee ==
  \A f \in DOMAIN inside : \A c \in Range(inside[f].calls) : c.callee \in {0, c.of.calls}

(* Work that was given up is said on every edge between functions: where a *)
(* summary is not what its function and its callees give, no edge is       *)
(* without the mark; and where everything was done, none has it.           *)
BudgetIsSaid ==
  progress = "done" =>
    LET settled == \A f \in FnIds : f \in DOMAIN summaries /\ summaries[f] = ComputeSummary(f)
    IN  /\ ~settled => \A k \in DOMAIN applied : applied[k].marked
        /\ overruns = 0 => settled
        /\ overruns = 0 /\ Len(applied) <= code.budget => \A k \in DOMAIN applied : ~applied[k].marked

(* Where no budget was overrun, a function's summary has exactly the       *)
(* parameters that can flow to its result through any depth of calls and   *)
(* recursion, and says of each a transform and condition some flow has:    *)
(* nothing is lost to the order of the components, the value each walk     *)
(* meets once, or the rounds (run_ifds_summaries, compute_summary).  Where *)
(* one was, the edges say so (BudgetIsSaid).                               *)
SummariesAreTheReachableFlows ==
  /\ SummariesComeFromTheCallee
  /\ BudgetIsSaid
  /\ progress = "done" /\ overruns = 0 =>
       \A f \in FnIds : \A i \in DOMAIN code.params[f] :
         /\ i \in DOMAIN summaries[f] <=> Flows[f][i] # {}
         /\ i \in DOMAIN summaries[f] => summaries[f][i] \in Flows[f][i]

(* A function that the second run does not report as dirty has the summary *)
(* it had, although a callee of a callee was edited; unless the edit left  *)
(* a function without any assignment, which the code does not see.         *)
ReusedFunctionsAreUnchanged ==
  /\ progress = "done" /\ prior # Never /\ overruns = 0 /\ prior.overruns = 0
  /\ \A f \in FnIds : code.facts[f] = {} => prior.facts[f] = {}
  =>
    \A f \in FnIds \ PropagateDirty(Changed) : summaries[f] = prior.summaries[f]
===============================================================================
