----------------------------- MODULE MCSummaries ------------------------------
(* Two functions from a menu of bodies, every grounding of the calls       *)
(* between them, and an edit of the second.                                *)
EXTENDS Summaries

A == 1
B == 2
X == 3
Y == 4
Z == 5
ToOne == 1
ToTwo == 2
Away == 3

Fact(f, at, x, version, source, transform) ==
  [in |-> f, at |-> at, derived |-> x, version |-> version, source |-> source,
   transform |-> transform, condition |-> 0, opaque |-> FALSE, path |-> NoName, args |-> <<>>,
   calls |-> 0]
CallFact(f, at, x, version, path, args) ==
  [Fact(f, at, x, version, NoName, "other") EXCEPT
     !.opaque = TRUE, !.path = path, !.args = args, !.calls = IF path = Away THEN 0 ELSE path]
OnGuard(x) == [x EXCEPT !.condition = 1]

Bodies(f) ==
  {{},
   {Fact(f, 1, Return, 0, A, "copy")},
   {Fact(f, 1, X, 1, A, "copy"), Fact(f, 2, Return, 0, X, "binop")},
   {Fact(f, 1, Return, 0, B, "proj"), OnGuard(Fact(f, 2, Return, 1, A, "copy"))},
   {Fact(f, 1, B, 1, A, "binop"), Fact(f, 1, B, 1, B, "binop"), Fact(f, 2, Return, 0, B, "copy")},
   {Fact(f, 1, A, 1, B, "copy"), Fact(f, 2, X, 1, A, "proj"), Fact(f, 3, Return, 0, X, "copy")},
   {CallFact(f, 1, Return, 0, ToTwo, <<B, A>>)},
   {CallFact(f, 1, X, 1, ToTwo, <<A, NoName>>), OnGuard(CallFact(f, 2, Y, 1, ToOne, <<X, B>>)),
    Fact(f, 3, Return, 0, Y, "copy"), Fact(f, 4, Return, 1, B, "proj")},
   {CallFact(f, 1, X, 1, Away, <<A, B>>), CallFact(f, 2, Y, 1, ToTwo, <<X, B>>),
    Fact(f, 3, Return, 0, Y, "binop")},
   {OnGuard(CallFact(f, 1, X, 1, ToOne, <<B, A>>)), Fact(f, 2, Return, 0, X, "binop"),
    Fact(f, 2, Return, 0, A, "binop")}}

(* z = f(b, a) beside a and b.lo: the two parameters change places.        *)
Swapping(f) ==
  {Fact(f, 1, X, 1, A, "copy"), Fact(f, 2, Y, 1, B, "proj"),
   CallFact(f, 3, Z, 1, ToOne, <<B, A>>),
   Fact(f, 4, Return, 0, X, "binop"), Fact(f, 4, Return, 0, Y, "binop"),
   Fact(f, 4, Return, 0, Z, "binop")}

Edge(dst, rule) == {[dst |-> dst, rule |-> rule, grouped |-> FALSE]}
Ref(x, col, found) == [in |-> x.in, line |-> x.at, col |-> col, path |-> x.path, edges |-> found]

(* What the link pass made of a call, and of another of its path beside it.*)
RefsOf(x, as) ==
  LET right == IF x.calls = 0 THEN {} ELSE Edge(x.calls, "scope-ref")
  IN  CASE as = "bound"  -> {Ref(x, 1, right)}
        [] as = "match"  -> {Ref(x, 1, Edge(1, "name-method"))}
        [] as = "beside" -> {Ref(x, 1, {}), Ref(x, 2, Edge(2, "scope-ref"))}
        [] as = "set"    -> {Ref(x, 1, {[e EXCEPT !.grouped = TRUE] :
                                         e \in Edge(1, "import-ref") \cup right})}

RefsFor(facts, as) ==
  UNION {RefsOf(x, as) : x \in {x \in UNION {facts[f] : f \in DOMAIN facts} : x.opaque}}

(* Paths spelled in full are known by name, the others by their last part, *)
(* which both functions may have.                                          *)
Program(facts, edited, as, spelled, budget) ==
  [params |-> <<<<A, B>>, <<A, B>>>>,
   facts |-> facts,
   refs |-> RefsFor(facts, as),
   named |-> [p \in 1 .. 3 |-> IF spelled = "full" /\ p # Away THEN p ELSE 0],
   called |-> [p \in 1 .. 3 |-> IF p = Away THEN {}
                               ELSE IF spelled = "alike" THEN {ToOne, ToTwo} ELSE {p}],
   budget |-> budget,
   later |-> [facts |-> edited, refs |-> RefsFor(edited, as)]]

InitSummaries ==
  \/ \E one \in Bodies(1), two \in Bodies(2), next \in {{}, {Fact(2, 1, Return, 0, B, "binop")}} :
       \/ \E as \in {"bound", "match", "beside", "set"}, spelled \in {"full", "last", "alike"} :
            SummariesInit(Program(<<one, two>>, <<one, next>>, as, spelled, 200))
       \/ \E budget \in {3, 30} :
            SummariesInit(Program(<<one, two>>, <<one, next>>, "bound", "last", budget))
  \/ \E two \in Bodies(2) :
       SummariesInit(Program(<<Swapping(1), two>>, <<Swapping(1), {}>>, "bound", "last", 200))
===============================================================================
