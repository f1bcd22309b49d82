------------------------------- MODULE GraphView -------------------------------
(***************************************************************************)
(* The loaded call graph that queries walk (cgx-query/src/view.rs) and the *)
(* filter they walk it with (cgx-query/src/filter.rs).                     *)
(*                                                                         *)
(* An edge is a record: its id, which is its place in the canonical order, *)
(* its ends, kind, condition, confidence and candidate group.  Confidence  *)
(* is 0 (possible), 1 (probable) or 2 (certain); group 0 is no group.      *)
(*                                                                         *)
(* A program may make calls its graph has no edge for.  These are edges    *)
(* too, with "lost" telling why; all the graph keeps of one is a count on  *)
(* one of its ends.                                                        *)
(***************************************************************************)
EXTENDS Integers, Sequences, FiniteSets, SequencesExt

CONSTANT Nodes  \* node ids, 1..n in canonical order

CallKinds == {"calls", "spawns"}
Exceptional == {"exception", "panic"}

InGraph(program) == {e \in program : e.lost = "no"}

(* NodeRecord.unresolved_calls and .narrowing, of a call-family edge. *)
UnresolvedCalls(program, n) == {e \in program : e.lost = "unresolved" /\ e.src = n}
NarrowedOut(program, n) == {e \in program : e.lost = "narrowed" /\ e.src = n}
NarrowedAwayIn(program, n) == {e \in program : e.lost = "narrowed" /\ e.dst = n}

-------------------------------------------------------------------------------
Source(e, dir) == IF dir = "forward" THEN e.src ELSE e.dst
Peer(e, dir) == IF dir = "forward" THEN e.dst ELSE e.src

(* EdgeFilter: a confidence floor, a condition restriction, a set of kinds *)
(* (empty for the call family) and a fan-out cap (0 for none).             *)
OfKind(filter, e) ==
  IF filter.kinds = {} THEN e.kind \in CallKinds ELSE e.kind \in filter.kinds

MeetsCondition(filter, e) ==
  CASE filter.mode = "any"     -> TRUE
    [] filter.mode = "only"    -> e.condition = filter.condition
    [] filter.mode = "exclude" -> e.condition # filter.condition

Admits(filter, e) ==
  OfKind(filter, e) /\ e.confidence >= filter.floor /\ MeetsCondition(filter, e)

GroupSize(edges, g) == Cardinality({e \in edges : e.group = g})

WithinCap(filter, edges, e) ==
  filter.cap = 0 \/ e.group = 0 \/ GroupSize(edges, e.group) <= filter.cap

(* GraphView::neighbors, as the edges that lead from n to them. *)
Neighbors(edges, n, dir, filter) ==
  {e \in edges : Source(e, dir) = n /\ Admits(filter, e) /\ WithinCap(filter, edges, e)}

(* The order every walk takes neighbors in: by peer, then by edge id. *)
Before(e, f, dir) ==
  Peer(e, dir) < Peer(f, dir) \/ (Peer(e, dir) = Peer(f, dir) /\ e.id < f.id)

InOrder(es, dir) ==
  [i \in 1 .. Cardinality(es) |->
     CHOOSE e \in es : Cardinality({f \in es : Before(f, e, dir)}) = i - 1]

(* advance_exceptional: a spawn enters a detached error domain. *)
Advance(before, e) ==
  e.kind # "spawns" /\ (before \/ e.condition \in Exceptional)

Weakest(c, d) == IF c < d THEN c ELSE d

-------------------------------------------------------------------------------
(* What the walks are judged by.  Layer k of a set of edges is the nodes   *)
(* at the end of a walk of exactly k of them.                              *)
Layers(es, from, dir, k) ==
  LET layer[i \in 0 .. k] ==
        IF i = 0 THEN from
        ELSE LET last == layer[i - 1]
             IN  {Peer(e, dir) : e \in {e \in es : Source(e, dir) \in last}}
  IN  layer

Within(es, from, dir, k) ==
  LET layer == Layers(es, from, dir, k) IN UNION {layer[i] : i \in 0 .. k}

Distance(es, from, to, dir) ==
  LET layer == Layers(es, {from}, dir, Cardinality(Nodes))
  IN  Min({k \in 0 .. Cardinality(Nodes) : to \in layer[k]})

(* The flag of GM-4 along a sequence of edges: an exceptional edge was     *)
(* crossed since the last spawn.                                           *)
Transient(es) ==
  \E i \in 1 .. Len(es) :
    /\ es[i].kind # "spawns" /\ es[i].condition \in Exceptional
    /\ \A j \in i .. Len(es) : es[j].kind # "spawns"

WeakestOf(es) == Min({2} \cup {es[i].confidence : i \in DOMAIN es})

(* The edge sequences that follow one another from a node, at most k long, *)
(* none of whose prefixes the rule forbids.                                *)
Routes(es, from, dir, k, Allowed(_)) ==
  LET End(r) == IF r = <<>> THEN from ELSE Peer(r[Len(r)], dir)
      routes[i \in 0 .. k] ==
        IF i = 0 THEN {<<>>}
        ELSE {r \in {Append(q, e) : q \in routes[i - 1], e \in es} :
                Source(r[i], dir) = End(SubSeq(r, 1, i - 1)) /\ Allowed(r)}
  IN  UNION {routes[i] : i \in 0 .. k}
===============================================================================
