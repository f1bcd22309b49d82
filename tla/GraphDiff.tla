------------------------------- MODULE GraphDiff -------------------------------
(***************************************************************************)
(* What differs between two stored graphs (cgx-diff: diff.rs, filter.rs    *)
(* and path_diff.rs), with the breadth-first search path_diff.rs and the   *)
(* walk of impacted tests run.                                             *)
(*                                                                         *)
(* A graph is a sequence of nodes, which are records with an fqn and a     *)
(* file, and a set of the edges of GraphView, each with the ordinal stmt   *)
(* of its call site; a node is its place in the sequence.  A pattern is    *)
(* the set of names it matches.                                            *)
(***************************************************************************)
EXTENDS GraphView

CONSTANTS
  Unset,  \* for a pattern or a condition not given, and a file that is not there
  Blame   \* Blame[c][fqn]: [commit, time] of the lines of a symbol at commit c

NoBound == -1
NoGraph == [nodes |-> <<>>, edges |-> {}]

Ids(g) == DOMAIN g.nodes
Names(g) == {g.nodes[n].fqn : n \in Ids(g)}

(* The nodes that carry a name: a name may be defined twice. *)
Carrying(g, fqn) == {n \in Ids(g) : g.nodes[n].fqn = fqn}

-------------------------------------------------------------------------------
(* EdgeIdentity: what survives a move of lines. *)
IdentityOf(g, e) ==
  [src |-> g.nodes[e.src].fqn, dst |-> g.nodes[e.dst].fqn, kind |-> e.kind,
   file |-> g.nodes[e.src].file, stmt |-> e.stmt]

(* Parallel edges may share an identity; the last in canonical order is    *)
(* the one a diff looks at.                                                *)
IndexEdges(g) ==
  [i \in {IdentityOf(g, e) : e \in g.edges} |->
     CHOOSE e \in g.edges :
       /\ IdentityOf(g, e) = i
       /\ \A f \in g.edges : IdentityOf(g, f) = i => f.id <= e.id]

ClassifyChange(b, h) == {a \in {"condition", "confidence", "group"} : b[a] # h[a]}

DiffGraphs(base, head) ==
  LET b == IndexEdges(base)
      h == IndexEdges(head)
  IN  [added   |-> DOMAIN h \ DOMAIN b,
       removed |-> DOMAIN b \ DOMAIN h,
       changed |-> {i \in DOMAIN h \cap DOMAIN b : ClassifyChange(b[i], h[i]) # {}},
       addedNodes   |-> Names(head) \ Names(base),
       removedNodes |-> Names(base) \ Names(head),
       base |-> b, head |-> h]

-------------------------------------------------------------------------------
(* DiffFilter: the buckets asked for (none for all of them) and predicates *)
(* on edges.                                                               *)
Selects(f, bucket) == f.buckets = {} \/ bucket \in f.buckets

HasEdgePredicate(f) ==
  f.kinds # {} \/ f.when # Unset \/ f.from # {Unset} \/ f.to # {Unset}

KeepsEnds(f, i) ==
  /\ f.kinds # {} => i.kind \in f.kinds
  /\ f.from # {Unset} => i.src \in f.from
  /\ f.to # {Unset} => i.dst \in f.to

(* A changed edge is in scope if either of its sides is. *)
KeepsEdge(f, i, sides) ==
  KeepsEnds(f, i) /\ (f.when # Unset => \E e \in sides : e.condition = f.when)

(* Under a predicate on edges there is nothing to say of nodes. *)
KeepsNodes(f, bucket) == Selects(f, bucket) /\ ~HasEdgePredicate(f)

FilterDiff(f, d) ==
  [d EXCEPT
     !.added   = {i \in @ : Selects(f, "added") /\ KeepsEdge(f, i, {d.head[i]})},
     !.removed = {i \in @ : Selects(f, "removed") /\ KeepsEdge(f, i, {d.base[i]})},
     !.changed = {i \in @ : Selects(f, "changed") /\ KeepsEdge(f, i, {d.base[i], d.head[i]})},
     !.addedNodes   = IF KeepsNodes(f, "added") THEN @ ELSE {},
     !.removedNodes = IF KeepsNodes(f, "removed") THEN @ ELSE {}]

-------------------------------------------------------------------------------
(* BlameRepo::symbol_age: the latest of the commits its lines come from,   *)
(* the first of them at a tie; none where blame fails.                     *)
SymbolAge(c, fqn) ==
  FoldLeft(LAMBDA best, b : IF best = {} \/ \E a \in best : b.time > a.time THEN {b} ELSE best,
           {}, Blame[c][fqn])

-------------------------------------------------------------------------------
(* PathWalker::bfs: what a walk [dir, filter, depth] from a node discovers *)
(* in order, each with its depth and the edge it was first met through.    *)
FreshOf(g, walk, seen, at) ==
  IF walk.depth # NoBound /\ at.depth >= walk.depth THEN {}
  ELSE LET out == {e \in Neighbors(g.edges, at.node, walk.dir, walk.filter) :
                     Peer(e, walk.dir) \notin seen}
       IN  {e \in out : \A f \in out : Peer(e, walk.dir) = Peer(f, walk.dir) => e.id <= f.id}

Discoveries(walk, at, es) ==
  [i \in DOMAIN es |-> [node |-> Peer(es[i], walk.dir), depth |-> at.depth + 1, via |-> es[i]]]

RECURSIVE Drain(_, _, _, _, _)
Drain(g, walk, from, queue, found) ==
  IF queue = <<>> THEN found
  ELSE LET seen == {from} \cup {found[i].node : i \in DOMAIN found}
           met == Discoveries(walk, Head(queue),
                              InOrder(FreshOf(g, walk, seen, Head(queue)), walk.dir))
       IN  Drain(g, walk, from, Tail(queue) \o met, found \o met)

SearchFrom(g, walk, from) == Drain(g, walk, from, <<[node |-> from, depth |-> 0]>>, <<>>)

(* The nodes from a walk's start to n, by the edges it discovered them by. *)
RECURSIVE RouteTo(_, _, _, _)
RouteTo(found, walk, from, n) ==
  IF n = from THEN <<from>>
  ELSE LET d == found[CHOOSE i \in DOMAIN found : found[i].node = n]
       IN  Append(RouteTo(found, walk, from, Source(d.via, walk.dir)), n)

-------------------------------------------------------------------------------
(* path_diff.rs: calls of any kind, and data flow. *)
ReachKinds == CallKinds \cup {"derives_from"}

ReachWalk ==
  [dir |-> "forward", depth |-> NoBound,
   filter |-> [kinds |-> ReachKinds, floor |-> 0, mode |-> "any",
               condition |-> "always", cap |-> 0]]

Matched(g, pattern) == {n \in Ids(g) : g.nodes[n].fqn \in pattern}

(* The pairs of a source and a sink one reaches the other of, by name, and *)
(* the names along the way.                                                *)
ReachablePairs(g, from, to) ==
  UNION {LET found == SearchFrom(g, ReachWalk, src) IN
         {[from |-> g.nodes[src].fqn, to |-> g.nodes[d.node].fqn,
           via |-> LET route == RouteTo(found, ReachWalk, src, d.node)
                   IN  [i \in DOMAIN route |-> g.nodes[route[i]].fqn]] :
            d \in {d \in Range(found) : d.node \in Matched(g, to) \ {src}}} :
         src \in Matched(g, from)}

(* Mutant: pairs are not taken from those of the base. *)
PathDiff_AllPairs(base, head, from, to) ==
  [added |-> ReachablePairs(head, from, to),
   fromMatched |-> Cardinality(Matched(base, from)),
   toMatched |-> Cardinality(Matched(base, to))]

(* Anchors are counted in the head: the gate asks what there is now. *)
PathDiff(base, head, from, to) ==
  LET old == {<<p.from, p.to>> : p \in ReachablePairs(base, from, to)}
  IN  [added |-> {p \in ReachablePairs(head, from, to) : <<p.from, p.to>> \notin old},
       fromMatched |-> Cardinality(Matched(head, from)),
       toMatched |-> Cardinality(Matched(head, to))]
===============================================================================
