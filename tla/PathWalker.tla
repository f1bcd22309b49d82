------------------------------ MODULE PathWalker ------------------------------
(***************************************************************************)
(* The walks of cgx-query (walk.rs, and their callers in engine.rs), each  *)
(* as the loop it is: the breadth-first frontier walk of callers, callees, *)
(* reaches and unused, with the second walk that finds the weakest         *)
(* confidence; the layered walk of a CQL pattern; and the depth-first      *)
(* enumeration of paths and trails, with its two budgets.                  *)
(*                                                                         *)
(* A query is a record: op, from, to and roots, dir and filter, depth      *)
(* (Unbounded for none), the caps on paths and on steps, and the least     *)
(* length of a CQL pattern, which is always asked within a depth.          *)
(***************************************************************************)
EXTENDS GraphView

CONSTANTS
  Programs,     \* sets of edges
  WalkQueries,
  NoEdge

Unbounded == -1

(* An edge has its ends in the graph, no two the graph keeps share an id,  *)
(* and what the graph lost is a call.                                      *)
ProgramAssumption ==
  /\ IsFiniteSet(Nodes) /\ Nodes \subseteq Nat
  /\ \A p \in Programs :
       /\ IsFiniteSet(p)
       /\ \A e \in p :
            /\ e.src \in Nodes /\ e.dst \in Nodes /\ e.id \in Nat /\ e.confidence \in 0 .. 2
            /\ e.lost \in {"no", "unresolved", "narrowed"}
            /\ e.lost # "no" => e.kind \in CallKinds
       /\ \A e, f \in InGraph(p) : e.id = f.id => e = f

DfsOps == {"paths", "trails"}

QueryAssumption ==
  \A q \in WalkQueries :
    /\ q.from \in Nodes /\ q.dir \in {"forward", "backward"} /\ q.depth \in Nat \cup {Unbounded}
    /\ q.filter.floor \in 0 .. 2
    /\ q.op = "unused" => q.dir = "forward" /\ q.roots \in Seq(Nodes)
    /\ q.op = "within" => q.depth \in Nat /\ q.min \in Nat
    /\ q.op \in DfsOps => q.cap \in Nat \ {0}

ASSUME ProgramAssumption
ASSUME QueryAssumption

VARIABLES
  program,
  query,
  pc,          \* which loop is running
  frontier,    \* queue of [node, depth, exc], or the current layer of nodes
  seen,        \* nodes a frontier walk has met, or a pattern has admitted
  found,       \* what bfs has discovered: [node, depth, via, exc]
  weakest,     \* weakest[n]: weakest confidence on the way to n
  roots,       \* unused: roots still to walk from
  used,        \* unused: nodes some root reaches
  trail,       \* dfs: the steps [node, via, exc] of the current path
  todo,        \* dfs: for each of them, the edges still to take
  marked,      \* dfs: nodes (or, for trails, edges) that may not recur
  steps,       \* dfs: node visits; within: layers
  paths,       \* dfs: the paths found
  truncation

bfsVars == <<frontier, seen, found, weakest, roots, used>>
dfsVars == <<trail, todo, marked, paths, truncation>>
asked == <<program, query>>
pathVars == <<asked, pc, bfsVars, dfsVars, steps>>

edges == InGraph(program)
WithinDepth(d) == query.depth = Unbounded \/ d <= query.depth
NeighborsOf(n) == Neighbors(edges, n, query.dir, query.filter)
PeerOf(e) == Peer(e, query.dir)
Sorted(es) == InOrder(es, query.dir)

WalkInit ==
  /\ program \in Programs
  /\ query \in WalkQueries
  /\ pc = CASE query.op = "reaches" /\ query.from = query.to -> "done"
            [] query.op = "unused" /\ query.roots = <<>>     -> "done"
            [] query.op \in DfsOps  -> "enter"
            [] query.op = "within"  -> "layer"
            [] OTHER                -> "discover"
  /\ LET start == IF query.op = "unused" /\ query.roots # <<>>
                  THEN Head(query.roots) ELSE query.from
     IN /\ frontier = IF query.op = "within" THEN {start}
                      ELSE <<[node |-> start, depth |-> 0, exc |-> FALSE]>>
        /\ seen = IF query.op = "within" THEN {} ELSE {start}
        /\ used = IF query.op = "unused" /\ query.roots # <<>> THEN {start} ELSE {}
  /\ found = {}
  /\ weakest = [n \in Nodes |-> 2]
  /\ roots = query.roots
  /\ trail = <<[node |-> query.from, via |-> NoEdge, exc |-> FALSE]>>
  /\ todo = <<>>
  /\ marked = IF query.op = "paths" THEN {query.from} ELSE {}
  /\ steps = 0
  /\ paths = <<>>
  /\ truncation = "none"

-------------------------------------------------------------------------------
(* Of the neighbors of n not yet seen, the first edge to each. *)
FirstEdges(n) ==
  {e \in NeighborsOf(n) :
     /\ PeerOf(e) \notin seen
     /\ \A f \in NeighborsOf(n) : PeerOf(f) = PeerOf(e) => e.id <= f.id}

FreshFrom(at) == IF WithinDepth(at.depth + 1) THEN FirstEdges(at.node) ELSE {}

(* Mutant: the flag of the edge alone, not of the way to it. *)
Step_EdgeOnly(at, e) ==
  [node |-> PeerOf(e), depth |-> at.depth + 1, exc |-> Advance(FALSE, e)]

Step(at, e) ==
  [node |-> PeerOf(e), depth |-> at.depth + 1, exc |-> Advance(at.exc, e)]

Discovery(at, e) ==
  LET s == Step(at, e) IN [node |-> s.node, depth |-> s.depth, exc |-> s.exc, via |-> e]

Queue(at) ==
  Tail(frontier) \o [i \in 1 .. Cardinality(FreshFrom(at)) |-> Step(at, Sorted(FreshFrom(at))[i])]

(* One turn of bfs, or of shortest_path, which stops at its goal. *)
Discover ==
  /\ pc = "discover"
  /\ frontier # <<>>
  /\ LET at == Head(frontier)
         goal == query.op = "reaches" /\ \E e \in FreshFrom(at) : PeerOf(e) = query.to
     IN /\ frontier' = IF goal THEN <<>> ELSE Queue(at)
        /\ seen' = seen \cup {PeerOf(e) : e \in FreshFrom(at)}
        /\ found' = found \cup {Discovery(at, e) : e \in FreshFrom(at)}
        /\ pc' = IF goal THEN "done" ELSE pc
  /\ UNCHANGED <<asked, weakest, roots, used, dfsVars, steps>>

(* callers and callees walk again, for the weakest confidence on the way. *)
EndDiscover ==
  /\ pc = "discover"
  /\ frontier = <<>>
  /\ query.op \in {"neighbors", "reaches"}
  /\ IF query.op = "neighbors"
     THEN /\ pc' = "weaken"
          /\ frontier' = <<[node |-> query.from, depth |-> 0, exc |-> FALSE]>>
          /\ seen' = {query.from}
     ELSE pc' = "done" /\ UNCHANGED <<frontier, seen>>
  /\ UNCHANGED <<asked, found, weakest, roots, used, dfsVars, steps>>

(* weakest_confidence_to: what the way to a node carries over an edge. *)
Carried(at, e) == Weakest(weakest[at.node], e.confidence)

Weaken ==
  /\ pc = "weaken"
  /\ frontier # <<>>
  /\ LET at == Head(frontier) IN
       /\ frontier' = Queue(at)
       /\ seen' = seen \cup {PeerOf(e) : e \in FreshFrom(at)}
       /\ weakest' = [n \in Nodes |->
            IF \E e \in FreshFrom(at) : PeerOf(e) = n
            THEN Carried(at, CHOOSE e \in FreshFrom(at) : PeerOf(e) = n)
            ELSE weakest[n]]
  /\ UNCHANGED <<asked, pc, found, roots, used, dfsVars, steps>>

EndWeaken ==
  /\ pc = "weaken"
  /\ frontier = <<>>
  /\ pc' = "done"
  /\ UNCHANGED <<asked, bfsVars, dfsVars, steps>>

Collected == used \cup seen

(* unused: one walk per root, their reach collected. *)
EndRoot ==
  /\ pc = "discover"
  /\ frontier = <<>>
  /\ query.op = "unused"
  /\ roots' = Tail(roots)
  /\ IF roots' = <<>>
     THEN pc' = "done" /\ used' = Collected /\ UNCHANGED <<frontier, seen, found>>
     ELSE /\ frontier' = <<[node |-> Head(roots'), depth |-> 0, exc |-> FALSE]>>
          /\ seen' = {Head(roots')}
          /\ used' = Collected
          /\ found' = {}
          /\ pc' = pc
  /\ UNCHANGED <<asked, weakest, dfsVars, steps>>

(* Mutant: the start is not met again. *)
NextFrontier_NotStart ==
  {PeerOf(e) : e \in UNION {NeighborsOf(n) : n \in frontier}} \ {query.from}

NextFrontier == {PeerOf(e) : e \in UNION {NeighborsOf(n) : n \in frontier}}

(* reachable_within: layer by layer, a node again in each it is met in. *)
NextLayer ==
  /\ pc = "layer"
  /\ IF steps < query.depth /\ frontier # {}
     THEN /\ frontier' = NextFrontier
          /\ steps' = steps + 1
          /\ seen' = IF steps' >= query.min THEN seen \cup frontier' ELSE seen
          /\ pc' = pc
     ELSE pc' = "done" /\ UNCHANGED <<frontier, seen, steps>>
  /\ UNCHANGED <<asked, found, weakest, roots, used, dfsVars>>
-------------------------------------------------------------------------------
here == trail[Len(trail)]
IsFull == Len(paths) >= query.cap

(* Mutant: a full set of paths is not reported as cut short. *)
Full_Silent(n) == truncation

(* The result cap is a truncation when it fills. *)
Full(n) == IF n >= query.cap THEN "path-cap" ELSE truncation

(* dfs: one visit, charged to the budget. *)
Visit ==
  /\ pc = "enter"
  /\ steps' = steps + 1
  /\ IF steps' > query.budget
     THEN truncation' = "step-budget" /\ pc' = "done" /\ UNCHANGED <<todo, paths>>
     ELSE IF IsFull
     THEN pc' = "done" /\ UNCHANGED <<todo, paths, truncation>>
     ELSE IF here.node = query.to /\ Len(trail) > 1
     THEN /\ paths' = Append(paths, trail)
          /\ truncation' = Full(Len(paths'))
          /\ todo' = Append(todo, <<>>)
          /\ pc' = IF Len(paths') >= query.cap THEN "done" ELSE "take"
     ELSE /\ todo' = Append(todo, IF WithinDepth(Len(trail)) THEN Sorted(NeighborsOf(here.node)) ELSE <<>>)
          /\ pc' = "take"
          /\ UNCHANGED <<paths, truncation>>
  /\ UNCHANGED <<asked, bfsVars, trail, marked>>

Mark(e) == IF query.op = "paths" THEN PeerOf(e) ELSE e.id

(* The next neighbor: passed over if it is marked, else descended into. *)
Take ==
  /\ pc = "take"
  /\ todo[Len(todo)] # <<>>
  /\ LET e == Head(todo[Len(todo)])
         rest == [todo EXCEPT ![Len(todo)] = Tail(@)]
     IN /\ todo' = rest
        /\ IF Mark(e) \in marked
           THEN UNCHANGED <<trail, marked, pc>>
           ELSE /\ marked' = marked \cup {Mark(e)}
                /\ trail' = Append(trail, [node |-> PeerOf(e), via |-> e, exc |-> Advance(here.exc, e)])
                /\ pc' = "enter"
  /\ UNCHANGED <<asked, bfsVars, steps, paths, truncation>>

Unmark == marked \ {Mark(here.via)}

(* Every neighbor taken: back to the step before, its mark lifted. *)
Retreat ==
  /\ pc = "take"
  /\ todo[Len(todo)] = <<>>
  /\ IF Len(trail) = 1
     THEN pc' = "done" /\ UNCHANGED <<trail, todo, marked>>
     ELSE /\ trail' = SubSeq(trail, 1, Len(trail) - 1)
          /\ todo' = SubSeq(todo, 1, Len(todo) - 1)
          /\ marked' = Unmark
          /\ pc' = pc
  /\ UNCHANGED <<asked, bfsVars, steps, paths, truncation>>

WalkNext ==
  \/ Discover \/ EndDiscover \/ Weaken \/ EndWeaken \/ EndRoot
  \/ NextLayer
  \/ Visit \/ Take \/ Retreat

WalkSpec == WalkInit /\ [][WalkNext]_pathVars
-------------------------------------------------------------------------------
Goal == query.to
Bound == IF query.depth = Unbounded THEN Cardinality(edges) ELSE query.depth
Admitted == UNION {NeighborsOf(n) : n \in Nodes}
ReachOf(starts) == Within(Admitted, starts, query.dir, Bound)

(* The edges from the anchor to a node it found, by who found whom. *)
WayTo(node) ==
  LET way[n \in {query.from} \cup {d.node : d \in found}] ==
        IF n = query.from THEN <<>>
        ELSE LET d == CHOOSE d \in found : d.node = n
             IN  Append(way[Source(d.via, query.dir)], d.via)
  IN  way[node]

Nodewise(route) == <<query.from>> \o [i \in DOMAIN route |-> PeerOf(route[i])]

(* On a path no node recurs, on a trail no edge. *)
Keeps(route) == IsInjective(IF query.op = "paths" THEN Nodewise(route) ELSE route)
StopsAtGoal(route) == \A i \in 1 .. Len(route) - 1 : PeerOf(route[i]) # Goal

(* All there is to enumerate: routes of the depth asked that end at the    *)
(* goal, a trail where it first meets it.                                  *)
RoutesToGoal ==
  {r \in Routes(Admitted, query.from, query.dir, Bound, Keeps) :
     /\ r # <<>> /\ PeerOf(r[Len(r)]) = Goal
     /\ query.op = "trails" => StopsAtGoal(r)}

RouteOf(path) == [i \in 1 .. Len(path) - 1 |-> path[i + 1].via]

(* bfs "returning each reachable node once (at its shortest depth)", and   *)
(* shortest_path its witness: whatever cycles, parallel edges and depth    *)
(* limit, the nodes found are those within the limit, each once and at the *)
(* distance it has.  And though two walks describe a row, bfs its way and  *)
(* the transience on it, weakest_confidence_to its confidence, both are    *)
(* those of the way its discovery edges spell out.                         *)
FindsTheNearest ==
  pc = "done" /\ query.op \in {"neighbors", "reaches"} =>
    /\ \A d \in found :
         /\ d.depth = Distance(Admitted, query.from, d.node, query.dir)
         /\ \A c \in found : c.node = d.node => c = d
         /\ query.op = "neighbors" =>
              /\ d.exc = Transient(WayTo(d.node))
              /\ weakest[d.node] = WeakestOf(WayTo(d.node))
    /\ IF query.op = "reaches"
       THEN (Goal \in seen) = (Goal \in ReachOf({query.from}))
       ELSE {d.node : d \in found} = ReachOf({query.from}) \ {query.from}

(* reachable_within: the peers of *min..max are the ends of walks of a     *)
(* length in range, the start again among them if a cycle leads back.      *)
PatternBindsByLength ==
  pc = "done" /\ query.op = "within" =>
    LET layer == Layers(Admitted, {query.from}, query.dir, query.depth)
    IN  seen = UNION {layer[k] : k \in Max({query.min, 1}) .. query.depth}

(* enumerate_paths and enumerate_trails: every path found is one there is, *)
(* none twice, each step with the transience of the way to it; and unless  *)
(* a bound is reported nothing is missing.  A trail ends where it first    *)
(* meets the goal.  What a pattern binds at the end of a path is exact too *)
(* (PatternBindsByLength).                                                 *)
UncutPathsAreAll ==
  /\ PatternBindsByLength
  /\ pc = "done" /\ query.op \in DfsOps =>
       LET got == {RouteOf(paths[i]) : i \in DOMAIN paths}
       IN  /\ got \subseteq RoutesToGoal
           /\ Cardinality(got) = Len(paths)
           /\ truncation = "none" => got = RoutesToGoal
           /\ \A i \in DOMAIN paths : \A j \in 2 .. Len(paths[i]) :
                paths[i][j].exc = Transient(SubSeq(RouteOf(paths[i]), 1, j - 1))
===============================================================================
