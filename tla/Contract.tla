------------------------------- MODULE Contract -------------------------------
(***************************************************************************)
(* The approximation contract of an answer (cgx-query/src/contract.rs):    *)
(* what the scan of the region a walk touched reports, and when an answer  *)
(* may call itself exact.                                                  *)
(*                                                                         *)
(* Cut markers, which sit on edges the graph has, only add reasons and are *)
(* left out; external and interprocedural counts are counted like the two  *)
(* kept here.                                                              *)
(***************************************************************************)
EXTENDS PathWalker

Roots == IF query.op = "unused" THEN Range(query.roots) ELSE {query.from}

Touched == ReachOf(Roots)

DepthOf(n) == Min({Distance(Admitted, r, n, query.dir) :
                     r \in {r \in Roots : n \in ReachOf({r})}})
AtHorizon(n) == query.depth # Unbounded /\ DepthOf(n) = query.depth

(* The edges of the searched kinds, whatever the rest of the filter. *)
Scanned(n) ==
  {e \in edges : Source(e, query.dir) = n /\ OfKind(query.filter, e)}

(* Mutant: a scope given by kinds is not taken for a call scope. *)
IsCallScope_DefaultOnly == query.filter.kinds = {}

IsCallScope == query.filter.kinds \subseteq CallKinds
CountsForward == query.dir = "forward" /\ IsCallScope
CountsBackward == query.dir = "backward" /\ IsCallScope

Codes == {"unresolved-external-calls", "receiver-narrowed", "receiver-narrowed-away",
          "below-confidence-floor", "dropped-max-candidates", "depth-limit"}

(* What the scan finds at a touched node n. *)
Shows(n, code) ==
  CASE code = "unresolved-external-calls" ->
         CountsForward /\ UnresolvedCalls(program, n) # {}
    [] code = "receiver-narrowed" ->
         CountsForward /\ ~AtHorizon(n) /\ NarrowedOut(program, n) # {}
    [] code = "receiver-narrowed-away" ->
         CountsBackward /\ ~AtHorizon(n) /\ NarrowedAwayIn(program, n) # {}
    [] code = "below-confidence-floor" ->
         \E e \in Scanned(n) : e.confidence < query.filter.floor
    [] code = "dropped-max-candidates" ->
         \E e \in Scanned(n) :
           e.confidence >= query.filter.floor /\ ~WithinCap(query.filter, edges, e)
    [] code = "depth-limit" ->
         AtHorizon(n) /\ \E e \in NeighborsOf(n) : PeerOf(e) \notin Touched

FrontierReasons == {code \in Codes : \E n \in Touched : Shows(n, code)}

Reaches == Goal \in seen

(* for_neighbors and for_unused scan always, for_reaches and for_paths     *)
(* only for a negative answer: a positive one is its own proof.  Answers   *)
(* of CQL (for_path_set, over_only) are never scanned for.                 *)
Scans ==
  \/ query.op \in {"neighbors", "unused"}
  \/ query.op = "reaches" /\ ~Reaches
  \/ query.op = "paths" /\ paths = <<>>

UnderReasons ==
  (IF Scans THEN FrontierReasons ELSE {})
    \cup (IF truncation = "none" THEN {} ELSE {truncation})

(* The ways an answer rests on. *)
Ways ==
  CASE query.op = "neighbors" -> {WayTo(d.node) : d \in found}
    [] query.op = "reaches"   -> IF Reaches THEN {WayTo(Goal)} ELSE {}
    [] query.op \in DfsOps    -> {RouteOf(paths[i]) : i \in DOMAIN paths}
    [] OTHER                  -> {}

(* for_neighbors looks at the group of a row's last edge, the others at    *)
(* every edge of a path.                                                   *)
OverApproximates ==
  IF query.op = "neighbors"
  THEN \E d \in found : weakest[d.node] = 0 \/ d.via.group # 0
  ELSE \E w \in Ways : WeakestOf(w) = 0 \/ \E i \in DOMAIN w : w[i].group # 0

Exact == ~OverApproximates /\ UnderReasons = {}

-------------------------------------------------------------------------------
(* The calls the program makes of the kinds and condition asked for, those *)
(* that left no edge included.  A call that resolved to nothing is outside *)
(* the modeled graph when the question is who calls a symbol.              *)
Meant ==
  {e \in program :
     /\ OfKind(query.filter, e) /\ MeetsCondition(query.filter, e)
     /\ e.lost = "unresolved" => query.dir = "forward"}

(* How far the answer speaks of them. *)
DepthMeant == IF query.depth = Unbounded THEN Cardinality(Nodes) ELSE query.depth
ReachMeant == Within(Meant, Roots, query.dir, DepthMeant)

Listed == IF query.op = "unused" THEN used ELSE {d.node : d \in found} \cup Roots

(* A scope that mixes calls with other kinds is no call scope to the scan, *)
(* which then does not report the calls lost in it.                        *)
IsPlainScope ==
  query.filter.kinds \subseteq CallKinds \/ query.filter.kinds \cap CallKinds = {}

(* An exact answer is the whole truth.  No filtered, narrowed, unresolved  *)
(* or too distant call would change a list of callers, callees or unused   *)
(* symbols, and nothing in it rests on a guessed candidate; reaches and    *)
(* paths say nothing leads from one symbol to the other only when no call  *)
(* of the program does, within the depth asked, whether the graph has an   *)
(* edge for it or not.                                                     *)
ExactIsWhole ==
  pc = "done" /\ IsPlainScope /\ Exact =>
    /\ query.op \in {"neighbors", "unused"} =>
         /\ Listed = ReachMeant
         /\ ReachMeant = Within(Meant \cap edges, Roots, query.dir, Cardinality(Nodes))
         /\ \A w \in Ways : \A i \in DOMAIN w : w[i].group = 0 /\ w[i].confidence > 0
    /\ query.op \in {"reaches", "paths"} /\ Ways = {} /\ query.from # Goal =>
         Goal \notin ReachMeant
===============================================================================
