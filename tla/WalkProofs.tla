------------------------------- MODULE WalkProofs -------------------------------
(***************************************************************************)
(* Proofs about the walks of a graph (PathWalker) and that of a history    *)
(* (Coupling).                                                             *)
(*                                                                         *)
(* For every set of programs and of queries, bfs and shortest_path find    *)
(* each node within the depth asked once and at its distance, whatever     *)
(* cycles and parallel edges there are, and the flag and the weakest       *)
(* confidence reported with a node are those of one and the same way to    *)
(* it, though two walks compute them.  The                                 *)
(* enumeration of paths and trails finds each there is, once, unless it    *)
(* tells of a cut; the walk of a pattern binds its peers by length.  An    *)
(* answer whose scan (Contract) found nothing to report is of all the      *)
(* calls the program makes: where it is silent, the region touched is      *)
(* closed under them, up to the depth asked.                               *)
(*                                                                         *)
(* For every set of histories and of ranges the count of what changes      *)
(* together is of the commits of the range, once its walk has ended.       *)
(***************************************************************************)
EXTENDS Contract, Coupling, InductionLemmas, TLAPS

IsNear == query.op \in {"neighbors", "reaches"}
IsBreadth == IsNear \/ query.op = "unused"

(* Where the frontier walk at work began; unused has one of each root.     *)
Start == IF query.op = "unused" /\ roots # <<>> THEN Head(roots) ELSE query.from

(* The nodes at the end of a walk of exactly j of the edges es from S.     *)
LayerOf(es, S, j) == Layers(es, S, query.dir, j)[j]

Layer(j) == LayerOf(Admitted, {Start}, j)

(* n was met, at depth k and with the flag x. *)
IsMet(n, k, x) ==
  \/ n = Start /\ k = 0 /\ x = FALSE
  \/ \E d \in found : d.node = n /\ d.depth = k /\ d.exc = x

(* Whatever a neighbor of n is met as, it is no deeper than one more. *)
IsExpanded(n, k) ==
  WithinDepth(k + 1) => \A e \in NeighborsOf(n) : \E j \in 0 .. k + 1 : \E x : IsMet(PeerOf(e), j, x)

IsQueued(n) == \E i \in DOMAIN frontier : frontier[i].node = n

Item == [node : Nodes, depth : Nat, exc : BOOLEAN]

AskedInv ==
  /\ program \in Programs
  /\ query \in WalkQueries

FoundTypes ==
  /\ Start \in Nodes
  /\ found \subseteq [node : Nodes, depth : Nat, exc : BOOLEAN, via : Admitted]
  /\ \A d \in found : d.node # Start /\ WithinDepth(d.depth) /\ PeerOf(d.via) = d.node
  /\ \A c, d \in found : c.node = d.node => c = d

(* Who found a node is one layer nearer, and its flag goes on. *)
FoundFrom ==
  \A d \in found : \E k \in Nat, x \in BOOLEAN :
    IsMet(Source(d.via, query.dir), k, x) /\ d.depth = k + 1 /\ d.exc = Advance(x, d.via)

FoundNearest == \A d \in found : \A j \in 0 .. d.depth - 1 : d.node \notin Layer(j)

FoundInv == FoundTypes /\ FoundFrom /\ FoundNearest

SeenIsMet == seen = {Start} \cup {d.node : d \in found}

Expanded == \A n, k, x : IsMet(n, k, x) => IsExpanded(n, k)

QueueInv ==
  /\ frontier \in Seq(Item)
  /\ \A i \in DOMAIN frontier :
       /\ IsMet(frontier[i].node, frontier[i].depth, frontier[i].exc)
       /\ WithinDepth(frontier[i].depth)
       /\ \A j \in DOMAIN frontier : i < j => frontier[i].depth <= frontier[j].depth
  /\ \A n, k, x : IsMet(n, k, x) =>
       /\ IsQueued(n) \/ IsExpanded(n, k)
       /\ frontier # <<>> => k <= frontier[1].depth + 1

BfsInv ==
  IsBreadth =>
    /\ pc \in {"discover", "weaken", "done"}
    /\ pc = "weaken" => query.op = "neighbors"
    /\ query.op = "unused" => roots \in Seq(Nodes) /\ (pc = "done" <=> roots = <<>>)
    /\ IsNear \/ pc = "discover" => FoundInv
    /\ pc = "discover" => SeenIsMet /\ QueueInv
    /\ query.op = "neighbors" /\ pc # "discover" => Expanded
    /\ query.op = "reaches" => SeenIsMet /\ (pc = "done" => Goal \in seen \/ Expanded)
-------------------------------------------------------------------------------
(* InOrder lists a set of edges, each once.                                *)
LEMMA InOrderLists ==
  ASSUME NEW es, IsFiniteSet(es), NEW dir,
         \A e \in es : Peer(e, dir) \in Nat /\ e.id \in Nat,
         \A e, f \in es : e.id = f.id => e = f
  PROVE  /\ Cardinality(es) \in Nat
         /\ \A i \in 1 .. Cardinality(es) : InOrder(es, dir)[i] \in es
         /\ \A e \in es : \E i \in 1 .. Cardinality(es) : InOrder(es, dir)[i] = e
<1> DEFINE Below(e) == {f \in es : Before(f, e, dir)}
           Rank(e) == Cardinality(Below(e))
           n == Cardinality(es)
<1>1. n \in Nat
  BY FS_CardinalityType
<1>2. \A e \in es : IsFiniteSet(Below(e)) /\ Rank(e) \in Nat
  <2>1. ASSUME NEW e \in es PROVE IsFiniteSet(Below(e)) /\ Rank(e) \in Nat
    <3>1. Below(e) \in SUBSET es
      OBVIOUS
    <3>2. IsFiniteSet(Below(e))
      BY <3>1, FS_Subset
    <3> QED BY <3>2, FS_CardinalityType
  <2> QED BY <2>1
<1>r. \A e \in es : Rank(e) \in Nat
  <2> HIDE DEF Rank, Below
  <2> QED BY <1>2
<1>3. ASSUME NEW e \in es PROVE Rank(e) \in 0 .. n - 1
  <2>1. Below(e) \in SUBSET es /\ e \notin Below(e)
    BY DEF Before
  <2>2. Rank(e) <= n /\ (Rank(e) = n => Below(e) = es)
    BY <2>1, FS_Subset
  <2>3. Rank(e) # n
    BY <2>1, <2>2
  <2> HIDE DEF Rank, n
  <2> QED BY <1>1, <1>r, <2>2, <2>3
<1>4. ASSUME NEW e \in es, NEW f \in es, Before(e, f, dir) PROVE Rank(e) < Rank(f)
  <2>1. e \notin Below(e)
    BY DEF Before
  <2>2. Below(e) \cup {e} \in SUBSET Below(f)
    BY <1>4 DEF Before
  <2>3. Cardinality(Below(e) \cup {e}) = Rank(e) + 1
    BY <1>2, <2>1, FS_AddElement
  <2>4. Cardinality(Below(e) \cup {e}) <= Rank(f)
    BY <1>2, <2>2, FS_Subset
  <2> HIDE DEF Rank
  <2> QED BY <1>r, <2>3, <2>4
<1>5. ASSUME NEW e \in es, NEW f \in es, e # f PROVE Before(e, f, dir) \/ Before(f, e, dir)
  BY <1>5 DEF Before
<1>6. ASSUME NEW e \in es, NEW f \in es, Rank(e) = Rank(f) PROVE e = f
  <2> HIDE DEF Rank
  <2>1. ~(Rank(e) < Rank(f)) /\ ~(Rank(f) < Rank(e))
    BY <1>r, <1>6
  <2> QED BY <1>4, <1>5, <2>1
<1> DEFINE r == [e \in es |-> Rank(e)]
<1>7. r \in Injection(es, 0 .. n - 1)
  <2> HIDE DEF Rank, n
  <2> QED BY <1>3, <1>6 DEF Injection, IsInjective
<1>8. IsFiniteSet(0 .. n - 1) /\ Cardinality(0 .. n - 1) = n
  <2> HIDE DEF n
  <2> QED BY <1>1, FS_Interval
<1>9. r \in Surjection(es, 0 .. n - 1)
  BY <1>7, <1>8, FS_Injection
<1>10. ASSUME NEW i \in 0 .. n - 1 PROVE \E e \in es : Rank(e) = i
  <2> HIDE DEF Rank, n
  <2> QED BY <1>9 DEF Surjection
<1>11. ASSUME NEW i \in 1 .. n
       PROVE  InOrder(es, dir)[i] \in es /\ Rank(InOrder(es, dir)[i]) = i - 1
  <2>1. InOrder(es, dir)[i] = CHOOSE e \in es : Rank(e) = i - 1
    BY DEF InOrder
  <2>2. i - 1 \in 0 .. n - 1
    <3> HIDE DEF n
    <3> QED BY <1>1
  <2>3. \E e \in es : Rank(e) = i - 1
    BY <1>10, <2>2
  <2> HIDE DEF Rank
  <2> QED BY <2>1, <2>3
<1>12. ASSUME NEW e \in es PROVE \E i \in 1 .. n : InOrder(es, dir)[i] = e
  <2>1. Rank(e) \in 0 .. n - 1
    BY <1>3
  <2> HIDE DEF Rank, n
  <2>2. Rank(e) + 1 \in 1 .. n /\ (Rank(e) + 1) - 1 = Rank(e)
    BY <1>1, <2>1
  <2>3. InOrder(es, dir)[Rank(e) + 1] \in es /\ Rank(InOrder(es, dir)[Rank(e) + 1]) = Rank(e)
    BY <1>11, <2>2
  <2> QED BY <1>6, <2>2, <2>3
<1> QED BY <1>1, <1>11, <1>12

-------------------------------------------------------------------------------
(* y is one edge of es away from a member of s. *)
Beyond(es, dir, s, y) == \E e \in es : Source(e, dir) \in s /\ Peer(e, dir) = y

IsLayered(es, from, dir, k, r) ==
  /\ r[0] = from
  /\ \A i \in 0 .. k - 1 : \A y : y \in r[i + 1] <=> Beyond(es, dir, r[i], y)

(* The recursion of Layers has a solution, and this is it. *)
LEMMA LayersAreLayered ==
  ASSUME NEW es, NEW from, NEW dir, NEW k \in Nat
  PROVE  IsLayered(es, from, dir, k, Layers(es, from, dir, k))
<1> DEFINE Grow(last) == {Peer(e, dir) : e \in {e \in es : Source(e, dir) \in last}}
           Body(r, m) == [i \in 0 .. m |-> IF i = 0 THEN from ELSE Grow(r[i - 1])]
           T == {m \in Nat : \E r : r = Body(r, m)}
           layer == CHOOSE r : r = Body(r, k)
<1>1. 0 \in T
  <2>1. [i \in 0 .. 0 |-> from] = Body([i \in 0 .. 0 |-> from], 0)
    OBVIOUS
  <2> QED BY <2>1
<1> HIDE DEF Grow
<1>2. ASSUME NEW m \in 0 .. k - 1, m \in T PROVE m + 1 \in T
  <2>1. PICK r : r = Body(r, m)
    BY <1>2
  <2> DEFINE s == [i \in 0 .. m + 1 |-> IF i = m + 1 THEN Grow(r[m]) ELSE r[i]]
  <2>2. \A i \in 0 .. m : s[i] = r[i]
    OBVIOUS
  <2>3. \A i \in 0 .. m : r[i] = IF i = 0 THEN from ELSE Grow(r[i - 1])
    BY <2>1
  <2>4. ASSUME NEW i \in 0 .. m + 1 PROVE s[i] = IF i = 0 THEN from ELSE Grow(s[i - 1])
    <3>1. CASE i = m + 1
      <4>1. i - 1 = m /\ i # 0
        BY <3>1
      <4> QED BY <2>2, <3>1, <4>1
    <3>2. CASE i \in 1 .. m
      <4>1. i - 1 \in 0 .. m /\ i # 0 /\ i \in 0 .. m
        BY <3>2
      <4> QED BY <2>2, <2>3, <4>1
    <3>3. CASE i = 0
      BY <2>2, <2>3, <3>3
    <3> QED BY <3>1, <3>2, <3>3
  <2>5. DOMAIN s = 0 .. m + 1 /\ s = [i \in DOMAIN s |-> s[i]]
    OBVIOUS
  <2> HIDE DEF s
  <2>6. s = Body(s, m + 1)
    BY <2>4, <2>5
  <2>7. m + 1 \in Nat
    OBVIOUS
  <2> QED BY <2>6, <2>7
<1>3. k \in T
  <2> HIDE DEF T
  <2>1. 0 .. k \subseteq T
    BY <1>1, <1>2, UpTo
  <2>2. k \in 0 .. k
    OBVIOUS
  <2> QED BY <2>1, <2>2
<1>4. layer = Body(layer, k)
  BY <1>3
<1>5. Layers(es, from, dir, k) = layer
  BY DEF Layers, Grow
<1> HIDE DEF layer
<1>6. layer[0] = from
  BY <1>4
<1>7. ASSUME NEW i \in 0 .. k - 1 PROVE layer[i + 1] = Grow(layer[i])
  <2>1. i + 1 \in 0 .. k /\ i + 1 # 0 /\ (i + 1) - 1 = i
    OBVIOUS
  <2> QED BY <1>4, <2>1
<1>8. ASSUME NEW i \in 0 .. k - 1
      PROVE  \A y : y \in layer[i + 1] <=> Beyond(es, dir, layer[i], y)
  BY <1>7 DEF Grow, Beyond
<1> QED BY <1>5, <1>6, <1>8, Zenon DEF IsLayered

(* The first layers are the same however many are asked for. *)
LEMMA LayersAgree ==
  ASSUME NEW es, NEW from, NEW dir, NEW k \in Nat, NEW j \in 0 .. k
  PROVE  Layers(es, from, dir, k)[j] = Layers(es, from, dir, j)[j]
<1>1. PICK r : r = Layers(es, from, dir, k)
  OBVIOUS
<1>2. PICK s : s = Layers(es, from, dir, j)
  OBVIOUS
<1>3. IsLayered(es, from, dir, k, r) /\ IsLayered(es, from, dir, j, s)
  BY <1>1, <1>2, LayersAreLayered
<1> DEFINE T == {i \in Nat : r[i] = s[i]}
<1>4. 0 \in T
  BY <1>3 DEF IsLayered
<1>5. ASSUME NEW i \in 0 .. j - 1, i \in T PROVE i + 1 \in T
  <2>1. i \in 0 .. k - 1 /\ i + 1 \in Nat /\ r[i] = s[i]
    BY <1>5
  <2>2. \A y : y \in r[i + 1] <=> Beyond(es, dir, r[i], y)
    BY <1>3, <2>1 DEF IsLayered
  <2>3. \A y : y \in s[i + 1] <=> Beyond(es, dir, s[i], y)
    BY <1>3 DEF IsLayered
  <2>4. r[i + 1] = s[i + 1]
    BY <2>1, <2>2, <2>3
  <2> QED BY <2>1, <2>4
<1>6. 0 .. j \subseteq T
  <2> HIDE DEF T
  <2> QED BY <1>4, <1>5, UpTo
<1> QED BY <1>1, <1>2, <1>6

-------------------------------------------------------------------------------
(* Layers and distances, of any set of edges.                              *)
(* y is j edges from S and not fewer. *)
IsNearest(es, S, y, j) == y \in LayerOf(es, S, j) /\ \A i \in 0 .. j - 1 : y \notin LayerOf(es, S, i)

LEMMA LayerOfIs ==
  ASSUME NEW es, NEW S
  PROVE  /\ LayerOf(es, S, 0) = S
         /\ \A j \in Nat : \A y : y \in LayerOf(es, S, j + 1) <=> Beyond(es, query.dir, LayerOf(es, S, j), y)
         /\ \A k \in Nat : \A j \in 0 .. k : Layers(es, S, query.dir, k)[j] = LayerOf(es, S, j)
<1> DEFINE L(k) == Layers(es, S, query.dir, k)
<1>1. \A k \in Nat : IsLayered(es, S, query.dir, k, L(k))
  BY LayersAreLayered
<1>2. \A k \in Nat : \A j \in 0 .. k : L(k)[j] = LayerOf(es, S, j)
  BY LayersAgree DEF LayerOf
<1>3. LayerOf(es, S, 0) = S
  <2>1. IsLayered(es, S, query.dir, 0, L(0))
    BY <1>1
  <2> QED BY <2>1 DEF LayerOf, IsLayered
<1>4. ASSUME NEW j \in Nat, NEW y
      PROVE  y \in LayerOf(es, S, j + 1) <=> Beyond(es, query.dir, LayerOf(es, S, j), y)
  <2>1. IsLayered(es, S, query.dir, j + 1, L(j + 1))
    BY <1>1
  <2>2. j \in 0 .. (j + 1) - 1 /\ j \in 0 .. j + 1 /\ j + 1 \in 0 .. j + 1 /\ j + 1 \in Nat
    OBVIOUS
  <2>3. L(j + 1)[j] = LayerOf(es, S, j) /\ L(j + 1)[j + 1] = LayerOf(es, S, j + 1)
    BY <1>2, <2>2
  <2> HIDE DEF L
  <2> QED BY <2>1, <2>2, <2>3 DEF IsLayered
<1> QED BY <1>2, <1>3, <1>4

LEMMA WithinIs ==
  ASSUME NEW es, NEW S, NEW k \in Nat
  PROVE  \A y : y \in Within(es, S, query.dir, k) <=> \E j \in 0 .. k : y \in LayerOf(es, S, j)
<1>1. PICK layer : layer = Layers(es, S, query.dir, k)
  OBVIOUS
<1>2. \A j \in 0 .. k : layer[j] = LayerOf(es, S, j)
  BY <1>1, LayerOfIs, ZenonT(60)
<1>3. Within(es, S, query.dir, k) = UNION {layer[i] : i \in 0 .. k}
  BY <1>1 DEF Within
<1> QED BY <1>2, <1>3

(* A walk of more edges to choose from. *)
LEMMA LayerOfMore ==
  ASSUME NEW es, NEW fs, es \subseteq fs, NEW S, NEW k \in Nat
  PROVE  LayerOf(es, S, k) \subseteq LayerOf(fs, S, k)
<1> DEFINE T == {j \in Nat : LayerOf(es, S, j) \subseteq LayerOf(fs, S, j)}
<1>1. 0 \in T
  BY LayerOfIs
<1>2. ASSUME NEW j \in Nat, j \in T PROVE j + 1 \in T
  <2>1. ASSUME NEW y, y \in LayerOf(es, S, j + 1) PROVE y \in LayerOf(fs, S, j + 1)
    <3>1. Beyond(es, query.dir, LayerOf(es, S, j), y)
      BY <2>1, LayerOfIs
    <3>2. Beyond(fs, query.dir, LayerOf(fs, S, j), y)
      BY <1>2, <3>1 DEF Beyond
    <3> QED BY <3>2, LayerOfIs
  <2> QED BY <2>1
<1>3. 0 .. k \subseteq T
  <2>1. \A j \in 0 .. k - 1 : j \in Nat
    OBVIOUS
  <2> HIDE DEF T
  <2> QED BY <1>1, <1>2, <2>1, UpTo
<1> QED BY <1>3

IsOfEach(es, S, j) == \A y : y \in LayerOf(es, S, j) <=> \E r \in S : y \in LayerOf(es, {r}, j)

(* A layer of a set is made of the layers of its members. *)
LEMMA LayerOfEach ==
  ASSUME NEW es, NEW S, NEW k \in Nat
  PROVE  IsOfEach(es, S, k)
<1> DEFINE T == {j \in Nat : IsOfEach(es, S, j)}
<1>1. 0 \in T
  <2>1. \A r : LayerOf(es, {r}, 0) = {r}
    BY LayerOfIs
  <2>2. LayerOf(es, S, 0) = S
    BY LayerOfIs
  <2>3. \A y : y \in LayerOf(es, S, 0) <=> \E r \in S : y \in LayerOf(es, {r}, 0)
    <3>1. \A y, r : y \in LayerOf(es, {r}, 0) <=> y = r
      BY <2>1
    <3> QED BY <2>2, <3>1, Zenon
  <2>4. IsOfEach(es, S, 0)
    BY <2>3, Zenon DEF IsOfEach
  <2> QED BY <2>4
<1>2. ASSUME NEW j \in Nat, j \in T PROVE j + 1 \in T
  <2>1. ASSUME NEW y PROVE y \in LayerOf(es, S, j + 1) <=> \E r \in S : y \in LayerOf(es, {r}, j + 1)
    <3>1. y \in LayerOf(es, S, j + 1) <=> Beyond(es, query.dir, LayerOf(es, S, j), y)
      BY LayerOfIs
    <3>2. \A r : y \in LayerOf(es, {r}, j + 1) <=> Beyond(es, query.dir, LayerOf(es, {r}, j), y)
      BY LayerOfIs
    <3>3. \A z : z \in LayerOf(es, S, j) <=> \E r \in S : z \in LayerOf(es, {r}, j)
      BY <1>2 DEF IsOfEach
    <3> QED BY <3>1, <3>2, <3>3, Zenon DEF Beyond
  <2>2. IsOfEach(es, S, j + 1)
    BY <2>1 DEF IsOfEach
  <2> QED BY <2>2
<1>3. 0 .. k \subseteq T
  <2>1. \A j \in 0 .. k - 1 : j \in Nat
    OBVIOUS
  <2> HIDE DEF T
  <2> QED BY <1>1, <1>2, <2>1, UpTo
<1> QED BY <1>3

LEMMA NearestIs ==
  ASSUME NEW es, NEW S, NEW k \in Nat, NEW y, y \in LayerOf(es, S, k)
  PROVE  \E j \in 0 .. k : IsNearest(es, S, y, j)
<1> DEFINE T == {j \in Nat : y \in LayerOf(es, S, j)}
<1>1. T \in SUBSET Nat /\ T # {} /\ k \in T
  OBVIOUS
<1>2. PICK j \in T : \A i \in T : j <= i
  <2> HIDE DEF T
  <2> QED BY <1>1, LeastNat
<1>3. j \in 0 .. k
  BY <1>1, <1>2
<1>4. \A i \in 0 .. j - 1 : i \notin T /\ i \in Nat
  BY <1>2
<1> QED BY <1>2, <1>3, <1>4 DEF IsNearest

LEMMA NearestLeast ==
  ASSUME NEW es, NEW S, NEW y, NEW j \in Nat, IsNearest(es, S, y, j),
         NEW k \in Nat, y \in LayerOf(es, S, k)
  PROVE  j <= k
<1>1. ASSUME k < j PROVE FALSE
  <2>1. k \in 0 .. j - 1
    BY <1>1
  <2> QED BY <2>1 DEF IsNearest
<1> QED BY <1>1

LEMMA NearestOnce ==
  ASSUME NEW es, NEW S, NEW y, NEW i \in Nat, NEW j \in Nat, IsNearest(es, S, y, i), IsNearest(es, S, y, j)
  PROVE  i = j
<1>1. i <= j /\ j <= i
  <2>1. y \in LayerOf(es, S, i) /\ y \in LayerOf(es, S, j)
    BY DEF IsNearest
  <2> QED BY <2>1, NearestLeast
<1> QED BY <1>1

(* The last edge to a node that is j + 1 edges away is from one that is j. *)
LEMMA NearestBefore ==
  ASSUME NEW es, NEW S, NEW j \in Nat, NEW y, IsNearest(es, S, y, j + 1)
  PROVE  \E e \in es : Peer(e, query.dir) = y /\ IsNearest(es, S, Source(e, query.dir), j)
<1>1. Beyond(es, query.dir, LayerOf(es, S, j), y)
  BY LayerOfIs DEF IsNearest
<1>2. PICK e \in es : Source(e, query.dir) \in LayerOf(es, S, j) /\ Peer(e, query.dir) = y
  BY <1>1 DEF Beyond
<1>3. ASSUME NEW i \in 0 .. j - 1, Source(e, query.dir) \in LayerOf(es, S, i) PROVE FALSE
  <2>1. Beyond(es, query.dir, LayerOf(es, S, i), y)
    BY <1>2, <1>3 DEF Beyond
  <2>2. i \in Nat /\ i + 1 \in 0 .. (j + 1) - 1
    OBVIOUS
  <2>3. y \in LayerOf(es, S, i + 1)
    BY <2>1, <2>2, LayerOfIs
  <2> QED BY <2>2, <2>3 DEF IsNearest
<1> QED BY <1>2, <1>3 DEF IsNearest

(* There is one at each distance before. *)
LEMMA NearestChain ==
  ASSUME NEW es, NEW S, NEW k \in Nat, NEW y0, IsNearest(es, S, y0, k)
  PROVE  \A j \in 1 .. k : \E e \in es : IsNearest(es, S, Peer(e, query.dir), j)
<1> DEFINE T == {m \in Nat : \A y : IsNearest(es, S, y, m) =>
                   \A j \in 1 .. m : \E e \in es : IsNearest(es, S, Peer(e, query.dir), j)}
<1>1. 0 \in T
  OBVIOUS
<1>2. ASSUME NEW m \in Nat, m \in T PROVE m + 1 \in T
  <2>1. ASSUME NEW y, IsNearest(es, S, y, m + 1), NEW j \in 1 .. m + 1
        PROVE  \E e \in es : IsNearest(es, S, Peer(e, query.dir), j)
    <3>1. PICK e \in es : Peer(e, query.dir) = y /\ IsNearest(es, S, Source(e, query.dir), m)
      BY <2>1, NearestBefore
    <3>2. CASE j = m + 1
      BY <2>1, <3>1, <3>2
    <3>3. CASE j # m + 1
      BY <1>2, <3>1, <3>3
    <3> QED BY <3>2, <3>3
  <2> QED BY <2>1
<1>3. 0 .. k \subseteq T
  <2>1. \A j \in 0 .. k - 1 : j \in Nat
    OBVIOUS
  <2> HIDE DEF T
  <2> QED BY <1>1, <1>2, <2>1, UpTo
<1>4. k \in T
  BY <1>3
<1> QED BY <1>4

LEMMA AtMost ==
  ASSUME NEW S, IsFiniteSet(S), NEW k \in Nat, NEW f \in [1 .. k -> S],
         \A i, j \in 1 .. k : f[i] = f[j] => i = j
  PROVE  k <= Cardinality(S)
<1>1. f \in Injection(1 .. k, S)
  BY DEF Injection, IsInjective
<1>2. Cardinality(1 .. k) <= Cardinality(S)
  BY <1>1, FS_Injection
<1>3. Cardinality(1 .. k) = k
  BY FS_Interval
<1> QED BY <1>2, <1>3

(* So no node is further than there are nodes, or edges.                   *)
LEMMA NearestBound ==
  ASSUME NEW es, IsFiniteSet(es), NEW N, IsFiniteSet(N), \A e \in es : Peer(e, query.dir) \in N,
         NEW S, NEW k \in Nat, NEW y, IsNearest(es, S, y, k)
  PROVE  k <= Cardinality(es) /\ k <= Cardinality(N)
<1>1. PICK f : f = [j \in 1 .. k |-> CHOOSE e \in es : IsNearest(es, S, Peer(e, query.dir), j)]
  OBVIOUS
<1>2. \A j \in 1 .. k : f[j] \in es /\ IsNearest(es, S, Peer(f[j], query.dir), j)
  <2>1. \A j \in 1 .. k : \E e \in es : IsNearest(es, S, Peer(e, query.dir), j)
    BY NearestChain
  <2> QED BY <1>1, <2>1
<1>3. PICK g : g = [j \in 1 .. k |-> Peer(f[j], query.dir)]
  OBVIOUS
<1>4. \A i, j \in 1 .. k : g[i] = g[j] => i = j
  <2>1. ASSUME NEW i \in 1 .. k, NEW j \in 1 .. k, g[i] = g[j] PROVE i = j
    <3>1. IsNearest(es, S, g[i], i) /\ IsNearest(es, S, g[i], j) /\ i \in Nat /\ j \in Nat
      BY <1>2, <1>3, <2>1
    <3> QED BY <3>1, NearestOnce
  <2> QED BY <2>1
<1>5. \A i, j \in 1 .. k : f[i] = f[j] => i = j
  BY <1>3, <1>4
<1>6. f \in [1 .. k -> es] /\ g \in [1 .. k -> N]
  BY <1>1, <1>2, <1>3
<1> QED BY <1>4, <1>5, <1>6, AtMost

-------------------------------------------------------------------------------
LEMMA StartsFrom ==
  ASSUME query.op # "unused"
  PROVE  Start = query.from
BY DEF Start

(* Layer j + 1 is one edge beyond layer j; so it is told by its number. *)
LEMMA LayerByLayer ==
  /\ Layer(0) = {Start}
  /\ \A j \in Nat : \A y : y \in Layer(j + 1) <=> Beyond(Admitted, query.dir, Layer(j), y)
  /\ \A k \in Nat : \A j \in 0 .. k :
       Layers(Admitted, {Start}, query.dir, k)[j] = Layer(j)
BY LayerOfIs DEF Layer

-------------------------------------------------------------------------------
SourceOf(e) == Source(e, query.dir)

(* What a walk sees of a program's edges. *)
LEMMA EdgesSeen ==
  ASSUME AskedInv
  PROVE  /\ IsFiniteSet(edges)
         /\ \A e \in edges : /\ PeerOf(e) \in Nodes /\ SourceOf(e) \in Nodes
                             /\ e.id \in Nat /\ e.confidence \in 0 .. 2
         /\ \A e, f \in edges : e.id = f.id => e = f
         /\ Admitted \subseteq edges
         /\ \A n, e : e \in NeighborsOf(n) <=> e \in Admitted /\ SourceOf(e) = n
         /\ Nodes \subseteq Nat /\ IsFiniteSet(Nodes) /\ query.from \in Nodes
         /\ query.depth \in Nat \cup {-1}
<1>1. /\ IsFiniteSet(program)
      /\ \A e \in program : e.src \in Nodes /\ e.dst \in Nodes /\ e.id \in Nat /\ e.confidence \in 0 .. 2
      /\ \A e, f \in edges : e.id = f.id => e = f
      /\ Nodes \subseteq Nat /\ IsFiniteSet(Nodes)
  BY ProgramAssumption DEF AskedInv, ProgramAssumption, edges
<1>2. edges \in SUBSET program
  BY DEF edges, InGraph
<1>3. IsFiniteSet(edges)
  BY <1>1, <1>2, FS_Subset
<1>4. \A e \in edges : PeerOf(e) \in Nodes /\ SourceOf(e) \in Nodes
  BY <1>1, <1>2 DEF PeerOf, Peer, SourceOf, Source
<1>5. \A n, e : e \in NeighborsOf(n) =>
        e \in edges /\ SourceOf(e) = n /\ Admits(query.filter, e) /\ WithinCap(query.filter, edges, e)
  BY DEF NeighborsOf, Neighbors, SourceOf
<1>6. \A e \in edges : Admits(query.filter, e) /\ WithinCap(query.filter, edges, e)
        => e \in NeighborsOf(SourceOf(e))
  BY DEF NeighborsOf, Neighbors, SourceOf
<1>7. \A e : e \in Admitted <=> \E n \in Nodes : e \in NeighborsOf(n)
  BY DEF Admitted
<1>8. \A n, e : e \in NeighborsOf(n) <=> e \in Admitted /\ SourceOf(e) = n
  BY <1>4, <1>5, <1>6, <1>7
<1>9. query.from \in Nodes /\ query.depth \in Nat \cup {-1}
  BY QueryAssumption DEF AskedInv, QueryAssumption, Unbounded
<1> QED BY <1>1, <1>2, <1>3, <1>4, <1>5, <1>7, <1>8, <1>9

(* FreshFrom, whatever was seen. *)
FreshOf(at, met) ==
  IF WithinDepth(at.depth + 1)
  THEN {e \in NeighborsOf(at.node) :
          /\ PeerOf(e) \notin met
          /\ \A f \in NeighborsOf(at.node) : PeerOf(f) = PeerOf(e) => e.id <= f.id}
  ELSE {}

LEMMA FreshFromIs == \A at : FreshFrom(at) = FreshOf(at, seen)
BY DEF FreshFrom, FirstEdges, FreshOf

(* One edge to each neighbor that is not met. *)
LEMMA FreshIsOnePerPeer ==
  ASSUME AskedInv, NEW at, NEW met
  PROVE  /\ IsFiniteSet(FreshOf(at, met))
         /\ \A e \in FreshOf(at, met) :
              /\ e \in NeighborsOf(at.node) /\ e \in Admitted /\ e \in edges
              /\ SourceOf(e) = at.node /\ PeerOf(e) \notin met /\ WithinDepth(at.depth + 1)
         /\ \A e, f \in FreshOf(at, met) : PeerOf(e) = PeerOf(f) => e = f
         /\ WithinDepth(at.depth + 1) =>
              \A e \in NeighborsOf(at.node) : PeerOf(e) \notin met =>
                \E f \in FreshOf(at, met) : PeerOf(f) = PeerOf(e)
<1>1. /\ IsFiniteSet(edges) /\ \A e \in edges : e.id \in Nat
      /\ \A e, f \in edges : e.id = f.id => e = f
      /\ Admitted \subseteq edges
      /\ \A n, e : e \in NeighborsOf(n) <=> e \in Admitted /\ SourceOf(e) = n
  BY EdgesSeen
<1>2. \A e \in FreshOf(at, met) :
        /\ e \in NeighborsOf(at.node) /\ PeerOf(e) \notin met /\ WithinDepth(at.depth + 1)
        /\ \A f \in NeighborsOf(at.node) : PeerOf(f) = PeerOf(e) => e.id <= f.id
  BY DEF FreshOf
<1>3. IsFiniteSet(FreshOf(at, met))
  <2>1. FreshOf(at, met) \in SUBSET edges
    BY <1>1, <1>2
  <2> QED BY <1>1, <2>1, FS_Subset
<1>4. ASSUME NEW e \in FreshOf(at, met), NEW f \in FreshOf(at, met), PeerOf(e) = PeerOf(f)
      PROVE  e = f
  <2>1. e \in edges /\ f \in edges /\ e.id \in Nat /\ f.id \in Nat
    BY <1>1, <1>2
  <2>2. e.id <= f.id /\ f.id <= e.id
    BY <1>2, <1>4
  <2>3. e.id = f.id
    BY <2>1, <2>2
  <2> QED BY <1>1, <2>1, <2>3
<1>5. ASSUME WithinDepth(at.depth + 1), NEW e \in NeighborsOf(at.node), PeerOf(e) \notin met
      PROVE  \E f \in FreshOf(at, met) : PeerOf(f) = PeerOf(e)
  <2> DEFINE ids == {f.id : f \in {f \in NeighborsOf(at.node) : PeerOf(f) = PeerOf(e)}}
  <2>1. ids \in SUBSET Nat /\ ids # {}
    BY <1>1, <1>5
  <2> HIDE DEF ids
  <2>2. PICK i \in ids : \A j \in ids : i <= j
    BY <2>1, LeastNat
  <2> USE DEF ids
  <2>3. PICK f \in NeighborsOf(at.node) : PeerOf(f) = PeerOf(e) /\ f.id = i
    BY <2>2
  <2>4. \A g \in NeighborsOf(at.node) : PeerOf(g) = PeerOf(f) => f.id <= g.id
    BY <2>2, <2>3
  <2>5. f \in FreshOf(at, met)
    BY <1>5, <2>3, <2>4 DEF FreshOf
  <2> QED BY <2>3, <2>5
<1> QED BY <1>1, <1>2, <1>3, <1>4, <1>5

-------------------------------------------------------------------------------
LEMMA DepthsBelow ==
  ASSUME AskedInv, NEW j \in Nat, NEW k \in Nat, j <= k, WithinDepth(k)
  PROVE  WithinDepth(j)
<1>1. query.depth \in Nat \cup {-1}
  BY EdgesSeen
<1> QED BY <1>1 DEF WithinDepth, Unbounded

LEMMA MetOnce ==
  ASSUME FoundTypes, NEW n, NEW k, NEW x, IsMet(n, k, x)
  PROVE  /\ k \in Nat /\ x \in BOOLEAN
         /\ \A j, y : IsMet(n, j, y) => j = k /\ y = x
         /\ AskedInv => n \in Nodes
<1>1. /\ \A d \in found : d.depth \in Nat /\ d.exc \in BOOLEAN /\ d.node \in Nodes /\ d.node # Start
      /\ \A c, d \in found : c.node = d.node => c = d
  BY DEF FoundTypes
<1>2. AskedInv => Start \in Nodes
  BY DEF FoundTypes
<1>3. CASE n = Start
  <2>1. \A j, y : IsMet(n, j, y) => j = 0 /\ y = FALSE
    BY <1>1, <1>3 DEF IsMet
  <2>2. k = 0 /\ x = FALSE
    BY <2>1
  <2>3. k \in Nat /\ x \in BOOLEAN
    BY <2>2
  <2>4. \A j, y : IsMet(n, j, y) => j = k /\ y = x
    BY <2>1, <2>2
  <2> QED BY <1>2, <1>3, <2>3, <2>4
<1>4. CASE n # Start
  <2>1. PICK d \in found : d.node = n /\ d.depth = k /\ d.exc = x
    BY <1>4 DEF IsMet
  <2>2. ASSUME NEW j, NEW y, IsMet(n, j, y) PROVE j = k /\ y = x
    <3>1. PICK c \in found : c.node = n /\ c.depth = j /\ c.exc = y
      BY <1>4, <2>2 DEF IsMet
    <3>2. c = d
      BY <1>1, <2>1, <3>1
    <3> QED BY <2>1, <3>1, <3>2
  <2>3. k \in Nat /\ x \in BOOLEAN /\ n \in Nodes
    BY <1>1, <2>1
  <2> QED BY <2>2, <2>3
<1> QED BY <1>3, <1>4

(* If all that was met less than h deep is expanded then what layer j of   *)
(* the graph has is met no deeper than j, for j up to h.                   *)
LEMMA MetByLayer ==
  ASSUME AskedInv, FoundTypes, NEW h \in Nat, WithinDepth(h),
         \A n : \A k \in 0 .. h - 1 : \A x : IsMet(n, k, x) => IsExpanded(n, k)
  PROVE  \A j \in 0 .. h : \A y \in Layer(j) : \E k \in 0 .. j : \E x : IsMet(y, k, x)
<1> DEFINE T == {j \in Nat : \A y \in Layer(j) : \E k \in 0 .. j : \E x : IsMet(y, k, x)}
<1>1. 0 \in T
  <2>1. IsMet(Start, 0, FALSE)
    BY DEF IsMet
  <2>2. Layer(0) = {Start} /\ 0 \in 0 .. 0
    BY LayerByLayer
  <2> QED BY <2>1, <2>2
<1>2. ASSUME NEW j \in 0 .. h - 1, j \in T PROVE j + 1 \in T
  <2>1. ASSUME NEW y \in Layer(j + 1) PROVE \E k \in 0 .. j + 1 : \E x : IsMet(y, k, x)
    <3>1. Beyond(Admitted, query.dir, Layer(j), y)
      BY LayerByLayer
    <3>2. PICK e \in Admitted : SourceOf(e) \in Layer(j) /\ PeerOf(e) = y
      BY <3>1 DEF Beyond, SourceOf, PeerOf
    <3>3. PICK k \in 0 .. j : \E x : IsMet(SourceOf(e), k, x)
      BY <1>2, <3>2
    <3>4. k \in 0 .. h - 1 /\ k + 1 \in Nat /\ k + 1 <= h
      OBVIOUS
    <3>5. IsExpanded(SourceOf(e), k)
      BY <3>3, <3>4
    <3>6. WithinDepth(k + 1)
      BY <3>4, DepthsBelow
    <3>7. e \in NeighborsOf(SourceOf(e))
      BY <3>2, EdgesSeen
    <3>8. PICK i \in 0 .. k + 1 : \E x : IsMet(PeerOf(e), i, x)
      BY <3>5, <3>6, <3>7 DEF IsExpanded
    <3>9. i \in 0 .. j + 1
      OBVIOUS
    <3> QED BY <3>2, <3>8, <3>9
  <2>2. j + 1 \in Nat
    OBVIOUS
  <2> QED BY <2>1, <2>2
<1>3. 0 .. h \subseteq T
  <2> HIDE DEF T
  <2> QED BY <1>1, <1>2, UpTo
<1> QED BY <1>3

-------------------------------------------------------------------------------
(* Queue, whatever was seen: the rest of the queue, then what is fresh.    *)
QueueOf(fr, met) ==
  Tail(fr) \o [i \in 1 .. Cardinality(FreshOf(Head(fr), met)) |->
                 Step(Head(fr), Sorted(FreshOf(Head(fr), met))[i])]

LEMMA QueueIs == \A fr : fr = frontier => Queue(Head(fr)) = QueueOf(fr, seen)
BY FreshFromIs DEF Queue, QueueOf

(* q lists what is left of fr, then a step from its head for each fresh.   *)
Lists(q, fr, met) ==
  /\ q \in Seq(Item)
  /\ Len(fr) \in Nat \ {0} /\ Head(fr) = fr[1] /\ fr[1] \in Item
  /\ Len(q) >= Len(fr) - 1
  /\ \A i \in 1 .. Len(fr) - 1 : q[i] = fr[i + 1]
  /\ \A i \in Len(fr) .. Len(q) : \E e \in FreshOf(fr[1], met) : q[i] = Step(fr[1], e)
  /\ \A e \in FreshOf(fr[1], met) : \E i \in Len(fr) .. Len(q) : q[i] = Step(fr[1], e)

LEMMA QueueOfLists ==
  ASSUME AskedInv, NEW fr \in Seq(Item), fr # <<>>, NEW met, NEW q, q = QueueOf(fr, met)
  PROVE  Lists(q, fr, met)
<1>1. PICK fresh : fresh = FreshOf(fr[1], met)
  OBVIOUS
<1>2. PICK s : s = Sorted(fresh)
  OBVIOUS
<1>3. PICK m \in Nat : m = Len(fr)
  OBVIOUS
<1>4. /\ m > 0 /\ Head(fr) = fr[1] /\ fr[1] \in Item
      /\ Tail(fr) \in Seq(Item) /\ Len(Tail(fr)) = m - 1
      /\ \A i \in 1 .. m - 1 : Tail(fr)[i] = fr[i + 1]
  BY <1>3
<1>5. /\ IsFiniteSet(fresh) /\ \A e \in fresh : e \in edges
  BY <1>1, FreshIsOnePerPeer
<1>6. /\ Cardinality(fresh) \in Nat
      /\ \A i \in 1 .. Cardinality(fresh) : s[i] \in fresh
      /\ \A e \in fresh : \E i \in 1 .. Cardinality(fresh) : s[i] = e
  <2>1. /\ \A e \in edges : PeerOf(e) \in Nodes /\ e.id \in Nat
        /\ \A e, f \in edges : e.id = f.id => e = f
        /\ Nodes \subseteq Nat
    BY EdgesSeen
  <2>2. /\ \A e \in fresh : Peer(e, query.dir) \in Nat /\ e.id \in Nat
        /\ \A e, f \in fresh : e.id = f.id => e = f
    BY <1>5, <2>1 DEF PeerOf
  <2> QED BY <1>2, <1>5, <2>2, InOrderLists DEF Sorted
<1>7. PICK c \in Nat : c = Cardinality(fresh)
  BY <1>6
<1>8. \A e \in fresh : Step(fr[1], e) \in Item
  <2>1. \A e \in edges : PeerOf(e) \in Nodes
    BY EdgesSeen
  <2> QED BY <1>4, <1>5, <2>1 DEF Step, Item, Advance
<1>9. PICK new : new = [i \in 1 .. c |-> Step(fr[1], s[i])]
  OBVIOUS
<1>10. new \in Seq(Item) /\ Len(new) = c /\ \A i \in 1 .. c : new[i] = Step(fr[1], s[i])
  BY <1>6, <1>7, <1>8, <1>9
<1>11. q = Tail(fr) \o new
  BY <1>1, <1>2, <1>4, <1>7, <1>9 DEF QueueOf
<1>12. /\ q \in Seq(Item) /\ Len(q) = (m - 1) + c
       /\ \A i \in 1 .. m - 1 : q[i] = Tail(fr)[i]
       /\ \A i \in 1 .. c : q[(m - 1) + i] = new[i]
  BY <1>4, <1>10, <1>11
<1>13. ASSUME NEW i \in m .. Len(q) PROVE \E e \in fresh : q[i] = Step(fr[1], e)
  <2>1. i - (m - 1) \in 1 .. c /\ (m - 1) + (i - (m - 1)) = i
    BY <1>4, <1>12
  <2>2. q[i] = Step(fr[1], s[i - (m - 1)]) /\ s[i - (m - 1)] \in fresh
    BY <1>6, <1>7, <1>10, <1>12, <2>1
  <2> QED BY <2>2
<1>14. ASSUME NEW e \in fresh PROVE \E i \in m .. Len(q) : q[i] = Step(fr[1], e)
  <2>1. PICK i \in 1 .. c : s[i] = e
    BY <1>6, <1>7
  <2>2. (m - 1) + i \in m .. Len(q) /\ q[(m - 1) + i] = Step(fr[1], e)
    BY <1>4, <1>10, <1>12, <2>1
  <2> QED BY <2>2
<1>15. Len(fr) \in Nat \ {0} /\ Len(q) >= Len(fr) - 1
  BY <1>3, <1>4, <1>12
<1> QED BY <1>1, <1>3, <1>4, <1>12, <1>13, <1>14, <1>15 DEF Lists

-------------------------------------------------------------------------------
(* Nothing but the walk changes: what the query says of the program stays. *)
LEMMA AskedSame ==
  ASSUME UNCHANGED asked
  PROVE  /\ query' = query /\ edges' = edges /\ Admitted' = Admitted
         /\ AskedInv' = AskedInv /\ IsNear' = IsNear /\ IsBreadth' = IsBreadth /\ Goal' = Goal
         /\ \A n : NeighborsOf(n)' = NeighborsOf(n)
         /\ \A e : PeerOf(e)' = PeerOf(e) /\ SourceOf(e)' = SourceOf(e)
         /\ \A d : WithinDepth(d)' = WithinDepth(d)
         /\ Start' = Start => \A j : Layer(j)' = Layer(j)
<1>1. program' = program /\ query' = query
  BY DEF asked
<1>2. edges' = edges
  BY <1>1 DEF edges
<1>3. \A n : NeighborsOf(n)' = NeighborsOf(n)
  BY <1>1, <1>2 DEF NeighborsOf
<1>4. Admitted' = Admitted
  BY <1>3 DEF Admitted
<1>5. \A e : PeerOf(e)' = PeerOf(e) /\ SourceOf(e)' = SourceOf(e)
  BY <1>1 DEF PeerOf, SourceOf
<1>6. \A d : WithinDepth(d)' = WithinDepth(d)
  BY <1>1 DEF WithinDepth
<1>7. Start' = Start => \A j : Layer(j)' = Layer(j)
  BY <1>1, <1>4 DEF Layer, LayerOf
<1>8. AskedInv' = AskedInv /\ IsNear' = IsNear /\ IsBreadth' = IsBreadth /\ Goal' = Goal
  BY <1>1 DEF AskedInv, IsNear, IsBreadth, Goal
<1> QED BY <1>1, <1>2, <1>3, <1>4, <1>5, <1>6, <1>7, <1>8

LEMMA FoundSame ==
  ASSUME UNCHANGED asked, Start' = Start, found' = found
  PROVE  /\ FoundInv' = FoundInv
         /\ Expanded' = Expanded
         /\ \A n, k, x : IsMet(n, k, x)' = IsMet(n, k, x)
<1>1. /\ query' = query /\ Admitted' = Admitted
      /\ \A n : NeighborsOf(n)' = NeighborsOf(n)
      /\ \A e : PeerOf(e)' = PeerOf(e)
      /\ \A d : WithinDepth(d)' = WithinDepth(d)
      /\ \A j : Layer(j)' = Layer(j)
  BY AskedSame
<1>2. \A n, k, x : IsMet(n, k, x)' = IsMet(n, k, x)
  BY <1>1 DEF IsMet
<1>3. FoundTypes' = FoundTypes
  BY <1>1 DEF FoundTypes
<1>4. FoundFrom' = FoundFrom
  BY <1>1, <1>2 DEF FoundFrom
<1>5. FoundNearest' = FoundNearest
  BY <1>1 DEF FoundNearest
<1>6. Expanded' = Expanded
  BY <1>1, <1>2 DEF Expanded, IsExpanded
<1> QED BY <1>2, <1>3, <1>4, <1>5, <1>6 DEF FoundInv

-------------------------------------------------------------------------------
(* What at, the first in the queue, has fresh is not met and is not nearer *)
(* than one edge beyond at.                                                *)
LEMMA FreshIsNew ==
  ASSUME AskedInv, FoundInv, SeenIsMet, QueueInv, frontier # <<>>, NEW at, at = frontier[1]
  PROVE  /\ at \in Item /\ WithinDepth(at.depth) /\ IsMet(at.node, at.depth, at.exc)
         /\ \A n, k, x : IsMet(n, k, x) => k \in Nat /\ k <= at.depth + 1
         /\ \A i \in DOMAIN frontier : at.depth <= frontier[i].depth
         /\ \A e \in FreshOf(at, seen) :
              /\ \A k, x : ~IsMet(PeerOf(e), k, x)
              /\ \A j \in 0 .. at.depth : PeerOf(e) \notin Layer(j)
<1>1. frontier \in Seq(Item) /\ 1 \in DOMAIN frontier /\ at \in Item
  BY DEF QueueInv
<1>2. at.depth \in Nat /\ WithinDepth(at.depth) /\ IsMet(at.node, at.depth, at.exc)
  BY <1>1 DEF QueueInv, Item
<1>3. ASSUME NEW i \in DOMAIN frontier PROVE at.depth <= frontier[i].depth
  <2>1. CASE i = 1
    BY <1>2, <2>1
  <2>2. CASE i # 1
    <3>1. 1 < i
      BY <1>1, <2>2
    <3> QED BY <1>1, <3>1 DEF QueueInv
  <2> QED BY <2>1, <2>2
<1>4. FoundTypes
  BY DEF FoundInv
<1>5. \A n, k, x : IsMet(n, k, x) => k \in Nat /\ k <= at.depth + 1
  BY <1>4, MetOnce DEF QueueInv
<1>6. ASSUME NEW n, NEW k \in 0 .. at.depth - 1, NEW x, IsMet(n, k, x) PROVE IsExpanded(n, k)
  <2>1. CASE IsQueued(n)
    <3>1. PICK i \in DOMAIN frontier : frontier[i].node = n
      BY <2>1 DEF IsQueued
    <3>2. IsMet(n, frontier[i].depth, frontier[i].exc)
      BY <3>1 DEF QueueInv
    <3>3. frontier[i].depth = k
      BY <1>4, <1>6, <3>2, MetOnce
    <3> QED BY <1>2, <1>3, <3>3
  <2> QED BY <1>6, <2>1 DEF QueueInv
<1>7. \A j \in 0 .. at.depth : \A y \in Layer(j) : \E k \in 0 .. j : \E x : IsMet(y, k, x)
  BY <1>2, <1>4, <1>6, MetByLayer
<1>8. ASSUME NEW e \in FreshOf(at, seen)
      PROVE  /\ \A k, x : ~IsMet(PeerOf(e), k, x)
             /\ \A j \in 0 .. at.depth : PeerOf(e) \notin Layer(j)
  <2>1. PeerOf(e) \notin seen
    BY FreshIsOnePerPeer
  <2>2. \A k, x : ~IsMet(PeerOf(e), k, x)
    BY <2>1 DEF SeenIsMet, IsMet
  <2> QED BY <1>7, <2>2
<1> QED BY <1>1, <1>2, <1>3, <1>5, <1>8

(* Discover's turn: what is fresh at at is found.                          *)
Finds(at) ==
  /\ found' = found \cup {Discovery(at, e) : e \in FreshOf(at, seen)}
  /\ seen' = seen \cup {PeerOf(e) : e \in FreshOf(at, seen)}

LEMMA MetAfter ==
  ASSUME UNCHANGED asked, Start' = Start, NEW at, Finds(at)
  PROVE  \A n, k, x : IsMet(n, k, x)' <=>
           \/ IsMet(n, k, x)
           \/ \E e \in FreshOf(at, seen) : n = PeerOf(e) /\ k = at.depth + 1 /\ x = Advance(at.exc, e)
<1>1. query' = query
  BY AskedSame
<1>2. \A e : /\ Discovery(at, e).node = PeerOf(e) /\ Discovery(at, e).depth = at.depth + 1
             /\ Discovery(at, e).exc = Advance(at.exc, e) /\ Discovery(at, e).via = e
  BY DEF Discovery, Step
<1>3. \A d : d \in found' <=> d \in found \/ \E e \in FreshOf(at, seen) : d = Discovery(at, e)
  BY DEF Finds
<1>4. \A n, k, x : (\E d \in found' : d.node = n /\ d.depth = k /\ d.exc = x) <=>
        \/ \E d \in found : d.node = n /\ d.depth = k /\ d.exc = x
        \/ \E e \in FreshOf(at, seen) : n = PeerOf(e) /\ k = at.depth + 1 /\ x = Advance(at.exc, e)
  BY <1>2, <1>3
<1>5. \A n, k, x : IsMet(n, k, x)' <=>
        (n = Start /\ k = 0 /\ x = FALSE) \/ \E d \in found' : d.node = n /\ d.depth = k /\ d.exc = x
  BY <1>1 DEF IsMet
<1>6. \A n, k, x : IsMet(n, k, x) <=>
        (n = Start /\ k = 0 /\ x = FALSE) \/ \E d \in found : d.node = n /\ d.depth = k /\ d.exc = x
  BY DEF IsMet
<1> QED BY <1>4, <1>5, <1>6

LEMMA DiscoverFinds ==
  ASSUME AskedInv, UNCHANGED asked, Start' = Start, FoundInv, SeenIsMet, QueueInv, frontier # <<>>,
         NEW at, at = frontier[1], Finds(at)
  PROVE  FoundInv' /\ SeenIsMet'
<1> DEFINE fresh == FreshOf(at, seen)
<1>1. /\ query' = query /\ Admitted' = Admitted
      /\ \A e : PeerOf(e)' = PeerOf(e)
      /\ \A d : WithinDepth(d)' = WithinDepth(d)
      /\ \A j : Layer(j)' = Layer(j)
  BY AskedSame
<1>2. /\ at \in Item /\ IsMet(at.node, at.depth, at.exc) /\ at.depth \in Nat /\ at.exc \in BOOLEAN
      /\ \A e \in fresh :
           /\ \A k, x : ~IsMet(PeerOf(e), k, x)
           /\ \A j \in 0 .. at.depth : PeerOf(e) \notin Layer(j)
  BY FreshIsNew DEF Item
<1>3. /\ \A e \in fresh : /\ e \in Admitted /\ e \in edges /\ SourceOf(e) = at.node
                          /\ PeerOf(e) \in Nodes /\ WithinDepth(at.depth + 1)
      /\ \A e, f \in fresh : PeerOf(e) = PeerOf(f) => e = f
  BY FreshIsOnePerPeer, EdgesSeen
<1>4. \A e : /\ Discovery(at, e).node = PeerOf(e) /\ Discovery(at, e).depth = at.depth + 1
             /\ Discovery(at, e).exc = Advance(at.exc, e) /\ Discovery(at, e).via = e
  BY DEF Discovery, Step
<1>5. /\ found \subseteq [node : Nodes, depth : Nat, exc : BOOLEAN, via : Admitted]
      /\ \A d \in found : d.node # Start /\ WithinDepth(d.depth) /\ PeerOf(d.via) = d.node
      /\ \A c, d \in found : c.node = d.node => c = d
  BY DEF FoundInv, FoundTypes
<1>6. /\ \A d \in found : d \in found'
      /\ \A e \in fresh : Discovery(at, e) \in found'
      /\ \A d \in found' : d \in found \/ \E e \in fresh : d = Discovery(at, e)
  BY DEF Finds
<1>7. \A e \in fresh : PeerOf(e) # Start /\ \A d \in found : d.node # PeerOf(e)
  BY <1>2 DEF IsMet
<1> HIDE DEF fresh
<1>8. FoundTypes'
  <2>1. ASSUME NEW e \in fresh
        PROVE  Discovery(at, e) \in [node : Nodes, depth : Nat, exc : BOOLEAN, via : Admitted]
    <3>1. at.depth + 1 \in Nat /\ Advance(at.exc, e) \in BOOLEAN
      BY <1>2 DEF Advance
    <3>2. PeerOf(e) \in Nodes /\ e \in Admitted
      BY <1>3
    <3> QED BY <3>1, <3>2 DEF Discovery, Step
  <2>2. found' \subseteq [node : Nodes, depth : Nat, exc : BOOLEAN, via : Admitted']
    BY <1>1, <1>5, <1>6, <2>1
  <2>3. \A d \in found' : d.node # Start /\ WithinDepth(d.depth) /\ PeerOf(d.via) = d.node
    <3>1. \A e \in fresh : /\ Discovery(at, e).node # Start /\ WithinDepth(Discovery(at, e).depth)
                          /\ PeerOf(Discovery(at, e).via) = Discovery(at, e).node
      BY <1>3, <1>4, <1>7
    <3> QED BY <1>5, <1>6, <3>1
  <2>4. ASSUME NEW c \in found', NEW d \in found', c.node = d.node PROVE c = d
    <3>1. CASE c \in found /\ d \in found
      BY <1>5, <2>4, <3>1
    <3>2. CASE c \in found /\ d \notin found
      BY <1>4, <1>6, <1>7, <2>4, <3>2
    <3>3. CASE c \notin found /\ d \in found
      BY <1>4, <1>6, <1>7, <2>4, <3>3
    <3>4. CASE c \notin found /\ d \notin found
      <4>1. PICK e \in fresh : c = Discovery(at, e)
        BY <1>6, <3>4
      <4>2. PICK f \in fresh : d = Discovery(at, f)
        BY <1>6, <3>4
      <4>3. PeerOf(e) = PeerOf(f)
        BY <1>4, <2>4, <4>1, <4>2
      <4> QED BY <1>3, <4>1, <4>2, <4>3
    <3> QED BY <3>1, <3>2, <3>3, <3>4
  <2>5. Start' \in Nodes
    BY DEF FoundInv, FoundTypes
  <2> QED BY <1>1, <2>2, <2>3, <2>4, <2>5 DEF FoundTypes
<1>9. \A n, k, x : IsMet(n, k, x) => IsMet(n, k, x)'
  BY MetAfter
<1>10. FoundFrom'
  <2>1. ASSUME NEW d \in found'
        PROVE  \E k \in Nat, x \in BOOLEAN :
                 IsMet(SourceOf(d.via), k, x)' /\ d.depth = k + 1 /\ d.exc = Advance(x, d.via)
    <3> PICK n : n = SourceOf(d.via)
      OBVIOUS
    <3>n. n = SourceOf(d.via)'
      BY <1>1 DEF SourceOf
    <3>1. CASE d \in found
      <4>1. PICK k \in Nat, x \in BOOLEAN : IsMet(n, k, x) /\ d.depth = k + 1 /\ d.exc = Advance(x, d.via)
        BY <3>1 DEF FoundInv, FoundFrom, SourceOf
      <4>2. IsMet(n, k, x)'
        BY <1>9, <4>1
      <4> QED BY <3>n, <4>1, <4>2
    <3>2. CASE d \notin found
      <4>1. PICK e \in fresh : d = Discovery(at, e)
        BY <1>6, <3>2
      <4>2. d.via = e /\ d.depth = at.depth + 1 /\ d.exc = Advance(at.exc, e) /\ SourceOf(e) = at.node
        BY <1>3, <1>4, <4>1
      <4>3. IsMet(n, at.depth, at.exc)'
        BY <1>2, <1>9, <4>2
      <4> QED BY <1>2, <3>n, <4>2, <4>3
    <3> QED BY <3>1, <3>2
  <2> QED BY <1>1, <2>1 DEF FoundFrom, SourceOf
<1>11. FoundNearest'
  <2>1. ASSUME NEW d \in found', NEW j \in 0 .. d.depth - 1 PROVE d.node \notin Layer(j)
    <3>1. CASE d \in found
      BY <3>1 DEF FoundInv, FoundNearest
    <3>2. CASE d \notin found
      <4>1. PICK e \in fresh : d = Discovery(at, e)
        BY <1>6, <3>2
      <4>2. d.node = PeerOf(e) /\ d.depth = at.depth + 1
        BY <1>4, <4>1
      <4>3. j \in 0 .. at.depth
        BY <1>2, <4>2
      <4> QED BY <1>2, <4>2, <4>3
    <3> QED BY <3>1, <3>2
  <2> QED BY <1>1, <2>1 DEF FoundNearest
<1>12. SeenIsMet'
  <2>1. ASSUME NEW n
        PROVE  (\E d \in found' : n = d.node)
               <=> (\E d \in found : n = d.node) \/ (\E e \in fresh : n = PeerOf(e))
    BY <1>4, <1>6
  <2>2. {d.node : d \in found'} = {d.node : d \in found} \cup {PeerOf(e) : e \in fresh}
    BY <2>1
  <2> QED BY <1>1, <2>2 DEF SeenIsMet, Finds, fresh
<1> QED BY <1>8, <1>10, <1>11, <1>12 DEF FoundInv

LEMMA DiscoverQueues ==
  ASSUME AskedInv, UNCHANGED asked, Start' = Start, FoundInv, SeenIsMet, QueueInv, frontier # <<>>,
         NEW at, at = frontier[1], Finds(at), frontier' = QueueOf(frontier, seen)
  PROVE  QueueInv'
<1>1. PICK fresh : fresh = FreshOf(at, seen)
  OBVIOUS
<1>2. PICK h : h = at.depth
  OBVIOUS
<1>3. PICK m : m = Len(frontier)
  OBVIOUS
<1>4. PICK q : q = frontier'
  OBVIOUS
<1>5. /\ \A n : NeighborsOf(n)' = NeighborsOf(n)
      /\ \A e : PeerOf(e)' = PeerOf(e)
      /\ \A d : WithinDepth(d)' = WithinDepth(d)
  BY AskedSame
<1>6. /\ at \in Item /\ h \in Nat /\ WithinDepth(h) /\ IsMet(at.node, h, at.exc)
      /\ \A n, k, x : IsMet(n, k, x) => k \in Nat /\ k <= h + 1
      /\ \A i \in DOMAIN frontier : h <= frontier[i].depth
  BY <1>2, FreshIsNew DEF Item
<1>7. /\ m \in Nat \ {0} /\ DOMAIN frontier = 1 .. m
      /\ q \in Seq(Item) /\ Len(q) >= m - 1 /\ DOMAIN q = 1 .. Len(q) /\ Len(q) \in Nat
      /\ \A i \in 1 .. m - 1 : q[i] = frontier[i + 1]
      /\ \A i \in m .. Len(q) : \E e \in fresh : q[i] = Step(at, e)
      /\ \A e \in fresh : \E i \in m .. Len(q) : q[i] = Step(at, e)
  <2>1. frontier \in Seq(Item)
    BY DEF QueueInv
  <2>2. DOMAIN frontier = 1 .. m
    BY <1>3, <2>1
  <2>q. q = QueueOf(frontier, seen)
    BY <1>4
  <2>3. Lists(q, frontier, seen)
    BY <2>1, <2>q, QueueOfLists
  <2>4. DOMAIN q = 1 .. Len(q) /\ Len(q) \in Nat
    BY <2>3 DEF Lists
  <2> QED BY <1>1, <1>3, <2>2, <2>3, <2>4 DEF Lists
<1>8. \A n, k, x : IsMet(n, k, x)' <=>
        \/ IsMet(n, k, x)
        \/ \E e \in fresh : n = PeerOf(e) /\ k = h + 1 /\ x = Advance(at.exc, e)
  BY <1>1, <1>2, MetAfter
<1>9. /\ \A e \in fresh : WithinDepth(h + 1)
      /\ WithinDepth(h + 1) => \A e \in NeighborsOf(at.node) : PeerOf(e) \notin seen =>
           \E f \in fresh : PeerOf(f) = PeerOf(e)
  BY <1>1, <1>2, FreshIsOnePerPeer
<1>10. \A e : Step(at, e).node = PeerOf(e) /\ Step(at, e).depth = h + 1 /\ Step(at, e).exc = Advance(at.exc, e)
  BY <1>2 DEF Step
<1>11. /\ \A i \in 1 .. m : /\ IsMet(frontier[i].node, frontier[i].depth, frontier[i].exc)
                            /\ WithinDepth(frontier[i].depth)
       /\ \A i, j \in 1 .. m : i < j => frontier[i].depth <= frontier[j].depth
       /\ \A n, k, x : IsMet(n, k, x) => IsQueued(n) \/ IsExpanded(n, k)
  BY <1>7 DEF QueueInv
<1>12. \A i \in 1 .. m : frontier[i].depth \in Nat /\ frontier[i].depth <= h + 1 /\ h <= frontier[i].depth
  BY <1>6, <1>7, <1>11
(* What is in the queue is met, in the order of depth. *)
<1>13. ASSUME NEW i \in 1 .. Len(q)
       PROVE  /\ IsMet(q[i].node, q[i].depth, q[i].exc)'
              /\ WithinDepth(q[i].depth)
              /\ i >= m => q[i].depth = h + 1
              /\ q[i].depth \in Nat /\ h <= q[i].depth /\ q[i].depth <= h + 1
  <2> PICK s : s = q[i]
    OBVIOUS
  <2>1. CASE i < m
    <3>1. i \in 1 .. m - 1 /\ i + 1 \in 1 .. m
      BY <1>7, <2>1
    <3>2. s = frontier[i + 1]
      BY <1>7, <3>1
    <3>3. IsMet(s.node, s.depth, s.exc) /\ WithinDepth(s.depth) /\ s.depth \in Nat
          /\ h <= s.depth /\ s.depth <= h + 1
      BY <1>11, <1>12, <3>1, <3>2
    <3>4. IsMet(s.node, s.depth, s.exc)'
      BY <1>8, <3>3
    <3>5. ~(i >= m)
      BY <1>7, <2>1
    <3> QED BY <3>3, <3>4, <3>5
  <2>2. CASE i >= m
    <3>1. i \in m .. Len(q)
      BY <1>7, <2>2
    <3>2. PICK e \in fresh : s = Step(at, e)
      BY <1>7, <3>1
    <3>3. s.node = PeerOf(e) /\ s.depth = h + 1 /\ s.exc = Advance(at.exc, e) /\ WithinDepth(h + 1)
      BY <1>9, <1>10, <3>2
    <3>4. IsMet(s.node, s.depth, s.exc)'
      BY <1>8, <3>3
    <3> QED BY <1>6, <3>3, <3>4
  <2> QED BY <1>7, <2>1, <2>2
<1>14. ASSUME NEW i \in 1 .. Len(q), NEW j \in 1 .. Len(q), i < j PROVE q[i].depth <= q[j].depth
  <2>1. CASE j >= m
    <3>1. q[j].depth = h + 1 /\ q[i].depth <= h + 1
      BY <1>13, <2>1
    <3> QED BY <3>1
  <2>2. CASE j < m
    <3>1. i + 1 \in 1 .. m /\ j + 1 \in 1 .. m /\ i + 1 < j + 1 /\ i \in 1 .. m - 1 /\ j \in 1 .. m - 1
      BY <1>7, <1>14, <2>2
    <3>2. q[i] = frontier[i + 1] /\ q[j] = frontier[j + 1]
      BY <1>7, <3>1
    <3>3. frontier[i + 1].depth <= frontier[j + 1].depth
      BY <1>11, <3>1
    <3> QED BY <3>2, <3>3
  <2> QED BY <1>7, <2>1, <2>2
(* Who is met is in the queue still, or had all its neighbors met. *)
<1>15. \A n, k : IsExpanded(n, k) => IsExpanded(n, k)'
  <2>1. ASSUME NEW e, NEW j, NEW x, IsMet(PeerOf(e), j, x) PROVE IsMet(PeerOf(e), j, x)'
    <3> PICK n : n = PeerOf(e)
      OBVIOUS
    <3>1. n = PeerOf(e)'
      BY <1>5
    <3>2. IsMet(n, j, x)'
      BY <1>8, <2>1
    <3> QED BY <3>1, <3>2
  <2> QED BY <1>5, <2>1 DEF IsExpanded
<1>16. IsExpanded(at.node, h)'
  <2>1. ASSUME WithinDepth(h + 1), NEW e \in NeighborsOf(at.node)
        PROVE  \E j \in 0 .. h + 1 : \E x : IsMet(PeerOf(e), j, x)'
    <3> PICK n : n = PeerOf(e)
      OBVIOUS
    <3>1. n = PeerOf(e)'
      BY <1>5
    <3>2. CASE n \in seen
      <4>1. \E k, x : IsMet(n, k, x)
        BY <3>2 DEF SeenIsMet, IsMet
      <4>2. PICK k, x : IsMet(n, k, x)
        BY <4>1
      <4>3. k \in 0 .. h + 1
        BY <1>6, <4>2
      <4>4. IsMet(n, k, x)'
        BY <1>8, <4>2
      <4> QED BY <3>1, <4>3, <4>4
    <3>3. CASE n \notin seen
      <4>1. PICK f \in fresh : PeerOf(f) = n
        BY <1>9, <2>1, <3>3
      <4>2. IsMet(n, h + 1, Advance(at.exc, f))'
        BY <1>8, <4>1
      <4>3. h + 1 \in 0 .. h + 1
        BY <1>6
      <4> QED BY <3>1, <4>2, <4>3
    <3> QED BY <3>2, <3>3
  <2> QED BY <1>5, <2>1 DEF IsExpanded
<1>17. \A n : (\E i \in 1 .. Len(q) : q[i].node = n) <=> IsQueued(n)'
  BY <1>4, <1>7 DEF IsQueued
<1>18. ASSUME NEW n, NEW k, NEW x, IsMet(n, k, x)'
       PROVE  /\ IsQueued(n)' \/ IsExpanded(n, k)'
              /\ k \in Nat /\ k <= h + 1
  <2>1. CASE IsMet(n, k, x)
    <3>1. k \in Nat /\ k <= h + 1
      BY <1>6, <2>1
    <3>2. CASE IsExpanded(n, k)
      BY <1>15, <3>1, <3>2
    <3>3. CASE IsQueued(n)
      <4>1. PICK i \in 1 .. m : frontier[i].node = n
        BY <1>7, <3>3 DEF IsQueued
      <4>2. CASE i = 1
        <5>1. n = at.node
          BY <4>1, <4>2
        <5>2. k = h
          BY <1>6, <2>1, <5>1, MetOnce DEF FoundInv
        <5> QED BY <1>16, <3>1, <5>1, <5>2
      <4>3. CASE i # 1
        <5>1. i - 1 \in 1 .. m - 1 /\ (i - 1) + 1 = i /\ i - 1 \in 1 .. Len(q)
          BY <1>7, <4>3
        <5>2. q[i - 1].node = n
          BY <1>7, <4>1, <5>1
        <5> QED BY <1>17, <3>1, <5>1, <5>2
      <4> QED BY <4>2, <4>3
    <3> QED BY <1>11, <2>1, <3>2, <3>3
  <2>2. CASE \E e \in fresh : n = PeerOf(e) /\ k = h + 1 /\ x = Advance(at.exc, e)
    <3>1. PICK e \in fresh : n = PeerOf(e) /\ k = h + 1
      BY <2>2
    <3>2. PICK i \in m .. Len(q) : q[i] = Step(at, e)
      BY <1>7
    <3>3. i \in 1 .. Len(q) /\ q[i].node = n
      BY <1>7, <1>10, <3>1, <3>2
    <3> QED BY <1>6, <1>17, <3>1, <3>3
  <2> QED BY <1>8, <1>18, <2>1, <2>2
<1>19. q # <<>> => h <= q[1].depth /\ q[1].depth \in Nat
  <2>1. q # <<>> => 1 \in 1 .. Len(q)
    BY <1>7
  <2> QED BY <1>13, <2>1
<1>20. \A n, k, x : IsMet(n, k, x)' => (q # <<>> => k <= q[1].depth + 1)
  <2>1. ASSUME NEW n, NEW k, NEW x, IsMet(n, k, x)', q # <<>> PROVE k <= q[1].depth + 1
    <3>1. k \in Nat /\ k <= h + 1
      BY <1>18, <2>1
    <3>2. h <= q[1].depth /\ q[1].depth \in Nat
      BY <1>19, <2>1
    <3> QED BY <1>6, <3>1, <3>2
  <2> QED BY <2>1
<1>21. \A i \in 1 .. Len(q) : IsMet(q[i].node, q[i].depth, q[i].exc)'
  BY <1>13
<1>22. \A i \in DOMAIN q : WithinDepth(q[i].depth)' /\ \A j \in DOMAIN q : i < j => q[i].depth <= q[j].depth
  BY <1>5, <1>7, <1>13, <1>14
<1>23. \A n, k, x : IsMet(n, k, x)' => IsQueued(n)' \/ IsExpanded(n, k)'
  BY <1>18
<1> QED BY <1>4, <1>7, <1>20, <1>21, <1>22, <1>23 DEF QueueInv

-------------------------------------------------------------------------------
(* A walk that has met only the node it starts from. *)
IsAtStart ==
  /\ Start \in Nodes
  /\ frontier = <<[node |-> Start, depth |-> 0, exc |-> FALSE]>>
  /\ seen = {Start} /\ found = {}

LEMMA BeginsAtStart == AskedInv /\ IsAtStart => FoundInv /\ SeenIsMet /\ QueueInv
<1> SUFFICES ASSUME AskedInv, IsAtStart PROVE FoundInv /\ SeenIsMet /\ QueueInv
  OBVIOUS
<1>1. /\ frontier = <<[node |-> Start, depth |-> 0, exc |-> FALSE]>>
      /\ seen = {Start} /\ found = {}
  BY DEF IsAtStart
<1>2. Start \in Nodes /\ query.depth \in Nat \cup {-1}
  BY EdgesSeen DEF IsAtStart
<1>3. \A n, k, x : IsMet(n, k, x) <=> n = Start /\ k = 0 /\ x = FALSE
  BY <1>1 DEF IsMet
<1>4. FoundInv
  BY <1>1, <1>2 DEF FoundInv, FoundTypes, FoundFrom, FoundNearest
<1>5. SeenIsMet
  BY <1>1 DEF SeenIsMet
<1>6. QueueInv
  <2>1. /\ frontier \in Seq(Item) /\ DOMAIN frontier = {1} /\ frontier # <<>>
        /\ frontier[1].node = Start /\ frontier[1].depth = 0 /\ frontier[1].exc = FALSE
    BY <1>1, <1>2 DEF Item
  <2>2. WithinDepth(0)
    BY <1>2 DEF WithinDepth, Unbounded
  <2>3. IsMet(Start, 0, FALSE)
    BY DEF IsMet
  <2>4. \A i \in DOMAIN frontier :
          /\ IsMet(frontier[i].node, frontier[i].depth, frontier[i].exc)
          /\ WithinDepth(frontier[i].depth)
          /\ \A j \in DOMAIN frontier : i < j => frontier[i].depth <= frontier[j].depth
    <3>1. IsMet(frontier[1].node, frontier[1].depth, frontier[1].exc) /\ WithinDepth(frontier[1].depth)
      BY <2>1, <2>2, <2>3
    <3>2. \A i, j \in DOMAIN frontier : i = 1 /\ j = 1
      BY <2>1
    <3> QED BY <3>1, <3>2
  <2>5. \A n, k, x : IsMet(n, k, x) => IsQueued(n) /\ k <= frontier[1].depth + 1
    BY <1>3, <2>1 DEF IsQueued
  <2> QED BY <2>1, <2>4, <2>5 DEF QueueInv
<1> QED BY <1>4, <1>5, <1>6

LEMMA BfsInit == WalkInit => AskedInv /\ BfsInv
<1> SUFFICES ASSUME WalkInit PROVE AskedInv /\ BfsInv
  OBVIOUS
<1>1. AskedInv
  BY DEF AskedInv, WalkInit
<1>2. CASE IsNear
  <2>1. query.op # "unused" /\ query.op # "within" /\ query.op \notin DfsOps
    BY <1>2 DEF IsNear, DfsOps
  <2>2. IsAtStart
    BY <1>1, <2>1, EdgesSeen DEF WalkInit, IsAtStart, Start
  <2>3. pc \in {"discover", "done"} /\ (pc = "done" => query.op = "reaches" /\ query.from = query.to)
    BY <2>1 DEF WalkInit
  <2>4. FoundInv /\ SeenIsMet /\ QueueInv
    BY <1>1, <2>2, BeginsAtStart
  <2>5. pc = "done" => Goal \in seen
    BY <2>1, <2>2, <2>3 DEF Goal, IsAtStart, Start
  <2>6. query.op = "neighbors" => pc # "done"
    BY <2>3
  <2> QED BY <1>1, <2>1, <2>3, <2>4, <2>5, <2>6 DEF BfsInv
<1>3. CASE query.op = "unused"
  <2>1. roots = query.roots /\ roots \in Seq(Nodes)
    BY <1>1, <1>3, QueryAssumption DEF WalkInit, AskedInv, QueryAssumption
  <2>2. pc \in {"discover", "done"} /\ (pc = "done" <=> roots = <<>>)
    BY <1>3, <2>1 DEF WalkInit, DfsOps
  <2>3. ASSUME pc = "discover" PROVE FoundInv /\ SeenIsMet /\ QueueInv
    <3>1. roots # <<>> /\ Start = Head(roots) /\ Start \in Nodes
      BY <1>3, <2>1, <2>2, <2>3 DEF Start
    <3>2. query.roots # <<>> /\ Start = Head(query.roots) /\ query.op # "within"
      BY <1>3, <2>1, <3>1
    <3>3. frontier = <<[node |-> Start, depth |-> 0, exc |-> FALSE]>> /\ seen = {Start} /\ found = {}
      BY <1>3, <3>2 DEF WalkInit
    <3>4. IsAtStart
      BY <3>1, <3>3 DEF IsAtStart
    <3> QED BY <1>1, <3>4, BeginsAtStart
  <2> QED BY <1>1, <1>3, <2>1, <2>2, <2>3 DEF BfsInv, IsNear
<1> QED BY <1>1, <1>2, <1>3 DEF BfsInv, IsBreadth

(* The walks of other queries are not at work.                             *)
LEMMA NearSteps ==
  ASSUME IsBreadth, pc \in {"discover", "weaken", "done"}, WalkNext
  PROVE  Discover \/ EndDiscover \/ Weaken \/ EndWeaken \/ (query.op = "unused" /\ EndRoot)
<1>1. EndRoot => query.op = "unused"
  BY DEF EndRoot
<1>2. ~NextLayer /\ ~Visit /\ ~Take /\ ~Retreat
  BY DEF NextLayer, Visit, Take, Retreat
<1> QED BY <1>1, <1>2 DEF WalkNext

(* The next root of unused: its walk begins anew. *)
LEMMA NextRoot ==
  ASSUME AskedInv, BfsInv, query.op = "unused", EndRoot
  PROVE  BfsInv'
<1>1. /\ UNCHANGED asked /\ pc = "discover" /\ roots' = Tail(roots)
      /\ roots' = <<>> => pc' = "done"
      /\ roots' # <<>> => /\ frontier' = <<[node |-> Head(roots'), depth |-> 0, exc |-> FALSE]>>
                         /\ seen' = {Head(roots')} /\ found' = {} /\ pc' = "discover"
  BY DEF EndRoot
<1>2. query' = query /\ AskedInv'
  BY <1>1, AskedSame
<1>3. roots \in Seq(Nodes) /\ roots # <<>> /\ roots' \in Seq(Nodes)
  BY <1>1 DEF BfsInv, IsBreadth
<1>4. CASE roots' = <<>>
  BY <1>1, <1>2, <1>3, <1>4 DEF BfsInv, IsBreadth, IsNear
<1>5. CASE roots' # <<>>
  <2>1. Start' = Head(roots') /\ Head(roots') \in Nodes
    BY <1>2, <1>3, <1>5 DEF Start
  <2>2. IsAtStart'
    BY <1>1, <1>5, <2>1 DEF IsAtStart
  <2>3. (AskedInv /\ IsAtStart => FoundInv /\ SeenIsMet /\ QueueInv)'
    BY BeginsAtStart, PTL
  <2>4. FoundInv' /\ SeenIsMet' /\ QueueInv'
    BY <1>2, <2>2, <2>3
  <2> QED BY <1>1, <1>2, <1>3, <1>5, <2>4 DEF BfsInv
<1> QED BY <1>4, <1>5

LEMMA BfsStep ==
  ASSUME AskedInv, BfsInv, WalkNext
  PROVE  AskedInv' /\ BfsInv'
<1>1. UNCHANGED asked
  BY DEF WalkNext, Discover, EndDiscover, Weaken, EndWeaken, EndRoot, NextLayer, Visit, Take, Retreat
<1>2. AskedInv' /\ query' = query /\ IsNear' = IsNear /\ IsBreadth' = IsBreadth /\ Goal' = Goal
  BY <1>1, AskedSame
<1> SUFFICES ASSUME IsBreadth PROVE BfsInv'
  BY <1>2 DEF BfsInv
<1>3. /\ pc \in {"discover", "weaken", "done"}
      /\ pc = "weaken" => query.op = "neighbors"
      /\ query.op = "unused" => roots \in Seq(Nodes) /\ (pc = "done" <=> roots = <<>>)
      /\ IsNear \/ pc = "discover" => FoundInv
      /\ pc = "discover" => SeenIsMet /\ QueueInv
      /\ query.op = "neighbors" /\ pc # "discover" => Expanded
      /\ query.op = "reaches" => SeenIsMet /\ (pc = "done" => Goal \in seen \/ Expanded)
  BY DEF BfsInv
<1>4. roots' = roots => Start' = Start
  BY <1>2 DEF Start
<1>5. CASE Discover
  <2>1. pc = "discover" /\ frontier # <<>> /\ SeenIsMet /\ QueueInv /\ FoundInv /\ roots' = roots
    BY <1>3, <1>5 DEF Discover
  <2> PICK at : at = frontier[1]
    OBVIOUS
  <2>2. at = Head(frontier)
    BY <2>1 DEF QueueInv
  <2>3. FreshFrom(at) = FreshOf(at, seen)
    BY FreshFromIs
  <2>4. Finds(at)
    BY <1>5, <2>2, <2>3 DEF Discover, Finds
  <2>5. FoundInv' /\ SeenIsMet'
    BY <1>1, <1>4, <2>1, <2>4, DiscoverFinds
  <2>6. CASE pc' = "discover"
    <3>1. frontier' = Queue(Head(frontier))
      BY <1>5, <2>1, <2>6 DEF Discover
    <3>2. frontier' = QueueOf(frontier, seen)
      BY <3>1, QueueIs
    <3>3. QueueInv'
      BY <1>1, <1>4, <2>1, <2>4, <3>2, DiscoverQueues
    <3> QED BY <1>2, <1>3, <2>1, <2>5, <2>6, <3>3 DEF BfsInv
  <2>7. CASE pc' # "discover"
    <3>1. pc' = "done" /\ query.op = "reaches" /\ \E e \in FreshFrom(at) : PeerOf(e) = query.to
      BY <1>5, <2>1, <2>2, <2>7 DEF Discover
    <3>2. Goal \in seen'
      BY <2>3, <2>4, <3>1 DEF Finds, Goal
    <3> QED BY <1>2, <2>5, <3>1, <3>2 DEF BfsInv
  <2> QED BY <2>6, <2>7
<1>6. CASE EndDiscover
  <2>1. /\ pc = "discover" /\ frontier = <<>> /\ found' = found /\ SeenIsMet /\ QueueInv
        /\ IsNear /\ query.op # "unused" /\ roots' = roots
    BY <1>3, <1>6 DEF EndDiscover, IsNear
  <2>2. FoundInv' = FoundInv /\ Expanded' = Expanded
    BY <1>1, <1>4, <2>1, FoundSame
  <2>3. Expanded
    <3>1. \A n : ~IsQueued(n)
      BY <2>1 DEF IsQueued
    <3> QED BY <2>1, <3>1 DEF QueueInv, Expanded
  <2>4. CASE query.op = "neighbors"
    <3>1. pc' = "weaken"
      BY <1>6, <2>4 DEF EndDiscover
    <3> QED BY <1>2, <1>3, <2>1, <2>2, <2>3, <2>4, <3>1 DEF BfsInv
  <2>5. CASE query.op # "neighbors"
    <3>1. pc' = "done" /\ seen' = seen
      BY <1>6, <2>5 DEF EndDiscover
    <3>2. SeenIsMet'
      BY <1>2, <1>4, <2>1, <3>1 DEF SeenIsMet
    <3> QED BY <1>2, <1>3, <2>1, <2>2, <2>3, <2>5, <3>1, <3>2 DEF BfsInv
  <2> QED BY <2>4, <2>5
<1>7. CASE Weaken \/ EndWeaken
  <2>1. /\ pc = "weaken" /\ query.op = "neighbors" /\ found' = found /\ pc' \in {"weaken", "done"}
        /\ roots' = roots /\ IsNear
    BY <1>3, <1>7 DEF Weaken, EndWeaken, bfsVars, IsNear
  <2>2. FoundInv' = FoundInv /\ Expanded' = Expanded
    BY <1>1, <1>4, <2>1, FoundSame
  <2> QED BY <1>2, <1>3, <2>1, <2>2 DEF BfsInv
<1> QED BY <1>3, <1>5, <1>6, <1>7, NearSteps, NextRoot

-------------------------------------------------------------------------------
(* The turns of a walk: fr[i] and met[i] are its queue and the nodes it    *)
(* has seen before turn i, up to turn k.  Both walks take the same turns.  *)
Found(fr, met) == FreshOf(Head(fr), met)
MetIn(fr, met) == {PeerOf(e) : e \in Found(fr, met)}

Turns(fr, met, k) ==
  /\ fr[0] = <<[node |-> query.from, depth |-> 0, exc |-> FALSE]>>
  /\ met[0] = {query.from}
  /\ \A i \in 0 .. k - 1 :
       /\ fr[i] # <<>>
       /\ fr[i + 1] = QueueOf(fr[i], met[i])
       /\ met[i + 1] = met[i] \cup MetIn(fr[i], met[i])

FoundInTurns(fr, met, k) ==
  \A d \in found : \E i \in 0 .. k - 1 : d.via \in Found(fr[i], met[i])

(* What the second walk has carried along the edges of its first k turns.  *)
IsWeakened(fr, met, k) ==
  /\ weakest[query.from] = 2
  /\ \A i \in 0 .. k - 1 : \A e \in Found(fr[i], met[i]) :
       weakest[PeerOf(e)] = Weakest(weakest[SourceOf(e)], e.confidence)

AtTurn(fr, met, k) == frontier = fr[k] /\ seen = met[k]

TwiceIn(fr, met, k) ==
  /\ Turns(fr, met, k)
  /\ FoundInTurns(fr, met, k)
  /\ pc = "discover" => AtTurn(fr, met, k) /\ weakest[query.from] = 2
  /\ pc = "weaken" => fr[k] = <<>> /\ \E i \in 0 .. k : AtTurn(fr, met, i) /\ IsWeakened(fr, met, i)
  /\ pc = "done" => IsWeakened(fr, met, k)

TwiceInv == query.op = "neighbors" => \E k \in Nat : \E fr, met : TwiceIn(fr, met, k)

(* A turn is the same whatever the walk has done. *)
LEMMA TurnsSame ==
  ASSUME UNCHANGED asked
  PROVE  /\ \A fr, met : Found(fr, met)' = Found(fr, met)
         /\ \A fr, met : QueueOf(fr, met)' = QueueOf(fr, met)
         /\ \A fr, met, k : Turns(fr, met, k)' = Turns(fr, met, k)
<1>1. /\ query' = query
      /\ \A n : NeighborsOf(n)' = NeighborsOf(n)
      /\ \A e : PeerOf(e)' = PeerOf(e)
      /\ \A d : WithinDepth(d)' = WithinDepth(d)
  BY AskedSame
<1>2. \A at, met : FreshOf(at, met)' = FreshOf(at, met)
  BY <1>1 DEF FreshOf
<1>3. \A es : Sorted(es)' = Sorted(es)
  BY <1>1 DEF Sorted
<1>4. \A at, e : Step(at, e)' = Step(at, e)
  BY <1>1 DEF Step
<1>5. \A fr, met : QueueOf(fr, met)' = QueueOf(fr, met)
  BY <1>2, <1>3, <1>4 DEF QueueOf
<1>6. \A fr, met : Found(fr, met)' = Found(fr, met)
  BY <1>2 DEF Found
<1>7. \A fr, met : MetIn(fr, met)' = MetIn(fr, met)
  BY <1>1, <1>6 DEF MetIn
<1>8. ASSUME NEW fr, NEW met, NEW k PROVE Turns(fr, met, k)' = Turns(fr, met, k)
  BY <1>1, <1>5, <1>7 DEF Turns
<1> QED BY <1>5, <1>6, <1>8

(* Seen stays seen, and the queue holds seen nodes only. *)
LEMMA TurnsKeep ==
  ASSUME AskedInv, NEW k \in Nat, NEW fr, NEW met, Turns(fr, met, k)
  PROVE  \A i \in 0 .. k :
           /\ fr[i] \in Seq(Item)
           /\ \A p \in DOMAIN fr[i] : fr[i][p].node \in met[i]
           /\ \A j \in 0 .. i : met[j] \subseteq met[i]
<1> DEFINE Kept(i) == /\ fr[i] \in Seq(Item)
                      /\ \A p \in DOMAIN fr[i] : fr[i][p].node \in met[i]
                      /\ \A j \in 0 .. i : met[j] \subseteq met[i]
           T == {i \in Nat : Kept(i)}
<1>1. 0 \in T
  <2>1. query.from \in Nodes
    BY EdgesSeen
  <2>2. fr[0] = <<[node |-> query.from, depth |-> 0, exc |-> FALSE]>> /\ met[0] = {query.from}
    BY DEF Turns
  <2>3. \A j \in 0 .. 0 : j = 0
    OBVIOUS
  <2>4. fr[0] \in Seq(Item) /\ DOMAIN fr[0] = {1} /\ fr[0][1].node = query.from
    BY <2>1, <2>2 DEF Item
  <2>5. Kept(0)
    BY <2>2, <2>3, <2>4
  <2> QED BY <2>5
<1>2. ASSUME NEW i \in 0 .. k - 1, i \in T PROVE i + 1 \in T
  <2>1. Kept(i)
    BY <1>2
  <2>2. fr[i] # <<>> /\ fr[i + 1] = QueueOf(fr[i], met[i])
        /\ met[i + 1] = met[i] \cup MetIn(fr[i], met[i])
    BY DEF Turns
  <2>3. PICK f : f = fr[i]
    OBVIOUS
  <2>4. PICK q : q = fr[i + 1]
    OBVIOUS
  <2>5. PICK s : s = met[i]
    OBVIOUS
  <2>6. f \in Seq(Item) /\ f # <<>> /\ q = QueueOf(f, s) /\ \A p \in DOMAIN f : f[p].node \in s
    BY <2>1, <2>2, <2>3, <2>4, <2>5
  <2>7. Lists(q, f, s)
    BY <2>6, QueueOfLists
  <2>8. met[i + 1] = s \cup {PeerOf(e) : e \in FreshOf(f[1], s)}
    BY <2>2, <2>3, <2>5, <2>7 DEF Found, MetIn, Lists
  <2>9. PICK m \in Nat : m = Len(f)
    BY <2>6
  <2>10. DOMAIN f = 1 .. m /\ DOMAIN q = 1 .. Len(q) /\ q \in Seq(Item)
    BY <2>6, <2>7, <2>9 DEF Lists
  <2>11. ASSUME NEW p \in DOMAIN q PROVE q[p].node \in met[i + 1]
    <3>1. CASE p < m
      <4>1. p \in 1 .. m - 1 /\ p + 1 \in DOMAIN f
        BY <2>9, <2>10, <3>1
      <4>2. q[p] = f[p + 1]
        BY <2>7, <2>9, <4>1 DEF Lists
      <4> QED BY <2>6, <2>8, <4>1, <4>2
    <3>2. CASE p >= m
      <4>1. p \in m .. Len(q)
        BY <2>9, <2>10, <3>2
      <4>2. PICK e \in FreshOf(f[1], s) : q[p] = Step(f[1], e)
        BY <2>7, <2>9, <4>1 DEF Lists
      <4>3. q[p].node = PeerOf(e)
        BY <4>2 DEF Step
      <4> QED BY <2>8, <4>3
    <3> QED BY <2>9, <2>10, <3>1, <3>2
  <2>12. ASSUME NEW j \in 0 .. i + 1 PROVE met[j] \subseteq met[i + 1]
    <3>1. CASE j = i + 1
      BY <3>1
    <3>2. CASE j \in 0 .. i
      BY <2>1, <2>5, <2>8, <3>2
    <3> QED BY <3>1, <3>2
  <2>13. i + 1 \in Nat
    OBVIOUS
  <2> QED BY <2>4, <2>10, <2>11, <2>12, <2>13
<1>3. 0 .. k \subseteq T
  <2> HIDE DEF T
  <2> QED BY <1>1, <1>2, UpTo
<1> QED BY <1>3

(* One more turn at the end of the first walk. *)
LEMMA TurnsExtend ==
  ASSUME NEW k \in Nat, NEW fr, NEW met, Turns(fr, met, k), FoundInTurns(fr, met, k),
         fr[k] # <<>>, NEW gr, NEW net,
         gr = [i \in 0 .. k + 1 |-> IF i = k + 1 THEN QueueOf(fr[k], met[k]) ELSE fr[i]],
         net = [i \in 0 .. k + 1 |-> IF i = k + 1 THEN met[k] \cup MetIn(fr[k], met[k]) ELSE met[i]]
  PROVE  /\ Turns(gr, net, k + 1)
         /\ gr[k + 1] = QueueOf(fr[k], met[k]) /\ net[k + 1] = met[k] \cup MetIn(fr[k], met[k])
         /\ \A i \in 0 .. k : gr[i] = fr[i] /\ net[i] = met[i]
<1>1. \A i \in 0 .. k : gr[i] = fr[i] /\ net[i] = met[i]
  OBVIOUS
<1>2. gr[k + 1] = QueueOf(fr[k], met[k]) /\ net[k + 1] = met[k] \cup MetIn(fr[k], met[k])
  OBVIOUS
<1>3. gr[0] = fr[0] /\ net[0] = met[0]
  BY <1>1
<1>4. ASSUME NEW i \in 0 .. k
      PROVE  gr[i] # <<>> /\ gr[i + 1] = QueueOf(gr[i], net[i]) /\ net[i + 1] = net[i] \cup MetIn(gr[i], net[i])
  <2>1. CASE i = k
    BY <1>1, <1>2, <2>1
  <2>2. CASE i # k
    <3>1. i \in 0 .. k - 1 /\ i + 1 \in 0 .. k
      BY <2>2
    <3>2. fr[i] # <<>> /\ fr[i + 1] = QueueOf(fr[i], met[i]) /\ met[i + 1] = met[i] \cup MetIn(fr[i], met[i])
      BY <3>1 DEF Turns
    <3>3. gr[i] = fr[i] /\ net[i] = met[i] /\ gr[i + 1] = fr[i + 1] /\ net[i + 1] = met[i + 1]
      BY <1>1, <3>1
    <3> QED BY <3>2, <3>3
  <2> QED BY <2>1, <2>2
<1>5. 0 .. (k + 1) - 1 = 0 .. k
  OBVIOUS
<1> QED BY <1>1, <1>2, <1>3, <1>4, <1>5 DEF Turns

LEMMA TwiceInit == WalkInit => TwiceInv
<1> SUFFICES ASSUME WalkInit, query.op = "neighbors" PROVE TwiceInv
  BY DEF TwiceInv
<1>1. /\ frontier = <<[node |-> query.from, depth |-> 0, exc |-> FALSE]>>
      /\ seen = {query.from} /\ found = {} /\ pc = "discover"
  BY DEF WalkInit, DfsOps
<1>2. weakest[query.from] = 2
  <2>1. query.from \in Nodes
    BY EdgesSeen, BfsInit
  <2> QED BY <2>1 DEF WalkInit
<1> DEFINE fr == [i \in {0} |-> frontier]
           met == [i \in {0} |-> seen]
<1>3. fr[0] = frontier /\ met[0] = seen
  OBVIOUS
<1>4. 0 .. 0 - 1 = {}
  OBVIOUS
<1> HIDE DEF fr, met
<1>5. Turns(fr, met, 0)
  BY <1>1, <1>3, <1>4 DEF Turns
<1>6. TwiceIn(fr, met, 0)
  BY <1>1, <1>2, <1>3, <1>5 DEF TwiceIn, FoundInTurns, AtTurn
<1> QED BY <1>6 DEF TwiceInv

LEMMA TwiceDiscover ==
  ASSUME AskedInv, query.op = "neighbors", TwiceInv, Discover
  PROVE  TwiceInv'
<1>1. UNCHANGED asked /\ pc = "discover" /\ frontier # <<>> /\ weakest' = weakest /\ query' = query
  BY AskedSame DEF Discover
<1>2. PICK k \in Nat : \E fr, met : TwiceIn(fr, met, k)
  BY DEF TwiceInv
<1>3. PICK fr, met : TwiceIn(fr, met, k)
  BY <1>2
<1>4. Turns(fr, met, k) /\ FoundInTurns(fr, met, k) /\ frontier = fr[k] /\ seen = met[k] /\ weakest[query.from] = 2
  BY <1>1, <1>3 DEF TwiceIn, AtTurn
<1>5. PICK gr : gr = [i \in 0 .. k + 1 |-> IF i = k + 1 THEN QueueOf(fr[k], met[k]) ELSE fr[i]]
  OBVIOUS
<1>6. PICK net : net = [i \in 0 .. k + 1 |-> IF i = k + 1 THEN met[k] \cup MetIn(fr[k], met[k]) ELSE met[i]]
  OBVIOUS
<1>7. /\ Turns(gr, net, k + 1)
      /\ gr[k + 1] = QueueOf(fr[k], met[k]) /\ net[k + 1] = met[k] \cup MetIn(fr[k], met[k])
      /\ \A i \in 0 .. k : gr[i] = fr[i] /\ net[i] = met[i]
  BY <1>1, <1>4, <1>5, <1>6, TurnsExtend
<1>8. FreshFrom(Head(frontier)) = Found(fr[k], met[k])
  BY <1>4, FreshFromIs DEF Found
<1>9. /\ frontier' = Queue(Head(frontier))
      /\ seen' = seen \cup {PeerOf(e) : e \in FreshFrom(Head(frontier))}
      /\ found' = found \cup {Discovery(Head(frontier), e) : e \in FreshFrom(Head(frontier))}
      /\ pc' = "discover"
  BY <1>1 DEF Discover
<1>10. frontier' = gr[k + 1] /\ seen' = net[k + 1]
  <2>1. Queue(Head(frontier)) = QueueOf(frontier, seen)
    BY QueueIs
  <2> QED BY <1>4, <1>7, <1>8, <1>9, <2>1 DEF MetIn
<1>11. ASSUME NEW d \in found' PROVE \E i \in 0 .. k : d.via \in Found(gr[i], net[i])
  <2>1. CASE d \in found
    <3>1. PICK i \in 0 .. k - 1 : d.via \in Found(fr[i], met[i])
      BY <1>4, <2>1 DEF FoundInTurns
    <3>2. i \in 0 .. k
      OBVIOUS
    <3> QED BY <1>7, <3>1, <3>2
  <2>2. CASE d \notin found
    <3>1. PICK e \in Found(fr[k], met[k]) : d = Discovery(Head(frontier), e)
      BY <1>8, <1>9, <2>2
    <3>2. d.via = e /\ k \in 0 .. k
      BY <3>1 DEF Discovery
    <3> QED BY <1>7, <3>1, <3>2
  <2> QED BY <2>1, <2>2
<1>12. Turns(gr, net, k + 1)' /\ \A i : Found(gr[i], net[i])' = Found(gr[i], net[i])
  BY <1>1, <1>7, TurnsSame
<1>13. TwiceIn(gr, net, k + 1)'
  <2>1. 0 .. (k + 1) - 1 = 0 .. k
    OBVIOUS
  <2>2. FoundInTurns(gr, net, k + 1)'
    BY <1>11, <1>12, <2>1 DEF FoundInTurns
  <2>3. AtTurn(gr, net, k + 1)'
    BY <1>10 DEF AtTurn
  <2> QED BY <1>1, <1>4, <1>9, <1>12, <2>2, <2>3 DEF TwiceIn
<1> QED BY <1>13 DEF TwiceInv

LEMMA TwiceTurnsBack ==
  ASSUME AskedInv, BfsInv, query.op = "neighbors", TwiceInv, EndDiscover
  PROVE  TwiceInv'
<1>1. /\ UNCHANGED asked /\ pc = "discover" /\ frontier = <<>> /\ weakest' = weakest /\ query' = query
      /\ found' = found
  BY AskedSame DEF EndDiscover
<1>2. PICK k \in Nat : \E fr, met : TwiceIn(fr, met, k)
  BY DEF TwiceInv
<1>3. PICK fr, met : TwiceIn(fr, met, k)
  BY <1>2
<1>4. Turns(fr, met, k) /\ FoundInTurns(fr, met, k) /\ frontier = fr[k] /\ weakest[query.from] = 2
  BY <1>1, <1>3 DEF TwiceIn, AtTurn
<1>5. /\ pc' = "weaken" /\ frontier' = <<[node |-> query.from, depth |-> 0, exc |-> FALSE]>>
      /\ seen' = {query.from}
  BY DEF EndDiscover
<1>6. AtTurn(fr, met, 0)'
  BY <1>4, <1>5 DEF AtTurn, Turns
<1>7. Turns(fr, met, k)' /\ \A i : Found(fr[i], met[i])' = Found(fr[i], met[i])
  BY <1>1, <1>4, TurnsSame
<1>8. FoundInTurns(fr, met, k)'
  BY <1>1, <1>4, <1>7 DEF FoundInTurns
<1>9. IsWeakened(fr, met, 0)'
  <2>1. 0 .. 0 - 1 = {}
    OBVIOUS
  <2> QED BY <1>1, <1>4, <2>1 DEF IsWeakened
<1>10. TwiceIn(fr, met, k)'
  <2>1. 0 \in 0 .. k
    OBVIOUS
  <2> QED BY <1>1, <1>4, <1>5, <1>6, <1>7, <1>8, <1>9, <2>1 DEF TwiceIn
<1> QED BY <1>10 DEF TwiceInv

LEMMA TwiceWeaken ==
  ASSUME AskedInv, query.op = "neighbors", TwiceInv, Weaken
  PROVE  TwiceInv'
<1>1. /\ UNCHANGED asked /\ pc = "weaken" /\ pc' = pc /\ frontier # <<>> /\ query' = query
      /\ found' = found
  BY AskedSame DEF Weaken
<1>2. PICK k \in Nat : \E fr, met : TwiceIn(fr, met, k)
  BY DEF TwiceInv
<1>3. PICK fr, met : TwiceIn(fr, met, k)
  BY <1>2
<1>4. Turns(fr, met, k) /\ FoundInTurns(fr, met, k) /\ fr[k] = <<>>
  BY <1>1, <1>3 DEF TwiceIn
<1>5. PICK i \in 0 .. k : AtTurn(fr, met, i) /\ IsWeakened(fr, met, i)
  BY <1>1, <1>3 DEF TwiceIn
<1>6. i \in 0 .. k - 1 /\ i + 1 \in 0 .. k /\ frontier = fr[i] /\ seen = met[i]
  BY <1>1, <1>4, <1>5 DEF AtTurn
<1>7. fr[i + 1] = QueueOf(fr[i], met[i]) /\ met[i + 1] = met[i] \cup MetIn(fr[i], met[i])
  BY <1>4, <1>6 DEF Turns
<1>8. PICK at : at = Head(frontier)
  OBVIOUS
<1>9. PICK fresh : fresh = Found(fr[i], met[i])
  OBVIOUS
<1>10. FreshFrom(at) = fresh /\ fresh = FreshOf(at, met[i])
  BY <1>6, <1>8, <1>9, FreshFromIs DEF Found
<1>11. /\ frontier' = Queue(at)
       /\ seen' = seen \cup {PeerOf(e) : e \in fresh}
       /\ weakest' = [n \in Nodes |->
            IF \E e \in fresh : PeerOf(e) = n
            THEN Carried(at, CHOOSE e \in fresh : PeerOf(e) = n)
            ELSE weakest[n]]
  BY <1>8, <1>10 DEF Weaken
<1>12. AtTurn(fr, met, i + 1)'
  <2>1. Queue(at) = QueueOf(frontier, seen)
    BY <1>8, QueueIs
  <2> QED BY <1>6, <1>7, <1>9, <1>11, <2>1 DEF AtTurn, MetIn
<1>13. /\ \A j \in 0 .. k : /\ fr[j] \in Seq(Item)
                            /\ \A p \in DOMAIN fr[j] : fr[j][p].node \in met[j]
                            /\ \A h \in 0 .. j : met[h] \subseteq met[j]
  BY <1>4, TurnsKeep
<1>14. /\ \A e \in fresh : PeerOf(e) \notin met[i] /\ SourceOf(e) = at.node /\ PeerOf(e) \in Nodes
       /\ \A e, f \in fresh : PeerOf(e) = PeerOf(f) => e = f
  BY <1>10, FreshIsOnePerPeer, EdgesSeen
(* What was seen keeps what was carried to it. *)
<1>15. \A n \in met[i] : n \in Nodes => weakest'[n] = weakest[n]
  BY <1>11, <1>14
<1>16. ASSUME NEW e \in fresh PROVE weakest'[PeerOf(e)] = Weakest(weakest[at.node], e.confidence)
  <2>1. (CHOOSE f \in fresh : PeerOf(f) = PeerOf(e)) = e
    BY <1>14
  <2>2. weakest'[PeerOf(e)] = Carried(at, CHOOSE f \in fresh : PeerOf(f) = PeerOf(e))
    BY <1>11, <1>14
  <2> QED BY <2>1, <2>2 DEF Carried
<1>17. \A j \in 0 .. k - 1 : /\ Head(fr[j]).node \in met[j] /\ Head(fr[j]).node \in Nodes
                             /\ fr[j] # <<>>
  <2>1. ASSUME NEW j \in 0 .. k - 1
        PROVE  Head(fr[j]).node \in met[j] /\ Head(fr[j]).node \in Nodes /\ fr[j] # <<>>
    <3>1. j \in 0 .. k /\ fr[j] # <<>>
      BY <1>4 DEF Turns
    <3>2. PICK f : f = fr[j]
      OBVIOUS
    <3>3. f \in Seq(Item) /\ f # <<>> /\ \A p \in DOMAIN f : f[p].node \in met[j]
      BY <1>13, <3>1, <3>2
    <3>4. 1 \in DOMAIN f /\ Head(f) = f[1] /\ f[1] \in Item
      BY <3>3
    <3> QED BY <3>1, <3>2, <3>3, <3>4 DEF Item
  <2> QED BY <2>1
<1>18. query.from \in met[i] /\ query.from \in Nodes
  <2>1. met[0] \subseteq met[i] /\ met[0] = {query.from}
    BY <1>4, <1>13 DEF Turns
  <2> QED BY <2>1, EdgesSeen
<1>19. ASSUME NEW j \in 0 .. i, NEW e \in Found(fr[j], met[j])
       PROVE  weakest'[PeerOf(e)] = Weakest(weakest'[SourceOf(e)], e.confidence)
  <2>1. CASE j = i
    <3>1. e \in fresh /\ SourceOf(e) = at.node
      BY <1>9, <1>14, <2>1
    <3>2. at.node \in met[i] /\ at.node \in Nodes
      BY <1>6, <1>8, <1>17
    <3> QED BY <1>15, <1>16, <3>1, <3>2
  <2>2. CASE j # i
    <3>1. j \in 0 .. i - 1 /\ j \in 0 .. k - 1 /\ j + 1 \in 0 .. i /\ j \in 0 .. i /\ i \in 0 .. k
      BY <1>6, <2>2
    <3>2. e \in FreshOf(Head(fr[j]), met[j])
      BY DEF Found
    <3>3. SourceOf(e) = Head(fr[j]).node /\ PeerOf(e) \in Nodes
      BY <3>2, FreshIsOnePerPeer, EdgesSeen
    <3>4. SourceOf(e) \in met[i] /\ SourceOf(e) \in Nodes
      BY <1>13, <1>17, <3>1, <3>3
    <3>5. PeerOf(e) \in met[j + 1]
      BY <1>4, <3>1 DEF Turns, MetIn
    <3>6. PeerOf(e) \in met[i]
      BY <1>13, <3>1, <3>5
    <3>7. weakest[PeerOf(e)] = Weakest(weakest[SourceOf(e)], e.confidence)
      BY <1>5, <3>1 DEF IsWeakened
    <3> QED BY <1>15, <3>3, <3>4, <3>6, <3>7
  <2> QED BY <2>1, <2>2
<1>20. /\ Turns(fr, met, k)' /\ \A j : Found(fr[j], met[j])' = Found(fr[j], met[j])
       /\ \A e : PeerOf(e)' = PeerOf(e) /\ SourceOf(e)' = SourceOf(e)
  BY <1>1, <1>4, TurnsSame, AskedSame
<1>21. IsWeakened(fr, met, i + 1)'
  <2>1. 0 .. (i + 1) - 1 = 0 .. i
    BY <1>6
  <2>2. weakest'[query.from] = 2
    BY <1>5, <1>15, <1>18 DEF IsWeakened
  <2> QED BY <1>1, <1>19, <1>20, <2>1, <2>2 DEF IsWeakened
<1>22. FoundInTurns(fr, met, k)'
  BY <1>1, <1>4, <1>20 DEF FoundInTurns
<1>23. TwiceIn(fr, met, k)'
  BY <1>1, <1>4, <1>6, <1>12, <1>20, <1>21, <1>22 DEF TwiceIn
<1> QED BY <1>23 DEF TwiceInv

LEMMA TwiceEnds ==
  ASSUME AskedInv, query.op = "neighbors", TwiceInv, EndWeaken
  PROVE  TwiceInv'
<1>1. /\ UNCHANGED asked /\ pc = "weaken" /\ pc' = "done" /\ frontier = <<>> /\ query' = query
      /\ found' = found /\ weakest' = weakest
  BY AskedSame DEF EndWeaken, bfsVars
<1>2. PICK k \in Nat : \E fr, met : TwiceIn(fr, met, k)
  BY DEF TwiceInv
<1>3. PICK fr, met : TwiceIn(fr, met, k)
  BY <1>2
<1>4. Turns(fr, met, k) /\ FoundInTurns(fr, met, k)
  BY <1>1, <1>3 DEF TwiceIn
<1>5. PICK i \in 0 .. k : AtTurn(fr, met, i) /\ IsWeakened(fr, met, i)
  BY <1>1, <1>3 DEF TwiceIn
<1>6. i = k
  <2>1. fr[i] = <<>>
    BY <1>1, <1>5 DEF AtTurn
  <2>2. \A j \in 0 .. k - 1 : fr[j] # <<>>
    BY <1>4 DEF Turns
  <2> QED BY <2>1, <2>2
<1>7. /\ Turns(fr, met, k)' /\ \A j : Found(fr[j], met[j])' = Found(fr[j], met[j])
      /\ \A e : PeerOf(e)' = PeerOf(e) /\ SourceOf(e)' = SourceOf(e)
  BY <1>1, <1>4, TurnsSame, AskedSame
<1>8. FoundInTurns(fr, met, k)'
  BY <1>1, <1>4, <1>7 DEF FoundInTurns
<1>9. IsWeakened(fr, met, k)'
  BY <1>1, <1>5, <1>6, <1>7 DEF IsWeakened
<1>10. TwiceIn(fr, met, k)'
  BY <1>1, <1>7, <1>8, <1>9 DEF TwiceIn
<1> QED BY <1>10 DEF TwiceInv

LEMMA TwiceStep ==
  ASSUME AskedInv, BfsInv, TwiceInv, WalkNext
  PROVE  TwiceInv'
<1>1. UNCHANGED asked
  BY DEF WalkNext, Discover, EndDiscover, Weaken, EndWeaken, EndRoot, NextLayer, Visit, Take, Retreat
<1>2. query' = query
  BY <1>1, AskedSame
<1>3. CASE query.op # "neighbors"
  BY <1>2, <1>3 DEF TwiceInv
<1>4. CASE query.op = "neighbors"
  <2>1. Discover \/ EndDiscover \/ Weaken \/ EndWeaken
    BY <1>4, NearSteps DEF BfsInv, IsBreadth, IsNear
  <2> QED BY <1>4, <2>1, TwiceDiscover, TwiceTurnsBack, TwiceWeaken, TwiceEnds
<1> QED BY <1>3, <1>4

-------------------------------------------------------------------------------
(* What is met at depth k is at the end of a walk of k edges. *)
LEMMA MetInLayer ==
  ASSUME FoundInv
  PROVE  \A n, k, x : IsMet(n, k, x) => k \in Nat /\ n \in Layer(k)
<1>1. /\ \A d \in found : d.depth \in Nat /\ d.via \in Admitted /\ PeerOf(d.via) = d.node
  BY DEF FoundInv, FoundTypes
<1>2. \A n, k, x : IsMet(n, k, x) => k \in Nat
  BY <1>1 DEF IsMet
<1>3. /\ Layer(0) = {Start}
      /\ \A j \in Nat : \A y : y \in Layer(j + 1) <=> Beyond(Admitted, query.dir, Layer(j), y)
  BY LayerByLayer
<1> DEFINE T == {m \in Nat : \A n, x : IsMet(n, m, x) => n \in Layer(m)}
<1>4. 0 \in T
  <2>1. ASSUME NEW n, NEW x, IsMet(n, 0, x) PROVE n = Start
    <3>1. ASSUME NEW d \in found PROVE d.depth # 0
      <4>1. PICK k \in Nat : d.depth = k + 1
        BY DEF FoundInv, FoundFrom
      <4> QED BY <4>1
    <3> QED BY <2>1, <3>1 DEF IsMet
  <2> QED BY <1>3, <2>1
<1>5. ASSUME NEW m \in Nat, m \in T PROVE m + 1 \in T
  <2>1. ASSUME NEW n, NEW x, IsMet(n, m + 1, x) PROVE n \in Layer(m + 1)
    <3>1. PICK d \in found : d.node = n /\ d.depth = m + 1
      BY <2>1 DEF IsMet
    <3>2. PICK k \in Nat, y \in BOOLEAN : IsMet(Source(d.via, query.dir), k, y) /\ d.depth = k + 1
      BY DEF FoundInv, FoundFrom
    <3>3. k = m
      BY <3>1, <3>2
    <3>4. Source(d.via, query.dir) \in Layer(m)
      BY <1>5, <3>2, <3>3
    <3>5. Beyond(Admitted, query.dir, Layer(m), n)
      BY <1>1, <3>1, <3>4 DEF Beyond, PeerOf
    <3> QED BY <1>3, <3>5
  <2>2. m + 1 \in Nat
    OBVIOUS
  <2> QED BY <2>1, <2>2
<1>6. ASSUME NEW n, NEW k, NEW x, IsMet(n, k, x) PROVE n \in Layer(k)
  <2>1. k \in Nat
    BY <1>2, <1>6
  <2>2. 0 .. k \subseteq T
    <3>1. \A m \in 0 .. k - 1 : m \in Nat
      BY <2>1
    <3> HIDE DEF T
    <3> QED BY <1>4, <1>5, <2>1, <3>1, UpTo
  <2>3. k \in T
    BY <2>1, <2>2
  <2> QED BY <1>6, <2>3
<1> QED BY <1>2, <1>6

LEMMA DepthBound ==
  ASSUME AskedInv, FoundInv, NEW d \in found
  PROVE  d.depth <= Cardinality(Nodes) /\ d.depth <= Cardinality(edges)
<1>1. PICK k \in Nat : k = d.depth
  BY DEF FoundInv, FoundTypes
<1>2. IsNearest(Admitted, {Start}, d.node, k)
  <2>1. IsMet(d.node, k, d.exc)
    BY <1>1 DEF IsMet
  <2>2. d.node \in Layer(k)
    BY <2>1, MetInLayer
  <2> QED BY <1>1, <2>2 DEF FoundInv, FoundNearest, IsNearest, Layer
<1>3. /\ IsFiniteSet(edges) /\ Admitted \subseteq edges /\ IsFiniteSet(Nodes)
      /\ \A e \in Admitted : Peer(e, query.dir) \in Nodes
  BY EdgesSeen DEF PeerOf
<1>4. IsFiniteSet(Admitted) /\ Cardinality(Admitted) <= Cardinality(edges)
  BY <1>3, FS_Subset
<1>5. Cardinality(Admitted) \in Nat /\ Cardinality(edges) \in Nat
  BY <1>3, <1>4, FS_CardinalityType
<1>6. k <= Cardinality(Admitted) /\ k <= Cardinality(Nodes)
  BY <1>2, <1>3, <1>4, NearestBound
<1> QED BY <1>1, <1>4, <1>5, <1>6

LEMMA FoundAtDistance ==
  ASSUME AskedInv, FoundInv, NEW d \in found
  PROVE  d.depth = Distance(Admitted, Start, d.node, query.dir)
<1>1. PICK c \in Nat : c = Cardinality(Nodes)
  BY EdgesSeen, FS_CardinalityType
<1>2. PICK layer : layer = Layers(Admitted, {Start}, query.dir, c)
  OBVIOUS
<1>3. \A j \in 0 .. c : layer[j] = Layer(j)
  BY <1>2, LayerByLayer
<1>4. d.depth \in 0 .. c
  BY <1>1, DepthBound DEF FoundInv, FoundTypes
<1>5. d.node \in Layer(d.depth) /\ \A j \in 0 .. d.depth - 1 : d.node \notin Layer(j)
  <2>1. IsMet(d.node, d.depth, d.exc)
    BY DEF IsMet
  <2> QED BY <2>1, MetInLayer DEF FoundInv, FoundNearest
<1> DEFINE S == {k \in 0 .. c : d.node \in layer[k]}
<1>6. d.depth \in S /\ \A j \in S : d.depth <= j
  BY <1>3, <1>4, <1>5
<1>7. Distance(Admitted, Start, d.node, query.dir) = CHOOSE x \in S : \A y \in S : x <= y
  BY <1>1, <1>2 DEF Distance, Min
<1>8. \A x \in S : x \in Nat
  OBVIOUS
<1> HIDE DEF S
<1> QED BY <1>6, <1>7, <1>8

IsReached(n) == n \in ReachOf({Start})

LEMMA ReachedIs ==
  ASSUME AskedInv
  PROVE  /\ Bound \in Nat /\ \A i \in 0 .. Bound : WithinDepth(i)
         /\ \A n : IsReached(n) <=> \E i \in 0 .. Bound : n \in Layer(i)
<1>1. Bound \in Nat /\ \A i \in 0 .. Bound : WithinDepth(i)
  <2>1. query.depth \in Nat \cup {-1} /\ Cardinality(edges) \in Nat
    BY EdgesSeen, FS_CardinalityType
  <2>2. CASE query.depth = -1
    BY <2>1, <2>2 DEF Bound, WithinDepth, Unbounded
  <2>3. CASE query.depth # -1
    BY <2>1, <2>3 DEF Bound, WithinDepth, Unbounded
  <2> QED BY <2>2, <2>3
<1>2. PICK k \in Nat : k = Bound
  BY <1>1
<1>3. PICK layer : layer = Layers(Admitted, {Start}, query.dir, k)
  OBVIOUS
<1>4. \A j \in 0 .. k : layer[j] = Layer(j)
  BY <1>3, LayerByLayer
<1>5. ReachOf({Start}) = UNION {layer[i] : i \in 0 .. k}
  BY <1>2, <1>3 DEF ReachOf, Within
<1>6. \A n : IsReached(n) <=> \E i \in 0 .. k : n \in layer[i]
  BY <1>5 DEF IsReached
<1> QED BY <1>1, <1>2, <1>4, <1>6

LEMMA MetIsReached ==
  ASSUME AskedInv, FoundInv, NEW n, NEW k, NEW x, IsMet(n, k, x)
  PROVE  IsReached(n)
<1>1. k \in Nat /\ n \in Layer(k)
  BY MetInLayer
<1>2. k <= Bound
  <2>1. CASE \E d \in found : d.depth = k
    <3>1. PICK d \in found : d.depth = k
      BY <2>1
    <3>2. k <= Cardinality(edges)
      BY <3>1, DepthBound
    <3>3. WithinDepth(k)
      BY <3>1 DEF FoundInv, FoundTypes
    <3> QED BY <3>2, <3>3 DEF Bound, WithinDepth
  <2>2. CASE k = 0
    BY <2>2, ReachedIs
  <2> QED BY <2>1, <2>2 DEF IsMet
<1> QED BY <1>1, <1>2, ReachedIs

LEMMA ReachedIsMet ==
  ASSUME AskedInv, FoundInv, Expanded, NEW n, IsReached(n)
  PROVE  \E k, x : IsMet(n, k, x)
<1>1. PICK i \in 0 .. Bound : n \in Layer(i)
  BY ReachedIs
<1>2. i \in Nat /\ WithinDepth(i)
  BY ReachedIs
<1>3. \A m : \A k \in 0 .. i - 1 : \A x : IsMet(m, k, x) => IsExpanded(m, k)
  BY DEF Expanded
<1>4. FoundTypes
  BY DEF FoundInv
<1>5. \A j \in 0 .. i : \A y \in Layer(j) : \E k \in 0 .. j : \E x : IsMet(y, k, x)
  BY <1>2, <1>3, <1>4, MetByLayer
<1>6. i \in 0 .. i
  BY <1>2
<1> QED BY <1>1, <1>5, <1>6

LEMMA FoundIsReached ==
  ASSUME AskedInv, FoundInv, Expanded
  PROVE  {d.node : d \in found} = ReachOf({Start}) \ {Start}
<1>1. ASSUME NEW n, n \in {d.node : d \in found} PROVE n \in ReachOf({Start}) /\ n # Start
  <2>1. PICK d \in found : d.node = n
    BY <1>1
  <2>2. IsMet(n, d.depth, d.exc) /\ n # Start
    BY <2>1 DEF IsMet, FoundInv, FoundTypes
  <2> QED BY <2>2, MetIsReached DEF IsReached
<1>2. ASSUME NEW n, n \in ReachOf({Start}), n # Start PROVE n \in {d.node : d \in found}
  <2>1. PICK k, x : IsMet(n, k, x)
    BY <1>2, ReachedIsMet DEF IsReached
  <2> QED BY <1>2, <2>1 DEF IsMet
<1> QED BY <1>1, <1>2

LEMMA SeenIsReached ==
  ASSUME AskedInv, FoundInv, SeenIsMet, Goal \in seen \/ Expanded
  PROVE  (Goal \in seen) <=> (Goal \in ReachOf({Start}))
<1>1. \A n : n \in seen <=> \E k, x : IsMet(n, k, x)
  BY DEF SeenIsMet, IsMet
<1>2. Goal \in seen => IsReached(Goal)
  BY <1>1, MetIsReached
<1>3. IsReached(Goal) => Goal \in seen
  BY <1>1, ReachedIsMet
<1> QED BY <1>2, <1>3 DEF IsReached

-------------------------------------------------------------------------------
(* The way to a node, by the recursion that WayTo is defined with.         *)
WayDomain == {query.from} \cup {d.node : d \in found}
Finder(n) == CHOOSE d \in found : d.node = n
CameFrom(n) == Source(Finder(n).via, query.dir)
FoundDepth(n) == IF n = query.from THEN 0 ELSE Finder(n).depth
WayStep(w, n) == IF n = query.from THEN <<>> ELSE Append(w[CameFrom(n)], Finder(n).via)
IsWay(w, dom) == w = [n \in dom |-> WayStep(w, n)]

LEMMA FinderIs ==
  ASSUME IsNear, FoundInv
  PROVE  /\ \A d \in found : d.node # query.from /\ Finder(d.node) = d
         /\ \A n \in WayDomain : FoundDepth(n) \in Nat
         /\ \A n \in WayDomain : n # query.from =>
              CameFrom(n) \in WayDomain /\ FoundDepth(n) = FoundDepth(CameFrom(n)) + 1
<1>1. /\ \A d \in found : d.node # query.from /\ d.depth \in Nat
      /\ \A c, d \in found : c.node = d.node => c = d
  BY StartsFrom DEF FoundInv, FoundTypes, IsNear
<1>2. ASSUME NEW d \in found PROVE Finder(d.node) = d
  BY <1>1 DEF Finder
<1>3. \A d \in found : FoundDepth(d.node) = d.depth
  BY <1>1, <1>2 DEF FoundDepth
<1>4. FoundDepth(query.from) = 0
  BY DEF FoundDepth
<1>5. \A n, k, x : IsMet(n, k, x) => n \in WayDomain /\ FoundDepth(n) = k
  BY <1>3, <1>4, StartsFrom DEF IsMet, WayDomain, IsNear
<1>6. ASSUME NEW n \in WayDomain, n # query.from
      PROVE  CameFrom(n) \in WayDomain /\ FoundDepth(n) = FoundDepth(CameFrom(n)) + 1
  <2>1. PICK d \in found : d.node = n
    BY <1>6 DEF WayDomain
  <2>2. CameFrom(n) = Source(d.via, query.dir) /\ FoundDepth(n) = d.depth
    BY <1>2, <1>3, <2>1 DEF CameFrom
  <2>3. PICK k \in Nat, x \in BOOLEAN : IsMet(Source(d.via, query.dir), k, x) /\ d.depth = k + 1
    BY DEF FoundInv, FoundFrom
  <2> QED BY <1>5, <2>2, <2>3
<1>7. \A n \in WayDomain : FoundDepth(n) \in Nat
  BY <1>1, <1>3, <1>4 DEF WayDomain
<1> QED BY <1>1, <1>2, <1>6, <1>7

LEMMA WayExists ==
  ASSUME IsNear, AskedInv, FoundInv
  PROVE  \E w : IsWay(w, WayDomain)
<1>1. PICK c \in Nat : c = Cardinality(Nodes)
  BY EdgesSeen, FS_CardinalityType
<1>2. /\ \A n \in WayDomain : FoundDepth(n) \in Nat
      /\ \A n \in WayDomain : n # query.from =>
           CameFrom(n) \in WayDomain /\ FoundDepth(n) = FoundDepth(CameFrom(n)) + 1
  BY FinderIs
<1> DEFINE UpToDepth(m) == {n \in WayDomain : FoundDepth(n) <= m}
           T == {m \in Nat : \E w : IsWay(w, UpToDepth(m))}
<1>3. 0 \in T
  <2>1. PICK w : w = [n \in UpToDepth(0) |-> <<>>]
    OBVIOUS
  <2>2. ASSUME NEW n \in UpToDepth(0), n # query.from PROVE FALSE
    <3>1. n \in WayDomain /\ FoundDepth(n) <= 0
      OBVIOUS
    <3>2. FoundDepth(n) = FoundDepth(CameFrom(n)) + 1 /\ FoundDepth(CameFrom(n)) \in Nat
      BY <1>2, <2>2, <3>1
    <3> QED BY <3>1, <3>2
  <2>3. \A n \in UpToDepth(0) : WayStep(w, n) = <<>>
    BY <2>2 DEF WayStep
  <2> HIDE DEF UpToDepth
  <2>4. IsWay(w, UpToDepth(0))
    BY <2>1, <2>3 DEF IsWay
  <2> QED BY <2>4
<1>4. ASSUME NEW m \in Nat, m \in T PROVE m + 1 \in T
  <2>1. PICK w : IsWay(w, UpToDepth(m))
    BY <1>4
  <2>2. PICK v : v = [n \in UpToDepth(m + 1) |-> WayStep(w, n)]
    OBVIOUS
  <2>3. \A n \in UpToDepth(m) : n \in UpToDepth(m + 1) /\ v[n] = w[n]
    <3>1. \A n \in UpToDepth(m) : n \in UpToDepth(m + 1)
      BY <1>2
    <3> HIDE DEF UpToDepth
    <3>2. \A n \in UpToDepth(m) : w[n] = WayStep(w, n)
      BY <2>1 DEF IsWay
    <3> QED BY <2>2, <3>1, <3>2
  <2>4. ASSUME NEW n \in UpToDepth(m + 1) PROVE WayStep(w, n) = WayStep(v, n)
    <3>1. CASE n = query.from
      BY <3>1 DEF WayStep
    <3>2. CASE n # query.from
      <4>1. CameFrom(n) \in WayDomain /\ FoundDepth(n) = FoundDepth(CameFrom(n)) + 1 /\ FoundDepth(n) <= m + 1
            /\ FoundDepth(CameFrom(n)) \in Nat
        BY <1>2, <3>2
      <4>2. CameFrom(n) \in UpToDepth(m)
        BY <4>1
      <4>3. v[CameFrom(n)] = w[CameFrom(n)]
        BY <2>3, <4>2
      <4> QED BY <4>3 DEF WayStep
    <3> QED BY <3>1, <3>2
  <2> HIDE DEF UpToDepth
  <2>5. v = [n \in UpToDepth(m + 1) |-> WayStep(v, n)]
    BY <2>2, <2>4
  <2>6. IsWay(v, UpToDepth(m + 1))
    BY <2>5 DEF IsWay
  <2> QED BY <2>6
<1>5. 0 .. c \subseteq T
  <2>1. \A m \in 0 .. c - 1 : m \in Nat
    BY <1>1
  <2> HIDE DEF T
  <2> QED BY <1>1, <1>3, <1>4, <2>1, UpTo
<1>6. UpToDepth(c) = WayDomain
  <2>1. ASSUME NEW n \in WayDomain PROVE FoundDepth(n) <= c
    <3>1. CASE n = query.from
      BY <1>1, <3>1 DEF FoundDepth
    <3>2. CASE n # query.from
      <4>1. PICK d \in found : d.node = n
        BY <3>2 DEF WayDomain
      <4>2. FoundDepth(n) = d.depth
        BY <3>2, <4>1, FinderIs DEF FoundDepth
      <4> QED BY <1>1, <4>2, DepthBound
    <3> QED BY <3>1, <3>2
  <2> QED BY <2>1
<1>7. c \in T
  BY <1>1, <1>5
<1> HIDE DEF UpToDepth
<1> QED BY <1>6, <1>7

LEMMA WayToIs ==
  ASSUME IsNear, AskedInv, FoundInv
  PROVE  /\ WayTo(query.from) = <<>>
         /\ \A d \in found : WayTo(d.node) = Append(WayTo(Source(d.via, query.dir)), d.via)
<1>1. PICK way : way = CHOOSE w : IsWay(w, WayDomain)
  OBVIOUS
<1>2. \A n : WayTo(n) = way[n]
  BY <1>1 DEF WayTo, IsWay, WayStep, WayDomain, Finder, CameFrom
<1>3. IsWay(way, WayDomain)
  BY <1>1, WayExists
<1>4. \A n \in WayDomain : way[n] = WayStep(way, n)
  BY <1>3 DEF IsWay
<1>5. query.from \in WayDomain /\ \A d \in found : d.node \in WayDomain
  BY DEF WayDomain
<1>6. way[query.from] = <<>>
  BY <1>4, <1>5 DEF WayStep
<1>7. ASSUME NEW d \in found PROVE way[d.node] = Append(way[Source(d.via, query.dir)], d.via)
  <2>1. d.node # query.from /\ Finder(d.node) = d
    BY FinderIs
  <2> QED BY <1>4, <1>5, <2>1 DEF WayStep, CameFrom
<1> QED BY <1>2, <1>6, <1>7

-------------------------------------------------------------------------------
(* The flag and the weakest confidence of a way go on from edge to edge.   *)
LEMMA TransientOfAppend ==
  ASSUME NEW E, NEW s \in Seq(E), NEW e \in E
  PROVE  Transient(Append(s, e)) <=> Advance(Transient(s), e)
<1>1. PICK t : t = Append(s, e)
  OBVIOUS
<1>2. PICK m \in Nat : m = Len(s)
  OBVIOUS
<1>3. Len(t) = m + 1 /\ t[m + 1] = e /\ \A i \in 1 .. m : t[i] = s[i]
  BY <1>1, <1>2
<1> DEFINE Turns1(u, i, k) == /\ u[i].kind # "spawns" /\ u[i].condition \in Exceptional
                              /\ \A j \in i .. k : u[j].kind # "spawns"
<1>4. Transient(t) <=> \E i \in 1 .. m + 1 : Turns1(t, i, m + 1)
  BY <1>3 DEF Transient
<1>5. Transient(s) <=> \E i \in 1 .. m : Turns1(s, i, m)
  BY <1>2 DEF Transient
<1>6. ASSUME NEW i \in 1 .. m PROVE Turns1(t, i, m + 1) <=> Turns1(s, i, m) /\ e.kind # "spawns"
  <2>1. t[i] = s[i]
    BY <1>3
  <2>2. (\A j \in i .. m + 1 : t[j].kind # "spawns") <=> (\A j \in i .. m : t[j].kind # "spawns") /\ e.kind # "spawns"
    <3>1. \A j \in i .. m + 1 : j \in i .. m \/ j = m + 1
      OBVIOUS
    <3>2. m + 1 \in i .. m + 1 /\ \A j \in i .. m : j \in i .. m + 1
      OBVIOUS
    <3> QED BY <1>3, <3>1, <3>2
  <2>3. (\A j \in i .. m : t[j].kind # "spawns") <=> (\A j \in i .. m : s[j].kind # "spawns")
    <3>1. \A j \in i .. m : t[j] = s[j]
      BY <1>3
    <3> QED BY <3>1
  <2> QED BY <2>1, <2>2, <2>3
<1>7. Turns1(t, m + 1, m + 1) <=> e.kind # "spawns" /\ e.condition \in Exceptional
  <2>1. \A j \in m + 1 .. m + 1 : j = m + 1
    OBVIOUS
  <2> QED BY <1>3, <2>1
<1>8. (\E i \in 1 .. m + 1 : Turns1(t, i, m + 1)) <=> (\E i \in 1 .. m : Turns1(t, i, m + 1)) \/ Turns1(t, m + 1, m + 1)
  <2>1. \A i \in 1 .. m + 1 : i \in 1 .. m \/ i = m + 1
    OBVIOUS
  <2>2. m + 1 \in 1 .. m + 1 /\ \A i \in 1 .. m : i \in 1 .. m + 1
    OBVIOUS
  <2> HIDE DEF Turns1
  <2> QED BY <2>1, <2>2
<1> HIDE DEF Turns1
<1>9. Transient(t) <=> e.kind # "spawns" /\ (Transient(s) \/ e.condition \in Exceptional)
  BY <1>4, <1>5, <1>6, <1>7, <1>8
<1> QED BY <1>1, <1>9 DEF Advance

LEMMA MinIs ==
  ASSUME NEW S \in SUBSET Nat, NEW m \in S, \A n \in S : m <= n
  PROVE  Min(S) = m
<1>1. PICK x : x = CHOOSE z \in S : \A y \in S : z <= y
  OBVIOUS
<1>2. x \in S /\ \A y \in S : x <= y
  BY <1>1
<1>3. x <= m /\ m <= x /\ x \in Nat /\ m \in Nat
  BY <1>2
<1>4. x = m
  BY <1>3
<1> QED BY <1>1, <1>4 DEF Min

LEMMA WeakestOfAppend ==
  ASSUME NEW E, \A e \in E : e.confidence \in 0 .. 2, NEW s \in Seq(E), NEW e \in E
  PROVE  /\ WeakestOf(s) \in 0 .. 2
         /\ WeakestOf(Append(s, e)) = Weakest(WeakestOf(s), e.confidence)
<1> DEFINE Confidences(u) == {2} \cup {u[i].confidence : i \in DOMAIN u}
<1>1. \A u \in Seq(E) : Confidences(u) \subseteq 0 .. 2 /\ Confidences(u) # {}
  <2>1. ASSUME NEW u \in Seq(E) PROVE Confidences(u) \subseteq 0 .. 2
    <3>1. \A i \in DOMAIN u : u[i] \in E
      OBVIOUS
    <3> QED BY <3>1
  <2> QED BY <2>1
<1>2. PICK t : t = Append(s, e)
  OBVIOUS
<1>3. t \in Seq(E) /\ Confidences(t) = Confidences(s) \cup {e.confidence}
  <2>1. PICK m \in Nat : m = Len(s)
    OBVIOUS
  <2>2. /\ t \in Seq(E) /\ DOMAIN t = 1 .. m + 1 /\ DOMAIN s = 1 .. m
        /\ t[m + 1] = e /\ \A i \in 1 .. m : t[i] = s[i]
    BY <1>2, <2>1
  <2>3. \A i \in 1 .. m + 1 : i \in 1 .. m \/ i = m + 1
    OBVIOUS
  <2>4. m + 1 \in 1 .. m + 1 /\ \A i \in 1 .. m : i \in 1 .. m + 1
    OBVIOUS
  <2>5. \A c : (\E i \in DOMAIN t : c = t[i].confidence)
               <=> (\E i \in DOMAIN s : c = s[i].confidence) \/ c = e.confidence
    BY <2>2, <2>3, <2>4
  <2> QED BY <2>2, <2>5
<1>4. \A u : WeakestOf(u) = Min(Confidences(u))
  BY DEF WeakestOf
<1> HIDE DEF Confidences
<1>5. PICK C : C = Confidences(s)
  OBVIOUS
<1>6. C \in SUBSET Nat /\ C # {} /\ C \subseteq 0 .. 2
  BY <1>1, <1>5
<1>7. PICK m \in C : \A n \in C : m <= n
  BY <1>6, LeastNat
<1>8. Min(C) = m
  BY <1>6, <1>7, MinIs
<1>9. e.confidence \in 0 .. 2 /\ e.confidence \in Nat
  OBVIOUS
<1>10. PICK w : w = Weakest(m, e.confidence)
  OBVIOUS
<1>11. w \in C \cup {e.confidence} /\ \A n \in C \cup {e.confidence} : w <= n
  BY <1>6, <1>7, <1>9, <1>10 DEF Weakest
<1>12. C \cup {e.confidence} \in SUBSET Nat
  <2>1. \A n \in C \cup {e.confidence} : n \in Nat
    BY <1>6, <1>9
  <2> QED BY <2>1
<1>13. Min(C \cup {e.confidence}) = w
  BY <1>11, <1>12, MinIs
<1> QED BY <1>2, <1>3, <1>4, <1>5, <1>6, <1>8, <1>10, <1>13
-------------------------------------------------------------------------------
(* What is told of a node, its flag and its weakest confidence, is of the  *)
(* way to it.                                                              *)
Told(n, x) ==
  /\ WayTo(n) \in Seq(Admitted)
  /\ x <=> Transient(WayTo(n))
  /\ weakest[n] = WeakestOf(WayTo(n))

LEMMA WaysAreTold ==
  ASSUME IsNear, AskedInv, FoundInv, weakest[query.from] = 2,
         \A d \in found : weakest[d.node] = Weakest(weakest[Source(d.via, query.dir)], d.via.confidence)
  PROVE  \A n, k, x : IsMet(n, k, x) => Told(n, x)
<1>1. /\ \A e \in Admitted : e.confidence \in 0 .. 2
  BY EdgesSeen
<1>2. \A d \in found : d.depth \in Nat /\ d.via \in Admitted
  BY DEF FoundInv, FoundTypes
<1>3. Told(query.from, FALSE)
  <2>1. WayTo(query.from) = <<>>
    BY WayToIs
  <2>2. ~Transient(<<>>)
    BY DEF Transient
  <2>3. WeakestOf(<<>>) = 2
    <3>1. {2} \in SUBSET Nat
      OBVIOUS
    <3>2. Min({2}) = 2
      BY <3>1, MinIs
    <3>3. {2} \cup {<<>>[i].confidence : i \in DOMAIN <<>>} = {2}
      OBVIOUS
    <3> QED BY <3>2, <3>3 DEF WeakestOf
  <2> QED BY <2>1, <2>2, <2>3 DEF Told
<1> DEFINE T == {m \in Nat : \A n, x : IsMet(n, m, x) => Told(n, x)}
<1>4. 0 \in T
  <2>1. ASSUME NEW d \in found PROVE d.depth # 0
    <3>1. PICK k \in Nat : d.depth = k + 1
      BY DEF FoundInv, FoundFrom
    <3> QED BY <3>1
  <2>2. ASSUME NEW n, NEW x, IsMet(n, 0, x) PROVE n = query.from /\ x = FALSE
    BY <2>1, <2>2, StartsFrom DEF IsMet, IsNear
  <2> QED BY <1>3, <2>2
<1>5. ASSUME NEW m \in Nat, m \in T PROVE m + 1 \in T
  <2>1. ASSUME NEW n, NEW x, IsMet(n, m + 1, x) PROVE Told(n, x)
    <3>1. PICK d \in found : d.node = n /\ d.depth = m + 1 /\ d.exc = x
      BY <2>1 DEF IsMet
    <3>2. PICK src : src = Source(d.via, query.dir)
      OBVIOUS
    <3>3. PICK k \in Nat, y \in BOOLEAN : IsMet(src, k, y) /\ d.depth = k + 1 /\ d.exc = Advance(y, d.via)
      BY <3>2 DEF FoundInv, FoundFrom
    <3>4. k = m
      BY <3>1, <3>3
    <3>5. Told(src, y)
      BY <1>5, <3>3, <3>4
    <3>6. PICK s : s = WayTo(src)
      OBVIOUS
    <3>7. s \in Seq(Admitted) /\ (y <=> Transient(s)) /\ weakest[src] = WeakestOf(s)
      BY <3>5, <3>6 DEF Told
    <3>8. WayTo(n) = Append(s, d.via) /\ d.via \in Admitted
      BY <1>2, <3>1, <3>2, <3>6, WayToIs
    <3>9. Append(s, d.via) \in Seq(Admitted)
      BY <3>7, <3>8
    <3>10. x <=> Transient(Append(s, d.via))
      <4>1. Transient(Append(s, d.via)) <=> Advance(Transient(s), d.via)
        BY <3>7, <3>8, TransientOfAppend
      <4>2. Advance(Transient(s), d.via) <=> Advance(y, d.via)
        BY <3>7 DEF Advance
      <4> QED BY <3>1, <3>3, <4>1, <4>2
    <3>11. weakest[n] = WeakestOf(Append(s, d.via))
      <4>1. WeakestOf(Append(s, d.via)) = Weakest(WeakestOf(s), d.via.confidence)
        BY <1>1, <3>7, <3>8, WeakestOfAppend
      <4> QED BY <3>1, <3>2, <3>7, <4>1
    <3> QED BY <3>8, <3>9, <3>10, <3>11 DEF Told
  <2>2. m + 1 \in Nat
    OBVIOUS
  <2> QED BY <2>1, <2>2
<1>6. ASSUME NEW n, NEW k, NEW x, IsMet(n, k, x) PROVE Told(n, x)
  <2>1. k \in Nat
    BY <1>2, <1>6 DEF IsMet
  <2>2. 0 .. k \subseteq T
    <3>1. \A m \in 0 .. k - 1 : m \in Nat
      BY <2>1
    <3> HIDE DEF T
    <3> QED BY <1>4, <1>5, <2>1, <3>1, UpTo
  <2>3. k \in T
    BY <2>1, <2>2
  <2> QED BY <1>6, <2>3
<1> QED BY <1>6

(* What was carried to a found node is carried over the edge it is found by. *)
LEMMA CarriedToFound ==
  ASSUME BfsInv, TwiceInv, pc = "done", query.op = "neighbors"
  PROVE  /\ weakest[query.from] = 2
         /\ \A d \in found : weakest[d.node] = Weakest(weakest[Source(d.via, query.dir)], d.via.confidence)
<1>1. PICK k \in Nat : \E fr, met : TwiceIn(fr, met, k)
  BY DEF TwiceInv
<1>2. PICK fr, met : TwiceIn(fr, met, k)
  BY <1>1
<1>3. FoundInTurns(fr, met, k) /\ IsWeakened(fr, met, k)
  BY <1>2 DEF TwiceIn
<1>4. \A d \in found : PeerOf(d.via) = d.node
  BY DEF BfsInv, IsBreadth, IsNear, FoundInv, FoundTypes
<1>5. ASSUME NEW d \in found
      PROVE  weakest[d.node] = Weakest(weakest[Source(d.via, query.dir)], d.via.confidence)
  <2>1. PICK i \in 0 .. k - 1 : d.via \in Found(fr[i], met[i])
    BY <1>3 DEF FoundInTurns
  <2>2. weakest[PeerOf(d.via)] = Weakest(weakest[SourceOf(d.via)], d.via.confidence)
    BY <1>3, <2>1 DEF IsWeakened
  <2> QED BY <1>4, <2>2 DEF SourceOf
<1> QED BY <1>3, <1>5 DEF IsWeakened

LEMMA InvImpliesNearest ==
  ASSUME AskedInv, BfsInv, TwiceInv
  PROVE  FindsTheNearest
<1> SUFFICES ASSUME pc = "done", IsNear PROVE
      /\ \A d \in found :
           /\ d.depth = Distance(Admitted, query.from, d.node, query.dir)
           /\ \A c \in found : c.node = d.node => c = d
           /\ query.op = "neighbors" =>
                /\ d.exc = Transient(WayTo(d.node))
                /\ weakest[d.node] = WeakestOf(WayTo(d.node))
      /\ IF query.op = "reaches"
         THEN (Goal \in seen) = (Goal \in ReachOf({query.from}))
         ELSE {d.node : d \in found} = ReachOf({query.from}) \ {query.from}
  BY DEF FindsTheNearest, IsNear
<1>1. /\ FoundInv
      /\ query.op = "neighbors" => Expanded
      /\ query.op = "reaches" => SeenIsMet /\ (Goal \in seen \/ Expanded)
  BY DEF BfsInv, IsBreadth
<1>2. \A d \in found : d.depth = Distance(Admitted, query.from, d.node, query.dir)
  BY <1>1, FoundAtDistance, StartsFrom DEF IsNear
<1>3. \A c, d \in found : c.node = d.node => c = d
  BY <1>1 DEF FoundInv, FoundTypes
<1>4. ASSUME query.op = "neighbors", NEW d \in found
      PROVE  d.exc = Transient(WayTo(d.node)) /\ weakest[d.node] = WeakestOf(WayTo(d.node))
  <2>1. /\ weakest[query.from] = 2
        /\ \A c \in found : weakest[c.node] = Weakest(weakest[Source(c.via, query.dir)], c.via.confidence)
    BY <1>4, CarriedToFound
  <2>2. \A n, k, x : IsMet(n, k, x) => Told(n, x)
    BY <1>1, <2>1, WaysAreTold
  <2>3. IsMet(d.node, d.depth, d.exc)
    BY DEF IsMet
  <2>4. PICK x : x = d.exc
    OBVIOUS
  <2>5. PICK way : way = WayTo(d.node)
    OBVIOUS
  <2>6. (x <=> Transient(way)) /\ weakest[d.node] = WeakestOf(way)
    BY <2>2, <2>3, <2>4, <2>5 DEF Told
  <2>7. x \in BOOLEAN
    BY <1>1, <2>4 DEF FoundInv, FoundTypes
  <2>8. x = Transient(way)
    BY <2>6, <2>7 DEF Transient
  <2> QED BY <2>4, <2>5, <2>6, <2>8
<1>5. CASE query.op = "reaches"
  <2>1. (Goal \in seen) <=> (Goal \in ReachOf({query.from}))
    BY <1>1, <1>5, SeenIsReached, StartsFrom
  <2> QED BY <1>2, <1>3, <1>5, <2>1
<1>6. CASE query.op # "reaches"
  <2>1. query.op = "neighbors"
    BY <1>6 DEF IsNear
  <2>2. {d.node : d \in found} = ReachOf({query.from}) \ {query.from}
    BY <1>1, <2>1, FoundIsReached, StartsFrom
  <2> QED BY <1>2, <1>3, <1>4, <1>6, <2>1, <2>2
<1> QED BY <1>5, <1>6

(* A step that moves nothing. *)
LEMMA Unmoved ==
  ASSUME AskedInv, BfsInv, TwiceInv, UNCHANGED asked, found' = found, frontier' = frontier,
         seen' = seen, weakest' = weakest, roots' = roots, pc' = pc
  PROVE  AskedInv' /\ BfsInv' /\ TwiceInv'
<1>1. /\ query' = query /\ AskedInv' = AskedInv /\ IsNear' = IsNear /\ IsBreadth' = IsBreadth /\ Goal' = Goal
      /\ \A e : PeerOf(e)' = PeerOf(e) /\ SourceOf(e)' = SourceOf(e)
      /\ \A n : NeighborsOf(n)' = NeighborsOf(n)
      /\ \A d : WithinDepth(d)' = WithinDepth(d)
      /\ Start' = Start
  BY AskedSame DEF Start
<1>2. /\ FoundInv' = FoundInv /\ Expanded' = Expanded
      /\ \A n, k, x : IsMet(n, k, x)' = IsMet(n, k, x)
  BY <1>1, FoundSame
<1>3. SeenIsMet' = SeenIsMet
  BY <1>1 DEF SeenIsMet
<1>4. QueueInv' = QueueInv
  BY <1>1, <1>2 DEF QueueInv, IsQueued, IsExpanded
<1>5. BfsInv'
  BY <1>1, <1>2, <1>3, <1>4 DEF BfsInv
<1>6. CASE query.op # "neighbors"
  BY <1>1, <1>5, <1>6 DEF TwiceInv
<1>7. CASE query.op = "neighbors"
  <2>1. PICK k \in Nat : \E fr, met : TwiceIn(fr, met, k)
    BY <1>7 DEF TwiceInv
  <2>2. PICK fr, met : TwiceIn(fr, met, k)
    BY <2>1
  <2>3. /\ \A i : Found(fr[i], met[i])' = Found(fr[i], met[i])
        /\ Turns(fr, met, k)' = Turns(fr, met, k)
    BY TurnsSame
  <2>4. FoundInTurns(fr, met, k)' = FoundInTurns(fr, met, k)
    BY <2>3 DEF FoundInTurns
  <2>5. \A i : IsWeakened(fr, met, i)' = IsWeakened(fr, met, i)
    BY <1>1, <2>3 DEF IsWeakened
  <2>6. \A i : AtTurn(fr, met, i)' = AtTurn(fr, met, i)
    BY DEF AtTurn
  <2>7. TwiceIn(fr, met, k)'
    BY <1>1, <2>2, <2>3, <2>4, <2>5, <2>6 DEF TwiceIn
  <2> QED BY <1>1, <1>5, <2>7 DEF TwiceInv
<1> QED BY <1>6, <1>7

(* callers, callees and reaches: what bfs finds is what lies within the    *)
(* depth, each node once, at its distance, and told of by one and the same *)
(* way to it (FindsTheNearest), for every program and query.               *)
THEOREM WalksFindTheNearest == WalkSpec => []FindsTheNearest
<1>1. WalkInit => AskedInv /\ BfsInv /\ TwiceInv
  BY BfsInit, TwiceInit
<1>2. ASSUME AskedInv, BfsInv, TwiceInv, [WalkNext]_pathVars
      PROVE  AskedInv' /\ BfsInv' /\ TwiceInv'
  <2>1. CASE WalkNext
    BY <1>2, <2>1, BfsStep, TwiceStep
  <2>2. CASE UNCHANGED pathVars
    <3>1. /\ UNCHANGED asked /\ found' = found /\ frontier' = frontier /\ seen' = seen
          /\ weakest' = weakest /\ roots' = roots /\ pc' = pc
      BY <2>2 DEF pathVars, bfsVars, asked
    <3> QED BY <1>2, <3>1, Unmoved
  <2> QED BY <1>2, <2>1, <2>2
<1>3. AskedInv /\ BfsInv /\ TwiceInv => FindsTheNearest
  BY InvImpliesNearest
<1> QED BY <1>1, <1>2, <1>3, PTL DEF WalkSpec

-------------------------------------------------------------------------------
(* Enumeration, depth first. *)
IsDeep == query.op \in DfsOps

(* The node a route is at after i edges. *)
At(r, i) == IF i = 0 THEN query.from ELSE PeerOf(r[i])

IsWalk(r) == r \in Seq(Admitted) /\ \A i \in 1 .. Len(r) : SourceOf(r[i]) = At(r, i - 1)

NoneRecurs(r) ==
  /\ \A i \in 1 .. Len(r) : query.op = "paths" => PeerOf(r[i]) # query.from
  /\ \A i, j \in 1 .. Len(r) : Mark(r[i]) = Mark(r[j]) => i = j

(* Routes a depth-first walk may be on: within the depth, no node of a     *)
(* path and no edge of a trail again, and not beyond the goal.             *)
IsRoute(r) ==
  /\ IsWalk(r)
  /\ NoneRecurs(r)
  /\ \A i \in 1 .. Len(r) : WithinDepth(i)
  /\ StopsAtGoal(r)

IsGoalRoute(r) == IsRoute(r) /\ Len(r) > 0 /\ PeerOf(r[Len(r)]) = Goal

Entry == [node : Nodes, via : Admitted \cup {NoEdge}, exc : BOOLEAN]

(* The steps of a trail, each with its node and the flag of the way to it. *)
IsTrodden(t) ==
  /\ t \in Seq(Entry)
  /\ Len(t) > 0 /\ t[1].node = query.from /\ t[1].exc = FALSE
  /\ \A i \in 2 .. Len(t) :
       /\ t[i].via \in Admitted
       /\ t[i].node = PeerOf(t[i].via)
       /\ t[i].exc = Advance(t[i - 1].exc, t[i].via)

IsMarked(t, m) ==
  \/ query.op = "paths" /\ m = query.from
  \/ \E i \in 1 .. Len(t) - 1 : m = Mark(t[i + 1].via)

(* r goes as a trail does for i edges. *)
GoesAs(t, r, i) == Len(r) >= i /\ \A k \in 1 .. i : r[k] = t[k + 1].via

(* r leaves a trail after i - 1 edges, by one still to take there. *)
Awaits(td, i, e) == \E k \in 1 .. Len(td[i]) : td[i][k] = e
IsAwaited(t, td, i, r) == GoesAs(t, r, i - 1) /\ Len(r) >= i /\ Awaits(td, i, r[i])

(* r is still to be walked to its end. *)
IsAhead(c, t, td, r) ==
  \/ c = "enter" /\ GoesAs(t, r, Len(t) - 1)
  \/ \E i \in 1 .. Len(td) : IsAwaited(t, td, i, r)

IsListed(ps, r) == \E p \in 1 .. Len(ps) : RouteOf(ps[p]) = r

TrailInv ==
  /\ IsTrodden(trail)
  /\ IsRoute(RouteOf(trail))
  /\ \A m : m \in marked <=> IsMarked(trail, m)

(* What is to take at step i of the trail: edges from there, each once,    *)
(* and no more the one the trail took.                                     *)
IsTodo(t, td, i) ==
  /\ \A k, l \in 1 .. Len(td[i]) : td[i][k] = td[i][l] => k = l
  /\ \A k \in 1 .. Len(td[i]) :
       /\ SourceOf(td[i][k]) = t[i].node
       /\ WithinDepth(i)
       /\ i = 1 \/ t[i].node # Goal
  /\ i < Len(t) => ~ Awaits(td, i, t[i + 1].via)

TodoInv ==
  /\ todo \in Seq(Seq(Admitted))
  /\ pc = "enter" => Len(todo) = Len(trail) - 1
  /\ pc = "take" => Len(todo) = Len(trail)
  /\ pc # "done" => \A i \in 1 .. Len(todo) : IsTodo(trail, todo, i)

PathsInv ==
  /\ paths \in Seq(Seq(Entry))
  /\ \A p \in 1 .. Len(paths) : IsTrodden(paths[p]) /\ IsGoalRoute(RouteOf(paths[p]))
  /\ \A p, q \in 1 .. Len(paths) : RouteOf(paths[p]) = RouteOf(paths[q]) => p = q

SoFarInv ==
  /\ pc # "done" => Len(paths) < query.cap
  /\ pc # "done" => \A r : IsListed(paths, r) => ~ IsAhead(pc, trail, todo, r)
  /\ truncation = "none" =>
       \A r : IsGoalRoute(r) => IsListed(paths, r) \/ (pc # "done" /\ IsAhead(pc, trail, todo, r))

DfsInv ==
  IsDeep => pc \in {"enter", "take", "done"} /\ TrailInv /\ TodoInv /\ PathsInv /\ SoFarInv

-------------------------------------------------------------------------------
(* What the rule of a query forbids to recur is what a walk marks.         *)
LEMMA KeepsIs ==
  ASSUME AskedInv, IsDeep, NEW r \in Seq(Admitted)
  PROVE  Keeps(r) <=> NoneRecurs(r)
<1>1. /\ \A i \in 1 .. Len(r) : r[i] \in edges
      /\ \A e, f \in edges : e.id = f.id => e = f
      /\ Len(r) \in Nat /\ DOMAIN r = 1 .. Len(r)
  BY EdgesSeen
<1>2. CASE query.op = "paths"
  <2>1. PICK p : p = [i \in 1 .. Len(r) |-> PeerOf(r[i])]
    OBVIOUS
  <2>2. PICK w : w = <<query.from>> \o p
    OBVIOUS
  <2>3. Nodewise(r) = w
    BY <1>1, <2>1, <2>2 DEF Nodewise
  <2>4. p \in Seq({PeerOf(e) : e \in edges}) /\ Len(p) = Len(r)
    BY <1>1, <2>1
  <2>5. /\ DOMAIN w = 1 .. Len(r) + 1
        /\ w[1] = query.from
        /\ \A i \in 1 .. Len(r) : w[i + 1] = PeerOf(r[i])
    BY <2>1, <2>2, <2>4, <1>1
  <2>6. \A i \in 1 .. Len(r) : Mark(r[i]) = PeerOf(r[i])
    BY <1>2 DEF Mark
  <2>7. ASSUME IsInjective(w) PROVE NoneRecurs(r)
    <3>1. \A a, b \in 1 .. Len(r) + 1 : w[a] = w[b] => a = b
      BY <2>5, <2>7 DEF IsInjective
    <3>2. ASSUME NEW i \in 1 .. Len(r) PROVE PeerOf(r[i]) # query.from
      <4>1. i + 1 \in 1 .. Len(r) + 1 /\ 1 \in 1 .. Len(r) + 1 /\ i + 1 # 1
        BY <1>1
      <4> QED BY <2>5, <3>1, <4>1
    <3>3. ASSUME NEW i \in 1 .. Len(r), NEW j \in 1 .. Len(r), PeerOf(r[i]) = PeerOf(r[j])
          PROVE  i = j
      <4>1. i + 1 \in 1 .. Len(r) + 1 /\ j + 1 \in 1 .. Len(r) + 1
        BY <1>1
      <4>2. w[i + 1] = w[j + 1]
        BY <2>5, <3>3
      <4>3. i + 1 = j + 1
        BY <3>1, <4>1, <4>2
      <4> QED BY <1>1, <4>3
    <3> QED BY <2>6, <3>2, <3>3 DEF NoneRecurs
  <2>8. ASSUME NoneRecurs(r) PROVE IsInjective(w)
    <3>1. \A i \in 1 .. Len(r) : PeerOf(r[i]) # query.from
      BY <1>2, <2>8 DEF NoneRecurs
    <3>2. \A i, j \in 1 .. Len(r) : PeerOf(r[i]) = PeerOf(r[j]) => i = j
      BY <2>6, <2>8 DEF NoneRecurs
    <3>3. ASSUME NEW a \in 1 .. Len(r) + 1, NEW b \in 1 .. Len(r) + 1, w[a] = w[b]
          PROVE  a = b
      <4>1. a = 1 \/ (a - 1 \in 1 .. Len(r) /\ a = (a - 1) + 1)
        BY <1>1
      <4>2. b = 1 \/ (b - 1 \in 1 .. Len(r) /\ b = (b - 1) + 1)
        BY <1>1
      <4>3. CASE a = 1 /\ b = 1
        BY <4>3
      <4>4. CASE a = 1 /\ b - 1 \in 1 .. Len(r)
        <5>1. w[b] = PeerOf(r[b - 1])
          BY <2>5, <4>2, <4>4
        <5> QED BY <2>5, <3>1, <3>3, <4>4, <5>1
      <4>5. CASE a - 1 \in 1 .. Len(r) /\ b = 1
        <5>1. w[a] = PeerOf(r[a - 1])
          BY <2>5, <4>1, <4>5
        <5> QED BY <2>5, <3>1, <3>3, <4>5, <5>1
      <4>6. CASE a - 1 \in 1 .. Len(r) /\ b - 1 \in 1 .. Len(r)
        <5>1. w[(a - 1) + 1] = PeerOf(r[a - 1]) /\ w[(b - 1) + 1] = PeerOf(r[b - 1])
          BY <2>5, <4>6
        <5>3. (a - 1) + 1 = a /\ (b - 1) + 1 = b
          BY <1>1
        <5>2. a - 1 = b - 1
          BY <3>2, <3>3, <4>6, <5>1, <5>3
        <5> QED BY <1>1, <5>2
      <4> QED BY <4>1, <4>2, <4>3, <4>4, <4>5, <4>6
    <3> QED BY <2>5, <3>3 DEF IsInjective
  <2> QED BY <1>2, <2>3, <2>7, <2>8 DEF Keeps
<1>3. CASE query.op = "trails"
  <2>1. Keeps(r) <=> \A i, j \in 1 .. Len(r) : r[i] = r[j] => i = j
    BY <1>1, <1>3 DEF Keeps, IsInjective
  <2>2. \A i, j \in 1 .. Len(r) : r[i] = r[j] <=> Mark(r[i]) = Mark(r[j])
    BY <1>1, <1>3 DEF Mark
  <2>3. NoneRecurs(r) <=> \A i, j \in 1 .. Len(r) : Mark(r[i]) = Mark(r[j]) => i = j
    BY <1>3 DEF NoneRecurs
  <2> QED BY <2>1, <2>2, <2>3
<1> QED BY <1>2, <1>3 DEF IsDeep, DfsOps

-------------------------------------------------------------------------------
EndOf(r) == IF r = <<>> THEN query.from ELSE Peer(r[Len(r)], query.dir)

Extended(last) == {Append(q, e) : q \in last, e \in Admitted}

Longer(last, i) ==
  {r \in Extended(last) :
     Source(r[i], query.dir) = EndOf(SubSeq(r, 1, i - 1)) /\ Keeps(r)}

AreRoutes(rs, k) == rs = [i \in 0 .. k |-> IF i = 0 THEN {<<>>} ELSE Longer(rs[i - 1], i)]

(* The recursion of Routes has a solution, and this is it. *)
LEMMA RoutesByLength ==
  ASSUME NEW k \in Nat
  PROVE  \E rs : /\ AreRoutes(rs, k)
                 /\ Routes(Admitted, query.from, query.dir, k, Keeps) = UNION {rs[i] : i \in 0 .. k}
<1> DEFINE T == {m \in Nat : \E rs : AreRoutes(rs, m)}
<1>1. 0 \in T
  <2>1. AreRoutes([i \in 0 .. 0 |-> {<<>>}], 0)
    BY DEF AreRoutes
  <2> QED BY <2>1
<1>2. ASSUME NEW m \in 0 .. k - 1, m \in T PROVE m + 1 \in T
  <2>1. PICK r : AreRoutes(r, m)
    BY <1>2
  <2>2. PICK s : s = [i \in 0 .. m + 1 |-> IF i = m + 1 THEN Longer(r[m], m + 1) ELSE r[i]]
    OBVIOUS
  <2>3. \A i \in 0 .. m : s[i] = r[i]
    BY <2>2
  <2>4. \A i \in 0 .. m : r[i] = IF i = 0 THEN {<<>>} ELSE Longer(r[i - 1], i)
    BY <2>1 DEF AreRoutes
  <2>5. ASSUME NEW i \in 0 .. m + 1 PROVE s[i] = IF i = 0 THEN {<<>>} ELSE Longer(s[i - 1], i)
    <3>1. CASE i = m + 1
      <4>1. i - 1 = m /\ i # 0 /\ m \in 0 .. m
        BY <3>1
      <4>2. s[i] = Longer(r[m], m + 1)
        BY <2>2, <3>1
      <4> QED BY <2>3, <3>1, <4>1, <4>2
    <3>2. CASE i \in 1 .. m
      <4>1. i - 1 \in 0 .. m /\ i # 0 /\ i \in 0 .. m
        BY <3>2
      <4> QED BY <2>3, <2>4, <4>1
    <3>3. CASE i = 0
      BY <2>3, <2>4, <3>3
    <3> QED BY <3>1, <3>2, <3>3
  <2>6. AreRoutes(s, m + 1)
    BY <2>2, <2>5 DEF AreRoutes
  <2> QED BY <2>6
<1>3. \E rs : AreRoutes(rs, k)
  <2> HIDE DEF T
  <2>1. 0 .. k \subseteq T
    BY <1>1, <1>2, UpTo
  <2>2. k \in T
    BY <2>1
  <2> QED BY <2>2 DEF T
<1>4. PICK rs : rs = CHOOSE s : AreRoutes(s, k)
  OBVIOUS
<1>5. AreRoutes(rs, k)
  BY <1>3, <1>4
<1>6. Routes(Admitted, query.from, query.dir, k, Keeps) = UNION {rs[i] : i \in 0 .. k}
  BY <1>4 DEF Routes, AreRoutes, Longer, Extended, EndOf
<1> QED BY <1>5, <1>6

(* Routes of k edges are the walks of k edges on which nothing recurs.     *)
LEMMA RoutesAreWalks ==
  ASSUME AskedInv, IsDeep, NEW k \in Nat, NEW rs, AreRoutes(rs, k)
  PROVE  \A i \in 0 .. k : \A r :
           r \in rs[i] <=> IsWalk(r) /\ NoneRecurs(r) /\ Len(r) = i
<1> DEFINE Good(r, i) == IsWalk(r) /\ NoneRecurs(r) /\ Len(r) = i
           T == {i \in Nat : \A r : r \in rs[i] <=> Good(r, i)}
<1>1. rs[0] = {<<>>} /\ \A i \in 0 .. k - 1 : rs[i + 1] = Longer(rs[i], i + 1)
  <2>1. \A i \in 0 .. k : rs[i] = IF i = 0 THEN {<<>>} ELSE Longer(rs[i - 1], i)
    BY DEF AreRoutes
  <2>2. rs[0] = {<<>>}
    BY <2>1
  <2>3. ASSUME NEW i \in 0 .. k - 1 PROVE rs[i + 1] = Longer(rs[i], i + 1)
    <3>1. i + 1 \in 0 .. k /\ i + 1 # 0 /\ (i + 1) - 1 = i
      OBVIOUS
    <3> QED BY <2>1, <3>1
  <2> QED BY <2>2, <2>3
<1>2. 0 \in T
  <2>1. Good(<<>>, 0)
    BY DEF IsWalk, NoneRecurs
  <2>2. \A r : Good(r, 0) => r = <<>>
    BY DEF IsWalk
  <2> QED BY <1>1, <2>1, <2>2
<1>3. ASSUME NEW i \in 0 .. k - 1, i \in T PROVE i + 1 \in T
  <2>1. \A q : q \in rs[i] <=> Good(q, i)
    BY <1>3
  <2>2. ASSUME NEW r, r \in rs[i + 1] PROVE Good(r, i + 1)
    <3>1. r \in Longer(rs[i], i + 1)
      BY <1>1, <2>2
    <3>2. PICK q \in rs[i], e \in Admitted : r = Append(q, e)
      BY <3>1 DEF Longer, Extended
    <3>3. Source(r[i + 1], query.dir) = EndOf(SubSeq(r, 1, (i + 1) - 1)) /\ Keeps(r)
      BY <3>1 DEF Longer
    <3>4. q \in Seq(Admitted) /\ Len(q) = i /\ IsWalk(q)
      BY <2>1 DEF IsWalk
    <3>5. /\ r \in Seq(Admitted) /\ Len(r) = i + 1 /\ r[i + 1] = e
          /\ \A j \in 1 .. i : r[j] = q[j]
      BY <3>2, <3>4
    <3>6. SubSeq(r, 1, (i + 1) - 1) = q
      BY <3>2, <3>4
    <3>7. EndOf(q) = At(r, i)
      BY <3>4, <3>5 DEF EndOf, At, PeerOf
    <3>8. ASSUME NEW j \in 1 .. i + 1 PROVE SourceOf(r[j]) = At(r, j - 1)
      <4>1. CASE j = i + 1
        <5>1. SourceOf(r[i + 1]) = At(r, i)
          BY <3>3, <3>6, <3>7 DEF SourceOf
        <5>2. j - 1 = i
          BY <4>1
        <5> QED BY <4>1, <5>1, <5>2
      <4>2. CASE j \in 1 .. i
        <5>1. SourceOf(q[j]) = At(q, j - 1)
          BY <3>4, <4>2 DEF IsWalk
        <5>2. At(q, j - 1) = At(r, j - 1)
          BY <3>5, <4>2 DEF At
        <5> QED BY <3>5, <4>2, <5>1, <5>2
      <4> QED BY <4>1, <4>2
    <3>9. IsWalk(r)
      BY <3>5, <3>8 DEF IsWalk
    <3>10. NoneRecurs(r)
      BY <3>3, <3>5, KeepsIs
    <3> QED BY <3>5, <3>9, <3>10
  <2>3. ASSUME NEW r, Good(r, i + 1) PROVE r \in rs[i + 1]
    <3>1. r \in Seq(Admitted) /\ Len(r) = i + 1
          /\ \A j \in 1 .. i + 1 : SourceOf(r[j]) = At(r, j - 1)
      BY <2>3 DEF IsWalk
    <3>2. PICK q : q = SubSeq(r, 1, i)
      OBVIOUS
    <3>3. /\ q \in Seq(Admitted) /\ Len(q) = i /\ \A j \in 1 .. i : q[j] = r[j]
          /\ r = Append(q, r[i + 1])
      BY <3>1, <3>2
    <3>4. IsWalk(q)
      <4>1. ASSUME NEW j \in 1 .. i PROVE SourceOf(q[j]) = At(q, j - 1)
        <5>1. At(q, j - 1) = At(r, j - 1)
          BY <3>3 DEF At
        <5> QED BY <3>1, <3>3, <5>1
      <4> QED BY <3>3, <4>1 DEF IsWalk
    <3>5. NoneRecurs(q)
      <4>1. /\ \A j \in 1 .. i + 1 : query.op = "paths" => PeerOf(r[j]) # query.from
            /\ \A j, l \in 1 .. i + 1 : Mark(r[j]) = Mark(r[l]) => j = l
        BY <2>3, <3>1 DEF NoneRecurs
      <4> QED BY <3>3, <4>1 DEF NoneRecurs
    <3>6. q \in rs[i]
      BY <2>1, <3>3, <3>4, <3>5
    <3>7. Source(r[i + 1], query.dir) = EndOf(q)
      <4>1. SourceOf(r[i + 1]) = At(r, i)
        BY <3>1
      <4>2. At(r, i) = EndOf(q)
        BY <3>3 DEF At, EndOf, PeerOf
      <4> QED BY <4>1, <4>2 DEF SourceOf
    <3>8. Keeps(r)
      BY <2>3, <3>1, KeepsIs
    <3>9. r[i + 1] \in Admitted /\ (i + 1) - 1 = i
      BY <3>1
    <3>10. r \in Extended(rs[i])
      BY <3>3, <3>6, <3>9 DEF Extended
    <3>11. SubSeq(r, 1, (i + 1) - 1) = q
      BY <3>2, <3>9
    <3>12. Source(r[i + 1], query.dir) = EndOf(SubSeq(r, 1, (i + 1) - 1))
      BY <3>7, <3>11
    <3>13. r \in Longer(rs[i], i + 1)
      BY <3>8, <3>10, <3>12 DEF Longer
    <3> QED BY <1>1, <3>13
  <2> HIDE DEF Good
  <2>4. \A r : r \in rs[i + 1] <=> Good(r, i + 1)
    BY <2>2, <2>3
  <2>5. i + 1 \in Nat
    OBVIOUS
  <2> QED BY <2>4, <2>5
<1>4. 0 .. k \subseteq T
  <2> HIDE DEF T
  <2> QED BY <1>2, <1>3, UpTo
<1> HIDE DEF Good
<1>5. \A i \in 0 .. k : \A r : r \in rs[i] <=> Good(r, i)
  BY <1>4
<1> QED BY <1>5 DEF Good

(* No route is longer than the depth asked, or than there are edges.       *)
LEMMA RouteBound ==
  ASSUME AskedInv, IsDeep
  PROVE  /\ Bound \in Nat
         /\ \A d \in 1 .. Bound : WithinDepth(d)
         /\ \A r : IsWalk(r) /\ NoneRecurs(r) /\ (\A i \in 1 .. Len(r) : WithinDepth(i)) => Len(r) \in 0 .. Bound
<1>1. /\ IsFiniteSet(edges) /\ Admitted \subseteq edges /\ query.depth \in Nat \cup {-1}
      /\ Cardinality(edges) \in Nat
  BY EdgesSeen, FS_CardinalityType
<1>2. CASE query.depth = -1
  <2>1. Bound = Cardinality(edges)
    BY <1>2 DEF Bound, Unbounded
  <2>2. \A d : WithinDepth(d)
    BY <1>2 DEF WithinDepth, Unbounded
  <2>3. ASSUME NEW r, IsWalk(r), NoneRecurs(r) PROVE Len(r) \in 0 .. Bound
    <3>1. r \in Seq(edges) /\ Len(r) \in Nat
      BY <1>1, <2>3 DEF IsWalk
    <3>2. r \in [1 .. Len(r) -> edges]
      BY <3>1
    <3>3. \A i, j \in 1 .. Len(r) : r[i] = r[j] => i = j
      BY <2>3 DEF NoneRecurs
    <3>4. Len(r) <= Cardinality(edges)
      BY <1>1, <3>1, <3>2, <3>3, AtMost
    <3> QED BY <1>1, <2>1, <3>1, <3>4
  <2> QED BY <1>1, <2>1, <2>2, <2>3
<1>3. CASE query.depth \in Nat
  <2>1. Bound = query.depth /\ \A d : WithinDepth(d) <=> d <= query.depth
    BY <1>3 DEF Bound, Unbounded, WithinDepth
  <2>2. ASSUME NEW r, IsWalk(r), \A i \in 1 .. Len(r) : WithinDepth(i) PROVE Len(r) \in 0 .. Bound
    <3>1. Len(r) \in Nat
      BY <2>2 DEF IsWalk
    <3>2. Len(r) = 0 \/ Len(r) \in 1 .. Len(r)
      BY <3>1
    <3> QED BY <1>3, <2>1, <2>2, <3>1, <3>2
  <2> QED BY <1>3, <2>1, <2>2
<1> QED BY <1>1, <1>2, <1>3

LEMMA GoalRoutes ==
  ASSUME AskedInv, IsDeep
  PROVE  \A r : r \in RoutesToGoal <=> IsGoalRoute(r)
<1>1. /\ Bound \in Nat
      /\ \A d \in 1 .. Bound : WithinDepth(d)
      /\ \A r : IsWalk(r) /\ NoneRecurs(r) /\ (\A i \in 1 .. Len(r) : WithinDepth(i)) => Len(r) \in 0 .. Bound
  BY RouteBound
<1>2. PICK rs : /\ AreRoutes(rs, Bound)
                /\ Routes(Admitted, query.from, query.dir, Bound, Keeps) = UNION {rs[i] : i \in 0 .. Bound}
  BY <1>1, RoutesByLength
<1>3. \A i \in 0 .. Bound : \A r : r \in rs[i] <=> IsWalk(r) /\ NoneRecurs(r) /\ Len(r) = i
  BY <1>1, <1>2, RoutesAreWalks
<1>4. \A r : r \in RoutesToGoal <=>
        /\ \E i \in 0 .. Bound : r \in rs[i]
        /\ r # <<>> /\ PeerOf(r[Len(r)]) = Goal
        /\ query.op = "trails" => StopsAtGoal(r)
  BY <1>2 DEF RoutesToGoal
<1>5. ASSUME NEW r, r \in RoutesToGoal PROVE IsGoalRoute(r)
  <2>1. PICK i \in 0 .. Bound : r \in rs[i]
    BY <1>4, <1>5
  <2>2. IsWalk(r) /\ NoneRecurs(r) /\ Len(r) = i
    BY <1>3, <2>1
  <2>3. r # <<>> /\ PeerOf(r[Len(r)]) = Goal
    BY <1>4, <1>5
  <2>4. r \in Seq(Admitted) /\ Len(r) > 0
    BY <2>2, <2>3 DEF IsWalk
  <2>5. \A j \in 1 .. Len(r) : WithinDepth(j)
    BY <1>1, <2>2
  <2>6. StopsAtGoal(r)
    <3>1. CASE query.op = "trails"
      BY <1>4, <1>5, <3>1
    <3>2. CASE query.op = "paths"
      <4>1. \A j \in 1 .. Len(r) : Mark(r[j]) = PeerOf(r[j])
        BY <3>2 DEF Mark
      <4>2. \A j \in 1 .. Len(r) - 1 : j \in 1 .. Len(r) /\ Len(r) \in 1 .. Len(r) /\ j # Len(r)
        BY <2>4
      <4>3. ASSUME NEW j \in 1 .. Len(r) - 1, PeerOf(r[j]) = Goal PROVE FALSE
        BY <2>2, <2>3, <4>1, <4>2, <4>3 DEF NoneRecurs
      <4> QED BY <4>3 DEF StopsAtGoal
    <3> QED BY <3>1, <3>2 DEF IsDeep, DfsOps
  <2> QED BY <2>2, <2>3, <2>4, <2>5, <2>6 DEF IsGoalRoute, IsRoute
<1>6. ASSUME NEW r, IsGoalRoute(r) PROVE r \in RoutesToGoal
  <2>1. /\ IsWalk(r) /\ NoneRecurs(r) /\ \A i \in 1 .. Len(r) : WithinDepth(i)
        /\ StopsAtGoal(r) /\ Len(r) > 0 /\ PeerOf(r[Len(r)]) = Goal
    BY <1>6 DEF IsGoalRoute, IsRoute
  <2>2. Len(r) \in 0 .. Bound
    BY <1>1, <2>1
  <2>3. r \in rs[Len(r)]
    BY <1>3, <2>1, <2>2
  <2>4. r # <<>>
    BY <2>1
  <2> QED BY <1>4, <2>1, <2>2, <2>3, <2>4
<1> QED BY <1>5, <1>6

-------------------------------------------------------------------------------
LEMMA RouteOfIs ==
  ASSUME NEW t, IsTrodden(t)
  PROVE  /\ RouteOf(t) \in Seq(Admitted) /\ Len(RouteOf(t)) = Len(t) - 1 /\ Len(t) \in Nat
         /\ \A i \in 1 .. Len(t) - 1 : RouteOf(t)[i] = t[i + 1].via /\ t[i + 1].via \in Admitted
         /\ \A i \in 1 .. Len(t) : t[i].node = At(RouteOf(t), i - 1)
<1>1. t \in Seq(Entry) /\ Len(t) > 0 /\ Len(t) \in Nat /\ t[1].node = query.from
  BY DEF IsTrodden
<1>2. PICK r : r = RouteOf(t)
  OBVIOUS
<1>3. r = [i \in 1 .. Len(t) - 1 |-> t[i + 1].via]
  BY <1>2 DEF RouteOf
<1>4. \A i \in 1 .. Len(t) - 1 :
        i + 1 \in 2 .. Len(t) /\ t[i + 1].via \in Admitted /\ t[i + 1].node = PeerOf(t[i + 1].via)
  BY <1>1 DEF IsTrodden
<1>5. r \in Seq(Admitted) /\ Len(r) = Len(t) - 1
  BY <1>1, <1>3, <1>4
<1>6. ASSUME NEW i \in 1 .. Len(t) PROVE t[i].node = At(r, i - 1)
  <2>1. CASE i = 1
    BY <1>1, <2>1 DEF At
  <2>2. CASE i # 1
    <3>1. i - 1 \in 1 .. Len(t) - 1 /\ (i - 1) + 1 = i /\ i - 1 # 0
      BY <2>2, <1>1
    <3>2. t[(i - 1) + 1].node = PeerOf(t[(i - 1) + 1].via)
      BY <1>4, <3>1
    <3>3. r[i - 1] = t[(i - 1) + 1].via
      BY <1>3, <3>1
    <3> QED BY <3>1, <3>2, <3>3 DEF At
  <2> QED BY <2>1, <2>2
<1> QED BY <1>1, <1>2, <1>3, <1>4, <1>5, <1>6

LEMMA DeepSame ==
  ASSUME UNCHANGED asked
  PROVE  /\ IsDeep' = IsDeep /\ Entry' = Entry
         /\ \A e : Mark(e)' = Mark(e)
         /\ \A r : IsRoute(r)' = IsRoute(r) /\ IsGoalRoute(r)' = IsGoalRoute(r)
         /\ \A t : IsTrodden(t)' = IsTrodden(t)
         /\ \A t, m : IsMarked(t, m)' = IsMarked(t, m)
         /\ \A t, td, i : IsTodo(t, td, i)' = IsTodo(t, td, i)
<1>1. /\ query' = query /\ Admitted' = Admitted /\ Goal' = Goal
      /\ \A e : PeerOf(e)' = PeerOf(e) /\ SourceOf(e)' = SourceOf(e)
      /\ \A d : WithinDepth(d)' = WithinDepth(d)
  BY AskedSame
<1>2. IsDeep' = IsDeep /\ Entry' = Entry
  BY <1>1 DEF IsDeep, Entry
<1>3. \A e : Mark(e)' = Mark(e)
  BY <1>1 DEF Mark
<1>4. \A r, i : At(r, i)' = At(r, i)
  BY <1>1 DEF At
<1>5. \A r : IsWalk(r)' = IsWalk(r)
  BY <1>1, <1>4 DEF IsWalk
<1>6. \A r : NoneRecurs(r)' = NoneRecurs(r)
  BY <1>1, <1>3 DEF NoneRecurs
<1>7. \A r : StopsAtGoal(r)' = StopsAtGoal(r)
  BY <1>1 DEF StopsAtGoal
<1>8. \A r : IsRoute(r)' = IsRoute(r)
  BY <1>1, <1>5, <1>6, <1>7 DEF IsRoute
<1>9. \A r : IsGoalRoute(r)' = IsGoalRoute(r)
  BY <1>1, <1>8 DEF IsGoalRoute
<1>10. \A t : IsTrodden(t)' = IsTrodden(t)
  BY <1>1, <1>2 DEF IsTrodden
<1>11. \A t, m : IsMarked(t, m)' = IsMarked(t, m)
  BY <1>1, <1>3 DEF IsMarked
<1>12. \A t, td, i : IsTodo(t, td, i)' = IsTodo(t, td, i)
  BY <1>1 DEF IsTodo
<1> QED BY <1>2, <1>3, <1>8, <1>9, <1>10, <1>11, <1>12

LEMMA DfsInit == WalkInit => AskedInv /\ DfsInv
<1> SUFFICES ASSUME WalkInit PROVE AskedInv /\ DfsInv
  OBVIOUS
<1>1. AskedInv
  BY DEF WalkInit, AskedInv
<1>2. ASSUME IsDeep PROVE pc = "enter" /\ TrailInv /\ TodoInv /\ PathsInv /\ SoFarInv
  <2>1. /\ pc = "enter" /\ todo = <<>> /\ paths = <<>>
        /\ trail = <<[node |-> query.from, via |-> NoEdge, exc |-> FALSE]>>
        /\ marked = IF query.op = "paths" THEN {query.from} ELSE {}
    BY <1>2 DEF WalkInit, IsDeep, DfsOps
  <2>2. query.from \in Nodes /\ query.cap \in Nat \ {0}
    BY <1>1, <1>2, QueryAssumption DEF AskedInv, QueryAssumption, IsDeep
  <2>3. trail \in Seq(Entry) /\ Len(trail) = 1 /\ trail[1].node = query.from /\ trail[1].exc = FALSE
    BY <2>1, <2>2 DEF Entry
  <2>4. IsTrodden(trail)
    BY <2>3 DEF IsTrodden
  <2>5. RouteOf(trail) \in Seq(Admitted) /\ Len(RouteOf(trail)) = 0
    BY <2>3, <2>4, RouteOfIs
  <2>6. IsRoute(RouteOf(trail))
    BY <2>5 DEF IsRoute, IsWalk, NoneRecurs, StopsAtGoal
  <2>7. \A m : m \in marked <=> IsMarked(trail, m)
    BY <2>1, <2>3 DEF IsMarked
  <2>8. TodoInv
    BY <2>1, <2>3 DEF TodoInv
  <2>9. PathsInv
    BY <2>1 DEF PathsInv
  <2>10. ASSUME NEW r, IsGoalRoute(r) PROVE IsAhead(pc, trail, todo, r)
    <3>1. Len(r) \in Nat
      BY <2>10 DEF IsGoalRoute, IsRoute, IsWalk
    <3> QED BY <2>1, <2>3, <3>1 DEF IsAhead, GoesAs
  <2>11. SoFarInv
    <3>1. \A r : ~ IsListed(paths, r)
      BY <2>1 DEF IsListed
    <3>2. Len(paths) < query.cap
      BY <2>1, <2>2
    <3> QED BY <2>1, <2>10, <3>1, <3>2 DEF SoFarInv
  <2> QED BY <2>1, <2>4, <2>6, <2>7, <2>8, <2>9, <2>11 DEF TrailInv
<1> QED BY <1>1, <1>2 DEF DfsInv

-------------------------------------------------------------------------------
(* Every edge taken: back a step, and nothing is found, or given up.       *)
LEMMA DfsRetreat ==
  ASSUME AskedInv, IsDeep, DfsInv, Retreat
  PROVE  DfsInv'
<1>1. /\ UNCHANGED asked /\ paths' = paths /\ truncation' = truncation
      /\ pc = "take" /\ todo[Len(todo)] = <<>>
  BY DEF Retreat
<1>2. /\ IsDeep' = IsDeep /\ query' = query /\ Admitted' = Admitted /\ Entry' = Entry
      /\ \A e : Mark(e)' = Mark(e)
      /\ \A r : IsRoute(r)' = IsRoute(r) /\ IsGoalRoute(r)' = IsGoalRoute(r)
      /\ \A t : IsTrodden(t)' = IsTrodden(t)
      /\ \A t, m : IsMarked(t, m)' = IsMarked(t, m)
      /\ \A t, td, i : IsTodo(t, td, i)' = IsTodo(t, td, i)
  BY <1>1, DeepSame, AskedSame
<1>3. TrailInv /\ TodoInv /\ PathsInv /\ SoFarInv
  BY DEF DfsInv
<1>4. PathsInv'
  <2>1. \A p \in 1 .. Len(paths) : IsTrodden(paths[p])' /\ IsGoalRoute(RouteOf(paths[p]))'
    BY <1>1, <1>2, <1>3 DEF PathsInv
  <2> QED BY <1>1, <1>2, <1>3, <2>1 DEF PathsInv
<1>5. PICK n \in Nat : n = Len(trail) /\ Len(todo) = n /\ n > 0
  <2>1. Len(trail) \in Nat /\ Len(trail) > 0
    BY <1>3 DEF TrailInv, IsTrodden
  <2>2. Len(todo) = Len(trail)
    BY <1>1, <1>3 DEF TodoInv
  <2> QED BY <2>1, <2>2
<1>6. \A r : ~ IsAwaited(trail, todo, n, r)
  BY <1>1, <1>5 DEF IsAwaited, Awaits
<1>7. CASE n = 1
  <2>1. pc' = "done" /\ trail' = trail /\ todo' = todo /\ marked' = marked
    BY <1>5, <1>7 DEF Retreat
  <2>2. \A r : ~ IsAhead(pc, trail, todo, r)
    BY <1>1, <1>5, <1>6, <1>7 DEF IsAhead
  <2>3. SoFarInv'
    BY <1>1, <1>2, <1>3, <2>1, <2>2 DEF SoFarInv, IsListed, RouteOf
  <2>4. TrailInv'
    BY <1>2, <1>3, <2>1 DEF TrailInv, RouteOf
  <2>5. TodoInv'
    BY <1>2, <1>3, <2>1 DEF TodoInv
  <2> QED BY <1>4, <2>1, <2>3, <2>4, <2>5 DEF DfsInv
<1>8. CASE n # 1
  <2>1. PICK t : t = SubSeq(trail, 1, n - 1)
    OBVIOUS
  <2>2. PICK td : td = SubSeq(todo, 1, n - 1)
    OBVIOUS
  <2>3. trail' = t /\ todo' = td /\ marked' = marked \ {Mark(trail[n].via)} /\ pc' = "take"
    BY <1>1, <1>5, <1>8, <2>1, <2>2 DEF Retreat, Unmark, here
  <2>4. trail \in Seq(Entry) /\ todo \in Seq(Seq(Admitted))
    BY <1>3 DEF TrailInv, TodoInv, IsTrodden
  <2>5. /\ t \in Seq(Entry) /\ Len(t) = n - 1 /\ \A i \in 1 .. n - 1 : t[i] = trail[i]
        /\ td \in Seq(Seq(Admitted)) /\ Len(td) = n - 1 /\ \A i \in 1 .. n - 1 : td[i] = todo[i]
        /\ n - 1 \in Nat /\ n - 1 > 0 /\ n \in 1 .. n
    BY <1>5, <1>8, <2>1, <2>2, <2>4
  <2>6. IsTrodden(t)
    <3>1. \A i \in 2 .. n - 1 : i \in 2 .. n /\ i \in 1 .. n - 1 /\ i - 1 \in 1 .. n - 1 /\ 1 \in 1 .. n - 1
      OBVIOUS
    <3>2. 1 \in 1 .. n - 1
      BY <2>5
    <3> QED BY <1>3, <1>5, <2>5, <3>1, <3>2 DEF TrailInv, IsTrodden
  <2>7. /\ RouteOf(t) \in Seq(Admitted) /\ Len(RouteOf(t)) = n - 2
        /\ RouteOf(trail) \in Seq(Admitted) /\ Len(RouteOf(trail)) = n - 1
        /\ \A i \in 1 .. n - 2 : RouteOf(t)[i] = RouteOf(trail)[i]
        /\ \A i \in 1 .. n - 1 : RouteOf(trail)[i] = trail[i + 1].via
    <3>1. /\ RouteOf(t) \in Seq(Admitted) /\ Len(RouteOf(t)) = Len(t) - 1
          /\ \A i \in 1 .. Len(t) - 1 : RouteOf(t)[i] = t[i + 1].via
      BY <2>6, RouteOfIs
    <3>2. /\ RouteOf(trail) \in Seq(Admitted) /\ Len(RouteOf(trail)) = n - 1
          /\ \A i \in 1 .. n - 1 : RouteOf(trail)[i] = trail[i + 1].via
      BY <1>3, <1>5, RouteOfIs DEF TrailInv
    <3>3. Len(t) - 1 = n - 2
      BY <2>5
    <3>4. \A i \in 1 .. n - 2 : i + 1 \in 1 .. n - 1 /\ i \in 1 .. n - 1
      OBVIOUS
    <3>5. \A i \in 1 .. n - 2 : RouteOf(t)[i] = trail[i + 1].via
      BY <2>5, <3>1, <3>3, <3>4
    <3> QED BY <3>1, <3>2, <3>3, <3>4, <3>5
  <2>8. IsRoute(RouteOf(t))
    <3>1. PICK r : r = RouteOf(trail)
      OBVIOUS
    <3>2. PICK s : s = RouteOf(t)
      OBVIOUS
    <3>3. IsRoute(r)
      BY <1>3, <3>1 DEF TrailInv
    <3>4. /\ s \in Seq(Admitted) /\ Len(s) = n - 2 /\ Len(r) = n - 1
          /\ \A i \in 1 .. n - 2 : s[i] = r[i] /\ i \in 1 .. n - 1
      BY <2>7, <3>1, <3>2
    <3>5. ASSUME NEW i \in 1 .. n - 2 PROVE SourceOf(s[i]) = At(s, i - 1)
      <4>1. SourceOf(r[i]) = At(r, i - 1)
        BY <3>3, <3>4 DEF IsRoute, IsWalk
      <4>2. At(r, i - 1) = At(s, i - 1)
        BY <3>4 DEF At
      <4> QED BY <3>4, <4>1, <4>2
    <3>6. \A i \in 1 .. n - 2 : WithinDepth(i)
      BY <3>3, <3>4 DEF IsRoute
    <3>7. NoneRecurs(s)
      BY <3>3, <3>4 DEF IsRoute, NoneRecurs
    <3>8. StopsAtGoal(s)
      BY <3>3, <3>4 DEF IsRoute, StopsAtGoal
    <3> QED BY <3>2, <3>4, <3>5, <3>6, <3>7, <3>8 DEF IsRoute, IsWalk
  <2>9. \A m : m \in marked' <=> IsMarked(t, m)
    <3>1. \A m : m \in marked <=> IsMarked(trail, m)
      BY <1>3 DEF TrailInv
    <3>2. PICK r : r = RouteOf(trail)
      OBVIOUS
    <3>3. NoneRecurs(r) /\ Len(r) = n - 1 /\ \A i \in 1 .. n - 1 : r[i] = trail[i + 1].via
      BY <1>3, <2>7, <3>2 DEF TrailInv, IsRoute
    <3>4. PICK x : x = Mark(trail[n].via)
      OBVIOUS
    <3>5. n - 1 \in 1 .. n - 1 /\ (n - 1) + 1 = n
      BY <2>5
    <3>6. x = Mark(r[n - 1])
      BY <3>3, <3>4, <3>5
    <3>7. ~ (query.op = "paths" /\ x = query.from)
      <4>1. CASE query.op = "paths"
        <5>1. x = PeerOf(r[n - 1])
          BY <3>6, <4>1 DEF Mark
        <5> QED BY <3>3, <3>5, <4>1, <5>1 DEF NoneRecurs
      <4> QED BY <4>1
    <3>8. \A i \in 1 .. n - 1 : Mark(r[i]) = x <=> i = n - 1
      BY <3>3, <3>5, <3>6 DEF NoneRecurs
    <3>9. \A i \in 1 .. n - 2 : t[i + 1].via = r[i] /\ i \in 1 .. n - 1 /\ i # n - 1
      <4>1. \A i \in 1 .. n - 2 : i + 1 \in 1 .. n - 1 /\ i \in 1 .. n - 1 /\ i # n - 1
        OBVIOUS
      <4> QED BY <2>5, <3>3, <4>1
    <3>10. \A i \in 1 .. n - 1 : i # n - 1 => i \in 1 .. n - 2
      OBVIOUS
    <3>11. \A m : IsMarked(t, m) <=>
             (query.op = "paths" /\ m = query.from) \/ \E i \in 1 .. n - 2 : m = Mark(r[i])
      <4>1. Len(t) - 1 = n - 2
        BY <2>5
      <4> QED BY <3>9, <4>1 DEF IsMarked
    <3>12. \A m : IsMarked(trail, m) <=>
             (query.op = "paths" /\ m = query.from) \/ \E i \in 1 .. n - 1 : m = Mark(r[i])
      BY <1>5, <3>3 DEF IsMarked
    <3>13. \A m : IsMarked(t, m) <=> IsMarked(trail, m) /\ m # x
      BY <3>7, <3>8, <3>9, <3>10, <3>11, <3>12
    <3> QED BY <2>3, <3>1, <3>4, <3>13
  <2>10. TrailInv'
    <3>1. IsTrodden(trail)' /\ IsRoute(RouteOf(trail))'
      BY <1>2, <2>3, <2>6, <2>8 DEF RouteOf
    <3>2. \A m : m \in marked' <=> IsMarked(trail, m)'
      BY <1>2, <2>3, <2>9
    <3> QED BY <3>1, <3>2 DEF TrailInv
  <2>11. TodoInv'
    <3>1. ASSUME NEW i \in 1 .. n - 1 PROVE IsTodo(t, td, i)
      <4>1. IsTodo(trail, todo, i) /\ t[i] = trail[i] /\ td[i] = todo[i]
        <5>1. i \in 1 .. Len(todo)
          BY <1>5
        <5> QED BY <1>1, <1>3, <2>5, <5>1 DEF TodoInv
      <4>2. i < n - 1 => t[i + 1] = trail[i + 1] /\ i < n
        BY <2>5
      <4> QED BY <1>5, <2>5, <4>1, <4>2 DEF IsTodo, Awaits
    <3> QED BY <1>2, <2>3, <2>5, <3>1 DEF TodoInv
  <2>12. \A r : IsAhead("take", t, td, r) <=> IsAhead("take", trail, todo, r)
    <3>1. ASSUME NEW r, NEW i \in 1 .. n - 1
          PROVE  IsAwaited(t, td, i, r) <=> IsAwaited(trail, todo, i, r)
      <4>1. \A k \in 1 .. i - 1 : t[k + 1] = trail[k + 1]
        BY <2>5
      <4> QED BY <2>5, <4>1 DEF IsAwaited, GoesAs, Awaits
    <3>2. \A i \in 1 .. n : i = n \/ i \in 1 .. n - 1
      OBVIOUS
    <3>3. \A i \in 1 .. n - 1 : i \in 1 .. n
      OBVIOUS
    <3> QED BY <1>5, <1>6, <2>5, <3>1, <3>2, <3>3 DEF IsAhead
  <2>13. SoFarInv'
    BY <1>1, <1>2, <1>3, <2>3, <2>12, SMTT(30) DEF SoFarInv, IsListed, RouteOf
  <2> QED BY <1>4, <2>3, <2>10, <2>11, <2>13 DEF DfsInv
<1> QED BY <1>7, <1>8

(* An edge taken: passed over, with every route by it, since it would      *)
(* recur; or gone along, the routes by it being those of the longer trail. *)
LEMMA DfsTake ==
  ASSUME AskedInv, IsDeep, DfsInv, Take
  PROVE  DfsInv'
<1>1. /\ UNCHANGED asked /\ paths' = paths /\ truncation' = truncation
      /\ pc = "take" /\ todo[Len(todo)] # <<>>
  BY DEF Take
<1>2. /\ IsDeep' = IsDeep /\ query' = query /\ Admitted' = Admitted /\ Entry' = Entry
      /\ \A e : Mark(e)' = Mark(e)
      /\ \A r : IsRoute(r)' = IsRoute(r) /\ IsGoalRoute(r)' = IsGoalRoute(r)
      /\ \A t : IsTrodden(t)' = IsTrodden(t)
      /\ \A t, m : IsMarked(t, m)' = IsMarked(t, m)
      /\ \A t, td, i : IsTodo(t, td, i)' = IsTodo(t, td, i)
  BY <1>1, DeepSame, AskedSame
<1>3. TrailInv /\ TodoInv /\ PathsInv /\ SoFarInv
  BY DEF DfsInv
<1>4. PathsInv'
  <2>1. \A p \in 1 .. Len(paths) : IsTrodden(paths[p])' /\ IsGoalRoute(RouteOf(paths[p]))'
    BY <1>1, <1>2, <1>3 DEF PathsInv
  <2> QED BY <1>1, <1>2, <1>3, <2>1 DEF PathsInv
<1>5. PICK n \in Nat : n = Len(trail) /\ Len(todo) = n /\ n > 0
  <2>1. Len(trail) \in Nat /\ Len(trail) > 0
    BY <1>3 DEF TrailInv, IsTrodden
  <2>2. Len(todo) = Len(trail)
    BY <1>1, <1>3 DEF TodoInv
  <2> QED BY <2>1, <2>2
<1>6. PICK ls : ls = todo[n]
  OBVIOUS
<1>7. PICK e : e = Head(ls)
  OBVIOUS
<1>8. PICK td : td = [todo EXCEPT ![n] = Tail(ls)]
  OBVIOUS
<1>9. /\ todo' = td
      /\ Mark(e) \in marked => trail' = trail /\ marked' = marked /\ pc' = "take"
      /\ Mark(e) \notin marked =>
           /\ marked' = marked \cup {Mark(e)} /\ pc' = "enter"
           /\ trail' = Append(trail, [node |-> PeerOf(e), via |-> e, exc |-> Advance(trail[n].exc, e)])
  BY <1>1, <1>5, <1>6, <1>7, <1>8 DEF Take, here
<1>10. trail \in Seq(Entry) /\ todo \in Seq(Seq(Admitted)) /\ n \in 1 .. n /\ n \in 1 .. Len(todo)
  BY <1>3, <1>5 DEF TrailInv, TodoInv, IsTrodden
<1>11. /\ ls \in Seq(Admitted) /\ ls # <<>> /\ Len(ls) \in Nat /\ Len(ls) > 0
       /\ e \in Admitted /\ e = ls[1] /\ 1 \in 1 .. Len(ls)
       /\ Tail(ls) \in Seq(Admitted) /\ Len(Tail(ls)) = Len(ls) - 1
       /\ \A k \in 1 .. Len(ls) - 1 : Tail(ls)[k] = ls[k + 1]
  <2>1. ls \in Seq(Admitted) /\ ls # <<>>
    BY <1>1, <1>5, <1>6, <1>10
  <2> QED BY <1>7, <2>1
<1>12. /\ td \in Seq(Seq(Admitted)) /\ Len(td) = n /\ td[n] = Tail(ls)
       /\ \A i \in 1 .. n - 1 : td[i] = todo[i]
  BY <1>5, <1>8, <1>10, <1>11
<1>13. \A i \in 1 .. n : IsTodo(trail, todo, i)
  BY <1>1, <1>3, <1>5 DEF TodoInv
<1>14. /\ \A k, l \in 1 .. Len(ls) : ls[k] = ls[l] => k = l
       /\ \A k \in 1 .. Len(ls) : /\ SourceOf(ls[k]) = trail[n].node
                                  /\ WithinDepth(n)
                                  /\ n = 1 \/ trail[n].node # Goal
  BY <1>6, <1>10, <1>13 DEF IsTodo
<1>15. /\ \A k, l \in 1 .. Len(ls) - 1 : Tail(ls)[k] = Tail(ls)[l] => k = l
       /\ \A k \in 1 .. Len(ls) - 1 : Tail(ls)[k] # e
  <2>1. \A k \in 1 .. Len(ls) - 1 : k + 1 \in 1 .. Len(ls) /\ k + 1 # 1
    BY <1>11
  <2>2. ASSUME NEW k \in 1 .. Len(ls) - 1, NEW l \in 1 .. Len(ls) - 1, Tail(ls)[k] = Tail(ls)[l]
        PROVE  k = l
    <3>1. k + 1 = l + 1
      BY <1>11, <1>14, <2>1, <2>2
    <3> QED BY <3>1
  <2>3. \A k \in 1 .. Len(ls) - 1 : Tail(ls)[k] # e
    BY <1>11, <1>14, <2>1
  <2> QED BY <2>2, <2>3
(* The routes by e apart, what is ahead stays ahead. *)
<1> DEFINE ByE(r) == GoesAs(trail, r, n - 1) /\ Len(r) >= n /\ r[n] = e
<1>16. \A r : IsAwaited(trail, todo, n, r) <=> ByE(r) \/ IsAwaited(trail, td, n, r)
  <2>1. ASSUME NEW x PROVE Awaits(todo, n, x) <=> x = e \/ Awaits(td, n, x)
    <3>1. \A k \in 1 .. Len(ls) : k = 1 \/ (k - 1 \in 1 .. Len(ls) - 1 /\ (k - 1) + 1 = k)
      BY <1>11
    <3>2. \A k \in 1 .. Len(ls) - 1 : k + 1 \in 1 .. Len(ls)
      BY <1>11
    <3>3. Awaits(todo, n, x) <=> \E k \in 1 .. Len(ls) : ls[k] = x
      BY <1>6 DEF Awaits
    <3>4. Awaits(td, n, x) <=> \E k \in 1 .. Len(ls) - 1 : ls[k + 1] = x
      BY <1>11, <1>12 DEF Awaits
    <3>5. ASSUME Awaits(todo, n, x), x # e PROVE Awaits(td, n, x)
      <4>1. PICK k \in 1 .. Len(ls) : ls[k] = x
        BY <3>3, <3>5
      <4>2. k - 1 \in 1 .. Len(ls) - 1 /\ (k - 1) + 1 = k
        BY <1>11, <3>1, <3>5, <4>1
      <4> QED BY <3>4, <4>1, <4>2
    <3>6. Awaits(td, n, x) \/ x = e => Awaits(todo, n, x)
      BY <1>11, <3>2, <3>3, <3>4
    <3> QED BY <3>5, <3>6
  <2> QED BY <2>1 DEF IsAwaited
<1>17. \A r : \A i \in 1 .. n - 1 : IsAwaited(trail, todo, i, r) <=> IsAwaited(trail, td, i, r)
  BY <1>12 DEF IsAwaited, Awaits
<1>18. \A r : IsAhead("take", trail, todo, r) <=> ByE(r) \/ IsAhead("take", trail, td, r)
  <2>1. \A i \in 1 .. n : i = n \/ i \in 1 .. n - 1
    OBVIOUS
  <2>2. \A i \in 1 .. n - 1 : i \in 1 .. n
    OBVIOUS
  <2> HIDE DEF ByE
  <2> QED BY <1>5, <1>10, <1>12, <1>16, <1>17, <2>1, <2>2 DEF IsAhead
<1>19. PICK w : w = RouteOf(trail)
  OBVIOUS
<1>20. /\ w \in Seq(Admitted) /\ Len(w) = n - 1 /\ IsRoute(w)
       /\ \A i \in 1 .. n - 1 : w[i] = trail[i + 1].via
       /\ \A i \in 1 .. n : trail[i].node = At(w, i - 1)
  BY <1>3, <1>5, <1>19, RouteOfIs DEF TrailInv
<1>21. \A m : m \in marked <=>
         (query.op = "paths" /\ m = query.from) \/ \E i \in 1 .. n - 1 : m = Mark(w[i])
  <2>1. \A m : IsMarked(trail, m) <=>
          (query.op = "paths" /\ m = query.from) \/ \E i \in 1 .. n - 1 : m = Mark(w[i])
    BY <1>5, <1>20 DEF IsMarked
  <2> QED BY <1>3, <2>1 DEF TrailInv
<1>22. \A i \in 1 .. n - 1 : IsTodo(trail, td, i)
  <2>1. ASSUME NEW i \in 1 .. n - 1 PROVE IsTodo(trail, td, i)
    <3>1. IsTodo(trail, todo, i) /\ td[i] = todo[i]
      BY <1>12, <1>13
    <3> QED BY <3>1 DEF IsTodo, Awaits
  <2> QED BY <2>1
<1>23. CASE Mark(e) \in marked
  <2>1. /\ trail' = trail /\ marked' = marked /\ pc' = "take" /\ todo' = td
    BY <1>9, <1>23
  <2>2. TrailInv'
    BY <1>2, <1>3, <2>1 DEF TrailInv
  <2>3. IsTodo(trail, td, n)
    <3>1. td[n] = Tail(ls) /\ Len(td[n]) = Len(ls) - 1
      BY <1>11, <1>12
    <3>2. \A k, l \in 1 .. Len(td[n]) : td[n][k] = td[n][l] => k = l
      BY <1>15, <3>1
    <3>3. \A k \in 1 .. Len(ls) - 1 : k + 1 \in 1 .. Len(ls) /\ Tail(ls)[k] = ls[k + 1]
      BY <1>11
    <3>4. \A k \in 1 .. Len(td[n]) : /\ SourceOf(td[n][k]) = trail[n].node
                                     /\ WithinDepth(n)
                                     /\ n = 1 \/ trail[n].node # Goal
      BY <1>14, <3>1, <3>3
    <3>5. ~(n < Len(trail))
      BY <1>5
    <3> QED BY <3>2, <3>4, <3>5 DEF IsTodo
  <2>4. TodoInv'
    <3>1. \A i \in 1 .. n : i = n \/ i \in 1 .. n - 1
      OBVIOUS
    <3> QED BY <1>2, <1>5, <1>12, <1>22, <2>1, <2>3, <3>1 DEF TodoInv
  <2>5. ASSUME NEW r, IsGoalRoute(r), ByE(r) PROVE FALSE
    <3>1. NoneRecurs(r) /\ Len(r) \in Nat
      BY <2>5 DEF IsGoalRoute, IsRoute, IsWalk
    <3>2. /\ n \in 1 .. Len(r) /\ r[n] = e
          /\ \A i \in 1 .. n - 1 : i \in 1 .. Len(r) /\ r[i] = w[i] /\ i # n
      <4>1. Len(r) >= n /\ r[n] = e /\ \A k \in 1 .. n - 1 : r[k] = trail[k + 1].via
        BY <2>5 DEF GoesAs
      <4>2. n \in 1 .. Len(r) /\ \A i \in 1 .. n - 1 : i \in 1 .. Len(r) /\ i # n
        BY <1>5, <3>1, <4>1
      <4>3. \A i \in 1 .. n - 1 : r[i] = w[i]
        BY <1>20, <4>1
      <4> QED BY <4>1, <4>2, <4>3
    <3>3. CASE query.op = "paths" /\ Mark(e) = query.from
      BY <3>1, <3>2, <3>3 DEF NoneRecurs, Mark
    <3>4. CASE \E i \in 1 .. n - 1 : Mark(e) = Mark(w[i])
      BY <3>1, <3>2, <3>4 DEF NoneRecurs
    <3> QED BY <1>21, <1>23, <3>3, <3>4
  <2> HIDE DEF ByE
  <2>6. SoFarInv'
    <3>1. \A r : IsListed(paths, r) => ~ IsAhead("take", trail, td, r)
      BY <1>1, <1>3, <1>18 DEF SoFarInv
    <3>2. truncation = "none" =>
            \A r : IsGoalRoute(r) => IsListed(paths, r) \/ IsAhead("take", trail, td, r)
      BY <1>1, <1>3, <1>18, <2>5 DEF SoFarInv
    <3> QED BY <1>1, <1>2, <1>3, <2>1, <3>1, <3>2 DEF SoFarInv
  <2> QED BY <1>4, <2>1, <2>2, <2>4, <2>6 DEF DfsInv
<1>24. CASE Mark(e) \notin marked
  <2>1. PICK x : x = [node |-> PeerOf(e), via |-> e, exc |-> Advance(trail[n].exc, e)]
    OBVIOUS
  <2>2. x \in Entry /\ x.node = PeerOf(e) /\ x.via = e /\ x.exc = Advance(trail[n].exc, e)
    <3>1. PeerOf(e) \in Nodes
      BY <1>11, EdgesSeen
    <3>2. Advance(trail[n].exc, e) \in BOOLEAN
      BY DEF Advance
    <3> QED BY <1>11, <2>1, <3>1, <3>2 DEF Entry
  <2>3. PICK t : t = Append(trail, x)
    OBVIOUS
  <2>4. trail' = t /\ marked' = marked \cup {Mark(e)} /\ pc' = "enter" /\ todo' = td
    BY <1>9, <1>24, <2>1, <2>3
  <2>5. /\ t \in Seq(Entry) /\ Len(t) = n + 1 /\ t[n + 1] = x
        /\ \A i \in 1 .. n : t[i] = trail[i]
    BY <1>5, <1>10, <2>2, <2>3
  <2>6. IsTrodden(t)
    <3>1. \A i \in 2 .. n : i \in 1 .. n /\ i - 1 \in 1 .. n
      OBVIOUS
    <3>2. trail[1].node = query.from /\ trail[1].exc = FALSE /\ 1 \in 1 .. n
      BY <1>3, <1>5 DEF TrailInv, IsTrodden
    <3>3. ASSUME NEW i \in 2 .. n + 1
          PROVE  /\ t[i].via \in Admitted /\ t[i].node = PeerOf(t[i].via)
                 /\ t[i].exc = Advance(t[i - 1].exc, t[i].via)
      <4>1. CASE i = n + 1
        <5>1. i - 1 = n
          BY <4>1
        <5> QED BY <1>10, <1>11, <2>2, <2>5, <4>1, <5>1
      <4>2. CASE i \in 2 .. n
        BY <1>3, <1>5, <2>5, <3>1, <4>2 DEF TrailInv, IsTrodden
      <4> QED BY <4>1, <4>2
    <3> QED BY <1>5, <2>5, <3>2, <3>3 DEF IsTrodden
  <2>7. PICK v : v = RouteOf(t)
    OBVIOUS
  <2>8. /\ v \in Seq(Admitted) /\ Len(v) = n
        /\ v[n] = e
        /\ \A i \in 1 .. n - 1 : v[i] = w[i]
        /\ \A i \in 1 .. n : v[i] = t[i + 1].via
    <3>1. v \in Seq(Admitted) /\ Len(v) = n /\ \A i \in 1 .. n : v[i] = t[i + 1].via
      <4>1. Len(t) - 1 = n
        BY <2>5
      <4> QED BY <2>6, <2>7, <4>1, RouteOfIs
    <3>2. \A i \in 1 .. n - 1 : i + 1 \in 1 .. n /\ i \in 1 .. n
      OBVIOUS
    <3> QED BY <1>10, <1>20, <2>2, <2>5, <3>1, <3>2, ZenonT(60)
  <2>9. \A i \in 1 .. n : i = n \/ i \in 1 .. n - 1
    OBVIOUS
  <2>10. IsRoute(v)
    <3>1. IsWalk(w) /\ NoneRecurs(w) /\ (\A i \in 1 .. n - 1 : WithinDepth(i)) /\ StopsAtGoal(w)
      BY <1>20 DEF IsRoute
    <3>2. ASSUME NEW i \in 1 .. n PROVE SourceOf(v[i]) = At(v, i - 1)
      <4>1. CASE i = n
        <5>1. SourceOf(e) = At(w, n - 1)
          BY <1>10, <1>11, <1>14, <1>20
        <5>2. n - 1 = 0 \/ n - 1 \in 1 .. n - 1
          BY <1>5
        <5>3. At(w, n - 1) = At(v, n - 1)
          BY <2>8, <5>2 DEF At
        <5> QED BY <2>8, <4>1, <5>1, <5>3
      <4>2. CASE i \in 1 .. n - 1
        <5>1. SourceOf(w[i]) = At(w, i - 1)
          BY <1>20, <3>1, <4>2 DEF IsWalk
        <5>2. At(w, i - 1) = At(v, i - 1)
          BY <2>8, <4>2 DEF At
        <5> QED BY <2>8, <4>2, <5>1, <5>2
      <4> QED BY <2>9, <4>1, <4>2
    <3>3. \A i \in 1 .. n : WithinDepth(i)
      BY <1>11, <1>14, <2>9, <3>1
    <3>4. ASSUME NEW i \in 1 .. n, query.op = "paths" PROVE PeerOf(v[i]) # query.from
      <4>1. CASE i = n
        BY <1>21, <1>24, <2>8, <3>4, <4>1 DEF Mark
      <4>2. CASE i \in 1 .. n - 1
        BY <1>20, <2>8, <3>1, <3>4, <4>2 DEF NoneRecurs
      <4> QED BY <2>9, <4>1, <4>2
    <3>5. \A i \in 1 .. n - 1 : Mark(v[i]) # Mark(e)
      BY <1>21, <1>24, <2>8
    <3>6. \A i, j \in 1 .. n - 1 : Mark(v[i]) = Mark(v[j]) => i = j
      BY <1>20, <2>8, <3>1 DEF NoneRecurs
    <3>7. \A i, j \in 1 .. n : Mark(v[i]) = Mark(v[j]) => i = j
      BY <2>8, <2>9, <3>5, <3>6
    <3>8. ASSUME NEW i \in 1 .. n - 1 PROVE PeerOf(v[i]) # Goal
      <4>1. CASE i = n - 1
        <5>1. trail[n].node = At(w, n - 1) /\ n - 1 # 0
          BY <1>10, <1>20, <4>1
        <5>2. trail[n].node = PeerOf(w[n - 1])
          BY <5>1 DEF At
        <5>3. trail[n].node # Goal
          BY <1>11, <1>14, <4>1
        <5> QED BY <2>8, <4>1, <5>2, <5>3
      <4>2. CASE i # n - 1
        <5>1. i \in 1 .. (n - 1) - 1
          BY <4>2
        <5> QED BY <1>20, <2>8, <3>1, <5>1 DEF StopsAtGoal
      <4> QED BY <4>1, <4>2
    <3> QED BY <2>8, <3>2, <3>3, <3>4, <3>7, <3>8 DEF IsRoute, IsWalk, NoneRecurs, StopsAtGoal
  <2>11. \A m : m \in marked' <=> IsMarked(t, m)
    <3>1. \A m : IsMarked(t, m) <=>
            (query.op = "paths" /\ m = query.from) \/ \E i \in 1 .. n : m = Mark(v[i])
      <4>1. Len(t) - 1 = n
        BY <2>5
      <4> QED BY <2>8, <4>1 DEF IsMarked
    <3>2. \A m : (\E i \in 1 .. n : m = Mark(v[i])) <=> (m = Mark(e) \/ \E i \in 1 .. n - 1 : m = Mark(w[i]))
      <4>1. \A i \in 1 .. n - 1 : i \in 1 .. n
        OBVIOUS
      <4> QED BY <1>10, <2>8, <2>9, <4>1
    <3> QED BY <1>21, <2>4, <3>1, <3>2
  <2>12. TrailInv'
    <3>1. IsTrodden(trail)' /\ IsRoute(RouteOf(trail))'
      BY <1>2, <2>4, <2>6, <2>7, <2>10
    <3>2. \A m : m \in marked' <=> IsMarked(trail, m)'
      BY <1>2, <2>4, <2>11
    <3> QED BY <3>1, <3>2 DEF TrailInv
  <2>13. TodoInv'
    <3>1. ASSUME NEW i \in 1 .. n PROVE IsTodo(t, td, i)
      <4>1. CASE i = n
        <5>1. ~ Awaits(td, n, t[n + 1].via)
          BY <1>11, <1>12, <1>15, <2>2, <2>5 DEF Awaits
        <5>2. Len(td[n]) = Len(ls) - 1 /\ t[n] = trail[n]
          BY <1>10, <1>11, <1>12, <2>5
        <5>3. ASSUME NEW k \in 1 .. Len(td[n])
              PROVE  /\ SourceOf(td[n][k]) = t[n].node
                     /\ WithinDepth(n)
                     /\ n = 1 \/ t[n].node # Goal
          <6>1. k \in 1 .. Len(ls) - 1 /\ k + 1 \in 1 .. Len(ls)
            <7>1. PICK j \in Nat : j = Len(ls)
              BY <1>11
            <7>2. k \in 1 .. j - 1
              BY <5>2, <7>1
            <7>3. k + 1 \in 1 .. j
              BY <7>2
            <7> QED BY <7>1, <7>2, <7>3
          <6>2. td[n][k] = ls[k + 1]
            BY <1>11, <1>12, <6>1
          <6> QED BY <1>14, <5>2, <6>1, <6>2
        <5>4. \A k, l \in 1 .. Len(td[n]) : td[n][k] = td[n][l] => k = l
          BY <1>11, <1>12, <1>15
        <5> QED BY <4>1, <5>1, <5>3, <5>4 DEF IsTodo
      <4>2. CASE i \in 1 .. n - 1
        <5>1. i + 1 \in 1 .. n /\ i \in 1 .. n /\ i < n
          BY <4>2
        <5>2. IsTodo(trail, td, i) /\ t[i] = trail[i] /\ t[i + 1] = trail[i + 1]
          BY <1>22, <2>5, <4>2, <5>1
        <5> QED BY <1>5, <5>1, <5>2 DEF IsTodo
      <4> QED BY <2>9, <4>1, <4>2
    <3> QED BY <1>2, <1>12, <2>4, <2>5, <3>1 DEF TodoInv
  <2>14. \A r : IsAhead("enter", t, td, r) <=> IsAhead("take", trail, todo, r)
    <3>1. ASSUME NEW r PROVE GoesAs(t, r, Len(t) - 1) <=> ByE(r)
      <4>1. Len(t) - 1 = n
        BY <2>5
      <4>2. \A k \in 1 .. n - 1 : k + 1 \in 1 .. n /\ k \in 1 .. n
        OBVIOUS
      <4>3. t[n + 1].via = e /\ \A k \in 1 .. n - 1 : t[k + 1].via = trail[k + 1].via
        BY <2>2, <2>5, <4>2
      <4>4. ASSUME GoesAs(t, r, n) PROVE ByE(r)
        <5>1. Len(r) >= n /\ \A k \in 1 .. n : r[k] = t[k + 1].via
          BY <4>4 DEF GoesAs
        <5>2. r[n] = e /\ \A k \in 1 .. n - 1 : r[k] = trail[k + 1].via
          BY <1>10, <4>2, <4>3, <5>1
        <5>3. Len(r) >= n - 1
          BY <5>1
        <5> QED BY <5>1, <5>2, <5>3 DEF GoesAs
      <4>5. ASSUME ByE(r) PROVE GoesAs(t, r, n)
        <5>1. Len(r) >= n /\ r[n] = e /\ \A k \in 1 .. n - 1 : r[k] = trail[k + 1].via
          BY <4>5 DEF GoesAs
        <5>2. \A k \in 1 .. n : r[k] = t[k + 1].via
          BY <2>9, <4>3, <5>1
        <5> QED BY <5>1, <5>2 DEF GoesAs
      <4> QED BY <4>1, <4>4, <4>5
    <3>2. ASSUME NEW r, NEW i \in 1 .. n PROVE IsAwaited(t, td, i, r) <=> IsAwaited(trail, td, i, r)
      <4>1. \A k \in 1 .. i - 1 : t[k + 1] = trail[k + 1]
        BY <2>5
      <4> QED BY <4>1 DEF IsAwaited, GoesAs
    <3> HIDE DEF ByE
    <3> QED BY <1>12, <1>18, <3>1, <3>2 DEF IsAhead
  <2>15. SoFarInv'
    BY <1>1, <1>2, <1>3, <2>4, <2>14 DEF SoFarInv
  <2> QED BY <1>4, <2>4, <2>12, <2>13, <2>15 DEF DfsInv
<1> QED BY <1>23, <1>24

(* A list of neighbors has each edge once. *)
LEMMA NeighborsSorted ==
  ASSUME AskedInv, NEW n
  PROVE  LET ls == Sorted(NeighborsOf(n))
         IN  /\ ls \in Seq(Admitted)
             /\ \A k, l \in 1 .. Len(ls) : ls[k] = ls[l] => k = l
             /\ \A k \in 1 .. Len(ls) : SourceOf(ls[k]) = n
             /\ \A e \in Admitted : SourceOf(e) = n => \E k \in 1 .. Len(ls) : ls[k] = e
<1>1. PICK es : es = NeighborsOf(n)
  OBVIOUS
<1>2. PICK ls : ls = InOrder(es, query.dir)
  OBVIOUS
<1>3. /\ IsFiniteSet(es) /\ es \subseteq Admitted
      /\ \A e \in es : Peer(e, query.dir) \in Nat /\ e.id \in Nat
      /\ \A e, f \in es : e.id = f.id => e = f
      /\ \A e : e \in es <=> e \in Admitted /\ SourceOf(e) = n
  <2>1. /\ IsFiniteSet(edges) /\ Admitted \subseteq edges /\ Nodes \subseteq Nat
        /\ \A e \in edges : PeerOf(e) \in Nodes /\ e.id \in Nat
        /\ \A e, f \in edges : e.id = f.id => e = f
        /\ \A e : e \in es <=> e \in Admitted /\ SourceOf(e) = n
    BY <1>1, EdgesSeen
  <2>2. es \in SUBSET edges
    BY <2>1
  <2>3. IsFiniteSet(es)
    BY <2>1, <2>2, FS_Subset
  <2> QED BY <2>1, <2>2, <2>3 DEF PeerOf
<1>4. PICK c \in Nat : c = Cardinality(es)
  BY <1>3, FS_CardinalityType
<1>5. /\ \A i \in 1 .. c : ls[i] \in es
      /\ \A e \in es : \E i \in 1 .. c : ls[i] = e
  BY <1>2, <1>3, <1>4, InOrderLists
<1>6. ls = [i \in 1 .. c |-> ls[i]]
  <2> DEFINE Nth(i) == CHOOSE e \in es : Cardinality({f \in es : Before(f, e, query.dir)}) = i - 1
  <2>2. ls = [i \in 1 .. Cardinality(es) |-> Nth(i)]
    BY <1>2 DEF InOrder
  <2> HIDE DEF Nth
  <2> QED BY <1>4, <2>2
<1>7. ls \in Seq(Admitted) /\ Len(ls) = c
  BY <1>3, <1>5, <1>6
(* As many places as edges, each edge in one of them. *)
<1>8. \A k, l \in 1 .. c : ls[k] = ls[l] => k = l
  <2>1. ls \in Surjection(1 .. c, es)
    <3>1. ls \in [1 .. c -> es]
      BY <1>5, <1>6
    <3> QED BY <1>5, <3>1 DEF Surjection
  <2>2. IsFiniteSet(1 .. c) /\ Cardinality(1 .. c) = c
    BY FS_Interval
  <2>3. ls \in Injection(1 .. c, es)
    BY <1>4, <2>1, <2>2, FS_Surjection
  <2> QED BY <2>3 DEF Injection, IsInjective
<1>9. \A k \in 1 .. c : SourceOf(ls[k]) = n
  BY <1>3, <1>5
<1>10. \A e \in Admitted : SourceOf(e) = n => \E k \in 1 .. c : ls[k] = e
  BY <1>3, <1>5
<1>11. ls = Sorted(NeighborsOf(n))
  BY <1>1, <1>2 DEF Sorted
<1> QED BY <1>7, <1>8, <1>9, <1>10, <1>11, ZenonT(30)

(* s is td with ls put last: what is ahead of a trail, seen from it. *)
IsVisitOf(t, td, S, ls, n, s) ==
  /\ s \in Seq(Seq(S)) /\ Len(s) = n /\ s[n] = ls
  /\ \A i \in 1 .. n - 1 : s[i] = td[i]
  /\ \A r : IsAhead("take", t, s, r) <=>
       \/ \E i \in 1 .. n - 1 : IsAwaited(t, td, i, r)
       \/ GoesAs(t, r, n - 1) /\ Len(r) >= n /\ \E k \in 1 .. Len(ls) : ls[k] = r[n]
  /\ \A r : IsAhead("enter", t, td, r) <=>
       GoesAs(t, r, n - 1) \/ \E i \in 1 .. n - 1 : IsAwaited(t, td, i, r)

(* What enters into a node leaves to be taken, and what it finds.          *)
LEMMA AheadOfVisit ==
  ASSUME NEW t, NEW td, NEW S, td \in Seq(Seq(S)), NEW ls \in Seq(S), NEW n \in Nat,
         n = Len(t), n > 0, Len(td) = n - 1, NEW s, s = Append(td, ls)
  PROVE  IsVisitOf(t, td, S, ls, n, s)
<1>2. /\ s \in Seq(Seq(S)) /\ Len(s) = n /\ s[n] = ls
      /\ \A i \in 1 .. n - 1 : s[i] = td[i]
  OBVIOUS
<1>3. \A r : \A i \in 1 .. n - 1 : IsAwaited(t, s, i, r) <=> IsAwaited(t, td, i, r)
  BY <1>2 DEF IsAwaited, Awaits
<1>4. \A r : IsAwaited(t, s, n, r) <=>
        GoesAs(t, r, n - 1) /\ Len(r) >= n /\ \E k \in 1 .. Len(ls) : ls[k] = r[n]
  BY <1>2 DEF IsAwaited, Awaits
<1>5. \A i \in 1 .. n : i = n \/ i \in 1 .. n - 1
  OBVIOUS
<1>6. n \in 1 .. n /\ \A i \in 1 .. n - 1 : i \in 1 .. n
  OBVIOUS
<1>7. \A r : IsAhead("take", t, s, r) <=>
              \/ \E i \in 1 .. n - 1 : IsAwaited(t, td, i, r)
              \/ GoesAs(t, r, n - 1) /\ Len(r) >= n /\ \E k \in 1 .. Len(ls) : ls[k] = r[n]
  BY <1>2, <1>3, <1>4, <1>5, <1>6 DEF IsAhead
<1>8. \A r : IsAhead("enter", t, td, r) <=>
              GoesAs(t, r, n - 1) \/ \E i \in 1 .. n - 1 : IsAwaited(t, td, i, r)
  BY DEF IsAhead
<1> QED BY <1>2, <1>7, <1>8 DEF IsVisitOf

(* A route that goes as the trail does is the trail's, or longer.          *)
LEMMA GoesAsTrail ==
  ASSUME NEW t, IsTrodden(t), NEW r, r \in Seq(Admitted)
  PROVE  /\ GoesAs(t, RouteOf(t), Len(t) - 1)
         /\ \A i \in 1 .. Len(t) - 1 : GoesAs(t, r, Len(t) - 1) => r[i] = RouteOf(t)[i]
         /\ GoesAs(t, r, Len(t) - 1) /\ Len(r) = Len(t) - 1 => r = RouteOf(t)
<1>1. PICK w : w = RouteOf(t)
  OBVIOUS
<1>2. PICK n \in Nat : n = Len(t)
  BY RouteOfIs
<1>3. /\ w \in Seq(Admitted) /\ Len(w) = n - 1
      /\ \A i \in 1 .. n - 1 : w[i] = t[i + 1].via
  BY <1>1, <1>2, RouteOfIs
<1>4. GoesAs(t, w, n - 1)
  BY <1>3 DEF GoesAs
<1>5. ASSUME GoesAs(t, r, n - 1) PROVE \A i \in 1 .. n - 1 : r[i] = w[i]
  BY <1>3, <1>5 DEF GoesAs
<1>6. ASSUME GoesAs(t, r, n - 1), Len(r) = n - 1 PROVE r = w
  BY <1>3, <1>5, <1>6
<1> QED BY <1>1, <1>2, <1>4, <1>5, <1>6

LEMMA DfsVisit ==
  ASSUME AskedInv, IsDeep, DfsInv, Visit
  PROVE  DfsInv'
<1>1. UNCHANGED asked /\ pc = "enter" /\ trail' = trail /\ marked' = marked
  BY DEF Visit
<1>2. /\ IsDeep' = IsDeep /\ query' = query /\ Admitted' = Admitted /\ Entry' = Entry
      /\ \A r : IsRoute(r)' = IsRoute(r) /\ IsGoalRoute(r)' = IsGoalRoute(r)
      /\ \A t : IsTrodden(t)' = IsTrodden(t)
      /\ \A t, m : IsMarked(t, m)' = IsMarked(t, m)
      /\ \A t, td, i : IsTodo(t, td, i)' = IsTodo(t, td, i)
  BY <1>1, DeepSame, AskedSame
<1>3. TrailInv /\ TodoInv /\ PathsInv /\ SoFarInv
  BY DEF DfsInv
<1>4. TrailInv'
  BY <1>1, <1>2, <1>3 DEF TrailInv
<1>5. PICK n \in Nat : n = Len(trail) /\ Len(todo) = n - 1 /\ n > 0
  <2>1. Len(trail) \in Nat /\ Len(trail) > 0
    BY <1>3 DEF TrailInv, IsTrodden
  <2>2. Len(todo) = Len(trail) - 1
    BY <1>1, <1>3 DEF TodoInv
  <2> QED BY <2>1, <2>2
<1>6. /\ trail \in Seq(Entry) /\ todo \in Seq(Seq(Admitted)) /\ paths \in Seq(Seq(Entry))
      /\ IsTrodden(trail) /\ n \in 1 .. n
      /\ Len(paths) \in Nat /\ query.cap \in Nat /\ Len(paths) < query.cap
  <2>1. query.cap \in Nat
    BY QueryAssumption DEF AskedInv, QueryAssumption, IsDeep
  <2>2. IsTrodden(trail) /\ trail \in Seq(Entry)
    BY <1>3 DEF TrailInv, IsTrodden
  <2>3. todo \in Seq(Seq(Admitted)) /\ paths \in Seq(Seq(Entry))
    BY <1>3 DEF TodoInv, PathsInv
  <2>4. Len(paths) < query.cap
    BY <1>1, <1>3 DEF SoFarInv
  <2>5. n \in 1 .. n /\ Len(paths) \in Nat
    BY <1>5, <2>3
  <2> QED BY <2>1, <2>2, <2>3, <2>4, <2>5
<1>7. PICK w : w = RouteOf(trail)
  OBVIOUS
<1>8. /\ w \in Seq(Admitted) /\ Len(w) = n - 1 /\ IsRoute(w)
      /\ trail[n].node = At(w, n - 1)
      /\ GoesAs(trail, w, n - 1)
  BY <1>3, <1>5, <1>6, <1>7, RouteOfIs, GoesAsTrail DEF TrailInv
<1>9. \A i \in 1 .. n - 1 : IsTodo(trail, todo, i)
  BY <1>1, <1>3, <1>5 DEF TodoInv
<1>10. \A r : IsGoalRoute(r) => /\ r \in Seq(Admitted) /\ Len(r) \in Nat /\ Len(r) > 0 /\ IsRoute(r)
                               /\ PeerOf(r[Len(r)]) = Goal
  BY DEF IsGoalRoute, IsRoute, IsWalk
<1>11. CASE steps + 1 > query.budget
  <2>1. truncation' = "step-budget" /\ pc' = "done" /\ todo' = todo /\ paths' = paths
    BY <1>11 DEF Visit
  <2>2. TodoInv' /\ SoFarInv'
    BY <1>2, <1>3, <2>1 DEF TodoInv, SoFarInv
  <2>3. PathsInv'
    <3>1. \A p \in 1 .. Len(paths) : IsTrodden(paths[p])' /\ IsGoalRoute(RouteOf(paths[p]))'
      BY <1>2, <1>3, <2>1 DEF PathsInv
    <3> QED BY <1>2, <1>3, <2>1, <3>1 DEF PathsInv
  <2> QED BY <1>4, <2>1, <2>2, <2>3 DEF DfsInv
<1>12. CASE ~ (steps + 1 > query.budget) /\ trail[n].node = query.to /\ n > 1
  <2>1. /\ paths' = Append(paths, trail) /\ todo' = Append(todo, <<>>)
        /\ truncation' = Full(Len(paths'))
        /\ pc' = IF Len(paths') >= query.cap THEN "done" ELSE "take"
    <3>1. ~ IsFull /\ here.node = query.to /\ Len(trail) > 1
      BY <1>5, <1>6, <1>12 DEF IsFull, here
    <3> QED BY <1>12, <3>1 DEF Visit
  <2>2. PICK ps : ps = Append(paths, trail)
    OBVIOUS
  <2>3. PICK m \in Nat : m = Len(paths)
    BY <1>6
  <2>4. /\ ps \in Seq(Seq(Entry)) /\ Len(ps) = m + 1 /\ ps[m + 1] = trail
        /\ \A p \in 1 .. m : ps[p] = paths[p]
    BY <1>6, <2>2, <2>3
  <2>5. \A p \in 1 .. m + 1 : p = m + 1 \/ p \in 1 .. m
    OBVIOUS
  <2>6. IsGoalRoute(w)
    <3>1. n - 1 # 0 /\ At(w, n - 1) = PeerOf(w[n - 1])
      BY <1>12 DEF At
    <3> QED BY <1>5, <1>8, <1>12, <3>1 DEF IsGoalRoute, Goal
  <2>7. IsAhead("enter", trail, todo, w)
    BY <1>5, <1>8 DEF IsAhead
  <2>8. \A p \in 1 .. m : RouteOf(paths[p]) # w
    BY <1>1, <1>3, <2>3, <2>7 DEF SoFarInv, IsListed
  <2>9. PathsInv'
    <3>1. \A p \in 1 .. m : IsTrodden(paths[p]) /\ IsGoalRoute(RouteOf(paths[p]))
      BY <1>3, <2>3 DEF PathsInv
    <3>2. \A p \in 1 .. m + 1 : IsTrodden(ps[p]) /\ IsGoalRoute(RouteOf(ps[p]))
      BY <1>6, <1>7, <2>4, <2>5, <2>6, <3>1
    <3>3. \A p, q \in 1 .. m : RouteOf(paths[p]) = RouteOf(paths[q]) => p = q
      BY <1>3, <2>3 DEF PathsInv
    <3>4. \A p, q \in 1 .. m + 1 : RouteOf(ps[p]) = RouteOf(ps[q]) => p = q
      BY <1>7, <2>4, <2>5, <2>8, <3>3
    <3>5. paths' = ps
      BY <2>1, <2>2
    <3>6. \A p \in 1 .. m + 1 : IsTrodden(paths[p])' /\ IsGoalRoute(RouteOf(paths[p]))'
      BY <1>2, <3>2, <3>5
    <3> QED BY <1>2, <2>4, <3>4, <3>5, <3>6 DEF PathsInv
  <2>10. \A r : IsListed(ps, r) <=> IsListed(paths, r) \/ r = w
    <3>1. \A p \in 1 .. m : p \in 1 .. m + 1
      OBVIOUS
    <3>2. m + 1 \in 1 .. m + 1
      OBVIOUS
    <3> QED BY <1>7, <2>3, <2>4, <2>5, <3>1, <3>2 DEF IsListed
  <2>11. PICK td : td = Append(todo, <<>>)
    OBVIOUS
  <2>13. /\ td \in Seq(Seq(Admitted)) /\ Len(td) = n /\ td[n] = <<>>
         /\ \A i \in 1 .. n - 1 : td[i] = todo[i]
         /\ \A r : IsAhead("take", trail, td, r) <=> \E i \in 1 .. n - 1 : IsAwaited(trail, todo, i, r)
         /\ \A r : IsAhead("enter", trail, todo, r) <=>
              GoesAs(trail, r, n - 1) \/ \E i \in 1 .. n - 1 : IsAwaited(trail, todo, i, r)
    <3>1. PICK ls : ls = <<>> /\ ls \in Seq(Admitted)
      <4>1. <<>> \in Seq(Admitted)
        OBVIOUS
      <4> QED BY <4>1
    <3>2. \A k : k \notin 1 .. Len(ls)
      BY <3>1
    <3>3. td = Append(todo, ls)
      BY <2>11, <3>1
    <3>4. /\ td \in Seq(Seq(Admitted)) /\ Len(td) = n /\ td[n] = ls
          /\ \A i \in 1 .. n - 1 : td[i] = todo[i]
          /\ \A r : IsAhead("take", trail, td, r) <=>
               \/ \E i \in 1 .. n - 1 : IsAwaited(trail, todo, i, r)
               \/ GoesAs(trail, r, n - 1) /\ Len(r) >= n /\ \E k \in 1 .. Len(ls) : ls[k] = r[n]
          /\ \A r : IsAhead("enter", trail, todo, r) <=>
               GoesAs(trail, r, n - 1) \/ \E i \in 1 .. n - 1 : IsAwaited(trail, todo, i, r)
      <4>1. ls \in Seq(Admitted)
        BY <3>1
      <4>2. n = Len(trail) /\ n > 0 /\ Len(todo) = n - 1 /\ todo \in Seq(Seq(Admitted))
        BY <1>5, <1>6
      <4>3. IsVisitOf(trail, todo, Admitted, ls, n, td)
        BY <3>3, <4>1, <4>2, AheadOfVisit
      <4> QED BY <4>3 DEF IsVisitOf
    <3> QED BY <3>1, <3>2, <3>4
  <2>14. \A r : IsListed(ps, r) => ~ IsAhead("take", trail, td, r)
    <3>1. ASSUME NEW i \in 1 .. n - 1, IsAwaited(trail, todo, i, w) PROVE FALSE
      <4>1. Awaits(todo, i, w[i]) /\ w[i] = trail[i + 1].via
        BY <1>5, <1>6, <1>7, <3>1, RouteOfIs DEF IsAwaited
      <4>2. ~ Awaits(todo, i, trail[i + 1].via)
        BY <1>5, <1>9 DEF IsTodo
      <4> QED BY <4>1, <4>2
    <3>2. ~ IsAhead("take", trail, td, w)
      BY <2>13, <3>1
    <3>3. \A r : IsListed(paths, r) => ~ IsAhead("enter", trail, todo, r)
      BY <1>1, <1>3 DEF SoFarInv
    <3>4. \A r : IsListed(paths, r) => ~ IsAhead("take", trail, td, r)
      BY <2>13, <3>3
    <3> QED BY <2>10, <3>2, <3>4
  <2>15. ASSUME NEW r, IsGoalRoute(r), GoesAs(trail, r, n - 1) PROVE r = w
    <3>1. Len(r) >= n - 1 /\ Len(r) \in Nat
      BY <1>10, <2>15 DEF GoesAs
    <3>2. CASE Len(r) = n - 1
      BY <1>5, <1>6, <1>7, <1>10, <2>15, <3>2, GoesAsTrail
    <3>3. CASE Len(r) > n - 1
      <4>1. n - 1 \in 1 .. n - 1 /\ n - 1 \in 1 .. Len(r) - 1
        BY <1>12, <3>1, <3>3
      <4>2. r[n - 1] = w[n - 1]
        BY <1>5, <1>6, <1>7, <1>10, <2>15, <4>1, GoesAsTrail
      <4>3. PeerOf(w[n - 1]) = Goal
        BY <1>8, <2>6 DEF IsGoalRoute
      <4>4. PeerOf(r[n - 1]) # Goal
        BY <1>10, <2>15, <4>1 DEF IsRoute, StopsAtGoal
      <4> QED BY <4>2, <4>3, <4>4
    <3> QED BY <3>1, <3>2, <3>3
  <2>16. truncation' = "none" =>
           truncation = "none" /\ pc' = "take" /\ ~ (Len(ps) >= query.cap)
    <3>1. Full(Len(ps)) = IF Len(ps) >= query.cap THEN "path-cap" ELSE truncation
      BY DEF Full
    <3> QED BY <2>1, <2>2, <3>1
  <2>17. truncation' = "none" =>
           \A r : IsGoalRoute(r) => IsListed(ps, r) \/ IsAhead("take", trail, td, r)
    <3>1. truncation = "none" =>
            \A r : IsGoalRoute(r) => IsListed(paths, r) \/ IsAhead("enter", trail, todo, r)
      BY <1>1, <1>3 DEF SoFarInv
    <3> QED BY <2>10, <2>13, <2>15, <2>16, <3>1
  <2>18. SoFarInv'
    <3>1. paths' = ps /\ todo' = td
      BY <2>1, <2>2, <2>11
    <3>2. pc' # "done" => pc' = "take" /\ Len(ps) < query.cap
      BY <1>6, <2>1, <2>2, <2>4
    <3> QED BY <1>1, <1>2, <2>14, <2>16, <2>17, <3>1, <3>2 DEF SoFarInv
  <2>19. TodoInv'
    <3>1. ASSUME NEW i \in 1 .. n PROVE IsTodo(trail, td, i)
      <4>1. CASE i = n
        BY <1>5, <2>13, <4>1 DEF IsTodo
      <4>2. CASE i \in 1 .. n - 1
        BY <1>9, <2>13, <4>2, ZenonT(60) DEF IsTodo, Awaits
      <4>3. i = n \/ i \in 1 .. n - 1
        OBVIOUS
      <4> QED BY <4>1, <4>2, <4>3
    <3>2. pc' \in {"take", "done"}
      BY <2>1
    <3> QED BY <1>1, <1>2, <1>5, <2>1, <2>11, <2>13, <3>1, <3>2 DEF TodoInv
  <2>20. pc' \in {"enter", "take", "done"}
    BY <2>1
  <2> QED BY <1>4, <2>9, <2>18, <2>19, <2>20 DEF DfsInv
<1>13. CASE ~ (steps + 1 > query.budget) /\ ~ (trail[n].node = query.to /\ n > 1)
  <2>1. PICK ls : ls = IF WithinDepth(n) THEN Sorted(NeighborsOf(trail[n].node)) ELSE <<>>
    OBVIOUS
  <2>2. todo' = Append(todo, ls) /\ pc' = "take" /\ paths' = paths /\ truncation' = truncation
    <3>1. ~ IsFull /\ ~ (here.node = query.to /\ Len(trail) > 1)
      BY <1>5, <1>6, <1>13 DEF IsFull, here
    <3> QED BY <1>5, <1>13, <2>1, <3>1 DEF Visit, here
  <2>3. /\ ls \in Seq(Admitted)
        /\ \A k, l \in 1 .. Len(ls) : ls[k] = ls[l] => k = l
        /\ \A k \in 1 .. Len(ls) : SourceOf(ls[k]) = trail[n].node /\ WithinDepth(n)
        /\ WithinDepth(n) =>
             \A e \in Admitted : SourceOf(e) = trail[n].node => \E k \in 1 .. Len(ls) : ls[k] = e
    <3>1. CASE ~ WithinDepth(n)
      <4>1. ls = <<>>
        BY <2>1, <3>1
      <4> QED BY <3>1, <4>1
    <3>2. CASE WithinDepth(n)
      BY <2>1, <3>2, NeighborsSorted
    <3> QED BY <3>1, <3>2
  <2>4. PICK td : td = Append(todo, ls)
    OBVIOUS
  <2>5. /\ td \in Seq(Seq(Admitted)) /\ Len(td) = n /\ td[n] = ls
        /\ \A i \in 1 .. n - 1 : td[i] = todo[i]
        /\ \A r : IsAhead("take", trail, td, r) <=>
              \/ \E i \in 1 .. n - 1 : IsAwaited(trail, todo, i, r)
              \/ GoesAs(trail, r, n - 1) /\ Len(r) >= n /\ \E k \in 1 .. Len(ls) : ls[k] = r[n]
        /\ \A r : IsAhead("enter", trail, todo, r) <=>
              GoesAs(trail, r, n - 1) \/ \E i \in 1 .. n - 1 : IsAwaited(trail, todo, i, r)
    <3>1. todo \in Seq(Seq(Admitted)) /\ ls \in Seq(Admitted) /\ n = Len(trail) /\ n > 0 /\ Len(todo) = n - 1
      BY <1>5, <1>6, <2>3
    <3>2. IsVisitOf(trail, todo, Admitted, ls, n, td)
      BY <2>4, <3>1, AheadOfVisit
    <3> QED BY <3>2 DEF IsVisitOf
  <2>6. \A r : IsAhead("take", trail, td, r) => IsAhead("enter", trail, todo, r)
    BY <2>5
  <2>7. ASSUME NEW r, IsGoalRoute(r), GoesAs(trail, r, n - 1)
        PROVE  Len(r) >= n /\ \E k \in 1 .. Len(ls) : ls[k] = r[n]
    <3>1. Len(r) >= n - 1 /\ Len(r) \in Nat
      BY <1>10, <2>7 DEF GoesAs
    <3>2. Len(r) # n - 1
      <4>1. ASSUME Len(r) = n - 1 PROVE FALSE
        <5>1. r = w
          BY <1>5, <1>6, <1>7, <1>10, <2>7, <4>1, GoesAsTrail
        <5>2. n > 1 /\ PeerOf(w[n - 1]) = Goal /\ n - 1 # 0
          BY <1>10, <2>7, <4>1, <5>1
        <5>3. trail[n].node = PeerOf(w[n - 1])
          BY <1>8, <5>2 DEF At
        <5> QED BY <1>13, <5>2, <5>3 DEF Goal
      <4> QED BY <4>1
    <3>3. Len(r) >= n /\ n \in 1 .. Len(r)
      BY <1>5, <3>1, <3>2
    <3>4. WithinDepth(n) /\ SourceOf(r[n]) = At(r, n - 1) /\ r[n] \in Admitted
      BY <1>10, <2>7, <3>3 DEF IsRoute, IsWalk
    <3>5. At(r, n - 1) = At(w, n - 1)
      <4>1. n - 1 = 0 \/ n - 1 \in 1 .. n - 1
        BY <1>5
      <4>2. n - 1 \in 1 .. n - 1 => r[n - 1] = w[n - 1]
        BY <1>5, <1>6, <1>7, <1>10, <2>7, GoesAsTrail
      <4> QED BY <4>1, <4>2 DEF At
    <3> QED BY <1>8, <2>3, <3>3, <3>4, <3>5
  <2>8. \A r : IsGoalRoute(r) /\ IsAhead("enter", trail, todo, r) => IsAhead("take", trail, td, r)
    BY <2>5, <2>7
  <2>9. SoFarInv'
    <3>1. todo' = td
      BY <2>2, <2>4
    <3> QED BY <1>1, <1>2, <1>3, <2>2, <2>6, <2>8, <3>1 DEF SoFarInv
  <2>10. TodoInv'
    <3>1. ASSUME NEW i \in 1 .. n PROVE IsTodo(trail, td, i)
      <4>1. CASE i = n
        <5>1. n = 1 \/ trail[n].node # Goal
          BY <1>5, <1>13 DEF Goal
        <5> QED BY <1>5, <2>3, <2>5, <4>1, <5>1 DEF IsTodo
      <4>2. CASE i \in 1 .. n - 1
        <5>1. IsTodo(trail, todo, i) /\ td[i] = todo[i]
          BY <1>9, <2>5, <4>2
        <5> QED BY <5>1 DEF IsTodo, Awaits
      <4>3. i = n \/ i \in 1 .. n - 1
        OBVIOUS
      <4> QED BY <4>1, <4>2, <4>3
    <3> QED BY <1>1, <1>2, <1>5, <2>2, <2>4, <2>5, <3>1 DEF TodoInv
  <2>11. PathsInv'
    <3>1. \A p \in 1 .. Len(paths) : IsTrodden(paths[p])' /\ IsGoalRoute(RouteOf(paths[p]))'
      BY <1>2, <1>3, <2>2 DEF PathsInv
    <3> QED BY <1>2, <1>3, <2>2, <3>1 DEF PathsInv
  <2> QED BY <1>4, <2>2, <2>9, <2>10, <2>11 DEF DfsInv
<1> QED BY <1>11, <1>12, <1>13

LEMMA DfsStep ==
  ASSUME AskedInv, DfsInv, WalkNext
  PROVE  AskedInv' /\ DfsInv'
<1>1. UNCHANGED asked
  BY DEF WalkNext, Discover, EndDiscover, Weaken, EndWeaken, EndRoot, NextLayer, Visit, Take, Retreat
<1>2. AskedInv' = AskedInv /\ IsDeep' = IsDeep
  BY <1>1, AskedSame, DeepSame
<1>3. CASE ~ IsDeep
  BY <1>2, <1>3 DEF DfsInv
<1>4. CASE IsDeep
  <2>1. pc \in {"enter", "take", "done"}
    BY <1>4 DEF DfsInv
  <2>2. Visit \/ Take \/ Retreat
    BY <2>1 DEF WalkNext, Discover, EndDiscover, Weaken, EndWeaken, EndRoot, NextLayer
  <2> QED BY <1>2, <1>4, <2>2, DfsVisit, DfsTake, DfsRetreat
<1> QED BY <1>3, <1>4

LEMMA DfsUnmoved ==
  ASSUME AskedInv, DfsInv, UNCHANGED pathVars
  PROVE  DfsInv'
<1>1. /\ UNCHANGED asked /\ pc' = pc /\ trail' = trail /\ todo' = todo /\ marked' = marked
      /\ paths' = paths /\ truncation' = truncation
  BY DEF pathVars, dfsVars, asked
<1>2. /\ IsDeep' = IsDeep /\ query' = query /\ Admitted' = Admitted /\ Entry' = Entry
      /\ \A r : IsRoute(r)' = IsRoute(r) /\ IsGoalRoute(r)' = IsGoalRoute(r)
      /\ \A t : IsTrodden(t)' = IsTrodden(t)
      /\ \A t, m : IsMarked(t, m)' = IsMarked(t, m)
      /\ \A t, td, i : IsTodo(t, td, i)' = IsTodo(t, td, i)
  BY <1>1, DeepSame, AskedSame
<1>3. ASSUME TrailInv PROVE TrailInv'
  BY <1>1, <1>2, <1>3 DEF TrailInv
<1>4. ASSUME TodoInv PROVE TodoInv'
  BY <1>1, <1>2, <1>4 DEF TodoInv
<1>5. ASSUME PathsInv PROVE PathsInv'
  <2>1. \A p \in 1 .. Len(paths) : IsTrodden(paths[p])' /\ IsGoalRoute(RouteOf(paths[p]))'
    BY <1>1, <1>2, <1>5 DEF PathsInv
  <2> QED BY <1>1, <1>2, <1>5, <2>1 DEF PathsInv
<1>6. ASSUME SoFarInv PROVE SoFarInv'
  BY <1>1, <1>2, <1>6 DEF SoFarInv
<1> QED BY <1>1, <1>2, <1>3, <1>4, <1>5, <1>6 DEF DfsInv

LEMMA SubSeqAppend ==
  ASSUME NEW E, NEW r \in Seq(E), NEW i \in Nat, i + 1 <= Len(r)
  PROVE  /\ SubSeq(r, 1, i) \in Seq(E) /\ r[i + 1] \in E
         /\ SubSeq(r, 1, i + 1) = Append(SubSeq(r, 1, i), r[i + 1])
<1>1. PICK s : s = SubSeq(r, 1, i)
  OBVIOUS
<1>2. PICK u : u = SubSeq(r, 1, i + 1)
  OBVIOUS
<1>3. s \in Seq(E) /\ Len(s) = i /\ \A k \in 1 .. i : s[k] = r[k]
  BY <1>1
<1>4. u \in Seq(E) /\ Len(u) = i + 1 /\ \A k \in 1 .. i + 1 : u[k] = r[k]
  BY <1>2
<1>5. i + 1 \in 1 .. Len(r) /\ r[i + 1] \in E
  OBVIOUS
<1>6. PICK v : v = Append(s, r[i + 1])
  OBVIOUS
<1>7. /\ v \in Seq(E) /\ Len(v) = i + 1 /\ v[i + 1] = r[i + 1]
      /\ \A k \in 1 .. i : v[k] = s[k]
  BY <1>3, <1>5, <1>6
<1>8. \A k \in 1 .. i + 1 : u[k] = v[k]
  BY <1>3, <1>4, <1>7
<1>9. u = v
  BY <1>4, <1>7, <1>8
<1> QED BY <1>1, <1>2, <1>3, <1>5, <1>6, <1>9

(* The flag of each step of a trail is that of the way to it.              *)
LEMMA FlagsOfTrail ==
  ASSUME NEW t, IsTrodden(t), NEW j \in 1 .. Len(t)
  PROVE  t[j].exc = Transient(SubSeq(RouteOf(t), 1, j - 1))
<1>1. PICK r : r = RouteOf(t)
  OBVIOUS
<1>2. PICK n \in Nat : n = Len(t) /\ n > 0
  BY RouteOfIs DEF IsTrodden
<1>3. /\ r \in Seq(Admitted) /\ Len(r) = n - 1
      /\ \A i \in 1 .. n - 1 : r[i] = t[i + 1].via
  BY <1>1, <1>2, RouteOfIs
<1>4. t[1].exc = FALSE /\ \A i \in 2 .. n : t[i].exc = Advance(t[i - 1].exc, t[i].via)
  BY <1>2 DEF IsTrodden
<1> DEFINE T == {i \in Nat : i + 1 <= n => t[i + 1].exc = Transient(SubSeq(r, 1, i))}
<1>5. 0 \in T
  <2>1. Len(SubSeq(r, 1, 0)) = 0
    BY <1>3
  <2>2. Transient(SubSeq(r, 1, 0)) = FALSE
    BY <2>1 DEF Transient
  <2>3. t[1].exc = Transient(SubSeq(r, 1, 0))
    BY <1>4, <2>2, Zenon
  <2>4. 0 + 1 = 1 /\ 0 \in Nat
    OBVIOUS
  <2> QED BY <2>3, <2>4
<1>6. ASSUME NEW i \in 0 .. n - 1, i \in T PROVE i + 1 \in T
  <2>1. CASE i + 2 <= n
    <3>1. PICK s : s = SubSeq(r, 1, i)
      OBVIOUS
    <3>2. i + 1 \in 1 .. n - 1 /\ i + 2 \in 2 .. n /\ (i + 2) - 1 = i + 1 /\ (i + 1) + 1 = i + 2
      BY <2>1
    <3>3. t[i + 1].exc = Transient(s)
      BY <1>6, <2>1, <3>1
    <3>4. s \in Seq(Admitted) /\ r[i + 1] \in Admitted /\ SubSeq(r, 1, i + 1) = Append(s, r[i + 1])
      <4>1. r \in Seq(Admitted) /\ i \in Nat /\ i + 1 <= Len(r)
        BY <1>3, <3>2
      <4> QED BY <3>1, <4>1, SubSeqAppend
    <3>5. Transient(SubSeq(r, 1, i + 1)) = Advance(Transient(s), r[i + 1])
      <4>1. Transient(Append(s, r[i + 1])) <=> Advance(Transient(s), r[i + 1])
        BY <3>4, TransientOfAppend
      <4>2. /\ Transient(Append(s, r[i + 1])) \in BOOLEAN
            /\ Advance(Transient(s), r[i + 1]) \in BOOLEAN
        BY DEF Transient, Advance
      <4> QED BY <3>4, <4>1, <4>2
    <3>6. t[i + 2].exc = Advance(t[i + 1].exc, t[i + 2].via)
      BY <1>4, <3>2
    <3>7. r[i + 1] = t[i + 2].via
      BY <1>3, <3>2
    <3> QED BY <3>2, <3>3, <3>5, <3>6, <3>7
  <2>2. CASE ~ (i + 2 <= n)
    BY <2>2
  <2> QED BY <2>1, <2>2
<1>7. 0 .. n \subseteq T
  <2> HIDE DEF T
  <2> QED BY <1>2, <1>5, <1>6, UpTo
<1>8. j - 1 \in T /\ (j - 1) + 1 = j /\ j <= n
  <2>1. j - 1 \in 0 .. n /\ (j - 1) + 1 = j /\ j <= n
    BY <1>2
  <2> HIDE DEF T
  <2> QED BY <1>7, <2>1
<1> QED BY <1>1, <1>2, <1>8

LEMMA PathsAreAll ==
  ASSUME AskedInv, DfsInv, pc = "done", IsDeep
  PROVE  LET got == {RouteOf(paths[i]) : i \in DOMAIN paths}
         IN  /\ got \subseteq RoutesToGoal
             /\ Cardinality(got) = Len(paths)
             /\ truncation = "none" => got = RoutesToGoal
             /\ \A i \in DOMAIN paths : \A j \in 2 .. Len(paths[i]) :
                  paths[i][j].exc = Transient(SubSeq(RouteOf(paths[i]), 1, j - 1))
<1>1. PathsInv /\ SoFarInv
  BY DEF DfsInv
<1>2. PICK m \in Nat : m = Len(paths) /\ DOMAIN paths = 1 .. m
  BY <1>1 DEF PathsInv
<1>3. PICK got : got = {RouteOf(paths[i]) : i \in DOMAIN paths}
  OBVIOUS
<1>4. \A r : r \in RoutesToGoal <=> IsGoalRoute(r)
  BY GoalRoutes
<1>5. /\ \A p \in 1 .. m : IsTrodden(paths[p]) /\ IsGoalRoute(RouteOf(paths[p]))
      /\ \A p, q \in 1 .. m : RouteOf(paths[p]) = RouteOf(paths[q]) => p = q
  BY <1>1, <1>2 DEF PathsInv
<1>6. \A r : r \in got <=> IsListed(paths, r)
  BY <1>2, <1>3 DEF IsListed
<1>7. got \subseteq RoutesToGoal
  BY <1>2, <1>4, <1>5, <1>6 DEF IsListed
<1>8. Cardinality(got) = m
  <2>1. PICK f : f = [i \in 1 .. m |-> RouteOf(paths[i])]
    OBVIOUS
  <2>2. f \in [1 .. m -> got] /\ \A i \in 1 .. m : f[i] = RouteOf(paths[i])
    BY <1>2, <1>3, <2>1
  <2>3. f \in Injection(1 .. m, got)
    BY <1>5, <2>2 DEF Injection, IsInjective
  <2>4. f \in Surjection(1 .. m, got)
    BY <1>2, <1>3, <2>2 DEF Surjection
  <2>5. ExistsBijection(1 .. m, got)
    BY <2>3, <2>4 DEF ExistsBijection, Bijection
  <2> QED BY <2>5, FS_CountingElements
<1>9. truncation = "none" => got = RoutesToGoal
  <2>1. truncation = "none" => \A r : IsGoalRoute(r) => IsListed(paths, r)
    BY <1>1 DEF SoFarInv
  <2> QED BY <1>4, <1>6, <1>7, <2>1
<1>10. ASSUME NEW i \in 1 .. m, NEW j \in 2 .. Len(paths[i])
       PROVE  paths[i][j].exc = Transient(SubSeq(RouteOf(paths[i]), 1, j - 1))
  <2>1. PICK t : t = paths[i]
    OBVIOUS
  <2>2. IsTrodden(t) /\ Len(t) \in Nat
    BY <1>5, <2>1, RouteOfIs
  <2>3. j \in 1 .. Len(t)
    BY <2>1, <2>2
  <2> QED BY <2>1, <2>2, <2>3, FlagsOfTrail
<1> QED BY <1>2, <1>3, <1>7, <1>8, <1>9, <1>10

-------------------------------------------------------------------------------
(* A pattern's walk is at layer "steps", and has admitted those before it. *)
IsBound(y, k) == \E j \in 1 .. k : j >= query.min /\ y \in Layer(j)

LayerInv ==
  query.op = "within" =>
    /\ pc \in {"layer", "done"}
    /\ steps \in Nat /\ steps <= query.depth
    /\ frontier = Layer(steps)
    /\ \A y : y \in seen <=> IsBound(y, steps)
    /\ pc = "done" => steps = query.depth \/ frontier = {}

LEMMA PatternAsked ==
  ASSUME AskedInv, query.op = "within"
  PROVE  query.depth \in Nat /\ query.min \in Nat
BY QueryAssumption DEF AskedInv, QueryAssumption

LEMMA LayerInit == WalkInit => LayerInv
<1> SUFFICES ASSUME WalkInit, query.op = "within" PROVE LayerInv
  BY DEF LayerInv
<1>1. pc = "layer" /\ frontier = {query.from} /\ seen = {} /\ steps = 0
  BY DEF WalkInit, DfsOps
<1>2. query.depth \in Nat
  BY PatternAsked DEF WalkInit, AskedInv
<1>3. frontier = Layer(0)
  BY <1>1, LayerByLayer, StartsFrom
<1>4. \A y : ~ IsBound(y, 0)
  BY DEF IsBound
<1> QED BY <1>1, <1>2, <1>3, <1>4 DEF LayerInv

LEMMA LayerStep ==
  ASSUME AskedInv, LayerInv, [WalkNext]_pathVars
  PROVE  LayerInv'
<1>1. UNCHANGED asked
  BY DEF WalkNext, Discover, EndDiscover, Weaken, EndWeaken, EndRoot, NextLayer, Visit, Take, Retreat,
         pathVars
<1>2. query' = query
  BY <1>1, AskedSame
<1>3. CASE query.op # "within"
  BY <1>2, <1>3 DEF LayerInv
<1>4. CASE query.op = "within"
  <2>1. \A j : Layer(j)' = Layer(j)
    BY <1>1, <1>2, <1>4, AskedSame DEF Start
  <2>2. \A y, k : IsBound(y, k)' = IsBound(y, k)
    BY <1>2, <2>1 DEF IsBound
  <2>3. /\ pc \in {"layer", "done"} /\ steps \in Nat /\ steps <= query.depth
        /\ frontier = Layer(steps)
        /\ \A y : y \in seen <=> IsBound(y, steps)
        /\ pc = "done" => steps = query.depth \/ frontier = {}
    BY <1>4 DEF LayerInv
  <2>4. query.depth \in Nat /\ query.min \in Nat
    BY <1>4, PatternAsked
  <2>5. NextLayer \/ UNCHANGED pathVars
    BY <2>3 DEF WalkNext, Discover, EndDiscover, Weaken, EndWeaken, EndRoot, Visit, Take, Retreat
  <2>6. CASE UNCHANGED pathVars
    <3>1. pc' = pc /\ frontier' = frontier /\ seen' = seen /\ steps' = steps
      BY <2>6 DEF pathVars, bfsVars
    <3> QED BY <1>2, <2>1, <2>2, <2>3, <3>1 DEF LayerInv
  <2>7. CASE NextLayer /\ ~ (steps < query.depth /\ frontier # {})
    <3>1. pc' = "done" /\ frontier' = frontier /\ seen' = seen /\ steps' = steps
      BY <2>7 DEF NextLayer
    <3>2. steps = query.depth \/ frontier = {}
      BY <2>3, <2>4, <2>7
    <3> QED BY <1>2, <2>1, <2>2, <2>3, <3>1, <3>2 DEF LayerInv
  <2>8. CASE NextLayer /\ steps < query.depth /\ frontier # {}
    <3>1. /\ pc' = pc /\ frontier' = NextFrontier /\ steps' = steps + 1 /\ pc = "layer"
          /\ seen' = IF steps + 1 >= query.min THEN seen \cup NextFrontier ELSE seen
      BY <2>8 DEF NextLayer
    <3>2. \A y : y \in NextFrontier <=> Beyond(Admitted, query.dir, frontier, y)
      <4>1. \A n, e : e \in NeighborsOf(n) <=> e \in Admitted /\ SourceOf(e) = n
        BY EdgesSeen
      <4>2. \A y : y \in NextFrontier <=> \E n \in frontier : \E e \in NeighborsOf(n) : PeerOf(e) = y
        BY DEF NextFrontier
      <4> QED BY <4>1, <4>2 DEF Beyond, PeerOf, SourceOf
    <3>3. NextFrontier = Layer(steps + 1)
      <4>1. \A y : y \in Layer(steps + 1) <=> Beyond(Admitted, query.dir, Layer(steps), y)
        BY <2>3, LayerByLayer
      <4> QED BY <2>3, <3>2, <4>1
    <3>4. \A y : IsBound(y, steps + 1) <=>
            IsBound(y, steps) \/ (steps + 1 >= query.min /\ y \in Layer(steps + 1))
      <4>1. \A j \in 1 .. steps + 1 : j = steps + 1 \/ j \in 1 .. steps
        BY <2>3
      <4>2. steps + 1 \in 1 .. steps + 1 /\ \A j \in 1 .. steps : j \in 1 .. steps + 1
        BY <2>3
      <4> QED BY <4>1, <4>2 DEF IsBound
    <3>5. \A y : y \in seen' <=> IsBound(y, steps + 1)
      BY <2>3, <3>1, <3>3, <3>4
    <3>6. steps + 1 \in Nat /\ steps + 1 <= query.depth
      BY <2>3, <2>4, <2>8
    <3> QED BY <1>2, <2>1, <2>2, <3>1, <3>3, <3>5, <3>6 DEF LayerInv
  <2> QED BY <2>5, <2>6, <2>7, <2>8
<1> QED BY <1>3, <1>4

LEMMA PatternIsBound ==
  ASSUME AskedInv, LayerInv
  PROVE  PatternBindsByLength
<1> SUFFICES ASSUME pc = "done", query.op = "within"
             PROVE  LET layer == Layers(Admitted, {query.from}, query.dir, query.depth)
                    IN  seen = UNION {layer[k] : k \in Max({query.min, 1}) .. query.depth}
  BY DEF PatternBindsByLength
<1>1. PICK d \in Nat : d = query.depth
  BY PatternAsked
<1>2. PICK least \in Nat : least = query.min
  BY PatternAsked
<1>3. /\ steps \in Nat /\ steps <= d /\ frontier = Layer(steps)
      /\ \A y : y \in seen <=> IsBound(y, steps)
      /\ steps = d \/ frontier = {}
  BY <1>1 DEF LayerInv
<1>4. PICK layer : layer = Layers(Admitted, {query.from}, query.dir, d)
  OBVIOUS
<1>5. \A j \in 0 .. d : layer[j] = Layer(j)
  BY <1>4, LayerByLayer, StartsFrom
<1>6. PICK from \in Nat : from = Max({least, 1}) /\ \A k \in Nat : k >= from <=> k >= least /\ k >= 1
  <2>1. Max({least, 1}) = IF least >= 1 THEN least ELSE 1
    BY DEF Max
  <2> QED BY <2>1
<1>7. \A j \in Nat : j > steps /\ j <= d => \A y : y \notin Layer(j)
  <2>1. CASE steps = d
    BY <1>3, <2>1
  <2>2. CASE frontier = {}
    <3> DEFINE T == {i \in Nat : Layer(steps + i) = {}}
    <3>1. 0 \in T
      <4>1. steps + 0 = steps
        BY <1>3
      <4> QED BY <1>3, <2>2, <4>1
    <3>2. ASSUME NEW i \in 0 .. d - 1, i \in T PROVE i + 1 \in T
      <4>1. \A y : y \in Layer((steps + i) + 1) <=> Beyond(Admitted, query.dir, Layer(steps + i), y)
        BY <1>3, LayerByLayer
      <4>2. Layer((steps + i) + 1) = {}
        BY <3>2, <4>1 DEF Beyond
      <4>3. (steps + i) + 1 = steps + (i + 1)
        BY <1>3
      <4> QED BY <4>2, <4>3
    <3> HIDE DEF T
    <3>3. 0 .. d \subseteq T
      BY <3>1, <3>2, UpTo
    <3>4. ASSUME NEW j \in Nat, j > steps, j <= d PROVE \A y : y \notin Layer(j)
      <4>1. j - steps \in 0 .. d /\ steps + (j - steps) = j
        BY <1>3, <3>4
      <4>2. j - steps \in T
        BY <3>3, <4>1
      <4> QED BY <4>1, <4>2 DEF T
    <3> QED BY <3>4
  <2> QED BY <1>3, <2>1, <2>2
<1>8. ASSUME NEW y PROVE IsBound(y, steps) <=> \E k \in from .. d : y \in layer[k]
  <2>1. ASSUME IsBound(y, steps) PROVE \E k \in from .. d : y \in layer[k]
    <3>1. PICK j \in 1 .. steps : j >= least /\ y \in Layer(j)
      BY <1>2, <2>1 DEF IsBound
    <3>2. j \in from .. d /\ j \in 0 .. d
      BY <1>3, <1>6, <3>1
    <3> QED BY <1>5, <3>1, <3>2
  <2>2. ASSUME NEW k \in from .. d, y \in layer[k] PROVE IsBound(y, steps)
    <3>1. k \in 0 .. d /\ k \in Nat /\ k >= least /\ k >= 1 /\ k <= d
      BY <1>6
    <3>2. y \in Layer(k)
      BY <1>5, <2>2, <3>1
    <3>3. ~ (k > steps)
      BY <1>7, <3>1, <3>2
    <3>4. k \in 1 .. steps
      BY <1>3, <3>1, <3>3
    <3> QED BY <1>2, <3>1, <3>2, <3>4 DEF IsBound
  <2> QED BY <2>1, <2>2
<1>9. seen = UNION {layer[k] : k \in from .. d}
  BY <1>3, <1>8
<1> QED BY <1>1, <1>2, <1>4, <1>6, <1>9

(* paths, trails and patterns: what is enumerated is there and there once, *)
(* and is all there is unless a cut is told (UncutPathsAreAll), for every  *)
(* program and query, whatever the order of ids.                           *)
THEOREM EnumerationsAreWhole == WalkSpec => []UncutPathsAreAll
<1>1. WalkInit => AskedInv /\ DfsInv /\ LayerInv
  BY DfsInit, LayerInit
<1>2. ASSUME AskedInv, DfsInv, LayerInv, [WalkNext]_pathVars
      PROVE  AskedInv' /\ DfsInv' /\ LayerInv'
  <2>1. CASE WalkNext
    BY <1>2, <2>1, DfsStep, LayerStep
  <2>2. CASE UNCHANGED pathVars
    <3>1. AskedInv' = AskedInv
      BY <2>2, AskedSame DEF pathVars
    <3> QED BY <1>2, <2>2, <3>1, DfsUnmoved, LayerStep
  <2> QED BY <1>2, <2>1, <2>2
<1>3. AskedInv /\ DfsInv /\ LayerInv => UncutPathsAreAll
  BY PathsAreAll, PatternIsBound DEF UncutPathsAreAll, IsDeep
<1> QED BY <1>1, <1>2, <1>3, PTL DEF WalkSpec
-------------------------------------------------------------------------------
(* The region an answer touched is what its walks reached, and DepthOf the *)
(* distance from the nearest root.                                         *)
LEMMA TouchedIs ==
  ASSUME AskedInv
  PROVE  /\ Bound \in Nat
         /\ query.depth # Unbounded => Bound = query.depth /\ query.depth \in Nat
         /\ \A S, y : y \in ReachOf(S) <=> \E i \in 0 .. Bound : y \in LayerOf(Admitted, S, i)
         /\ \A S, k, y : k \in Nat /\ IsNearest(Admitted, S, y, k)
              => k <= Cardinality(edges) /\ k <= Cardinality(Nodes)
         /\ Cardinality(edges) \in Nat /\ Cardinality(Nodes) \in Nat
<1>1. /\ IsFiniteSet(edges) /\ Admitted \subseteq edges /\ IsFiniteSet(Nodes)
      /\ \A e \in Admitted : Peer(e, query.dir) \in Nodes
      /\ query.depth \in Nat \cup {-1}
  BY EdgesSeen DEF PeerOf
<1>2. IsFiniteSet(Admitted) /\ Cardinality(Admitted) <= Cardinality(edges)
  BY <1>1, FS_Subset
<1>3. Cardinality(edges) \in Nat /\ Cardinality(Nodes) \in Nat /\ Cardinality(Admitted) \in Nat
  BY <1>1, <1>2, FS_CardinalityType
<1>4. Bound \in Nat
  BY ReachedIs
<1>5. query.depth # Unbounded => Bound = query.depth /\ query.depth \in Nat
  BY <1>1 DEF Bound, Unbounded
<1>6. \A S, y : y \in ReachOf(S) <=> \E i \in 0 .. Bound : y \in LayerOf(Admitted, S, i)
  BY <1>4, WithinIs DEF ReachOf
<1>7. ASSUME NEW S, NEW k \in Nat, NEW y, IsNearest(Admitted, S, y, k)
      PROVE  k <= Cardinality(edges) /\ k <= Cardinality(Nodes)
  <2>1. k <= Cardinality(Admitted) /\ k <= Cardinality(Nodes)
    BY <1>1, <1>2, <1>7, NearestBound
  <2> QED BY <1>2, <1>3, <2>1
<1> QED BY <1>3, <1>4, <1>5, <1>6, <1>7

(* What is reached at all is reached within the bound of an unbounded walk *)
LEMMA NearestReached ==
  ASSUME AskedInv, NEW S, NEW k \in Nat, NEW y, y \in LayerOf(Admitted, S, k),
         query.depth = Unbounded \/ k <= query.depth
  PROVE  \E j \in 0 .. k : IsNearest(Admitted, S, y, j) /\ j <= Bound /\ j <= Cardinality(Nodes)
<1>1. PICK j \in 0 .. k : IsNearest(Admitted, S, y, j)
  BY NearestIs
<1>2. j <= Cardinality(edges) /\ j <= Cardinality(Nodes)
  BY <1>1, TouchedIs
<1>3. j <= Bound
  <2>1. CASE query.depth = Unbounded
    BY <1>2, <2>1 DEF Bound
  <2>2. CASE query.depth # Unbounded
    BY <2>2, TouchedIs
  <2> QED BY <2>1, <2>2
<1> QED BY <1>1, <1>2, <1>3

LEMMA DistanceIs ==
  ASSUME AskedInv, NEW r, NEW y, y \in ReachOf({r})
  PROVE  /\ Distance(Admitted, r, y, query.dir) \in 0 .. Bound
         /\ IsNearest(Admitted, {r}, y, Distance(Admitted, r, y, query.dir))
<1>1. PICK i \in 0 .. Bound : y \in LayerOf(Admitted, {r}, i)
  BY TouchedIs
<1>2. Bound \in Nat /\ i \in Nat /\ (query.depth = Unbounded \/ i <= query.depth)
  BY TouchedIs
<1>3. PICK j \in 0 .. i : IsNearest(Admitted, {r}, y, j) /\ j <= Bound /\ j <= Cardinality(Nodes)
  BY <1>1, <1>2, NearestReached
<1>4. PICK c \in Nat : c = Cardinality(Nodes)
  BY TouchedIs
<1>5. PICK layer : layer = Layers(Admitted, {r}, query.dir, c)
  OBVIOUS
<1>6. \A k \in 0 .. c : layer[k] = LayerOf(Admitted, {r}, k)
  BY <1>5, LayerOfIs, ZenonT(60)
<1> DEFINE S == {k \in 0 .. c : y \in layer[k]}
<1>7. j \in S /\ \A k \in S : j <= k /\ k \in Nat
  <2>1. j \in Nat /\ j \in 0 .. c /\ y \in LayerOf(Admitted, {r}, j)
    BY <1>2, <1>3, <1>4 DEF IsNearest
  <2>2. ASSUME NEW k \in S PROVE j <= k /\ k \in Nat
    <3>1. k \in Nat /\ y \in LayerOf(Admitted, {r}, k)
      BY <1>6
    <3> QED BY <1>3, <2>1, <3>1, NearestLeast
  <2> QED BY <1>6, <2>1, <2>2
<1>8. Distance(Admitted, r, y, query.dir) = Min(S)
  BY <1>4, <1>5 DEF Distance
<1>9. Min(S) = j
  <2>1. S \in SUBSET Nat
    BY <1>7
  <2> HIDE DEF S
  <2> QED BY <1>7, <2>1, MinIs
<1>10. j \in 0 .. Bound
  BY <1>2, <1>3
<1> QED BY <1>3, <1>8, <1>9, <1>10

LEMMA DepthOfIs ==
  ASSUME AskedInv, NEW y \in Touched
  PROVE  /\ DepthOf(y) \in 0 .. Bound
         /\ IsNearest(Admitted, Roots, y, DepthOf(y))
<1>1. PICK i \in 0 .. Bound : y \in LayerOf(Admitted, Roots, i)
  BY TouchedIs DEF Touched
<1>2. Bound \in Nat /\ i \in Nat
  BY TouchedIs
<1> DEFINE D(r) == Distance(Admitted, r, y, query.dir)
           R == {r \in Roots : y \in ReachOf({r})}
           S == {D(r) : r \in R}
<1>3. \A r \in R : D(r) \in 0 .. Bound /\ IsNearest(Admitted, {r}, y, D(r))
  BY DistanceIs
<1>4. ASSUME NEW k \in 0 .. Bound, y \in LayerOf(Admitted, Roots, k) PROVE \E r \in R : D(r) <= k
  <2>1. k \in Nat
    BY <1>2
  <2>2. PICK r \in Roots : y \in LayerOf(Admitted, {r}, k)
    BY <1>4, <2>1, LayerOfEach DEF IsOfEach
  <2>3. y \in ReachOf({r})
    BY <2>2, TouchedIs
  <2>4. D(r) \in 0 .. Bound /\ IsNearest(Admitted, {r}, y, D(r))
    BY <2>3, DistanceIs
  <2> HIDE DEF D
  <2>5. D(r) \in Nat
    BY <1>2, <2>4
  <2>6. D(r) <= k
    BY <2>1, <2>2, <2>4, <2>5, NearestLeast
  <2> QED BY <2>3, <2>6
<1> HIDE DEF D
<1>5. S \in SUBSET Nat /\ S # {}
  <2>1. \A r \in R : D(r) \in Nat
    BY <1>2, <1>3
  <2>2. \E r \in R : TRUE
    BY <1>1, <1>4
  <2> QED BY <2>1, <2>2
<1>6. PICK m \in S : \A k \in S : m <= k
  <2> HIDE DEF S
  <2> QED BY <1>5, LeastNat
<1>7. DepthOf(y) = m
  <2>1. DepthOf(y) = Min(S)
    BY DEF DepthOf, D
  <2> HIDE DEF S
  <2> QED BY <1>5, <1>6, <2>1, MinIs
<1>8. PICK r \in R : m = D(r)
  BY <1>6
<1>9. m \in 0 .. Bound /\ y \in LayerOf(Admitted, Roots, m)
  <2>1. m \in Nat /\ y \in LayerOf(Admitted, {r}, m) /\ r \in Roots
    BY <1>2, <1>3, <1>8 DEF IsNearest
  <2>2. y \in LayerOf(Admitted, Roots, m)
    BY <2>1, LayerOfEach DEF IsOfEach
  <2> QED BY <1>3, <1>8, <2>2
<1>10. ASSUME NEW k \in 0 .. m - 1, y \in LayerOf(Admitted, Roots, k) PROVE FALSE
  <2>1. k \in 0 .. Bound /\ k < m
    BY <1>2, <1>9
  <2>2. PICK q \in R : D(q) <= k
    BY <1>4, <1>10, <2>1
  <2>3. D(q) \in S /\ D(q) \in Nat
    <3>1. D(q) \in S
      OBVIOUS
    <3>2. D(q) \in 0 .. Bound
      BY <1>3
    <3> QED BY <1>2, <3>1, <3>2
  <2>4. m <= D(q)
    BY <1>6, <2>3
  <2> QED BY <1>2, <1>9, <2>1, <2>2, <2>3, <2>4
<1> QED BY <1>7, <1>9, <1>10 DEF IsNearest

-------------------------------------------------------------------------------
(* Where the scan is silent.                                               *)
IsSilent == IsPlainScope /\ FrontierReasons = {}

LEMMA SilentAt ==
  ASSUME IsSilent, NEW n \in Touched, NEW code \in Codes
  PROVE  ~ Shows(n, code)
BY DEF IsSilent, FrontierReasons

LEMMA AdmittedIsMeant ==
  ASSUME AskedInv
  PROVE  Admitted \subseteq Meant \cap edges
<1>1. ASSUME NEW e \in Admitted PROVE e \in edges /\ Admits(query.filter, e)
  BY EdgesSeen DEF NeighborsOf, Neighbors
<1>2. \A e \in edges : e \in program /\ e.lost = "no"
  BY DEF edges, InGraph
<1> QED BY <1>1, <1>2 DEF Meant, Admits

(* A call from a touched node that the graph has is one the walk took. *)
LEMMA SilentAdmits ==
  ASSUME AskedInv, IsSilent, NEW e \in Meant, SourceOf(e) \in Touched, e.lost = "no"
  PROVE  e \in Admitted
<1>1. PICK n \in Touched : n = SourceOf(e)
  OBVIOUS
<1>2. e \in edges /\ OfKind(query.filter, e) /\ MeetsCondition(query.filter, e)
  BY DEF Meant, edges, InGraph
<1>3. e \in Scanned(n)
  BY <1>1, <1>2 DEF Scanned, SourceOf
<1>4. e.confidence \in 0 .. 2 /\ query.filter.floor \in 0 .. 2
  BY <1>2, EdgesSeen, QueryAssumption DEF AskedInv, QueryAssumption
<1>5. ~ Shows(n, "below-confidence-floor") /\ ~ Shows(n, "dropped-max-candidates")
  BY SilentAt DEF Codes
<1>6. e.confidence >= query.filter.floor
  BY <1>3, <1>4, <1>5 DEF Shows
<1>7. WithinCap(query.filter, edges, e)
  BY <1>3, <1>5, <1>6 DEF Shows
<1>8. e \in NeighborsOf(n)
  BY <1>1, <1>2, <1>6, <1>7 DEF NeighborsOf, Neighbors, Admits, SourceOf
<1> QED BY <1>8, EdgesSeen

(* A call from one that left no edge was reported, or is beyond the depth. *)
LEMMA SilentLoses ==
  ASSUME AskedInv, IsSilent, NEW e \in Meant, SourceOf(e) \in Touched, e.lost # "no"
  PROVE  AtHorizon(SourceOf(e))
<1>1. PICK n \in Touched : n = SourceOf(e)
  OBVIOUS
<1>2. /\ e \in program /\ OfKind(query.filter, e)
      /\ e.lost \in {"unresolved", "narrowed"} /\ e.kind \in CallKinds
      /\ e.lost = "unresolved" => query.dir = "forward"
  BY ProgramAssumption DEF Meant, AskedInv, ProgramAssumption
<1>3. IsCallScope
  BY <1>2 DEF OfKind, IsSilent, IsPlainScope, IsCallScope
<1>4. query.dir \in {"forward", "backward"}
  BY QueryAssumption DEF AskedInv, QueryAssumption
<1>5. /\ ~ Shows(n, "unresolved-external-calls") /\ ~ Shows(n, "receiver-narrowed")
      /\ ~ Shows(n, "receiver-narrowed-away")
  BY SilentAt DEF Codes
<1>6. ASSUME query.dir = "forward", e.lost = "unresolved" PROVE FALSE
  <2>1. e \in UnresolvedCalls(program, n) /\ CountsForward
    BY <1>1, <1>2, <1>3, <1>6 DEF UnresolvedCalls, CountsForward, SourceOf, Source
  <2> QED BY <1>5, <2>1 DEF Shows
<1>7. ASSUME query.dir = "forward", e.lost = "narrowed", ~ AtHorizon(n) PROVE FALSE
  <2>1. e \in NarrowedOut(program, n) /\ CountsForward
    BY <1>1, <1>2, <1>3, <1>7 DEF NarrowedOut, CountsForward, SourceOf, Source
  <2> QED BY <1>5, <1>7, <2>1 DEF Shows
<1>8. ASSUME query.dir = "backward", e.lost = "narrowed", ~ AtHorizon(n) PROVE FALSE
  <2>1. e \in NarrowedAwayIn(program, n) /\ CountsBackward
    BY <1>1, <1>2, <1>3, <1>8 DEF NarrowedAwayIn, CountsBackward, SourceOf, Source
  <2> QED BY <1>5, <1>8, <2>1 DEF Shows
<1> QED BY <1>1, <1>2, <1>4, <1>6, <1>7, <1>8

(* No admitted edge leads out of the region. *)
LEMMA SilentStays ==
  ASSUME AskedInv, IsSilent, NEW e \in Admitted, SourceOf(e) \in Touched
  PROVE  PeerOf(e) \in Touched
<1>1. PICK n \in Touched : n = SourceOf(e)
  OBVIOUS
<1>2. CASE AtHorizon(n)
  <2>1. ~ Shows(n, "depth-limit")
    BY SilentAt DEF Codes
  <2>2. e \in NeighborsOf(n)
    BY <1>1, EdgesSeen
  <2> QED BY <1>2, <2>1, <2>2 DEF Shows
<1>3. CASE ~ AtHorizon(n)
  <2>1. PICK k \in 0 .. Bound : k = DepthOf(n) /\ n \in LayerOf(Admitted, Roots, k)
    BY DepthOfIs DEF IsNearest
  <2>2. Bound \in Nat /\ k \in Nat /\ k + 1 \in Nat
    BY TouchedIs
  <2>3. query.depth = Unbounded \/ k + 1 <= query.depth
    BY <1>3, <2>1, <2>2, TouchedIs DEF AtHorizon
  <2>4. Beyond(Admitted, query.dir, LayerOf(Admitted, Roots, k), PeerOf(e))
    BY <1>1, <2>1 DEF Beyond, SourceOf, PeerOf
  <2>5. PeerOf(e) \in LayerOf(Admitted, Roots, k + 1)
    BY <2>2, <2>4, LayerOfIs
  <2>6. PICK j \in 0 .. k + 1 : IsNearest(Admitted, Roots, PeerOf(e), j) /\ j <= Bound
    BY <2>2, <2>3, <2>5, NearestReached
  <2>7. j \in 0 .. Bound /\ PeerOf(e) \in LayerOf(Admitted, Roots, j)
    BY <2>2, <2>6 DEF IsNearest
  <2> QED BY <2>7, TouchedIs DEF Touched
<1> QED BY <1>2, <1>3

LEMMA DepthMeantIs ==
  ASSUME AskedInv
  PROVE  /\ DepthMeant \in Nat
         /\ query.depth # Unbounded => DepthMeant = query.depth
BY TouchedIs DEF DepthMeant

LEMMA RootsAreTouched ==
  ASSUME AskedInv
  PROVE  Roots \subseteq Touched
<1>1. 0 \in 0 .. Bound /\ LayerOf(Admitted, Roots, 0) = Roots
  BY TouchedIs, LayerOfIs
<1> QED BY <1>1, TouchedIs DEF Touched

(* Nothing meant is further than it is in the graph. *)
IsCovered(j) ==
  \A y \in LayerOf(Meant, Roots, j) : y \in Touched /\ \E i \in 0 .. j : y \in LayerOf(Admitted, Roots, i)

LEMMA MeantIsTouched ==
  ASSUME AskedInv, IsSilent
  PROVE  ReachMeant \subseteq Touched
<1>1. PICK d \in Nat : d = DepthMeant
  BY DepthMeantIs
<1> DEFINE T == {j \in Nat : j <= d => IsCovered(j)}
<1>2. 0 \in T
  <2>1. LayerOf(Meant, Roots, 0) = Roots /\ LayerOf(Admitted, Roots, 0) = Roots
    BY LayerOfIs
  <2> QED BY <2>1, RootsAreTouched DEF IsCovered
<1>3. ASSUME NEW j \in Nat, j \in T PROVE j + 1 \in T
  <2>1. ASSUME j + 1 <= d, NEW y \in LayerOf(Meant, Roots, j + 1)
        PROVE  y \in Touched /\ \E i \in 0 .. j + 1 : y \in LayerOf(Admitted, Roots, i)
    <3>1. PICK e \in Meant : SourceOf(e) \in LayerOf(Meant, Roots, j) /\ PeerOf(e) = y
      BY <2>1, LayerOfIs DEF Beyond, SourceOf, PeerOf
    <3>2. PICK n : n = SourceOf(e)
      OBVIOUS
    <3>3. n \in Touched /\ \E i \in 0 .. j : n \in LayerOf(Admitted, Roots, i)
      BY <1>3, <2>1, <3>1, <3>2 DEF IsCovered
    <3>4. PICK i \in 0 .. j : n \in LayerOf(Admitted, Roots, i)
      BY <3>3
    <3>5. ~ AtHorizon(n)
      <4>1. PICK k \in 0 .. Bound : k = DepthOf(n) /\ IsNearest(Admitted, Roots, n, k)
        BY <3>3, DepthOfIs
      <4>2. k \in Nat /\ i \in Nat
        BY TouchedIs
      <4>3. k <= i
        BY <3>4, <4>1, <4>2, NearestLeast
      <4> QED BY <1>1, <2>1, <4>1, <4>2, <4>3, DepthMeantIs DEF AtHorizon
    <3>6. e \in Admitted
      BY <3>2, <3>3, <3>5, SilentAdmits, SilentLoses
    <3>7. y \in Touched
      BY <3>1, <3>2, <3>3, <3>6, SilentStays
    <3>8. Beyond(Admitted, query.dir, LayerOf(Admitted, Roots, i), y)
      BY <3>1, <3>2, <3>4, <3>6 DEF Beyond, SourceOf, PeerOf
    <3>9. i \in Nat /\ i + 1 \in 0 .. j + 1
      OBVIOUS
    <3>10. y \in LayerOf(Admitted, Roots, i + 1)
      BY <3>8, <3>9, LayerOfIs
    <3> QED BY <3>7, <3>9, <3>10
  <2>2. j + 1 <= d => IsCovered(j + 1)
    BY <2>1 DEF IsCovered
  <2> QED BY <2>2
<1>4. 0 .. d \subseteq T
  <2>1. \A j \in 0 .. d - 1 : j \in Nat
    OBVIOUS
  <2> HIDE DEF T
  <2> QED BY <1>2, <1>3, <2>1, UpTo
<1>5. \A j \in 0 .. d : IsCovered(j)
  BY <1>4
<1>6. ASSUME NEW y \in ReachMeant PROVE y \in Touched
  <2>1. PICK j \in 0 .. d : y \in LayerOf(Meant, Roots, j)
    BY <1>1, <1>6, WithinIs DEF ReachMeant
  <2> QED BY <1>5, <2>1 DEF IsCovered
<1> QED BY <1>6

(* However far one follows the edges the graph has. *)
LEMMA EdgesStayTouched ==
  ASSUME AskedInv, IsSilent, NEW k \in Nat
  PROVE  LayerOf(Meant \cap edges, Roots, k) \subseteq Touched
<1> DEFINE T == {j \in Nat : LayerOf(Meant \cap edges, Roots, j) \subseteq Touched}
<1>1. 0 \in T
  BY LayerOfIs, RootsAreTouched
<1>2. ASSUME NEW j \in Nat, j \in T PROVE j + 1 \in T
  <2>1. ASSUME NEW y \in LayerOf(Meant \cap edges, Roots, j + 1) PROVE y \in Touched
    <3>1. PICK e \in Meant \cap edges : SourceOf(e) \in LayerOf(Meant \cap edges, Roots, j) /\ PeerOf(e) = y
      <4>1. Beyond(Meant \cap edges, query.dir, LayerOf(Meant \cap edges, Roots, j), y)
        BY <2>1, LayerOfIs, ZenonT(60)
      <4> QED BY <4>1 DEF Beyond, SourceOf, PeerOf
    <3>2. SourceOf(e) \in Touched /\ e.lost = "no"
      BY <1>2, <3>1 DEF edges, InGraph
    <3>3. e \in Admitted
      BY <3>1, <3>2, SilentAdmits
    <3> QED BY <3>1, <3>2, <3>3, SilentStays
  <2>2. LayerOf(Meant \cap edges, Roots, j + 1) \subseteq Touched
    BY <2>1
  <2> QED BY <2>2
<1>3. 0 .. k \subseteq T
  <2>1. \A j \in 0 .. k - 1 : j \in Nat
    OBVIOUS
  <2> HIDE DEF T
  <2> QED BY <1>1, <1>2, <2>1, UpTo
<1> QED BY <1>3

(* Where the scan is silent, the region is all that is meant.              *)
LEMMA SilentIsWhole ==
  ASSUME AskedInv, IsSilent
  PROVE  /\ Touched = ReachMeant
         /\ ReachMeant = Within(Meant \cap edges, Roots, query.dir, Cardinality(Nodes))
<1>1. PICK c \in Nat : c = Cardinality(Nodes)
  BY TouchedIs
<1> DEFINE W == Within(Meant \cap edges, Roots, query.dir, c)
<1>2. DepthMeant \in Nat /\ Bound \in Nat
  BY DepthMeantIs, TouchedIs
<1>3. W \subseteq Touched
  <2>1. ASSUME NEW y \in W PROVE y \in Touched
    <3>1. PICK j \in 0 .. c : y \in LayerOf(Meant \cap edges, Roots, j)
      BY <2>1, WithinIs
    <3> QED BY <3>1, EdgesStayTouched
  <2> QED BY <2>1
<1>4. ASSUME NEW y \in Touched PROVE y \in ReachMeant /\ y \in W
  <2>1. PICK k \in 0 .. Bound : IsNearest(Admitted, Roots, y, k)
    BY DepthOfIs
  <2>2. k \in Nat /\ k <= c /\ k <= DepthMeant
    <3>1. k \in Nat
      BY <1>2
    <3>2. k <= c
      BY <1>1, <2>1, <3>1, TouchedIs
    <3>3. query.depth # Unbounded => k <= DepthMeant
      BY <1>2, <2>1, TouchedIs DEF DepthMeant
    <3>4. query.depth = Unbounded => DepthMeant = c
      BY <1>1 DEF DepthMeant
    <3> QED BY <3>1, <3>2, <3>3, <3>4
  <2>3. y \in LayerOf(Admitted, Roots, k)
    BY <2>1 DEF IsNearest
  <2>4. y \in LayerOf(Meant \cap edges, Roots, k)
    BY <2>2, <2>3, AdmittedIsMeant, LayerOfMore
  <2>5. y \in LayerOf(Meant, Roots, k)
    BY <2>2, <2>4, LayerOfMore
  <2>6. k \in 0 .. c /\ k \in 0 .. DepthMeant
    BY <1>2, <2>2
  <2> QED BY <1>2, <2>4, <2>5, <2>6, WithinIs DEF ReachMeant
<1>5. Touched = ReachMeant
  BY <1>4, MeantIsTouched
<1>6. Touched = W
  BY <1>3, <1>4
<1> QED BY <1>1, <1>5, <1>6

-------------------------------------------------------------------------------
(* unused: the roots done with have all they reach among the used.         *)
UsedInv ==
  query.op = "unused" =>
    /\ Range(roots) \subseteq Range(query.roots)
    /\ used \subseteq Touched
    /\ \A r \in Range(query.roots) : r \in Range(roots) \/ ReachOf({r}) \subseteq used

LEMMA EachReached ==
  ASSUME AskedInv
  PROVE  \A y : y \in Touched <=> \E r \in Roots : y \in ReachOf({r})
<1>1. \A k \in 0 .. Bound : k \in Nat
  BY TouchedIs
<1>2. \A k \in 0 .. Bound : IsOfEach(Admitted, Roots, k)
  BY <1>1, LayerOfEach
<1>3. /\ \A y : y \in Touched <=> \E i \in 0 .. Bound : y \in LayerOf(Admitted, Roots, i)
      /\ \A r, y : y \in ReachOf({r}) <=> \E i \in 0 .. Bound : y \in LayerOf(Admitted, {r}, i)
  BY TouchedIs DEF Touched
<1> QED BY <1>2, <1>3 DEF IsOfEach

LEMMA TouchedSame ==
  ASSUME UNCHANGED asked
  PROVE  /\ Touched' = Touched /\ Roots' = Roots
         /\ \A S : ReachOf(S)' = ReachOf(S)
<1>1. query' = query /\ edges' = edges /\ Admitted' = Admitted
  BY AskedSame
<1>2. \A S : ReachOf(S)' = ReachOf(S)
  BY <1>1 DEF ReachOf, Bound
<1>3. Roots' = Roots
  BY <1>1 DEF Roots
<1> QED BY <1>2, <1>3 DEF Touched

LEMMA UsedInit == WalkInit => UsedInv
<1> SUFFICES ASSUME WalkInit, query.op = "unused" PROVE UsedInv
  BY DEF UsedInv
<1>1. AskedInv /\ roots = query.roots /\ query.roots \in Seq(Nodes)
  BY QueryAssumption DEF WalkInit, AskedInv, QueryAssumption
<1>2. used = IF query.roots # <<>> THEN {Head(query.roots)} ELSE {}
  BY DEF WalkInit
<1>3. used \subseteq Range(query.roots)
  BY <1>1, <1>2 DEF Range
<1>4. Roots = Range(query.roots)
  BY DEF Roots
<1> QED BY <1>1, <1>3, <1>4, RootsAreTouched DEF UsedInv

LEMMA UsedStep ==
  ASSUME AskedInv, BfsInv, UsedInv, [WalkNext]_pathVars
  PROVE  UsedInv'
<1>1. UNCHANGED asked
  BY DEF WalkNext, Discover, EndDiscover, Weaken, EndWeaken, EndRoot, NextLayer, Visit, Take, Retreat,
         pathVars
<1>2. query' = query
  BY <1>1, AskedSame
<1>3. /\ Touched' = Touched /\ \A S : ReachOf(S)' = ReachOf(S)
  BY <1>1, TouchedSame
<1>4. CASE query.op # "unused"
  BY <1>2, <1>4 DEF UsedInv
<1>5. CASE query.op = "unused" /\ ~ EndRoot
  <2>1. roots' = roots /\ used' = used
    BY <1>5 DEF WalkNext, Discover, EndDiscover, Weaken, EndWeaken, NextLayer, Visit, Take, Retreat,
                pathVars, bfsVars
  <2> QED BY <1>2, <1>3, <2>1 DEF UsedInv
<1>6. CASE query.op = "unused" /\ EndRoot
  <2>1. pc = "discover" /\ frontier = <<>> /\ roots' = Tail(roots) /\ used' = used \cup seen
    BY <1>6 DEF EndRoot, Collected
  <2>2. roots \in Seq(Nodes) /\ roots # <<>> /\ FoundInv /\ SeenIsMet /\ QueueInv
    BY <1>6, <2>1 DEF BfsInv, IsBreadth
  <2>3. Start = Head(roots)
    BY <1>6, <2>2 DEF Start
  <2>4. Expanded
    <3>1. \A n : ~ IsQueued(n)
      BY <2>1 DEF IsQueued
    <3> QED BY <2>1, <2>2, <3>1 DEF QueueInv, Expanded
  <2>5. seen = ReachOf({Start})
    <3>1. {d.node : d \in found} = ReachOf({Start}) \ {Start}
      BY <2>2, <2>4, FoundIsReached
    <3>2. Start \in ReachOf({Start})
      BY MetIsReached, <2>2 DEF IsMet, IsReached
    <3> QED BY <2>2, <3>1, <3>2 DEF SeenIsMet
  <2>6. \A r : r \in Range(roots) <=> r = Head(roots) \/ r \in Range(Tail(roots))
    <3>1. PICK n \in Nat \ {0} : n = Len(roots)
      BY <2>2
    <3>2. PICK tl \in Seq(Nodes) : tl = Tail(roots)
      <4>1. Tail(roots) \in Seq(Nodes)
        BY <2>2
      <4> QED BY <4>1
    <3>3. Len(tl) = n - 1 /\ \A i \in 1 .. n - 1 : tl[i] = roots[i + 1]
      BY <2>2, <3>1, <3>2
    <3>4. DOMAIN tl = 1 .. n - 1
      BY <3>2, <3>3
    <3>5. \A r : r \in Range(Tail(roots)) <=> \E i \in 1 .. n - 1 : roots[i + 1] = r
      BY <3>2, <3>3, <3>4 DEF Range
    <3>6. \A r : r \in Range(roots) <=> \E i \in 1 .. n : roots[i] = r
      BY <2>2, <3>1 DEF Range
    <3>7. Head(roots) = roots[1]
      BY <2>2
    <3>8. ASSUME NEW i \in 1 .. n PROVE i = 1 \/ \E j \in 1 .. n - 1 : i = j + 1
      <4>1. i = 1 \/ (i - 1 \in 1 .. n - 1 /\ i = (i - 1) + 1)
        OBVIOUS
      <4> QED BY <4>1
    <3>9. 1 \in 1 .. n /\ \A j \in 1 .. n - 1 : j + 1 \in 1 .. n
      OBVIOUS
    <3> QED BY <3>5, <3>6, <3>7, <3>8, <3>9
  <2>7. Start \in Roots /\ ReachOf({Start}) \subseteq Touched
    <3>1. Start \in Roots
      BY <1>6, <2>3, <2>6 DEF UsedInv, Roots
    <3> QED BY <3>1, EachReached
  <2> QED BY <1>2, <1>3, <1>6, <2>1, <2>3, <2>5, <2>6, <2>7 DEF UsedInv
<1> QED BY <1>4, <1>5, <1>6

(* When the last root is done, the used are all there are to reach.        *)
LEMMA UsedIsTouched ==
  ASSUME AskedInv, BfsInv, UsedInv, pc = "done", query.op = "unused"
  PROVE  used = Touched
<1>1. roots = <<>>
  BY DEF BfsInv, IsBreadth
<1>2. Range(roots) = {}
  BY <1>1 DEF Range
<1>3. Roots = Range(query.roots)
  BY DEF Roots
<1>4. \A r \in Roots : ReachOf({r}) \subseteq used
  BY <1>2, <1>3 DEF UsedInv
<1>5. Touched \subseteq used
  BY <1>4, EachReached
<1> QED BY <1>5 DEF UsedInv

-------------------------------------------------------------------------------
(* What the rows of an exact answer rest on.                               *)
IsSure(w) == \A i \in DOMAIN w : w[i].group = 0 /\ w[i].confidence > 0

LEMMA WaysAreSure ==
  ASSUME AskedInv, BfsInv, TwiceInv, pc = "done", query.op = "neighbors",
         \A d \in found : weakest[d.node] # 0 /\ d.via.group = 0
  PROVE  \A d \in found : IsSure(WayTo(d.node))
<1>1. FoundInv /\ IsNear
  BY DEF BfsInv, IsBreadth, IsNear
<1>2. /\ \A d \in found : d.depth \in Nat /\ d.via \in Admitted /\ d.via.confidence \in 0 .. 2
      /\ \A d \in found : d.node # query.from
  BY <1>1, EdgesSeen, StartsFrom DEF FoundInv, FoundTypes
<1>3. /\ WayTo(query.from) = <<>>
      /\ \A d \in found : WayTo(d.node) = Append(WayTo(Source(d.via, query.dir)), d.via)
  BY <1>1, WayToIs
<1>4. /\ weakest[query.from] = 2
      /\ \A d \in found : weakest[d.node] = Weakest(weakest[Source(d.via, query.dir)], d.via.confidence)
  BY CarriedToFound
<1>5. \A n, k, x : IsMet(n, k, x) => Told(n, x)
  BY <1>1, <1>4, WaysAreTold
<1> DEFINE T == {m \in Nat : \A n, x : IsMet(n, m, x) => IsSure(WayTo(n))}
<1>6. \A n, x : IsMet(n, 0, x) => IsSure(WayTo(n))
  <2>1. ASSUME NEW d \in found PROVE d.depth # 0
    <3>1. PICK k \in Nat : d.depth = k + 1
      BY <1>1 DEF FoundInv, FoundFrom
    <3> QED BY <3>1
  <2>2. ASSUME NEW n, NEW x, IsMet(n, 0, x) PROVE n = query.from
    BY <1>1, <2>1, <2>2, StartsFrom DEF IsMet, IsNear
  <2>3. IsSure(<<>>)
    BY DEF IsSure
  <2> QED BY <1>3, <2>2, <2>3
<1>7. ASSUME NEW m \in Nat, m \in T PROVE m + 1 \in T
  <2>1. ASSUME NEW n, NEW x, IsMet(n, m + 1, x) PROVE IsSure(WayTo(n))
    <3>1. PICK d \in found : d.node = n /\ d.depth = m + 1
      BY <2>1 DEF IsMet
    <3>2. PICK src : src = Source(d.via, query.dir)
      OBVIOUS
    <3>3. PICK k \in Nat, y \in BOOLEAN : IsMet(src, k, y) /\ d.depth = k + 1
      BY <1>1, <3>2 DEF FoundInv, FoundFrom
    <3>4. k = m
      BY <3>1, <3>3
    <3>5. IsSure(WayTo(src)) /\ Told(src, y)
      BY <1>5, <1>7, <3>3, <3>4
    <3>6. PICK w : w = WayTo(src)
      OBVIOUS
    <3>7. w \in Seq(Admitted) /\ WayTo(n) = Append(w, d.via)
      BY <1>3, <3>1, <3>2, <3>5, <3>6 DEF Told
    <3>8. d.via.group = 0 /\ d.via.confidence > 0
      <4>1. weakest[n] # 0 /\ weakest[n] = Weakest(weakest[src], d.via.confidence)
        BY <1>4, <3>1, <3>2
      <4>2. weakest[src] = WeakestOf(w)
        BY <3>5, <3>6 DEF Told
      <4>3. WeakestOf(w) \in 0 .. 2
        BY <3>7, EdgesSeen, WeakestOfAppend, <1>2
      <4> QED BY <1>2, <4>1, <4>2, <4>3 DEF Weakest
    <3>9. IsSure(w)
      BY <3>5, <3>6
    <3>10. IsSure(Append(w, d.via))
      <4>1. PICK v \in Seq(Admitted), l \in Nat : v = Append(w, d.via) /\ l = Len(w)
        BY <1>2, <3>7
      <4>2. DOMAIN w = 1 .. l /\ DOMAIN v = 1 .. l + 1 /\ v[l + 1] = d.via
        BY <1>2, <3>7, <4>1
      <4>3. \A i \in 1 .. l : v[i] = w[i]
        BY <1>2, <3>7, <4>1
      <4>4. \A i \in 1 .. l + 1 : i \in 1 .. l \/ i = l + 1
        BY <4>1
      <4> QED BY <3>8, <3>9, <4>1, <4>2, <4>3, <4>4 DEF IsSure
    <3> QED BY <3>7, <3>10
  <2>2. m + 1 \in Nat
    OBVIOUS
  <2> QED BY <2>1, <2>2
<1>8. ASSUME NEW d \in found PROVE IsSure(WayTo(d.node))
  <2>1. IsMet(d.node, d.depth, d.exc) /\ d.depth \in Nat
    BY <1>2 DEF IsMet
  <2>2. 0 \in T
    BY <1>6
  <2>3. 0 .. d.depth \subseteq T
    <3>1. \A m \in 0 .. d.depth - 1 : m \in Nat
      BY <2>1
    <3> HIDE DEF T
    <3> QED BY <1>7, <2>1, <2>2, <3>1, UpTo
  <2>4. d.depth \in T
    BY <2>1, <2>3
  <2> QED BY <2>1, <2>4
<1> QED BY <1>8

-------------------------------------------------------------------------------
(* A node at distance k is the end of a walk that meets a node at every    *)
(* distance on its way, so none twice.                                     *)
IsDirect(r) == IsWalk(r) /\ \A i \in 0 .. Len(r) : IsNearest(Admitted, {query.from}, At(r, i), i)

AreDirect(k) ==
  \A n : IsNearest(Admitted, {query.from}, n, k) => \E r : IsDirect(r) /\ Len(r) = k /\ At(r, k) = n

LEMMA DirectWalk ==
  ASSUME AskedInv, NEW k \in Nat, NEW y, IsNearest(Admitted, {query.from}, y, k)
  PROVE  \E r : IsDirect(r) /\ Len(r) = k /\ At(r, k) = y
<1> DEFINE Near(m, n) == IsNearest(Admitted, {query.from}, n, m)
           T == {m \in Nat : AreDirect(m)}
<1>1. 0 \in T
  <2>1. ASSUME NEW n, Near(0, n) PROVE \E r : IsDirect(r) /\ Len(r) = 0 /\ At(r, 0) = n
    <3>1. n = query.from
      BY <2>1, LayerOfIs DEF IsNearest
    <3>2. << >> \in Seq(Admitted) /\ Len(<< >>) = 0 /\ At(<< >>, 0) = query.from
      BY DEF At
    <3>3. \A i \in 0 .. 0 : i = 0
      OBVIOUS
    <3>4. IsWalk(<< >>)
      BY <3>2 DEF IsWalk
    <3>5. IsDirect(<< >>)
      BY <2>1, <3>1, <3>2, <3>3, <3>4 DEF IsDirect
    <3> QED BY <3>1, <3>2, <3>5
  <2> QED BY <2>1 DEF AreDirect
<1>2. ASSUME NEW m \in Nat, m \in T PROVE m + 1 \in T
  <2>1. ASSUME NEW n, Near(m + 1, n) PROVE \E r : IsDirect(r) /\ Len(r) = m + 1 /\ At(r, m + 1) = n
    <3>1. PICK e \in Admitted : PeerOf(e) = n /\ Near(m, SourceOf(e))
      BY <2>1, NearestBefore DEF PeerOf, SourceOf
    <3>2. PICK w : IsDirect(w) /\ Len(w) = m /\ At(w, m) = SourceOf(e)
      BY <1>2, <3>1 DEF AreDirect
    <3>3. PICK r \in Seq(Admitted) : r = Append(w, e)
      <4>1. w \in Seq(Admitted)
        BY <3>2 DEF IsDirect, IsWalk
      <4>2. Append(w, e) \in Seq(Admitted)
        BY <4>1
      <4> QED BY <4>2
    <3>4. Len(r) = m + 1 /\ r[m + 1] = e /\ \A i \in 1 .. m : r[i] = w[i]
      BY <3>2, <3>3 DEF IsDirect, IsWalk
    <3>5. \A i \in 0 .. m : At(r, i) = At(w, i)
      <4>1. \A i \in 0 .. m : i = 0 \/ i \in 1 .. m
        OBVIOUS
      <4> QED BY <3>4, <4>1 DEF At
    <3>6. At(r, m + 1) = n
      <4>1. m + 1 # 0
        OBVIOUS
      <4> QED BY <3>1, <3>4, <4>1 DEF At
    <3>7. ASSUME NEW i \in 1 .. m + 1 PROVE SourceOf(r[i]) = At(r, i - 1)
      <4>1. CASE i \in 1 .. m
        <5>1. i - 1 \in 0 .. m
          BY <4>1
        <5> QED BY <3>2, <3>4, <3>5, <4>1, <5>1 DEF IsDirect, IsWalk
      <4>2. CASE i = m + 1
        <5>1. i - 1 = m /\ m \in 0 .. m
          BY <4>2
        <5> QED BY <3>2, <3>4, <3>5, <4>2, <5>1
      <4> QED BY <4>1, <4>2
    <3>8. ASSUME NEW i \in 0 .. m + 1 PROVE Near(i, At(r, i))
      <4>1. CASE i \in 0 .. m
        BY <3>2, <3>5, <4>1 DEF IsDirect
      <4>2. CASE i = m + 1
        BY <2>1, <3>6, <4>2
      <4> QED BY <4>1, <4>2
    <3>9. IsDirect(r)
      BY <3>3, <3>4, <3>7, <3>8 DEF IsDirect, IsWalk
    <3> QED BY <3>4, <3>6, <3>9
  <2>2. AreDirect(m + 1)
    BY <2>1 DEF AreDirect
  <2> QED BY <2>2
<1>3. 0 .. k \subseteq T
  <2>1. \A j \in 0 .. k - 1 : j \in Nat
    OBVIOUS
  <2> HIDE DEF T
  <2> QED BY <1>1, <1>2, <2>1, UpTo
<1>4. AreDirect(k)
  BY <1>3
<1> QED BY <1>4 DEF AreDirect

LEMMA DirectIsGoalRoute ==
  ASSUME AskedInv, query.op = "paths", query.from # Goal, Goal \in ReachOf({query.from})
  PROVE  \E r : IsGoalRoute(r)
<1>1. PICK b \in 0 .. Bound : Goal \in LayerOf(Admitted, {query.from}, b)
  BY TouchedIs
<1>2. Bound \in Nat /\ b \in Nat /\ \A i \in 0 .. Bound : WithinDepth(i)
  BY ReachedIs
<1>3. PICK k \in 0 .. b : IsNearest(Admitted, {query.from}, Goal, k)
  BY <1>1, <1>2, NearestIs
<1>4. k \in Nat
  BY <1>2
<1>5. PICK r : IsDirect(r) /\ Len(r) = k /\ At(r, k) = Goal
  BY <1>3, <1>4, DirectWalk
<1>6. k # 0
  BY <1>5 DEF At
<1>7. PeerOf(r[Len(r)]) = Goal
  BY <1>5, <1>6 DEF At
<1>8. \A i \in 1 .. k : At(r, i) = PeerOf(r[i])
  BY DEF At
<1>9. ASSUME NEW i \in 0 .. k, NEW j \in 0 .. k, At(r, i) = At(r, j) PROVE i = j
  <2>1. /\ IsNearest(Admitted, {query.from}, At(r, i), i) /\ IsNearest(Admitted, {query.from}, At(r, i), j)
        /\ i \in Nat /\ j \in Nat
    BY <1>4, <1>5, <1>9, SMTT(30) DEF IsDirect
  <2> QED BY <2>1, NearestOnce
<1>10. NoneRecurs(r)
  <2>1. ASSUME NEW i \in 1 .. k PROVE PeerOf(r[i]) # query.from
    <3>1. 0 \in 0 .. k /\ i \in 0 .. k /\ i # 0 /\ At(r, 0) = query.from
      BY <1>4 DEF At
    <3> QED BY <1>8, <1>9, <3>1
  <2>2. ASSUME NEW i \in 1 .. k, NEW j \in 1 .. k, PeerOf(r[i]) = PeerOf(r[j]) PROVE i = j
    <3>1. i \in 0 .. k /\ j \in 0 .. k
      BY <1>4
    <3> QED BY <1>8, <1>9, <2>2, <3>1
  <2> QED BY <1>5, <2>1, <2>2 DEF NoneRecurs, Mark
<1>11. ASSUME NEW i \in 1 .. k - 1 PROVE PeerOf(r[i]) # Goal
  <2>1. i \in 0 .. k /\ k \in 0 .. k /\ i # k /\ i \in 1 .. k
    BY <1>4
  <2> QED BY <1>5, <1>8, <1>9, <2>1
<1>12. \A i \in 1 .. k : WithinDepth(i)
  <2>1. \A i \in 1 .. k : i \in 0 .. Bound
    BY <1>2, <1>4
  <2> QED BY <1>2, <2>1
<1>13. IsRoute(r)
  BY <1>5, <1>10, <1>11, <1>12 DEF IsRoute, IsDirect, StopsAtGoal
<1> QED BY <1>5, <1>6, <1>4, <1>7, <1>13 DEF IsGoalRoute

-------------------------------------------------------------------------------
(* What each kind of answer shows of the region it is about.               *)
LEMMA ExactIsSilent ==
  ASSUME IsPlainScope, Exact, Scans
  PROVE  IsSilent
<1>1. FrontierReasons = {}
  BY DEF Exact, UnderReasons
<1> QED BY <1>1 DEF IsSilent

LEMMA ListedIsTouched ==
  ASSUME AskedInv, BfsInv, UsedInv, pc = "done", query.op \in {"neighbors", "unused"}
  PROVE  Listed = Touched
<1>1. CASE query.op = "unused"
  BY <1>1, UsedIsTouched DEF Listed
<1>2. CASE query.op = "neighbors"
  <2>1. FoundInv /\ Expanded /\ Start = query.from
    BY <1>2, StartsFrom DEF BfsInv, IsBreadth, IsNear
  <2>2. {d.node : d \in found} = ReachOf({query.from}) \ {query.from}
    BY <2>1, FoundIsReached
  <2>3. Roots = {query.from} /\ query.from \in Touched
    <3>1. Roots = {query.from}
      BY <1>2 DEF Roots
    <3> QED BY <3>1, RootsAreTouched
  <2> QED BY <1>2, <2>2, <2>3 DEF Listed, Touched
<1> QED BY <1>1, <1>2

(* A goal not found is nowhere in the region. *)
LEMMA NoWayIsOutside ==
  ASSUME AskedInv, BfsInv, DfsInv, pc = "done", truncation = "none",
         query.op \in {"reaches", "paths"}, Ways = {}, query.from # Goal
  PROVE  Goal \notin Touched /\ Scans
<1>1. Touched = ReachOf({query.from})
  BY DEF Touched, Roots
<1>2. CASE query.op = "reaches"
  <2>1. Goal \notin seen
    BY <1>2 DEF Ways, Reaches, DfsOps
  <2>2. FoundInv /\ SeenIsMet /\ Expanded /\ Start = query.from
    BY <1>2, <2>1, StartsFrom DEF BfsInv, IsBreadth, IsNear, Goal
  <2>3. Goal \notin ReachOf({query.from})
    BY <2>1, <2>2, SeenIsReached
  <2> QED BY <1>1, <1>2, <2>1, <2>3 DEF Scans, Reaches
<1>3. CASE query.op = "paths"
  <2>1. IsDeep
    BY <1>3 DEF IsDeep, DfsOps
  <2>2. PICK got : got = {RouteOf(paths[i]) : i \in DOMAIN paths}
    OBVIOUS
  <2>3. Cardinality(got) = Len(paths) /\ got = RoutesToGoal
    BY <2>1, <2>2, PathsAreAll
  <2>4. got = {}
    BY <1>3, <2>2 DEF Ways, DfsOps
  <2>5. paths = <<>>
    <3>1. paths \in Seq(Seq(Entry))
      BY <2>1 DEF DfsInv, PathsInv
    <3>2. DOMAIN paths = {}
      BY <2>2, <2>4
    <3> QED BY <3>1, <3>2
  <2>6. \A r : ~ IsGoalRoute(r)
    BY <2>1, <2>3, <2>4, GoalRoutes
  <2>7. Goal \notin ReachOf({query.from})
    BY <1>3, <2>6, DirectIsGoalRoute
  <2> QED BY <1>1, <1>3, <2>5, <2>7 DEF Scans
<1> QED BY <1>2, <1>3

LEMMA InvImpliesExact ==
  ASSUME AskedInv, BfsInv, TwiceInv, DfsInv, UsedInv
  PROVE  ExactIsWhole
<1> SUFFICES ASSUME pc = "done", IsPlainScope, Exact
             PROVE  /\ query.op \in {"neighbors", "unused"} =>
                         /\ Listed = ReachMeant
                         /\ ReachMeant = Within(Meant \cap edges, Roots, query.dir, Cardinality(Nodes))
                         /\ \A w \in Ways : \A i \in DOMAIN w : w[i].group = 0 /\ w[i].confidence > 0
                    /\ query.op \in {"reaches", "paths"} /\ Ways = {} /\ query.from # Goal =>
                         Goal \notin ReachMeant
  BY DEF ExactIsWhole
<1>1. ASSUME query.op \in {"neighbors", "unused"}
      PROVE  /\ Listed = ReachMeant
             /\ ReachMeant = Within(Meant \cap edges, Roots, query.dir, Cardinality(Nodes))
  <2>1. IsSilent
    BY <1>1, ExactIsSilent DEF Scans
  <2>2. Listed = Touched
    BY <1>1, ListedIsTouched
  <2> QED BY <2>1, <2>2, SilentIsWhole
<1>2. ASSUME query.op \in {"neighbors", "unused"}
      PROVE  \A w \in Ways : \A i \in DOMAIN w : w[i].group = 0 /\ w[i].confidence > 0
  <2>1. CASE query.op = "unused"
    BY <2>1 DEF Ways, DfsOps
  <2>2. CASE query.op = "neighbors"
    <3>1. \A d \in found : weakest[d.node] # 0 /\ d.via.group = 0
      BY <2>2 DEF Exact, OverApproximates
    <3>2. \A d \in found : IsSure(WayTo(d.node))
      BY <2>2, <3>1, WaysAreSure
    <3>3. Ways = {WayTo(d.node) : d \in found}
      BY <2>2 DEF Ways, DfsOps
    <3> QED BY <3>2, <3>3 DEF IsSure
  <2> QED BY <1>2, <2>1, <2>2
<1>3. ASSUME query.op \in {"reaches", "paths"}, Ways = {}, query.from # Goal
      PROVE  Goal \notin ReachMeant
  <2>1. truncation = "none"
    BY DEF Exact, UnderReasons
  <2>2. Goal \notin Touched /\ Scans
    BY <1>3, <2>1, NoWayIsOutside
  <2>3. IsSilent
    BY <2>2, ExactIsSilent
  <2> QED BY <2>2, <2>3, SilentIsWhole
<1> QED BY <1>1, <1>2, <1>3

(* An answer that calls itself exact is the whole truth (ExactIsWhole), of *)
(* every program and query: the callers, callees or unused symbols listed  *)
(* are those there are, and nothing leads where reaches and paths say so.  *)
THEOREM ExactAnswersAreWhole == WalkSpec => []ExactIsWhole
<1>1. WalkInit => AskedInv /\ BfsInv /\ TwiceInv /\ DfsInv /\ UsedInv
  BY BfsInit, TwiceInit, DfsInit, UsedInit
<1>2. ASSUME AskedInv, BfsInv, TwiceInv, DfsInv, UsedInv, [WalkNext]_pathVars
      PROVE  AskedInv' /\ BfsInv' /\ TwiceInv' /\ DfsInv' /\ UsedInv'
  <2>1. UsedInv'
    BY <1>2, UsedStep
  <2>2. CASE WalkNext
    BY <1>2, <2>1, <2>2, BfsStep, TwiceStep, DfsStep
  <2>3. CASE UNCHANGED pathVars
    <3>1. /\ UNCHANGED asked /\ found' = found /\ frontier' = frontier /\ seen' = seen
          /\ weakest' = weakest /\ roots' = roots /\ pc' = pc
      BY <2>3 DEF pathVars, bfsVars, asked
    <3> QED BY <1>2, <2>1, <2>3, <3>1, Unmoved, DfsUnmoved
  <2> QED BY <1>2, <2>2, <2>3
<1>3. AskedInv /\ BfsInv /\ TwiceInv /\ DfsInv /\ UsedInv => ExactIsWhole
  BY InvImpliesExact
<1> QED BY <1>1, <1>2, <1>3, PTL DEF WalkSpec

-------------------------------------------------------------------------------
(* The walk of a history.                                                  *)

(* A function on 1 .. n is a sequence.                                     *)
LEMMA UpToIsSeq ==
  ASSUME NEW S, NEW n \in Nat, NEW s \in [1 .. n -> S] PROVE s \in Seq(S) /\ Len(s) = n
OBVIOUS

LEMMA OneIsSeq ==
  ASSUME NEW S, NEW x \in S
  PROVE  <<x>> \in Seq(S) /\ Len(<<x>>) = 1 /\ <<x>>[1] = x /\ DOMAIN <<x>> = 1 .. 1
OBVIOUS

LEMMA ConcatIsSeq ==
  ASSUME NEW S, NEW u \in Seq(S), NEW f \in Seq(S), NEW t, t = u \o f
  PROVE  t \in Seq(S) /\ Len(t) = Len(u) + Len(f)
OBVIOUS

(* t is u and then f.                                                      *)
IsThen(t, u, f) ==
  /\ \A i \in 1 .. Len(u) : t[i] = u[i]
  /\ \A i \in 1 .. Len(f) : t[Len(u) + i] = f[i]

LEMMA ConcatAt ==
  ASSUME NEW S, NEW u \in Seq(S), NEW f \in Seq(S), NEW t, t = u \o f
  PROVE  IsThen(t, u, f)
BY DEF IsThen

(* t is q without its first element and then f.                            *)
IsTailThen(t, S, q, n, f, m) ==
  /\ t \in Seq(S) /\ Len(t) = n + m
  /\ \A i \in 1 .. n : i \in 1 .. n + m /\ t[i] = q[i + 1]
  /\ \A i \in 1 .. m : n + i \in 1 .. n + m /\ t[n + i] = f[i]
  /\ \A i \in 1 .. n + m : i \in 1 .. n \/ (i - n \in 1 .. m /\ i = n + (i - n))

LEMMA TailThen ==
  ASSUME NEW S, NEW q \in Seq(S), NEW f \in Seq(S), NEW n \in Nat, NEW m \in Nat,
         Len(q) = n + 1, Len(f) = m, NEW t, t = Tail(q) \o f
  PROVE  IsTailThen(t, S, q, n, f, m)
<1>0. PICK u : u = Tail(q)
  OBVIOUS
<1>1. u \in Seq(S) /\ Len(u) = n /\ \A i \in 1 .. n : u[i] = q[i + 1]
  <2>1. q # <<>>
    OBVIOUS
  <2>2. Len(u) = n
    BY <1>0
  <2> QED BY <1>0, <2>1, <2>2
<1>t. t = u \o f
  BY <1>0
<1>c. t \in Seq(S) /\ Len(t) = Len(u) + Len(f)
  BY <1>1, <1>t, ConcatIsSeq, ZenonT(60)
<1>a. (\A i \in 1 .. n : t[i] = u[i]) /\ (\A i \in 1 .. m : t[n + i] = f[i])
  <2>1. IsThen(t, u, f)
    BY <1>1, <1>t, ConcatAt, ZenonT(60)
  <2> QED BY <1>1, <2>1, ZenonT(60) DEF IsThen
<1>2. t \in Seq(S) /\ Len(t) = n + m
  BY <1>1, <1>c
<1>3. \A i \in 1 .. n : i \in 1 .. n + m /\ t[i] = q[i + 1]
  <2>1. \A i \in 1 .. n : i \in 1 .. n + m
    OBVIOUS
  <2> QED BY <1>1, <1>a, <2>1
<1>4. \A i \in 1 .. m : n + i \in 1 .. n + m /\ t[n + i] = f[i]
  <2>1. \A i \in 1 .. m : n + i \in 1 .. n + m
    OBVIOUS
  <2> QED BY <1>a, <2>1
<1>5. \A i \in 1 .. n + m : i \in 1 .. n \/ (i - n \in 1 .. m /\ i = n + (i - n))
  OBVIOUS
<1> QED BY <1>2, <1>3, <1>4, <1>5 DEF IsTailThen

(* below[x] is what comes before x in a strict total order of S. *)
IsOrdered(S, below) ==
  /\ below \in [S -> SUBSET S]
  /\ \A x \in S : x \notin below[x]
  /\ \A x, y \in S : x = y \/ x \in below[y] \/ y \in below[x]
  /\ \A x, y \in S : x \in below[y] => below[x] \subseteq below[y]

(* Of that order: who has i before it is the one after i others.           *)
LEMMA RankedOnce ==
  ASSUME NEW S, IsFiniteSet(S), NEW below, IsOrdered(S, below),
         NEW s, s = ByRank(S, below)
  PROVE  /\ s \in Seq(S) /\ Len(s) = Cardinality(S)
         /\ \A x \in S : \E i \in 1 .. Len(s) : s[i] = x
         /\ \A i, j \in 1 .. Len(s) : i < j => s[i] \in below[s[j]]
<1> DEFINE Rank(x) == Cardinality(below[x])
           n == Cardinality(S)
<1>s. s = [i \in 1 .. Cardinality(S) |-> CHOOSE x \in S : Cardinality(below[x]) = i - 1]
  BY DEF ByRank
<1>1. n \in Nat
  BY FS_CardinalityType
<1>2. \A x \in S : IsFiniteSet(below[x]) /\ Rank(x) \in Nat
  <2>1. ASSUME NEW x \in S PROVE IsFiniteSet(below[x]) /\ Rank(x) \in Nat
    <3>1. below[x] \in SUBSET S
      BY DEF IsOrdered
    <3>2. IsFiniteSet(below[x])
      BY <3>1, FS_Subset
    <3> QED BY <3>2, FS_CardinalityType
  <2> QED BY <2>1
<1>r. \A x \in S : Rank(x) \in Nat
  <2> HIDE DEF Rank
  <2> QED BY <1>2
<1>3. ASSUME NEW x \in S PROVE Rank(x) \in 0 .. n - 1
  <2>1. below[x] \in SUBSET S /\ x \notin below[x]
    BY DEF IsOrdered
  <2>2. Rank(x) <= n /\ (Rank(x) = n => below[x] = S)
    BY <2>1, FS_Subset
  <2>3. Rank(x) # n
    BY <2>1, <2>2
  <2> HIDE DEF Rank, n
  <2> QED BY <1>1, <1>r, <2>2, <2>3
<1>4. ASSUME NEW x \in S, NEW y \in S, x \in below[y] PROVE Rank(x) < Rank(y)
  <2>1. x \notin below[x]
    BY DEF IsOrdered
  <2>2. below[x] \cup {x} \in SUBSET below[y]
    BY <1>4 DEF IsOrdered
  <2>3. Cardinality(below[x] \cup {x}) = Rank(x) + 1
    BY <1>2, <2>1, FS_AddElement
  <2>4. Cardinality(below[x] \cup {x}) <= Rank(y)
    BY <1>2, <2>2, FS_Subset
  <2> HIDE DEF Rank
  <2> QED BY <1>r, <2>3, <2>4
<1>6. ASSUME NEW x \in S, NEW y \in S, Rank(x) = Rank(y) PROVE x = y
  <2> HIDE DEF Rank
  <2>1. ~(Rank(x) < Rank(y)) /\ ~(Rank(y) < Rank(x))
    BY <1>r, <1>6
  <2> QED BY <1>4, <2>1 DEF IsOrdered
<1> DEFINE r == [x \in S |-> Rank(x)]
<1>7. r \in Injection(S, 0 .. n - 1)
  <2> HIDE DEF Rank, n
  <2> QED BY <1>3, <1>6 DEF Injection, IsInjective
<1>8. IsFiniteSet(0 .. n - 1) /\ Cardinality(0 .. n - 1) = n
  <2> HIDE DEF n
  <2> QED BY <1>1, FS_Interval
<1>9. r \in Surjection(S, 0 .. n - 1)
  BY <1>7, <1>8, FS_Injection
<1>10. ASSUME NEW i \in 0 .. n - 1 PROVE \E x \in S : Rank(x) = i
  <2> HIDE DEF Rank, n
  <2> QED BY <1>9 DEF Surjection
<1>11. ASSUME NEW i \in 1 .. n PROVE s[i] \in S /\ Rank(s[i]) = i - 1
  <2>1. s[i] = CHOOSE x \in S : Rank(x) = i - 1
    BY <1>s
  <2>2. i - 1 \in 0 .. n - 1
    <3> HIDE DEF n
    <3> QED BY <1>1
  <2>3. \E x \in S : Rank(x) = i - 1
    BY <1>10, <2>2
  <2> HIDE DEF Rank
  <2> QED BY <2>1, <2>3
<1>12. s \in Seq(S) /\ Len(s) = n
  <2>1. DOMAIN s = 1 .. n /\ s = [i \in 1 .. n |-> s[i]]
    BY <1>s
  <2>2. \A i \in 1 .. n : s[i] \in S
    BY <1>11
  <2> HIDE DEF Rank, n
  <2>3. s \in [1 .. n -> S]
    BY <2>1, <2>2
  <2> QED BY <1>1, <2>3, UpToIsSeq
<1>13. ASSUME NEW x \in S PROVE \E i \in 1 .. n : s[i] = x
  <2>1. Rank(x) \in 0 .. n - 1
    BY <1>3
  <2> HIDE DEF Rank, n
  <2>2. Rank(x) + 1 \in 1 .. n /\ (Rank(x) + 1) - 1 = Rank(x)
    BY <1>1, <2>1
  <2>3. s[Rank(x) + 1] \in S /\ Rank(s[Rank(x) + 1]) = Rank(x)
    BY <1>11, <2>2
  <2> QED BY <1>6, <2>2, <2>3
<1>14. ASSUME NEW i \in 1 .. n, NEW j \in 1 .. n, i < j PROVE s[i] \in below[s[j]]
  <2> HIDE DEF Rank, n
  <2>1. s[i] \in S /\ s[j] \in S /\ Rank(s[i]) = i - 1 /\ Rank(s[j]) = j - 1
    BY <1>11
  <2>2. s[i] # s[j] /\ ~(Rank(s[j]) < Rank(s[i]))
    BY <1>1, <1>14, <2>1
  <2>3. s[j] \notin below[s[i]]
    BY <1>4, <2>1, <2>2
  <2> QED BY <2>1, <2>2, <2>3 DEF IsOrdered
<1> QED BY <1>12, <1>13, <1>14

-------------------------------------------------------------------------------
(* C has the parents of the commits it has, as far as they are recorded.   *)
IsClosed(h, C) ==
  \A d \in C \cap h.present : \A i \in DOMAIN h.parents[d] : h.parents[d][i] \in C

(* r[i] is c and what i generations before it add. *)
Generations(h, c, k, r) ==
  /\ r[0] = {c}
  /\ \A i \in 0 .. k - 1 : \A p :
       p \in r[i + 1] <=>
         \/ p \in r[i]
         \/ \E d \in r[i] \cap h.present : \E j \in DOMAIN h.parents[d] : p = h.parents[d][j]

(* The recursion of AncestorsOf has a solution, and this is it.            *)
LEMMA AncestorsByGeneration ==
  ASSUME NEW h, NEW c, NEW k \in Nat, k = Cardinality(DOMAIN h.parents)
  PROVE  \E r : AncestorsOf(h, c) = r[k] /\ Generations(h, c, k, r)
<1> DEFINE Grow(last) == last \cup UNION {Range(h.parents[d]) : d \in last \cap h.present}
           Body(r, m) == [i \in 0 .. m |-> IF i = 0 THEN {c} ELSE Grow(r[i - 1])]
           T == {m \in Nat : \E r : r = Body(r, m)}
           grown == CHOOSE r : r = Body(r, k)
<1>1. 0 \in T
  <2>1. [i \in 0 .. 0 |-> {c}] = Body([i \in 0 .. 0 |-> {c}], 0)
    OBVIOUS
  <2> QED BY <2>1
<1> HIDE DEF Grow
<1>2. ASSUME NEW m \in 0 .. k - 1, m \in T PROVE m + 1 \in T
  <2>1. PICK r : r = Body(r, m)
    BY <1>2
  <2> DEFINE s == [i \in 0 .. m + 1 |-> IF i = m + 1 THEN Grow(r[m]) ELSE r[i]]
  <2>2. \A i \in 0 .. m : s[i] = r[i]
    OBVIOUS
  <2>3. \A i \in 0 .. m : r[i] = IF i = 0 THEN {c} ELSE Grow(r[i - 1])
    BY <2>1
  <2>4. ASSUME NEW i \in 0 .. m + 1 PROVE s[i] = IF i = 0 THEN {c} ELSE Grow(s[i - 1])
    <3>1. CASE i = m + 1
      <4>1. i - 1 = m /\ i # 0
        BY <3>1
      <4> QED BY <2>2, <3>1, <4>1
    <3>2. CASE i \in 1 .. m
      <4>1. i - 1 \in 0 .. m /\ i # 0 /\ i \in 0 .. m
        BY <3>2
      <4> QED BY <2>2, <2>3, <4>1
    <3>3. CASE i = 0
      BY <2>2, <2>3, <3>3
    <3> QED BY <3>1, <3>2, <3>3
  <2>5. DOMAIN s = 0 .. m + 1 /\ s = [i \in DOMAIN s |-> s[i]]
    OBVIOUS
  <2> HIDE DEF s
  <2>6. s = Body(s, m + 1)
    BY <2>4, <2>5
  <2>7. m + 1 \in Nat
    OBVIOUS
  <2> QED BY <2>6, <2>7
<1>3. k \in T
  <2> HIDE DEF T
  <2>1. 0 .. k \subseteq T
    BY <1>1, <1>2, UpTo
  <2>2. k \in 0 .. k
    OBVIOUS
  <2> QED BY <2>1, <2>2
<1>4. grown = Body(grown, k)
  BY <1>3
<1>5. AncestorsOf(h, c) = grown[k]
  BY DEF AncestorsOf, Grow
<1> HIDE DEF grown
<1>6. grown[0] = {c}
  BY <1>4
<1>7. ASSUME NEW i \in 0 .. k - 1 PROVE grown[i + 1] = Grow(grown[i])
  <2>1. i + 1 \in 0 .. k /\ i + 1 # 0 /\ (i + 1) - 1 = i
    OBVIOUS
  <2> QED BY <1>4, <2>1
<1>8. ASSUME NEW i \in 0 .. k - 1
      PROVE  \A p : p \in grown[i + 1] <=>
               \/ p \in grown[i]
               \/ \E d \in grown[i] \cap h.present : \E j \in DOMAIN h.parents[d] : p = h.parents[d][j]
  BY <1>7 DEF Grow, Range
<1>9. \A i \in 0 .. k - 1 : \A p : p \in grown[i + 1] <=>
               \/ p \in grown[i]
               \/ \E d \in grown[i] \cap h.present : \E j \in DOMAIN h.parents[d] : p = h.parents[d][j]
  BY <1>8
<1>10. Generations(h, c, k, grown)
  BY <1>6, <1>9, Zenon DEF Generations
<1> QED BY <1>5, <1>10

(* There are as many generations as commits at most, so the ancestors of a *)
(* commit are the least closed set it is in.                               *)
LEMMA AncestorsAreLeast ==
  ASSUME NEW h \in Histories, NEW c \in DOMAIN h.parents
  PROVE  /\ c \in AncestorsOf(h, c) /\ AncestorsOf(h, c) \subseteq DOMAIN h.parents
         /\ IsClosed(h, AncestorsOf(h, c))
         /\ \A C : c \in C /\ IsClosed(h, C) => AncestorsOf(h, c) \subseteq C
<1> DEFINE D == DOMAIN h.parents
<1>h. /\ IsFiniteSet(D) /\ h.present \subseteq D
      /\ \A d \in D : \A i \in DOMAIN h.parents[d] : h.parents[d][i] \in D
  <2>1. /\ IsFiniteSet(D) /\ h.present \subseteq D
        /\ \A d \in D : h.parents[d] \in Seq(D)
    BY HistoriesAssumption
  <2> QED BY <2>1
<1>1. PICK k \in Nat : k = Cardinality(D)
  BY <1>h, FS_CardinalityType
<1>r. PICK r : AncestorsOf(h, c) = r[k] /\ Generations(h, c, k, r)
  BY <1>1, AncestorsByGeneration
<1>2. /\ AncestorsOf(h, c) = r[k] /\ r[0] = {c}
      /\ \A i \in 0 .. k - 1 : \A p :
           p \in r[i + 1] <=>
             \/ p \in r[i]
             \/ \E d \in r[i] \cap h.present : \E j \in DOMAIN h.parents[d] : p = h.parents[d][j]
  BY <1>r DEF Generations
<1> DEFINE Good(X) == \A d \in X \cap h.present : \A i \in DOMAIN h.parents[d] : h.parents[d][i] \in X
           T == {i \in 0 .. k : /\ c \in r[i] /\ r[i] \subseteq D
                                /\ Good(r[i]) \/ Cardinality(r[i]) >= i + 1
                                /\ \A C : c \in C /\ Good(C) => r[i] \subseteq C}
<1>3. 0 \in T
  <2>1. Cardinality(r[0]) = 1
    BY <1>2, FS_Singleton
  <2>2. 0 \in 0 .. k /\ 1 >= 0 + 1
    OBVIOUS
  <2> QED BY <1>2, <2>1, <2>2
<1>4. ASSUME NEW i \in 0 .. k - 1, i \in T PROVE i + 1 \in T
  <2>1. /\ c \in r[i] /\ r[i] \subseteq D
        /\ Good(r[i]) \/ Cardinality(r[i]) >= i + 1
        /\ \A C : c \in C /\ Good(C) => r[i] \subseteq C
    BY <1>4
  <2>2. \A p : p \in r[i + 1] <=>
             \/ p \in r[i]
             \/ \E d \in r[i] \cap h.present : \E j \in DOMAIN h.parents[d] : p = h.parents[d][j]
    BY <1>2
  <2>3. i \in Nat /\ i + 1 \in 0 .. k
    OBVIOUS
  <2>4. c \in r[i + 1] /\ r[i + 1] \subseteq D
    BY <1>h, <2>1, <2>2
  <2>5. ASSUME NEW C, c \in C, Good(C) PROVE r[i + 1] \subseteq C
    <3>1. r[i] \subseteq C
      BY <2>1, <2>5
    <3> QED BY <2>2, <2>5, <3>1
  <2>6. CASE Good(r[i])
    <3>1. r[i + 1] = r[i]
      <4>1. \A p : p \in r[i + 1] <=> p \in r[i]
        BY <2>2, <2>6
      <4> QED BY <4>1
    <3>2. Good(r[i + 1])
      BY <2>6, <3>1
    <3> QED BY <2>3, <2>4, <2>5, <3>2
  <2>7. CASE ~Good(r[i])
    <3>1. PICK d \in r[i] \cap h.present : \E j \in DOMAIN h.parents[d] : h.parents[d][j] \notin r[i]
      BY <2>7
    <3>2. PICK p : p \notin r[i] /\ \E j \in DOMAIN h.parents[d] : p = h.parents[d][j]
      BY <3>1
    <3>3. IsFiniteSet(r[i]) /\ IsFiniteSet(r[i + 1])
      <4>1. r[i] \in SUBSET D /\ r[i + 1] \in SUBSET D
        BY <2>1, <2>4
      <4> QED BY <1>h, <4>1, FS_Subset
    <3>4. Cardinality(r[i] \cup {p}) = Cardinality(r[i]) + 1
      BY <3>2, <3>3, FS_AddElement
    <3>5. r[i] \cup {p} \in SUBSET r[i + 1]
      BY <2>2, <3>2
    <3>6. Cardinality(r[i] \cup {p}) <= Cardinality(r[i + 1])
      BY <3>3, <3>5, FS_Subset
    <3>7. Cardinality(r[i]) \in Nat /\ Cardinality(r[i + 1]) \in Nat
      BY <3>3, FS_CardinalityType
    <3>8. Cardinality(r[i]) >= i + 1
      BY <2>1, <2>7
    <3>9. Cardinality(r[i + 1]) >= (i + 1) + 1
      BY <2>3, <3>4, <3>6, <3>7, <3>8
    <3> HIDE DEF Good
    <3> QED BY <2>3, <2>4, <2>5, <3>9
  <2> QED BY <2>6, <2>7
<1>5. k \in T
  <2> HIDE DEF T
  <2>1. 0 .. k \subseteq T
    BY <1>3, <1>4, UpTo
  <2>2. k \in 0 .. k
    OBVIOUS
  <2> QED BY <2>1, <2>2
<1>6. /\ c \in r[k] /\ r[k] \subseteq D
      /\ Good(r[k]) \/ Cardinality(r[k]) >= k + 1
      /\ \A C : c \in C /\ Good(C) => r[k] \subseteq C
  BY <1>5
<1>7. Good(r[k])
  <2>1. r[k] \in SUBSET D
    BY <1>6
  <2>2. Cardinality(r[k]) <= k
    BY <1>h, <1>1, <2>1, FS_Subset
  <2>3. Cardinality(r[k]) \in Nat
    BY <1>h, <2>1, FS_Subset, FS_CardinalityType
  <2> HIDE DEF Good
  <2> QED BY <1>6, <2>2, <2>3
<1> QED BY <1>2, <1>6, <1>7 DEF IsClosed

-------------------------------------------------------------------------------
(* f lists the parents of c that are not known, once each. *)
IsFresh(f, h, c, known) ==
  /\ f \in Seq(DOMAIN h.parents)
  /\ \A i, j \in 1 .. Len(f) : i < j => f[i] # f[j]
  /\ \A p : (\E i \in 1 .. Len(f) : f[i] = p) <=>
            (\E i \in DOMAIN h.parents[c] : h.parents[c][i] = p) /\ p \notin known

(* The parents a commit queues are those the walk does not know.           *)
LEMMA FreshIs ==
  ASSUME NEW c, history.parents[c] \in Seq(DOMAIN history.parents)
  PROVE  IsFresh(FreshParents(c), history, c, queuedOnce \cup HiddenBy(history, range.base))
<1>0. PICK P : P = DOMAIN history.parents
  OBVIOUS
<1>1. PICK ps \in Seq(P) : ps = history.parents[c]
  BY <1>0
<1>2. PICK known : known = queuedOnce \cup HiddenBy(history, range.base)
  OBVIOUS
<1> DEFINE first == {i \in DOMAIN ps : ps[i] \notin known /\ \A j \in 1 .. i - 1 : ps[j] # ps[i]}
<1>b. PICK below : below = [i \in first |-> {j \in first : j < i}]
  OBVIOUS
<1>s. PICK s : s = ByRank(first, below)
  OBVIOUS
<1>3. FreshParents(c) = [k \in DOMAIN s |-> ps[s[k]]]
  BY <1>1, <1>2, <1>b, <1>s DEF FreshParents
<1>4. first \in SUBSET (1 .. Len(ps)) /\ first \in SUBSET Nat /\ Len(ps) \in Nat
  BY <1>1
<1>5. IsFiniteSet(first)
  BY <1>4, FS_Interval, FS_Subset
<1>7. below \in [first -> SUBSET first] /\ \A i \in first : below[i] = {j \in first : j < i}
  <2> HIDE DEF first
  <2> QED BY <1>b
<1>6. IsOrdered(first, below)
  <2> HIDE DEF first
  <2>1. \A i, j \in first : j \in below[i] <=> j < i
    BY <1>7
  <2>2. \A i, j \in first : j \in below[i] => below[j] \subseteq below[i]
    <3>1. ASSUME NEW i \in first, NEW j \in first, j < i, NEW k \in first, k < j PROVE k < i
      BY <1>4, <3>1
    <3> QED BY <1>7, <2>1, <3>1
  <2>3. \A i, j \in first : i = j \/ i < j \/ j < i
    BY <1>4
  <2>4. \A i \in first : ~(i < i)
    BY <1>4
  <2> QED BY <1>7, <2>1, <2>2, <2>3, <2>4 DEF IsOrdered
<1>9. /\ s \in Seq(first) /\ Len(s) = Cardinality(first)
      /\ \A x \in first : \E i \in 1 .. Len(s) : s[i] = x
      /\ \A i, j \in 1 .. Len(s) : i < j => s[i] \in below[s[j]]
  <2> HIDE DEF first
  <2> QED BY <1>5, <1>6, <1>s, RankedOnce
<1>10. PICK n \in Nat : n = Cardinality(first) /\ n = Len(s)
  BY <1>5, <1>9, FS_CardinalityType
<1>11. \A k \in 1 .. n : s[k] \in first
  <2> HIDE DEF first
  <2> QED BY <1>9, <1>10
<1>12. \A k, l \in 1 .. n : k < l => s[k] < s[l]
  <2> HIDE DEF first
  <2> QED BY <1>7, <1>9, <1>10, <1>11
<1>13. PICK f : f = FreshParents(c)
  OBVIOUS
<1>14. f \in [1 .. n -> P] /\ \A k \in 1 .. n : f[k] = ps[s[k]]
  <2>1. DOMAIN s = 1 .. n
    <3> HIDE DEF first
    <3> QED BY <1>9, <1>10
  <2>2. f = [k \in 1 .. n |-> ps[s[k]]]
    BY <1>3, <1>13, <2>1
  <2>3. \A k \in 1 .. n : ps[s[k]] \in P
    BY <1>1, <1>4, <1>11
  <2> QED BY <2>2, <2>3
<1>15. f \in Seq(P) /\ Len(f) = n
  BY <1>14, UpToIsSeq
<1>16. ASSUME NEW i \in 1 .. n, NEW j \in 1 .. n, i < j PROVE f[i] # f[j]
  <2>1. s[i] \in first /\ s[j] \in first /\ s[i] < s[j] /\ f[i] = ps[s[i]] /\ f[j] = ps[s[j]]
    BY <1>11, <1>12, <1>14, <1>16
  <2>2. s[i] \in 1 .. s[j] - 1
    BY <1>4, <2>1
  <2> QED BY <2>1, <2>2
<1>17. ASSUME NEW i \in 1 .. n PROVE f[i] \notin known /\ \E k \in DOMAIN ps : ps[k] = f[i]
  BY <1>11, <1>14
<1>18. ASSUME NEW p, p \notin known, NEW m \in DOMAIN ps, ps[m] = p PROVE \E i \in 1 .. n : f[i] = p
  <2> DEFINE Where == {k \in DOMAIN ps : ps[k] = p}
  <2>1. Where \in SUBSET Nat /\ Where # {}
    BY <1>1, <1>18
  <2>2. PICK k \in Where : \A l \in Where : k <= l
    <3> HIDE DEF Where
    <3> QED BY <2>1, LeastNat
  <2>3. \A l \in 1 .. k - 1 : ps[l] # p
    <3>1. k \in 1 .. Len(ps)
      BY <1>1, <2>2
    <3> QED BY <1>1, <2>2, <3>1
  <2>4. k \in first
    BY <1>18, <2>2, <2>3
  <2>5. PICK i \in 1 .. n : s[i] = k
    <3> HIDE DEF first
    <3> QED BY <1>9, <1>10, <2>4
  <2> QED BY <1>14, <2>2, <2>5
<1>19. \A p : (\E i \in 1 .. n : f[i] = p) <=> (\E i \in DOMAIN ps : ps[i] = p) /\ p \notin known
  BY <1>17, <1>18
<1>20. IsFresh(f, history, c, known)
  BY <1>0, <1>1, <1>15, <1>16, <1>19 DEF IsFresh
<1> QED BY <1>2, <1>13, <1>20

(* Of the members of K, counts says how many have each key.                *)
Tallies(counts, K, keys) ==
  /\ \A k : k \in DOMAIN counts <=> \E d \in K : k \in keys[d]
  /\ \A k \in DOMAIN counts : counts[k] = Cardinality({d \in K : k \in keys[d]})

(* One more is counted.                                                    *)
LEMMA TalliesOneMore ==
  ASSUME NEW counts, NEW K, IsFiniteSet(K), NEW keys, NEW c, c \notin K, Tallies(counts, K, keys)
  PROVE  Tallies(CountedOnce(counts, keys[c]), K \cup {c}, keys)
<1> DEFINE more == CountedOnce(counts, keys[c])
           Had(k) == {d \in K : k \in keys[d]}
           Has(k) == {d \in K \cup {c} : k \in keys[d]}
<1>1. /\ DOMAIN more = keys[c] \cup DOMAIN counts
      /\ \A k \in DOMAIN more : more[k] = CountOf(counts, k) + (IF k \in keys[c] THEN 1 ELSE 0)
  BY DEF CountedOnce
<1>2. ASSUME NEW k PROVE k \in DOMAIN more <=> \E d \in K \cup {c} : k \in keys[d]
  BY <1>1 DEF Tallies
<1>3. ASSUME NEW k \in DOMAIN more PROVE more[k] = Cardinality(Has(k))
  <2>1. Had(k) \in SUBSET K
    OBVIOUS
  <2>2. IsFiniteSet(Had(k))
    BY <2>1, FS_Subset
  <2>3. Cardinality(Had(k)) \in Nat
    BY <2>2, FS_CardinalityType
  <2>4. CountOf(counts, k) = Cardinality(Had(k))
    <3>1. CASE k \in DOMAIN counts
      BY <3>1 DEF CountOf, Tallies
    <3>2. CASE k \notin DOMAIN counts
      <4>1. Had(k) = {}
        BY <3>2 DEF Tallies
      <4>2. Cardinality(Had(k)) = 0
        BY <4>1, FS_EmptySet
      <4> QED BY <3>2, <4>2 DEF CountOf
    <3> QED BY <3>1, <3>2
  <2>5. CASE k \in keys[c]
    <3>1. Has(k) = Had(k) \cup {c} /\ c \notin Had(k)
      BY <2>5
    <3>2. Cardinality(Has(k)) = Cardinality(Had(k)) + 1
      <4> HIDE DEF Had, Has
      <4> QED BY <2>2, <3>1, FS_AddElement
    <3> HIDE DEF Had, Has, more
    <3> QED BY <1>1, <2>4, <2>5, <3>2
  <2>6. CASE k \notin keys[c]
    <3>1. Has(k) = Had(k)
      BY <2>6
    <3> HIDE DEF Had, Has, more
    <3> QED BY <1>1, <2>3, <2>4, <2>6, <3>1
  <2> QED BY <2>5, <2>6
<1> HIDE DEF more
<1>4. \A k : k \in DOMAIN more <=> \E d \in K \cup {c} : k \in keys[d]
  BY <1>2
<1>5. \A k \in DOMAIN more : more[k] = Cardinality({d \in K \cup {c} : k \in keys[d]})
  BY <1>3
<1>6. Tallies(more, K \cup {c}, keys)
  BY <1>4, <1>5 DEF Tallies
<1> QED BY <1>6 DEF more

(* How a pair is reported. *)
RowOfPair(p) ==
  [a |-> p[1], b |-> p[2], cochanges |-> perPair[p],
   changesA |-> perFile[p[1]], changesB |-> perFile[p[2]]]

(* The pairs reported are listed each once, those that changed together    *)
(* most first.                                                             *)
LEMMA SortedIs ==
  ASSUME DOMAIN perPair \subseteq Int \X Int, IsFiniteSet(DOMAIN perPair),
         \A p \in DOMAIN perPair : perPair[p] \in Nat
  PROVE  \E s : /\ s = SortedPairs /\ s \in Seq({RowOfPair(p) : p \in Reported})
                /\ \A p \in Reported : \E i \in 1 .. Len(s) : s[i] = RowOfPair(p)
                /\ \A i \in 1 .. Len(s) : \E p \in Reported : s[i] = RowOfPair(p)
                /\ \A i, j \in 1 .. Len(s) : i < j => s[i].cochanges >= s[j].cochanges
<1>1. PICK rows : rows = {RowOfPair(p) : p \in Reported}
  OBVIOUS
<1>2. PICK below : below = [x \in rows |-> {y \in rows : PairBefore(y, x)}]
  OBVIOUS
<1>3. PICK s : s = ByRank(rows, below)
  OBVIOUS
<1>4. s = SortedPairs
  BY <1>1, <1>2, <1>3 DEF SortedPairs, RowOfPair
<1>5. Reported \in SUBSET DOMAIN perPair /\ IsFiniteSet(Reported)
  <2>1. Reported \in SUBSET DOMAIN perPair
    BY DEF Reported
  <2> QED BY <2>1, FS_Subset
<1>6. IsFiniteSet(rows)
  <2>1. PICK f : f = [p \in Reported |-> RowOfPair(p)]
    OBVIOUS
  <2>2. \A p \in Reported : f[p] = RowOfPair(p) /\ RowOfPair(p) \in rows
    BY <1>1, <2>1
  <2>3. f \in Surjection(Reported, rows)
    BY <1>1, <2>1, <2>2 DEF Surjection
  <2> QED BY <1>5, <2>3, FS_Surjection
<1>7. /\ \A x \in rows : x.a \in Int /\ x.b \in Int /\ x.cochanges \in Nat
      /\ \A x, y \in rows : x.a = y.a /\ x.b = y.b => x = y
  <2>1. \A p \in Reported : p \in Int \X Int /\ perPair[p] \in Nat
    BY <1>5
  <2>2. \A p \in Reported : RowOfPair(p).a = p[1] /\ RowOfPair(p).b = p[2] /\ RowOfPair(p).cochanges = perPair[p]
    BY DEF RowOfPair
  <2>3. \A p, q \in Int \X Int : p[1] = q[1] /\ p[2] = q[2] => p = q
    OBVIOUS
  <2>4. \A x \in rows : \E p \in Reported : x = RowOfPair(p)
    BY <1>1
  <2>5. ASSUME NEW x \in rows, NEW y \in rows, x.a = y.a, x.b = y.b PROVE x = y
    <3>1. PICK p \in Reported : x = RowOfPair(p)
      BY <2>4
    <3>2. PICK q \in Reported : y = RowOfPair(q)
      BY <2>4
    <3>3. p = q
      BY <2>1, <2>2, <2>3, <2>5, <3>1, <3>2
    <3> QED BY <3>1, <3>2, <3>3
  <2>6. ASSUME NEW x \in rows PROVE x.a \in Int /\ x.b \in Int /\ x.cochanges \in Nat
    <3>1. PICK p \in Reported : x = RowOfPair(p)
      BY <2>4
    <3> QED BY <2>1, <2>2, <3>1
  <2> QED BY <2>5, <2>6
<1>8. IsOrdered(rows, below)
  <2>1. below \in [rows -> SUBSET rows] /\ \A x, y \in rows : y \in below[x] <=> PairBefore(y, x)
    BY <1>2
  <2>2. \A x \in rows : ~PairBefore(x, x)
    BY <1>7 DEF PairBefore
  <2>3. \A x, y \in rows : x = y \/ PairBefore(x, y) \/ PairBefore(y, x)
    BY <1>7 DEF PairBefore
  <2>4. \A x, y, z \in rows : PairBefore(x, y) /\ PairBefore(y, z) => PairBefore(x, z)
    BY <1>7 DEF PairBefore
  <2>5. \A x, y \in rows : x \in below[y] => below[x] \subseteq below[y]
    BY <2>1, <2>4
  <2> QED BY <2>1, <2>2, <2>3, <2>5 DEF IsOrdered
<1>9. /\ s \in Seq(rows) /\ Len(s) = Cardinality(rows)
      /\ \A x \in rows : \E i \in 1 .. Len(s) : s[i] = x
      /\ \A i, j \in 1 .. Len(s) : i < j => s[i] \in below[s[j]]
  BY <1>3, <1>6, <1>8, RankedOnce
<1>10. \A i \in 1 .. Len(s) : s[i] \in rows
  BY <1>9
<1>11. \A i, j \in 1 .. Len(s) : i < j => s[i].cochanges >= s[j].cochanges
  <2>1. \A x, y \in rows : x \in below[y] => x.cochanges >= y.cochanges
    BY <1>2, <1>7 DEF PairBefore
  <2> QED BY <1>9, <1>10, <2>1
<1> QED BY <1>1, <1>4, <1>9, <1>10, <1>11, ZenonT(60)

-------------------------------------------------------------------------------
(* The commits of V that count, and the pairs of files each changes.       *)
CountedOf(h, r, V) ==
  {c \in V : Len(h.parents[c]) = 1 /\ (r.maxFiles > 0 => Cardinality(h.touched[c]) <= r.maxFiles)}
PairsIn(h) == [c \in h.present |-> PairsOf(h.touched[c])]

(* A commit of V that does not count is told of in one of the tallies.     *)
IsTold(h, r, V, t) ==
  /\ t \in [considered : Nat, merge : Nat, root : Nat, large : Nat]
  /\ \A c \in V :
       /\ Len(h.parents[c]) > 1 => t.merge > 0
       /\ Len(h.parents[c]) = 0 => t.root > 0
       /\ Len(h.parents[c]) = 1 /\ r.maxFiles > 0 /\ Cardinality(h.touched[c]) > r.maxFiles => t.large > 0

(* The counts are those of the commits V, of the range and at hand.        *)
IsOfVisited(h, r, V, pf, pp, t) ==
  /\ V \subseteq InRange(h, r) \cap h.present
  /\ Tallies(pf, CountedOf(h, r, V), h.touched)
  /\ Tallies(pp, CountedOf(h, r, V), PairsIn(h)) /\ IsFiniteSet(DOMAIN pp)
  /\ IsTold(h, r, V, t)

(* What has been queued and is no longer in the queue has been visited,    *)
(* once: its parents are hidden or have been queued.                       *)
VisitedOf(h, r, q, once) ==
  IF HiddenBy(h, r.base) \subseteq h.present
  THEN (once \ HiddenBy(h, r.base)) \ {q[i] : i \in DOMAIN q}
  ELSE {}

IsHistoryWalk(h, r, q, once) ==
  /\ HiddenBy(h, r.base) \subseteq h.present
  /\ q \in Seq(DOMAIN h.parents)
  /\ \A i, j \in 1 .. Len(q) : i < j => q[i] # q[j]
  /\ \A i \in 1 .. Len(q) : q[i] \in once \ HiddenBy(h, r.base)
  /\ once \subseteq AncestorsOf(h, r.head) /\ r.head \in once
  /\ \A c \in VisitedOf(h, r, q, once) : \A i \in DOMAIN h.parents[c] :
       h.parents[c][i] \in once \cup HiddenBy(h, r.base)

IsWhole(h, r) == AncestorsOf(h, r.head) \cup AncestorsOf(h, r.base) \subseteq h.present

CountInv ==
  /\ history \in Histories /\ range \in RangesAsked
  /\ counting \in {"begin", "walk", "report", "done"}
  /\ counting = "begin" =>
       /\ queued = <<>> /\ queuedOnce = {} /\ perFile = <<>> /\ perPair = <<>>
       /\ tally = NoTally /\ ~truncated
  /\ counting \in {"walk", "report"} =>
       IsOfVisited(history, range, VisitedOf(history, range, queued, queuedOnce), perFile, perPair, tally)
  /\ counting = "walk" => IsHistoryWalk(history, range, queued, queuedOnce) /\ ~truncated
  /\ counting = "report" => truncated /\ ~IsWhole(history, range)

CouplingInv == CountInv /\ CouplingCountsTheRange

LEMMA CouplingAtFirst == CouplingInit => CouplingInv
BY DEF CouplingInit, CouplingInv, CountInv, CouplingCountsTheRange

(* Before a commit is visited all counts are of none.                      *)
LEMMA OfNone ==
  ASSUME NEW h, NEW r
  PROVE  IsOfVisited(h, r, {}, <<>>, <<>>, NoTally)
<1>1. CountedOf(h, r, {}) = {}
  BY DEF CountedOf
<1>2. \A k : k \notin DOMAIN <<>>
  OBVIOUS
<1>3. \A keys : Tallies(<<>>, {}, keys)
  BY <1>2 DEF Tallies
<1>4. IsTold(h, r, {}, NoTally)
  BY DEF IsTold, NoTally
<1>5. IsFiniteSet(DOMAIN <<>>)
  <2>1. DOMAIN <<>> = {}
    OBVIOUS
  <2> QED BY <2>1, FS_EmptySet
<1> QED BY <1>1, <1>3, <1>4, <1>5 DEF IsOfVisited

LEMMA CouplingBegins ==
  ASSUME CouplingInv, BeginCoupling PROVE CouplingInv'
<1>1. PICK h \in Histories : h = history
  BY DEF CouplingInv, CountInv
<1>2. PICK r \in RangesAsked : r = range
  BY DEF CouplingInv, CountInv
<1>3. PICK H : H = HiddenBy(h, r.base)
  OBVIOUS
<1>4. /\ counting = "begin" /\ queued = <<>> /\ perFile = <<>> /\ perPair = <<>> /\ tally = NoTally /\ ~truncated
      /\ history' = h /\ range' = r /\ perFile' = <<>> /\ perPair' = <<>> /\ tally' = NoTally
      /\ queuedOnce' = {r.head}
  BY <1>1, <1>2 DEF CouplingInv, CountInv, BeginCoupling
<1>5. r.head \in DOMAIN h.parents
  BY HistoriesAssumption
<1>6. r.head \in AncestorsOf(h, r.head)
  BY <1>5, AncestorsAreLeast
<1>7. CASE H \subseteq h.present
  <2>1. /\ counting' = "walk" /\ queued' = (IF r.head \in H THEN <<>> ELSE <<r.head>>) /\ ~truncated'
    BY <1>1, <1>2, <1>3, <1>4, <1>7 DEF BeginCoupling
  <2>2. PICK q : q = queued'
    OBVIOUS
  <2>3. /\ q \in Seq(DOMAIN h.parents)
        /\ \A i, j \in 1 .. Len(q) : i < j => q[i] # q[j]
        /\ \A i \in 1 .. Len(q) : q[i] \in {r.head} \ H
        /\ r.head \in H \/ r.head \in {q[i] : i \in DOMAIN q}
    <3>1. CASE r.head \in H
      BY <2>1, <2>2, <3>1
    <3>2. CASE r.head \notin H
      <4>1. q = <<r.head>>
        BY <2>1, <2>2, <3>2
      <4>2. q \in Seq(DOMAIN h.parents) /\ Len(q) = 1 /\ q[1] = r.head /\ DOMAIN q = 1 .. 1
        <5>1. PICK n \in DOMAIN h.parents : n = r.head
          BY <1>5
        <5>2. q = <<n>>
          BY <4>1, <5>1
        <5>3. <<n>> \in Seq(DOMAIN h.parents) /\ Len(<<n>>) = 1 /\ <<n>>[1] = n /\ DOMAIN <<n>> = 1 .. 1
          BY OneIsSeq
        <5> QED BY <5>1, <5>2, <5>3
      <4>3. \A i \in 1 .. 1 : i = 1
        OBVIOUS
      <4>4. 1 \in 1 .. 1
        OBVIOUS
      <4> QED BY <3>2, <4>2, <4>3, <4>4
    <3> QED BY <3>1, <3>2
  <2>4. VisitedOf(h, r, q, {r.head}) = {}
    BY <1>3, <2>3 DEF VisitedOf
  <2>5. IsHistoryWalk(h, r, q, {r.head})
    BY <1>3, <1>6, <1>7, <2>3, <2>4 DEF IsHistoryWalk
  <2>6. IsOfVisited(h, r, VisitedOf(h, r, q, {r.head}), <<>>, <<>>, NoTally)
    BY <2>4, OfNone
  <2> QED BY <1>4, <2>1, <2>2, <2>5, <2>6 DEF CouplingInv, CountInv, CouplingCountsTheRange
<1>8. CASE ~(H \subseteq h.present)
  <2>1. counting' = "report" /\ truncated'
    BY <1>1, <1>2, <1>3, <1>4, <1>8 DEF BeginCoupling
  <2>2. \A q, once : VisitedOf(h, r, q, once) = {}
    BY <1>3, <1>8 DEF VisitedOf
  <2>3. ~IsWhole(h, r)
    BY <1>3, <1>8 DEF IsWhole, HiddenBy
  <2>4. IsOfVisited(h, r, VisitedOf(h, r, queued', queuedOnce'), <<>>, <<>>, NoTally)
    BY <2>2, OfNone
  <2> QED BY <1>4, <2>1, <2>3, <2>4 DEF CouplingInv, CountInv, CouplingCountsTheRange
<1> QED BY <1>7, <1>8

(* The walk takes c off the queue and puts its parents f on it. *)
IsHistoryStep(h, r, q, once, c, f, t, all) ==
  /\ IsHistoryWalk(h, r, q, once) /\ q # <<>> /\ c = Head(q)
  /\ IsFresh(f, h, c, once \cup HiddenBy(h, r.base))
  /\ t = Tail(q) \o f /\ all = once \cup Range(f)

(* Then c has been visited, it alone, and is of the range.                 *)
LEMMA WalkGoesOn ==
  ASSUME NEW h \in Histories, NEW r \in RangesAsked, NEW q, NEW once, NEW c, NEW f, NEW t, NEW all,
         IsHistoryStep(h, r, q, once, c, f, t, all)
  PROVE  /\ c \in InRange(h, r) /\ c \notin VisitedOf(h, r, q, once)
         /\ c \in h.present => /\ IsHistoryWalk(h, r, t, all)
                               /\ VisitedOf(h, r, t, all) = VisitedOf(h, r, q, once) \cup {c}
<1>0. /\ f \in Seq(DOMAIN h.parents)
      /\ \A i, j \in 1 .. Len(f) : i < j => f[i] # f[j]
      /\ \A p : (\E i \in 1 .. Len(f) : f[i] = p) <=>
               (\E i \in DOMAIN h.parents[c] : h.parents[c][i] = p) /\ p \notin once \cup HiddenBy(h, r.base)
  BY DEF IsFresh, IsHistoryStep
<1>13. IsHistoryWalk(h, r, q, once) /\ q # <<>> /\ c = Head(q) /\ t = Tail(q) \o f /\ all = once \cup Range(f)
  BY DEF IsHistoryStep
<1>1. PICK H : H = HiddenBy(h, r.base)
  OBVIOUS
<1>2. PICK D : D = DOMAIN h.parents
  OBVIOUS
<1>3. /\ H \subseteq h.present
      /\ q \in Seq(D)
      /\ \A i, j \in 1 .. Len(q) : i < j => q[i] # q[j]
      /\ \A i \in 1 .. Len(q) : q[i] \in once \ H
      /\ once \subseteq AncestorsOf(h, r.head) /\ r.head \in once
      /\ \A d \in VisitedOf(h, r, q, once) : \A i \in DOMAIN h.parents[d] : h.parents[d][i] \in once \cup H
  BY <1>1, <1>2, <1>13 DEF IsHistoryWalk
<1>4. PICK n \in Nat : Len(q) = n + 1
  <2>1. Len(q) \in Nat /\ Len(q) # 0
    BY <1>3, <1>13
  <2>2. Len(q) - 1 \in Nat /\ Len(q) = (Len(q) - 1) + 1
    BY <2>1
  <2> QED BY <2>2
<1>5. c = q[1] /\ 1 \in 1 .. Len(q)
  BY <1>3, <1>4, <1>13
<1>6. c \in once /\ c \notin H /\ c \in AncestorsOf(h, r.head)
  BY <1>3, <1>5
<1>7. c \in InRange(h, r)
  BY <1>1, <1>6 DEF InRange, HiddenBy
<1>8. PICK Q : Q = {q[i] : i \in 1 .. Len(q)}
  OBVIOUS
<1>9. VisitedOf(h, r, q, once) = (once \ H) \ Q
  <2>1. DOMAIN q = 1 .. Len(q)
    BY <1>3
  <2> QED BY <1>1, <1>3, <1>8, <2>1 DEF VisitedOf
<1>10. c \in Q
  BY <1>5, <1>8
<1>11. PICK F : F = Range(f) /\ F = {f[i] : i \in 1 .. Len(f)}
  <2>1. DOMAIN f = 1 .. Len(f)
    BY <1>0
  <2> QED BY <2>1 DEF Range
<1>12. \A p : p \in F <=>
           (\E i \in DOMAIN h.parents[c] : h.parents[c][i] = p) /\ p \notin once /\ p \notin H
  BY <1>0, <1>1, <1>11
<1>14. PICK m \in Nat : m = Len(f)
  <2>1. Len(f) \in Nat
    BY <1>0
  <2> QED BY <2>1
<1>15. /\ t \in Seq(D) /\ Len(t) = n + m
       /\ \A i \in 1 .. n : i \in 1 .. n + m /\ t[i] = q[i + 1]
       /\ \A i \in 1 .. m : n + i \in 1 .. n + m /\ t[n + i] = f[i]
       /\ \A i \in 1 .. n + m : i \in 1 .. n \/ (i - n \in 1 .. m /\ i = n + (i - n))
  <2>1. q \in Seq(D) /\ f \in Seq(D) /\ Len(q) = n + 1 /\ Len(f) = m
    BY <1>0, <1>2, <1>3, <1>4, <1>14
  <2>2. IsTailThen(t, D, q, n, f, m)
    BY <1>13, <2>1, TailThen
  <2> QED BY <2>2 DEF IsTailThen
<1>16. \A i \in 1 .. n : i + 1 \in 1 .. Len(q) /\ i + 1 # 1
  BY <1>4
<1>17. \A i \in 1 .. m : f[i] \in F
  BY <1>11, <1>14
<1>18. \A i, j \in 1 .. m : i # j => f[i] # f[j]
  <2>1. \A i, j \in 1 .. m : i < j => f[i] # f[j]
    BY <1>0, <1>14
  <2>2. \A i, j \in 1 .. m : i # j => i < j \/ j < i
    OBVIOUS
  <2> QED BY <2>1, <2>2
<1>19. \A i \in 1 .. n : t[i] \in once /\ t[i] \notin H /\ t[i] \in Q /\ t[i] # c
  <2>1. \A i \in 1 .. n : q[i + 1] # q[1]
    BY <1>3, <1>4
  <2> QED BY <1>3, <1>5, <1>8, <1>15, <1>16, <2>1
<1>20. \A i \in 1 .. n + m : i \in 1 .. n \/ t[i] \in F
  <2>1. ASSUME NEW i \in 1 .. n + m, i \notin 1 .. n PROVE t[i] \in F
    <3>1. PICK k \in 1 .. m : i = n + k
      BY <1>15, <2>1
    <3> QED BY <1>15, <1>17, <3>1
  <2> QED BY <2>1
<1>21. ASSUME NEW i \in 1 .. Len(t), NEW j \in 1 .. Len(t), i < j PROVE t[i] # t[j]
  <2>0. i \in 1 .. n + m /\ j \in 1 .. n + m
    BY <1>15
  <2>1. CASE i \in 1 .. n /\ j \in 1 .. n
    <3>1. i + 1 < j + 1
      BY <1>21, <2>1
    <3> QED BY <1>3, <1>15, <1>16, <2>1, <3>1
  <2>2. CASE i \in 1 .. n /\ j \notin 1 .. n
    <3>1. t[j] \in F /\ t[i] \in once
      BY <1>19, <1>20, <2>0, <2>2
    <3> QED BY <1>12, <3>1
  <2>3. CASE i \notin 1 .. n /\ j \notin 1 .. n
    <3>1. PICK k \in 1 .. m : i = n + k
      BY <1>15, <2>0, <2>3
    <3>2. PICK l \in 1 .. m : j = n + l
      BY <1>15, <2>0, <2>3
    <3>3. k # l
      BY <1>21, <3>1, <3>2
    <3>4. t[n + k] = f[k] /\ t[n + l] = f[l]
      BY <1>15
    <3> QED BY <1>18, <3>1, <3>2, <3>3, <3>4
  <2>4. ~(i \notin 1 .. n /\ j \in 1 .. n)
    BY <1>21, <2>0
  <2> QED BY <2>1, <2>2, <2>3, <2>4
<1>22. \A x : (\E i \in 1 .. Len(t) : t[i] = x) <=> (x \in Q /\ x # c) \/ x \in F
  <2>1. ASSUME NEW i \in 1 .. Len(t) PROVE (t[i] \in Q /\ t[i] # c) \/ t[i] \in F
    <3>1. i \in 1 .. n + m
      BY <1>15
    <3> QED BY <1>19, <1>20, <3>1
  <2>2. ASSUME NEW x \in Q, x # c PROVE \E i \in 1 .. Len(t) : t[i] = x
    <3>1. PICK i \in 1 .. Len(q) : x = q[i]
      BY <1>8
    <3>2. i # 1
      BY <1>5, <2>2, <3>1
    <3>3. PICK k \in 1 .. n : k + 1 = i
      <4>1. i - 1 \in 1 .. n /\ (i - 1) + 1 = i
        BY <1>4, <3>2
      <4> QED BY <4>1
    <3>4. k \in 1 .. Len(t) /\ t[k] = x
      BY <1>15, <3>1, <3>3
    <3> QED BY <3>4
  <2>3. ASSUME NEW x \in F PROVE \E i \in 1 .. Len(t) : t[i] = x
    <3>1. PICK i \in 1 .. m : x = f[i]
      BY <1>11, <1>14
    <3>2. n + i \in 1 .. Len(t) /\ t[n + i] = x
      BY <1>15, <3>1
    <3> QED BY <3>2
  <2> QED BY <2>1, <2>2, <2>3
<1>23. VisitedOf(h, r, t, once \cup F) = ((once \ H) \ Q) \cup {c}
  <2>1. DOMAIN t = 1 .. Len(t)
    BY <1>15
  <2>2. VisitedOf(h, r, t, once \cup F) = ((once \cup F) \ H) \ {t[i] : i \in 1 .. Len(t)}
    BY <1>1, <1>3, <2>1 DEF VisitedOf
  <2>3. \A x : x \in {t[i] : i \in 1 .. Len(t)} <=> (x \in Q /\ x # c) \/ x \in F
    BY <1>22
  <2>4. \A x : x \in VisitedOf(h, r, t, once \cup F) <=> x \in ((once \ H) \ Q) \cup {c}
    BY <1>6, <1>12, <2>2, <2>3
  <2> QED BY <2>4
<1>24. ASSUME c \in h.present PROVE IsHistoryWalk(h, r, t, once \cup F)
  <2>1. \A i \in 1 .. Len(t) : t[i] \in (once \cup F) \ H
    BY <1>12, <1>15, <1>19, <1>20
  <2>2. once \cup F \subseteq AncestorsOf(h, r.head)
    <3>1. r.head \in DOMAIN h.parents
      BY HistoriesAssumption
    <3>2. IsClosed(h, AncestorsOf(h, r.head))
      BY <3>1, AncestorsAreLeast
    <3>3. \A i \in DOMAIN h.parents[c] : h.parents[c][i] \in AncestorsOf(h, r.head)
      BY <1>6, <1>24, <3>2 DEF IsClosed
    <3> QED BY <1>3, <1>12, <3>3
  <2>3. ASSUME NEW d \in VisitedOf(h, r, t, once \cup F), NEW i \in DOMAIN h.parents[d]
        PROVE  h.parents[d][i] \in (once \cup F) \cup H
    <3>1. CASE d = c
      BY <1>12, <2>3, <3>1
    <3>2. CASE d # c
      <4>1. d \in VisitedOf(h, r, q, once)
        BY <1>9, <1>23, <3>2
      <4> QED BY <1>3, <4>1
    <3> QED BY <3>1, <3>2
  <2> QED BY <1>1, <1>2, <1>3, <1>15, <1>21, <2>1, <2>2, <2>3 DEF IsHistoryWalk
<1> QED BY <1>7, <1>9, <1>10, <1>11, <1>13, <1>23, <1>24

(* A commit of the range is visited that does not count, but is told of.   *)
LEMMA VisitedAndLeft ==
  ASSUME NEW h, NEW r, NEW V, NEW pf, NEW pp, NEW t, IsOfVisited(h, r, V, pf, pp, t),
         NEW c, c \in InRange(h, r) \cap h.present, c \notin CountedOf(h, r, {c}),
         NEW u, IsTold(h, r, V \cup {c}, u)
  PROVE  IsOfVisited(h, r, V \cup {c}, pf, pp, u)
<1>1. \A x : x \in CountedOf(h, r, V \cup {c}) <=> x \in CountedOf(h, r, V)
  BY DEF CountedOf
<1>2. CountedOf(h, r, V \cup {c}) = CountedOf(h, r, V)
  BY <1>1
<1> QED BY <1>2 DEF IsOfVisited

(* One is visited that counts.                                             *)
LEMMA VisitedAndCounted ==
  ASSUME NEW h \in Histories, NEW r, NEW V, NEW pf, NEW pp, NEW t, IsOfVisited(h, r, V, pf, pp, t),
         NEW c, c \in InRange(h, r) \cap h.present, c \notin V, c \in CountedOf(h, r, {c}),
         NEW u, IsTold(h, r, V \cup {c}, u)
  PROVE  IsOfVisited(h, r, V \cup {c}, CountedOnce(pf, h.touched[c]), CountedOnce(pp, PairsOf(h.touched[c])), u)
<1> DEFINE K == CountedOf(h, r, V)
<1>1. \A x : x \in CountedOf(h, r, V \cup {c}) <=> x \in K \cup {c}
  BY DEF CountedOf
<1>2. CountedOf(h, r, V \cup {c}) = K \cup {c}
  BY <1>1
<1>3. /\ V \subseteq InRange(h, r) \cap h.present
      /\ Tallies(pf, K, h.touched) /\ Tallies(pp, K, PairsIn(h)) /\ IsFiniteSet(DOMAIN pp)
  BY DEF IsOfVisited
<1>4. IsFiniteSet(h.present)
  <2>1. IsFiniteSet(DOMAIN h.parents) /\ h.present \in SUBSET DOMAIN h.parents
    BY HistoriesAssumption
  <2> QED BY <2>1, FS_Subset
<1>5. IsFiniteSet(K) /\ c \notin K
  <2>1. K \in SUBSET h.present /\ c \notin K
    BY <1>3 DEF CountedOf
  <2> QED BY <1>4, <2>1, FS_Subset
<1>6. PICK files : files = h.touched[c]
  OBVIOUS
<1>7. IsFiniteSet(files)
  BY <1>6, HistoriesAssumption
<1>8. IsFiniteSet(PairsOf(files))
  <2>1. IsFiniteSet(files \X files)
    BY <1>7, FS_Product
  <2>2. PairsOf(files) \in SUBSET (files \X files)
    BY DEF PairsOf
  <2> QED BY <2>1, <2>2, FS_Subset
<1>9. PICK of : of = PairsIn(h)
  OBVIOUS
<1>10. of[c] = PairsOf(files)
  BY <1>6, <1>9 DEF PairsIn
<1>11. Tallies(CountedOnce(pf, h.touched[c]), K \cup {c}, h.touched)
  <2>1. PICK touched : touched = h.touched
    OBVIOUS
  <2>2. Tallies(CountedOnce(pf, touched[c]), K \cup {c}, touched)
    <3> HIDE DEF K
    <3> QED BY <1>3, <1>5, <2>1, TalliesOneMore
  <2> QED BY <2>1, <2>2
<1>12. Tallies(CountedOnce(pp, PairsOf(files)), K \cup {c}, of)
  <2>1. Tallies(CountedOnce(pp, of[c]), K \cup {c}, of)
    <3> HIDE DEF K
    <3> QED BY <1>3, <1>5, <1>9, TalliesOneMore
  <2> QED BY <1>10, <2>1
<1>13. IsFiniteSet(DOMAIN CountedOnce(pp, PairsOf(files)))
  <2>1. DOMAIN CountedOnce(pp, PairsOf(files)) = PairsOf(files) \cup DOMAIN pp
    BY DEF CountedOnce
  <2> QED BY <1>3, <1>8, <2>1, FS_Union
<1> HIDE DEF K
<1> QED BY <1>2, <1>3, <1>6, <1>9, <1>11, <1>12, <1>13 DEF IsOfVisited

(* What Consider adds to the tallies. *)
Noted(h, r, c, t, u) ==
  \/ Len(h.parents[c]) > 1 /\ u = [t EXCEPT !["merge"] = @ + 1]
  \/ Len(h.parents[c]) = 0 /\ u = [t EXCEPT !["root"] = @ + 1]
  \/ Len(h.parents[c]) = 1 /\ u = [t EXCEPT !["large"] = @ + 1]
  \/ /\ Len(h.parents[c]) = 1 /\ u = [t EXCEPT !["considered"] = @ + 1]
     /\ ~(r.maxFiles > 0 /\ Cardinality(h.touched[c]) > r.maxFiles)

LEMMA ToldWhenVisited ==
  ASSUME NEW h, NEW r, NEW V, NEW t, IsTold(h, r, V, t), NEW c, NEW u, Noted(h, r, c, t, u),
         Len(h.parents[c]) \in Nat
  PROVE  IsTold(h, r, V \cup {c}, u)
<1>1. PICK a \in Nat, b \in Nat, d \in Nat, e \in Nat : t = [considered |-> a, merge |-> b, root |-> d, large |-> e]
  <2>1. t \in [considered : Nat, merge : Nat, root : Nat, large : Nat]
    BY DEF IsTold
  <2> QED BY <2>1
<1> DEFINE Large(x) == r.maxFiles > 0 /\ Cardinality(h.touched[x]) > r.maxFiles
           Tells(x, i, j, k) ==
             /\ Len(h.parents[x]) > 1 => i > 0
             /\ Len(h.parents[x]) = 0 => j > 0
             /\ Len(h.parents[x]) = 1 /\ Large(x) => k > 0
<1>2. \A x \in V : Tells(x, b, d, e)
  BY <1>1 DEF IsTold
<1> HIDE DEF Large
<1>7. \E m \in Nat, i \in Nat, j \in Nat, k \in Nat :
        /\ u = [considered |-> m, merge |-> i, root |-> j, large |-> k]
        /\ b <= i /\ d <= j /\ e <= k /\ Tells(c, i, j, k)
  <2>3. CASE Len(h.parents[c]) > 1 /\ u = [t EXCEPT !["merge"] = @ + 1]
    <3>1. u = [considered |-> a, merge |-> b + 1, root |-> d, large |-> e]
      BY <1>1, <2>3
    <3>2. b + 1 \in Nat /\ b + 1 > 0 /\ b <= b + 1 /\ d <= d /\ e <= e
      OBVIOUS
    <3>3. Len(h.parents[c]) # 0 /\ Len(h.parents[c]) # 1
      <4>1. Len(h.parents[c]) > 1
        BY <2>3
      <4>2. \A k \in Nat : k > 1 => k # 0 /\ k # 1
        OBVIOUS
      <4> QED BY <4>1, <4>2, Zenon
    <3>4. Tells(c, b + 1, d, e)
      BY <3>2, <3>3
    <3> QED BY <3>1, <3>2, <3>4
  <2>4. CASE Len(h.parents[c]) = 0 /\ u = [t EXCEPT !["root"] = @ + 1]
    <3>1. u = [considered |-> a, merge |-> b, root |-> d + 1, large |-> e]
      BY <1>1, <2>4
    <3>2. d + 1 \in Nat /\ b <= b /\ d <= d + 1 /\ e <= e /\ Tells(c, b, d + 1, e)
      BY <2>4
    <3> QED BY <3>1, <3>2
  <2>5. CASE Len(h.parents[c]) = 1 /\ u = [t EXCEPT !["large"] = @ + 1]
    <3>1. u = [considered |-> a, merge |-> b, root |-> d, large |-> e + 1]
      BY <1>1, <2>5
    <3>2. e + 1 \in Nat /\ b <= b /\ d <= d /\ e <= e + 1 /\ Tells(c, b, d, e + 1)
      BY <2>5
    <3> QED BY <3>1, <3>2
  <2>6. CASE Len(h.parents[c]) = 1 /\ u = [t EXCEPT !["considered"] = @ + 1] /\ ~Large(c)
    <3>1. u = [considered |-> a + 1, merge |-> b, root |-> d, large |-> e]
      BY <1>1, <2>6
    <3>2. a + 1 \in Nat /\ b <= b /\ d <= d /\ e <= e /\ Tells(c, b, d, e)
      BY <2>6
    <3> QED BY <3>1, <3>2
  <2> QED BY <2>3, <2>4, <2>5, <2>6 DEF Large, Noted
<1>8. PICK m \in Nat, i \in Nat, j \in Nat, k \in Nat :
        /\ u = [considered |-> m, merge |-> i, root |-> j, large |-> k]
        /\ b <= i /\ d <= j /\ e <= k /\ Tells(c, i, j, k)
  BY <1>7
<1>9. \A x \in V \cup {c} : Tells(x, i, j, k)
  <2>1. ASSUME NEW x \in V PROVE Tells(x, i, j, k)
    <3>1. Tells(x, b, d, e)
      BY <1>2
    <3> QED BY <1>8, <3>1
  <2> HIDE DEF Tells
  <2> QED BY <1>8, <2>1
<1>10. u \in [considered : Nat, merge : Nat, root : Nat, large : Nat] /\ u.merge = i /\ u.root = j /\ u.large = k
  BY <1>8
<1> QED BY <1>9, <1>10 DEF IsTold, Large

(* What lies beyond a commit that cannot be read is not whole.             *)
LEMMA NotWhole ==
  ASSUME NEW h \in Histories, NEW r \in RangesAsked, NEW c \in AncestorsOf(h, r.head)
  PROVE  /\ c \notin h.present => ~IsWhole(h, r)
         /\ c \in h.present => \A i \in DOMAIN h.parents[c] : h.parents[c][i] \notin h.present => ~IsWhole(h, r)
<1>1. r.head \in DOMAIN h.parents
  BY HistoriesAssumption
<1>2. IsClosed(h, AncestorsOf(h, r.head))
  BY <1>1, AncestorsAreLeast
<1> QED BY <1>2 DEF IsWhole, IsClosed

LEMMA CouplingVisits ==
  ASSUME CouplingInv, VisitCommit PROVE CouplingInv'
<1>1. PICK h \in Histories : h = history
  BY DEF CouplingInv, CountInv
<1>2. PICK r \in RangesAsked : r = range
  BY DEF CouplingInv, CountInv
<1>3. PICK q, once, V : q = queued /\ once = queuedOnce /\ V = VisitedOf(h, r, q, once)
  OBVIOUS
<1>4. /\ counting = "walk" /\ q # <<>> /\ history' = h /\ range' = r
      /\ IsOfVisited(h, r, V, perFile, perPair, tally) /\ IsHistoryWalk(h, r, q, once) /\ ~truncated
  BY <1>1, <1>2, <1>3 DEF CouplingInv, CountInv, VisitCommit
<1>5. PICK c : c = Head(q)
  OBVIOUS
<1>6. PICK D : D = DOMAIN h.parents
  OBVIOUS
<1>7. c \in once /\ once \subseteq AncestorsOf(h, r.head) /\ c \in D
  <2>1. q \in Seq(D) /\ (\A i \in 1 .. Len(q) : q[i] \in once) /\ once \subseteq AncestorsOf(h, r.head)
    BY <1>4, <1>6 DEF IsHistoryWalk
  <2>2. Head(q) = q[1] /\ 1 \in 1 .. Len(q) /\ q[1] \in D
    BY <1>4, <2>1
  <2> QED BY <1>5, <2>1, <2>2
<1>8. h.parents[c] \in Seq(D)
  BY <1>6, <1>7, HistoriesAssumption
<1>9. PICK f : f = FreshParents(c)
  OBVIOUS
<1>10. IsFresh(f, h, c, once \cup HiddenBy(h, r.base)) /\ f \in Seq(D)
  <2>1. IsFresh(f, h, c, once \cup HiddenBy(h, r.base))
    BY <1>1, <1>2, <1>3, <1>6, <1>8, <1>9, FreshIs
  <2> QED BY <1>6, <2>1 DEF IsFresh
<1>11. PICK t, all : t = Tail(q) \o f /\ all = once \cup Range(f)
  OBVIOUS
<1>12. /\ c \in InRange(h, r) /\ c \notin V
       /\ c \in h.present => IsHistoryWalk(h, r, t, all) /\ VisitedOf(h, r, t, all) = V \cup {c}
  <2>1. IsHistoryStep(h, r, q, once, c, f, t, all)
    BY <1>4, <1>5, <1>10, <1>11 DEF IsHistoryStep
  <2> QED BY <1>3, <2>1, WalkGoesOn
<1>13. c \in AncestorsOf(h, r.head)
  BY <1>7
<1>14. CASE c \notin h.present
  <2>1. /\ truncated' /\ counting' = "report" /\ queued' = q /\ queuedOnce' = once
        /\ perFile' = perFile /\ perPair' = perPair /\ tally' = tally
    BY <1>1, <1>3, <1>5, <1>14 DEF VisitCommit
  <2>2. ~IsWhole(h, r)
    BY <1>13, <1>14, NotWhole
  <2> QED BY <1>3, <1>4, <2>1, <2>2 DEF CouplingInv, CountInv, CouplingCountsTheRange
<1>15. CASE c \in h.present
  <2>1. queued' = t /\ queuedOnce' = all /\ truncated' = truncated /\ Consider(c)
    BY <1>1, <1>3, <1>5, <1>9, <1>11, <1>15 DEF VisitCommit
  <2>2. c \in InRange(h, r) \cap h.present
    BY <1>12, <1>15
  <2>3. PICK l \in Nat : l = Len(h.parents[c])
    BY <1>8
  <2>11. Cardinality(h.touched[c]) \in Nat /\ r.maxFiles \in Nat
    BY <1>15, HistoriesAssumption, RangesAssumption, FS_CardinalityType
  <2>4. ASSUME counting' = "walk", IsOfVisited(h, r, V \cup {c}, perFile', perPair', tally') PROVE CouplingInv'
    BY <1>4, <1>12, <1>15, <2>1, <2>4 DEF CouplingInv, CountInv, CouplingCountsTheRange
  <2>5. ASSUME l > 1 \/ l = 0 \/ (l = 1 /\ r.maxFiles > 0 /\ Cardinality(h.touched[c]) > r.maxFiles),
               counting' = counting, perFile' = perFile, perPair' = perPair,
               Noted(h, r, c, tally, tally')
        PROVE  CouplingInv'
    <3>1. c \notin CountedOf(h, r, {c})
      <4>1. ~(Len(h.parents[c]) = 1 /\ (r.maxFiles > 0 => Cardinality(h.touched[c]) <= r.maxFiles))
        <5>1. \A i, k, x \in Nat : (i > 1 \/ i = 0 \/ (i = 1 /\ x > 0 /\ k > x)) => ~(i = 1 /\ (x > 0 => k <= x))
          OBVIOUS
        <5> QED BY <2>3, <2>5, <2>11, <5>1, Zenon
      <4> QED BY <4>1 DEF CountedOf
    <3>2. IsTold(h, r, V, tally)
      BY <1>4 DEF IsOfVisited
    <3>3. IsTold(h, r, V \cup {c}, tally')
      BY <1>8, <2>5, <3>2, ToldWhenVisited
    <3>4. IsOfVisited(h, r, V \cup {c}, perFile, perPair, tally')
      BY <1>4, <2>2, <3>1, <3>3, VisitedAndLeft
    <3> QED BY <1>4, <2>4, <2>5, <3>4
  <2>6. CASE l > 1 /\ tally' = [tally EXCEPT !["merge"] = @ + 1] /\ UNCHANGED <<perFile, perPair, counting>>
    BY <2>3, <2>5, <2>6 DEF Noted
  <2>7. CASE l = 0 /\ tally' = [tally EXCEPT !["root"] = @ + 1] /\ UNCHANGED <<perFile, perPair, counting>>
    BY <2>3, <2>5, <2>7 DEF Noted
  <2>8. CASE /\ l = 1 /\ r.maxFiles > 0 /\ Cardinality(h.touched[c]) > r.maxFiles
             /\ tally' = [tally EXCEPT !["large"] = @ + 1] /\ UNCHANGED <<perFile, perPair, counting>>
    BY <2>3, <2>5, <2>8 DEF Noted
  <2>9. CASE /\ l = 1 /\ h.parents[c][1] \notin h.present
             /\ counting' = "done" /\ coupled' = [outcome |-> "error"]
    <3>1. 1 \in DOMAIN h.parents[c]
      <4>1. DOMAIN h.parents[c] = 1 .. Len(h.parents[c])
        BY <1>8
      <4>2. DOMAIN h.parents[c] = 1 .. 1
        BY <2>3, <2>9, <4>1, Zenon
      <4> QED BY <4>2
    <3>2. ~IsWhole(h, r)
      BY <1>13, <1>15, <2>9, <3>1, NotWhole
    <3>3. ~(AncestorsOf(history', range'.head) \cup AncestorsOf(history', range'.base) \subseteq (history').present)
      BY <1>4, <3>2 DEF IsWhole
    <3>4. coupled'.outcome # "report"
      BY <2>9
    <3>5. CouplingCountsTheRange'
      BY <3>3, <3>4 DEF CouplingCountsTheRange
    <3> QED BY <1>4, <2>9, <3>5 DEF CouplingInv, CountInv
  <2>10. CASE /\ l = 1 /\ ~(r.maxFiles > 0 /\ Cardinality(h.touched[c]) > r.maxFiles)
              /\ tally' = [tally EXCEPT !["considered"] = @ + 1]
              /\ perFile' = CountedOnce(perFile, h.touched[c])
              /\ perPair' = CountedOnce(perPair, PairsOf(h.touched[c]))
              /\ UNCHANGED counting
    <3>1. c \in CountedOf(h, r, {c})
      <4>1. Len(h.parents[c]) = 1 /\ (r.maxFiles > 0 => Cardinality(h.touched[c]) <= r.maxFiles)
        BY <2>3, <2>10, <2>11
      <4> QED BY <4>1 DEF CountedOf
    <3>2. IsTold(h, r, V, tally)
      BY <1>4 DEF IsOfVisited
    <3>3. Noted(h, r, c, tally, tally')
      BY <2>3, <2>10 DEF Noted
    <3>4. IsTold(h, r, V \cup {c}, tally')
      BY <1>8, <3>2, <3>3, ToldWhenVisited
    <3>5. IsOfVisited(h, r, V \cup {c}, perFile', perPair', tally')
      BY <1>4, <1>12, <2>2, <2>10, <3>1, <3>4, VisitedAndCounted
    <3> QED BY <1>4, <2>4, <2>10, <3>5
  <2> QED BY <1>1, <1>2, <2>1, <2>3, <2>6, <2>7, <2>8, <2>9, <2>10 DEF Consider
<1> QED BY <1>14, <1>15

-------------------------------------------------------------------------------
(* When the queue is empty all of the range has been visited.              *)
LEMMA AllVisited ==
  ASSUME NEW h \in Histories, NEW r \in RangesAsked, NEW q, q = <<>>, NEW once, IsHistoryWalk(h, r, q, once),
         NEW V, V = VisitedOf(h, r, q, once), V \subseteq h.present
  PROVE  V = InRange(h, r)
<1>1. PICK H : H = HiddenBy(h, r.base) /\ H = AncestorsOf(h, r.base)
  BY DEF HiddenBy
<1>2. /\ H \subseteq h.present /\ once \subseteq AncestorsOf(h, r.head) /\ r.head \in once
      /\ \A c \in V : \A i \in DOMAIN h.parents[c] : h.parents[c][i] \in once \cup H
  BY <1>1 DEF IsHistoryWalk
<1>3. V = once \ H
  <2>1. {q[i] : i \in DOMAIN q} = {}
    OBVIOUS
  <2> QED BY <1>1, <1>2, <2>1 DEF VisitedOf
<1>4. r.head \in DOMAIN h.parents /\ r.base \in DOMAIN h.parents
  BY HistoriesAssumption
<1>5. IsClosed(h, H)
  BY <1>1, <1>4, AncestorsAreLeast
<1>6. IsClosed(h, once \cup H)
  <2>1. ASSUME NEW c \in (once \cup H) \cap h.present, NEW i \in DOMAIN h.parents[c]
        PROVE  h.parents[c][i] \in once \cup H
    BY <1>2, <1>3, <1>5 DEF IsClosed
  <2> QED BY <2>1 DEF IsClosed
<1>7. AncestorsOf(h, r.head) \subseteq once \cup H
  <2>1. r.head \in once \cup H
    BY <1>2
  <2> QED BY <1>4, <1>6, <2>1, AncestorsAreLeast
<1>8. \A x : x \in V <=> x \in InRange(h, r)
  BY <1>1, <1>2, <1>3, <1>7 DEF InRange
<1> QED BY <1>8

(* What the report must be: its counts right, no pair left out for no      *)
(* reason, nor any commit.                                                 *)
OfPair(h, r, a, b) == ChangedIn(h, Countable(h, r), {a, b})
OfFile(h, r, a) == ChangedIn(h, Countable(h, r), {a})

CountsRight(h, r, pairs, cut) ==
  \A i \in DOMAIN pairs :
    IF cut THEN pairs[i].cochanges <= OfPair(h, r, pairs[i].a, pairs[i].b)
    ELSE /\ pairs[i].cochanges = OfPair(h, r, pairs[i].a, pairs[i].b)
         /\ pairs[i].changesA = OfFile(h, r, pairs[i].a)
         /\ pairs[i].changesB = OfFile(h, r, pairs[i].b)

PairsListed(h, r, pairs, under) ==
  \A p \in PairsOf(UNION {h.touched[c] : c \in Countable(h, r)}) :
    \/ \E i \in DOMAIN pairs : pairs[i].a = p[1] /\ pairs[i].b = p[2]
    \/ OfPair(h, r, p[1], p[2]) = 0
    \/ "history-boundary" \in under
    \/ OfPair(h, r, p[1], p[2]) < r.minCochanges /\ "cochange-threshold" \in under
    \/ /\ \A i \in DOMAIN pairs : pairs[i].cochanges >= OfPair(h, r, p[1], p[2])
       /\ "result-limit" \in under

CommitsToldOf(h, r, under) ==
  Countable(h, r) # InRange(h, r) =>
    \E x \in {"merge-commits-excluded", "root-commits-excluded",
              "large-commit-excluded", "history-boundary"} : x \in under

ReportIsRight(h, r, report, cut) ==
  /\ IsWhole(h, r) => report.outcome = "report" /\ ~cut
  /\ report.outcome = "report" =>
       /\ CountsRight(h, r, report.pairs, cut)
       /\ PairsListed(h, r, report.pairs, report.under)
       /\ CommitsToldOf(h, r, report.under)

LEMMA RightWhenCounted ==
  CouplingCountsTheRange /\ counting = "done" => ReportIsRight(history, range, coupled, truncated)
BY DEF CouplingCountsTheRange, IsWhole, ReportIsRight, CountsRight, PairsListed, CommitsToldOf, OfPair, OfFile

LEMMA CountedWhenRight ==
  ReportIsRight(history', range', coupled', truncated') => CouplingCountsTheRange'
BY DEF CouplingCountsTheRange, IsWhole, ReportIsRight, CountsRight, PairsListed, CommitsToldOf, OfPair, OfFile

(* What the contract of a report says.                                     *)
LEMMA CodesSay ==
  ASSUME NEW pairs, NEW total, NEW under, under = HistoryCodes(pairs, total)
  PROVE  /\ tally.merge > 0 => "merge-commits-excluded" \in under
         /\ tally.root > 0 => "root-commits-excluded" \in under
         /\ tally.large > 0 => "large-commit-excluded" \in under
         /\ range.minCochanges > 1 => "cochange-threshold" \in under
         /\ Len(pairs) < total => "result-limit" \in under
         /\ truncated => "history-boundary" \in under
BY DEF HistoryCodes

LEMMA PairsOfFiles ==
  ASSUME NEW files \in SUBSET Int
  PROVE  /\ PairsOf(files) \subseteq {p \in Int \X Int : p[1] < p[2]}
         /\ \A p \in Int \X Int : p[1] < p[2] => (p \in PairsOf(files) <=> {p[1], p[2]} \subseteq files)
BY DEF PairsOf

(* The counts are of the commits that count among those visited.           *)
LEMMA CountsAre ==
  ASSUME NEW h \in Histories, NEW r, NEW V, NEW pf, NEW pp, NEW t, IsOfVisited(h, r, V, pf, pp, t),
         NEW K, K = CountedOf(h, r, V)
  PROVE  /\ DOMAIN pp \subseteq Int \X Int
         /\ \A p \in DOMAIN pp : /\ pp[p] = ChangedIn(h, K, {p[1], p[2]})
                                 /\ pf[p[1]] = ChangedIn(h, K, {p[1]})
                                 /\ pf[p[2]] = ChangedIn(h, K, {p[2]})
         /\ \A p \in Int \X Int : p[1] < p[2] /\ ChangedIn(h, K, {p[1], p[2]}) # 0 => p \in DOMAIN pp
         /\ \A S : ChangedIn(h, K, S) \in Nat
<1>1. /\ V \subseteq InRange(h, r) \cap h.present
      /\ Tallies(pf, K, h.touched) /\ Tallies(pp, K, PairsIn(h))
  BY DEF IsOfVisited
<1>2. K \in SUBSET h.present
  BY <1>1 DEF CountedOf
<1>3. IsFiniteSet(K)
  <2>1. IsFiniteSet(DOMAIN h.parents) /\ h.present \in SUBSET DOMAIN h.parents
    BY HistoriesAssumption
  <2>2. K \in SUBSET DOMAIN h.parents
    BY <1>2, <2>1
  <2> QED BY <2>1, <2>2, FS_Subset
<1>4. \A d \in K : h.touched[d] \in SUBSET Int /\ PairsIn(h)[d] = PairsOf(h.touched[d])
  BY <1>2, HistoriesAssumption DEF PairsIn
<1>5. ASSUME NEW p \in Int \X Int, p[1] < p[2], NEW d \in K
      PROVE  p \in PairsIn(h)[d] <=> {p[1], p[2]} \subseteq h.touched[d]
  BY <1>4, <1>5, PairsOfFiles
<1>6. ASSUME NEW d \in K, NEW p \in PairsIn(h)[d] PROVE p \in Int \X Int /\ p[1] < p[2]
  BY <1>4, PairsOfFiles
<1>7. ASSUME NEW p \in DOMAIN pp PROVE p \in Int \X Int /\ p[1] < p[2] /\ \E d \in K : {p[1], p[2]} \subseteq h.touched[d]
  <2>1. PICK d \in K : p \in PairsIn(h)[d]
    BY <1>1 DEF Tallies
  <2>2. p \in Int \X Int /\ p[1] < p[2]
    BY <1>6, <2>1
  <2> QED BY <1>5, <2>1, <2>2
<1>8. ASSUME NEW p \in DOMAIN pp PROVE pp[p] = ChangedIn(h, K, {p[1], p[2]})
  <2>1. pp[p] = Cardinality({d \in K : p \in PairsIn(h)[d]})
    BY <1>1 DEF Tallies
  <2>2. \A d \in K : p \in PairsIn(h)[d] <=> {p[1], p[2]} \subseteq h.touched[d]
    BY <1>5, <1>7
  <2>3. {d \in K : p \in PairsIn(h)[d]} = {d \in K : {p[1], p[2]} \subseteq h.touched[d]}
    BY <2>2
  <2> QED BY <2>1, <2>3 DEF ChangedIn
<1>9. ASSUME NEW a, \E d \in K : a \in h.touched[d] PROVE pf[a] = ChangedIn(h, K, {a})
  <2>1. a \in DOMAIN pf
    BY <1>1, <1>9 DEF Tallies
  <2>2. pf[a] = Cardinality({d \in K : a \in h.touched[d]})
    BY <1>1, <2>1 DEF Tallies
  <2>3. {d \in K : a \in h.touched[d]} = {d \in K : {a} \subseteq h.touched[d]}
    OBVIOUS
  <2> QED BY <2>2, <2>3 DEF ChangedIn
<1>10. ASSUME NEW p \in Int \X Int, p[1] < p[2], p \notin DOMAIN pp PROVE ChangedIn(h, K, {p[1], p[2]}) = 0
  <2>1. \A d \in K : p \notin PairsIn(h)[d]
    BY <1>1, <1>10 DEF Tallies
  <2>2. {d \in K : {p[1], p[2]} \subseteq h.touched[d]} = {}
    BY <1>5, <1>10, <2>1
  <2> QED BY <2>2, FS_EmptySet DEF ChangedIn
<1>11. ASSUME NEW S PROVE ChangedIn(h, K, S) \in Nat
  <2>1. {d \in K : S \subseteq h.touched[d]} \in SUBSET K
    OBVIOUS
  <2>2. IsFiniteSet({d \in K : S \subseteq h.touched[d]})
    BY <1>3, <2>1, FS_Subset
  <2> QED BY <2>2, FS_CardinalityType DEF ChangedIn
<1>12. DOMAIN pp \subseteq Int \X Int
  BY <1>7
<1>13. \A p \in DOMAIN pp : pf[p[1]] = ChangedIn(h, K, {p[1]}) /\ pf[p[2]] = ChangedIn(h, K, {p[2]})
  BY <1>7, <1>9
<1> QED BY <1>8, <1>10, <1>11, <1>12, <1>13

(* Of more commits no fewer have changed the same files.                   *)
LEMMA ChangedInMore ==
  ASSUME NEW h, NEW L, IsFiniteSet(L), NEW K \in SUBSET L, NEW S
  PROVE  ChangedIn(h, K, S) <= ChangedIn(h, L, S)
<1>1. {d \in L : S \subseteq h.touched[d]} \in SUBSET L
  OBVIOUS
<1>2. IsFiniteSet({d \in L : S \subseteq h.touched[d]})
  BY <1>1, FS_Subset
<1>3. {d \in K : S \subseteq h.touched[d]} \in SUBSET {d \in L : S \subseteq h.touched[d]}
  OBVIOUS
<1> QED BY <1>2, <1>3, FS_Subset DEF ChangedIn

(* Which commits of a range count, seen from those of it visited.          *)
LEMMA CountedAmong ==
  ASSUME NEW h \in Histories, NEW r \in RangesAsked, NEW V \in SUBSET (InRange(h, r) \cap h.present)
  PROVE  /\ CountedOf(h, r, V) \in SUBSET Countable(h, r) /\ IsFiniteSet(Countable(h, r))
         /\ V = InRange(h, r) => CountedOf(h, r, V) = Countable(h, r)
<1>1. Countable(h, r) \in SUBSET DOMAIN h.parents /\ IsFiniteSet(DOMAIN h.parents)
  BY HistoriesAssumption DEF Countable
<1>2. IsFiniteSet(Countable(h, r))
  BY <1>1, FS_Subset
<1>3. \A c : c \in CountedOf(h, r, V) => c \in Countable(h, r)
  BY DEF CountedOf, Countable
<1>4. ASSUME V = InRange(h, r) PROVE CountedOf(h, r, V) = Countable(h, r)
  <2>1. \A c : c \in CountedOf(h, r, V) <=> c \in Countable(h, r)
    BY <1>4 DEF CountedOf, Countable
  <2> QED BY <2>1
<1> QED BY <1>2, <1>3, <1>4

(* A limit keeps the first so many.                                        *)
LEMMA Limited ==
  ASSUME NEW S, NEW s \in Seq(S), NEW limit \in Nat,
         NEW pairs, pairs = IF limit > 0 /\ Len(s) > limit THEN SubSeq(s, 1, limit) ELSE s
  PROVE  /\ DOMAIN pairs = 1 .. Len(pairs) /\ Len(pairs) \in Nat /\ Len(pairs) <= Len(s)
         /\ \A i \in 1 .. Len(pairs) : i \in 1 .. Len(s) /\ pairs[i] = s[i]
<1>1. CASE limit > 0 /\ Len(s) > limit
  <2>1. PICK u : u = SubSeq(s, 1, limit)
    OBVIOUS
  <2>2. u \in Seq(S) /\ Len(u) = limit /\ \A i \in 1 .. limit : u[i] = s[i]
    BY <1>1, <2>1
  <2>3. pairs = u
    BY <1>1, <2>1
  <2> QED BY <1>1, <2>2, <2>3
<1>2. CASE ~(limit > 0 /\ Len(s) > limit)
  BY <1>2
<1> QED BY <1>1, <1>2

(* The rows s of the report tell of the pairs the commits K change,        *)
(* together and each of the two, those that changed together most first.   *)
RowCounts(h, K, x) ==
  /\ x.cochanges = ChangedIn(h, K, {x.a, x.b})
  /\ x.changesA = ChangedIn(h, K, {x.a})
  /\ x.changesB = ChangedIn(h, K, {x.b})

AreRowsOf(h, r, K, s) ==
  /\ \E S : s \in Seq(S)
  /\ \A i \in 1 .. Len(s) : RowCounts(h, K, s[i])
  /\ \A p \in Int \X Int :
       p[1] < p[2] /\ ChangedIn(h, K, {p[1], p[2]}) # 0 /\ ChangedIn(h, K, {p[1], p[2]}) >= r.minCochanges =>
         \E i \in 1 .. Len(s) : s[i].a = p[1] /\ s[i].b = p[2]
  /\ \A i, j \in 1 .. Len(s) : i < j => s[i].cochanges >= s[j].cochanges

LEMMA RowsAre ==
  ASSUME NEW h \in Histories, NEW r, r = range, NEW V, IsOfVisited(h, r, V, perFile, perPair, tally),
         NEW K, K = CountedOf(h, r, V)
  PROVE  AreRowsOf(h, r, K, SortedPairs)
<1>1. /\ DOMAIN perPair \subseteq Int \X Int
      /\ \A p \in DOMAIN perPair : /\ perPair[p] = ChangedIn(h, K, {p[1], p[2]})
                                   /\ perFile[p[1]] = ChangedIn(h, K, {p[1]})
                                   /\ perFile[p[2]] = ChangedIn(h, K, {p[2]})
      /\ \A p \in Int \X Int : p[1] < p[2] /\ ChangedIn(h, K, {p[1], p[2]}) # 0 => p \in DOMAIN perPair
      /\ \A S : ChangedIn(h, K, S) \in Nat
  BY CountsAre
<1>2. IsFiniteSet(DOMAIN perPair)
  BY DEF IsOfVisited
<1>3. \A p \in DOMAIN perPair : perPair[p] \in Nat
  BY <1>1
<1>4. PICK s : /\ s = SortedPairs /\ s \in Seq({RowOfPair(p) : p \in Reported})
               /\ \A p \in Reported : \E i \in 1 .. Len(s) : s[i] = RowOfPair(p)
               /\ \A i \in 1 .. Len(s) : \E p \in Reported : s[i] = RowOfPair(p)
               /\ \A i, j \in 1 .. Len(s) : i < j => s[i].cochanges >= s[j].cochanges
  BY <1>1, <1>2, <1>3, SortedIs
<1>5. \A p : /\ RowOfPair(p).a = p[1] /\ RowOfPair(p).b = p[2] /\ RowOfPair(p).cochanges = perPair[p]
             /\ RowOfPair(p).changesA = perFile[p[1]] /\ RowOfPair(p).changesB = perFile[p[2]]
  BY DEF RowOfPair
<1>6. ASSUME NEW i \in 1 .. Len(s) PROVE RowCounts(h, K, s[i])
  <2>1. PICK p \in Reported : s[i] = RowOfPair(p)
    BY <1>4
  <2>2. PICK x : x = s[i]
    OBVIOUS
  <2>3. /\ x.a = p[1] /\ x.b = p[2] /\ x.cochanges = perPair[p]
        /\ x.changesA = perFile[p[1]] /\ x.changesB = perFile[p[2]]
    BY <1>5, <2>1, <2>2
  <2>4. p \in DOMAIN perPair
    BY DEF Reported
  <2>5. RowCounts(h, K, x)
    BY <1>1, <2>3, <2>4 DEF RowCounts
  <2> QED BY <2>2, <2>5
<1>7. ASSUME NEW p \in Int \X Int, p[1] < p[2], ChangedIn(h, K, {p[1], p[2]}) # 0,
             ChangedIn(h, K, {p[1], p[2]}) >= r.minCochanges
      PROVE  \E i \in 1 .. Len(s) : s[i].a = p[1] /\ s[i].b = p[2]
  <2>1. p \in Reported
    BY <1>1, <1>7 DEF Reported
  <2>2. PICK i \in 1 .. Len(s) : s[i] = RowOfPair(p)
    BY <1>4, <2>1
  <2>3. s[i].a = p[1] /\ s[i].b = p[2]
    BY <1>5, <2>2
  <2> QED BY <2>3
<1>8. \E S : s \in Seq(S)
  BY <1>4
<1>9. \A i, j \in 1 .. Len(s) : i < j => s[i].cochanges >= s[j].cochanges
  BY <1>4
<1>10. AreRowsOf(h, r, K, s)
  BY <1>6, <1>7, <1>8, <1>9 DEF AreRowsOf
<1> QED BY <1>4, <1>10

LEMMA CouplingReports ==
  ASSUME CouplingInv, ReportPairs PROVE CouplingInv'
<1>1. PICK h \in Histories : h = history
  BY DEF CouplingInv, CountInv
<1>2. PICK r \in RangesAsked : r = range
  BY DEF CouplingInv, CountInv
<1>3. PICK V, K, L : V = VisitedOf(h, r, queued, queuedOnce) /\ K = CountedOf(h, r, V) /\ L = Countable(h, r)
  OBVIOUS
<1>4. /\ counting \in {"walk", "report"} /\ IsOfVisited(h, r, V, perFile, perPair, tally)
      /\ history' = h /\ range' = r /\ truncated' = truncated /\ counting' = "done"
      /\ truncated => counting = "report" /\ ~IsWhole(h, r)
      /\ ~truncated => counting = "walk" /\ queued = <<>> /\ IsHistoryWalk(h, r, queued, queuedOnce)
  BY <1>1, <1>2, <1>3 DEF CouplingInv, CountInv, ReportPairs
<1>5. V \in SUBSET (InRange(h, r) \cap h.present) /\ IsTold(h, r, V, tally)
  BY <1>4 DEF IsOfVisited
<1>6. ~truncated => V = InRange(h, r) /\ K = L
  <2>1. ASSUME ~truncated PROVE V = InRange(h, r)
    BY <1>3, <1>4, <1>5, <2>1, AllVisited
  <2> QED BY <1>3, <1>5, <2>1, CountedAmong
<1>7. K \in SUBSET L /\ IsFiniteSet(L)
  BY <1>3, <1>5, CountedAmong
<1>s. PICK s : s = SortedPairs
  OBVIOUS
<1>r. AreRowsOf(h, r, K, s)
  BY <1>2, <1>3, <1>4, <1>s, RowsAre
<1>8. /\ \E S : s \in Seq(S)
      /\ \A i \in 1 .. Len(s) : RowCounts(h, K, s[i])
      /\ \A p \in Int \X Int :
           p[1] < p[2] /\ ChangedIn(h, K, {p[1], p[2]}) # 0 /\ ChangedIn(h, K, {p[1], p[2]}) >= r.minCochanges =>
             \E i \in 1 .. Len(s) : s[i].a = p[1] /\ s[i].b = p[2]
      /\ \A i, j \in 1 .. Len(s) : i < j => s[i].cochanges >= s[j].cochanges
  BY <1>r DEF AreRowsOf
<1>9. PICK pairs : pairs = IF r.limit > 0 /\ Len(s) > r.limit THEN SubSeq(s, 1, r.limit) ELSE s
  OBVIOUS
<1>10. PICK under : under = HistoryCodes(pairs, Len(s))
  OBVIOUS
<1>11. coupled'.outcome = "report" /\ coupled'.pairs = pairs /\ coupled'.under = under
  BY <1>2, <1>s, <1>9, <1>10 DEF ReportPairs
<1>12. {r.maxFiles, r.minCochanges, r.limit} \subseteq Nat
  BY RangesAssumption
<1>13. /\ DOMAIN pairs = 1 .. Len(pairs) /\ Len(pairs) \in Nat /\ Len(pairs) <= Len(s)
       /\ \A i \in 1 .. Len(pairs) : i \in 1 .. Len(s) /\ pairs[i] = s[i]
  <2>1. PICK S : s \in Seq(S)
    BY <1>8
  <2> QED BY <1>9, <1>12, <2>1, Limited
<1>14. Len(s) \in Nat
  BY <1>8
<1>15. \A S : ChangedIn(h, K, S) <= ChangedIn(h, L, S)
  BY <1>7, ChangedInMore
<1>16. CountsRight(h, r, pairs, truncated')
  <2>1. ASSUME NEW i \in DOMAIN pairs
        PROVE  IF truncated THEN pairs[i].cochanges <= OfPair(h, r, pairs[i].a, pairs[i].b)
               ELSE /\ pairs[i].cochanges = OfPair(h, r, pairs[i].a, pairs[i].b)
                    /\ pairs[i].changesA = OfFile(h, r, pairs[i].a)
                    /\ pairs[i].changesB = OfFile(h, r, pairs[i].b)
    <3>1. pairs[i] = s[i] /\ i \in 1 .. Len(s)
      BY <1>13
    <3>2. PICK x : x = s[i]
      OBVIOUS
    <3>3. RowCounts(h, K, x)
      BY <1>8, <3>1, <3>2
    <3>4. IF truncated THEN x.cochanges <= OfPair(h, r, x.a, x.b)
          ELSE /\ x.cochanges = OfPair(h, r, x.a, x.b)
               /\ x.changesA = OfFile(h, r, x.a)
               /\ x.changesB = OfFile(h, r, x.b)
      <4>1. CASE truncated
        <5>1. x.cochanges = ChangedIn(h, K, {x.a, x.b})
          BY <3>3 DEF RowCounts
        <5>2. ChangedIn(h, K, {x.a, x.b}) <= ChangedIn(h, L, {x.a, x.b})
          BY <1>15
        <5> QED BY <1>3, <4>1, <5>1, <5>2 DEF OfPair
      <4>2. CASE ~truncated
        BY <1>3, <1>6, <3>3, <4>2 DEF OfPair, OfFile, RowCounts
      <4> QED BY <4>1, <4>2
    <3> QED BY <3>1, <3>2, <3>4
  <2> QED BY <1>4, <2>1 DEF CountsRight
<1>17. /\ tally.merge > 0 => "merge-commits-excluded" \in under
       /\ tally.root > 0 => "root-commits-excluded" \in under
       /\ tally.large > 0 => "large-commit-excluded" \in under
       /\ r.minCochanges > 1 => "cochange-threshold" \in under
       /\ Len(pairs) < Len(s) => "result-limit" \in under
       /\ truncated => "history-boundary" \in under
  BY <1>2, <1>10, CodesSay
<1>18. PairsListed(h, r, pairs, under)
  <2>1. ASSUME NEW p \in PairsOf(UNION {h.touched[c] : c \in L}), ~truncated
        PROVE  \/ \E i \in DOMAIN pairs : pairs[i].a = p[1] /\ pairs[i].b = p[2]
               \/ OfPair(h, r, p[1], p[2]) = 0
               \/ OfPair(h, r, p[1], p[2]) < r.minCochanges /\ "cochange-threshold" \in under
               \/ /\ \A i \in DOMAIN pairs : pairs[i].cochanges >= OfPair(h, r, p[1], p[2])
                  /\ "result-limit" \in under
    <3>1. p \in Int \X Int /\ p[1] < p[2]
      <4>1. L \subseteq h.present
        BY <1>3 DEF Countable
      <4>2. UNION {h.touched[c] : c \in L} \in SUBSET Int
        BY <4>1, HistoriesAssumption
      <4> QED BY <2>1, <4>2, PairsOfFiles
    <3>2. PICK n \in Nat : n = OfPair(h, r, p[1], p[2]) /\ n = ChangedIn(h, K, {p[1], p[2]})
      <4>1. ChangedIn(h, K, {p[1], p[2]}) \in Nat
        BY <1>3, <1>4, CountsAre
      <4> QED BY <1>3, <1>6, <2>1, <4>1 DEF OfPair
    <3>3. CASE n # 0 /\ n < r.minCochanges
      BY <1>12, <1>17, <3>2, <3>3
    <3>4. CASE n # 0 /\ ~(n < r.minCochanges)
      <4>1. n >= r.minCochanges
        BY <1>12, <3>4
      <4>2. PICK j \in 1 .. Len(s) : s[j].a = p[1] /\ s[j].b = p[2]
        BY <1>8, <3>1, <3>2, <3>4, <4>1
      <4>3. s[j].cochanges = n
        BY <1>8, <3>2, <4>2 DEF RowCounts
      <4>4. CASE j <= Len(pairs)
        BY <1>13, <4>2, <4>4
      <4>5. CASE ~(j <= Len(pairs))
        <5>1. Len(pairs) < Len(s)
          BY <1>13, <1>14, <4>5
        <5>2. ASSUME NEW i \in DOMAIN pairs PROVE pairs[i].cochanges >= n
          <6>1. i \in 1 .. Len(s) /\ pairs[i] = s[i] /\ i < j
            BY <1>13, <1>14, <4>5
          <6> QED BY <1>8, <4>3, <6>1
        <5> QED BY <1>17, <3>2, <5>1, <5>2
      <4> QED BY <4>4, <4>5
    <3> QED BY <3>2, <3>3, <3>4
  <2> QED BY <1>3, <1>17, <2>1 DEF PairsListed
<1>19. CommitsToldOf(h, r, under)
  <2>1. ASSUME L # InRange(h, r), ~truncated
        PROVE  tally.merge > 0 \/ tally.root > 0 \/ tally.large > 0
    <3>1. L \subseteq V /\ L # V
      BY <1>3, <1>6, <2>1 DEF Countable
    <3>2. PICK c \in V : c \notin K
      BY <1>6, <2>1, <3>1
    <3>3. ~(Len(h.parents[c]) = 1 /\ (r.maxFiles > 0 => Cardinality(h.touched[c]) <= r.maxFiles))
      BY <1>3, <3>2 DEF CountedOf
    <3>4. Len(h.parents[c]) \in Nat /\ Cardinality(h.touched[c]) \in Nat
      BY <1>5, <3>2, HistoriesAssumption, FS_CardinalityType
    <3>5. \/ Len(h.parents[c]) > 1 \/ Len(h.parents[c]) = 0
          \/ Len(h.parents[c]) = 1 /\ r.maxFiles > 0 /\ Cardinality(h.touched[c]) > r.maxFiles
      <4>1. \A i, k, x \in Nat : ~(i = 1 /\ (x > 0 => k <= x)) => (i > 1 \/ i = 0 \/ (i = 1 /\ x > 0 /\ k > x))
        OBVIOUS
      <4>2. r.maxFiles \in Nat
        BY <1>12
      <4> QED BY <3>3, <3>4, <4>1, <4>2, Zenon
    <3> QED BY <1>5, <3>2, <3>5 DEF IsTold
  <2> QED BY <1>3, <1>17, <2>1 DEF CommitsToldOf
<1>20. CouplingCountsTheRange'
  <2>1. IsWhole(h, r) => ~truncated'
    BY <1>4
  <2>2. ReportIsRight(h, r, coupled', truncated')
    BY <1>11, <1>16, <1>18, <1>19, <2>1 DEF ReportIsRight
  <2> QED BY <1>4, <2>2, CountedWhenRight
<1> QED BY <1>4, <1>20 DEF CouplingInv, CountInv

(* CouplingCountsTheRange: change_coupling counts the commits of a range   *)
(* and no others, each once, whatever the history, the range and the order *)
(* its merges have the walk meet them.                                     *)
THEOREM CountsAreOfTheRange == CouplingSpec => []CouplingCountsTheRange
<1>1. CouplingInit => CouplingInv
  BY CouplingAtFirst
<1>2. CouplingInv /\ [CouplingNext]_couplingVars => CouplingInv'
  <2> SUFFICES ASSUME CouplingInv, [CouplingNext]_couplingVars PROVE CouplingInv'
    OBVIOUS
  <2>1. CASE BeginCoupling
    BY <2>1, CouplingBegins
  <2>2. CASE VisitCommit
    BY <2>2, CouplingVisits
  <2>3. CASE ReportPairs
    BY <2>3, CouplingReports
  <2>4. CASE UNCHANGED couplingVars
    <3>1. /\ history' = history /\ range' = range /\ counting' = counting /\ queued' = queued
          /\ queuedOnce' = queuedOnce /\ perFile' = perFile /\ perPair' = perPair /\ tally' = tally
          /\ truncated' = truncated /\ coupled' = coupled
      BY <2>4 DEF couplingVars
    <3>2. CountInv'
      BY <3>1 DEF CouplingInv, CountInv
    <3>3. CouplingCountsTheRange'
      <4>1. CASE counting = "done"
        <5>1. ReportIsRight(history, range, coupled, truncated)
          BY <4>1, RightWhenCounted DEF CouplingInv
        <5> QED BY <3>1, <5>1, CountedWhenRight
      <4>2. CASE counting # "done"
        BY <3>1, <4>2 DEF CouplingCountsTheRange
      <4> QED BY <4>1, <4>2
    <3> QED BY <3>2, <3>3 DEF CouplingInv
  <2> QED BY <2>1, <2>2, <2>3, <2>4 DEF CouplingNext
<1>3. CouplingInv => CouplingCountsTheRange
  BY DEF CouplingInv
<1> QED BY <1>1, <1>2, <1>3, PTL DEF CouplingSpec
===============================================================================
