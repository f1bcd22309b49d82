----------------------------- MODULE ResolverProofs ----------------------------
(***************************************************************************)
(* Proofs about the passes over a linked graph, for every set of symbols,  *)
(* every code and every order of its files.                                *)
(*                                                                         *)
(* Two invariants carry the passes.  GraphInv is of the graph as it is:    *)
(* it is sound (edges of one call are alike but for where they lead; a     *)
(* certain one is the only one; a group is of one call, has two targets    *)
(* and a row for each, and no row is without its edge) and, once linked,   *)
(* in canonical form (in the order of its keys, groups numbered as they    *)
(* appear), which is what canonicalize leaves and what it does not change. *)
(* LinkedInv is of what the passes before took from the linked graph: all  *)
(* references have their edges, CHA scopes calls by name to all that the   *)
(* traits have, so what RTA takes for reachable holds all that is live.    *)
(*                                                                         *)
(* For the effect closure it is SearchInv, of the iterative search for     *)
(* strongly connected components.  The open nodes fall into segments, one  *)
(* for each frame: those met since its node, before that of the frame      *)
(* above.  A frame's node reaches all that was met after it and is open,   *)
(* and the nodes of its segment reach it; its low-link is the index of an  *)
(* open node it reaches, and no greater than any that its segment leads    *)
(* to.  So when it is left with its own index as low-link its segment      *)
(* leads to no open node before it, and is a component; and if not, its    *)
(* segment belongs to that of the frame below.                             *)
(***************************************************************************)
EXTENDS EffectClosure, InductionLemmas, TLAPS

-------------------------------------------------------------------------------
(* Sorting, renumbering, and the edges they leave.                         *)

(* less is a strict total order of S. *)
IsStrictOrder(S, less) ==
  /\ \A x \in S : <<x, x>> \notin less
  /\ \A x, y \in S : x = y \/ <<x, y>> \in less \/ <<y, x>> \in less
  /\ \A x, y, z \in S : <<x, y>> \in less /\ <<y, z>> \in less => <<x, z>> \in less

(* s lists S, each member once, in the order of less. *)
Lists(s, S, less) ==
  /\ s \in Seq(S)
  /\ Len(s) = Cardinality(S)
  /\ \A x \in S : \E i \in 1 .. Len(s) : s[i] = x
  /\ \A i, j \in 1 .. Len(s) : i < j => <<s[i], s[j]>> \in less
  /\ \A i, j \in 1 .. Len(s) : s[i] = s[j] => i = j

(* InOrder lists a finite set by any strict total order of it.             *)
LEMMA InOrderLists ==
  ASSUME NEW S, IsFiniteSet(S), NEW less, IsStrictOrder(S, less)
  PROVE  Lists(InOrder(S, less), S, less)
<1> DEFINE Below(x) == {y \in S : <<y, x>> \in less}
           Rank(x) == Cardinality(Below(x))
           n == Cardinality(S)
           placed == {<<1 + Rank(x), x>> : x \in S}
           s == InOrder(S, less)
<1>1. n \in Nat
  BY FS_CardinalityType
<1>2. \A x \in S : IsFiniteSet(Below(x)) /\ Rank(x) \in Nat
  <2>1. ASSUME NEW x \in S PROVE IsFiniteSet(Below(x)) /\ Rank(x) \in Nat
    <3>1. Below(x) \in SUBSET S
      OBVIOUS
    <3>2. IsFiniteSet(Below(x))
      BY <3>1, FS_Subset
    <3> QED BY <3>2, FS_CardinalityType
  <2> QED BY <2>1
<1>r. \A x \in S : Rank(x) \in Nat
  <2> HIDE DEF Rank, Below
  <2> QED BY <1>2
<1>3. ASSUME NEW x \in S PROVE Rank(x) \in 0 .. n - 1
  <2>1. Below(x) \in SUBSET S /\ x \notin Below(x)
    BY DEF IsStrictOrder
  <2>2. Rank(x) <= n /\ (Rank(x) = n => Below(x) = S)
    BY <2>1, FS_Subset
  <2>3. Rank(x) # n
    BY <2>1, <2>2
  <2> HIDE DEF Rank, n
  <2> QED BY <1>1, <1>r, <2>2, <2>3
<1>4. ASSUME NEW x \in S, NEW y \in S, <<x, y>> \in less PROVE Rank(x) < Rank(y)
  <2>1. x \notin Below(x)
    BY DEF IsStrictOrder
  <2>2. Below(x) \cup {x} \in SUBSET Below(y)
    BY <1>4 DEF IsStrictOrder
  <2>3. Cardinality(Below(x) \cup {x}) = Rank(x) + 1
    BY <1>2, <2>1, FS_AddElement
  <2>4. Cardinality(Below(x) \cup {x}) <= Rank(y)
    BY <1>2, <2>2, FS_Subset
  <2> HIDE DEF Rank
  <2> QED BY <1>r, <2>3, <2>4
<1>6. ASSUME NEW x \in S, NEW y \in S, Rank(x) = Rank(y) PROVE x = y
  <2> HIDE DEF Rank
  <2>1. ~(Rank(x) < Rank(y)) /\ ~(Rank(y) < Rank(x))
    BY <1>r, <1>6
  <2> QED BY <1>4, <2>1 DEF IsStrictOrder
<1> DEFINE r == [x \in S |-> Rank(x)]
<1>7. r \in Injection(S, 0 .. n - 1)
  <2> HIDE DEF Rank, n
  <2> QED BY <1>3, <1>6 DEF Injection, IsInjective
<1>8. IsFiniteSet(0 .. n - 1) /\ Cardinality(0 .. n - 1) = n
  <2> HIDE DEF n
  <2> QED BY <1>1, FS_Interval
<1>9. r \in Surjection(S, 0 .. n - 1)
  BY <1>7, <1>8, FS_Injection
<1>10. ASSUME NEW i \in 0 .. n - 1 PROVE \E x \in S : Rank(x) = i
  <2> HIDE DEF Rank, n
  <2> QED BY <1>9 DEF Surjection
<1>d. s = [i \in 1 .. n |-> (CHOOSE p \in placed : p[1] = i)[2]]
  BY DEF InOrder
<1>11. ASSUME NEW i \in 1 .. n
       PROVE  s[i] \in S /\ Rank(s[i]) = i - 1
  <2>1. s[i] = (CHOOSE p \in placed : p[1] = i)[2]
    BY <1>d
  <2>2. i - 1 \in 0 .. n - 1 /\ 1 + (i - 1) = i
    <3> HIDE DEF n
    <3> QED BY <1>1
  <2>3. PICK x \in S : Rank(x) = i - 1
    BY <1>10, <2>2
  <2>4. <<i, x>> \in placed /\ <<i, x>>[1] = i
    <3> HIDE DEF Rank
    <3> QED BY <2>2, <2>3
  <2>5. PICK p \in placed : p = (CHOOSE q \in placed : q[1] = i) /\ p[1] = i
    BY <2>4
  <2>6. PICK y \in S : p = <<1 + Rank(y), y>>
    OBVIOUS
  <2>7. s[i] = y /\ 1 + Rank(y) = i
    <3> HIDE DEF Rank, placed, s
    <3>1. p[1] = 1 + Rank(y) /\ p[2] = y
      BY <2>6
    <3>2. s[i] = p[2]
      BY <2>1, <2>5
    <3> QED BY <2>5, <3>1, <3>2
  <2> HIDE DEF Rank, placed, s
  <2> QED BY <1>r, <2>7
<1>12. ASSUME NEW x \in S PROVE \E i \in 1 .. n : s[i] = x
  <2>1. Rank(x) \in 0 .. n - 1
    BY <1>3
  <2> HIDE DEF Rank, n, s
  <2>2. Rank(x) + 1 \in 1 .. n /\ (Rank(x) + 1) - 1 = Rank(x)
    BY <1>1, <2>1
  <2>3. s[Rank(x) + 1] \in S /\ Rank(s[Rank(x) + 1]) = Rank(x)
    BY <1>11, <2>2
  <2> QED BY <1>6, <2>2, <2>3
<1>13. s \in Seq(S) /\ Len(s) = n
  <2>1. s = [i \in 1 .. n |-> s[i]]
    BY <1>d
  <2> HIDE DEF Rank, n, s
  <2>2. s \in [1 .. n -> S]
    BY <1>11, <2>1
  <2> QED BY <1>1, <2>2
<1>14. ASSUME NEW i \in 1 .. n, NEW j \in 1 .. n, i < j PROVE <<s[i], s[j]>> \in less
  <2> HIDE DEF Rank, n, s
  <2>1. s[i] \in S /\ s[j] \in S /\ Rank(s[i]) = i - 1 /\ Rank(s[j]) = j - 1
    BY <1>11
  <2>2. i \in Nat /\ j \in Nat /\ ~(j - 1 < i - 1) /\ i - 1 # j - 1
    BY <1>1, <1>14
  <2>3. s[i] # s[j]
    BY <2>1, <2>2
  <2>4. ASSUME <<s[j], s[i]>> \in less PROVE FALSE
    <3>1. Rank(s[j]) < Rank(s[i])
      BY <1>4, <2>1, <2>4
    <3> QED BY <2>1, <2>2, <3>1
  <2> QED BY <2>1, <2>3, <2>4, Zenon DEF IsStrictOrder
<1>15. ASSUME NEW i \in 1 .. n, NEW j \in 1 .. n, s[i] = s[j] PROVE i = j
  <2> HIDE DEF Rank, n, s
  <2>1. i - 1 = j - 1
    BY <1>11, <1>15
  <2> QED BY <1>1, <2>1
<1> HIDE DEF Rank, n, s
<1> QED BY <1>12, <1>13, <1>14, <1>15 DEF Lists, n, s

(* There is but one such list. *)
LEMMA ListsAreOne ==
  ASSUME NEW S, IsFiniteSet(S), NEW less, IsStrictOrder(S, less),
         NEW s, Lists(s, S, less), NEW t, Lists(t, S, less)
  PROVE  s = t
<1> DEFINE n == Cardinality(S)
           D == {i \in 1 .. n : s[i] # t[i]}
<1>1. n \in Nat /\ s \in Seq(S) /\ t \in Seq(S) /\ Len(s) = n /\ Len(t) = n
  BY FS_CardinalityType DEF Lists
<1>2. ASSUME D # {} PROVE FALSE
  <2>1. D \in SUBSET Nat
    OBVIOUS
  <2>2. PICK i \in D : \A j \in D : i <= j
    <3> HIDE DEF D
    <3> QED BY <1>2, <2>1, LeastNat
  <2> HIDE DEF n
  <2>3. i \in 1 .. n /\ s[i] # t[i] /\ s[i] \in S /\ t[i] \in S
    BY <1>1
  <2>4. \A j \in 1 .. n : j < i => s[j] = t[j]
    BY <1>1, <2>2
  <2>5. PICK j \in 1 .. n : t[j] = s[i]
    BY <1>1, <2>3 DEF Lists
  <2>6. PICK k \in 1 .. n : s[k] = t[i]
    BY <1>1, <2>3 DEF Lists
  <2>7. j # i /\ ~(j < i)
    <3>1. ASSUME j < i PROVE FALSE
      <4>1. s[j] = s[i]
        BY <2>4, <2>5, <3>1
      <4>2. j = i
        BY <1>1, <2>3, <2>5, <4>1 DEF Lists
      <4> QED BY <2>3, <3>1, <4>2, <1>1
    <3> QED BY <2>3, <2>5, <3>1
  <2>8. k # i /\ ~(k < i)
    <3>1. ASSUME k < i PROVE FALSE
      <4>1. t[k] = t[i]
        BY <2>4, <2>6, <3>1
      <4>2. k = i
        BY <1>1, <2>3, <2>6, <4>1 DEF Lists
      <4> QED BY <2>3, <3>1, <4>2, <1>1
    <3> QED BY <2>3, <2>6, <3>1
  <2>9. i < j /\ i < k
    BY <1>1, <2>3, <2>5, <2>6, <2>7, <2>8
  <2>10. <<t[i], s[i]>> \in less /\ <<s[i], t[i]>> \in less
    <3>1. <<t[i], t[j]>> \in less
      BY <1>1, <2>3, <2>5, <2>9 DEF Lists
    <3>2. <<s[i], s[k]>> \in less
      BY <1>1, <2>3, <2>6, <2>9 DEF Lists
    <3> QED BY <2>5, <2>6, <3>1, <3>2
  <2> QED BY <2>3, <2>10 DEF IsStrictOrder
<1> QED BY <1>1, <1>2

(* A member's place is one more than the members before it.                *)
LEMMA PlaceInList ==
  ASSUME NEW S, IsFiniteSet(S), NEW less, IsStrictOrder(S, less),
         NEW s, Lists(s, S, less), NEW i \in 1 .. Len(s)
  PROVE  Cardinality({y \in S : <<y, s[i]>> \in less}) = i - 1
<1> DEFINE Before(k) == {y \in S : <<y, s[k]>> \in less}
           f == [j \in 1 .. i - 1 |-> s[j]]
<1>1. s \in Seq(S) /\ Len(s) \in Nat /\ \A j \in 1 .. Len(s) : s[j] \in S
  BY DEF Lists
<1>2. ASSUME NEW j \in 1 .. i - 1 PROVE s[j] \in Before(i)
  <2>1. j \in 1 .. Len(s) /\ j < i
    BY <1>1
  <2> QED BY <1>1, <2>1 DEF Lists
<1>3. ASSUME NEW y \in Before(i) PROVE \E j \in 1 .. i - 1 : s[j] = y
  <2>1. PICK j \in 1 .. Len(s) : s[j] = y
    BY DEF Lists
  <2>2. <<s[j], s[i]>> \in less
    BY <2>1
  <2>3. j # i
    BY <1>1, <2>2 DEF IsStrictOrder
  <2>4. ASSUME i < j PROVE FALSE
    <3>1. <<s[i], s[j]>> \in less
      BY <2>4 DEF Lists
    <3>2. s[i] \in S /\ s[j] \in S
      BY <1>1
    <3> QED BY <2>2, <3>1, <3>2 DEF IsStrictOrder
  <2> QED BY <1>1, <2>1, <2>3, <2>4
<1>4. \A j, k \in 1 .. i - 1 : s[j] = s[k] => j = k
  BY <1>1 DEF Lists
<1> HIDE DEF Before
<1>5. f \in Bijection(1 .. i - 1, Before(i))
  <2>1. f \in [1 .. i - 1 -> Before(i)]
    BY <1>2
  <2>2. f \in Injection(1 .. i - 1, Before(i))
    BY <1>4, <2>1 DEF Injection, IsInjective
  <2>3. f \in Surjection(1 .. i - 1, Before(i))
    BY <1>3, <2>1 DEF Surjection
  <2> QED BY <2>2, <2>3 DEF Bijection
<1> HIDE DEF f
<1>6. i - 1 \in Nat /\ IsFiniteSet(1 .. i - 1) /\ Cardinality(1 .. i - 1) = i - 1
  <2>1. i - 1 \in Nat
    BY <1>1
  <2> QED BY <2>1, FS_Interval
<1>7. Cardinality(Before(i)) = i - 1
  <2>1. f \in Bijection(1 .. i - 1, Before(i)) /\ IsFiniteSet(1 .. i - 1)
    BY <1>5, <1>6
  <2>2. Cardinality(Before(i)) = Cardinality(1 .. i - 1)
    BY <2>1, FS_Bijection DEF ExistsBijection
  <2> QED BY <1>6, <2>2
<1> QED BY <1>7 DEF Before

(* The least and the greatest of a set of numbers, as Min and Max choose.  *)
LEMMA MinOfNats ==
  ASSUME NEW S \in SUBSET Nat, S # {}
  PROVE  Min(S) \in S /\ \A x \in S : Min(S) <= x
<1>1. \E m \in S : \A n \in S : m <= n
  BY LeastNat
<1> QED BY <1>1 DEF Min

(* A finite set of numbers has the greatest that Max picks.                *)
LEMMA MaxOfNats ==
  ASSUME NEW S \in SUBSET Nat, S # {}, IsFiniteSet(S)
  PROVE  Max(S) \in S /\ \A x \in S : x <= Max(S)
<1> DEFINE less == {p \in Nat \X Nat : p[1] < p[2]}
           s == InOrder(S, less)
<1>0. \A x, y \in Nat : <<x, y>> \in less <=> x < y
  OBVIOUS
<1>1. IsStrictOrder(S, less)
  <2> HIDE DEF less
  <2>1. \A x, y \in S : x \in Nat /\ y \in Nat
    OBVIOUS
  <2> QED BY <1>0 DEF IsStrictOrder
<1> HIDE DEF less
<1>2. Lists(s, S, less)
  BY <1>1, InOrderLists
<1> HIDE DEF s
<1>n. Len(s) \in Nat /\ Len(s) >= 1
  <2>1. PICK x \in S : TRUE
    OBVIOUS
  <2>2. PICK i \in 1 .. Len(s) : s[i] = x
    BY <1>2, <2>1 DEF Lists
  <2> QED BY <1>2, <2>2 DEF Lists
<1>m. s[Len(s)] \in S
  BY <1>2, <1>n DEF Lists
<1>l. ASSUME NEW x \in S PROVE s[Len(s)] >= x
  <2>1. PICK i \in 1 .. Len(s) : s[i] = x
    BY <1>2 DEF Lists
  <2>2. CASE i = Len(s)
    BY <2>1, <2>2
  <2>3. CASE i < Len(s)
    <3>1. <<s[i], s[Len(s)]>> \in less
      BY <1>2, <1>n, <2>1, <2>3 DEF Lists
    <3>2. x \in Nat /\ s[Len(s)] \in Nat
      BY <1>m
    <3>3. x < s[Len(s)]
      BY <1>0, <2>1, <3>1, <3>2
    <3> QED BY <3>2, <3>3
  <2> QED BY <1>n, <2>1, <2>2, <2>3
<1>3. PICK m \in S : \A n \in S : m >= n
  BY <1>m, <1>l
<1>4. Max(S) \in S /\ \A x \in S : Max(S) >= x
  BY <1>3 DEF Max
<1> QED BY <1>4

(* Tuples of integers, of one length, are in a strict order.               *)
LEMMA PrecedesOrders ==
  ASSUME NEW n \in Nat, NEW s \in [1 .. n -> Int], NEW t \in [1 .. n -> Int]
  PROVE  /\ ~Precedes(s, s)
         /\ s = t \/ Precedes(s, t) \/ Precedes(t, s)
         /\ \A u \in [1 .. n -> Int] : Precedes(s, t) /\ Precedes(t, u) => Precedes(s, u)
<1>1. ~Precedes(s, s)
  BY DEF Precedes
<1>2. s = t \/ Precedes(s, t) \/ Precedes(t, s)
  <2> DEFINE D == {i \in 1 .. n : s[i] # t[i]}
  <2>1. CASE D = {}
    BY <2>1
  <2>2. CASE D # {}
    <3>1. D \in SUBSET Nat
      OBVIOUS
    <3>2. PICK i \in D : \A j \in D : i <= j
      <4> HIDE DEF D
      <4> QED BY <2>2, <3>1, LeastNat
    <3>3. \A j \in 1 .. i - 1 : s[j] = t[j]
      BY <3>2
    <3>4. s[i] < t[i] \/ t[i] < s[i]
      OBVIOUS
    <3> QED BY <3>3, <3>4 DEF Precedes
  <2> QED BY <2>1, <2>2
<1>3. ASSUME NEW u \in [1 .. n -> Int], Precedes(s, t), Precedes(t, u) PROVE Precedes(s, u)
  <2>1. PICK i \in 1 .. n : s[i] < t[i] /\ \A k \in 1 .. i - 1 : s[k] = t[k]
    BY <1>3 DEF Precedes
  <2>2. PICK j \in 1 .. n : t[j] < u[j] /\ \A k \in 1 .. j - 1 : t[k] = u[k]
    BY <1>3 DEF Precedes
  <2>3. CASE i <= j
    <3>1. s[i] < u[i]
      BY <2>1, <2>2, <2>3
    <3>2. \A k \in 1 .. i - 1 : s[k] = u[k]
      BY <2>1, <2>2, <2>3
    <3> QED BY <3>1, <3>2 DEF Precedes
  <2>4. CASE j < i
    <3>1. s[j] < u[j]
      BY <2>1, <2>2, <2>4
    <3>2. \A k \in 1 .. j - 1 : s[k] = u[k]
      BY <2>1, <2>2, <2>4
    <3> QED BY <3>1, <3>2 DEF Precedes
  <2> QED BY <2>3, <2>4
<1> QED BY <1>1, <1>2, <1>3

(* -- the graph --------------------------------------------------------- *)
(* (The provers do not know that a string is a member of STRING.)          *)
KindNames == {Kinds[i] : i \in DOMAIN Kinds}
LinkRules == {"scope-ref", "indirect", "import-ref", "name-method", "name-arity"}
RuleNames == LinkRules \cup {"scip", "scip-dep", "cha-trait-set", "rta-pruned", "sig-compat"}
CutNames == STRING \cup {"unresolved"}
EdgeType ==
  [src : Node, dst : {0} \cup Node, kind : KindNames, site : Int, stmt : Nat,
   confidence : 0 .. 2, rule : RuleNames, group : Nat, cut : SUBSET CutNames,
   arity : Nat \cup {NoArity}]

(* Node ids are finitely many numbers.                                     *)
LEMMA NodesAreNat == Node \subseteq Nat /\ IsFiniteSet(Node) /\ Len(Symbols) \in Nat
<1>1. Len(Symbols) \in Nat
  BY SymbolsAssumption
<1> QED BY <1>1, FS_Interval DEF Node

(* The keys of edges are tuples of integers. *)
LEMMA SortKeyType ==
  ASSUME NEW e \in EdgeType PROVE SortKey(e) \in [1 .. 6 -> Int]
<1>1. KindRank(e.kind) \in DOMAIN Kinds
  BY DEF KindRank, EdgeType, KindNames
<1>2. DOMAIN Kinds = 1 .. 8
  BY DEF Kinds
<1>3. KindRank(e.kind) \in Int
  BY <1>1, <1>2
<1>4. e.src \in Int /\ e.dst \in Int /\ e.stmt \in Int /\ e.group \in Int
  <2>1. e.src \in Node /\ e.dst \in {0} \cup Node /\ e.stmt \in Nat /\ e.group \in Nat
    BY DEF EdgeType
  <2>2. \A n \in {0} \cup Node : n \in Int
    BY NodesAreNat
  <2>3. \A n \in Nat : n \in Int
    OBVIOUS
  <2> QED BY <2>1, <2>2, <2>3, Zenon
<1>5. (IF e.group = 0 THEN 1 ELSE 0) \in Int
  OBVIOUS
<1> QED BY <1>3, <1>4, <1>5 DEF SortKey

Sooner(edges) ==
  {p \in (1 .. Len(edges)) \X (1 .. Len(edges)) :
     \/ Precedes(SortKey(edges[p[1]]), SortKey(edges[p[2]]))
     \/ SortKey(edges[p[1]]) = SortKey(edges[p[2]]) /\ p[1] < p[2]}

(* By key, ties as they come: the order canonicalize sorts edges in is     *)
(* strict and total.                                                       *)
LEMMA SoonerOrders ==
  ASSUME NEW edges \in Seq(EdgeType)
  PROVE  IsStrictOrder(DOMAIN edges, Sooner(edges)) /\ IsFiniteSet(DOMAIN edges)
         /\ Cardinality(DOMAIN edges) = Len(edges)
<1> DEFINE n == Len(edges)
           Key(i) == SortKey(edges[i])
<1>1. n \in Nat /\ DOMAIN edges = 1 .. n /\ \A i \in 1 .. n : edges[i] \in EdgeType
  OBVIOUS
<1> HIDE DEF n
<1>2. IsFiniteSet(1 .. n) /\ Cardinality(1 .. n) = n
  BY <1>1, FS_Interval
<1>3. \A i \in 1 .. n : Key(i) \in [1 .. 6 -> Int]
  BY <1>1, SortKeyType
<1>4. \A i, j \in 1 .. n : <<i, j>> \in Sooner(edges) <=>
        Precedes(Key(i), Key(j)) \/ (Key(i) = Key(j) /\ i < j)
  BY DEF Sooner, n
<1> HIDE DEF Key
<1>5. ASSUME NEW i \in 1 .. n, NEW j \in 1 .. n
      PROVE  /\ <<i, i>> \notin Sooner(edges)
             /\ i = j \/ <<i, j>> \in Sooner(edges) \/ <<j, i>> \in Sooner(edges)
  <2>1. Key(i) \in [1 .. 6 -> Int] /\ Key(j) \in [1 .. 6 -> Int] /\ 6 \in Nat
    BY <1>3
  <2>2. /\ ~Precedes(Key(i), Key(i))
        /\ Key(i) = Key(j) \/ Precedes(Key(i), Key(j)) \/ Precedes(Key(j), Key(i))
    BY <2>1, PrecedesOrders
  <2>3. ~(i < i) /\ (i = j \/ i < j \/ j < i)
    BY <1>1
  <2> QED BY <1>4, <2>2, <2>3
<1>6. ASSUME NEW i \in 1 .. n, NEW j \in 1 .. n, NEW k \in 1 .. n,
             <<i, j>> \in Sooner(edges), <<j, k>> \in Sooner(edges)
      PROVE  <<i, k>> \in Sooner(edges)
  <2>1. Key(i) \in [1 .. 6 -> Int] /\ Key(j) \in [1 .. 6 -> Int] /\ Key(k) \in [1 .. 6 -> Int]
        /\ 6 \in Nat
    BY <1>3
  <2>2. Precedes(Key(i), Key(j)) /\ Precedes(Key(j), Key(k)) => Precedes(Key(i), Key(k))
    BY <2>1, PrecedesOrders
  <2>3. i < j /\ j < k => i < k
    BY <1>1
  <2>4. /\ Precedes(Key(i), Key(j)) \/ (Key(i) = Key(j) /\ i < j)
        /\ Precedes(Key(j), Key(k)) \/ (Key(j) = Key(k) /\ j < k)
    BY <1>4, <1>6
  <2> QED BY <1>4, <2>2, <2>3, <2>4
<1>7. IsStrictOrder(1 .. n, Sooner(edges))
  <2> HIDE DEF n
  <2> QED BY <1>5, <1>6 DEF IsStrictOrder
<1> QED BY <1>1, <1>2, <1>7 DEF n

(* The items of a sequence in another order. *)
LEMMA Rearranged ==
  ASSUME NEW T, NEW s \in Seq(T), NEW less, NEW p, Lists(p, DOMAIN s, less),
         NEW t, t = [i \in DOMAIN s |-> s[p[i]]]
  PROVE  t \in Seq(T) /\ Len(t) = Len(s) /\ ToSet(t) = ToSet(s)
<1> DEFINE n == Len(s)
<1>1. n \in Nat /\ DOMAIN s = 1 .. n /\ \A i \in 1 .. n : s[i] \in T
  OBVIOUS
<1> HIDE DEF n
<1>2. Cardinality(1 .. n) = n
  BY <1>1, FS_Interval
<1>l. Lists(p, 1 .. n, less)
  BY <1>1
<1>3. p \in Seq(1 .. n) /\ Len(p) = n
  BY <1>2, <1>l DEF Lists
<1>4. (\A i \in 1 .. n : p[i] \in 1 .. n) /\ \A i \in 1 .. n : \E j \in 1 .. n : p[j] = i
  <2>1. ASSUME NEW i \in 1 .. n PROVE p[i] \in 1 .. n
    BY <1>3
  <2>2. ASSUME NEW i \in 1 .. n PROVE \E j \in 1 .. Len(p) : p[j] = i
    BY <1>l DEF Lists
  <2> QED BY <1>3, <2>1, <2>2
<1>5. t \in [1 .. n -> T]
  BY <1>1, <1>4
<1>6. t \in Seq(T) /\ Len(t) = n /\ DOMAIN t = 1 .. n
  BY <1>1, <1>5
<1>7. \A i \in 1 .. n : t[i] = s[p[i]]
  BY <1>1
<1>8. ToSet(t) = ToSet(s)
  <2>1. \A x : x \in ToSet(s) <=> \E i \in 1 .. n : x = s[i]
    BY <1>1 DEF ToSet
  <2>2. \A x : x \in ToSet(t) <=> \E i \in 1 .. n : x = t[i]
    BY <1>6 DEF ToSet
  <2>3. ASSUME NEW x \in ToSet(t) PROVE x \in ToSet(s)
    <3>1. PICK i \in 1 .. n : x = t[i]
      BY <2>2
    <3> QED BY <1>4, <1>7, <2>1, <3>1
  <2>4. ASSUME NEW x \in ToSet(s) PROVE x \in ToSet(t)
    <3>1. PICK i \in 1 .. n : x = s[i]
      BY <2>1
    <3>2. PICK j \in 1 .. n : p[j] = i
      BY <1>4
    <3> QED BY <1>7, <2>2, <3>1, <3>2
  <2> QED BY <2>3, <2>4
<1> QED BY <1>6, <1>8 DEF n

(* Sorting permutes the edges. *)
LEMMA SortedPermutes ==
  ASSUME NEW edges \in Seq(EdgeType)
  PROVE  \E places : /\ Lists(places, DOMAIN edges, Sooner(edges))
                     /\ Sorted(edges) = [i \in DOMAIN edges |-> edges[places[i]]]
<1> DEFINE places == InOrder(DOMAIN edges, Sooner(edges))
<1>1. Lists(places, DOMAIN edges, Sooner(edges))
  BY SoonerOrders, InOrderLists
<1>2. Sooner(edges) =
        {p \in (1 .. Len(edges)) \X (1 .. Len(edges)) :
           \/ Precedes([i \in DOMAIN edges |-> SortKey(edges[i])][p[1]],
                       [i \in DOMAIN edges |-> SortKey(edges[i])][p[2]])
           \/ [i \in DOMAIN edges |-> SortKey(edges[i])][p[1]]
                = [i \in DOMAIN edges |-> SortKey(edges[i])][p[2]] /\ p[1] < p[2]}
  <2>1. \A i \in 1 .. Len(edges) : [k \in DOMAIN edges |-> SortKey(edges[k])][i] = SortKey(edges[i])
    OBVIOUS
  <2>2. \A p \in (1 .. Len(edges)) \X (1 .. Len(edges)) : p[1] \in 1 .. Len(edges) /\ p[2] \in 1 .. Len(edges)
    OBVIOUS
  <2> QED BY <2>1, <2>2 DEF Sooner
<1>3. Sorted(edges) = [i \in DOMAIN edges |-> edges[places[i]]]
  BY <1>2 DEF Sorted
<1> QED BY <1>1, <1>3

(* Sorting loses and adds no edge.                                         *)
LEMMA SortedKeeps ==
  ASSUME NEW edges \in Seq(EdgeType)
  PROVE  /\ Sorted(edges) \in Seq(EdgeType)
         /\ Len(Sorted(edges)) = Len(edges)
         /\ ToSet(Sorted(edges)) = ToSet(edges)
<1>1. PICK places : /\ Lists(places, DOMAIN edges, Sooner(edges))
                    /\ Sorted(edges) = [i \in DOMAIN edges |-> edges[places[i]]]
  BY SortedPermutes
<1> QED BY <1>1, Rearranged

(* An edge with another group is an edge.                                  *)
LEMMA Grouped ==
  ASSUME NEW e \in EdgeType, NEW n \in Nat
  PROVE  /\ [e EXCEPT !.group = n] \in EdgeType
         /\ [e EXCEPT !.group = n].group = n
         /\ [e EXCEPT !.group = e.group] = e
BY DEF EdgeType

(* What a function makes of a finite set is finite.                        *)
LEMMA FiniteImage ==
  ASSUME NEW S, IsFiniteSet(S), NEW f, NEW T, T = {f[x] : x \in S}
  PROVE  IsFiniteSet(T)
<1>1. [x \in S |-> f[x]] \in Surjection(S, T)
  BY DEF Surjection
<1> QED BY <1>1, FS_Surjection

(* The members of a sequence are finitely many, and of its type.           *)
LEMMA MembersOfSeq ==
  ASSUME NEW T, NEW s \in Seq(T)
  PROVE  /\ IsFiniteSet(ToSet(s)) /\ ToSet(s) \subseteq T
         /\ DOMAIN s = 1 .. Len(s) /\ Len(s) \in Nat /\ IsFiniteSet(DOMAIN s)
         /\ \A x : x \in ToSet(s) <=> \E i \in 1 .. Len(s) : s[i] = x
<1>1. DOMAIN s = 1 .. Len(s) /\ Len(s) \in Nat /\ \A i \in 1 .. Len(s) : s[i] \in T
  OBVIOUS
<1>2. \A x : x \in ToSet(s) <=> \E i \in 1 .. Len(s) : s[i] = x
  BY <1>1 DEF ToSet
<1>3. IsFiniteSet(1 .. Len(s))
  BY <1>1, FS_Interval
<1>4. ToSet(s) = {s[i] : i \in 1 .. Len(s)}
  BY <1>1 DEF ToSet
<1>5. IsFiniteSet({s[i] : i \in 1 .. Len(s)})
  BY <1>3, FiniteImage
<1> QED BY <1>1, <1>2, <1>3, <1>4, <1>5

(* The groups edges carry are finitely many numbers above 0.               *)
LEMMA GroupsOf ==
  ASSUME NEW edges \in Seq(EdgeType)
  PROVE  /\ Groups(edges) \in SUBSET (Nat \ {0})
         /\ IsFiniteSet(Groups(edges))
         /\ \A e \in ToSet(edges) : e.group \in {0} \cup Groups(edges)
         /\ \A n : n \in Groups(edges) <=> n # 0 /\ \E e \in ToSet(edges) : e.group = n
<1>1. /\ IsFiniteSet(ToSet(edges)) /\ ToSet(edges) \subseteq EdgeType
      /\ DOMAIN edges = 1 .. Len(edges) /\ IsFiniteSet(DOMAIN edges)
      /\ \A x : x \in ToSet(edges) <=> \E i \in 1 .. Len(edges) : edges[i] = x
  BY MembersOfSeq
<1>2. \A n : n \in Groups(edges) <=> n # 0 /\ \E e \in ToSet(edges) : e.group = n
  BY <1>1 DEF Groups
<1>3. \A e \in EdgeType : e.group \in Nat
  BY DEF EdgeType
<1>4. IsFiniteSet({edges[i].group : i \in DOMAIN edges})
  <2> DEFINE f == [i \in DOMAIN edges |-> edges[i].group]
         T == {edges[i].group : i \in DOMAIN edges}
  <2>1. T = {f[i] : i \in DOMAIN edges}
    OBVIOUS
  <2> HIDE DEF f, T
  <2>2. IsFiniteSet(T)
    BY <1>1, <2>1, FiniteImage
  <2> QED BY <2>2 DEF T
<1>5. IsFiniteSet(Groups(edges))
  BY <1>4, FS_Subset DEF Groups
<1> QED BY <1>1, <1>2, <1>3, <1>5

(* Groups are numbered from 1, each with a number of its own.              *)
FirstOf(edges, g) == Min({i \in DOMAIN edges : edges[i].group = g})

(* A group first appears at an edge of it.                                 *)
LEMMA FirstOfGroup ==
  ASSUME NEW edges \in Seq(EdgeType), NEW g \in Groups(edges)
  PROVE  /\ FirstOf(edges, g) \in 1 .. Len(edges) /\ edges[FirstOf(edges, g)].group = g
         /\ \A i \in 1 .. Len(edges) : edges[i].group = g => FirstOf(edges, g) <= i
<1> DEFINE I == {i \in DOMAIN edges : edges[i].group = g}
<1>1. DOMAIN edges = 1 .. Len(edges) /\ Len(edges) \in Nat
  OBVIOUS
<1>2. \E i \in DOMAIN edges : edges[i].group = g
  BY DEF Groups
<1>3. I \in SUBSET Nat /\ I # {}
  BY <1>1, <1>2
<1>4. \A i : i \in I <=> i \in 1 .. Len(edges) /\ edges[i].group = g
  BY <1>1
<1>5. FirstOf(edges, g) = Min(I)
  BY DEF FirstOf
<1> HIDE DEF I
<1>6. Min(I) \in I /\ \A x \in I : Min(I) <= x
  BY <1>3, MinOfNats
<1> QED BY <1>4, <1>5, <1>6

(* canonicalize numbers the groups by where they first appear.             *)
LEMMA RenumberingIs ==
  ASSUME NEW edges \in Seq(EdgeType), NEW rows
  PROVE  /\ Renumbering(edges, rows)[0] = 0
         /\ \A g \in Groups(edges) :
              Renumbering(edges, rows)[g] =
                1 + Cardinality({h \in Groups(edges) : FirstOf(edges, h) < FirstOf(edges, g)})
<1>1. Renumbering(edges, rows)[0] = 0
  BY DEF Renumbering
<1>2. ASSUME NEW g \in Groups(edges)
      PROVE  Renumbering(edges, rows)[g] =
               1 + Cardinality({h \in Groups(edges) : FirstOf(edges, h) < FirstOf(edges, g)})
  <2>1. g # 0
    BY GroupsOf
  <2> QED BY <2>1 DEF Renumbering, FirstOf
<1> QED BY <1>1, <1>2

(* The new numbers are 1 to n, each given once, in the order of            *)
(* appearance.                                                             *)
LEMMA RenumberingType ==
  ASSUME NEW edges \in Seq(EdgeType), NEW rows
  PROVE  LET number == Renumbering(edges, rows)
             n == Cardinality(Groups(edges))
         IN  /\ number[0] = 0
             /\ \A e \in ToSet(edges) : number[e.group] \in Nat
             /\ n \in Nat
             /\ \A g \in Groups(edges) : number[g] \in 1 .. n
             /\ \A g, h \in Groups(edges) : number[g] = number[h] => g = h
             /\ \A k \in 1 .. n : \E g \in Groups(edges) : number[g] = k
             /\ \A g, h \in Groups(edges) :
                  FirstOf(edges, g) < FirstOf(edges, h) <=> number[g] < number[h]
<1> DEFINE number == Renumbering(edges, rows)
           G == Groups(edges)
           F(g) == FirstOf(edges, g)
           less == {p \in G \X G : F(p[1]) < F(p[2])}
           s == InOrder(G, less)
<1>1. \A g \in G : F(g) \in Nat
  BY FirstOfGroup
<1>2. \A g, h \in G : F(g) = F(h) => g = h
  <2>1. ASSUME NEW g \in G, NEW h \in G, F(g) = F(h) PROVE g = h
    <3>1. edges[F(g)].group = g /\ edges[F(h)].group = h
      BY FirstOfGroup
    <3> QED BY <2>1, <3>1
  <2> QED BY <2>1
<1>3. number[0] = 0 /\ \A g \in G : number[g] = 1 + Cardinality({h \in G : F(h) < F(g)})
  BY RenumberingIs
<1>4. IsFiniteSet(G) /\ (\A e \in ToSet(edges) : e.group \in {0} \cup G)
  BY GroupsOf
<1>5. \A g, h \in G : <<g, h>> \in less <=> F(g) < F(h)
  OBVIOUS
<1>6. \A g \in G : {h \in G : F(h) < F(g)} = {h \in G : <<h, g>> \in less}
  OBVIOUS
<1> HIDE DEF number, G, F, less
<1>7. IsStrictOrder(G, less)
  <2>1. \A x, y, z \in G : F(x) < F(y) /\ F(y) < F(z) => F(x) < F(z)
    BY <1>1
  <2>2. \A x, y \in G : x = y \/ F(x) < F(y) \/ F(y) < F(x)
    BY <1>1, <1>2
  <2>3. \A x \in G : ~(F(x) < F(x))
    BY <1>1
  <2> QED BY <1>5, <2>1, <2>2, <2>3 DEF IsStrictOrder
<1>8. Lists(s, G, less)
  BY <1>4, <1>7, InOrderLists
<1> HIDE DEF s
<1>9. Len(s) = Cardinality(G) /\ Len(s) \in Nat
  BY <1>8 DEF Lists
<1>10. ASSUME NEW i \in 1 .. Len(s) PROVE number[s[i]] = i /\ s[i] \in G
  <2>1. s[i] \in G
    BY <1>8 DEF Lists
  <2>2. Cardinality({h \in G : <<h, s[i]>> \in less}) = i - 1
    BY <1>4, <1>7, <1>8, PlaceInList
  <2>3. number[s[i]] = 1 + (i - 1)
    BY <1>3, <1>6, <2>1, <2>2
  <2> QED BY <1>9, <2>1, <2>3
<1>11. ASSUME NEW g \in G PROVE \E i \in 1 .. Len(s) : g = s[i] /\ number[g] = i
  <2>1. PICK i \in 1 .. Len(s) : s[i] = g
    BY <1>8 DEF Lists
  <2> QED BY <1>10, <2>1
<1>12. ASSUME NEW g \in G, NEW h \in G PROVE F(g) < F(h) <=> number[g] < number[h]
  <2>1. PICK i \in 1 .. Len(s) : g = s[i] /\ number[g] = i
    BY <1>11
  <2>2. PICK j \in 1 .. Len(s) : h = s[j] /\ number[h] = j
    BY <1>11
  <2>3. ASSUME i < j PROVE F(g) < F(h)
    BY <1>5, <1>8, <2>1, <2>2, <2>3 DEF Lists
  <2>4. ASSUME j < i PROVE F(h) < F(g)
    BY <1>5, <1>8, <2>1, <2>2, <2>4 DEF Lists
  <2>5. i = j => g = h
    BY <2>1, <2>2
  <2>6. i \in Nat /\ j \in Nat /\ F(g) \in Nat /\ F(h) \in Nat
    BY <1>1, <1>9
  <2> QED BY <2>1, <2>2, <2>3, <2>4, <2>5, <2>6
<1>13. \A g \in G : number[g] \in 1 .. Cardinality(G)
  BY <1>9, <1>11
<1>14. \A g, h \in G : number[g] = number[h] => g = h
  BY <1>11
<1>15. \A k \in 1 .. Cardinality(G) : \E g \in G : number[g] = k
  BY <1>9, <1>10
<1>16. \A e \in ToSet(edges) : number[e.group] \in Nat
  <2>1. Cardinality(G) \in Nat
    BY <1>9
  <2> QED BY <1>3, <1>4, <1>13, <2>1
<1> QED BY <1>3, <1>9, <1>12, <1>13, <1>14, <1>15, <1>16 DEF number, G, F

(* Edges that get new group numbers are the same but for those.            *)
LEMMA RegroupKeeps ==
  ASSUME NEW edges \in Seq(EdgeType), NEW number, \A e \in ToSet(edges) : number[e.group] \in Nat
  PROVE  LET out == Regroup(edges, number)
         IN  /\ out \in Seq(EdgeType)
             /\ Len(out) = Len(edges)
             /\ \A i \in 1 .. Len(edges) : out[i] = [edges[i] EXCEPT !.group = number[edges[i].group]]
             /\ \A e : e \in ToSet(out) <=>
                  \E f \in ToSet(edges) : e = [f EXCEPT !.group = number[f.group]]
<1> DEFINE out == Regroup(edges, number)
           n == Len(edges)
<1>1. /\ ToSet(edges) \subseteq EdgeType /\ DOMAIN edges = 1 .. n /\ n \in Nat
      /\ \A x : x \in ToSet(edges) <=> \E i \in 1 .. n : edges[i] = x
  BY MembersOfSeq
<1>2. out = [i \in 1 .. n |-> [edges[i] EXCEPT !.group = number[@]]]
  BY <1>1 DEF Regroup
<1>3. \A i \in 1 .. n : out[i] = [edges[i] EXCEPT !.group = number[edges[i].group]]
  BY <1>2
<1>4. \A i \in 1 .. n : out[i] \in EdgeType
  <2> HIDE DEF out, n
  <2>1. ASSUME NEW i \in 1 .. n PROVE out[i] \in EdgeType
    <3>1. PICK e \in EdgeType : e = edges[i]
      BY <1>1
    <3>2. PICK m \in Nat : m = number[e.group]
      BY <1>1, <3>1
    <3>3. out[i] = [e EXCEPT !.group = m]
      BY <1>3, <3>1, <3>2
    <3> QED BY <3>1, <3>3, Grouped
  <2> QED BY <2>1
<1>5. out \in [1 .. n -> EdgeType]
  <2>1. out = [i \in 1 .. n |-> out[i]]
    BY <1>2
  <2> HIDE DEF out, n
  <2> QED BY <1>4, <2>1
<1> HIDE DEF out, n
<1>6. out \in Seq(EdgeType) /\ Len(out) = n
  BY <1>1, <1>5
<1>7. \A x : x \in ToSet(out) <=> \E i \in 1 .. n : out[i] = x
  BY <1>6, MembersOfSeq
<1>8. ASSUME NEW e \in ToSet(out) PROVE \E f \in ToSet(edges) : e = [f EXCEPT !.group = number[f.group]]
  <2>1. PICK i \in 1 .. n : out[i] = e
    BY <1>7
  <2>2. edges[i] \in ToSet(edges) /\ e = [edges[i] EXCEPT !.group = number[edges[i].group]]
    BY <1>1, <1>3, <2>1
  <2> QED BY <2>2
<1>9. ASSUME NEW f \in ToSet(edges) PROVE [f EXCEPT !.group = number[f.group]] \in ToSet(out)
  <2>1. PICK i \in 1 .. n : edges[i] = f
    BY <1>1
  <2>2. out[i] = [f EXCEPT !.group = number[f.group]]
    BY <1>3, <2>1
  <2> QED BY <1>7, <2>2
<1> QED BY <1>3, <1>6, <1>8, <1>9 DEF out, n

(* The graph, but for the counts. *)
RowType == [group : Nat, dst : {0} \cup Node, rank : Nat]
GraphType == [edges : Seq(EdgeType), rows : SUBSET RowType, dangling : [Node -> Nat]]
RowsAreOfGroups(g) == \A c \in g.rows : c.group \in Groups(g.edges)

(* The parts of a graph are of their types.                                *)
LEMMA GraphParts ==
  ASSUME NEW g \in GraphType
  PROVE  g.edges \in Seq(EdgeType) /\ g.rows \in SUBSET RowType /\ g.dangling \in [Node -> Nat]
BY DEF GraphType

(* h is g with its groups renumbered. *)
RenumberedBy(g, h, number) ==
  /\ number[0] = 0
  /\ \A n \in Groups(g.edges) : number[n] \in Nat \ {0}
  /\ \A m, n \in Groups(g.edges) : number[m] = number[n] => m = n
  /\ \A e : e \in ToSet(h.edges) <=>
       \E f \in ToSet(g.edges) : e = [f EXCEPT !.group = number[f.group]]
  /\ \A c : c \in h.rows <=> \E d \in g.rows : c = [d EXCEPT !.group = number[d.group]]
  /\ \A k : k \in Groups(h.edges) <=> \E n \in Groups(g.edges) : k = number[n]

(* Canonical changes nothing of the edges but their order and groups.      *)
LEMMA CanonicalRenumbers ==
  ASSUME NEW g \in GraphType, RowsAreOfGroups(g)
  PROVE  /\ Canonical(g) \in GraphType
         /\ RowsAreOfGroups(Canonical(g))
         /\ \E number : RenumberedBy(g, Canonical(g), number)
         /\ \E n \in Nat : Groups(Canonical(g).edges) = 1 .. n
<1> DEFINE sorted == Sorted(g.edges)
           number == Renumbering(sorted, g.rows)
           out == Regroup(sorted, number)
           h == Canonical(g)
           G == Groups(sorted)
<1>1. g.edges \in Seq(EdgeType) /\ g.rows \in SUBSET RowType
  BY DEF GraphType
<1>2. sorted \in Seq(EdgeType) /\ ToSet(sorted) = ToSet(g.edges)
  BY <1>1, SortedKeeps
<1>3. /\ h.edges = Sorted(out)
      /\ h.rows = {[c EXCEPT !.group = number[@]] : c \in g.rows}
      /\ h.edges \in Seq(EdgeType) /\ h.rows \in SUBSET RowType => h \in GraphType
  <2> DEFINE rows == {[c EXCEPT !.group = number[@]] : c \in g.rows}
  <2>1. h = [g EXCEPT !.edges = Sorted(out), !.rows = rows]
    BY DEF Canonical
  <2> HIDE DEF out, rows, h
  <2>2. h.edges = Sorted(out) /\ h.rows = rows
        /\ (h.edges \in Seq(EdgeType) /\ h.rows \in SUBSET RowType => h \in GraphType)
    <3>1. PICK a : a = Sorted(out)
      OBVIOUS
    <3>2. PICK b : b = rows
      OBVIOUS
    <3>3. h = [g EXCEPT !.edges = a, !.rows = b]
      BY <2>1, <3>1, <3>2
    <3>4. h.edges = a /\ h.rows = b
      BY <3>3 DEF GraphType
    <3>5. a \in Seq(EdgeType) /\ b \in SUBSET RowType => h \in GraphType
      BY <3>3 DEF GraphType
    <3> QED BY <3>1, <3>2, <3>4, <3>5
  <2> QED BY <2>2 DEF rows
<1> HIDE DEF h, sorted
<1>4. /\ number[0] = 0
      /\ \A e \in ToSet(sorted) : number[e.group] \in Nat
      /\ \A m \in G : number[m] \in 1 .. Cardinality(G)
      /\ \A m, n \in G : number[m] = number[n] => m = n
      /\ \A k \in 1 .. Cardinality(G) : \E n \in G : number[n] = k
      /\ Cardinality(G) \in Nat
  BY <1>2, RenumberingType
<1> HIDE DEF number
<1>5. /\ out \in Seq(EdgeType)
      /\ \A e : e \in ToSet(out) <=> \E f \in ToSet(sorted) : e = [f EXCEPT !.group = number[f.group]]
  BY <1>2, <1>4, RegroupKeeps
<1> HIDE DEF out
<1>6. /\ h.edges \in Seq(EdgeType)
      /\ \A e : e \in ToSet(h.edges) <=> \E f \in ToSet(g.edges) : e = [f EXCEPT !.group = number[f.group]]
  BY <1>2, <1>3, <1>5, SortedKeeps
<1>7. /\ Groups(g.edges) = G
      /\ \A n : n \in G <=> n # 0 /\ \E e \in ToSet(g.edges) : e.group = n
  <2>1. /\ \A n : n \in G <=> n # 0 /\ \E e \in ToSet(sorted) : e.group = n
        /\ \A n : n \in Groups(g.edges) <=> n # 0 /\ \E e \in ToSet(g.edges) : e.group = n
    BY <1>1, <1>2, GroupsOf
  <2> QED BY <1>2, <2>1
<1> HIDE DEF G
<1>8. \A n \in G : number[n] \in Nat \ {0}
  BY <1>4
<1>9. \A e \in ToSet(g.edges) : number[e.group] \in Nat /\ e \in EdgeType
  BY <1>1, <1>2, <1>4, MembersOfSeq
<1>10. ASSUME NEW k PROVE k \in Groups(h.edges) <=> \E n \in G : k = number[n]
  <2>1. k \in Groups(h.edges) <=> k # 0 /\ \E e \in ToSet(h.edges) : e.group = k
    BY <1>6, GroupsOf
  <2>2. ASSUME NEW f \in ToSet(g.edges) PROVE [f EXCEPT !.group = number[f.group]].group = number[f.group]
    BY <1>9, Grouped
  <2>3. ASSUME k # 0, NEW e \in ToSet(h.edges), e.group = k PROVE \E n \in G : k = number[n]
    <3>1. PICK f \in ToSet(g.edges) : e = [f EXCEPT !.group = number[f.group]]
      BY <1>6
    <3>2. k = number[f.group]
      BY <2>2, <2>3, <3>1
    <3>3. f.group # 0
      BY <1>4, <2>3, <3>2
    <3> QED BY <1>7, <3>2, <3>3
  <2>4. ASSUME NEW n \in G, k = number[n] PROVE k # 0 /\ \E e \in ToSet(h.edges) : e.group = k
    <3>1. PICK f \in ToSet(g.edges) : f.group = n
      BY <1>7
    <3>2. [f EXCEPT !.group = number[f.group]] \in ToSet(h.edges)
      BY <1>6
    <3>3. k # 0
      BY <1>8, <2>4
    <3> QED BY <2>2, <2>4, <3>1, <3>2, <3>3
  <2> QED BY <2>1, <2>3, <2>4
<1>11. ASSUME NEW c PROVE c \in h.rows <=> \E d \in g.rows : c = [d EXCEPT !.group = number[d.group]]
  BY <1>3
<1>12. RenumberedBy(g, h, number)
  BY <1>4, <1>6, <1>7, <1>8, <1>10, <1>11 DEF RenumberedBy
<1>13. \A d \in g.rows : d \in RowType /\ d.group \in G
  BY <1>1, <1>7 DEF RowsAreOfGroups
<1>14. \A d \in RowType : \A n \in Nat :
         [d EXCEPT !.group = n] \in RowType /\ [d EXCEPT !.group = n].group = n
  BY DEF RowType
<1>15. ASSUME NEW c \in h.rows PROVE c \in RowType /\ c.group \in Groups(h.edges)
  <2>1. PICK d \in g.rows : c = [d EXCEPT !.group = number[d.group]]
    BY <1>11
  <2>2. number[d.group] \in Nat
    BY <1>8, <1>13
  <2>3. c \in RowType /\ c.group = number[d.group]
    BY <1>13, <1>14, <2>1, <2>2
  <2> QED BY <1>10, <1>13, <2>3
<1>16. Groups(h.edges) = 1 .. Cardinality(G)
  <2>1. ASSUME NEW k PROVE k \in Groups(h.edges) <=> k \in 1 .. Cardinality(G)
    BY <1>4, <1>10
  <2> QED BY <2>1
<1>17. h \in GraphType
  <2>1. h.rows \in SUBSET RowType
    BY <1>15
  <2> QED BY <1>3, <1>6, <2>1
<1> QED BY <1>4, <1>12, <1>15, <1>16, <1>17 DEF RowsAreOfGroups, h

(* -- what the passes keep of the edges es and the rows rs ---------------- *)
OfReference(e) ==
  \E r \in References :
    e.src = r.src /\ e.stmt = r.stmt /\ e.kind = EdgeKind(r) /\ e.site \in {r.site, -r.site}

(* Edges of one call are alike, but for where they lead.                   *)
CallsAreAlike(es) ==
  /\ \A e \in es : OfReference(e)
  /\ \A e \in es : e.site < 0 <=> e.rule = "scip-dep"
  /\ \A e \in es : e.rule = "scip-dep" => e.confidence = 1 /\ e.group = 0
  /\ \A e \in es : e.rule = "indirect" => e.dst = e.src /\ e.group = 0 /\ e.confidence = 0
  /\ \A e, f \in es : SameCall(e, f) =>
       e.rule = f.rule /\ e.confidence = f.confidence /\ e.cut = f.cut /\ e.arity = f.arity

IsCertain(es) ==
  \A e \in {e \in es : e.confidence = 2 /\ IsCall(e)} :
    \/ \A f \in es : SameCall(e, f) => e.dst = f.dst
    \/ e.site \in DOMAIN code.scip /\ UnknownToGraph(code.scip[e.site])

(* A group is of one call, has two targets at least, and a row for each.   *)
GroupsAreOfCalls(es, rs) ==
  /\ \A e, f \in es : e.group = f.group /\ e.group # 0 => SameCall(e, f)
  /\ \A e \in es : e.group # 0 =>
       /\ \E f \in es : f.group = e.group /\ f.dst # e.dst
       /\ \E c \in rs : c.group = e.group /\ c.dst = e.dst
  /\ \A c \in rs : c.group # 0 /\ \E e \in es : e.group = c.group /\ e.dst = c.dst
  /\ \A c, d \in rs : c.group = d.group /\ c.dst = d.dst => c = d

(* The targets CHA gives a call are in one group.                          *)
ScopedTogether(es) ==
  \A e, f \in es :
    e.rule = "cha-trait-set" /\ f.rule = "cha-trait-set" /\ e.src = f.src /\ e.site = f.site =>
      e.group = f.group

Sound(es, rs) ==
  CallsAreAlike(es) /\ IsCertain(es) /\ GroupsAreOfCalls(es, rs) /\ ScopedTogether(es)

SoundGraph(g) == g \in GraphType /\ Sound(ToSet(g.edges), g.rows)

(* The candidate table of a sound graph is of groups the edges carry.      *)
LEMMA SoundRows ==
  ASSUME NEW g, SoundGraph(g) PROVE g \in GraphType /\ RowsAreOfGroups(g)
<1>1. g \in GraphType /\ g.edges \in Seq(EdgeType)
  BY GraphParts DEF SoundGraph
<1>2. \A n : n \in Groups(g.edges) <=> n # 0 /\ \E e \in ToSet(g.edges) : e.group = n
  BY <1>1, GroupsOf
<1> QED BY <1>1, <1>2 DEF SoundGraph, Sound, GroupsAreOfCalls, RowsAreOfGroups

(* Another number is all that sets e and f apart. *)
Alike(e, f) ==
  /\ e.src = f.src /\ e.dst = f.dst /\ e.kind = f.kind /\ e.site = f.site /\ e.stmt = f.stmt
  /\ e.confidence = f.confidence /\ e.rule = f.rule /\ e.cut = f.cut /\ e.arity = f.arity

(* An edge with another group is alike.                                    *)
LEMMA Regrouped ==
  ASSUME NEW f \in EdgeType, NEW n \in Nat, NEW e, e = [f EXCEPT !.group = n]
  PROVE  e \in EdgeType /\ e.group = n /\ Alike(e, f)
BY DEF EdgeType, Alike

(* Edges alike and of one group are the same.                              *)
LEMMA EdgesEqual ==
  ASSUME NEW e \in EdgeType, NEW f \in EdgeType, Alike(e, f), e.group = f.group
  PROVE  e = f
BY DEF EdgeType, Alike

(* Renumbering groups gives each edge one alike, and takes no two groups   *)
(* for one.                                                                *)
LEMMA RenumberedAlike ==
  ASSUME NEW g \in GraphType, NEW h \in GraphType, NEW number, RenumberedBy(g, h, number)
  PROVE  /\ \A e \in ToSet(h.edges) : \E f \in ToSet(g.edges) : Alike(e, f) /\ e.group = number[f.group]
         /\ \A f \in ToSet(g.edges) : \E e \in ToSet(h.edges) : Alike(e, f) /\ e.group = number[f.group]
         /\ \A f \in ToSet(g.edges) : f.group \in {0} \cup Groups(g.edges)
         /\ number[0] = 0 /\ \A n \in Groups(g.edges) : number[n] # 0
         /\ \A m, n \in {0} \cup Groups(g.edges) : number[m] = number[n] => m = n
<1>1. /\ ToSet(g.edges) \subseteq EdgeType
      /\ \A e \in ToSet(g.edges) : e.group \in {0} \cup Groups(g.edges)
  BY GraphParts, MembersOfSeq, GroupsOf
<1>2. \A e \in ToSet(g.edges) : number[e.group] \in Nat
  BY <1>1 DEF RenumberedBy
<1>3. ASSUME NEW f \in ToSet(g.edges), NEW e, e = [f EXCEPT !.group = number[f.group]]
      PROVE  Alike(e, f) /\ e.group = number[f.group]
  <2>1. PICK n \in Nat : n = number[f.group]
    BY <1>2
  <2>2. f \in EdgeType /\ e = [f EXCEPT !.group = n]
    BY <1>1, <1>3, <2>1
  <2> QED BY <2>1, <2>2, Regrouped
<1>4. ASSUME NEW e \in ToSet(h.edges)
      PROVE  \E f \in ToSet(g.edges) : Alike(e, f) /\ e.group = number[f.group]
  <2>1. PICK f \in ToSet(g.edges) : e = [f EXCEPT !.group = number[f.group]]
    BY DEF RenumberedBy
  <2> QED BY <1>3, <2>1
<1>5. ASSUME NEW f \in ToSet(g.edges)
      PROVE  \E e \in ToSet(h.edges) : Alike(e, f) /\ e.group = number[f.group]
  <2>1. PICK e : e = [f EXCEPT !.group = number[f.group]]
    OBVIOUS
  <2>2. e \in ToSet(h.edges)
    BY <2>1 DEF RenumberedBy
  <2> QED BY <1>3, <2>1, <2>2
<1>6. number[0] = 0 /\ \A n \in Groups(g.edges) : number[n] # 0
  BY DEF RenumberedBy
<1>7. \A m, n \in {0} \cup Groups(g.edges) : number[m] = number[n] => m = n
  BY <1>6 DEF RenumberedBy
<1> QED BY <1>1, <1>4, <1>5, <1>6, <1>7

(* Renumbering groups keeps a graph sound.                                 *)
LEMMA RenumberingKeepsSound ==
  ASSUME NEW g, SoundGraph(g), NEW h \in GraphType, NEW number, RenumberedBy(g, h, number)
  PROVE  SoundGraph(h)
<1> DEFINE E == ToSet(g.edges)
           F == ToSet(h.edges)
<1>1. g \in GraphType
  BY DEF SoundGraph
<1>2. /\ \A e \in F : \E f \in E : Alike(e, f) /\ e.group = number[f.group]
      /\ \A f \in E : \E e \in F : Alike(e, f) /\ e.group = number[f.group]
      /\ \A f \in E : f.group \in {0} \cup Groups(g.edges)
      /\ number[0] = 0 /\ \A n \in Groups(g.edges) : number[n] # 0
      /\ \A m, n \in {0} \cup Groups(g.edges) : number[m] = number[n] => m = n
  BY <1>1, RenumberedAlike
<1>3. Sound(E, g.rows)
  BY DEF SoundGraph
<1>4. \A c : c \in h.rows <=> \E d \in g.rows : c = [d EXCEPT !.group = number[d.group]]
  BY DEF RenumberedBy
<1>5. g.rows \subseteq RowType /\ \A d \in g.rows : d.group \in Groups(g.edges) /\ number[d.group] \in Nat
  BY <1>1, GraphParts, SoundRows DEF RowsAreOfGroups, RenumberedBy
<1> HIDE DEF E, F
<1>6. CallsAreAlike(F)
  <2>1. ASSUME NEW e \in F PROVE OfReference(e)
    <3>1. PICK f \in E : Alike(e, f)
      BY <1>2
    <3>2. OfReference(f)
      BY <1>3 DEF Sound, CallsAreAlike
    <3> QED BY <3>1, <3>2 DEF Alike, OfReference
  <2>2. ASSUME NEW e \in F
        PROVE  /\ e.site < 0 <=> e.rule = "scip-dep"
               /\ e.rule = "scip-dep" => e.confidence = 1 /\ e.group = 0
               /\ e.rule = "indirect" => e.dst = e.src /\ e.group = 0 /\ e.confidence = 0
    <3>1. PICK f \in E : Alike(e, f) /\ e.group = number[f.group]
      BY <1>2
    <3>2. /\ f.site < 0 <=> f.rule = "scip-dep"
          /\ f.rule = "scip-dep" => f.confidence = 1 /\ f.group = 0
          /\ f.rule = "indirect" => f.dst = f.src /\ f.group = 0 /\ f.confidence = 0
      BY <1>3 DEF Sound, CallsAreAlike
    <3> QED BY <1>2, <3>1, <3>2 DEF Alike
  <2>3. ASSUME NEW e \in F, NEW f \in F, SameCall(e, f)
        PROVE  e.rule = f.rule /\ e.confidence = f.confidence /\ e.cut = f.cut /\ e.arity = f.arity
    <3>1. PICK a \in E : Alike(e, a)
      BY <1>2
    <3>2. PICK b \in E : Alike(f, b)
      BY <1>2
    <3>3. SameCall(a, b)
      BY <2>3, <3>1, <3>2 DEF SameCall, Alike
    <3>4. a.rule = b.rule /\ a.confidence = b.confidence /\ a.cut = b.cut /\ a.arity = b.arity
      BY <1>3, <3>3 DEF Sound, CallsAreAlike
    <3> QED BY <3>1, <3>2, <3>4 DEF Alike
  <2> QED BY <2>1, <2>2, <2>3 DEF CallsAreAlike
<1>7. IsCertain(F)
  <2>1. ASSUME NEW e \in F, e.confidence = 2, IsCall(e)
        PROVE  \/ \A f \in F : SameCall(e, f) => e.dst = f.dst
               \/ e.site \in DOMAIN code.scip /\ UnknownToGraph(code.scip[e.site])
    <3>1. PICK a \in E : Alike(e, a)
      BY <1>2
    <3>2. a.confidence = 2 /\ IsCall(a) /\ a.site = e.site /\ a.dst = e.dst
      BY <2>1, <3>1 DEF Alike, IsCall
    <3>3. CASE \A b \in E : SameCall(a, b) => a.dst = b.dst
      <4>1. ASSUME NEW f \in F, SameCall(e, f) PROVE e.dst = f.dst
        <5>1. PICK b \in E : Alike(f, b)
          BY <1>2
        <5>2. SameCall(a, b)
          BY <3>1, <4>1, <5>1 DEF SameCall, Alike
        <5>3. a.dst = b.dst
          BY <3>3, <5>2
        <5> QED BY <3>2, <5>1, <5>3 DEF Alike
      <4> QED BY <4>1
    <3>4. CASE a.site \in DOMAIN code.scip /\ UnknownToGraph(code.scip[a.site])
      BY <3>2, <3>4
    <3> QED BY <1>3, <3>2, <3>3, <3>4 DEF Sound, IsCertain
  <2> QED BY <2>1 DEF IsCertain
<1>8. ScopedTogether(F)
  <2>1. ASSUME NEW e \in F, NEW f \in F, e.rule = "cha-trait-set", f.rule = "cha-trait-set",
               e.src = f.src, e.site = f.site
        PROVE  e.group = f.group
    <3>1. PICK a \in E : Alike(e, a) /\ e.group = number[a.group]
      BY <1>2
    <3>2. PICK b \in E : Alike(f, b) /\ f.group = number[b.group]
      BY <1>2
    <3>3. a.group = b.group
      BY <1>3, <2>1, <3>1, <3>2 DEF Sound, ScopedTogether, Alike
    <3> QED BY <3>1, <3>2, <3>3
  <2> QED BY <2>1 DEF ScopedTogether
<1>9. \A d \in RowType : \A n \in Nat :
        [d EXCEPT !.group = n].group = n /\ [d EXCEPT !.group = n].dst = d.dst
        /\ [d EXCEPT !.group = n].rank = d.rank
  BY DEF RowType
<1>10. ASSUME NEW d \in g.rows, NEW c, c = [d EXCEPT !.group = number[d.group]]
       PROVE  c.group = number[d.group] /\ c.dst = d.dst
  BY <1>5, <1>9, <1>10
<1>11. GroupsAreOfCalls(F, h.rows)
  <2>1. ASSUME NEW e \in F, NEW f \in F, e.group = f.group, e.group # 0 PROVE SameCall(e, f)
    <3>1. PICK a \in E : Alike(e, a) /\ e.group = number[a.group]
      BY <1>2
    <3>2. PICK b \in E : Alike(f, b) /\ f.group = number[b.group]
      BY <1>2
    <3>n. /\ number[a.group] = number[b.group] /\ number[a.group] # 0
          /\ a.group \in {0} \cup Groups(g.edges) /\ b.group \in {0} \cup Groups(g.edges)
      BY <1>2, <2>1, <3>1, <3>2
    <3>3. a.group = b.group /\ a.group # 0
      BY <1>2, <3>n
    <3>4. SameCall(a, b)
      BY <1>3, <3>3 DEF Sound, GroupsAreOfCalls
    <3> QED BY <3>1, <3>2, <3>4 DEF Alike, SameCall
  <2>2. ASSUME NEW e \in F, e.group # 0
        PROVE  /\ \E f \in F : f.group = e.group /\ f.dst # e.dst
               /\ \E c \in h.rows : c.group = e.group /\ c.dst = e.dst
    <3>1. PICK a \in E : Alike(e, a) /\ e.group = number[a.group]
      BY <1>2
    <3>2. a.group # 0 /\ a.dst = e.dst
      BY <1>2, <2>2, <3>1 DEF Alike
    <3>3. PICK b \in E : b.group = a.group /\ b.dst # a.dst
      BY <1>3, <3>2 DEF Sound, GroupsAreOfCalls
    <3>4. PICK f \in F : Alike(f, b) /\ f.group = number[b.group]
      BY <1>2
    <3>5. f.group = e.group /\ f.dst # e.dst
      BY <3>1, <3>2, <3>3, <3>4 DEF Alike
    <3>6. PICK d \in g.rows : d.group = a.group /\ d.dst = a.dst
      BY <1>3, <3>2 DEF Sound, GroupsAreOfCalls
    <3>7. PICK c : c = [d EXCEPT !.group = number[d.group]]
      OBVIOUS
    <3>8. c \in h.rows /\ c.group = e.group /\ c.dst = e.dst
      BY <1>4, <1>10, <3>1, <3>2, <3>6, <3>7
    <3> QED BY <3>5, <3>8
  <2>3. ASSUME NEW c \in h.rows PROVE c.group # 0 /\ \E e \in F : e.group = c.group /\ e.dst = c.dst
    <3>1. PICK d \in g.rows : c = [d EXCEPT !.group = number[d.group]]
      BY <1>4
    <3>2. c.group = number[d.group] /\ c.dst = d.dst
      BY <1>10, <3>1
    <3>3. c.group # 0
      BY <1>2, <1>5, <3>2
    <3>4. PICK a \in E : a.group = d.group /\ a.dst = d.dst
      BY <1>3 DEF Sound, GroupsAreOfCalls
    <3>5. PICK e \in F : Alike(e, a) /\ e.group = number[a.group]
      BY <1>2
    <3> QED BY <3>2, <3>3, <3>4, <3>5 DEF Alike
  <2>4. ASSUME NEW c \in h.rows, NEW d \in h.rows, c.group = d.group, c.dst = d.dst PROVE c = d
    <3>1. PICK a \in g.rows : c = [a EXCEPT !.group = number[a.group]]
      BY <1>4
    <3>2. PICK b \in g.rows : d = [b EXCEPT !.group = number[b.group]]
      BY <1>4
    <3>3. c.group = number[a.group] /\ c.dst = a.dst /\ d.group = number[b.group] /\ d.dst = b.dst
      BY <1>10, <3>1, <3>2
    <3>n. /\ number[a.group] = number[b.group]
          /\ a.group \in {0} \cup Groups(g.edges) /\ b.group \in {0} \cup Groups(g.edges)
      BY <1>5, <2>4, <3>3
    <3>4. a.group = b.group
      BY <1>2, <3>n
    <3>5. a = b
      BY <1>3, <2>4, <3>3, <3>4, ZenonT(60) DEF Sound, GroupsAreOfCalls
    <3> QED BY <3>1, <3>2, <3>5
  <2> QED BY <2>1, <2>2, <2>3, <2>4 DEF GroupsAreOfCalls
<1> QED BY <1>6, <1>7, <1>8, <1>11 DEF SoundGraph, Sound, E, F

(* Only takes the items at some places, Without all but those dropped, and *)
(* First one of those asked for.                                           *)
LEMMA OnlyIs ==
  ASSUME NEW T, NEW s \in Seq(T), NEW places \in SUBSET (DOMAIN s)
  PROVE  Only(s, places) \in Seq(T) /\ \A x : x \in ToSet(Only(s, places)) <=> \E p \in places : x = s[p]
<1> DEFINE less == {p \in places \X places : p[1] < p[2]}
           at == InOrder(places, less)
           out == Only(s, places)
<1>1. DOMAIN s = 1 .. Len(s) /\ Len(s) \in Nat /\ IsFiniteSet(DOMAIN s) /\ \A i \in DOMAIN s : s[i] \in T
  BY MembersOfSeq
<1>2. IsFiniteSet(places)
  BY <1>1, FS_Subset
<1>3. \A i, j \in places : <<i, j>> \in less <=> i < j
  OBVIOUS
<1>4. \A i \in places : i \in Nat
  BY <1>1
<1>5. out = [k \in DOMAIN at |-> s[at[k]]]
  BY DEF Only
<1> HIDE DEF less, out
<1>6. IsStrictOrder(places, less)
  BY <1>3, <1>4 DEF IsStrictOrder
<1>7. Lists(at, places, less)
  BY <1>2, <1>6, InOrderLists
<1> HIDE DEF at
<1>8. at \in Seq(places) /\ Len(at) \in Nat /\ DOMAIN at = 1 .. Len(at)
      /\ \A i \in 1 .. Len(at) : at[i] \in places
  BY <1>7 DEF Lists
<1>9. \A p \in places : \E i \in 1 .. Len(at) : at[i] = p
  BY <1>7 DEF Lists
<1>10. out \in [1 .. Len(at) -> T]
  BY <1>1, <1>5, <1>8
<1>11. out \in Seq(T) /\ Len(out) = Len(at)
  BY <1>8, <1>10
<1>12. \A i \in 1 .. Len(at) : out[i] = s[at[i]]
  BY <1>5, <1>8
<1>13. \A x : x \in ToSet(out) <=> \E i \in 1 .. Len(at) : out[i] = x
  BY <1>11, MembersOfSeq
<1>14. ASSUME NEW x PROVE x \in ToSet(out) <=> \E p \in places : x = s[p]
  <2>1. ASSUME x \in ToSet(out) PROVE \E p \in places : x = s[p]
    BY <1>8, <1>12, <1>13, <2>1
  <2>2. ASSUME NEW p \in places, x = s[p] PROVE x \in ToSet(out)
    <3>1. PICK i \in 1 .. Len(at) : at[i] = p
      BY <1>9
    <3>2. out[i] = x
      BY <1>12, <2>2, <3>1
    <3> QED BY <1>13, <3>2
  <2> QED BY <2>1, <2>2
<1> QED BY <1>11, <1>14 DEF out

(* Without leaves all edges but those to drop.                             *)
LEMMA WithoutIs ==
  ASSUME NEW T, NEW s \in Seq(T), NEW drop
  PROVE  Without(s, drop) \in Seq(T) /\ ToSet(Without(s, drop)) = ToSet(s) \ drop
<1> DEFINE places == {i \in DOMAIN s : s[i] \notin drop}
           out == Without(s, drop)
<1>1. places \in SUBSET (DOMAIN s) /\ \A i : i \in places <=> i \in DOMAIN s /\ s[i] \notin drop
  OBVIOUS
<1>2. out = Only(s, places)
  BY DEF Without
<1> HIDE DEF places, out
<1>3. out \in Seq(T) /\ \A x : x \in ToSet(out) <=> \E p \in places : x = s[p]
  BY <1>1, <1>2, OnlyIs
<1>4. \A x : x \in ToSet(s) <=> \E i \in DOMAIN s : s[i] = x
  BY MembersOfSeq
<1>5. \A x : x \in ToSet(out) <=> x \in ToSet(s) \ drop
  BY <1>1, <1>3, <1>4
<1> QED BY <1>3, <1>5 DEF out

(* First is one of the edges it is asked for.                              *)
LEMMA FirstIs ==
  ASSUME NEW T, NEW s \in Seq(T), NEW es, es # {}, es \subseteq ToSet(s)
  PROVE  First(s, es) \in es
<1> DEFINE I == {i \in DOMAIN s : s[i] \in es}
<1>1. DOMAIN s = 1 .. Len(s) /\ \A x : x \in ToSet(s) <=> \E i \in 1 .. Len(s) : s[i] = x
  BY MembersOfSeq
<1>2. PICK x \in es : TRUE
  OBVIOUS
<1>3. I # {} /\ I \in SUBSET Nat
  BY <1>1, <1>2
<1>4. First(s, es) = s[Min(I)]
  BY DEF First
<1>5. Min(I) \in I
  <2> HIDE DEF I
  <2> QED BY <1>3, MinOfNats
<1> QED BY <1>4, <1>5

(* Candidates are ranked each once.                                        *)
LEMMA RankedLists ==
  ASSUME NEW src, NEW rule, NEW dsts \in SUBSET Node
  PROVE  LET ranked == Ranked(src, rule, dsts)
         IN  /\ ranked \in Seq(dsts) /\ Len(ranked) = Cardinality(dsts) /\ Cardinality(dsts) \in Nat
             /\ \A n \in dsts : \E i \in 1 .. Len(ranked) : ranked[i] = n
             /\ \A i, j \in 1 .. Len(ranked) : ranked[i] = ranked[j] => i = j
<1> DEFINE Far(n) == IF rule = "name-arity" THEN Locality(src, n) ELSE 0
           Nearer(m, n) == Far(m) < Far(n) \/ (Far(m) = Far(n) /\ m < n)
           less == {p \in dsts \X dsts : Nearer(p[1], p[2])}
           ranked == Ranked(src, rule, dsts)
<1>1. IsFiniteSet(dsts) /\ \A n \in dsts : n \in Nat
  BY NodesAreNat, FS_Subset
<1>2. \A n : Far(n) \in Nat
  BY DEF Locality
<1>3. ranked = InOrder(dsts, less)
  BY DEF Ranked
<1>4. \A m, n \in dsts : <<m, n>> \in less <=> Far(m) < Far(n) \/ (Far(m) = Far(n) /\ m < n)
  OBVIOUS
<1> HIDE DEF Far, less, ranked
<1>5. IsStrictOrder(dsts, less)
  <2>1. ASSUME NEW m \in dsts, NEW n \in dsts PROVE <<m, m>> \notin less /\ (m = n \/ <<m, n>> \in less \/ <<n, m>> \in less)
    <3>1. m \in Nat /\ n \in Nat /\ Far(m) \in Nat /\ Far(n) \in Nat
      BY <1>1, <1>2
    <3> QED BY <1>4, <3>1
  <2>2. ASSUME NEW k \in dsts, NEW m \in dsts, NEW n \in dsts, <<k, m>> \in less, <<m, n>> \in less
        PROVE  <<k, n>> \in less
    <3>1. k \in Nat /\ m \in Nat /\ n \in Nat /\ Far(k) \in Nat /\ Far(m) \in Nat /\ Far(n) \in Nat
      BY <1>1, <1>2
    <3>2. Far(k) < Far(m) \/ (Far(k) = Far(m) /\ k < m)
      BY <1>4, <2>2
    <3>3. Far(m) < Far(n) \/ (Far(m) = Far(n) /\ m < n)
      BY <1>4, <2>2
    <3>4. Far(k) < Far(n) \/ (Far(k) = Far(n) /\ k < n)
      BY <3>1, <3>2, <3>3
    <3> QED BY <1>4, <3>4
  <2> QED BY <2>1, <2>2 DEF IsStrictOrder
<1>6. Lists(ranked, dsts, less)
  BY <1>1, <1>3, <1>5, InOrderLists
<1> QED BY <1>1, <1>6, FS_CardinalityType DEF Lists, ranked

(* A group for targets that are several is above all others.               *)
LEMMA GroupForIs ==
  ASSUME NEW edges \in Seq(EdgeType), NEW dsts \in SUBSET Node
  PROVE  /\ GroupFor(edges, dsts) \in Nat
         /\ GroupFor(edges, dsts) \notin Groups(edges)
         /\ GroupFor(edges, dsts) # 0 => \A n \in dsts : \E m \in dsts : m # n
         /\ GroupFor(edges, dsts) = 0 => \A m, n \in dsts : m = n
<1> DEFINE S == {0} \cup Groups(edges)
<1>1. Groups(edges) \in SUBSET (Nat \ {0}) /\ IsFiniteSet(Groups(edges))
  BY GroupsOf
<1>2. S \in SUBSET Nat /\ S # {} /\ IsFiniteSet(S)
  <2>1. IsFiniteSet(Groups(edges) \cup {0})
    BY <1>1, FS_AddElement
  <2>2. S = Groups(edges) \cup {0}
    OBVIOUS
  <2>3. S \in SUBSET Nat /\ 0 \in S
    BY <1>1
  <2>4. IsFiniteSet(S)
    BY <2>1, <2>2
  <2> HIDE DEF S
  <2> QED BY <2>3, <2>4
<1>3. NextGroup(edges) = 1 + Max(S)
  BY DEF NextGroup
<1>4. \A n \in Groups(edges) : n \in S
  OBVIOUS
<1> HIDE DEF S
<1>5. Max(S) \in Nat /\ \A n \in Groups(edges) : n <= Max(S) /\ n \in Nat
  BY <1>1, <1>2, <1>4, MaxOfNats
<1>6. NextGroup(edges) \in Nat \ {0} /\ NextGroup(edges) \notin Groups(edges)
  BY <1>3, <1>5
<1>7. IsFiniteSet(dsts) /\ Cardinality(dsts) \in Nat
  BY NodesAreNat, FS_Subset, FS_CardinalityType
<1>8. ASSUME Cardinality(dsts) > 1, NEW n \in dsts PROVE \E m \in dsts : m # n
  <2>1. ASSUME \A m \in dsts : m = n PROVE FALSE
    <3>1. dsts = {n}
      BY <1>8, <2>1
    <3>2. Cardinality({n}) = 1
      BY FS_Singleton
    <3> QED BY <1>8, <3>1, <3>2
  <2> QED BY <2>1
<1>9. ASSUME ~(Cardinality(dsts) > 1), NEW m \in dsts, NEW n \in dsts PROVE m = n
  <2>1. Cardinality(dsts) = 0 \/ Cardinality(dsts) = 1
    BY <1>7, <1>9
  <2>2. Cardinality(dsts) # 0
    BY <1>7, FS_EmptySet
  <2>3. \E x : dsts = {x}
    BY <1>7, <2>1, <2>2, FS_Singleton
  <2> QED BY <2>3
<1>10. 0 \notin Groups(edges)
  BY <1>1
<1> QED BY <1>6, <1>8, <1>9, <1>10 DEF GroupFor

(* Joined sequences have the members of both.                              *)
LEMMA Joined ==
  ASSUME NEW T, NEW s \in Seq(T), NEW t \in Seq(T)
  PROVE  s \o t \in Seq(T) /\ ToSet(s \o t) = ToSet(s) \cup ToSet(t)
<1>1. /\ s \o t \in Seq(T) /\ Len(s \o t) = Len(s) + Len(t) /\ Len(s) \in Nat /\ Len(t) \in Nat
      /\ \A i \in 1 .. Len(s) : (s \o t)[i] = s[i]
      /\ \A i \in 1 .. Len(t) : (s \o t)[Len(s) + i] = t[i]
  OBVIOUS
<1>2. PICK u : u = s \o t
  OBVIOUS
<1>3. PICK k, m \in Nat : k = Len(s) /\ m = Len(t)
  BY <1>1
<1>4. /\ u \in Seq(T) /\ Len(u) = k + m
      /\ \A i \in 1 .. k : u[i] = s[i]
      /\ \A i \in 1 .. m : u[k + i] = t[i]
  BY <1>1, <1>2, <1>3
<1>5. /\ \A x : x \in ToSet(u) <=> \E i \in 1 .. k + m : u[i] = x
      /\ \A x : x \in ToSet(s) <=> \E i \in 1 .. k : s[i] = x
      /\ \A x : x \in ToSet(t) <=> \E i \in 1 .. m : t[i] = x
  <2>1. \A x : x \in ToSet(u) <=> \E i \in 1 .. Len(u) : u[i] = x
    BY <1>4, MembersOfSeq, Zenon
  <2>2. \A x : x \in ToSet(s) <=> \E i \in 1 .. Len(s) : s[i] = x
    BY MembersOfSeq, Zenon
  <2>3. \A x : x \in ToSet(t) <=> \E i \in 1 .. Len(t) : t[i] = x
    BY MembersOfSeq, Zenon
  <2> QED BY <1>3, <1>4, <2>1, <2>2, <2>3
<1>6. ASSUME NEW x \in ToSet(u) PROVE x \in ToSet(s) \cup ToSet(t)
  <2>1. PICK i \in 1 .. k + m : u[i] = x
    BY <1>5
  <2>2. CASE i <= k
    <3>1. i \in 1 .. k
      BY <1>3, <2>2
    <3>2. s[i] = x
      BY <1>4, <2>1, <3>1
    <3> QED BY <1>5, <3>1, <3>2
  <2>3. CASE k < i
    <3>1. PICK j \in 1 .. m : i = k + j
      <4>1. i - k \in 1 .. m /\ i = k + (i - k)
        BY <1>3, <2>3
      <4> QED BY <4>1
    <3>2. t[j] = x
      BY <1>4, <2>1, <3>1
    <3> QED BY <1>5, <3>2
  <2> QED BY <1>3, <2>2, <2>3
<1>7. ASSUME NEW x, x \in ToSet(s) \/ x \in ToSet(t) PROVE x \in ToSet(u)
  <2>1. CASE x \in ToSet(s)
    <3>1. PICK i \in 1 .. k : s[i] = x
      BY <1>5, <2>1
    <3>2. i \in 1 .. k + m /\ u[i] = x
      BY <1>3, <1>4, <3>1
    <3> QED BY <1>5, <3>2
  <2>2. CASE x \in ToSet(t)
    <3>1. PICK i \in 1 .. m : t[i] = x
      BY <1>5, <2>2
    <3>2. k + i \in 1 .. k + m
      BY <1>3
    <3>3. u[k + i] = x
      BY <1>4, <3>1
    <3> QED BY <1>5, <3>2, <3>3
  <2> QED BY <1>7, <2>1, <2>2
<1> QED BY <1>2, <1>4, <1>6, <1>7

(* h is g with the edge f[n] for each target n, and the rows of group q,   *)
(* if they have one.                                                       *)
Added(g, h, dsts, q, f) ==
  /\ h \in GraphType
  /\ \A e : e \in ToSet(h.edges) <=> e \in ToSet(g.edges) \/ \E n \in dsts : e = f[n]
  /\ \A c \in g.rows : c \in h.rows
  /\ \A c \in h.rows : c \in g.rows \/ (q # 0 /\ c.group = q /\ c.dst \in dsts)
  /\ q # 0 => \A n \in dsts : \E c \in h.rows : c.group = q /\ c.dst = n
  /\ \A c, d \in h.rows : c.group = q /\ d.group = q /\ c.dst = d.dst => c = d \/ c \in g.rows \/ d \in g.rows

(* A group gets a row for each candidate it ranks.                         *)
LEMMA RowsForIs ==
  ASSUME NEW q \in Nat, NEW dsts \in SUBSET Node, NEW ranked \in Seq(dsts)
  PROVE  /\ RowsFor(q, ranked) \in SUBSET RowType
         /\ \A c : c \in RowsFor(q, ranked) <=>
              q # 0 /\ \E i \in 1 .. Len(ranked) : c = [group |-> q, dst |-> ranked[i], rank |-> i]
<1>1. DOMAIN ranked = 1 .. Len(ranked) /\ Len(ranked) \in Nat /\ \A i \in 1 .. Len(ranked) : ranked[i] \in dsts
  OBVIOUS
<1>2. \A c : c \in RowsFor(q, ranked) <=>
        q # 0 /\ \E i \in 1 .. Len(ranked) : c = [group |-> q, dst |-> ranked[i], rank |-> i]
  BY <1>1 DEF RowsFor
<1>3. ASSUME NEW c \in RowsFor(q, ranked) PROVE c \in RowType
  <2>1. PICK i \in 1 .. Len(ranked) : c = [group |-> q, dst |-> ranked[i], rank |-> i]
    BY <1>2
  <2>2. i \in Nat /\ ranked[i] \in {0} \cup Node
    BY <1>1
  <2> QED BY <2>1, <2>2 DEF RowType
<1> QED BY <1>2, <1>3

(* What appending a call's edges, and its rows if it has several, adds to  *)
(* a graph.                                                                *)
LEMMA EdgesAdded ==
  ASSUME NEW g \in GraphType, NEW q \in Nat, NEW dsts \in SUBSET Node,
         NEW ranked \in Seq(dsts),
         \A n \in dsts : \E i \in 1 .. Len(ranked) : ranked[i] = n,
         \A i, j \in 1 .. Len(ranked) : ranked[i] = ranked[j] => i = j,
         NEW f, \A n \in dsts : f[n] \in EdgeType,
         NEW new, new = [i \in DOMAIN ranked |-> f[ranked[i]]],
         NEW h, h = [g EXCEPT !.edges = g.edges \o new, !.rows = g.rows \cup RowsFor(q, ranked)]
  PROVE  Added(g, h, dsts, q, f)
<1> DEFINE k == Len(ranked)
<1>1. DOMAIN ranked = 1 .. k /\ k \in Nat /\ \A i \in 1 .. k : ranked[i] \in dsts
  OBVIOUS
<1>2. new \in Seq(EdgeType) /\ Len(new) = k /\ \A i \in 1 .. k : new[i] = f[ranked[i]]
  <2> HIDE DEF k
  <2>1. new \in [1 .. k -> EdgeType]
    BY <1>1
  <2> QED BY <1>1, <2>1
<1>3. g.edges \in Seq(EdgeType) /\ g.rows \in SUBSET RowType
  BY GraphParts
<1>4. PICK a : a = g.edges \o new
  OBVIOUS
<1>5. PICK b : b = g.rows \cup RowsFor(q, ranked)
  OBVIOUS
<1>6. a \in Seq(EdgeType) /\ ToSet(a) = ToSet(g.edges) \cup ToSet(new)
  <2>1. new \in Seq(EdgeType) /\ g.edges \in Seq(EdgeType)
    BY <1>2, <1>3
  <2>2. g.edges \o new \in Seq(EdgeType) /\ ToSet(g.edges \o new) = ToSet(g.edges) \cup ToSet(new)
    <3>1. PICK s \in Seq(EdgeType) : s = g.edges
      BY <2>1
    <3>2. PICK t \in Seq(EdgeType) : t = new
      BY <2>1
    <3>3. s \o t \in Seq(EdgeType)
      BY Joined
    <3>4. ToSet(s \o t) = ToSet(s) \cup ToSet(t)
      BY Joined
    <3> QED BY <3>1, <3>2, <3>3, <3>4
  <2> QED BY <1>4, <2>2
<1>7. b \in SUBSET RowType
  BY <1>3, <1>5, RowsForIs
<1>8. h = [g EXCEPT !.edges = a, !.rows = b]
  BY <1>4, <1>5
<1>9. h.edges = a /\ h.rows = b /\ h \in GraphType
  BY <1>6, <1>7, <1>8 DEF GraphType
<1> HIDE DEF k
<1>10. ASSUME NEW e PROVE e \in ToSet(a) <=> e \in ToSet(g.edges) \/ \E n \in dsts : e = f[n]
  <2>1. e \in ToSet(new) <=> \E i \in 1 .. k : new[i] = e
    BY <1>2, MembersOfSeq
  <2>2. ASSUME NEW i \in 1 .. k, new[i] = e PROVE \E n \in dsts : e = f[n]
    BY <1>1, <1>2, <2>2
  <2>3. ASSUME NEW n \in dsts, e = f[n] PROVE \E i \in 1 .. k : new[i] = e
    <3>1. PICK j \in 1 .. k : ranked[j] = n
      BY DEF k
    <3> QED BY <1>2, <2>3, <3>1
  <2> QED BY <1>6, <2>1, <2>2, <2>3
<1>11. \A c : c \in RowsFor(q, ranked) <=> q # 0 /\ \E i \in 1 .. k : c = [group |-> q, dst |-> ranked[i], rank |-> i]
  BY RowsForIs DEF k
<1>12. ASSUME NEW c \in b PROVE c \in g.rows \/ (q # 0 /\ c.group = q /\ c.dst \in dsts)
  BY <1>1, <1>5, <1>11
<1>13. ASSUME q # 0, NEW n \in dsts PROVE \E c \in b : c.group = q /\ c.dst = n
  <2>1. PICK j \in 1 .. k : ranked[j] = n
    BY DEF k
  <2>2. PICK c : c = [group |-> q, dst |-> ranked[j], rank |-> j]
    OBVIOUS
  <2>3. c \in b
    BY <1>5, <1>11, <1>13, <2>2
  <2> QED BY <2>1, <2>2, <2>3
<1>14. ASSUME NEW c \in b, NEW d \in b, c.dst = d.dst, c \notin g.rows, d \notin g.rows PROVE c = d
  <2>1. PICK i \in 1 .. k : c = [group |-> q, dst |-> ranked[i], rank |-> i]
    BY <1>5, <1>11, <1>14
  <2>2. PICK j \in 1 .. k : d = [group |-> q, dst |-> ranked[j], rank |-> j]
    BY <1>5, <1>11, <1>14
  <2>3. ranked[i] = ranked[j]
    BY <1>14, <2>1, <2>2
  <2>4. i = j
    BY <2>3 DEF k
  <2> QED BY <2>1, <2>2, <2>4
<1> QED BY <1>5, <1>9, <1>10, <1>12, <1>13, <1>14 DEF Added

(* A group added is of one call, if the edges are.                         *)
(* The edges added are of one call and in its group.                       *)
OfOneCall(dsts, q, f) ==
  /\ \A n \in dsts : f[n].group = q /\ f[n].dst = n
  /\ \A m, n \in dsts : SameCall(f[m], f[n])

(* With a group numbered above all others, groups stay those of one call   *)
(* each.                                                                   *)
LEMMA AddedKeepsGroups ==
  ASSUME NEW g \in GraphType, GroupsAreOfCalls(ToSet(g.edges), g.rows),
         NEW dsts \in SUBSET Node, NEW q, q = GroupFor(g.edges, dsts),
         NEW h, NEW f, Added(g, h, dsts, q, f), OfOneCall(dsts, q, f)
  PROVE  GroupsAreOfCalls(ToSet(h.edges), h.rows)
<1> DEFINE E == ToSet(g.edges)
           F == ToSet(h.edges)
<1> USE DEF OfOneCall
<1>1. /\ q \in Nat /\ q \notin Groups(g.edges)
      /\ q # 0 => \A n \in dsts : \E m \in dsts : m # n
  BY GraphParts, GroupForIs
<1>2. \A n : n \in Groups(g.edges) <=> n # 0 /\ \E e \in E : e.group = n
  BY GraphParts, GroupsOf
<1>3. q # 0 => \A e \in E : e.group # q
  BY <1>1, <1>2
<1>4. \A e : e \in F <=> e \in E \/ \E n \in dsts : e = f[n]
  BY DEF Added
<1>5. /\ \A e, a \in E : e.group = a.group /\ e.group # 0 => SameCall(e, a)
      /\ \A e \in E : e.group # 0 =>
           /\ \E a \in E : a.group = e.group /\ a.dst # e.dst
           /\ \E c \in g.rows : c.group = e.group /\ c.dst = e.dst
      /\ \A c \in g.rows : c.group # 0 /\ \E e \in E : e.group = c.group /\ e.dst = c.dst
      /\ \A c, d \in g.rows : c.group = d.group /\ c.dst = d.dst => c = d
  BY DEF GroupsAreOfCalls
<1> HIDE DEF E, F
<1>6. ASSUME NEW e \in F, NEW a \in F, e.group = a.group, e.group # 0 PROVE SameCall(e, a)
  <2>1. CASE e \in E /\ a \in E
    BY <1>5, <1>6, <2>1
  <2>2. CASE e \notin E
    <3>1. PICK n \in dsts : e = f[n] /\ e.group = q
      BY <1>4, <2>2
    <3>2. a \notin E
      BY <1>3, <1>6, <3>1
    <3> QED BY <1>4, <3>1, <3>2
  <2>3. CASE a \notin E
    <3>1. PICK n \in dsts : a = f[n] /\ a.group = q
      BY <1>4, <2>3
    <3>2. e \notin E
      BY <1>3, <1>6, <3>1
    <3> QED BY <1>4, <3>1, <3>2
  <2> QED BY <2>1, <2>2, <2>3
<1>7. ASSUME NEW e \in F, e.group # 0
      PROVE  /\ \E a \in F : a.group = e.group /\ a.dst # e.dst
             /\ \E c \in h.rows : c.group = e.group /\ c.dst = e.dst
  <2>1. CASE e \in E
    BY <1>4, <1>5, <1>7, <2>1 DEF Added
  <2>2. CASE e \notin E
    <3>1. PICK n \in dsts : e = f[n] /\ e.group = q /\ e.dst = n
      BY <1>4, <2>2
    <3>2. PICK m \in dsts : m # n
      BY <1>1, <1>7, <3>1
    <3>3. f[m] \in F /\ f[m].group = q /\ f[m].dst = m
      BY <1>4, <3>2
    <3>4. \E c \in h.rows : c.group = q /\ c.dst = n
      BY <1>7, <3>1 DEF Added
    <3> QED BY <3>1, <3>2, <3>3, <3>4
  <2> QED BY <2>1, <2>2
<1>8. ASSUME NEW c \in h.rows PROVE c.group # 0 /\ \E e \in F : e.group = c.group /\ e.dst = c.dst
  <2>1. CASE c \in g.rows
    BY <1>4, <1>5, <2>1
  <2>2. CASE c \notin g.rows
    <3>1. q # 0 /\ c.group = q /\ c.dst \in dsts
      BY <2>2 DEF Added
    <3>2. f[c.dst] \in F /\ f[c.dst].group = q /\ f[c.dst].dst = c.dst
      BY <1>4, <3>1
    <3> QED BY <3>1, <3>2
  <2> QED BY <2>1, <2>2
<1>9. ASSUME NEW c \in h.rows, NEW d \in h.rows, c.group = d.group, c.dst = d.dst PROVE c = d
  <2>1. \A r \in g.rows : r.group # q
    <3>1. ASSUME NEW r \in g.rows, r.group = q PROVE FALSE
      <4>1. PICK e \in E : e.group = q
        BY <1>5, <3>1
      <4>2. q # 0
        BY <1>5, <3>1
      <4> QED BY <1>3, <4>1, <4>2
    <3> QED BY <3>1
  <2>2. CASE c \in g.rows /\ d \in g.rows
    BY <1>5, <1>9, <2>2
  <2>3. CASE c \notin g.rows
    <3>1. c.group = q /\ d.group = q
      BY <1>9, <2>3 DEF Added
    <3>2. d \notin g.rows
      BY <2>1, <3>1
    <3> QED BY <1>9, <2>3, <3>1, <3>2 DEF Added
  <2>4. CASE d \notin g.rows
    <3>1. c.group = q /\ d.group = q
      BY <1>9, <2>4 DEF Added
    <3>2. c \notin g.rows
      BY <2>1, <3>1
    <3> QED BY <1>9, <2>4, <3>1, <3>2 DEF Added
  <2> QED BY <2>2, <2>3, <2>4
<1> QED BY <1>6, <1>7, <1>8, <1>9 DEF GroupsAreOfCalls, E, F

(* -- recursion ---------------------------------------------------------- *)
(* A recursion over numbers, within a set, has a solution.                 *)
StepsWithin(n, D, step) == \A i \in 1 .. n : \A x \in D : step[i][x] \in D
Iterates(r, n, D, a, step) ==
  /\ r[0] = a
  /\ \A i \in 1 .. n : r[i] = step[i][r[i - 1]]
  /\ \A i \in 0 .. n : r[i] \in D

(* n steps within a set, from a member of it: a recursion has its values.  *)
LEMMA Recursion ==
  ASSUME NEW n \in Nat, NEW D, NEW a \in D, NEW step, StepsWithin(n, D, step)
  PROVE  \E r : Iterates(r, n, D, a, step)
<1> USE DEF StepsWithin
<1> DEFINE IsUpTo(r, m) ==
             /\ r[0] = a /\ \A i \in 1 .. m : r[i] = step[i][r[i - 1]]
             /\ \A i \in 0 .. m : r[i] \in D
           T == {m \in Nat : \E r : IsUpTo(r, m)}
<1>1. 0 \in T
  <2> DEFINE r == [i \in 0 .. 0 |-> a]
  <2>1. IsUpTo(r, 0)
    OBVIOUS
  <2> HIDE DEF IsUpTo, r
  <2> QED BY <2>1
<1>2. ASSUME NEW m \in 0 .. n - 1, m \in T PROVE m + 1 \in T
  <2>1. PICK r : IsUpTo(r, m)
    BY <1>2
  <2> DEFINE s == [i \in 0 .. m + 1 |-> IF i = m + 1 THEN step[m + 1][r[m]] ELSE r[i]]
  <2>m. m \in Nat /\ m \in 0 .. m /\ m + 1 \in 1 .. n /\ m + 1 \in Nat
    OBVIOUS
  <2>3. \A i \in 0 .. m : s[i] = r[i]
    OBVIOUS
  <2>4. s[m + 1] = step[m + 1][r[m]]
    BY <2>m
  <2> HIDE DEF s
  <2>5. s[0] = a
    <3>1. 0 \in 0 .. m
      BY <2>m
    <3> QED BY <2>1, <2>3, <3>1
  <2>6. ASSUME NEW i \in 1 .. m + 1 PROVE s[i] = step[i][s[i - 1]]
    <3>1. CASE i = m + 1
      <4>1. i - 1 = m
        BY <2>m, <3>1
      <4> QED BY <2>3, <2>4, <2>m, <3>1, <4>1
    <3>2. CASE i \in 1 .. m
      <4>1. i \in 0 .. m /\ i - 1 \in 0 .. m
        BY <2>m, <3>2
      <4>2. r[i] = step[i][r[i - 1]]
        BY <2>1, <3>2
      <4> QED BY <2>3, <4>1, <4>2
    <3> QED BY <2>m, <3>1, <3>2
  <2>7. ASSUME NEW i \in 0 .. m + 1 PROVE s[i] \in D
    <3>1. CASE i = m + 1
      <4>1. r[m] \in D
        BY <2>1, <2>m
      <4> QED BY <2>4, <2>m, <3>1, <4>1
    <3>2. CASE i \in 0 .. m
      <4>1. r[i] \in D
        BY <2>1, <3>2
      <4> QED BY <2>3, <3>2, <4>1
    <3> QED BY <2>m, <3>1, <3>2
  <2>8. IsUpTo(s, m + 1)
    BY <2>5, <2>6, <2>7
  <2> HIDE DEF IsUpTo
  <2> QED BY <2>m, <2>8
<1>3. n \in T
  <2> HIDE DEF T
  <2>1. 0 .. n \subseteq T
    BY <1>1, <1>2, UpTo
  <2>2. n \in 0 .. n
    OBVIOUS
  <2> QED BY <2>1, <2>2
<1> QED BY <1>3 DEF Iterates

(* FlattenSeq joins sequences. *)
LEMMA FlattenIs ==
  ASSUME NEW T, NEW s \in Seq(Seq(T))
  PROVE  /\ FlattenSeq(s) \in Seq(T)
         /\ \A x : x \in ToSet(FlattenSeq(s)) <=> \E i \in 1 .. Len(s) : x \in ToSet(s[i])
<1>1. Len(s) \in Nat /\ \A i \in 1 .. Len(s) : s[i] \in Seq(T)
  OBVIOUS
<1>2. CASE Len(s) = 0
  <2>1. s = <<>>
    BY <1>2
  <2>2. FlattenSeq(s) = s
    BY <1>2 DEF FlattenSeq
  <2>3. ToSet(s) = {}
    BY <2>1 DEF ToSet
  <2>4. s \in Seq(T)
    BY <2>1
  <2> QED BY <1>2, <2>2, <2>3, <2>4
<1>3. CASE Len(s) # 0
  <2> DEFINE n == Len(s)
             Body(f) == [i \in 1 .. n |-> IF i = 1 THEN s[i] ELSE f[i - 1] \o s[i]]
             flatten == CHOOSE f : f = Body(f)
             step == [i \in 1 .. n - 1 |-> [x \in Seq(T) |-> x \o s[i + 1]]]
  <2>1. FlattenSeq(s) = flatten[n]
    BY <1>3 DEF FlattenSeq
  <2>2. n \in Nat \ {0} /\ n - 1 \in Nat /\ s[1] \in Seq(T)
    BY <1>1, <1>3
  <2>3. \A i \in 1 .. n - 1 : \A x \in Seq(T) : step[i][x] = x \o s[i + 1]
    OBVIOUS
  <2>4. \A i \in 1 .. n - 1 : \A x \in Seq(T) : step[i][x] \in Seq(T)
    <3>1. ASSUME NEW i \in 1 .. n - 1, NEW x \in Seq(T) PROVE step[i][x] \in Seq(T)
      <4>1. s[i + 1] \in Seq(T)
        BY <1>1, <2>2
      <4>2. x \o s[i + 1] \in Seq(T)
        BY <4>1
      <4> QED BY <2>3, <4>2
    <3> QED BY <3>1
  <2> HIDE DEF step, n
  <2>5. PICK r : /\ r[0] = s[1] /\ \A i \in 1 .. n - 1 : r[i] = step[i][r[i - 1]]
                 /\ \A i \in 0 .. n - 1 : r[i] \in Seq(T)
    <3>1. PICK D : D = Seq(T)
      OBVIOUS
    <3>2. PICK m \in Nat : m = n - 1
      BY <2>2
    <3>3. PICK a \in D : a = s[1]
      BY <2>2, <3>1
    <3>4. StepsWithin(m, D, step)
      BY <2>4, <3>1, <3>2 DEF StepsWithin
    <3>5. \E r : Iterates(r, m, D, a, step)
      BY <3>4, Recursion
    <3> QED BY <3>1, <3>2, <3>3, <3>5 DEF Iterates
  <2> DEFINE f == [i \in 1 .. n |-> r[i - 1]]
  <2>6. f = Body(f)
    <3>1. ASSUME NEW i \in 1 .. n PROVE f[i] = IF i = 1 THEN s[i] ELSE f[i - 1] \o s[i]
      <4>1. CASE i = 1
        BY <2>5, <4>1
      <4>2. CASE i # 1
        <5>1. i - 1 \in 1 .. n - 1 /\ i - 1 \in 1 .. n /\ (i - 1) + 1 = i /\ (i - 1) - 1 \in 0 .. n - 1
          BY <2>2, <4>2
        <5>2. r[i - 1] = r[(i - 1) - 1] \o s[i]
          BY <2>3, <2>5, <5>1
        <5> QED BY <4>2, <5>1, <5>2
      <4> QED BY <4>1, <4>2
    <3> QED BY <3>1
  <2>7. flatten = Body(flatten)
    <3> HIDE DEF f, Body
    <3> QED BY <2>6
  <2> HIDE DEF flatten, f
  <2>8. flatten[1] = s[1] /\ \A i \in 2 .. n : flatten[i] = flatten[i - 1] \o s[i]
    <3>1. \A i \in 1 .. n : flatten[i] = IF i = 1 THEN s[i] ELSE flatten[i - 1] \o s[i]
      BY <2>7
    <3>2. 1 \in 1 .. n /\ \A i \in 2 .. n : i \in 1 .. n /\ i # 1
      BY <2>2
    <3> QED BY <3>1, <3>2
  <2> DEFINE Holds(i) == /\ flatten[i] \in Seq(T)
                         /\ \A x : x \in ToSet(flatten[i]) <=> \E j \in 1 .. i : x \in ToSet(s[j])
             G == {i \in 0 .. n - 1 : Holds(i + 1)}
  <2>9. 0 \in G
    <3>1. Holds(1)
      BY <2>2, <2>8
    <3>2. 0 + 1 = 1 /\ 0 \in 0 .. n - 1
      BY <2>2
    <3> HIDE DEF Holds
    <3> QED BY <3>1, <3>2
  <2>10. ASSUME NEW i \in 0 .. (n - 1) - 1, i \in G PROVE i + 1 \in G
    <3>1. i \in Nat /\ i + 1 \in 0 .. n - 1 /\ i + 2 \in 2 .. n /\ (i + 2) - 1 = i + 1 /\ (i + 1) + 1 = i + 2
          /\ i + 2 \in 1 .. n
      BY <2>2
    <3>2. Holds(i + 1)
      BY <2>10
    <3>3. s[i + 2] \in Seq(T) /\ flatten[i + 2] = flatten[i + 1] \o s[i + 2]
      BY <1>1, <2>8, <3>1 DEF n
    <3>4. PICK u \in Seq(T) : u = flatten[i + 1]
      BY <3>2
    <3>5. PICK v \in Seq(T) : v = s[i + 2]
      BY <3>3
    <3>6. u \o v \in Seq(T) /\ ToSet(u \o v) = ToSet(u) \cup ToSet(v)
      BY Joined
    <3>7. flatten[i + 2] = u \o v
      BY <3>3, <3>4, <3>5
    <3>8. ASSUME NEW x PROVE x \in ToSet(flatten[i + 2]) <=> \E j \in 1 .. i + 2 : x \in ToSet(s[j])
      <4>1. x \in ToSet(u) <=> \E j \in 1 .. i + 1 : x \in ToSet(s[j])
        BY <3>2, <3>4
      <4>2. \A j : j \in 1 .. i + 2 <=> j \in 1 .. i + 1 \/ j = i + 2
        BY <3>1
      <4> QED BY <3>5, <3>6, <3>7, <4>1, <4>2
    <3>9. Holds(i + 2)
      BY <3>6, <3>7, <3>8
    <3> HIDE DEF Holds
    <3> QED BY <3>1, <3>9
  <2>11. Holds(n)
    <3> HIDE DEF Holds
    <3>1. G = {i \in 0 .. n - 1 : Holds(i + 1)}
      OBVIOUS
    <3> HIDE DEF G
    <3>2. 0 .. n - 1 \subseteq G
      BY <2>2, <2>9, <2>10, UpTo
    <3>3. n - 1 \in 0 .. n - 1 /\ (n - 1) + 1 = n
      BY <2>2
    <3> QED BY <3>1, <3>2, <3>3
  <2> QED BY <2>1, <2>11 DEF n
<1> QED BY <1>2, <1>3

-------------------------------------------------------------------------------
(* Linking: what each reference becomes.                                   *)

(* The program is one of those given, its files in some order. *)
Given == code \in Codes /\ order \in SetToSeqs(DOMAIN code.files)

(* The references of a program are those of its files.                     *)
LEMMA RefsOfCode ==
  ASSUME Given
  PROVE  RefsIn(order) \in Seq(RawRef) /\ References \subseteq RawRef /\ References \subseteq RefsOf(code)
<1> DEFINE m == Len(code.files)
           FileType == [refs : Seq(RawRef), reexports : Seq(Reexport)]
           lists == [i \in DOMAIN order |-> code.files[order[i]].refs]
<1>1. code.files \in Seq(FileType)
  BY CodesAssumption DEF Given
<1>2. m \in Nat /\ DOMAIN code.files = 1 .. m /\ \A i \in 1 .. m : code.files[i] \in FileType
  <2>1. PICK files \in Seq(FileType) : files = code.files
    BY <1>1
  <2>2. Len(files) \in Nat /\ DOMAIN files = 1 .. Len(files) /\ \A i \in 1 .. Len(files) : files[i] \in FileType
    <3> HIDE DEF FileType
    <3> QED OBVIOUS
  <2> QED BY <2>1, <2>2
<1>3. Cardinality(DOMAIN code.files) = m
  <2> HIDE DEF m
  <2>1. Cardinality(1 .. m) = m
    BY <1>2, FS_Interval
  <2> QED BY <1>2, <2>1
<1>4. order \in [1 .. m -> 1 .. m]
  BY <1>2, <1>3 DEF Given, SetToSeqs
<1>5. \A i \in 1 .. m : lists[i] \in Seq(RawRef) /\ lists[i] = code.files[order[i]].refs
  BY <1>2, <1>4
<1>6. DOMAIN lists = 1 .. m
  BY <1>4
<1>7. lists \in Seq(Seq(RawRef)) /\ Len(lists) = m
  <2>1. lists = [i \in 1 .. m |-> lists[i]]
    BY <1>4
  <2> HIDE DEF lists, m
  <2>2. [i \in 1 .. m |-> lists[i]] \in Seq(Seq(RawRef)) /\ Len([i \in 1 .. m |-> lists[i]]) = m
    BY <1>2, <1>5 DEF m
  <2> QED BY <2>1, <2>2
<1>8. RefsIn(order) = FlattenSeq(lists)
  BY DEF RefsIn
<1> HIDE DEF lists
<1>9. /\ FlattenSeq(lists) \in Seq(RawRef)
      /\ \A x : x \in ToSet(FlattenSeq(lists)) <=> \E i \in 1 .. Len(lists) : x \in ToSet(lists[i])
  BY <1>7, FlattenIs
<1>10. ASSUME NEW r \in References PROVE r \in RefsOf(code)
  <2>1. PICK i \in 1 .. m : r \in ToSet(lists[i])
    BY <1>7, <1>8, <1>9 DEF References
  <2>2. order[i] \in DOMAIN code.files /\ r \in ToSet(code.files[order[i]].refs)
    BY <1>2, <1>4, <1>5, <2>1
  <2> QED BY <2>2 DEF RefsOf
<1>11. References \subseteq RawRef
  BY <1>8, <1>9, MembersOfSeq DEF References
<1> QED BY <1>8, <1>9, <1>10, <1>11

(* What one step of resolve_ref finds are nodes. *)
LEMMA MembersAreNodes ==
  ASSUME NEW o, NEW r PROVE Imported(o, r) \subseteq Node
<1>1. \A module, name : Members(module, name) \subseteq Node
  BY DEF Members
<1>2. \A H : UNION {Members(h.module, h.name) : h \in H} \subseteq Node
  BY <1>1
<1>3. ResolveMember(o, r.binding, r.name) \subseteq Node
  BY <1>2 DEF ResolveMember
<1> QED BY <1>3 DEF Imported

(* Of definitions that share a name one is taken.                          *)
LEMMA DefByFqnIsNode ==
  ASSUME NEW n \in Node PROVE DefByFqn(n) \in Node
<1>1. SameFqn(n) \subseteq Node /\ n \in SameFqn(n)
  BY DEF SameFqn
<1>2. SameFqn(n) \in SUBSET Nat /\ SameFqn(n) # {} /\ IsFiniteSet(SameFqn(n))
  BY <1>1, NodesAreNat, FS_Subset
<1>3. Max(SameFqn(n)) \in SameFqn(n)
  BY <1>2, MaxOfNats
<1> QED BY <1>1, <1>3 DEF DefByFqn

(* A reference is found by one of the rules, or left unresolved. *)
LEMMA ResolutionIs ==
  ASSUME NEW o, NEW r \in RawRef
  PROVE  LET found == Resolution(o, r)
         IN  \/ found.rule = "unresolved"
             \/ /\ found.rule \in LinkRules
                /\ found.dsts \in SUBSET Node /\ found.dsts # {}
                /\ found.rule = "scope-ref" => \E n \in Node : found.dsts = {n}
                /\ found.rule = "indirect" => found.dsts = {r.src}
<1> DEFINE steps == Steps(o, r)
           Found == {i \in DOMAIN steps : steps[i].dsts # {}}
<1>1. r.src \in Node /\ r.local \in {0} \cup Node
  BY DEF RawRef
<1>2. DOMAIN steps = 1 .. 7
  BY DEF Steps
<1>3. /\ steps[1] = [rule |-> "scope-ref", dsts |-> Pinned(r)]
      /\ steps[2] = [rule |-> "indirect", dsts |-> Indirect(r)]
      /\ steps[3] = [rule |-> "scope-ref", dsts |-> Lexical(r)]
      /\ steps[4] = [rule |-> "import-ref", dsts |-> Imported(o, r)]
      /\ steps[5] = [rule |-> "name-method", dsts |-> Methods(r)]
      /\ steps[6] = [rule |-> "name-arity", dsts |-> ByNameArity(r)]
      /\ steps[7] = [rule |-> "unresolved", dsts |-> {0}]
  BY DEF Steps
<1>4. Pinned(r) = {} \/ \E n \in Node : Pinned(r) = {n}
  BY <1>1 DEF Pinned
<1>5. Indirect(r) = {} \/ Indirect(r) = {r.src}
  BY DEF Indirect
<1>6. Lexical(r) = {} \/ \E n \in Node : Lexical(r) = {n}
  BY <1>1, DefByFqnIsNode DEF Lexical
<1>7. Imported(o, r) \subseteq Node
  BY MembersAreNodes
<1>8. Methods(r) \subseteq Node
  BY DEF Methods, Routines
<1>9. ByNameArity(r) \subseteq Node
  BY DEF ByNameArity, Callable, Types
<1> HIDE DEF steps
<1>10. Found \in SUBSET Nat /\ Found # {}
  <2>1. 7 \in Found
    BY <1>2, <1>3
  <2> QED BY <1>2, <2>1
<1>11. Min(Found) \in Found
  BY <1>10, MinOfNats
<1>12. PICK i \in 1 .. 7 : steps[i].dsts # {} /\ Resolution(o, r) = steps[i]
  <2>1. Resolution(o, r) = steps[Min(Found)]
    BY DEF Resolution, FirstFound, steps
  <2> QED BY <1>2, <1>11, <2>1
<1>13. i = 1 \/ i = 2 \/ i = 3 \/ i = 4 \/ i = 5 \/ i = 6 \/ i = 7
  BY <1>12
<1>14. \A n \in Node : {n} \in SUBSET Node
  OBVIOUS
<1>15. CASE i = 1 \/ i = 3
  BY <1>3, <1>4, <1>6, <1>12, <1>14, <1>15 DEF LinkRules
<1>16. CASE i = 2
  BY <1>1, <1>3, <1>5, <1>12, <1>14, <1>16 DEF LinkRules
<1>17. CASE i = 4 \/ i = 5 \/ i = 6
  BY <1>3, <1>7, <1>8, <1>9, <1>12, <1>17 DEF LinkRules
<1>18. CASE i = 7
  BY <1>3, <1>12, <1>18
<1> QED BY <1>13, <1>15, <1>16, <1>17, <1>18

(* e is one of the edges the link pass makes of r.                         *)
OfRef(e, r) ==
  LET found == Resolution(order, r)
  IN  /\ found.rule # "unresolved"
      /\ e.src = r.src /\ e.stmt = r.stmt /\ e.site = r.site /\ e.kind = EdgeKind(r)
      /\ e.cut = r.cut /\ e.arity = r.arity
      /\ e.rule = found.rule /\ e.confidence = ConfidenceOf(found.rule, found.dsts)
      /\ e.dst \in found.dsts
      /\ e.rule = "indirect" => e.group = 0
AsLinked(es) == \A e \in es : \E r \in References : OfRef(e, r)

(* All r resolves to has an edge.                                          *)
Complete(g, r) ==
  Resolution(order, r).rule # "unresolved" =>
    \A d \in Resolution(order, r).dsts : \E e \in ToSet(g.edges) : OfRef(e, r) /\ e.dst = d

(* The edge of a reference has what the reference says.                    *)
LEMMA EdgeIs ==
  ASSUME NEW r \in RawRef, NEW dst \in Node, NEW rule \in LinkRules, NEW confidence \in 0 .. 2,
         NEW group \in Nat, NEW e, e = Edge(r, dst, rule, confidence, group)
  PROVE  /\ e \in EdgeType
         /\ e.src = r.src /\ e.stmt = r.stmt /\ e.site = r.site /\ e.kind = EdgeKind(r)
         /\ e.cut = r.cut /\ e.arity = r.arity /\ e.dst = dst /\ e.rule = rule
         /\ e.confidence = confidence /\ e.group = group
<1>1. /\ r.src \in Node /\ r.stmt \in Nat /\ r.site \in Int /\ r.cut \in SUBSET CutNames
      /\ r.arity \in Nat \cup {NoArity} /\ r.kind \in RefKinds
  BY DEF RawRef, CutNames
<1>2. EdgeKind(r) \in KindNames
  <2>1. /\ Kinds[1] = "calls" /\ Kinds[2] = "calls_virtual" /\ Kinds[3] = "calls_closure"
        /\ Kinds[4] = "calls_callback" /\ Kinds[5] = "calls_async" /\ Kinds[6] = "calls_indirect"
        /\ Kinds[7] = "spawns" /\ Kinds[8] = "instantiate" /\ DOMAIN Kinds = 1 .. 8
    BY DEF Kinds
  <2>2. {"calls", "calls_virtual", "calls_closure", "calls_callback", "calls_async", "spawns",
         "instantiate"} \subseteq KindNames
    BY <2>1 DEF KindNames
  <2> QED BY <1>1, <2>2 DEF EdgeKind, RefKinds
<1>3. rule \in RuleNames
  BY DEF RuleNames
<1>4. dst \in {0} \cup Node
  OBVIOUS
<1>5. e = [src |-> r.src, dst |-> dst, kind |-> EdgeKind(r), site |-> r.site, stmt |-> r.stmt,
           confidence |-> confidence, rule |-> rule, group |-> group, cut |-> r.cut, arity |-> r.arity]
  BY DEF Edge
<1> QED BY <1>1, <1>2, <1>3, <1>4, <1>5 DEF EdgeType

(* Only what scoping finds is certain; an indirect call is a guess.        *)
LEMMA ConfidenceIs ==
  ASSUME NEW rule \in LinkRules, NEW dsts
  PROVE  /\ ConfidenceOf(rule, dsts) \in 0 .. 2
         /\ ConfidenceOf(rule, dsts) = 2 <=> rule = "scope-ref"
         /\ rule = "indirect" => ConfidenceOf(rule, dsts) = 0
<1>1. Band(dsts) \in 0 .. 1
  BY DEF Band
<1> QED BY <1>1 DEF LinkRules, ConfidenceOf

(* A place and a statement number name a reference.                        *)
LEMMA SameReference ==
  ASSUME Given, NEW r \in References, NEW s \in References,
         r.src = s.src, r.stmt = s.stmt, r.site = s.site
  PROVE  r = s
<1>1. r \in RefsOf(code) /\ s \in RefsOf(code)
  BY RefsOfCode
<1> QED BY <1>1, CodesAssumption DEF Given

(* Edges as the link pass makes them are alike and certain where they say. *)
LEMMA LinkedIsSound ==
  ASSUME Given, NEW g \in GraphType, AsLinked(ToSet(g.edges)), GroupsAreOfCalls(ToSet(g.edges), g.rows)
  PROVE  SoundGraph(g) /\ \A e \in ToSet(g.edges) : e.rule \in LinkRules
<1> DEFINE E == ToSet(g.edges)
<1>1. \A e \in E : \E r \in References : OfRef(e, r)
  BY DEF AsLinked
<1>2. \A r \in References : r \in RawRef
  BY RefsOfCode
<1> HIDE DEF E
<1>3. ASSUME NEW e \in E, NEW r \in References, OfRef(e, r)
      PROVE  /\ OfReference(e) /\ e.site > 0 /\ e.rule \in LinkRules
             /\ e.rule = "indirect" => e.dst = e.src /\ e.group = 0 /\ e.confidence = 0
             /\ e.confidence = 2 => \E n \in Node : Resolution(order, r).dsts = {n}
  <2>1. r \in RawRef /\ r.site > 0 /\ r.site = e.site
    BY <1>2, <1>3 DEF RawRef, OfRef
  <2> DEFINE found == Resolution(order, r)
  <2>2. /\ found.rule \in LinkRules /\ found.rule = e.rule
        /\ found.rule = "scope-ref" => \E n \in Node : found.dsts = {n}
        /\ found.rule = "indirect" => found.dsts = {r.src}
    BY <1>3, <2>1, ResolutionIs DEF OfRef
  <2>3. /\ e.confidence = 2 <=> found.rule = "scope-ref"
        /\ found.rule = "indirect" => e.confidence = 0
    BY <1>3, <2>2, ConfidenceIs DEF OfRef
  <2>4. OfReference(e)
    BY <1>3 DEF OfRef, OfReference
  <2> QED BY <1>3, <2>1, <2>2, <2>3, <2>4 DEF OfRef
<1>4. \A e \in E : OfReference(e) /\ e.site > 0 /\ e.rule \in LinkRules
  BY <1>1, <1>3
<1>5. ASSUME NEW e \in E, NEW f \in E, SameCall(e, f), NEW r \in References, OfRef(e, r)
      PROVE  OfRef(f, r)
  <2>1. PICK s \in References : OfRef(f, s)
    BY <1>1
  <2>2. r.src = s.src /\ r.stmt = s.stmt /\ r.site = s.site
    BY <1>5, <2>1 DEF OfRef, SameCall
  <2>3. r = s
    BY <2>2, SameReference
  <2> QED BY <2>1, <2>3
<1>6. CallsAreAlike(E)
  <2>1. \A e \in E : (e.site < 0 <=> e.rule = "scip-dep") /\ e.rule # "scip-dep" /\ e.rule # "cha-trait-set"
    <3>1. "scip-dep" \notin LinkRules /\ "cha-trait-set" \notin LinkRules
      BY DEF LinkRules
    <3>2. ASSUME NEW e \in E PROVE ~(e.site < 0)
      <4>1. PICK r \in References : OfRef(e, r)
        BY <1>1
      <4>2. e.site = r.site /\ r.site \in Nat
        BY <1>2, <4>1 DEF OfRef, RawRef
      <4> QED BY <4>2
    <3> QED BY <1>4, <3>1, <3>2
  <2>2. ASSUME NEW e \in E, e.rule = "indirect" PROVE e.dst = e.src /\ e.group = 0 /\ e.confidence = 0
    BY <1>1, <1>3, <2>2
  <2>3. ASSUME NEW e \in E, NEW f \in E, SameCall(e, f)
        PROVE  e.rule = f.rule /\ e.confidence = f.confidence /\ e.cut = f.cut /\ e.arity = f.arity
    <3>1. PICK r \in References : OfRef(e, r)
      BY <1>1
    <3>2. OfRef(f, r)
      BY <1>5, <2>3, <3>1
    <3> QED BY <3>1, <3>2 DEF OfRef
  <2> QED BY <1>4, <2>1, <2>2, <2>3 DEF CallsAreAlike
<1>7. IsCertain(E)
  <2>1. ASSUME NEW e \in E, e.confidence = 2, NEW f \in E, SameCall(e, f) PROVE e.dst = f.dst
    <3>1. PICK r \in References : OfRef(e, r)
      BY <1>1
    <3>2. OfRef(f, r)
      BY <1>5, <2>1, <3>1
    <3>3. PICK n \in Node : Resolution(order, r).dsts = {n}
      BY <1>3, <2>1, <3>1
    <3> QED BY <3>1, <3>2, <3>3 DEF OfRef
  <2> QED BY <2>1 DEF IsCertain
<1>8. ScopedTogether(E)
  <2>1. "cha-trait-set" \notin LinkRules
    BY DEF LinkRules
  <2> QED BY <1>4, <2>1 DEF ScopedTogether
<1>9. GroupsAreOfCalls(E, g.rows)
  BY DEF E
<1> QED BY <1>4, <1>6, <1>7, <1>8, <1>9 DEF SoundGraph, Sound, E

(* One more reference resolved.                                            *)
LEMMA LinkKeeps ==
  ASSUME Given, NEW g \in GraphType, AsLinked(ToSet(g.edges)), GroupsAreOfCalls(ToSet(g.edges), g.rows),
         NEW r \in References, NEW h, h = Linked(order, g, r)
  PROVE  /\ h \in GraphType /\ AsLinked(ToSet(h.edges)) /\ GroupsAreOfCalls(ToSet(h.edges), h.rows)
         /\ ToSet(g.edges) \subseteq ToSet(h.edges) /\ Complete(h, r)
<1> DEFINE found == Resolution(order, r)
           dsts == found.dsts
           ranked == Ranked(r.src, found.rule, dsts)
           q == GroupFor(g.edges, dsts)
           confidence == ConfidenceOf(found.rule, dsts)
<1>1. r \in RawRef /\ r.src \in Node
  BY RefsOfCode DEF RawRef
<1>2. CASE found.rule = "unresolved"
  <2>1. h = [g EXCEPT !.dangling[r.src] = @ + 1]
    BY <1>2 DEF Linked, WithEdges
  <2>2. PICK dangling \in [Node -> Nat] : dangling = [g.dangling EXCEPT ![r.src] = @ + 1]
    <3>1. PICK d \in [Node -> Nat] : d = g.dangling
      BY GraphParts
    <3>2. [d EXCEPT ![r.src] = @ + 1] \in [Node -> Nat]
      BY <1>1
    <3> QED BY <3>1, <3>2
  <2>3. h = [g EXCEPT !.dangling = dangling]
    BY <2>1, <2>2
  <2>4. h \in GraphType /\ h.edges = g.edges /\ h.rows = g.rows
    BY <2>3 DEF GraphType
  <2>5. Complete(h, r)
    BY <1>2 DEF Complete
  <2> QED BY <2>4, <2>5
<1>3. CASE found.rule # "unresolved"
  <2>1. /\ found.rule \in LinkRules /\ dsts \in SUBSET Node
        /\ found.rule = "indirect" => dsts = {r.src}
    BY <1>1, <1>3, ResolutionIs
  <2>2. confidence \in 0 .. 2
    BY <2>1, ConfidenceIs
  <2>3. h = [g EXCEPT !.edges = g.edges \o [i \in DOMAIN ranked |->
                          Edge(r, ranked[i], found.rule, confidence, q)],
                      !.rows = g.rows \cup RowsFor(q, ranked)]
    BY <1>3 DEF Linked, WithEdges
  <2>4. g.edges \in Seq(EdgeType)
    BY GraphParts
  <2>5. /\ q \in Nat
        /\ q # 0 => \A n \in dsts : \E m \in dsts : m # n
    BY <2>1, <2>4, GroupForIs
  <2>7. PICK D \in SUBSET Node : D = dsts
    BY <2>1
  <2>8. PICK p \in Nat : p = q
    BY <2>5
  <2>10. PICK rule \in LinkRules : rule = found.rule
    BY <2>1
  <2>9. PICK s \in Seq(D) :
          /\ s = ranked
          /\ \A n \in D : \E i \in 1 .. Len(s) : s[i] = n
          /\ \A i, j \in 1 .. Len(s) : s[i] = s[j] => i = j
    <3>1. ranked = Ranked(r.src, rule, D)
      BY <2>7, <2>10
    <3> HIDE DEF ranked, dsts, found
    <3>2. LET s == Ranked(r.src, rule, D)
          IN  /\ s \in Seq(D)
              /\ \A n \in D : \E i \in 1 .. Len(s) : s[i] = n
              /\ \A i, j \in 1 .. Len(s) : s[i] = s[j] => i = j
      BY RankedLists
    <3> QED BY <3>1, <3>2, Zenon
  <2>11. PICK c \in 0 .. 2 : c = confidence
    BY <2>2
  <2> DEFINE f == [n \in D |-> Edge(r, n, rule, c, p)]
  <2>12. ASSUME NEW n \in D
         PROVE  /\ f[n] \in EdgeType /\ f[n].group = p /\ f[n].dst = n /\ OfRef(f[n], r)
                /\ f[n].src = r.src /\ f[n].site = r.site /\ f[n].stmt = r.stmt
    <3>1. PICK e : e = Edge(r, n, rule, c, p)
      OBVIOUS
    <3>2. /\ e \in EdgeType
          /\ e.src = r.src /\ e.stmt = r.stmt /\ e.site = r.site /\ e.kind = EdgeKind(r)
          /\ e.cut = r.cut /\ e.arity = r.arity /\ e.dst = n /\ e.rule = rule
          /\ e.confidence = c /\ e.group = p
      BY <1>1, <3>1, EdgeIs
    <3>3. f[n] = e
      BY <3>1
    <3>4. rule = "indirect" => p = 0
      <4>1. r.src \in {r.src} /\ \A m \in {r.src} : m = r.src
        OBVIOUS
      <4> QED BY <2>1, <2>5, <2>8, <2>10, <4>1
    <3>5. OfRef(e, r)
      BY <1>3, <2>7, <2>10, <2>11, <3>2, <3>4 DEF OfRef
    <3> HIDE DEF f
    <3> QED BY <3>2, <3>3, <3>5
  <2>13. PICK new : new = [i \in DOMAIN s |-> f[s[i]]]
    OBVIOUS
  <2>14. new = [i \in DOMAIN ranked |-> Edge(r, ranked[i], found.rule, confidence, q)]
    <3>1. \A i \in DOMAIN s : s[i] \in D
      BY <2>9
    <3> HIDE DEF ranked, found, dsts, q, confidence
    <3> QED BY <2>8, <2>9, <2>10, <2>11, <2>13, <3>1
  <2>15. h = [g EXCEPT !.edges = g.edges \o new, !.rows = g.rows \cup RowsFor(p, s)]
    BY <2>3, <2>8, <2>9, <2>14
  <2>16. /\ \A n \in D : \E i \in 1 .. Len(s) : s[i] = n
         /\ \A i, j \in 1 .. Len(s) : s[i] = s[j] => i = j
    BY <2>9
  <2>17. p = GroupFor(g.edges, D)
    BY <2>7, <2>8
  <2> HIDE DEF f, found, dsts, q, confidence, ranked
  <2>18. \A n \in D : f[n] \in EdgeType
    BY <2>12
  <2>19. Added(g, h, D, p, f)
    BY <2>13, <2>15, <2>16, <2>18, EdgesAdded
  <2>20. OfOneCall(D, p, f)
    BY <2>12 DEF SameCall, OfOneCall
  <2>21. GroupsAreOfCalls(ToSet(h.edges), h.rows)
    BY <2>17, <2>19, <2>20, AddedKeepsGroups
  <2>22. AsLinked(ToSet(h.edges))
    BY <2>12, <2>19 DEF Added, AsLinked
  <2>23. Complete(h, r)
    <3>1. \A d \in D : f[d] \in ToSet(h.edges) /\ OfRef(f[d], r) /\ f[d].dst = d
      BY <2>12, <2>19 DEF Added
    <3>2. Resolution(order, r).dsts = D
      BY <2>7 DEF dsts, found
    <3> QED BY <3>1, <3>2 DEF Complete
  <2> QED BY <2>19, <2>21, <2>22, <2>23 DEF Added
<1> QED BY <1>2, <1>3

-------------------------------------------------------------------------------
(* Replacing calls at their sites, as CHA and signatures do.               *)

(* What a pass replaces calls by: for a site, the first call there.        *)
Replacing(R, rule) ==
  /\ rule \in {"cha-trait-set", "sig-compat"}
  /\ \A s \in DOMAIN R :
       /\ R[s].proto \in EdgeType /\ s = <<R[s].proto.src, R[s].proto.site>>
       /\ R[s].dsts \in SUBSET Node /\ R[s].dsts # {}
       /\ R[s].confidence \in 0 .. 1

CutOf(r) == r.proto.cut \cup (IF Cardinality(r.dsts) > SupernodeCap THEN {"unresolved"} ELSE {})
Replacement(e, r, rule) ==
  /\ e.src = r.proto.src /\ e.site = r.proto.site /\ e.stmt = r.proto.stmt
  /\ e.kind = r.proto.kind /\ e.arity = r.proto.arity /\ e.cut = CutOf(r)
  /\ e.rule = rule /\ e.confidence = r.confidence /\ e.dst \in r.dsts
ReplacementTo(p, rule, c, q, cut, n) ==
  [p EXCEPT !.dst = n, !.rule = rule, !.confidence = c, !.group = q, !.cut = cut]

(* A replacement differs from the edge it replaces where CHA and           *)
(* signatures say.                                                         *)
LEMMA ReplacementIs ==
  ASSUME NEW p \in EdgeType, NEW rule \in RuleNames, NEW c \in 0 .. 2, NEW q \in Nat,
         NEW cut \in SUBSET CutNames, NEW n \in Node, NEW e, e = ReplacementTo(p, rule, c, q, cut, n)
  PROVE  /\ e \in EdgeType
         /\ e.src = p.src /\ e.site = p.site /\ e.stmt = p.stmt /\ e.kind = p.kind
         /\ e.arity = p.arity /\ e.cut = cut /\ e.rule = rule /\ e.confidence = c
         /\ e.dst = n /\ e.group = q
BY DEF ReplacementTo, EdgeType

(* h is g with a replacement for one site, in a group of its own.          *)
ExtendedBy(g, h, r, rule, q) ==
  /\ h \in GraphType /\ GroupsAreOfCalls(ToSet(h.edges), h.rows)
  /\ q \in Nat /\ q \notin Groups(g.edges)
  /\ \A e \in ToSet(g.edges) : e \in ToSet(h.edges)
  /\ \A e \in ToSet(h.edges) : e \in ToSet(g.edges) \/ (Replacement(e, r, rule) /\ e.group = q)
  /\ \A n \in r.dsts : \E e \in ToSet(h.edges) : Replacement(e, r, rule) /\ e.dst = n

(* Replacing one call adds its edges, in a group that no other edge has.   *)
LEMMA ReplacedKeeps ==
  ASSUME NEW g \in GraphType, GroupsAreOfCalls(ToSet(g.edges), g.rows),
         NEW rule \in RuleNames, NEW r, r.proto \in EdgeType, r.dsts \in SUBSET Node,
         r.confidence \in 0 .. 1, NEW h, h = Replaced(g, rule, r)
  PROVE  \E q \in Nat : ExtendedBy(g, h, r, rule, q)
<1>1. PICK D \in SUBSET Node : D = r.dsts
  OBVIOUS
<1>2. PICK p \in EdgeType : p = r.proto
  OBVIOUS
<1>3. PICK c \in 0 .. 1 : c = r.confidence
  OBVIOUS
<1>4. PICK cut \in SUBSET CutNames : cut = CutOf(r)
  <2>1. p.cut \in SUBSET CutNames
    BY DEF EdgeType
  <2> QED BY <1>2, <2>1 DEF CutOf, CutNames
<1>5. g.edges \in Seq(EdgeType)
  BY GraphParts
<1>6. PICK q \in Nat : q = GroupFor(g.edges, D) /\ q \notin Groups(g.edges)
  BY <1>5, GroupForIs
<1>7. PICK s \in Seq(D) :
        /\ s = Ranked(p.src, rule, D)
        /\ \A n \in D : \E i \in 1 .. Len(s) : s[i] = n
        /\ \A i, j \in 1 .. Len(s) : s[i] = s[j] => i = j
  <2>1. LET s == Ranked(p.src, rule, D)
        IN  /\ s \in Seq(D)
            /\ \A n \in D : \E i \in 1 .. Len(s) : s[i] = n
            /\ \A i, j \in 1 .. Len(s) : s[i] = s[j] => i = j
    BY RankedLists
  <2> QED BY <2>1, Zenon
<1> DEFINE f == [n \in D |-> ReplacementTo(p, rule, c, q, cut, n)]
<1>8. ASSUME NEW n \in D
      PROVE  /\ f[n] \in EdgeType /\ f[n].group = q /\ f[n].dst = n
             /\ Replacement(f[n], r, rule)
             /\ f[n].src = p.src /\ f[n].site = p.site /\ f[n].stmt = p.stmt
  <2>1. PICK e : e = ReplacementTo(p, rule, c, q, cut, n)
    OBVIOUS
  <2>2. c \in 0 .. 2 /\ n \in Node
    OBVIOUS
  <2>3. /\ e \in EdgeType
        /\ e.src = p.src /\ e.site = p.site /\ e.stmt = p.stmt /\ e.kind = p.kind
        /\ e.arity = p.arity /\ e.cut = cut /\ e.rule = rule /\ e.confidence = c
        /\ e.dst = n /\ e.group = q
    BY <2>1, <2>2, ReplacementIs
  <2>4. f[n] = e
    BY <2>1
  <2> HIDE DEF f
  <2>5. Replacement(e, r, rule)
    BY <1>1, <1>2, <1>3, <1>4, <2>3 DEF Replacement
  <2> QED BY <2>3, <2>4, <2>5
<1>9. PICK new : new = [i \in DOMAIN s |-> f[s[i]]]
  OBVIOUS
<1>10. h = [g EXCEPT !.edges = g.edges \o new, !.rows = g.rows \cup RowsFor(q, s)]
  <2>1. \A i \in DOMAIN s : s[i] \in D
    BY <1>7
  <2>2. new = [i \in DOMAIN s |-> [p EXCEPT !.dst = s[i], !.rule = rule, !.confidence = c,
                                            !.group = q, !.cut = cut]]
    BY <1>9, <2>1 DEF ReplacementTo
  <2> HIDE DEF f
  <2>3. h = [g EXCEPT
              !.edges = g.edges \o [i \in DOMAIN s |->
                 [p EXCEPT !.dst = s[i], !.rule = rule, !.confidence = c, !.group = q, !.cut = cut]],
              !.rows = g.rows \cup RowsFor(q, s)]
    BY <1>1, <1>2, <1>3, <1>4, <1>6, <1>7 DEF Replaced, CutOf
  <2> QED BY <2>2, <2>3
<1> HIDE DEF f
<1>11. \A n \in D : f[n] \in EdgeType
  BY <1>8
<1>12. /\ \A n \in D : \E i \in 1 .. Len(s) : s[i] = n
       /\ \A i, j \in 1 .. Len(s) : s[i] = s[j] => i = j
  BY <1>7
<1>13. Added(g, h, D, q, f)
  BY <1>9, <1>10, <1>11, <1>12, EdgesAdded
<1>14. OfOneCall(D, q, f)
  BY <1>8 DEF SameCall, OfOneCall
<1>15. q = GroupFor(g.edges, D)
  BY <1>6
<1>16. GroupsAreOfCalls(ToSet(h.edges), h.rows)
  BY <1>13, <1>14, <1>15, AddedKeepsGroups
<1>17. ExtendedBy(g, h, r, rule, q)
  BY <1>1, <1>6, <1>8, <1>13, <1>16 DEF Added, ExtendedBy
<1> QED BY <1>17

(* h is g with the replacements for the sites of K.                        *)
Grown(g, h, R, rule, K) ==
  /\ h \in GraphType /\ GroupsAreOfCalls(ToSet(h.edges), h.rows)
  /\ \A e \in ToSet(g.edges) : e \in ToSet(h.edges)
  /\ \A e \in ToSet(h.edges) :
       e \in ToSet(g.edges) \/ \E s \in K : Replacement(e, R[s], rule) /\ e.group \notin Groups(g.edges)
  /\ \A s \in K : \A n \in R[s].dsts : \E e \in ToSet(h.edges) : Replacement(e, R[s], rule) /\ e.dst = n
  /\ \A e, f \in ToSet(h.edges) :
       e.src = f.src /\ e.site = f.site /\ e \notin ToSet(g.edges) /\ f \notin ToSet(g.edges) =>
         e.group = f.group

(* Replaced site by site, a graph grows by the replacements of the sites   *)
(* so far.                                                                 *)
LEMMA GrowsBySite ==
  ASSUME NEW g \in GraphType, NEW h, NEW k, NEW rule, NEW R, Replacing(R, rule),
         NEW K \in SUBSET DOMAIN R, NEW s \in DOMAIN R, s \notin K, NEW q,
         Grown(g, h, R, rule, K), ExtendedBy(h, k, R[s], rule, q)
  PROVE  Grown(g, k, R, rule, K \cup {s})
<1> DEFINE E == ToSet(g.edges)
           F == ToSet(h.edges)
           L == ToSet(k.edges)
<1>1. /\ \A n : n \in Groups(g.edges) <=> n # 0 /\ \E e \in E : e.group = n
      /\ \A n : n \in Groups(h.edges) <=> n # 0 /\ \E e \in F : e.group = n
  BY GraphParts, GroupsOf DEF Grown
<1>2. /\ \A e \in E : e \in F
      /\ \A e \in F : e \in E \/ \E t \in K : Replacement(e, R[t], rule) /\ e.group \notin Groups(g.edges)
      /\ \A t \in K : \A n \in R[t].dsts : \E e \in F : Replacement(e, R[t], rule) /\ e.dst = n
      /\ \A e, f \in F : e.src = f.src /\ e.site = f.site /\ e \notin E /\ f \notin E => e.group = f.group
  BY DEF Grown
<1>3. /\ k \in GraphType /\ GroupsAreOfCalls(L, k.rows)
      /\ q \notin Groups(h.edges)
      /\ \A e \in F : e \in L
      /\ \A e \in L : e \in F \/ (Replacement(e, R[s], rule) /\ e.group = q)
      /\ \A n \in R[s].dsts : \E e \in L : Replacement(e, R[s], rule) /\ e.dst = n
  BY DEF ExtendedBy
<1>4. \A t \in DOMAIN R : t = <<R[t].proto.src, R[t].proto.site>>
  BY DEF Replacing
<1> HIDE DEF E, F, L
<1>5. q \notin Groups(g.edges)
  BY <1>1, <1>2, <1>3
<1>6. \A t \in DOMAIN R : \A e : Replacement(e, R[t], rule) => t = <<e.src, e.site>>
  BY <1>4 DEF Replacement
<1>7. ASSUME NEW e \in L
      PROVE  e \in E \/ \E t \in K \cup {s} : Replacement(e, R[t], rule) /\ e.group \notin Groups(g.edges)
  BY <1>2, <1>3, <1>5
<1>8. ASSUME NEW t \in K \cup {s}, NEW n \in R[t].dsts
      PROVE  \E e \in L : Replacement(e, R[t], rule) /\ e.dst = n
  <2>1. CASE t = s
    BY <1>3, <2>1
  <2>2. CASE t \in K
    <3>1. PICK e \in F : Replacement(e, R[t], rule) /\ e.dst = n
      BY <1>2, <2>2
    <3> QED BY <1>3, <3>1
  <2> QED BY <2>1, <2>2
<1>9. ASSUME NEW e \in L, NEW f \in L, e.src = f.src, e.site = f.site, e \notin E, f \notin E
      PROVE  e.group = f.group
  <2>1. ASSUME NEW a \in F, a \notin E, NEW b, Replacement(b, R[s], rule), a.src = b.src, a.site = b.site
        PROVE  FALSE
    <3>1. PICK t \in K : Replacement(a, R[t], rule)
      BY <1>2, <2>1
    <3>2. t = <<a.src, a.site>> /\ s = <<b.src, b.site>>
      BY <1>6, <2>1, <3>1
    <3> QED BY <2>1, <3>1, <3>2
  <2>2. CASE e \in F /\ f \in F
    BY <1>2, <1>9, <2>2
  <2>3. CASE e \in F /\ f \notin F
    <3>1. Replacement(f, R[s], rule)
      BY <1>3, <2>3
    <3> QED BY <1>9, <2>1, <2>3, <3>1
  <2>4. CASE e \notin F /\ f \in F
    <3>1. Replacement(e, R[s], rule) /\ f.src = e.src /\ f.site = e.site
      BY <1>3, <1>9, <2>4
    <3> QED BY <1>9, <2>1, <2>4, <3>1
  <2>5. CASE e \notin F /\ f \notin F
    BY <1>3, <2>5
  <2> QED BY <2>2, <2>3, <2>4, <2>5
<1>10. \A e \in E : e \in L
  BY <1>2, <1>3
<1> QED BY <1>3, <1>7, <1>8, <1>9, <1>10 DEF Grown, E, L

(* Sites in order.                                                         *)
LEMMA SitesInOrder ==
  ASSUME NEW S, IsFiniteSet(S), \A s \in S : \E a \in Int : \E b \in Int : s = <<a, b>>
  PROVE  LET sites == InSiteOrder(S)
         IN  /\ Len(sites) \in Nat
             /\ \A i \in 1 .. Len(sites) : sites[i] \in S
             /\ \A s \in S : \E i \in 1 .. Len(sites) : sites[i] = s
             /\ \A i, j \in 1 .. Len(sites) : sites[i] = sites[j] => i = j
<1> DEFINE less == {p \in S \X S : Precedes(p[1], p[2])}
<1>1. \A s \in S : s \in [1 .. 2 -> Int]
  <2>1. ASSUME NEW a \in Int, NEW b \in Int PROVE <<a, b>> \in [1 .. 2 -> Int]
    OBVIOUS
  <2> QED BY <2>1
<1>2. \A x, y \in S : <<x, y>> \in less <=> Precedes(x, y)
  OBVIOUS
<1>3. IsStrictOrder(S, less)
  <2>1. ASSUME NEW x \in S, NEW y \in S
        PROVE  /\ ~Precedes(x, x)
               /\ x = y \/ Precedes(x, y) \/ Precedes(y, x)
               /\ \A z \in S : Precedes(x, y) /\ Precedes(y, z) => Precedes(x, z)
    <3>1. x \in [1 .. 2 -> Int] /\ y \in [1 .. 2 -> Int]
      BY <1>1
    <3>2. 2 \in Nat
      OBVIOUS
    <3>3. /\ ~Precedes(x, x)
          /\ x = y \/ Precedes(x, y) \/ Precedes(y, x)
          /\ \A u \in [1 .. 2 -> Int] : Precedes(x, y) /\ Precedes(y, u) => Precedes(x, u)
      BY <3>1, <3>2, PrecedesOrders
    <3> QED BY <1>1, <3>3
  <2> HIDE DEF less
  <2> QED BY <1>2, <2>1 DEF IsStrictOrder
<1> HIDE DEF less
<1>4. Lists(InOrder(S, less), S, less)
  BY <1>3, InOrderLists
<1>5. InSiteOrder(S) = InOrder(S, less)
  BY DEF InSiteOrder, less
<1>6. PICK s : s = InOrder(S, less) /\ Lists(s, S, less)
  BY <1>4
<1>7. /\ s \in Seq(S)
      /\ \A x \in S : \E i \in 1 .. Len(s) : s[i] = x
      /\ \A i, j \in 1 .. Len(s) : s[i] = s[j] => i = j
  BY <1>6 DEF Lists
<1>8. Len(s) \in Nat /\ \A i \in 1 .. Len(s) : s[i] \in S
  BY <1>7
<1>9. InSiteOrder(S) = s
  BY <1>5, <1>6
<1> QED BY <1>7, <1>8, <1>9

(* The replacements of a pass, site by site.                               *)
LEMMA ReplacementsGrow ==
  ASSUME NEW g \in GraphType, GroupsAreOfCalls(ToSet(g.edges), g.rows),
         NEW rule, NEW R, Replacing(R, rule), IsFiniteSet(DOMAIN R)
  PROVE  Grown(g, WithReplacements(g, rule, R), R, rule, DOMAIN R)
<1> DEFINE sites == InSiteOrder(DOMAIN R)
           n == Len(sites)
           Body(f) == [k \in 0 .. n |-> IF k = 0 THEN g ELSE Replaced(f[k - 1], rule, R[sites[k]])]
           after == CHOOSE f : f = Body(f)
           D == {x \in GraphType : GroupsAreOfCalls(ToSet(x.edges), x.rows)}
           step == [i \in 1 .. n |-> [x \in D |-> Replaced(x, rule, R[sites[i]])]]
<1>1. WithReplacements(g, rule, R) = after[n]
  BY DEF WithReplacements
<1>2. rule \in RuleNames
  BY DEF Replacing, RuleNames
<1>3. \A s \in DOMAIN R : /\ R[s].proto \in EdgeType /\ s = <<R[s].proto.src, R[s].proto.site>>
                          /\ R[s].dsts \in SUBSET Node /\ R[s].confidence \in 0 .. 1
  BY DEF Replacing
<1>4. /\ n \in Nat
      /\ \A i \in 1 .. n : sites[i] \in DOMAIN R
      /\ \A s \in DOMAIN R : \E i \in 1 .. n : sites[i] = s
      /\ \A i, j \in 1 .. n : sites[i] = sites[j] => i = j
  <2>1. ASSUME NEW s \in DOMAIN R PROVE \E a \in Int : \E b \in Int : s = <<a, b>>
    <3>1. PICK p \in EdgeType : p = R[s].proto /\ s = <<p.src, p.site>>
      BY <1>3
    <3>2. p.src \in Node /\ p.site \in Int
      BY DEF EdgeType
    <3>3. p.src \in Int
      <4>1. \A m \in Node : m \in Nat
        BY NodesAreNat
      <4>2. \A m \in Nat : m \in Int
        OBVIOUS
      <4> QED BY <3>2, <4>1, <4>2, Zenon
    <3> QED BY <3>1, <3>2, <3>3
  <2>2. PICK S : S = DOMAIN R
    OBVIOUS
  <2>3. IsFiniteSet(S) /\ \A s \in S : \E a \in Int : \E b \in Int : s = <<a, b>>
    BY <2>1, <2>2
  <2>4. LET t == InSiteOrder(S)
        IN  /\ Len(t) \in Nat
            /\ \A i \in 1 .. Len(t) : t[i] \in S
            /\ \A s \in S : \E i \in 1 .. Len(t) : t[i] = s
            /\ \A i, j \in 1 .. Len(t) : t[i] = t[j] => i = j
    BY <2>3, SitesInOrder
  <2> QED BY <2>2, <2>4
<1> HIDE DEF sites, n
<1>5. ASSUME NEW x \in D, NEW i \in 1 .. n
      PROVE  \E q \in Nat : ExtendedBy(x, Replaced(x, rule, R[sites[i]]), R[sites[i]], rule, q)
  <2>1. PICK s \in DOMAIN R : s = sites[i]
    BY <1>4
  <2>2. PICK r : r = R[s] /\ r.proto \in EdgeType /\ r.dsts \in SUBSET Node /\ r.confidence \in 0 .. 1
    BY <1>3
  <2>3. PICK h : h = Replaced(x, rule, r)
    OBVIOUS
  <2>4. x \in GraphType /\ GroupsAreOfCalls(ToSet(x.edges), x.rows)
    OBVIOUS
  <2>5. \E q \in Nat : ExtendedBy(x, h, r, rule, q)
    BY <1>2, <2>2, <2>3, <2>4, ReplacedKeeps
  <2> QED BY <2>1, <2>2, <2>3, <2>5
<1>6. \A i \in 1 .. n : \A x \in D : step[i][x] = Replaced(x, rule, R[sites[i]])
  OBVIOUS
<1>7. ASSUME NEW i \in 1 .. n, NEW x \in D PROVE Replaced(x, rule, R[sites[i]]) \in D
  <2>1. PICK h : h = Replaced(x, rule, R[sites[i]])
    OBVIOUS
  <2>2. PICK q \in Nat : ExtendedBy(x, h, R[sites[i]], rule, q)
    BY <1>5, <2>1
  <2>3. h \in GraphType /\ GroupsAreOfCalls(ToSet(h.edges), h.rows)
    BY <2>2 DEF ExtendedBy
  <2> QED BY <2>1, <2>3
<1>8. g \in D
  OBVIOUS
<1>d. \A x \in D : x \in GraphType
  OBVIOUS
<1> HIDE DEF step, D
<1>9. StepsWithin(n, D, step)
  BY <1>6, <1>7 DEF StepsWithin
<1>10. PICK r : Iterates(r, n, D, g, step)
  BY <1>4, <1>8, <1>9, Recursion
<1>11. after = Body(after)
  <2> DEFINE f == [k \in 0 .. n |-> r[k]]
  <2>1. f = Body(f)
    <3>1. ASSUME NEW k \in 0 .. n
          PROVE  f[k] = IF k = 0 THEN g ELSE Replaced(f[k - 1], rule, R[sites[k]])
      <4>1. CASE k = 0
        BY <1>10, <4>1 DEF Iterates
      <4>2. CASE k # 0
        <5>1. k \in 1 .. n /\ k - 1 \in 0 .. n
          BY <1>4, <4>2
        <5>2. r[k] = step[k][r[k - 1]] /\ r[k - 1] \in D
          BY <1>10, <5>1 DEF Iterates
        <5>3. r[k] = Replaced(r[k - 1], rule, R[sites[k]])
          BY <1>6, <5>1, <5>2
        <5> QED BY <4>2, <5>1, <5>3
      <4> QED BY <4>1, <4>2
    <3> QED BY <3>1
  <2> HIDE DEF f, Body
  <2> QED BY <2>1
<1> HIDE DEF after
<1>12. after[0] = g /\ \A k \in 1 .. n : after[k] = Replaced(after[k - 1], rule, R[sites[k]])
  <2>1. \A k \in 0 .. n : after[k] = IF k = 0 THEN g ELSE Replaced(after[k - 1], rule, R[sites[k]])
    BY <1>11
  <2>2. 0 \in 0 .. n /\ \A k \in 1 .. n : k \in 0 .. n /\ k # 0
    BY <1>4
  <2> HIDE DEF Body
  <2> QED BY <2>1, <2>2
<1> HIDE DEF Body
<1> DEFINE Done(k) == {sites[i] : i \in 1 .. k}
           T == {k \in 0 .. n : after[k] \in D /\ Grown(g, after[k], R, rule, Done(k))}
<1>13. 0 \in T
  <2>1. Grown(g, g, R, rule, {})
    <3>1. GroupsAreOfCalls(ToSet(g.edges), g.rows)
      OBVIOUS
    <3> QED BY <3>1 DEF Grown
  <2>2. Done(0) = {}
    OBVIOUS
  <2> HIDE DEF Done
  <2> QED BY <1>4, <1>8, <1>12, <2>1, <2>2
<1>14. ASSUME NEW k \in 0 .. n - 1, k \in T PROVE k + 1 \in T
  <2>1. k + 1 \in 1 .. n /\ (k + 1) - 1 = k /\ k + 1 \in 0 .. n
    BY <1>4
  <2>2. after[k] \in D /\ Grown(g, after[k], R, rule, Done(k))
    BY <1>14
  <2>3. PICK s \in DOMAIN R : s = sites[k + 1]
    BY <1>4, <2>1
  <2>4. after[k + 1] = Replaced(after[k], rule, R[s])
    BY <1>12, <2>1, <2>3
  <2>5. PICK h : h = after[k]
    OBVIOUS
  <2>6. PICK m : m = after[k + 1]
    OBVIOUS
  <2>7. PICK q \in Nat : ExtendedBy(h, m, R[s], rule, q)
    BY <1>5, <2>1, <2>2, <2>3, <2>4, <2>5, <2>6
  <2>8. PICK K \in SUBSET DOMAIN R : K = Done(k)
    <3>1. \A i \in 1 .. k : i \in 1 .. n
      BY <1>4
    <3>2. Done(k) \in SUBSET DOMAIN R
      BY <1>4, <3>1
    <3> HIDE DEF Done
    <3> QED BY <3>2
  <2>9. s \notin K
    <3>1. \A i \in 1 .. k : i \in 1 .. n /\ i # k + 1
      BY <1>4
    <3> QED BY <1>4, <2>1, <2>3, <2>8, <3>1
  <2>10. Done(k + 1) = K \cup {s}
    <3>1. \A i : i \in 1 .. k + 1 <=> i \in 1 .. k \/ i = k + 1
      BY <1>4
    <3>2. \A x : x \in Done(k + 1) <=> x \in Done(k) \/ x = sites[k + 1]
      BY <3>1
    <3> HIDE DEF Done
    <3> QED BY <2>3, <2>8, <3>2
  <2> HIDE DEF Done
  <2>11. Grown(g, h, R, rule, K)
    BY <2>2, <2>5, <2>8
  <2>12. Grown(g, m, R, rule, K \cup {s})
    BY <2>7, <2>9, <2>11, GrowsBySite
  <2>13. m \in D
    BY <1>7, <2>1, <2>2, <2>3, <2>4, <2>6
  <2> QED BY <2>1, <2>6, <2>10, <2>12, <2>13
<1>15. n \in T
  <2> HIDE DEF T
  <2>1. 0 .. n \subseteq T
    BY <1>4, <1>13, <1>14, UpTo
  <2> QED BY <1>4, <2>1
<1>16. Done(n) = DOMAIN R
  <2>1. \A x : x \in Done(n) <=> x \in DOMAIN R
    BY <1>4
  <2> HIDE DEF Done
  <2> QED BY <2>1
<1> HIDE DEF Done
<1> QED BY <1>1, <1>15, <1>16

(* The calls a pass replaces: whole ones.                                  *)
WholeCalls(es, gone) ==
  /\ gone \subseteq es
  /\ \A f \in gone : f.rule \in {"name-method", "indirect"}
  /\ \A e \in es : \A f \in gone : SameCall(e, f) => e \in gone

(* h is g with the calls of gone replaced.                                 *)
Swapped(g, h, R, rule, gone) ==
  /\ \A e \in ToSet(h.edges) :
       (e \in ToSet(g.edges) /\ e \notin gone) \/ \E s \in DOMAIN R : Replacement(e, R[s], rule)
  /\ \A e \in ToSet(g.edges) : e \notin gone => e \in ToSet(h.edges)
  /\ \A s \in DOMAIN R : \E e \in ToSet(h.edges) : Replacement(e, R[s], rule)
  /\ \A s \in DOMAIN R : \A n \in R[s].dsts :
       \E e \in ToSet(h.edges) : Replacement(e, R[s], rule) /\ e.dst = n

(* A graph with whole calls replaced, the old edges and rows gone, is      *)
(* sound.                                                                  *)
LEMMA SwappingKeepsSound ==
  ASSUME NEW g, SoundGraph(g), NEW rule, NEW R, Replacing(R, rule), IsFiniteSet(DOMAIN R),
         NEW gone, WholeCalls(ToSet(g.edges), gone), \A s \in DOMAIN R : R[s].proto \in gone,
         rule = "cha-trait-set" => \A e \in ToSet(g.edges) : e.rule # rule,
         NEW k, k = Cleared(WithReplacements(g, rule, R), gone)
  PROVE  SoundGraph(k) /\ Swapped(g, k, R, rule, gone)
<1>1. PICK h : h = WithReplacements(g, rule, R)
  OBVIOUS
<1>2. g \in GraphType /\ CallsAreAlike(ToSet(g.edges)) /\ IsCertain(ToSet(g.edges))
      /\ GroupsAreOfCalls(ToSet(g.edges), g.rows) /\ ScopedTogether(ToSet(g.edges))
  BY DEF SoundGraph, Sound
<1>3. Grown(g, h, R, rule, DOMAIN R)
  BY <1>1, <1>2, ReplacementsGrow
<1>4. h \in GraphType /\ h.edges \in Seq(EdgeType) /\ h.rows \in SUBSET RowType
  BY <1>3, GraphParts DEF Grown
<1>5. k = [h EXCEPT !.edges = Without(h.edges, gone),
                    !.rows = {c \in h.rows : c.group \notin {e.group : e \in gone} \ {0}}]
  BY <1>1 DEF Cleared
<1>6. Without(h.edges, gone) \in Seq(EdgeType) /\ ToSet(Without(h.edges, gone)) = ToSet(h.edges) \ gone
  BY <1>4, WithoutIs
<1>7. PICK a \in Seq(EdgeType) : a = Without(h.edges, gone) /\ ToSet(a) = ToSet(h.edges) \ gone
  BY <1>6
<1>8. PICK b \in SUBSET RowType : b = {c \in h.rows : c.group \notin {e.group : e \in gone} \ {0}}
  BY <1>4
<1>9. k = [h EXCEPT !.edges = a, !.rows = b]
  BY <1>5, <1>7, <1>8
<1>10. k \in GraphType /\ k.edges = a /\ k.rows = b
  BY <1>4, <1>9 DEF GraphType
<1> DEFINE E == ToSet(g.edges)
           F == ToSet(h.edges)
           L == ToSet(k.edges)
<1>11. \A e : e \in L <=> e \in F /\ e \notin gone
  BY <1>7, <1>10
<1>12. \A c : c \in k.rows <=> c \in h.rows /\ (c.group = 0 \/ \A e \in gone : e.group # c.group)
  BY <1>8, <1>10
<1>13. /\ \A e \in E : e \in F
       /\ \A e \in F : e \in E \/ \E s \in DOMAIN R : Replacement(e, R[s], rule) /\ e.group \notin Groups(g.edges)
       /\ \A s \in DOMAIN R : \A n \in R[s].dsts : \E e \in F : Replacement(e, R[s], rule) /\ e.dst = n
       /\ \A e, f \in F : e.src = f.src /\ e.site = f.site /\ e \notin E /\ f \notin E => e.group = f.group
       /\ GroupsAreOfCalls(F, h.rows)
  BY <1>3 DEF Grown
<1>14. \A n : n \in Groups(g.edges) <=> n # 0 /\ \E e \in E : e.group = n
  BY <1>2, GraphParts, GroupsOf
<1>15. /\ gone \subseteq E
       /\ \A f \in gone : f.rule \in {"name-method", "indirect"}
       /\ \A e \in E : \A f \in gone : SameCall(e, f) => e \in gone
  BY DEF WholeCalls
<1>16. /\ rule \in {"cha-trait-set", "sig-compat"}
       /\ \A s \in DOMAIN R : /\ s = <<R[s].proto.src, R[s].proto.site>>
                              /\ R[s].dsts # {} /\ R[s].confidence \in 0 .. 1
                              /\ R[s].proto \in gone
  BY DEF Replacing
<1>17. CallsAreAlike(E) /\ IsCertain(E) /\ GroupsAreOfCalls(E, g.rows) /\ ScopedTogether(E)
  BY <1>2
<1>18. rule = "cha-trait-set" => \A e \in E : e.rule # rule
  OBVIOUS
<1> HIDE DEF E, F, L
<1>19. ASSUME NEW e, NEW s \in DOMAIN R, Replacement(e, R[s], rule)
       PROVE  e \notin gone /\ e.rule = rule
  BY <1>15, <1>16, <1>19 DEF Replacement
<1>20. ASSUME NEW e \in L, e \notin E
       PROVE  \E s \in DOMAIN R : Replacement(e, R[s], rule) /\ e.group \notin Groups(g.edges)
  BY <1>11, <1>13, <1>20
(* A new edge is not of the call of an old one that stays.                 *)
<1>21. ASSUME NEW e \in L, e \notin E, NEW f \in L, f \in E, SameCall(e, f) \/ SameCall(f, e) PROVE FALSE
  <2>1. PICK s \in DOMAIN R : Replacement(e, R[s], rule)
    BY <1>20, <1>21
  <2>2. SameCall(f, R[s].proto)
    BY <1>21, <2>1 DEF SameCall, Replacement
  <2> QED BY <1>11, <1>15, <1>16, <1>21, <2>2
<1>22. Swapped(g, k, R, rule, gone)
  <2>1. ASSUME NEW e \in L PROVE (e \in E /\ e \notin gone) \/ \E s \in DOMAIN R : Replacement(e, R[s], rule)
    BY <1>11, <1>20
  <2>2. ASSUME NEW e \in E, e \notin gone PROVE e \in L
    BY <1>11, <1>13, <2>2
  <2>3. ASSUME NEW s \in DOMAIN R PROVE \E e \in L : Replacement(e, R[s], rule)
    <3>1. PICK n \in R[s].dsts : TRUE
      BY <1>16
    <3>2. PICK e \in F : Replacement(e, R[s], rule)
      BY <1>13
    <3> QED BY <1>11, <1>19, <3>2
  <2>4. ASSUME NEW s \in DOMAIN R, NEW n \in R[s].dsts
        PROVE  \E e \in L : Replacement(e, R[s], rule) /\ e.dst = n
    <3>1. PICK e \in F : Replacement(e, R[s], rule) /\ e.dst = n
      BY <1>13
    <3> QED BY <1>11, <1>19, <3>1
  <2> QED BY <2>1, <2>2, <2>3, <2>4 DEF Swapped, E, L
<1>23. CallsAreAlike(L)
  <2>1. ASSUME NEW e \in L
        PROVE  /\ OfReference(e)
               /\ e.site < 0 <=> e.rule = "scip-dep"
               /\ e.rule = "scip-dep" => e.confidence = 1 /\ e.group = 0
               /\ e.rule = "indirect" => e.dst = e.src /\ e.group = 0 /\ e.confidence = 0
    <3>1. CASE e \in E
      BY <1>17, <3>1 DEF CallsAreAlike
    <3>2. CASE e \notin E
      <4>1. PICK s \in DOMAIN R : Replacement(e, R[s], rule)
        BY <1>20, <3>2
      <4>2. PICK p \in E : p = R[s].proto /\ p.rule \in {"name-method", "indirect"}
        BY <1>15, <1>16
      <4>3. OfReference(p) /\ ~(p.site < 0)
        BY <1>17, <4>2 DEF CallsAreAlike
      <4>4. e.src = p.src /\ e.site = p.site /\ e.stmt = p.stmt /\ e.kind = p.kind /\ e.rule = rule
        BY <4>1, <4>2 DEF Replacement
      <4>5. OfReference(e)
        BY <4>3, <4>4 DEF OfReference
      <4> QED BY <1>16, <4>3, <4>4, <4>5
    <3> QED BY <3>1, <3>2
  <2>2. ASSUME NEW e \in L, NEW f \in L, SameCall(e, f)
        PROVE  e.rule = f.rule /\ e.confidence = f.confidence /\ e.cut = f.cut /\ e.arity = f.arity
    <3>1. CASE e \in E /\ f \in E
      BY <1>17, <2>2, <3>1 DEF CallsAreAlike
    <3>2. CASE e \notin E /\ f \notin E
      <4>1. PICK s \in DOMAIN R : Replacement(e, R[s], rule)
        BY <1>20, <3>2
      <4>2. PICK t \in DOMAIN R : Replacement(f, R[t], rule)
        BY <1>20, <3>2
      <4>3. s = <<e.src, e.site>> /\ t = <<f.src, f.site>>
        BY <1>16, <4>1, <4>2 DEF Replacement
      <4>4. s = t
        BY <2>2, <4>3 DEF SameCall
      <4> QED BY <4>1, <4>2, <4>4 DEF Replacement
    <3> QED BY <1>21, <2>2, <3>1, <3>2
  <2> QED BY <2>1, <2>2 DEF CallsAreAlike
<1>24. IsCertain(L)
  <2>1. ASSUME NEW e \in L, e.confidence = 2, IsCall(e)
        PROVE  \/ \A f \in L : SameCall(e, f) => e.dst = f.dst
               \/ e.site \in DOMAIN code.scip /\ UnknownToGraph(code.scip[e.site])
    <3>1. e \in E
      <4>1. ASSUME e \notin E PROVE FALSE
        <5>1. PICK s \in DOMAIN R : Replacement(e, R[s], rule)
          BY <1>20, <4>1
        <5>2. e.confidence \in 0 .. 1
          BY <1>16, <5>1 DEF Replacement
        <5> QED BY <2>1, <5>2
      <4> QED BY <4>1
    <3>2. \/ \A f \in E : SameCall(e, f) => e.dst = f.dst
          \/ e.site \in DOMAIN code.scip /\ UnknownToGraph(code.scip[e.site])
      BY <1>17, <2>1, <3>1 DEF IsCertain
    <3>3. \A f \in L : SameCall(e, f) => f \in E
      BY <1>21, <3>1
    <3> QED BY <3>2, <3>3
  <2> QED BY <2>1 DEF IsCertain
<1>25. ScopedTogether(L)
  <2>1. ASSUME NEW e \in L, NEW f \in L, e.rule = "cha-trait-set", f.rule = "cha-trait-set",
               e.src = f.src, e.site = f.site
        PROVE  e.group = f.group
    <3>1. CASE rule = "cha-trait-set"
      <4>1. e \notin E /\ f \notin E
        BY <1>18, <2>1, <3>1
      <4> QED BY <1>11, <1>13, <2>1, <4>1
    <3>2. CASE rule # "cha-trait-set"
      <4>1. e \in E /\ f \in E
        BY <1>19, <1>20, <2>1, <3>2
      <4> QED BY <1>17, <2>1, <4>1 DEF ScopedTogether
    <3> QED BY <3>1, <3>2
  <2> QED BY <2>1 DEF ScopedTogether
(* No edge that stays has the group of one that goes.                      *)
<1>26. ASSUME NEW e \in L, e.group # 0, NEW f \in gone PROVE e.group # f.group
  <2>1. CASE e \in E
    <3>1. e.group = f.group => SameCall(e, f)
      BY <1>15, <1>17, <1>26, <2>1 DEF GroupsAreOfCalls
    <3> QED BY <1>11, <1>15, <2>1, <3>1
  <2>2. CASE e \notin E
    BY <1>14, <1>15, <1>20, <1>26, <2>2
  <2> QED BY <2>1, <2>2
<1>27. GroupsAreOfCalls(L, k.rows)
  <2>1. ASSUME NEW e \in L, NEW f \in L, e.group = f.group, e.group # 0 PROVE SameCall(e, f)
    BY <1>11, <1>13, <2>1 DEF GroupsAreOfCalls
  <2>2. ASSUME NEW e \in L, e.group # 0
        PROVE  /\ \E f \in L : f.group = e.group /\ f.dst # e.dst
               /\ \E c \in k.rows : c.group = e.group /\ c.dst = e.dst
    <3>1. PICK f \in F : f.group = e.group /\ f.dst # e.dst
      BY <1>11, <1>13, <2>2 DEF GroupsAreOfCalls
    <3>2. PICK c \in h.rows : c.group = e.group /\ c.dst = e.dst
      BY <1>11, <1>13, <2>2 DEF GroupsAreOfCalls
    <3>3. f \in L
      BY <1>11, <1>26, <2>2, <3>1
    <3>4. c \in k.rows
      BY <1>12, <1>26, <2>2, <3>2
    <3> QED BY <3>1, <3>2, <3>3, <3>4
  <2>3. ASSUME NEW c \in k.rows PROVE c.group # 0 /\ \E e \in L : e.group = c.group /\ e.dst = c.dst
    <3>1. c \in h.rows /\ c.group # 0
      BY <1>12, <1>13 DEF GroupsAreOfCalls
    <3>2. PICK e \in F : e.group = c.group /\ e.dst = c.dst
      BY <1>13, <3>1 DEF GroupsAreOfCalls
    <3>3. e \in L
      BY <1>11, <1>12, <3>1, <3>2
    <3> QED BY <3>1, <3>2, <3>3
  <2>4. ASSUME NEW c \in k.rows, NEW d \in k.rows, c.group = d.group, c.dst = d.dst PROVE c = d
    BY <1>12, <1>13, <2>4 DEF GroupsAreOfCalls
  <2> QED BY <2>1, <2>2, <2>3, <2>4 DEF GroupsAreOfCalls
<1> QED BY <1>10, <1>22, <1>23, <1>24, <1>25, <1>27 DEF SoundGraph, Sound, L

-------------------------------------------------------------------------------
(* CHA and signatures.                                                     *)

IsSettled(e) == e.rule \in {"scip", "scip-dep"}
AtSiteOf(e, f) == f.src = e.src /\ f.site = e.site

(* h loses no call of g, nor what SCIP settled in it.                      *)
LosesNoCall(g, h) ==
  \A e \in ToSet(g.edges) :
    \/ \E f \in ToSet(h.edges) : AtSiteOf(e, f)
    \/ e.rule = "indirect" /\ Compatible(e.arity) = {}
KeepsSettled(g, h) ==
  /\ \A e \in ToSet(h.edges) : IsSettled(e) => \E f \in ToSet(g.edges) : Alike(e, f)
  /\ \A e \in ToSet(g.edges) : IsSettled(e) => \E f \in ToSet(h.edges) : Alike(f, e)
Sharpens(g, h) == LosesNoCall(g, h) /\ KeepsSettled(g, h)

(* The canonical form of a sound graph is sound and has the same calls.    *)
LEMMA CanonicalKeepsSound ==
  ASSUME NEW g, SoundGraph(g), NEW h, h = Canonical(g)
  PROVE  /\ SoundGraph(h)
         /\ \A e \in ToSet(h.edges) : \E f \in ToSet(g.edges) : Alike(e, f)
         /\ \A f \in ToSet(g.edges) : \E e \in ToSet(h.edges) : Alike(e, f)
         /\ \E n \in Nat : Groups(h.edges) = 1 .. n
<1>1. g \in GraphType /\ RowsAreOfGroups(g)
  BY SoundRows
<1>2. /\ h \in GraphType
      /\ \E number : RenumberedBy(g, h, number)
      /\ \E n \in Nat : Groups(h.edges) = 1 .. n
  BY <1>1, CanonicalRenumbers
<1>3. PICK number : RenumberedBy(g, h, number)
  BY <1>2
<1>4. SoundGraph(h)
  BY <1>2, <1>3, RenumberingKeepsSound
<1>5. ASSUME NEW a \in GraphType, NEW b \in GraphType, RenumberedBy(a, b, number)
      PROVE  /\ \A e \in ToSet(b.edges) : \E f \in ToSet(a.edges) : Alike(e, f)
             /\ \A f \in ToSet(a.edges) : \E e \in ToSet(b.edges) : Alike(e, f)
  BY <1>5, RenumberedAlike
<1> QED BY <1>1, <1>2, <1>3, <1>4, <1>5

(* Putting the edges in canonical order loses no call.                     *)
LEMMA CanonicalSharpens ==
  ASSUME NEW g, NEW k, SoundGraph(k), Sharpens(g, k), NEW h, h = Canonical(k)
  PROVE  Sharpens(g, h)
<1>1. /\ \A e \in ToSet(h.edges) : \E f \in ToSet(k.edges) : Alike(e, f)
      /\ \A f \in ToSet(k.edges) : \E e \in ToSet(h.edges) : Alike(e, f)
  BY CanonicalKeepsSound
<1> DEFINE E == ToSet(g.edges)
           F == ToSet(k.edges)
           L == ToSet(h.edges)
<1>2. /\ \A e \in E : (\E f \in F : AtSiteOf(e, f)) \/ (e.rule = "indirect" /\ Compatible(e.arity) = {})
      /\ \A e \in F : IsSettled(e) => \E f \in E : Alike(e, f)
      /\ \A e \in E : IsSettled(e) => \E f \in F : Alike(f, e)
  BY DEF Sharpens, LosesNoCall, KeepsSettled
<1> HIDE DEF E, F, L
<1>3. /\ \A e \in L : \E f \in F : Alike(e, f)
      /\ \A f \in F : \E e \in L : Alike(e, f)
  BY <1>1 DEF F, L
<1>4. \A a, b, c : Alike(a, b) /\ Alike(b, c) => Alike(a, c)
  BY DEF Alike
<1>5. \A a, b : Alike(a, b) => (IsSettled(a) <=> IsSettled(b))
  BY DEF Alike, IsSettled
<1>6. \A e, a, b : AtSiteOf(e, a) /\ Alike(b, a) => AtSiteOf(e, b)
  BY DEF Alike, AtSiteOf
<1>7. LosesNoCall(g, h)
  BY <1>2, <1>3, <1>6 DEF LosesNoCall, E, L
<1>8. KeepsSettled(g, h)
  <2>1. ASSUME NEW e \in L, IsSettled(e) PROVE \E f \in E : Alike(e, f)
    <3>1. PICK f \in F : Alike(e, f)
      BY <1>3
    <3>2. PICK a \in E : Alike(f, a)
      BY <1>2, <1>5, <2>1, <3>1
    <3> QED BY <1>4, <3>1, <3>2
  <2>2. ASSUME NEW e \in E, IsSettled(e) PROVE \E f \in L : Alike(f, e)
    <3>1. PICK f \in F : Alike(f, e)
      BY <1>2, <2>2
    <3>2. PICK a \in L : Alike(a, f)
      BY <1>3
    <3> QED BY <1>4, <3>1, <3>2
  <2> QED BY <2>1, <2>2 DEF KeepsSettled, E, L
<1> QED BY <1>7, <1>8 DEF Sharpens

(* Finitely many edges are of finitely many sites.                         *)
LEMMA SitesFinite ==
  ASSUME NEW es, IsFiniteSet(es) PROVE IsFiniteSet(SitesOf(es))
<1> DEFINE f == [e \in es |-> <<e.src, e.site>>]
<1>1. SitesOf(es) = {f[e] : e \in es}
  BY DEF SitesOf
<1> HIDE DEF f
<1>2. PICK T : T = SitesOf(es) /\ T = {f[e] : e \in es}
  BY <1>1
<1> QED BY <1>2, FiniteImage

(* Traits scope a method to nodes.                                         *)
LEMMA TraitScopedAreNodes == \A name : TraitScoped(name) \subseteq Node
<1>1. \A t, name : MethodOf(t, name) \subseteq Node
  BY DEF MethodOf, Routines
<1>2. \A t, tr, name : Implementation(t, tr, name) \subseteq Node
  BY <1>1 DEF Implementation
<1> QED BY <1>2 DEF TraitScoped

(* Edges of one call have one kind.                                        *)
LEMMA OneKind ==
  ASSUME Given, NEW es, CallsAreAlike(es), NEW e \in es, NEW f \in es, SameCall(e, f)
  PROVE  e.kind = f.kind
<1>1. PICK r \in References : e.src = r.src /\ e.stmt = r.stmt /\ e.kind = EdgeKind(r) /\ e.site \in {r.site, -r.site}
  BY DEF CallsAreAlike, OfReference
<1>2. PICK s \in References : f.src = s.src /\ f.stmt = s.stmt /\ f.kind = EdgeKind(s) /\ f.site \in {s.site, -s.site}
  BY DEF CallsAreAlike, OfReference
<1>3. r \in RawRef /\ s \in RawRef
  BY RefsOfCode
<1>4. r.site \in Nat \ {0} /\ s.site \in Nat \ {0}
  BY <1>3 DEF RawRef
<1>5. r.src = s.src /\ r.stmt = s.stmt /\ r.site = s.site
  <2>1. PICK a \in Nat \ {0} : a = r.site
    BY <1>4
  <2>2. PICK b \in Nat \ {0} : b = s.site
    BY <1>4
  <2>3. PICK c : c = e.site /\ c = f.site
    BY DEF SameCall
  <2>4. c \in {a, -a} /\ c \in {b, -b}
    BY <1>1, <1>2, <2>1, <2>2, <2>3
  <2>5. a = b
    BY <2>4
  <2> QED BY <1>1, <1>2, <2>1, <2>2, <2>5 DEF SameCall
<1>6. r = s
  BY <1>5, SameReference
<1> QED BY <1>1, <1>2, <1>6

(* Calls by name are replaced by calls of what the traits scope the first  *)
(* of their site to, if that is anything; all else stays.                  *)
ScopesCalls(g, h) ==
  /\ \A e \in ToSet(g.edges) : ~ByName(e) => \E f \in ToSet(h.edges) : Alike(f, e)
  /\ \A e \in ToSet(g.edges) : ByName(e) =>
       \E p \in ToSet(g.edges) :
         /\ ByName(p) /\ AtSiteOf(e, p)
         /\ \A n \in TraitScoped(Symbols[p.dst].name) :
              \E f \in ToSet(h.edges) :
                AtSiteOf(e, f) /\ f.dst = n /\ f.kind = "calls_virtual" /\ f.rule = "cha-trait-set"

(* Putting the edges in canonical order leaves what CHA scoped.            *)
LEMMA CanonicalScopes ==
  ASSUME NEW g, NEW k, SoundGraph(k), ScopesCalls(g, k), NEW h, h = Canonical(k)
  PROVE  ScopesCalls(g, h)
<1>1. \A f \in ToSet(k.edges) : \E e \in ToSet(h.edges) : Alike(e, f)
  BY CanonicalKeepsSound
<1>2. \A e, f, a : Alike(a, f) =>
        /\ Alike(f, e) => Alike(a, e)
        /\ AtSiteOf(e, f) => AtSiteOf(e, a)
        /\ a.dst = f.dst /\ a.kind = f.kind /\ a.rule = f.rule
  BY DEF Alike, AtSiteOf
<1>3. ASSUME NEW e \in ToSet(g.edges), ~ByName(e) PROVE \E f \in ToSet(h.edges) : Alike(f, e)
  <2>1. PICK f \in ToSet(k.edges) : Alike(f, e)
    BY <1>3 DEF ScopesCalls
  <2>2. PICK a \in ToSet(h.edges) : Alike(a, f)
    BY <1>1
  <2>3. Alike(a, e)
    BY <1>2, <2>1, <2>2
  <2> QED BY <2>2, <2>3
<1>4. ASSUME NEW e \in ToSet(g.edges), ByName(e)
      PROVE  \E p \in ToSet(g.edges) :
               /\ ByName(p) /\ AtSiteOf(e, p)
               /\ \A n \in TraitScoped(Symbols[p.dst].name) :
                    \E f \in ToSet(h.edges) :
                      AtSiteOf(e, f) /\ f.dst = n /\ f.kind = "calls_virtual" /\ f.rule = "cha-trait-set"
  <2>1. PICK p \in ToSet(g.edges) :
          /\ ByName(p) /\ AtSiteOf(e, p)
          /\ \A n \in TraitScoped(Symbols[p.dst].name) :
               \E f \in ToSet(k.edges) :
                 AtSiteOf(e, f) /\ f.dst = n /\ f.kind = "calls_virtual" /\ f.rule = "cha-trait-set"
    BY <1>4 DEF ScopesCalls
  <2>2. ASSUME NEW n \in TraitScoped(Symbols[p.dst].name)
        PROVE  \E f \in ToSet(h.edges) :
                 AtSiteOf(e, f) /\ f.dst = n /\ f.kind = "calls_virtual" /\ f.rule = "cha-trait-set"
    <3>1. PICK f \in ToSet(k.edges) :
            AtSiteOf(e, f) /\ f.dst = n /\ f.kind = "calls_virtual" /\ f.rule = "cha-trait-set"
      BY <2>1
    <3>2. PICK a \in ToSet(h.edges) : Alike(a, f)
      BY <1>1
    <3>3. AtSiteOf(e, a) /\ a.dst = n /\ a.kind = "calls_virtual" /\ a.rule = "cha-trait-set"
      BY <1>2, <3>1, <3>2
    <3> QED BY <3>2, <3>3
  <2> QED BY <2>1, <2>2
<1> QED BY <1>3, <1>4 DEF ScopesCalls

(* CHA leaves a sound graph in canonical form, loses no call, leaves what  *)
(* SCIP settled and scopes calls by name to all the traits have.           *)
LEMMA ChaKeeps ==
  ASSUME Given, SoundGraph(graph), \A e \in ToSet(graph.edges) : e.rule # "cha-trait-set",
         Cha, NEW h, h = graph'
  PROVE  /\ SoundGraph(h) /\ Sharpens(graph, h) /\ ScopesCalls(graph, h)
         /\ h = graph \/ \E k : SoundGraph(k) /\ h = Canonical(k)
<1> DEFINE E == ToSet(graph.edges)
           byName == {e \in E : ByName(e)}
           At(s) == {e \in byName : <<e.src, e.site>> = s}
           Proto(s) == First(graph.edges, At(s))
           Dsts(s) == TraitScoped(Symbols[Proto(s).dst].name)
           sites == {s \in SitesOf(byName) : Dsts(s) # {}}
           gone == {e \in byName : <<e.src, e.site>> \in sites}
           rescoped == [s \in sites |-> [proto |-> Proto(s), dsts |-> Dsts(s), confidence |-> Band(Dsts(s))]]
<1>1. h = IF sites = {} THEN graph
          ELSE Canonical(Cleared(WithReplacements(graph, "cha-trait-set", rescoped), gone))
  BY DEF Cha
<1>2. graph \in GraphType /\ graph.edges \in Seq(EdgeType) /\ CallsAreAlike(E)
  BY GraphParts DEF SoundGraph, Sound
<1>3. IsFiniteSet(E) /\ E \subseteq EdgeType
  BY <1>2, MembersOfSeq
<1>4. CASE sites = {}
  <2>1. h = graph
    BY <1>1, <1>4
  <2>2. Sharpens(graph, graph)
    BY DEF Sharpens, LosesNoCall, KeepsSettled, Alike, AtSiteOf
  <2>3. ASSUME NEW e \in ToSet(graph.edges), ByName(e)
        PROVE  \E p \in ToSet(graph.edges) :
                 ByName(p) /\ AtSiteOf(e, p) /\ TraitScoped(Symbols[p.dst].name) = {}
    <3>1. PICK s : s = <<e.src, e.site>>
      OBVIOUS
    <3>2. s \in SitesOf(byName) /\ e \in At(s)
      BY <2>3, <3>1 DEF SitesOf
    <3>3. At(s) # {} /\ At(s) \subseteq ToSet(graph.edges)
      BY <3>2
    <3>4. Dsts(s) = {}
      BY <1>4, <3>2
    <3>5. \A p \in At(s) : ByName(p) /\ p \in ToSet(graph.edges) /\ <<p.src, p.site>> = s
      OBVIOUS
    <3> HIDE DEF At
    <3>6. PICK es : es = At(s)
      OBVIOUS
    <3>7. First(graph.edges, es) \in es
      BY <1>2, <3>3, <3>6, FirstIs
    <3>8. Proto(s) \in At(s)
      BY <3>6, <3>7
    <3>9. PICK p : p = Proto(s)
      OBVIOUS
    <3>10. TraitScoped(Symbols[p.dst].name) = {}
      BY <3>4, <3>9
    <3> HIDE DEF Proto
    <3> QED BY <3>1, <3>5, <3>8, <3>9, <3>10 DEF AtSiteOf
  <2>4. ScopesCalls(graph, graph)
    <3>1. \A e : Alike(e, e)
      BY DEF Alike
    <3> QED BY <2>3, <3>1 DEF ScopesCalls
  <2> QED BY <2>1, <2>2, <2>4
<1>5. CASE sites # {}
  <2>1. ASSUME NEW s \in SitesOf(byName) PROVE Proto(s) \in byName /\ s = <<Proto(s).src, Proto(s).site>>
    <3>1. At(s) # {} /\ At(s) \subseteq ToSet(graph.edges)
      BY DEF SitesOf
    <3> HIDE DEF At
    <3>2. PICK es : es = At(s)
      OBVIOUS
    <3>3. First(graph.edges, es) \in es
      BY <1>2, <3>1, <3>2, FirstIs
    <3>4. Proto(s) \in At(s)
      BY <3>2, <3>3
    <3> HIDE DEF Proto
    <3> QED BY <3>4 DEF At
  <2>2. ASSUME NEW s \in SitesOf(byName) PROVE Dsts(s) \in SUBSET Node
    BY TraitScopedAreNodes
  <2>3. \A D : Band(D) \in 0 .. 1
    BY DEF Band
  <2>4. DOMAIN rescoped = sites /\ sites \subseteq SitesOf(byName)
    OBVIOUS
  <2>5. ASSUME NEW s \in sites
        PROVE  /\ rescoped[s].proto = Proto(s) /\ rescoped[s].dsts = Dsts(s)
               /\ rescoped[s].confidence \in 0 .. 1 /\ rescoped[s].dsts # {}
    <3> HIDE DEF Proto, Dsts
    <3>1. rescoped[s] = [proto |-> Proto(s), dsts |-> Dsts(s), confidence |-> Band(Dsts(s))]
      OBVIOUS
    <3>2. Dsts(s) # {}
      OBVIOUS
    <3> HIDE DEF rescoped
    <3> QED BY <2>3, <3>1, <3>2
  <2>5a. \A s : Dsts(s) = TraitScoped(Symbols[Proto(s).dst].name)
    OBVIOUS
  <2>5b. /\ \A s \in SitesOf(byName) : Dsts(s) # {} => s \in sites
         /\ \A e \in byName : <<e.src, e.site>> \in SitesOf(byName)
    BY DEF SitesOf
  <2> HIDE DEF Proto, Dsts, At
  <2>6. IsFiniteSet(sites)
    <3>1. IsFiniteSet(byName)
      BY <1>3, FS_Subset
    <3>2. IsFiniteSet(SitesOf(byName))
      BY <3>1, SitesFinite
    <3> QED BY <2>4, <3>2, FS_Subset
  <2>7. byName \subseteq E /\ \A e \in byName : e.rule = "name-method" /\ e.kind = "calls_virtual" /\ e \in EdgeType
    BY <1>3 DEF ByName
  <2>8. \A e \in gone : e \in byName /\ <<e.src, e.site>> \in sites
    OBVIOUS
  <2>9. \A e \in byName : <<e.src, e.site>> \in sites => e \in gone
    OBVIOUS
  <2>10. \A s \in sites : Proto(s) \in gone
    BY <2>1, <2>4, <2>9
  <2> HIDE DEF sites, rescoped, gone
  <2>11. PICK R : R = rescoped
    OBVIOUS
  <2>12. Replacing(R, "cha-trait-set") /\ IsFiniteSet(DOMAIN R) /\ \A s \in DOMAIN R : R[s].proto \in gone
    <3>1. ASSUME NEW s \in sites
          PROVE  /\ R[s].proto \in EdgeType /\ s = <<R[s].proto.src, R[s].proto.site>>
                 /\ R[s].dsts \in SUBSET Node /\ R[s].dsts # {} /\ R[s].confidence \in 0 .. 1
                 /\ R[s].proto \in gone
      <4>1. R[s].proto = Proto(s) /\ R[s].dsts = Dsts(s) /\ R[s].confidence \in 0 .. 1 /\ R[s].dsts # {}
        BY <2>5, <2>11
      <4>2. Proto(s) \in byName /\ s = <<Proto(s).src, Proto(s).site>> /\ Dsts(s) \in SUBSET Node
        BY <2>1, <2>2, <2>4
      <4> QED BY <2>7, <2>10, <4>1, <4>2
    <3>2. DOMAIN R = sites
      BY <2>4, <2>11
    <3> QED BY <2>6, <3>1, <3>2 DEF Replacing
  <2>13. WholeCalls(E, gone)
    <3>1. gone \subseteq E /\ \A f \in gone : f.rule \in {"name-method", "indirect"}
      BY <2>7, <2>8
    <3>2. ASSUME NEW e \in E, NEW f \in gone, SameCall(e, f) PROVE e \in gone
      <4>1. f \in E /\ f.rule = "name-method" /\ f.kind = "calls_virtual" /\ <<f.src, f.site>> \in sites
        BY <2>7, <2>8
      <4>2. e.rule = f.rule
        BY <1>2, <3>2, <4>1 DEF CallsAreAlike
      <4>3. e.kind = f.kind
        BY <1>2, <3>2, <4>1, OneKind
      <4>4. e \in byName
        BY <4>1, <4>2, <4>3 DEF ByName
      <4>5. e.src = f.src /\ e.site = f.site
        BY <3>2 DEF SameCall
      <4> QED BY <2>9, <4>1, <4>4, <4>5
    <3> QED BY <3>1, <3>2 DEF WholeCalls
  <2>14. PICK k : k = Cleared(WithReplacements(graph, "cha-trait-set", R), gone)
    OBVIOUS
  <2>15. \A e \in ToSet(graph.edges) : e.rule # "cha-trait-set"
    OBVIOUS
  <2>16. PICK rule : rule = "cha-trait-set"
    OBVIOUS
  <2>17. SoundGraph(k) /\ Swapped(graph, k, R, rule, gone)
    <3>1. Replacing(R, rule) /\ k = Cleared(WithReplacements(graph, rule, R), gone)
      BY <2>12, <2>14, <2>16
    <3>2. rule = "cha-trait-set" => \A e \in ToSet(graph.edges) : e.rule # rule
      BY <2>15
    <3>3. WholeCalls(ToSet(graph.edges), gone)
      BY <2>13
    <3>4. \A s \in DOMAIN R : R[s].proto \in gone
      BY <2>12
    <3>5. IsFiniteSet(DOMAIN R)
      BY <2>12
    <3> HIDE DEF E
    <3> QED BY <3>1, <3>2, <3>3, <3>4, <3>5, SwappingKeepsSound
  <2>18. h = Canonical(k)
    BY <1>1, <1>5, <2>11, <2>14
  <2>19. Sharpens(graph, k)
    <3>1. ASSUME NEW e \in E PROVE \E f \in ToSet(k.edges) : AtSiteOf(e, f)
      <4>1. CASE e \notin gone
        <5>1. e \in ToSet(k.edges)
          BY <2>17, <4>1 DEF Swapped
        <5> QED BY <5>1 DEF AtSiteOf
      <4>2. CASE e \in gone
        <5>1. PICK s \in DOMAIN R : s = <<e.src, e.site>>
          BY <2>4, <2>8, <2>11, <4>2
        <5>2. PICK f \in ToSet(k.edges) : Replacement(f, R[s], rule)
          BY <2>17 DEF Swapped
        <5>3. s = <<R[s].proto.src, R[s].proto.site>>
          BY <2>12 DEF Replacing
        <5> QED BY <5>1, <5>2, <5>3 DEF Replacement, AtSiteOf
      <4> QED BY <4>1, <4>2
    <3>2. ASSUME NEW e \in ToSet(k.edges), IsSettled(e) PROVE e \in E
      <4>1. \A s : Replacement(e, R[s], rule) => e.rule = "cha-trait-set"
        BY <2>16 DEF Replacement
      <4> QED BY <2>17, <3>2, <4>1 DEF Swapped, IsSettled
    <3>3. ASSUME NEW e \in E, IsSettled(e) PROVE e \in ToSet(k.edges)
      <4>1. e \notin gone
        BY <2>7, <2>8, <3>3 DEF IsSettled
      <4> QED BY <2>17, <4>1 DEF Swapped
    <3>4. \A e : Alike(e, e)
      BY DEF Alike
    <3> QED BY <3>1, <3>2, <3>3, <3>4 DEF Sharpens, LosesNoCall, KeepsSettled
  <2>20. ScopesCalls(graph, k)
    <3>1. ASSUME NEW e \in E, ~ByName(e) PROVE \E f \in ToSet(k.edges) : Alike(f, e)
      <4>1. e \notin gone
        BY <2>8, <3>1
      <4>2. e \in ToSet(k.edges)
        BY <2>17, <4>1 DEF Swapped
      <4> QED BY <4>2 DEF Alike
    <3>2. ASSUME NEW e \in E, ByName(e)
          PROVE  \E p \in E :
                   /\ ByName(p) /\ AtSiteOf(e, p)
                   /\ \A n \in TraitScoped(Symbols[p.dst].name) :
                        \E f \in ToSet(k.edges) :
                          AtSiteOf(e, f) /\ f.dst = n /\ f.kind = "calls_virtual" /\ f.rule = "cha-trait-set"
      <4>1. PICK s \in SitesOf(byName) : s = <<e.src, e.site>>
        BY <2>5b, <3>2
      <4>2. PICK p \in byName : p = Proto(s) /\ s = <<p.src, p.site>>
        BY <2>1
      <4>3. ASSUME NEW n \in TraitScoped(Symbols[p.dst].name)
            PROVE  \E f \in ToSet(k.edges) :
                     AtSiteOf(e, f) /\ f.dst = n /\ f.kind = "calls_virtual" /\ f.rule = "cha-trait-set"
        <5>1. n \in Dsts(s)
          BY <2>5a, <4>2, <4>3
        <5>2. s \in sites
          BY <2>5b, <5>1
        <5>3. s \in DOMAIN R /\ R[s].dsts = Dsts(s) /\ R[s].proto = p
          BY <2>4, <2>5, <2>11, <4>2, <5>2
        <5>4. PICK f \in ToSet(k.edges) : Replacement(f, R[s], rule) /\ f.dst = n
          BY <2>17, <5>1, <5>3 DEF Swapped
        <5>5. p.kind = "calls_virtual"
          BY <2>7
        <5>6. f.src = p.src /\ f.site = p.site /\ f.kind = p.kind /\ f.rule = "cha-trait-set"
          BY <2>16, <5>3, <5>4 DEF Replacement
        <5> QED BY <4>1, <4>2, <5>4, <5>5, <5>6 DEF AtSiteOf
      <4>4. p \in E /\ ByName(p) /\ AtSiteOf(e, p)
        BY <4>1, <4>2 DEF AtSiteOf
      <4> QED BY <4>3, <4>4
    <3> QED BY <3>1, <3>2 DEF ScopesCalls
  <2>21. ScopesCalls(graph, h)
    <3>1. PICK g : g = graph
      OBVIOUS
    <3> QED BY <2>17, <2>18, <2>20, <3>1, CanonicalScopes
  <2> QED BY <2>17, <2>18, <2>19, <2>21, CanonicalKeepsSound, CanonicalSharpens
<1> QED BY <1>4, <1>5

(* All calls but those of function values stay.                            *)
KeepsResolved(g, h) ==
  \A e \in ToSet(g.edges) : e.rule # "indirect" => \E f \in ToSet(h.edges) : Alike(f, e)

(* So does the pass over signatures, which touches calls of function       *)
(* values alone.                                                           *)
LEMMA SigKeeps ==
  ASSUME Given, SoundGraph(graph), Sig, NEW h, h = graph'
  PROVE  /\ SoundGraph(h) /\ Sharpens(graph, h) /\ KeepsResolved(graph, h)
         /\ h = graph \/ \E k : SoundGraph(k) /\ h = Canonical(k)
<1> DEFINE E == ToSet(graph.edges)
           places == {e \in E : e.kind \in {"calls_closure", "calls_callback", "calls_indirect"}
                                /\ e.rule = "indirect"}
           At(s) == {e \in places : <<e.src, e.site>> = s}
           Proto(s) == First(graph.edges, At(s))
           Dsts(s) == Compatible(Proto(s).arity)
           gone == {Proto(s) : s \in SitesOf(places)}
           sites == {s \in SitesOf(places) : Dsts(s) # {}}
           resolved == [s \in sites |-> [proto |-> Proto(s), dsts |-> Dsts(s), confidence |-> 0]]
<1>1. h = IF places = {} THEN graph
          ELSE Canonical(Cleared(WithReplacements(graph, "sig-compat", resolved), gone))
  BY DEF Sig
<1>2. graph \in GraphType /\ graph.edges \in Seq(EdgeType) /\ CallsAreAlike(E)
  BY GraphParts DEF SoundGraph, Sound
<1>3. IsFiniteSet(E) /\ E \subseteq EdgeType
  BY <1>2, MembersOfSeq
<1>4. CASE places = {}
  <2>1. h = graph
    BY <1>1, <1>4
  <2>2. Sharpens(graph, graph)
    BY DEF Sharpens, LosesNoCall, KeepsSettled, Alike, AtSiteOf
  <2>3. KeepsResolved(graph, graph)
    BY DEF KeepsResolved, Alike
  <2> QED BY <2>1, <2>2, <2>3
<1>5. CASE places # {}
  <2>1. ASSUME NEW s \in SitesOf(places) PROVE Proto(s) \in places /\ s = <<Proto(s).src, Proto(s).site>>
    <3>1. At(s) # {} /\ At(s) \subseteq ToSet(graph.edges)
      BY DEF SitesOf
    <3> HIDE DEF At
    <3>2. PICK es : es = At(s)
      OBVIOUS
    <3>3. First(graph.edges, es) \in es
      BY <1>2, <3>1, <3>2, FirstIs
    <3>4. Proto(s) \in At(s)
      BY <3>2, <3>3
    <3> HIDE DEF Proto
    <3> QED BY <3>4 DEF At
  <2>2. ASSUME NEW arity PROVE Compatible(arity) \in SUBSET Node
    BY DEF Compatible, FunctionValues
  <2>4. DOMAIN resolved = sites /\ sites \subseteq SitesOf(places)
    OBVIOUS
  <2>5. ASSUME NEW s \in sites
        PROVE  /\ resolved[s].proto = Proto(s) /\ resolved[s].dsts = Dsts(s)
               /\ resolved[s].confidence \in 0 .. 1 /\ resolved[s].dsts # {}
    <3> HIDE DEF Proto, Dsts
    <3>1. resolved[s] = [proto |-> Proto(s), dsts |-> Dsts(s), confidence |-> 0]
      OBVIOUS
    <3>2. Dsts(s) # {}
      OBVIOUS
    <3> HIDE DEF resolved
    <3> QED BY <3>1, <3>2
  <2>6a. \A s : Dsts(s) = Compatible(Proto(s).arity)
    OBVIOUS
  <2> HIDE DEF Proto, Dsts, At
  <2>6. IsFiniteSet(sites)
    <3>1. IsFiniteSet(places)
      BY <1>3, FS_Subset
    <3>2. IsFiniteSet(SitesOf(places))
      BY <3>1, SitesFinite
    <3> QED BY <2>4, <3>2, FS_Subset
  <2>7. /\ places \subseteq E
        /\ \A e \in places : e.rule = "indirect" /\ e \in EdgeType
    BY <1>3
  <2>8. \A e \in gone : \E s \in SitesOf(places) : e = Proto(s)
    OBVIOUS
  <2>9. \A s \in SitesOf(places) : Proto(s) \in gone
    OBVIOUS
  <2>10. \A s \in SitesOf(places) : Dsts(s) # {} => s \in sites
    OBVIOUS
  <2> HIDE DEF sites, resolved, gone, places
  <2>11. PICK R : R = resolved
    OBVIOUS
  <2>12. Replacing(R, "sig-compat") /\ IsFiniteSet(DOMAIN R) /\ \A s \in DOMAIN R : R[s].proto \in gone
    <3>1. ASSUME NEW s \in sites
          PROVE  /\ R[s].proto \in EdgeType /\ s = <<R[s].proto.src, R[s].proto.site>>
                 /\ R[s].dsts \in SUBSET Node /\ R[s].dsts # {} /\ R[s].confidence \in 0 .. 1
                 /\ R[s].proto \in gone
      <4>1. R[s].proto = Proto(s) /\ R[s].dsts = Dsts(s) /\ R[s].confidence \in 0 .. 1 /\ R[s].dsts # {}
        BY <2>5, <2>11
      <4>2. Proto(s) \in places /\ s = <<Proto(s).src, Proto(s).site>> /\ Proto(s) \in gone
        BY <2>1, <2>4, <2>9
      <4>3. Dsts(s) \in SUBSET Node
        BY <2>2, <2>6a
      <4> QED BY <2>7, <4>1, <4>2, <4>3
    <3>2. DOMAIN R = sites
      BY <2>4, <2>11
    <3> QED BY <2>6, <3>1, <3>2 DEF Replacing
  <2>13. WholeCalls(E, gone)
    <3>1. gone \subseteq E /\ \A f \in gone : f.rule = "indirect"
      BY <2>1, <2>7, <2>8
    <3>2. ASSUME NEW e \in E, NEW f \in gone, SameCall(e, f) PROVE e \in gone
      <4>1. f \in E /\ f.rule = "indirect" /\ f \in EdgeType /\ e \in EdgeType
        BY <1>3, <3>1
      <4>2. /\ e.rule = f.rule /\ e.confidence = f.confidence /\ e.cut = f.cut /\ e.arity = f.arity
            /\ f.dst = f.src /\ f.group = 0
        BY <1>2, <3>2, <4>1 DEF CallsAreAlike
      <4>3. e.dst = e.src /\ e.group = 0
        BY <1>2, <4>1, <4>2 DEF CallsAreAlike
      <4>4. e.kind = f.kind
        BY <1>2, <3>2, <4>1, OneKind
      <4>5. e.src = f.src /\ e.site = f.site /\ e.stmt = f.stmt
        BY <3>2 DEF SameCall
      <4>6. Alike(e, f)
        BY <4>2, <4>3, <4>4, <4>5 DEF Alike
      <4>7. e = f
        BY <4>1, <4>2, <4>3, <4>6, EdgesEqual
      <4> QED BY <4>7
    <3>3. WholeCalls(E, gone)
      BY <3>1, <3>2 DEF WholeCalls
    <3> QED BY <3>3
  <2>14. PICK k : k = Cleared(WithReplacements(graph, "sig-compat", R), gone)
    OBVIOUS
  <2>16. PICK rule : rule = "sig-compat"
    OBVIOUS
  <2>17. SoundGraph(k) /\ Swapped(graph, k, R, rule, gone)
    <3>1. Replacing(R, rule) /\ k = Cleared(WithReplacements(graph, rule, R), gone)
      BY <2>12, <2>14, <2>16
    <3>2. rule = "cha-trait-set" => \A e \in ToSet(graph.edges) : e.rule # rule
      BY <2>16
    <3>3. WholeCalls(ToSet(graph.edges), gone)
      BY <2>13
    <3>4. \A s \in DOMAIN R : R[s].proto \in gone
      BY <2>12
    <3>5. IsFiniteSet(DOMAIN R)
      BY <2>12
    <3> HIDE DEF E
    <3> QED BY <3>1, <3>2, <3>3, <3>4, <3>5, SwappingKeepsSound
  <2>18. h = Canonical(k)
    BY <1>1, <1>5, <2>11, <2>14
  <2>19. Sharpens(graph, k)
    <3>1. ASSUME NEW e \in E
          PROVE  \/ \E f \in ToSet(k.edges) : AtSiteOf(e, f)
                 \/ e.rule = "indirect" /\ Compatible(e.arity) = {}
      <4>1. CASE e \notin gone
        <5>1. e \in ToSet(k.edges)
          BY <2>17, <4>1 DEF Swapped
        <5> QED BY <5>1 DEF AtSiteOf
      <4>2. CASE e \in gone
        <5>1. PICK s \in SitesOf(places) : e = Proto(s) /\ s = <<e.src, e.site>> /\ e.rule = "indirect"
          BY <2>1, <2>7, <2>8, <4>2
        <5>2. CASE Dsts(s) = {}
          BY <2>6a, <5>1, <5>2
        <5>3. CASE Dsts(s) # {}
          <6>1. s \in DOMAIN R
            BY <2>4, <2>10, <2>11, <5>3
          <6>2. PICK f \in ToSet(k.edges) : Replacement(f, R[s], rule)
            BY <2>17, <6>1 DEF Swapped
          <6>3. s = <<R[s].proto.src, R[s].proto.site>>
            BY <2>12, <6>1 DEF Replacing
          <6> QED BY <5>1, <6>2, <6>3 DEF Replacement, AtSiteOf
        <5> QED BY <5>2, <5>3
      <4> QED BY <4>1, <4>2
    <3>2. ASSUME NEW e \in ToSet(k.edges), IsSettled(e) PROVE e \in E
      <4>1. \A s : Replacement(e, R[s], rule) => e.rule = "sig-compat"
        BY <2>16 DEF Replacement
      <4> QED BY <2>17, <3>2, <4>1 DEF Swapped, IsSettled
    <3>3. ASSUME NEW e \in E, IsSettled(e) PROVE e \in ToSet(k.edges)
      <4>1. e \notin gone
        BY <2>1, <2>7, <2>8, <3>3 DEF IsSettled
      <4> QED BY <2>17, <4>1 DEF Swapped
    <3>4. \A e : Alike(e, e)
      BY DEF Alike
    <3> QED BY <3>1, <3>2, <3>3, <3>4 DEF Sharpens, LosesNoCall, KeepsSettled
  <2>20. KeepsResolved(graph, h)
    <3>1. ASSUME NEW e \in ToSet(graph.edges), e.rule # "indirect"
          PROVE  \E f \in ToSet(h.edges) : Alike(f, e)
      <4>1. e \notin gone
        BY <2>1, <2>7, <2>8, <3>1
      <4>2. e \in ToSet(k.edges)
        BY <2>17, <3>1, <4>1 DEF Swapped
      <4>3. \A a \in ToSet(k.edges) : \E f \in ToSet(h.edges) : Alike(f, a)
        BY <2>17, <2>18, CanonicalKeepsSound
      <4> QED BY <4>2, <4>3
    <3> QED BY <3>1 DEF KeepsResolved
  <2> QED BY <2>17, <2>18, <2>19, <2>20, CanonicalKeepsSound, CanonicalSharpens
<1> QED BY <1>4, <1>5

-------------------------------------------------------------------------------
(* Pruning, and RTA.                                                       *)

(* A function applied to the items of a sequence.                          *)
Mapped(s, f) == [i \in DOMAIN s |-> f[s[i]]]
(* A sequence mapped has what its members are mapped to.                   *)
LEMMA MappedIs ==
  ASSUME NEW T, NEW U, NEW s \in Seq(T), NEW f, \A x \in ToSet(s) : f[x] \in U,
         NEW t, t = Mapped(s, f)
  PROVE  /\ t \in Seq(U) /\ Len(t) = Len(s)
         /\ \A y : y \in ToSet(t) <=> \E x \in ToSet(s) : y = f[x]
<1> DEFINE n == Len(s)
<1>1. n \in Nat /\ DOMAIN s = 1 .. n
  OBVIOUS
<1>2. \A x : x \in ToSet(s) <=> \E i \in 1 .. n : s[i] = x
  BY MembersOfSeq
<1> HIDE DEF n
<1>3. \A i \in 1 .. n : f[s[i]] \in U
  BY <1>2
<1>4. t = [i \in 1 .. n |-> f[s[i]]]
  BY <1>1 DEF Mapped
<1>5. t \in Seq(U) /\ Len(t) = n
  BY <1>1, <1>3, <1>4
<1>6. \A y : y \in ToSet(t) <=> \E i \in 1 .. n : t[i] = y
  BY <1>5, MembersOfSeq
<1>7. \A i \in 1 .. n : t[i] = f[s[i]]
  BY <1>4
<1>8. ASSUME NEW y PROVE y \in ToSet(t) <=> \E x \in ToSet(s) : y = f[x]
  <2>1. ASSUME y \in ToSet(t) PROVE \E x \in ToSet(s) : y = f[x]
    <3>1. PICK i \in 1 .. n : t[i] = y
      BY <1>6, <2>1
    <3>2. s[i] \in ToSet(s) /\ y = f[s[i]]
      BY <1>2, <1>7, <3>1
    <3> QED BY <3>2
  <2>2. ASSUME NEW x \in ToSet(s), y = f[x] PROVE y \in ToSet(t)
    <3>1. PICK i \in 1 .. n : s[i] = x
      BY <1>2
    <3> QED BY <1>6, <1>7, <2>2, <3>1
  <2> QED BY <2>1, <2>2
<1> QED BY <1>5, <1>8 DEF n

(* A call loses the targets gone and has those kept; a group that has one  *)
(* left is alone.                                                          *)
Pruning(es, kept, gone, alone) ==
  /\ kept \subseteq es /\ gone \subseteq es
  /\ \A e \in kept : e \notin gone
  /\ \A e \in kept \cup gone : e.rule = "cha-trait-set"
  /\ \A e \in es : \A f \in kept \cup gone : SameCall(e, f) => e \in kept \cup gone
  /\ \A e \in gone : \E f \in kept : AtSiteOf(e, f)
  /\ \A n \in alone : \E e \in kept : e.group = n
  /\ \A e \in kept : e.group \notin alone => \E f \in kept : f # e /\ AtSiteOf(e, f)

(* h is g with gone removed and kept as RTA leaves them.                   *)
Pruned(g, h, kept, gone, alone) ==
  /\ h \in GraphType
  /\ \A a \in ToSet(h.edges) : \E e \in ToSet(g.edges) :
       e \notin gone /\ (IF e \in kept THEN /\ a.confidence = 1 /\ a.rule = "rta-pruned"
                                            /\ a.group = (IF e.group \in alone THEN 0 ELSE e.group)
                                       ELSE a = e)
       /\ a.src = e.src /\ a.dst = e.dst /\ a.kind = e.kind /\ a.site = e.site /\ a.stmt = e.stmt
       /\ a.cut = e.cut /\ a.arity = e.arity
  /\ \A e \in ToSet(g.edges) : e \notin gone =>
       \E a \in ToSet(h.edges) :
         /\ e \notin kept => a = e
         /\ e \in kept => a.group = (IF e.group \in alone THEN 0 ELSE e.group)
         /\ a.src = e.src /\ a.dst = e.dst /\ a.site = e.site
  /\ \A c : c \in h.rows <=>
       c \in g.rows /\ c.group \notin alone /\ \A e \in gone : e.group # c.group \/ e.dst # c.dst

(* A graph stays sound when a call's candidates lose some and keep some,   *)
(* in a group if it keeps several.                                         *)
LEMMA PruningKeepsSound ==
  ASSUME Given, NEW g, SoundGraph(g), NEW kept, NEW gone, NEW alone,
         Pruning(ToSet(g.edges), kept, gone, alone),
         NEW h, Pruned(g, h, kept, gone, alone)
  PROVE  SoundGraph(h) /\ Sharpens(g, h)
<1> DEFINE E == ToSet(g.edges)
           L == ToSet(h.edges)
           From(a, e) ==
             /\ a.src = e.src /\ a.dst = e.dst /\ a.kind = e.kind /\ a.site = e.site
             /\ a.stmt = e.stmt /\ a.cut = e.cut /\ a.arity = e.arity
           Ng(n) == IF n \in alone THEN 0 ELSE n
<1>1. /\ g \in GraphType /\ CallsAreAlike(E) /\ IsCertain(E) /\ GroupsAreOfCalls(E, g.rows)
      /\ ScopedTogether(E)
  BY DEF SoundGraph, Sound
<1>2. E \subseteq EdgeType
  BY <1>1, GraphParts, MembersOfSeq
<1>3. /\ kept \subseteq E /\ gone \subseteq E
      /\ \A e \in kept : e \notin gone
      /\ \A e \in kept \cup gone : e.rule = "cha-trait-set"
      /\ \A e \in E : \A f \in kept \cup gone : SameCall(e, f) => e \in kept \cup gone
      /\ \A e \in gone : \E f \in kept : AtSiteOf(e, f)
      /\ \A n \in alone : \E e \in kept : e.group = n
      /\ \A e \in kept : e.group \notin alone => \E f \in kept : f # e /\ AtSiteOf(e, f)
      BY DEF Pruning
<1>4. \A a \in L : \E e \in E :
        e \notin gone /\ From(a, e) /\
          (IF e \in kept THEN a.confidence = 1 /\ a.rule = "rta-pruned" /\ a.group = Ng(e.group)
                         ELSE a = e)
  BY DEF Pruned
<1>5. \A e \in E : e \notin gone =>
        \E a \in L : /\ e \notin kept => a = e
                     /\ e \in kept => a.group = Ng(e.group)
                     /\ a.src = e.src /\ a.dst = e.dst /\ a.site = e.site
  BY DEF Pruned
<1>6. \A c : c \in h.rows <=>
        c \in g.rows /\ c.group \notin alone /\ \A e \in gone : e.group # c.group \/ e.dst # c.dst
  BY DEF Pruned
<1>7. h \in GraphType
  BY DEF Pruned
<1> HIDE DEF E, L
(* Calls whole.                                                            *)
<1>8. \A e, f \in E : SameCall(e, f) => SameCall(f, e)
  BY DEF SameCall
<1>9. ASSUME NEW e \in E, NEW f \in E, SameCall(e, f), e \notin gone, f \notin gone
      PROVE  e \in kept <=> f \in kept
  BY <1>3, <1>8, <1>9
<1>10. ASSUME NEW e \in E, NEW f \in E, e.group = f.group, e.group # 0 PROVE SameCall(e, f)
  BY <1>1, <1>10 DEF GroupsAreOfCalls
(* Edges of one group that lead to one place are one edge.                 *)
<1>11. ASSUME NEW e \in E, NEW f \in E, SameCall(e, f), e.group = f.group, e.dst = f.dst PROVE e = f
  <2>1. e.rule = f.rule /\ e.confidence = f.confidence /\ e.cut = f.cut /\ e.arity = f.arity
    BY <1>1, <1>11 DEF CallsAreAlike
  <2>2. e.kind = f.kind
    BY <1>1, <1>11, OneKind
  <2>3. Alike(e, f)
    BY <1>11, <2>1, <2>2 DEF SameCall, Alike
  <2> QED BY <1>2, <1>11, <2>3, EdgesEqual
<1>12. ASSUME NEW e \in E, e.group \in alone, e.group # 0, e \notin gone PROVE e \in kept
  <2>1. PICK f \in kept : f.group = e.group
    BY <1>3, <1>12
  <2>2. SameCall(e, f)
    BY <1>3, <1>10, <1>12, <2>1
  <2> QED BY <1>3, <1>12, <2>1, <2>2
<1>13. ASSUME NEW a \in L
       PROVE  \E e \in E : e \notin gone /\ From(a, e) /\ a.group = Ng(e.group)
  <2>1. PICK e \in E : e \notin gone /\ From(a, e) /\
          (IF e \in kept THEN a.confidence = 1 /\ a.rule = "rta-pruned" /\ a.group = Ng(e.group)
                         ELSE a = e)
    BY <1>4
  <2>2. e \notin kept => e.group = Ng(e.group)
    BY <1>12, <2>1
  <2> QED BY <2>1, <2>2
<1>14. ASSUME NEW e \in E, e \notin gone
       PROVE  \E a \in L : a.group = Ng(e.group) /\ a.src = e.src /\ a.dst = e.dst /\ a.site = e.site
  <2>1. e \notin kept => e.group = Ng(e.group)
    BY <1>12, <1>14
  <2> QED BY <1>5, <1>14, <2>1
<1> HIDE DEF From
<1>from. \A a, e : From(a, e) => /\ a.src = e.src /\ a.dst = e.dst /\ a.kind = e.kind /\ a.site = e.site
                                 /\ a.stmt = e.stmt /\ a.cut = e.cut /\ a.arity = e.arity
  BY DEF From
<1>same. \A a, b, e, f : From(a, e) /\ From(b, f) => (SameCall(a, b) <=> SameCall(e, f))
  BY DEF From, SameCall
<1>15. CallsAreAlike(L)
  <2>1. ASSUME NEW a \in L
        PROVE  /\ OfReference(a)
               /\ a.site < 0 <=> a.rule = "scip-dep"
               /\ a.rule = "scip-dep" => a.confidence = 1 /\ a.group = 0
               /\ a.rule = "indirect" => a.dst = a.src /\ a.group = 0 /\ a.confidence = 0
    <3>1. PICK e \in E : e \notin gone /\ From(a, e) /\
            (IF e \in kept THEN a.confidence = 1 /\ a.rule = "rta-pruned" /\ a.group = Ng(e.group)
                           ELSE a = e)
      BY <1>4
    <3>2. /\ OfReference(e)
          /\ e.site < 0 <=> e.rule = "scip-dep"
          /\ e.rule = "scip-dep" => e.confidence = 1 /\ e.group = 0
          /\ e.rule = "indirect" => e.dst = e.src /\ e.group = 0 /\ e.confidence = 0
      BY <1>1 DEF CallsAreAlike
    <3>3. OfReference(a)
      BY <1>from, <3>1, <3>2 DEF OfReference
    <3>4. CASE e \in kept
      BY <1>3, <1>from, <3>1, <3>2, <3>3, <3>4
    <3>5. CASE e \notin kept
      BY <3>1, <3>2, <3>5
    <3> QED BY <3>4, <3>5
  <2>2. ASSUME NEW a \in L, NEW b \in L, SameCall(a, b)
        PROVE  a.rule = b.rule /\ a.confidence = b.confidence /\ a.cut = b.cut /\ a.arity = b.arity
    <3>1. PICK e \in E : e \notin gone /\ From(a, e) /\
            (IF e \in kept THEN a.confidence = 1 /\ a.rule = "rta-pruned" ELSE a = e)
      BY <1>4
    <3>2. PICK f \in E : f \notin gone /\ From(b, f) /\
            (IF f \in kept THEN b.confidence = 1 /\ b.rule = "rta-pruned" ELSE b = f)
      BY <1>4
    <3>3. SameCall(e, f)
      BY <1>same, <2>2, <3>1, <3>2
    <3>4. e.rule = f.rule /\ e.confidence = f.confidence /\ e.cut = f.cut /\ e.arity = f.arity
      BY <1>1, <3>3 DEF CallsAreAlike
    <3>5. e \in kept <=> f \in kept
      BY <1>9, <3>1, <3>2, <3>3
    <3> QED BY <1>from, <3>1, <3>2, <3>4, <3>5
  <2> QED BY <2>1, <2>2 DEF CallsAreAlike
<1>16. IsCertain(L)
  <2>1. ASSUME NEW a \in L, a.confidence = 2, IsCall(a)
        PROVE  \/ \A b \in L : SameCall(a, b) => a.dst = b.dst
               \/ a.site \in DOMAIN code.scip /\ UnknownToGraph(code.scip[a.site])
    <3>1. PICK e \in E : e \notin gone /\ From(a, e) /\ (IF e \in kept THEN a.confidence = 1 ELSE a = e)
      BY <1>4
    <3>2. a = e
      BY <2>1, <3>1
    <3>3. \/ \A f \in E : SameCall(e, f) => e.dst = f.dst
          \/ e.site \in DOMAIN code.scip /\ UnknownToGraph(code.scip[e.site])
      BY <1>1, <2>1, <3>2 DEF IsCertain
    <3>4. ASSUME NEW b \in L, SameCall(a, b) PROVE \E f \in E : SameCall(e, f) /\ f.dst = b.dst
      <4>1. PICK f \in E : From(b, f)
        BY <1>4
      <4> QED BY <1>same, <1>from, <3>1, <3>4, <4>1
    <3> QED BY <3>2, <3>3, <3>4
  <2> QED BY <2>1 DEF IsCertain
<1>17. ScopedTogether(L)
  <2>1. ASSUME NEW a \in L, a.rule = "cha-trait-set" PROVE a \in E
    <3>1. PICK e \in E : IF e \in kept THEN a.rule = "rta-pruned" ELSE a = e
      BY <1>4
    <3> QED BY <2>1, <3>1
  <2> QED BY <1>1, <2>1 DEF ScopedTogether
<1>18. GroupsAreOfCalls(L, h.rows)
  <2>1. ASSUME NEW a \in L, NEW b \in L, a.group = b.group, a.group # 0 PROVE SameCall(a, b)
    <3>1. PICK e \in E : From(a, e) /\ a.group = Ng(e.group)
      BY <1>13
    <3>2. PICK f \in E : From(b, f) /\ b.group = Ng(f.group)
      BY <1>13
    <3>3. e.group = f.group /\ e.group # 0
      BY <2>1, <3>1, <3>2
    <3> QED BY <1>10, <1>same, <3>1, <3>2, <3>3
  <2>2. ASSUME NEW a \in L, a.group # 0
        PROVE  /\ \E b \in L : b.group = a.group /\ b.dst # a.dst
               /\ \E c \in h.rows : c.group = a.group /\ c.dst = a.dst
    <3>1. PICK e \in E : e \notin gone /\ From(a, e) /\ a.group = Ng(e.group)
      BY <1>13
    <3>2. e.group # 0 /\ e.group \notin alone /\ a.group = e.group /\ a.dst = e.dst
      BY <2>2, <3>1, <1>from
    <3>3. \E f \in E : f \notin gone /\ f.group = e.group /\ f.dst # e.dst
      <4>1. CASE e \in kept
        <5>1. PICK f \in kept : f # e /\ AtSiteOf(e, f)
          BY <1>3, <3>2, <4>1
        <5>2. f.group = e.group
          BY <1>1, <1>3, <4>1, <5>1 DEF ScopedTogether, AtSiteOf
        <5>3. SameCall(e, f)
          BY <1>3, <1>10, <3>2, <5>2
        <5>4. f.dst # e.dst
          BY <1>3, <1>11, <5>1, <5>2, <5>3
        <5> QED BY <1>3, <5>2, <5>4
      <4>2. CASE e \notin kept
        <5>1. PICK f \in E : f.group = e.group /\ f.dst # e.dst
          BY <1>1, <3>2 DEF GroupsAreOfCalls
        <5>2. SameCall(e, f)
          BY <1>10, <3>2, <5>1
        <5>3. f \notin gone
          BY <1>3, <3>1, <4>2, <5>2
        <5> QED BY <5>1, <5>3
      <4> QED BY <4>1, <4>2
    <3>4. PICK f \in E : f \notin gone /\ f.group = e.group /\ f.dst # e.dst
      BY <3>3
    <3>5. PICK b \in L : b.group = Ng(f.group) /\ b.dst = f.dst
      BY <1>14, <3>4
    <3>6. b.group = a.group /\ b.dst # a.dst
      BY <3>2, <3>4, <3>5
    <3>7. PICK c \in g.rows : c.group = e.group /\ c.dst = e.dst
      BY <1>1, <3>2 DEF GroupsAreOfCalls
    <3>8. ASSUME NEW x \in gone PROVE x.group # c.group \/ x.dst # c.dst
      <4>1. ASSUME x.group = c.group, x.dst = c.dst PROVE FALSE
        <5>1. x \in E /\ SameCall(e, x)
          BY <1>3, <1>10, <3>2, <3>7, <4>1
        <5>2. e = x
          BY <1>11, <3>7, <4>1, <5>1
        <5> QED BY <3>1, <5>2
      <4> QED BY <4>1
    <3>9. c \in h.rows
      BY <1>6, <3>2, <3>7, <3>8
    <3> QED BY <3>2, <3>6, <3>7, <3>9
  <2>3. ASSUME NEW c \in h.rows PROVE c.group # 0 /\ \E a \in L : a.group = c.group /\ a.dst = c.dst
    <3>1. c \in g.rows /\ c.group \notin alone /\ \A e \in gone : e.group # c.group \/ e.dst # c.dst
      BY <1>6
    <3>2. c.group # 0 /\ \E e \in E : e.group = c.group /\ e.dst = c.dst
      BY <1>1, <3>1 DEF GroupsAreOfCalls
    <3>3. PICK e \in E : e.group = c.group /\ e.dst = c.dst
      BY <3>2
    <3>4. e \notin gone
      BY <3>1, <3>3
    <3>5. PICK a \in L : a.group = Ng(e.group) /\ a.dst = e.dst
      BY <1>14, <3>4
    <3> QED BY <3>1, <3>2, <3>3, <3>5
  <2>4. ASSUME NEW c \in h.rows, NEW d \in h.rows, c.group = d.group, c.dst = d.dst PROVE c = d
    BY <1>1, <1>6, <2>4 DEF GroupsAreOfCalls
  <2> QED BY <2>1, <2>2, <2>3, <2>4 DEF GroupsAreOfCalls
<1>19. Sharpens(g, h)
  <2>1. ASSUME NEW e \in E PROVE \E a \in L : AtSiteOf(e, a)
    <3>1. CASE e \notin gone
      BY <1>14, <3>1 DEF AtSiteOf
    <3>2. CASE e \in gone
      <4>1. PICK f \in kept : AtSiteOf(e, f)
        BY <1>3, <3>2
      <4>2. PICK a \in L : a.src = f.src /\ a.site = f.site
        BY <1>3, <1>14
      <4> QED BY <4>1, <4>2 DEF AtSiteOf
    <3> QED BY <3>1, <3>2
  <2>2. ASSUME NEW a \in L, IsSettled(a) PROVE a \in E
    <3>1. PICK e \in E : IF e \in kept THEN a.rule = "rta-pruned" ELSE a = e
      BY <1>4
    <3> QED BY <2>2, <3>1 DEF IsSettled
  <2>3. ASSUME NEW e \in E, IsSettled(e) PROVE e \in L
    <3>1. e \notin gone /\ e \notin kept
      BY <1>3, <2>3 DEF IsSettled
    <3> QED BY <1>5, <3>1
  <2>4. \A e : Alike(e, e)
    BY DEF Alike
  <2> QED BY <2>1, <2>2, <2>3, <2>4 DEF Sharpens, LosesNoCall, KeepsSettled, E, L
<1> QED BY <1>7, <1>15, <1>16, <1>17, <1>18, <1>19 DEF SoundGraph, Sound, L

(* A call CHA scoped keeps its targets of types that live code constructs. *)
KeepsLive(g, h) ==
  \A e \in ToSet(g.edges) :
    e.kind = "calls_virtual" /\ e.rule = "cha-trait-set" /\ Owner(e.dst) \cap Built(Reachable) # {} =>
      \E f \in ToSet(h.edges) : AtSiteOf(e, f) /\ f.dst = e.dst /\ f.rule # "indirect"

(* RTA leaves a sound graph, loses no call, leaves what SCIP settled, and  *)
(* all methods of types that reachable code constructs.                    *)
LEMMA RtaKeeps ==
  ASSUME Given, SoundGraph(graph), Rta, NEW h, h = graph'
  PROVE  /\ SoundGraph(h) /\ Sharpens(graph, h) /\ KeepsLive(graph, h)
         /\ h = graph \/ \E k : SoundGraph(k) /\ h = Canonical(k)
<1> DEFINE E == ToSet(graph.edges)
           scoped == {e \in E : e.kind = "calls_virtual" /\ e.rule = "cha-trait-set"}
           live == Built(Reachable)
           At(s) == {e \in scoped : <<e.src, e.site>> = s}
           Kept(s) == {e \in At(s) : Owner(e.dst) = {} \/ Owner(e.dst) \cap live # {}}
           sites == {s \in SitesOf(scoped) : Prunable(At(s), Kept(s))}
           gone == UNION {At(s) \ Kept(s) : s \in sites}
           kept == UNION {Kept(s) : s \in sites}
           lone == {s \in sites : Cardinality(Kept(s)) = 1}
           alone == {e.group : e \in UNION {Kept(s) : s \in lone}}
           Survivor(e) ==
             IF e \in kept
             THEN [e EXCEPT !.confidence = 1, !.rule = "rta-pruned",
                            !.group = IF @ \in alone THEN 0 ELSE @]
             ELSE e
           left == Without(graph.edges, gone)
           rows == {c \in graph.rows :
                      c.group \notin alone /\ \A e \in gone : <<e.group, e.dst>> # <<c.group, c.dst>>}
<1>1. h = IF gone = {} THEN graph
          ELSE Canonical([graph EXCEPT !.edges = [i \in DOMAIN left |-> Survivor(left[i])],
                                       !.rows = rows])
  BY DEF Rta
<1>2. graph \in GraphType /\ graph.edges \in Seq(EdgeType) /\ CallsAreAlike(E) /\ ScopedTogether(E)
      /\ GroupsAreOfCalls(E, graph.rows) /\ graph.rows \in SUBSET RowType
  BY GraphParts DEF SoundGraph, Sound
<1>3. IsFiniteSet(E) /\ E \subseteq EdgeType
  BY <1>2, MembersOfSeq
<1>4. CASE gone = {}
  <2>1. h = graph
    BY <1>1, <1>4
  <2>2. Sharpens(graph, graph)
    BY DEF Sharpens, LosesNoCall, KeepsSettled, Alike, AtSiteOf
  <2>3. KeepsLive(graph, graph)
    BY DEF KeepsLive, AtSiteOf
  <2> QED BY <2>1, <2>2, <2>3
<1>5. CASE gone # {}
  <2>1. \A s : \A e : e \in At(s) <=> e \in scoped /\ <<e.src, e.site>> = s
    OBVIOUS
  <2>2. \A s : Kept(s) \subseteq At(s)
    OBVIOUS
  <2>3. \A s \in sites : Kept(s) # {} /\ s \in SitesOf(scoped)
    BY DEF Prunable
  <2>4. \A e : e \in gone <=> \E s \in sites : e \in At(s) /\ e \notin Kept(s)
    <3> HIDE DEF At, Kept, sites
    <3> QED OBVIOUS
  <2>5. \A e : e \in kept <=> \E s \in sites : e \in Kept(s)
    <3> HIDE DEF Kept, sites
    <3> QED OBVIOUS
  <2>6. \A n : n \in alone <=> \E s \in lone : \E e \in Kept(s) : e.group = n
    <3> HIDE DEF Kept, lone
    <3> QED OBVIOUS
  <2>7. \A s : s \in lone <=> s \in sites /\ Cardinality(Kept(s)) = 1
    OBVIOUS
  <2>8. \A e \in scoped : e \in E /\ e.rule = "cha-trait-set" /\ e.kind = "calls_virtual"
    OBVIOUS
  <2>9. \A e \in E : e.rule = "cha-trait-set" /\ e.kind = "calls_virtual" => e \in scoped
    OBVIOUS
  <2>10a. \A s : \A e \in At(s) : Owner(e.dst) \cap live # {} => e \in Kept(s)
    OBVIOUS
  <2>10b. live = Built(Reachable)
    OBVIOUS
  <2>10. \A s : IsFiniteSet(Kept(s))
    <3>1. \A s : Kept(s) \subseteq E
      BY <2>1, <2>2, <2>8
    <3> HIDE DEF Kept, E
    <3> QED BY <1>3, <3>1, FS_Subset
  <2> HIDE DEF At, Kept, gone, kept, alone, lone, sites, scoped
  <2>11. \A e : e \in kept \cup gone => <<e.src, e.site>> \in sites /\ e \in scoped /\ e \in At(<<e.src, e.site>>)
    BY <2>1, <2>2, <2>4, <2>5
  <2>12. \A e \in scoped : <<e.src, e.site>> \in sites => e \in kept \cup gone
    BY <2>1, <2>4, <2>5
  <2>13. \A e : e \in kept <=> <<e.src, e.site>> \in sites /\ e \in Kept(<<e.src, e.site>>)
    BY <2>1, <2>2, <2>5
  <2>14. Pruning(E, kept, gone, alone)
    <3>1. kept \subseteq E /\ gone \subseteq E /\ \A e \in kept \cup gone : e.rule = "cha-trait-set"
      BY <2>8, <2>11
    <3>2. ASSUME NEW e \in kept PROVE e \notin gone
      BY <2>1, <2>4, <2>13
    <3>3. ASSUME NEW e \in E, NEW f \in kept \cup gone, SameCall(e, f) PROVE e \in kept \cup gone
      <4>1. f \in E /\ f.rule = "cha-trait-set" /\ f.kind = "calls_virtual" /\ <<f.src, f.site>> \in sites
        BY <2>8, <2>11
      <4>2. e.rule = f.rule
        BY <1>2, <3>3, <4>1 DEF CallsAreAlike
      <4>3. e.kind = f.kind
        BY <1>2, <3>3, <4>1, OneKind
      <4>4. e.src = f.src /\ e.site = f.site
        BY <3>3 DEF SameCall
      <4> QED BY <2>9, <2>12, <4>1, <4>2, <4>3, <4>4
    <3>4. ASSUME NEW e \in gone PROVE \E f \in kept : AtSiteOf(e, f)
      <4>1. PICK s \in sites : s = <<e.src, e.site>>
        BY <2>11
      <4>2. PICK f \in Kept(s) : <<f.src, f.site>> = s
        BY <2>1, <2>2, <2>3
      <4> QED BY <2>13, <4>1, <4>2 DEF AtSiteOf
    <3>5. ASSUME NEW n \in alone PROVE \E e \in kept : e.group = n
      BY <2>5, <2>6, <2>7
    <3>6. ASSUME NEW e \in kept, e.group \notin alone PROVE \E f \in kept : f # e /\ AtSiteOf(e, f)
      <4>1. PICK s \in sites : s = <<e.src, e.site>> /\ e \in Kept(s)
        BY <2>13
      <4>2. s \notin lone
        BY <2>6, <3>6, <4>1
      <4>3. Kept(s) # {e}
        <5>1. Cardinality({e}) = 1
          BY FS_Singleton
        <5> QED BY <2>7, <4>2, <5>1
      <4>4. PICK f \in Kept(s) : f # e
        BY <4>1, <4>3
      <4>5. <<f.src, f.site>> = s
        BY <2>1, <2>2
      <4> QED BY <2>13, <4>1, <4>4, <4>5 DEF AtSiteOf
    <3> QED BY <3>1, <3>2, <3>3, <3>4, <3>5, <3>6 DEF Pruning
  <2> DEFINE sv == [e \in E |-> Survivor(e)]
             new == [i \in DOMAIN left |-> Survivor(left[i])]
  <2>15. left \in Seq(EdgeType) /\ ToSet(left) = E \ gone
    BY <1>2, WithoutIs
  <2>16. ASSUME NEW e \in E
         PROVE  /\ sv[e] \in EdgeType
                /\ e \in kept => /\ sv[e].confidence = 1 /\ sv[e].rule = "rta-pruned"
                                 /\ sv[e].group = IF e.group \in alone THEN 0 ELSE e.group
                /\ e \notin kept => sv[e] = e
                /\ sv[e].src = e.src /\ sv[e].dst = e.dst /\ sv[e].kind = e.kind
                /\ sv[e].site = e.site /\ sv[e].stmt = e.stmt /\ sv[e].cut = e.cut
                /\ sv[e].arity = e.arity
    <3>1. e \in EdgeType
      BY <1>3
    <3>2. sv[e] = Survivor(e)
      OBVIOUS
    <3>3. CASE e \notin kept
      BY <3>1, <3>2, <3>3
    <3>4. CASE e \in kept
      <4>1. PICK q \in Nat : q = IF e.group \in alone THEN 0 ELSE e.group
        BY <3>1 DEF EdgeType
      <4>2. PICK a : a = [e EXCEPT !.confidence = 1, !.rule = "rta-pruned", !.group = q]
        OBVIOUS
      <4>3. sv[e] = a
        BY <3>2, <3>4, <4>1, <4>2
      <4>4. "rta-pruned" \in RuleNames /\ 1 \in 0 .. 2
        BY DEF RuleNames
      <4>5. /\ a \in EdgeType /\ a.confidence = 1 /\ a.rule = "rta-pruned" /\ a.group = q
            /\ a.src = e.src /\ a.dst = e.dst /\ a.kind = e.kind /\ a.site = e.site
            /\ a.stmt = e.stmt /\ a.cut = e.cut /\ a.arity = e.arity
        BY <3>1, <4>2, <4>4 DEF EdgeType
      <4> QED BY <3>4, <4>1, <4>3, <4>5
    <3> QED BY <3>3, <3>4
  <2>17. new = [i \in DOMAIN left |-> sv[left[i]]]
    <3>1. \A i \in DOMAIN left : left[i] \in E
      <4> HIDE DEF left
      <4>1. \A i \in DOMAIN left : left[i] \in ToSet(left)
        BY <2>15, MembersOfSeq
      <4> QED BY <2>15, <4>1
    <3> HIDE DEF left, E
    <3> QED BY <3>1
  <2>18. PICK k : k = [graph EXCEPT !.edges = new, !.rows = rows]
    OBVIOUS
  <2>19. h = Canonical(k)
    BY <1>1, <1>5, <2>18
  <2> HIDE DEF sv, left, Survivor, E
  <2>20. /\ new \in Seq(EdgeType)
         /\ \A a : a \in ToSet(new) <=> \E e \in E : e \notin gone /\ a = sv[e]
    <3>1. PICK s \in Seq(EdgeType) : s = left /\ ToSet(s) = E \ gone
      BY <2>15
    <3>2. \A x \in ToSet(s) : sv[x] \in EdgeType
      BY <2>16, <3>1
    <3>3. PICK t : t = Mapped(s, sv)
      OBVIOUS
    <3>4. /\ t \in Seq(EdgeType)
          /\ \A y : y \in ToSet(t) <=> \E x \in ToSet(s) : y = sv[x]
      BY <3>2, <3>3, MappedIs
    <3>5. new = t
      BY <2>17, <3>1, <3>3 DEF Mapped
    <3> HIDE DEF new
    <3> QED BY <3>1, <3>4, <3>5
  <2>21. rows \in SUBSET RowType
         /\ \A c : c \in rows <=>
              c \in graph.rows /\ c.group \notin alone /\ \A e \in gone : e.group # c.group \/ e.dst # c.dst
    BY <1>2
  <2> HIDE DEF new, rows
  <2>22. k \in GraphType /\ k.edges = new /\ k.rows = rows
    BY <1>2, <2>18, <2>20, <2>21 DEF GraphType
  <2>23. Pruned(graph, k, kept, gone, alone)
    <3>1. ASSUME NEW a \in ToSet(k.edges)
          PROVE  \E e \in ToSet(graph.edges) :
                   e \notin gone /\ (IF e \in kept THEN /\ a.confidence = 1 /\ a.rule = "rta-pruned"
                                            /\ a.group = (IF e.group \in alone THEN 0 ELSE e.group)
                                       ELSE a = e)
                   /\ a.src = e.src /\ a.dst = e.dst /\ a.kind = e.kind /\ a.site = e.site /\ a.stmt = e.stmt
                   /\ a.cut = e.cut /\ a.arity = e.arity
      <4>1. PICK e \in E : e \notin gone /\ a = sv[e]
        BY <2>20, <2>22
      <4> QED BY <2>16, <4>1 DEF E
    <3>2. ASSUME NEW e \in ToSet(graph.edges), e \notin gone
          PROVE  \E a \in ToSet(k.edges) :
                   /\ e \notin kept => a = e
                   /\ e \in kept => a.group = (IF e.group \in alone THEN 0 ELSE e.group)
                   /\ a.src = e.src /\ a.dst = e.dst /\ a.site = e.site
      <4>1. e \in E
        BY DEF E
      <4>2. sv[e] \in ToSet(k.edges)
        BY <2>20, <2>22, <3>2, <4>1
      <4>3. PICK a : a = sv[e]
        OBVIOUS
      <4>4. /\ e \notin kept => a = e
            /\ e \in kept => a.group = (IF e.group \in alone THEN 0 ELSE e.group)
            /\ a.src = e.src /\ a.dst = e.dst /\ a.site = e.site
        BY <2>16, <4>1, <4>3
      <4> QED BY <4>2, <4>3, <4>4
    <3>3. \A c : c \in k.rows <=>
            c \in graph.rows /\ c.group \notin alone /\ \A e \in gone : e.group # c.group \/ e.dst # c.dst
      BY <2>21, <2>22
    <3> QED BY <2>22, <3>1, <3>2, <3>3 DEF Pruned
  <2>24. Pruning(ToSet(graph.edges), kept, gone, alone)
    BY <2>14 DEF E
  <2>25. PICK g : g = graph
    OBVIOUS
  <2>26. SoundGraph(k) /\ Sharpens(g, k)
    <3>1. SoundGraph(g) /\ Pruning(ToSet(g.edges), kept, gone, alone) /\ Pruned(g, k, kept, gone, alone)
      BY <2>23, <2>24, <2>25
    <3> QED BY <3>1, PruningKeepsSound
  <2>27. KeepsLive(graph, h)
    <3>1. ASSUME NEW e \in ToSet(graph.edges), e.kind = "calls_virtual", e.rule = "cha-trait-set",
                 Owner(e.dst) \cap Built(Reachable) # {}
          PROVE  \E f \in ToSet(h.edges) : AtSiteOf(e, f) /\ f.dst = e.dst /\ f.rule # "indirect"
      <4>1. e \in E
        BY DEF E
      <4>2. e \in scoped
        BY <2>9, <3>1, <4>1
      <4>3. e \notin gone
        <5>1. ASSUME NEW s \in sites, e \in At(s) PROVE e \in Kept(s)
          BY <2>10a, <2>10b, <3>1, <5>1
        <5> QED BY <2>4, <5>1
      <4>4. sv[e] \in ToSet(k.edges)
        BY <2>20, <2>22, <4>1, <4>3
      <4>5. PICK a \in ToSet(k.edges) : a = sv[e]
        BY <4>4
      <4>6. a.src = e.src /\ a.site = e.site /\ a.dst = e.dst /\ a.rule # "indirect"
        <5>1. CASE e \in kept
          BY <2>16, <4>1, <4>5, <5>1
        <5>2. CASE e \notin kept
          BY <2>16, <3>1, <4>1, <4>5, <5>2
        <5> QED BY <5>1, <5>2
      <4>7. PICK f \in ToSet(h.edges) : Alike(f, a)
        BY <2>19, <2>26, CanonicalKeepsSound
      <4> QED BY <4>6, <4>7 DEF Alike, AtSiteOf
    <3> QED BY <3>1 DEF KeepsLive
  <2> QED BY <2>19, <2>25, <2>26, <2>27, CanonicalKeepsSound, CanonicalSharpens
<1> QED BY <1>4, <1>5

-------------------------------------------------------------------------------
(* SCIP.                                                                   *)

Redirected(e) == Seen(e) /\ Redirects(e)

(* A fact of SCIP's about an edge is at its site, a number above 0.        *)
LEMMA FactIs ==
  ASSUME Given, NEW e, Seen(e)
  PROVE  code.scip[e.site] \in Fact /\ e.site \in Nat \ {0}
BY CodesAssumption DEF Given, Seen

LedTo(x, d, q) == [x EXCEPT !.dst = d, !.group = q]
(* An edge led elsewhere is the same but for its target and group.         *)
LEMMA LeadingTo ==
  ASSUME NEW x \in EdgeType, NEW d \in {0} \cup Node, NEW q \in Nat, NEW a, a = LedTo(x, d, q)
  PROVE  /\ a \in EdgeType /\ a.dst = d /\ a.group = q
         /\ a.src = x.src /\ a.kind = x.kind /\ a.site = x.site /\ a.stmt = x.stmt
         /\ a.cut = x.cut /\ a.arity = x.arity /\ a.confidence = x.confidence /\ a.rule = x.rule
BY DEF LedTo, EdgeType

(* relabel_edge changes the target only if it redirects, and never lowers  *)
(* confidence.                                                             *)
LEMMA RelabeledIs ==
  ASSUME Given, NEW e \in EdgeType, NEW a, a = Relabeled(e)
  PROVE  /\ a \in EdgeType
         /\ a.src = e.src /\ a.kind = e.kind /\ a.site = e.site /\ a.stmt = e.stmt
         /\ a.cut = e.cut /\ a.arity = e.arity
         /\ Redirected(e) => a.dst = code.scip[e.site].to /\ a.group = 0
         /\ ~Redirected(e) => a.dst = e.dst /\ a.group = e.group
         /\ ~Seen(e) => a = e
         /\ Seen(e) => /\ Target(e) \in 1 .. 2
                       /\ Target(e) > e.confidence => a.confidence = Target(e) /\ a.rule = "scip"
                       /\ ~(Target(e) > e.confidence) => a.confidence = e.confidence /\ a.rule = e.rule
<1>1. CASE ~Seen(e)
  BY <1>1 DEF Relabeled, Redirected
<1>2. CASE Seen(e)
  <2>1. PICK t \in 1 .. 2 : t = Target(e)
    BY DEF Target
  <2>2. PICK d \in {0} \cup Node : d = code.scip[e.site].to
    <3>1. PICK s \in Fact : s = code.scip[e.site]
      BY <1>2, FactIs
    <3> QED BY <3>1 DEF Fact
  <2>3. "scip" \in RuleNames
    BY DEF RuleNames
  <2>4. PICK b : b = Raised(e)
    OBVIOUS
  <2>5. b = IF t > e.confidence THEN [e EXCEPT !.confidence = t, !.rule = "scip"] ELSE e
    BY <2>1, <2>4 DEF Raised
  <2>6. /\ b \in EdgeType
        /\ b.src = e.src /\ b.kind = e.kind /\ b.site = e.site /\ b.stmt = e.stmt
        /\ b.cut = e.cut /\ b.arity = e.arity /\ b.dst = e.dst /\ b.group = e.group
        /\ t > e.confidence => b.confidence = t /\ b.rule = "scip"
        /\ ~(t > e.confidence) => b.confidence = e.confidence /\ b.rule = e.rule
    <3>1. CASE t > e.confidence
      <4>1. t \in 0 .. 2
        BY <2>1
      <4> QED BY <2>3, <2>5, <3>1, <4>1 DEF EdgeType
    <3>2. CASE ~(t > e.confidence)
      BY <2>5, <3>2
    <3> QED BY <3>1, <3>2
  <2>7. a = IF Redirects(e) THEN [b EXCEPT !.dst = d, !.group = 0] ELSE b
    BY <1>2, <2>2, <2>4 DEF Relabeled
  <2>8. CASE Redirects(e)
    <3>1. a = [b EXCEPT !.dst = d, !.group = 0]
      BY <2>7, <2>8
    <3>2. /\ a \in EdgeType /\ a.dst = d /\ a.group = 0
          /\ a.src = b.src /\ a.kind = b.kind /\ a.site = b.site /\ a.stmt = b.stmt
          /\ a.cut = b.cut /\ a.arity = b.arity /\ a.confidence = b.confidence /\ a.rule = b.rule
      <4>1. PICK x \in EdgeType : x = b
        BY <2>6
      <4>q. PICK q \in Nat : q = 0
        OBVIOUS
      <4>2. a = LedTo(x, d, q)
        BY <3>1, <4>1, <4>q DEF LedTo
      <4>3. /\ a \in EdgeType /\ a.dst = d /\ a.group = 0
            /\ a.src = x.src /\ a.kind = x.kind /\ a.site = x.site /\ a.stmt = x.stmt
            /\ a.cut = x.cut /\ a.arity = x.arity /\ a.confidence = x.confidence /\ a.rule = x.rule
        BY <4>2, <4>q, LeadingTo
      <4> QED BY <4>1, <4>3
    <3> QED BY <1>2, <2>1, <2>2, <2>6, <2>8, <3>2 DEF Redirected
  <2>9. CASE ~Redirects(e)
    BY <1>2, <2>1, <2>6, <2>7, <2>9 DEF Redirected
  <2> QED BY <2>8, <2>9
<1> QED BY <1>1, <1>2

Dependency(e) ==
  [e EXCEPT !.dst = 0, !.confidence = 1, !.rule = "scip-dep", !.site = -@, !.group = 0]

(* The edge of a dependency is at a site of its own, below 0.              *)
LEMMA DependencyIs ==
  ASSUME Given, NEW e \in EdgeType, Seen(e), NEW a, a = Dependency(e)
  PROVE  /\ a \in EdgeType
         /\ a.src = e.src /\ a.kind = e.kind /\ a.stmt = e.stmt /\ a.cut = e.cut /\ a.arity = e.arity
         /\ a.site = -e.site /\ a.site < 0 /\ a.rule = "scip-dep" /\ a.confidence = 1 /\ a.group = 0
<1>1. PICK n \in Nat \ {0} : n = e.site
  BY FactIs
<1>2. a = [e EXCEPT !.dst = 0, !.confidence = 1, !.rule = "scip-dep", !.site = -n, !.group = 0]
  BY <1>1 DEF Dependency
<1>3. "scip-dep" \in RuleNames /\ -n \in Int /\ -n < 0 /\ 1 \in 0 .. 2 /\ 0 \in Nat /\ 0 \in {0} \cup Node
  BY DEF RuleNames
<1>4. /\ a \in EdgeType
      /\ a.src = e.src /\ a.kind = e.kind /\ a.stmt = e.stmt /\ a.cut = e.cut /\ a.arity = e.arity
      /\ a.site = -n /\ a.rule = "scip-dep" /\ a.confidence = 1 /\ a.group = 0
  BY <1>2, <1>3 DEF EdgeType
<1> QED BY <1>1, <1>3, <1>4

(* h is g with its edges relabeled.                                        *)
RelabeledBy(g, h) ==
  /\ h \in GraphType
  /\ \A a \in ToSet(h.edges) : \E e \in ToSet(g.edges) :
       a = Relabeled(e) \/ (Seen(e) /\ a = Dependency(e))
  /\ \A e \in ToSet(g.edges) : Relabeled(e) \in ToSet(h.edges)
  /\ \A c : c \in h.rows <=> c \in g.rows /\ c.group \in Groups(h.edges)

(* h keeps the calls of g, at no less confidence.                          *)
Raises(g, h) ==
  \A e \in ToSet(g.edges) : \E f \in ToSet(h.edges) : AtSiteOf(e, f) /\ f.confidence >= e.confidence

(* A linked graph relabeled edge by edge is sound, and certain only where  *)
(* it may be.                                                              *)
LEMMA RelabelingKeepsSound ==
  ASSUME Given, NEW g, SoundGraph(g), \A e \in ToSet(g.edges) : e.rule \in LinkRules,
         NEW h, RelabeledBy(g, h)
  PROVE  /\ SoundGraph(h) /\ Raises(g, h)
         /\ \A e \in ToSet(h.edges) : e.rule # "cha-trait-set"
<1> DEFINE E == ToSet(g.edges)
           L == ToSet(h.edges)
<1>1. /\ g \in GraphType /\ CallsAreAlike(E) /\ IsCertain(E) /\ GroupsAreOfCalls(E, g.rows)
      /\ h \in GraphType
  BY DEF SoundGraph, Sound, RelabeledBy
<1>2. \A e \in E : e \in EdgeType /\ e.rule \in LinkRules
  BY <1>1, GraphParts, MembersOfSeq
<1>3. /\ \A a \in L : \E e \in E : a = Relabeled(e) \/ (Seen(e) /\ a = Dependency(e))
      /\ \A e \in E : Relabeled(e) \in L
      /\ \A c : c \in h.rows <=> c \in g.rows /\ c.group \in Groups(h.edges)
  BY DEF RelabeledBy
<1>4. \A n : n \in Groups(h.edges) <=> n # 0 /\ \E a \in L : a.group = n
  BY <1>1, GraphParts, GroupsOf
<1>5. \A r \in LinkRules : r # "scip-dep" /\ r # "cha-trait-set"
  BY DEF LinkRules
<1> HIDE DEF E, L
(* What SCIP says of one edge of a call it says of all.                    *)
<1>6. ASSUME NEW e \in E, NEW f \in E, SameCall(e, f)
      PROVE  /\ Seen(e) <=> Seen(f)
             /\ Redirected(e) <=> Redirected(f)
             /\ Target(e) = Target(f) /\ e.kind = f.kind /\ e.site = f.site
             /\ e.rule = f.rule /\ e.confidence = f.confidence /\ e.cut = f.cut /\ e.arity = f.arity
  <2>1. e.kind = f.kind
    BY <1>1, <1>6, OneKind
  <2>2. e.site = f.site
    BY <1>6 DEF SameCall
  <2>3. Target(e) = Target(f)
    BY <2>1, <2>2 DEF Target
  <2>4. (Seen(e) <=> Seen(f)) /\ (Redirects(e) <=> Redirects(f))
    BY <2>1, <2>2, <2>3 DEF Seen, IsCall, Redirects
  <2>5. e.rule = f.rule /\ e.confidence = f.confidence /\ e.cut = f.cut /\ e.arity = f.arity
    BY <1>1, <1>6 DEF CallsAreAlike
  <2> QED BY <2>1, <2>2, <2>3, <2>4, <2>5 DEF Redirected
<1>7. ASSUME NEW e \in E, NEW a, a = Relabeled(e)
      PROVE  /\ a \in EdgeType
             /\ a.src = e.src /\ a.kind = e.kind /\ a.site = e.site /\ a.stmt = e.stmt
             /\ a.cut = e.cut /\ a.arity = e.arity
             /\ Redirected(e) => a.dst = code.scip[e.site].to /\ a.group = 0
             /\ ~Redirected(e) => a.dst = e.dst /\ a.group = e.group
             /\ ~Seen(e) => a = e
             /\ Seen(e) => /\ Target(e) \in 1 .. 2
                           /\ Target(e) > e.confidence => a.confidence = Target(e) /\ a.rule = "scip"
                           /\ ~(Target(e) > e.confidence) => a.confidence = e.confidence /\ a.rule = e.rule
  BY <1>2, <1>7, RelabeledIs
<1>8. ASSUME NEW e \in E, Seen(e), NEW a, a = Dependency(e)
      PROVE  /\ a.src = e.src /\ a.kind = e.kind /\ a.stmt = e.stmt /\ a.cut = e.cut /\ a.arity = e.arity
             /\ a.site = -e.site /\ a.site < 0 /\ a.rule = "scip-dep" /\ a.confidence = 1 /\ a.group = 0
  BY <1>2, <1>8, DependencyIs
<1>9. ASSUME NEW e \in E
      PROVE  /\ OfReference(e) /\ ~(e.site < 0) /\ e.confidence \in 0 .. 2
             /\ e.rule = "indirect" => e.dst = e.src /\ e.group = 0 /\ e.confidence = 0
  <2>1. e.rule # "scip-dep" /\ e.confidence \in 0 .. 2
    BY <1>2, <1>5 DEF EdgeType
  <2> QED BY <1>1, <2>1 DEF CallsAreAlike
<1>10. ASSUME NEW a \in L, ~(a.site < 0) \/ a.group # 0 PROVE \E e \in E : a = Relabeled(e)
  BY <1>3, <1>8, <1>10
<1>11. ASSUME NEW a \in L, NEW b \in L, SameCall(a, b)
       PROVE  \/ \E e, f \in E : a = Relabeled(e) /\ b = Relabeled(f) /\ SameCall(e, f)
              \/ \E e, f \in E : /\ Seen(e) /\ a = Dependency(e) /\ Seen(f) /\ b = Dependency(f)
                                 /\ SameCall(e, f)
  <2>1. a.src = b.src /\ a.site = b.site /\ a.stmt = b.stmt
    BY <1>11 DEF SameCall
  <2>2. CASE a.site < 0
    <3>1. PICK e \in E : Seen(e) /\ a = Dependency(e)
      BY <1>3, <1>7, <1>9, <2>2
    <3>2. PICK f \in E : Seen(f) /\ b = Dependency(f)
      BY <1>3, <1>7, <1>9, <2>1, <2>2
    <3>3. e.src = f.src /\ e.stmt = f.stmt /\ -e.site = -f.site
      BY <1>8, <2>1, <3>1, <3>2
    <3>4. PICK m \in Int : m = e.site
      BY <1>2 DEF EdgeType
    <3>5. PICK n \in Int : n = f.site
      BY <1>2 DEF EdgeType
    <3>6. m = n
      BY <3>3, <3>4, <3>5
    <3> QED BY <3>1, <3>2, <3>3, <3>4, <3>5, <3>6 DEF SameCall
  <2>3. CASE ~(a.site < 0)
    <3>1. PICK e \in E : a = Relabeled(e)
      BY <1>10, <2>3
    <3>2. PICK f \in E : b = Relabeled(f)
      BY <1>10, <2>1, <2>3
    <3>3. SameCall(e, f)
      BY <1>7, <2>1, <3>1, <3>2 DEF SameCall
    <3> QED BY <3>1, <3>2, <3>3
  <2> QED BY <2>2, <2>3
<1>12. CallsAreAlike(L)
  <2>1. ASSUME NEW a \in L
        PROVE  /\ OfReference(a)
               /\ a.site < 0 <=> a.rule = "scip-dep"
               /\ a.rule = "scip-dep" => a.confidence = 1 /\ a.group = 0
               /\ a.rule = "indirect" => a.dst = a.src /\ a.group = 0 /\ a.confidence = 0
    <3>1. PICK e \in E : a = Relabeled(e) \/ (Seen(e) /\ a = Dependency(e))
      BY <1>3
    <3>2. /\ OfReference(e) /\ ~(e.site < 0) /\ e.confidence \in 0 .. 2
          /\ e.rule # "scip-dep"
          /\ e.rule = "indirect" => e.dst = e.src /\ e.group = 0 /\ e.confidence = 0
      BY <1>2, <1>5, <1>9
    <3>3. CASE a = Relabeled(e)
      <4>1. OfReference(a)
        BY <1>7, <3>2, <3>3 DEF OfReference
      <4>2. CASE ~Seen(e)
        <5>1. a = e
          BY <1>7, <3>3, <4>2
        <5> QED BY <3>2, <4>1, <5>1
      <4>3. CASE Seen(e) /\ Target(e) > e.confidence
        <5>1. a.rule = "scip" /\ a.site = e.site
          BY <1>7, <3>3, <4>3
        <5> QED BY <3>2, <4>1, <5>1
      <4>4. CASE Seen(e) /\ ~(Target(e) > e.confidence)
        <5>1. a.rule = e.rule /\ a.confidence = e.confidence /\ a.site = e.site /\ Target(e) \in 1 .. 2
          BY <1>7, <3>3, <4>4
        <5>2. e.confidence # 0
          BY <4>4, <5>1
        <5> QED BY <3>2, <4>1, <5>1, <5>2
      <4> QED BY <4>2, <4>3, <4>4
    <3>4. CASE Seen(e) /\ a = Dependency(e)
      <4>1. /\ a.src = e.src /\ a.kind = e.kind /\ a.stmt = e.stmt
            /\ a.site = -e.site /\ a.site < 0 /\ a.rule = "scip-dep" /\ a.confidence = 1 /\ a.group = 0
        BY <1>8, <3>4
      <4>2. OfReference(a)
        <5>1. PICK r \in References : e.src = r.src /\ e.stmt = r.stmt /\ e.kind = EdgeKind(r)
                                      /\ e.site \in {r.site, -r.site}
          BY <3>2 DEF OfReference
        <5>2. PICK n \in Nat \ {0} : n = r.site
          BY RefsOfCode DEF RawRef
        <5>3. -e.site \in {r.site, -r.site}
          BY <5>1, <5>2
        <5> QED BY <4>1, <5>1, <5>3 DEF OfReference
      <4> QED BY <4>1, <4>2
    <3> QED BY <3>1, <3>3, <3>4
  <2>2. ASSUME NEW a \in L, NEW b \in L, SameCall(a, b)
        PROVE  a.rule = b.rule /\ a.confidence = b.confidence /\ a.cut = b.cut /\ a.arity = b.arity
    <3>1. CASE \E e, f \in E : a = Relabeled(e) /\ b = Relabeled(f) /\ SameCall(e, f)
      <4>1. PICK e \in E : \E f \in E : a = Relabeled(e) /\ b = Relabeled(f) /\ SameCall(e, f)
        BY <3>1
      <4>2. PICK f \in E : a = Relabeled(e) /\ b = Relabeled(f) /\ SameCall(e, f)
        BY <4>1
      <4>3. /\ Seen(e) <=> Seen(f)
            /\ Target(e) = Target(f)
            /\ e.rule = f.rule /\ e.confidence = f.confidence /\ e.cut = f.cut /\ e.arity = f.arity
        BY <1>6, <4>2
      <4> QED BY <1>7, <4>2, <4>3
    <3>2. CASE \E e, f \in E : /\ Seen(e) /\ a = Dependency(e) /\ Seen(f) /\ b = Dependency(f)
                               /\ SameCall(e, f)
      <4>1. PICK e \in E : \E f \in E : /\ Seen(e) /\ a = Dependency(e) /\ Seen(f) /\ b = Dependency(f)
                                        /\ SameCall(e, f)
        BY <3>2
      <4>2. PICK f \in E : Seen(e) /\ a = Dependency(e) /\ Seen(f) /\ b = Dependency(f) /\ SameCall(e, f)
        BY <4>1
      <4> QED BY <1>6, <1>8, <4>2
    <3> QED BY <1>11, <2>2, <3>1, <3>2
  <2> QED BY <2>1, <2>2 DEF CallsAreAlike
<1>13. IsCertain(L)
  <2>1. ASSUME NEW a \in L, a.confidence = 2, IsCall(a),
               ~(a.site \in DOMAIN code.scip /\ UnknownToGraph(code.scip[a.site])),
               NEW b \in L, SameCall(a, b)
        PROVE  a.dst = b.dst
    <3>1. CASE \E e, f \in E : a = Relabeled(e) /\ b = Relabeled(f) /\ SameCall(e, f)
      <4>1. PICK e \in E : \E f \in E : a = Relabeled(e) /\ b = Relabeled(f) /\ SameCall(e, f)
        BY <3>1
      <4>2. PICK f \in E : a = Relabeled(e) /\ b = Relabeled(f) /\ SameCall(e, f)
        BY <4>1
      <4>3. (Redirected(e) <=> Redirected(f)) /\ e.site = f.site /\ a.site = e.site
        BY <1>6, <1>7, <4>2
      <4>4. CASE Redirected(e)
        BY <1>7, <4>2, <4>3, <4>4
      <4>5. CASE ~Redirected(e)
        <5>1. a.dst = e.dst /\ b.dst = f.dst /\ a.kind = e.kind
          BY <1>7, <4>2, <4>3, <4>5
        <5>2. e.confidence = 2
          <6>1. ASSUME Seen(e), Target(e) > e.confidence PROVE FALSE
            <7>1. Target(e) = 2
              BY <1>7, <2>1, <4>2, <6>1
            <7>2. PICK s : s = code.scip[e.site]
              OBVIOUS
            <7>3. s.defs = 1 /\ ~FailClosed
              BY <7>1, <7>2 DEF Target
            <7>4. ~UnknownToGraph(s)
              BY <2>1, <4>3, <6>1, <7>2 DEF Seen
            <7>5. s.to # 0 /\ s.known
              BY <7>4 DEF UnknownToGraph
            <7> QED BY <4>5, <6>1, <7>1, <7>2, <7>3, <7>5 DEF Redirected, Redirects
          <6> QED BY <1>7, <2>1, <4>2, <6>1
        <5>3. IsCall(e)
          BY <2>1, <5>1 DEF IsCall
        <5> QED BY <1>1, <2>1, <4>2, <4>3, <5>1, <5>2, <5>3 DEF IsCertain
      <4> QED BY <4>4, <4>5
    <3>2. CASE \E e, f \in E : /\ Seen(e) /\ a = Dependency(e) /\ Seen(f) /\ b = Dependency(f)
                               /\ SameCall(e, f)
      <4>1. a.confidence = 1
        BY <1>8, <3>2
      <4> QED BY <2>1, <4>1
    <3> QED BY <1>11, <2>1, <3>1, <3>2
  <2> QED BY <2>1 DEF IsCertain
<1>14. ASSUME NEW a \in L PROVE a.rule # "cha-trait-set"
  <2>1. PICK e \in E : a = Relabeled(e) \/ (Seen(e) /\ a = Dependency(e))
    BY <1>3
  <2>2. e.rule # "cha-trait-set"
    BY <1>2, <1>5
  <2>3. CASE a = Relabeled(e)
    BY <1>7, <2>2, <2>3
  <2>4. CASE Seen(e) /\ a = Dependency(e)
    BY <1>8, <2>4
  <2> QED BY <2>1, <2>3, <2>4
<1>15. ScopedTogether(L)
  BY <1>14 DEF ScopedTogether
(* The groups that are left are those of calls not redirected.             *)
<1>16. ASSUME NEW a \in L, a.group # 0
       PROVE  \E e \in E : ~Redirected(e) /\ a = Relabeled(e) /\ a.group = e.group /\ a.dst = e.dst
  BY <1>7, <1>10, <1>16
<1>17. ASSUME NEW e \in E, NEW f \in E, e.group = f.group, e.group # 0
       PROVE  SameCall(e, f) /\ (Redirected(e) <=> Redirected(f))
  <2>1. SameCall(e, f)
    BY <1>1, <1>17 DEF GroupsAreOfCalls
  <2> QED BY <1>6, <2>1
<1>18. GroupsAreOfCalls(L, h.rows)
  <2>1. ASSUME NEW a \in L, NEW b \in L, a.group = b.group, a.group # 0 PROVE SameCall(a, b)
    <3>1. PICK e \in E : a = Relabeled(e) /\ a.group = e.group
      BY <1>16, <2>1
    <3>2. PICK f \in E : b = Relabeled(f) /\ b.group = f.group
      BY <1>16, <2>1
    <3>3. SameCall(e, f)
      BY <1>17, <2>1, <3>1, <3>2
    <3> QED BY <1>7, <3>1, <3>2, <3>3 DEF SameCall
  <2>2. ASSUME NEW a \in L, a.group # 0
        PROVE  /\ \E b \in L : b.group = a.group /\ b.dst # a.dst
               /\ \E c \in h.rows : c.group = a.group /\ c.dst = a.dst
    <3>1. PICK e \in E : ~Redirected(e) /\ a.group = e.group /\ a.dst = e.dst
      BY <1>16, <2>2
    <3>2. PICK f \in E : f.group = e.group /\ f.dst # e.dst
      BY <1>1, <2>2, <3>1 DEF GroupsAreOfCalls
    <3>3. ~Redirected(f)
      BY <1>17, <2>2, <3>1, <3>2
    <3>4. PICK b \in L : b = Relabeled(f)
      BY <1>3
    <3>5. b.group = f.group /\ b.dst = f.dst
      BY <1>7, <3>3, <3>4
    <3>6. PICK c \in g.rows : c.group = e.group /\ c.dst = e.dst
      BY <1>1, <2>2, <3>1 DEF GroupsAreOfCalls
    <3>7. c \in h.rows
      BY <1>3, <1>4, <2>2, <3>1, <3>6
    <3> QED BY <3>1, <3>2, <3>4, <3>5, <3>6, <3>7
  <2>3. ASSUME NEW c \in h.rows PROVE c.group # 0 /\ \E a \in L : a.group = c.group /\ a.dst = c.dst
    <3>1. c \in g.rows /\ c.group # 0 /\ \E a \in L : a.group = c.group
      BY <1>3, <1>4
    <3>2. PICK b \in L : b.group = c.group
      BY <3>1
    <3>3. PICK f \in E : ~Redirected(f) /\ f.group = c.group
      BY <1>16, <3>1, <3>2
    <3>4. PICK e \in E : e.group = c.group /\ e.dst = c.dst
      BY <1>1, <3>1 DEF GroupsAreOfCalls
    <3>5. ~Redirected(e)
      BY <1>17, <3>1, <3>3, <3>4
    <3>6. PICK a \in L : a = Relabeled(e)
      BY <1>3
    <3>7. a.group = e.group /\ a.dst = e.dst
      BY <1>7, <3>5, <3>6
    <3> QED BY <3>1, <3>4, <3>6, <3>7
  <2>4. ASSUME NEW c \in h.rows, NEW d \in h.rows, c.group = d.group, c.dst = d.dst PROVE c = d
    BY <1>1, <1>3, <2>4 DEF GroupsAreOfCalls
  <2> QED BY <2>1, <2>2, <2>3, <2>4 DEF GroupsAreOfCalls
<1>19. Raises(g, h)
  <2>1. ASSUME NEW e \in E PROVE \E f \in L : AtSiteOf(e, f) /\ f.confidence >= e.confidence
    <3>1. PICK a \in L : a = Relabeled(e)
      BY <1>3
    <3>2. a.src = e.src /\ a.site = e.site
      BY <1>7, <3>1
    <3>3. a.confidence >= e.confidence
      <4>1. e.confidence \in 0 .. 2
        BY <1>9
      <4>2. CASE ~Seen(e)
        BY <1>7, <3>1, <4>1, <4>2
      <4>3. CASE Seen(e)
        <5>1. PICK t \in 1 .. 2 : t = Target(e)
          BY <1>7, <3>1, <4>3
        <5>2. a.confidence = IF t > e.confidence THEN t ELSE e.confidence
          BY <1>7, <3>1, <4>3, <5>1
        <5> QED BY <4>1, <5>1, <5>2
      <4> QED BY <4>2, <4>3
    <3> QED BY <3>1, <3>2, <3>3 DEF AtSiteOf
  <2> QED BY <2>1 DEF Raises, E, L
<1> QED BY <1>1, <1>12, <1>13, <1>14, <1>15, <1>18, <1>19 DEF SoundGraph, Sound, L

(* Edge by edge, h has what g has in the canonical order.                  *)
SamePlaces(g, h) ==
  /\ Len(h.edges) = Len(g.edges) /\ h.rows = g.rows
  /\ \A i \in 1 .. Len(g.edges) :
       /\ h.edges[i].src = g.edges[i].src /\ h.edges[i].dst = g.edges[i].dst
       /\ h.edges[i].kind = g.edges[i].kind /\ h.edges[i].stmt = g.edges[i].stmt
       /\ h.edges[i].group = g.edges[i].group

(* The edges of the pass, relabeled and added.                             *)
ScipEdgesOf(g) == [i \in DOMAIN g.edges |-> Relabeled(g.edges[i])] \o DependencyEdges(g.edges)

(* The edges after SCIP are those before, relabeled, then those of         *)
(* dependencies.                                                           *)
LEMMA ScipEdges ==
  ASSUME Given, NEW g \in GraphType,
         NEW edges, edges = ScipEdgesOf(g)
  PROVE  /\ edges \in Seq(EdgeType)
         /\ \A a \in ToSet(edges) : \E e \in ToSet(g.edges) :
              a = Relabeled(e) \/ (Seen(e) /\ a = Dependency(e))
         /\ \A e \in ToSet(g.edges) : Relabeled(e) \in ToSet(edges)
         /\ Len(edges) >= Len(g.edges)
         /\ \A i \in 1 .. Len(g.edges) : edges[i] = Relabeled(g.edges[i])
<1>1. PICK s \in Seq(EdgeType) : s = g.edges
  BY GraphParts
<1>2. \A e \in ToSet(s) : e \in EdgeType
  BY MembersOfSeq
<1>3. DOMAIN s = 1 .. Len(s) /\ Len(s) \in Nat /\ \A i \in DOMAIN s : s[i] \in ToSet(s)
  BY MembersOfSeq
<1> DEFINE f == [e \in ToSet(s) |-> Relabeled(e)]
<1>4. \A e \in ToSet(s) : f[e] = Relabeled(e) /\ f[e] \in EdgeType
  <2>1. ASSUME NEW e \in ToSet(s) PROVE Relabeled(e) \in EdgeType
    <3>1. PICK a : a = Relabeled(e)
      OBVIOUS
    <3>2. a \in EdgeType
      BY <1>2, <3>1, RelabeledIs
    <3> QED BY <3>1, <3>2
  <2> QED BY <2>1
<1>5. PICK t : t = Mapped(s, f)
  OBVIOUS
<1>6. t = [i \in DOMAIN g.edges |-> Relabeled(g.edges[i])]
  BY <1>1, <1>3, <1>5 DEF Mapped
<1> HIDE DEF f
<1>7. /\ t \in Seq(EdgeType) /\ Len(t) = Len(s)
      /\ \A y : y \in ToSet(t) <=> \E x \in ToSet(s) : y = f[x]
  <2>1. \A x \in ToSet(s) : f[x] \in EdgeType
    BY <1>4
  <2> QED BY <1>5, <2>1, MappedIs
<1> DEFINE places == {i \in DOMAIN s : Seen(s[i]) /\ code.scip[s[i].site].to = 0}
<1>8. PICK out \in Seq(EdgeType) :
        /\ out = Only(s, places)
        /\ \A x : x \in ToSet(out) <=> \E p \in places : x = s[p]
  <2>1. PICK P \in SUBSET (DOMAIN s) : P = places
    OBVIOUS
  <2>2. Only(s, P) \in Seq(EdgeType) /\ \A x : x \in ToSet(Only(s, P)) <=> \E p \in P : x = s[p]
    BY OnlyIs
  <2> QED BY <2>1, <2>2
<1>9. \A x \in ToSet(out) : x \in ToSet(s) /\ Seen(x)
  BY <1>3, <1>8
<1> DEFINE d == [e \in ToSet(out) |-> Dependency(e)]
<1>10. \A e \in ToSet(out) : d[e] = Dependency(e) /\ d[e] \in EdgeType
  <2>1. ASSUME NEW e \in ToSet(out) PROVE Dependency(e) \in EdgeType
    <3>1. PICK a : a = Dependency(e)
      OBVIOUS
    <3>2. a \in EdgeType
      BY <1>2, <1>9, <3>1, DependencyIs
    <3> QED BY <3>1, <3>2
  <2> QED BY <2>1
<1>11. PICK u : u = Mapped(out, d)
  OBVIOUS
<1>12. \A i \in DOMAIN out : out[i] \in ToSet(out)
  BY <1>8, MembersOfSeq
<1>13. u = DependencyEdges(g.edges)
  BY <1>1, <1>8, <1>11, <1>12, ZenonT(60) DEF DependencyEdges, Dependency, Mapped
<1> HIDE DEF d, places
<1>14. /\ u \in Seq(EdgeType)
       /\ \A y : y \in ToSet(u) <=> \E x \in ToSet(out) : y = d[x]
  <2>1. \A x \in ToSet(out) : d[x] \in EdgeType
    BY <1>10
  <2> QED BY <1>11, <2>1, MappedIs
<1>15. edges = t \o u
  BY <1>6, <1>13 DEF ScipEdgesOf
<1>16. edges \in Seq(EdgeType) /\ ToSet(edges) = ToSet(t) \cup ToSet(u)
  <2>1. t \in Seq(EdgeType) /\ u \in Seq(EdgeType)
    BY <1>7, <1>14
  <2>2. t \o u \in Seq(EdgeType) /\ ToSet(t \o u) = ToSet(t) \cup ToSet(u)
    BY <2>1, Joined
  <2> QED BY <1>15, <2>2
<1>17. ASSUME NEW a \in ToSet(edges)
       PROVE  \E e \in ToSet(s) : a = Relabeled(e) \/ (Seen(e) /\ a = Dependency(e))
  <2>1. CASE a \in ToSet(t)
    BY <1>4, <1>7, <2>1
  <2>2. CASE a \in ToSet(u)
    BY <1>9, <1>10, <1>14, <2>2
  <2> QED BY <1>16, <1>17, <2>1, <2>2
<1>18. ASSUME NEW e \in ToSet(s) PROVE Relabeled(e) \in ToSet(edges)
  BY <1>4, <1>7, <1>16
<1>19. /\ Len(edges) >= Len(s)
       /\ \A i \in 1 .. Len(s) : edges[i] = t[i]
  <2>1. PICK t1, u1 \in Seq(EdgeType) : t1 = t /\ u1 = u
    BY <1>7, <1>14
  <2>2. /\ Len(t1 \o u1) = Len(t1) + Len(u1) /\ Len(t1) \in Nat /\ Len(u1) \in Nat
        /\ \A i \in 1 .. Len(t1) : (t1 \o u1)[i] = t1[i]
    OBVIOUS
  <2>3. Len(t1) = Len(s)
    BY <1>7, <2>1
  <2> QED BY <1>15, <2>1, <2>2, <2>3
<1>20. \A i \in 1 .. Len(s) : edges[i] = Relabeled(s[i])
  <2>1. \A i \in 1 .. Len(s) : t[i] = Relabeled(s[i])
    BY <1>3, <1>4, <1>5 DEF Mapped
  <2> QED BY <1>19, <2>1
<1> QED BY <1>1, <1>16, <1>17, <1>18, <1>19, <1>20

(* SCIP leaves a sound graph, raises confidence only, and sorts again what *)
(* it redirects.                                                           *)
LEMMA ScipKeeps ==
  ASSUME Given, SoundGraph(graph), \A e \in ToSet(graph.edges) : e.rule \in LinkRules,
         Scip, NEW h, h = graph'
  PROVE  /\ SoundGraph(h) /\ Raises(graph, h)
         /\ \A e \in ToSet(h.edges) : e.rule # "cha-trait-set"
         /\ SamePlaces(graph, h) \/ \E k : SoundGraph(k) /\ h = Canonical(k)
<1>1. PICK g : g = graph
  OBVIOUS
<1>2. g \in GraphType /\ g.edges \in Seq(EdgeType) /\ g.rows \in SUBSET RowType /\ SoundGraph(g)
  BY <1>1, GraphParts DEF SoundGraph
<1>3. PICK edges : edges = ScipEdgesOf(g)
  OBVIOUS
<1> DEFINE rows == {c \in g.rows : c.group \in Groups(edges)}
           dirty == \/ Len(edges) # Len(g.edges)
                    \/ \E i \in DOMAIN edges :
                         edges[i].dst # g.edges[i].dst \/ edges[i].group # g.edges[i].group
<1>4. h = IF dirty THEN Canonical([g EXCEPT !.edges = edges, !.rows = rows])
          ELSE [g EXCEPT !.edges = edges]
  BY <1>1, <1>3 DEF Scip, ScipEdgesOf
<1>5. /\ edges \in Seq(EdgeType)
      /\ \A a \in ToSet(edges) : \E e \in ToSet(g.edges) :
           a = Relabeled(e) \/ (Seen(e) /\ a = Dependency(e))
      /\ \A e \in ToSet(g.edges) : Relabeled(e) \in ToSet(edges)
      /\ \A i \in 1 .. Len(g.edges) : edges[i] = Relabeled(g.edges[i])
  BY <1>2, <1>3, ScipEdges
<1>6. PICK k : k = [g EXCEPT !.edges = edges, !.rows = rows]
  OBVIOUS
<1>7. rows \in SUBSET RowType /\ \A c : c \in rows <=> c \in g.rows /\ c.group \in Groups(edges)
  BY <1>2
<1> HIDE DEF rows
<1>8. k \in GraphType /\ k.edges = edges /\ k.rows = rows
  BY <1>2, <1>5, <1>6, <1>7 DEF GraphType
<1>9. RelabeledBy(g, k)
  BY <1>5, <1>7, <1>8 DEF RelabeledBy
<1>10. /\ SoundGraph(k) /\ Raises(g, k)
       /\ \A e \in ToSet(k.edges) : e.rule # "cha-trait-set"
  <2>1. \A e \in ToSet(g.edges) : e.rule \in LinkRules
    BY <1>1
  <2> QED BY <1>2, <1>9, <2>1, RelabelingKeepsSound
<1>11. CASE dirty
  <2>1. h = Canonical(k)
    BY <1>4, <1>6, <1>11
  <2>2. /\ SoundGraph(h)
        /\ \A e \in ToSet(h.edges) : \E f \in ToSet(k.edges) : Alike(e, f)
        /\ \A f \in ToSet(k.edges) : \E e \in ToSet(h.edges) : Alike(e, f)
    BY <1>10, <2>1, CanonicalKeepsSound
  <2>3. Raises(g, h)
    <3>1. ASSUME NEW e \in ToSet(g.edges)
          PROVE  \E f \in ToSet(h.edges) : AtSiteOf(e, f) /\ f.confidence >= e.confidence
      <4>1. PICK f \in ToSet(k.edges) : AtSiteOf(e, f) /\ f.confidence >= e.confidence
        BY <1>10 DEF Raises
      <4>2. PICK a \in ToSet(h.edges) : Alike(a, f)
        BY <2>2
      <4> QED BY <4>1, <4>2 DEF Alike, AtSiteOf
    <3> QED BY <3>1 DEF Raises
  <2>4. \A e \in ToSet(h.edges) : e.rule # "cha-trait-set"
    BY <1>10, <2>2 DEF Alike
  <2>5. \E x : SoundGraph(x) /\ h = Canonical(x)
    BY <1>10, <2>1
  <2> QED BY <1>1, <2>2, <2>3, <2>4, <2>5
<1>12. CASE ~dirty
  <2>1. h = [g EXCEPT !.edges = edges]
    BY <1>4, <1>12
  <2>2. Len(edges) = Len(g.edges) /\ \A i \in 1 .. Len(edges) : edges[i].group = g.edges[i].group
    <3>1. DOMAIN edges = 1 .. Len(edges)
      BY <1>5
    <3> QED BY <1>12, <3>1
  <2>3. /\ \A n : n \in Groups(edges) <=> n # 0 /\ \E e \in ToSet(edges) : e.group = n
        /\ \A n : n \in Groups(g.edges) <=> n # 0 /\ \E e \in ToSet(g.edges) : e.group = n
    BY <1>2, <1>5, GroupsOf
  <2>4. ASSUME NEW n \in Groups(g.edges) PROVE n \in Groups(edges)
    <3>1. PICK e \in ToSet(g.edges) : e.group = n /\ n # 0
      BY <2>3
    <3>2. PICK i \in 1 .. Len(g.edges) : g.edges[i] = e
      BY <1>2, MembersOfSeq
    <3>3. edges[i].group = n /\ edges[i] \in ToSet(edges)
      BY <1>5, <2>2, <3>1, <3>2, MembersOfSeq
    <3> QED BY <2>3, <3>1, <3>3
  <2>5. \A c \in g.rows : c.group \in Groups(g.edges)
    BY <1>2, SoundRows DEF RowsAreOfGroups
  <2>6. rows = g.rows
    BY <1>7, <2>4, <2>5
  <2>7. h = k
    BY <1>2, <1>6, <2>1, <2>6 DEF GraphType
  <2>8. \A i \in 1 .. Len(g.edges) :
          /\ edges[i].src = g.edges[i].src /\ edges[i].dst = g.edges[i].dst
          /\ edges[i].kind = g.edges[i].kind /\ edges[i].stmt = g.edges[i].stmt
          /\ edges[i].group = g.edges[i].group
    <3>1. ASSUME NEW i \in 1 .. Len(g.edges)
          PROVE  /\ edges[i].src = g.edges[i].src
                 /\ edges[i].kind = g.edges[i].kind /\ edges[i].stmt = g.edges[i].stmt
      <4>1. PICK e \in EdgeType : e = g.edges[i]
        BY <1>2
      <4>2. PICK a : a = Relabeled(e)
        OBVIOUS
      <4>3. edges[i] = a
        BY <1>5, <4>1, <4>2
      <4> QED BY <4>1, <4>2, <4>3, RelabeledIs
    <3>2. \A i \in 1 .. Len(g.edges) :
            edges[i].dst = g.edges[i].dst /\ edges[i].group = g.edges[i].group
      <4>1. DOMAIN edges = 1 .. Len(edges)
        BY <1>5
      <4> QED BY <1>12, <2>2, <4>1
    <3> QED BY <3>1, <3>2
  <2>9. SamePlaces(g, h)
    BY <1>8, <2>2, <2>6, <2>7, <2>8 DEF SamePlaces
  <2> QED BY <1>1, <1>10, <2>7, <2>9
<1> QED BY <1>11, <1>12

-------------------------------------------------------------------------------
(* Canonical form.                                                         *)

(* The edges are in order, and their groups numbered as they first appear. *)
InKeyOrder(edges) ==
  \A i, j \in 1 .. Len(edges) : i < j => ~Precedes(SortKey(edges[j]), SortKey(edges[i]))
NumberedInOrder(edges) ==
  \A j \in 1 .. Len(edges) : \A n \in Groups(edges) :
    n < edges[j].group => \E i \in 1 .. Len(edges) : i < j /\ edges[i].group = n
InCanonicalForm(g) ==
  /\ g \in GraphType /\ RowsAreOfGroups(g)
  /\ InKeyOrder(g.edges) /\ NumberedInOrder(g.edges)
  /\ \E n \in Nat : Groups(g.edges) = 1 .. n

(* t has the edges, each after those it does not go before.                *)
InPlace(n, edges, t) ==
  \A i \in 1 .. n : \E x \in 1 .. n :
    /\ t[i] = edges[x]
    /\ \A y \in 1 .. n : <<y, x>> \in Sooner(edges) => \E j \in 1 .. n : j < i /\ t[j] = edges[y]

(* Where an edge stands once sorted, all that go before it stand before.   *)
LEMMA SortedPlaces ==
  ASSUME NEW edges \in Seq(EdgeType), NEW t, t = Sorted(edges)
  PROVE  /\ t \in Seq(EdgeType) /\ Len(t) = Len(edges)
         /\ InPlace(Len(edges), edges, t) /\ InKeyOrder(t)
<1> DEFINE n == Len(edges)
<1>1. n \in Nat /\ DOMAIN edges = 1 .. n
  OBVIOUS
<1>2. PICK places : Lists(places, DOMAIN edges, Sooner(edges)) /\ t = [i \in DOMAIN edges |-> edges[places[i]]]
  BY SortedPermutes
<1>3. t \in Seq(EdgeType) /\ Len(t) = n
  BY SortedKeeps
<1>4. IsStrictOrder(1 .. n, Sooner(edges)) /\ Cardinality(1 .. n) = n
  BY <1>1, SoonerOrders
<1>5. Lists(places, 1 .. n, Sooner(edges))
  BY <1>1, <1>2
<1> HIDE DEF n
<1>6. \A i \in 1 .. n : t[i] = edges[places[i]]
  BY <1>1, <1>2
<1>7. /\ places \in Seq(1 .. n) /\ Len(places) = n
      /\ \A x \in 1 .. n : \E i \in 1 .. n : places[i] = x
      /\ \A i, j \in 1 .. n : i < j => <<places[i], places[j]>> \in Sooner(edges)
  BY <1>4, <1>5 DEF Lists
<1>8. \A i \in 1 .. n : places[i] \in 1 .. n
  BY <1>7, SMTT(30)
<1>9. ASSUME NEW i \in 1 .. n, NEW y \in 1 .. n, <<y, places[i]>> \in Sooner(edges)
      PROVE  \E j \in 1 .. n : j < i /\ t[j] = edges[y]
  <2>1. PICK j \in 1 .. n : places[j] = y
    BY <1>7
  <2>2. ~(i < j) /\ i # j
    <3>1. ASSUME i < j PROVE FALSE
      <4>1. <<places[i], y>> \in Sooner(edges)
        BY <1>7, <2>1, <3>1
      <4>2. <<y, y>> \in Sooner(edges)
        BY <1>4, <1>8, <1>9, <4>1 DEF IsStrictOrder
      <4> QED BY <1>4, <4>2 DEF IsStrictOrder
    <3>2. ASSUME i = j PROVE FALSE
      BY <1>4, <1>9, <2>1, <3>2 DEF IsStrictOrder
    <3> QED BY <3>1, <3>2
  <2>3. j < i
    BY <1>1, <2>2
  <2> QED BY <1>6, <2>1, <2>3
<1>10. ASSUME NEW i \in 1 .. n, NEW j \in 1 .. n, i < j
       PROVE  ~Precedes(SortKey(t[j]), SortKey(t[i]))
  <2>1. PICK x \in 1 .. n : x = places[i]
    BY <1>8
  <2>2. PICK y \in 1 .. n : y = places[j]
    BY <1>8
  <2>3. <<x, y>> \in Sooner(edges)
    BY <1>7, <1>10, <2>1, <2>2
  <2>4. <<y, x>> \notin Sooner(edges)
    BY <1>4, <2>3 DEF IsStrictOrder
  <2>5. ~Precedes(SortKey(edges[y]), SortKey(edges[x]))
    BY <2>4 DEF Sooner, n
  <2> QED BY <1>6, <2>1, <2>2, <2>5
<1>11. InKeyOrder(t)
  BY <1>3, <1>10 DEF InKeyOrder
<1>12. ASSUME NEW i \in 1 .. n
       PROVE  \E x \in 1 .. n :
              /\ t[i] = edges[x]
              /\ \A y \in 1 .. n :
                   <<y, x>> \in Sooner(edges) => \E j \in 1 .. n : j < i /\ t[j] = edges[y]
  BY <1>6, <1>8, <1>9
<1> QED BY <1>3, <1>11, <1>12 DEF InPlace, n

(* Sorting leaves alone what is in order.                                  *)
LEMMA OrderedIsSorted ==
  ASSUME NEW edges \in Seq(EdgeType), InKeyOrder(edges)
  PROVE  Sorted(edges) = edges
<1> DEFINE n == Len(edges)
           id == [i \in 1 .. n |-> i]
<1>1. n \in Nat /\ DOMAIN edges = 1 .. n /\ \A i \in 1 .. n : edges[i] \in EdgeType
  OBVIOUS
<1>2. PICK places : Lists(places, DOMAIN edges, Sooner(edges))
                    /\ Sorted(edges) = [i \in DOMAIN edges |-> edges[places[i]]]
  BY SortedPermutes
<1>3. /\ IsStrictOrder(DOMAIN edges, Sooner(edges)) /\ IsFiniteSet(DOMAIN edges)
      /\ Cardinality(DOMAIN edges) = n
  BY SoonerOrders
<1>4. ASSUME NEW i \in 1 .. n, NEW j \in 1 .. n, i < j PROVE <<i, j>> \in Sooner(edges)
  <2>1. PICK s \in [1 .. 6 -> Int] : s = SortKey(edges[i])
    BY <1>1, SortKeyType
  <2>2. PICK t \in [1 .. 6 -> Int] : t = SortKey(edges[j])
    BY <1>1, SortKeyType
  <2>3. ~Precedes(t, s)
    BY <1>4, <2>1, <2>2 DEF InKeyOrder
  <2>4. 6 \in Nat
    OBVIOUS
  <2>5. s = t \/ Precedes(s, t)
    BY <2>3, <2>4, PrecedesOrders
  <2> QED BY <1>4, <2>1, <2>2, <2>5 DEF Sooner
<1> HIDE DEF n
<1>5. id \in Seq(1 .. n) /\ Len(id) = n /\ \A i \in 1 .. n : id[i] = i
  BY <1>1
<1>6. PICK u : u = id
  OBVIOUS
<1>7. Lists(u, 1 .. n, Sooner(edges))
  <2>1. u \in Seq(1 .. n) /\ Len(u) = n /\ \A i \in 1 .. n : u[i] = i
    BY <1>5, <1>6
  <2> HIDE DEF id
  <2> QED BY <1>1, <1>3, <1>4, <2>1 DEF Lists
<1>8. places = u
  BY <1>1, <1>2, <1>3, <1>7, ListsAreOne
<1>9. \A i \in DOMAIN edges : edges[places[i]] = edges[i]
  BY <1>1, <1>5, <1>6, <1>8
<1>10. Sorted(edges) = [i \in DOMAIN edges |-> edges[i]]
  BY <1>2, <1>9
<1> QED BY <1>10

(* Renumbering groups keeps the order of edges that carry one, if the new  *)
(* numbers are in order.                                                   *)
LEMMA RegroupedPrecedes ==
  ASSUME NEW a \in EdgeType, NEW b \in EdgeType, ~Precedes(SortKey(b), SortKey(a)),
         a.group # 0, b.group # 0,
         NEW c \in EdgeType, Alike(c, a), NEW d \in EdgeType, Alike(d, b),
         c.group # 0, c.group < d.group
  PROVE  Precedes(SortKey(c), SortKey(d))
<1>1. PICK s \in [1 .. 6 -> Int] : s = SortKey(a)
  BY SortKeyType
<1>2. PICK t \in [1 .. 6 -> Int] : t = SortKey(b)
  BY SortKeyType
<1>3. PICK u \in [1 .. 6 -> Int] : u = SortKey(c)
  BY SortKeyType
<1>4. PICK v \in [1 .. 6 -> Int] : v = SortKey(d)
  BY SortKeyType
<1>5. /\ u[1] = s[1] /\ u[2] = s[2] /\ u[3] = s[3] /\ u[4] = s[4] /\ u[5] = 0 /\ s[5] = 0
      /\ u[6] = c.group
  BY <1>1, <1>3 DEF SortKey, Alike
<1>6. d.group # 0
  BY DEF EdgeType
<1>7. /\ v[1] = t[1] /\ v[2] = t[2] /\ v[3] = t[3] /\ v[4] = t[4] /\ v[5] = 0 /\ t[5] = 0
      /\ v[6] = d.group
  BY <1>2, <1>4, <1>6 DEF SortKey, Alike
<1>8. s = t \/ Precedes(s, t)
  <2>1. 6 \in Nat
    OBVIOUS
  <2> QED BY <1>1, <1>2, <2>1, PrecedesOrders
<1>9. /\ DOMAIN u = 1 .. 6 /\ DOMAIN s = 1 .. 6
      /\ \A i \in 1 .. 4 : u[i] = s[i] /\ v[i] = t[i]
  BY <1>5, <1>7
<1>10. CASE \E i \in 1 .. 4 : s[i] < t[i] /\ \A j \in 1 .. i - 1 : s[j] = t[j]
  <2>1. PICK i \in 1 .. 4 : s[i] < t[i] /\ \A j \in 1 .. i - 1 : s[j] = t[j]
    BY <1>10
  <2>2. u[i] < v[i] /\ \A j \in 1 .. i - 1 : u[j] = v[j]
    BY <1>9, <2>1
  <2>3. i \in DOMAIN u
    BY <1>9
  <2> QED BY <1>3, <1>4, <2>2, <2>3 DEF Precedes
<1>11. CASE ~\E i \in 1 .. 4 : s[i] < t[i] /\ \A j \in 1 .. i - 1 : s[j] = t[j]
  <2>1. \A j \in 1 .. 5 : s[j] = t[j]
    <3>1. CASE s = t
      BY <3>1
    <3>2. CASE Precedes(s, t)
      <4>1. PICK i \in 1 .. 6 : s[i] < t[i] /\ \A j \in 1 .. i - 1 : s[j] = t[j]
        BY <1>9, <3>2 DEF Precedes
      <4>2. i = 6
        BY <1>5, <1>7, <1>11, <4>1
      <4> QED BY <4>1, <4>2
    <3> QED BY <1>8, <3>1, <3>2
  <2>2. \A j \in 1 .. 6 - 1 : u[j] = v[j]
    BY <1>5, <1>7, <2>1
  <2>3. u[6] < v[6] /\ 6 \in DOMAIN u
    BY <1>5, <1>7, <1>9
  <2> QED BY <1>3, <1>4, <2>2, <2>3 DEF Precedes
<1> QED BY <1>10, <1>11

(* canonicalize leaves the graph in canonical form.                        *)
LEMMA CanonicalIsInForm ==
  ASSUME NEW g \in GraphType, RowsAreOfGroups(g), NEW h, h = Canonical(g)
  PROVE  InCanonicalForm(h)
<1>1. h \in GraphType /\ RowsAreOfGroups(h) /\ \E n \in Nat : Groups(h.edges) = 1 .. n
  BY CanonicalRenumbers
<1>2. PICK s : s = Sorted(g.edges)
  OBVIOUS
<1>3. PICK number : number = Renumbering(s, g.rows)
  OBVIOUS
<1>4. PICK r : r = Regroup(s, number)
  OBVIOUS
<1>5. PICK t : t = Sorted(r)
  OBVIOUS
<1>6. h.edges = t
  BY <1>2, <1>3, <1>4, <1>5 DEF Canonical, GraphType
<1>7. s \in Seq(EdgeType) /\ InKeyOrder(s)
  <2>1. PICK e \in Seq(EdgeType) : e = g.edges
    BY GraphParts
  <2> QED BY <1>2, <2>1, SortedPlaces
<1>8. /\ number[0] = 0
      /\ \A e \in ToSet(s) : number[e.group] \in Nat
      /\ \A m \in Groups(s) : number[m] \in 1 .. Cardinality(Groups(s))
      /\ \A m, k \in Groups(s) : FirstOf(s, m) < FirstOf(s, k) <=> number[m] < number[k]
      /\ Cardinality(Groups(s)) \in Nat
  BY <1>3, <1>7, RenumberingType
<1>9. /\ r \in Seq(EdgeType) /\ Len(r) = Len(s)
      /\ \A i \in 1 .. Len(s) : r[i] = [s[i] EXCEPT !.group = number[s[i].group]]
  BY <1>4, <1>7, <1>8, RegroupKeeps
<1> DEFINE n == Len(s)
<1>10. n \in Nat /\ \A i \in 1 .. n : s[i] \in EdgeType /\ s[i] \in ToSet(s) /\ r[i] \in EdgeType
  BY <1>7, <1>9, MembersOfSeq
<1>11. /\ t \in Seq(EdgeType) /\ Len(t) = n
       /\ \A i \in 1 .. n : \E x \in 1 .. n :
            /\ t[i] = r[x]
            /\ \A y \in 1 .. n : <<y, x>> \in Sooner(r) => \E j \in 1 .. n : j < i /\ t[j] = r[y]
       /\ InKeyOrder(t)
  <2>1. /\ t \in Seq(EdgeType) /\ Len(t) = Len(r)
        /\ InPlace(Len(r), r, t) /\ InKeyOrder(t)
    BY <1>5, <1>9, SortedPlaces
  <2>2. Len(r) = n
    BY <1>9
  <2> HIDE DEF n
  <2>3. InPlace(n, r, t)
    BY <2>1, <2>2
  <2> QED BY <2>1, <2>2, <2>3 DEF InPlace
<1>12. ASSUME NEW i \in 1 .. n
       PROVE  /\ Alike(r[i], s[i]) /\ r[i].group = number[s[i].group]
              /\ s[i].group # 0 => s[i].group \in Groups(s)
              /\ r[i].group # 0 <=> s[i].group # 0
  <2>1. PICK e \in EdgeType : e = s[i] /\ e \in ToSet(s)
    BY <1>10
  <2>2. PICK m \in Nat : m = number[e.group]
    BY <1>8, <2>1
  <2>3. r[i] = [e EXCEPT !.group = m]
    BY <1>9, <2>1, <2>2
  <2>4. Alike(r[i], e) /\ r[i].group = m
    BY <2>3 DEF Alike, EdgeType
  <2>5. e.group # 0 => e.group \in Groups(s)
    BY <1>7, <2>1, GroupsOf
  <2>6. e.group # 0 => m # 0
    BY <1>8, <2>2, <2>5
  <2>7. e.group = 0 => m = 0
    BY <1>8, <2>2
  <2> QED BY <2>1, <2>2, <2>4, <2>5, <2>6, <2>7
<1> HIDE DEF n
<1>13. ASSUME NEW i \in 1 .. n, NEW q \in Groups(t), q < t[i].group
       PROVE  \E j \in 1 .. n : j < i /\ t[j].group = q
  <2>1. PICK x \in 1 .. n :
          /\ t[i] = r[x]
          /\ \A y \in 1 .. n : <<y, x>> \in Sooner(r) => \E j \in 1 .. n : j < i /\ t[j] = r[y]
    BY <1>11
  <2>2. PICK e \in ToSet(t) : e.group = q /\ q # 0
    BY <1>11, GroupsOf
  <2>3. PICK k \in 1 .. n : t[k] = e
    BY <1>11, <2>2, MembersOfSeq
  <2>4. PICK z \in 1 .. n : t[k] = r[z]
    BY <1>11
  <2>5. r[z].group = q /\ q # 0
    BY <2>2, <2>3, <2>4
  <2>6. r[x].group \in Nat /\ q \in Nat /\ q < r[x].group
    <3>1. r[x] \in EdgeType /\ r[z] \in EdgeType
      BY <1>10 DEF n
    <3> QED BY <1>13, <2>1, <2>5, <3>1 DEF EdgeType
  <2>7. r[x].group # 0
    BY <2>6
  <2> DEFINE a == s[z].group
             b == s[x].group
             y == FirstOf(s, a)
  <2>8. a \in Groups(s) /\ b \in Groups(s) /\ number[a] = q /\ number[b] = r[x].group
    BY <1>12, <2>5, <2>7
  <2>9. y < FirstOf(s, b)
    BY <1>8, <2>6, <2>8
  <2>10. /\ y \in 1 .. n /\ s[y].group = a /\ FirstOf(s, b) \in 1 .. n /\ FirstOf(s, b) <= x
    BY <1>7, <2>8, FirstOfGroup DEF n
  <2> HIDE DEF a, y
  <2>11. y < x
    BY <1>10, <2>9, <2>10 DEF n
  <2>12. ~Precedes(SortKey(s[x]), SortKey(s[y]))
    BY <1>7, <2>10, <2>11 DEF InKeyOrder, n
  <2>13. r[y].group = q
    BY <1>12, <2>8, <2>10
  <2>14. Precedes(SortKey(r[y]), SortKey(r[x]))
    <3>1. PICK c1 \in EdgeType : c1 = s[y]
      BY <1>10, <2>10 DEF n
    <3>2. PICK c2 \in EdgeType : c2 = s[x]
      BY <1>10 DEF n
    <3>3. PICK d1 \in EdgeType : d1 = r[y]
      BY <1>10, <2>10 DEF n
    <3>4. PICK d2 \in EdgeType : d2 = r[x]
      BY <1>10 DEF n
    <3>5. c1.group # 0 /\ c2.group # 0
      BY <1>12, <2>5, <2>7, <2>10, <2>13, <3>1, <3>2
    <3>6. Alike(d1, c1) /\ Alike(d2, c2)
      BY <1>12, <2>10, <3>1, <3>2, <3>3, <3>4
    <3>7. d1.group # 0 /\ d1.group < d2.group
      BY <2>5, <2>6, <2>13, <3>3, <3>4
    <3>8. ~Precedes(SortKey(c2), SortKey(c1))
      BY <2>12, <3>1, <3>2
    <3>9. Precedes(SortKey(d1), SortKey(d2))
      BY <3>5, <3>6, <3>7, <3>8, RegroupedPrecedes
    <3> QED BY <3>3, <3>4, <3>9
  <2>15. <<y, x>> \in Sooner(r)
    BY <1>9, <2>10, <2>14 DEF Sooner, n
  <2> QED BY <2>1, <2>10, <2>13, <2>15
<1>14. NumberedInOrder(t)
  BY <1>11, <1>13 DEF NumberedInOrder
<1> QED BY <1>1, <1>6, <1>11, <1>14 DEF InCanonicalForm

(* And what is in canonical form it leaves alone.                          *)
LEMMA InFormIsCanonical ==
  ASSUME NEW g, InCanonicalForm(g)
  PROVE  Canonical(g) = g
<1>1. /\ g \in GraphType /\ RowsAreOfGroups(g)
      /\ InKeyOrder(g.edges) /\ NumberedInOrder(g.edges)
      /\ \E n \in Nat : Groups(g.edges) = 1 .. n
  BY DEF InCanonicalForm
<1>2. PICK edges \in Seq(EdgeType) : edges = g.edges
  BY <1>1, GraphParts
<1>3. PICK n \in Nat : Groups(edges) = 1 .. n
  BY <1>1, <1>2
<1>4. Sorted(edges) = edges
  BY <1>1, <1>2, OrderedIsSorted
<1>5. PICK number : number = Renumbering(edges, g.rows)
  OBVIOUS
<1>6. ASSUME NEW m \in 1 .. n, NEW k \in 1 .. n PROVE FirstOf(edges, m) < FirstOf(edges, k) <=> m < k
  <2>1. ASSUME NEW a \in 1 .. n, NEW b \in 1 .. n, a < b PROVE FirstOf(edges, a) < FirstOf(edges, b)
    <3>1. PICK j \in 1 .. Len(edges) : j = FirstOf(edges, b) /\ edges[j].group = b
      BY <1>3, FirstOfGroup
    <3>2. PICK i \in 1 .. Len(edges) : i < j /\ edges[i].group = a
      BY <1>1, <1>2, <1>3, <2>1, <3>1 DEF NumberedInOrder
    <3>3. PICK f \in 1 .. Len(edges) : f = FirstOf(edges, a) /\ f <= i
      BY <1>3, <3>2, FirstOfGroup
    <3> QED BY <3>1, <3>2, <3>3
  <2>2. FirstOf(edges, m) \in 1 .. Len(edges) /\ FirstOf(edges, k) \in 1 .. Len(edges)
    BY <1>3, FirstOfGroup
  <2>3. m < k => FirstOf(edges, m) < FirstOf(edges, k)
    BY <2>1
  <2>4. k < m => FirstOf(edges, k) < FirstOf(edges, m)
    BY <2>1
  <2>5. PICK p, q \in 1 .. Len(edges) : p = FirstOf(edges, m) /\ q = FirstOf(edges, k)
    BY <2>2
  <2>6. m = k => p = q
    BY <2>5
  <2>7. (m < k => p < q) /\ (k < m => q < p)
    BY <2>3, <2>4, <2>5
  <2>8. p < q <=> m < k
    BY <2>6, <2>7
  <2> QED BY <2>5, <2>8
<1>7. number[0] = 0 /\ \A m \in 1 .. n : number[m] = m
  <2>1. /\ number[0] = 0
        /\ \A m \in Groups(edges) :
             number[m] = 1 + Cardinality({k \in Groups(edges) : FirstOf(edges, k) < FirstOf(edges, m)})
    BY <1>5, RenumberingIs
  <2>2. ASSUME NEW m \in 1 .. n PROVE number[m] = m
    <3>1. {k \in Groups(edges) : FirstOf(edges, k) < FirstOf(edges, m)} = 1 .. m - 1
      <4>1. \A k \in 1 .. n : FirstOf(edges, k) < FirstOf(edges, m) <=> k < m
        BY <1>6
      <4>2. {k \in 1 .. n : FirstOf(edges, k) < FirstOf(edges, m)} = {k \in 1 .. n : k < m}
        BY <4>1
      <4>3. {k \in 1 .. n : k < m} = 1 .. m - 1
        OBVIOUS
      <4> QED BY <1>3, <4>2, <4>3
    <3>2. Cardinality(1 .. m - 1) = m - 1
      <4>1. m - 1 \in Nat /\ 1 \in Int
        OBVIOUS
      <4>2. PICK p \in Nat : p = m - 1
        BY <4>1
      <4>3. Cardinality(1 .. p) = p
        BY FS_Interval
      <4> QED BY <4>2, <4>3
    <3>3. PICK c : c = Cardinality({k \in Groups(edges) : FirstOf(edges, k) < FirstOf(edges, m)})
      OBVIOUS
    <3>4. c = m - 1
      BY <3>1, <3>2, <3>3
    <3>5. number[m] = 1 + c
      BY <1>3, <2>1, <3>3
    <3>6. 1 + (m - 1) = m
      OBVIOUS
    <3> QED BY <3>4, <3>5, <3>6
  <2> QED BY <2>1, <2>2
<1>8. \A e \in ToSet(edges) : e \in EdgeType /\ number[e.group] = e.group
  <2>1. ASSUME NEW e \in ToSet(edges) PROVE e \in EdgeType /\ number[e.group] = e.group
    <3>1. e \in EdgeType
      BY MembersOfSeq
    <3>2. e.group # 0 => e.group \in 1 .. n
      BY <1>3, GroupsOf
    <3> QED BY <1>7, <3>1, <3>2
  <2> QED BY <2>1
<1>9. Regroup(edges, number) = edges
  <2>1. ASSUME NEW i \in DOMAIN edges PROVE [edges[i] EXCEPT !.group = number[@]] = edges[i]
    <3>1. PICK e \in EdgeType : e = edges[i] /\ number[e.group] = e.group
      <4>1. edges[i] \in ToSet(edges)
        BY MembersOfSeq
      <4> QED BY <1>8, <4>1
    <3>2. [e EXCEPT !.group = e.group] = e
      BY DEF EdgeType
    <3> QED BY <3>1, <3>2
  <2>2. Regroup(edges, number) = [i \in DOMAIN edges |-> edges[i]]
    BY <2>1 DEF Regroup
  <2> QED BY <2>2
<1>10. {[c EXCEPT !.group = number[@]] : c \in g.rows} = g.rows
  <2>1. ASSUME NEW c \in g.rows PROVE [c EXCEPT !.group = number[@]] = c
    <3>1. c \in RowType /\ c.group \in 1 .. n
      BY <1>1, <1>2, <1>3, GraphParts DEF RowsAreOfGroups
    <3>2. number[c.group] = c.group
      BY <1>7, <3>1
    <3>3. [c EXCEPT !.group = c.group] = c
      BY <3>1 DEF RowType
    <3> QED BY <3>2, <3>3
  <2> QED BY <2>1
<1>11. Canonical(g) = [g EXCEPT !.edges = edges, !.rows = g.rows]
  BY <1>2, <1>4, <1>5, <1>9, <1>10 DEF Canonical
<1>12. [g EXCEPT !.edges = g.edges, !.rows = g.rows] = g
  BY <1>1 DEF GraphType
<1> QED BY <1>2, <1>11, <1>12

(* What canonicalize does not look at may change.                          *)
LEMMA SamePlacesKeepForm ==
  ASSUME NEW g, InCanonicalForm(g), NEW h \in GraphType, SamePlaces(g, h)
  PROVE  InCanonicalForm(h)
<1>1. /\ g \in GraphType /\ RowsAreOfGroups(g)
      /\ InKeyOrder(g.edges) /\ NumberedInOrder(g.edges)
      /\ \E n \in Nat : Groups(g.edges) = 1 .. n
  BY DEF InCanonicalForm
<1>2. PICK s \in Seq(EdgeType) : s = g.edges
  BY <1>1, GraphParts
<1>3. PICK t \in Seq(EdgeType) : t = h.edges
  BY GraphParts
<1>4. PICK n \in Nat : n = Len(s)
  OBVIOUS
<1>5. Len(t) = n /\ h.rows = g.rows
  BY <1>2, <1>3, <1>4 DEF SamePlaces
<1>6. \A i \in 1 .. n :
         /\ t[i].src = s[i].src /\ t[i].dst = s[i].dst
         /\ t[i].kind = s[i].kind /\ t[i].stmt = s[i].stmt /\ t[i].group = s[i].group
  BY <1>2, <1>3, <1>4 DEF SamePlaces
<1>7. \A i \in 1 .. n : SortKey(t[i]) = SortKey(s[i])
  BY <1>6 DEF SortKey
<1>8. \A m : m \in Groups(t) <=> m \in Groups(s)
  <2>1. /\ \A m : m \in Groups(t) <=> m # 0 /\ \E e \in ToSet(t) : e.group = m
        /\ \A m : m \in Groups(s) <=> m # 0 /\ \E e \in ToSet(s) : e.group = m
    BY GroupsOf
  <2>2. /\ \A e : e \in ToSet(t) <=> \E i \in 1 .. n : t[i] = e
        /\ \A e : e \in ToSet(s) <=> \E i \in 1 .. n : s[i] = e
    BY <1>4, <1>5, MembersOfSeq
  <2> QED BY <1>6, <2>1, <2>2
<1>9. Groups(t) = Groups(s)
  BY <1>8
<1>10. InKeyOrder(t)
  BY <1>1, <1>2, <1>4, <1>5, <1>7 DEF InKeyOrder
<1>11. NumberedInOrder(t)
  <2>1. ASSUME NEW j \in 1 .. n, NEW m \in Groups(t), m < t[j].group
        PROVE  \E i \in 1 .. n : i < j /\ t[i].group = m
    <3>1. NumberedInOrder(s)
      BY <1>1, <1>2
    <3>2. m \in Groups(s) /\ m < s[j].group
      BY <1>6, <1>9, <2>1
    <3>3. PICK i \in 1 .. n : i < j /\ s[i].group = m
      BY <1>4, <3>1, <3>2 DEF NumberedInOrder
    <3> QED BY <1>6, <3>3
  <2> QED BY <1>5, <2>1 DEF NumberedInOrder
<1>12. RowsAreOfGroups(h)
  BY <1>1, <1>2, <1>3, <1>5, <1>9 DEF RowsAreOfGroups
<1> QED BY <1>1, <1>2, <1>3, <1>9, <1>10, <1>11, <1>12 DEF InCanonicalForm

-------------------------------------------------------------------------------
(* The passes one after another.                                           *)

(* The invariant of the passes: what they keep of the graph g, at stage s, *)
(* with the references t still to resolve.                                 *)
PassInv(g, s, t) ==
  /\ Given
  /\ t \in Seq(References)
  /\ SoundGraph(g)
  /\ s = "link" => AsLinked(ToSet(g.edges))
  /\ s \in {"link", "scip"} => \A e \in ToSet(g.edges) : e.rule \in LinkRules
  /\ s \in {"link", "scip", "cha"} => \A e \in ToSet(g.edges) : e.rule # "cha-trait-set"
  /\ s # "link" => InCanonicalForm(g)
GraphInv == PassInv(graph, stage, todo)

(* It is about the code and the order of its files, which no step changes. *)
LEMMA SameMeaning ==
  ASSUME code' = code, order' = order
  PROVE  /\ Given' <=> Given
         /\ References' = References
         /\ \A es : AsLinked(es)' <=> AsLinked(es)
         /\ \A x : SoundGraph(x)' <=> SoundGraph(x)
         /\ \A x, r : Complete(x, r)' <=> Complete(x, r)
<1>1. Given' <=> Given
  BY DEF Given
<1>2. References' = References
  BY DEF References, RefsIn
<1>3. ASSUME NEW e PROVE OfReference(e)' <=> OfReference(e)
  BY <1>2 DEF OfReference
<1>r. ASSUME NEW o, NEW r PROVE Resolution(o, r)' = Resolution(o, r)
  <2>3. ASSUME NEW m, NEW x PROVE ResolveMember(o, m, x)' = ResolveMember(o, m, x)
    BY DEF ResolveMember, NextHop, ReexportsIn
  <2>4. Imported(o, r)' = Imported(o, r)
    BY <2>3 DEF Imported
  <2>5. Steps(o, r)' = Steps(o, r)
    BY <2>4 DEF Steps
  <2> QED BY <2>5 DEF Resolution
<1>s. ASSUME NEW r PROVE Resolution(order, r)' = Resolution(order, r)
  <2>1. PICK o : o = order /\ o = order'
    OBVIOUS
  <2>2. Resolution(o, r)' = Resolution(o, r)
    BY <1>r
  <2> QED BY <2>1, <2>2
<1>4. ASSUME NEW e, NEW r PROVE OfRef(e, r)' <=> OfRef(e, r)
  <2>1. PICK f : f = Resolution(order, r)
    OBVIOUS
  <2>2. Resolution(order, r)' = f
    BY <1>s, <2>1
  <2> QED BY <2>1, <2>2 DEF OfRef
<1>5. ASSUME NEW es PROVE AsLinked(es)' <=> AsLinked(es)
  BY <1>2, <1>4 DEF AsLinked
<1>6. ASSUME NEW es PROVE CallsAreAlike(es)' <=> CallsAreAlike(es)
  BY <1>3 DEF CallsAreAlike
<1>7. ASSUME NEW es PROVE IsCertain(es)' <=> IsCertain(es)
  BY DEF IsCertain
<1>8. ASSUME NEW x PROVE SoundGraph(x)' <=> SoundGraph(x)
  BY <1>6, <1>7 DEF SoundGraph, Sound
<1>9. ASSUME NEW x, NEW r PROVE Complete(x, r)' <=> Complete(x, r)
  <2>1. PICK f : f = Resolution(order, r)
    OBVIOUS
  <2>2. Resolution(order, r)' = f
    BY <1>s, <2>1
  <2> QED BY <1>4, <2>1, <2>2 DEF Complete
<1> QED BY <1>1, <1>2, <1>5, <1>8, <1>9

(* So the invariant after a step is that of what the step leaves.          *)
LEMMA SameCode ==
  ASSUME code' = code, order' = order,
         NEW g, g = graph', NEW s, s = stage', NEW t, t = todo', PassInv(g, s, t)
  PROVE  GraphInv'
<1>1. GraphInv' <=> PassInv(g, s, t)'
  BY DEF GraphInv
<1>2. PassInv(g, s, t)' <=> PassInv(g, s, t)
  BY SameMeaning DEF PassInv
<1> QED BY <1>1, <1>2

(* What one step of the passes does to the graph.                          *)
SharpensOnly(g, h, s) ==
  /\ LosesNoCall(g, h)
  /\ IF s = "scip" THEN Raises(g, h) ELSE KeepsSettled(g, h)

(* Before the first reference is linked the invariant holds: there are no  *)
(* edges.                                                                  *)
LEMMA GraphInvAtFirst == ResolverInit => GraphInv
<1> SUFFICES ASSUME ResolverInit PROVE GraphInv
  OBVIOUS
<1>1. /\ code \in Codes /\ order \in SetToSeqs(DOMAIN code.files)
      /\ stage = "link" /\ todo = RefsIn(order) /\ graph = Empty
  BY DEF ResolverInit, LinkInit
<1>2. Given
  BY <1>1 DEF Given
<1>3. todo \in Seq(References)
  <2>1. RefsIn(order) \in Seq(RawRef)
    BY <1>2, RefsOfCode
  <2>2. PICK s \in Seq(RawRef) : s = RefsIn(order)
    BY <2>1
  <2>3. References = ToSet(s)
    BY <2>2 DEF References
  <2>4. s \in Seq(ToSet(s))
    <3>1. \A i \in 1 .. Len(s) : s[i] \in ToSet(s)
      BY MembersOfSeq
    <3> HIDE DEF ToSet
    <3> QED BY <3>1
  <2> QED BY <1>1, <2>2, <2>3, <2>4
<1>4. graph.edges = <<>> /\ graph.rows = {} /\ graph \in GraphType
  BY <1>1 DEF Empty, GraphType
<1>5. ToSet(graph.edges) = {}
  BY <1>4 DEF ToSet
<1>6. AsLinked(ToSet(graph.edges)) /\ GroupsAreOfCalls(ToSet(graph.edges), graph.rows)
  BY <1>4, <1>5 DEF AsLinked, GroupsAreOfCalls
<1>7. SoundGraph(graph)
  <2>1. PICK g \in GraphType : g = graph
    BY <1>4
  <2> QED BY <1>2, <1>6, <2>1, LinkedIsSound
<1> QED BY <1>1, <1>2, <1>3, <1>5, <1>6, <1>7 DEF GraphInv, PassInv

(* The steps, one by one.                                                  *)
LEMMA LinkRefStep ==
  ASSUME GraphInv, LinkRef, NEW h, h = graph', NEW t, t = todo'
  PROVE  PassInv(h, stage, t) /\ SharpensOnly(graph, h, stage)
<1>1. /\ Given /\ todo \in Seq(References) /\ SoundGraph(graph) /\ stage = "link"
      /\ AsLinked(ToSet(graph.edges)) /\ \A e \in ToSet(graph.edges) : e.rule \in LinkRules
  BY DEF GraphInv, PassInv, LinkRef
<1>2. todo # <<>> /\ h = Linked(order, graph, Head(todo)) /\ t = Tail(todo)
  BY DEF LinkRef
<1>3. Head(todo) \in References /\ t \in Seq(References)
  BY <1>1, <1>2
<1>4. PICK r \in References : r = Head(todo)
  BY <1>3
<1>5. PICK g \in GraphType : g = graph
  BY <1>1 DEF SoundGraph
<1>6. GroupsAreOfCalls(ToSet(g.edges), g.rows)
  BY <1>1, <1>5 DEF SoundGraph, Sound
<1>7. /\ h \in GraphType /\ AsLinked(ToSet(h.edges)) /\ GroupsAreOfCalls(ToSet(h.edges), h.rows)
      /\ ToSet(g.edges) \subseteq ToSet(h.edges)
  BY <1>1, <1>2, <1>4, <1>5, <1>6, LinkKeeps
<1>8. SoundGraph(h) /\ \A e \in ToSet(h.edges) : e.rule \in LinkRules
  BY <1>1, <1>7, LinkedIsSound
<1>9. \A r1 \in LinkRules : r1 \notin {"scip", "scip-dep", "cha-trait-set"}
  BY DEF LinkRules
<1>10. LosesNoCall(g, h)
  <2>1. \A e \in ToSet(g.edges) : e \in ToSet(h.edges) /\ AtSiteOf(e, e)
    BY <1>7 DEF AtSiteOf
  <2> QED BY <2>1 DEF LosesNoCall
<1>11. KeepsSettled(g, h)
  <2>1. \A e \in ToSet(g.edges) \cup ToSet(h.edges) : ~IsSettled(e)
    BY <1>1, <1>5, <1>8, <1>9 DEF IsSettled
  <2> QED BY <2>1 DEF KeepsSettled
<1> QED BY <1>1, <1>3, <1>5, <1>7, <1>8, <1>9, <1>10, <1>11 DEF PassInv, SharpensOnly

(* Then the edges are put in canonical form.                               *)
LEMMA FinalizeStep ==
  ASSUME GraphInv, Finalize, NEW h, h = graph'
  PROVE  PassInv(h, "scip", todo) /\ SharpensOnly(graph, h, stage)
<1>1. /\ Given /\ todo \in Seq(References) /\ SoundGraph(graph) /\ stage = "link"
      /\ \A e \in ToSet(graph.edges) : e.rule \in LinkRules
  BY DEF GraphInv, PassInv, Finalize
<1>2. h = Canonical(graph)
  BY DEF Finalize
<1>3. PICK g \in GraphType : g = graph
  BY <1>1 DEF SoundGraph
<1>4. SoundGraph(g) /\ h = Canonical(g)
  BY <1>1, <1>2, <1>3
<1>5. /\ SoundGraph(h)
      /\ \A e \in ToSet(h.edges) : \E f \in ToSet(g.edges) : Alike(e, f)
      /\ \A f \in ToSet(g.edges) : \E e \in ToSet(h.edges) : Alike(e, f)
  BY <1>4, CanonicalKeepsSound
<1>6. InCanonicalForm(h)
  <2>1. RowsAreOfGroups(g)
    BY <1>4, SoundRows
  <2> QED BY <1>4, <2>1, CanonicalIsInForm
<1>7. \A e \in ToSet(h.edges) : e.rule \in LinkRules
  BY <1>1, <1>3, <1>5 DEF Alike
<1>8. \A r \in LinkRules : r \notin {"scip", "scip-dep", "cha-trait-set"}
  BY DEF LinkRules
<1>9. LosesNoCall(g, h)
  <2>1. \A e, f : Alike(f, e) => AtSiteOf(e, f)
    BY DEF Alike, AtSiteOf
  <2> QED BY <1>5, <2>1 DEF LosesNoCall
<1>10. KeepsSettled(g, h)
  <2>1. \A e \in ToSet(g.edges) \cup ToSet(h.edges) : ~IsSettled(e)
    BY <1>1, <1>3, <1>7, <1>8 DEF IsSettled
  <2> QED BY <2>1 DEF KeepsSettled
<1> QED BY <1>1, <1>3, <1>5, <1>6, <1>7, <1>8, <1>9, <1>10 DEF PassInv, SharpensOnly

(* A pass that leaves the graph alone or in canonical form keeps its form. *)
LEMMA FormKept ==
  ASSUME InCanonicalForm(graph),
         NEW h, h = graph \/ \E k : SoundGraph(k) /\ h = Canonical(k)
  PROVE  InCanonicalForm(h)
<1>1. CASE h = graph
  BY <1>1
<1>2. CASE \E k : SoundGraph(k) /\ h = Canonical(k)
  <2>1. PICK k : SoundGraph(k) /\ h = Canonical(k)
    BY <1>2
  <2>2. k \in GraphType /\ RowsAreOfGroups(k)
    BY <2>1, SoundRows
  <2> QED BY <2>1, <2>2, CanonicalIsInForm
<1> QED BY <1>1, <1>2

(* SCIP may redirect a call and raise what is known of it.                 *)
LEMMA ScipStep ==
  ASSUME GraphInv, Scip, NEW h, h = graph'
  PROVE  PassInv(h, "cha", todo) /\ SharpensOnly(graph, h, stage)
<1>1. /\ Given /\ todo \in Seq(References) /\ SoundGraph(graph) /\ stage = "scip"
      /\ \A e \in ToSet(graph.edges) : e.rule \in LinkRules
      /\ InCanonicalForm(graph)
  BY DEF GraphInv, PassInv, Scip
<1>2. /\ SoundGraph(h) /\ Raises(graph, h)
      /\ \A e \in ToSet(h.edges) : e.rule # "cha-trait-set"
      /\ SamePlaces(graph, h) \/ \E k : SoundGraph(k) /\ h = Canonical(k)
  BY <1>1, ScipKeeps
<1>3. InCanonicalForm(h)
  <2>1. CASE SamePlaces(graph, h)
    <3>1. PICK g : g = graph
      OBVIOUS
    <3>2. h \in GraphType
      BY <1>2 DEF SoundGraph
    <3> QED BY <1>1, <2>1, <3>1, <3>2, SamePlacesKeepForm
  <2>2. CASE \E k : SoundGraph(k) /\ h = Canonical(k)
    BY <1>1, <2>2, FormKept
  <2> QED BY <1>2, <2>1, <2>2
<1>4. LosesNoCall(graph, h)
  BY <1>2 DEF Raises, LosesNoCall
<1> QED BY <1>1, <1>2, <1>3, <1>4 DEF PassInv, SharpensOnly

(* CHA gives calls by name the implementations of the traits.              *)
LEMMA ChaStep ==
  ASSUME GraphInv, Cha, NEW h, h = graph'
  PROVE  PassInv(h, "rta", todo) /\ SharpensOnly(graph, h, stage)
<1>1. /\ Given /\ todo \in Seq(References) /\ SoundGraph(graph) /\ stage = "cha"
      /\ \A e \in ToSet(graph.edges) : e.rule # "cha-trait-set"
      /\ InCanonicalForm(graph)
  BY DEF GraphInv, PassInv, Cha
<1>2. /\ SoundGraph(h) /\ Sharpens(graph, h)
      /\ h = graph \/ \E k : SoundGraph(k) /\ h = Canonical(k)
  BY <1>1, ChaKeeps
<1>3. InCanonicalForm(h)
  BY <1>1, <1>2, FormKept
<1> QED BY <1>1, <1>2, <1>3 DEF PassInv, SharpensOnly, Sharpens

(* RTA drops those of types that nothing constructs.                       *)
LEMMA RtaStep ==
  ASSUME GraphInv, Rta, NEW h, h = graph'
  PROVE  PassInv(h, "sig", todo) /\ SharpensOnly(graph, h, stage)
<1>1. /\ Given /\ todo \in Seq(References) /\ SoundGraph(graph) /\ stage = "rta"
      /\ InCanonicalForm(graph)
  BY DEF GraphInv, PassInv, Rta
<1>2. /\ SoundGraph(h) /\ Sharpens(graph, h)
      /\ h = graph \/ \E k : SoundGraph(k) /\ h = Canonical(k)
  BY <1>1, RtaKeeps
<1>3. InCanonicalForm(h)
  BY <1>1, <1>2, FormKept
<1> QED BY <1>1, <1>2, <1>3 DEF PassInv, SharpensOnly, Sharpens

(* Calls of function values get the callables of their arity.              *)
LEMMA SigStep ==
  ASSUME GraphInv, Sig, NEW h, h = graph'
  PROVE  PassInv(h, "effects", todo) /\ SharpensOnly(graph, h, stage)
<1>1. /\ Given /\ todo \in Seq(References) /\ SoundGraph(graph) /\ stage = "sig"
      /\ InCanonicalForm(graph)
  BY DEF GraphInv, PassInv, Sig
<1>2. /\ SoundGraph(h) /\ Sharpens(graph, h)
      /\ h = graph \/ \E k : SoundGraph(k) /\ h = Canonical(k)
  BY <1>1, SigKeeps
<1>3. InCanonicalForm(h)
  BY <1>1, <1>2, FormKept
<1> QED BY <1>1, <1>2, <1>3 DEF PassInv, SharpensOnly, Sharpens

(* No step breaks the invariant, and none that changes the graph does more *)
(* than sharpen it.                                                        *)
LEMMA GraphInvKept ==
  ASSUME GraphInv, [ResolverNext]_resolverVars
  PROVE  GraphInv' /\ (graph' # graph => SharpensOnly(graph, graph', stage))
<1>1. PICK h : h = graph'
  OBVIOUS
<1>2. PICK s : s = stage'
  OBVIOUS
<1>3. PICK t : t = todo'
  OBVIOUS
<1>4. SUFFICES /\ code' = code /\ order' = order /\ PassInv(h, s, t)
               /\ h # graph => SharpensOnly(graph, h, stage)
  BY <1>1, <1>2, <1>3, SameCode
<1>5. CASE LinkRef
  <2>1. code' = code /\ order' = order /\ s = stage
    BY <1>2, <1>5 DEF LinkRef
  <2> QED BY <1>1, <1>3, <1>5, <2>1, LinkRefStep
<1>6. CASE Finalize
  <2>1. code' = code /\ order' = order /\ s = "scip" /\ t = todo
    BY <1>2, <1>3, <1>6 DEF Finalize
  <2> QED BY <1>1, <1>6, <2>1, FinalizeStep
<1>7. CASE Scip
  <2>1. code' = code /\ order' = order /\ s = "cha" /\ t = todo
    BY <1>2, <1>3, <1>7 DEF Scip, Advance
  <2> QED BY <1>1, <1>7, <2>1, ScipStep
<1>8. CASE Cha
  <2>1. code' = code /\ order' = order /\ s = "rta" /\ t = todo
    BY <1>2, <1>3, <1>8 DEF Cha, Advance
  <2> QED BY <1>1, <1>8, <2>1, ChaStep
<1>9. CASE Rta
  <2>1. code' = code /\ order' = order /\ s = "sig" /\ t = todo
    BY <1>2, <1>3, <1>9 DEF Rta, Advance
  <2> QED BY <1>1, <1>9, <2>1, RtaStep
<1>10. CASE Sig
  <2>1. code' = code /\ order' = order /\ s = "effects" /\ t = todo
    BY <1>2, <1>3, <1>10 DEF Sig, Advance
  <2> QED BY <1>1, <1>10, <2>1, SigStep
<1>11. CASE UNCHANGED <<code, order, stage, todo, graph>>
  BY <1>1, <1>2, <1>3, <1>11 DEF GraphInv
<1>12. CASE Close /\ UNCHANGED <<code, order, todo, graph>>
  <2>1. stage = "effects" /\ s = "done" /\ h = graph /\ t = todo
    BY <1>1, <1>2, <1>3, <1>12 DEF Close
  <2> QED BY <1>12, <2>1 DEF GraphInv, PassInv
<1> QED BY <1>5, <1>6, <1>7, <1>8, <1>9, <1>10, <1>11, <1>12 DEF ResolverNext, resolverVars

(* The invariant the results below rest on.                                *)
THEOREM GraphInvHolds == ResolverSpec => []GraphInv
<1>1. ResolverInit => GraphInv
  BY GraphInvAtFirst
<1>2. GraphInv /\ [ResolverNext]_resolverVars => GraphInv'
  BY GraphInvKept
<1> QED BY <1>1, <1>2, PTL DEF ResolverSpec

(* A certain edge leads to the only place its call leads to, through every *)
(* pass, but for a definition SCIP knows and the graph does not.           *)
THEOREM CertainCallsAreUnambiguous == ResolverSpec => []CertainIsUnambiguous
<1>1. ASSUME GraphInv PROVE CertainIsUnambiguous
  <2>1. SoundGraph(graph)
    BY <1>1 DEF GraphInv, PassInv
  <2>2. IsCertain(ToSet(graph.edges))
    BY <2>1 DEF SoundGraph, Sound
  <2> QED BY <2>2 DEF IsCertain, CertainIsUnambiguous
<1> QED BY <1>1, GraphInvHolds, PTL

(* Every pass leaves a graph that canonicalize would not change.           *)
THEOREM CanonicalFixed == ResolverSpec => []CanonicalIsFixed
<1>1. ASSUME GraphInv PROVE CanonicalIsFixed
  <2>1. ASSUME stage # "link" PROVE Canonical(graph) = graph
    <3>1. PICK g : g = graph
      OBVIOUS
    <3>2. InCanonicalForm(g)
      BY <1>1, <2>1, <3>1 DEF GraphInv, PassInv
    <3>3. Canonical(g) = g
      BY <3>2, InFormIsCanonical
    <3> QED BY <3>1, <3>3
  <2> QED BY <2>1 DEF CanonicalIsFixed
<1> QED BY <1>1, GraphInvHolds, PTL

(* One group: the edges of es and the rows of rs that carry the number n.  *)
OneGroup(es, rs, n) ==
  LET Of == {e \in es : e.group = n}
  IN  /\ Cardinality({<<e.src, e.site>> : e \in Of}) = 1
      /\ {c.dst : c \in {c \in rs : c.group = n}} = {e.dst : e \in Of}
      /\ Cardinality({c \in rs : c.group = n}) = Cardinality({e.dst : e \in Of})
      /\ Cardinality({e.dst : e \in Of}) > 1

(* A group is of one call, has two targets or more, and a row for each.    *)
LEMMA GroupIsACall ==
  ASSUME NEW es, IsFiniteSet(es), NEW rs, GroupsAreOfCalls(es, rs),
         NEW n, n # 0, \E e \in es : e.group = n
  PROVE  OneGroup(es, rs, n)
<1> DEFINE Of == {e \in es : e.group = n}
           D == {e.dst : e \in Of}
           R == {c \in rs : c.group = n}
<1>1. PICK e \in es : e.group = n
  OBVIOUS
<1>2. /\ \A a, b \in es : a.group = n /\ b.group = n => SameCall(a, b)
      /\ \A a \in es : a.group = n =>
           /\ \E f \in es : f.group = n /\ f.dst # a.dst
           /\ \E c \in rs : c.group = n /\ c.dst = a.dst
      /\ \A c \in rs : c.group = n => \E a \in es : a.group = n /\ a.dst = c.dst
      /\ \A c, d \in rs : c.group = n /\ d.group = n /\ c.dst = d.dst => c = d
  BY DEF GroupsAreOfCalls
<1>3. {<<a.src, a.site>> : a \in Of} = {<<e.src, e.site>>}
  <2>1. ASSUME NEW a \in Of PROVE <<a.src, a.site>> = <<e.src, e.site>>
    <3>1. SameCall(a, e)
      BY <1>1, <1>2
    <3> QED BY <3>1 DEF SameCall
  <2>2. e \in Of
    BY <1>1
  <2> HIDE DEF Of
  <2> QED BY <2>1, <2>2
<1>4. Cardinality({<<a.src, a.site>> : a \in Of}) = 1
  <2>1. PICK x : x = <<e.src, e.site>>
    OBVIOUS
  <2>2. Cardinality({x}) = 1
    BY FS_Singleton
  <2> HIDE DEF Of
  <2> QED BY <1>3, <2>1, <2>2
<1>5. \A d : d \in D <=> \E a \in es : a.group = n /\ a.dst = d
  OBVIOUS
<1>6. \A c : c \in R <=> c \in rs /\ c.group = n
  OBVIOUS
<1>7. IsFiniteSet(D)
  <2>1. IsFiniteSet(Of)
    BY FS_Subset
  <2> DEFINE f == [a \in Of |-> a.dst]
  <2>2. D = {f[a] : a \in Of}
    OBVIOUS
  <2>3. PICK T : T = D
    OBVIOUS
  <2> HIDE DEF f, Of, D
  <2>4. IsFiniteSet(T)
    BY <2>1, <2>2, <2>3, FiniteImage
  <2> QED BY <2>3, <2>4
<1>a. ASSUME NEW d \in D PROVE \E c \in R : c.dst = d
  <2> HIDE DEF D, R, Of
  <2>1. PICK a \in es : a.group = n /\ a.dst = d
    BY <1>5
  <2>2. PICK c \in rs : c.group = n /\ c.dst = a.dst
    BY <1>2, <2>1
  <2> QED BY <1>6, <2>1, <2>2
<1>b. ASSUME NEW c \in R PROVE c.dst \in D
  <2> HIDE DEF D, R, Of
  <2>1. c \in rs /\ c.group = n
    BY <1>6
  <2>2. PICK a \in es : a.group = n /\ a.dst = c.dst
    BY <1>2, <2>1
  <2> QED BY <1>5, <2>2
<1>8. {c.dst : c \in R} = D
  <2>1. \A d : d \in {c.dst : c \in R} <=> \E c \in R : c.dst = d
    OBVIOUS
  <2> HIDE DEF R, D
  <2>2. \A d : d \in {c.dst : c \in R} <=> d \in D
    BY <1>a, <1>b, <2>1
  <2> QED BY <2>2
<1> HIDE DEF D, R
<1>9. Cardinality(R) = Cardinality(D)
  <2> DEFINE row == [d \in D |-> CHOOSE c \in R : c.dst = d]
  <2>1. ASSUME NEW d \in D PROVE row[d] \in R /\ row[d].dst = d
    <3>1. \E c \in R : c.dst = d
      BY <1>a
    <3> QED BY <3>1
  <2>2. row \in [D -> R]
    BY <2>1
  <2>3. \A c \in R : \E d \in D : row[d] = c
    <3>1. ASSUME NEW c \in R PROVE \E d \in D : row[d] = c
      <4>1. c.dst \in D
        BY <1>b
      <4>2. row[c.dst] \in R /\ row[c.dst].dst = c.dst
        BY <2>1, <4>1
      <4> HIDE DEF row
      <4> QED BY <1>2, <1>6, <4>1, <4>2, SMTT(30)
    <3> QED BY <3>1
  <2> HIDE DEF row
  <2>4. row \in Bijection(D, R)
    BY <2>1, <2>2, <2>3 DEF Bijection, Injection, Surjection, IsInjective
  <2> QED BY <1>7, <2>4, FS_Bijection DEF ExistsBijection
<1>10. Cardinality(D) > 1
  <2>1. PICK f \in es : f.group = n /\ f.dst # e.dst
    BY <1>1, <1>2
  <2>2. PICK x \in D : x = e.dst
    BY <1>1, <1>5
  <2>3. PICK y \in D : y = f.dst
    BY <1>5, <2>1
  <2>4. IsFiniteSet({x}) /\ Cardinality({x}) = 1
    BY FS_Singleton
  <2>5. Cardinality({x} \cup {y}) = 2
    <3>1. y \notin {x}
      BY <2>1, <2>2, <2>3
    <3>2. PICK X : X = {x}
      OBVIOUS
    <3>3. Cardinality(X \cup {y}) = IF y \in X THEN Cardinality(X) ELSE Cardinality(X) + 1
      BY <2>4, <3>2, FS_AddElement
    <3> QED BY <2>4, <3>1, <3>2, <3>3
  <2>6. Cardinality({x} \cup {y}) <= Cardinality(D)
    BY <1>7, FS_Subset
  <2>7. Cardinality(D) \in Nat
    BY <1>7, FS_CardinalityType
  <2> QED BY <2>5, <2>6, <2>7
<1> QED BY <1>4, <1>8, <1>9, <1>10 DEF OneGroup, D, R

(* The candidate table is that of the groups the edges carry, each of one  *)
(* call and of two targets or more; numbers have no gaps.                  *)
THEOREM RowsAreTheGroups == ResolverSpec => []RowsMatchGroups
<1>1. ASSUME GraphInv PROVE RowsMatchGroups
  <2>1. SoundGraph(graph) /\ (stage # "link" => InCanonicalForm(graph))
    BY <1>1 DEF GraphInv, PassInv
  <2>2. /\ graph \in GraphType /\ GroupsAreOfCalls(ToSet(graph.edges), graph.rows)
        /\ RowsAreOfGroups(graph)
    BY <2>1, SoundRows DEF SoundGraph, Sound
  <2>3. PICK s \in Seq(EdgeType) : s = graph.edges
    BY <2>2, GraphParts
  <2>4. PICK rs : rs = graph.rows
    OBVIOUS
  <2>5. PICK es : es = ToSet(s)
    OBVIOUS
  <2>6. IsFiniteSet(es)
    BY <2>5, MembersOfSeq
  <2>7. \A n : n \in Groups(s) <=> n # 0 /\ \E e \in es : e.group = n
    BY <2>5, GroupsOf
  <2>8. GroupsAreOfCalls(es, rs)
    BY <2>2, <2>3, <2>4, <2>5
  <2>9. \A n \in Groups(s) : OneGroup(es, rs, n)
    BY <2>6, <2>7, <2>8, GroupIsACall
  <2>10. {c.group : c \in rs} = Groups(s)
    <3>1. \A n : n \in {c.group : c \in rs} <=> \E c \in rs : c.group = n
      OBVIOUS
    <3>2. \A c \in rs : c.group \in Groups(s)
      BY <2>2, <2>3, <2>4 DEF RowsAreOfGroups
    <3>3. ASSUME NEW n \in Groups(s) PROVE \E c \in rs : c.group = n
      <4>1. PICK e \in es : e.group = n /\ n # 0
        BY <2>7
      <4> QED BY <2>8, <4>1 DEF GroupsAreOfCalls
    <3>4. \A n : n \in {c.group : c \in rs} <=> n \in Groups(s)
      BY <3>1, <3>2, <3>3
    <3> QED BY <3>4
  <2>11. ASSUME stage # "link" PROVE Groups(s) = 1 .. Cardinality(Groups(s))
    <3>1. PICK n \in Nat : Groups(s) = 1 .. n
      BY <2>1, <2>3, <2>11 DEF InCanonicalForm
    <3>2. Cardinality(1 .. n) = n
      BY FS_Interval
    <3> QED BY <3>1, <3>2
  <2> QED BY <2>3, <2>4, <2>5, <2>9, <2>10, <2>11 DEF RowsMatchGroups, OneGroup
<1> QED BY <1>1, GraphInvHolds, PTL

(* canonicalize: between any two passes the graph is one that another run  *)
(* of it would leave alone, ids included, and its candidate table is that  *)
(* of its groups.                                                          *)
THEOREM GraphStaysCanonical == ResolverSpec => []GraphIsCanonical
<1>1. RowsMatchGroups /\ CanonicalIsFixed => GraphIsCanonical
  BY DEF GraphIsCanonical
<1> QED BY <1>1, CanonicalFixed, RowsAreTheGroups, PTL

(* SCIP settled an edge if its rule says so, whatever its group.           *)
LEMMA SettledOf ==
  ASSUME NEW es
  PROVE  \A x : x \in SettledByScip(es) <=> \E e \in es : IsSettled(e) /\ x = [e EXCEPT !.group = 0]
BY DEF SettledByScip, IsSettled

(* Edges alike are settled alike.                                          *)
LEMMA SettledAlike ==
  ASSUME NEW es \in SUBSET EdgeType, NEW fs \in SUBSET EdgeType,
         \A e \in es : IsSettled(e) => \E f \in fs : Alike(e, f)
  PROVE  SettledByScip(es) \subseteq SettledByScip(fs)
<1>1. ASSUME NEW x \in SettledByScip(es) PROVE x \in SettledByScip(fs)
  <2>1. PICK e \in es : IsSettled(e) /\ x = [e EXCEPT !.group = 0]
    BY <1>1, SettledOf
  <2>2. PICK f \in fs : Alike(e, f)
    BY <2>1
  <2>3. IsSettled(f)
    BY <2>1, <2>2 DEF Alike, IsSettled
  <2>4. [e EXCEPT !.group = 0] = [f EXCEPT !.group = 0]
    BY <2>2 DEF Alike, EdgeType
  <2> QED BY <2>1, <2>3, <2>4, SettledOf
<1> QED BY <1>1

(* Pass after pass: no call loses its last edge but an indirect one that   *)
(* no function value fits, SCIP only raises confidence, and what it        *)
(* settled stays.                                                          *)
THEOREM PassesSharpen == ResolverSpec => PassesOnlySharpen
<1>1. ASSUME GraphInv, [ResolverNext]_resolverVars, graph' # graph PROVE OnlySharpened
  <2>1. SharpensOnly(graph, graph', stage) /\ GraphInv'
    BY <1>1, GraphInvKept
  <2>2. SoundGraph(graph)
    BY <1>1 DEF GraphInv, PassInv
  <2>3. graph' \in GraphType
    BY <2>1 DEF GraphInv, PassInv, SoundGraph
  <2>4. PICK h \in GraphType : h = graph'
    BY <2>3
  <2>5. PICK g \in GraphType : g = graph
    BY <2>2 DEF SoundGraph
  <2>6. PICK E \in SUBSET EdgeType : E = ToSet(g.edges)
    BY GraphParts, MembersOfSeq
  <2>7. PICK F \in SUBSET EdgeType : F = ToSet(h.edges)
    BY GraphParts, MembersOfSeq
  <2>8. \A e \in E : (\E f \in F : AtSiteOf(e, f)) \/ (e.rule = "indirect" /\ Compatible(e.arity) = {})
    BY <2>1, <2>4, <2>5, <2>6, <2>7 DEF SharpensOnly, LosesNoCall
  <2>9. \A e : SiteEdges(h.edges, e.src, e.site) = {f \in F : AtSiteOf(e, f)}
    BY <2>7 DEF SiteEdges, AtSiteOf
  <2>10. CASE stage = "scip"
    <3>1. \A e \in E : \E f \in F : AtSiteOf(e, f) /\ f.confidence >= e.confidence
      BY <2>1, <2>4, <2>5, <2>6, <2>7, <2>10 DEF SharpensOnly, Raises
    <3> QED BY <2>4, <2>5, <2>6, <2>8, <2>9, <2>10, <3>1 DEF OnlySharpened
  <2>11. CASE stage # "scip"
    <3>1. KeepsSettled(g, h)
      BY <2>1, <2>4, <2>5, <2>11 DEF SharpensOnly
    <3>2. /\ \A e \in F : IsSettled(e) => \E f \in E : Alike(e, f)
          /\ \A e \in E : IsSettled(e) => \E f \in F : Alike(e, f)
      BY <2>6, <2>7, <3>1 DEF KeepsSettled, Alike
    <3>3. SettledByScip(E) = SettledByScip(F)
      BY <3>2, SettledAlike, ZenonT(60)
    <3> QED BY <2>4, <2>5, <2>6, <2>7, <2>8, <2>9, <2>11, <3>3 DEF OnlySharpened
  <2> QED BY <2>10, <2>11
<1>2. GraphInv /\ [ResolverNext]_resolverVars => [OnlySharpened]_graph
  BY <1>1
<1>3. ResolverSpec => [][OnlySharpened]_graph
  BY <1>2, GraphInvHolds, PTL DEF ResolverSpec
<1> QED BY <1>3 DEF PassesOnlySharpen

-------------------------------------------------------------------------------
(* What live code may call.                                                *)

(* r[i] is from and what i rounds over the edges of E add to it. *)
Rounds(E, from, k, r) ==
  /\ r[0] = from
  /\ \A i \in 0 .. k - 1 : \A d :
       d \in r[i + 1] <=> d \in r[i] \/ \E e \in E : e.src \in r[i] /\ e.dst = d

IsDsts(D, E) == \A d : d \in D <=> \E e \in E : e.dst = d

(* The recursion of ReachOver has a solution, and this is it. *)
LEMMA ReachOverRounds ==
  ASSUME NEW E, NEW from, NEW D, IsDsts(D, E),
         NEW k \in Nat, k = Cardinality(D)
  PROVE  \E r : ReachOver(E, from) = r[k] /\ Rounds(E, from, k, r)
<1>d. D = {e.dst : e \in E}
  BY DEF IsDsts
<1>0. k = Cardinality({e.dst : e \in E})
  BY <1>d
<1> DEFINE Grow(last) == last \cup {e.dst : e \in {e \in E : e.src \in last}}
           Body(r, m) == [i \in 0 .. m |-> IF i = 0 THEN from ELSE Grow(r[i - 1])]
           T == {m \in Nat : \E r : r = Body(r, m)}
           reach == CHOOSE r : r = Body(r, k)
<1>1. 0 \in T
  <2>1. [i \in 0 .. 0 |-> from] = Body([i \in 0 .. 0 |-> from], 0)
    OBVIOUS
  <2> QED BY <2>1
<1> HIDE DEF Grow
<1>2. ASSUME NEW m \in 0 .. k - 1, m \in T PROVE m + 1 \in T
  <2>1. PICK r : r = Body(r, m)
    BY <1>2
  <2> DEFINE s == [i \in 0 .. m + 1 |-> IF i = m + 1 THEN Grow(r[m]) ELSE r[i]]
  <2>2. \A i \in 0 .. m : s[i] = r[i]
    OBVIOUS
  <2>3. \A i \in 0 .. m : r[i] = IF i = 0 THEN from ELSE Grow(r[i - 1])
    BY <2>1
  <2>4. ASSUME NEW i \in 0 .. m + 1 PROVE s[i] = IF i = 0 THEN from ELSE Grow(s[i - 1])
    <3>1. CASE i = m + 1
      <4>1. i - 1 = m /\ i # 0
        BY <3>1
      <4> QED BY <2>2, <3>1, <4>1
    <3>2. CASE i \in 1 .. m
      <4>1. i - 1 \in 0 .. m /\ i # 0 /\ i \in 0 .. m
        BY <3>2
      <4> QED BY <2>2, <2>3, <4>1
    <3>3. CASE i = 0
      BY <2>2, <2>3, <3>3
    <3> QED BY <3>1, <3>2, <3>3
  <2>5. DOMAIN s = 0 .. m + 1 /\ s = [i \in DOMAIN s |-> s[i]]
    OBVIOUS
  <2> HIDE DEF s
  <2>6. s = Body(s, m + 1)
    BY <2>4, <2>5
  <2>7. m + 1 \in Nat
    OBVIOUS
  <2> QED BY <2>6, <2>7
<1>3. k \in T
  <2> HIDE DEF T
  <2>1. 0 .. k \subseteq T
    BY <1>1, <1>2, UpTo
  <2>2. k \in 0 .. k
    OBVIOUS
  <2> QED BY <2>1, <2>2
<1>4. reach = Body(reach, k)
  BY <1>3
<1>5. ReachOver(E, from) = reach[k]
  BY <1>0 DEF ReachOver, Grow
<1> HIDE DEF reach
<1>6. reach[0] = from
  BY <1>4
<1>7. ASSUME NEW i \in 0 .. k - 1 PROVE reach[i + 1] = Grow(reach[i])
  <2>1. i + 1 \in 0 .. k /\ i + 1 # 0 /\ (i + 1) - 1 = i
    OBVIOUS
  <2> QED BY <1>4, <2>1
<1>8. ASSUME NEW i \in 0 .. k - 1
      PROVE  \A d : d \in reach[i + 1] <=>
                d \in reach[i] \/ \E e \in E : e.src \in reach[i] /\ e.dst = d
  BY <1>7 DEF Grow
<1>9. \A i \in 0 .. k - 1 : \A d :
                d \in reach[i + 1] <=> d \in reach[i] \/ \E e \in E : e.src \in reach[i] /\ e.dst = d
  BY <1>8
<1>10. Rounds(E, from, k, reach)
  BY <1>6, <1>9, Zenon DEF Rounds
<1> QED BY <1>5, <1>10

(* As many rounds as there are nodes to add are enough: what ReachOver     *)
(* returns is the least set that holds its start and is closed.            *)
LEMMA ReachOverIsLeast ==
  ASSUME NEW E, NEW from, IsFiniteSet({e.dst : e \in E})
  PROVE  /\ from \subseteq ReachOver(E, from)
         /\ \A e \in E : e.src \in ReachOver(E, from) => e.dst \in ReachOver(E, from)
         /\ \A C : from \subseteq C /\ (\A e \in E : e.src \in C => e.dst \in C)
                     => ReachOver(E, from) \subseteq C
<1> DEFINE D == {e.dst : e \in E}
           Closed(X) == \A e \in E : e.src \in X => e.dst \in X
<1>0. IsDsts(D, E)
  BY DEF IsDsts
<1>1. PICK k \in Nat : k = Cardinality(D)
  BY FS_CardinalityType
<1> HIDE DEF D
<1>r. PICK r : ReachOver(E, from) = r[k] /\ Rounds(E, from, k, r)
  BY <1>0, <1>1, ReachOverRounds
<1>2. /\ ReachOver(E, from) = r[k]
      /\ r[0] = from
      /\ \A i \in 0 .. k - 1 : \A d :
           d \in r[i + 1] <=> d \in r[i] \/ \E e \in E : e.src \in r[i] /\ e.dst = d
  BY <1>r DEF Rounds
<1> USE DEF D
<1> DEFINE Next(i) == {e.dst : e \in {e \in E : e.src \in r[i]}}
           T == {i \in 0 .. k : /\ from \subseteq r[i] /\ r[i] \subseteq from \cup D
                                /\ Closed(r[i]) \/ Cardinality(r[i] \ from) >= i
                                /\ \A C : from \subseteq C /\ Closed(C) => r[i] \subseteq C}
<1>3. 0 \in T
  <2>1. r[0] \ from = {} /\ r[0] = from
    BY <1>2
  <2>2. Cardinality(r[0] \ from) = 0
    BY <2>1, FS_EmptySet
  <2>3. 0 \in 0 .. k /\ 0 >= 0
    OBVIOUS
  <2> QED BY <2>1, <2>2, <2>3
<1>4. ASSUME NEW i \in 0 .. k - 1, i \in T PROVE i + 1 \in T
  <2>1. /\ from \subseteq r[i] /\ r[i] \subseteq from \cup D
        /\ Closed(r[i]) \/ Cardinality(r[i] \ from) >= i
        /\ \A C : from \subseteq C /\ Closed(C) => r[i] \subseteq C
    BY <1>4
  <2>2. \A d : d \in r[i + 1] <=> d \in r[i] \/ d \in Next(i)
    BY <1>2
  <2>3. i \in Nat /\ i + 1 \in 0 .. k
    OBVIOUS
  <2>4. from \subseteq r[i + 1] /\ r[i + 1] \subseteq from \cup D
    BY <2>1, <2>2
  <2>5. ASSUME NEW C, from \subseteq C, Closed(C) PROVE r[i + 1] \subseteq C
    <3>1. r[i] \subseteq C
      BY <2>1, <2>5
    <3>2. Next(i) \subseteq C
      BY <2>5, <3>1
    <3> QED BY <2>2, <3>1, <3>2
  <2>6. CASE Closed(r[i])
    <3>1. Next(i) \subseteq r[i]
      BY <2>6
    <3>2. r[i + 1] = r[i]
      BY <2>2, <3>1
    <3>3. Closed(r[i + 1])
      BY <2>6, <3>2
    <3> QED BY <2>3, <2>4, <2>5, <3>3
  <2>7. CASE ~Closed(r[i])
    <3>1. PICK e \in E : e.src \in r[i] /\ e.dst \notin r[i]
      BY <2>7
    <3>2. IsFiniteSet(r[i] \ from) /\ IsFiniteSet(r[i + 1] \ from)
      <4>1. r[i] \ from \in SUBSET D /\ r[i + 1] \ from \in SUBSET D
        BY <2>1, <2>4
      <4> QED BY <4>1, FS_Subset
    <3>3. Cardinality((r[i] \ from) \cup {e.dst}) = Cardinality(r[i] \ from) + 1
      BY <3>1, <3>2, FS_AddElement
    <3>4. (r[i] \ from) \cup {e.dst} \in SUBSET (r[i + 1] \ from)
      BY <2>1, <2>2, <3>1
    <3>5. Cardinality((r[i] \ from) \cup {e.dst}) <= Cardinality(r[i + 1] \ from)
      BY <3>2, <3>4, FS_Subset
    <3>6. Cardinality(r[i] \ from) \in Nat /\ Cardinality(r[i + 1] \ from) \in Nat
      BY <3>2, FS_CardinalityType
    <3>7. Cardinality(r[i] \ from) >= i
      BY <2>1, <2>7
    <3>8. Cardinality(r[i + 1] \ from) >= i + 1
      BY <2>3, <3>3, <3>5, <3>6, <3>7
    <3> QED BY <2>3, <2>4, <2>5, <3>8
  <2> QED BY <2>6, <2>7
<1>5. k \in T
  <2> HIDE DEF T
  <2>1. 0 .. k \subseteq T
    BY <1>1, <1>3, <1>4, UpTo
  <2>2. k \in 0 .. k
    BY <1>1
  <2> QED BY <2>1, <2>2
<1>6. /\ from \subseteq r[k] /\ r[k] \subseteq from \cup D
      /\ Closed(r[k]) \/ Cardinality(r[k] \ from) >= k
      /\ \A C : from \subseteq C /\ Closed(C) => r[k] \subseteq C
  BY <1>5
<1>7. Closed(r[k])
  <2>1. ASSUME Cardinality(r[k] \ from) >= k PROVE Closed(r[k])
    <3>1. r[k] \ from \in SUBSET D
      BY <1>6
    <3>2. Cardinality(r[k] \ from) <= k /\ (k = Cardinality(r[k] \ from) => D = r[k] \ from)
      BY <1>1, <3>1, FS_Subset
    <3>3. Cardinality(r[k] \ from) \in Nat
      BY <3>1, FS_Subset, FS_CardinalityType
    <3>4. k = Cardinality(r[k] \ from)
      <4> HIDE DEF D, T, Closed
      <4> QED BY <1>1, <2>1, <3>2, <3>3
    <3>5. D = r[k] \ from
      BY <3>2, <3>4
    <3> QED BY <3>5
  <2> QED BY <1>6, <2>1
<1> QED BY <1>2, <1>6, <1>7

(* Virtual calls on nothing that an import binds are resolved by the       *)
(* method's name.                                                          *)
LEMMA DispatchedIs ==
  ASSUME NEW o, NEW r, Dispatched(r)
  PROVE  /\ Resolution(o, r).rule = "name-method" /\ Resolution(o, r).dsts = Methods(r)
         /\ EdgeKind(r) = "calls_virtual"
<1> DEFINE steps == Steps(o, r)
           Found == {i \in DOMAIN steps : steps[i].dsts # {}}
<1>1. /\ Pinned(r) = {} /\ Indirect(r) = {} /\ Lexical(r) = {} /\ Imported(o, r) = {}
      /\ Methods(r) # {}
  BY DEF Dispatched, Pinned, Indirect, IndirectKinds, Lexical, Imported
<1>2. /\ DOMAIN steps = 1 .. 7
      /\ steps[1].dsts = {} /\ steps[2].dsts = {} /\ steps[3].dsts = {} /\ steps[4].dsts = {}
      /\ steps[5] = [rule |-> "name-method", dsts |-> Methods(r)]
  BY <1>1 DEF Steps
<1> HIDE DEF steps
<1>3. 5 \in Found /\ Found \in SUBSET Nat
  BY <1>1, <1>2
<1>4. Min(Found) \in Found /\ Min(Found) <= 5
  <2>1. \A x \in Found : Min(Found) <= x
    BY <1>3, MinOfNats
  <2> QED BY <1>3, <2>1, MinOfNats
<1>5. Min(Found) = 5
  <2>1. PICK m : m = Min(Found)
    OBVIOUS
  <2>2. m \in 1 .. 7 /\ m <= 5 /\ steps[m].dsts # {}
    BY <1>2, <1>4, <2>1
  <2>3. m = 5
    BY <1>2, <2>2
  <2> QED BY <2>1, <2>3
<1>6. Resolution(o, r) = steps[5]
  BY <1>5 DEF Resolution, FirstFound, steps
<1> QED BY <1>2, <1>6 DEF Dispatched, EdgeKind

(* What the traits scope the calls of the program to has an edge each.     *)
HasScoped(g) ==
  \A r \in References : Dispatched(r) =>
    \A n \in TraitScoped(r.name) :
      \E f \in ToSet(g.edges) :
        /\ f.src = r.src /\ f.site = r.site /\ f.dst = n
        /\ f.kind = "calls_virtual" /\ f.rule = "cha-trait-set"

(* Of the edges of l only those of calls by name are not g's.              *)
KeepsOthers(l, g) ==
  \A e \in ToSet(l.edges) : ~ByName(e) => \E f \in ToSet(g.edges) : Alike(f, e)

(* What LiveMethodsKept says of a graph.                                   *)
LiveKept(g) ==
  \A t \in BuiltBy(Live) \cap Types : \A r \in References : Dispatched(r) =>
    \A n \in MethodOf(t, r.name) : n \in Targets(r, {t}) =>
      \E e \in ToSet(g.edges) : e.src = r.src /\ e.site = r.site /\ e.dst = n /\ e.rule # "indirect"

(* The edges cgx-resolve made of the references, all of them.              *)
IsLinked(l) ==
  /\ SoundGraph(l)
  /\ AsLinked(ToSet(l.edges))
  /\ \A r \in References : Complete(l, r)

(* Renumbering groups makes no difference to that.                         *)
LEMMA StillComplete ==
  ASSUME NEW g, NEW h, NEW r, Complete(g, r), CallsAreAlike(ToSet(h.edges)),
         \A f \in ToSet(g.edges) : \E e \in ToSet(h.edges) : Alike(e, f)
  PROVE  Complete(h, r)
<1>1. ASSUME Resolution(order, r).rule # "unresolved", NEW d \in Resolution(order, r).dsts
      PROVE  \E e \in ToSet(h.edges) : OfRef(e, r) /\ e.dst = d
  <2>1. PICK f \in ToSet(g.edges) : OfRef(f, r) /\ f.dst = d
    BY <1>1 DEF Complete
  <2>2. PICK e \in ToSet(h.edges) : Alike(e, f)
    BY <2>1
  <2>3. e.rule = "indirect" => e.group = 0
    BY <2>2 DEF CallsAreAlike
  <2>4. OfRef(e, r) /\ e.dst = d
    BY <2>1, <2>2, <2>3 DEF OfRef, Alike
  <2> QED BY <2>4
<1> QED BY <1>1 DEF Complete

(* Nor that they are all made of references.                               *)
LEMMA StillLinked ==
  ASSUME NEW g, NEW h, AsLinked(ToSet(g.edges)), CallsAreAlike(ToSet(h.edges)),
         \A e \in ToSet(h.edges) : \E f \in ToSet(g.edges) : Alike(e, f)
  PROVE  AsLinked(ToSet(h.edges))
<1>1. ASSUME NEW e \in ToSet(h.edges) PROVE \E r \in References : OfRef(e, r)
  <2>1. PICK f \in ToSet(g.edges) : Alike(e, f)
    OBVIOUS
  <2>2. PICK r \in References : OfRef(f, r)
    BY <2>1 DEF AsLinked
  <2>3. e.rule = "indirect" => e.group = 0
    BY DEF CallsAreAlike
  <2>4. OfRef(e, r)
    BY <2>1, <2>2, <2>3 DEF OfRef, Alike
  <2> QED BY <2>4
<1> QED BY <1>1 DEF AsLinked

(* Where no two calls start together, CHA scopes each by its own name.     *)
LEMMA ScopedByName ==
  ASSUME Given, SitesApart, NEW l, IsLinked(l), NEW h, ScopesCalls(l, h)
  PROVE  HasScoped(h) /\ KeepsOthers(l, h)
<1>1. KeepsOthers(l, h)
  BY DEF ScopesCalls, KeepsOthers
<1>2. ASSUME NEW r \in References, Dispatched(r), NEW n \in TraitScoped(r.name)
      PROVE  \E f \in ToSet(h.edges) :
               /\ f.src = r.src /\ f.site = r.site /\ f.dst = n
               /\ f.kind = "calls_virtual" /\ f.rule = "cha-trait-set"
  <2>1. /\ Resolution(order, r).rule = "name-method" /\ Resolution(order, r).dsts = Methods(r)
        /\ EdgeKind(r) = "calls_virtual" /\ Methods(r) # {}
    BY <1>2, DispatchedIs DEF Dispatched
  <2>2. PICK m : m \in Methods(r)
    BY <2>1
  <2>3. Complete(l, r)
    BY DEF IsLinked
  <2>4. PICK e \in ToSet(l.edges) : OfRef(e, r)
    BY <2>1, <2>2, <2>3 DEF Complete
  <2>5. ByName(e) /\ e.src = r.src /\ e.site = r.site
    BY <2>1, <2>4 DEF OfRef, ByName
  <2>6. PICK p \in ToSet(l.edges) :
          /\ ByName(p) /\ AtSiteOf(e, p)
          /\ \A x \in TraitScoped(Symbols[p.dst].name) :
               \E f \in ToSet(h.edges) :
                 AtSiteOf(e, f) /\ f.dst = x /\ f.kind = "calls_virtual" /\ f.rule = "cha-trait-set"
    BY <2>5 DEF ScopesCalls
  <2>7. PICK q \in References : OfRef(p, q)
    BY <2>6 DEF IsLinked, AsLinked
  <2>8. q.src = r.src /\ q.site = r.site
    BY <2>5, <2>6, <2>7 DEF OfRef, AtSiteOf
  <2>9. q = r
    BY <2>8 DEF SitesApart
  <2>10. p.dst \in Methods(r)
    BY <2>1, <2>7, <2>9 DEF OfRef
  <2>11. Symbols[p.dst].name = r.name
    BY <2>10 DEF Methods
  <2>12. PICK f \in ToSet(h.edges) :
           AtSiteOf(e, f) /\ f.dst = n /\ f.kind = "calls_virtual" /\ f.rule = "cha-trait-set"
    BY <1>2, <2>6, <2>11
  <2>13. f.src = r.src /\ f.site = r.site
    BY <2>5, <2>12 DEF AtSiteOf
  <2> QED BY <2>12, <2>13
<1> QED BY <1>1, <1>2 DEF HasScoped

(* What a run may dispatch to, the traits scope the method to.             *)
LEMMA TargetsAreScoped == \A r, types : Targets(r, types) \subseteq TraitScoped(r.name)
BY DEF Targets, TraitScoped

(* What RTA takes for reachable holds all that is live: a call stays among *)
(* the edges, or what CHA scoped it to has all it can go to.               *)
LEMMA LiveIsReached ==
  ASSUME graph.edges \in Seq(EdgeType), KeepsOthers(linked, graph), HasScoped(graph)
  PROVE  Live \subseteq Reachable
<1> DEFINE C == Reachable
           N == Len(Symbols)
           F(last) == last \cup {e.dst : e \in {e \in DirectEdges : e.src \in last}}
                           \cup UNION {Targets(r, BuiltBy(last)) :
                                         r \in {r \in References : Dispatched(r) /\ r.src \in last}}
           E == {e \in ToSet(graph.edges) : IsCall(e)}
<1>1. IsFiniteSet({e.dst : e \in E})
  <2>1. IsFiniteSet(ToSet(graph.edges)) /\ E \in SUBSET ToSet(graph.edges)
    BY MembersOfSeq
  <2>2. IsFiniteSet(E)
    BY <2>1, FS_Subset
  <2> DEFINE f == [e \in E |-> e.dst]
  <2>3. {e.dst : e \in E} = {f[e] : e \in E}
    OBVIOUS
  <2> HIDE DEF f, E
  <2>4. IsFiniteSet({f[e] : e \in E})
    BY <2>2, FiniteImage
  <2> QED BY <2>3, <2>4, Zenon
<1>2. Roots \subseteq C /\ \A e \in E : e.src \in C => e.dst \in C
  <2>1. C = ReachOver(E, Roots)
    BY DEF Reachable
  <2> HIDE DEF C, E
  <2> QED BY <1>1, <2>1, ReachOverIsLeast
<1>3. ASSUME NEW X, X \subseteq C PROVE F(X) \subseteq C
  <2>1. ASSUME NEW e \in DirectEdges, e.src \in X PROVE e.dst \in C
    <3>1. e \in ToSet(linked.edges) /\ IsCall(e) /\ ~ByName(e)
      BY DEF DirectEdges, ByName
    <3>2. PICK f \in ToSet(graph.edges) : Alike(f, e)
      BY <3>1 DEF KeepsOthers
    <3>3. f \in E /\ f.src = e.src /\ f.dst = e.dst
      BY <3>1, <3>2 DEF Alike, IsCall
    <3> HIDE DEF E, C
    <3> QED BY <1>2, <1>3, <2>1, <3>3
  <2>2. ASSUME NEW r \in References, Dispatched(r), r.src \in X, NEW n \in Targets(r, BuiltBy(X))
        PROVE  n \in C
    <3>1. n \in TraitScoped(r.name)
      BY <2>2, TargetsAreScoped
    <3>2. PICK f \in ToSet(graph.edges) : f.src = r.src /\ f.dst = n /\ f.kind = "calls_virtual"
      BY <2>2, <3>1 DEF HasScoped
    <3>3. f \in E
      BY <3>2 DEF IsCall
    <3> HIDE DEF E, C
    <3> QED BY <1>2, <1>3, <2>2, <3>2, <3>3
  <2>3. PICK D1 : D1 = {e.dst : e \in {e \in DirectEdges : e.src \in X}}
    OBVIOUS
  <2>4. PICK D2 : D2 = UNION {Targets(r, BuiltBy(X)) :
                                r \in {r \in References : Dispatched(r) /\ r.src \in X}}
    OBVIOUS
  <2>5. D1 \subseteq C
    BY <2>1, <2>3
  <2>6. D2 \subseteq C
    <3> HIDE DEF C
    <3> QED BY <2>2, <2>4
  <2>7. F(X) = X \cup D1 \cup D2
    BY <2>3, <2>4
  <2> HIDE DEF F, C
  <2> QED BY <1>3, <2>5, <2>6, <2>7
<1>4. N \in Nat
  BY SymbolsAssumption
<1> DEFINE D == SUBSET C
           step == [i \in 1 .. N |-> [x \in D |-> F(x)]]
           Body(a) == [i \in 0 .. N |-> IF i = 0 THEN Roots ELSE F(a[i - 1])]
           alive == CHOOSE a : a = Body(a)
<1>5. Live = alive[N]
  BY DEF Live
<1> HIDE DEF F, C, N
<1>6. \A i \in 1 .. N : \A x \in D : step[i][x] = F(x)
  OBVIOUS
<1>7. \A x \in D : F(x) \in D
  BY <1>3
<1> HIDE DEF step
<1>8. StepsWithin(N, D, step)
  BY <1>6, <1>7 DEF StepsWithin
<1>9. Roots \in D
  BY <1>2
<1> HIDE DEF D
<1>10. PICK r : Iterates(r, N, D, Roots, step)
  BY <1>4, <1>8, <1>9, Recursion
<1>11. alive = Body(alive)
  <2> DEFINE f == [k \in 0 .. N |-> r[k]]
  <2>1. ASSUME NEW k \in 0 .. N PROVE f[k] = IF k = 0 THEN Roots ELSE F(f[k - 1])
    <3>1. CASE k = 0
      BY <1>10, <3>1 DEF Iterates
    <3>2. CASE k # 0
      <4>1. k \in 1 .. N /\ k - 1 \in 0 .. N
        BY <1>4, <3>2
      <4>2. r[k] = step[k][r[k - 1]] /\ r[k - 1] \in D
        BY <1>10, <4>1 DEF Iterates
      <4>3. r[k] = F(r[k - 1])
        BY <1>6, <4>1, <4>2
      <4> QED BY <3>2, <4>1, <4>3
    <3> QED BY <3>1, <3>2
  <2>2. f = Body(f)
    BY <2>1
  <2> HIDE DEF f, Body
  <2> QED BY <2>2
<1> HIDE DEF alive
<1>12. \A k \in 0 .. N : alive[k] = IF k = 0 THEN Roots ELSE F(alive[k - 1])
  BY <1>11
<1> HIDE DEF Body
<1> DEFINE T == {k \in 0 .. N : alive[k] \subseteq C}
<1>13. 0 \in T
  <2>1. 0 \in 0 .. N
    BY <1>4
  <2> QED BY <1>2, <1>12, <2>1
<1>14. ASSUME NEW k \in 0 .. N - 1, k \in T PROVE k + 1 \in T
  <2>1. k + 1 \in 0 .. N /\ k + 1 # 0 /\ (k + 1) - 1 = k
    BY <1>4
  <2>2. alive[k + 1] = F(alive[k])
    BY <1>12, <2>1
  <2> QED BY <1>3, <1>14, <2>1, <2>2
<1>15. N \in T
  <2> HIDE DEF T
  <2>1. 0 .. N \subseteq T
    BY <1>4, <1>13, <1>14, UpTo
  <2>2. N \in 0 .. N
    BY <1>4
  <2> QED BY <2>1, <2>2
<1> QED BY <1>5, <1>15 DEF C

(* So RTA and what follows keep what live code may call.                   *)
LEMMA RtaKeepsLive ==
  ASSUME graph.edges \in Seq(EdgeType), KeepsOthers(linked, graph), HasScoped(graph),
         NEW h, KeepsLive(graph, h)
  PROVE  LiveKept(h)
<1>1. ASSUME NEW t \in BuiltBy(Live) \cap Types, NEW r \in References, Dispatched(r),
             NEW n \in MethodOf(t, r.name), n \in Targets(r, {t})
      PROVE  \E e \in ToSet(h.edges) :
               e.src = r.src /\ e.site = r.site /\ e.dst = n /\ e.rule # "indirect"
  <2>1. PICK e \in ToSet(linked.edges) : e.kind = "instantiate" /\ e.src \in Live /\ e.dst = t
    BY <1>1 DEF BuiltBy
  <2>2. ~ByName(e)
    BY <2>1 DEF ByName
  <2>3. PICK f \in ToSet(graph.edges) : Alike(f, e)
    BY <2>2 DEF KeepsOthers
  <2>4. f.kind = "instantiate" /\ f.src \in Reachable /\ f.dst = t
    BY <2>1, <2>3, LiveIsReached DEF Alike
  <2>5. t \in Built(Reachable)
    BY <2>4 DEF Built
  <2>6. t \in Owner(n)
    BY <1>1 DEF Owner, MethodOf
  <2>7. n \in TraitScoped(r.name)
    BY <1>1, TargetsAreScoped
  <2>8. PICK a \in ToSet(graph.edges) :
          /\ a.src = r.src /\ a.site = r.site /\ a.dst = n
          /\ a.kind = "calls_virtual" /\ a.rule = "cha-trait-set"
    BY <1>1, <2>7 DEF HasScoped
  <2>9. Owner(a.dst) \cap Built(Reachable) # {}
    BY <2>5, <2>6, <2>8
  <2>10. PICK b \in ToSet(h.edges) : AtSiteOf(a, b) /\ b.dst = a.dst /\ b.rule # "indirect"
    BY <2>8, <2>9 DEF KeepsLive
  <2> QED BY <2>8, <2>10 DEF AtSiteOf
<1> QED BY <1>1 DEF LiveKept

(* Nothing that a call leads to is lost to signatures, but placeholders.   *)
LEMMA SigKeepsLive ==
  ASSUME NEW g, LiveKept(g), NEW h, KeepsResolved(g, h)
  PROVE  LiveKept(h)
<1>1. ASSUME NEW e \in ToSet(g.edges), e.rule # "indirect"
      PROVE  \E f \in ToSet(h.edges) :
               f.src = e.src /\ f.site = e.site /\ f.dst = e.dst /\ f.rule # "indirect"
  <2>1. PICK f \in ToSet(h.edges) : Alike(f, e)
    BY <1>1 DEF KeepsResolved
  <2> QED BY <1>1, <2>1 DEF Alike
<1>2. ASSUME NEW t \in BuiltBy(Live) \cap Types, NEW r \in References, Dispatched(r),
             NEW n \in MethodOf(t, r.name), n \in Targets(r, {t})
      PROVE  \E e \in ToSet(h.edges) :
               e.src = r.src /\ e.site = r.site /\ e.dst = n /\ e.rule # "indirect"
  <2>1. PICK e \in ToSet(g.edges) :
          e.src = r.src /\ e.site = r.site /\ e.dst = n /\ e.rule # "indirect"
    BY <1>2 DEF LiveKept
  <2>2. PICK f \in ToSet(h.edges) :
          f.src = e.src /\ f.site = e.site /\ f.dst = e.dst /\ f.rule # "indirect"
    BY <1>1, <2>1
  <2> QED BY <2>1, <2>2
<1> QED BY <1>2 DEF LiveKept

(* Without facts of SCIP's its pass does nothing.                          *)
LEMMA ScipIdle ==
  ASSUME Given, SoundGraph(graph), code.scip = <<>>, Scip
  PROVE  graph' = graph
<1> DEFINE edges == ScipEdgesOf(graph)
           places == {i \in DOMAIN graph.edges :
                        Seen(graph.edges[i]) /\ code.scip[graph.edges[i].site].to = 0}
           out == Only(graph.edges, places)
           dirty == \/ Len(edges) # Len(graph.edges)
                    \/ \E i \in DOMAIN edges :
                         edges[i].dst # graph.edges[i].dst \/ edges[i].group # graph.edges[i].group
           rows == {c \in graph.rows : c.group \in Groups(edges)}
<1>1. PICK s \in Seq(EdgeType) : s = graph.edges
  BY GraphParts DEF SoundGraph
<1>2. \A e : ~Seen(e)
  <2>1. DOMAIN <<>> = {}
    OBVIOUS
  <2> QED BY <2>1 DEF Seen
<1>3. \A e : Relabeled(e) = e
  BY <1>2 DEF Relabeled
<1>4. places = {}
  BY <1>2
<1>5. DependencyEdges(graph.edges) = <<>>
  <2>1. DOMAIN Only(graph.edges, {}) = {}
    <3>1. Cardinality({}) = 0
      BY FS_EmptySet
    <3>2. \A less : DOMAIN InOrder({}, less) = {}
      BY <3>1 DEF InOrder
    <3> QED BY <3>2 DEF Only
  <2>2. out = Only(graph.edges, {})
    BY <1>4
  <2>3. DependencyEdges(graph.edges) =
          [i \in DOMAIN out |-> [out[i] EXCEPT !.dst = 0, !.confidence = 1, !.rule = "scip-dep",
                                               !.site = -@, !.group = 0]]
    BY DEF DependencyEdges
  <2>4. DOMAIN out = {}
    BY <2>1, <2>2
  <2> HIDE DEF out
  <2> QED BY <2>3, <2>4
<1>6. edges = graph.edges
  <2>1. [i \in DOMAIN s |-> Relabeled(s[i])] = s
    BY <1>1, <1>3
  <2>2. s \o <<>> = s
    OBVIOUS
  <2>3. edges = [i \in DOMAIN s |-> Relabeled(s[i])] \o <<>>
    BY <1>1, <1>5 DEF ScipEdgesOf
  <2> HIDE DEF edges
  <2> QED BY <1>1, <2>1, <2>2, <2>3
<1>7. graph' = IF dirty THEN Canonical([graph EXCEPT !.edges = edges, !.rows = rows])
               ELSE [graph EXCEPT !.edges = edges]
  BY DEF Scip, ScipEdgesOf
<1> HIDE DEF edges
<1>8. ~dirty
  BY <1>6
<1>9. graph' = [graph EXCEPT !.edges = graph.edges]
  BY <1>6, <1>7, <1>8
<1>10. graph \in GraphType
  BY DEF SoundGraph
<1> QED BY <1>9, <1>10 DEF GraphType

(* What the passes keep of the linked graph l in g, at stage s, with the   *)
(* references t still to resolve.                                          *)
PastInv(g, s, t, l) ==
  /\ s = "link" => \A r \in References : r \in ToSet(t) \/ Complete(g, r)
  /\ s # "link" => IsLinked(l)
  /\ s = "scip" => g = l
  /\ s = "cha" /\ code.scip = <<>> => g = l
  /\ s = "rta" /\ code.scip = <<>> /\ SitesApart => HasScoped(g) /\ KeepsOthers(l, g)
  /\ s \in {"sig", "effects", "done"} /\ code.scip = <<>> /\ SitesApart => LiveKept(g)
LinkedInv == PastInv(graph, stage, todo, linked)

(* What live code may call is of the code and the linked graph alone.      *)
LEMMA SameLive ==
  ASSUME code' = code, order' = order, linked' = linked
  PROVE  \A g : LiveKept(g)' <=> LiveKept(g)
<1>1. References' = References
  BY SameMeaning
<1>2. ASSUME NEW r PROVE Dispatched(r)' <=> Dispatched(r)
  BY DEF Dispatched
<1>3. DirectEdges' = DirectEdges
  BY DEF DirectEdges
<1>4. ASSUME NEW X PROVE BuiltBy(X)' = BuiltBy(X)
  BY DEF BuiltBy
<1>5. ASSUME NEW r, NEW types PROVE Targets(r, types)' = Targets(r, types)
  BY DEF Targets, Implementation, Implementors, Subtraits, Traits
<1>6. Roots' = Roots
  BY DEF Roots
<1>7. ASSUME NEW X
      PROVE  (UNION {Targets(r, BuiltBy(X)) : r \in {r \in References : Dispatched(r) /\ r.src \in X}})'
              = UNION {Targets(r, BuiltBy(X)) : r \in {r \in References : Dispatched(r) /\ r.src \in X}}
  BY <1>1, <1>2, <1>4, <1>5
<1>8. Live' = Live
  BY DEF Live, Roots, DirectEdges, References, RefsIn, Dispatched, BuiltBy, Targets, Implementation,
         Implementors, Subtraits, Traits
<1>9. PICK X : X = Live /\ X = Live'
  BY <1>8
<1>10. BuiltBy(Live)' = BuiltBy(Live)
  BY <1>4, <1>9
<1> QED BY <1>1, <1>2, <1>5, <1>10 DEF LiveKept

(* So is the invariant about it.                                           *)
LEMMA SamePast ==
  ASSUME code' = code, order' = order,
         NEW g, g = graph', NEW s, s = stage', NEW t, t = todo', NEW l, l = linked',
         s \in {"sig", "effects", "done"} => linked' = linked,
         PastInv(g, s, t, l)
  PROVE  LinkedInv'
<1>1. References' = References /\ \A x, r : Complete(x, r)' <=> Complete(x, r)
  BY SameMeaning
<1>2. ASSUME NEW x PROVE IsLinked(x)' <=> IsLinked(x)
  BY <1>1, SameMeaning DEF IsLinked
<1>3. SitesApart' <=> SitesApart
  BY <1>1 DEF SitesApart
<1>4. ASSUME NEW name PROVE TraitScoped(name)' = TraitScoped(name)
  BY DEF TraitScoped, Implementation, Implementors, Subtraits, Traits
<1>5. HasScoped(g)' <=> HasScoped(g)
  BY <1>1, <1>4 DEF HasScoped, Dispatched
<1>6. s \in {"sig", "effects", "done"} => (LiveKept(g)' <=> LiveKept(g))
  BY SameLive
<1>7. PastInv(g, s, t, l)'
  BY <1>1, <1>2, <1>3, <1>5, <1>6 DEF PastInv
<1> QED BY <1>7 DEF LinkedInv

(* Before the first reference is linked all are to be.                     *)
LEMMA LinkedInvAtFirst == ResolverInit => LinkedInv
<1> SUFFICES ASSUME ResolverInit PROVE LinkedInv
  OBVIOUS
<1>1. stage = "link" /\ todo = RefsIn(order)
  BY DEF ResolverInit, LinkInit
<1>2. \A r \in References : r \in ToSet(todo)
  BY <1>1 DEF References
<1> QED BY <1>1, <1>2 DEF LinkedInv, PastInv

(* The steps, one by one.                                                  *)
LEMMA LinkRefPast ==
  ASSUME GraphInv, LinkedInv, LinkRef, NEW h, h = graph', NEW t, t = todo'
  PROVE  PastInv(h, stage, t, linked)
<1>1. /\ Given /\ todo \in Seq(References) /\ stage = "link" /\ SoundGraph(graph)
      /\ AsLinked(ToSet(graph.edges))
  BY DEF GraphInv, PassInv, LinkRef
<1>2. \A r \in References : r \in ToSet(todo) \/ Complete(graph, r)
  BY <1>1 DEF LinkedInv, PastInv
<1>3. todo # <<>> /\ h = Linked(order, graph, Head(todo)) /\ t = Tail(todo)
  BY DEF LinkRef
<1>4. PICK q \in References : q = Head(todo)
  BY <1>1, <1>3
<1>5. PICK g \in GraphType : g = graph
  BY <1>1 DEF SoundGraph
<1>6. GroupsAreOfCalls(ToSet(g.edges), g.rows)
  BY <1>1, <1>5 DEF SoundGraph, Sound
<1>7. ToSet(g.edges) \subseteq ToSet(h.edges) /\ Complete(h, q)
  BY <1>1, <1>3, <1>4, <1>5, <1>6, LinkKeeps
<1>8. \A r : r \in ToSet(todo) => r = q \/ r \in ToSet(t)
  <2>1. ASSUME NEW i \in 1 .. Len(todo) PROVE todo[i] = q \/ todo[i] \in ToSet(t)
    <3>1. CASE i = 1
      BY <1>1, <1>3, <1>4, <3>1
    <3>2. CASE i # 1
      <4>1. i - 1 \in 1 .. Len(t) /\ t[i - 1] = todo[i]
        BY <1>1, <1>3, <3>2
      <4>2. t \in Seq(References)
        BY <1>1, <1>3
      <4>3. i - 1 \in DOMAIN t
        BY <4>1, <4>2
      <4> QED BY <4>1, <4>3 DEF ToSet
    <3> QED BY <3>1, <3>2
  <2>2. DOMAIN todo = 1 .. Len(todo)
    BY <1>1
  <2> QED BY <2>1, <2>2 DEF ToSet
<1>9. ASSUME NEW r \in References PROVE r \in ToSet(t) \/ Complete(h, r)
  <2>1. CASE Complete(graph, r)
    <3>1. Complete(h, r)
      BY <1>5, <1>7, <2>1 DEF Complete
    <3> QED BY <3>1
  <2> QED BY <1>2, <1>7, <1>8, <2>1
<1> QED BY <1>1, <1>9 DEF PastInv

(* In canonical order the edges are still those of the references.         *)
LEMMA FinalizePast ==
  ASSUME GraphInv, LinkedInv, Finalize, NEW h, h = graph'
  PROVE  PastInv(h, "scip", todo, h)
<1>1. Given /\ stage = "link" /\ SoundGraph(graph) /\ AsLinked(ToSet(graph.edges)) /\ todo = <<>>
  BY DEF GraphInv, PassInv, Finalize
<1>2. \A r \in References : Complete(graph, r)
  <2>1. ToSet(todo) = {}
    BY <1>1 DEF ToSet
  <2> QED BY <1>1, <2>1 DEF LinkedInv, PastInv
<1>3. h = Canonical(graph)
  BY DEF Finalize
<1>4. PICK g \in GraphType : g = graph
  BY <1>1 DEF SoundGraph
<1>5. SoundGraph(g) /\ h = Canonical(g)
  BY <1>1, <1>3, <1>4
<1>6. /\ SoundGraph(h)
      /\ \A e \in ToSet(h.edges) : \E f \in ToSet(g.edges) : Alike(e, f)
      /\ \A f \in ToSet(g.edges) : \E e \in ToSet(h.edges) : Alike(e, f)
  BY <1>5, CanonicalKeepsSound
<1>7. CallsAreAlike(ToSet(h.edges))
  BY <1>6 DEF SoundGraph, Sound
<1>8. AsLinked(ToSet(h.edges))
  BY <1>1, <1>4, <1>6, <1>7, StillLinked
<1>9. \A r \in References : Complete(h, r)
  BY <1>2, <1>4, <1>6, <1>7, StillComplete
<1> QED BY <1>6, <1>8, <1>9 DEF PastInv, IsLinked

(* Without SCIP's facts CHA gets the linked graph.                         *)
LEMMA ScipPast ==
  ASSUME GraphInv, LinkedInv, Scip, NEW h, h = graph'
  PROVE  PastInv(h, "cha", todo, linked)
<1>1. Given /\ SoundGraph(graph) /\ stage = "scip"
  BY DEF GraphInv, PassInv, Scip
<1>2. IsLinked(linked) /\ graph = linked
  BY <1>1 DEF LinkedInv, PastInv
<1>3. code.scip = <<>> => h = linked
  BY <1>1, <1>2, ScipIdle
<1> QED BY <1>2, <1>3 DEF PastInv

(* From the linked graph CHA scopes every call by name, and touches no     *)
(* other.                                                                  *)
LEMMA ChaPast ==
  ASSUME GraphInv, LinkedInv, Cha, NEW h, h = graph'
  PROVE  PastInv(h, "rta", todo, linked)
<1>1. /\ Given /\ SoundGraph(graph) /\ stage = "cha"
      /\ \A e \in ToSet(graph.edges) : e.rule # "cha-trait-set"
  BY DEF GraphInv, PassInv, Cha
<1>2. IsLinked(linked) /\ (code.scip = <<>> => graph = linked)
  BY <1>1 DEF LinkedInv, PastInv
<1>3. ScopesCalls(graph, h)
  BY <1>1, ChaKeeps
<1>4. code.scip = <<>> /\ SitesApart => HasScoped(h) /\ KeepsOthers(linked, h)
  BY <1>1, <1>2, <1>3, ScopedByName
<1> QED BY <1>2, <1>4 DEF PastInv

(* From there RTA keeps what live code may call.                           *)
LEMMA RtaPast ==
  ASSUME GraphInv, LinkedInv, Rta, NEW h, h = graph'
  PROVE  PastInv(h, "sig", todo, linked)
<1>1. Given /\ SoundGraph(graph) /\ stage = "rta"
  BY DEF GraphInv, PassInv, Rta
<1>2. /\ IsLinked(linked)
      /\ code.scip = <<>> /\ SitesApart => HasScoped(graph) /\ KeepsOthers(linked, graph)
  BY <1>1 DEF LinkedInv, PastInv
<1>3. KeepsLive(graph, h)
  BY <1>1, RtaKeeps
<1>4. graph.edges \in Seq(EdgeType)
  BY <1>1, GraphParts DEF SoundGraph
<1>5. code.scip = <<>> /\ SitesApart => LiveKept(h)
  BY <1>2, <1>3, <1>4, RtaKeepsLive
<1> QED BY <1>2, <1>5 DEF PastInv

(* And so do signatures.                                                   *)
LEMMA SigPast ==
  ASSUME GraphInv, LinkedInv, Sig, NEW h, h = graph'
  PROVE  PastInv(h, "effects", todo, linked)
<1>1. Given /\ SoundGraph(graph) /\ stage = "sig"
  BY DEF GraphInv, PassInv, Sig
<1>2. /\ IsLinked(linked)
      /\ code.scip = <<>> /\ SitesApart => LiveKept(graph)
  BY <1>1 DEF LinkedInv, PastInv
<1>3. KeepsResolved(graph, h)
  BY <1>1, SigKeeps
<1>4. code.scip = <<>> /\ SitesApart => LiveKept(h)
  BY <1>2, <1>3, SigKeepsLive
<1> QED BY <1>2, <1>4 DEF PastInv

(* No step breaks the invariant.                                           *)
LEMMA LinkedInvKept == GraphInv /\ LinkedInv /\ [ResolverNext]_resolverVars => LinkedInv'
<1> SUFFICES ASSUME GraphInv, LinkedInv, [ResolverNext]_resolverVars PROVE LinkedInv'
  OBVIOUS
<1>1. PICK h : h = graph'
  OBVIOUS
<1>2. PICK s : s = stage'
  OBVIOUS
<1>3. PICK t : t = todo'
  OBVIOUS
<1>4. PICK l : l = linked'
  OBVIOUS
<1>5. SUFFICES /\ code' = code /\ order' = order /\ PastInv(h, s, t, l)
               /\ s \in {"sig", "effects", "done"} => linked' = linked
  BY <1>1, <1>2, <1>3, <1>4, SamePast
<1>6. CASE LinkRef
  <2>1. code' = code /\ order' = order /\ s = stage /\ l = linked
    BY <1>2, <1>4, <1>6 DEF LinkRef
  <2> QED BY <1>1, <1>3, <1>4, <1>6, <2>1, LinkRefPast
<1>7. CASE Finalize
  <2>1. code' = code /\ order' = order /\ s = "scip" /\ t = todo /\ l = h
    BY <1>1, <1>2, <1>3, <1>4, <1>7 DEF Finalize
  <2> QED BY <1>1, <1>7, <2>1, FinalizePast
<1>8. CASE Scip
  <2>1. code' = code /\ order' = order /\ s = "cha" /\ t = todo /\ l = linked
    BY <1>2, <1>3, <1>4, <1>8 DEF Scip, Advance
  <2> QED BY <1>1, <1>4, <1>8, <2>1, ScipPast
<1>9. CASE Cha
  <2>1. code' = code /\ order' = order /\ s = "rta" /\ t = todo /\ l = linked
    BY <1>2, <1>3, <1>4, <1>9 DEF Cha, Advance
  <2> QED BY <1>1, <1>4, <1>9, <2>1, ChaPast
<1>10. CASE Rta
  <2>1. code' = code /\ order' = order /\ s = "sig" /\ t = todo /\ l = linked
    BY <1>2, <1>3, <1>4, <1>10 DEF Rta, Advance
  <2> QED BY <1>1, <1>4, <1>10, <2>1, RtaPast
<1>11. CASE Sig
  <2>1. code' = code /\ order' = order /\ s = "effects" /\ t = todo /\ l = linked
    BY <1>2, <1>3, <1>4, <1>11 DEF Sig, Advance
  <2> QED BY <1>1, <1>4, <1>11, <2>1, SigPast
<1>12. CASE UNCHANGED <<code, order, stage, todo, graph, linked>>
  BY <1>1, <1>2, <1>3, <1>4, <1>12 DEF LinkedInv
<1>13. CASE Close /\ UNCHANGED <<code, order, todo, graph, linked>>
  <2>1. stage = "effects" /\ s = "done" /\ h = graph /\ t = todo /\ l = linked
    BY <1>1, <1>2, <1>3, <1>4, <1>13 DEF Close
  <2> QED BY <1>4, <1>13, <2>1 DEF LinkedInv, PastInv
<1> QED BY <1>6, <1>7, <1>8, <1>9, <1>10, <1>11, <1>12, <1>13 DEF ResolverNext, resolverVars

(* Virtual calls keep their targets of live types.                         *)
THEOREM LiveMethodsStay == ResolverSpec => []LiveMethodsKept
<1>1. ResolverInit => GraphInv /\ LinkedInv
  BY GraphInvAtFirst, LinkedInvAtFirst
<1>2. GraphInv /\ LinkedInv /\ [ResolverNext]_resolverVars => (GraphInv /\ LinkedInv)'
  BY GraphInvKept, LinkedInvKept
<1>3. ASSUME LinkedInv PROVE LiveMethodsKept
  <2>1. ASSUME stage \in {"sig", "done"}, code.scip = <<>>, SitesApart PROVE LiveKept(graph)
    BY <1>3, <2>1 DEF LinkedInv, PastInv
  <2>2. ASSUME LiveKept(graph),
               NEW t \in BuiltBy(Live) \cap Types, NEW r \in References, Dispatched(r),
               NEW n \in MethodOf(t, r.name), n \in Targets(r, {t})
        PROVE  Resolves(r, n)
    <3>1. PICK e \in ToSet(graph.edges) :
            e.src = r.src /\ e.site = r.site /\ e.dst = n /\ e.rule # "indirect"
      BY <2>2 DEF LiveKept
    <3> QED BY <3>1 DEF Resolves, SiteEdges
  <2> QED BY <2>1, <2>2 DEF LiveMethodsKept
<1> QED BY <1>1, <1>2, <1>3, PTL DEF ResolverSpec

-------------------------------------------------------------------------------
(* The effect closure.                                                     *)

(* w is in every set that holds u and, with a node, all its successors. *)
Reaches(u, w) ==
  \A C : u \in C /\ (\A x \in C : Successors(x) \subseteq C) => w \in C

(* The node of frame i; the nodes on the stack of open ones.               *)
At(i) == frames[i].node
IsOpen(u) == \E p \in DOMAIN open : open[p] = u

(* Frame i is the last one whose node was met no later than u. *)
Owns(i, u) ==
  /\ i \in DOMAIN frames
  /\ index[At(i)] <= index[u]
  /\ \A j \in DOMAIN frames : j > i => index[u] < index[At(j)]

SearchTypes ==
  /\ frames \in Seq([node : AllNodes, left : SUBSET AllNodes])
  /\ open \in Seq(AllNodes)
  /\ components \in Seq(SUBSET AllNodes)
  /\ index \in [Met -> Nat]
  /\ low \in [Met -> Nat]
  /\ Met \subseteq AllNodes
  /\ IsFiniteSet(Met)

(* Indices are given in the order nodes are met, which is that of the open *)
(* stack and of the frames; every frame's node is open, the first of them  *)
(* first.                                                                  *)
MetInOrder ==
  /\ \A n \in Met : index[n] <= Cardinality(Met)
  /\ \A u, w \in Met : index[u] = index[w] => u = w
  /\ \A p \in DOMAIN open : open[p] \in Met
  /\ \A p, q \in DOMAIN open : p < q => index[open[p]] < index[open[q]]
  /\ \A i, j \in DOMAIN frames : i < j => index[At(i)] < index[At(j)]
  /\ \A i \in DOMAIN frames : IsOpen(At(i))
  /\ \A p \in DOMAIN open : Len(frames) > 0 /\ index[At(1)] <= index[open[p]]

(* A node met is open or in one emitted component, and not both.           *)
Partition ==
  /\ \A n \in Met : IsOpen(n) \/ \E c \in DOMAIN components : n \in components[c]
  /\ \A c \in DOMAIN components : \A n \in components[c] : n \in Met /\ ~IsOpen(n)
  /\ \A c, d \in DOMAIN components : c # d => components[c] \cap components[d] = {}

(* A successor not met yet is still to be looked at.                       *)
Looked ==
  /\ \A i \in DOMAIN frames : frames[i].left \subseteq Successors(At(i))
  /\ \A n \in Met : \A w \in Successors(n) :
       w \in Met \/ \E i \in DOMAIN frames : At(i) = n /\ w \in frames[i].left

(* Components are emitted after all they lead to, and are strongly         *)
(* connected.                                                              *)
ComponentsAreClosed ==
  \A c \in DOMAIN components : \A n \in components[c] : \A w \in Successors(n) :
    \E d \in 1 .. c : w \in components[d]

ComponentsAreStrong ==
  \A c \in DOMAIN components : \A n, m \in components[c] : Reaches(n, m)

(* A frame's node reaches what is open above it, and the nodes of its own  *)
(* segment reach it.                                                       *)
SegmentsAreStrong ==
  \A u \in Met : \A i \in DOMAIN frames : IsOpen(u) =>
    /\ index[At(i)] <= index[u] => Reaches(At(i), u)
    /\ Owns(i, u) => Reaches(u, At(i))

(* A low-link is the index of an open node the frame's node reaches,       *)
LowIsOfAnOpenNode ==
  \A i \in DOMAIN frames :
    /\ low[At(i)] <= index[At(i)]
    /\ \E x \in Met : IsOpen(x) /\ index[x] = low[At(i)] /\ Reaches(At(i), x)

(* and at most that of any open node its segment leads to, those apart     *)
(* that the frame has yet to look at.                                      *)
LowCovers ==
  \A u \in Met : \A i \in DOMAIN frames : IsOpen(u) /\ Owns(i, u) =>
    \A w \in Successors(u) : w \in Met /\ IsOpen(w) =>
      (u = At(i) /\ w \in frames[i].left) \/ low[At(i)] <= index[w]

SearchInv ==
  /\ SearchTypes
  /\ MetInOrder
  /\ Partition
  /\ Looked
  /\ ComponentsAreClosed
  /\ ComponentsAreStrong
  /\ SegmentsAreStrong
  /\ LowIsOfAnOpenNode
  /\ LowCovers
-------------------------------------------------------------------------------
(* Reaches is reflexive, extends over an edge, and is transitive.          *)
LEMMA ReachesSelf ==
  ASSUME NEW u PROVE Reaches(u, u)
BY DEF Reaches

LEMMA ReachesNext ==
  ASSUME NEW u, NEW v, Reaches(u, v), NEW w \in Successors(v) PROVE Reaches(u, w)
BY DEF Reaches

LEMMA ReachesOn ==
  ASSUME NEW u, NEW v, NEW w, Reaches(u, v), Reaches(v, w) PROVE Reaches(u, w)
BY DEF Reaches

(* What a step that leaves the graph alone leaves alone too.               *)
LEMMA SameGraph ==
  ASSUME graph' = graph
  PROVE  /\ AllNodes' = AllNodes
         /\ \A n : Successors(n)' = Successors(n)
         /\ \A u, w : Reaches(u, w)' <=> Reaches(u, w)
<1>1. \A n : Successors(n)' = Successors(n)
  BY DEF Successors
<1>2. \A u, w : Reaches(u, w)' <=> Reaches(u, w)
  BY <1>1 DEF Reaches
<1> QED BY <1>1, <1>2 DEF AllNodes

(* An edge leads to a node of the graph.                                   *)
LEMMA SuccessorsAreNodes == \A n : Successors(n) \subseteq AllNodes
BY DEF Successors, AllNodes

(* A node is met (Start, and Descend into a new node): it opens a segment  *)
(* of its own, and no successor of it has been looked at.                  *)
LEMMA PushKeeps ==
  ASSUME SearchInv, graph' = graph, components' = components,
         NEW w \in AllNodes, w \notin Met, Meet(w),
         NEW k \in Nat, k = Len(frames),
         NEW rest \in Seq([node : AllNodes, left : SUBSET AllNodes]),
         Len(rest) = k, frames' = Append(rest, Frame(w)),
         \A i \in DOMAIN frames :
           /\ rest[i].node = At(i)
           /\ rest[i].left \subseteq frames[i].left
           /\ \A m \in frames[i].left : m \in rest[i].left \/ (m = w /\ i = k),
         k > 0 => w \in Successors(At(k))
  PROVE  SearchInv'
<1>1. /\ AllNodes' = AllNodes
      /\ \A n : Successors(n)' = Successors(n)
      /\ \A u, v : Reaches(u, v)' <=> Reaches(u, v)
  BY SameGraph
<1>2. /\ Met' = Met \cup {w}
      /\ index' = [m \in Met \cup {w} |-> IF m = w THEN NextIndex ELSE index[m]]
      /\ low' = [m \in Met \cup {w} |-> IF m = w THEN NextIndex ELSE low[m]]
      /\ open' = Append(open, w)
  BY DEF Meet, Met
<1>3. Cardinality(Met)' = NextIndex /\ NextIndex \in Nat /\ IsFiniteSet(Met')
  <2>1. IsFiniteSet(Met)
    BY DEF SearchInv, SearchTypes
  <2>2. IsFiniteSet(Met \cup {w}) /\ Cardinality(Met \cup {w}) = Cardinality(Met) + 1
    BY <2>1, FS_AddElement
  <2> QED BY <1>2, <2>1, <2>2, FS_CardinalityType DEF NextIndex
<1>4. \A m \in Met : index[m] \in Nat /\ index[m] < NextIndex
  <2>1. IsFiniteSet(Met) /\ index \in [Met -> Nat]
    BY DEF SearchInv, SearchTypes
  <2>2. Cardinality(Met) \in Nat
    BY <2>1, FS_CardinalityType
  <2>3. \A m \in Met : index[m] <= Cardinality(Met)
    BY DEF SearchInv, MetInOrder
  <2> QED BY <2>1, <2>2, <2>3 DEF NextIndex
<1>5. /\ DOMAIN frames = 1 .. k /\ DOMAIN frames' = 1 .. k + 1
      /\ \A i \in 1 .. k : frames'[i] = rest[i] 
      /\ frames'[k + 1] = Frame(w)
      /\ Len(frames') = k + 1
  <2>1. frames \in Seq([node : AllNodes, left : SUBSET AllNodes])
    BY DEF SearchInv, SearchTypes
  <2> QED BY <2>1
<1>6. /\ \A i \in 1 .. k : At(i)' = At(i)
      /\ At(k + 1)' = w
  BY <1>5 DEF At, Frame
<1>o. /\ DOMAIN open = 1 .. Len(open) /\ Len(open) \in Nat
      /\ DOMAIN open' = 1 .. Len(open) + 1
      /\ \A p \in 1 .. Len(open) : open'[p] = open[p]
      /\ open'[Len(open) + 1] = w
  <2>1. open \in Seq(AllNodes)
    BY DEF SearchInv, SearchTypes
  <2> QED BY <1>2, <2>1
<1>7. /\ \A u : IsOpen(u)' <=> IsOpen(u) \/ u = w
      /\ ~IsOpen(w)
      /\ \A u : IsOpen(u) => u \in Met
  <2>1. \A p \in DOMAIN open : open[p] \in Met
    BY DEF SearchInv, MetInOrder
  <2>2. ASSUME NEW u, IsOpen(u)' PROVE IsOpen(u) \/ u = w
    BY <1>o, <2>2 DEF IsOpen
  <2>3. ASSUME NEW u, IsOpen(u) \/ u = w PROVE IsOpen(u)'
    BY <1>o, <2>3 DEF IsOpen
  <2> QED BY <2>1, <2>2, <2>3 DEF IsOpen
<1>8. \A i \in 1 .. k : At(i) \in Met
  BY <1>5, <1>7 DEF SearchInv, MetInOrder
<1>i. /\ \A u \in Met : index'[u] = index[u] /\ low'[u] = low[u]
      /\ index'[w] = NextIndex /\ low'[w] = NextIndex
  BY <1>2
<1>9. /\ \A u \in Met : \A i : Owns(i, u)' => i \in 1 .. k /\ Owns(i, u)
      /\ \A i : Owns(i, w)' => i = k + 1
  <2>1. \A u \in Met : index'[u] = index[u]
    BY <1>2
  <2>2. index'[w] = NextIndex
    BY <1>2
  <2>3. ASSUME NEW u \in Met, NEW i, Owns(i, u)' PROVE i \in 1 .. k /\ Owns(i, u)
    <3>1. i \in 1 .. k + 1 /\ index'[At(i)'] <= index'[u]
      BY <1>5, <2>3 DEF Owns
    <3>2. i # k + 1
      BY <1>3, <1>4, <1>6, <2>1, <2>2, <3>1
    <3>3. i \in 1 .. k
      BY <1>5, <3>1, <3>2
    <3>4. \A j \in 1 .. k : j > i => index'[u] < index'[At(j)']
      BY <1>5, <2>3 DEF Owns
    <3> QED BY <1>5, <1>6, <1>8, <2>1, <3>1, <3>3, <3>4 DEF Owns
  <2>4. ASSUME NEW i, Owns(i, w)', i # k + 1 PROVE FALSE
    <3>1. i \in 1 .. k + 1
      BY <1>5, <2>4 DEF Owns
    <3>2. k + 1 \in 1 .. k + 1 /\ k + 1 > i
      BY <1>5, <2>4, <3>1
    <3>3. index'[w] < index'[At(k + 1)']
      BY <1>5, <2>4, <3>2 DEF Owns
    <3> QED BY <1>3, <1>6, <2>2, <3>3
  <2> QED BY <2>3, <2>4
<1>10. SearchTypes'
  <2>1. Met' \subseteq AllNodes'
    BY <1>1, <1>2 DEF SearchInv, SearchTypes
  <2>2. frames' \in Seq([node : AllNodes, left : SUBSET AllNodes])
    BY SuccessorsAreNodes DEF Frame
  <2>3. open' \in Seq(AllNodes)
    BY <1>2 DEF SearchInv, SearchTypes
  <2>4. index' \in [Met' -> Nat]
    BY <1>2, <1>3, <1>4
  <2>5. low' \in [Met' -> Nat]
    BY <1>2, <1>3 DEF SearchInv, SearchTypes
  <2>6. components \in Seq(SUBSET AllNodes)
    BY DEF SearchInv, SearchTypes
  <2> QED BY <1>1, <1>3, <2>1, <2>2, <2>3, <2>4, <2>5, <2>6 DEF SearchTypes
<1>11. MetInOrder'
  <2>1. \A n \in Met' : index'[n] <= Cardinality(Met)'
    BY <1>2, <1>3, <1>4, <1>i
  <2>2. \A u, v \in Met' : index'[u] = index'[v] => u = v
    BY <1>2, <1>3, <1>4, <1>i DEF SearchInv, MetInOrder
  <2>3. \A p \in DOMAIN open' : open'[p] \in Met'
    BY <1>2, <1>o DEF SearchInv, MetInOrder
  <2>4. ASSUME NEW p \in DOMAIN open', NEW q \in DOMAIN open', p < q
        PROVE  index'[open'[p]] < index'[open'[q]]
    <3>1. p \in 1 .. Len(open) /\ open[p] \in Met
      BY <1>o, <2>4 DEF SearchInv, MetInOrder
    <3>2. CASE q = Len(open) + 1
      BY <1>4, <1>i, <1>o, <3>1, <3>2
    <3>3. CASE q \in 1 .. Len(open)
      BY <1>i, <1>o, <2>4, <3>1, <3>3 DEF SearchInv, MetInOrder
    <3> QED BY <1>o, <3>2, <3>3
  <2>5. ASSUME NEW i \in DOMAIN frames', NEW j \in DOMAIN frames', i < j
        PROVE  index'[At(i)'] < index'[At(j)']
    <3>1. i \in 1 .. k /\ At(i)' = At(i) /\ At(i) \in Met
      BY <1>5, <1>6, <1>8, <2>5
    <3>2. CASE j = k + 1
      BY <1>4, <1>6, <1>i, <3>1, <3>2
    <3>3. CASE j \in 1 .. k
      BY <1>5, <1>6, <1>8, <1>i, <2>5, <3>1, <3>3 DEF SearchInv, MetInOrder
    <3> QED BY <1>5, <3>2, <3>3
  <2>6. ASSUME NEW i \in DOMAIN frames' PROVE IsOpen(At(i))'
    <3>1. CASE i = k + 1
      BY <1>6, <1>7, <3>1
    <3>2. CASE i \in 1 .. k
      BY <1>5, <1>6, <1>7, <3>2 DEF SearchInv, MetInOrder
    <3> QED BY <1>5, <3>1, <3>2
  <2>7. ASSUME NEW p \in DOMAIN open'
        PROVE  Len(frames)' > 0 /\ index'[At(1)'] <= index'[open'[p]]
    <3>1. Len(frames)' > 0
      BY <1>5
    <3>2. CASE k = 0
      <4>1. p = Len(open) + 1
        BY <1>o, <3>2 DEF SearchInv, MetInOrder
      <4> QED BY <1>3, <1>6, <1>i, <1>o, <3>1, <3>2, <4>1
    <3>3. CASE k > 0
      <4>1. At(1)' = At(1) /\ At(1) \in Met
        BY <1>6, <1>8, <3>3
      <4>2. CASE p = Len(open) + 1
        BY <1>3, <1>4, <1>i, <1>o, <3>1, <4>1, <4>2
      <4>3. CASE p \in 1 .. Len(open)
        BY <1>i, <1>o, <3>1, <4>1, <4>3 DEF SearchInv, MetInOrder
      <4> QED BY <1>o, <4>2, <4>3
    <3> QED BY <3>2, <3>3
  <2> QED BY <2>1, <2>2, <2>3, <2>4, <2>5, <2>6, <2>7 DEF MetInOrder
<1>12. Partition'
  BY <1>2, <1>7 DEF Partition, SearchInv, SearchTypes
<1>13. Looked'
  <2>1. ASSUME NEW i \in DOMAIN frames' PROVE frames'[i].left \subseteq Successors(At(i))'
    <3>1. CASE i = k + 1
      BY <1>1, <1>5, <1>6, <3>1 DEF Frame
    <3>2. CASE i \in 1 .. k
      BY <1>1, <1>5, <1>6, <3>2 DEF SearchInv, Looked
    <3> QED BY <1>5, <3>1, <3>2
  <2>2. ASSUME NEW n \in Met', NEW v \in Successors(n)'
        PROVE  v \in Met' \/ \E i \in DOMAIN frames' : At(i)' = n /\ v \in frames'[i].left
    <3>1. CASE n = w
      BY <1>1, <1>5, <1>6, <3>1 DEF Frame
    <3>2. CASE n \in Met /\ v \notin Met
      <4>1. PICK i \in DOMAIN frames : At(i) = n /\ v \in frames[i].left
        BY <1>1, <3>2 DEF SearchInv, Looked
      <4> QED BY <1>2, <1>5, <1>6, <4>1
    <3> QED BY <1>2, <3>1, <3>2
  <2> QED BY <2>1, <2>2 DEF Looked
<1>14. ComponentsAreClosed'
  BY <1>1 DEF ComponentsAreClosed, SearchInv
<1>15. ComponentsAreStrong'
  BY <1>1 DEF ComponentsAreStrong, SearchInv
<1>16. SegmentsAreStrong'
  <2>1. ASSUME NEW u \in Met', NEW i \in DOMAIN frames', IsOpen(u)'
        PROVE  /\ index'[At(i)'] <= index'[u] => Reaches(At(i)', u)
               /\ Owns(i, u)' => Reaches(u, At(i)')
    <3>1. CASE u = w /\ i = k + 1
      BY <1>6, <3>1, ReachesSelf
    <3>2. CASE u = w /\ i \in 1 .. k
      <4>1. index[At(i)] <= index[At(k)] /\ At(k) \in Met /\ IsOpen(At(k)) /\ w \in Successors(At(k))
        BY <1>4, <1>5, <1>8, <3>2 DEF SearchInv, MetInOrder
      <4>2. Reaches(At(i), At(k))
        BY <1>5, <3>2, <4>1 DEF SearchInv, SegmentsAreStrong
      <4>3. Reaches(At(i), w)
        BY <4>1, <4>2, ReachesNext
      <4> QED BY <1>6, <1>9, <3>2, <4>3
    <3>3. CASE u \in Met /\ i = k + 1
      BY <1>3, <1>4, <1>6, <1>9, <1>i, <3>3
    <3>4. CASE u \in Met /\ i \in 1 .. k
      <4>1. IsOpen(u) /\ At(i)' = At(i) /\ index'[u] = index[u] /\ index'[At(i)] = index[At(i)]
        BY <1>6, <1>7, <1>8, <1>i, <2>1, <3>4
      <4> QED BY <1>5, <1>9, <3>4, <4>1 DEF SearchInv, SegmentsAreStrong
    <3> QED BY <1>2, <1>5, <3>1, <3>2, <3>3, <3>4
  <2> QED BY <1>1, <2>1 DEF SegmentsAreStrong
<1>17. LowIsOfAnOpenNode'
  <2>1. ASSUME NEW i \in DOMAIN frames'
        PROVE  /\ low'[At(i)'] <= index'[At(i)']
               /\ \E x \in Met' : IsOpen(x)' /\ index'[x] = low'[At(i)'] /\ Reaches(At(i)', x)
    <3>1. CASE i = k + 1
      BY <1>2, <1>3, <1>6, <1>7, <1>i, <3>1, ReachesSelf
    <3>2. CASE i \in 1 .. k
      <4>1. /\ low[At(i)] <= index[At(i)]
            /\ \E x \in Met : IsOpen(x) /\ index[x] = low[At(i)] /\ Reaches(At(i), x)
        BY <1>5, <3>2 DEF SearchInv, LowIsOfAnOpenNode
      <4> QED BY <1>2, <1>6, <1>7, <1>8, <1>i, <3>2, <4>1
    <3> QED BY <1>5, <3>1, <3>2
  <2> QED BY <1>1, <2>1 DEF LowIsOfAnOpenNode
<1>18. LowCovers'
  <2>1. ASSUME NEW u \in Met', NEW i \in DOMAIN frames', IsOpen(u)', Owns(i, u)',
               NEW v \in Successors(u), v \in Met', IsOpen(v)'
        PROVE  (u = At(i)' /\ v \in frames'[i].left) \/ low'[At(i)'] <= index'[v]
    <3>1. CASE u = w
      BY <1>5, <1>6, <1>9, <2>1, <3>1 DEF Frame
    <3>2. CASE u \in Met /\ v \in Met
      <4>1. i \in 1 .. k /\ Owns(i, u) /\ IsOpen(u) /\ IsOpen(v) /\ v # w
        BY <1>7, <1>9, <2>1, <3>2
      <4>2. (u = At(i) /\ v \in frames[i].left) \/ low[At(i)] <= index[v]
        BY <1>5, <2>1, <3>2, <4>1 DEF SearchInv, LowCovers
      <4> QED BY <1>5, <1>6, <1>8, <1>i, <3>2, <4>1, <4>2
    <3>3. CASE u \in Met /\ v = w
      <4>1. i \in 1 .. k /\ Owns(i, u)
        BY <1>9, <2>1, <3>3
      <4>2. PICK j \in 1 .. k : At(j) = u /\ w \in frames[j].left
        BY <1>5, <3>3 DEF SearchInv, Looked
      <4>3. j = i
        <5>1. j <= i
          BY <1>4, <1>5, <3>3, <4>1, <4>2 DEF Owns
        <5>2. ASSUME j < i PROVE FALSE
          <6>1. index[At(j)] < index[At(i)] /\ index[At(i)] <= index[u]
            BY <1>4, <4>1, <4>2, <5>2, <1>5 DEF Owns, SearchInv, MetInOrder
          <6>2. index[At(j)] = index[u] /\ index[At(i)] \in Nat /\ index[u] \in Nat
            BY <1>4, <1>5, <1>8, <4>1, <4>2
          <6> QED BY <6>1, <6>2
        <5> QED BY <4>1, <5>1, <5>2
      <4>4. CASE w \in rest[i].left
        BY <1>5, <1>6, <3>3, <4>1, <4>2, <4>3, <4>4
      <4>5. CASE i = k
        <5>1. low[At(i)] <= index[At(i)] /\ low[At(i)] \in Nat
          BY <1>5, <1>8, <4>1 DEF SearchInv, LowIsOfAnOpenNode, SearchTypes
        <5> QED BY <1>3, <1>4, <1>6, <1>8, <1>i, <3>3, <4>1, <5>1
      <4> QED BY <1>5, <4>1, <4>2, <4>3, <4>4, <4>5
    <3> QED BY <1>2, <2>1, <3>1, <3>2, <3>3
  <2> QED BY <1>1, <2>1 DEF LowCovers
<1> QED BY <1>10, <1>11, <1>12, <1>13, <1>14, <1>15, <1>16, <1>17, <1>18 DEF SearchInv

(* Frames are of different nodes, all met. *)
LEMMA FramesApart ==
  ASSUME SearchInv
  PROVE  /\ DOMAIN frames = 1 .. Len(frames) /\ Len(frames) \in Nat
         /\ \A u : IsOpen(u) => u \in Met
         /\ \A i \in DOMAIN frames : At(i) \in Met /\ IsOpen(At(i))
         /\ \A i, j \in DOMAIN frames : At(i) = At(j) => i = j
         /\ \A n \in Met : index[n] \in Nat /\ low[n] \in Nat
<1>1. frames \in Seq([node : AllNodes, left : SUBSET AllNodes])
  BY DEF SearchInv, SearchTypes
<1>2. DOMAIN frames = 1 .. Len(frames) /\ Len(frames) \in Nat
  BY <1>1
<1>3. \A u : IsOpen(u) => u \in Met
  BY DEF SearchInv, MetInOrder, IsOpen
<1>4. \A i \in DOMAIN frames : At(i) \in Met /\ IsOpen(At(i))
  BY <1>3 DEF SearchInv, MetInOrder
<1>5. \A n \in Met : index[n] \in Nat /\ low[n] \in Nat
  BY DEF SearchInv, SearchTypes
<1>6. ASSUME NEW i \in DOMAIN frames, NEW j \in DOMAIN frames, At(i) = At(j), i < j PROVE FALSE
  BY <1>4, <1>5, <1>6 DEF SearchInv, MetInOrder
<1>7. ASSUME NEW i \in DOMAIN frames, NEW j \in DOMAIN frames, At(i) = At(j) PROVE i = j
  BY <1>2, <1>6, <1>7
<1> QED BY <1>2, <1>3, <1>4, <1>5, <1>7

(* Every open node belongs to the segment of some frame. *)
LEMMA OwnerExists ==
  ASSUME SearchInv, NEW u, IsOpen(u)
  PROVE  \E i \in DOMAIN frames : Owns(i, u)
<1> DEFINE T == {i \in DOMAIN frames : index[At(i)] <= index[u]}
<1>1. /\ DOMAIN frames = 1 .. Len(frames) /\ Len(frames) \in Nat
      /\ u \in Met
      /\ \A i \in DOMAIN frames : At(i) \in Met
      /\ \A n \in Met : index[n] \in Nat
  BY FramesApart
<1>2. 1 \in T
  BY <1>1 DEF SearchInv, MetInOrder, IsOpen
<1>3. T \in SUBSET Nat /\ T # {} /\ \A i \in T : i <= Len(frames)
  BY <1>1, <1>2
<1> HIDE DEF T
<1>4. PICK m \in T : \A i \in T : i <= m
  BY <1>1, <1>3, GreatestNat
<1>5. m \in DOMAIN frames /\ index[At(m)] <= index[u]
  BY <1>4 DEF T
<1>6. ASSUME NEW j \in DOMAIN frames, j > m PROVE index[u] < index[At(j)]
  <2>1. j \notin T
    BY <1>1, <1>4, <1>5, <1>6
  <2> QED BY <1>1, <2>1 DEF T
<1> QED BY <1>5, <1>6 DEF Owns

(* A successor met before is looked at (Descend): if it is open the        *)
(* low-link takes it in, and if not it covers nothing.                     *)
LEMMA RevisitKeeps ==
  ASSUME SearchInv, graph' = graph, UNCHANGED <<index, open, components>>,
         NEW k \in Nat, k = Len(frames), k > 0,
         NEW w \in Met, w \in frames[k].left,
         frames' \in Seq([node : AllNodes, left : SUBSET AllNodes]), Len(frames') = k,
         \A i \in 1 .. k : frames'[i].node = At(i) /\ (i # k => frames'[i] = frames[i]),
         frames'[k].left = frames[k].left \ {w},
         low' \in [Met -> Nat],
         \A n \in Met : n # At(k) => low'[n] = low[n],
         low'[At(k)] = low[At(k)] \/ (IsOpen(w) /\ low'[At(k)] = index[w]),
         low'[At(k)] <= low[At(k)],
         IsOpen(w) => low'[At(k)] <= index[w]
  PROVE  SearchInv'
<1>1. /\ AllNodes' = AllNodes
      /\ \A n : Successors(n)' = Successors(n)
      /\ \A u, v : Reaches(u, v)' <=> Reaches(u, v)
  BY SameGraph
<1>2. /\ DOMAIN frames = 1 .. k
      /\ \A u : IsOpen(u) => u \in Met
      /\ \A i \in DOMAIN frames : At(i) \in Met /\ IsOpen(At(i))
      /\ \A i, j \in DOMAIN frames : At(i) = At(j) => i = j
      /\ \A n \in Met : index[n] \in Nat /\ low[n] \in Nat
  BY FramesApart
<1>3. /\ Met' = Met
      /\ \A u : IsOpen(u)' <=> IsOpen(u)
  BY DEF Met, IsOpen
<1>5. DOMAIN frames' = 1 .. k
  OBVIOUS
<1>6. \A i \in 1 .. k : At(i)' = At(i)
  BY <1>5 DEF At
<1>7. \A i, u : Owns(i, u)' <=> Owns(i, u)
  BY <1>2, <1>5, <1>6 DEF Owns
<1>u. index' = index /\ open' = open /\ components' = components
  OBVIOUS
<1>l. /\ \A n \in Met : low'[n] \in Nat /\ low'[n] <= low[n]
      /\ \A i \in 1 .. k : i # k => low'[At(i)] = low[At(i)]
  <2>1. ASSUME NEW n \in Met PROVE low'[n] \in Nat /\ low'[n] <= low[n]
    <3>1. CASE n = At(k)
      BY <1>2, <3>1
    <3>2. CASE n # At(k)
      BY <1>2, <3>2
    <3> QED BY <3>1, <3>2
  <2>2. ASSUME NEW i \in 1 .. k, i # k PROVE low'[At(i)] = low[At(i)]
    BY <1>2, <2>2
  <2> QED BY <2>1, <2>2
<1>9. SearchTypes'
  <2> QED BY <1>1, <1>3, <1>u DEF SearchInv, SearchTypes
<1>10. MetInOrder'
  BY <1>2, <1>3, <1>5, <1>6 DEF SearchInv, MetInOrder
<1>11. Partition'
  BY <1>3 DEF SearchInv, Partition
<1>12. Looked'
  <2>1. ASSUME NEW i \in 1 .. k PROVE frames'[i].left \subseteq Successors(At(i))
    BY <1>2 DEF SearchInv, Looked
  <2>2. ASSUME NEW n \in Met, NEW v \in Successors(n), v \notin Met
        PROVE  \E i \in 1 .. k : At(i) = n /\ v \in frames'[i].left
    <3>1. PICK i \in 1 .. k : At(i) = n /\ v \in frames[i].left
      BY <1>2, <2>2 DEF SearchInv, Looked
    <3>2. v # w
      BY <2>2
    <3>3. v \in frames'[i].left
      BY <3>1, <3>2
    <3> QED BY <3>1, <3>3
  <2>3. \A n : Successors(n)' = Successors(n)
    BY <1>1
  <2> QED BY <1>3, <1>5, <1>6, <2>1, <2>2, <2>3 DEF Looked
<1>13. ComponentsAreClosed'
  BY <1>1 DEF ComponentsAreClosed, SearchInv
<1>14. ComponentsAreStrong'
  BY <1>1 DEF ComponentsAreStrong, SearchInv
<1>15. SegmentsAreStrong'
  BY <1>1, <1>2, <1>3, <1>5, <1>6, <1>7 DEF SegmentsAreStrong, SearchInv
<1>16. LowIsOfAnOpenNode'
  <2>1. ASSUME NEW i \in 1 .. k
        PROVE  /\ low'[At(i)] <= index[At(i)]
               /\ \E x \in Met : IsOpen(x) /\ index[x] = low'[At(i)] /\ Reaches(At(i), x)
    <3>1. /\ low[At(i)] <= index[At(i)]
          /\ \E x \in Met : IsOpen(x) /\ index[x] = low[At(i)] /\ Reaches(At(i), x)
      BY <1>2 DEF SearchInv, LowIsOfAnOpenNode
    <3>2. CASE low'[At(i)] = low[At(i)]
      BY <3>1, <3>2
    <3>3. CASE i = k /\ IsOpen(w) /\ low'[At(k)] = index[w]
      <4>1. w \in Successors(At(k))
        BY <1>2 DEF SearchInv, Looked
      <4>2. Reaches(At(k), w)
        BY <4>1, ReachesSelf, ReachesNext
      <4>3. At(k) \in Met /\ low'[At(k)] <= low[At(k)] /\ low'[At(k)] \in Nat
        BY <1>2, <1>l
      <4>4. low[At(k)] \in Nat /\ index[At(k)] \in Nat
        BY <1>2
      <4> QED BY <3>1, <3>3, <4>2, <4>3, <4>4
    <3> QED BY <1>2, <1>l, <3>2, <3>3
  <2> QED BY <1>1, <1>3, <1>5, <1>6, <1>u, <2>1 DEF LowIsOfAnOpenNode
<1>17. LowCovers'
  <2>1. ASSUME NEW u \in Met, NEW i \in 1 .. k, IsOpen(u), Owns(i, u),
               NEW v \in Successors(u), v \in Met, IsOpen(v)
        PROVE  (u = At(i) /\ v \in frames'[i].left) \/ low'[At(i)] <= index[v]
    <3>1. (u = At(i) /\ v \in frames[i].left) \/ low[At(i)] <= index[v]
      BY <1>2, <2>1 DEF SearchInv, LowCovers
    <3>2. low'[At(i)] <= low[At(i)] /\ low'[At(i)] \in Nat /\ low[At(i)] \in Nat /\ index[v] \in Nat
      <4>1. At(i) \in Met
        BY <1>2
      <4> QED BY <1>2, <1>l, <2>1, <4>1
    <3>3. CASE v = w /\ i = k
      BY <1>2, <2>1, <3>3
    <3>4. CASE u = At(i) /\ v \in frames[i].left /\ ~(v = w /\ i = k)
      BY <1>5, <3>4
    <3> QED BY <3>1, <3>2, <3>3, <3>4
  <2> QED BY <1>1, <1>3, <1>5, <1>6, <1>7, <1>u, <2>1 DEF LowCovers
<1> QED BY <1>9, <1>10, <1>11, <1>12, <1>13, <1>14, <1>15, <1>16, <1>17 DEF SearchInv

(* What both ways of leaving a frame do to the frames and their segments. *)
LEMMA PopKeeps ==
  ASSUME SearchInv, graph' = graph, index' = index,
         NEW p \in Nat, NEW k \in Nat, k = p + 1, k = Len(frames), frames[k].left = {},
         frames' \in Seq([node : AllNodes, left : SUBSET AllNodes]), Len(frames') = p,
         \A i \in 1 .. p : frames'[i] = frames[i]
  PROVE  /\ DOMAIN frames' = 1 .. p
         /\ Met' = Met
         /\ \A i \in 1 .. p : At(i)' = At(i) /\ index[At(i)] < index[At(k)]
         /\ \A i \in 1 .. p : \A u \in Met : Owns(i, u)' =>
              Owns(i, u) \/ (i = p /\ Owns(k, u))
         /\ Looked'
<1>1. \A n : Successors(n)' = Successors(n)
  BY SameGraph
<1>2. /\ DOMAIN frames = 1 .. k
      /\ \A i \in DOMAIN frames : At(i) \in Met
      /\ \A n \in Met : index[n] \in Nat
  BY FramesApart
<1>3. Met' = Met
  BY DEF Met
<1>4. DOMAIN frames' = 1 .. p
  OBVIOUS
<1>5. \A i \in 1 .. p : At(i)' = At(i)
  BY DEF At
<1>6. \A i \in 1 .. p : index[At(i)] < index[At(k)]
  BY <1>2 DEF SearchInv, MetInOrder
<1>7. ASSUME NEW i \in 1 .. p, NEW u \in Met, Owns(i, u)'
      PROVE  Owns(i, u) \/ (i = p /\ Owns(k, u))
  <2>1. /\ index[At(i)] <= index[u]
        /\ \A j \in 1 .. p : j > i => index[u] < index[At(j)]
    BY <1>4, <1>5, <1>7 DEF Owns
  <2>2. CASE index[u] < index[At(k)]
    <3>1. ASSUME NEW j \in 1 .. k, j > i PROVE index[u] < index[At(j)]
      <4>1. CASE j = k
        BY <2>2, <4>1
      <4>2. CASE j \in 1 .. p
        BY <2>1, <3>1, <4>2
      <4> QED BY <4>1, <4>2
    <3> QED BY <1>2, <2>1, <3>1 DEF Owns
  <2>3. CASE index[At(k)] <= index[u]
    <3>1. Owns(k, u)
      BY <1>2, <2>3 DEF Owns
    <3>2. ASSUME i < p PROVE FALSE
      <4>1. p \in 1 .. p /\ p \in DOMAIN frames
        BY <1>2, <3>2
      <4>2. index[u] < index[At(p)] /\ index[At(p)] < index[At(k)]
        BY <1>6, <2>1, <3>2, <4>1
      <4>3. index[u] \in Nat /\ index[At(p)] \in Nat /\ index[At(k)] \in Nat
        BY <1>2, <4>1
      <4> QED BY <2>3, <4>2, <4>3
    <3> QED BY <3>1, <3>2
  <2>4. index[u] \in Nat /\ index[At(k)] \in Nat
    BY <1>2
  <2> QED BY <2>2, <2>3, <2>4
<1>8. Looked'
  <2>1. ASSUME NEW i \in 1 .. p PROVE frames'[i].left \subseteq Successors(At(i))
    BY <1>2 DEF SearchInv, Looked
  <2>2. ASSUME NEW n \in Met, NEW v \in Successors(n), v \notin Met
        PROVE  \E i \in 1 .. p : At(i) = n /\ v \in frames'[i].left
    <3>1. PICK i \in 1 .. k : At(i) = n /\ v \in frames[i].left
      BY <1>2, <2>2 DEF SearchInv, Looked
    <3>2. i # k
      BY <3>1
    <3> QED BY <3>1, <3>2
  <2> QED BY <1>1, <1>3, <1>4, <1>5, <2>1, <2>2 DEF Looked
<1> QED BY <1>3, <1>4, <1>5, <1>6, <1>7, <1>8

(* A frame is left whose node is not the first met of its component: its   *)
(* segment joins that of the frame below.                                  *)
LEMMA MergeKeeps ==
  ASSUME SearchInv, graph' = graph, UNCHANGED <<index, open, components>>,
         NEW p \in Nat, NEW k \in Nat, k = p + 1, k = Len(frames), frames[k].left = {},
         low[At(k)] # index[At(k)],
         frames' \in Seq([node : AllNodes, left : SUBSET AllNodes]), Len(frames') = p,
         \A i \in 1 .. p : frames'[i] = frames[i],
         low' \in [Met -> Nat],
         p > 0 => /\ \A n \in Met : n # At(p) => low'[n] = low[n]
                  /\ low'[At(p)] \in {low[At(p)], low[At(k)]}
                  /\ low'[At(p)] <= low[At(p)]
                  /\ low'[At(p)] <= low[At(k)]
  PROVE  SearchInv'
<1>1. /\ AllNodes' = AllNodes
      /\ \A n : Successors(n)' = Successors(n)
      /\ \A u, v : Reaches(u, v)' <=> Reaches(u, v)
  BY SameGraph
<1>2. /\ DOMAIN frames = 1 .. k
      /\ \A u : IsOpen(u) => u \in Met
      /\ \A i \in DOMAIN frames : At(i) \in Met /\ IsOpen(At(i))
      /\ \A i, j \in DOMAIN frames : At(i) = At(j) => i = j
      /\ \A n \in Met : index[n] \in Nat /\ low[n] \in Nat
  BY FramesApart
<1>3. /\ DOMAIN frames' = 1 .. p
      /\ Met' = Met
      /\ \A i \in 1 .. p : At(i)' = At(i) /\ index[At(i)] < index[At(k)]
      /\ \A i \in 1 .. p : \A u \in Met : Owns(i, u)' =>
           Owns(i, u) \/ (i = p /\ Owns(k, u))
      /\ Looked'
  BY PopKeeps
<1>4. index' = index /\ open' = open /\ components' = components
  OBVIOUS
<1>5. \A u : IsOpen(u)' <=> IsOpen(u)
  BY <1>4 DEF IsOpen
<1>d. \A i \in 1 .. p : i \in DOMAIN frames /\ At(i) \in Met /\ IsOpen(At(i))
  <2>1. \A i \in 1 .. p : i \in DOMAIN frames
    BY <1>2
  <2> QED BY <1>2, <2>1
<1>k. k \in DOMAIN frames /\ At(k) \in Met /\ IsOpen(At(k))
  BY <1>2
<1>6. PICK x \in Met : IsOpen(x) /\ index[x] = low[At(k)] /\ Reaches(At(k), x)
  BY <1>2 DEF SearchInv, LowIsOfAnOpenNode
<1>7. index[x] < index[At(k)]
  BY <1>2, <1>d, <1>k, <1>6 DEF SearchInv, LowIsOfAnOpenNode
<1>8. PICK o \in DOMAIN frames : Owns(o, x)
  BY <1>6, OwnerExists
<1>9. o \in 1 .. p /\ p > 0
  BY <1>2, <1>d, <1>k, <1>7, <1>8 DEF Owns
<1>b. p \in 1 .. p /\ p \in DOMAIN frames
  BY <1>2, <1>d, <1>k, <1>9
<1>10. Reaches(At(k), At(p))
  <2>1. Reaches(x, At(o))
    BY <1>6, <1>8 DEF SearchInv, SegmentsAreStrong
  <2>2. index[At(o)] <= index[At(p)]
    <3>1. CASE o = p
      BY <1>2, <1>b, <1>d, <3>1
    <3>2. CASE o < p
      BY <1>2, <1>8, <1>9, <1>b, <1>d, <3>2 DEF SearchInv, MetInOrder
    <3> QED BY <1>9, <3>1, <3>2
  <2>3. Reaches(At(o), At(p))
    BY <1>2, <1>d, <1>k, <1>b, <2>2 DEF SearchInv, SegmentsAreStrong
  <2> QED BY <1>6, <2>1, <2>3, ReachesOn
<1>11. Reaches(At(p), At(k))
  <2>1. index[At(p)] <= index[At(k)]
    BY <1>2, <1>3, <1>b, <1>d, <1>k
  <2> QED BY <1>b, <1>k, <2>1 DEF SearchInv, SegmentsAreStrong
<1>l. /\ \A n \in Met : low'[n] \in Nat /\ low'[n] <= low[n]
      /\ \A i \in 1 .. p : i # p => low'[At(i)] = low[At(i)]
  <2>1. ASSUME NEW n \in Met PROVE low'[n] \in Nat /\ low'[n] <= low[n]
    BY <1>2, <1>d, <1>k, <1>9, SMTT(30)
  <2>2. ASSUME NEW i \in 1 .. p, i # p PROVE low'[At(i)] = low[At(i)]
    BY <1>2, <1>d, <1>k, <1>9, <1>b, <2>2
  <2> QED BY <2>1, <2>2
<1>12. SearchTypes'
  BY <1>1, <1>3, <1>4 DEF SearchInv, SearchTypes
<1>13. MetInOrder'
  <2>1. 1 \in 1 .. p
    BY <1>9
  <2> QED BY <1>2, <1>d, <1>k, <1>3, <1>4, <1>5, <2>1, SMTT(30) DEF SearchInv, MetInOrder
<1>14. Partition'
  BY <1>3, <1>4, <1>5 DEF SearchInv, Partition
<1>15. ComponentsAreClosed'
  BY <1>1, <1>4 DEF ComponentsAreClosed, SearchInv
<1>16. ComponentsAreStrong'
  BY <1>1, <1>4 DEF ComponentsAreStrong, SearchInv
<1>17. SegmentsAreStrong'
  <2>1. ASSUME NEW u \in Met, NEW i \in 1 .. p, IsOpen(u)
        PROVE  /\ index[At(i)] <= index[u] => Reaches(At(i), u)
               /\ Owns(i, u)' => Reaches(u, At(i))
    <3>1. index[At(i)] <= index[u] => Reaches(At(i), u)
      BY <1>2, <1>d, <1>k, <2>1 DEF SearchInv, SegmentsAreStrong
    <3>2. CASE Owns(i, u)
      BY <1>2, <1>d, <1>k, <2>1, <3>1, <3>2 DEF SearchInv, SegmentsAreStrong
    <3>3. CASE i = p /\ Owns(k, u)
      <4>1. Reaches(u, At(k))
        BY <1>2, <1>d, <1>k, <2>1, <3>3 DEF SearchInv, SegmentsAreStrong
      <4> QED BY <1>10, <3>1, <3>3, <4>1, ReachesOn
    <3> QED BY <1>3, <3>1, <3>2, <3>3
  <2> QED BY <1>1, <1>3, <1>4, <1>5, <2>1 DEF SegmentsAreStrong
<1>18. LowIsOfAnOpenNode'
  <2>1. ASSUME NEW i \in 1 .. p
        PROVE  /\ low'[At(i)] <= index[At(i)]
               /\ \E y \in Met : IsOpen(y) /\ index[y] = low'[At(i)] /\ Reaches(At(i), y)
    <3>1. /\ low[At(i)] <= index[At(i)]
          /\ \E y \in Met : IsOpen(y) /\ index[y] = low[At(i)] /\ Reaches(At(i), y)
      BY <1>2, <1>d, <1>k DEF SearchInv, LowIsOfAnOpenNode
    <3>2. low'[At(i)] <= index[At(i)]
      <4>1. At(i) \in Met
        BY <1>2, <1>d, <1>k
      <4> QED BY <1>2, <1>d, <1>k, <1>l, <3>1, <4>1
    <3>3. CASE low'[At(i)] = low[At(i)]
      BY <3>1, <3>2, <3>3
    <3>4. CASE i = p /\ low'[At(i)] = low[At(k)]
      <4>1. Reaches(At(i), x)
        BY <1>6, <1>11, <3>4, ReachesOn
      <4> QED BY <1>6, <3>2, <3>4, <4>1
    <3> QED BY <1>9, <1>l, <3>3, <3>4
  <2> QED BY <1>1, <1>3, <1>4, <1>5, <2>1 DEF LowIsOfAnOpenNode
<1>19. LowCovers'
  <2>1. ASSUME NEW u \in Met, NEW i \in 1 .. p, IsOpen(u), Owns(i, u)',
               NEW v \in Successors(u), v \in Met, IsOpen(v)
        PROVE  (u = At(i) /\ v \in frames'[i].left) \/ low'[At(i)] <= index[v]
    <3>1. At(i) \in Met /\ low'[At(i)] \in Nat /\ low[At(i)] \in Nat /\ index[v] \in Nat
          /\ low'[At(i)] <= low[At(i)]
      BY <1>2, <1>d, <1>k, <1>l, <2>1
    <3>2. CASE Owns(i, u)
      <4>1. (u = At(i) /\ v \in frames[i].left) \/ low[At(i)] <= index[v]
        BY <1>2, <1>d, <1>k, <2>1, <3>2 DEF SearchInv, LowCovers
      <4> QED BY <3>1, <4>1
    <3>3. CASE i = p /\ Owns(k, u)
      <4>1. low[At(k)] <= index[v] /\ low[At(k)] \in Nat
        BY <1>2, <1>d, <1>k, <2>1, <3>3 DEF SearchInv, LowCovers
      <4>2. low'[At(p)] <= low[At(k)]
        BY <1>9
      <4> QED BY <3>1, <3>3, <4>1, <4>2
    <3> QED BY <1>3, <2>1, <3>2, <3>3
  <2> QED BY <1>1, <1>3, <1>4, <1>5, <2>1 DEF LowCovers
<1> QED BY <1>3, <1>12, <1>13, <1>14, <1>15, <1>16, <1>17, <1>18, <1>19 DEF SearchInv

(* A frame is left whose node is the first met of its component: the open  *)
(* nodes from it on are that component.                                    *)
LEMMA EmitKeeps ==
  ASSUME SearchInv, graph' = graph, index' = index, low' = low,
         NEW p \in Nat, NEW k \in Nat, k = p + 1, k = Len(frames), frames[k].left = {},
         low[At(k)] = index[At(k)],
         frames' \in Seq([node : AllNodes, left : SUBSET AllNodes]), Len(frames') = p,
         \A i \in 1 .. p : frames'[i] = frames[i],
         NEW at \in DOMAIN open, open[at] = At(k),
         open' = SubSeq(open, 1, at - 1),
         NEW C, C = {open[q] : q \in at .. Len(open)},
         components' = Append(components, C)
  PROVE  SearchInv'
<1>1. /\ AllNodes' = AllNodes
      /\ \A n : Successors(n)' = Successors(n)
      /\ \A u, v : Reaches(u, v)' <=> Reaches(u, v)
  BY SameGraph
<1>2. /\ DOMAIN frames = 1 .. k
      /\ \A u : IsOpen(u) => u \in Met
      /\ \A i \in DOMAIN frames : At(i) \in Met /\ IsOpen(At(i))
      /\ \A i, j \in DOMAIN frames : At(i) = At(j) => i = j
      /\ \A n \in Met : index[n] \in Nat /\ low[n] \in Nat
  BY FramesApart
<1>3. /\ DOMAIN frames' = 1 .. p
      /\ Met' = Met
      /\ \A i \in 1 .. p : At(i)' = At(i) /\ index[At(i)] < index[At(k)]
      /\ \A i \in 1 .. p : \A u \in Met : Owns(i, u)' =>
           Owns(i, u) \/ (i = p /\ Owns(k, u))
      /\ Looked'
  BY PopKeeps
<1>4. open \in Seq(AllNodes) /\ components \in Seq(SUBSET AllNodes)
  BY DEF SearchInv, SearchTypes
<1>5. /\ DOMAIN open = 1 .. Len(open) /\ Len(open) \in Nat /\ at \in 1 .. Len(open)
      /\ open' \in Seq(AllNodes)
      /\ DOMAIN open' = 1 .. at - 1
      /\ \A q \in 1 .. at - 1 : open'[q] = open[q]
  BY <1>4
<1>6. /\ \A q \in DOMAIN open : open[q] \in Met /\ IsOpen(open[q])
      /\ \A q, r \in DOMAIN open : q < r => index[open[q]] < index[open[r]]
  BY DEF SearchInv, MetInOrder, IsOpen
<1>7. \A q \in DOMAIN open : q < at <=> index[open[q]] < index[At(k)]
  <2>1. ASSUME NEW q \in DOMAIN open, q < at PROVE index[open[q]] < index[At(k)]
    BY <1>6, <2>1
  <2>2. ASSUME NEW q \in DOMAIN open, at < q PROVE ~(index[open[q]] < index[At(k)])
    <3>1. index[At(k)] < index[open[q]]
      BY <1>6, <2>2
    <3>2. index[At(k)] \in Nat /\ index[open[q]] \in Nat
      BY <1>2, <1>6
    <3> QED BY <3>1, <3>2
  <2>3. ~(index[open[at]] < index[At(k)])
    BY <1>2
  <2>4. \A q \in DOMAIN open : q < at \/ q = at \/ at < q
    BY <1>5
  <2> QED BY <1>5, <2>1, <2>2, <2>3, <2>4
<1>8. \A u : IsOpen(u)' <=> IsOpen(u) /\ index[u] < index[At(k)]
  <2>1. ASSUME NEW u, IsOpen(u)' PROVE IsOpen(u) /\ index[u] < index[At(k)]
    <3>1. PICK q \in 1 .. at - 1 : open[q] = u
      BY <1>5, <2>1 DEF IsOpen
    <3> QED BY <1>5, <1>6, <1>7, <3>1, SMTT(30)
  <2>2. ASSUME NEW u, IsOpen(u), index[u] < index[At(k)] PROVE IsOpen(u)'
    <3>1. PICK q \in DOMAIN open : open[q] = u
      BY <2>2 DEF IsOpen
    <3>2. q \in 1 .. at - 1
      BY <1>5, <1>7, <2>2, <3>1
    <3> QED BY <1>5, <3>1, <3>2 DEF IsOpen
  <2> QED BY <2>1, <2>2
<1>9. \A u : u \in C <=> u \in Met /\ IsOpen(u) /\ index[At(k)] <= index[u]
  <2>1. ASSUME NEW u \in C PROVE u \in Met /\ IsOpen(u) /\ index[At(k)] <= index[u]
    <3>1. PICK q \in at .. Len(open) : open[q] = u
      OBVIOUS
    <3>2. q \in DOMAIN open /\ ~(q < at)
      BY <1>5
    <3>3. index[u] \in Nat /\ index[At(k)] \in Nat
      BY <1>2, <1>6, <3>1, <3>2
    <3> QED BY <1>6, <1>7, <3>1, <3>2, <3>3
  <2>2. ASSUME NEW u \in Met, IsOpen(u), index[At(k)] <= index[u] PROVE u \in C
    <3>1. PICK q \in DOMAIN open : open[q] = u
      BY <2>2 DEF IsOpen
    <3>2. index[u] \in Nat /\ index[At(k)] \in Nat
      BY <1>2
    <3>3. q \in at .. Len(open)
      BY <1>5, <1>7, <2>2, <3>1, <3>2
    <3> QED BY <3>1, <3>3
  <2> QED BY <2>1, <2>2
<1>10. \A u : IsOpen(u) => (IsOpen(u)' \/ u \in C)
  <2>1. \A u : IsOpen(u) => index[u] \in Nat /\ index[At(k)] \in Nat
    BY <1>2, SMTT(30)
  <2> QED BY <1>2, <1>8, <1>9, <2>1
<1>11. \A u \in C : IsOpen(u) /\ Owns(k, u)
  BY <1>2, <1>9 DEF Owns
<1>c. /\ DOMAIN components = 1 .. Len(components) /\ Len(components) \in Nat
      /\ components' \in Seq(SUBSET AllNodes)
      /\ DOMAIN components' = 1 .. Len(components) + 1
      /\ \A c \in 1 .. Len(components) : components'[c] = components[c]
      /\ components'[Len(components) + 1] = C
  <2>1. C \subseteq AllNodes
    BY <1>9 DEF SearchInv, SearchTypes
  <2> QED BY <1>4, <2>1
<1>d. \A i \in 1 .. p : i \in DOMAIN frames /\ At(i) \in Met /\ IsOpen(At(i))
  <2>1. \A i \in 1 .. p : i \in DOMAIN frames
    BY <1>2
  <2> QED BY <1>2, <2>1
<1>k. k \in DOMAIN frames /\ At(k) \in Met /\ IsOpen(At(k))
  BY <1>2
<1>o. \A i \in 1 .. p : \A u \in Met : IsOpen(u)' /\ Owns(i, u)' => Owns(i, u)
  <2>1. ASSUME NEW u \in Met, IsOpen(u)', Owns(k, u) PROVE FALSE
    <3>1. index[u] < index[At(k)] /\ index[At(k)] <= index[u]
      BY <1>8, <2>1 DEF Owns
    <3> QED BY <1>2, <1>k, <3>1
  <2> QED BY <1>3, <2>1
<1>12. SearchTypes'
  <2>1. Met' \subseteq AllNodes' /\ IsFiniteSet(Met') /\ index' \in [Met' -> Nat] /\ low' \in [Met' -> Nat]
    BY <1>1, <1>3 DEF SearchInv, SearchTypes
  <2> QED BY <1>1, <1>5, <1>c, <2>1 DEF SearchTypes
<1>13. MetInOrder'
  <2>1. /\ \A n \in Met : index[n] <= Cardinality(Met)
        /\ \A u, w \in Met : index[u] = index[w] => u = w
    BY DEF SearchInv, MetInOrder
  <2>2. \A q \in 1 .. at - 1 : q \in DOMAIN open
    BY <1>5
  <2>3. ASSUME NEW i \in 1 .. p, NEW j \in 1 .. p, i < j PROVE index[At(i)] < index[At(j)]
    BY <1>d, <2>3 DEF SearchInv, MetInOrder
  <2>4. ASSUME NEW i \in 1 .. p PROVE IsOpen(At(i))'
    BY <1>3, <1>8, <1>d
  <2>5. ASSUME NEW q \in 1 .. at - 1 PROVE p > 0 /\ index[At(1)] <= index[open[q]]
    <3>1. index[At(1)] <= index[open[q]]
      BY <2>2 DEF SearchInv, MetInOrder
    <3>2. index[open[q]] < index[At(k)]
      BY <1>5, <1>7, <2>2
    <3>3. k # 1
      BY <1>2, <1>6, <1>k, <2>2, <3>1, <3>2
    <3> QED BY <3>1, <3>3
  <2>6. p > 0 => At(1)' = At(1)
    BY <1>3
  <2> QED BY <1>3, <1>5, <1>6, <2>1, <2>2, <2>3, <2>4, <2>5, <2>6 DEF MetInOrder
<1>14. Partition'
  <2>1. ASSUME NEW n \in Met PROVE IsOpen(n)' \/ \E c \in DOMAIN components' : n \in components'[c]
    <3>1. CASE IsOpen(n)
      <4>1. Len(components) + 1 \in DOMAIN components' /\ components'[Len(components) + 1] = C
        BY <1>c
      <4>2. IsOpen(n)' \/ n \in C
        BY <1>10, <3>1
      <4> QED BY <4>1, <4>2
    <3>2. CASE \E c \in DOMAIN components : n \in components[c]
      BY <1>c, <3>2
    <3> QED BY <3>1, <3>2 DEF SearchInv, Partition
  <2>2. ASSUME NEW c \in DOMAIN components', NEW n \in components'[c]
        PROVE  n \in Met /\ ~IsOpen(n)'
    <3>1. CASE c = Len(components) + 1
      BY <1>2, <1>8, <1>9, <1>c, <1>k, <3>1
    <3>2. CASE c \in 1 .. Len(components)
      BY <1>8, <1>c, <3>2 DEF SearchInv, Partition
    <3> QED BY <1>c, <3>1, <3>2
  <2>3. ASSUME NEW c \in DOMAIN components PROVE components[c] \cap C = {}
    BY <1>9 DEF SearchInv, Partition
  <2>4. \A c, d \in DOMAIN components' : c # d => components'[c] \cap components'[d] = {}
    BY <1>c, <2>3 DEF SearchInv, Partition
  <2> QED BY <1>3, <2>1, <2>2, <2>4 DEF Partition
<1>15. ComponentsAreClosed'
  <2>1. ASSUME NEW u \in C, NEW w \in Successors(u)
        PROVE  \E d \in 1 .. Len(components) + 1 : w \in components'[d]
    <3>1. w \in Met
      <4>1. ASSUME NEW i \in 1 .. k, At(i) = u, w \in frames[i].left PROVE FALSE
        <5>1. i # k
          BY <4>1
        <5>2. i \in 1 .. p
          BY <5>1
        <5>3. index[u] < index[At(k)] /\ index[At(k)] <= index[u]
          BY <1>3, <1>9, <4>1, <5>2
        <5> QED BY <1>2, <1>9, <1>k, <5>3
      <4>2. u \in Met
        BY <1>9
      <4>3. w \in Met \/ \E i \in DOMAIN frames : At(i) = u /\ w \in frames[i].left
        BY <4>2 DEF SearchInv, Looked
      <4> QED BY <1>2, <4>1, <4>3
    <3>2. CASE IsOpen(w)
      <4>1. low[At(k)] <= index[w]
        BY <1>9, <1>11, <1>k, <3>1, <3>2 DEF SearchInv, LowCovers
      <4>2. w \in C
        BY <1>9, <3>1, <3>2, <4>1
      <4> QED BY <1>c, <4>2
    <3>3. CASE \E d \in DOMAIN components : w \in components[d]
      BY <1>c, <3>3
    <3> QED BY <3>1, <3>2, <3>3 DEF SearchInv, Partition
  <2>2. ASSUME NEW c \in 1 .. Len(components), NEW n \in components[c], NEW w \in Successors(n)
        PROVE  \E d \in 1 .. c : w \in components'[d]
    <3>1. PICK d \in 1 .. c : w \in components[d]
      BY <1>c DEF SearchInv, ComponentsAreClosed
    <3>2. d \in 1 .. Len(components)
      BY <1>c
    <3> QED BY <1>c, <3>1, <3>2
  <2>3. ASSUME NEW c \in DOMAIN components', NEW n \in components'[c], NEW w \in Successors(n)
        PROVE  \E d \in 1 .. c : w \in components'[d]
    <3>1. CASE c = Len(components) + 1
      BY <1>c, <2>1, <3>1
    <3>2. CASE c \in 1 .. Len(components)
      BY <1>c, <2>2, <3>2
    <3> QED BY <1>c, <3>1, <3>2
  <2> QED BY <1>1, <2>3 DEF ComponentsAreClosed
<1>16. ComponentsAreStrong'
  <2>1. ASSUME NEW n \in C, NEW m \in C PROVE Reaches(n, m)
    <3>1. Reaches(n, At(k))
      BY <1>9, <1>11, <1>k DEF SearchInv, SegmentsAreStrong
    <3>2. Reaches(At(k), m)
      BY <1>9, <1>11, <1>k DEF SearchInv, SegmentsAreStrong
    <3> QED BY <3>1, <3>2, ReachesOn
  <2> QED BY <1>1, <1>c, <2>1 DEF SearchInv, ComponentsAreStrong
<1>17. SegmentsAreStrong'
  <2>1. ASSUME NEW u \in Met, NEW i \in 1 .. p, IsOpen(u)'
        PROVE  /\ index[At(i)] <= index[u] => Reaches(At(i), u)
               /\ Owns(i, u)' => Reaches(u, At(i))
    <3>1. IsOpen(u)
      BY <1>8, <2>1
    <3> QED BY <1>d, <1>o, <2>1, <3>1 DEF SearchInv, SegmentsAreStrong
  <2> QED BY <1>1, <1>3, <2>1 DEF SegmentsAreStrong
<1>18. LowIsOfAnOpenNode'
  <2>1. ASSUME NEW i \in 1 .. p
        PROVE  /\ low[At(i)] <= index[At(i)]
               /\ \E y \in Met : IsOpen(y)' /\ index[y] = low[At(i)] /\ Reaches(At(i), y)
    <3>1. low[At(i)] <= index[At(i)]
      BY <1>d DEF SearchInv, LowIsOfAnOpenNode
    <3>2. PICK y \in Met : IsOpen(y) /\ index[y] = low[At(i)] /\ Reaches(At(i), y)
      BY <1>d DEF SearchInv, LowIsOfAnOpenNode
    <3>3. index[At(i)] < index[At(k)]
      BY <1>3
    <3>4. index[y] < index[At(k)]
      BY <1>2, <1>d, <1>k, <3>1, <3>2, <3>3
    <3> QED BY <1>8, <3>1, <3>2, <3>4
  <2> QED BY <1>1, <1>3, <2>1 DEF LowIsOfAnOpenNode
<1>19. LowCovers'
  <2>1. ASSUME NEW u \in Met, NEW i \in 1 .. p, IsOpen(u)', Owns(i, u)',
               NEW v \in Successors(u), v \in Met, IsOpen(v)'
        PROVE  (u = At(i) /\ v \in frames'[i].left) \/ low[At(i)] <= index[v]
    <3>1. IsOpen(u) /\ IsOpen(v) /\ Owns(i, u)
      BY <1>8, <1>o, <2>1
    <3> QED BY <1>d, <2>1, <3>1 DEF SearchInv, LowCovers
  <2> QED BY <1>1, <1>3, <2>1 DEF LowCovers
<1> QED BY <1>3, <1>12, <1>13, <1>14, <1>15, <1>16, <1>17, <1>18, <1>19 DEF SearchInv

(* Sequences of frames: their members, and all of them but the last.       *)
LEMMA SeqMember ==
  ASSUME NEW S, NEW s \in Seq(S), NEW i \in DOMAIN s PROVE s[i] \in S
OBVIOUS

LEMMA SeqFront ==
  ASSUME NEW S, NEW s \in Seq(S), NEW p \in Nat, p <= Len(s)
  PROVE  /\ SubSeq(s, 1, p) \in Seq(S)
         /\ Len(SubSeq(s, 1, p)) = p
         /\ \A i \in 1 .. p : SubSeq(s, 1, p)[i] = s[i]
OBVIOUS

(* Start, Descend and Ascend keep the search invariant.                    *)
LEMMA StartKeeps ==
  ASSUME SearchInv, Start, graph' = graph PROVE SearchInv'
<1>1. PICK n \in AllNodes : n \notin Met /\ Meet(n) /\ frames' = <<Frame(n)>>
  BY DEF Start
<1>2. frames = <<>> /\ components' = components
  BY DEF Start
<1>3. frames' = Append(frames, Frame(n))
  BY <1>1, <1>2
<1>4. /\ frames \in Seq([node : AllNodes, left : SUBSET AllNodes])
      /\ 0 \in Nat /\ 0 = Len(frames) /\ Len(frames) = 0 /\ DOMAIN frames = {}
      /\ 0 > 0 => n \in Successors(At(0))
  BY <1>2
<1>5. \A i \in DOMAIN frames :
           /\ frames[i].node = At(i)
           /\ frames[i].left \subseteq frames[i].left
           /\ \A m \in frames[i].left : m \in frames[i].left \/ (m = n /\ i = 0)
  BY <1>4
<1> QED BY <1>1, <1>2, <1>3, <1>4, <1>5, PushKeeps, Zenon

(* The frame on top: the part of every later step that does not differ. *)
LEMMA OnTop ==
  ASSUME SearchInv, frames # <<>>
  PROVE  /\ Len(frames) \in Nat \ {0}
         /\ frames \in Seq([node : AllNodes, left : SUBSET AllNodes])
         /\ top = frames[Len(frames)]
         /\ top \in [node : AllNodes, left : SUBSET AllNodes]
         /\ top.node = At(Len(frames)) /\ top.node \in Met /\ IsOpen(top.node)
<1>1. frames \in Seq([node : AllNodes, left : SUBSET AllNodes])
  BY DEF SearchInv, SearchTypes
<1>2. Len(frames) \in Nat \ {0}
  BY <1>1
<1>3. Len(frames) \in DOMAIN frames
  BY <1>1, <1>2
<1>4. top \in [node : AllNodes, left : SUBSET AllNodes]
  BY <1>1, <1>3, SeqMember DEF top
<1>5. top.node = At(Len(frames))
  BY DEF top, At
<1> QED BY <1>1, <1>2, <1>3, <1>4, <1>5, FramesApart DEF top

LEMMA DescendKeeps ==
  ASSUME SearchInv, Descend, graph' = graph PROVE SearchInv'
<1> DEFINE Rest(w) == [frames EXCEPT ![Len(frames)].left = @ \ {w}]
<1>1. frames # <<>> /\ components' = components
  BY DEF Descend
<1>2. PICK w \in top.left :
        IF w \notin Met
        THEN Meet(w) /\ frames' = Append(Rest(w), Frame(w))
        ELSE /\ frames' = Rest(w)
             /\ low' = IF w \in Range(open)
                       THEN [low EXCEPT ![top.node] = Min({@, index[w]})] ELSE low
             /\ UNCHANGED <<index, open>>
  BY DEF Descend
<1>3. PICK k \in Nat : k = Len(frames) /\ k > 0
  BY <1>1, OnTop
<1>4. /\ frames \in Seq([node : AllNodes, left : SUBSET AllNodes])
      /\ top = frames[k] /\ top \in [node : AllNodes, left : SUBSET AllNodes]
      /\ top.node = At(k) /\ At(k) \in Met
      /\ k \in DOMAIN frames
  BY <1>1, <1>3, OnTop
<1>5. Rest(w) = [frames EXCEPT ![k] = [frames[k] EXCEPT !.left = @ \ {w}]]
  BY <1>3, <1>4
<1>6. [frames[k] EXCEPT !.left = @ \ {w}] \in [node : AllNodes, left : SUBSET AllNodes]
  BY <1>4
<1>7. PICK rest : rest = Rest(w)
  OBVIOUS
<1> HIDE DEF Rest
<1>8. /\ rest \in Seq([node : AllNodes, left : SUBSET AllNodes]) /\ Len(rest) = k
      /\ \A i \in DOMAIN frames : rest[i].node = frames[i].node /\ (i # k => rest[i] = frames[i])
      /\ rest[k].left = frames[k].left \ {w}
  <2>1. rest = [frames EXCEPT ![k] = [frames[k] EXCEPT !.left = @ \ {w}]]
    BY <1>5, <1>7
  <2>2. rest \in Seq([node : AllNodes, left : SUBSET AllNodes]) /\ Len(rest) = k
    BY <1>3, <1>4, <1>6, <2>1
  <2>3. rest[k] = [frames[k] EXCEPT !.left = @ \ {w}]
    BY <1>4, <2>1
  <2>4. rest[k].node = frames[k].node /\ rest[k].left = frames[k].left \ {w}
    BY <1>4, <2>3
  <2>5. \A i \in DOMAIN frames : i # k => rest[i] = frames[i]
    BY <1>4, <2>1
  <2> QED BY <2>2, <2>4, <2>5
<1>9. w \in AllNodes /\ w \in frames[k].left
  BY <1>4
<1>10. CASE w \notin Met
  <2>1. Meet(w) /\ frames' = Append(rest, Frame(w))
    BY <1>2, <1>7, <1>10
  <2>2. \A i \in DOMAIN frames :
           /\ rest[i].node = At(i)
           /\ rest[i].left \subseteq frames[i].left
           /\ \A m \in frames[i].left : m \in rest[i].left \/ (m = w /\ i = k)
    BY <1>4, <1>8 DEF At
  <2>3. k > 0 => w \in Successors(At(k))
    BY <1>4, <1>9 DEF SearchInv, Looked
  <2>4. /\ rest \in Seq([node : AllNodes, left : SUBSET AllNodes]) /\ Len(rest) = k
        /\ k = Len(frames) /\ w \in AllNodes /\ components' = components
    BY <1>1, <1>3, <1>8, <1>9
  <2> QED BY <1>10, <2>1, <2>2, <2>3, <2>4, PushKeeps, ZenonT(60)
<1>11. CASE w \in Met
  <2>1. /\ frames' = rest
        /\ low' = IF w \in Range(open) THEN [low EXCEPT ![top.node] = Min({@, index[w]})] ELSE low
        /\ UNCHANGED <<index, open, components>>
    BY <1>1, <1>2, <1>7, <1>11
  <2>2. w \in Range(open) <=> IsOpen(w)
    BY DEF Range, IsOpen
  <2>3. low \in [Met -> Nat] /\ low[At(k)] \in Nat /\ index[w] \in Nat
    BY <1>4, <1>11 DEF SearchInv, SearchTypes
  <2>4. Min({low[At(k)], index[w]}) = IF low[At(k)] <= index[w] THEN low[At(k)] ELSE index[w]
    BY <2>3, LeastOfTwo DEF Min
  <2>5. low' = IF IsOpen(w) THEN [low EXCEPT ![At(k)] = Min({low[At(k)], index[w]})] ELSE low
    BY <1>4, <2>1, <2>2
  <2>6. /\ low' \in [Met -> Nat]
        /\ \A n \in Met : n # At(k) => low'[n] = low[n]
        /\ low'[At(k)] = low[At(k)] \/ (IsOpen(w) /\ low'[At(k)] = index[w])
        /\ low'[At(k)] <= low[At(k)]
        /\ IsOpen(w) => low'[At(k)] <= index[w]
    <3>1. CASE ~IsOpen(w)
      BY <2>3, <2>5, <3>1
    <3>2. CASE IsOpen(w)
      BY <1>4, <2>3, <2>4, <2>5, <3>2
    <3> QED BY <3>1, <3>2
  <2>7. DOMAIN frames = 1 .. k
    BY <1>3, <1>4
  <2>8. \A i \in 1 .. k : frames'[i].node = At(i) /\ (i # k => frames'[i] = frames[i])
    BY <1>8, <2>1, <2>7 DEF At
  <2> QED BY <1>3, <1>8, <1>9, <1>11, <2>1, <2>6, <2>8, RevisitKeeps
<1> QED BY <1>10, <1>11

LEMMA AscendKeeps ==
  ASSUME SearchInv, Ascend, graph' = graph PROVE SearchInv'
<1>1. frames # <<>> /\ top.left = {} /\ index' = index
  BY DEF Ascend
<1>2. PICK k \in Nat : k = Len(frames) /\ k > 0
  BY <1>1, OnTop
<1>3. PICK p \in Nat : k = p + 1
  <2>1. k - 1 \in Nat /\ k = (k - 1) + 1
    BY <1>2
  <2> QED BY <2>1
<1>4. /\ frames \in Seq([node : AllNodes, left : SUBSET AllNodes])
      /\ top = frames[k]
      /\ top.node = At(k) /\ At(k) \in Met /\ IsOpen(At(k))
      /\ DOMAIN frames = 1 .. k
  BY <1>1, <1>2, OnTop
<1>5. PICK at : at = CHOOSE i \in DOMAIN open : open[i] = At(k)
  OBVIOUS
<1>6. at \in DOMAIN open /\ open[at] = At(k)
  BY <1>4, <1>5 DEF IsOpen
<1>7. /\ IF low[At(k)] = index[At(k)]
         THEN /\ components' = Append(components, {open[i] : i \in at .. Len(open)})
              /\ open' = SubSeq(open, 1, at - 1)
         ELSE UNCHANGED <<components, open>>
  BY <1>4, <1>5 DEF Ascend
<1>r. low' = Relaxed(At(k))
  BY <1>4 DEF Ascend
<1>s. frames' = SubSeq(frames, 1, Len(frames) - 1)
  BY DEF Ascend
<1>8. /\ frames' \in Seq([node : AllNodes, left : SUBSET AllNodes]) /\ Len(frames') = p
      /\ \A i \in 1 .. p : frames'[i] = frames[i]
  <2>1. frames' = SubSeq(frames, 1, p)
    <3>1. Len(frames) - 1 = p
      BY <1>2, <1>3
    <3> QED BY <1>s, <3>1
  <2>2. p <= Len(frames)
    BY <1>2, <1>3
  <2> QED BY <1>4, <2>1, <2>2, SeqFront
<1>9. frames[k].left = {}
  BY <1>1, <1>4
<1>10. low \in [Met -> Nat] /\ \A n \in Met : low[n] \in Nat /\ index[n] \in Nat
  BY DEF SearchInv, SearchTypes
<1>11. ASSUME p > 0
       PROVE  /\ p \in DOMAIN frames /\ At(p) \in Met
              /\ low' = [low EXCEPT ![At(p)] = IF low[At(p)] <= low[At(k)] THEN low[At(p)] ELSE low[At(k)]]
  <2>1. p \in DOMAIN frames
    BY <1>3, <1>4, <1>11
  <2>2. At(p) \in Met
    BY <2>1, FramesApart
  <2>3. low' = [low EXCEPT ![At(p)] = Min({low[At(p)], low[At(k)]})]
    <3>1. Len(frames) # 1 /\ Len(frames) - 1 = p
      BY <1>2, <1>3, <1>11
    <3> QED BY <1>r, <3>1 DEF Relaxed, At
  <2>4. Min({low[At(p)], low[At(k)]}) = IF low[At(p)] <= low[At(k)] THEN low[At(p)] ELSE low[At(k)]
    BY <1>4, <1>10, <2>2, LeastOfTwo DEF Min
  <2> QED BY <2>1, <2>2, <2>3, <2>4
<1>12. p = 0 => low' = low
  <2>1. p = 0 => Len(frames) = 1
    BY <1>2, <1>3
  <2> QED BY <1>r, <2>1 DEF Relaxed
<1>13. CASE low[At(k)] = index[At(k)]
  <2>1. low' = low
    <3>1. CASE p > 0
      <4>1. low[At(p)] <= index[At(p)]
        BY <1>11, <3>1 DEF SearchInv, LowIsOfAnOpenNode
      <4>2. index[At(p)] < index[At(k)]
        BY <1>3, <1>4, <1>11, <3>1 DEF SearchInv, MetInOrder
      <4>3. low[At(p)] <= low[At(k)]
        BY <1>4, <1>10, <1>11, <1>13, <3>1, <4>1, <4>2
      <4> QED BY <1>10, <1>11, <3>1, <4>3
    <3> QED BY <1>12, <3>1
  <2>2. /\ components' = Append(components, {open[q] : q \in at .. Len(open)})
        /\ open' = SubSeq(open, 1, at - 1)
    BY <1>7, <1>13
  <2>3. PICK C : C = {open[q] : q \in at .. Len(open)}
    OBVIOUS
  <2>4. components' = Append(components, C)
    BY <2>2, <2>3
  <2> QED BY <1>1, <1>2, <1>3, <1>6, <1>8, <1>9, <1>13, <2>1, <2>2, <2>3, <2>4, EmitKeeps
<1>14. CASE low[At(k)] # index[At(k)]
  <2>1. UNCHANGED <<index, open, components>>
    BY <1>1, <1>7, <1>14
  <2>2. low' \in [Met -> Nat]
    <3>1. CASE p > 0
      BY <1>4, <1>10, <1>11, <3>1
    <3> QED BY <1>10, <1>12, <3>1
  <2>3. p > 0 => /\ \A n \in Met : n # At(p) => low'[n] = low[n]
                 /\ low'[At(p)] \in {low[At(p)], low[At(k)]}
                 /\ low'[At(p)] <= low[At(p)]
                 /\ low'[At(p)] <= low[At(k)]
    BY <1>4, <1>10, <1>11
  <2> QED BY <1>2, <1>3, <1>8, <1>9, <1>14, <2>1, <2>2, <2>3, MergeKeeps
<1> QED BY <1>13, <1>14

(* The edges effects flow back over, self loops included, close the same   *)
(* sets that Successors does.                                              *)
LEMMA ReachOverIsReaches ==
  ASSUME IsFiniteSet(AllNodes), NEW n, NEW w
  PROVE  w \in ReachOver({e \in ToSet(graph.edges) : IsCall(e) /\ e.kind # "spawns"}, {n})
           <=> Reaches(n, w)
<1>1. PICK E : E = {e \in ToSet(graph.edges) : IsCall(e) /\ e.kind # "spawns"}
  OBVIOUS
<1>2. IsFiniteSet({e.dst : e \in E})
  <2>1. {e.dst : e \in E} \in SUBSET AllNodes
    BY <1>1 DEF AllNodes
  <2> QED BY <2>1, FS_Subset
<1>3. \A x, y : y \in Successors(x) <=> \E e \in E : e.src = x /\ e.dst = y /\ e.src # e.dst
  BY <1>1 DEF Successors, Propagates
<1>4. \A C : (\A e \in E : e.src \in C => e.dst \in C) <=> (\A x \in C : Successors(x) \subseteq C)
  <2>1. ASSUME NEW C, \A e \in E : e.src \in C => e.dst \in C, NEW x \in C, NEW y \in Successors(x)
        PROVE  y \in C
    BY <1>3, <2>1
  <2>2. ASSUME NEW C, \A x \in C : Successors(x) \subseteq C, NEW e \in E, e.src \in C
        PROVE  e.dst \in C
    <3>1. CASE e.src = e.dst
      BY <2>2, <3>1
    <3>2. CASE e.src # e.dst
      <4>1. e.dst \in Successors(e.src)
        BY <1>3, <3>2
      <4> QED BY <2>2, <4>1
    <3> QED BY <3>1, <3>2
  <2> QED BY <2>1, <2>2
<1>5. /\ {n} \subseteq ReachOver(E, {n})
      /\ \A e \in E : e.src \in ReachOver(E, {n}) => e.dst \in ReachOver(E, {n})
      /\ \A C : {n} \subseteq C /\ (\A e \in E : e.src \in C => e.dst \in C)
                  => ReachOver(E, {n}) \subseteq C
  BY <1>2, ReachOverIsLeast
<1>6. ASSUME w \in ReachOver(E, {n}) PROVE Reaches(n, w)
  BY <1>4, <1>5, <1>6 DEF Reaches
<1>7. ASSUME Reaches(n, w) PROVE w \in ReachOver(E, {n})
  BY <1>4, <1>5, <1>7 DEF Reaches
<1> QED BY <1>1, <1>6, <1>7

(* The components when the search is over. *)
Searched == SearchInv /\ frames = <<>> /\ AllNodes \subseteq Met
InComponent(c, n) == c \in DOMAIN components /\ n \in components[c]
Total(c) == UNION {Own(m) : m \in {m \in AllNodes : \E n \in components[c] : Reaches(n, m)}}

(* When the search is over every node is in one component, and what a      *)
(* component leads to is in components before it.                          *)
LEMMA ComponentsWhenSearched ==
  ASSUME Searched
  PROVE  /\ IsFiniteSet(AllNodes)
         /\ DOMAIN components = 1 .. Len(components) /\ Len(components) \in Nat
         /\ \A c \in DOMAIN components : components[c] \subseteq AllNodes
         /\ \A n \in AllNodes : \E c : InComponent(c, n)
         /\ \A n, c, d : InComponent(c, n) /\ InComponent(d, n) => c = d
         /\ \A c, n : InComponent(c, n) => \A w \in Successors(n) \ components[c] :
              \A d : InComponent(d, w) => d \in 1 .. c - 1
<1>1. /\ components \in Seq(SUBSET AllNodes)
      /\ Met = AllNodes /\ IsFiniteSet(Met)
  BY DEF Searched, SearchInv, SearchTypes
<1>2. DOMAIN components = 1 .. Len(components) /\ Len(components) \in Nat
  BY <1>1
<1>3. \A c \in DOMAIN components : components[c] \subseteq AllNodes
  BY <1>1
<1>4. ASSUME NEW n, IsOpen(n) PROVE FALSE
  <2>1. Len(frames) = 0
    BY DEF Searched
  <2>2. PICK p \in DOMAIN open : open[p] = n
    BY <1>4 DEF IsOpen
  <2>3. Len(frames) > 0
    BY <2>2 DEF Searched, SearchInv, MetInOrder
  <2> QED BY <2>1, <2>3
<1>5. \A n \in AllNodes : \E c : InComponent(c, n)
  BY <1>1, <1>4 DEF Searched, SearchInv, Partition, InComponent
<1>6. \A n, c, d : InComponent(c, n) /\ InComponent(d, n) => c = d
  BY DEF Searched, SearchInv, Partition, InComponent
<1>7. ASSUME NEW c, NEW n, InComponent(c, n), NEW w \in Successors(n) \ components[c],
             NEW d, InComponent(d, w)
      PROVE  d \in 1 .. c - 1
  <2>1. PICK b \in 1 .. c : w \in components[b]
    BY <1>7 DEF Searched, SearchInv, ComponentsAreClosed, InComponent
  <2>2. c \in 1 .. Len(components)
    BY <1>2, <1>7 DEF InComponent
  <2>3. InComponent(b, w)
    BY <1>2, <2>1, <2>2 DEF InComponent
  <2>4. d = b
    BY <1>6, <1>7, <2>3
  <2>5. d # c
    BY <1>7 DEF InComponent
  <2> QED BY <2>1, <2>2, <2>4, <2>5
<1> QED BY <1>1, <1>2, <1>3, <1>5, <1>6, <1>7

(* What a component reaches is itself and what its successors outside it   *)
(* reach.                                                                  *)
LEMMA TotalByRecursion ==
  ASSUME Searched, NEW c \in DOMAIN components, NEW x
  PROVE  x \in Total(c) <=>
           \/ \E n \in components[c] : x \in Own(n)
           \/ \E n \in components[c] : \E m \in Successors(n) \ components[c] :
                \E d \in DOMAIN components : m \in components[d] /\ x \in Total(d)
<1>1. /\ components[c] \subseteq AllNodes
      /\ \A n \in AllNodes : \E d : InComponent(d, n)
  BY ComponentsWhenSearched
<1>2. \A d \in DOMAIN components : \A n, m \in components[d] : Reaches(n, m)
  BY DEF Searched, SearchInv, ComponentsAreStrong
<1>3. \A d : x \in Total(d) <=>
        \E m \in AllNodes : (\E n \in components[d] : Reaches(n, m)) /\ x \in Own(m)
  BY DEF Total
<1>4. ASSUME NEW n \in components[c], x \in Own(n) PROVE x \in Total(c)
  BY <1>1, <1>3, <1>4, ReachesSelf
<1>5. ASSUME NEW n \in components[c], NEW m \in Successors(n) \ components[c],
             NEW d \in DOMAIN components, m \in components[d], x \in Total(d)
      PROVE  x \in Total(c)
  <2>1. PICK y \in AllNodes, z \in components[d] : Reaches(z, y) /\ x \in Own(y)
    BY <1>3, <1>5
  <2>2. Reaches(n, m)
    BY ReachesSelf, ReachesNext
  <2>3. Reaches(m, z)
    BY <1>2, <1>5
  <2>4. Reaches(n, y)
    BY <2>1, <2>2, <2>3, ReachesOn
  <2> QED BY <1>3, <2>1, <2>4
<1>6. ASSUME x \in Total(c), ~\E n \in components[c] : x \in Own(n)
      PROVE  \E n \in components[c] : \E m \in Successors(n) \ components[c] :
                \E d \in DOMAIN components : m \in components[d] /\ x \in Total(d)
  <2>1. PICK y \in AllNodes, n \in components[c] : Reaches(n, y) /\ x \in Own(y)
    BY <1>3, <1>6
  <2> DEFINE Out == {v \in AllNodes : \E z \in components[c] :
                       \E m \in Successors(z) \ components[c] : Reaches(m, v)}
             C == components[c] \cup Out
  <2>2. ASSUME NEW v \in C, NEW w \in Successors(v) PROVE w \in C
    <3>1. w \in AllNodes
      BY SuccessorsAreNodes
    <3>2. CASE v \in components[c] /\ w \notin components[c]
      BY <3>1, <3>2, ReachesSelf
    <3>3. CASE v \in Out
      <4>1. PICK z \in components[c] : \E m \in Successors(z) \ components[c] : Reaches(m, v)
        BY <3>3
      <4>2. \E m \in Successors(z) \ components[c] : Reaches(m, w)
        BY <4>1, ReachesNext
      <4> QED BY <3>1, <4>1, <4>2
    <3> QED BY <3>2, <3>3
  <2>3. y \in C
    <3> HIDE DEF C
    <3>1. \A v \in C : Successors(v) \subseteq C
      BY <2>2
    <3>2. n \in C
      BY DEF C
    <3> QED BY <2>1, <3>1, <3>2 DEF Reaches
  <2>4. y \in Out
    BY <1>6, <2>1, <2>3
  <2>5. PICK z \in components[c] : \E m \in Successors(z) \ components[c] : Reaches(m, y)
    BY <2>4
  <2>m. PICK m \in Successors(z) \ components[c] : Reaches(m, y)
    BY <2>5
  <2>6. PICK d : InComponent(d, m)
    BY <1>1, SuccessorsAreNodes
  <2>7. x \in Total(d)
    BY <1>3, <2>1, <2>m, <2>6 DEF InComponent
  <2> QED BY <2>m, <2>6, <2>7 DEF InComponent
<1> QED BY <1>4, <1>5, <1>6

(* The recursion over the components in the order emitted has a solution,  *)
(* and no other: a component's successors were emitted before it.          *)
LEMMA SettledIsTotal ==
  ASSUME Searched, NEW n \in AllNodes, NEW c, InComponent(c, n)
  PROVE  Settled[n] = Total(c)
<1> DEFINE Comp(m) == CHOOSE i \in DOMAIN components : m \in components[i]
           Body(h) == [i \in DOMAIN components |->
                         (UNION {Own(z) : z \in components[i]})
                           \cup (UNION {UNION {h[Comp(m)] : m \in Successors(z) \ components[i]} :
                                          z \in components[i]})]
           settled == CHOOSE h : h = Body(h)
           g == [i \in DOMAIN components |-> Total(i)]
<1>1. Settled = [m \in AllNodes |-> settled[Comp(m)]]
  BY DEF Settled
<1>2. /\ DOMAIN components = 1 .. Len(components) /\ Len(components) \in Nat
      /\ \A i \in DOMAIN components : components[i] \subseteq AllNodes
      /\ \A m \in AllNodes : \E i : InComponent(i, m)
      /\ \A m, i, j : InComponent(i, m) /\ InComponent(j, m) => i = j
      /\ \A i, m : InComponent(i, m) => \A w \in Successors(m) \ components[i] :
           \A j : InComponent(j, w) => j \in 1 .. i - 1
  BY ComponentsWhenSearched
<1>3. \A m \in AllNodes : InComponent(Comp(m), m)
  BY <1>2 DEF InComponent
<1>4. \A i, m : InComponent(i, m) => Comp(m) = i
  <2>1. ASSUME NEW i, NEW m, InComponent(i, m) PROVE Comp(m) = i
    <3>1. m \in AllNodes
      BY <1>2, <2>1 DEF InComponent
    <3> HIDE DEF Comp
    <3> QED BY <1>2, <1>3, <2>1, <3>1
  <2> QED BY <2>1
<1> HIDE DEF Comp
<1>5. ASSUME NEW h, NEW i \in DOMAIN components, NEW x
      PROVE  x \in Body(h)[i] <=>
               \/ \E z \in components[i] : x \in Own(z)
               \/ \E z \in components[i] : \E m \in Successors(z) \ components[i] : x \in h[Comp(m)]
  OBVIOUS
<1>6. g = Body(g)
  <2>1. ASSUME NEW i \in DOMAIN components, NEW x PROVE x \in g[i] <=> x \in Body(g)[i]
    <3>1. \A z : \A m \in Successors(z) : Comp(m) \in DOMAIN components /\ m \in components[Comp(m)]
      BY <1>3, SuccessorsAreNodes DEF InComponent
    <3>2. \A m : \A j \in DOMAIN components : m \in components[j] => j = Comp(m)
      BY <1>4 DEF InComponent
    <3>3. \A j \in DOMAIN components : g[j] = Total(j)
      OBVIOUS
    <3> HIDE DEF Body, g
    <3> QED BY <1>5, <3>1, <3>2, <3>3, TotalByRecursion
  <2>2. \A i \in DOMAIN components : g[i] = Body(g)[i]
    <3> HIDE DEF g, Body
    <3> QED BY <2>1
  <2> QED BY <2>2
<1>7. settled = Body(settled)
  <2> HIDE DEF g, Body
  <2> QED BY <1>6
<1> HIDE DEF settled
<1>8. \A i \in DOMAIN components : settled[i] = g[i]
  <2> DEFINE T == {i \in Nat : i \in DOMAIN components => settled[i] = g[i]}
  <2>1. ASSUME NEW i \in 1 .. Len(components), \A j \in 1 .. i - 1 : j \in T
        PROVE  i \in T
    <3>1. i \in DOMAIN components /\ i \in Nat
      BY <1>2
    <3>2. \A z \in components[i] : \A m \in Successors(z) \ components[i] :
            Comp(m) \in 1 .. i - 1 /\ Comp(m) \in DOMAIN components
      <4>1. ASSUME NEW z \in components[i], NEW m \in Successors(z) \ components[i]
            PROVE  Comp(m) \in 1 .. i - 1 /\ Comp(m) \in DOMAIN components
        <5>1. InComponent(i, z) /\ InComponent(Comp(m), m)
          BY <1>3, <3>1, SuccessorsAreNodes DEF InComponent
        <5> QED BY <1>2, <5>1 DEF InComponent
      <4> QED BY <4>1
    <3>3. \A z \in components[i] : \A m \in Successors(z) \ components[i] :
            settled[Comp(m)] = g[Comp(m)]
      BY <2>1, <3>2
    <3>4. ASSUME NEW x PROVE x \in Body(settled)[i] <=> x \in Body(g)[i]
      <4> HIDE DEF Body, g
      <4> QED BY <1>5, <3>1, <3>3
    <3>5. settled[i] = g[i]
      <4>1. Body(settled)[i] = Body(g)[i]
        <5> HIDE DEF g
        <5> QED BY <3>1, <3>4
      <4> HIDE DEF Body, g
      <4> QED BY <1>6, <1>7, <4>1
    <3> QED BY <3>1, <3>5
  <2>2. 1 .. Len(components) \subseteq T
    <3> HIDE DEF T
    <3> QED BY <1>2, <2>1, UpToCompletely
  <2> QED BY <1>2, <2>2
<1>9. Settled[n] = settled[c]
  BY <1>1, <1>4
<1>10. settled[c] = Total(c)
  BY <1>8 DEF InComponent
<1> QED BY <1>9, <1>10

(* run_effect_closure settles for a node the effects of all it reaches,    *)
(* itself included.                                                        *)
LEMMA SettledIsOfAllReached ==
  ASSUME Searched, NEW n \in AllNodes
  PROVE  Settled[n] = UNION {Own(m) : m \in
           ReachOver({e \in ToSet(graph.edges) : IsCall(e) /\ e.kind # "spawns"}, {n})}
<1>1. PICK c : InComponent(c, n)
  BY ComponentsWhenSearched
<1>2. Settled[n] = Total(c)
  BY <1>1, SettledIsTotal
<1>3. PICK R : R = ReachOver({e \in ToSet(graph.edges) : IsCall(e) /\ e.kind # "spawns"}, {n})
  OBVIOUS
<1>4. \A m : m \in R <=> Reaches(n, m)
  BY <1>3, ComponentsWhenSearched, ReachOverIsReaches
<1>5. \A m : Reaches(n, m) => m \in AllNodes
  BY SuccessorsAreNodes DEF Reaches
<1>6. \A z \in components[c] : Reaches(n, z) /\ Reaches(z, n)
  BY <1>1 DEF Searched, SearchInv, ComponentsAreStrong, InComponent
<1>7. ASSUME NEW m PROVE m \in R <=> (m \in AllNodes /\ \E z \in components[c] : Reaches(z, m))
  <2>1. ASSUME m \in R PROVE m \in AllNodes /\ \E z \in components[c] : Reaches(z, m)
    BY <1>1, <1>4, <1>5, <2>1 DEF InComponent
  <2>2. ASSUME NEW z \in components[c], Reaches(z, m) PROVE m \in R
    BY <1>4, <1>6, <2>2, ReachesOn
  <2> QED BY <2>1, <2>2
<1>8. R = {m \in AllNodes : \E z \in components[c] : Reaches(z, m)}
  BY <1>7
<1> QED BY <1>2, <1>3, <1>8 DEF Total

-------------------------------------------------------------------------------
(* The search invariant holds before the search, whatever graph the passes *)
(* leave it.                                                               *)
LEMMA NothingMet ==
  ASSUME EffectsInit PROVE SearchInv
<1>1. /\ frames = <<>> /\ open = <<>> /\ components = <<>>
      /\ Met = {} /\ index = [n \in {} |-> 0] /\ low = [n \in {} |-> 0]
  BY DEF EffectsInit, Met
<1>2. DOMAIN frames = {} /\ DOMAIN open = {} /\ DOMAIN components = {}
  BY <1>1
<1>3. SearchTypes
  BY <1>1, FS_EmptySet DEF SearchTypes
<1>4. MetInOrder /\ Partition /\ Looked
  BY <1>1, <1>2 DEF MetInOrder, Partition, Looked
<1>5. ComponentsAreClosed /\ ComponentsAreStrong
  BY <1>2 DEF ComponentsAreClosed, ComponentsAreStrong
<1>6. SegmentsAreStrong /\ LowIsOfAnOpenNode /\ LowCovers
  BY <1>2 DEF SegmentsAreStrong, LowIsOfAnOpenNode, LowCovers
<1> QED BY <1>3, <1>4, <1>5, <1>6 DEF SearchInv

(* A pass before the closure leaves the search as it was, over a graph     *)
(* that need not be the same.                                              *)
LEMMA NothingMetNext ==
  ASSUME EffectsInit, UNCHANGED <<sccVars, transitive>> PROVE EffectsInit' /\ SearchInv'
<1>1. EffectsInit'
  BY DEF EffectsInit, sccVars
<1>2. EffectsInit' => SearchInv'
  BY NothingMet, PTL
<1> QED BY <1>1, <1>2

(* Close ends a search that has met every node.                            *)
LEMMA CloseSettles ==
  ASSUME SearchInv, Close, graph' = graph PROVE EffectsAreOfAllReached'
<1>1. Searched
  BY DEF Close, Searched
<1>2. transitive' = Settled /\ AllNodes' = AllNodes
  BY SameGraph DEF Close
<1>3. ASSUME NEW n \in AllNodes
      PROVE  transitive'[n] = UNION {Own(m) : m \in
               ReachOver({e \in ToSet(graph'.edges) : IsCall(e) /\ e.kind # "spawns"}, {n})}
  BY <1>1, <1>2, SettledIsOfAllReached
<1> QED BY <1>2, <1>3 DEF EffectsAreOfAllReached

(* The inductive invariant of the specification.                           *)
EffectInv ==
  /\ stage \notin {"effects", "done"} => EffectsInit
  /\ stage = "effects" => SearchInv
  /\ EffectsAreOfAllReached

(* It holds at first, and every step keeps it.                             *)
LEMMA EffectInvAtFirst ==
  ASSUME ResolverInit PROVE EffectInv
BY DEF ResolverInit, LinkInit, EffectInv, EffectsAreOfAllReached

LEMMA EffectInvKept ==
  ASSUME EffectInv, [ResolverNext]_resolverVars PROVE EffectInv'
<1>1. CASE /\ LinkRef \/ Finalize \/ Scip \/ Cha \/ Rta \/ Sig
           /\ UNCHANGED <<sccVars, transitive>>
  <2>1. stage \notin {"effects", "done"} /\ stage' # "done"
    BY <1>1 DEF LinkRef, Finalize, Scip, Cha, Rta, Sig, Advance
  <2>2. EffectsInit' /\ SearchInv'
    BY <1>1, <2>1, NothingMetNext DEF EffectInv
  <2> QED BY <2>1, <2>2 DEF EffectInv, EffectsAreOfAllReached
<1>2. CASE /\ Start \/ Descend \/ Ascend
           /\ UNCHANGED <<code, order, stage, todo, graph, linked, transitive>>
  <2>1. stage = "effects" /\ stage' = "effects" /\ graph' = graph
    BY <1>2 DEF Start, Descend, Ascend
  <2>2. SearchInv'
    BY <1>2, <2>1, StartKeeps, DescendKeeps, AscendKeeps DEF EffectInv
  <2> QED BY <2>1, <2>2 DEF EffectInv, EffectsAreOfAllReached
<1>3. CASE Close /\ UNCHANGED <<code, order, todo, graph, linked>>
  <2>1. stage = "effects" /\ stage' = "done" /\ graph' = graph
    BY <1>3 DEF Close
  <2>2. EffectsAreOfAllReached'
    BY <1>3, <2>1, CloseSettles DEF EffectInv
  <2> QED BY <2>1, <2>2 DEF EffectInv
<1>4. CASE UNCHANGED resolverVars
  <2>1. UNCHANGED <<stage, graph, transitive>> /\ UNCHANGED sccVars
    BY <1>4 DEF resolverVars
  <2>2. EffectsInit' = EffectsInit
    BY <2>1 DEF EffectsInit, sccVars
  <2>3. SearchInv' = SearchInv
    BY <2>1 DEF sccVars, SearchInv, SearchTypes, MetInOrder, Partition, Looked, ComponentsAreClosed,
       ComponentsAreStrong, SegmentsAreStrong, LowIsOfAnOpenNode, LowCovers, Owns, Reaches,
       IsOpen, At, Met, Successors, AllNodes
  <2>4. EffectsAreOfAllReached' = EffectsAreOfAllReached
    BY <2>1 DEF EffectsAreOfAllReached, AllNodes
  <2> QED BY <2>1, <2>2, <2>3, <2>4 DEF EffectInv
<1> QED BY <1>1, <1>2, <1>3, <1>4 DEF ResolverNext

(* The search invariant holds whenever the closure runs: tarjan_sccs keeps *)
(* its stacks and low-links right on every graph.                          *)
THEOREM EffectInvHolds == ResolverSpec => []EffectInv
<1>1. ResolverInit => EffectInv
  BY EffectInvAtFirst
<1>2. EffectInv /\ [ResolverNext]_resolverVars => EffectInv'
  BY EffectInvKept
<1> QED BY <1>1, <1>2, PTL DEF ResolverSpec

(* effects.rs: transitive_effects of a node are its own and those of all   *)
(* it reaches over calls, on every graph and whatever cycles it has.       *)
THEOREM EffectsOfAllReached == ResolverSpec => []EffectsAreOfAllReached
<1>1. EffectInv => EffectsAreOfAllReached
  BY DEF EffectInv
<1> QED BY <1>1, EffectInvHolds, PTL

(* An emitted component is a strongly connected component, whole.          *)
EmittedAreComponents ==
  stage = "effects" =>
    \A c \in DOMAIN components : \A n \in components[c] : \A m :
      m \in components[c] <=> Reaches(n, m) /\ Reaches(m, n)

(* What a component reaches was emitted no later than it.                  *)
LEMMA ReachedIsBefore ==
  ASSUME SearchInv, NEW c \in DOMAIN components, NEW n \in components[c], NEW m, Reaches(n, m)
  PROVE  \E d \in 1 .. c : m \in components[d]
<1> DEFINE C == UNION {components[d] : d \in 1 .. c}
<1>1. DOMAIN components = 1 .. Len(components) /\ Len(components) \in Nat
  BY DEF SearchInv, SearchTypes
<1>2. n \in C
  BY <1>1
<1>3. ASSUME NEW x \in C, NEW w \in Successors(x) PROVE w \in C
  <2>1. PICK d \in 1 .. c : x \in components[d]
    BY <1>3
  <2>2. d \in DOMAIN components
    BY <1>1, <2>1
  <2>3. PICK e \in 1 .. d : w \in components[e]
    BY <1>3, <2>1, <2>2 DEF SearchInv, ComponentsAreClosed
  <2>4. e \in 1 .. c
    BY <1>1, <2>3
  <2> QED BY <2>3, <2>4
<1>4. m \in C
  <2> HIDE DEF C
  <2> QED BY <1>2, <1>3 DEF Reaches
<1> QED BY <1>4

(* graph_alg.rs: the search emits strongly connected components, none of   *)
(* them split or run together.                                             *)
THEOREM EmittedComponents == ResolverSpec => []EmittedAreComponents
<1>1. ASSUME SearchInv, NEW c \in DOMAIN components, NEW n \in components[c], NEW m,
             Reaches(n, m), Reaches(m, n)
      PROVE  m \in components[c]
  <2>1. DOMAIN components = 1 .. Len(components) /\ Len(components) \in Nat
    BY <1>1 DEF SearchInv, SearchTypes
  <2>2. PICK d \in 1 .. c : m \in components[d]
    BY <1>1, ReachedIsBefore
  <2>3. d \in DOMAIN components
    BY <2>1
  <2>4. PICK e \in 1 .. d : n \in components[e]
    BY <1>1, <2>2, <2>3, ReachedIsBefore
  <2>5. e \in DOMAIN components
    BY <2>1, <2>3
  <2>6. e = c
    BY <1>1, <2>4, <2>5 DEF SearchInv, Partition
  <2> QED BY <2>1, <2>2, <2>3, <2>4, <2>6
<1>2. ASSUME SearchInv, NEW c \in DOMAIN components, NEW n \in components[c], NEW m \in components[c]
      PROVE  Reaches(n, m) /\ Reaches(m, n)
  BY <1>2 DEF SearchInv, ComponentsAreStrong
<1>3. EffectInv => EmittedAreComponents
  BY <1>1, <1>2 DEF EffectInv, EmittedAreComponents
<1> QED BY <1>3, EffectInvHolds, PTL
===============================================================================
