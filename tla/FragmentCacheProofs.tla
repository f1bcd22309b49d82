-------------------------- MODULE FragmentCacheProofs --------------------------
(***************************************************************************)
(* Proofs, for any number of processes, binaries, files and power losses,  *)
(* that the fragment cache never changes what a run links.                 *)
(*                                                                         *)
(* The inductive invariant says of every process in its lookups that the   *)
(* facts it has prepared are those of the files it has found, and that     *)
(* what it has not found is noted as a miss.                               *)
(*                                                                         *)
(* Nor is a run's work lost: what it has off its lists is in the cache.    *)
(***************************************************************************)
EXTENDS FragmentCache, TLAPS

(* What p's own binary extracts from the files S. *)
Own(p, S) == {<<FactsOf(f, VersionOf[p]), f>> : f \in S}

IdleIsClear ==
  \A p \in Procs : pc[p] = "idle" => misses[p] = {} /\ facts[p] = {}

LookupPartition ==
  \A p \in Procs : pc[p] = "lookup" =>
    /\ left[p] \subseteq sources[p]
    /\ misses[p] \subseteq sources[p] \ left[p]
    /\ facts[p] = Own(p, sources[p] \ (left[p] \cup misses[p]))

PreparedIsOwn ==
  \A p \in Procs : pc[p] \in {"put", "write", "link"} =>
    facts[p] = Own(p, sources[p])

IInv ==
  /\ TypeOK
  /\ FragmentsAreHonest
  /\ IdleIsClear
  /\ LookupPartition
  /\ PreparedIsOwn

USE OverlaysAssumption, VersionOfAssumption, FilesAssumption,
    SourceSetsAssumption, NoneAssumption, BoundsAssumption

-------------------------------------------------------------------------------
(* Two files never share a key: it is made of everything extract sees. *)
LEMMA KeyOfIsFile ==
  ASSUME NEW f \in Files
  PROVE  f \in Keys /\ KeyOf(f) = f
  BY DEF KeyOf, Keys

LEMMA VersionsAreNat == Versions \subseteq Nat
  BY DEF Versions

LEMMA VersionOfIn ==
  ASSUME NEW p \in Procs
  PROVE  VersionOf[p] \in Versions
  BY DEF Versions

(* What a frontend writes is a fragment, and an honest one. *)
LEMMA SealIsHonest ==
  ASSUME NEW f \in Files, NEW v \in Versions
  PROVE  /\ Seal(v, FactsOf(f, v)) \in Fragments
         /\ Honest(f, Seal(v, FactsOf(f, v)))
         /\ NoFragment \in Fragments /\ Honest(f, NoFragment)
         /\ TornFragment \in Fragments /\ Honest(f, TornFragment)
<1>1. FactsOf(f, v) \in Facts
  BY DEF FactsOf, Facts
<1> QED
  BY <1>1 DEF Seal, Fragments, Honest, Opens, NoFragment, TornFragment

(* The caches that earlier runs left are honest. *)
LEMMA InitIInv == Init => IInv
<1> SUFFICES ASSUME Init PROVE IInv
  OBVIOUS
<1>1. ASSUME NEW k \in Keys PROVE frag[k] \in Fragments /\ Honest(k, frag[k])
  <2>1. PICK had \in SUBSET Files, v \in Versions :
          frag = [j \in Keys |->
                    IF \E f \in had : KeyOf(f) = j
                    THEN Seal(v, FactsOf(CHOOSE f \in had : KeyOf(f) = j, v))
                    ELSE NoFragment]
    BY DEF Init
  <2>2. CASE \E f \in had : KeyOf(f) = k
    <3>1. k \in had
      BY <2>2, KeyOfIsFile
    <3>2. (CHOOSE f \in had : KeyOf(f) = k) = k
      <4>1. (CHOOSE f \in had : KeyOf(f) = k) \in had
            /\ KeyOf(CHOOSE f \in had : KeyOf(f) = k) = k
        BY <2>2
      <4> QED
        BY <4>1, KeyOfIsFile
    <3>3. frag[k] = Seal(v, FactsOf(k, v))
      BY <2>1, <2>2, <3>2
    <3> QED
      BY <3>1, <3>3, SealIsHonest
  <2>3. CASE ~ \E f \in had : KeyOf(f) = k
    <3>1. frag[k] = NoFragment
      BY <2>1, <2>3
    <3> QED
      BY <3>1 DEF NoFragment, Fragments, Honest, Opens
  <2> QED
    BY <2>2, <2>3
<1>2. frag \in [Keys -> Fragments]
  BY <1>1 DEF Init
<1>3. TypeOK
  BY <1>2 DEF Init, TypeOK
<1>4. FragmentsAreHonest
  BY <1>1 DEF Init, FragmentsAreHonest
<1> QED
  BY <1>3, <1>4 DEF Init, IInv, IdleIsClear, LookupPartition, PreparedIsOwn

-------------------------------------------------------------------------------
(* Every step keeps the types. *)
LEMMA TypeOKStep == ASSUME TypeOK, Next PROVE TypeOK'
<1> USE DEF TypeOK, storeVars, runVars, Goto
<1>1. ASSUME NEW p \in Procs, NEW S \in SourceSets, Start(p, S) PROVE TypeOK'
  BY <1>1 DEF Start
<1>2. ASSUME NEW p \in Procs, NEW f \in Files, Lookup(p, f) PROVE TypeOK'
  <2>1. frag[KeyOf(f)].facts \subseteq Facts
    BY KeyOfIsFile DEF Fragments
  <2> QED
    BY <1>2, <2>1 DEF Lookup
<1>3. ASSUME NEW p \in Procs, Extract(p) PROVE TypeOK'
  <2>1. {<<FactsOf(f, VersionOf[p]), f>> : f \in misses[p]} \subseteq Facts \X Files
    BY VersionOfIn DEF FactsOf, Facts
  <2> QED
    BY <1>3, <2>1 DEF Extract
<1>4. ASSUME NEW p \in Procs, ExtractFails(p) \/ LockTimeout(p) \/ Link(p) PROVE TypeOK'
  <2>1. Forget(p) /\ pc[p] # "write" /\ UNCHANGED <<frag, crash, lock, failures>>
    BY <1>4 DEF ExtractFails, LockTimeout, Link
  <2> QED
    BY <2>1 DEF Forget
<1>5. ASSUME NEW p \in Procs, PutOverlay(p) \/ LockPut(p) \/ UnlockPut(p) PROVE TypeOK'
  BY <1>5, SMTT(30) DEF PutOverlay, LockPut, UnlockPut
<1>6. ASSUME NEW p \in Procs, NEW f \in Files, KeepFragment(p, f) PROVE TypeOK'
  BY <1>6 DEF KeepFragment
<1>7. ASSUME NEW p \in Procs, NEW f \in Files, WriteFragment(p, f) PROVE TypeOK'
  <2> DEFINE new == Seal(VersionOf[p], FactsOf(f, VersionOf[p]))
  <2>1. new \in Fragments /\ TornFragment \in Fragments /\ KeyOf(f) \in Keys
    BY KeyOfIsFile, VersionOfIn, SealIsHonest
  <2>2. frag' = [frag EXCEPT ![KeyOf(f)] = new]
        /\ crash' = [crash EXCEPT ![KeyOf(f)] = @ \cup {new, TornFragment}]
    BY <1>7 DEF WriteFragment
  <2> HIDE DEF new
  <2>3. frag' \in [Keys -> Fragments] /\ crash' \in [Keys -> SUBSET Fragments]
        /\ \A k \in Keys : frag'[k] \in crash'[k]
    BY <2>1, <2>2
  <2> QED
    BY <1>7, <2>3 DEF WriteFragment
<1>8. ASSUME NEW p \in Procs, Kill(p) PROVE TypeOK'
  BY <1>8 DEF Kill, Forget
<1>9. ASSUME PowerLoss PROVE TypeOK'
  <2>1. frag' \in [Keys -> Fragments]
    BY <1>9 DEF PowerLoss
  <2> QED
    BY <1>9, <2>1 DEF PowerLoss
<1>10. ASSUME NEW k \in Keys, WriteBack(k) PROVE TypeOK'
  BY <1>10 DEF WriteBack
<1> QED
  BY <1>1, <1>2, <1>3, <1>4, <1>5, <1>6, <1>7, <1>8, <1>9, <1>10 DEF Next

(* Fragments are written, written back and lost, and by no other step. *)
LEMMA HonestStep ==
  ASSUME TypeOK, FragmentsAreHonest, Next
  PROVE  FragmentsAreHonest'
<1> USE DEF FragmentsAreHonest
<1>1. CASE UNCHANGED crash
  BY <1>1 DEF Honest
<1>2. ASSUME NEW p \in Procs, NEW f \in Files, WriteFragment(p, f)
     PROVE  FragmentsAreHonest'
  <2> DEFINE new == Seal(VersionOf[p], FactsOf(f, VersionOf[p]))
  <2>1. Honest(f, new) /\ Honest(f, TornFragment) /\ KeyOf(f) = f /\ f \in Keys
    BY KeyOfIsFile, VersionOfIn, SealIsHonest
  <2>2. crash' = [crash EXCEPT ![f] = @ \cup {new, TornFragment}]
    BY <1>2, <2>1 DEF WriteFragment
  <2> HIDE DEF new
  <2> SUFFICES ASSUME NEW k \in Keys, NEW fragment \in crash'[k]
               PROVE  Honest(k, fragment)
    OBVIOUS
  <2>3. fragment \in crash[k] \/ (k = f /\ fragment \in {new, TornFragment})
    BY <2>2 DEF TypeOK
  <2> QED
    BY <2>1, <2>3
<1>3. ASSUME PowerLoss PROVE FragmentsAreHonest'
  BY <1>3 DEF PowerLoss
<1>4. ASSUME NEW k \in Keys, WriteBack(k) PROVE FragmentsAreHonest'
  BY <1>4 DEF WriteBack, TypeOK
<1> QED
  BY <1>1, <1>2, <1>3, <1>4 DEF Next, Start, Lookup, Extract, ExtractFails, PutOverlay,
     LockPut, LockTimeout, KeepFragment, UnlockPut, Link, Kill, storeVars

(* What a hit hands to a run is what its own binary would extract. *)
LEMMA HitIsOwn ==
  ASSUME TypeOK, FragmentsAreHonest, NEW p \in Procs, NEW f \in Files,
         IsHit(frag[KeyOf(f)], VersionOf[p])
  PROVE  frag[KeyOf(f)].facts \X {f} = Own(p, {f})
<1>1. Honest(f, frag[f]) /\ KeyOf(f) = f
  BY KeyOfIsFile DEF TypeOK, FragmentsAreHonest
<1>2. frag[f].facts = {FactsOf(f, VersionOf[p])}
  BY <1>1 DEF IsHit, Honest
<1> QED
  BY <1>1, <1>2 DEF Own

-------------------------------------------------------------------------------
(* The three facts about runs are kept by the steps of a run's two passes, *)
LEMMA PassStep ==
  ASSUME IInv, NEW p \in Procs,
         \/ \E S \in SourceSets : Start(p, S)
         \/ \E f \in Files : Lookup(p, f)
         \/ Extract(p)
  PROVE  IdleIsClear' /\ LookupPartition' /\ PreparedIsOwn'
<1> USE DEF IInv, TypeOK, IdleIsClear, LookupPartition, PreparedIsOwn, Goto,
            storeVars
<1>1. ASSUME NEW S \in SourceSets, Start(p, S)
     PROVE  IdleIsClear' /\ LookupPartition' /\ PreparedIsOwn'
  BY <1>1 DEF Start, Own
<1>2. ASSUME NEW f \in Files, Lookup(p, f)
     PROVE  IdleIsClear' /\ LookupPartition' /\ PreparedIsOwn'
  <2>1. /\ pc[p] = "lookup" /\ f \in left[p] /\ pc' = pc /\ sources' = sources
        /\ left' = [left EXCEPT ![p] = @ \ {f}]
    BY <1>2 DEF Lookup, IsNext
  <2>2. CASE IsHit(frag[KeyOf(f)], VersionOf[p])
    <3>1. /\ misses' = misses
          /\ facts' = [facts EXCEPT ![p] = @ \cup Own(p, {f})]
      BY <1>2, <2>2, HitIsOwn DEF Lookup
    <3>2. facts'[p] = Own(p, sources[p] \ (left'[p] \cup misses'[p]))
      BY <2>1, <3>1 DEF Own
    <3>3. IdleIsClear'
      BY <2>1, <3>1
    <3>4. LookupPartition'
      <4> SUFFICES ASSUME NEW q \in Procs, pc'[q] = "lookup"
                   PROVE  /\ left'[q] \subseteq sources'[q]
                          /\ misses'[q] \subseteq sources'[q] \ left'[q]
                          /\ facts'[q] = Own(q, sources'[q] \ (left'[q] \cup misses'[q]))
        OBVIOUS
      <4>1. CASE q = p
        BY <2>1, <3>1, <3>2, <4>1
      <4>2. CASE q # p
        <5>1. /\ left'[q] = left[q] /\ facts'[q] = facts[q]
              /\ misses' = misses /\ sources' = sources /\ pc[q] = "lookup"
          BY <2>1, <3>1, <4>2
        <5> QED
          BY <5>1
      <4> QED
        BY <4>1, <4>2
    <3>5. PreparedIsOwn'
      BY <2>1, <3>1
    <3> QED
      BY <3>3, <3>4, <3>5
  <2>3. CASE ~ IsHit(frag[KeyOf(f)], VersionOf[p])
    <3>1. facts' = facts /\ misses' = [misses EXCEPT ![p] = @ \cup {f}]
      BY <1>2, <2>3 DEF Lookup
    <3>2. sources[p] \ (left'[p] \cup misses'[p]) = sources[p] \ (left[p] \cup misses[p])
      BY <2>1, <3>1
    <3>3. IdleIsClear'
      BY <2>1, <3>1
    <3>4. LookupPartition'
      <4> SUFFICES ASSUME NEW q \in Procs, pc'[q] = "lookup"
                   PROVE  /\ left'[q] \subseteq sources'[q]
                          /\ misses'[q] \subseteq sources'[q] \ left'[q]
                          /\ facts'[q] = Own(q, sources'[q] \ (left'[q] \cup misses'[q]))
        OBVIOUS
      <4>0. /\ pc[q] = "lookup" /\ sources'[q] = sources[q] /\ facts'[q] = facts[q]
            /\ left[q] \subseteq sources[q] /\ misses[q] \subseteq sources[q] \ left[q]
            /\ facts[q] = Own(q, sources[q] \ (left[q] \cup misses[q]))
        BY <2>1, <3>1
      <4>1. CASE q = p
        <5>1. left'[q] = left[q] \ {f} /\ misses'[q] = misses[q] \cup {f} /\ f \in left[q]
          BY <2>1, <3>1, <4>1
        <5> QED
          BY <3>2, <4>0, <4>1, <5>1
      <4>2. CASE q # p
        <5>1. left'[q] = left[q] /\ misses'[q] = misses[q]
          BY <2>1, <3>1, <4>2
        <5> QED
          BY <4>0, <5>1
      <4> QED
        BY <4>1, <4>2
    <3>5. PreparedIsOwn'
      BY <2>1, <3>1
    <3> QED
      BY <3>3, <3>4, <3>5
  <2> QED
    BY <2>2, <2>3
<1>3. ASSUME Extract(p)
     PROVE  IdleIsClear' /\ LookupPartition' /\ PreparedIsOwn'
  <2>1. facts'[p] = Own(p, sources[p])
    BY <1>3 DEF Extract, Own
  <2> QED
    BY <1>3, <2>1 DEF Extract
<1> QED
  BY <1>1, <1>2, <1>3

(* and by every other step, which touches none of them or clears them all. *)
LEMMA OtherStep ==
  ASSUME IInv, Next,
         ~ \E p \in Procs :
             \/ \E S \in SourceSets : Start(p, S)
             \/ \E f \in Files : Lookup(p, f)
             \/ Extract(p)
  PROVE  IdleIsClear' /\ LookupPartition' /\ PreparedIsOwn'
<1> USE DEF IInv, TypeOK, IdleIsClear, LookupPartition, PreparedIsOwn, Goto,
            storeVars, runVars, Own
<1>1. ASSUME NEW p \in Procs, ExtractFails(p) \/ LockTimeout(p) \/ Link(p) \/ Kill(p)
     PROVE  IdleIsClear' /\ LookupPartition' /\ PreparedIsOwn'
  BY <1>1 DEF ExtractFails, LockTimeout, Link, Kill, Forget
<1>2. ASSUME NEW p \in Procs, PutOverlay(p) \/ LockPut(p) \/ UnlockPut(p)
     PROVE  IdleIsClear' /\ LookupPartition' /\ PreparedIsOwn'
  BY <1>2 DEF PutOverlay, LockPut, UnlockPut
<1>3. ASSUME NEW p \in Procs, NEW f \in Files, KeepFragment(p, f) \/ WriteFragment(p, f)
     PROVE  IdleIsClear' /\ LookupPartition' /\ PreparedIsOwn'
  BY <1>3 DEF KeepFragment, WriteFragment
<1>4. ASSUME PowerLoss \/ \E k \in Keys : WriteBack(k)
     PROVE  IdleIsClear' /\ LookupPartition' /\ PreparedIsOwn'
  BY <1>4 DEF PowerLoss, WriteBack
<1> QED
  BY <1>1, <1>2, <1>3, <1>4 DEF Next

(* The strengthened invariant survives every step, or none. *)
LEMMA IInvStep == IInv /\ [Next]_vars => IInv'
<1>1. ASSUME IInv, Next PROVE IInv'
  BY <1>1, TypeOKStep, HonestStep, PassStep, OtherStep DEF IInv
<1>2. ASSUME IInv, UNCHANGED vars PROVE IInv'
  BY <1>2 DEF IInv, TypeOK, FragmentsAreHonest, IdleIsClear, LookupPartition,
     PreparedIsOwn, vars, storeVars, runVars
<1> QED
  BY <1>1, <1>2

(* Every reachable state satisfies the strengthened invariant. *)
THEOREM SpecIInv == Spec => []IInv
<1>1. Init => IInv
  BY InitIInv
<1> QED
  BY <1>1, IInvStep, PTL DEF Spec

(* The types hold, and one process at a time writes fragments. *)
THEOREM SpecTypeOK == Spec => []TypeOK
<1>1. IInv => TypeOK
  BY DEF IInv
<1> QED
  BY <1>1, SpecIInv, PTL

(* put_fragments, torn files and whatever an older run left: no fragment   *)
(* that opens holds another file's facts, or another version's.            *)
THEOREM SpecFragmentsAreHonest == Spec => []FragmentsAreHonest
<1>1. IInv => FragmentsAreHonest
  BY DEF IInv
<1> QED
  BY <1>1, SpecIInv, PTL

(* extract_and_link hands the link what this binary would have extracted   *)
(* from every source had there been no cache at all.                       *)
THEOREM SpecLinkedFactsAreOwn == Spec => []LinkedFactsAreOwn
<1>1. IInv => LinkedFactsAreOwn
  BY DEF IInv, PreparedIsOwn, LinkedFactsAreOwn, Own
<1> QED
  BY <1>1, SpecIInv, PTL

(* put_fragments never rewrites a fragment that is a hit for the writer.   *)
THEOREM SpecRewritesOnlyStale == Spec => RewritesOnlyStale
<1>1. IInv /\ [Next]_vars =>
       [\A k \in Keys, v \in Versions :
          IsHit(frag[k], v) /\ ~ (crash'[k] \subseteq crash[k]) =>
            frag'[k].version # v]_vars
  <2> SUFFICES ASSUME IInv, Next, NEW k \in Keys, NEW v \in Versions,
                      IsHit(frag[k], v), ~ (crash'[k] \subseteq crash[k])
               PROVE  frag'[k].version # v
    BY DEF vars, storeVars
  <2>1. ~ PowerLoss /\ ~ \E j \in Keys : WriteBack(j)
    BY DEF PowerLoss, WriteBack, IInv, TypeOK
  <2>2. PICK p \in Procs, f \in Files : WriteFragment(p, f)
    BY <2>1 DEF Next, Start, Lookup, Extract, ExtractFails, PutOverlay, LockPut,
       LockTimeout, KeepFragment, UnlockPut, Link, Kill, storeVars
  <2>3. KeyOf(f) = k /\ frag'[k].version = VersionOf[p]
    BY <2>2, KeyOfIsFile DEF WriteFragment, IInv, TypeOK, Seal
  <2>4. frag[k].version # VersionOf[p]
    BY <2>2, <2>3 DEF WriteFragment, Keeps, IsHit
  <2> QED
    BY <2>3, <2>4 DEF IsHit
<1> QED
  BY <1>1, SpecIInv, PTL DEF Spec, RewritesOnlyStale

-------------------------------------------------------------------------------
(* A run that no other version and no power loss met finds in the cache    *)
(* every file that it need no longer look up or put.                       *)
IsWarm(p, f) == IsHit(frag[KeyOf(f)], VersionOf[p])

ListsShrink ==
  \A p \in Procs :
    /\ pc[p] = "put" => left[p] = {}
    /\ pc[p] = "write" => misses[p] = {}
    /\ pc[p] = "link" => left[p] = {} /\ misses[p] = {}

FoundIsWarm ==
  \A p \in Procs \ Overlays : clean[p] =>
    \A f \in sources[p] \ (left[p] \cup misses[p]) : IsWarm(p, f)

WarmInv == ListsShrink /\ FoundIsWarm

(* A batch shortens its own list only, and after its last file has none.   *)
LEMMA ListsShrinkStep == ASSUME IInv, ListsShrink, Next PROVE ListsShrink'
<1> USE DEF IInv, TypeOK, ListsShrink, Goto, runVars
<1>1. ASSUME NEW p \in Procs, NEW S \in SourceSets, Start(p, S) PROVE ListsShrink'
  BY <1>1 DEF Start
<1>2. ASSUME NEW p \in Procs, NEW f \in Files,
             Lookup(p, f) \/ KeepFragment(p, f) \/ WriteFragment(p, f)
     PROVE  ListsShrink'
  <2>1. /\ pc' = pc /\ left' = [left EXCEPT ![p] = @ \ {f}] /\ f \in left[p]
        /\ pc[p] \in {"lookup", "write"}
        /\ pc[p] = "write" => misses' = misses
        /\ \A q \in Procs \ {p} : misses'[q] = misses[q]
    BY <1>2 DEF Lookup, KeepFragment, WriteFragment, IsNext
  <2> QED
    BY <2>1
<1>3. ASSUME NEW p \in Procs, Extract(p) PROVE ListsShrink'
  BY <1>3 DEF Extract
<1>4. ASSUME NEW p \in Procs, ExtractFails(p) \/ LockTimeout(p) \/ Link(p) \/ Kill(p)
     PROVE  ListsShrink'
  BY <1>4 DEF ExtractFails, LockTimeout, Link, Kill, Forget
<1>5. ASSUME NEW p \in Procs, PutOverlay(p) \/ LockPut(p) \/ UnlockPut(p)
     PROVE  ListsShrink'
  BY <1>5 DEF PutOverlay, LockPut, UnlockPut
<1>6. ASSUME PowerLoss \/ \E k \in Keys : WriteBack(k) PROVE ListsShrink'
  BY <1>6 DEF PowerLoss, WriteBack
<1> QED
  BY <1>1, <1>2, <1>3, <1>4, <1>5, <1>6 DEF Next

(* A put of the same version leaves every fragment of that version a hit.  *)
LEMMA WriteKeepsWarm ==
  ASSUME IInv, FoundIsWarm, NEW p \in Procs, NEW f \in Files, WriteFragment(p, f)
  PROVE  FoundIsWarm'
<1> DEFINE new == Seal(VersionOf[p], FactsOf(f, VersionOf[p]))
<1>1. /\ frag' = [frag EXCEPT ![f] = new]
      /\ clean' = [q \in Procs |-> clean[q] /\ VersionOf[q] = VersionOf[p]]
      /\ left' = [left EXCEPT ![p] = @ \ {f}]
      /\ misses' = misses /\ sources' = sources
  BY KeyOfIsFile DEF WriteFragment
<1>2. IsHit(new, VersionOf[p])
  BY DEF IsHit, Opens, Seal
<1> HIDE DEF new
<1> SUFFICES ASSUME NEW q \in Procs \ Overlays, clean'[q],
                    NEW g \in sources'[q] \ (left'[q] \cup misses'[q])
             PROVE  IsWarm(q, g)'
  BY DEF FoundIsWarm
<1>3. clean[q] /\ VersionOf[q] = VersionOf[p] /\ g \in Files /\ g \in sources[q]
  BY <1>1 DEF IInv, TypeOK
<1>4. frag \in [Keys -> Fragments] /\ g \in Keys /\ KeyOf(g) = g
  BY <1>3, KeyOfIsFile DEF IInv, TypeOK
<1>5. CASE g = f
  BY <1>1, <1>2, <1>3, <1>4, <1>5 DEF IsWarm
<1>6. CASE g # f
  <2>1. g \in sources[q] \ (left[q] \cup misses[q])
    BY <1>1, <1>3, <1>6 DEF IInv, TypeOK
  <2>2. IsWarm(q, g)
    BY <1>3, <2>1 DEF FoundIsWarm
  <2> QED
    BY <1>1, <1>4, <1>6, <2>2 DEF IsWarm
<1> QED
  BY <1>5, <1>6

(* Other steps leave the fragments alone, but for a power loss, which      *)
(* leaves no run.                                                          *)
LEMMA FoundIsWarmStep ==
  ASSUME IInv, WarmInv, Next
  PROVE  FoundIsWarm'
<1>1. ASSUME NEW p \in Procs, NEW f \in Files, Lookup(p, f) PROVE FoundIsWarm'
  <2>1. /\ left' = [left EXCEPT ![p] = @ \ {f}]
        /\ frag' = frag /\ sources' = sources /\ clean' = clean
        /\ \A q \in Procs : misses[q] \subseteq misses'[q]
        /\ f \in misses'[p] \/ IsWarm(p, f)
    BY <1>1 DEF Lookup, IsWarm, IInv, TypeOK, storeVars
  <2> SUFFICES ASSUME NEW q \in Procs \ Overlays, clean[q],
                      NEW g \in sources[q] \ (left'[q] \cup misses'[q])
               PROVE  IsWarm(q, g)
    BY <2>1 DEF FoundIsWarm, IsWarm
  <2>2. CASE q = p /\ g = f
    BY <2>1, <2>2
  <2>3. CASE ~ (q = p /\ g = f)
    BY <2>1, <2>3 DEF WarmInv, FoundIsWarm, IInv, TypeOK
  <2> QED
    BY <2>2, <2>3
<1>2. ASSUME NEW p \in Procs, NEW f \in Files, KeepFragment(p, f) PROVE FoundIsWarm'
  <2>1. /\ left' = [left EXCEPT ![p] = @ \ {f}]
        /\ frag' = frag /\ sources' = sources /\ clean' = clean /\ misses' = misses
        /\ IsWarm(p, f)
    BY <1>2 DEF KeepFragment, Keeps, IsHit, IsWarm, storeVars
  <2> SUFFICES ASSUME NEW q \in Procs \ Overlays, clean[q],
                      NEW g \in sources[q] \ (left'[q] \cup misses[q])
               PROVE  IsWarm(q, g)
    BY <2>1 DEF FoundIsWarm, IsWarm
  <2>2. CASE q = p /\ g = f
    BY <2>1, <2>2
  <2>3. CASE ~ (q = p /\ g = f)
    BY <2>1, <2>3 DEF WarmInv, FoundIsWarm, IInv, TypeOK
  <2> QED
    BY <2>2, <2>3
<1>3. ASSUME NEW p \in Procs, NEW f \in Files, WriteFragment(p, f) PROVE FoundIsWarm'
  BY <1>3, WriteKeepsWarm DEF WarmInv
<1>4. ASSUME NEW p \in Procs,
             \/ ExtractFails(p) \/ LockTimeout(p) \/ Link(p) \/ Kill(p)
             \/ \E S \in SourceSets : Start(p, S)
     PROVE  FoundIsWarm'
  <2> DEFINE OneRunResets ==
        /\ frag' = frag
        /\ \A q \in Procs \ {p} : /\ sources'[q] = sources[q] /\ left'[q] = left[q]
                                  /\ misses'[q] = misses[q] /\ clean'[q] = clean[q]
        /\ sources'[p] = left'[p]
  <2>1. OneRunResets
    <3>1. ASSUME NEW S \in SourceSets, Start(p, S) PROVE OneRunResets
      BY <3>1 DEF Start, IInv, TypeOK, storeVars
    <3>2. ASSUME Forget(p), UNCHANGED storeVars PROVE OneRunResets
      BY <3>2 DEF Forget, IInv, TypeOK, storeVars
    <3> QED
      BY <1>4, <3>1, <3>2 DEF ExtractFails, LockTimeout, Link, Kill
  <2> QED
    BY <2>1 DEF WarmInv, FoundIsWarm, IsWarm
<1>5. ASSUME NEW p \in Procs, Extract(p) \/ LockPut(p) \/ UnlockPut(p)
     PROVE  FoundIsWarm'
  <2>1. /\ frag' = frag /\ clean' = clean /\ sources' = sources
        /\ \A q \in Procs : left'[q] \cup misses'[q] = left[q] \cup misses[q]
    BY <1>5 DEF Extract, LockPut, UnlockPut, Goto, WarmInv, ListsShrink, IInv, TypeOK,
       storeVars, runVars
  <2> QED
    BY <2>1 DEF WarmInv, FoundIsWarm, IsWarm
<1>6. ASSUME NEW p \in Procs, PutOverlay(p) PROVE FoundIsWarm'
  <2>1. /\ frag' = frag /\ clean' = clean /\ sources' = sources /\ left' = left
        /\ p \in Overlays /\ \A q \in Procs \ {p} : misses'[q] = misses[q]
    BY <1>6 DEF PutOverlay, IInv, TypeOK, storeVars
  <2> QED
    BY <2>1 DEF WarmInv, FoundIsWarm, IsWarm
<1>7. ASSUME PowerLoss PROVE FoundIsWarm'
  BY <1>7 DEF PowerLoss, FoundIsWarm
<1>8. ASSUME NEW k \in Keys, WriteBack(k) PROVE FoundIsWarm'
  BY <1>8 DEF WriteBack, WarmInv, FoundIsWarm, IsWarm, runVars
<1> QED
  BY <1>1, <1>2, <1>3, <1>4, <1>5, <1>6, <1>7, <1>8 DEF Next

(* extract_and_link leaves a warm cache: once a run links, each of its     *)
(* files is a hit at its version, if none but its own version wrote and no *)
(* power loss came.                                                        *)
THEOREM SpecRunLeavesCacheWarm == Spec => []RunLeavesCacheWarm
<1>1. Init => WarmInv
  BY DEF Init, WarmInv, ListsShrink, FoundIsWarm
<1>2. IInv /\ WarmInv /\ [Next]_vars => WarmInv'
  <2>1. ASSUME IInv, WarmInv, Next PROVE WarmInv'
    BY <2>1, ListsShrinkStep, FoundIsWarmStep DEF WarmInv
  <2>2. ASSUME WarmInv, UNCHANGED vars PROVE WarmInv'
    BY <2>2 DEF WarmInv, ListsShrink, FoundIsWarm, IsWarm, vars, storeVars, runVars
  <2> QED
    BY <2>1, <2>2
<1>3. IInv /\ WarmInv => RunLeavesCacheWarm
  BY DEF IInv, WarmInv, ListsShrink, FoundIsWarm, IsWarm, RunLeavesCacheWarm
<1> QED
  BY <1>1, <1>2, <1>3, SpecIInv, PTL DEF Spec
===============================================================================
