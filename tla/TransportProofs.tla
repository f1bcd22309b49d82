---------------------------- MODULE TransportProofs ----------------------------
(***************************************************************************)
(* Proofs, for any clones, processes, graphs, index runs and kills, that a *)
(* push never publishes part of a graph and that a pull leaves whole       *)
(* graphs behind its pointers, unless an index run overlaps it.            *)
(*                                                                         *)
(* The inductive invariant follows a commit on its way: every object of    *)
(* its refs that a push has passed is in its tree, every object of its     *)
(* tree that a pull has passed is on disk and stays there until an index   *)
(* run of the clone prunes, and so do those of the refs it has written.    *)
(***************************************************************************)
EXTENDS Transport, TLAPS

Locals == [left : SUBSET (Keys \cup Objects), tree : Commits,
           seen : Commits \cup {None}, tries : Nat]

TransportTypeOK ==
  /\ disk \in [Clones -> [Objects -> States]]
  /\ ref \in [Clones -> Refs]
  /\ ptr \in [Clones -> Keys \cup {None}]
  /\ cgxRef \in [Clones -> Commits \cup {None}]
  /\ remote \in Commits \cup {None}
  /\ pc \in [Procs -> PCs]
  /\ loc \in [Procs -> Locals]
  /\ raced \subseteq Clones

(* A commit that can be published: not empty, and no object is missing. *)
Complete(t) ==
  /\ Named(t.refs) # {}
  /\ \A o \in Reachable(t.refs) : t.objs[o] # "absent"

Whole == {t \in Commits : Complete(t)}

(* What a push has read so far. *)
PushKnows(p) ==
  /\ pc[p] = "readRefs" => loc[p].left \subseteq Keys /\ loc[p].tree.objs = NoObjects
  /\ pc[p] = "promote" =>
       /\ loc[p].left \subseteq Reachable(loc[p].tree.refs)
       /\ \A o \in Reachable(loc[p].tree.refs) \ loc[p].left :
            loc[p].tree.objs[o] # "absent"
       /\ \A o \in Objects : loc[p].tree.objs[o] # "absent" =>
            o \in Reachable(loc[p].tree.refs)
  /\ pc[p] \in {"parse", "swap"} => loc[p].tree \in Whole
  /\ pc[p] = "send" => cgxRef[At[p]] \in Whole

(* All of graph g under key k is good in clone c. *)
Stands(c, k, g) == g # None /\ \A o \in Closure(k, g) : disk[c][o] = "good"

(* What a pull has written so far. *)
PullKnows(p) ==
  /\ pc[p] = "list" => cgxRef[At[p]] \in Whole
  /\ pc[p] = "objects" =>
       /\ loc[p].left \subseteq Objects /\ loc[p].tree \in Whole
       /\ At[p] \notin raced =>
            \A o \in Objects \ loc[p].left :
              loc[p].tree.objs[o] # "absent" => disk[At[p]][o] = "good"
  /\ pc[p] = "refs" =>
       /\ loc[p].left \subseteq Named(loc[p].tree.refs) /\ loc[p].tree \in Whole
       /\ At[p] \notin raced =>
            /\ \A o \in Objects :
                 loc[p].tree.objs[o] # "absent" => disk[At[p]][o] = "good"
            /\ \A k \in Named(loc[p].tree.refs) \ loc[p].left :
                 Stands(At[p], k, ref[At[p]][k])

Knows(p) == PushKnows(p) /\ PullKnows(p)

PublishedWhole ==
  /\ remote \in Whole \cup {None}
  /\ \A c \in Clones : cgxRef[c] \in Whole \cup {None}

CloneWhole(c) == \A o \in Reachable(ref[c]) : disk[c][o] # "absent"

IInv ==
  /\ TransportTypeOK
  /\ \A p \in Procs : Knows(p)
  /\ PublishedWhole
  /\ \A c \in Clones \ raced : CloneWhole(c)

USE ShardsOfAssumption, AtAssumption, NewerAssumption, NoneAssumption,
    NamesAssumption, BoundsAssumption

-------------------------------------------------------------------------------
LEMMA ClosureIsObjects ==
  ASSUME NEW k \in Keys, NEW g \in Graphs
  PROVE  Closure(k, g) \subseteq Objects /\ Closure(k, g) # {}
<1>1. ShardsOf[g] \subseteq Objects
  BY DEF Objects
<1>2. <<k, g>> \in Objects
  BY DEF Objects, Manifests
<1> QED
  BY <1>1, <1>2 DEF Closure

LEMMA ReachableIsObjects ==
  ASSUME NEW refs \in Refs
  PROVE  /\ Named(refs) \subseteq Keys
         /\ \A k \in Named(refs) : refs[k] \in Graphs
         /\ Reachable(refs) \subseteq Objects
<1>1. \A k \in Named(refs) : k \in Keys /\ refs[k] \in Graphs
  BY DEF Named, Refs
<1> QED
  BY <1>1, ClosureIsObjects DEF Reachable

LEMMA EmptyIsACommit ==
  NoCall \in Locals /\ Empty \in Commits /\ NoRefs \in Refs
    /\ NoObjects \in [Objects -> States]
<1>1. NoRefs \in Refs /\ NoObjects \in [Objects -> States]
  BY DEF NoRefs, Refs, NoObjects, States
<1>2. Empty \in Commits
  BY <1>1 DEF Empty, Commits
<1> QED
  BY <1>1, <1>2 DEF NoCall, Locals

(* One graph under one key. *)
LEMMA OneRef ==
  ASSUME NEW k \in Keys, NEW g \in Graphs
  PROVE  LET refs == [NoRefs EXCEPT ![k] = g]
         IN  refs \in Refs /\ Named(refs) = {k} /\ Reachable(refs) = Closure(k, g)
<1> DEFINE refs == [NoRefs EXCEPT ![k] = g]
<1>1. refs \in Refs
  BY EmptyIsACommit DEF Refs
<1>2. Named(refs) = {k} /\ refs[k] = g
  BY DEF Named, NoRefs
<1>3. Reachable(refs) = UNION {Closure(j, refs[j]) : j \in {k}}
  BY <1>2 DEF Reachable
<1>4. Reachable(refs) = Closure(k, g)
  <2>1. PICK c : c = Closure(k, g)
    OBVIOUS
  <2>2. \A o : o \in Reachable(refs) <=> o \in c
    <3> HIDE DEF refs
    <3> QED BY <1>2, <1>3, <2>1
  <2> QED BY <2>1, <2>2
<1> QED
  BY <1>1, <1>2, <1>4

-------------------------------------------------------------------------------
LEMMA InitIInv == Init => IInv
<1> SUFFICES ASSUME Init PROVE IInv
  OBVIOUS
<1>1. PICK keys \in [Clones -> Keys], gs \in [Clones -> (Graphs \ Newer) \cup {None}],
           torn \in SUBSET Shards : LeftIndexed(keys, gs, torn)
  BY DEF Init
<1>2. ref \in [Clones -> Refs]
  BY <1>1 DEF LeftIndexed, Refs
<1>3. disk \in [Clones -> [Objects -> States]]
  BY <1>1 DEF LeftIndexed, States
<1>4. ptr \in [Clones -> Keys \cup {None}]
  BY <1>1 DEF LeftIndexed
<1>5. \A c \in Clones : CloneWhole(c)
  BY <1>1, <1>2, ReachableIsObjects DEF LeftIndexed, CloneWhole
<1>6. remote \in Whole \cup {None}
  <2>1. ASSUME NEW k \in Keys, NEW g \in Newer,
               remote = [objs |-> [o \in Objects |-> IF o \in Closure(k, g)
                                                     THEN "good" ELSE "absent"],
                         refs |-> [NoRefs EXCEPT ![k] = g], ptr |-> k]
        PROVE  remote \in Whole
    <3>1. g \in Graphs
      OBVIOUS
    <3>2. /\ remote.refs \in Refs /\ Named(remote.refs) = {k}
          /\ Reachable(remote.refs) = Closure(k, g)
      BY <2>1, <3>1, OneRef
    <3>3. remote.objs \in [Objects -> States] /\ remote.ptr \in Keys \cup {None}
      BY <2>1 DEF States
    <3>4. remote \in Commits
      BY <2>1, <3>2, <3>3 DEF Commits
    <3>5. \A o \in Closure(k, g) : remote.objs[o] # "absent"
      BY <2>1, <3>1, ClosureIsObjects
    <3> QED
      BY <3>2, <3>4, <3>5 DEF Whole, Complete
  <2> QED
    BY <2>1 DEF Init
<1>7. TransportTypeOK
  BY <1>2, <1>3, <1>4, <1>6, EmptyIsACommit DEF Init, TransportTypeOK, PCs, Whole
<1>8. PublishedWhole /\ \A p \in Procs : Knows(p)
  BY <1>6 DEF Init, PublishedWhole, Knows, PushKnows, PullKnows
<1> QED
  BY <1>5, <1>7, <1>8 DEF IInv

-------------------------------------------------------------------------------
OnlyMoves(p) ==
  /\ pc' \in [Procs -> PCs] /\ loc' \in [Procs -> Locals]
  /\ \A q \in Procs \ {p} : pc'[q] = pc[q] /\ loc'[q] = loc[q]

WorldTypeOK ==
  /\ disk \in [Clones -> [Objects -> States]]
  /\ ref \in [Clones -> Refs]
  /\ ptr \in [Clones -> Keys \cup {None}]
  /\ cgxRef \in [Clones -> Commits \cup {None}]
  /\ remote \in Commits \cup {None}

(* What the pulls of clone c rely on stays. *)
Keeps(c) ==
  /\ \A o \in Objects : disk[c][o] = "good" => disk'[c][o] = "good"
  /\ \A k \in Keys : ref'[c][k] = ref[c][k] \/ Stands(c, k, ref[c][k])'

(* A commit that is at a clone is not taken away, though another may come. *)
RefStays == \A c \in Clones : cgxRef[c] \in Whole => cgxRef'[c] \in Whole

RacedGrows == raced' = raced \cup {c \in Clones : Overlapping(c)'}

(* What is left to show of a step of p for the invariant to hold after it. *)
LEMMA StepOfOne ==
  ASSUME IInv, NEW p \in Procs, OnlyMoves(p), WorldTypeOK', Knows(p)',
         PublishedWhole', RefStays, RacedGrows,
         \A c \in Clones \ raced' : CloneWhole(c)',
         \A q \in Procs \ {p} : Pulling(q) /\ At[q] \notin raced' => Keeps(At[q])
  PROVE  IInv'
<1>1. TransportTypeOK'
  BY DEF OnlyMoves, WorldTypeOK, TransportTypeOK, RacedGrows, IInv
<1>2. ASSUME NEW q \in Procs \ {p} PROVE Knows(q)'
  <2>1. Knows(q) /\ pc'[q] = pc[q] /\ loc'[q] = loc[q] /\ At[q] \in Clones
          /\ loc[q] \in Locals /\ (At[q] \notin raced' => At[q] \notin raced)
    BY DEF IInv, OnlyMoves, TransportTypeOK, RacedGrows
  <2>2. PushKnows(q)'
    <3>1. cgxRef[At[q]] \in Whole => cgxRef'[At[q]] \in Whole
      BY <2>1 DEF RefStays
    <3>2. PushKnows(q)
      BY <2>1 DEF Knows
    <3> QED
      BY <2>1, <3>1, <3>2 DEF PushKnows
  <2>3. (pc[q] = "list" => cgxRef[At[q]] \in Whole)'
    BY <2>1 DEF Knows, PullKnows, RefStays
  <2>4. ASSUME pc[q] \in {"objects", "refs"}, At[q] \notin raced'
        PROVE  Keeps(At[q])
    BY <2>4 DEF Pulling
  <2>5. CASE pc[q] = "objects"
    <3>1. /\ loc[q].left \subseteq Objects /\ loc[q].tree \in Whole
          /\ At[q] \notin raced =>
               \A o \in Objects \ loc[q].left :
                 loc[q].tree.objs[o] # "absent" => disk[At[q]][o] = "good"
      BY <2>1, <2>5 DEF Knows, PullKnows
    <3>2. At[q] \notin raced' =>
            \A o \in Objects \ loc[q].left :
              loc[q].tree.objs[o] # "absent" => disk'[At[q]][o] = "good"
      BY <2>1, <2>4, <2>5, <3>1 DEF Keeps
    <3>3. loc'[q].tree \in Whole /\ loc'[q].left \subseteq Objects /\ pc'[q] = "objects"
      BY <2>1, <2>5, <3>1
    <3>4. PullKnows(q)'
      BY <2>1, <3>2, <3>3 DEF PullKnows
    <3> QED
      BY <2>2, <3>4 DEF Knows
  <2>6. CASE pc[q] = "refs"
    <3>1. loc[q].tree \in Whole /\ loc[q].left \subseteq Named(loc[q].tree.refs)
      BY <2>1, <2>6 DEF Knows, PullKnows
    <3>2. loc[q].tree.refs \in Refs
      BY <3>1 DEF Whole, Commits
    <3>3. SUFFICES ASSUME At[q] \notin raced'
                   PROVE  (/\ \A o \in Objects :
                                loc[q].tree.objs[o] # "absent" => disk[At[q]][o] = "good"
                           /\ \A k \in Named(loc[q].tree.refs) \ loc[q].left :
                                Stands(At[q], k, ref[At[q]][k]))'
      BY <2>1, <2>6, <3>1 DEF PullKnows, PushKnows, Knows
    <3>4. ASSUME NEW k \in Named(loc[q].tree.refs) \ loc[q].left
          PROVE  Stands(At[q], k, ref[At[q]][k])'
      <4>1. Stands(At[q], k, ref[At[q]][k]) /\ k \in Keys
        BY <2>1, <2>6, <3>2, <3>3, ReachableIsObjects DEF Knows, PullKnows
      <4>2. ref[At[q]][k] \in Graphs
        BY <2>1, <4>1 DEF Stands, IInv, TransportTypeOK, Refs
      <4>3. Closure(k, ref[At[q]][k]) \subseteq Objects
        BY <4>1, <4>2, ClosureIsObjects
      <4>4. CASE ref'[At[q]][k] = ref[At[q]][k]
        <5>1. \A o \in Closure(k, ref[At[q]][k]) : disk'[At[q]][o] = "good"
          BY <2>4, <2>6, <3>3, <4>1, <4>3 DEF Stands, Keeps
        <5>2. ref[At[q]][k] # None
          BY <4>1 DEF Stands
        <5> QED
          BY <4>4, <5>1, <5>2 DEF Stands
      <4> QED
        BY <2>4, <2>6, <3>3, <4>1, <4>4 DEF Keeps
    <3>5. \A o \in Objects : loc[q].tree.objs[o] # "absent" => disk'[At[q]][o] = "good"
      BY <2>1, <2>4, <2>6, <3>3 DEF Knows, PullKnows, Keeps
    <3> QED
      BY <2>1, <3>4, <3>5 DEF Stands, Named
  <2>7. CASE pc[q] \notin {"objects", "refs"}
    BY <2>1, <2>2, <2>3, <2>7 DEF Knows, PullKnows
  <2> QED
    BY <2>5, <2>6, <2>7
<1> QED
  BY <1>1, <1>2 DEF IInv

(* A step that changes nothing but p's own locals. *)
LEMMA StepOfLocals ==
  ASSUME IInv, NEW p \in Procs, OnlyMoves(p), Knows(p)', RacedGrows,
         UNCHANGED <<cloneVars, gitVars>>
  PROVE  IInv'
<1>1. UNCHANGED <<disk, ref, ptr, cgxRef, remote>>
  BY DEF cloneVars, gitVars
<1>2. WorldTypeOK' /\ PublishedWhole' /\ RefStays
  BY <1>1 DEF IInv, WorldTypeOK, TransportTypeOK, PublishedWhole, RefStays
<1>3. \A c \in Clones \ raced' : CloneWhole(c)'
  BY <1>1 DEF IInv, RacedGrows, CloneWhole
<1>4. \A c \in Clones : Keeps(c)
  BY <1>1 DEF Keeps
<1> QED
  BY <1>2, <1>3, <1>4, AtAssumption, StepOfOne

(* Its new locals l, and where it goes. *)
LEMMA Moved ==
  ASSUME IInv, NEW p \in Procs, NEW l \in Locals, NEW to \in PCs,
         pc' = [pc EXCEPT ![p] = to], loc' = [loc EXCEPT ![p] = l]
  PROVE  OnlyMoves(p) /\ pc'[p] = to /\ loc'[p] = l
  BY DEF IInv, TransportTypeOK, OnlyMoves

LEMMA Unmoved ==
  ASSUME IInv, NEW p \in Procs
  PROVE  /\ loc[p] \in Locals /\ pc[p] \in PCs /\ At[p] \in Clones
         /\ loc = [loc EXCEPT ![p] = loc[p]] /\ pc = [pc EXCEPT ![p] = pc[p]]
  BY DEF IInv, TransportTypeOK

(* A call that is over knows nothing and needs nothing. *)
LEMMA Over ==
  ASSUME IInv, NEW p \in Procs, Forget(p)
  PROVE  OnlyMoves(p) /\ Knows(p)'
<1>1. OnlyMoves(p) /\ pc'[p] = "idle"
  BY EmptyIsACommit, Moved DEF Forget, Goto, Set, PCs
<1> QED
  BY <1>1 DEF Knows, PushKnows, PullKnows

-------------------------------------------------------------------------------
(* A push, up to the swap of its ref. *)
LEMMA PushLocals ==
  ASSUME IInv, NEW p \in Procs,
         \/ BeginPush(p) \/ BeginPromote(p) \/ ReadHead(p) \/ ParseRef(p) \/ SwapLost(p)
         \/ \E k \in Keys : ReadRef(p, k)
         \/ \E o \in Objects : Promote(p, o)
  PROVE  OnlyMoves(p) /\ Knows(p)'
<1>1. /\ loc[p] \in Locals /\ pc[p] \in PCs /\ At[p] \in Clones /\ Knows(p)
      /\ loc = [loc EXCEPT ![p] = loc[p]] /\ pc = [pc EXCEPT ![p] = pc[p]]
  BY Unmoved DEF IInv
<1>2. /\ ref[At[p]] \in Refs /\ disk[At[p]] \in [Objects -> States]
      /\ ptr[At[p]] \in Keys \cup {None} /\ cgxRef[At[p]] \in Commits \cup {None}
  BY <1>1 DEF IInv, TransportTypeOK
<1>3. loc[p].tree \in Commits /\ loc[p].tree.refs \in Refs
        /\ loc[p].tree.objs \in [Objects -> States]
  BY <1>1 DEF Locals, Commits
<1> DEFINE t == loc[p].tree
<1>4. CASE BeginPush(p)
  <2> DEFINE l == [NoCall EXCEPT !.left = Named(ref[At[p]])]
  <2>1. l \in Locals /\ l.left \subseteq Keys /\ l.tree = Empty
    BY <1>2, EmptyIsACommit, ReachableIsObjects DEF Locals, NoCall
  <2>2. pc' = [pc EXCEPT ![p] = "readRefs"] /\ loc' = [loc EXCEPT ![p] = l]
    BY <1>4 DEF BeginPush, Goto, Set
  <2> HIDE DEF l
  <2>3. OnlyMoves(p) /\ pc'[p] = "readRefs" /\ loc'[p] = l
    BY <2>1, <2>2, Moved DEF PCs
  <2> QED
    BY <2>1, <2>3 DEF Knows, PushKnows, PullKnows, Empty
<1>5. CASE \E k \in Keys : ReadRef(p, k)
  <2>1. PICK k \in Keys : ReadRef(p, k)
    BY <1>5
  <2> DEFINE r == [t.refs EXCEPT ![k] = ref[At[p]][k]]
             l == [loc[p] EXCEPT !.left = @ \ {k}, !.tree = [t EXCEPT !.refs = r]]
  <2>2. r \in Refs
    BY <1>2, <1>3 DEF Refs
  <2>3. [t EXCEPT !.refs = r] \in Commits /\ [t EXCEPT !.refs = r].objs = t.objs
    BY <1>3, <2>2 DEF Commits
  <2>4. l \in Locals /\ l.left = loc[p].left \ {k} /\ l.tree.objs = t.objs
    BY <1>1, <2>3 DEF Locals
  <2>5. pc[p] = "readRefs" /\ UNCHANGED pc /\ loc' = [loc EXCEPT ![p] = l]
    BY <2>1 DEF ReadRef, Set
  <2> HIDE DEF l
  <2>6. OnlyMoves(p) /\ pc'[p] = "readRefs" /\ loc'[p] = l
    BY <1>1, <2>4, <2>5, Moved
  <2> QED
    BY <1>1, <2>4, <2>5, <2>6 DEF Knows, PushKnows, PullKnows
<1>6. CASE BeginPromote(p)
  <2> DEFINE l == [loc[p] EXCEPT !.left = Reachable(t.refs)]
  <2>1. l \in Locals /\ l.left = Reachable(t.refs) /\ l.tree = t
    BY <1>1, <1>3, ReachableIsObjects DEF Locals
  <2>2. /\ pc[p] = "readRefs" /\ pc' = [pc EXCEPT ![p] = "promote"]
        /\ loc' = [loc EXCEPT ![p] = l]
    BY <1>6 DEF BeginPromote, Goto, Set
  <2> HIDE DEF l
  <2>3. OnlyMoves(p) /\ pc'[p] = "promote" /\ loc'[p] = l
    BY <2>1, <2>2, Moved DEF PCs
  <2>4. \A o \in Objects : t.objs[o] = "absent"
    BY <1>1, <2>2 DEF Knows, PushKnows, NoObjects
  <2> QED
    BY <2>1, <2>3, <2>4 DEF Knows, PushKnows, PullKnows
<1>7. CASE \E o \in Objects : Promote(p, o)
  <2>1. PICK o \in Objects : Promote(p, o)
    BY <1>7
  <2> DEFINE os == [t.objs EXCEPT ![o] = disk[At[p]][o]]
             l == [loc[p] EXCEPT !.left = @ \ {o}, !.tree = [t EXCEPT !.objs = os]]
  <2>2. os \in [Objects -> States] /\ os[o] = disk[At[p]][o]
          /\ \A x \in Objects \ {o} : os[x] = t.objs[x]
    BY <1>2, <1>3
  <2>5. /\ pc[p] = "promote" /\ o \in loc[p].left /\ disk[At[p]][o] # "absent"
        /\ UNCHANGED pc
    BY <2>1 DEF Promote
  <2>l. loc' = [loc EXCEPT ![p] = l]
    <3>1. [loc[p] EXCEPT !.left = @ \ {o}, !.tree.objs[o] = disk[At[p]][o]] = l
      BY <1>1, <1>3 DEF Locals, Commits
    <3>2. Set(p, [loc[p] EXCEPT !.left = @ \ {o}, !.tree.objs[o] = disk[At[p]][o]])
      BY <2>1 DEF Promote
    <3> HIDE DEF l
    <3> QED
      BY <3>1, <3>2 DEF Set
  <2> HIDE DEF os
  <2>3. [t EXCEPT !.objs = os] \in Commits /\ [t EXCEPT !.objs = os].objs = os
          /\ [t EXCEPT !.objs = os].refs = t.refs
    BY <1>3, <2>2 DEF Commits
  <2>4. l \in Locals /\ l.left = loc[p].left \ {o} /\ l.tree.objs = os
          /\ l.tree.refs = t.refs
    BY <1>1, <2>3 DEF Locals
  <2> HIDE DEF l
  <2>6. OnlyMoves(p) /\ pc'[p] = "promote" /\ loc'[p] = l
    BY <1>1, <2>4, <2>5, <2>l, Moved
  <2>7. /\ loc[p].left \subseteq Reachable(t.refs)
        /\ \A x \in Reachable(t.refs) \ loc[p].left : t.objs[x] # "absent"
        /\ \A x \in Objects : t.objs[x] # "absent" => x \in Reachable(t.refs)
    BY <1>1, <2>5 DEF Knows, PushKnows
  <2>8. Reachable(t.refs) \subseteq Objects
    BY <1>3, ReachableIsObjects
  <2>9. /\ l.left \subseteq Reachable(t.refs)
        /\ \A x \in Reachable(t.refs) \ l.left : os[x] # "absent"
        /\ \A x \in Objects : os[x] # "absent" => x \in Reachable(t.refs)
    BY <2>2, <2>4, <2>5, <2>7, <2>8
  <2> QED
    BY <2>4, <2>6, <2>9 DEF Knows, PushKnows, PullKnows
<1>8. CASE ReadHead(p)
  <2> DEFINE u == [t EXCEPT !.ptr = ptr[At[p]]]
             l == [loc[p] EXCEPT !.tree = u]
  <2>1. u \in Commits /\ u.refs = t.refs /\ u.objs = t.objs
    BY <1>2, <1>3 DEF Commits
  <2>2. l \in Locals /\ l.tree = u
    BY <1>1, <2>1 DEF Locals
  <2>3. /\ pc[p] = "promote" /\ loc[p].left = {} /\ t.objs # NoObjects
        /\ pc' = [pc EXCEPT ![p] = "parse"] /\ loc' = [loc EXCEPT ![p] = l]
    BY <1>8 DEF ReadHead, Goto, Set
  <2> HIDE DEF l, u
  <2>4. OnlyMoves(p) /\ pc'[p] = "parse" /\ loc'[p] = l
    BY <2>2, <2>3, Moved DEF PCs
  <2>5. /\ \A o \in Reachable(t.refs) : t.objs[o] # "absent"
        /\ \A o \in Objects : t.objs[o] # "absent" => o \in Reachable(t.refs)
    BY <1>1, <2>3 DEF Knows, PushKnows
  <2>6. \E o \in Objects : t.objs[o] # "absent"
    BY <1>3, <2>3 DEF NoObjects
  <2>7. Named(t.refs) # {}
    BY <2>5, <2>6 DEF Reachable
  <2>8. u \in Whole
    BY <2>1, <2>5, <2>7 DEF Whole, Complete
  <2> QED
    BY <2>2, <2>4, <2>8 DEF Knows, PushKnows, PullKnows
<1>9. CASE ParseRef(p)
  <2> DEFINE l == [loc[p] EXCEPT !.seen = cgxRef[At[p]]]
  <2>1. l \in Locals /\ l.tree = t
    BY <1>1, <1>2 DEF Locals
  <2>2. pc[p] = "parse" /\ loc' = [loc EXCEPT ![p] = l]
    BY <1>9 DEF ParseRef, Set
  <2> HIDE DEF l
  <2>3. t \in Whole
    BY <1>1, <2>2 DEF Knows, PushKnows
  <2>4. CASE cgxRef[At[p]] = t
    <3>1. pc' = [pc EXCEPT ![p] = "send"] /\ UNCHANGED cgxRef
      BY <1>9, <2>4 DEF ParseRef, Goto, gitVars
    <3>2. OnlyMoves(p) /\ pc'[p] = "send"
      BY <2>1, <2>2, <3>1, Moved DEF PCs
    <3> QED
      BY <2>3, <2>4, <3>1, <3>2 DEF Knows, PushKnows, PullKnows
  <2>5. CASE cgxRef[At[p]] # t
    <3>1. pc' = [pc EXCEPT ![p] = "swap"]
      BY <1>9, <2>5 DEF ParseRef, Goto
    <3>2. OnlyMoves(p) /\ pc'[p] = "swap" /\ loc'[p] = l
      BY <2>1, <2>2, <3>1, Moved DEF PCs
    <3> QED
      BY <2>1, <2>3, <3>2 DEF Knows, PushKnows, PullKnows
  <2> QED
    BY <2>4, <2>5
<1>10. CASE SwapLost(p)
  <2>1. CASE Forget(p)
    BY <2>1, Over
  <2>2. CASE Goto(p, "parse") /\ Set(p, [loc[p] EXCEPT !.tries = @ + 1])
    <3> DEFINE l == [loc[p] EXCEPT !.tries = @ + 1]
    <3>1. l \in Locals /\ l.tree = t
      BY <1>1 DEF Locals
    <3>2. pc' = [pc EXCEPT ![p] = "parse"] /\ loc' = [loc EXCEPT ![p] = l]
      BY <2>2 DEF Goto, Set
    <3> HIDE DEF l
    <3>3. OnlyMoves(p) /\ pc'[p] = "parse" /\ loc'[p] = l
      BY <3>1, <3>2, Moved DEF PCs
    <3>4. t \in Whole
      BY <1>1, <1>10 DEF SwapLost, Knows, PushKnows
    <3> QED
      BY <3>1, <3>3, <3>4 DEF Knows, PushKnows, PullKnows
  <2> QED
    BY <1>10, <2>1, <2>2 DEF SwapLost
<1> QED
  BY <1>4, <1>5, <1>6, <1>7, <1>8, <1>9, <1>10

LEMMA ListKnows ==
  ASSUME IInv, NEW p \in Procs, ListTree(p)
  PROVE  OnlyMoves(p) /\ Knows(p)'
<1> DEFINE t == cgxRef[At[p]]
           absent == {o \in Objects : t.objs[o] = "absent"}
           l == [NoCall EXCEPT !.tree = t, !.left = Objects \ absent]
<1>1. t \in Whole
  BY DEF ListTree, IInv, Knows, PullKnows
<1>2. l \in Locals /\ l.tree = t /\ l.left = Objects \ absent
  BY <1>1, EmptyIsACommit DEF Locals, NoCall, Whole
<1>3. pc' = [pc EXCEPT ![p] = "objects"] /\ loc' = [loc EXCEPT ![p] = l]
  <2>1. {o \in Objects : t.objs[o] # "absent"} = Objects \ absent
    OBVIOUS
  <2> QED
    BY <2>1 DEF ListTree, Goto, Set
<1> HIDE DEF l
<1>4. OnlyMoves(p) /\ pc'[p] = "objects" /\ loc'[p] = l
  BY <1>2, <1>3, Moved DEF PCs
<1> QED
  BY <1>1, <1>2, <1>4 DEF Knows, PushKnows, PullKnows

-------------------------------------------------------------------------------
(* The steps that leave the clones and their refs alone. *)
LEMMA QuietStep ==
  ASSUME IInv, NEW p \in Procs, RacedGrows,
         \/ BeginPush(p) \/ BeginPromote(p) \/ ReadHead(p) \/ ParseRef(p) \/ SwapLost(p)
         \/ \E k \in Keys : ReadRef(p, k)
         \/ \E o \in Objects : Promote(p, o)
         \/ ReadRefFails(p) \/ PromoteFails(p) \/ NothingIndexed(p)
         \/ ListTree(p) \/ PullRejects(p) \/ EndPull(p) \/ Kill(p)
  PROVE  IInv'
<1>1. CASE \/ BeginPush(p) \/ BeginPromote(p) \/ ReadHead(p) \/ ParseRef(p) \/ SwapLost(p)
           \/ \E k \in Keys : ReadRef(p, k)
           \/ \E o \in Objects : Promote(p, o)
  <2>1. UNCHANGED <<cloneVars, gitVars>>
    BY <1>1 DEF BeginPush, BeginPromote, ReadHead, ParseRef, SwapLost, ReadRef, Promote
  <2> QED
    BY <1>1, <2>1, PushLocals, StepOfLocals
<1>2. CASE \/ ReadRefFails(p) \/ PromoteFails(p) \/ NothingIndexed(p)
           \/ PullRejects(p) \/ EndPull(p) \/ Kill(p)
  <2>1. Forget(p) /\ UNCHANGED <<cloneVars, gitVars>>
    BY <1>2 DEF ReadRefFails, PromoteFails, NothingIndexed, PullRejects, EndPull, Kill, Fail
  <2> QED
    BY <2>1, Over, StepOfLocals
<1>3. CASE ListTree(p)
  BY <1>3, ListKnows, StepOfLocals DEF ListTree
<1> QED
  BY <1>1, <1>2, <1>3

(* What a step that leaves the clones' objects and refs alone keeps. *)
LEMMA ClonesStay ==
  ASSUME IInv, RacedGrows, UNCHANGED <<disk, ref>>
  PROVE  /\ \A c \in Clones \ raced' : CloneWhole(c)'
         /\ \A c \in Clones : Keeps(c)
  BY DEF IInv, RacedGrows, CloneWhole, Keeps

LEMMA WritePointerStep ==
  ASSUME IInv, NEW p \in Procs, RacedGrows, WritePointer(p)
  PROVE  IInv'
<1>1. /\ loc[p] \in Locals /\ At[p] \in Clones
      /\ ptr' = [ptr EXCEPT ![At[p]] = loc[p].tree.ptr]
      /\ Forget(p) /\ UNCHANGED <<disk, ref, cgxRef, remote>>
  BY Unmoved DEF WritePointer, gitVars
<1>2. WorldTypeOK'
  BY <1>1 DEF IInv, TransportTypeOK, WorldTypeOK, Locals, Commits
<1>3. PublishedWhole' /\ RefStays
  BY <1>1 DEF IInv, PublishedWhole, RefStays
<1> QED
  BY <1>1, <1>2, <1>3, Over, ClonesStay, StepOfOne

LEMMA SendStep ==
  ASSUME IInv, NEW p \in Procs, RacedGrows, Send(p)
  PROVE  IInv'
<1>1. /\ At[p] \in Clones /\ cgxRef[At[p]] \in Whole /\ remote' = cgxRef[At[p]]
      /\ Forget(p) /\ UNCHANGED <<disk, ref, ptr, cgxRef>>
  BY DEF IInv, Knows, PushKnows, Send, cloneVars
<1>2. WorldTypeOK'
  BY <1>1 DEF IInv, TransportTypeOK, WorldTypeOK, Whole
<1>3. PublishedWhole' /\ RefStays
  BY <1>1 DEF IInv, PublishedWhole, RefStays
<1> QED
  BY <1>1, <1>2, <1>3, Over, ClonesStay, StepOfOne

(* A clone's refs/cgx/index is set: by a push to its tree, by a pull to the *)
(* remote's commit.                                                         *)
LEMMA RefStep ==
  ASSUME IInv, NEW p \in Procs, RacedGrows, SwapRef(p) \/ Fetch(p)
  PROVE  IInv'
<1> DEFINE t == IF pc[p] = "swap" THEN loc[p].tree ELSE remote
           to == IF pc[p] = "swap" THEN "send" ELSE "list"
<1>1. /\ t \in Whole /\ to \in PCs /\ pc' = [pc EXCEPT ![p] = to]
      /\ cgxRef' = [cgxRef EXCEPT ![At[p]] = t]
  <2>1. CASE SwapRef(p)
    BY <2>1 DEF IInv, Knows, PushKnows, SwapRef, Goto, PCs
  <2>2. CASE Fetch(p)
    BY <2>2 DEF IInv, PublishedWhole, Fetch, Goto, PCs
  <2> QED
    BY <2>1, <2>2
<1>2. UNCHANGED <<disk, ref, ptr, remote, loc>>
  BY DEF SwapRef, Fetch, cloneVars
<1>3. /\ loc[p] \in Locals /\ At[p] \in Clones /\ loc = [loc EXCEPT ![p] = loc[p]]
      /\ cgxRef \in [Clones -> Commits \cup {None}]
  BY Unmoved DEF IInv, TransportTypeOK
<1>4. to \in {"send", "list"}
  OBVIOUS
<1> HIDE DEF t, to
<1>5. OnlyMoves(p) /\ pc'[p] = to
  BY <1>1, <1>2, <1>3, Moved
<1>6. cgxRef'[At[p]] = t /\ \A c \in Clones \ {At[p]} : cgxRef'[c] = cgxRef[c]
  BY <1>1, <1>3
<1>7. WorldTypeOK'
  BY <1>1, <1>2, <1>3 DEF IInv, TransportTypeOK, WorldTypeOK, Whole
<1>8. PublishedWhole' /\ RefStays
  BY <1>1, <1>2, <1>6 DEF IInv, PublishedWhole, RefStays
<1>9. Knows(p)'
  BY <1>1, <1>4, <1>5, <1>6 DEF Knows, PushKnows, PullKnows
<1> QED
  BY <1>2, <1>3, <1>5, <1>7, <1>8, <1>9, ClonesStay, StepOfOne

-------------------------------------------------------------------------------
LEMMA PullHeadStep ==
  ASSUME IInv, NEW p \in Procs, RacedGrows, PullHead(p)
  PROVE  IInv'
<1> DEFINE t == loc[p].tree
           l == [loc[p] EXCEPT !.left = Named(t.refs)]
<1>1. /\ pc[p] = "objects" /\ loc[p].left = {}
      /\ ptr' = IF t.ptr = None THEN ptr ELSE [ptr EXCEPT ![At[p]] = t.ptr]
      /\ pc' = [pc EXCEPT ![p] = "refs"] /\ loc' = [loc EXCEPT ![p] = l]
      /\ UNCHANGED <<disk, ref, cgxRef, remote>>
  BY DEF PullHead, Goto, Set, gitVars
<1>2. /\ loc[p] \in Locals /\ At[p] \in Clones /\ t \in Whole
      /\ At[p] \notin raced' => At[p] \notin raced
      /\ At[p] \notin raced =>
           \A o \in Objects : t.objs[o] # "absent" => disk[At[p]][o] = "good"
  BY <1>1, Unmoved DEF IInv, Knows, PullKnows, RacedGrows
<1>3. l \in Locals /\ l.left = Named(t.refs) /\ l.tree = t
  BY <1>2, ReachableIsObjects DEF Locals, Whole, Commits
<1>4. t.ptr \in Keys \cup {None}
  BY <1>2 DEF Whole, Commits
<1>5. WorldTypeOK'
  BY <1>1, <1>2, <1>4 DEF IInv, TransportTypeOK, WorldTypeOK
<1>6. PublishedWhole' /\ RefStays
  BY <1>1 DEF IInv, PublishedWhole, RefStays
<1> HIDE DEF l, t
<1>7. OnlyMoves(p) /\ pc'[p] = "refs" /\ loc'[p] = l
  BY <1>1, <1>3, Moved DEF PCs
<1>8. Knows(p)'
  BY <1>1, <1>2, <1>3, <1>7 DEF Knows, PushKnows, PullKnows
<1> QED
  BY <1>1, <1>2, <1>5, <1>6, <1>7, <1>8, ClonesStay, StepOfOne

LEMMA PullObjectStep ==
  ASSUME IInv, NEW p \in Procs, RacedGrows, NEW o \in Objects, PullObject(p, o)
  PROVE  IInv'
<1> DEFINE t == loc[p].tree
           c == At[p]
           l == [loc[p] EXCEPT !.left = @ \ {o}]
<1>1. /\ pc[p] = "objects" /\ o \in loc[p].left /\ t.objs[o] = "good"
      /\ disk' = [disk EXCEPT ![c][o] = t.objs[o]]
      /\ loc' = [loc EXCEPT ![p] = l]
      /\ UNCHANGED <<ref, ptr, cgxRef, remote, pc>>
  BY DEF PullObject, Intact, Set, gitVars
<1>2. /\ loc[p] \in Locals /\ c \in Clones /\ t \in Whole /\ loc[p].left \subseteq Objects
      /\ disk \in [Clones -> [Objects -> States]] /\ pc = [pc EXCEPT ![p] = pc[p]]
      /\ c \notin raced' => c \notin raced
      /\ c \notin raced => \A x \in Objects \ loc[p].left :
                             t.objs[x] # "absent" => disk[c][x] = "good"
  BY <1>1, Unmoved DEF IInv, TransportTypeOK, Knows, PullKnows, RacedGrows
<1>3. l \in Locals /\ l.left = loc[p].left \ {o} /\ l.tree = t
  BY <1>2 DEF Locals
<1>4. /\ disk' \in [Clones -> [Objects -> States]] /\ disk'[c][o] = "good"
      /\ \A d \in Clones, x \in Objects :
           disk'[d][x] = disk[d][x] \/ disk'[d][x] = "good"
  BY <1>1, <1>2 DEF States
<1>5. WorldTypeOK' /\ PublishedWhole' /\ RefStays
  BY <1>1, <1>4 DEF IInv, TransportTypeOK, WorldTypeOK, PublishedWhole, RefStays
<1>6. \A d \in Clones : Keeps(d)
  BY <1>1, <1>4 DEF Keeps
<1>7. \A d \in Clones \ raced' : CloneWhole(d)'
  <2>1. SUFFICES ASSUME NEW d \in Clones \ raced', NEW x \in Reachable(ref[d])
                 PROVE  disk'[d][x] # "absent"
    BY <1>1 DEF CloneWhole
  <2>2. x \in Objects /\ disk[d][x] # "absent"
    BY ReachableIsObjects DEF IInv, TransportTypeOK, RacedGrows, CloneWhole
  <2> QED
    BY <1>4, <2>2
<1> HIDE DEF l, t
<1>8. OnlyMoves(p) /\ pc'[p] = "objects" /\ loc'[p] = l
  BY <1>1, <1>2, <1>3, Moved DEF PCs
<1>9. \A x \in Objects \ l.left :
        c \notin raced' => (t.objs[x] # "absent" => disk'[c][x] = "good")
  BY <1>2, <1>3, <1>4
<1>10. Knows(p)'
  BY <1>2, <1>3, <1>8, <1>9 DEF Knows, PushKnows, PullKnows
<1> QED
  BY <1>2, <1>5, <1>6, <1>7, <1>8, <1>10, StepOfOne

(* An index run has every pull of its clone in raced: no other has to hold. *)
LEMMA IndexStep ==
  ASSUME IInv, NEW p \in Procs, RacedGrows,
         NEW k \in Keys, NEW g \in Graphs \ Newer, Index(p, k, g)
  PROVE  IInv'
<1> DEFINE c == At[p]
           refs == [NoRefs EXCEPT ![k] = g]
           objs == [o \in Objects |-> IF o \in Closure(k, g) THEN "good" ELSE "absent"]
           l == [NoCall EXCEPT !.tree = [Empty EXCEPT !.ptr = k]]
<1>1. /\ c \in Clones /\ refs \in Refs /\ Reachable(refs) = Closure(k, g)
      /\ objs \in [Objects -> States] /\ Closure(k, g) \subseteq Objects
  BY OneRef, ClosureIsObjects, Unmoved DEF States
<1>2. /\ ref' = [ref EXCEPT ![c] = refs] /\ disk' = [disk EXCEPT ![c] = objs]
      /\ UNCHANGED <<ptr, cgxRef, remote>>
      /\ pc[p] = "idle" /\ pc' = [pc EXCEPT ![p] = "pointer"]
  BY DEF Index, Goto, gitVars
<1>3. loc' = [loc EXCEPT ![p] = l]
  <2>1. [NoCall EXCEPT !.tree.ptr = k] = l
    BY DEF NoCall
  <2>2. Set(p, [NoCall EXCEPT !.tree.ptr = k])
    BY DEF Index
  <2> HIDE DEF l
  <2> QED
    BY <2>1, <2>2 DEF Set
<1>4. l \in Locals
  <2>1. [Empty EXCEPT !.ptr = k] \in Commits
    BY EmptyIsACommit DEF Commits
  <2> QED
    BY <2>1, EmptyIsACommit DEF Locals
<1>5. /\ ref'[c] = refs /\ disk'[c] = objs
      /\ ref' \in [Clones -> Refs] /\ disk' \in [Clones -> [Objects -> States]]
      /\ \A d \in Clones \ {c} : ref'[d] = ref[d] /\ disk'[d] = disk[d]
  BY <1>1, <1>2 DEF IInv, TransportTypeOK
<1>6. WorldTypeOK' /\ PublishedWhole' /\ RefStays
  BY <1>2, <1>5 DEF IInv, TransportTypeOK, WorldTypeOK, PublishedWhole, RefStays
<1>7. \A o \in Closure(k, g) : objs[o] # "absent"
  BY <1>1
<1> HIDE DEF l, objs, refs
<1>8. OnlyMoves(p) /\ pc'[p] = "pointer"
  BY <1>2, <1>3, <1>4, Moved DEF PCs
<1>9. Knows(p)'
  BY <1>8 DEF Knows, PushKnows, PullKnows
<1>10. ASSUME NEW q \in Procs \ {p}, Pulling(q), At[q] \notin raced' PROVE Keeps(At[q])
  <2>1. At[q] \in Clones /\ pc'[q] = pc[q]
    BY <1>8 DEF OnlyMoves
  <2>2. At[q] # c
    <3>1. At[q] = c => Overlapping(c)'
      BY <1>8, <1>10, <2>1 DEF Overlapping, Pulling
    <3> QED
      BY <1>1, <1>10, <3>1 DEF RacedGrows
  <2> QED
    BY <1>5, <2>1, <2>2 DEF Keeps
<1>11. ASSUME NEW d \in Clones \ raced' PROVE CloneWhole(d)'
  <2>1. CASE d = c
    BY <1>1, <1>5, <1>7, <2>1 DEF CloneWhole
  <2>2. CASE d # c
    BY <1>5, <1>11, <2>2 DEF IInv, RacedGrows, CloneWhole
  <2> QED
    BY <2>1, <2>2
<1> QED
  BY <1>6, <1>8, <1>9, <1>10, <1>11, StepOfOne

(* A ref is written over what the pull has verified. *)
LEMMA PullRefStep ==
  ASSUME IInv, NEW p \in Procs, RacedGrows, NEW k \in Keys, PullRef(p, k)
  PROVE  IInv'
<1> DEFINE t == loc[p].tree
           c == At[p]
           g == t.refs[k]
           l == [loc[p] EXCEPT !.left = @ \ {k}]
<1>1. /\ pc[p] = "refs" /\ k \in loc[p].left
      /\ ref' = [ref EXCEPT ![c][k] = g]
      /\ loc' = [loc EXCEPT ![p] = l]
      /\ UNCHANGED <<disk, ptr, cgxRef, remote, pc>>
  BY DEF PullRef, Set, gitVars
<1>2. /\ loc[p] \in Locals /\ c \in Clones /\ t \in Whole
      /\ loc[p].left \subseteq Named(t.refs)
      /\ ref \in [Clones -> Refs] /\ pc = [pc EXCEPT ![p] = pc[p]]
      /\ c \notin raced' => c \notin raced
  BY <1>1, Unmoved DEF IInv, TransportTypeOK, Knows, PullKnows, RacedGrows
<1>3. c \notin raced =>
        /\ \A x \in Objects : t.objs[x] # "absent" => disk[c][x] = "good"
        /\ \A j \in Named(t.refs) \ loc[p].left : Stands(c, j, ref[c][j])
  BY <1>1 DEF IInv, Knows, PullKnows
<1>4. l \in Locals /\ l.left = loc[p].left \ {k} /\ l.tree = t
  BY <1>2 DEF Locals
<1>5. t.refs \in Refs /\ k \in Named(t.refs) /\ g \in Graphs
  BY <1>1, <1>2, ReachableIsObjects DEF Whole, Commits
<1>6. /\ ref' \in [Clones -> Refs] /\ ref'[c][k] = g
      /\ \A d \in Clones, j \in Keys : ref'[d][j] = ref[d][j] \/ (d = c /\ j = k)
  BY <1>1, <1>2, <1>5 DEF Refs
<1>7. c \notin raced => Stands(c, k, g)
  <2>1. Closure(k, g) \subseteq Reachable(t.refs) /\ Closure(k, g) \subseteq Objects
    BY <1>5, ClosureIsObjects DEF Reachable
  <2>2. \A x \in Closure(k, g) : t.objs[x] # "absent"
    BY <1>2, <2>1 DEF Whole, Complete
  <2> QED
    BY <1>3, <1>5, <2>1, <2>2 DEF Stands
<1> HIDE DEF l, g, t
<1>8. WorldTypeOK' /\ PublishedWhole' /\ RefStays
  BY <1>1, <1>6 DEF IInv, TransportTypeOK, WorldTypeOK, PublishedWhole, RefStays
<1>9. OnlyMoves(p) /\ pc'[p] = "refs" /\ loc'[p] = l
  BY <1>1, <1>2, <1>4, Moved DEF PCs
<1>10. c \notin raced' => Stands(c, k, ref[c][k])'
  BY <1>1, <1>2, <1>6, <1>7 DEF Stands
<1>11. ASSUME NEW d \in Clones, d \notin raced' PROVE Keeps(d)
  <2>1. \A j \in Keys : ref'[d][j] = ref[d][j] \/ Stands(d, j, ref[d][j])'
    BY <1>6, <1>10, <1>11
  <2> QED
    BY <1>1, <2>1 DEF Keeps
<1>12. ASSUME NEW d \in Clones \ raced' PROVE CloneWhole(d)'
  <2>1. SUFFICES ASSUME NEW j \in Named(ref'[d]), NEW x \in Closure(j, ref'[d][j])
                 PROVE  disk'[d][x] # "absent"
    BY <1>6 DEF CloneWhole, Reachable
  <2>2. j \in Keys /\ ref'[d][j] # None
    BY DEF Named
  <2>3. CASE ref'[d][j] = ref[d][j]
    <3>1. x \in Reachable(ref[d])
      BY <2>2, <2>3 DEF Reachable, Named
    <3> QED
      BY <1>1, <1>12, <3>1 DEF IInv, RacedGrows, CloneWhole
  <2>4. CASE d = c /\ j = k
    BY <1>6, <1>10, <1>12, <2>4 DEF Stands
  <2> QED
    BY <1>6, <2>2, <2>3, <2>4
<1>13. Knows(p)'
  <2>1. l.left \subseteq Named(t.refs)
    BY <1>2, <1>4
  <2>2. ASSUME c \notin raced'
        PROVE  /\ \A x \in Objects : t.objs[x] # "absent" => disk'[c][x] = "good"
               /\ \A j \in Named(t.refs) \ l.left : Stands(c, j, ref[c][j])'
    <3>1. \A x \in Objects : t.objs[x] # "absent" => disk'[c][x] = "good"
      BY <1>1, <1>2, <1>3, <2>2
    <3>2. ASSUME NEW j \in Named(t.refs) \ l.left PROVE Stands(c, j, ref[c][j])'
      <4>1. CASE j = k
        BY <1>10, <2>2, <4>1
      <4>2. CASE j # k
        <5>1. j \in Keys /\ j \in Named(t.refs) \ loc[p].left
          BY <1>4, <4>2 DEF Named
        <5>2. Stands(c, j, ref[c][j]) /\ ref'[c][j] = ref[c][j]
          BY <1>2, <1>3, <1>6, <2>2, <4>2, <5>1
        <5> QED
          BY <1>1, <5>2 DEF Stands
      <4> QED
        BY <4>1, <4>2
    <3> QED
      BY <3>1, <3>2
  <2> QED
    BY <1>2, <1>4, <1>9, <2>1, <2>2 DEF Knows, PushKnows, PullKnows
<1> QED
  BY <1>2, <1>8, <1>9, <1>11, <1>12, <1>13, AtAssumption, StepOfOne

-------------------------------------------------------------------------------
LEMMA StepIInv == IInv /\ [Next]_vars => IInv'
<1> SUFFICES ASSUME IInv, [Next]_vars PROVE IInv'
  OBVIOUS
<1>1. CASE UNCHANGED vars
  <2>1. UNCHANGED <<disk, ref, ptr, cgxRef, remote, pc, loc, raced>>
    BY <1>1 DEF vars, cloneVars, gitVars
  <2>2. TransportTypeOK' /\ PublishedWhole'
    BY <2>1 DEF IInv, TransportTypeOK, PublishedWhole
  <2>3. \A p \in Procs : Knows(p)'
    BY <2>1 DEF IInv, Knows, PushKnows, PullKnows, Stands
  <2>4. \A c \in Clones \ raced' : CloneWhole(c)'
    BY <2>1 DEF IInv, CloneWhole
  <2> QED
    BY <2>2, <2>3, <2>4 DEF IInv
<1>2. ASSUME NEW p \in Procs, ProcStep(p) PROVE IInv'
  <2>1. RacedGrows
    BY <1>2 DEF ProcStep, RacedGrows
  <2>2. CASE Begin(p)
    BY <2>1, <2>2, IndexStep, QuietStep, RefStep DEF Begin
  <2>3. CASE WritePointer(p)
    BY <2>1, <2>3, WritePointerStep
  <2>4. CASE PushStep(p)
    BY <2>1, <2>4, QuietStep, RefStep, SendStep DEF PushStep
  <2>5. CASE PullStep(p)
    BY <2>1, <2>5, QuietStep, PullObjectStep, PullHeadStep, PullRefStep DEF PullStep
  <2>6. CASE Kill(p)
    BY <2>1, <2>6, QuietStep
  <2> QED
    BY <1>2, <2>2, <2>3, <2>4, <2>5, <2>6 DEF ProcStep
<1> QED
  BY <1>1, <1>2 DEF Next

LEMMA SpecIInv == Spec => []IInv
<1>1. Init => IInv
  BY InitIInv
<1>2. IInv /\ [Next]_vars => IInv'
  BY StepIInv
<1> QED
  BY <1>1, <1>2, PTL DEF Spec

(* The state of the clones, of the remote and of every call has its type. *)
THEOREM SpecTypeOK == Spec => []TransportTypeOK
<1>1. IInv => TransportTypeOK
  BY DEF IInv
<1> QED
  BY <1>1, SpecIInv, PTL

(* push (build_committable_tree and advance_ref) publishes no part of a    *)
(* graph, and pull writes no ref before the objects it reaches.            *)
THEOREM SpecRefsKeepClosure == Spec => []RefsKeepClosureUnlessRaced
<1>1. IInv => RefsKeepClosureUnlessRaced
  BY DEF IInv, PublishedWhole, Whole, Complete, CloneWhole, RefsKeepClosureUnlessRaced
<1> QED
  BY <1>1, SpecIInv, PTL

(* What pull (write_pulled_blobs) leaves behind when it returns is whole. *)
THEOREM SpecPullMaterializes == Spec => PullMaterializes
<1> DEFINE Materialized(p) ==
             \A k \in Named(loc[p].tree.refs) :
               /\ ref[At[p]][k] # None
               /\ \A o \in Closure(k, ref[At[p]][k]) : disk[At[p]][o] = "good"
           Returns == \A p \in Procs : EndPull(p) /\ At[p] \notin raced => Materialized(p)
<1>1. IInv /\ [Next]_vars => [Returns]_vars
  <2>1. ASSUME IInv, NEW p \in Procs, EndPull(p), At[p] \notin raced PROVE Materialized(p)
    BY <2>1 DEF IInv, Knows, PullKnows, Stands, EndPull
  <2> QED
    BY <2>1
<1> QED
  BY <1>1, SpecIInv, PTL DEF Spec, PullMaterializes
===============================================================================
