--------------------------- MODULE LocalIndexProofs ---------------------------
(***************************************************************************)
(* Proofs, for any number of processes, trees, graphs, kills and moves of  *)
(* HEAD, that a query nothing disturbs serves HEAD's graph, and that what  *)
(* breaks the pointer or a stored graph is the race named for it.          *)
(*                                                                         *)
(* The inductive invariant has three parts: what every call knows of its   *)
(* own locals; what the only index run that is publishing knows of the     *)
(* store and of HEAD.json.tmp; and what a query knows that nothing has     *)
(* disturbed, at each place in its call.                                   *)
(***************************************************************************)
EXTENDS LocalIndex, TLAPS

PCs == {"idle", "ensure", "resolve", "enumerate", "put", "prune", "create", "write",
        "rename", "load", "graphFor", "read", "reading", "served", "envelope",
        "answered", "failed"}

Calls == [kind : Kinds, mode : Modes, rebuild : BOOLEAN, key : Trees \cup {None},
          tree : Trees \cup {None}, seen : Trees \cup {None}, named : Trees \cup {None}]

Reads == [st : {"reading"}, key : Trees, val : Graphs, excused : BOOLEAN]

Pointers == Trees \cup Unreadable \cup {None}

LocalTypeOK ==
  /\ gitHead \in Trees
  /\ map \in [Trees -> Graphs \cup {None}]
  /\ intact = Trees
  /\ pend \in [Procs -> {Idle} \cup Reads]
  /\ reply \in [Procs -> Graphs \cup {"none", "empty", "corrupt"}]
  /\ head \in Pointers /\ temp \in Pointers
  /\ open \in [Procs -> {"none", "temp", "head", "gone"}]
  /\ pc \in [Procs -> PCs]
  /\ call \in [Procs -> Calls]
  /\ quiet \in [Procs -> BOOLEAN]
  /\ raced \in BOOLEAN
  /\ moves \in Nat /\ kills \in Nat

(* What a call has by the time it needs it. *)
Knows(p) ==
  /\ pc[p] \in {"enumerate", "put", "graphFor", "read"} \/ Publishing(p) =>
       call[p].key \in Trees
  /\ pc[p] = "put" => call[p].tree \in Trees
  /\ pc[p] = "reading" <=> pend[p] # Idle

CallsKnow == \A p \in Procs : Knows(p)

TInv == LocalTypeOK /\ CallsKnow

USE SubsetsAssumption, GraphsAssumption, NoneAssumption, TreesAssumption,
    RepliesAssumption, BoundsAssumption

-------------------------------------------------------------------------------
LEMMA NoCallIsACall == NoCall \in Calls
  BY DEF NoCall, Calls, Kinds, Modes

LEMMA GraphOfIsAGraph ==
  ASSUME NEW t \in Trees, NEW m \in Modes
  PROVE  GraphOf(t, m) \in Graphs /\ TreeOf[GraphOf(t, m)] = t
  BY DEF GraphOf

LEMMA InitTInv == Init => TInv
<1> SUFFICES ASSUME Init PROVE TInv
  OBVIOUS
<1>1. map \in [Trees -> Graphs \cup {None}]
  <2>1. \A t \in Trees : GraphOf(t, "dataflow") \in Graphs
    BY GraphOfIsAGraph DEF Modes
  <2> QED
    BY <2>1 DEF Init
<1>2. LocalTypeOK
  BY <1>1, NoCallIsACall DEF Init, LocalTypeOK, PCs, Pointers
<1>3. CallsKnow
  BY DEF Init, CallsKnow, Knows, Publishing
<1> QED
  BY <1>2, <1>3 DEF TInv

(* Reads in progress stay reads: a change of the store only excuses them.  *)
LEMMA ExcuseKeeps ==
  ASSUME TInv, NEW ks \in SUBSET Trees
  PROVE  /\ Excuse(ks) \in [Procs -> {Idle} \cup Reads]
         /\ \A p \in Procs : Excuse(ks)[p] = Idle <=> pend[p] = Idle
<1>1. \A p \in Procs : pend[p] = Idle \/ pend[p] \in Reads
  BY DEF TInv, LocalTypeOK
<1>2. Idle.st # "reading"
  BY DEF Idle
<1>3. ASSUME NEW p \in Procs, pend[p] \in Reads
      PROVE  Excuse(ks)[p] \in Reads
  BY <1>3 DEF Excuse, Reading, Reads
<1>4. ASSUME NEW p \in Procs, pend[p] = Idle
      PROVE  Excuse(ks)[p] = Idle
  BY <1>2, <1>4 DEF Excuse
<1>5. Idle \notin Reads
  BY <1>2 DEF Reads
<1>6. Excuse(ks) = [p \in Procs |-> Excuse(ks)[p]]
  BY DEF Excuse
<1> QED
  BY <1>1, <1>3, <1>4, <1>5, <1>6

(* A call of p changes no other call's locals. *)
OnlyMoves(p) ==
  /\ pc' \in [Procs -> PCs] /\ call' \in [Procs -> Calls]
  /\ \A q \in Procs \ {p} :
       /\ pc'[q] = pc[q] /\ call'[q] = call[q]
       /\ pend'[q] = Idle <=> pend[q] = Idle

(* The store and the pointer keep their types. *)
WorldTypeOK ==
  /\ map \in [Trees -> Graphs \cup {None}]
  /\ intact = Trees
  /\ pend \in [Procs -> {Idle} \cup Reads]
  /\ reply \in [Procs -> Graphs \cup {"none", "empty", "corrupt"}]
  /\ head \in Pointers /\ temp \in Pointers
  /\ open \in [Procs -> {"none", "temp", "head", "gone"}]

LEMMA CallStep ==
  ASSUME TInv, NEW p \in Procs, OnlyMoves(p), WorldTypeOK', Knows(p)',
         Acts(p), UNCHANGED moves, kills' \in Nat
  PROVE  TInv'
<1>1. LocalTypeOK'
  <2>1. quiet' \in [Procs -> BOOLEAN] /\ raced' \in BOOLEAN /\ UNCHANGED gitHead
    BY DEF Acts
  <2> QED
    BY <2>1 DEF OnlyMoves, WorldTypeOK, LocalTypeOK, TInv
<1>2. CallsKnow'
  BY DEF OnlyMoves, CallsKnow, Knows, TInv, Publishing
<1> QED
  BY <1>1, <1>2 DEF TInv

-------------------------------------------------------------------------------
(* A new call starts from NoCall. *)
LEMMA BeginStep ==
  ASSUME TInv, NEW p \in Procs, Begin(p)
  PROVE  OnlyMoves(p) /\ WorldTypeOK' /\ Knows(p)'
<1> USE DEF TInv
<1>1. pc[p] = "idle" /\ pend[p] = Idle
  BY DEF Begin, StartIndex, StartQuery, StartNoAuto, StartPinned, Transition,
         CallsKnow, Knows
<1>2. UNCHANGED <<map, intact, pend, reply, head, temp, open>>
  BY DEF Begin, StartIndex, StartQuery, StartNoAuto, StartPinned, storeVars,
         pointerVars
<1>3. ASSUME NEW c \in Calls, NEW to \in PCs, Goto(p, to), Set(p, c),
             to = "put" => c.key \in Trees /\ c.tree \in Trees,
             to \in {"resolve", "ensure", "load", "put"}
      PROVE  OnlyMoves(p) /\ Knows(p)'
  BY <1>1, <1>2, <1>3 DEF Goto, Set, OnlyMoves, Knows, LocalTypeOK, Publishing
<1>4. CASE \E m \in IndexModes : StartIndex(p, m)
  <2>1. PICK m \in IndexModes : StartIndex(p, m)
    BY <1>4
  <2>2. [NoCall EXCEPT !.kind = "index", !.mode = m] \in Calls
    BY NoCallIsACall DEF Calls, Kinds
  <2> QED
    BY <2>1, <2>2, <1>2, <1>3 DEF StartIndex, Transition, PCs, WorldTypeOK, LocalTypeOK
<1>5. CASE StartQuery(p)
  <2>2. [NoCall EXCEPT !.kind = "query", !.rebuild = TRUE, !.seen = gitHead] \in Calls
    BY NoCallIsACall DEF Calls, Kinds, LocalTypeOK
  <2> QED
    BY <1>5, <2>2, <1>2, <1>3 DEF StartQuery, Transition, PCs, WorldTypeOK, LocalTypeOK
<1>6. CASE StartNoAuto(p)
  <2>2. [NoCall EXCEPT !.kind = "noAuto"] \in Calls
    BY NoCallIsACall DEF Calls, Kinds
  <2> QED
    BY <1>6, <2>2, <1>2, <1>3 DEF StartNoAuto, Transition, PCs, WorldTypeOK, LocalTypeOK
<1>7. CASE \E t \in Pinned : StartPinned(p, t)
  <2>1. PICK t \in Pinned : StartPinned(p, t)
    BY <1>7
  <2> DEFINE c == [NoCall EXCEPT !.kind = "pinned", !.key = t, !.tree = t]
  <2>2. c \in Calls /\ c.key \in Trees /\ c.tree \in Trees
    BY NoCallIsACall DEF Calls, Kinds, NoCall
  <2>3. Goto(p, "put") /\ Set(p, c)
    BY <2>1 DEF StartPinned, Transition
  <2> HIDE DEF c
  <2> QED
    BY <2>2, <2>3, <1>2, <1>3 DEF PCs, WorldTypeOK, LocalTypeOK
<1> QED
  BY <1>4, <1>5, <1>6, <1>7 DEF Begin

(* A missing graph is indexed again, or the call fails. *)
LEMMA MissStays ==
  ASSUME NEW p \in Procs, call[p] \in Calls, Miss(p)
  PROVE  \/ \E c \in Calls : Goto(p, "resolve") /\ Set(p, c)
         \/ Goto(p, "failed") /\ UNCHANGED call
<1>1. AutoIndexCall([call[p] EXCEPT !.rebuild = FALSE]) \in Calls
  BY DEF AutoIndexCall, Calls, Modes
<1> QED
  BY <1>1 DEF Miss

(* The steps of a call that leave the store alone. *)
LEMMA PlainStep ==
  ASSUME TInv, NEW p \in Procs,
         Ensure(p) \/ ResolveKey(p) \/ EnumerateTree(p) \/ CreateTemp(p)
           \/ WriteTemp(p) \/ RenameTemp(p) \/ RenameFails(p) \/ ReadPointer(p)
           \/ GraphFor(p) \/ EnvelopeHead(p) \/ EnvelopeTree(p)
  PROVE  OnlyMoves(p) /\ WorldTypeOK' /\ Knows(p)'
<1> USE DEF TInv
<1>1. call[p] \in Calls /\ gitHead \in Trees /\ Knows(p) /\ pc \in [Procs -> PCs]
        /\ call \in [Procs -> Calls]
  BY DEF LocalTypeOK, CallsKnow
<1>2. UNCHANGED <<map, intact, pend, reply>>
  BY DEF Ensure, ResolveKey, EnumerateTree, CreateTemp, WriteTemp, RenameTemp,
         RenameFails, ReadPointer, GraphFor, EnvelopeHead, EnvelopeTree, storeVars
<1>3. ASSUME NEW to \in PCs, Goto(p, to), UNCHANGED call,
             to # "reading", to # "put", pend[p] = Idle,
             to \in {"enumerate", "graphFor", "read", "prune", "create", "write", "rename"}
               => call[p].key \in Trees
      PROVE  OnlyMoves(p) /\ Knows(p)'
  BY <1>1, <1>2, <1>3 DEF Goto, OnlyMoves, Knows, Publishing
<1>4. ASSUME NEW c \in Calls, NEW to \in PCs, Goto(p, to), Set(p, c),
             to # "reading", pend[p] = Idle,
             to \in {"enumerate", "put", "graphFor", "read", "prune", "create", "write",
                     "rename"}
               => c.key \in Trees,
             to = "put" => c.tree \in Trees
      PROVE  OnlyMoves(p) /\ Knows(p)'
  BY <1>1, <1>2, <1>4 DEF Goto, Set, OnlyMoves, Knows, Publishing
<1>5. ASSUME UNCHANGED <<head, temp, open>> PROVE WorldTypeOK'
  BY <1>2, <1>5 DEF WorldTypeOK, LocalTypeOK
<1>6. pc[p] # "reading" => pend[p] = Idle
  BY <1>1 DEF Knows
<1>7. CASE Ensure(p)
  <2>1. AutoIndexCall(call[p]) \in Calls
    BY <1>1 DEF AutoIndexCall, Calls, Modes
  <2>2. \E to \in {"load", "resolve"} : Goto(p, to)
    BY <1>7 DEF Ensure
  <2> QED
    BY <1>4, <1>5, <1>6, <1>7, <2>1, <2>2 DEF Ensure, PCs, pointerVars
<1>8. CASE ResolveKey(p)
  <2> DEFINE c == [call[p] EXCEPT !.key = gitHead]
  <2>1. c \in Calls /\ c.key \in Trees
    BY <1>1 DEF Calls
  <2>2. Goto(p, "enumerate") /\ Set(p, c) /\ pc[p] = "resolve"
    BY <1>8 DEF ResolveKey, Transition
  <2> HIDE DEF c
  <2> QED
    BY <1>4, <1>5, <1>6, <1>8, <2>1, <2>2 DEF ResolveKey, PCs, pointerVars
<1>9. CASE EnumerateTree(p)
  <2> DEFINE c == [call[p] EXCEPT !.tree = gitHead]
  <2>1. Goto(p, "put") /\ Set(p, c) /\ pc[p] = "enumerate"
    BY <1>9 DEF EnumerateTree, Transition
  <2>2. c \in Calls /\ c.key \in Trees /\ c.tree \in Trees
    BY <1>1, <2>1 DEF Calls, Knows
  <2> HIDE DEF c
  <2> QED
    BY <1>4, <1>5, <1>6, <1>9, <2>1, <2>2 DEF EnumerateTree, PCs, pointerVars
<1>10. CASE CreateTemp(p)
  <2>1. Goto(p, "write") /\ pc[p] = "create" /\ UNCHANGED call /\ call[p].key \in Trees
    BY <1>1, <1>10 DEF CreateTemp, Transition, Knows, Publishing
  <2>2. WorldTypeOK'
    BY <1>2, <1>10 DEF CreateTemp, WorldTypeOK, LocalTypeOK, Pointers, Unreadable
  <2> QED
    BY <1>3, <1>6, <2>1, <2>2 DEF PCs
<1>11. CASE WriteTemp(p)
  <2>1. Goto(p, "rename") /\ pc[p] = "write" /\ UNCHANGED call /\ call[p].key \in Trees
    BY <1>1, <1>11 DEF WriteTemp, Transition, Knows, Publishing
  <2>2. \A old : Written(p, old) \subseteq Pointers
    BY <2>1 DEF Written, Pointers, Unreadable
  <2>3. head' \in Pointers /\ temp' \in Pointers
    BY <1>11, <2>2 DEF WriteTemp, LocalTypeOK
  <2>4. WorldTypeOK'
    BY <1>2, <1>11, <2>3 DEF WriteTemp, WorldTypeOK, LocalTypeOK
  <2> QED
    BY <1>3, <1>6, <2>1, <2>4 DEF PCs
<1>12. CASE RenameTemp(p)
  <2>1. pc[p] = "rename" /\ UNCHANGED call /\ \E to \in {"load", "answered"} : Goto(p, to)
    BY <1>12 DEF RenameTemp, Transition, AfterIndex
  <2>2. WorldTypeOK'
    BY <1>2, <1>12 DEF RenameTemp, WorldTypeOK, LocalTypeOK, Pointers
  <2> QED
    BY <1>3, <1>6, <2>1, <2>2 DEF PCs
<1>13. CASE RenameFails(p)
  BY <1>3, <1>5, <1>6, <1>13 DEF RenameFails, Transition, PCs, pointerVars
<1>14. CASE ReadPointer(p)
  <2>1. CASE head \in Trees
    <3> DEFINE c == [call[p] EXCEPT !.key = head]
    <3>1. c \in Calls /\ c.key \in Trees
      BY <1>1, <2>1 DEF Calls
    <3>2. Goto(p, "graphFor") /\ Set(p, c) /\ pc[p] = "load"
      BY <1>14, <2>1 DEF ReadPointer
    <3> HIDE DEF c
    <3> QED
      BY <1>4, <1>5, <1>6, <1>14, <3>1, <3>2 DEF ReadPointer, PCs, pointerVars
  <2>2. CASE head \notin Trees
    BY <1>3, <1>5, <1>6, <1>14, <2>2 DEF ReadPointer, PCs, pointerVars
  <2> QED
    BY <2>1, <2>2
<1>15. CASE GraphFor(p)
  <2>1. CASE map[call[p].key] # None
    BY <1>1, <1>3, <1>5, <1>6, <1>15, <2>1 DEF GraphFor, Knows, PCs, pointerVars
  <2>2. CASE map[call[p].key] = None
    BY <1>1, <1>3, <1>4, <1>5, <1>6, <1>15, <2>2, MissStays
       DEF GraphFor, PCs, pointerVars
  <2> QED
    BY <2>1, <2>2
<1>16. CASE EnvelopeHead(p)
  <2>1. [call[p] EXCEPT !.seen = gitHead] \in Calls
    BY <1>1 DEF Calls
  <2> QED
    BY <1>4, <1>5, <1>6, <1>16, <2>1 DEF EnvelopeHead, Transition, PCs, pointerVars
<1>17. CASE EnvelopeTree(p)
  <2>1. ASSUME NEW t \in Trees \cup {None} PROVE [call[p] EXCEPT !.named = t] \in Calls
    BY <1>1 DEF Calls
  <2>2. call[p].key \in Trees \cup {None}
    BY <1>1 DEF Calls
  <2>3. \E c \in Calls : Set(p, c)
    BY <1>17, <2>1, <2>2 DEF EnvelopeTree
  <2> QED
    BY <1>4, <1>5, <1>6, <1>17, <2>3 DEF EnvelopeTree, Transition, PCs, pointerVars
<1> QED
  BY <1>7, <1>8, <1>9, <1>10, <1>11, <1>12, <1>13, <1>14, <1>15, <1>16, <1>17

(* The steps that write or read the store. *)
LEMMA StoreStep ==
  ASSUME TInv, NEW p \in Procs,
         PutGraph(p) \/ Prune(p) \/ BeginReadGraph(p) \/ EndReadGraph(p)
  PROVE  OnlyMoves(p) /\ WorldTypeOK' /\ Knows(p)'
<1> USE DEF TInv
<1>1. call[p] \in Calls /\ Knows(p) /\ pc \in [Procs -> PCs] /\ call \in [Procs -> Calls]
        /\ pend \in [Procs -> {Idle} \cup Reads]
        /\ map \in [Trees -> Graphs \cup {None}]
        /\ reply \in [Procs -> Graphs \cup {"none", "empty", "corrupt"}]
  BY DEF LocalTypeOK, CallsKnow
<1>2. UNCHANGED pointerVars
  BY DEF PutGraph, Prune, BeginReadGraph, EndReadGraph
<1>3. PICK to \in PCs : Goto(p, to)
  <2>1. CASE PutGraph(p) \/ Prune(p) \/ BeginReadGraph(p)
    BY <2>1 DEF PutGraph, Prune, BeginReadGraph, Transition, PCs
  <2>2. CASE EndReadGraph(p)
    BY <1>1, <2>2, MissStays DEF EndReadGraph, PCs
  <2> QED
    BY <2>1, <2>2
<1>4. PICK c \in Calls : call' = [call EXCEPT ![p] = c]
  <2>1. ASSUME UNCHANGED call PROVE call' = [call EXCEPT ![p] = call[p]]
    BY <1>1, <2>1
  <2>2. CASE PutGraph(p) \/ Prune(p) \/ BeginReadGraph(p)
    BY <1>1, <2>1, <2>2 DEF PutGraph, Prune, BeginReadGraph
  <2>3. CASE EndReadGraph(p)
    BY <1>1, <2>1, <2>3, MissStays DEF EndReadGraph, Set
  <2> QED
    BY <2>2, <2>3
<1>5. pc' \in [Procs -> PCs] /\ call' \in [Procs -> Calls]
        /\ \A q \in Procs \ {p} : pc'[q] = pc[q] /\ call'[q] = call[q]
  BY <1>1, <1>3, <1>4 DEF Goto
<1>6. CASE PutGraph(p)
  <2>1. /\ pc[p] = "put" /\ call[p].key \in Trees /\ call[p].tree \in Trees
        /\ call[p].mode \in Modes /\ UNCHANGED <<call, reply>>
        /\ pc'[p] \in {"read", "prune"} /\ pend[p] = Idle
    BY <1>1, <1>6 DEF PutGraph, Transition, Goto, Store, Knows, Calls
  <2> DEFINE g == GraphOf(call[p].tree, call[p].mode)
  <2>2. g \in Graphs
    BY <2>1, GraphOfIsAGraph
  <2>3. /\ map' = [map EXCEPT ![call[p].key] = g]
        /\ intact' = intact \cup {call[p].key} /\ pend' = Excuse({call[p].key})
    BY <1>6 DEF PutGraph, Store
  <2> HIDE DEF g
  <2>4. WorldTypeOK'
    BY <1>1, <1>2, <2>1, <2>2, <2>3, ExcuseKeeps
       DEF WorldTypeOK, LocalTypeOK, pointerVars
  <2>5. \A q \in Procs : pend'[q] = Idle <=> pend[q] = Idle
    BY <2>1, <2>3, ExcuseKeeps
  <2> QED
    BY <1>5, <2>1, <2>4, <2>5 DEF OnlyMoves, Knows, Publishing
<1>7. CASE Prune(p)
  <2>1. /\ pc[p] = "prune" /\ call[p].key \in Trees /\ UNCHANGED <<call, reply, intact>>
        /\ pc'[p] = "create" /\ pend[p] = Idle
        /\ pend' = Excuse(Trees \ {call[p].key})
        /\ map' = [k \in Trees |-> IF k \in Trees \ {call[p].key} THEN None ELSE map[k]]
    BY <1>1, <1>7 DEF Prune, Transition, Goto, Drop, Knows, Publishing
  <2>2. WorldTypeOK'
    BY <1>1, <1>2, <2>1, ExcuseKeeps DEF WorldTypeOK, LocalTypeOK, pointerVars
  <2>3. \A q \in Procs : pend'[q] = Idle <=> pend[q] = Idle
    BY <2>1, ExcuseKeeps
  <2> QED
    BY <1>5, <2>1, <2>2, <2>3 DEF OnlyMoves, Knows, Publishing
<1>8. CASE BeginReadGraph(p)
  <2>1. /\ pc[p] = "read" /\ call[p].key \in Trees /\ UNCHANGED <<call, map, intact>>
    BY <1>1, <1>8 DEF BeginReadGraph, BeginRead, ReadNothing, Knows
  <2>2. CASE BeginRead(p, call[p].key) /\ Goto(p, "reading")
    <3> DEFINE r == Reading(call[p].key, map[call[p].key], call[p].key \notin intact)
    <3>1. r \in Reads /\ r # Idle
      BY <1>1, <2>1, <2>2 DEF BeginRead, Reading, Reads, Idle
    <3>2. /\ pend' = [pend EXCEPT ![p] = r] /\ reply' = [reply EXCEPT ![p] = "none"]
          /\ pc'[p] = "reading"
      BY <1>1, <2>2 DEF BeginRead, Goto
    <3> HIDE DEF r
    <3>3. WorldTypeOK' /\ pend'[p] # Idle /\ \A q \in Procs \ {p} : pend'[q] = pend[q]
      BY <1>1, <1>2, <2>1, <3>1, <3>2 DEF WorldTypeOK, LocalTypeOK, pointerVars
    <3> QED
      BY <1>5, <2>1, <3>2, <3>3 DEF OnlyMoves, Knows, Publishing
  <2>3. CASE ReadNothing(p, call[p].key) /\ Goto(p, "served")
    <3>1. /\ reply' = [reply EXCEPT ![p] = "empty"] /\ UNCHANGED pend
          /\ pc'[p] = "served" /\ pend[p] = Idle
      BY <1>1, <2>3 DEF ReadNothing, Goto
    <3>2. WorldTypeOK'
      BY <1>1, <1>2, <2>1, <3>1 DEF WorldTypeOK, LocalTypeOK, pointerVars
    <3> QED
      BY <1>5, <2>1, <3>1, <3>2 DEF OnlyMoves, Knows, Publishing
  <2> QED
    BY <1>8, <2>2, <2>3 DEF BeginReadGraph
<1>9. CASE EndReadGraph(p)
  <2>1. /\ pend' = [pend EXCEPT ![p] = Idle] /\ UNCHANGED <<map, intact>>
        /\ pc'[p] \in {"resolve", "failed", "served"}
    BY <1>1, <1>9, MissStays DEF EndReadGraph, EndRead, Goto
  <2>2. \E v \in Graphs \cup {"corrupt"} : reply' = [reply EXCEPT ![p] = v]
    BY <1>9 DEF EndReadGraph, EndRead
  <2>3. WorldTypeOK'
    BY <1>1, <1>2, <2>1, <2>2 DEF WorldTypeOK, LocalTypeOK, pointerVars
  <2> QED
    BY <1>1, <1>5, <2>1, <2>3 DEF OnlyMoves, Knows, Publishing
<1> QED
  BY <1>6, <1>7, <1>8, <1>9

(* The end of a call, and of its process. *)
LEMMA FinishStep ==
  ASSUME TInv, NEW p \in Procs, Finish(p)
  PROVE  OnlyMoves(p) /\ WorldTypeOK' /\ Knows(p)'
<1> USE DEF TInv, Finish, Goto, Set, Leave
<1>1. OnlyMoves(p)
  BY NoCallIsACall DEF OnlyMoves, LocalTypeOK, PCs
<1>2. WorldTypeOK'
  BY DEF WorldTypeOK, LocalTypeOK
<1>3. Knows(p)'
  BY DEF Knows, Publishing, LocalTypeOK
<1> QED
  BY <1>1, <1>2, <1>3

LEMMA StepTInv == TInv /\ [Next]_vars => TInv'
<1> SUFFICES ASSUME TInv, [Next]_vars PROVE TInv'
  OBVIOUS
<1>1. CASE UNCHANGED vars
  BY <1>1 DEF vars, storeVars, pointerVars, TInv, LocalTypeOK, CallsKnow, Knows,
              Publishing
<1>2. ASSUME NEW p \in Procs, ProcStep(p) PROVE TInv'
  <2>1. OnlyMoves(p) /\ WorldTypeOK' /\ Knows(p)'
    BY <1>2, BeginStep, PlainStep, StoreStep, FinishStep DEF ProcStep, Continue, Return
  <2> QED
    BY <1>2, <2>1, CallStep DEF ProcStep, TInv, LocalTypeOK
<1>3. ASSUME NEW p \in Procs, Kill(p) PROVE TInv'
  <2>1. kills' \in Nat
    BY <1>3 DEF Kill, TInv, LocalTypeOK
  <2> QED
    BY <1>3, <2>1, FinishStep, CallStep DEF Kill
<1>4. ASSUME NEW t \in Trees, MoveHead(t) PROVE TInv'
  BY <1>4 DEF MoveHead, storeVars, pointerVars, TInv, LocalTypeOK, CallsKnow, Knows,
              Publishing
<1> QED
  BY <1>1, <1>2, <1>3, <1>4 DEF Next

LEMMA SpecTInv == Spec => []TInv
  BY InitTInv, StepTInv, PTL DEF Spec

-------------------------------------------------------------------------------
(* What the only index run that is publishing knows: its graph is stored,  *)
(* and HEAD.json.tmp is its own.                                           *)
PublisherKnows(p) ==
  /\ Publishing(p) => map[call[p].key] # None
  /\ pc[p] = "write" => open[p] = "temp" /\ temp = "empty"
  /\ pc[p] = "rename" => temp = call[p].key

PublishInv ==
  ~ raced =>
    /\ \A q, r \in Procs : q # r => ~ (Publishing(q) /\ Publishing(r))
    /\ \A p \in Procs : PublisherKnows(p)
    /\ head \in Trees \cup {None}

LEMMA InitPublish == Init => PublishInv
  BY DEF Init, PublishInv, PublisherKnows, Publishing

(* The steps that neither publish nor touch what a publisher relies on. *)
LEMMA AsideStep ==
  ASSUME TInv, NEW p \in Procs,
         \/ Begin(p) \/ Ensure(p) \/ ResolveKey(p) \/ EnumerateTree(p) \/ RenameFails(p)
         \/ ReadPointer(p) \/ GraphFor(p) \/ BeginReadGraph(p) \/ EndReadGraph(p)
         \/ EnvelopeHead(p) \/ EnvelopeTree(p) \/ Finish(p)
  PROVE  /\ UNCHANGED <<map, head, temp>>
         /\ \A q \in Procs \ {p} : open'[q] = open[q]
         /\ ~ Publishing(p)'
<1> USE DEF TInv, LocalTypeOK, Publishing, Goto, Transition
<1>1. CASE Begin(p)
  <2>1. \E to \in {"resolve", "ensure", "load", "put"} : Goto(p, to)
    <3>1. ASSUME NEW from, NEW to, Transition(p, from, to) PROVE Goto(p, to)
      BY <3>1
    <3> HIDE DEF Goto, Transition
    <3> QED
      BY <1>1, <3>1 DEF Begin, StartIndex, StartQuery, StartNoAuto, StartPinned
  <2>2. UNCHANGED <<map, head, temp, open>>
    BY <1>1 DEF Begin, StartIndex, StartQuery, StartNoAuto, StartPinned, storeVars,
                pointerVars
  <2> QED
    BY <2>1, <2>2
<1>2. CASE Ensure(p) \/ ResolveKey(p) \/ EnumerateTree(p) \/ RenameFails(p)
             \/ ReadPointer(p) \/ EnvelopeHead(p) \/ EnvelopeTree(p)
  BY <1>2 DEF Ensure, ResolveKey, EnumerateTree, RenameFails, ReadPointer,
              EnvelopeHead, EnvelopeTree, storeVars, pointerVars
<1>3. CASE GraphFor(p)
  BY <1>3 DEF GraphFor, Miss, storeVars, pointerVars
<1>4. CASE BeginReadGraph(p)
  BY <1>4 DEF BeginReadGraph, BeginRead, ReadNothing, pointerVars
<1>5. CASE EndReadGraph(p)
  BY <1>5 DEF EndReadGraph, EndRead, Miss, pointerVars
<1>6. CASE Finish(p)
  BY <1>6 DEF Finish, Leave
<1> QED
  BY <1>1, <1>2, <1>3, <1>4, <1>5, <1>6

LEMMA PublishStep ==
  ASSUME TInv, PublishInv, NEW p \in Procs,
         Begin(p) \/ Continue(p) \/ Finish(p), OnlyMoves(p), Acts(p)
  PROVE  PublishInv'
<1> SUFFICES ASSUME ~ raced'
             PROVE  (/\ \A q \in Procs : PublisherKnows(q)
                     /\ head \in Trees \cup {None})'
  BY DEF PublishInv, Acts
<1>1. ~ raced /\ \A q \in Procs \ {p} : ~ (Publishing(q)' /\ Publishing(p)')
  BY DEF Acts
<1>2. /\ \A q \in Procs \ {p} : ~ (Publishing(q) /\ Publishing(p))
      /\ \A q \in Procs : PublisherKnows(q)
      /\ head \in Trees \cup {None}
  BY <1>1 DEF PublishInv
<1>3. \A q \in Procs \ {p} :
        pc'[q] = pc[q] /\ call'[q] = call[q] /\ Publishing(q)' = Publishing(q)
  BY DEF OnlyMoves, Publishing
<1>4. Knows(p) /\ LocalTypeOK
  BY DEF TInv, CallsKnow
<1>5. CASE ~ Publishing(p)' /\ UNCHANGED <<map, head, temp>>
             /\ \A q \in Procs \ {p} : open'[q] = open[q]
  <2>1. PublisherKnows(p)'
    BY <1>5 DEF PublisherKnows, Publishing
  <2>2. ASSUME NEW q \in Procs \ {p} PROVE PublisherKnows(q)'
    BY <1>2, <1>3, <1>5 DEF PublisherKnows, Publishing
  <2> QED
    BY <1>2, <1>5, <2>1, <2>2
<1>6. CASE PutGraph(p)
  <2>1. /\ call[p].key \in Trees /\ call[p].tree \in Trees /\ call[p].mode \in Modes
        /\ UNCHANGED <<head, temp, open, call>> /\ pc'[p] \in {"prune", "read"}
    BY <1>4, <1>6
       DEF PutGraph, Transition, Goto, Knows, LocalTypeOK, Calls, pointerVars
  <2>2. map' = [map EXCEPT ![call[p].key] = GraphOf(call[p].tree, call[p].mode)]
    BY <1>6 DEF PutGraph, Store
  <2>3. GraphOf(call[p].tree, call[p].mode) # None
    BY <2>1, GraphOfIsAGraph
  <2>4. \A k \in Trees : map'[k] = None => map[k] = None
    BY <1>4, <2>2, <2>3 DEF LocalTypeOK
  <2>5. map'[call[p].key] # None
    BY <1>4, <2>1, <2>2, <2>3 DEF LocalTypeOK
  <2>6. PublisherKnows(p)'
    BY <2>1, <2>5 DEF PublisherKnows, Publishing
  <2>7. ASSUME NEW q \in Procs \ {p} PROVE PublisherKnows(q)'
    <3>1. Publishing(q) => call[q].key \in Trees
      BY DEF TInv, CallsKnow, Knows
    <3> QED
      BY <1>2, <1>3, <2>1, <2>4, <3>1 DEF PublisherKnows, Publishing
  <2> QED
    BY <1>2, <2>1, <2>6, <2>7
<1>7. CASE Prune(p) \/ CreateTemp(p) \/ WriteTemp(p) \/ RenameTemp(p)
  <2>1. Publishing(p)
    BY <1>7 DEF Prune, CreateTemp, WriteTemp, RenameTemp, Transition, Publishing
  <2>2. \A q \in Procs \ {p} : PublisherKnows(q)'
    BY <1>2, <1>3, <2>1 DEF PublisherKnows, Publishing
  <2>3. call[p].key \in Trees /\ map[call[p].key] # None /\ UNCHANGED call
    BY <1>2, <1>4, <1>7, <2>1
       DEF Knows, PublisherKnows, Prune, CreateTemp, WriteTemp, RenameTemp
  <2>4. CASE Prune(p)
    <3>1. /\ map' = [k \in Trees |-> IF k \in Trees \ {call[p].key} THEN None ELSE map[k]]
          /\ UNCHANGED <<head, temp, open>> /\ pc'[p] = "create"
      BY <1>4, <2>4 DEF Prune, Drop, Transition, Goto, LocalTypeOK, pointerVars
    <3> QED
      BY <1>2, <2>2, <2>3, <3>1 DEF PublisherKnows, Publishing
  <2>5. CASE CreateTemp(p)
    <3>1. /\ UNCHANGED <<map, head>> /\ temp' = "empty"
          /\ open'[p] = "temp" /\ pc'[p] = "write"
      BY <1>4, <2>5 DEF CreateTemp, Transition, Goto, LocalTypeOK, storeVars
    <3> QED
      BY <1>2, <2>2, <2>3, <3>1 DEF PublisherKnows, Publishing
  <2>6. CASE WriteTemp(p)
    <3>1. pc[p] = "write" /\ open[p] = "temp" /\ temp = "empty"
      BY <1>2, <2>6 DEF WriteTemp, Transition, PublisherKnows
    <3>2. /\ UNCHANGED <<map, head>> /\ temp' = call[p].key /\ pc'[p] = "rename"
      BY <1>4, <2>6, <3>1
         DEF WriteTemp, Written, Transition, Goto, LocalTypeOK, storeVars
    <3> QED
      BY <1>2, <2>2, <2>3, <3>2 DEF PublisherKnows, Publishing
  <2>7. CASE RenameTemp(p)
    <3>1. pc[p] = "rename" /\ temp = call[p].key
      BY <1>2, <2>7 DEF RenameTemp, Transition, PublisherKnows
    <3>2. head' = temp /\ pc'[p] \in {"load", "answered"}
      BY <1>4, <2>7 DEF RenameTemp, AfterIndex, Transition, Goto, LocalTypeOK
    <3> QED
      BY <2>2, <2>3, <3>1, <3>2 DEF PublisherKnows, Publishing
  <2> QED
    BY <1>7, <2>4, <2>5, <2>6, <2>7
<1> QED
  BY <1>5, <1>6, <1>7, AsideStep DEF Continue, Return

(* What the steps of the proofs below have in common. *)
LEMMA ProcessStep ==
  ASSUME TInv, NEW p \in Procs, ProcStep(p) \/ Kill(p)
  PROVE  /\ Begin(p) \/ Continue(p) \/ Finish(p)
         /\ OnlyMoves(p) /\ Acts(p) /\ UNCHANGED <<gitHead, moves>>
<1>1. CASE ProcStep(p)
  BY <1>1, BeginStep, PlainStep, StoreStep, FinishStep
     DEF ProcStep, Continue, Return, Acts
<1>2. CASE Kill(p)
  BY <1>2, FinishStep DEF Kill, Acts
<1> QED
  BY <1>1, <1>2

LEMMA NextPublish == TInv /\ PublishInv /\ [Next]_vars => PublishInv'
<1> SUFFICES ASSUME TInv, PublishInv, [Next]_vars PROVE PublishInv'
  OBVIOUS
<1>1. CASE UNCHANGED vars \/ \E t \in Trees : MoveHead(t)
  BY <1>1 DEF vars, MoveHead, storeVars, pointerVars, PublishInv, PublisherKnows,
              Publishing
<1>2. ASSUME NEW p \in Procs, ProcStep(p) \/ Kill(p) PROVE PublishInv'
  BY <1>2, ProcessStep, PublishStep
<1> QED
  BY <1>1, <1>2 DEF Next

-------------------------------------------------------------------------------
(* Until HEAD moves, the two peels of an index run give one tree. *)
Settled(p) ==
  /\ pc[p] = "enumerate" => call[p].key = gitHead
  /\ pc[p] = "put" => call[p].key = call[p].tree

SettledInv == moves = 0 => KeyNamesContent /\ \A p \in Procs : Settled(p)

LEMMA InitSettled == Init => SettledInv
<1> SUFFICES ASSUME Init PROVE KeyNamesContent /\ \A p \in Procs : Settled(p)
  BY DEF SettledInv
<1>1. \A t \in Trees : TreeOf[GraphOf(t, "dataflow")] = t
  BY GraphOfIsAGraph DEF Modes
<1>2. KeyNamesContent
  BY <1>1 DEF Init, KeyNamesContent
<1> QED
  BY <1>2 DEF Init, Settled

LEMMA SettledStep ==
  ASSUME TInv, SettledInv, NEW p \in Procs,
         Begin(p) \/ Continue(p) \/ Finish(p), OnlyMoves(p), UNCHANGED <<gitHead, moves>>
  PROVE  SettledInv'
<1> SUFFICES ASSUME moves = 0 PROVE KeyNamesContent' /\ \A q \in Procs : Settled(q)'
  BY DEF SettledInv
<1>1. KeyNamesContent /\ (\A q \in Procs : Settled(q)) /\ LocalTypeOK /\ Knows(p)
  BY DEF SettledInv, TInv, CallsKnow
<1>2. \A q \in Procs \ {p} : Settled(q)'
  BY <1>1 DEF Settled, OnlyMoves
<1>3. Settled(p)'
  <2> USE DEF Settled, Goto, Transition, LocalTypeOK
  <2>1. ASSUME NEW to, Goto(p, to), to \notin {"enumerate", "put"} PROVE Settled(p)'
    BY <1>1, <2>1
  <2>2. CASE \E t \in Pinned : StartPinned(p, t)
    <3>1. PICK t \in Pinned : StartPinned(p, t)
      BY <2>2
    <3>2. pc'[p] = "put" /\ call'[p].key = t /\ call'[p].tree = t
      BY <1>1, <3>1 DEF StartPinned, Set, NoCall
    <3> QED
      BY <3>2
  <2>3. CASE ResolveKey(p)
    <3>1. pc'[p] = "enumerate" /\ call'[p].key = gitHead
      BY <1>1, <2>3 DEF ResolveKey, Set, Calls
    <3> QED
      BY <3>1
  <2>4. CASE EnumerateTree(p)
    <3>1. /\ pc[p] = "enumerate" /\ pc'[p] = "put"
          /\ call'[p].key = call[p].key /\ call'[p].tree = gitHead
      BY <1>1, <2>4 DEF EnumerateTree, Set, Calls
    <3> QED
      BY <1>1, <3>1
  <2>5. CASE \/ PutGraph(p) \/ Prune(p) \/ CreateTemp(p) \/ WriteTemp(p) \/ RenameTemp(p)
    BY <1>1, <2>5 DEF PutGraph, Prune, CreateTemp, WriteTemp, RenameTemp, AfterIndex
  <2>6. CASE (\E m \in IndexModes : StartIndex(p, m)) \/ StartQuery(p) \/ StartNoAuto(p)
    <3>1. \E to \in {"resolve", "ensure", "load"} : Goto(p, to)
      BY <2>6 DEF StartIndex, StartQuery, StartNoAuto
    <3> QED
      BY <2>1, <3>1
  <2>7. CASE \/ Ensure(p) \/ RenameFails(p) \/ ReadPointer(p) \/ GraphFor(p)
             \/ BeginReadGraph(p) \/ EndReadGraph(p) \/ EnvelopeHead(p) \/ EnvelopeTree(p)
             \/ Finish(p)
    <3>1. \E to \in PCs \ {"enumerate", "put"} : Goto(p, to)
      BY <2>7 DEF Ensure, RenameFails, ReadPointer, GraphFor, BeginReadGraph, Miss,
                  EndReadGraph, EnvelopeHead, EnvelopeTree, Finish, PCs
    <3> QED
      BY <2>1, <3>1
  <2> QED
    BY <2>2, <2>3, <2>4, <2>5, <2>6, <2>7 DEF Begin, Continue, Return
<1>4. KeyNamesContent'
  <2>1. CASE UNCHANGED map
    BY <1>1, <2>1 DEF KeyNamesContent
  <2>2. CASE PutGraph(p)
    <3>1. /\ call[p].key \in Trees /\ call[p].mode \in Modes
          /\ call[p].tree = call[p].key
          /\ map' = [map EXCEPT ![call[p].key] = GraphOf(call[p].tree, call[p].mode)]
      BY <1>1, <2>2
         DEF PutGraph, Store, Transition, Knows, Settled, LocalTypeOK, Calls
    <3>2. TreeOf[GraphOf(call[p].tree, call[p].mode)] = call[p].key
      BY <3>1, GraphOfIsAGraph
    <3> QED
      BY <1>1, <3>1, <3>2 DEF KeyNamesContent, LocalTypeOK
  <2>3. CASE Prune(p)
    <3>1. \A t \in Trees : map'[t] \in {None, map[t]}
      BY <2>3 DEF Prune, Drop
    <3> QED
      BY <1>1, <3>1 DEF KeyNamesContent
  <2>4. CASE CreateTemp(p) \/ WriteTemp(p) \/ RenameTemp(p)
    BY <2>1, <2>4 DEF CreateTemp, WriteTemp, RenameTemp, storeVars
  <2> QED
    BY <2>1, <2>2, <2>3, <2>4, AsideStep DEF Continue, Return
<1> QED
  BY <1>2, <1>3, <1>4

LEMMA NextSettled == TInv /\ SettledInv /\ [Next]_vars => SettledInv'
<1> SUFFICES ASSUME TInv, SettledInv, [Next]_vars PROVE SettledInv'
  OBVIOUS
<1>1. CASE UNCHANGED vars
  BY <1>1 DEF vars, storeVars, SettledInv, Settled, KeyNamesContent
<1>2. ASSUME NEW p \in Procs, ProcStep(p) \/ Kill(p) PROVE SettledInv'
  BY <1>2, ProcessStep, SettledStep
<1>3. ASSUME NEW t \in Trees, MoveHead(t) PROVE SettledInv'
  <2>1. moves' # 0
    BY <1>3 DEF MoveHead, TInv, LocalTypeOK
  <2> QED
    BY <2>1 DEF SettledInv
<1> QED
  BY <1>1, <1>2, <1>3 DEF Next

-------------------------------------------------------------------------------
(* The types hold of every reachable state. *)
THEOREM SpecTypeOK == Spec => []LocalTypeOK
<1>1. TInv => LocalTypeOK
  BY DEF TInv
<1> QED
  BY <1>1, SpecTInv, PTL

LEMMA SpecPublish == Spec => [](TInv /\ PublishInv)
<1>1. Init => TInv /\ PublishInv
  BY InitTInv, InitPublish
<1>2. TInv /\ PublishInv /\ [Next]_vars => TInv' /\ PublishInv'
  BY StepTInv, NextPublish
<1> QED
  BY <1>1, <1>2, PTL DEF Spec

(* HEAD.json always parses, whatever kills and moves of HEAD there are,    *)
(* unless two index runs publish at the same time.                         *)
THEOREM SpecPointerWhole == Spec => []PointerWholeUnlessRaced
<1>1. PublishInv => PointerWholeUnlessRaced
  BY DEF PublishInv, PointerWholeUnlessRaced, PointerWhole
<1> QED
  BY <1>1, SpecPublish, PTL

(* A rename that moves the pointer moves it to a graph that is stored. *)
LEMMA RenameIsOfStored ==
  ASSUME TInv, PublishInv, NEW p \in Procs, RenameTemp(p), ~ raced
  PROVE  map[head'] # None
<1>1. pc[p] = "rename" /\ Publishing(p) /\ head' = temp
  BY DEF RenameTemp, Transition, Publishing
<1>2. PublisherKnows(p)
  BY DEF PublishInv
<1> QED
  BY <1>1, <1>2 DEF PublisherKnows

(* store_graph stores under a tree what was built from it, as long as HEAD *)
(* stays put; and write_pointer names a graph that is stored, as long as   *)
(* no two index runs publish at once.                                      *)
THEOREM SpecPublishedGraphIsStored == Spec => PublishedGraphIsStored
<1>1. Init => TInv /\ SettledInv
  BY InitTInv, InitSettled
<1>2. TInv /\ SettledInv /\ [Next]_vars => TInv' /\ SettledInv'
  BY StepTInv, NextSettled
<1>3. SettledInv => (moves = 0 => KeyNamesContent)
  BY DEF SettledInv
<1>4. Spec => [](moves = 0 => KeyNamesContent)
  BY <1>1, <1>2, <1>3, PTL DEF Spec
<1>5. TInv /\ PublishInv /\ [Next]_vars
        => [\A p \in Procs : RenameTemp(p) /\ ~ raced => map[head'] # None]_vars
  BY RenameIsOfStored
<1>6. Spec => [][\A p \in Procs : RenameTemp(p) /\ ~ raced => map[head'] # None]_vars
  BY <1>5, SpecPublish, PTL DEF Spec
<1> QED
  BY <1>4, <1>6 DEF PublishedGraphIsStored

-------------------------------------------------------------------------------
(* What a query that nothing has disturbed knows, place by place. *)
IsQuiet(p) == quiet[p] /\ call[p].kind = "query"

KeyIsKnown ==
  {"enumerate", "put", "prune", "create", "write", "rename", "graphFor", "read",
   "reading", "served", "envelope", "answered"}

KnowsHead(p) ==
  /\ pc[p] # "failed"
  /\ pc[p] = "ensure" => call[p].seen = gitHead /\ call[p].rebuild
  /\ pc[p] \in KeyIsKnown => call[p].key = gitHead
  /\ pc[p] = "put" => call[p].tree = gitHead
  /\ pc[p] \in {"prune", "create", "write", "rename", "read"} => map[gitHead] # None
  /\ pc[p] = "write" => open[p] = "temp" /\ temp = "empty"
  /\ pc[p] = "rename" => temp = gitHead
  /\ pc[p] \in {"load", "graphFor", "read", "reading", "served", "envelope", "answered"} =>
       head = gitHead
  /\ pc[p] \in {"load", "graphFor"} => call[p].rebuild \/ map[gitHead] # None
  /\ pc[p] = "reading" => ~ pend[p].excused
  /\ pc[p] \in {"served", "envelope", "answered"} => reply[p] \in Graphs
  /\ pc[p] \in {"envelope", "answered"} => call[p].seen = gitHead
  /\ pc[p] = "answered" => call[p].named = gitHead

QuietInv == \A p \in Procs : IsQuiet(p) => KnowsHead(p)

LEMMA InitQuiet == Init => QuietInv
  BY DEF Init, QuietInv, IsQuiet

(* A query begins with ensure_indexed's read of HEAD. *)
LEMMA QuietBegins ==
  ASSUME TInv, NEW p \in Procs, Begin(p), UNCHANGED gitHead, call'[p].kind = "query"
  PROVE  KnowsHead(p)'
<1> USE DEF TInv, LocalTypeOK
<1>1. CASE StartQuery(p)
  <2>1. /\ pc'[p] = "ensure" /\ call'[p].seen = gitHead /\ call'[p].rebuild
    BY <1>1 DEF StartQuery, Transition, Goto, Set, NoCall
  <2> QED
    BY <2>1 DEF KnowsHead, KeyIsKnown
<1>2. CASE \E m \in IndexModes : StartIndex(p, m)
  BY <1>2 DEF StartIndex, Set, NoCall
<1>3. CASE StartNoAuto(p)
  BY <1>3 DEF StartNoAuto, Set, NoCall
<1>4. CASE \E t \in Pinned : StartPinned(p, t)
  BY <1>4 DEF StartPinned, Set, NoCall
<1> QED
  BY <1>1, <1>2, <1>3, <1>4 DEF Begin

(* Each step of its call keeps what it knows. *)
LEMMA QuietGoesOn ==
  ASSUME TInv, NEW p \in Procs, Continue(p), UNCHANGED gitHead, pc'[p] # "idle",
         call[p].kind = "query", KnowsHead(p)
  PROVE  KnowsHead(p)'
<1> USE DEF Goto, Transition
<1>1. /\ call[p] \in Calls /\ gitHead \in Trees /\ Knows(p)
      /\ pc \in [Procs -> PCs] /\ call \in [Procs -> Calls]
      /\ map \in [Trees -> Graphs \cup {None}] /\ intact = Trees
      /\ pend \in [Procs -> {Idle} \cup Reads]
      /\ reply \in [Procs -> Graphs \cup {"none", "empty", "corrupt"}]
      /\ open \in [Procs -> {"none", "temp", "head", "gone"}]
  BY DEF TInv, LocalTypeOK, CallsKnow
<1>2. CASE Ensure(p)
  <2>1. /\ UNCHANGED <<map, head>> /\ call'[p].rebuild
        /\ pc'[p] = IF head \in Trees /\ head = gitHead THEN "load" ELSE "resolve"
    BY <1>1, <1>2
       DEF Ensure, KnowsHead, PointerIsCurrent, Set, AutoIndexCall, Calls, storeVars,
           pointerVars
  <2> QED
    BY <2>1 DEF KnowsHead, KeyIsKnown
<1>3. CASE ResolveKey(p)
  <2>1. pc'[p] = "enumerate" /\ call'[p].key = gitHead
    BY <1>1, <1>3 DEF ResolveKey, Set, Calls
  <2> QED
    BY <2>1 DEF KnowsHead, KeyIsKnown
<1>4. CASE EnumerateTree(p)
  <2>1. /\ pc[p] = "enumerate" /\ pc'[p] = "put" /\ call'[p].key = call[p].key
        /\ call'[p].tree = gitHead
    BY <1>1, <1>4 DEF EnumerateTree, Set, Calls
  <2> QED
    BY <2>1 DEF KnowsHead, KeyIsKnown
<1>5. CASE PutGraph(p)
  <2>1. /\ pc[p] = "put" /\ pc'[p] = "prune" /\ UNCHANGED call
        /\ call[p].key = gitHead /\ call[p].tree = gitHead /\ call[p].mode \in Modes
        /\ map' = [map EXCEPT ![gitHead] = GraphOf(call[p].tree, call[p].mode)]
    BY <1>1, <1>5, ZenonT(60) DEF PutGraph, Store, KnowsHead, KeyIsKnown, Calls
  <2>2. map'[gitHead] # None
    BY <1>1, <2>1, GraphOfIsAGraph
  <2> QED
    BY <2>1, <2>2 DEF KnowsHead, KeyIsKnown
<1>6. CASE Prune(p)
  <2>1. /\ pc[p] = "prune" /\ pc'[p] = "create" /\ UNCHANGED call
        /\ call[p].key = gitHead /\ map[gitHead] # None
        /\ map' = [k \in Trees |-> IF k \in Trees \ {gitHead} THEN None ELSE map[k]]
    BY <1>1, <1>6 DEF Prune, Drop, KnowsHead, KeyIsKnown
  <2>2. map'[gitHead] # None
    BY <1>1, <2>1
  <2> QED
    BY <2>1, <2>2 DEF KnowsHead, KeyIsKnown
<1>7. CASE CreateTemp(p)
  <2>1. /\ pc[p] = "create" /\ pc'[p] = "write" /\ UNCHANGED <<call, map>>
        /\ open'[p] = "temp" /\ temp' = "empty"
    BY <1>1, <1>7 DEF CreateTemp, storeVars
  <2> QED
    BY <2>1 DEF KnowsHead, KeyIsKnown
<1>8. CASE WriteTemp(p)
  <2>1. pc[p] = "write" /\ open[p] = "temp" /\ temp = "empty" /\ call[p].key = gitHead
    BY <1>8 DEF WriteTemp, KnowsHead, KeyIsKnown
  <2>2. temp' = gitHead /\ pc'[p] = "rename" /\ UNCHANGED <<call, map>>
    BY <1>1, <1>8, <2>1 DEF WriteTemp, Written, storeVars
  <2> QED
    BY <2>1, <2>2 DEF KnowsHead, KeyIsKnown
<1>9. CASE RenameTemp(p)
  <2>1. /\ pc[p] = "rename" /\ temp = gitHead /\ map[gitHead] # None
        /\ head' = gitHead /\ pc'[p] = "load" /\ UNCHANGED <<call, map>>
    BY <1>1, <1>9 DEF RenameTemp, AfterIndex, KnowsHead, storeVars
  <2> QED
    BY <2>1 DEF KnowsHead, KeyIsKnown
<1>10. CASE RenameFails(p)
  <2>1. temp = gitHead /\ temp = None
    BY <1>10 DEF RenameFails, KnowsHead
  <2> QED
    BY <1>1, <2>1
<1>11. CASE ReadPointer(p)
  <2>1. pc[p] = "load" /\ head = gitHead /\ (call[p].rebuild \/ map[gitHead] # None)
    BY <1>11 DEF ReadPointer, KnowsHead
  <2>2. /\ pc'[p] = "graphFor" /\ call'[p].key = gitHead
        /\ call'[p].rebuild = call[p].rebuild /\ UNCHANGED <<map, head>>
    BY <1>1, <1>11, <2>1 DEF ReadPointer, Set, Calls, storeVars, pointerVars
  <2> QED
    BY <2>1, <2>2 DEF KnowsHead, KeyIsKnown
<1>12. CASE GraphFor(p)
  <2>1. /\ pc[p] = "graphFor" /\ head = gitHead /\ call[p].key = gitHead
        /\ call[p].rebuild \/ map[gitHead] # None
        /\ UNCHANGED <<map, head>>
    BY <1>12 DEF GraphFor, KnowsHead, KeyIsKnown, storeVars, pointerVars
  <2>2. CASE map[gitHead] # None
    <3>1. pc'[p] = "read" /\ UNCHANGED call
      BY <1>1, <1>12, <2>1, <2>2 DEF GraphFor
    <3> QED
      BY <2>1, <2>2, <3>1 DEF KnowsHead, KeyIsKnown
  <2>3. CASE map[gitHead] = None
    <3>1. pc'[p] = "resolve"
      BY <1>1, <1>12, <2>1, <2>3 DEF GraphFor, Miss
    <3> QED
      BY <3>1 DEF KnowsHead, KeyIsKnown
  <2> QED
    BY <2>2, <2>3
<1>13. CASE BeginReadGraph(p)
  <2>1. /\ pc[p] = "read" /\ head = gitHead /\ call[p].key = gitHead
        /\ map[gitHead] # None /\ UNCHANGED <<head, call>>
    BY <1>13 DEF BeginReadGraph, KnowsHead, KeyIsKnown, pointerVars
  <2>2. BeginRead(p, gitHead) /\ pc'[p] = "reading"
    BY <1>1, <1>13, <2>1 DEF BeginReadGraph, ReadNothing
  <2>3. pend'[p] = Reading(gitHead, map[gitHead], gitHead \notin intact)
    BY <1>1, <2>2 DEF BeginRead
  <2>4. ~ pend'[p].excused
    <3>1. gitHead \in intact
      BY <1>1
    <3>2. pend'[p].excused = (gitHead \notin intact)
      BY <2>3 DEF Reading
    <3> QED
      BY <3>1, <3>2
  <2> QED
    BY <2>1, <2>2, <2>4 DEF KnowsHead, KeyIsKnown
<1>14. CASE EndReadGraph(p)
  <2>1. /\ pc[p] = "reading" /\ head = gitHead /\ call[p].key = gitHead
        /\ ~ pend[p].excused /\ UNCHANGED head /\ EndRead(p)
    BY <1>14 DEF EndReadGraph, KnowsHead, KeyIsKnown, pointerVars
  <2>2. pend[p] \in Reads
    BY <1>1, <2>1 DEF Knows
  <2>3. pend[p].val \in Graphs
    BY <2>2 DEF Reads
  <2>4. reply' = [reply EXCEPT ![p] = pend[p].val]
    BY <2>1, <2>3 DEF EndRead
  <2>5. reply'[p] \in Graphs /\ reply'[p] # "corrupt"
    BY <1>1, <2>3, <2>4
  <2>6. pc'[p] = "served" /\ UNCHANGED call
    BY <1>1, <1>14, <2>5 DEF EndReadGraph
  <2> QED
    BY <2>1, <2>5, <2>6 DEF KnowsHead, KeyIsKnown
<1>15. CASE EnvelopeHead(p)
  <2>1. /\ pc[p] = "served" /\ pc'[p] = "envelope" /\ UNCHANGED <<head, reply>>
        /\ call'[p].key = call[p].key /\ call'[p].seen = gitHead
    BY <1>1, <1>15 DEF EnvelopeHead, Set, Calls, storeVars, pointerVars
  <2> QED
    BY <2>1 DEF KnowsHead, KeyIsKnown
<1>16. CASE EnvelopeTree(p)
  <2>1. pc[p] = "envelope" /\ head = gitHead
    BY <1>16 DEF EnvelopeTree, KnowsHead
  <2>2. /\ pc'[p] = "answered" /\ UNCHANGED <<head, reply>>
        /\ call'[p].key = call[p].key /\ call'[p].seen = call[p].seen
        /\ call'[p].named = gitHead
    BY <1>1, <1>16, <2>1 DEF EnvelopeTree, Set, Calls, storeVars, pointerVars
  <2> QED
    BY <2>1, <2>2 DEF KnowsHead, KeyIsKnown
<1>17. CASE Return(p)
  BY <1>1, <1>17 DEF Return, Finish
<1> QED
  BY <1>2, <1>3, <1>4, <1>5, <1>6, <1>7, <1>8, <1>9, <1>10, <1>11, <1>12, <1>13,
     <1>14, <1>15, <1>16, <1>17 DEF Continue

(* The step of a call does not turn it into a query. *)
LEMMA KindStays ==
  ASSUME TInv, NEW p \in Procs, Continue(p), pc'[p] # "idle"
  PROVE  call'[p].kind = call[p].kind
<1> USE DEF Set, Calls, AutoIndexCall
<1>1. call[p] \in Calls /\ call \in [Procs -> Calls] /\ pc \in [Procs -> PCs]
  BY DEF TInv, LocalTypeOK
<1>2. ASSUME Miss(p) PROVE call'[p].kind = call[p].kind
  <2>1. CASE UNCHANGED call
    BY <2>1
  <2>2. CASE Set(p, AutoIndexCall([call[p] EXCEPT !.rebuild = FALSE]))
    <3>1. AutoIndexCall([call[p] EXCEPT !.rebuild = FALSE]).kind = call[p].kind
      BY <1>1
    <3> HIDE DEF AutoIndexCall
    <3> QED
      BY <1>1, <2>2, <3>1
  <2> QED
    BY <1>2, <2>1, <2>2 DEF Miss
<1>3. CASE Ensure(p) \/ ResolveKey(p) \/ EnumerateTree(p) \/ ReadPointer(p)
             \/ EnvelopeHead(p) \/ EnvelopeTree(p)
  BY <1>1, <1>3
     DEF Ensure, ResolveKey, EnumerateTree, ReadPointer, EnvelopeHead, EnvelopeTree
<1>4. CASE PutGraph(p) \/ Prune(p) \/ CreateTemp(p) \/ WriteTemp(p) \/ RenameTemp(p)
             \/ RenameFails(p) \/ BeginReadGraph(p)
  BY <1>4
     DEF PutGraph, Prune, CreateTemp, WriteTemp, RenameTemp, RenameFails, BeginReadGraph
<1>5. CASE GraphFor(p) \/ EndReadGraph(p)
  BY <1>2, <1>5 DEF GraphFor, EndReadGraph
<1>6. CASE Return(p)
  BY <1>1, <1>6 DEF Return, Finish, Goto
<1> QED
  BY <1>3, <1>4, <1>5, <1>6 DEF Continue

LEMMA NextQuiet == TInv /\ QuietInv /\ [Next]_vars => QuietInv'
<1> SUFFICES ASSUME TInv, QuietInv, [Next]_vars PROVE QuietInv'
  OBVIOUS
<1>1. CASE UNCHANGED vars
  BY <1>1 DEF vars, storeVars, pointerVars, QuietInv, IsQuiet, KnowsHead
<1>2. ASSUME NEW p \in Procs, ProcStep(p) \/ Kill(p) PROVE QuietInv'
  <2>1. /\ Begin(p) \/ Continue(p) \/ Finish(p)
        /\ UNCHANGED gitHead /\ pc \in [Procs -> PCs]
        /\ quiet' = [q \in Procs |->
                       q = p /\ pc'[p] # "idle" /\ (pc[p] = "idle" \/ quiet[p])]
    BY <1>2, ProcessStep DEF Acts, TInv, LocalTypeOK
  <2>2. SUFFICES ASSUME IsQuiet(p)' PROVE KnowsHead(p)'
    BY <2>1 DEF QuietInv, IsQuiet
  <2>3. pc'[p] # "idle" /\ (pc[p] = "idle" \/ quiet[p]) /\ call'[p].kind = "query"
    BY <2>1, <2>2 DEF IsQuiet
  <2>4. CASE Begin(p)
    BY <2>1, <2>3, <2>4, QuietBegins
  <2>5. CASE Continue(p)
    <3>1. pc[p] # "idle"
      BY <2>5
         DEF Continue, Ensure, ResolveKey, EnumerateTree, PutGraph, Prune, CreateTemp,
             WriteTemp, RenameTemp, RenameFails, ReadPointer, GraphFor, BeginReadGraph,
             EndReadGraph, EnvelopeHead, EnvelopeTree, Return, Transition, TInv,
             CallsKnow, Knows, EndRead, BeginRead, ReadNothing
    <3>2. call[p].kind = "query"
      BY <2>3, <2>5, KindStays
    <3> QED
      BY <2>1, <2>3, <2>5, <3>1, <3>2, QuietGoesOn DEF QuietInv, IsQuiet
  <2>6. CASE Finish(p)
    BY <2>1, <2>3, <2>6 DEF Finish, Goto
  <2> QED
    BY <2>1, <2>4, <2>5, <2>6
<1>3. ASSUME NEW t \in Trees, MoveHead(t) PROVE QuietInv'
  BY <1>3 DEF MoveHead, QuietInv, IsQuiet
<1> QED
  BY <1>1, <1>2, <1>3 DEF Next

(* A query whose call nothing disturbs is answered from HEAD's graph, and  *)
(* its freshness envelope names HEAD's tree: after any races, kills and    *)
(* moves of HEAD, whatever ensure_indexed finds.                           *)
THEOREM SpecUndisturbedQuery == Spec => []UndisturbedQueryServesHead
<1>1. Init => TInv /\ QuietInv
  BY InitTInv, InitQuiet
<1>2. TInv /\ QuietInv /\ [Next]_vars => TInv' /\ QuietInv'
  BY StepTInv, NextQuiet
<1>3. QuietInv => UndisturbedQueryServesHead
  BY DEF QuietInv, IsQuiet, KnowsHead, KeyIsKnown, UndisturbedQueryServesHead
<1> QED
  BY <1>1, <1>2, <1>3, PTL DEF Spec
===============================================================================
