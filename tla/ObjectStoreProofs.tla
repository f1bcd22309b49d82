-------------------------- MODULE ObjectStoreProofs --------------------------
(***************************************************************************)
(* Proofs about ObjectStore, for any processes, keys, graphs, shards and   *)
(* bounds.  RefClosure is not inductive alone.  It needs: who holds the    *)
(* lock (LockInv), what a writer has already put in place (PutInv), and    *)
(* that a sweep's victims are no object an intact ref names (PruneInv).    *)
(* What the store promises of power losses (FlushInv), of a prune that     *)
(* returns (SweepInv), and the refinement of GraphMap rest on that.        *)
(***************************************************************************)
EXTENDS ObjectStore, TLAPS

WritePCs == {"write", "rename"}
RefPCs == {"refTemp", "refRename", "refSync"}
LockedPCs == WritePCs \cup RefPCs \cup {"sweep", "dropRefs", "sweepObjects"}

LockInv == \A p \in Procs : pc[p] \in LockedPCs => lock = p

(* A writer has in place every object of its closure that it has left off  *)
(* its list, and, while it writes one, that object's temp file.            *)
PutInv ==
  \A p \in Procs :
    /\ pc[p] \in WritePCs \cup RefPCs \cup {"wantPut"} =>
         key[p] \in Keys /\ graph[p] \in Current
    /\ pc[p] = "wantPut" => todo[p] = Closure(key[p], graph[p])
    /\ pc[p] \in WritePCs =>
         \A o \in Closure(key[p], graph[p]) \ todo[p] : disk[o] = "good"
    /\ pc[p] = "rename" => cur[p] \in todo[p] \cap tmp
    /\ pc[p] \in RefPCs => ClosureGood(key[p], graph[p])
    /\ pc[p] = "refRename" => key[p] \in tmp

(* A sweep's victims are in no closure that an intact ref names. *)
PruneInv ==
  \A p \in Procs : pc[p] = "sweepObjects" =>
    \A k \in intact : ref[k] \in Current \cup Newer =>
      Closure(k, ref[k]) \cap todo[p] = {}

(* A reader has taken each shard off its list whole, and unless its key    *)
(* changed, or was damaged, since it began, the ref still names its graph. *)
ReadPCs == {"readManifest", "readShards"}

ReadInv ==
  \A p \in Procs :
    /\ pc[p] \in ReadPCs =>
         /\ key[p] \in Keys /\ graph[p] \in Graphs
         /\ ~ excused[p] => key[p] \in intact /\ ref[key[p]] = graph[p]
    /\ pc[p] = "readManifest" => got[p] = {}
    /\ pc[p] = "readShards" =>
         /\ graph[p] \in Current
         /\ todo[p] \subseteq ShardsOf[graph[p]]
         /\ got[p] = (ShardsOf[graph[p]] \ todo[p]) \X {"good"}

IInv == TypeOK /\ LockInv /\ PutInv /\ PruneInv /\ ReadInv /\ RefClosure

USE ShardsOfAssumption, DirOfAssumption, FormatAssumption, NoneAssumption,
    NamesAssumption, PrunersAssumption, BoundsAssumption

-------------------------------------------------------------------------------
(* The objects of a graph's closure are objects. *)
LEMMA ClosureIsObjects ==
  ASSUME NEW k \in Keys, NEW g \in Graphs
  PROVE  Closure(k, g) \subseteq Objects
  BY DEF Closure, Objects, Manifests

(* Init has every type, and every ref it starts with is whole. *)
LEMMA InitIInv == Init => IInv
<1> SUFFICES ASSUME Init PROVE IInv
  OBVIOUS
<1>1. TypeOK
  BY SMTT(30) DEF Init, TypeOK, States, PCs, Replies
<1>2. LockInv /\ PutInv /\ PruneInv /\ ReadInv
  BY DEF Init, LockInv, PutInv, PruneInv, ReadInv, LockedPCs, WritePCs, RefPCs, ReadPCs
<1>3. RefClosure
  <2> SUFFICES ASSUME NEW k \in Keys, ref[k] \in Current \cup Newer
               PROVE  ClosureGood(k, ref[k])
    BY DEF RefClosure, Init
  <2>1. ref[k] \in Graphs
    BY DEF Current, Newer
  <2>2. Closure(k, ref[k]) \subseteq Objects
    BY <2>1, ClosureIsObjects
  <2> QED
    BY <2>1, <2>2 DEF Init, ClosureGood
<1> QED
  BY <1>1, <1>2, <1>3 DEF IInv
-------------------------------------------------------------------------------
(* Every step of a put keeps the types. *)
LEMMA PutTypeOK ==
  ASSUME TypeOK, PutInv, NEW p \in Procs, PutStep(p)
  PROVE  TypeOK'
<1> USE DEF TypeOK, States, PCs, Replies
<1>1. ASSUME NEW k \in Keys, NEW g \in Graphs, BeginPut(p, k, g)
     PROVE  TypeOK'
  BY <1>1, ClosureIsObjects, SMTT(30) DEF BeginPut, fileVars, callVars, histVars, boundVars, Transition, Current
<1>2. ASSUME LockPut(p)
     PROVE  TypeOK'
  BY <1>2, SMTT(30) DEF LockPut, fileVars, callVars, histVars, boundVars, Transition, AcquireLock
<1>3. ASSUME NEW o \in Objects, KeepObject(p, o)
     PROVE  TypeOK'
  BY <1>3, SMTT(30) DEF KeepObject, fileVars, callVars, histVars, boundVars, Transition
<1>4. ASSUME NEW o \in Objects, WriteTemp(p, o)
     PROVE  TypeOK'
  BY <1>4, SMTT(30) DEF WriteTemp, fileVars, callVars, histVars, boundVars, Transition
<1>5. ASSUME RenameTemp(p)
     PROVE  TypeOK'
  BY <1>5, SMTT(30) DEF RenameTemp, fileVars, callVars, histVars, boundVars, Transition
<1>6. ASSUME CommitBatch(p)
     PROVE  TypeOK'
  BY <1>6, SMTT(30) DEF CommitBatch, fileVars, callVars, histVars, boundVars, Transition, Synced
<1>7. ASSUME WriteRefTemp(p)
     PROVE  TypeOK'
  BY <1>7, SMTT(30) DEF WriteRefTemp, PutInv, RefPCs, Current, fileVars, callVars, histVars, boundVars, Transition
<1>8. ASSUME PublishRef(p)
     PROVE  TypeOK'
  BY <1>8, SMTT(30) DEF PublishRef, PutInv, RefPCs, Current, fileVars, callVars, histVars, boundVars, Transition, ExcuseReaders, IsReading
<1>9. ASSUME SyncRefs(p)
     PROVE  TypeOK'
  BY <1>9, SMTT(30) DEF SyncRefs, fileVars, callVars, histVars, boundVars, Transition, Return, Forget
<1> QED
  BY <1>1, <1>2, <1>3, <1>4, <1>5, <1>6, <1>7, <1>8, <1>9 DEF PutStep

(* Every step of a prune keeps the types. *)
LEMMA PruneTypeOK ==
  ASSUME TypeOK, NEW p \in Procs, PruneStep(p)
  PROVE  TypeOK'
<1> USE DEF TypeOK, States, PCs, Replies
<1>1. ASSUME NEW ks \in KeepSets, BeginPrune(p, ks)
     PROVE  TypeOK'
  BY <1>1, SMTT(30) DEF BeginPrune, fileVars, callVars, histVars, boundVars, Transition
<1>2. ASSUME LockPrune(p)
     PROVE  TypeOK'
  BY <1>2, SMTT(30) DEF LockPrune, fileVars, callVars, histVars, boundVars, Transition, AcquireLock
<1>3. ASSUME SweepTemps(p)
     PROVE  TypeOK'
  BY <1>3, SMTT(30) DEF SweepTemps, fileVars, callVars, histVars, boundVars, Transition
<1>4. ASSUME NEW k \in Keys, DropRef(p, k)
     PROVE  TypeOK'
  BY <1>4, SMTT(30) DEF DropRef, fileVars, callVars, histVars, boundVars, Transition, ExcuseReaders, IsReading
<1>5. ASSUME MarkLive(p)
     PROVE  TypeOK'
  BY <1>5, SMTT(30) DEF MarkLive, MarkAs, fileVars, callVars, histVars, boundVars, Transition, Present
<1>6. ASSUME NEW o \in Objects, DeleteObject(p, o)
     PROVE  TypeOK'
  BY <1>6, SMTT(30) DEF DeleteObject, fileVars, callVars, histVars, boundVars, Transition
<1>7. ASSUME EndPrune(p)
     PROVE  TypeOK'
  BY <1>7, SMTT(30) DEF EndPrune, fileVars, callVars, histVars, boundVars, Transition, Return, Forget
<1> QED
  BY <1>1, <1>2, <1>3, <1>4, <1>5, <1>6, <1>7 DEF PruneStep

(* Every step of a read keeps the types. *)
LEMMA ReadTypeOK ==
  ASSUME TypeOK, ReadInv, NEW p \in Procs, ReadStep(p)
  PROVE  TypeOK'
<1> USE DEF TypeOK, States, PCs, Replies
<1>1. ASSUME NEW k \in Keys, ReadNoRef(p, k)
     PROVE  TypeOK'
  BY <1>1, SMTT(30) DEF ReadNoRef, fileVars, callVars, histVars, boundVars, Transition, Return, Forget
<1>2. ASSUME NEW k \in Keys, ReadRef(p, k)
     PROVE  TypeOK'
  BY <1>2, SMTT(30) DEF ReadRef, fileVars, callVars, histVars, boundVars, Transition
<1>3. ASSUME ReadManifest(p)
     PROVE  TypeOK'
  BY <1>3, SMTT(30) DEF ReadManifest, fileVars, callVars, histVars, boundVars, Transition, Current, Objects
<1>4. ASSUME RejectManifest(p)
     PROVE  TypeOK'
  <2>1. ASSUME Return(p, "readManifest", "format") PROVE reply' \in [Procs -> Graphs \cup Replies]
    BY <2>1 DEF Return
  <2>2. ASSUME Return(p, "readManifest", "corrupt") PROVE reply' \in [Procs -> Graphs \cup Replies]
    BY <2>2 DEF Return
  <2>3. reply' \in [Procs -> Graphs \cup Replies]
    BY <1>4, <2>1, <2>2 DEF RejectManifest
  <2>4. Forget(p)
    BY <1>4 DEF RejectManifest, Return
  <2> QED
    BY <1>4, <2>3, <2>4 DEF RejectManifest, fileVars, boundVars, Forget
<1>5. ASSUME NEW s \in Shards, ReadShard(p, s)
     PROVE  TypeOK'
  BY <1>5, SMTT(30) DEF ReadShard, fileVars, callVars, histVars, boundVars, Transition, Objects
<1>6. ASSUME NEW s \in Shards, RejectShard(p, s)
     PROVE  TypeOK'
  BY <1>6, SMTT(30) DEF RejectShard, fileVars, callVars, histVars, boundVars, Transition, Return, Forget
<1>7. ASSUME EndRead(p)
     PROVE  TypeOK'
  BY <1>7, SMTT(30) DEF EndRead, fileVars, boundVars, Return, Forget, Rebuilt,
                      ReadInv, ReadPCs
<1> QED
  BY <1>1, <1>2, <1>3, <1>4, <1>5, <1>6, <1>7 DEF ReadStep

(* A lock timeout, a kill and a power loss keep the types. *)
LEMMA FailureTypeOK ==
  ASSUME TypeOK, (\E p \in Procs : LockTimeout(p) \/ Kill(p)) \/ PowerLoss
  PROVE  TypeOK'
<1> USE DEF TypeOK, States, PCs, Replies
<1>1. ASSUME NEW p \in Procs, LockTimeout(p) PROVE TypeOK'
  BY <1>1, SMTT(30) DEF LockTimeout, fileVars, boundVars, Return, Forget
<1>2. ASSUME NEW p \in Procs, Kill(p) PROVE TypeOK'
  BY <1>2, SMTT(30) DEF Kill, fileVars, Forget
<1>3. ASSUME PowerLoss PROVE TypeOK'
  BY <1>3, SMTT(30) DEF PowerLoss, Unsettled
<1> QED
  BY <1>1, <1>2, <1>3

-------------------------------------------------------------------------------
(* Only the holder of the lock is between acquiring it and releasing it. *)
LEMMA LockInvStep ==
  ASSUME TypeOK, LockInv, Next
  PROVE  LockInv'
<1> USE DEF TypeOK, LockInv, LockedPCs, WritePCs, RefPCs, PCs, Transition
<1>1. ASSUME NEW p \in Procs, PutStep(p) PROVE LockInv'
  BY <1>1, SMTT(30) DEF PutStep, BeginPut, LockPut, AcquireLock, KeepObject, WriteTemp,
     RenameTemp, CommitBatch, WriteRefTemp, PublishRef, SyncRefs, Return, Forget
<1>2. ASSUME NEW p \in Procs, PruneStep(p) PROVE LockInv'
  BY <1>2, SMTT(30) DEF PruneStep, BeginPrune, LockPrune, AcquireLock, SweepTemps, DropRef,
     MarkLive, MarkAs, DeleteObject, EndPrune, Return, Forget
<1>3. ASSUME NEW p \in Procs, ReadStep(p) PROVE LockInv'
  BY <1>3, SMTT(30) DEF ReadStep, ReadNoRef, ReadRef, ReadManifest, RejectManifest,
     ReadShard, RejectShard, EndRead, Return, Forget
<1>4. ASSUME NEW p \in Procs, LockTimeout(p) PROVE LockInv'
  BY <1>4, SMTT(30) DEF LockTimeout, Return, Forget
<1>5. ASSUME NEW p \in Procs, Kill(p) PROVE LockInv'
  BY <1>5, SMTT(30) DEF Kill, Forget
<1>6. ASSUME PowerLoss PROVE LockInv'
  BY <1>6, SMTT(30) DEF PowerLoss
<1> QED
  BY <1>1, <1>2, <1>3, <1>4, <1>5, <1>6 DEF Next

(* A writer keeps what it has put in place. *)
LEMMA PutInvStep ==
  ASSUME TypeOK, LockInv, PutInv, Next
  PROVE  PutInv'
<1> USE DEF PutInv, ClosureGood, TypeOK, PCs, LockInv, LockedPCs, WritePCs, RefPCs, Transition, fileVars, callVars,
       histVars, boundVars
<1>1. ASSUME NEW p \in Procs, PutStep(p) PROVE PutInv'
  <2>1. ASSUME NEW k \in Keys, NEW g \in Graphs, BeginPut(p, k, g) PROVE PutInv'
    BY <2>1, SMTT(30) DEF BeginPut
  <2>2. ASSUME LockPut(p) PROVE PutInv'
    BY <2>2, SMTT(30) DEF LockPut, AcquireLock
  <2>3. ASSUME NEW o \in Objects, KeepObject(p, o) PROVE PutInv'
    BY <2>3, SMTT(30) DEF KeepObject, NextToWrite
  <2>4. ASSUME NEW o \in Objects, WriteTemp(p, o) PROVE PutInv'
    BY <2>4, SMTT(30) DEF WriteTemp, NextToWrite
  <2>5. ASSUME RenameTemp(p) PROVE PutInv'
    BY <2>5, SMTT(30) DEF RenameTemp
  <2>6. ASSUME CommitBatch(p) PROVE PutInv'
    BY <2>6, SMTT(30) DEF CommitBatch
  <2>7. ASSUME WriteRefTemp(p) PROVE PutInv'
    BY <2>7, SMTT(30) DEF WriteRefTemp
  <2>8. ASSUME PublishRef(p) PROVE PutInv'
    BY <2>8, SMTT(30) DEF PublishRef, ExcuseReaders, IsReading
  <2>9. ASSUME SyncRefs(p) PROVE PutInv'
    BY <2>9, SMTT(30) DEF SyncRefs, Return, Forget
  <2> QED
    BY <1>1, <2>1, <2>2, <2>3, <2>4, <2>5, <2>6, <2>7, <2>8, <2>9 DEF PutStep
<1>2. ASSUME NEW p \in Procs, PruneStep(p) PROVE PutInv'
  BY <1>2, SMTT(60) DEF PruneStep, BeginPrune, LockPrune, AcquireLock, SweepTemps, DropRef,
     MarkLive, MarkAs, DeleteObject, EndPrune, Return, Forget, ExcuseReaders, IsReading
<1>3. ASSUME NEW p \in Procs, ReadStep(p) PROVE PutInv'
  BY <1>3, SMTT(60) DEF ReadStep, ReadNoRef, ReadRef, ReadManifest, RejectManifest,
     ReadShard, RejectShard, EndRead, Return, Forget
<1>4. ASSUME NEW p \in Procs, LockTimeout(p) \/ Kill(p) PROVE PutInv'
  BY <1>4, SMTT(60) DEF LockTimeout, Return, Kill, Forget
<1>5. ASSUME PowerLoss PROVE PutInv'
  BY <1>5, SMTT(60) DEF PowerLoss
<1> QED
  BY <1>1, <1>2, <1>3, <1>4, <1>5 DEF Next

(* A sweep keeps clear of the closures that refs name. *)
LEMMA PruneInvStep ==
  ASSUME IInv, Next
  PROVE  PruneInv'
<1> USE DEF IInv, PruneInv, TypeOK, PCs, LockInv, LockedPCs, WritePCs, RefPCs, Transition, fileVars, callVars,
       histVars, boundVars
<1>1. ASSUME NEW p \in Procs, PutStep(p) PROVE PruneInv'
  BY <1>1, SMTT(60) DEF PutStep, BeginPut, LockPut, AcquireLock, KeepObject, WriteTemp,
     RenameTemp, CommitBatch, WriteRefTemp, PublishRef, SyncRefs, Return, Forget,
     NextToWrite, ExcuseReaders, IsReading
<1>2. ASSUME NEW p \in Procs, PruneStep(p) PROVE PruneInv'
  <2>1. ASSUME NEW ks \in KeepSets, BeginPrune(p, ks) PROVE PruneInv'
    BY <2>1, SMTT(30) DEF BeginPrune
  <2>2. ASSUME LockPrune(p) PROVE PruneInv'
    BY <2>2, SMTT(30) DEF LockPrune, AcquireLock
  <2>3. ASSUME SweepTemps(p) PROVE PruneInv'
    BY <2>3, SMTT(30) DEF SweepTemps
  <2>4. ASSUME NEW k \in Keys, DropRef(p, k) PROVE PruneInv'
    BY <2>4, SMTT(30) DEF DropRef, ExcuseReaders, IsReading
  <2>5. ASSUME MarkLive(p) PROVE PruneInv'
    <3> SUFFICES ASSUME NEW k \in Keys, k \in intact, ref[k] \in Current \cup Newer
                 PROVE  Closure(k, ref[k]) \cap todo'[p] = {}
      <4>1. UNCHANGED <<ref, intact>> /\ \A q \in Procs \ {p} : todo'[q] = todo[q] /\ pc'[q] = pc[q]
        BY <2>5 DEF MarkLive, MarkAs
      <4> QED
        BY <4>1
    <3> DEFINE m == <<k, ref[k]>>
    <3>1. ref[k] \in Graphs
      BY DEF Current, Newer
    <3>2. m \in Manifests /\ m \in Objects
      BY <3>1 DEF Manifests, Objects
    <3>3. \A o \in Closure(k, ref[k]) : disk[o] = "good"
      BY DEF RefClosure, ClosureGood
    <3>4. m \in Readable
      BY <3>2, <3>3 DEF Readable, Closure
    <3>5. CASE ref[k] \in Newer
      BY <2>5, <3>4, <3>5 DEF MarkLive, MarkAs
    <3>6. CASE ref[k] \in Current
      <4>1. Closure(k, ref[k]) \subseteq Live
        BY <3>2, <3>4, <3>6, SMTT(30) DEF Closure, Live, Readable
      <4> QED
        BY <2>5, <4>1 DEF MarkLive, MarkAs
    <3> QED
      BY <3>5, <3>6
  <2>6. ASSUME NEW o \in Objects, DeleteObject(p, o) PROVE PruneInv'
    BY <2>6, SMTT(30) DEF DeleteObject
  <2>7. ASSUME EndPrune(p) PROVE PruneInv'
    BY <2>7, SMTT(30) DEF EndPrune, Return, Forget
  <2> QED
    BY <1>2, <2>1, <2>2, <2>3, <2>4, <2>5, <2>6, <2>7 DEF PruneStep
<1>3. ASSUME NEW p \in Procs, ReadStep(p) PROVE PruneInv'
  BY <1>3, SMTT(60) DEF ReadStep, ReadNoRef, ReadRef, ReadManifest, RejectManifest,
     ReadShard, RejectShard, EndRead, Return, Forget
<1>4. ASSUME NEW p \in Procs, LockTimeout(p) \/ Kill(p) PROVE PruneInv'
  BY <1>4, SMTT(60) DEF LockTimeout, Return, Kill, Forget
<1>5. ASSUME PowerLoss PROVE PruneInv'
  BY <1>5, SMTT(60) DEF PowerLoss
<1> QED
  BY <1>1, <1>2, <1>3, <1>4, <1>5 DEF Next

(* A reader keeps what it has taken. *)
LEMMA ReadInvStep ==
  ASSUME IInv, Next
  PROVE  ReadInv'
<1> USE DEF IInv, ReadInv, ReadPCs, TypeOK, PCs, LockInv, LockedPCs, WritePCs, RefPCs, Transition, fileVars, callVars,
       histVars, boundVars
<1>1. ASSUME NEW p \in Procs, PutStep(p) PROVE ReadInv'
  <2>1. ASSUME NEW k \in Keys, NEW g \in Graphs, BeginPut(p, k, g) PROVE ReadInv'
    BY <2>1, SMTT(30) DEF BeginPut
  <2>2. ASSUME LockPut(p) PROVE ReadInv'
    BY <2>2, SMTT(30) DEF LockPut, AcquireLock
  <2>3. ASSUME NEW o \in Objects, KeepObject(p, o) PROVE ReadInv'
    BY <2>3, SMTT(30) DEF KeepObject, NextToWrite
  <2>4. ASSUME NEW o \in Objects, WriteTemp(p, o) PROVE ReadInv'
    BY <2>4, SMTT(30) DEF WriteTemp, NextToWrite
  <2>5. ASSUME RenameTemp(p) PROVE ReadInv'
    BY <2>5, SMTT(30) DEF RenameTemp
  <2>6. ASSUME CommitBatch(p) PROVE ReadInv'
    BY <2>6, SMTT(30) DEF CommitBatch
  <2>7. ASSUME WriteRefTemp(p) PROVE ReadInv'
    BY <2>7, SMTT(30) DEF WriteRefTemp
  <2>8. ASSUME PublishRef(p) PROVE ReadInv'
    <3> DEFINE k == key[p]
    <3>1. \A q \in Procs : excused'[q] = (excused[q] \/ IsReading(q, k))
      BY <2>8 DEF PublishRef, ExcuseReaders
    <3>2. /\ ref' = [ref EXCEPT ![k] = graph[p]] /\ intact' = intact \cup {k}
          /\ UNCHANGED callVars
      BY <2>8 DEF PublishRef
    <3>3. \A q \in Procs : pc'[q] \in ReadPCs => q # p /\ pc'[q] = pc[q]
      BY <2>8 DEF PublishRef
    <3> HIDE DEF k
    <3>4. ASSUME NEW q \in Procs, pc'[q] \in ReadPCs, ~ excused'[q]
          PROVE  key'[q] \in intact' /\ ref'[key'[q]] = graph'[q]
      <4>1. pc[q] \in ReadPCs /\ key'[q] = key[q] /\ graph'[q] = graph[q]
        BY <3>2, <3>3, <3>4
      <4>2. ~ excused[q] /\ ~ IsReading(q, k)
        BY <3>1, <3>4
      <4>3. key[q] \in Keys /\ key[q] # k
        BY <4>1, <4>2 DEF IsReading
      <4>4. key[q] \in intact /\ ref[key[q]] = graph[q]
        BY <4>1, <4>2
      <4> QED
        BY <4>1, <4>3, <4>4, <3>2
    <3> QED
      BY <3>2, <3>3, <3>4
  <2>9. ASSUME SyncRefs(p) PROVE ReadInv'
    BY <2>9, SMTT(30) DEF SyncRefs, Return, Forget
  <2> QED
    BY <1>1, <2>1, <2>2, <2>3, <2>4, <2>5, <2>6, <2>7, <2>8, <2>9 DEF PutStep
<1>2. ASSUME NEW p \in Procs, PruneStep(p) PROVE ReadInv'
  <2>1. ASSUME NEW ks \in KeepSets, BeginPrune(p, ks) PROVE ReadInv'
    BY <2>1, SMTT(30) DEF BeginPrune
  <2>2. ASSUME LockPrune(p) PROVE ReadInv'
    BY <2>2, SMTT(30) DEF LockPrune, AcquireLock
  <2>3. ASSUME SweepTemps(p) PROVE ReadInv'
    BY <2>3, SMTT(30) DEF SweepTemps
  <2>4. ASSUME NEW k \in Keys, DropRef(p, k) PROVE ReadInv'
    <3>1. \A q \in Procs : excused'[q] = (excused[q] \/ IsReading(q, k))
      BY <2>4 DEF DropRef, ExcuseReaders
    <3>2. /\ ref' = [ref EXCEPT ![k] = None] /\ intact' = intact
          /\ UNCHANGED <<pc, callVars>>
      BY <2>4 DEF DropRef
    <3>3. \A q \in Procs : pc'[q] \in ReadPCs => pc'[q] = pc[q]
      BY <3>2
    <3>4. ASSUME NEW q \in Procs, pc'[q] \in ReadPCs, ~ excused'[q]
          PROVE  key'[q] \in intact' /\ ref'[key'[q]] = graph'[q]
      <4>1. pc[q] \in ReadPCs /\ key'[q] = key[q] /\ graph'[q] = graph[q]
        BY <3>2, <3>3, <3>4
      <4>2. ~ excused[q] /\ ~ IsReading(q, k)
        BY <3>1, <3>4
      <4>3. key[q] \in Keys /\ key[q] # k
        BY <4>1, <4>2 DEF IsReading
      <4>4. key[q] \in intact /\ ref[key[q]] = graph[q]
        BY <4>1, <4>2
      <4> QED
        BY <4>1, <4>3, <4>4, <3>2
    <3> QED
      BY <3>2, <3>3, <3>4
  <2>5. ASSUME MarkLive(p) PROVE ReadInv'
    BY <2>5, SMTT(30) DEF MarkLive, MarkAs
  <2>6. ASSUME NEW o \in Objects, DeleteObject(p, o) PROVE ReadInv'
    BY <2>6, SMTT(30) DEF DeleteObject
  <2>7. ASSUME EndPrune(p) PROVE ReadInv'
    BY <2>7, SMTT(30) DEF EndPrune, Return, Forget
  <2> QED
    BY <1>2, <2>1, <2>2, <2>3, <2>4, <2>5, <2>6, <2>7 DEF PruneStep
<1>3. ASSUME NEW p \in Procs, ReadStep(p) PROVE ReadInv'
  <2>1. ASSUME NEW k \in Keys, ReadNoRef(p, k) PROVE ReadInv'
    BY <2>1, SMTT(30) DEF ReadNoRef, Return, Forget
  <2>2. ASSUME NEW k \in Keys, ReadRef(p, k) PROVE ReadInv'
    <3>1. ref[k] \in Graphs
      BY <2>2 DEF ReadRef
    <3>2. excused'[p] = (k \notin intact) /\ \A q \in Procs \ {p} : excused'[q] = excused[q]
      BY <2>2 DEF ReadRef
    <3>3. /\ pc'[p] = "readManifest" /\ key'[p] = k
          /\ graph'[p] = ref[k] /\ got'[p] = {}
      BY <2>2 DEF ReadRef
    <3>4. \A q \in Procs \ {p} : /\ pc'[q] = pc[q] /\ key'[q] = key[q]
                                 /\ graph'[q] = graph[q] /\ got'[q] = got[q]
      BY <2>2 DEF ReadRef
    <3>5. todo' = todo /\ intact' = intact /\ ref' = ref
      BY <2>2 DEF ReadRef
    <3>6. ASSUME NEW q \in Procs, pc'[q] \in ReadPCs, ~ excused'[q]
          PROVE  key'[q] \in intact' /\ ref'[key'[q]] = graph'[q]
      <4>1. CASE q = p
        BY <4>1, <3>2, <3>3, <3>5, <3>6
      <4>2. CASE q # p
        BY <4>2, <3>2, <3>4, <3>5, <3>6
      <4> QED
        BY <4>1, <4>2
    <3> QED
      BY <3>1, <3>3, <3>4, <3>5, <3>6
  <2>3. ASSUME ReadManifest(p) PROVE ReadInv'
    BY <2>3, SMTT(30) DEF ReadManifest
  <2>4. ASSUME RejectManifest(p) PROVE ReadInv'
    BY <2>4, SMTT(30) DEF RejectManifest, Return, Forget
  <2>5. ASSUME NEW s \in Shards, ReadShard(p, s) PROVE ReadInv'
    <3>1. s \in ShardsOf[graph[p]]
      BY <2>5 DEF ReadShard
    <3>2. got'[p] = got[p] \cup {<<s, "good">>} /\ todo'[p] = todo[p] \ {s}
      BY <2>5 DEF ReadShard, Verifies
    <3>3. got'[p] = (ShardsOf[graph[p]] \ todo'[p]) \X {"good"}
      <4>1. got[p] = (ShardsOf[graph[p]] \ todo[p]) \X {"good"}
        BY <2>5 DEF ReadShard
      <4> DEFINE G == graph[p]
      <4>2. ShardsOf[G] \ (todo[p] \ {s}) = (ShardsOf[G] \ todo[p]) \cup {s}
        BY <3>1
      <4> QED
        BY <4>1, <4>2, <3>2, SMT
    <3>4. \A q \in Procs \ {p} : got'[q] = got[q] /\ todo'[q] = todo[q]
      BY <2>5 DEF ReadShard
    <3>5. \A q \in Procs : /\ pc'[q] = pc[q] /\ key'[q] = key[q]
                           /\ graph'[q] = graph[q] /\ excused'[q] = excused[q]
      BY <2>5 DEF ReadShard
    <3>6. intact' = intact /\ ref' = ref /\ pc[p] = "readShards"
      BY <2>5 DEF ReadShard
    <3> QED
      BY <3>2, <3>3, <3>4, <3>5, <3>6, SMTT(30)
  <2>6. ASSUME NEW s \in Shards, RejectShard(p, s) PROVE ReadInv'
    BY <2>6, SMTT(30) DEF RejectShard, Return, Forget
  <2>7. ASSUME EndRead(p) PROVE ReadInv'
    BY <2>7, SMTT(30) DEF EndRead, Return, Forget
  <2> QED
    BY <1>3, <2>1, <2>2, <2>3, <2>4, <2>5, <2>6, <2>7 DEF ReadStep
<1>4. ASSUME NEW p \in Procs, LockTimeout(p) \/ Kill(p) PROVE ReadInv'
  BY <1>4, SMTT(60) DEF LockTimeout, Return, Kill, Forget
<1>5. ASSUME PowerLoss PROVE ReadInv'
  BY <1>5, SMTT(60) DEF PowerLoss
<1> QED
  BY <1>1, <1>2, <1>3, <1>4, <1>5 DEF Next

(* No step breaks the closure of an intact ref. *)
LEMMA RefClosureStep ==
  ASSUME IInv, Next
  PROVE  RefClosure'
<1> USE DEF IInv, RefClosure, ClosureGood, PutInv, PruneInv, TypeOK, PCs, LockInv, LockedPCs, WritePCs, RefPCs, Transition, fileVars, callVars,
       histVars, boundVars
<1>1. ASSUME NEW p \in Procs, PutStep(p) PROVE RefClosure'
  <2>1. ASSUME NEW k \in Keys, NEW g \in Graphs, BeginPut(p, k, g) PROVE RefClosure'
    BY <2>1, SMTT(30) DEF BeginPut
  <2>2. ASSUME LockPut(p) PROVE RefClosure'
    BY <2>2, SMTT(30) DEF LockPut, AcquireLock
  <2>3. ASSUME NEW o \in Objects, KeepObject(p, o) PROVE RefClosure'
    BY <2>3, SMTT(30) DEF KeepObject, NextToWrite
  <2>4. ASSUME NEW o \in Objects, WriteTemp(p, o) PROVE RefClosure'
    BY <2>4, SMTT(30) DEF WriteTemp, NextToWrite
  <2>5. ASSUME RenameTemp(p) PROVE RefClosure'
    BY <2>5, SMTT(30) DEF RenameTemp
  <2>6. ASSUME CommitBatch(p) PROVE RefClosure'
    BY <2>6, SMTT(30) DEF CommitBatch
  <2>7. ASSUME WriteRefTemp(p) PROVE RefClosure'
    BY <2>7, SMTT(30) DEF WriteRefTemp
  <2>8. ASSUME PublishRef(p) PROVE RefClosure'
    BY <2>8, SMTT(30) DEF PublishRef, ExcuseReaders, IsReading
  <2>9. ASSUME SyncRefs(p) PROVE RefClosure'
    BY <2>9, SMTT(30) DEF SyncRefs, Return, Forget
  <2> QED
    BY <1>1, <2>1, <2>2, <2>3, <2>4, <2>5, <2>6, <2>7, <2>8, <2>9 DEF PutStep
<1>2. ASSUME NEW p \in Procs, PruneStep(p) PROVE RefClosure'
  <2>1. ASSUME NEW ks \in KeepSets, BeginPrune(p, ks) PROVE RefClosure'
    BY <2>1, SMTT(30) DEF BeginPrune
  <2>2. ASSUME LockPrune(p) PROVE RefClosure'
    BY <2>2, SMTT(30) DEF LockPrune, AcquireLock
  <2>3. ASSUME SweepTemps(p) PROVE RefClosure'
    BY <2>3, SMTT(30) DEF SweepTemps
  <2>4. ASSUME NEW k \in Keys, DropRef(p, k) PROVE RefClosure'
    BY <2>4, SMTT(30) DEF DropRef, Current, Newer
  <2>5. ASSUME MarkLive(p) PROVE RefClosure'
    BY <2>5, SMTT(30) DEF MarkLive, MarkAs
  <2>6. ASSUME NEW o \in Objects, DeleteObject(p, o) PROVE RefClosure'
    BY <2>6, SMTT(30) DEF DeleteObject
  <2>7. ASSUME EndPrune(p) PROVE RefClosure'
    BY <2>7, SMTT(30) DEF EndPrune, Return, Forget
  <2> QED
    BY <1>2, <2>1, <2>2, <2>3, <2>4, <2>5, <2>6, <2>7 DEF PruneStep
<1>3. ASSUME NEW p \in Procs, ReadStep(p) PROVE RefClosure'
  BY <1>3, SMTT(60) DEF ReadStep, ReadNoRef, ReadRef, ReadManifest, RejectManifest,
     ReadShard, RejectShard, EndRead, Return, Forget
<1>4. ASSUME NEW p \in Procs, LockTimeout(p) \/ Kill(p) PROVE RefClosure'
  BY <1>4, SMTT(60) DEF LockTimeout, Return, Kill, Forget
<1>5. ASSUME PowerLoss PROVE RefClosure'
  BY <1>5, SMTT(60) DEF PowerLoss
<1> QED
  BY <1>1, <1>2, <1>3, <1>4, <1>5 DEF Next

-------------------------------------------------------------------------------
(* The strengthened invariant survives every step, or none. *)
LEMMA IInvStep == IInv /\ [Next]_vars => IInv'
<1>1. ASSUME IInv, Next PROVE IInv'
  <2>1. TypeOK'
    BY <1>1, PutTypeOK, PruneTypeOK, ReadTypeOK, FailureTypeOK DEF IInv, Next
  <2>2. LockInv' /\ PutInv' /\ PruneInv' /\ ReadInv' /\ RefClosure'
    BY <1>1, LockInvStep, PutInvStep, PruneInvStep, ReadInvStep, RefClosureStep DEF IInv
  <2> QED
    BY <2>1, <2>2 DEF IInv
<1>2. ASSUME IInv, UNCHANGED vars PROVE IInv'
  <2> USE <1>2 DEF IInv, vars, fileVars, callVars, histVars, boundVars
  <2>1. TypeOK'
    BY DEF TypeOK
  <2>2. LockInv' /\ PutInv' /\ PruneInv' /\ ReadInv' /\ RefClosure'
    BY DEF LockInv, PutInv, PruneInv, ReadInv, RefClosure, ClosureGood
  <2> QED
    BY <2>1, <2>2
<1> QED
  BY <1>1, <1>2

(* Every reachable state satisfies the strengthened invariant. *)
THEOREM SpecIInv == Spec => []IInv
<1>1. Init => IInv
  BY InitIInv
<1> QED
  BY <1>1, IInvStep, PTL DEF Spec

(* The types hold in every reachable state. *)
THEOREM SpecTypeOK == Spec => []TypeOK
<1>1. IInv => TypeOK
  BY DEF IInv
<1> QED
  BY <1>1, SpecIInv, PTL

(* However puts, prunes, reads, kills, I/O errors and power losses          *)
(* interleave, the ref of a key published since the last power loss names  *)
(* a closure that is whole on disk.                                        *)
THEOREM SpecRefClosure == Spec => []RefClosure
<1>1. IInv => RefClosure
  BY DEF IInv
<1> QED
  BY <1>1, SpecIInv, PTL

(* No sweep takes the temp file that a writer in flight is about to rename: *)
(* the comment "under the write lock no write is in flight" is right of    *)
(* every writer that takes the lock.                                       *)
THEOREM SpecTempNotSwept == Spec => []TempNotSwept
<1>1. IInv => TempNotSwept
  BY DEF IInv, PutInv, TempNotSwept
<1> QED
  BY <1>1, SpecIInv, PTL

-------------------------------------------------------------------------------
(* As long as no writer was killed, an object that is in place is flushed, *)
(* or its directory is one that the writer at work has yet to flush.  And  *)
(* a writer replaces only what is not in place.                            *)
FlushInv ==
  kills = 0 =>
    /\ RefsAreDurable
    /\ \A o \in Objects : disk[o] = "good" =>
         \/ crash[o] = {"good"}
         \/ \E p \in Procs : pc[p] \in WritePCs /\ DirOf[o] \in batch[p]
    /\ \A p \in Procs : pc[p] = "rename" => disk[cur[p]] # "good"

LEMMA InitFlushInv == Init => FlushInv
<1> SUFFICES ASSUME Init PROVE FlushInv
  OBVIOUS
<1>1. RefClosure
  BY InitIInv DEF IInv
<1>2. \A o \in Objects : crash[o] = {disk[o]}
  BY DEF Init
<1>3. RefsAreDurable
  <2> SUFFICES ASSUME NEW k \in Keys, ref[k] \in Current,
                      NEW o \in Closure(k, ref[k])
               PROVE  crash[o] = {"good"}
    BY DEF RefsAreDurable, Init
  <2>1. o \in Objects
    BY ClosureIsObjects DEF Current
  <2>2. disk[o] = "good"
    BY <1>1 DEF RefClosure, ClosureGood, Init
  <2> QED
    BY <1>2, <2>1, <2>2
<1> QED
  BY <1>2, <1>3 DEF FlushInv, Init

(* The steps that leave files, pointers and batches alone. *)
LEMMA FlushUnmoved ==
  ASSUME IInv, FlushInv, UNCHANGED <<disk, crash, ref, intact, kills>>,
         \A p \in Procs : pc[p] \in WritePCs => pc'[p] \in WritePCs /\ batch'[p] = batch[p],
         \A p \in Procs : pc'[p] = "rename" => disk[cur'[p]] # "good" \/ (pc[p] = "rename" /\ cur'[p] = cur[p])
  PROVE  FlushInv'
<1> SUFFICES ASSUME kills = 0 PROVE FlushInv'
  BY DEF FlushInv
<1>1. RefsAreDurable'
  BY DEF FlushInv, RefsAreDurable
<1>2. \A o \in Objects : disk[o] = "good" =>
        crash[o] = {"good"} \/ \E p \in Procs : pc'[p] \in WritePCs /\ DirOf[o] \in batch'[p]
  BY DEF FlushInv
<1>3. \A p \in Procs : pc'[p] = "rename" => disk'[cur'[p]] # "good"
  BY DEF FlushInv
<1> QED
  BY <1>1, <1>2, <1>3 DEF FlushInv

LEMMA FlushInvStep ==
  ASSUME IInv, FlushInv, Next
  PROVE  FlushInv'
<1> USE DEF WritePCs, Transition, fileVars, callVars, histVars, boundVars
<1>0. /\ pc \in [Procs -> PCs] /\ cur \in [Procs -> Objects \cup {None}]
      /\ batch \in [Procs -> SUBSET Dirs] /\ key \in [Procs -> Keys \cup {None}]
      /\ graph \in [Procs -> Graphs \cup {None}] /\ ref \in [Keys -> Graphs \cup {None}]
      /\ disk \in [Objects -> States] /\ crash \in [Objects -> SUBSET States]
      /\ kills \in Nat /\ intact \subseteq Keys
  BY DEF IInv, TypeOK
<1>a. ASSUME NEW k \in intact, ref[k] \in Current
      PROVE  Closure(k, ref[k]) \subseteq Objects /\ \A o \in Closure(k, ref[k]) : disk[o] = "good"
  BY <1>0, <1>a, ClosureIsObjects DEF IInv, RefClosure, ClosureGood, Current
<1>b. \A p, q \in Procs : pc[p] \in LockedPCs /\ pc[q] \in LockedPCs => p = q
  BY DEF IInv, LockInv
<1>1. ASSUME NEW p \in Procs,
             \/ \E k \in Keys, g \in Graphs : BeginPut(p, k, g)
             \/ LockPut(p) \/ (\E o \in Objects : KeepObject(p, o) \/ WriteTemp(p, o))
             \/ WriteRefTemp(p) \/ SyncRefs(p)
      PROVE  FlushInv'
  <2>1. UNCHANGED <<disk, crash, ref, intact, kills>>
    BY <1>1 DEF BeginPut, LockPut, AcquireLock, KeepObject, WriteTemp, WriteRefTemp, SyncRefs
  <2>2. \A q \in Procs : pc[q] \in WritePCs => pc'[q] \in WritePCs /\ batch'[q] = batch[q]
    BY <1>0, <1>1, SMTT(30) DEF BeginPut, LockPut, AcquireLock, KeepObject, WriteTemp, WriteRefTemp,
       SyncRefs, Return, Forget
  <2>3. \A q \in Procs : pc'[q] = "rename" =>
          disk[cur'[q]] # "good" \/ (pc[q] = "rename" /\ cur'[q] = cur[q])
    BY <1>0, <1>1, SMTT(30) DEF BeginPut, LockPut, AcquireLock, KeepObject, WriteTemp, WriteRefTemp,
       SyncRefs, Return, Forget
  <2> QED
    BY <2>1, <2>2, <2>3, FlushUnmoved
<1>2. ASSUME NEW p \in Procs, RenameTemp(p) PROVE FlushInv'
  <2>0. SUFFICES ASSUME kills = 0 PROVE FlushInv'
    BY <1>2 DEF FlushInv, RenameTemp
  <2> DEFINE c == cur[p]
  <2>1. /\ c \in Objects /\ disk[c] # "good" /\ pc[p] = "rename"
        /\ disk' = [disk EXCEPT ![c] = "good"]
        /\ crash' = [crash EXCEPT ![c] = @ \cup {"torn", "good"}]
        /\ batch' = [batch EXCEPT ![p] = @ \cup {DirOf[c]}]
        /\ pc' = [pc EXCEPT ![p] = "write"]
        /\ UNCHANGED <<ref, intact, kills>>
        /\ \A q \in Procs \ {p} : cur'[q] = cur[q]
    BY <1>0, <1>2, <2>0 DEF RenameTemp, FlushInv, IInv, PutInv, TypeOK
  <2> HIDE DEF c
  <2>2. RefsAreDurable'
    BY <1>0, <1>a, <2>0, <2>1 DEF FlushInv, RefsAreDurable
  <2>3. \A o \in Objects : disk'[o] = "good" =>
          crash'[o] = {"good"} \/ \E q \in Procs : pc'[q] \in WritePCs /\ DirOf[o] \in batch'[q]
    BY <1>0, <2>0, <2>1 DEF FlushInv
  <2>4. \A q \in Procs : pc'[q] = "rename" => disk'[cur'[q]] # "good"
    BY <1>0, <1>b, <2>1 DEF LockedPCs
  <2> QED
    BY <2>2, <2>3, <2>4 DEF FlushInv
<1>3. ASSUME NEW p \in Procs, CommitBatch(p) PROVE FlushInv'
  <2>0. SUFFICES ASSUME kills = 0 PROVE FlushInv'
    BY <1>3 DEF FlushInv, CommitBatch
  <2>1. /\ pc[p] = "write" /\ pc' = [pc EXCEPT ![p] = "refTemp"] /\ crash' = Synced(batch[p])
        /\ batch' = [batch EXCEPT ![p] = {}]
        /\ UNCHANGED <<disk, ref, intact, kills, cur>>
    BY <1>3 DEF CommitBatch
  <2>2. \A o \in Objects : crash'[o] = IF DirOf[o] \in batch[p] THEN {disk[o]} ELSE crash[o]
    BY <2>1 DEF Synced
  <2>3. \A o \in Objects : disk[o] = "good" => crash'[o] = {"good"}
    BY <1>b, <2>0, <2>1, <2>2 DEF FlushInv, LockedPCs
  <2>4. RefsAreDurable'
    BY <1>a, <2>1, <2>3 DEF RefsAreDurable
  <2>5. \A q \in Procs : pc'[q] = "rename" => disk'[cur'[q]] # "good"
    BY <1>0, <2>0, <2>1 DEF FlushInv
  <2> QED
    BY <2>1, <2>3, <2>4, <2>5 DEF FlushInv
<1>4. ASSUME NEW p \in Procs, PublishRef(p) PROVE FlushInv'
  <2>0. SUFFICES ASSUME kills = 0 PROVE FlushInv'
    BY <1>4 DEF FlushInv, PublishRef
  <2> DEFINE k == key[p]
             g == graph[p]
  <2>1. /\ pc[p] = "refRename" /\ pc' = [pc EXCEPT ![p] = "refSync"]
        /\ ref' = [ref EXCEPT ![k] = g] /\ intact' = intact \cup {k}
        /\ UNCHANGED <<disk, crash, kills, cur, batch>>
    BY <1>4 DEF PublishRef
  <2>2. k \in Keys /\ g \in Graphs /\ Closure(k, g) \subseteq Objects
          /\ \A o \in Closure(k, g) : disk[o] = "good"
    BY <2>1, ClosureIsObjects DEF IInv, PutInv, RefPCs, ClosureGood, Current
  <2>3. \A o \in Objects : disk[o] = "good" => crash[o] = {"good"}
    BY <1>b, <2>0, <2>1 DEF FlushInv, LockedPCs, RefPCs
  <2> HIDE DEF k, g
  <2>4. RefsAreDurable'
    BY <1>0, <2>0, <2>1, <2>2, <2>3 DEF FlushInv, RefsAreDurable
  <2>5. \A q \in Procs : pc'[q] = "rename" => disk'[cur'[q]] # "good"
    BY <1>0, <2>0, <2>1 DEF FlushInv
  <2> QED
    BY <2>1, <2>3, <2>4, <2>5 DEF FlushInv
<1>5. ASSUME NEW p \in Procs,
             \/ \E ks \in KeepSets : BeginPrune(p, ks)
             \/ LockPrune(p) \/ SweepTemps(p) \/ MarkLive(p) \/ EndPrune(p)
             \/ ReadStep(p) \/ LockTimeout(p)
      PROVE  FlushInv'
  <2> USE DEF BeginPrune, LockPrune, AcquireLock, SweepTemps, MarkLive, MarkAs, EndPrune, LockTimeout,
          ReadStep, ReadNoRef, ReadRef, ReadManifest, RejectManifest, ReadShard, RejectShard,
          EndRead, Return, Forget
  <2>1. UNCHANGED <<disk, crash, ref, intact, kills>>
    BY <1>5
  <2>2. \A q \in Procs : pc[q] \in WritePCs => pc'[q] \in WritePCs /\ batch'[q] = batch[q]
    BY <1>0, <1>5, SMTT(60)
  <2>3. \A q \in Procs : pc'[q] = "rename" => pc[q] = "rename" /\ cur'[q] = cur[q]
    BY <1>0, <1>5, SMTT(60)
  <2> QED
    BY <2>1, <2>2, <2>3, FlushUnmoved
<1>6. ASSUME NEW p \in Procs, NEW k \in Keys, DropRef(p, k) PROVE FlushInv'
  <2>1. /\ ref' = [ref EXCEPT ![k] = None]
        /\ UNCHANGED <<disk, crash, intact, kills, pc, cur, batch>>
    BY <1>6 DEF DropRef
  <2>2. None \notin Current
    BY DEF Current
  <2> QED
    BY <1>0, <2>1, <2>2 DEF FlushInv, RefsAreDurable
<1>7. ASSUME NEW p \in Procs, NEW o \in Objects, DeleteObject(p, o) PROVE FlushInv'
  <2>1. /\ pc[p] = "sweepObjects" /\ o \in todo[p]
        /\ disk' = [disk EXCEPT ![o] = "absent"]
        /\ crash' = [crash EXCEPT ![o] = @ \cup {"absent"}]
        /\ UNCHANGED <<ref, intact, kills, pc, cur, batch>>
    BY <1>7 DEF DeleteObject
  <2>2. ASSUME NEW k \in intact, ref[k] \in Current PROVE o \notin Closure(k, ref[k])
    BY <2>1, <2>2 DEF IInv, PruneInv
  <2>3. kills = 0 => RefsAreDurable'
    BY <1>0, <1>a, <2>1, <2>2 DEF FlushInv, RefsAreDurable
  <2>4. kills = 0 => \A x \in Objects : disk'[x] = "good" =>
          crash'[x] = {"good"} \/ \E q \in Procs : pc'[q] \in WritePCs /\ DirOf[x] \in batch'[q]
    BY <1>0, <2>1 DEF FlushInv
  <2>5. \A q \in Procs : pc[q] # "rename"
    BY <1>b, <2>1 DEF LockedPCs
  <2> QED
    BY <2>1, <2>3, <2>4, <2>5 DEF FlushInv
<1>8. ASSUME NEW p \in Procs, Kill(p) PROVE FlushInv'
  BY <1>0, <1>8 DEF Kill, FlushInv
<1>9. ASSUME PowerLoss PROVE FlushInv'
  BY <1>9 DEF PowerLoss, FlushInv, RefsAreDurable
<1> QED
  BY <1>1, <1>2, <1>3, <1>4, <1>5, <1>6, <1>7, <1>8, <1>9 DEF Next, PutStep, PruneStep

(* No power loss can take an object that a ref names, unless a writer was  *)
(* killed before its flush: write_object's batch misses what it keeps.     *)
THEOREM SpecRefsAreDurable == Spec => []RefsAreDurableUnlessKilled
<1>1. IInv /\ FlushInv /\ [Next]_vars => FlushInv'
  <2>1. ASSUME IInv, FlushInv, UNCHANGED vars PROVE FlushInv'
    BY <2>1 DEF vars, fileVars, callVars, histVars, boundVars, FlushInv, RefsAreDurable
  <2> QED
    BY <2>1, FlushInvStep
<1>2. FlushInv => RefsAreDurableUnlessKilled
  BY DEF FlushInv, RefsAreDurableUnlessKilled
<1> QED
  BY <1>1, <1>2, InitFlushInv, SpecIInv, PTL DEF Spec

-------------------------------------------------------------------------------
(* A sweep has nothing live on its list, and everything dead, unless it    *)
(* gave up over a newer format.                                            *)
HasNewer == \E m \in Readable : m[2] \in Newer

SweepKnows(p) ==
  /\ todo[p] \cap Live = {}
  /\ Present \subseteq Live \cup todo[p] \/ HasNewer

SweepInv == \A p \in Procs : pc[p] = "sweepObjects" => SweepKnows(p)

(* The steps that leave the files and the list of the sweep alone. *)
LEMMA SweepUnmoved ==
  ASSUME SweepInv, UNCHANGED <<disk, ref>>,
         \A p \in Procs : pc'[p] = "sweepObjects" =>
           pc[p] = "sweepObjects" /\ todo'[p] = todo[p]
  PROVE  SweepInv'
<1>1. UNCHANGED <<Live, Present, HasNewer>>
  BY DEF Live, Present, HasNewer, Readable
<1> QED
  BY <1>1 DEF SweepInv, SweepKnows

(* Nobody else moves files while a sweep deletes. *)
LEMMA SweepInvStep ==
  ASSUME IInv, SweepInv, Next
  PROVE  SweepInv'
<1> USE DEF Transition, fileVars, callVars, histVars, boundVars
<1>0. /\ pc \in [Procs -> PCs] /\ todo \in [Procs -> SUBSET Objects]
      /\ disk \in [Objects -> States]
  BY DEF IInv, TypeOK
<1>a. \A p, q \in Procs : pc[p] \in LockedPCs /\ pc[q] \in LockedPCs => p = q
  BY DEF IInv, LockInv
<1>1. ASSUME NEW p \in Procs, RenameTemp(p) \/ PublishRef(p) \/ \E k \in Keys : DropRef(p, k)
      PROVE  SweepInv'
  <2>1. /\ pc[p] \in LockedPCs \ {"sweepObjects"} /\ pc'[p] # "sweepObjects"
        /\ \A q \in Procs \ {p} : pc'[q] = pc[q]
    BY <1>0, <1>1 DEF RenameTemp, PublishRef, DropRef, LockedPCs, WritePCs, RefPCs
  <2>2. \A q \in Procs : pc'[q] # "sweepObjects"
    BY <1>a, <2>1 DEF LockedPCs
  <2> QED
    BY <2>2 DEF SweepInv
<1>2. ASSUME NEW p \in Procs, MarkLive(p) PROVE SweepInv'
  <2>1. /\ pc[p] = "dropRefs" /\ pc' = [pc EXCEPT ![p] = "sweepObjects"]
        /\ todo' = [todo EXCEPT ![p] = IF HasNewer THEN {} ELSE Present \ Live]
        /\ UNCHANGED <<disk, ref>>
    BY <1>2 DEF MarkLive, MarkAs, HasNewer
  <2>2. UNCHANGED <<Live, Present, HasNewer>>
    BY <2>1 DEF Live, Present, HasNewer, Readable
  <2>3. todo'[p] = IF HasNewer THEN {} ELSE Present \ Live
    BY <1>0, <2>1
  <2>4. \A q \in Procs \ {p} : pc'[q] # "sweepObjects"
    BY <1>0, <1>a, <2>1 DEF LockedPCs
  <2>5. SweepKnows(p)'
    BY <2>2, <2>3 DEF SweepKnows
  <2> QED
    BY <2>4, <2>5 DEF SweepInv
<1>3. ASSUME NEW p \in Procs, NEW o \in Objects, DeleteObject(p, o) PROVE SweepInv'
  <2>1. /\ pc[p] = "sweepObjects" /\ o \in todo[p]
        /\ todo'[p] = todo[p] \ {o}
        /\ disk' = [disk EXCEPT ![o] = "absent"]
        /\ UNCHANGED <<ref, pc>>
    BY <1>0, <1>3 DEF DeleteObject
  <2>2. SweepKnows(p) /\ o \notin Live
    BY <2>1 DEF SweepInv, SweepKnows
  <2>3. \A m \in Manifests : ref[m[1]] = m[2] => m # o /\ disk'[m] = disk[m]
    BY <1>0, <2>1, <2>2 DEF Live, Objects
  <2>4. UNCHANGED Readable
    BY <2>1, <2>3 DEF Readable
  <2>5. UNCHANGED <<Live, HasNewer>>
    BY <2>1, <2>4 DEF Live, HasNewer
  <2>6. Present' = Present \ {o}
    BY <1>0, <2>1 DEF Present
  <2>7. SweepKnows(p)'
    BY <2>1, <2>2, <2>5, <2>6 DEF SweepKnows
  <2>8. \A q \in Procs \ {p} : pc'[q] # "sweepObjects"
    BY <1>a, <2>1 DEF LockedPCs
  <2> QED
    BY <2>7, <2>8 DEF SweepInv
<1>4. ASSUME NEW p \in Procs,
             \/ \E k \in Keys, g \in Graphs : BeginPut(p, k, g)
             \/ LockPut(p) \/ (\E o \in Objects : KeepObject(p, o) \/ WriteTemp(p, o))
             \/ CommitBatch(p) \/ WriteRefTemp(p) \/ SyncRefs(p)
      PROVE  SweepInv'
  <2> USE DEF BeginPut, LockPut, AcquireLock, KeepObject, WriteTemp, CommitBatch, WriteRefTemp,
          SyncRefs, Return, Forget
  <2>1. UNCHANGED <<disk, ref>>
    BY <1>4
  <2>2. \A q \in Procs : pc'[q] = "sweepObjects" =>
          pc[q] = "sweepObjects" /\ todo'[q] = todo[q]
    BY <1>0, <1>4, SMTT(60)
  <2> QED
    BY <2>1, <2>2, SweepUnmoved
<1>5. ASSUME NEW p \in Procs,
             \/ \E ks \in KeepSets : BeginPrune(p, ks)
             \/ LockPrune(p) \/ SweepTemps(p) \/ EndPrune(p)
             \/ ReadStep(p) \/ LockTimeout(p) \/ Kill(p)
      PROVE  SweepInv'
  <2> USE DEF BeginPrune, LockPrune, AcquireLock, SweepTemps, EndPrune, LockTimeout, Kill,
          ReadStep, ReadNoRef, ReadRef, ReadManifest, RejectManifest, ReadShard, RejectShard,
          EndRead, Return, Forget
  <2>1. UNCHANGED <<disk, ref>>
    BY <1>5
  <2>2. \A q \in Procs : pc'[q] = "sweepObjects" =>
          pc[q] = "sweepObjects" /\ todo'[q] = todo[q]
    BY <1>0, <1>5, SMTT(60)
  <2> QED
    BY <2>1, <2>2, SweepUnmoved
<1>6. ASSUME PowerLoss PROVE SweepInv'
  BY <1>6 DEF PowerLoss, SweepInv
<1> QED
  BY <1>1, <1>2, <1>3, <1>4, <1>5, <1>6 DEF Next, PutStep, PruneStep

(* When prune_graphs_except returns, what refs name is whole and nothing   *)
(* dead is left, unless a newer format made it give the sweep up.          *)
THEOREM SpecPruneTakesTheGarbage == Spec => PruneTakesTheGarbage
<1> DEFINE Done == RefClosure /\ (Present \subseteq Live \/ HasNewer)
           Returns == \A p \in Procs : pc[p] = "sweepObjects" /\ EndPrune(p) => Done
<1>1. Init => SweepInv
  BY DEF Init, SweepInv
<1>2. IInv /\ SweepInv /\ [Next]_vars => SweepInv'
  <2>1. ASSUME SweepInv, UNCHANGED vars PROVE SweepInv'
    <3>1. \A p \in Procs : pc'[p] = "sweepObjects" =>
            pc[p] = "sweepObjects" /\ todo'[p] = todo[p]
      BY <2>1 DEF vars, callVars
    <3> QED
      BY <2>1, <3>1, SweepUnmoved DEF vars, fileVars
  <2> QED
    BY <2>1, SweepInvStep
<1>3. IInv /\ SweepInv /\ [Next]_vars => [Returns]_vars
  <2>1. ASSUME IInv, SweepInv, NEW p \in Procs, pc[p] = "sweepObjects", EndPrune(p)
        PROVE  Done
    BY <2>1 DEF IInv, SweepInv, SweepKnows, EndPrune
  <2> QED
    BY <2>1
<1>4. Returns => (\A p \in Procs : pc[p] = "sweepObjects" /\ EndPrune(p) =>
                    /\ RefClosure
                    /\ Present \subseteq Live \/ \E m \in Readable : m[2] \in Newer)
  BY DEF HasNewer
<1> QED
  BY <1>1, <1>2, <1>3, <1>4, SpecIInv, PTL DEF Spec, PruneTakesTheGarbage

-------------------------------------------------------------------------------
(* The step of the map that a step of the store is: a ref published is a   *)
(* Store, a ref dropped a Drop, a read its first and last step.            *)
Pends == [p \in Procs |-> Pending(p)]

IdlePend == [st |-> "idle"]

(* A step that leaves the map alone, and p's read, if it was in one. *)
LEMMA Stutters ==
  ASSUME NEW p \in Procs, UNCHANGED <<ref, intact, reply>>,
         \A q \in Procs : Pending(q)' = Pending(q)
  PROVE  UNCHANGED Abstract!gmVars
<1>1. UNCHANGED Pends
  BY DEF Pends
<1> QED
  BY <1>1 DEF Abstract!gmVars, Pends

LEMMA Leaves ==
  ASSUME NEW p \in Procs, UNCHANGED <<ref, intact>>, Pending(p)' = IdlePend,
         reply' = [reply EXCEPT ![p] = "none"],
         \A q \in Procs \ {p} : Pending(q)' = Pending(q)
  PROVE  Abstract!Leave(p)
<1>1. Pends' = [Pends EXCEPT ![p] = IdlePend]
  BY DEF Pends
<1> QED
  BY <1>1 DEF Abstract!Leave, Pends, Abstract!Idle, IdlePend

(* What readers are told when the entry of k changes. *)
LEMMA Excuses ==
  ASSUME IInv, NEW k \in Keys, ExcuseReaders(k), UNCHANGED <<key, graph>>,
         \A q \in Procs : pc'[q] \in ReadPCs <=> pc[q] \in ReadPCs
  PROVE  Pends' = Abstract!Excuse({k})
<1>1. ASSUME NEW q \in Procs
      PROVE  Pending(q)' = IF Pending(q).st = "reading" /\ Pending(q).key \in {k}
                           THEN Abstract!Reading(Pending(q).key, Pending(q).val, TRUE)
                           ELSE Pending(q)
  <2>1. excused'[q] = (excused[q] \/ IsReading(q, k)) /\ excused[q] \in BOOLEAN
    BY DEF ExcuseReaders, IInv, TypeOK
  <2>2. CASE pc[q] \notin ReadPCs
    BY <2>2 DEF Pending, ReadPCs
  <2>3. CASE pc[q] \in ReadPCs
    <3>1. /\ Pending(q) = [st |-> "reading", key |-> key[q], val |-> graph[q],
                           excused |-> excused[q]]
          /\ Pending(q)' = [st |-> "reading", key |-> key[q], val |-> graph[q],
                            excused |-> excused'[q]]
      BY <2>3 DEF Pending, ReadPCs
    <3>2. IsReading(q, k) <=> key[q] = k
      BY <2>3 DEF IsReading, ReadPCs
    <3>3. CASE key[q] = k
      <4>1. excused'[q] = TRUE
        BY <2>1, <3>2, <3>3
      <4>2. Pending(q).st = "reading" /\ Pending(q).key = key[q] /\ Pending(q).val = graph[q]
        BY <3>1
      <4>3. Pending(q)' = Abstract!Reading(Pending(q).key, Pending(q).val, TRUE)
        BY <3>1, <4>1, <4>2, Zenon DEF Abstract!Reading
      <4>4. Pending(q).key \in {k}
        BY <3>3, <4>2
      <4> QED
        BY <4>2, <4>3, <4>4, Zenon
    <3>4. CASE key[q] # k
      <4>1. excused'[q] = excused[q]
        BY <2>1, <3>2, <3>4
      <4> QED
        BY <3>1, <3>4, <4>1
    <3> QED
      BY <3>3, <3>4
  <2> QED
    BY <2>2, <2>3
<1> QED
  BY <1>1 DEF Pends, Abstract!Excuse

(* A put or a prune that is not done leaves the map alone, but for its ref. *)
LEMMA WriterMaps ==
  ASSUME IInv, NEW p \in Procs, PutStep(p) \/ PruneStep(p)
  PROVE  [Abstract!GMNext]_(Abstract!gmVars)
<1> USE DEF Transition, fileVars, callVars, histVars, boundVars
<1>0. /\ pc \in [Procs -> PCs] /\ key \in [Procs -> Keys \cup {None}]
      /\ graph \in [Procs -> Graphs \cup {None}]
      /\ excused \in [Procs -> BOOLEAN] /\ ref \in [Keys -> Graphs \cup {None}]
  BY DEF IInv, TypeOK
<1>1. CASE \/ LockPut(p) \/ (\E o \in Objects : KeepObject(p, o) \/ WriteTemp(p, o))
           \/ RenameTemp(p) \/ CommitBatch(p) \/ WriteRefTemp(p)
           \/ LockPrune(p) \/ SweepTemps(p) \/ MarkLive(p)
           \/ \E o \in Objects : DeleteObject(p, o)
  <2> USE DEF LockPut, AcquireLock, KeepObject, WriteTemp, RenameTemp, CommitBatch, WriteRefTemp,
          LockPrune, SweepTemps, MarkLive, MarkAs, DeleteObject
  <2>1. UNCHANGED <<ref, intact, reply, key, graph, excused>>
    BY <1>1
  <2>2. \A q \in Procs : pc'[q] \in ReadPCs \/ pc[q] \in ReadPCs => pc'[q] = pc[q]
    BY <1>0, <1>1 DEF ReadPCs
  <2>3. \A q \in Procs : Pending(q)' = Pending(q)
    BY <2>1, <2>2 DEF Pending, ReadPCs
  <2> QED
    BY <2>1, <2>3, Stutters
<1>2. CASE \/ \E k \in Keys, g \in Graphs : BeginPut(p, k, g)
           \/ \E ks \in KeepSets : BeginPrune(p, ks)
           \/ SyncRefs(p) \/ EndPrune(p)
  <2> USE DEF BeginPut, BeginPrune, SyncRefs, EndPrune, Return, Forget
  <2>1. /\ UNCHANGED <<ref, intact>> /\ reply' = [reply EXCEPT ![p] = "none"]
        /\ pc'[p] \notin ReadPCs
        /\ \A q \in Procs \ {p} : /\ pc'[q] = pc[q] /\ key'[q] = key[q]
                                  /\ graph'[q] = graph[q] /\ excused'[q] = excused[q]
    BY <1>0, <1>2 DEF ReadPCs
  <2>2. Pending(p)' = IdlePend /\ \A q \in Procs \ {p} : Pending(q)' = Pending(q)
    BY <2>1 DEF Pending, ReadPCs, IdlePend
  <2> QED
    BY <2>1, <2>2, Leaves DEF Abstract!GMNext
<1>3. CASE PublishRef(p)
  <2>1. key[p] \in Keys /\ graph[p] \in Graphs
    BY <1>3 DEF PublishRef, IInv, PutInv, RefPCs, Current
  <2>2. \A q \in Procs : pc'[q] \in ReadPCs <=> pc[q] \in ReadPCs
    BY <1>0, <1>3 DEF PublishRef, ReadPCs
  <2>3. Pends' = Abstract!Excuse({key[p]})
    BY <1>3, <2>1, <2>2, Excuses DEF PublishRef
  <2>4. Abstract!Store(key[p], graph[p])
    BY <1>3, <2>3 DEF PublishRef, Abstract!Store, Pends
  <2> QED
    BY <2>1, <2>4 DEF Abstract!GMNext
<1>4. CASE \E k \in Keys : DropRef(p, k)
  <2>1. PICK k \in Keys : DropRef(p, k)
    BY <1>4
  <2>2. Pends' = Abstract!Excuse({k})
    BY <2>1, Excuses DEF DropRef
  <2>3. ref' = [j \in Keys |-> IF j \in {k} THEN None ELSE ref[j]]
    BY <1>0, <2>1 DEF DropRef
  <2>4. Abstract!Drop({k})
    BY <2>1, <2>2, <2>3 DEF DropRef, Abstract!Drop, Pends
  <2> QED
    BY <2>4 DEF Abstract!GMNext
<1> QED
  BY <1>1, <1>2, <1>3, <1>4 DEF PutStep, PruneStep

(* A read begins and ends as one of the map does. *)
LEMMA ReaderMaps ==
  ASSUME IInv, NEW p \in Procs, ReadStep(p)
  PROVE  [Abstract!GMNext]_(Abstract!gmVars)
<1> USE DEF Transition, fileVars, callVars, histVars, boundVars
<1>0. /\ pc \in [Procs -> PCs] /\ key \in [Procs -> Keys \cup {None}]
      /\ graph \in [Procs -> Graphs \cup {None}]
      /\ excused \in [Procs -> BOOLEAN] /\ ref \in [Keys -> Graphs \cup {None}]
      /\ reply \in [Procs -> Graphs \cup Replies]
  BY DEF IInv, TypeOK
<1>1. CASE ReadManifest(p) \/ \E s \in Shards : ReadShard(p, s)
  <2>1. UNCHANGED <<ref, intact, reply, key, graph, excused>>
    BY <1>1 DEF ReadManifest, ReadShard
  <2>2. \A q \in Procs : (pc'[q] \in ReadPCs <=> pc[q] \in ReadPCs)
    BY <1>0, <1>1 DEF ReadManifest, ReadShard, ReadPCs
  <2>3. \A q \in Procs : Pending(q)' = Pending(q)
    BY <2>1, <2>2 DEF Pending, ReadPCs
  <2> QED
    BY <2>1, <2>3, Stutters
<1>2. CASE \E k \in Keys : ReadNoRef(p, k)
  <2>1. PICK k \in Keys : ReadNoRef(p, k)
    BY <1>2
  <2>2. /\ UNCHANGED <<ref, intact>> /\ reply' = [reply EXCEPT ![p] = "empty"]
        /\ pc[p] = "idle" /\ pc'[p] = "idle" /\ ref[k] = None
        /\ \A q \in Procs \ {p} : /\ pc'[q] = pc[q] /\ key'[q] = key[q]
                                  /\ graph'[q] = graph[q] /\ excused'[q] = excused[q]
    BY <1>0, <2>1 DEF ReadNoRef, Return, Forget
  <2>3. Pending(p) = IdlePend /\ Pending(p)' = IdlePend
          /\ \A q \in Procs \ {p} : Pending(q)' = Pending(q)
    BY <2>2 DEF Pending, IdlePend
  <2>4. UNCHANGED Pends /\ Pends[p] = IdlePend
    BY <2>3 DEF Pends
  <2>5. Abstract!ReadNothing(p, k)
    BY <2>2, <2>4 DEF Abstract!ReadNothing, Abstract!Idle, IdlePend, Pends
  <2> QED
    BY <2>5 DEF Abstract!GMNext
<1>3. CASE \E k \in Keys : ReadRef(p, k)
  <2>1. PICK k \in Keys : ReadRef(p, k)
    BY <1>3
  <2>2. /\ UNCHANGED <<ref, intact>> /\ reply' = [reply EXCEPT ![p] = "none"]
        /\ pc[p] = "idle" /\ ref[k] # None
        /\ pc'[p] = "readManifest" /\ key'[p] = k /\ graph'[p] = ref[k]
        /\ excused'[p] = (k \notin intact)
        /\ \A q \in Procs \ {p} : /\ pc'[q] = pc[q] /\ key'[q] = key[q]
                                  /\ graph'[q] = graph[q] /\ excused'[q] = excused[q]
    BY <1>0, <2>1 DEF ReadRef
  <2> DEFINE r == Abstract!Reading(k, ref[k], k \notin intact)
  <2>3. Pending(p) = IdlePend
    BY <2>2 DEF Pending, IdlePend
  <2>4. Pending(p)' = r
    BY <2>2, Zenon DEF Pending, Abstract!Reading
  <2>5. \A q \in Procs \ {p} : Pending(q)' = Pending(q)
    BY <2>2 DEF Pending
  <2> HIDE DEF r
  <2>6. Pends' = [Pends EXCEPT ![p] = r] /\ Pends[p] = IdlePend
    BY <2>3, <2>4, <2>5 DEF Pends
  <2>7. Abstract!BeginRead(p, k)
    BY <2>2, <2>6 DEF Abstract!BeginRead, Abstract!Idle, IdlePend, Pends, r
  <2> QED
    BY <2>7 DEF Abstract!GMNext
<1>4. CASE \/ RejectManifest(p) \/ EndRead(p)
           \/ \E s \in Shards : RejectShard(p, s)
  <2>1. /\ pc[p] \in ReadPCs /\ UNCHANGED <<ref, intact>> /\ pc'[p] = "idle"
        /\ \A q \in Procs \ {p} : /\ pc'[q] = pc[q] /\ key'[q] = key[q]
                                  /\ graph'[q] = graph[q] /\ excused'[q] = excused[q]
    BY <1>0, <1>4 DEF RejectManifest, RejectShard, EndRead, Return, Forget, ReadPCs
  <2>2. Pending(p)' = IdlePend /\ \A q \in Procs \ {p} : Pending(q)' = Pending(q)
    BY <2>1 DEF Pending, IdlePend
  <2>3. Pends' = [Pends EXCEPT ![p] = IdlePend]
    BY <2>2 DEF Pends
  <2>4. /\ Pends[p].st = "reading" /\ Pends[p].val = graph[p]
        /\ Pends[p].excused = excused[p]
    BY <2>1 DEF Pends, Pending, ReadPCs
  <2>5. \/ graph[p] \in Current /\ reply' = [reply EXCEPT ![p] = graph[p]]
        \/ graph[p] \in Newer /\ reply' = [reply EXCEPT ![p] = "format"]
        \/ /\ excused[p] \/ graph[p] \notin Current \cup Newer
           /\ reply' = [reply EXCEPT ![p] = "corrupt"]
    <3>1. ~ excused[p] => key[p] \in intact /\ ref[key[p]] = graph[p]
      BY <2>1 DEF IInv, ReadInv
    <3>2. ~ excused[p] /\ graph[p] \in Current \cup Newer =>
            \A o \in Closure(key[p], graph[p]) : disk[o] = "good"
      BY <3>1 DEF IInv, RefClosure, ClosureGood
    <3>3. CASE RejectManifest(p)
      BY <3>2, <3>3 DEF RejectManifest, Return, Verifies, Closure
    <3>4. CASE \E s \in Shards : RejectShard(p, s)
      <4>1. PICK s \in Shards : RejectShard(p, s)
        BY <3>4
      <4>2. s \in ShardsOf[graph[p]] /\ graph[p] \in Current
        BY <4>1 DEF RejectShard, Return, IInv, ReadInv
      <4>3. excused[p]
        BY <3>2, <4>1, <4>2 DEF RejectShard, Verifies, Closure
      <4> QED
        BY <4>1, <4>3 DEF RejectShard, Return
    <3>5. CASE EndRead(p)
      <4>1. graph[p] \in Current /\ got[p] = ShardsOf[graph[p]] \X {"good"}
        BY <3>5 DEF EndRead, Return, IInv, ReadInv
      <4> QED
        BY <3>5, <4>1 DEF EndRead, Return, Rebuilt
    <3> QED
      BY <1>4, <3>3, <3>4, <3>5
  <2>6. Abstract!EndRead(p)
    BY <2>1, <2>3, <2>4, <2>5 DEF Abstract!EndRead, Abstract!Idle, IdlePend, Pends
  <2> QED
    BY <2>6 DEF Abstract!GMNext
<1> QED
  BY <1>1, <1>2, <1>3, <1>4 DEF ReadStep

(* A call that ends, a kill and a power loss. *)
LEMMA FailureMaps ==
  ASSUME IInv, (\E p \in Procs : LockTimeout(p) \/ Kill(p)) \/ PowerLoss
  PROVE  [Abstract!GMNext]_(Abstract!gmVars)
<1>0. /\ pc \in [Procs -> PCs] /\ ref \in [Keys -> Graphs \cup {None}]
      /\ key \in [Procs -> Keys \cup {None}] /\ graph \in [Procs -> Graphs \cup {None}]
      /\ excused \in [Procs -> BOOLEAN]
  BY DEF IInv, TypeOK
<1>1. ASSUME NEW p \in Procs, LockTimeout(p) \/ Kill(p)
      PROVE  [Abstract!GMNext]_(Abstract!gmVars)
  <2>1. /\ UNCHANGED <<ref, intact>> /\ reply' = [reply EXCEPT ![p] = "none"]
        /\ pc'[p] = "idle"
        /\ \A q \in Procs \ {p} : /\ pc'[q] = pc[q] /\ key'[q] = key[q]
                                  /\ graph'[q] = graph[q] /\ excused'[q] = excused[q]
    BY <1>0, <1>1 DEF LockTimeout, Kill, Return, Forget, fileVars
  <2>2. Pending(p)' = IdlePend /\ \A q \in Procs \ {p} : Pending(q)' = Pending(q)
    BY <2>1 DEF Pending, IdlePend
  <2> QED
    BY <2>1, <2>2, Leaves DEF Abstract!GMNext
<1>2. CASE PowerLoss
  <2>1. /\ intact' = {} /\ reply' = [p \in Procs |-> "none"] /\ pc' = [p \in Procs |-> "idle"]
    BY <1>2 DEF PowerLoss
  <2>2. ref' \in [Keys -> Graphs \cup {None}]
    BY <1>2, FailureTypeOK DEF IInv, TypeOK
  <2>3. Pends' = [p \in Procs |-> IdlePend]
    BY <2>1 DEF Pends, Pending, IdlePend
  <2>4. Abstract!Damage
    BY <2>1, <2>2, <2>3 DEF Abstract!Damage, Abstract!Idle, IdlePend, Pends
  <2> QED
    BY <2>4 DEF Abstract!GMNext
<1> QED
  BY <1>1, <1>2

(* The objects, refs, flushes and locks implement the map of graphs that   *)
(* the FactStore trait promises: a reader gets one graph, the one its key  *)
(* named when it began, or is told that it cannot have it.                 *)
THEOREM SpecImplementsGraphMap == Spec => ImplementsGraphMap
<1>1. Init => Abstract!GMInit
  <2> SUFFICES ASSUME Init PROVE Abstract!GMInit
    OBVIOUS
  <2>1. Pends = [p \in Procs |-> IdlePend]
    BY DEF Init, Pends, Pending, IdlePend
  <2> QED
    BY <2>1 DEF Init, Abstract!GMInit, Abstract!Idle, IdlePend, Pends
<1>2. IInv /\ [Next]_vars => [Abstract!GMNext]_(Abstract!gmVars)
  <2>1. ASSUME UNCHANGED vars PROVE UNCHANGED Abstract!gmVars
    <3>1. UNCHANGED <<ref, intact, reply, pc, key, graph, excused>>
      BY <2>1 DEF vars, fileVars, callVars, histVars
    <3>2. UNCHANGED Pends
      BY <3>1 DEF Pends, Pending
    <3> QED
      BY <3>1, <3>2 DEF Abstract!gmVars, Pends
  <2>2. ASSUME IInv, Next PROVE [Abstract!GMNext]_(Abstract!gmVars)
    BY <2>2, WriterMaps, ReaderMaps, FailureMaps DEF Next
  <2> QED
    BY <2>1, <2>2
<1> QED
  BY <1>1, <1>2, SpecIInv, PTL DEF Spec, ImplementsGraphMap, Abstract!GMSpec
===============================================================================
