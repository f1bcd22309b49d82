----------------------------- MODULE ObjectStore -----------------------------
(***************************************************************************)
(* The content-addressed graph store (cgx-store/src/object_store.rs), the  *)
(* durable-write layer under it (durable.rs) and its write lock (lock.rs), *)
(* as seen by several processes that share one .cgx directory.             *)
(*                                                                         *)
(* An object is named by the hash of its bytes, so a shard and a manifest  *)
(* are their own names here; the manifest of graph g under key k is the    *)
(* pair <<k, g>>.  A graph value includes the revision the manifest        *)
(* records: two graphs may have the same shards.  A file is absent, torn   *)
(* (its bytes do not hash to its name) or good.                            *)
(*                                                                         *)
(* Two views of the disk: disk and ref are what a process sees; crash and  *)
(* refCrash hold, per file, every state a power loss may leave it in.  The *)
(* file system promises no order between two directories: only an fsync    *)
(* of a file's directory narrows that set, which is what durable.rs itself *)
(* relies on.                                                              *)
(***************************************************************************)
EXTENDS Naturals, FiniteSets

CONSTANTS
  Procs,          \* processes sharing the store
  Keys,           \* graph keys: tree OIDs and workdir:<digest> keys
  Graphs,         \* linked graphs, with the revision that made them
  Shards,         \* shard objects
  Dirs,           \* fan-out directories objects/<oid[0:2]>
  ShardsOf,       \* ShardsOf[g]: the shard objects of graph g
  DirOf,          \* DirOf[o]: the directory object o lives in
  Format,         \* Format[g]: store_format of g's manifest, against CURRENT
  Pruners,        \* processes that also call prune_graphs_except
  KeepSets,       \* the sets of keys a prune is told to keep
  MaxKills,       \* bound: processes killed, or failed by an I/O error
  MaxPowerLoss,   \* bound: power losses
  None            \* no graph, no holder, no object

Manifests == Keys \X Graphs
Objects == Shards \cup Manifests
Current == {g \in Graphs : Format[g] = "current"}
Newer == {g \in Graphs : Format[g] = "newer"}

ASSUME ShardsOfAssumption == ShardsOf \in [Graphs -> SUBSET Shards]
ASSUME DirOfAssumption == DirOf \in [Objects -> Dirs]
ASSUME FormatAssumption == Format \in [Graphs -> {"older", "current", "newer"}]
ASSUME NoneAssumption ==
  None \notin Graphs /\ None \notin Procs /\ None \notin Objects /\ None \notin Keys
ASSUME NamesAssumption == Shards \cap Manifests = {} /\ Keys \cap Objects = {}
ASSUME PrunersAssumption == Pruners \subseteq Procs /\ KeepSets \subseteq SUBSET Keys
ASSUME BoundsAssumption == MaxKills \in Nat /\ MaxPowerLoss \in Nat

VARIABLES
  disk,       \* disk[o]: the file at object o's final name
  crash,      \* crash[o]: the states a power loss may leave that file in
  ref,        \* ref[k]: the graph whose manifest k's ref file names, or None
  refCrash,   \* refCrash[k]: what a power loss may leave in k's ref file
  tmp,        \* the objects and keys (ref files) that have a <name>.tmp file
  lock,       \* the holder of objects.lock, or None
  pc,         \* pc[p]: where p is in its call
  key,        \* key[p]: the graph key of p's call
  graph,      \* graph[p]: the graph p stores, or the one it is reading
  todo,       \* todo[p]: objects p still has to write, read or delete
  cur,        \* cur[p]: the object p has a temp file open for, or None
  batch,      \* batch[p]: the directories of p's Batch
  keep,       \* keep[p]: the keys p's prune keeps
  got,        \* got[p]: the shards p's read has taken, with the file's state
  reply,      \* reply[p]: what p's last call returned, if it was a read
  excused,    \* history: p's read may find objects gone (see GraphMap)
  intact,     \* history: keys published since the last power loss
  kills, losses

fileVars == <<disk, crash, ref, refCrash, tmp>>
callVars == <<key, graph, todo, cur, batch, keep, got>>
histVars == <<excused, intact>>
boundVars == <<kills, losses>>
vars == <<fileVars, lock, pc, callVars, reply, histVars, boundVars>>

States == {"absent", "torn", "good"}

Closure(k, g) == {<<k, g>>} \cup ShardsOf[g]

ClosureGood(k, g) == \A o \in Closure(k, g) : disk[o] = "good"

Present == {o \in Objects : disk[o] # "absent"}

Transition(p, from, to) == pc[p] = from /\ pc' = [pc EXCEPT ![p] = to]

(* A call is over: its locals are gone. *)
Forget(p) ==
  /\ pc' = [pc EXCEPT ![p] = "idle"]
  /\ key' = [key EXCEPT ![p] = None]
  /\ graph' = [graph EXCEPT ![p] = None]
  /\ todo' = [todo EXCEPT ![p] = {}]
  /\ cur' = [cur EXCEPT ![p] = None]
  /\ batch' = [batch EXCEPT ![p] = {}]
  /\ keep' = [keep EXCEPT ![p] = {}]
  /\ got' = [got EXCEPT ![p] = {}]
  /\ excused' = [excused EXCEPT ![p] = FALSE]

Return(p, from, r) ==
  /\ pc[p] = from
  /\ Forget(p)
  /\ reply' = [reply EXCEPT ![p] = r]

IsReading(q, k) == pc[q] \in {"readManifest", "readShards"} /\ key[q] = k

(* A reader of k may from now on miss objects: k's ref file has changed. *)
ExcuseReaders(k) ==
  excused' = [q \in Procs |-> excused[q] \/ IsReading(q, k)]

-------------------------------------------------------------------------------
(* A store some earlier run left: every ref's closure in place and durable. *)
Init ==
  /\ ref \in [Keys -> Graphs \cup {None}]
  /\ disk = [o \in Objects |->
               IF \E k \in Keys : ref[k] # None /\ o \in Closure(k, ref[k])
               THEN "good" ELSE "absent"]
  /\ crash = [o \in Objects |-> {disk[o]}]
  /\ refCrash = [k \in Keys |-> {ref[k]}]
  /\ tmp = {}
  /\ lock = None
  /\ pc = [p \in Procs |-> "idle"]
  /\ key = [p \in Procs |-> None]
  /\ graph = [p \in Procs |-> None]
  /\ todo = [p \in Procs |-> {}]
  /\ cur = [p \in Procs |-> None]
  /\ batch = [p \in Procs |-> {}]
  /\ keep = [p \in Procs |-> {}]
  /\ got = [p \in Procs |-> {}]
  /\ excused = [p \in Procs |-> FALSE]
  /\ reply = [p \in Procs |-> "none"]
  /\ intact = Keys
  /\ kills = 0 /\ losses = 0

-------------------------------------------------------------------------------
(* Mutant: the lock is not looked at. *)
AcquireLockAnyway(p, from, to) == Transition(p, from, to) /\ lock' = p

(* WriteLock::acquire: poll try_write until the lock is free ... *)
AcquireLock(p, from, to) ==
  /\ Transition(p, from, to)
  /\ lock = None
  /\ lock' = p

(* Mutant: a process polls for the lock for ever. *)
LockTimeoutNever(p) == FALSE /\ p \in Procs /\ UNCHANGED vars

(* ... or until LOCK_TIMEOUT has passed with another process holding it. *)
LockTimeout(p) ==
  /\ lock # None
  /\ \E from \in {"wantPut", "wantPrune"} : Return(p, from, "none")
  /\ UNCHANGED <<fileVars, lock, intact, boundVars>>

-------------------------------------------------------------------------------
(* put_graph.  check_canonical and stable_keys run before the lock. *)
BeginPut(p, k, g) ==
  /\ g \in Current
  /\ Transition(p, "idle", "wantPut")
  /\ key' = [key EXCEPT ![p] = k]
  /\ graph' = [graph EXCEPT ![p] = g]
  /\ todo' = [todo EXCEPT ![p] = Closure(k, g)]
  /\ batch' = [batch EXCEPT ![p] = {}]
  /\ reply' = [reply EXCEPT ![p] = "none"]
  /\ UNCHANGED <<fileVars, lock, cur, keep, got, histVars, boundVars>>

LockPut(p) ==
  /\ AcquireLock(p, "wantPut", "write")
  /\ UNCHANGED <<fileVars, callVars, reply, histVars, boundVars>>

(* Shards go first, then the manifest; the order among shards is free. *)
NextToWrite(p, o) ==
  /\ o \in todo[p]
  /\ o \in Manifests => todo[p] = {o}

(* Mutant: any file at the final name is trusted. *)
KeepObjectUnverified(p, o) ==
  /\ pc[p] = "write"
  /\ NextToWrite(p, o)
  /\ disk[o] # "absent"
  /\ todo' = [todo EXCEPT ![p] = @ \ {o}]
  /\ UNCHANGED <<fileVars, lock, pc, key, graph, cur, batch, keep, got, reply,
                 histVars, boundVars>>

(* write_object: a file that already hashes to its name is kept as it is,  *)
(* and the batch does not learn of its directory.                          *)
KeepObject(p, o) ==
  /\ pc[p] = "write"
  /\ NextToWrite(p, o)
  /\ disk[o] = "good"
  /\ todo' = [todo EXCEPT ![p] = @ \ {o}]
  /\ UNCHANGED <<fileVars, lock, pc, key, graph, cur, batch, keep, got, reply,
                 histVars, boundVars>>

(* Otherwise Batch::write: temp file and writeout flush ... *)
WriteTemp(p, o) ==
  /\ NextToWrite(p, o)
  /\ disk[o] # "good"
  /\ Transition(p, "write", "rename")
  /\ tmp' = tmp \cup {o}
  /\ cur' = [cur EXCEPT ![p] = o]
  /\ UNCHANGED <<disk, crash, ref, refCrash, lock, key, graph, todo, batch, keep,
                 got, reply, histVars, boundVars>>

(* ... then rename over the final name.  Not durable before the commit:    *)
(* the new name, or its bytes, may still be lost.                          *)
RenameTemp(p) ==
  /\ cur[p] \in tmp
  /\ Transition(p, "rename", "write")
  /\ tmp' = tmp \ {cur[p]}
  /\ disk' = [disk EXCEPT ![cur[p]] = "good"]
  /\ crash' = [crash EXCEPT ![cur[p]] = @ \cup {"torn", "good"}]
  /\ batch' = [batch EXCEPT ![p] = @ \cup {DirOf[cur[p]]}]
  /\ todo' = [todo EXCEPT ![p] = @ \ {cur[p]}]
  /\ cur' = [cur EXCEPT ![p] = None]
  /\ UNCHANGED <<ref, refCrash, lock, key, graph, keep, got, reply, histVars,
                 boundVars>>

(* Mutant: the commit flushes nothing. *)
SyncedNothing(dirs) == [o \in Objects |-> crash[o]]

(* Batch::commit: fsync every touched directory, then one full flush. *)
Synced(dirs) ==
  [o \in Objects |-> IF DirOf[o] \in dirs THEN {disk[o]} ELSE crash[o]]

(* Mutant: the ref advances before the last object is in place. *)
CommitBatchEarly(p) ==
  /\ Transition(p, "write", "refTemp")
  /\ crash' = Synced(batch[p])
  /\ batch' = [batch EXCEPT ![p] = {}]
  /\ UNCHANGED <<disk, ref, refCrash, tmp, lock, key, graph, todo, cur, keep, got,
                 reply, histVars, boundVars>>

CommitBatch(p) ==
  /\ todo[p] = {}
  /\ Transition(p, "write", "refTemp")
  /\ crash' = Synced(batch[p])
  /\ batch' = [batch EXCEPT ![p] = {}]
  /\ UNCHANGED <<disk, ref, refCrash, tmp, lock, key, graph, todo, cur, keep, got,
                 reply, histVars, boundVars>>

(* write_durable of the ref: temp file and full flush, ... *)
WriteRefTemp(p) ==
  /\ Transition(p, "refTemp", "refRename")
  /\ tmp' = tmp \cup {key[p]}
  /\ UNCHANGED <<disk, crash, ref, refCrash, lock, callVars, reply, histVars,
                 boundVars>>

(* ... rename, the linearization point: readers now see the new graph, ... *)
PublishRef(p) ==
  /\ key[p] \in tmp
  /\ Transition(p, "refRename", "refSync")
  /\ tmp' = tmp \ {key[p]}
  /\ ref' = [ref EXCEPT ![key[p]] = graph[p]]
  /\ refCrash' = [refCrash EXCEPT ![key[p]] = @ \cup {graph[p]}]
  /\ intact' = intact \cup {key[p]}
  /\ ExcuseReaders(key[p])
  /\ UNCHANGED <<disk, crash, lock, callVars, reply, boundVars>>

(* ... and fsync of refs/, which covers every ref.  The lock drops. *)
SyncRefs(p) ==
  /\ Return(p, "refSync", "none")
  /\ refCrash' = [k \in Keys |-> {ref[k]}]
  /\ lock' = None
  /\ UNCHANGED <<disk, crash, ref, tmp, intact, boundVars>>

-------------------------------------------------------------------------------
(* prune_graphs_except. *)
BeginPrune(p, ks) ==
  /\ p \in Pruners
  /\ Transition(p, "idle", "wantPrune")
  /\ keep' = [keep EXCEPT ![p] = ks]
  /\ reply' = [reply EXCEPT ![p] = "none"]
  /\ UNCHANGED <<fileVars, lock, key, graph, todo, cur, batch, got, histVars,
                 boundVars>>

LockPrune(p) ==
  /\ AcquireLock(p, "wantPrune", "sweep")
  /\ UNCHANGED <<fileVars, callVars, reply, histVars, boundVars>>

(* "Under the write lock no write is in flight": every .tmp file goes. *)
SweepTemps(p) ==
  /\ Transition(p, "sweep", "dropRefs")
  /\ tmp' = {}
  /\ UNCHANGED <<disk, crash, ref, refCrash, lock, callVars, reply, histVars,
                 boundVars>>

Dropped(p) == {k \in Keys \ keep[p] : ref[k] # None}

DropRef(p, k) ==
  /\ pc[p] = "dropRefs"
  /\ k \in Dropped(p)
  /\ ref' = [ref EXCEPT ![k] = None]
  /\ refCrash' = [refCrash EXCEPT ![k] = @ \cup {None}]
  /\ ExcuseReaders(k)
  /\ UNCHANGED <<disk, crash, tmp, lock, pc, callVars, reply, intact, boundVars>>

(* The manifests that the surviving refs name and that read back whole. *)
Readable == {m \in Manifests : ref[m[1]] = m[2] /\ disk[m] = "good"}

(* Live: every manifest a ref names, and the shards of the readable ones   *)
(* in this binary's format.                                                *)
Live ==
  {m \in Manifests : ref[m[1]] = m[2]}
    \cup UNION {ShardsOf[m[2]] : m \in {n \in Readable : n[2] \in Current}}

MarkAs(p, victims) ==
  /\ Dropped(p) = {}
  /\ Transition(p, "dropRefs", "sweepObjects")
  /\ todo' = [todo EXCEPT ![p] = victims]
  /\ UNCHANGED <<fileVars, lock, key, graph, cur, batch, keep, got, reply,
                 histVars, boundVars>>

(* Mutant: an older manifest stops the sweep. *)
MarkUnlessForeign(p) ==
  MarkAs(p, IF \E m \in Readable : m[2] \notin Current THEN {} ELSE Present \ Live)

(* A manifest of a newer format names objects this binary cannot see: the  *)
(* sweep is given up.  Otherwise everything that is not live is deleted.   *)
MarkLive(p) ==
  MarkAs(p, IF \E m \in Readable : m[2] \in Newer THEN {} ELSE Present \ Live)

DeleteObject(p, o) ==
  /\ pc[p] = "sweepObjects"
  /\ o \in todo[p]
  /\ todo' = [todo EXCEPT ![p] = @ \ {o}]
  /\ disk' = [disk EXCEPT ![o] = "absent"]
  /\ crash' = [crash EXCEPT ![o] = @ \cup {"absent"}]
  /\ UNCHANGED <<ref, refCrash, tmp, lock, pc, key, graph, cur, batch, keep, got,
                 reply, histVars, boundVars>>

EndPrune(p) ==
  /\ todo[p] = {}
  /\ Return(p, "sweepObjects", "none")
  /\ lock' = None
  /\ UNCHANGED <<fileVars, intact, boundVars>>

-------------------------------------------------------------------------------
(* read_graph takes no lock. *)
ReadNoRef(p, k) ==
  /\ ref[k] = None
  /\ Return(p, "idle", "empty")
  /\ UNCHANGED <<fileVars, lock, intact, boundVars>>

ReadRef(p, k) ==
  /\ ref[k] # None
  /\ Transition(p, "idle", "readManifest")
  /\ key' = [key EXCEPT ![p] = k]
  /\ graph' = [graph EXCEPT ![p] = ref[k]]
  /\ got' = [got EXCEPT ![p] = {}]
  /\ reply' = [reply EXCEPT ![p] = "none"]
  /\ excused' = [excused EXCEPT ![p] = k \notin intact]
  /\ UNCHANGED <<fileVars, lock, todo, cur, batch, keep, intact, boundVars>>

(* Mutant: the bytes read are not hashed. *)
VerifiesNothing(o) == disk[o] # "absent"

(* read_object: a missing file, or one whose hash is not its name. *)
Verifies(o) == disk[o] = "good"

(* resolve_manifest: the header is gated on its format before the rest. *)
ReadManifest(p) ==
  /\ Transition(p, "readManifest", "readShards")
  /\ Verifies(<<key[p], graph[p]>>)
  /\ graph[p] \in Current
  /\ todo' = [todo EXCEPT ![p] = ShardsOf[graph[p]]]
  /\ UNCHANGED <<fileVars, lock, key, graph, cur, batch, keep, got, reply, histVars,
                 boundVars>>

RejectManifest(p) ==
  /\ pc[p] = "readManifest"
  /\ \/ /\ Verifies(<<key[p], graph[p]>>)
        /\ graph[p] \in Newer
        /\ Return(p, "readManifest", "format")
     \/ /\ ~ Verifies(<<key[p], graph[p]>>) \/ graph[p] \notin Current \cup Newer
        /\ Return(p, "readManifest", "corrupt")
  /\ UNCHANGED <<fileVars, lock, intact, boundVars>>

ReadShard(p, s) ==
  /\ pc[p] = "readShards"
  /\ s \in todo[p]
  /\ Verifies(s)
  /\ todo' = [todo EXCEPT ![p] = @ \ {s}]
  /\ got' = [got EXCEPT ![p] = @ \cup {<<s, disk[s]>>}]
  /\ UNCHANGED <<fileVars, lock, pc, key, graph, cur, batch, keep, reply, histVars,
                 boundVars>>

RejectShard(p, s) ==
  /\ s \in todo[p]
  /\ ~ Verifies(s)
  /\ Return(p, "readShards", "corrupt")
  /\ UNCHANGED <<fileVars, lock, intact, boundVars>>

(* What re-densifying the shards taken gives: the graph that was put, when *)
(* each of its shards was read whole.                                      *)
Rebuilt(p) ==
  IF got[p] = ShardsOf[graph[p]] \X {"good"} THEN graph[p] ELSE "mixed"

EndRead(p) ==
  /\ todo[p] = {}
  /\ Return(p, "readShards", Rebuilt(p))
  /\ UNCHANGED <<fileVars, lock, intact, boundVars>>

-------------------------------------------------------------------------------
(* A process dies, or an I/O error makes its call return early: the lock   *)
(* is released either way, and what was written so far stays, its Batch    *)
(* forgotten.                                                              *)
Kill(p) ==
  /\ pc[p] # "idle"
  /\ kills < MaxKills
  /\ kills' = kills + 1
  /\ Forget(p)
  /\ lock' = IF lock = p THEN None ELSE lock
  /\ reply' = [reply EXCEPT ![p] = "none"]
  /\ UNCHANGED <<fileVars, intact, losses>>

(* Power is lost: each file is left in one of its crash states, and every  *)
(* process is gone.                                                        *)
Unsettled == {o \in Objects : crash[o] # {disk[o]}}

PowerLoss ==
  /\ losses < MaxPowerLoss
  /\ losses' = losses + 1
  /\ \E f \in [Unsettled -> States] :
       /\ \A o \in Unsettled : f[o] \in crash[o]
       /\ disk' = [o \in Objects |-> IF o \in Unsettled THEN f[o] ELSE disk[o]]
  /\ ref' \in [Keys -> UNION {refCrash[k] : k \in Keys}]
  /\ \A k \in Keys : ref'[k] \in refCrash[k]
  /\ crash' = [o \in Objects |-> {disk'[o]}]
  /\ refCrash' = [k \in Keys |-> {ref'[k]}]
  /\ tmp' \in SUBSET tmp
  /\ lock' = None
  /\ pc' = [p \in Procs |-> "idle"]
  /\ key' = [p \in Procs |-> None]
  /\ graph' = [p \in Procs |-> None]
  /\ todo' = [p \in Procs |-> {}]
  /\ cur' = [p \in Procs |-> None]
  /\ batch' = [p \in Procs |-> {}]
  /\ keep' = [p \in Procs |-> {}]
  /\ got' = [p \in Procs |-> {}]
  /\ excused' = [p \in Procs |-> FALSE]
  /\ reply' = [p \in Procs |-> "none"]
  /\ intact' = {}
  /\ UNCHANGED kills

-------------------------------------------------------------------------------
PutStep(p) ==
  \/ \E k \in Keys, g \in Graphs : BeginPut(p, k, g)
  \/ LockPut(p)
  \/ \E o \in Objects : KeepObject(p, o) \/ WriteTemp(p, o)
  \/ RenameTemp(p)
  \/ CommitBatch(p)
  \/ WriteRefTemp(p)
  \/ PublishRef(p)
  \/ SyncRefs(p)

PruneStep(p) ==
  \/ \E ks \in KeepSets : BeginPrune(p, ks)
  \/ LockPrune(p)
  \/ SweepTemps(p)
  \/ \E k \in Keys : DropRef(p, k)
  \/ MarkLive(p)
  \/ \E o \in Objects : DeleteObject(p, o)
  \/ EndPrune(p)

ReadStep(p) ==
  \/ \E k \in Keys : ReadNoRef(p, k) \/ ReadRef(p, k)
  \/ ReadManifest(p)
  \/ RejectManifest(p)
  \/ \E s \in Shards : ReadShard(p, s) \/ RejectShard(p, s)
  \/ EndRead(p)

Next ==
  \/ \E p \in Procs : PutStep(p) \/ PruneStep(p) \/ ReadStep(p)
                        \/ LockTimeout(p) \/ Kill(p)
  \/ PowerLoss

Spec == Init /\ [][Next]_vars

(* A running process keeps taking steps: its calls do not block, except in *)
(* WriteLock::acquire, whose polling loop ends by LOCK_TIMEOUT.  Starting  *)
(* a call is the caller's choice, dying is nobody's duty.                  *)
Continues(p) ==
  pc[p] # "idle" /\ (PutStep(p) \/ PruneStep(p) \/ ReadStep(p) \/ LockTimeout(p))

FairSpec == Spec /\ \A p \in Procs : WF_vars(Continues(p))

-------------------------------------------------------------------------------
(* Every variable has its type.  No reply is "mixed": a read never returns *)
(* a graph with a shard missing or torn.                                   *)
PCs == {"idle", "wantPut", "write", "rename", "refTemp", "refRename", "refSync",
        "wantPrune", "sweep", "dropRefs", "sweepObjects",
        "readManifest", "readShards"}

Replies == {"none", "empty", "format", "corrupt"}

TypeOK ==
  /\ disk \in [Objects -> States]
  /\ crash \in [Objects -> SUBSET States]
  /\ ref \in [Keys -> Graphs \cup {None}]
  /\ refCrash \in [Keys -> SUBSET (Graphs \cup {None})]
  /\ tmp \subseteq Objects \cup Keys
  /\ lock \in Procs \cup {None}
  /\ pc \in [Procs -> PCs]
  /\ key \in [Procs -> Keys \cup {None}]
  /\ graph \in [Procs -> Graphs \cup {None}]
  /\ todo \in [Procs -> SUBSET Objects]
  /\ cur \in [Procs -> Objects \cup {None}]
  /\ batch \in [Procs -> SUBSET Dirs]
  /\ keep \in [Procs -> SUBSET Keys]
  /\ got \in [Procs -> SUBSET (Objects \X States)]
  /\ reply \in [Procs -> Graphs \cup Replies]
  /\ excused \in [Procs -> BOOLEAN]
  /\ intact \subseteq Keys
  /\ kills \in Nat /\ losses \in Nat

(* The ref of a key published since the last power loss names a closure    *)
(* that is whole on disk, whatever puts, prunes, kills and I/O errors      *)
(* interleave with it, and even when a torn object was at its final name:  *)
(* "a torn object left at its final name by a crash is replaced".  Shards  *)
(* of a manifest older than this binary are not kept.                      *)
RefClosure ==
  \A k \in intact : ref[k] \in Current \cup Newer => ClosureGood(k, ref[k])

(* "Under the write lock no write is in flight, so every temp file is      *)
(* debris": the sweep never takes the temp file a writer is to rename.     *)
TempNotSwept ==
  \A p \in Procs : /\ pc[p] = "rename" => cur[p] \in tmp
                   /\ pc[p] = "refRename" => key[p] \in tmp

(* "A reader therefore never observes a ref naming an object that is not   *)
(* durably in place": no power loss could take an object a ref names.      *)
RefsAreDurable ==
  \A k \in intact : ref[k] \in Current =>
    \A o \in Closure(k, ref[k]) : crash[o] = {"good"}

(* Only a killed writer can break that: what it renamed and never flushed  *)
(* is kept by the next writer, whose batch does not know of it.            *)
RefsAreDurableUnlessKilled == kills = 0 => RefsAreDurable

(* When prune_graphs_except returns, what refs name is whole, a newer      *)
(* format's graphs included, and no dead object is left, unless a manifest *)
(* of such a format made it keep everything.                               *)
PruneTakesTheGarbage ==
  [][\A p \in Procs :
       pc[p] = "sweepObjects" /\ EndPrune(p) =>
         /\ RefClosure
         /\ Present \subseteq Live \/ \E m \in Readable : m[2] \in Newer]_vars

(* The detailed store implements the abstract map of graphs. *)
Pending(p) ==
  IF pc[p] \in {"readManifest", "readShards"}
  THEN [st |-> "reading", key |-> key[p], val |-> graph[p], excused |-> excused[p]]
  ELSE [st |-> "idle"]

Abstract == INSTANCE GraphMap WITH
  Readers <- Procs, map <- ref, pend <- [p \in Procs |-> Pending(p)]

ImplementsGraphMap == Abstract!GMSpec

(* Every call returns: no call waits for ever, for the lock or otherwise. *)
CallsReturn == \A p \in Procs : pc[p] # "idle" ~> pc[p] = "idle"
===============================================================================
