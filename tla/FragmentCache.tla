----------------------------- MODULE FragmentCache -----------------------------
(***************************************************************************)
(* The Layer-1 fragment cache: extract_and_link (cgx-index/src/pipeline.rs)*)
(* over the fragment half of the object store (fragment, put_fragments in  *)
(* cgx-store/src/object_store.rs) or over an in-memory overlay of it       *)
(* (cgx-store/src/overlay.rs), by processes of several cgx versions, with  *)
(* kills and power losses.                                                 *)
(*                                                                         *)
(* A file is its blob and its context: the path, package and manifest that *)
(* extract sees.  Facts are a function of the file and of the version of   *)
(* the frontend.  A fragment is renamed into place whole, under the lock,  *)
(* but never flushed: a power loss may tear it, lose it or bring back what *)
(* it replaced.                                                            *)
(***************************************************************************)
EXTENDS Integers

CONSTANTS
  Procs,       \* cgx processes
  Overlays,    \* those whose runs may index a working directory, over an overlay
  VersionOf,   \* VersionOf[p]: the frontend version of p's binary
  Blobs, Contexts,
  Files,       \* source files, among Blobs \X Contexts
  SourceSets,  \* what a run may be asked to index
  MaxFailures, \* bound: kills and power losses
  None

Versions == {VersionOf[p] : p \in Procs}
Keys == Blobs \X Contexts

ASSUME OverlaysAssumption == Overlays \subseteq Procs
ASSUME VersionOfAssumption == VersionOf \in [Procs -> Nat]
ASSUME FilesAssumption == Files \subseteq Blobs \X Contexts
ASSUME SourceSetsAssumption == SourceSets \subseteq SUBSET Files
ASSUME NoneAssumption == None \notin Procs
ASSUME BoundsAssumption == MaxFailures \in Nat

(* What a frontend of version v finds in file f. *)
FactsOf(f, v) == [file |-> f, version |-> v]

NoFragment == [st |-> "absent", version |-> 0, facts |-> {}]
TornFragment == [st |-> "torn", version |-> 0, facts |-> {}]
Seal(v, fs) == [st |-> "sealed", version |-> v, facts |-> {fs}]

VARIABLES
  frag,     \* frag[k]: the fragment file of key k
  crash,    \* crash[k]: what a power loss may leave of it
  lock,     \* the store's write lock
  pc,       \* pc[p]: where p is in extract_and_link
  sources,  \* sources[p]: the files of p's run
  left,     \* left[p]: files still to look up or to put
  misses,   \* misses[p]: files that must be extracted
  facts,    \* facts[p]: the files prepared for the link, with their facts
  clean,    \* history: no other version and no power loss since p's run began
  failures  \* kills and power losses so far

storeVars == <<frag, crash>>
runVars == <<sources, left, misses, facts>>
vars == <<storeVars, lock, pc, runVars, clean, failures>>

(* Sources are looked up, and misses put, in one order: that of the paths. *)
IsNext(p, f) == f \in left[p] /\ f = CHOOSE g \in left[p] : TRUE

Goto(p, from, to) == pc[p] = from /\ pc' = [pc EXCEPT ![p] = to]

-------------------------------------------------------------------------------
(* Mutant: the key is the blob's alone. *)
KeyOf_Blob(f) == <<f[1], CHOOSE c \in Contexts : TRUE>>

(* FragmentKey::derive of cache_identity: every field extract may read. *)
KeyOf(f) == <<f[1], f[2]>>

(* open_fragment: a fragment that fails its checksum is none. *)
Opens(fragment) == fragment.st = "sealed"

(* Mutant: any fragment that opens is a hit. *)
IsHit_AnyVersion(fragment, v) == Opens(fragment)

IsHit(fragment, v) == Opens(fragment) /\ fragment.version = v

(* The caches earlier runs, of whatever version, left behind. *)
Init ==
  /\ \E had \in SUBSET Files, v \in Versions :
       frag = [k \in Keys |->
                 IF \E f \in had : KeyOf(f) = k
                 THEN Seal(v, FactsOf(CHOOSE f \in had : KeyOf(f) = k, v))
                 ELSE NoFragment]
  /\ crash = [k \in Keys |-> {frag[k]}]
  /\ lock = None
  /\ pc = [p \in Procs |-> "idle"]
  /\ sources = [p \in Procs |-> {}]
  /\ left = [p \in Procs |-> {}]
  /\ misses = [p \in Procs |-> {}]
  /\ facts = [p \in Procs |-> {}]
  /\ clean = [p \in Procs |-> FALSE]
  /\ failures = 0

(* extract_and_link *)
Start(p, S) ==
  /\ Goto(p, "idle", "lookup")
  /\ sources' = [sources EXCEPT ![p] = S]
  /\ left' = [left EXCEPT ![p] = S]
  /\ clean' = [clean EXCEPT ![p] = TRUE]
  /\ UNCHANGED <<storeVars, lock, misses, facts, failures>>

(* Pass 1: one lookup per file, without the lock.  An overlay is empty     *)
(* when its run begins, so it reads through to the base.                   *)
Lookup(p, f) ==
  /\ pc[p] = "lookup"
  /\ IsNext(p, f)
  /\ left' = [left EXCEPT ![p] = @ \ {f}]
  /\ IF IsHit(frag[KeyOf(f)], VersionOf[p])
     THEN /\ facts' = [facts EXCEPT ![p] = @ \cup (frag[KeyOf(f)].facts \X {f})]
          /\ UNCHANGED misses
     ELSE /\ misses' = [misses EXCEPT ![p] = @ \cup {f}]
          /\ UNCHANGED facts
  /\ UNCHANGED <<storeVars, lock, pc, sources, clean, failures>>

(* Pass 2: every miss is extracted, in parallel, by this binary. *)
Extract(p) ==
  /\ left[p] = {}
  /\ Goto(p, "lookup", IF misses[p] = {} THEN "link" ELSE "put")
  /\ facts' = [facts EXCEPT ![p] = @ \cup {<<FactsOf(f, VersionOf[p]), f>> : f \in misses[p]}]
  /\ UNCHANGED <<storeVars, lock, sources, left, misses, clean, failures>>

Forget(p) ==
  /\ pc' = [pc EXCEPT ![p] = "idle"]
  /\ sources' = [sources EXCEPT ![p] = {}]
  /\ left' = [left EXCEPT ![p] = {}]
  /\ misses' = [misses EXCEPT ![p] = {}]
  /\ facts' = [facts EXCEPT ![p] = {}]
  /\ clean' = [clean EXCEPT ![p] = FALSE]

(* One file that a frontend refuses fails the run: nothing is put. *)
ExtractFails(p) ==
  /\ pc[p] = "lookup"
  /\ left[p] = {}
  /\ misses[p] # {}
  /\ Forget(p)
  /\ UNCHANGED <<storeVars, lock, failures>>

(* Only its put tells an overlay's run from another: put_fragments writes  *)
(* to memory, and takes no lock.                                           *)
PutOverlay(p) ==
  /\ p \in Overlays
  /\ Goto(p, "put", "link")
  /\ misses' = [misses EXCEPT ![p] = {}]
  /\ UNCHANGED <<storeVars, lock, sources, left, facts, clean, failures>>

(* put_fragments: the whole batch under the write lock, *)
LockPut(p) ==
  /\ lock = None
  /\ Goto(p, "put", "write")
  /\ lock' = p
  /\ left' = [left EXCEPT ![p] = misses[p]]
  /\ misses' = [misses EXCEPT ![p] = {}]
  /\ UNCHANGED <<storeVars, sources, facts, clean, failures>>

LockTimeout(p) ==
  /\ pc[p] = "put"
  /\ lock # None
  /\ Forget(p)
  /\ UNCHANGED <<storeVars, lock, failures>>

(* Mutant: whatever opens is kept. *)
Keeps_AnyVersion(p, f) == Opens(frag[KeyOf(f)])

(* Mutant: every fragment is written again. *)
Keeps_Nothing(p, f) == FALSE

(* a fragment of this version is kept as it is, *)
Keeps(p, f) == Opens(frag[KeyOf(f)]) /\ frag[KeyOf(f)].version = VersionOf[p]

KeepFragment(p, f) ==
  /\ pc[p] = "write"
  /\ IsNext(p, f)
  /\ Keeps(p, f)
  /\ left' = [left EXCEPT ![p] = @ \ {f}]
  /\ UNCHANGED <<storeVars, lock, pc, sources, misses, facts, clean, failures>>

(* any other is replaced, without a flush. *)
WriteFragment(p, f) ==
  /\ pc[p] = "write"
  /\ IsNext(p, f)
  /\ ~ Keeps(p, f)
  /\ LET new == Seal(VersionOf[p], FactsOf(f, VersionOf[p])) IN
     /\ frag' = [frag EXCEPT ![KeyOf(f)] = new]
     /\ crash' = [crash EXCEPT ![KeyOf(f)] = @ \cup {new, TornFragment}]
  /\ left' = [left EXCEPT ![p] = @ \ {f}]
  /\ clean' = [q \in Procs |-> clean[q] /\ VersionOf[q] = VersionOf[p]]
  /\ UNCHANGED <<lock, pc, sources, misses, facts, failures>>

UnlockPut(p) ==
  /\ left[p] = {}
  /\ Goto(p, "write", "link")
  /\ lock' = None
  /\ UNCHANGED <<storeVars, runVars, clean, failures>>

(* link takes the prepared files; the run goes on from there. *)
Link(p) ==
  /\ pc[p] = "link"
  /\ Forget(p)
  /\ UNCHANGED <<storeVars, lock, failures>>

Kill(p) ==
  /\ pc[p] # "idle"
  /\ failures < MaxFailures
  /\ failures' = failures + 1
  /\ Forget(p)
  /\ lock' = IF lock = p THEN None ELSE lock
  /\ UNCHANGED storeVars

(* The system writes a fragment back when it pleases. *)
WriteBack(k) ==
  /\ crash' = [crash EXCEPT ![k] = {frag[k]}]
  /\ UNCHANGED <<frag, lock, pc, runVars, clean, failures>>

(* Every process dies, and each fragment is one of what may be left. *)
PowerLoss ==
  /\ failures < MaxFailures
  /\ failures' = failures + 1
  /\ frag' \in [Keys -> UNION {crash[k] : k \in Keys}]
  /\ \A k \in Keys : frag'[k] \in crash[k]
  /\ crash' = [k \in Keys |-> {frag'[k]}]
  /\ lock' = None
  /\ pc' = [p \in Procs |-> "idle"]
  /\ sources' = [p \in Procs |-> {}]
  /\ left' = [p \in Procs |-> {}]
  /\ misses' = [p \in Procs |-> {}]
  /\ facts' = [p \in Procs |-> {}]
  /\ clean' = [p \in Procs |-> FALSE]

Next ==
  \/ \E p \in Procs :
       \/ \E S \in SourceSets : Start(p, S)
       \/ \E f \in Files : Lookup(p, f) \/ KeepFragment(p, f) \/ WriteFragment(p, f)
       \/ Extract(p) \/ ExtractFails(p)
       \/ PutOverlay(p) \/ LockPut(p) \/ LockTimeout(p) \/ UnlockPut(p)
       \/ Link(p) \/ Kill(p)
  \/ \E k \in Keys : WriteBack(k)
  \/ PowerLoss

Spec == Init /\ [][Next]_vars

-------------------------------------------------------------------------------
Facts == [file : Files, version : Versions]
Fragments == [st : {"absent", "torn", "sealed"}, version : Versions \cup {0},
              facts : SUBSET Facts]

(* Every variable has its type, and the lock is held by the one process    *)
(* that writes fragments.                                                  *)
TypeOK ==
  /\ frag \in [Keys -> Fragments]
  /\ crash \in [Keys -> SUBSET Fragments]
  /\ \A k \in Keys : frag[k] \in crash[k]
  /\ pc \in [Procs -> {"idle", "lookup", "put", "write", "link"}]
  /\ \A p \in Procs : pc[p] = "write" <=> lock = p
  /\ lock \in Procs \cup {None}
  /\ sources \in [Procs -> SUBSET Files]
  /\ left \in [Procs -> SUBSET Files]
  /\ misses \in [Procs -> SUBSET Files]
  /\ facts \in [Procs -> SUBSET (Facts \X Files)]
  /\ clean \in [Procs -> BOOLEAN]
  /\ failures \in Nat

(* A fragment that opens, or would after a power loss, holds what the      *)
(* frontend of its version finds in the one file that has its key.         *)
Honest(k, fragment) ==
  Opens(fragment) => fragment.facts = {FactsOf(k, fragment.version)}

FragmentsAreHonest == \A k \in Keys : \A fragment \in crash[k] : Honest(k, fragment)

(* Whatever the cache held, was torn to or is overwritten with while the   *)
(* run is at work, what is linked is what this binary would extract from   *)
(* every file of the run: no other file's facts, and no other version's.   *)
LinkedFactsAreOwn ==
  \A p \in Procs : pc[p] = "link" =>
    facts[p] = {<<FactsOf(f, VersionOf[p]), f>> : f \in sources[p]}

(* "Re-running on an unchanged tree performs no extraction": when a run    *)
(* reaches its link, every one of its files is in the cache at its         *)
(* version, unless another version or a power loss got in between.         *)
RunLeavesCacheWarm ==
  \A p \in Procs \ Overlays : pc[p] = "link" /\ clean[p] =>
    \A f \in sources[p] : IsHit(frag[KeyOf(f)], VersionOf[p])

(* "An unchanged file re-puts to a true no-op": a fragment is only put at  *)
(* the risk of being torn again where the one there is of another version  *)
(* or does not open.                                                       *)
RewritesOnlyStale ==
  [][\A k \in Keys, v \in Versions :
       IsHit(frag[k], v) /\ ~ (crash'[k] \subseteq crash[k]) =>
         frag'[k].version # v]_vars
===============================================================================
