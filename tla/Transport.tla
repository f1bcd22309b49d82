------------------------------- MODULE Transport -------------------------------
(***************************************************************************)
(* The ref-overlay transport (cgx-transport/src/lib.rs): cgx push promotes *)
(* the committable part of .cgx into one parentless git commit, moves the  *)
(* clone's refs/cgx/index to it by compare-and-swap and pushes that ref;   *)
(* cgx pull fetches the ref and writes its tree back into .cgx.  Neither   *)
(* takes the store's lock, so index runs in the same clone interleave with *)
(* their steps.                                                            *)
(*                                                                         *)
(* A commit is determined by its tree (identity, date and message are      *)
(* pinned, no parent), so it is its tree here: objects, refs, HEAD.json.   *)
(* An index run's locked part is one step: ObjectStore has its steps.      *)
(***************************************************************************)
EXTENDS Naturals

CONSTANTS
  Clones,     \* clones of one repository
  Procs,      \* cgx processes
  At,         \* At[p]: the clone p runs in
  Keys, Graphs, Shards,
  ShardsOf,   \* ShardsOf[g]: the shard objects of graph g
  Newer,      \* graphs another cgx wrote, in a store format this one lacks
  MaxTries,   \* advance_ref's attempts: 8 in the code
  MaxIndex,   \* bound: index runs
  MaxKills,   \* bound: processes killed
  None

Manifests == Keys \X Graphs
Objects == Shards \cup Manifests
States == {"absent", "torn", "good"}
Closure(k, g) == {<<k, g>>} \cup ShardsOf[g]

ASSUME ShardsOfAssumption == ShardsOf \in [Graphs -> SUBSET Shards]
ASSUME AtAssumption == At \in [Procs -> Clones]
ASSUME NewerAssumption == Newer \subseteq Graphs
ASSUME NoneAssumption == None \notin Graphs /\ None \notin Keys
ASSUME NamesAssumption == Shards \cap Manifests = {}
ASSUME BoundsAssumption == MaxTries \in Nat \ {0} /\ MaxIndex \in Nat /\ MaxKills \in Nat

Refs == [Keys -> Graphs \cup {None}]
Commits == [objs : [Objects -> States], refs : Refs, ptr : Keys \cup {None}]

VARIABLES
  disk,       \* disk[c][o]: object o in clone c's .cgx
  ref,        \* ref[c][k]: the graph that c's ref file of key k names
  ptr,        \* ptr[c]: the key c's HEAD.json names, or None
  cgxRef,     \* cgxRef[c]: refs/cgx/index in clone c: a commit, or None
  remote,     \* refs/cgx/index on the remote
  pc, loc,    \* where p is in its call, and the call's locals
  raced,      \* history: the clones where an index run overlapped a pull
  indexed, kills

cloneVars == <<disk, ref, ptr>>
gitVars == <<cgxRef, remote>>
boundVars == <<indexed, kills>>
vars == <<cloneVars, gitVars, pc, loc, raced, boundVars>>

NoRefs == [k \in Keys |-> None]
NoObjects == [o \in Objects |-> "absent"]
Empty == [objs |-> NoObjects, refs |-> NoRefs, ptr |-> None]

\* left: what the loop p is in has yet to do; tree: what p has read so far
NoCall == [left |-> {}, tree |-> Empty, seen |-> None, tries |-> 0]

Goto(p, to) == pc' = [pc EXCEPT ![p] = to]
Set(p, l) == loc' = [loc EXCEPT ![p] = l]
Forget(p) == Goto(p, "idle") /\ Set(p, NoCall)

Named(refs) == {k \in Keys : refs[k] # None}
Reachable(refs) == UNION {Closure(k, refs[k]) : k \in Named(refs)}

-------------------------------------------------------------------------------
(* Clones as index runs left them, with the shards torn by a power loss. *)
LeftIndexed(keys, gs, torn) ==
  /\ ref = [c \in Clones |-> [k \in Keys |-> IF k = keys[c] THEN gs[c] ELSE None]]
  /\ disk = [c \in Clones |-> [o \in Objects |->
               IF o \notin Reachable(ref[c]) THEN "absent"
               ELSE IF o \in torn THEN "torn" ELSE "good"]]
  /\ ptr = [c \in Clones |-> IF gs[c] = None THEN None ELSE keys[c]]

(* Nothing is pushed yet, or a commit of another cgx version. *)
Init ==
  /\ \E keys \in [Clones -> Keys], gs \in [Clones -> (Graphs \ Newer) \cup {None}],
        torn \in SUBSET Shards : LeftIndexed(keys, gs, torn)
  /\ cgxRef = [c \in Clones |-> None]
  /\ remote \in {None} \cup
       {[objs |-> [o \in Objects |-> IF o \in Closure(k, g) THEN "good" ELSE "absent"],
         refs |-> [NoRefs EXCEPT ![k] = g], ptr |-> k] : k \in Keys, g \in Newer}
  /\ pc = [p \in Procs |-> "idle"]
  /\ loc = [p \in Procs |-> NoCall]
  /\ raced = {} /\ indexed = 0 /\ kills = 0

(* An index run, under the lock: put_graph repairs what it writes, and     *)
(* prune_graphs_except keeps only the closure of this graph.               *)
Index(p, k, g) ==
  LET c == At[p] IN
  /\ pc[p] = "idle"
  /\ indexed < MaxIndex
  /\ indexed' = indexed + 1
  /\ ref' = [ref EXCEPT ![c] = [NoRefs EXCEPT ![k] = g]]
  /\ disk' = [disk EXCEPT ![c] =
                [o \in Objects |-> IF o \in Closure(k, g) THEN "good" ELSE "absent"]]
  /\ Goto(p, "pointer")
  /\ Set(p, [NoCall EXCEPT !.tree.ptr = k])
  /\ UNCHANGED <<ptr, gitVars, kills>>

(* Its write_pointer, after the lock. *)
WritePointer(p) ==
  /\ pc[p] = "pointer"
  /\ ptr' = [ptr EXCEPT ![At[p]] = loc[p].tree.ptr]
  /\ Forget(p)
  /\ UNCHANGED <<disk, ref, gitVars, boundVars>>

Fail(p) ==
  /\ Forget(p)
  /\ UNCHANGED <<cloneVars, gitVars, boundVars>>

-------------------------------------------------------------------------------
(* push: build_committable_tree lists refs/, ... *)
BeginPush(p) ==
  /\ pc[p] = "idle"
  /\ Goto(p, "readRefs")
  /\ Set(p, [NoCall EXCEPT !.left = Named(ref[At[p]])])
  /\ UNCHANGED <<cloneVars, gitVars, boundVars>>

(* A ref file can be pushed if it is still there and its manifest is of    *)
(* this binary's format and decodes.                                       *)
Walkable(c, k) ==
  /\ ref[c][k] # None
  /\ disk[c][<<k, ref[c][k]>>] = "good"
  /\ ref[c][k] \notin Newer

(* ... reads each ref and the manifest it names, failing if it cannot, ... *)
ReadRef(p, k) ==
  /\ pc[p] = "readRefs"
  /\ k \in loc[p].left
  /\ Walkable(At[p], k)
  /\ Set(p, [loc[p] EXCEPT !.left = @ \ {k}, !.tree.refs[k] = ref[At[p]][k]])
  /\ UNCHANGED <<cloneVars, gitVars, pc, boundVars>>

ReadRefFails(p) ==
  /\ pc[p] = "readRefs"
  /\ \E k \in loc[p].left : ~ Walkable(At[p], k)
  /\ Fail(p)

BeginPromote(p) ==
  /\ pc[p] = "readRefs"
  /\ loc[p].left = {}
  /\ Goto(p, "promote")
  /\ Set(p, [loc[p] EXCEPT !.left = Reachable(loc[p].tree.refs)])
  /\ UNCHANGED <<cloneVars, gitVars, boundVars>>

(* Mutant: an object that is gone is left out of the tree. *)
Promote_SkipsMissing(p, o) ==
  /\ pc[p] = "promote"
  /\ o \in loc[p].left
  /\ Set(p, [loc[p] EXCEPT !.left = @ \ {o}, !.tree.objs[o] = disk[At[p]][o]])
  /\ UNCHANGED <<cloneVars, gitVars, pc, boundVars>>

(* ... and promotes the bytes of every object, as they are: not verified.  *)
Promote(p, o) ==
  /\ pc[p] = "promote"
  /\ o \in loc[p].left
  /\ disk[At[p]][o] # "absent"
  /\ Set(p, [loc[p] EXCEPT !.left = @ \ {o}, !.tree.objs[o] = disk[At[p]][o]])
  /\ UNCHANGED <<cloneVars, gitVars, pc, boundVars>>

PromoteFails(p) ==
  /\ pc[p] = "promote"
  /\ \E o \in loc[p].left : disk[At[p]][o] = "absent"
  /\ Fail(p)

(* HEAD.json is read last. *)
ReadHead(p) ==
  /\ pc[p] = "promote"
  /\ loc[p].left = {}
  /\ loc[p].tree.objs # NoObjects
  /\ Goto(p, "parse")
  /\ Set(p, [loc[p] EXCEPT !.tree.ptr = ptr[At[p]]])
  /\ UNCHANGED <<cloneVars, gitVars, boundVars>>

NothingIndexed(p) ==
  /\ pc[p] = "promote"
  /\ loc[p].left = {}
  /\ loc[p].tree.objs = NoObjects
  /\ Fail(p)

(* advance_ref: rev-parse, and nothing to do if it is there already, ... *)
ParseRef(p) ==
  /\ pc[p] = "parse"
  /\ Goto(p, IF cgxRef[At[p]] = loc[p].tree THEN "send" ELSE "swap")
  /\ Set(p, [loc[p] EXCEPT !.seen = cgxRef[At[p]]])
  /\ UNCHANGED <<cloneVars, gitVars, boundVars>>

(* ... update-ref with the value seen as expected, ... *)
SwapRef(p) ==
  /\ pc[p] = "swap"
  /\ cgxRef[At[p]] = loc[p].seen
  /\ cgxRef' = [cgxRef EXCEPT ![At[p]] = loc[p].tree]
  /\ Goto(p, "send")
  /\ UNCHANGED <<cloneVars, remote, loc, boundVars>>

(* ... and again after a lost swap, MaxTries times in all. *)
SwapLost(p) ==
  /\ pc[p] = "swap"
  /\ cgxRef[At[p]] # loc[p].seen
  /\ IF loc[p].tries + 1 < MaxTries
     THEN Goto(p, "parse") /\ Set(p, [loc[p] EXCEPT !.tries = @ + 1])
     ELSE Forget(p)
  /\ UNCHANGED <<cloneVars, gitVars, boundVars>>

(* git push +refs/cgx/index: what the ref names by now is published. *)
Send(p) ==
  /\ pc[p] = "send"
  /\ remote' = cgxRef[At[p]]
  /\ Forget(p)
  /\ UNCHANGED <<cloneVars, cgxRef, boundVars>>

-------------------------------------------------------------------------------
(* pull: a forced fetch; no ref on the remote is an error. *)
Fetch(p) ==
  /\ pc[p] = "idle"
  /\ remote # None
  /\ cgxRef' = [cgxRef EXCEPT ![At[p]] = remote]
  /\ Goto(p, "list")
  /\ UNCHANGED <<cloneVars, remote, loc, boundVars>>

ListTree(p) ==
  /\ pc[p] = "list"
  /\ Goto(p, "objects")
  /\ Set(p, [NoCall EXCEPT !.tree = cgxRef[At[p]],
                           !.left = {o \in Objects : cgxRef[At[p]].objs[o] # "absent"}])
  /\ UNCHANGED <<cloneVars, gitVars, boundVars>>

(* Mutant: the bytes are not hashed. *)
Intact_Unchecked(s) == s # "absent"

Intact(s) == s = "good"

(* Each object whose bytes hash to its name is written, *)
PullObject(p, o) ==
  /\ pc[p] = "objects"
  /\ o \in loc[p].left
  /\ Intact(loc[p].tree.objs[o])
  /\ disk' = [disk EXCEPT ![At[p]][o] = loc[p].tree.objs[o]]
  /\ Set(p, [loc[p] EXCEPT !.left = @ \ {o}])
  /\ UNCHANGED <<ref, ptr, gitVars, pc, boundVars>>

(* one that does not ends the pull; *)
PullRejects(p) ==
  /\ pc[p] = "objects"
  /\ \E o \in loc[p].left : ~ Intact(loc[p].tree.objs[o])
  /\ Fail(p)

(* Mutant: the pointers do not wait for the objects. *)
PullHead_Early(p) ==
  /\ pc[p] = "objects"
  /\ ptr' = IF loc[p].tree.ptr = None THEN ptr
            ELSE [ptr EXCEPT ![At[p]] = loc[p].tree.ptr]
  /\ Goto(p, "refs")
  /\ Set(p, [loc[p] EXCEPT !.left = Named(loc[p].tree.refs)])
  /\ UNCHANGED <<disk, ref, gitVars, boundVars>>

(* the pointers follow in the order of their paths: HEAD.json, ... *)
PullHead(p) ==
  /\ pc[p] = "objects"
  /\ loc[p].left = {}
  /\ ptr' = IF loc[p].tree.ptr = None THEN ptr
            ELSE [ptr EXCEPT ![At[p]] = loc[p].tree.ptr]
  /\ Goto(p, "refs")
  /\ Set(p, [loc[p] EXCEPT !.left = Named(loc[p].tree.refs)])
  /\ UNCHANGED <<disk, ref, gitVars, boundVars>>

(* ... then refs/*.  Local refs that the tree lacks stay. *)
PullRef(p, k) ==
  /\ pc[p] = "refs"
  /\ k \in loc[p].left
  /\ ref' = [ref EXCEPT ![At[p]][k] = loc[p].tree.refs[k]]
  /\ Set(p, [loc[p] EXCEPT !.left = @ \ {k}])
  /\ UNCHANGED <<disk, ptr, gitVars, pc, boundVars>>

EndPull(p) ==
  /\ pc[p] = "refs"
  /\ loc[p].left = {}
  /\ Forget(p)
  /\ UNCHANGED <<cloneVars, gitVars, boundVars>>

Kill(p) ==
  /\ pc[p] # "idle"
  /\ kills < MaxKills
  /\ kills' = kills + 1
  /\ Forget(p)
  /\ UNCHANGED <<cloneVars, gitVars, indexed>>

-------------------------------------------------------------------------------
PushStep(p) ==
  \/ \E k \in Keys : ReadRef(p, k)
  \/ ReadRefFails(p)
  \/ BeginPromote(p)
  \/ \E o \in Objects : Promote(p, o)
  \/ PromoteFails(p)
  \/ ReadHead(p) \/ NothingIndexed(p)
  \/ ParseRef(p) \/ SwapRef(p) \/ SwapLost(p)
  \/ Send(p)

PullStep(p) ==
  \/ ListTree(p)
  \/ \E o \in Objects : PullObject(p, o)
  \/ PullRejects(p)
  \/ PullHead(p)
  \/ \E k \in Keys : PullRef(p, k)
  \/ EndPull(p)

Begin(p) ==
  \/ \E k \in Keys, g \in Graphs \ Newer : Index(p, k, g)
  \/ BeginPush(p)
  \/ Fetch(p)

Pulling(p) == pc[p] \in {"list", "objects", "refs"}

(* An index run that prunes while a pull of its clone is at work, or that  *)
(* has yet to write its pointer when one is, overlaps it.                  *)
Overlapping(c) ==
  \E p, q \in Procs : p # q /\ At[p] = c /\ At[q] = c /\ pc[p] = "pointer" /\ Pulling(q)

ProcStep(p) ==
  /\ Begin(p) \/ WritePointer(p) \/ PushStep(p) \/ PullStep(p) \/ Kill(p)
  /\ raced' = raced \cup {c \in Clones : Overlapping(c)'}

Next == \E p \in Procs : ProcStep(p)

Spec == Init /\ [][Next]_vars

-------------------------------------------------------------------------------
PCs == {"idle", "pointer", "readRefs", "promote", "parse", "swap", "send",
        "list", "objects", "refs"}

(* What is published, here or on the remote, is never empty and holds an   *)
(* object for every object its refs reach: a push that meets an index run  *)
(* half way fails, it does not publish part of a graph.  In a clone, "the  *)
(* pointers that name them are written only after" the objects: a ref file *)
(* never names a closure with an object missing.  A pull takes no lock, so *)
(* the prune of an index run that overlaps one breaks that; nothing else   *)
(* can, a pull that is killed or refuses an object included.               *)
RefsKeepClosureUnlessRaced ==
  /\ \A t \in ({remote} \cup {cgxRef[c] : c \in Clones}) \ {None} :
       Named(t.refs) # {} /\ \A o \in Reachable(t.refs) : t.objs[o] # "absent"
  /\ \A c \in Clones \ raced : \A o \in Reachable(ref[c]) : disk[c][o] # "absent"

(* When a pull returns, every key of the remote's tree has a graph here,   *)
(* and a whole one, whatever was torn or missing here before and whatever  *)
(* other pulls were at work, unless an index run overlapped one.           *)
PullMaterializes ==
  [][\A p \in Procs : EndPull(p) /\ At[p] \notin raced =>
       \A k \in Named(loc[p].tree.refs) :
         /\ ref[At[p]][k] # None
         /\ \A o \in Closure(k, ref[At[p]][k]) : disk[At[p]][o] = "good"]_vars
===============================================================================
