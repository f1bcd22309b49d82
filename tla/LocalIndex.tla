------------------------------ MODULE LocalIndex ------------------------------
(***************************************************************************)
(* The repo-local index shared by every cgx process of a checkout          *)
(* (cgx-index/src/local.rs): the index run (index_repo over index_path),   *)
(* the auto-index policy (ensure_indexed), the read of the current graph   *)
(* (load_current), the --at <ref> path and the freshness envelope a CLI    *)
(* answer carries, while HEAD moves under them.                            *)
(*                                                                         *)
(* The store below is GraphMap, the abstract map that ObjectStore          *)
(* implements: its writes are serialised by the store's lock, so one Store *)
(* or Drop is one step here.  HEAD.json is not under that lock: it is      *)
(* replaced through the one file HEAD.json.tmp, whose inode two writers    *)
(* may share, so a process's open file is named by where it is now.        *)
(*                                                                         *)
(* A graph is told apart by the tree it was built from and the mode of the *)
(* run: with or without the data-flow layer.                               *)
(***************************************************************************)
EXTENDS Naturals

CONSTANTS
  Procs,        \* cgx processes on one checkout
  Indexers,     \* those that index; the others run with --no-auto-index
  Trees,        \* tree OIDs: keys of graphs, and what HEAD points to
  Graphs,       \* linked graphs: one per tree and mode
  TreeOf,       \* TreeOf[g]: the tree whose files g was built from
  ModeOf,       \* ModeOf[g]: the mode of the run that built g
  IndexModes,   \* what an explicit cgx index may be asked for
  Pinned,       \* the trees of the commits --at <ref> may name
  MaxMoves,     \* bound: moves of HEAD
  MaxKills,     \* bound: processes killed
  None

Modes == {"base", "dataflow"}
GraphOf(t, m) == CHOOSE g \in Graphs : TreeOf[g] = t /\ ModeOf[g] = m
Unreadable == {"empty", "garbled"}
Kinds == {"none", "index", "query", "noAuto", "pinned"}

ASSUME SubsetsAssumption ==
  Indexers \subseteq Procs /\ Pinned \subseteq Trees /\ IndexModes \subseteq Modes
ASSUME GraphsAssumption ==
  /\ TreeOf \in [Graphs -> Trees]
  /\ ModeOf \in [Graphs -> Modes]
  /\ \A t \in Trees, m \in Modes : \E g \in Graphs : TreeOf[g] = t /\ ModeOf[g] = m
ASSUME NoneAssumption == None \notin Trees \cup Graphs \cup Unreadable
ASSUME TreesAssumption == Trees \cap Unreadable = {}
ASSUME RepliesAssumption == Graphs \cap {"none", "empty", "corrupt", "format"} = {}
ASSUME BoundsAssumption == MaxMoves \in Nat /\ MaxKills \in Nat

VARIABLES
  gitHead,   \* the tree of HEAD's commit
  map,       \* the store: see GraphMap
  intact,    \* see GraphMap: every key, as no power is lost here
  pend,      \* reads of the store in progress: see GraphMap
  reply,     \* reply[p]: what p's last read_graph returned
  head,      \* HEAD.json: the graph key it names, unreadable bytes, or None
  temp,      \* HEAD.json.tmp, in the same form
  open,      \* open[p]: where the file p is writing is: "temp", "head", "gone"
  pc,        \* pc[p]: where p is in its call
  call,      \* call[p]: the locals of p's call
  quiet,     \* history: nothing but p has acted since p's call began
  raced,     \* history: two index runs were publishing at once
  moves, kills

INSTANCE GraphMap WITH
  Readers <- Procs, Keys <- Trees, Current <- Graphs, Newer <- {}

storeVars == <<map, intact, pend, reply>>
pointerVars == <<head, temp, open>>
vars == <<gitHead, storeVars, pointerVars, pc, call, quiet, raced, moves, kills>>

NoCall == [kind |-> "none", mode |-> "base", rebuild |-> FALSE,
           key |-> None, tree |-> None, seen |-> None, named |-> None]

Goto(p, to) == pc' = [pc EXCEPT ![p] = to]
Transition(p, from, to) == pc[p] = from /\ Goto(p, to)
Set(p, c) == call' = [call EXCEPT ![p] = c]

-------------------------------------------------------------------------------
(* Any store and pointer that earlier runs left. *)
Init ==
  /\ gitHead \in Trees
  /\ \E stored \in SUBSET Trees :
       map = [t \in Trees |-> IF t \in stored THEN GraphOf(t, "dataflow") ELSE None]
  /\ intact = Trees
  /\ pend = [p \in Procs |-> Idle]
  /\ reply = [p \in Procs |-> "none"]
  /\ head \in Trees \cup {None}
  /\ temp = None
  /\ open = [p \in Procs |-> "none"]
  /\ pc = [p \in Procs |-> "idle"]
  /\ call = [p \in Procs |-> NoCall]
  /\ quiet = [p \in Procs |-> FALSE]
  /\ raced = FALSE
  /\ moves = 0 /\ kills = 0

(* cgx index. *)
StartIndex(p, m) ==
  /\ p \in Indexers
  /\ Transition(p, "idle", "resolve")
  /\ Set(p, [NoCall EXCEPT !.kind = "index", !.mode = m])
  /\ UNCHANGED <<storeVars, pointerVars>>

(* A query.  ensure_indexed first reads the tree of HEAD. *)
StartQuery(p) ==
  /\ p \in Indexers
  /\ Transition(p, "idle", "ensure")
  /\ Set(p, [NoCall EXCEPT !.kind = "query", !.rebuild = TRUE, !.seen = gitHead])
  /\ UNCHANGED <<storeVars, pointerVars>>

(* A query with --no-auto-index goes straight to load_current. *)
StartNoAuto(p) ==
  /\ Transition(p, "idle", "load")
  /\ Set(p, [NoCall EXCEPT !.kind = "noAuto"])
  /\ UNCHANGED <<storeVars, pointerVars>>

(* Mutant: the files indexed are those of the checkout's HEAD. *)
StartPinned_Checkout(p, t) ==
  /\ p \in Indexers
  /\ Transition(p, "idle", "put")
  /\ Set(p, [NoCall EXCEPT !.kind = "pinned", !.key = t, !.tree = gitHead])
  /\ UNCHANGED <<storeVars, pointerVars>>

(* --at <ref>: index_path in a worktree of its own, whose HEAD stays put,  *)
(* with IndexOpts::default(): no data flow.                                *)
StartPinned(p, t) ==
  /\ p \in Indexers
  /\ Transition(p, "idle", "put")
  /\ Set(p, [NoCall EXCEPT !.kind = "pinned", !.key = t, !.tree = t])
  /\ UNCHANGED <<storeVars, pointerVars>>

-------------------------------------------------------------------------------
(* Mutant: any readable pointer is good enough. *)
PointerIsCurrent_AnyPointer(p) == head \in Trees

PointerIsCurrent(p) == head \in Trees /\ head = call[p].seen

(* auto_index_opts: data flow on. *)
AutoIndexCall(c) == [c EXCEPT !.mode = "dataflow"]

(* ensure_indexed: a missing, unreadable or stale pointer means index_repo. *)
Ensure(p) ==
  /\ pc[p] = "ensure"
  /\ Set(p, AutoIndexCall(call[p]))
  /\ Goto(p, IF PointerIsCurrent(p) THEN "load" ELSE "resolve")
  /\ UNCHANGED <<storeVars, pointerVars>>

(* index_path peels HEAD for the key, *)
ResolveKey(p) ==
  /\ Transition(p, "resolve", "enumerate")
  /\ Set(p, [call[p] EXCEPT !.key = gitHead])
  /\ UNCHANGED <<storeVars, pointerVars>>

(* and enumerate_tree peels it again for the files. *)
EnumerateTree(p) ==
  /\ Transition(p, "enumerate", "put")
  /\ Set(p, [call[p] EXCEPT !.tree = gitHead])
  /\ UNCHANGED <<storeVars, pointerVars>>

(* store_graph.  index_ref stops here, and read_graph follows. *)
PutGraph(p) ==
  /\ Transition(p, "put", IF call[p].kind = "pinned" THEN "read" ELSE "prune")
  /\ Store(call[p].key, GraphOf(call[p].tree, call[p].mode))
  /\ UNCHANGED <<pointerVars, call>>

(* Mutant: the graph kept is the one the old pointer names. *)
Prune_KeepsPointed(p) ==
  /\ Transition(p, "prune", "create")
  /\ Drop(Trees \ {head})
  /\ UNCHANGED <<pointerVars, call>>

(* prune_graphs_except(&[&keep]), before the pointer moves. *)
Prune(p) ==
  /\ Transition(p, "prune", "create")
  /\ Drop(Trees \ {call[p].key})
  /\ UNCHANGED <<pointerVars, call>>

(* Mutant: the pointer is renamed into place before its bytes are in it. *)
CreateTemp_RenamedEarly(p) ==
  /\ Transition(p, "create", "write")
  /\ head' = "empty"
  /\ temp' = "empty"
  /\ open' = [open EXCEPT ![p] = "head"]
  /\ UNCHANGED <<storeVars, call>>

(* write_pointer.  File::create truncates a HEAD.json.tmp that is there. *)
CreateTemp(p) ==
  /\ Transition(p, "create", "write")
  /\ temp' = "empty"
  /\ open' = [open EXCEPT ![p] = "temp"]
  /\ UNCHANGED <<storeVars, head, call>>

(* What the file holds once p's bytes are written over it from the start:  *)
(* the tail of a longer pointer may show.                                  *)
Written(p, old) ==
  IF old \in {"empty", call[p].key} THEN {call[p].key} ELSE {call[p].key, "garbled"}

WriteTemp(p) ==
  /\ Transition(p, "write", "rename")
  /\ open' = [open EXCEPT ![p] = "none"]
  /\ \/ /\ open[p] = "temp" /\ temp' \in Written(p, temp) /\ UNCHANGED head
     \/ /\ open[p] = "head" /\ head' \in Written(p, head) /\ UNCHANGED temp
     \/ /\ open[p] = "gone" /\ UNCHANGED <<head, temp>>
  /\ UNCHANGED <<storeVars, call>>

(* A query goes on to load_current; cgx index is done. *)
AfterIndex(p) == IF call[p].kind = "query" THEN "load" ELSE "answered"

(* The rename takes whatever file is at HEAD.json.tmp now, and fails when  *)
(* another process has renamed it away.                                    *)
RenameTemp(p) ==
  /\ temp # None
  /\ Transition(p, "rename", AfterIndex(p))
  /\ head' = temp
  /\ temp' = None
  /\ open' = [q \in Procs |-> CASE open[q] = "temp" -> "head"
                                [] open[q] = "head" -> "gone"
                                [] OTHER -> open[q]]
  /\ UNCHANGED <<storeVars, call>>

RenameFails(p) ==
  /\ temp = None
  /\ Transition(p, "rename", "failed")
  /\ UNCHANGED <<storeVars, pointerVars, call>>

-------------------------------------------------------------------------------
(* load_current: read_pointer; no pointer and an unreadable one are errors. *)
ReadPointer(p) ==
  /\ pc[p] = "load"
  /\ \/ /\ head \in Trees
        /\ Set(p, [call[p] EXCEPT !.key = head])
        /\ Goto(p, "graphFor")
     \/ /\ head \notin Trees
        /\ Goto(p, "failed")
        /\ UNCHANGED call
  /\ UNCHANGED <<storeVars, pointerVars>>

(* A missing or corrupt graph is indexed again, once. *)
Miss(p) ==
  IF call[p].rebuild
  THEN Goto(p, "resolve") /\ Set(p, AutoIndexCall([call[p] EXCEPT !.rebuild = FALSE]))
  ELSE Goto(p, "failed") /\ UNCHANGED call

GraphFor(p) ==
  /\ pc[p] = "graphFor"
  /\ IF map[call[p].key] # None THEN Goto(p, "read") /\ UNCHANGED call ELSE Miss(p)
  /\ UNCHANGED <<storeVars, pointerVars>>

(* read_graph looks the key up again: by now it may have no graph. *)
BeginReadGraph(p) ==
  /\ pc[p] = "read"
  /\ \/ BeginRead(p, call[p].key) /\ Goto(p, "reading")
     \/ ReadNothing(p, call[p].key) /\ Goto(p, "served")
  /\ UNCHANGED <<pointerVars, call>>

EndReadGraph(p) ==
  /\ pc[p] = "reading"
  /\ EndRead(p)
  /\ IF reply'[p] = "corrupt" THEN Miss(p) ELSE Goto(p, "served") /\ UNCHANGED call
  /\ UNCHANGED pointerVars

(* freshness::envelope, once the answer is there: HEAD, ... *)
EnvelopeHead(p) ==
  /\ Transition(p, "served", "envelope")
  /\ Set(p, [call[p] EXCEPT !.seen = gitHead])
  /\ UNCHANGED <<storeVars, pointerVars>>

(* ... then the pointer, read again; a pinned answer names its own tree. *)
EnvelopeTree(p) ==
  /\ Transition(p, "envelope", "answered")
  /\ Set(p, [call[p] EXCEPT !.named =
               IF call[p].kind = "pinned" THEN call[p].key
               ELSE IF head \in Trees THEN head ELSE None])
  /\ UNCHANGED <<storeVars, pointerVars>>

(* The call is over, with an answer or an error, or its process is killed. *)
Finish(p) ==
  /\ Goto(p, "idle")
  /\ Set(p, NoCall)
  /\ open' = [open EXCEPT ![p] = "none"]
  /\ Leave(p)
  /\ UNCHANGED <<head, temp>>

Return(p) == pc[p] \in {"answered", "failed"} /\ Finish(p)

-------------------------------------------------------------------------------
Begin(p) ==
  \/ \E m \in IndexModes : StartIndex(p, m)
  \/ StartQuery(p)
  \/ StartNoAuto(p)
  \/ \E t \in Pinned : StartPinned(p, t)

Continue(p) ==
  \/ Ensure(p)
  \/ ResolveKey(p) \/ EnumerateTree(p) \/ PutGraph(p) \/ Prune(p)
  \/ CreateTemp(p) \/ WriteTemp(p) \/ RenameTemp(p) \/ RenameFails(p)
  \/ ReadPointer(p) \/ GraphFor(p) \/ BeginReadGraph(p) \/ EndReadGraph(p)
  \/ EnvelopeHead(p) \/ EnvelopeTree(p)
  \/ Return(p)

(* From its put_graph to its rename a run relies on what it has stored. *)
Publishing(p) == pc[p] \in {"prune", "create", "write", "rename"}

(* p acts; whoever else is in a call is no longer undisturbed. *)
Acts(p) ==
  /\ quiet' = [q \in Procs |-> q = p /\ pc'[p] # "idle" /\ (pc[p] = "idle" \/ quiet[p])]
  /\ raced' = (raced \/ \E q, r \in Procs : q # r /\ Publishing(q)' /\ Publishing(r)')
  /\ UNCHANGED gitHead

ProcStep(p) ==
  /\ Begin(p) \/ Continue(p)
  /\ Acts(p)
  /\ UNCHANGED <<moves, kills>>

Kill(p) ==
  /\ pc[p] # "idle"
  /\ kills < MaxKills
  /\ kills' = kills + 1
  /\ Finish(p)
  /\ Acts(p)
  /\ UNCHANGED moves

(* A commit, a checkout or a pull moves HEAD. *)
MoveHead(t) ==
  /\ moves < MaxMoves
  /\ moves' = moves + 1
  /\ gitHead' = t
  /\ quiet' = [p \in Procs |-> FALSE]
  /\ UNCHANGED <<storeVars, pointerVars, pc, call, raced, kills>>

Next ==
  \/ \E p \in Procs : ProcStep(p) \/ Kill(p)
  \/ \E t \in Trees \ {gitHead} : MoveHead(t)

Spec == Init /\ [][Next]_vars

-------------------------------------------------------------------------------
(* A query that nothing disturbs, neither another process nor a move of    *)
(* HEAD, is answered, from the graph stored under HEAD's tree, and its     *)
(* envelope says so.  This holds whatever crashes and races left behind:   *)
(* a torn pointer, a stray temp file, a pointer to a graph that was        *)
(* pruned, a graph without its pointer.                                    *)
UndisturbedQueryServesHead ==
  \A p \in Procs : quiet[p] /\ call[p].kind = "query" =>
    /\ pc[p] # "failed"
    /\ pc[p] = "answered" => /\ reply[p] \in Graphs
                             /\ call[p].key = gitHead
                             /\ call[p].seen = gitHead
                             /\ call[p].named = gitHead

(* "An auto-built index is a STANDARD index -- dataflow ON by default" and *)
(* the --at path "cannot disturb a plain query's index": where cgx index   *)
(* is never told otherwise, no plain query is served a graph without the   *)
(* data-flow layer.                                                        *)
PlainAnswersHaveDataflow ==
  \A p \in Procs :
    pc[p] = "answered" /\ call[p].kind \in {"query", "noAuto"} /\ reply[p] \in Graphs =>
      ModeOf[reply[p]] = "dataflow"

(* "The pointer is replaced by an atomic rename", "a crash leaves either   *)
(* the previous pointer or the new one": HEAD.json always parses.          *)
PointerWhole == head \notin Unreadable

(* Kills alone cannot break that: only two index runs that publish at the  *)
(* same time, through the one temp file, can.                              *)
PointerWholeUnlessRaced == ~ raced => PointerWhole

(* "The linked graph", stored "keyed by the tree OID": what is stored      *)
(* under a tree was built from the files of that tree.                     *)
KeyNamesContent == \A t \in Trees : map[t] # None => TreeOf[map[t]] = t

(* Only a move of HEAD can break that, between the two times an index run  *)
(* peels it: no other process, no kill and no --at <ref> run can.  And the *)
(* pointer is only ever moved to a graph that is stored, unless two index  *)
(* runs publish at the same time: then one prunes what the other is about  *)
(* to point to.                                                            *)
PublishedGraphIsStored ==
  /\ [](moves = 0 => KeyNamesContent)
  /\ [][\A p \in Procs : RenameTemp(p) /\ ~ raced => map[head'] # None]_vars
===============================================================================
