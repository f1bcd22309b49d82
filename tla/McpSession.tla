------------------------------ MODULE McpSession ------------------------------
(***************************************************************************)
(* The graph behind one MCP tool call (cgx-mcp/src/session.rs, acquire)    *)
(* and the freshness envelope it carries (cgx-query/src/freshness.rs),     *)
(* while files are edited, HEAD moves and other cgx processes index.       *)
(*                                                                         *)
(* Linking is a function of the files it reads, so a graph is the files it *)
(* was built from: a function from paths to contents.  So is a tree, and   *)
(* so is the working directory.                                            *)
(*                                                                         *)
(* The index the calls share is a pointer and a map of graphs, and acquire *)
(* looks at them one after the other: HEAD, the pointer, the graph's ref,  *)
(* the graph.  The map is GraphMap's, which ObjectStore implements: a put  *)
(* and a prune are one step each, and a read in progress gets the graph    *)
(* its key named when it began, or finds it corrupt if the key was put or  *)
(* dropped since.                                                          *)
(***************************************************************************)
EXTENDS FiniteSets, Naturals

CONSTANTS
  Files,     \* repository-relative paths
  Contents,  \* what a file may contain: blob OIDs
  Absent,    \* the path, the pointer or the graph is not there
  Ignored,   \* paths git's ignore rules exclude
  Trees,     \* the trees of the commits
  MaxMoves   \* bound: edits, moves of HEAD and steps of other processes

Snapshots == [Files -> Contents \cup {Absent}]

ASSUME FilesAssumption == IsFiniteSet(Files)
ASSUME IgnoredAssumption == Ignored \subseteq Files
ASSUME TreesAssumption == Trees \subseteq Snapshots
ASSUME AbsentAssumption == Absent \notin Contents \cup Snapshots
ASSUME MaxMovesAssumption == MaxMoves \in Nat

VARIABLES
  gitHead,  \* the tree of HEAD's commit
  work,     \* the files of the working directory
  index,    \* the tree the .cgx pointer names; Absent if it cannot be read
  stored,   \* stored[t]: the graph the store has under t, or Absent
  stage,    \* where acquire is
  left,     \* the files the walk in progress has yet to read
  call,     \* the locals of the call
  quiet,    \* history: nothing else has happened since the call began
  mixed,    \* history: some key has held the graph of another tree
  swept,    \* history: the graph was dropped between two looks of this call
  earlier,  \* history: an answer given before this one, or none
  moves

worldVars == <<gitHead, work, index, stored>>
sessionVars ==
  <<worldVars, stage, left, call, quiet, mixed, swept, earlier, moves>>

NoFiles == [f \in Files |-> Absent]
TreeKey(t) == [of |-> "tree", files |-> t]
WorkdirKey(w) == [of |-> "workdir", files |-> w]

NoAnswer == [given |-> FALSE, sure |-> FALSE, version |-> <<>>, graph |-> NoFiles]

(* rebuild: load_current may still index.  tree: what the call's own index *)
(* run enumerated.  lost: the objects of the graph being read may be gone. *)
NoCall == [dirty |-> FALSE, rebuild |-> FALSE, lost |-> FALSE,
           base |-> NoFiles, first |-> NoFiles, tree |-> NoFiles,
           key |-> TreeKey(NoFiles), graph |-> NoFiles, last |-> NoFiles,
           headTree |-> NoFiles]

-------------------------------------------------------------------------------
(* Mutant: what is gone from the disk is not a difference. *)
Differs_PresentOnly(committed, w, f) == w[f] # Absent /\ w[f] # committed[f]

Differs(committed, w, f) == w[f] # committed[f]

(* overlay_difference: one line for each path that differs. *)
Overlay(committed, w) == {<<f, w[f]>> : f \in {g \in Files : Differs(committed, w, g)}}

(* dirty_file_count leaves out what is ignored and not in the tree. *)
CountsAsDirty(committed, w, f) ==
  w[f] # committed[f] /\ ~ (committed[f] = Absent /\ f \in Ignored)

DirtyFiles(committed, w) == Cardinality({f \in Files : CountsAsDirty(committed, w, f)})

(* FreshnessEnvelope::build.  matches is "yes", "no" or "null"; dirty is   *)
(* the set that holds the count, or nothing where nobody counted.          *)
Build(indexed, headTree, matches, dirty) ==
  [indexed |-> indexed, headTree |-> headTree, matches |-> matches, dirty |-> dirty,
   stale |-> matches = "no" \/ \E n \in dirty : n > 0]

(* FreshnessEnvelope::new derives matches_head; *)
FreshFor(indexed, headTree, dirty) ==
  Build(indexed, headTree, IF indexed = TreeKey(headTree) THEN "yes" ELSE "no", dirty)

(* FreshnessEnvelope::indeterminate_head does not.                         *)
Indeterminate(indexed, headTree, dirty) == Build(indexed, headTree, "null", dirty)

Verdict(e) ==
  IF e.stale THEN "stale"
  ELSE IF e.matches = "yes" /\ e.dirty = {0} THEN "current" ELSE "unknown"

-------------------------------------------------------------------------------
(* Whatever graphs earlier runs left, and whatever pointer. *)
SessionInit ==
  /\ gitHead \in Trees
  /\ work \in Snapshots
  /\ index \in Trees \cup {Absent}
  /\ \E ts \in SUBSET Trees :
       stored = [t \in Trees |-> IF t \in ts THEN t ELSE Absent]
  /\ stage = "idle"
  /\ left = {}
  /\ call = NoCall
  /\ quiet = FALSE /\ mixed = FALSE /\ swept = FALSE
  /\ earlier = NoAnswer
  /\ moves = 0

Goto(from, to) == stage = from /\ stage' = to

(* acquire with include_dirty false goes straight to ensure_indexed; *)
BeginCommitted ==
  /\ Goto("idle", "ensure")
  /\ call' = [NoCall EXCEPT !.rebuild = TRUE]
  /\ UNCHANGED <<worldVars, left, earlier>>

(* with include_dirty true it starts from the tree of HEAD. *)
BeginDirty ==
  /\ Goto("idle", "walk")
  /\ call' = [NoCall EXCEPT !.rebuild = TRUE, !.dirty = TRUE, !.base = gitHead]
  /\ left' = Files
  /\ UNCHANGED <<worldVars, earlier>>

(* A walk of the working directory reads one file after the other. *)
Walk(at, field) ==
  /\ stage = at
  /\ \E f \in left :
       /\ call' = [call EXCEPT ![field] = [@ EXCEPT ![f] = work[f]]]
       /\ left' = left \ {f}
  /\ UNCHANGED <<worldVars, stage, earlier>>

(* enumerate_workdir, for the overlay, *)
WalkForOverlay == Walk("walk", "first")

EndWalk ==
  /\ left = {}
  /\ Goto("walk", "ensure")
  /\ UNCHANGED <<worldVars, left, call, earlier>>

-------------------------------------------------------------------------------
(* With an overlay acquire indexes the working directory; without one, or  *)
(* over the committed tree, it loads the graph the pointer names.          *)
GoOn ==
  \/ /\ call.dirty /\ Overlay(call.base, call.first) # {}
     /\ stage' = "rewalk" /\ left' = Files
  \/ /\ ~ (call.dirty /\ Overlay(call.base, call.first) # {})
     /\ stage' = "load" /\ UNCHANGED left

(* ensure_indexed reads HEAD, *)
ReadHead ==
  /\ Goto("ensure", "pointer")
  /\ call' = [call EXCEPT !.headTree = gitHead]
  /\ UNCHANGED <<worldVars, left, earlier>>

(* then the pointer: one that names HEAD's tree will do; *)
IndexIsCurrent ==
  /\ stage = "pointer" /\ index = call.headTree
  /\ GoOn
  /\ UNCHANGED <<worldVars, call, earlier>>

(* a missing, unreadable or stale one means index_repo. *)
IndexIsStale ==
  /\ Goto("pointer", "resolve") /\ index # call.headTree
  /\ UNCHANGED <<worldVars, left, call, earlier>>

(* index_path peels HEAD for the key of the graph, *)
ResolveKey ==
  /\ Goto("resolve", "enumerate")
  /\ call' = [call EXCEPT !.key = TreeKey(gitHead)]
  /\ UNCHANGED <<worldVars, left, earlier>>

(* peels it again for the files, *)
EnumerateTree ==
  /\ Goto("enumerate", "put")
  /\ call' = [call EXCEPT !.tree = gitHead]
  /\ UNCHANGED <<worldVars, left, earlier>>

(* and stores what it links of them under the key. *)
PutGraph ==
  /\ Goto("put", "prune")
  /\ stored' = [stored EXCEPT ![call.key.files] = call.tree]
  /\ UNCHANGED <<gitHead, work, index, left, call, earlier>>

AllBut(k) == [t \in Trees |-> IF t = k THEN stored[t] ELSE Absent]

(* index_repo drops every other graph *)
PruneGraphs ==
  /\ Goto("prune", "publish")
  /\ stored' = AllBut(call.key.files)
  /\ UNCHANGED <<gitHead, work, index, left, call, earlier>>

(* and names this one. *)
WritePointer ==
  /\ stage = "publish"
  /\ index' = call.key.files
  /\ GoOn
  /\ UNCHANGED <<gitHead, work, stored, call, earlier>>

(* Each of the three may fail, and so then does the call. *)
IndexFails ==
  /\ stage \in {"put", "prune", "publish"}
  /\ stage' = "idle" /\ call' = NoCall
  /\ UNCHANGED <<worldVars, left, earlier>>

-------------------------------------------------------------------------------
(* load_current reads the pointer, *)
ReadPointer ==
  /\ Goto("load", "graphFor") /\ index # Absent
  /\ call' = [call EXCEPT !.key = TreeKey(index)]
  /\ UNCHANGED <<worldVars, left, earlier>>

NoPointer ==
  /\ Goto("load", "idle") /\ index = Absent
  /\ call' = NoCall
  /\ UNCHANGED <<worldVars, left, earlier>>

(* asks whether the graph has a ref, *)
FindGraph ==
  /\ Goto("graphFor", "read") /\ stored[call.key.files] # Absent
  /\ UNCHANGED <<worldVars, left, call, earlier>>

(* and reads it: the ref is looked up once more, *)
BeginRead ==
  /\ Goto("read", "reading") /\ stored[call.key.files] # Absent
  /\ call' = [call EXCEPT !.graph = stored[call.key.files], !.lost = FALSE]
  /\ UNCHANGED <<worldVars, left, earlier>>

(* and where it has gone since, read_graph returns the empty graph. *)
ReadNothing ==
  /\ Goto("read", "served") /\ stored[call.key.files] = Absent
  /\ call' = [call EXCEPT !.graph = NoFiles]
  /\ UNCHANGED <<worldVars, left, earlier>>

(* Mutant: the key is read from the pointer once the graph is there. *)
EndRead_KeyOfPointer ==
  /\ Goto("reading", "served") /\ index # Absent
  /\ call' = [call EXCEPT !.key = TreeKey(index)]
  /\ UNCHANGED <<worldVars, left, earlier>>

EndRead ==
  /\ Goto("reading", "served")
  /\ UNCHANGED <<worldVars, left, call, earlier>>

(* Without a ref, or with objects that fail verification, *)
Miss ==
  \/ stage = "graphFor" /\ stored[call.key.files] = Absent
  \/ stage = "reading" /\ call.lost

(* the commit is indexed once more, *)
Rebuild ==
  /\ Miss /\ call.rebuild
  /\ stage' = "resolve"
  /\ call' = [call EXCEPT !.rebuild = FALSE]
  /\ UNCHANGED <<worldVars, left, earlier>>

(* and once only. *)
GiveUp ==
  /\ Miss /\ ~ call.rebuild
  /\ stage' = "idle" /\ call' = NoCall
  /\ UNCHANGED <<worldVars, left, earlier>>

-------------------------------------------------------------------------------
(* Over the committed tree the stored graph is the answer.  *)
ServeTree ==
  /\ Goto("served", "head") /\ ~ call.dirty
  /\ UNCHANGED <<worldVars, left, call, earlier>>

(* So it is of a clean working tree, if it is HEAD's; *)
ServeCommitted ==
  /\ Goto("served", "count")
  /\ call.dirty /\ call.key = TreeKey(call.base)
  /\ left' = Files
  /\ UNCHANGED <<worldVars, call, earlier>>

(* otherwise index_workdir walks the working directory again. *)
IndexOverlay ==
  /\ Goto("served", "rewalk")
  /\ call.dirty /\ call.key # TreeKey(call.base)
  /\ left' = Files
  /\ UNCHANGED <<worldVars, call, earlier>>

WalkForIndex == Walk("rewalk", "graph")

EndIndexOverlay ==
  /\ left = {}
  /\ Goto("rewalk", "count")
  /\ call' = [call EXCEPT !.key = WorkdirKey(call.graph)]
  /\ left' = Files
  /\ UNCHANGED <<worldVars, earlier>>

(* dirty_file_count walks it once more. *)
WalkForCount == Walk("count", "last")

EndCount ==
  /\ left = {}
  /\ Goto("count", "answer")
  /\ call' = [call EXCEPT !.headTree = call.base]
  /\ UNCHANGED <<worldVars, left, earlier>>

(* Where only the committed tree was asked for, HEAD is read again. *)
ResolveHead ==
  /\ Goto("head", "answer")
  /\ call' = [call EXCEPT !.headTree = gitHead]
  /\ UNCHANGED <<worldVars, left, earlier>>

(* Whether the graph is HEAD's tree has three answers. *)
MatchesHead(overlay, dirty) ==
  IF overlay = {} THEN "yes"
  ELSE IF \E n \in dirty : n > 0 THEN "no" ELSE "null"

Dirty == IF call.dirty THEN {DirtyFiles(call.base, call.last)} ELSE {}

Envelope ==
  IF ~ call.dirty THEN FreshFor(call.key, call.headTree, Dirty)
  ELSE LET matches == MatchesHead(Overlay(call.base, call.first), Dirty)
           indexed == IF call.key.of = "workdir" /\ matches # "yes"
                      THEN call.key ELSE TreeKey(call.base)
       IN  IF matches = "null" THEN Indeterminate(indexed, call.headTree, Dirty)
           ELSE FreshFor(indexed, call.headTree, Dirty)

(* Mutant: the overlay is not part of the version. *)
Version_BaseOnly == IF call.dirty THEN <<call.base, {}>> ELSE <<call.key.files, {}>>

(* graph_version: HEAD's tree and the digest of the overlay, or the tree   *)
(* the committed graph was stored under.                                   *)
Version ==
  IF call.dirty THEN <<call.base, Overlay(call.base, call.first)>>
  ELSE <<call.key.files, {}>>

(* The answer: any later call may be compared with this one. *)
Answer ==
  /\ Goto("answer", "idle")
  /\ earlier' \in {earlier, [given |-> TRUE,
                             sure |-> (quiet \/ ~ call.dirty) /\ ~ swept,
                             version |-> Version, graph |-> call.graph]}
  /\ call' = NoCall
  /\ UNCHANGED <<worldVars, left>>

-------------------------------------------------------------------------------
EnsureIndexed == ReadHead \/ IndexIsCurrent \/ IndexIsStale

IndexRepo ==
  \/ ResolveKey \/ EnumerateTree \/ PutGraph \/ PruneGraphs \/ WritePointer
  \/ IndexFails

LoadCurrent ==
  \/ ReadPointer \/ NoPointer \/ FindGraph \/ BeginRead \/ ReadNothing \/ EndRead
  \/ Rebuild \/ GiveUp

Acquire ==
  \/ BeginCommitted \/ BeginDirty
  \/ WalkForOverlay \/ EndWalk
  \/ EnsureIndexed \/ IndexRepo \/ LoadCurrent
  \/ ServeTree \/ ResolveHead
  \/ ServeCommitted \/ IndexOverlay \/ WalkForIndex \/ EndIndexOverlay
  \/ WalkForCount \/ EndCount
  \/ Answer

Edit == \E f \in Files, c \in Contents \cup {Absent} :
  work' = [work EXCEPT ![f] = c] /\ UNCHANGED <<gitHead, index, stored, call>>

MoveHead == gitHead' \in Trees /\ UNCHANGED <<work, index, stored, call>>

Lose(ks) ==
  call' = [call EXCEPT !.lost = @ \/ (stage = "reading" /\ call.key.files \in ks)]

(* Other processes index as index_repo does, each at its own step: one     *)
(* puts the graph of a tree, under another tree's key where HEAD moved     *)
(* between its two peels;                                                  *)
OtherPut == \E k \in Trees, t \in Trees :
  /\ stored' = [stored EXCEPT ![k] = t]
  /\ Lose({k})
  /\ UNCHANGED <<gitHead, work, index>>

(* one drops all graphs but its own; *)
OtherPrune == \E k \in Trees :
  /\ stored' = AllBut(k)
  /\ Lose(Trees \ {k})
  /\ UNCHANGED <<gitHead, work, index>>

(* one names its own, or leaves a pointer nobody can read. *)
OtherPoint ==
  index' \in Trees \cup {Absent} /\ UNCHANGED <<gitHead, work, stored, call>>

Disturb ==
  /\ moves < MaxMoves
  /\ moves' = moves + 1
  /\ Edit \/ MoveHead \/ OtherPut \/ OtherPrune \/ OtherPoint
  /\ quiet' = FALSE
  /\ UNCHANGED <<stage, left, earlier>>

(* What the properties remember of the store. *)
Remember ==
  /\ mixed' = (mixed \/ \E t \in Trees : stored'[t] \notin {t, Absent})
  /\ swept' = (stage # "idle" /\
               (swept \/ (stage = "read" /\ stored'[call.key.files] = Absent)))

SessionNext ==
  /\ \/ Acquire /\ quiet' = (stage = "idle" \/ quiet) /\ UNCHANGED moves
     \/ Disturb
  /\ Remember

SessionSpec == SessionInit /\ [][SessionNext]_sessionVars

-------------------------------------------------------------------------------
Keys == [of : {"tree", "workdir"}, files : Snapshots]

(* Every graph is under the key of the tree it was built from, and was     *)
(* there at each look this call has taken.                                 *)
ReadAsStored == ~ mixed /\ ~ swept

(* A call that nothing disturbs answers from what it was asked for: the    *)
(* tree of HEAD, or the working directory as it is, deletions and ignored  *)
(* files included, if no index run before it stored one tree's graph under *)
(* another's key.                                                          *)
UndisturbedAnswersAsAsked ==
  stage = "answer" /\ quiet /\ ~ mixed =>
    call.graph = IF call.dirty THEN work ELSE gitHead

(* Its verdict is right: "current" only of a graph that is HEAD's and of a *)
(* working directory that differs in nothing git would report; "stale"     *)
(* exactly when git would report a difference.  Where an ignored file made *)
(* it into the graph, it is neither.  An answer over the committed tree    *)
(* that says it matches HEAD comes from the graph of the very tree it      *)
(* names as HEAD's: whatever moves, unless a graph was ever stored under   *)
(* another tree's key (HEAD moved between index_path's two peels of it) or *)
(* another run's prune fell between graph_for and read_graph.              *)
VerdictIsRight ==
  stage = "answer" =>
    IF call.dirty
    THEN quiet /\ ~ mixed =>
           /\ Verdict(Envelope) = "current" => call.graph = gitHead
           /\ Verdict(Envelope) = "stale" <=> DirtyFiles(gitHead, work) > 0
           /\ call.graph = gitHead => Verdict(Envelope) = "current"
    ELSE ReadAsStored /\ Envelope.matches = "yes" => call.graph = call.headTree

(* "Two that produce different lines must not share a graph_version": two  *)
(* answers of one graph_version come from one graph.  Over the committed   *)
(* tree this holds but for the same two races; over the working directory  *)
(* only of calls nothing disturbs.                                         *)
VersionNamesGraph ==
  stage = "answer" /\ ReadAsStored /\ (quiet \/ ~ call.dirty)
    /\ earlier.given /\ earlier.sure /\ earlier.version = Version =>
      earlier.graph = call.graph
===============================================================================
