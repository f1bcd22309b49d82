----------------------------- MODULE ImpactedTests -----------------------------
(***************************************************************************)
(* The commands that compare two states of a repository: cgx diff, its     *)
(* gate on new paths, and impacted-tests (cgx-diff/src/impacted.rs and     *)
(* lib.rs, cgx-query/src/impacted.rs and engine.rs, cgx-cli/src/main.rs    *)
(* and assertions.rs).                                                     *)
(*                                                                         *)
(* A tree maps paths to blobs, or to Unset where there is no file.  Two    *)
(* sides are indexed one after the other into one store and read back      *)
(* from it; meanwhile files may be edited, HEAD may move, and the index    *)
(* run of another process may prune the store.                             *)
(*                                                                         *)
(* A node also has the name of its enclosing function (owner), its kind,   *)
(* lang, whether it is a test, and the losses on it: codes that matter if  *)
(* no walk reached it (cut) and codes that matter if one did (away).       *)
(***************************************************************************)
EXTENDS GraphDiff

CONSTANTS
  Paths,
  SourceTrees,   \* trees the working directory may hold
  Revisions,     \* commits
  TreeOf,        \* TreeOf[c]: the tree of a commit
  MergeBase,     \* MergeBase[c][d]
  GraphOf,       \* GraphOf[t]: the graph a tree is linked into
  Generated,     \* paths the exclude rules of git ignore
  OwnStore,      \* paths under .cgx/
  Demands,       \* commands
  MaxStirs,      \* bound on what happens to the repository meanwhile
  TreeDepth,     \* DEFAULT_TREE_DEPTH
  TreeBudget     \* DEFAULT_TREE_BUDGET: rows below the roots

ForestAssumption == TreeDepth \in Nat /\ TreeBudget \in Nat

ASSUME ForestAssumption

VARIABLES
  disk,       \* the working directory
  tip,        \* the commit of HEAD
  demand,     \* the command
  progressed, \* the step it is at
  ends,       \* the commits it compares: <<base, head>>
  before,     \* base side: its manifest and the key of its graph
  after,      \* head side
  graphs,     \* the store: graphs by key
  firstRead,  \* the graph read first
  reply,
  stirs       \* what happened meanwhile

changeVars == <<disk, tip, demand, progressed, ends, before, after, graphs,
                firstRead, reply, stirs>>

SupportedLangs == {"go", "java", "python", "rust"}

-------------------------------------------------------------------------------
(* The forest a neighbor set is printed as (cgx-cli/src/forest.rs), and    *)
(* the part of the graph impacted-tests prints so: the chains from the     *)
(* changed symbols to the tests (main.rs, witness_subgraph).               *)
(*                                                                         *)
(* Nodes are numbered in the order of their names, which is the order      *)
(* siblings are printed in.  A row is the node it shows, its depth,        *)
(* whether it is the mark of a cycle, and its extra call sites; wording,   *)
(* columns and tags are left out.                                          *)

(* The edge behind one hop of a chain; a containment hop has none. *)
InducedEdge(g, filter, src, dst) ==
  LET es == {e \in Neighbors(g.edges, src, "backward", filter) : e.src = dst}
      hop == [src |-> src, dst |-> dst, id |-> 0, condition |-> "always", confidence |-> 0]
      first == CHOOSE e \in es : \A f \in es : e.id <= f.id
  IN  IF es = {} THEN hop
      ELSE [hop EXCEPT !.id = first.id, !.condition = first.condition,
                       !.confidence = first.confidence]

(* A row of an answer is a test and its chain, from it to a changed        *)
(* symbol.  The rows marked as changed symbols have no edge drawn, also    *)
(* when the symbol is a lambda in the test.                                *)
WitnessSubgraph(g, filter, rows) ==
  [roots |-> {Last(r.chain) : r \in rows},
   edges |-> UNION {{InducedEdge(g, filter, r.chain[i + 1], r.chain[i]) :
                       i \in 1 .. Len(r.chain) - 1} : r \in {r \in rows : ~r.marked}}]

-------------------------------------------------------------------------------
Ascending(ns) == SelectSeq([i \in 1 .. Max(ns \cup {0}) |-> i], LAMBDA i : i \in ns)

(* The edges out of a node as they are printed: of a run that looks alike, *)
(* the first.                                                              *)
Children(sub, n) ==
  LET out == {e \in sub.edges : e.src = n}
      alike(e, f) == e.dst = f.dst /\ e.condition = f.condition /\ e.confidence = f.confidence
      shown == {e \in out : ~\E f \in out :
                  /\ f.id < e.id /\ alike(e, f)
                  /\ \A h \in out : h.dst = e.dst /\ f.id < h.id /\ h.id < e.id => alike(e, h)}
  IN  SetToSortSeq(shown, LAMBDA e, f :
        e.dst < f.dst \/ (e.dst = f.dst /\ e.id < f.id))

ExtraSites(sub, n) == Cardinality({e \in sub.edges : e.dst = n}) - 1

(* A page is the rows written, what is left of the budget and the rows     *)
(* counted after it was spent.                                             *)
BlankPage == [rows |-> <<>>, budget |-> TreeBudget, more |-> 0]

RootRow(page, n) ==
  [page EXCEPT !.rows = Append(@, [node |-> n, depth |-> 0, cycle |-> FALSE, extra |-> 0])]

Row(page, n, depth, cycle, extra) ==
  [page EXCEPT !.budget = @ - 1,
               !.rows = Append(@, [node |-> n, depth |-> depth, cycle |-> cycle, extra |-> extra])]

RECURSIVE ExpandFull(_, _, _, _, _, _)
ExpandFull(sub, limit, n, depth, ancestors, page) ==
  IF depth > limit THEN page
  ELSE FoldLeft(LAMBDA p, e :
         IF p.budget = 0 THEN [p EXCEPT !.more = @ + 1]
         ELSE IF e.dst \in ancestors THEN Row(p, e.dst, depth, TRUE, 0)
         ELSE ExpandFull(sub, limit, e.dst, depth + 1, ancestors \cup {e.dst},
                         Row(p, e.dst, depth, FALSE, 0)),
         page, Children(sub, n))

RenderFull(sub, limit) ==
  FoldLeft(LAMBDA p, r : ExpandFull(sub, limit, r, 1, {r}, RootRow(p, r)),
           BlankPage, Ascending(sub.roots))

(* Every node once, under the parent a search from all roots finds first. *)
RECURSIVE SpanningParents(_, _, _)
SpanningParents(sub, queue, parent) ==
  IF queue = <<>> THEN parent
  ELSE LET n == Head(queue)
           fresh == {Children(sub, n)[i].dst : i \in DOMAIN Children(sub, n)}
                      \ (sub.roots \cup DOMAIN parent)
       IN  SpanningParents(sub, Tail(queue) \o Ascending(fresh),
                           parent @@ [k \in fresh |-> n])

RECURSIVE EmitSpanning(_, _, _, _, _)
EmitSpanning(sub, parent, n, depth, page) ==
  FoldLeft(LAMBDA p, k :
    IF p.budget = 0 THEN [p EXCEPT !.more = @ + 1]
    ELSE EmitSpanning(sub, parent, k, depth + 1,
                      Row(p, k, depth, FALSE, ExtraSites(sub, k))),
    page, Ascending({k \in DOMAIN parent : parent[k] = n}))

RenderSpanning(sub) ==
  LET roots == Ascending(sub.roots)
      parent == SpanningParents(sub, roots, <<>>)
  IN  FoldLeft(LAMBDA p, r : EmitSpanning(sub, parent, r, 1, RootRow(p, r)), BlankPage, roots)

(* An absent bound on the depth is the default one. *)
RenderForest(sub, mode, depth) ==
  IF mode = "full"
  THEN RenderFull(sub, IF depth = NoBound THEN TreeDepth ELSE depth)
  ELSE RenderSpanning(sub)

Shown(page) == {page.rows[i].node : i \in {i \in DOMAIN page.rows : ~page.rows[i].cycle}}

-------------------------------------------------------------------------------
(* impacted_tests: the walk.  Its state is the nodes reached, those        *)
(* another root's search reached, the roots searched from, the edge each   *)
(* node was first reached by, the lambda each owner was lifted from, and   *)
(* the nodes still to be searched from.                                    *)
LowestNamed(g, fqn) == Min(Carrying(g, fqn))

Adopt(w, r, met) ==
  LET new == {d.node : d \in met}
  IN  [w EXCEPT
         !.expanded = @ \cup {r},
         !.reached = @ \cup new,
         !.walked = @ \cup new,
         !.via = @ @@ [n \in new |-> (CHOOSE d \in met : d.node = n).via]]

SearchRoot(g, walk, w, r) ==
  IF r \in w.expanded \/ (walk.depth = NoBound /\ r \in w.walked) THEN w
  ELSE Adopt(w, r, {d \in Range(SearchFrom(g, walk, r)) : d.node \notin w.reached})

EnclosingOf(g, x) == LowestNamed(g, g.nodes[x].owner)

(* The lambdas among the nodes pull in the functions they are written in. *)
Lifts(g, w, ns) ==
  {x \in ns : /\ g.nodes[x].kind = "lambda"
              /\ Carrying(g, g.nodes[x].owner) # {}
              /\ EnclosingOf(g, x) \notin w.reached}

LiftOwners(g, w, lifts) ==
  LET owners == {EnclosingOf(g, x) : x \in lifts}
  IN  [w EXCEPT
         !.reached = @ \cup owners,
         !.lifted = @ @@ [o \in owners |-> Min({x \in lifts : EnclosingOf(g, x) = o})],
         !.fresh = owners]

LiftNew(g, prev, w) ==
  LiftOwners(g, w, Lifts(g, w, prev.fresh \cup (w.reached \ prev.reached)))

(* The fresh nodes are searched from, then what that reached is lifted.    *)
Round(g, walk, w) ==
  LiftNew(g, w, FoldLeft(LAMBDA v, r : SearchRoot(g, walk, v, r), w, Ascending(w.fresh)))

(* Mutant: the owners pulled in are not searched from in their turn. *)
Rounds_OneLift(g, walk, w) == Round(g, walk, w)

RECURSIVE Rounds(_, _, _)
Rounds(g, walk, w) ==
  IF w.fresh = {} THEN w ELSE Rounds(g, walk, Round(g, walk, w))

WalkBack(g, walk, changed) ==
  Rounds(g, walk, [reached |-> changed, walked |-> {}, expanded |-> {}, via |-> <<>>,
                   lifted |-> <<>>, fresh |-> changed])

(* The chain of a test is read off what the walk noted, down to a node it  *)
(* has noted nothing of: a changed symbol.                                 *)
RECURSIVE ChainOf(_, _)
ChainOf(w, n) ==
  IF n \in DOMAIN w.lifted THEN <<n>> \o ChainOf(w, w.lifted[n])
  ELSE IF n \in DOMAIN w.via THEN <<n>> \o ChainOf(w, w.via[n].dst)
  ELSE <<n>>

(* Containment is not invocation: a lift makes the row only possible. *)
ConfidenceOf(w, chain) ==
  Min({2} \cup {IF chain[i] \in DOMAIN w.lifted THEN 0 ELSE w.via[chain[i]].confidence :
                  i \in 1 .. Len(chain) - 1})

(* Mutant: a row is marked lifted only if its test is. *)
ImpactedRow_OwnLift(w, n) ==
  LET chain == ChainOf(w, n)
  IN  [test |-> n, chain |-> chain, lifted |-> n \in DOMAIN w.lifted,
       confidence |-> ConfidenceOf(w, chain), marked |-> Len(chain) = 1, group |-> 0]

(* A row nothing of whose chain was reached by an edge has the marker of a *)
(* changed symbol (changed_symbol_marker) in place of one.                 *)
ImpactedRow(w, n) ==
  LET chain == ChainOf(w, n)
      entered == SelectSeq(chain, LAMBDA k : k \in DOMAIN w.via)
  IN  [test |-> n, chain |-> chain,
       lifted |-> \E i \in DOMAIN chain : chain[i] \in DOMAIN w.lifted,
       confidence |-> ConfidenceOf(w, chain),
       marked |-> entered = <<>>,
       group |-> IF entered = <<>> THEN 0 ELSE w.via[Head(entered)].group]

RowsOf(g, w) == {ImpactedRow(w, n) : n \in {n \in w.reached : g.nodes[n].test}}

-------------------------------------------------------------------------------
(* The changed symbols: those the diff names, and those of changed files.  *)
StructurallyChanged(g, d) ==
  {LowestNamed(g, f) : f \in Names(g) \cap
     (d.addedNodes \cup UNION {{i.src, i.dst} : i \in d.added \cup d.changed})}

InFiles(g, files) == {n \in Ids(g) : g.nodes[n].file \in files}
FilesOf(g) == {g.nodes[n].file : n \in Ids(g)}

Present(t) == {p \in Paths : t[p] # Unset}
ChangedPaths(old, new) == {p \in Present(new) : new[p] # old[p]}

(* A working directory is listed with what nobody tracks: there a path     *)
(* counts if the base has it or a symbol is defined in it.                 *)
Kept(g, old, paths) == {p \in paths : old[p] # Unset \/ p \in FilesOf(g)}

(* The sides: two commits, a commit and the working directory, or HEAD and *)
(* the working directory.                                                  *)
FromWorkdir(q) == q.sides \in {"refToWorkdir", "workdir"}

(* What contract_for is told of the two sides. *)
SideFacts(g, q, old, new, d) ==
  LET paths == ChangedPaths(old, new)
      kept == IF FromWorkdir(q) THEN Kept(g, old, paths) ELSE paths
      file == InFiles(g, paths)
      struct == StructurallyChanged(g, d)
  IN  [changed   |-> file \cup struct,
       fileOnly  |-> file \ struct,
       dirty     |-> kept,
       unindexed |-> kept \ FilesOf(g),
       dropped   |-> (paths \ kept) \ (OwnStore \cup Generated),
       removed   |-> d.removedNodes]

LangsOf(g, ns) == {g.nodes[n].lang : n \in ns}

(* The scan around the walk: what cuts an unreached node off, what a       *)
(* reached one was narrowed away from, and what the filter kept out.       *)
FrontierCodes(g, walk, w) ==
  LET callers(n) == {e \in g.edges : e.dst = n /\ OfKind(walk.filter, e)}
  IN  UNION {g.nodes[n].cut : n \in Ids(g) \ w.reached}
        \cup UNION {g.nodes[n].away : n \in w.reached}
        \cup {c \in {"below-confidence-floor", "dropped-max-candidates", "depth-limit"} :
               \E n \in w.reached : \E e \in callers(n) :
                 CASE c = "below-confidence-floor" -> e.confidence < walk.filter.floor
                   [] c = "dropped-max-candidates" ->
                        e.confidence >= walk.filter.floor
                          /\ ~WithinCap(walk.filter, g.edges, e)
                   [] c = "depth-limit" ->
                        /\ walk.depth # NoBound
                        /\ e \in Neighbors(g.edges, n, "backward", walk.filter)
                        /\ e.src \notin w.reached}

(* Every supported language has a gap in the tests it recognises, and of   *)
(* the others no test is ever recognised.                                  *)
LangCodes(g, changed) ==
  (IF LangsOf(g, changed) \cap SupportedLangs # {}
   THEN {"impacted-test-recognition-incomplete"} ELSE {})
    \cup (IF LangsOf(g, changed) \ SupportedLangs # {}
          THEN {"impacted-language-unsupported"} ELSE {})

(* Mutant: what the narrowing dropped is not told when nothing else changed. *)
SideCodes_NothingDropped(facts) ==
  (IF facts.unindexed # {} THEN {"impacted-changed-file-unindexed"} ELSE {})
    \cup (IF facts.removed # {} THEN {"impacted-removed-symbols-not-walked"} ELSE {})

SideCodes(facts) ==
  (IF facts.unindexed # {} \/ (facts.changed = {} /\ facts.dropped # {})
   THEN {"impacted-changed-file-unindexed"} ELSE {})
    \cup (IF facts.removed # {} THEN {"impacted-removed-symbols-not-walked"} ELSE {})

WalkOf(q) == [dir |-> "backward", depth |-> q.depth, filter |-> q.filter]

OverCodes(q, facts, rows) ==
  {c \in {"impacted-changed-set-file-granular", "impacted-closure-containment-lift",
          "impacted-tip-to-tip-base", "over-approx-candidate-set"} :
     CASE c = "impacted-changed-set-file-granular" -> facts.fileOnly # {}
       [] c = "impacted-closure-containment-lift"  -> \E r \in rows : r.lifted
       [] c = "impacted-tip-to-tip-base"           -> q.sides # "workdir" /\ ~q.mergeBase
       [] c = "over-approx-candidate-set" ->
            \E r \in rows : r.confidence = 0 \/ r.group # 0}

(* Something changed, and nothing of it can have a test. *)
Degenerate(g, facts) ==
  facts.dirty # {} /\ LangsOf(g, facts.changed) \cap SupportedLangs = {}

-------------------------------------------------------------------------------
(* assertions.rs: a gate on an empty answer fails on any result, and is    *)
(* vacuous when nothing was asked of or a filter kept everything out.      *)
AssertionExit(q, found, matched, unfiltered) ==
  IF ~q.assertEmpty THEN "ok"
  ELSE IF found > 0 THEN "failed"
  ELSE IF matched /\ unfiltered = 0 THEN "ok"
  ELSE IF q.allowVacuous THEN "ok" ELSE "vacuous"

EveryCall == [floor |-> 0, mode |-> "any", condition |-> "always", kinds |-> {}, cap |-> 0]
UnfilteredWalk(q) == [WalkOf(q) EXCEPT !.filter = EveryCall]
DepthLiftedWalk(q) == [WalkOf(q) EXCEPT !.depth = NoBound]

TestsFound(g, walk, changed) == Cardinality(RowsOf(g, WalkBack(g, walk, changed)))

(* Mutant: a gate that passes is not asked again without its bound. *)
ImpactedExit_BoundTrusted(g, q, facts, found) ==
  LET passes == q.assertEmpty /\ found = 0
      unfiltered == IF passes /\ q.filter.floor > 0
                    THEN TestsFound(g, UnfilteredWalk(q), facts.changed) ELSE found
      exit == AssertionExit(q, found, facts.changed # {}, unfiltered)
  IN  IF exit # "ok" THEN exit ELSE IF Degenerate(g, facts) THEN "vacuous" ELSE "ok"

(* A gate that passes is asked again without its floor, then without its   *)
(* bound on the depth.                                                     *)
ImpactedExit(g, q, facts, found) ==
  LET passes == q.assertEmpty /\ found = 0
      unfiltered == IF passes /\ q.filter.floor > 0
                    THEN TestsFound(g, UnfilteredWalk(q), facts.changed) ELSE found
      truncated == IF passes /\ q.depth # NoBound
                   THEN TestsFound(g, DepthLiftedWalk(q), facts.changed) ELSE 0
      exit == AssertionExit(q, found, facts.changed # {}, unfiltered)
  IN  IF exit # "ok" THEN exit
      ELSE IF Degenerate(g, facts) \/ (truncated > 0 /\ ~q.allowVacuous) THEN "vacuous"
      ELSE "ok"

(* What is answered of the walk w and its rows. *)
ImpactedAnswer(g, q, facts, w, rows) ==
  [rows  |-> rows,
   changed |-> facts.changed,
   under |-> FrontierCodes(g, WalkOf(q), w) \cup LangCodes(g, facts.changed)
               \cup SideCodes(facts),
   over  |-> OverCodes(q, facts, rows),
   page  |-> RenderForest(WitnessSubgraph(g, q.filter, rows), q.tree, NoBound),
   exit  |-> ImpactedExit(g, q, facts, Cardinality(rows))]

AnswerWalk(g, q, facts, w) == ImpactedAnswer(g, q, facts, w, RowsOf(g, w))
AnswerChange(g, q, facts) == AnswerWalk(g, q, facts, WalkBack(g, WalkOf(q), facts.changed))

(* run, from the reads on: g is the head as the walk sees it, base and     *)
(* head what the diff reads after it.                                      *)
ImpactedReply(g, q, old, new, base, head) ==
  AnswerChange(g, q, SideFacts(g, q, old, new, DiffGraphs(base, head)))

(* run_path_added: both anchors must be given, and may have to match. *)
GateAnswer(q, c, d) ==
  LET anchored == Unset \notin q.from \cup q.to
      matched == d.fromMatched > 0 /\ d.toMatched > 0
  IN  IF ~anchored \/ (q.requireAnchors /\ ~matched) THEN [exit |-> "usage", added |-> {}, ages |-> {}]
      ELSE [exit |-> IF d.added = {} THEN "ok" ELSE "failed",
            added |-> d.added,
            ages |-> {<<p.from, SymbolAge(c, p.from)>> : p \in d.added}]

GateReply(q, head, base, c) == GateAnswer(q, c, PathDiff(base, head, q.from, q.to))

-------------------------------------------------------------------------------
NoSide == [manifest |-> <<>>, key |-> <<>>]
NoReply == [exit |-> "none"]

CommitKey(t) == <<"tree", t>>
DiskKey(t) == <<"workdir", t>>

(* read_graph: a key with no graph reads as an empty one. *)
ReadGraph(key) == IF key \in graphs THEN GraphOf[key[2]] ELSE NoGraph

ChangesInit ==
  /\ disk \in SourceTrees
  /\ tip \in Revisions
  /\ demand \in Demands
  /\ progressed = CASE demand.sides = "workdir" -> "listBase"
                    [] demand.sides = "refs" /\ demand.op = "impacted" -> "resolveHead"
                    [] OTHER -> "resolveBase"
  /\ ends = <<Unset, Unset>>
  /\ before = NoSide /\ after = NoSide
  /\ graphs = {}
  /\ firstRead = NoGraph
  /\ reply = NoReply
  /\ stirs = {}

(* BlameRepo::resolve_commit and merge_base. *)
CommitOf(rev) == IF rev = "HEAD" THEN tip ELSE rev

(* impacted-tests resolves the head, then the base, for a merge base with  *)
(* the head read again; cgx diff resolves the base, then the head.         *)
ResolveHeadCommit ==
  /\ progressed = "resolveHead"
  /\ ends' = [ends EXCEPT ![2] = CommitOf(demand.head)]
  /\ progressed' = IF demand.op = "impacted" THEN "resolveBase" ELSE "base"
  /\ UNCHANGED <<disk, tip, demand, before, after, graphs, firstRead, reply, stirs>>

ResolveBaseCommit ==
  /\ progressed = "resolveBase"
  /\ ends' = LET b == CommitOf(demand.base)
             IN  [ends EXCEPT ![1] = IF demand.mergeBase
                                     THEN MergeBase[b][CommitOf(demand.head)] ELSE b]
  /\ progressed' = IF demand.op = "impacted" THEN "base" ELSE "resolveHead"
  /\ UNCHANGED <<disk, tip, demand, before, after, graphs, firstRead, reply, stirs>>

(* index_ref: the commit is checked out beside the repository, listed and  *)
(* indexed there, where nobody edits.                                      *)
IndexRef(side) ==
  LET c == ends[IF side = "base" THEN 1 ELSE 2]
      new == [manifest |-> TreeOf[c], key |-> CommitKey(TreeOf[c])]
  IN  /\ progressed = side
      /\ IF side = "base" THEN before' = new /\ UNCHANGED after
                          ELSE after' = new /\ UNCHANGED before
      /\ graphs' = graphs \cup {new.key}
      /\ progressed' = CASE side = "head" -> "first"
                         [] FromWorkdir(demand) -> "listHead"
                         [] OTHER -> "head"
      /\ UNCHANGED <<disk, tip, demand, ends, firstRead, reply, stirs>>

(* Sides::Workdir: HEAD is listed, then indexed; then, as after the commit *)
(* of RefToWorkdir, the working directory is listed, then indexed.         *)
ListBase ==
  /\ progressed = "listBase"
  /\ before' = [before EXCEPT !.manifest = TreeOf[tip]]
  /\ progressed' = "indexBase"
  /\ UNCHANGED <<disk, tip, demand, ends, after, graphs, firstRead, reply, stirs>>

IndexBase ==
  /\ progressed = "indexBase"
  /\ before' = [before EXCEPT !.key = CommitKey(TreeOf[tip])]
  /\ graphs' = graphs \cup {CommitKey(TreeOf[tip])}
  /\ progressed' = "listHead"
  /\ UNCHANGED <<disk, tip, demand, ends, after, firstRead, reply, stirs>>

ListHead ==
  /\ progressed = "listHead"
  /\ after' = [after EXCEPT !.manifest = disk]
  /\ progressed' = "indexHead"
  /\ UNCHANGED <<disk, tip, demand, ends, before, graphs, firstRead, reply, stirs>>

IndexHead ==
  /\ progressed = "indexHead"
  /\ after' = [after EXCEPT !.key = DiskKey(disk)]
  /\ graphs' = graphs \cup {DiskKey(disk)}
  /\ progressed' = "first"
  /\ UNCHANGED <<disk, tip, demand, ends, before, firstRead, reply, stirs>>

(* impacted-tests reads the head for its walk, then both sides for the     *)
(* diff; cgx diff and the gate read the base, then the head.               *)
ReadFirst ==
  /\ progressed = "first"
  /\ firstRead' = ReadGraph(IF demand.op = "impacted" THEN after.key ELSE before.key)
  /\ progressed' = "second"
  /\ UNCHANGED <<disk, tip, demand, ends, before, after, graphs, reply, stirs>>

Reply ==
  /\ progressed = "second"
  /\ LET head == ReadGraph(after.key) IN
     reply' = CASE demand.op = "diff" -> FilterDiff(demand, DiffGraphs(firstRead, head))
                [] demand.op = "gate" -> GateReply(demand, head, firstRead, ends[2])
                [] demand.op = "impacted" ->
                     ImpactedReply(firstRead, demand, before.manifest, after.manifest,
                                   ReadGraph(before.key), head)
  /\ progressed' = "done"
  /\ UNCHANGED <<disk, tip, demand, ends, before, after, graphs, firstRead, stirs>>

(* Somebody edits files, commits or checks out, or indexes: that run keeps *)
(* one graph at most of those stored here.                                 *)
Stir(kind) ==
  /\ progressed # "done"
  /\ kind \notin stirs /\ Cardinality(stirs) < MaxStirs
  /\ stirs' = stirs \cup {kind}
  /\ CASE kind = "edit"  -> (disk' \in SourceTrees \ {disk}) /\ UNCHANGED <<tip, graphs>>
       [] kind = "move"  -> (tip' \in Revisions \ {tip}) /\ UNCHANGED <<disk, graphs>>
       [] kind = "prune" -> /\ graphs # {}
                            /\ graphs' \in {{}} \cup {{k} : k \in graphs}
                            /\ UNCHANGED <<disk, tip>>
  /\ UNCHANGED <<demand, progressed, ends, before, after, firstRead, reply>>

ChangesNext ==
  \/ ResolveHeadCommit
  \/ ResolveBaseCommit
  \/ \E side \in {"base", "head"} : IndexRef(side)
  \/ ListBase
  \/ IndexBase
  \/ ListHead
  \/ IndexHead
  \/ ReadFirst
  \/ Reply
  \/ \E kind \in {"edit", "move", "prune"} : Stir(kind)

ChangesSpec == ChangesInit /\ [][ChangesNext]_changeVars

-------------------------------------------------------------------------------
(* What the answers are judged by: the trees compared, not what was read. *)
Finished(op) == progressed = "done" /\ demand.op = op

BaseTree == IF demand.sides = "workdir" THEN TreeOf[tip] ELSE TreeOf[ends[1]]
HeadTree == IF FromWorkdir(demand) THEN disk ELSE TreeOf[ends[2]]

UniquelyNamed(g) == \A n \in Ids(g) : Carrying(g, g.nodes[n].fqn) = {n}

(* The pairs of names of which one reaches the other. *)
ReachedFrom(g, es, n) == Within(es, {n}, "forward", Cardinality(Ids(g)))
NamedReach(g, from, to) ==
  LET es == {e \in g.edges : e.kind \in ReachKinds}
  IN  UNION {{<<g.nodes[s].fqn, g.nodes[t].fqn>> :
                t \in (ReachedFrom(g, es, s) \ {s}) \cap Matched(g, to)} : s \in Matched(g, from)}

(* The gate on new paths (run_path_added) passes only if no source of the  *)
(* head reaches a sink it did not reach in the base, and each path it      *)
(* fails for is one of the head and takes a hop that cgx diff lists as     *)
(* added (where the base defines no name twice).  A diff that lists no     *)
(* edge is of graphs that reach the same.                                  *)
NewPathsAreFound ==
  stirs = {} =>
    LET base == GraphOf[BaseTree]
        head == GraphOf[HeadTree]
        added == DiffGraphs(base, head).added
        everything == Names(base) \cup Names(head)
    IN  /\ Finished("gate") /\ reply.exit # "usage" =>
             /\ {<<p.from, p.to>> : p \in reply.added} =
                  NamedReach(head, demand.from, demand.to)
                    \ NamedReach(base, demand.from, demand.to)
             /\ (reply.exit = "ok") <=> (reply.added = {})
             /\ UniquelyNamed(base) =>
                  \A p \in reply.added : \E i \in added, k \in 1 .. Len(p.via) - 1 :
                    i.src = p.via[k] /\ i.dst = p.via[k + 1] /\ i.kind \in ReachKinds
        /\ Finished("diff") /\ demand.buckets = {} /\ ~HasEdgePredicate(demand)
             /\ reply.added \cup reply.removed = {}
             /\ UniquelyNamed(base) /\ UniquelyNamed(head) =>
               NamedReach(base, everything, everything) = NamedReach(head, everything, everything)

(* Backward over the calls a filter admits, and from a lambda to the       *)
(* function it is written in.                                              *)
CallersOf(g, filter, ns) ==
  {e.src : e \in {e \in g.edges :
                    e.dst \in ns /\ Admits(filter, e) /\ WithinCap(filter, g.edges, e)}}

OwnersOf(g, ns) ==
  UNION {Carrying(g, g.nodes[x].owner) : x \in {x \in ns : g.nodes[x].kind = "lambda"}}

ImpactOf(g, filter, ns) ==
  LET grown[k \in Nat] ==
        IF k = 0 THEN ns
        ELSE LET last == grown[k - 1]
             IN  last \cup CallersOf(g, filter, last) \cup OwnersOf(g, last)
  IN  grown[Cardinality(Ids(g))]

WithinHops(g, filter, ns, hops) ==
  LET grown[k \in Nat] ==
        IF k = 0 THEN ns ELSE grown[k - 1] \cup CallersOf(g, filter, grown[k - 1])
  IN  grown[hops]

TestsAmong(g, ns) == {n \in ns : g.nodes[n].test}
ChangedFiles(old, new) == {p \in Paths : new[p] # Unset /\ old[p] # new[p]}

(* impacted-tests, of states nobody disturbed: every test in the closure   *)
(* of the changed files is reported (under a bound on the depth, those     *)
(* that many calls away), every test reported is in the closure of what is *)
(* said to have changed, and a gate that passes had something to ask and   *)
(* would pass without its bound, and without its floor.                    *)
ImpactIsWhole ==
  Finished("impacted") /\ stirs = {} =>
    LET g == GraphOf[HeadTree]
        files == ChangedFiles(BaseTree, HeadTree)
        seeds == InFiles(g, files)
        tests == {r.test : r \in reply.rows}
    IN  /\ TestsAmong(g, IF demand.depth = NoBound THEN ImpactOf(g, demand.filter, seeds)
                         ELSE WithinHops(g, demand.filter, seeds, demand.depth)) \subseteq tests
        /\ tests \subseteq ImpactOf(g, demand.filter, reply.changed)
        /\ demand.assertEmpty /\ ~demand.allowVacuous /\ reply.exit = "ok" =>
             /\ reply.changed # {}
             /\ files # {} => \E n \in reply.changed : g.nodes[n].lang \in SupportedLangs
             /\ TestsAmong(g, ImpactOf(g, demand.filter, seeds)) = {}
             /\ demand.depth = NoBound => TestsAmong(g, ImpactOf(g, EveryCall, seeds)) = {}

(* Whatever happened meanwhile: the chain of a row (chain_for) leads from  *)
(* its test to a changed symbol of the graph that was walked, by calls the *)
(* filter admits and from functions to lambdas written in them, and says   *)
(* so; and the forest shows its test, or that it was cut, unless it is     *)
(* deeper than the tree goes or owns the changed symbol and does not call  *)
(* it: witness_subgraph draws no link for such a test.                     *)
WitnessesHold ==
  Finished("impacted") =>
    LET g == firstRead
        calls(a, b) == a \in CallersOf(g, demand.filter, {b})
        holds(a, b) == a \in OwnersOf(g, {b})
    IN  \A r \in reply.rows :
          /\ Head(r.chain) = r.test /\ g.nodes[r.test].test
          /\ Last(r.chain) \in reply.changed
          /\ IsInjective(r.chain)
          /\ \A i \in 1 .. Len(r.chain) - 1 :
               calls(r.chain[i], r.chain[i + 1]) \/ (holds(r.chain[i], r.chain[i + 1]) /\ r.lifted)
          /\ r.lifted => r.confidence = 0 /\ "impacted-closure-containment-lift" \in reply.over
          /\ \/ demand.tree = "full" /\ Len(r.chain) - 1 > TreeDepth
             \/ /\ Len(r.chain) = 2 /\ holds(r.chain[1], r.chain[2])
                /\ ~calls(r.chain[1], r.chain[2])
             \/ r.test \in Shown(reply.page)
             \/ reply.page.more > 0

(* An answer with no reason to have missed anything (SideCodes, LangCodes) *)
(* is of sides with nothing new in them but what no index ever reads, and  *)
(* no symbol gone, unless another index run took the graphs away first.    *)
SilenceIsTrue ==
  Finished("impacted") /\ reply.under = {} /\ "prune" \notin stirs =>
    LET old == before.manifest
        new == after.manifest
    IN  /\ \A p \in ChangedFiles(old, new) :
             old[p] = Unset /\ FromWorkdir(demand) /\ p \in OwnStore \cup Generated
        /\ stirs = {} => Names(GraphOf[BaseTree]) \subseteq Names(GraphOf[HeadTree])

(* What the comment of run_impacted_tests says of the tree it prints: no   *)
(* chain is truncated by its depth, so that a test is missing only where   *)
(* the tree says how many rows are; of the tests that are neither changed  *)
(* themselves nor lifted straight from what is.                            *)
ForestShowsEveryTest ==
  Finished("impacted") /\ reply.page.more = 0 =>
    {r.test : r \in {r \in reply.rows : ~r.marked}} \subseteq Shown(reply.page)
===============================================================================
