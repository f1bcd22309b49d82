# cgx: verification project

cgx indexes a git repository into a graph of definitions and calls, keeps that
graph in a content-addressed store under `.cgx/`, and answers questions about
it from the command line, from CQL and over MCP, each answer carrying what it
could not see. This directory holds TLA+ models of it, the TLC configurations
that check them, and proofs that TLAPS checks. Paths below are relative to the
repository's root.

## 1. Inventory

Data flows one way: bytes of a git tree, then facts of each file (language
adapters), then fragments (cache), then the linked graph (resolver), then the
store, then answers (queries). What is hard lies at two places: several
processes share `.cgx/` and the checkout under it moves, and the graph is an
approximation that must say where it is one.

| component | state | operations | interacts with | hard behaviour | correct when |
|---|---|---|---|---|---|
| object store (`cgx-store`: `object_store.rs`, `durable.rs`, `lock.rs`, `manifest.rs`) | objects, refs, temp files, the lock file | `put_graph`, `read_graph`, `prune_graphs_except`, `graph_for` | shared by all processes; readers take no lock | kills and power losses between any two writes; sweeps beside readers | a ref names a whole closure; a reader gets one whole graph |
| fragments (same file, and `pipeline.rs`) | one record per file and context | `fragment`, `put_fragments` | adapters produce them, the linker reads them | two cgx versions share one cache; unflushed renames | a link gets what extraction would give |
| overlay (`overlay.rs`) | an in-memory store | the same operations | reads through to the base | it must never write the base | as for fragments |
| local index (`cgx-index`: `local.rs`, `lib.rs`) | `HEAD.json`, the store | `index_repo`, `ensure_indexed`, `load_current`, `--at` | git HEAD, store | HEAD moves; two index runs use one temp file; prune of each other's graph | a query is answered from the graph of HEAD |
| git view (`git.rs`) | none of its own | reads of HEAD, of a tree, of the working directory | every layer above | each call is another look at what moves | each run takes one look, or says so |
| transport (`cgx-transport`) | `refs/cgx/index` locally and at the remote | `push`, `pull` | store files, git | no store lock is taken; compare-and-swap with retries | what is published, and what a pull leaves, is whole |
| MCP session (`cgx-mcp`: `session.rs`) | nothing between calls | `acquire`: committed graph or overlay | local index, working directory | several walks of a working directory being edited | answer, version and freshness verdict speak of one graph |
| MCP server, tools, confinement | the connection | one request at a time | session, queries | none across steps | arguments are checked |
| linker (`cgx-resolve`: `link.rs`, `symtab.rs`) | a symbol table per run | `link` | facts in, graph out | five ways to resolve a name; candidate groups; renumbering | no call vanishes; certain means one candidate; order of files is immaterial |
| precision passes (`scip_relabel.rs`, `cha.rs`, `rta.rs`, `sig.rs`) | the graph, in place | raise, redirect, add and drop edges | run in a row over one graph | later passes undo or rely on earlier ones | what is dropped cannot run; groups stay consistent |
| receiver narrowing (`receiver/`) | a class lattice, types of locals and fields | opt-in narrowing | linker | classes whose bases nobody can resolve; stores through base classes | a dropped candidate cannot be the callee |
| effect closure (`effects.rs`, `graph_alg.rs`) | an explicit-stack component search | `close_effects` | runs last | low-links on nested cycles | a definition has the effects of all it reaches |
| data flow (`ifds.rs`, `summary.rs`, part of `link.rs`, `graph.rs`) | value nodes, summaries, a budget | opt-in value graph, `propagate_dirty` | linker, cache tables of the SQLite store | recursion; budget cuts; a second run | the summaries are the flows there are, or a cut is marked; what is reused did not change |
| SQLite store (`store.rs`, `schema.rs`) | `cache.db` | migration, cache tables | older binaries | migration by two processes | a cache: a miss is the worst case |
| walks (`cgx-query`: `walk.rs`, `engine.rs`) | frontiers, a path stack | `callers`, `callees`, `reaches`, `paths`, `unused`, patterns | graph view | depth horizons, caps, two walks that must agree | finds what is there, says when it stopped |
| contract (`contract.rs`) | counts of the region touched | scan, verdict | walks | calls the graph has no edge for | `exact` is only said of the whole truth |
| impacted tests (`cgx-diff`, `cgx-query`: `impacted.rs`, `forest.rs`) | two sides in one store, one search per root | `impacted-tests` | diff, walks, contract, store | lists and indexes are read one after the other; lifts out of closures; gates under a floor or bound | no test that runs changed code is missing; an empty answer says why it may be wrong |
| search, symbols | none | ranking, name lookup | walks | none across steps | ranking is as told |
| CQL (`cgx-cql`) | a stream of bindings | parse, lower, evaluate | walks | direction of a walk, three budgets, grouping before and after a cut | rows are those of the pattern, or the cut is said |
| selectors (`cgx-select`) | none | parse, match | queries | anchored matching | the matches of the pattern |
| diff, age, coupling (`cgx-diff`) | none; counts of a history walk | difference of two stored graphs, gate on new paths, co-changes of a range | local index, git | names against nodes; merges, shallow clones | a new path is found, an old one is not; each commit of the range counts once |
| codec, manifests (`cgx-core`, `cgx-store`: `types.rs`) | none | encode, decode, split into shards | store | inverse of each other | round trip |
| seam and adapters (`cgx-frontend`, `cgx-lang-*`) | a context and a stack of guards per file | `extract` per language | fragments | every nesting of constructs; handlers that end early | each call is recorded once, where it stands; each flow is one of the values |
| SCIP reader, compilation database, package manifests | none | decode, parse | precision passes | character level | decoding is right |
| CLI, doctor, tooling, benchmarks, documentation | none | arguments, rendering | all | none across steps | wording |

`PROJECT.json` lists every component with the modules that model it, or the
reason none does, and every hazard at the line where it bites.

## 2. Plan

Done, in this order: the store and its proof; the local index over the abstract
store; transport; the MCP session, each of the three with its proof; the fragment
cache and its proof; the walks
and the contract; the resolver pipeline; receiver narrowing; data flow and
summaries; the language adapters; CQL; the comparison of two states (diff, the
gate on new paths, impacted tests and their forest) and coupling.

Left, most important first:

1. `FactStore`: the migration of `cache.db` by two processes, the one hazard no
   property covers that is not of the store's files.
2. `ShardCodec`: split into per-function shards and reassembly. `Selector`: the
   anchored matcher against a reference definition over bounded patterns.
3. Name resolution in `receiver/modules.rs` and `imports.rs`, and the imports
   the adapters record.

New modules join the existing MC modules where they share state, so that a run
keeps asking one question; a weaker property gives way to a deeper one.

## 3. Modules

Each module's header says what it models and what it abstracts, `PROJECT.json`
"map" names the source lines of each definition, except of one-line helpers whose
lines are those of the definition they help. A definition commented
`Mutant:` is a plausible wrong form of the one after it: replacing that one by
it makes TLC refute the property paired with it, which shows that the property
speaks of the code and that the instance is large enough to notice.

**`ObjectStore`** is `object_store.rs` over `durable.rs` and `lock.rs`. An object is its
own name (it is named by the hash of its bytes); a file is absent, torn or
good. `disk` and `ref` are what processes see, `crash` and `refCrash` the
states a power loss may leave each file in: an fsync of a file's directory
narrows that set, nothing else does, and no order is assumed between two
directories. `put_graph` is `BeginPut`, `LockPut`, then per object `KeepObject`
(present and whole) or `WriteTemp`, `RenameTemp`, then `CommitBatch` (the
directories of the batch), `WriteRefTemp`, `PublishRef`, `SyncRefs`. `prune`
is `LockPrune`, `SweepTemps`, `DropRef` per key, `MarkLive`, `DeleteObject` per
victim, `EndPrune`. `read_graph` is one action per file it opens, and takes no
lock. `Kill` is a process that dies or fails anywhere; `PowerLoss` kills all and
picks a state for every file.

**`GraphMap`** is the abstract promise of the `FactStore` trait: a map from keys to
graphs, replaced a key at a time. `ObjectStore!ImplementsGraphMap` states the
refinement (the map is `ref`, a read in progress is `Pending`). `LocalIndex`
composes with `GraphMap`, so the two are checked separately and fit together.

**`LocalIndex`** is an index run (`ResolveKey`, `EnumerateTree`, `PutGraph`,
`Prune`, `CreateTemp`, `WriteTemp`, `RenameTemp`), the auto-index policy
(`Ensure`), the read of the current graph (`ReadPointer`, `GraphFor`,
`BeginReadGraph`, `EndReadGraph`) and the envelope (`EnvelopeHead`,
`EnvelopeTree`), interleaved with moves of HEAD and kills. The temp file of the
pointer is one file for all processes, so an open file is tracked to where its
inode is now.

**`Transport`** is `push` (promotion of refs, manifests, objects and the pointer,
the compare-and-swap of `advance_ref`, the send) and `pull` (fetch, then one
action per object, pointer and ref written back), beside index runs, with kills. A commit is its
tree, since all else in it is pinned.

**`McpSession`** is `acquire` on both of its paths and the freshness envelope,
walk by walk and, within a walk, file by file, while files are edited, HEAD
moves and other processes index. Each look it takes is a step: at HEAD and the
pointer (`ReadHead`, `IndexIsCurrent`), by the index run it may start
(`ResolveKey`, `EnumerateTree`, `PutGraph`, `PruneGraphs`, `WritePointer`), and by
`load_current` (`ReadPointer`, `FindGraph`, `BeginRead` or `ReadNothing`, `EndRead`);
what other processes do falls between any two, each of their steps by itself. The
store is the map of `GraphMap`. A graph is the function from paths to contents it
was built from.

**`FragmentCache`** is `extract_and_link` over the fragments: `Lookup` per file,
`Extract`, `KeepFragment` or `WriteFragment` under the lock, `Link`, by binaries
of several versions, over the store or an overlay.

**`GraphView`**, **`PathWalker`**, **`Contract`** are the queries. `GraphView` has the
graph record and the filter; `PathWalker` each walk as the loop it is in
`walk.rs` and its callers in `engine.rs`; `Contract` the scan and the verdict as
operators. A call the program makes and the graph has no edge for is an edge
marked lost: the walks cannot see it, the contract sees a count, the properties
see the truth (`Meant`). `ExactIsWhole` judges an answer within the depth asked
(`DepthMeant`), a bounded `unused` too, since the counts of narrowed calls skip the
last layer for that reason.

**`Linking`**, **`Precision`**, **`EffectClosure`** are the resolver pipeline: the link
pass over references, the four passes of `pipeline.rs` in its order, the effect
closure. Each pass is an operator from a graph to a graph; the component search
is a state machine, one action per turn of its loop. Its index and low-link arrays
are functions of the nodes met so far, and what is left to look at of a frame a set
whose least member is next, as the code's cursor into a sorted list is.
A reference has the place where it starts (`site`), which the calls of a chain
share, and among those a statement number of its own: the adapters count
references (`stmt_index`).

**`Receivers`** is `cgx-resolve/src/receiver`: the class lattice with bases that are
open, unknown, protocols or metaclasses, the fixed point of types through locals
and instance fields, and the lookups (`ConeLookup`, `SuperLookup`,
`ExtConeLookup`, `TypedLookup`) that decide what `x.m()` may be narrowed to, for
Python and Go. **`ReceiverWorlds`** is what it is held against: method resolution
as the languages define it, in every world that says what the unresolvable bases
are. Its header names the limits, which are those `lookup.rs` names, and two
more: an `m` stored on an instance by a parent and the hooks of floating classes
are not considered.

**`Summaries`** is the data-flow half of `link.rs`, `ifds.rs`, `summary.rs` and the
dirty set of `graph.rs`: `Mint` and one `ReadFact` per assignment, in program
order, with the grounding of its call; `NextComponent` and one `Recompute` per
function of it, under the budget; one `Apply` per edge a summary adds; and
`Reindex`, a second run over an edited program and what it reuses.

**`SyntaxWalk`** has what the adapters share, **`ExtractRust`**, **`ExtractGo`**,
**`ExtractC`**, **`ExtractCpp`**, **`ExtractJava`**, **`ExtractPython`** and **`ExtractTs`**
one action per handler of each adapter, **`Extraction`** the fallback adapter and the
properties, which are stated on the tree alone. A tree is one path from the root
of a file to a leaf: nothing an adapter learns from one child changes how it
walks the next, so the facts of a file are the union of those of its paths. What
each adapter is known not to see (`Unwalked`, `CalleeLost`, `TsLost`,
`IsSkipped`, and for a callee without a name `HasNoName`) is a table in
`Extraction`, not an escape in the properties.

**`CqlPlan`** and **`Cql`** are the query language from its syntax tree on: values and
their order, the checks made before a part runs, the walk each relationship of a
pattern becomes and its direction, then the stream of bindings through matches,
filters, `WITH`, procedures, grouping, ordering and limits, one action per clause
and part. `RowsAreTheMatches` compares each match with the declarative meaning
of its pattern, `TableIsOfTheStream` the table with the stream.

**`GraphDiff`** is the difference of two graphs with its filter and the gate on new
paths; **`ImpactedTests`** the tree an answer is printed as and the commands over
both: two sides listed, indexed and read one after the other while
files are edited, HEAD moves and other processes prune, then the changed set, the
backward search with its lifts out of closures, witnesses, contract and exit
codes. **`Coupling`** is the history walk of `coupling.rs`, one action per commit.

### Composition

    MCObjectStore = ObjectStore  refines  GraphMap
    MCLocalIndex  = LocalIndex   uses     GraphMap
    MCTransport   = Transport
    MCFragmentCache = FragmentCache
    MCResolver    = Linking <- Precision <- EffectClosure
    MCSummaries   = Summaries
    Extraction    = SyntaxWalk <- Extract{Rust,Go,C,...}
    MCCql         = GraphView <- CqlPlan <- Cql
    MCChanges     = GraphDiff <- ImpactedTests, Coupling

    MCAnalyses    = one at a time of
                    GraphView <- PathWalker <- Contract
                    Receivers  held against  ReceiverWorlds
                    McpSession   (over a map as GraphMap has it)
                    MCSummaries, Extraction, MCCql, MCChanges

The last is a union and no product: what these share, the stored graph, is read
whole by each, and the steps by which it may vanish beside them are in
`LocalIndex`, `McpSession` and `ImpactedTests`.

## 4. Runs

| run | distinct states | shows |
|---|---|---|
| `objstore_crash` | 856,591 | two processes put, prune and read, one kill, one power loss: refs stay whole, sweeps take only debris, no torn object is served, readers see the abstract map |
| `objstore_formats` | 231,380 | manifests of an older, the current and a newer format: what a newer one names is kept, no other garbage is left, every call returns |
| `local_shared` | 4,112,379 | two processes, every kind of call, two trees, one move of HEAD, one kill |
| `local_at_ref` | violation | see 6.1 |
| `transport_shared` | 1,838,829 | two processes push, pull and index in one clone beside a remote of another format, one kill |
| `fragments` | 446,499 | three processes of two versions, one with overlays, one blob at two paths, two failures |
| `resolver` | 269,322 | 6,520 programs through every pass |
| `resolver_chained` | violation | see 6.5 |
| `resolver_live` | violation | see 6.2 |
| `analyses` | 3,682,648 | each of the eight components of `MCAnalyses` by itself, see below |
| `cql_paths` | violation | see 6.3 |
| `impacted_forest` | violation | see 6.4 |

`analyses` is one run because its components share no state; each has its own
initial states and its own properties, which hold of the others for want of a
finished answer. It shows, of the

- walks and contract: every query shape over all 2048 programs of a menu of
  eleven calls (`FindsTheNearest`, `UncutPathsAreAll`, `ExactIsWhole`);
- MCP session: a source file and an ignored one, the trees of two commits, two
  events while a call runs (`UndisturbedAnswersAsAsked`, `VerdictIsRight`, `VersionNamesGraph`);
- receiver narrowing: calls over twelve class lattices and small programs of
  bindings, fields and stores in two functions (`NarrowingKeepsTheCallee`);
- summaries: two functions from ten bodies, every grounding of their calls, three
  budgets, an edit (`SummariesAreTheReachableFlows`, `ReusedFunctionsAreUnchanged`);
- adapters: every path of the eight grammars (`CallsAreSeenWhereTheyStand`,
  `FlowsFollowTheValues`);
- CQL: 50 queries over 65 graphs (`RowsAreTheMatches`, `TableIsOfTheStream`);
- comparisons: twelve trees, four commits, the disk, one disturbance
  (`NewPathsAreFound`, `ImpactIsWhole`, `WitnessesHold`, `SilenceIsTrue`);
- coupling: the ranges of four histories (`CouplingCountsTheRange`).

**Bounds.** Every counter that would grow is capped in the guards: `MaxKills`,
`MaxPowerLoss`, `MaxFailures`, `MaxMoves`, `MaxIndex`, `MaxTries`. One power loss and
one kill are enough for the store because what either leaves (torn files, a
missing flush, a stray temp file) is then met by an unbounded number of further
calls: calls are not bounded, the state space is finite without it. Two graphs
share one of three shards and two directories hold the objects, so that a put
keeps some objects and writes others, and a flush covers some and not others.
Two processes make every race of a pair; no operation waits for two others. The
remote in `Transport` may hold a graph of a newer format. `MaxTries` is 2 where
the code has 8, so that giving up is reached. For the session two events suffice
to put one between any two of a call's looks and undo it before the third, and to
let another run's prune follow its put. The
menu of the queries has a fork, a cycle, a self call, parallel edges under two
conditions, a candidate group, a spawn, a data-flow edge and a call lost in each
of the two ways; all its subsets are programs. Those of `resolver` are three
families, one about dispatch (a trait, a subtrait, three types, an inherited
default, a function value, SCIP facts), one about names (two modules of one
name, imports, re-exports, local bindings, closures, cycles), one about calls in
a chain, which start at one place; the supernode cap is 3, reached by some. Larger menus took TLC past five minutes and showed
nothing new.

A path of the adapters has four nodes of any kind, and a fifth where it goes
through a nested definition: a guard, a definition that must forget it, a
construct that must be descended into and a call are four. The lattices of
`MCAnalyses` have four classes, which is the least with a diamond, and each of
its bases may be open or unknown; one unresolvable base of a world is a class of
the repository. Ten bodies suffice for a recursion of one and of two functions,
a shadowed name, a call twice on a line; budgets 3, 30 and 200 overrun the index, a
component, and nothing. CQL graphs have up to four nodes; the cuts are at 5
rows, 2 paths and 6 steps and `DefaultDepth` is 2 where the code has 8, and each
cut occurs. The trees of the comparisons are of seven paths: a crate edited a
file or two at a time, a closure in a closure, a test that owns one, a page in a language whose tests
are not recognised, a file no language claims, a build output and a file of the
store. One disturbance puts an edit, a move of HEAD or a prune between any two
reads of a call; with three, the comparisons alone have 1,808,064 states and no
other outcome. `TreeDepth` is the code's 2, `TreeBudget` is 4, both are reached.

**Symmetry** is used only where the run checks no liveness and the swapped values
are not told apart by any definition: processes of one kind, keys, trees along
with their graphs. `ImplementsGraphMap` is a safety property.

**Deadlock** is checked everywhere but in the runs of `MCResolver` and in those of
`analyses` and its parts, where a behaviour ends with its answer.

**Fairness** is assumed in `objstore_formats` alone: weak fairness of each
process's own calls, which says that a running process keeps running. A call
blocks nowhere but in `WriteLock::acquire`, a polling loop that ends by
`LOCK_TIMEOUT` (`crates/cgx-store/src/lock.rs`), which is an action of the
model. Nothing makes a process start a call, and nothing fair makes it get the
lock: `CallsReturn` says it returns, not that it succeeds.

**Conditional properties.** Some properties name what they cannot survive:
`...UnlessKilled`, `...UnlessRaced`, `...UnlessMoved`, `Undisturbed...`. Each does
fail without its condition, as section 6 tells, so the
condition says exactly which events the code does not withstand. The history
variables they use (`quiet`, `raced`, `intact`, `excused`) guard no action of the
detailed modules. `ExactIsWhole`, `LiveMethodsKept`, `OrderIndependent` and
`RowsAreTheMatches` are stated of the answers or programs their comments name;
section 6 lists what falls outside. `ImpactIsWhole` is of runs no event
disturbed; `WitnessesHold` and `SilenceIsTrue` are of all runs.

## 5. Proofs

`tlapm` checks them from nothing; they hold for every number of processes, keys,
graphs, shards, files, versions, kills and power losses. They assume only the
named `ASSUME`s of the modules, which say what the constants are (a graph has a
set of shards, an object a directory, a shard is no manifest, `None` is none of
the others).

**`ObjectStoreProofs`**: `SpecTypeOK`, `SpecRefClosure`, `SpecTempNotSwept`, from
`IInv == TypeOK /\ LockInv /\ PutInv /\ PruneInv /\ ReadInv /\ RefClosure`.
`RefClosure` alone is not inductive: publishing a ref preserves it only if all
the closure is in place (`PutInv`: what a writer has struck off its list is good
on disk, and stays so), which another process's sweep could undo were it not
that a writer and a sweeper both hold the one lock (`LockInv`); and a deletion
preserves it only if no victim is named by an intact ref (`PruneInv`, set up by
`MarkLive` from `RefClosure` itself). `ReadInv` gives that no reply mixes two
graphs, the last conjunct of `TypeOK`'s claim on `reply`: a reader has taken each
shard whole, and unless excused its key still names its graph. A power loss
empties `intact`, which is why the invariant speaks of keys published since.

Three more theorems rest on it. `SpecRefsAreDurable`, from `FlushInv`: with no
writer killed, an object in place is flushed or its directory is in the batch of
the writer at work, which flushes it before the ref; and a writer replaces
only what is not in place, so nothing durable becomes unflushed again.
`SpecPruneTakesTheGarbage`, from `SweepInv`: the list of a sweep has nothing live
on it, and everything dead unless a newer manifest made the sweep give up; nobody
else moves a file while it deletes. `SpecImplementsGraphMap` gives the
refinement step by step: publishing a ref is `Store`, dropping one is `Drop`, a
read begins with its ref and ends with its last shard or its error, a power loss
is `Damage`, and every other step stutters; `RefClosure` and `ReadInv` rule out
that a reader whose key nobody changed is told "corrupt".

**`FragmentCacheProofs`**: `SpecTypeOK`, `SpecFragmentsAreHonest`,
`SpecLinkedFactsAreOwn`, `SpecRewritesOnlyStale`, `SpecRunLeavesCacheWarm`, from
`IInv == TypeOK /\ FragmentsAreHonest /\ IdleIsClear /\ LookupPartition /\ PreparedIsOwn`.
A fragment that opens, now or in any state a power loss may bring back, holds
the facts its key and version determine; so what a run has prepared at any
point of its lookups is what its own binary would extract from the files it has
found (`LookupPartition`), and at the link from all of them (`PreparedIsOwn`).
That the link finds a warm cache needs `WarmInv`: whatever a run has taken off
its two lists is a hit, and at the link both are empty.

**`LocalIndexProofs`**: `SpecPointerWhole`, `SpecPublishedGraphIsStored`,
`SpecUndisturbedQuery`, over types and what each call knows of its own locals
(`TInv`), from three invariants that rest on it. `PublishInv`: as long as no two index
runs published at once, the one that publishes has its graph in the store and
`HEAD.json.tmp` to itself, so the rename publishes a whole pointer to a stored
graph. `SettledInv`: with HEAD at rest the tree of a run is the one its key names,
which is why only a move of HEAD between the two peels can store a graph under
another's key. `QuietInv`: a query whose call nothing disturbs knows HEAD at each
place in it (`KnowsHead`), from whatever pointer and store it met, torn ones and
dangling ones included.

**`TransportProofs`**: `SpecRefsKeepClosure`, `SpecPullMaterializes`, from
`IInv`, which follows a commit on its way. Every object of its refs that a push
has passed is in its tree (`PushKnows`); every object of its tree that a pull has
passed is good on disk, and so is the closure of each ref it has written
(`PullKnows`). The second survives other pulls, which only write good objects and
refs whose closure they have verified (`Keeps`), and survives index runs only
while none prunes the clone under it: such a run puts the clone in `raced`, which is the
one condition of both theorems. Kills, torn objects, refused objects and lost
swaps need none.

**`McpSessionProofs`**: `SpecAnswersAsAsked`, `SpecVerdictIsRight`,
`SpecVersionNamesGraph`, from an `IInv` of two halves. Of an undisturbed call it says
that what each walk has gathered is what the disk still holds (`DirtyCallIsFresh`)
and that what each look at HEAD, the pointer and the store saw is still so
(`CommittedCallIsFresh`). The other half holds whatever moves: no graph is under
another tree's key unless some index run put it there (`StoreIsNamed`), a ref that
`graph_for` found is there for `read_graph` unless a prune fell between
(`RefIsThere`), so what is read is the key's own (`ReadIsNamed`). Those two races,
`mixed` and `swept`, are the code's (section 6) and the only ones the committed arms
of the last two theorems except; how often HEAD moves, other runs put, prune and
point otherwise, and where in the call, is open. A dirty answer of an undisturbed
call is told apart by its version since a base and its overlay determine the graph
(`EarlierIsTold`). One assumption beyond the types: the files are finitely many,
without which a walk need not end and counting differences says nothing.

**`ResolverProofs`**, for every set of symbols, every program and every order of
its files. About the passes over the graph: `CertainCallsAreUnambiguous`
(`CertainIsUnambiguous`), `GraphStaysCanonical` (`GraphIsCanonical`), `PassesSharpen`
(`PassesOnlySharpen`) and `LiveMethodsStay` (`LiveMethodsKept`); about the effect
closure: `EffectsOfAllReached` and `EmittedComponents`. Assumed is what
`SymbolsAssumption` and `CodesAssumption` say: definitions, references and SCIP facts
have their fields, entry points are definitions, and two references of one caller
that start at one place have statement numbers of their own.

The first three rest on `GraphInv`. What the passes promise of a certain edge or of
the candidate table is not inductive, since each pass tells calls by a part of
what the link pass knew: SCIP and CHA by where they start, RTA by the group. So
`SoundGraph` ties the parts together: edges of one call are alike but for
their targets, a group is of one call, has two targets and a row for each edge and no
other row, and what CHA gave a call is in one group. A pass then either takes
whole calls away, or members of a group with their rows, or replaces all the edges
of a call. The other half, `InCanonicalForm`, says the edges are in the order of their
keys and the groups numbered as they first appear. That is what `canonicalize`
leaves (its second sort moves nothing between two groups out of the order of the
first) and what it does not change (`InFormIsCanonical`: a sequence in order is
the only one with its members in order, places included, for equal keys stay as they
came); and SCIP may skip the sort when it has only rewritten
edges where they stand, in nothing the key is made of. Sorting is here a permutation
by a strict order (`InOrderLists`, by counting what goes before).

`LiveMethodsStay` needs more than the graph as it is: RTA prunes by what it
reaches over edges, and what is live is said of the references and of the graph as it
was linked. `LinkedInv` keeps that history: every reference still to do or linked to all
its targets (`Complete`); then, at each pass, what of the linked graph has been
replaced. CHA gives every dispatched call an edge to all that the implementors of the
traits have for it (`HasScoped`) and leaves the edges not found by name (`KeepsOthers`),
so that what RTA takes for reachable holds whatever is live (`LiveIsReached`, by
induction on the rounds of `Live`, for RTA's set is closed: `ReachOverIsLeast`), and a
method it drops is of a type that no live code constructs. Signatures touch indirect
edges only.

The explicit-stack search is proved by `SearchInv`: indices are given in the order of the stacks
(`MetInOrder`); a node met is open or in one component (`Partition`); the open nodes
fall into segments, one per frame, whose frame node reaches all that is open above it
and is reached from its segment (`SegmentsAreStrong`); a low-link is the index of an
open node its frame reaches (`LowIsOfAnOpenNode`) and no greater than any its segment
leads to (`LowCovers`). None of these is inductive alone. When a frame is left whose
low-link is its own index, `LowCovers` says that its segment leads to no open node
before it, so that what is emitted is closed over the components before it
(`ComponentsAreClosed`), and `SegmentsAreStrong` that it is strongly connected; when the
low-link is smaller, its witness is in a segment below, which takes this one in.
Then the recursion of `Settled` over the components in the order emitted has one
solution, since a component leads only to earlier ones (`SettledIsTotal`), and
what `ReachOver` computes in as many rounds as there are nodes is the least closed set
(`ReachOverIsLeast`, by counting).

**`WalkProofs`**: `WalksFindTheNearest`, that is `FindsTheNearest` for every graph, query
and order of ids. The two ends of its argument are far apart, the loop with its queue
on one side, the layers of the graph on the other, and `BfsInv` holds what ties them:
each node met has a discovery at its distance, by an edge from a node one nearer
(`FoundInv`); the queue is sorted by depth, its last at most one deeper than its first
(`QueueInv`); and a node met and no longer in the queue has all its neighbors within
the limit met, none of them more than one deeper (`Expanded`). That the confidences of
the second walk are those of the ways of the first is `TwiceInv`: whatever the second
walk has met and queued is what the first had at the same turn, so each node is met
over its discovery edge, when its parent's confidence is final. `WayTo`
is a recursion over discoveries, and has one solution since discovery edges lead to
lesser depths (induction on depth). With no limit asked, that no node is further
than there are edges is a count of the edges of a shortest way (`NearestBound`). The
same invariant holds of each walk of `unused`, from the root it is at (`Start`).

`EnumerationsAreWhole` is `UncutPathsAreAll`. `DfsInv` says of every route to the goal
that it has been found or is still ahead, and never both (`SoFarInv`): ahead are the
routes that go as the trail does to some step and leave it there by an edge still to
take (`IsAhead`). A visit turns the routes that go as the whole trail into one found or
into those by each neighbor; an edge passed over takes no route with it, because what is
marked is just what the trail has (`TrailInv`); a retreat loses none, because nothing is left
to take where it leaves. That none is found twice needs that an edge taken is not
again among those to take (`TodoInv`). Before that, that the routes of the definition,
a recursion on their length, are the walks on which nothing recurs (`GoalRoutes`, by
induction), and that without a depth none is longer than there are edges (by
counting). `LayerInv` is the walk of a pattern, layer by layer; once a layer is empty all
after it are (induction).

`ExactAnswersAreWhole` is `ExactIsWhole`, the promise of the contract, and joins the two
invariants. First, what a walk lists is the region the scan covers: for `unused` that is
`UsedInv`, the roots done with have all they reach among the used; an empty `reaches` or
`paths` says the goal is outside it, for `paths` because a node at distance k ends a
walk that meets a node at each distance (`DirectWalk`), so none twice, which is a route
`DfsInv` would have listed. Then, that a silent scan leaves nothing out: by induction on
the number of calls from a root, a symbol that calls of the program lead to within the
depth is in the region and no further there (`MeantIsTouched`). If the graph has the
last call, the walk took it, or the scan would show the floor, the cap or the depth that
kept it out (`SilentAdmits`, `SilentStays`); if not, the scan counted it, unless
it starts at the depth limit, where nothing was promised (`SilentLoses`). Last, ways
are sure since what is told of a row is of its whole way (`Told`, from the proof above).

Assumed is that edges have their ends in the graph, that no two it keeps share an id,
that what resolution loses are calls, that a query has a start, a direction and a floor,
`unused` forward, a pattern a depth and a least length, and that
the cap on paths is not 0: no command sets it, and the default is 1024.

`CountsAreOfTheRange` is `CouplingCountsTheRange`, about the walk of a history. While the
walk is on, the tables hold the tallies of the commits visited (`IsOfVisited`), which are
those once queued and no longer in the queue (`VisitedOf`); the queue has none twice, and the
parents of a commit visited have been queued or are hidden (`IsHistoryWalk`). So when the
queue is empty, what was queued and the ancestry of the base are together closed under
parents, and what was visited is the range (`AllVisited`), because the ancestors of a
commit are the least closed set it is in (`AncestorsAreLeast`, by counting generations).
A walk cut short has visited a part of the range, whose counts are no greater
(`ChangedInMore`), and met a commit that is not there, so that the history is not whole
(`NotWhole`). The rows are sorted by rank in their order; that an order has each rank
once is `RankedOnce`. Assumed is that a history has finitely many commits that each
change finitely many files, parents that are commits, and both ends of every range.

**`InductionLemmas`** is where the induction over data of these proofs comes from. The
library's induction theorems take an operator, which the provers cannot
instantiate; but that strict inclusion is well founded on the subsets of a
finite set is stated without one, and gives least and greatest members of a set of
numbers, and induction with the property given as a set.

**Model-checked only.** Liveness (`CallsReturn`) is out of the prover's reach. So are the
modules with a `RECURSIVE` operator (`Summaries`, `ReceiverWorlds`, `Cql`, `GraphDiff`,
`ImpactedTests` and the adapters), where the prover has no SMT backend.
`OrderIndependent` is checked over its programs: the order of files
decides the numbers groups are given before they are renumbered and which of two edges
with one sort key comes first, so that a proof is about two whole runs of the link
pass at once, and it rests on more than the named assumptions say (that
a definition's references are all in one file).

## 6. Where the code and its documentation disagree

### With a run that shows it

1. `local_at_ref`. A query at a pinned commit, or a diff, indexes that tree with
   `IndexOpts::default()` into the shared store under the plain key
   (`crates/cgx-cli/src/main.rs:2413`): for the indexed commit it replaces the
   standard graph by one without data flow, which plain queries then serve,
   against line 2987.
2. `resolver_live`. RTA judges a candidate by the type that declares it
   (`crates/cgx-resolve/src/rta.rs:146`): the default body a constructed type
   inherits from a trait is dropped, since nothing constructs a trait, against
   line 53.
3. `cql_paths`. A path whose right end is the more selective is listed from
   there (`crates/cgx-cql/src/lower.rs:543`, the flip of its direction), so
   `position_in` and the order of its nodes are the reverse of what
   `docs/questions/04-failure-path-behavior.md:350` relies on.
4. `impacted_forest`. The caller passes no depth bound so that no witness chain
   is cut, and `render_full` takes that for the default of 2
   (`crates/cgx-cli/src/forest.rs:165`): tests three hops away are missing from
   the printed tree without a mark.
5. `resolver_chained`. A call's `site_id` is derived from where its expression
   starts, which is one place for both calls of `a.m().save()`. `run_cha`
   (`crates/cgx-resolve/src/cha.rs:153`) takes the method of a site from its first
   edge and drops the edges of all its calls: those of `save`, which no trait
   declares and line 131 leaves untouched, go with those of `m`. Line 98 has it
   that the link pass derives one site_id per call site, and
   `docs/13-glossary.md:251` that it identifies one. `LiveMethodsKept` is asked
   of programs without such calls (`SitesApart`); the other properties are of all.
   For the same reason a SCIP fact about the first call of a chain redirects the
   others, and of two indirect calls of a chain one is resolved.

### Seen while modelling, without a run of their own

Store and local index
- `index_path` peels HEAD twice, for the key and for the files
  (`crates/cgx-index/src/lib.rs:102`): a move between them stores one tree's graph
  under the other's key. `PublishedGraphIsStored` says that nothing else
  can, `VerdictIsRight` and `VersionNamesGraph` that nothing else makes a committed
  answer wrong about its tree but the next point.
- `graph_for` and `read_graph` are two looks at the store (`local.rs:213`): with
  another run's prune between them `load_current` serves the empty graph, to the CLI
  and to MCP, against line 206.
- Two index runs share `HEAD.json.tmp` outside any lock
  (`crates/cgx-index/src/local.rs:125`).
- The CLI's envelope reads the pointer again after the answer
  (`crates/cgx-cli/src/freshness.rs:39`).
- A prune deletes refs and objects with no flush between
  (`object_store.rs:840`): a power loss may bring back a ref without its objects.
- `write_object` keeps an object that is in place and leaves its directory out of
  the batch it flushes (`object_store.rs:499`). If the writer that renamed it was
  killed before its flush, the next put publishes a ref over an object no one
  flushed, against line 29: the condition of `RefsAreDurableUnlessKilled`.
- The migration of `cache.db` (`crates/cgx-store/src/store.rs:142`) is not one
  transaction.

Transport
- `push` sends whatever `refs/cgx/index` names by then, which need not be the
  commit it swapped in (`crates/cgx-transport/src/lib.rs:96`), and reads `HEAD.json`
  after the refs it goes with (line 252). Objects are promoted unverified.
- `pull` writes without the store's lock (`lib.rs:151`), so a prune beside it
  deletes what it has written and not yet referenced: the condition of
  `RefsKeepClosureUnlessRaced`.

MCP session
- The overlay is found by one walk and the graph built by a later one, and an
  edit between the two is answered under the first's version
  (`crates/cgx-mcp/src/session.rs:153`). If HEAD moved and the overlay is empty,
  the answer may be named as HEAD's tree (line 205).
- Over the committed tree two answers of one version may differ after one of the
  two races of the local index, and then only.

Queries and contract
- An enumeration of trails ends at its first meeting of the goal and reports no
  truncation (`crates/cgx-query/src/walk.rs:532`, against line 73).
- An exact answer may rest on edges that are only probable
  (`crates/cgx-query/src/contract.rs:49`). A non-empty `paths` answer reports no
  depth limit and no edge below the floor; a scope of calls mixed with other kinds
  (`IsPlainScope` leaves it out) does not report dangling calls; backward walks
  ignore unresolved calls, which `impacted.rs` counts. `ExactIsWhole`
  is asked of the other answers.
- `diff_trees` takes a missing graph for an empty one
  (`crates/cgx-diff/src/lib.rs:65`).

Resolver
- The order of the signature pass and CHA and RTA is called immaterial
  (`crates/cgx-index/src/pipeline.rs:393`), but a type constructed only behind an
  indirect call is not seen as instantiated by RTA, which runs first.
- RTA's guard against unresolved code looks at the edges the graph has, not at
  the calls it has none for. `LiveMethodsKept` counts as live what runs without
  going through a function value.
- CHA does not follow class inheritance to an interface. A SCIP fact that
  resolves a call to a trait's own member redirects it there, and CHA then adds
  none of the implementations.
- Re-exports are keyed by the last segment of a module and the last file wins
  (`crates/cgx-resolve/src/symtab.rs`), so two colliding ones make the link depend
  on the order of files; `pipeline.rs` sorts them by path. `OrderIndependent` asks
  for independence of that order where re-exports do not collide.

Language adapters
- `walk_decorated` of the Python adapter marks the last definition recorded so
  far (`facts.defs.last_mut()`, `crates/cgx-lang-python/src/extract.rs:522`): a
  function nested in an abstract method is called abstract in its place.
- The fallback tells definitions by the words "method" and "function" anywhere
  in a kind, so `method_invocation` and `function_call` are definitions, against
  line 15 of `fallback.rs`. No grammar registered today has either.
- Rust: a call whose callee is in parentheses, as `(self.f)(x)`, has no name and
  leaves no reference, also awaited, spawned or tried
  (`crates/cgx-lang-rust/src/extract.rs:720`), with no cut in its place.
- TypeScript pushes "always" for a finally to override what is around the try, says
  the comment (`crates/cgx-lang-ts/src/extract.rs:1433`), and the strongest label on
  the stack wins: in a catch the call stays exceptional, as GM-3.2 has it
  (`docs/03-code-graph-model.md:258`). `LabelsAreOfTheChain` is of what the code and
  GM-3.2 do.
- TypeScript: `const f = () => g()` loses the call of `g`; `exports.f = x => g(x)`
  does not. The other constructs whose calls no adapter sees are in the tables
  of `Extraction`.

Data flow
- `ifds.rs` says that summaries only ever grow. The set of parameters does; the
  transform and condition of each are those of the first way `compute_summary`
  meets it on. For `x = a; y = b.lo; z = f(b, a); return x + y + z` in `f(a, b)`
  the two facts exchange their transforms in every recompute
  (`crates/cgx-resolve/src/ifds.rs:167`): the component runs to its cap, and every
  edge between functions is marked.
- `b = a + b` gives a flow of a value into itself, against the comment in
  `link.rs` that a self-named source binds to the prior value.
- After an `if` with two branches the current value of a name is the last
  branch's alone.
- The set of changed functions misses those all of whose assignments went, those
  deleted, and changes of a signature or an import. The edges are always rebuilt,
  so only the telemetry and the cached rows tell.

CQL
- Constraints of an anchor other than the one it is looked up by are not checked
  when it has a name (kind with name; file and line), though
  `docs/05-queries.md:681` has predicates of several keys. The kind of a
  variable-length peer with a name is dropped; a label with a kind admits either.
- A variable that a pattern names twice is bound again and not compared, also in
  `(a)->(b)->(a)`.
- A bare `*` ends at depth 8 without a truncation mark, against the comment that
  it never silently drops.
- A pattern predicate ignores what its peer is bound to, and which of its ends it
  starts from decides whether a bound variable counts; one of variable length
  cannot see that a node reaches itself.
- Nested pattern predicates, unknown functions, sort keys that name no column and
  any bad sort key of a `WITH` are refused when a row meets them, not before.
  `NOT null` is true; a comparison with null false.
- `docs/05-queries.md:1635` says simple paths; the walk goes by edges.
  `RowsAreTheMatches` is asked of the patterns these points leave (`IsPlain`).

Comparisons
- The files of a side are listed before it is indexed
  (`crates/cgx-diff/src/impacted.rs:407`): an edit between the two that removes a
  call hides the tests above it, and no reason says so. The same goes for HEAD
  between `enumerate_tree` and `index_path`.
- An index run of another process prunes the sides before they are read. A
  missing base makes every path new; a missing head empties the answer.
- A deleted file without symbols surfaces nowhere, against the comment that
  deleted paths surface through the removed nodes.
- A floor and a depth bound together can empty a gate that then passes, for each
  counterfactual lifts one of them; `--max-candidates` has none. A comparison of
  nothing comparable exits as vacuous without `--assert-empty`, and under
  `--allow-vacuous`.
- `witness_subgraph` draws no edge for a row marked as changed itself
  (`crates/cgx-cli/src/main.rs:1641`), and a test lifted straight from a changed
  closure carries that mark: the closure is printed alone and the test not at all,
  against line 1668. `WitnessesHold` asks nothing of the tree for such a row.
- A witness chain may join the searches of two roots and be longer than `--depth`.
- `index_ref` of `main.rs` promises to remove its worktree whatever the index run
  gives, and returns its error first. The one of `impacted.rs` keeps the promise.
- The gate on new paths gives the age of a path's source symbol, not the path's.
- `coupling` errors on a commit of the range whose parent is missing from the
  object database, which `coupling.rs` calls an approximation and no error.

## 7. Not modelled, and why

- Parsers and codecs (SCIP, CQL text, selectors, package manifests, bincode):
  character-level work. Those with a bounded core are in the plan.
- Rendering, ranking, exit codes of other commands, doctor: no state and no property beyond
  wording.
- `configure_remote`, `FactStore::prune` (no command calls it), the data-flow
  telemetry tables.
- Abbreviated object names and hash collisions: names are whole and injective.
- The adapters' imports and signatures, and the text of names.
- Receivers: resolution of module and import names, class heads bound once,
  metaclass calls, implicit root methods.
- Comparisons: cut markers on edges, renderings other than the tree, the ranking
  of impacted symbols, blame and history reads, which are external. Witness
  forests here are unions of chains, so cycle marks do not occur in them.
- CQL: floats, the tokenizer and the parser.
- Within other modelled parts: cut markers in `Contract`; power loss during a
  pull; `receiver/` and data flow are modules of their own and not part of
  `Linking`.
