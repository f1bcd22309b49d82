------------------------------- MODULE MCChanges -------------------------------
(***************************************************************************)
(* A small repository for ImpactedTests: a crate whose files change one or *)
(* two at a time, a page in a language without recognised tests, a file no *)
(* language claims, a build output git ignores and a file of the store.    *)
(* For Coupling, histories with a fork, a merge and holes.                 *)
(***************************************************************************)
EXTENDS ImpactedTests, Coupling

Func(fqn, file, cut) ==
  [fqn |-> fqn, file |-> file, owner |-> "crate", kind |-> "function", lang |-> "rust",
   test |-> FALSE, cut |-> cut, away |-> {}]
Test(fqn, file) == [Func(fqn, file, {}) EXCEPT !.test = TRUE]
Closure(fqn, file, owner) == [Func(fqn, file, {}) EXCEPT !.kind = "lambda", !.owner = owner]
Script(fqn, file) == [Func(fqn, file, {"unresolved-dynamic-dispatch"}) EXCEPT !.lang = "typescript"]

CallSite(src, dst, kind, condition, confidence, stmt) ==
  [src |-> src, dst |-> dst, kind |-> kind, condition |-> condition,
   confidence |-> confidence, stmt |-> stmt]

(* What a file defines and calls, in the canonical order of names. *)
Defines(p, blob) ==
  CASE blob \in {"core1", "core2"} -> <<Func("add", p, {})>>
    [] blob = "core3" -> <<Func("add", p, {}), Func("log", p, {})>>
    [] blob \in {"lib1", "lib2", "lib4"} -> <<Func("mid", p, {}), Func("top", p, {})>>
    [] blob = "lib3" -> <<Func("add", p, {}), Func("mid", p, {}), Func("top", p, {})>>
    [] blob = "tests1" ->
         <<Func("check", p, {}), Closure("check{}", p, "check"), Test("test_mid", p), Test("test_top", p)>>
    [] blob = "tests2" -> <<Test("test_log", p), Closure("test_log{}", p, "test_log")>>
    [] blob = "page1" -> <<Script("render", p)>>
    [] blob = "page2" -> <<Script("draw", p), Script("render", p)>>
    [] OTHER -> <<>>

Sites(blob) ==
  CASE blob = "core3" -> <<CallSite("add", "log", "calls", "always", 2, 1)>>
    [] blob \in {"lib1", "lib3"} ->
         <<CallSite("mid", "add", "calls", "always", 2, 1), CallSite("top", "mid", "calls", "always", 2, 1)>>
    [] blob = "lib2" -> <<CallSite("top", "mid", "calls", "always", 2, 1)>>
    [] blob = "lib4" ->
         <<CallSite("mid", "add", "calls", "exception", 1, 1), CallSite("mid", "add", "spawns", "always", 2, 2),
           CallSite("top", "mid", "calls", "always", 2, 1)>>
    [] blob = "tests1" ->
         <<CallSite("check{}", "mid", "calls", "always", 2, 1),
           CallSite("test_mid", "check", "calls", "always", 2, 1),
           CallSite("test_top", "top", "calls", "always", 1, 1)>>
    [] blob = "tests2" -> <<CallSite("test_log{}", "log", "calls", "always", 2, 1)>>
    [] blob = "page2" -> <<CallSite("render", "draw", "calls", "always", 2, 1)>>
    [] OTHER -> <<>>

FileOrder == <<"core", "lib", "page", "tests">>
NameOrder == <<"add", "check", "check{}", "draw", "log", "mid", "render", "test_log",
               "test_log{}", "test_mid", "test_top", "top">>

DefinedIn(t) ==
  FlattenSeq([k \in DOMAIN NameOrder |->
    FlattenSeq([i \in DOMAIN FileOrder |->
      SelectSeq(Defines(FileOrder[i], t[FileOrder[i]]), LAMBDA n : n.fqn = NameOrder[k])])])

SitesIn(file, sites) == [c \in DOMAIN sites |-> [site |-> sites[c], file |-> file]]
CallsOf(t) ==
  FlattenSeq([i \in DOMAIN FileOrder |-> SitesIn(FileOrder[i], Sites(t[FileOrder[i]]))])

(* A call of a name nothing carries is counted on its caller. *)
MarkDangling(nodes, calls) ==
  LET names == {nodes[n].fqn : n \in DOMAIN nodes}
      dangling(n) == \E c \in DOMAIN calls :
        calls[c].site.src = n.fqn /\ calls[c].file = n.file /\ calls[c].site.dst \notin names
  IN  [k \in DOMAIN nodes |->
         IF dangling(nodes[k])
         THEN [nodes[k] EXCEPT !.cut = @ \cup {"impacted-unresolved-external-calls"}] ELSE nodes[k]]
NodesOf(t) == MarkDangling(DefinedIn(t), CallsOf(t))

(* A call of a name two nodes carry is one of a candidate set of both. *)
EdgesTo(site, from, to, group) ==
  [k \in DOMAIN to |->
    [site EXCEPT !.src = from, !.dst = to[k], !.confidence = IF Len(to) > 1 THEN 0 ELSE @]
      @@ [group |-> IF Len(to) > 1 THEN group ELSE 0]]

LinkCalls(nodes, calls) ==
  FlattenSeq([c \in DOMAIN calls |->
    EdgesTo(calls[c].site,
            CHOOSE n \in DOMAIN nodes :
              nodes[n].fqn = calls[c].site.src /\ nodes[n].file = calls[c].file,
            SelectSeq([n \in DOMAIN nodes |-> n], LAMBDA n : nodes[n].fqn = calls[c].site.dst),
            c)])

Linked(nodes, edges) ==
  [nodes |-> nodes, edges |-> {edges[i] @@ [id |-> i] : i \in DOMAIN edges}]
LinkNodes(nodes, calls) == Linked(nodes, LinkCalls(nodes, calls))
Link(t) == LinkNodes(NodesOf(t), CallsOf(t))

MCPaths == {"core", "lib", "page", "tests", "notes", "out", "own"}

TreeWith(core, lib, tests) ==
  [p \in MCPaths |-> CASE p = "core" -> core [] p = "lib" -> lib [] p = "tests" -> tests
                       [] OTHER -> Unset]

Plain == TreeWith("core1", "lib1", "tests1")
Edited == TreeWith("core2", "lib1", "tests1")
Cut == TreeWith("core1", "lib2", "tests1")
Gone == TreeWith(Unset, "lib1", "tests1")
Twice == TreeWith("core1", "lib3", "tests1")
Rescued == [TreeWith("core3", "lib4", "tests1") EXCEPT !["page"] = "page1"]
Littered == [Plain EXCEPT !["out"] = "out1", !["own"] = "own1"]
Noted == [Plain EXCEPT !["out"] = "out1", !["notes"] = "notes1"]
Paged == [Plain EXCEPT !["page"] = "page2"]
Untested == TreeWith("core2", "lib2", Unset)
Quiet == TreeWith("core1", "lib1", "tests2")
Logging == TreeWith("core3", "lib1", "tests2")

MCTreesOf == ("c0" :> Plain) @@ ("c1" :> Cut) @@ ("c2" :> Rescued) @@ ("c3" :> Quiet)
MCDisks == {Plain, Edited, Cut, Gone, Twice, Rescued, Littered, Noted, Paged, Untested, Quiet, Logging}
MCGraphOf == [t \in MCDisks |-> Link(t)]
MCRevisions == DOMAIN MCTreesOf
MCMergeBase == [c \in MCRevisions |-> [d \in MCRevisions |-> IF c = d THEN c ELSE "c0"]]
MCBlame ==
  [c \in MCRevisions |->
     [f \in ToSet(NameOrder) |->
        CASE f = "mid" /\ c = "c2" -> <<[commit |-> "c2", time |-> 3], [commit |-> "c0", time |-> 1]>>
          [] f = "top" -> <<[commit |-> "c0", time |-> 1], [commit |-> "c1", time |-> 1]>>
          [] OTHER -> <<>>]]

-------------------------------------------------------------------------------
Ask2(base, head, mergeBase) ==
  [sides |-> "refs", base |-> base, head |-> head, mergeBase |-> mergeBase]

Differ(sides, buckets, kinds, when, from, to) ==
  sides @@ [op |-> "diff", buckets |-> buckets, kinds |-> kinds, when |-> when,
            from |-> from, to |-> to]
Gate(sides, from, to, anchors) ==
  sides @@ [op |-> "gate", from |-> from, to |-> to, requireAnchors |-> anchors]
Impact(sides, floor, cap, depth, tree, assert, allow) ==
  sides @@ [op |-> "impacted", filter |-> [EveryCall EXCEPT !.floor = floor, !.cap = cap],
            depth |-> depth, tree |-> tree, assertEmpty |-> assert, allowVacuous |-> allow]

Workdir == [sides |-> "workdir"]
SinceFork == [Ask2("c1", "HEAD", TRUE) EXCEPT !.sides = "refToWorkdir"]
Onward == Ask2("c0", "c2", FALSE)
Sideways == Ask2("c1", "c2", FALSE)
Across == Ask2("c1", "HEAD", TRUE)
Reverted == Ask2("c2", "HEAD", FALSE)

MCDemands ==
  {Differ(s, {}, {}, Unset, {Unset}, {Unset}) : s \in {Onward, Reverted}}
    \cup {Differ(Onward, {"added", "changed"}, {"calls"}, "exception", {Unset}, {"add", "log"}),
          Differ(Reverted, {"removed"}, {}, Unset, {Unset}, {Unset})}
    \cup {Gate(s, {"test_top", "top", "render"}, {"add", "log", "draw"}, TRUE) :
            s \in {Sideways, Onward, Reverted}}
    \cup {Gate(Reverted, {"top"}, {Unset}, FALSE), Gate(Onward, {"render"}, {"draw"}, TRUE)}
    \cup {Impact(s, 0, 0, NoBound, t, FALSE, FALSE) :
            s \in {Workdir, SinceFork, Across, Reverted}, t \in {"full", "spanning"}}
    \cup {Impact(Workdir, f, 0, d, "full", TRUE, FALSE) : f \in {0, 2}, d \in {1, NoBound}}
    \cup {Impact(Workdir, 0, 1, NoBound, "spanning", TRUE, FALSE),
          Impact(Workdir, 2, 0, 1, "spanning", TRUE, TRUE),
          Impact(Onward, 2, 0, 1, "spanning", TRUE, FALSE)}

-------------------------------------------------------------------------------
Complete ==
  [parents |-> ("r" :> <<>>) @@ ("q" :> <<>>) @@ ("a" :> <<"r">>) @@ ("b" :> <<"a">>)
                 @@ ("c" :> <<"a">>) @@ ("m" :> <<"b", "c">>) @@ ("d" :> <<"m">>),
   touched |-> ("r" :> {1, 2, 3}) @@ ("q" :> {3}) @@ ("a" :> {1, 2}) @@ ("b" :> {1, 2, 3})
                 @@ ("c" :> {1, 2}) @@ ("m" :> {1}) @@ ("d" :> {2, 3}),
   present |-> {"r", "q", "a", "b", "c", "m", "d"}, shallow |-> FALSE]

MCHistories ==
  {Complete,
   [Complete EXCEPT !.present = @ \ {"r"}, !.shallow = TRUE],
   [Complete EXCEPT !.present = @ \ {"b", "a", "r"}, !.shallow = TRUE],
   [Complete EXCEPT !.present = @ \ {"m"}]}

MCRanges ==
  [base : {"q", "c", "d"}, head : {"c", "d"}, maxFiles : {0, 2}, minCochanges : {1, 2}, limit : {0, 1}]
    \cup [base : {"c"}, head : {"m"}, maxFiles : {0}, minCochanges : {1}, limit : {0}]

CouplingOff ==
  /\ history = <<>> /\ range = <<>> /\ counting = "off" /\ queued = <<>>
  /\ queuedOnce = {} /\ perFile = <<>> /\ perPair = <<>> /\ tally = NoTally
  /\ truncated = FALSE /\ coupled = NoReport

(* The comparisons alone. *)
ComparisonsSpec ==
  /\ ChangesInit /\ CouplingOff
  /\ [][ChangesNext /\ UNCHANGED couplingVars]_<<changeVars, couplingVars>>
===============================================================================
