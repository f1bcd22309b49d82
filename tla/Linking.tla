-------------------------------- MODULE Linking --------------------------------
(***************************************************************************)
(* The link pass of cgx-resolve (link.rs, symtab.rs): every reference of   *)
(* every file becomes edges at an honest confidence, or is counted on its  *)
(* caller; then the graph is put in canonical order.                       *)
(*                                                                         *)
(* A definition is a record: its name, the module or type it is a member   *)
(* of (prefix), its kind, arity (NoArity if unknown), file and own effects;*)
(* its node id is its place in the canonical order of definitions.  One    *)
(* language is modelled.  A reference says what lexical scoping finds for  *)
(* it (local, 0 for nothing), which import binds its head (binding) and    *)
(* where it starts (site): the calls of a chain, a.m().n(), start together.*)
(* Receiver narrowing, which is opt-in, is a module of its own (Receivers).*)
(***************************************************************************)
EXTENDS Integers, Sequences, FiniteSets, SequencesExt

CONSTANTS
  Symbols,   \* the definitions, in canonical order
  Codes,     \* programs: files of references, relations, tags, SCIP facts
  Segment,   \* last segment of each module path
  NoModule,
  NoArity

Node == 1 .. Len(Symbols)

Kinds == <<"calls", "calls_virtual", "calls_closure", "calls_callback", "calls_async",
           "calls_indirect", "spawns", "instantiate">>
RefKinds == {"calls", "virtual", "closure", "pinned", "callback", "calls_async", "spawns", "instantiate"}

Definition ==
  [name : STRING, prefix : STRING, kind : STRING, arity : Nat \cup {NoArity}, file : Nat,
   effects : SUBSET STRING]
RawRef ==
  [id : Nat, src : Node, name : STRING, kind : RefKinds, arity : Nat \cup {NoArity},
   local : {0} \cup Node, binding : STRING \cup {NoModule}, site : Nat \ {0}, stmt : Nat,
   cut : SUBSET STRING]
Reexport == [by : STRING, name : STRING, from : STRING, as : STRING]
Fact == [to : {0} \cup Node, member : BOOLEAN, defs : Nat, known : BOOLEAN]
RefsOf(c) == UNION {ToSet(c.files[i].refs) : i \in DOMAIN c.files}

(* Of the references of one caller that start at one place, each has a     *)
(* statement number of its own.                                            *)
ASSUME SymbolsAssumption == Symbols \in Seq(Definition)
ASSUME CodesAssumption ==
  \A c \in Codes :
    /\ c.files \in Seq([refs : Seq(RawRef), reexports : Seq(Reexport)])
    /\ \A r, s \in RefsOf(c) : r.src = s.src /\ r.site = s.site /\ r.stmt = s.stmt => r = s
    /\ DOMAIN c.scip \subseteq Nat \ {0} /\ \A at \in DOMAIN c.scip : c.scip[at] \in Fact
    /\ c.entry \subseteq Node

Callable == {n \in Node : Symbols[n].kind \in {"function", "method", "lambda"}}
Types == {n \in Node : Symbols[n].kind = "type"}
Routines == {n \in Node : Symbols[n].kind \in {"function", "method"}}

VARIABLES
  code,      \* the program
  order,     \* the order its files are given in
  stage,     \* the pass to run next
  todo,      \* references still to resolve
  graph,     \* [edges: sequence, rows: candidate table, dangling: counts]
  linked     \* the graph as the link pass left it (history)

-------------------------------------------------------------------------------
(* The members of a finite set in an order given as a set of pairs; and    *)
(* the items of a sequence at some of its places.                          *)
InOrder(S, less) ==
  LET placed == {<<1 + Cardinality({y \in S : <<y, x>> \in less}), x>> : x \in S}
  IN  [i \in 1 .. Cardinality(S) |-> (CHOOSE p \in placed : p[1] = i)[2]]

Only(s, places) ==
  LET at == InOrder(places, {p \in places \X places : p[1] < p[2]})
  IN  [k \in DOMAIN at |-> s[at[k]]]

-------------------------------------------------------------------------------
(* SymbolTable.  Definitions that share an FQN collapse to the last.       *)
SameFqn(n) ==
  {d \in Node : Symbols[d].prefix = Symbols[n].prefix /\ Symbols[d].name = Symbols[n].name}
DefByFqn(n) == Max(SameFqn(n))

Members(module, name) ==
  LET named == {n \in Node : Symbols[n].name = name}
      exact == {n \in named : Symbols[n].prefix = module}
  IN  IF exact # {} THEN exact
      ELSE {n \in named : Segment[Symbols[n].prefix] = Segment[module]}

(* Re-exports are keyed by the last segment of the module that makes them; *)
(* the last file given wins.                                               *)
LatestOf(is) == Max(is)

ReexportsIn(o) == FlattenSeq([i \in DOMAIN o |-> code.files[o[i]].reexports])

NextHop(o, hop) ==
  LET all == ReexportsIn(o)
      is == {i \in DOMAIN all : all[i].by = Segment[hop.module] /\ all[i].name = hop.name}
  IN  IF is = {} THEN {}
      ELSE {[module |-> all[LatestOf(is)].from, name |-> all[LatestOf(is)].as]}

(* resolve_member: follow re-exports until a module has such a member; a   *)
(* chain is over when it ends or has met every key there is.               *)
ResolveMember(o, module, name) ==
  LET hops[i \in 0 .. Len(ReexportsIn(o))] ==
        IF i = 0 THEN {[module |-> module, name |-> name]}
        ELSE LET last == hops[i - 1]
             IN  UNION {IF Members(h.module, h.name) # {} THEN {h} ELSE NextHop(o, h) : h \in last}
  IN  UNION {Members(h.module, h.name) : h \in hops[Len(ReexportsIn(o))]}

-------------------------------------------------------------------------------
(* resolve_ref: what each of its steps finds for a reference, in order.    *)
IndirectKinds == {"closure", "pinned", "callback"}

Pinned(r) ==
  IF r.kind = "pinned" /\ r.local # 0 /\ Cardinality(SameFqn(r.local)) = 1
  THEN {r.local} ELSE {}
Indirect(r) == IF r.kind \in IndirectKinds THEN {r.src} ELSE {}
Lexical(r) == IF r.kind # "virtual" /\ r.local # 0 THEN {DefByFqn(r.local)} ELSE {}
Imported(o, r) ==
  IF r.binding = NoModule THEN {} ELSE ResolveMember(o, r.binding, r.name)
Methods(r) ==
  IF r.kind = "virtual" THEN {n \in Routines : Symbols[n].name = r.name} ELSE {}
ByNameArity(r) ==
  LET hits == {n \in Callable \cup Types : Symbols[n].name = r.name}
      fit == {n \in hits : Symbols[n].arity \in {NoArity, r.arity}}
  IN  IF r.arity # NoArity /\ fit # {} THEN fit ELSE hits

Steps(o, r) ==
  << [rule |-> "scope-ref", dsts |-> Pinned(r)],
     [rule |-> "indirect", dsts |-> Indirect(r)],
     [rule |-> "scope-ref", dsts |-> Lexical(r)],
     [rule |-> "import-ref", dsts |-> Imported(o, r)],
     [rule |-> "name-method", dsts |-> Methods(r)],
     [rule |-> "name-arity", dsts |-> ByNameArity(r)],
     [rule |-> "unresolved", dsts |-> {0}] >>

FirstFound(steps) == steps[Min({i \in DOMAIN steps : steps[i].dsts # {}})]
Resolution(o, r) == FirstFound(Steps(o, r))

(* canonicalize_candidate_dsts: one target is probable, several possible. *)
Band(dsts) == IF Cardinality(dsts) = 1 THEN 1 ELSE 0
ConfidenceOf(rule, dsts) ==
  CASE rule = "scope-ref"                  -> 2
    [] rule \in {"indirect", "name-arity"} -> 0
    [] OTHER                               -> Band(dsts)

EdgeKind(r) ==
  CASE r.kind \in {"closure", "pinned"} -> "calls_closure"
    [] r.kind = "callback"              -> "calls_callback"
    [] r.kind = "virtual"               -> "calls_virtual"
    [] OTHER                            -> r.kind

(* Candidates are ranked by id, those of the bare-name fallback by how     *)
(* near they are first.                                                    *)
Locality(src, n) ==
  CASE Symbols[n].file = Symbols[src].file     -> 0
    [] Symbols[n].prefix = Symbols[src].prefix -> 1
    [] OTHER                                   -> 2
Ranked(src, rule, dsts) ==
  LET Far(n) == IF rule = "name-arity" THEN Locality(src, n) ELSE 0
      Nearer(m, n) == Far(m) < Far(n) \/ (Far(m) = Far(n) /\ m < n)
  IN  InOrder(dsts, {p \in dsts \X dsts : Nearer(p[1], p[2])})

Groups(edges) == {edges[i].group : i \in DOMAIN edges} \ {0}
NextGroup(edges) == 1 + Max({0} \cup Groups(edges))
GroupFor(edges, dsts) == IF Cardinality(dsts) > 1 THEN NextGroup(edges) ELSE 0
RowsFor(group, ranked) ==
  IF group = 0 THEN {}
  ELSE {[group |-> group, dst |-> ranked[i], rank |-> i] : i \in DOMAIN ranked}

Edge(r, dst, rule, confidence, group) ==
  [src |-> r.src, dst |-> dst, kind |-> EdgeKind(r), site |-> r.site, stmt |-> r.stmt,
   confidence |-> confidence, rule |-> rule, group |-> group, cut |-> r.cut, arity |-> r.arity]

WithEdges(g, r, found) ==
  LET ranked == Ranked(r.src, found.rule, found.dsts)
      group == GroupFor(g.edges, found.dsts)
  IN  IF found.rule = "unresolved"
      THEN [g EXCEPT !.dangling[r.src] = @ + 1]
      ELSE [g EXCEPT
              !.edges = @ \o [i \in DOMAIN ranked |->
                 Edge(r, ranked[i], found.rule, ConfidenceOf(found.rule, found.dsts), group)],
              !.rows = @ \cup RowsFor(group, ranked)]

Linked(o, g, r) == WithEdges(g, r, Resolution(o, r))

-------------------------------------------------------------------------------
(* canonicalize: edges by (src, dst, kind, stmt, group), ties as they come;*)
(* groups renumbered by first appearance; and, for the group is part of    *)
(* the key, sorted once more.                                              *)
IsCall(e) == e.kind # "instantiate"
KindRank(kind) == CHOOSE i \in DOMAIN Kinds : Kinds[i] = kind

SortKey(e) ==
  <<e.src, e.dst, KindRank(e.kind), e.stmt, IF e.group = 0 THEN 1 ELSE 0, e.group>>
Precedes(s, t) ==
  \E i \in DOMAIN s : s[i] < t[i] /\ \A j \in 1 .. i - 1 : s[j] = t[j]
Sorted(edges) ==
  LET keys == [i \in DOMAIN edges |-> SortKey(edges[i])]
      Sooner(i, j) == Precedes(keys[i], keys[j]) \/ (keys[i] = keys[j] /\ i < j)
      places == InOrder(DOMAIN edges, {p \in (1 .. Len(edges)) \X (1 .. Len(edges)) : Sooner(p[1], p[2])})
  IN  [i \in DOMAIN edges |-> edges[places[i]]]

(* Mutant: groups keep the numbers they were given. *)
Renumbering_AsGiven(edges, rows) ==
  [g \in {0} \cup Groups(edges) \cup {c.group : c \in rows} |-> g]

(* New numbers: those of the edges by first appearance, then the others.   *)
Renumbering(edges, rows) ==
  LET carried == Groups(edges)
      First(g) == Min({i \in DOMAIN edges : edges[i].group = g})
      Number(g) == IF g \in carried
                   THEN 1 + Cardinality({h \in carried : First(h) < First(g)})
                   ELSE 1 + Cardinality(carried) +
                        Cardinality({h \in {c.group : c \in rows} \ carried : h < g})
      all == carried \cup {c.group : c \in rows}
  IN  [g \in {0} \cup all |-> IF g = 0 THEN 0 ELSE Number(g)]

Regroup(edges, number) ==
  [i \in DOMAIN edges |-> [edges[i] EXCEPT !.group = number[@]]]

(* Mutant: the edges are not sorted again. *)
Canonical_SortedOnce(g) ==
  LET edges == Sorted(g.edges)
      number == Renumbering(edges, g.rows)
  IN  [g EXCEPT !.edges = Regroup(edges, number),
                !.rows = {[c EXCEPT !.group = number[@]] : c \in g.rows}]

Canonical(g) ==
  LET edges == Sorted(g.edges)
      number == Renumbering(edges, g.rows)
  IN  [g EXCEPT !.edges = Sorted(Regroup(edges, number)),
                !.rows = {[c EXCEPT !.group = number[@]] : c \in g.rows}]

-------------------------------------------------------------------------------
RefsIn(o) == FlattenSeq([i \in DOMAIN o |-> code.files[o[i]].refs])
Empty == [edges |-> <<>>, rows |-> {}, dangling |-> [n \in Node |-> 0]]

LinkedIn(o) ==
  LET refs == RefsIn(o)
      after[k \in 0 .. Len(refs)] == IF k = 0 THEN Empty ELSE Linked(o, after[k - 1], refs[k])
  IN  after[Len(refs)]

LinkInit ==
  /\ code \in Codes
  /\ order \in SetToSeqs(DOMAIN code.files)
  /\ stage = "link"
  /\ todo = RefsIn(order)
  /\ graph = Empty
  /\ linked = Empty

LinkRef ==
  /\ stage = "link"
  /\ todo # <<>>
  /\ graph' = Linked(order, graph, Head(todo))
  /\ todo' = Tail(todo)
  /\ UNCHANGED <<code, order, stage, linked>>

Finalize ==
  /\ stage = "link"
  /\ todo = <<>>
  /\ graph' = Canonical(graph)
  /\ linked' = graph'
  /\ stage' = "scip"
  /\ UNCHANGED <<code, order, todo>>
-------------------------------------------------------------------------------
(* Two files re-export one name, under one key, from different places. *)
CollidingReexports ==
  \E e, f \in Range(ReexportsIn(order)) :
    e.by = f.by /\ e.name = f.name /\ e # f

(* link: "the output is a pure function of the set of (blob, path, lang,   *)
(* facts) tuples, regardless of the order they are supplied".  So it is,   *)
(* groups, ranks and ids included, unless re-exports collide: then the     *)
(* last file given decides what both mean.                                 *)
OrderIndependent ==
  stage = "scip" /\ ~CollidingReexports =>
    graph = Canonical(LinkedIn([i \in DOMAIN order |-> i]))
===============================================================================
