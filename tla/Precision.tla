------------------------------- MODULE Precision -------------------------------
(***************************************************************************)
(* The passes that sharpen a linked graph before it is stored, in the      *)
(* order pipeline.rs and lib.rs of cgx-index run them: SCIP facts raise    *)
(* and redirect calls (scip_relabel.rs); CHA gives virtual calls the       *)
(* implementations of the traits that declare the method (cha.rs); RTA     *)
(* drops those of types no reachable code constructs (rta.rs); and calls   *)
(* of function values get the callables of their arity (sig.rs).           *)
(*                                                                         *)
(* code.scip maps call sites to what SCIP resolved there: the node, 0 for  *)
(* a symbol of another package; whether it is a trait or virtual member;   *)
(* its number of definition sites; whether the graph has a node for it.    *)
(* A node of another package sorts before all others and has id 0.         *)
(***************************************************************************)
EXTENDS Linking

CONSTANT SupernodeCap

Without(edges, drop) == Only(edges, {i \in DOMAIN edges : edges[i] \notin drop})
First(edges, es) == edges[Min({i \in DOMAIN edges : edges[i] \in es})]
SiteEdges(edges, src, site) == {e \in ToSet(edges) : e.src = src /\ e.site = site}
Advance(next) == stage' = next /\ UNCHANGED <<code, order, todo, linked>>

-------------------------------------------------------------------------------
(* relabel_edge *)
FailClosed == code.scheme = "clang" /\ ~code.complete
Seen(e) == IsCall(e) /\ e.site \in DOMAIN code.scip

(* Mutant: a compilation database that misses units is trusted. *)
Target_Trusting(e) ==
  LET s == code.scip[e.site]
  IN  IF s.member \/ s.defs # 1 \/ e.kind = "calls_virtual" THEN 1 ELSE 2

Target(e) ==
  LET s == code.scip[e.site]
  IN  IF s.member \/ s.defs # 1 \/ e.kind = "calls_virtual" \/ FailClosed THEN 1 ELSE 2

Redirects(e) ==
  LET s == code.scip[e.site]
  IN  /\ s.defs = 1 /\ ~FailClosed /\ s.to # 0 /\ s.known
      /\ code.scheme = "clang" => Target(e) = 2

Raised(e) ==
  IF Target(e) > e.confidence
  THEN [e EXCEPT !.confidence = Target(e), !.rule = "scip"] ELSE e

Relabeled(e) ==
  IF ~Seen(e) THEN e
  ELSE IF Redirects(e)
  THEN [Raised(e) EXCEPT !.dst = code.scip[e.site].to, !.group = 0]
  ELSE Raised(e)

(* A reference into another package: one more edge, at a site of its own.  *)
DependencyEdges(edges) ==
  LET out == Only(edges, {i \in DOMAIN edges : Seen(edges[i]) /\ code.scip[edges[i].site].to = 0})
  IN  [i \in DOMAIN out |->
         [out[i] EXCEPT !.dst = 0, !.confidence = 1, !.rule = "scip-dep",
                        !.site = -@, !.group = 0]]

Scip ==
  /\ stage = "scip"
  /\ LET edges == [i \in DOMAIN graph.edges |-> Relabeled(graph.edges[i])]
                    \o DependencyEdges(graph.edges)
         dirty == \/ Len(edges) # Len(graph.edges)
                  \/ \E i \in DOMAIN edges :
                       edges[i].dst # graph.edges[i].dst \/ edges[i].group # graph.edges[i].group
         rows == {c \in graph.rows : c.group \in Groups(edges)}
     IN  graph' = IF dirty THEN Canonical([graph EXCEPT !.edges = edges, !.rows = rows])
                  ELSE [graph EXCEPT !.edges = edges]
  /\ Advance("cha")

-------------------------------------------------------------------------------
(* Lattice: who implements and inherits what, by Implements and Inherits   *)
(* edges, and where each method is declared.                               *)
Traits == {p[2] : p \in code.impls} \cup UNION {{p[1], p[2]} : p \in code.inherits}
Declares(t, n) == Symbols[n].prefix = Symbols[t].name
MethodOf(t, name) == {n \in Routines : Declares(t, n) /\ Symbols[n].name = name}
Owner(n) == {t \in Types : Declares(t, n)}

Subtraits(tr) ==
  LET below[i \in 0 .. Cardinality(code.inherits)] ==
        IF i = 0 THEN {}
        ELSE LET last == below[i - 1]
             IN  last \cup {p[1] : p \in {p \in code.inherits : p[2] \in last \cup {tr}}}
  IN  below[Cardinality(code.inherits)]

Implementors(tr) == {p[1] : p \in {p \in code.impls : p[2] \in {tr} \cup Subtraits(tr)}}

(* A type's own method, else the body the trait declares it with. *)
Implementation(t, tr, name) ==
  IF MethodOf(t, name) # {} THEN MethodOf(t, name) ELSE MethodOf(tr, name) \ code.abstract

TraitScoped(name) ==
  UNION {UNION {Implementation(t, tr, name) : t \in Implementors(tr)} :
           tr \in {tr \in Traits : MethodOf(tr, name) # {}}}

SitesOf(edges) == {<<e.src, e.site>> : e \in edges}
InSiteOrder(sites) == InOrder(sites, {p \in sites \X sites : Precedes(p[1], p[2])})

(* A call to take the place of others: to dsts, in a group of its own, and *)
(* for the rest as proto.                                                  *)
Replaced(g, rule, r) ==
  LET group == GroupFor(g.edges, r.dsts)
      ranked == Ranked(r.proto.src, rule, r.dsts)
      cut == r.proto.cut \cup (IF Cardinality(r.dsts) > SupernodeCap THEN {"unresolved"} ELSE {})
  IN  [g EXCEPT
         !.edges = @ \o [i \in DOMAIN ranked |->
            [r.proto EXCEPT !.dst = ranked[i], !.rule = rule, !.confidence = r.confidence,
                            !.group = group, !.cut = cut]],
         !.rows = @ \cup RowsFor(group, ranked)]

(* The replacements of some sites, site by site; a new group is numbered   *)
(* above all there are, those of the edges to be removed included.         *)
WithReplacements(g, rule, replacements) ==
  LET sites == InSiteOrder(DOMAIN replacements)
      after[k \in 0 .. Len(sites)] ==
        IF k = 0 THEN g ELSE Replaced(after[k - 1], rule, replacements[sites[k]])
  IN  after[Len(sites)]

(* Mutant: the rows of the groups replaced stay. *)
Cleared_RowsStay(g, gone) == [g EXCEPT !.edges = Without(@, gone)]

Cleared(g, gone) ==
  [g EXCEPT !.edges = Without(@, gone),
            !.rows = {c \in @ : c.group \notin {e.group : e \in gone} \ {0}}]

ByName(e) == e.kind = "calls_virtual" /\ e.rule = "name-method"

Cha ==
  /\ stage = "cha"
  /\ LET byName == {e \in ToSet(graph.edges) : ByName(e)}
         At(s) == {e \in byName : <<e.src, e.site>> = s}
         Proto(s) == First(graph.edges, At(s))
         Dsts(s) == TraitScoped(Symbols[Proto(s).dst].name)
         sites == {s \in SitesOf(byName) : Dsts(s) # {}}
         gone == {e \in byName : <<e.src, e.site>> \in sites}
         rescoped == [s \in sites |-> [proto |-> Proto(s), dsts |-> Dsts(s), confidence |-> Band(Dsts(s))]]
     IN  graph' = IF sites = {} THEN graph
                  ELSE Canonical(Cleared(WithReplacements(graph, "cha-trait-set", rescoped), gone))
  /\ Advance("rta")

-------------------------------------------------------------------------------
(* Nodes tagged as entry points, or every routine if none is. *)
Roots == IF code.entry # {} THEN code.entry ELSE Routines

ReachOver(edges, from) ==
  LET far == Cardinality({e.dst : e \in edges})
      reach[i \in 0 .. far] ==
        IF i = 0 THEN from
        ELSE LET last == reach[i - 1]
             IN  last \cup {e.dst : e \in {e \in edges : e.src \in last}}
  IN  reach[far]

(* Mutant: the entry points alone are alive. *)
Reachable_Roots == Roots

Reachable == ReachOver({e \in ToSet(graph.edges) : IsCall(e)}, Roots)

Built(alive) ==
  {e.dst : e \in {e \in ToSet(graph.edges) : e.kind = "instantiate" /\ e.src \in alive}}

(* Cuts behind which a type may be constructed unseen; "unresolved" is not *)
(* one, except on a construction.                                          *)
ConstructionUnderCut ==
  \E e \in ToSet(graph.edges) :
    /\ e.src \in Reachable
    /\ IF e.kind = "instantiate" THEN e.cut # {} ELSE "opaque" \in e.cut

(* Mutant: a site may lose all its candidates. *)
Prunable_ToNone(es, keep) ==
  keep # es /\ ~ConstructionUnderCut /\ \A e \in es : e.cut = {}

Prunable(es, keep) ==
  keep # es /\ keep # {} /\ ~ConstructionUnderCut /\ \A e \in es : e.cut = {}

Rta ==
  /\ stage = "rta"
  /\ LET scoped == {e \in ToSet(graph.edges) :
                      e.kind = "calls_virtual" /\ e.rule = "cha-trait-set"}
         live == Built(Reachable)
         At(s) == {e \in scoped : <<e.src, e.site>> = s}
         Kept(s) == {e \in At(s) : Owner(e.dst) = {} \/ Owner(e.dst) \cap live # {}}
         sites == {s \in SitesOf(scoped) : Prunable(At(s), Kept(s))}
         gone == UNION {At(s) \ Kept(s) : s \in sites}
         alone == {e.group : e \in UNION {Kept(s) : s \in {s \in sites : Cardinality(Kept(s)) = 1}}}
         Survivor(e) ==
           IF e \in UNION {Kept(s) : s \in sites}
           THEN [e EXCEPT !.confidence = 1, !.rule = "rta-pruned",
                          !.group = IF @ \in alone THEN 0 ELSE @]
           ELSE e
         left == Without(graph.edges, gone)
         rows == {c \in graph.rows :
                    c.group \notin alone /\ \A e \in gone : <<e.group, e.dst>> # <<c.group, c.dst>>}
     IN  graph' = IF gone = {} THEN graph
                  ELSE Canonical([graph EXCEPT !.edges = [i \in DOMAIN left |-> Survivor(left[i])],
                                               !.rows = rows])
  /\ Advance("sig")

-------------------------------------------------------------------------------
(* Function values: lambdas and the functions that are not of a type. *)
FunctionValues ==
  {n \in Node : Symbols[n].kind = "lambda" \/ (Symbols[n].kind = "function" /\ Owner(n) = {})}
Compatible(arity) ==
  IF arity = NoArity THEN FunctionValues
  ELSE {n \in FunctionValues : Symbols[n].arity = arity}

(* One placeholder of a site is replaced, the first. *)
Sig ==
  /\ stage = "sig"
  /\ LET places == {e \in ToSet(graph.edges) :
                      e.kind \in {"calls_closure", "calls_callback", "calls_indirect"}
                      /\ e.rule = "indirect"}
         Proto(s) == First(graph.edges, {e \in places : <<e.src, e.site>> = s})
         Dsts(s) == Compatible(Proto(s).arity)
         gone == {Proto(s) : s \in SitesOf(places)}
         sites == {s \in SitesOf(places) : Dsts(s) # {}}
         resolved == [s \in sites |-> [proto |-> Proto(s), dsts |-> Dsts(s), confidence |-> 0]]
     IN  graph' = IF places = {} THEN graph
                  ELSE Canonical(Cleared(WithReplacements(graph, "sig-compat", resolved), gone))
  /\ Advance("effects")
-------------------------------------------------------------------------------
(* What a run of the program can do, over the linked graph: direct calls   *)
(* are taken as linked; a virtual call goes to the method that any type    *)
(* constructed by live code implements it with.                            *)
References == ToSet(RefsIn(order))

(* No two references start at one place, as those of a call chain do:      *)
(* cha.rs has it that "the link pass derives one site_id per call site".   *)
SitesApart == \A r, s \in References : r.src = s.src /\ r.site = s.site => r = s

Dispatched(r) ==
  r.kind = "virtual" /\ r.binding = NoModule /\ Methods(r) # {}
DirectEdges ==
  {e \in ToSet(linked.edges) :
     IsCall(e) /\ e.rule \notin {"name-method", "indirect"}}
BuiltBy(alive) ==
  {e.dst : e \in {e \in ToSet(linked.edges) : e.kind = "instantiate" /\ e.src \in alive}}
Targets(r, types) ==
  UNION {UNION {Implementation(t, tr, r.name) : t \in types \cap Implementors(tr)} :
           tr \in {tr \in Traits : MethodOf(tr, r.name) # {}}}

Live ==
  LET alive[i \in 0 .. Len(Symbols)] ==
        IF i = 0 THEN Roots
        ELSE LET last == alive[i - 1]
             IN  last \cup {e.dst : e \in {e \in DirectEdges : e.src \in last}}
                      \cup UNION {Targets(r, BuiltBy(last)) :
                                    r \in {r \in References : Dispatched(r) /\ r.src \in last}}
  IN  alive[Len(Symbols)]

Resolves(r, n) == \E e \in SiteEdges(graph.edges, r.src, r.site) : e.dst = n

(* Every group the edges carry is the candidate table's: of one call, of   *)
(* two targets or more, its rows exactly its edges' targets, each once.    *)
(* Groups are numbered without gaps.                                       *)
RowsMatchGroups ==
  LET edges == ToSet(graph.edges)
      Of(g) == {e \in edges : e.group = g}
  IN  /\ {c.group : c \in graph.rows} = Groups(graph.edges)
      /\ stage # "link" => Groups(graph.edges) = 1 .. Cardinality(Groups(graph.edges))
      /\ \A g \in Groups(graph.edges) :
           /\ Cardinality({<<e.src, e.site>> : e \in Of(g)}) = 1
           /\ {c.dst : c \in {c \in graph.rows : c.group = g}} = {e.dst : e \in Of(g)}
           /\ Cardinality({c \in graph.rows : c.group = g}) = Cardinality({e.dst : e \in Of(g)})
           /\ Cardinality({e.dst : e \in Of(g)}) > 1

(* canonicalize: "One renumber + re-sort is a fixed point".  Every pass    *)
(* leaves the graph in canonical form, those that skip the sort included.  *)
CanonicalIsFixed == stage # "link" => Canonical(graph) = graph

(* Between any two passes the graph is one a store takes and reads back    *)
(* with the ids it has.                                                    *)
GraphIsCanonical == stage # "effects" => RowsMatchGroups /\ CanonicalIsFixed

(* Certain means "no ambiguity remains": where a certain edge leads is the *)
(* only place its call leads to.  A definition SCIP knows and the graph    *)
(* does not is the known exception.                                        *)
SameCall(e, f) == e.src = f.src /\ e.site = f.site /\ e.stmt = f.stmt
UnknownToGraph(fact) == fact.to = 0 \/ ~fact.known

CertainIsUnambiguous ==
  \A e \in {e \in ToSet(graph.edges) : e.confidence = 2 /\ IsCall(e)} :
    \/ \A f \in ToSet(graph.edges) : SameCall(e, f) => e.dst = f.dst
    \/ e.site \in DOMAIN code.scip /\ UnknownToGraph(code.scip[e.site])

(* Without SCIP's word on a virtual call, a method of its own of any type  *)
(* that live code constructs stays among its targets through CHA and RTA;  *)
(* live is what runs without going through a function value.               *)
LiveMethodsKept ==
  stage \in {"sig", "done"} /\ code.scip = <<>> /\ SitesApart =>
    \A t \in BuiltBy(Live) \cap Types : \A r \in References : Dispatched(r) =>
      \A n \in MethodOf(t, r.name) : n \in Targets(r, {t}) => Resolves(r, n)

(* rta.rs: "never silently drop an edge that might be real": so do all     *)
(* targets, the default bodies that live types inherit among them.         *)
LiveTargetsKept ==
  stage \in {"sig", "done"} /\ code.scip = <<>> =>
    \A r \in References : Dispatched(r) =>
      \A n \in Targets(r, BuiltBy(Live)) : Resolves(r, n)

(* cha.rs: where "no trait declares this method", CHA is to "leave the     *)
(* name-scoped resolution untouched", whatever call it is chained on.      *)
UntraitedCallsKept ==
  stage = "rta" /\ code.scip = <<>> =>
    \A r \in References : Dispatched(r) /\ TraitScoped(r.name) = {} =>
      \A n \in Methods(r) : Resolves(r, n)

(* The ladder of passes: none makes a call vanish that has an edge, except *)
(* an indirect call of an arity that no function value has, SCIP's only    *)
(* raises confidence, and what it settled no later one touches.            *)
SettledByScip(edges) ==
  {[e EXCEPT !.group = 0] : e \in {e \in edges : e.rule \in {"scip", "scip-dep"}}}
OnlySharpened ==
  /\ \A e \in ToSet(graph.edges) :
       IsCall(e) =>
         \/ SiteEdges(graph'.edges, e.src, e.site) # {}
         \/ e.rule = "indirect" /\ Compatible(e.arity) = {}
  /\ IF stage = "scip"
     THEN \A e \in ToSet(graph.edges) : \E f \in SiteEdges(graph'.edges, e.src, e.site) :
            f.confidence >= e.confidence
     ELSE SettledByScip(ToSet(graph.edges)) = SettledByScip(ToSet(graph'.edges))
PassesOnlySharpen == [][OnlySharpened]_graph

===============================================================================
