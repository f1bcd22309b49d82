------------------------------ MODULE MCResolver ------------------------------
(* Programs of two files over one set of definitions: a trait, a subtrait, *)
(* three types, two modules of one name, a closure; three families of      *)
(* programs: dispatch; names, closures and cycles; calls in a chain.       *)
EXTENDS EffectClosure

Define(name, prefix, kind, arity, file, effects) ==
  [name |-> name, prefix |-> prefix, kind |-> kind, arity |-> arity, file |-> file,
   effects |-> effects]

MCSymbols ==
  <<Define("main", "a", "function", 0, 1, {}),
    Define("Shape", "a", "type", NoArity, 1, {}),
    Define("m", "Shape", "method", NoArity, 1, {}),
    Define("Sub", "a", "type", NoArity, 1, {}),
    Define("m", "Sub", "method", NoArity, 1, {}),
    Define("Circle", "a", "type", NoArity, 1, {}),
    Define("m", "Circle", "method", NoArity, 1, {"fs"}),
    Define("save", "a/util", "function", 1, 1, {"fs"}),
    Define("job", "a", "lambda", 1, 1, {"net"}),
    Define("Disc", "b", "type", NoArity, 2, {}),
    Define("m", "Disc", "method", NoArity, 2, {"net"}),
    Define("Square", "b", "type", NoArity, 2, {}),
    Define("save", "b/util", "function", 1, 2, {}),
    Define("make", "b", "function", 1, 2, {"time"})>>

main == 1
Shape_m == 3
Circle == 6
Circle_m == 7
a_save == 8
job == 9
Disc == 10
Square == 12
b_save == 13
make == 14

MCSegment == [p \in {"a", "b", "x", "Shape", "Sub", "Circle", "Disc"} |-> p]
               @@ ("a/util" :> "util") @@ ("b/util" :> "util") @@ ("x/util" :> "util") @@ ("c/api" :> "api")

Ref(id, src, name, kind) ==
  [id |-> id, src |-> src, name |-> name, kind |-> kind, arity |-> NoArity, local |-> 0,
   binding |-> NoModule, site |-> id, stmt |-> id, cut |-> {}]
Bound(r, n) == [r EXCEPT !.local = n]
Via(r, module) == [r EXCEPT !.binding = module]

(* -- dispatch ----------------------------------------------------------- *)
New(id, src, type) == Bound(Ref(id, src, MCSymbols[type].name, "instantiate"), type)
DispatchRefs ==
  {Ref(1, main, "m", "virtual"),
   Via(Ref(3, main, "make", "calls"), "b"),
   New(4, main, Circle),
   New(5, make, Square)}
Lattices ==
  {[impls |-> {<<Circle, 2>>, <<Disc, 2>>, <<Square, 2>>}, inherits |-> {}],
   [impls |-> {<<Circle, 2>>, <<Disc, 2>>, <<Square, 4>>}, inherits |-> {<<4, 2>>}]}

FactOf(to, member, defs, known) ==
  [to |-> to, member |-> member, defs |-> defs, known |-> known]

Of(refs, src) ==
  LET At(id) == {r \in refs : r.id = id /\ r.src \in src}
  IN  FlattenSeq([id \in 1 .. 8 |-> SetToSeq(At(id))])
Program(refs) ==
  [files |-> <<[refs |-> Of(refs, {main, Circle_m, make}), reexports |-> <<>>]>>,
   entry |-> {main}, abstract |-> {}, impls |-> {}, inherits |-> {},
   scip |-> <<>>, scheme |-> "rust", complete |-> TRUE]

DispatchCodes ==
  {[Program(refs \cup second \cup disc) EXCEPT
      !.entry = entry, !.abstract = abstract, !.impls = l.impls, !.inherits = l.inherits,
      !.scip = scip] :
     refs \in SUBSET DispatchRefs,
     second \in {{}, {Ref(2, make, "m", "virtual")}},
     disc \in {{}, {New(6, Circle_m, Disc)}, {[New(6, main, Disc) EXCEPT !.cut = {"opaque"}]}},
     entry \in {{}, {main}},
     abstract \in {{}, {Shape_m}},
     l \in Lattices,
     scip \in {<<>>, 1 :> FactOf(Shape_m, TRUE, 1, TRUE), 1 :> FactOf(Circle_m, FALSE, 1, TRUE),
               1 :> FactOf(0, FALSE, 0, TRUE)}}

(* -- names, function values and cycles ---------------------------------- *)
NameRefs ==
  {[Ref(1, main, "cb", "callback") EXCEPT !.arity = 1, !.stmt = 9],
   [Ref(2, main, "cb", "callback") EXCEPT !.stmt = 9],
   Bound(Ref(3, main, "job", "pinned"), job),
   [Ref(4, main, "save", "spawns") EXCEPT !.arity = 1],
   Via(Ref(5, main, "store", "calls"), "c/api"),
   Via(Ref(6, make, "main", "calls"), "a"),
   Via(Ref(7, main, "make", "calls"), "b"),
   Ref(8, make, "save", "calls")}
ReexportOf(by, name, from, as) == [by |-> by, name |-> name, from |-> from, as |-> as]
Reexports ==
  {<< <<>>, <<>> >>,
   << <<ReexportOf("api", "store", "b/util", "keep")>>, <<ReexportOf("util", "keep", "a/util", "save")>> >>,
   << <<ReexportOf("api", "store", "x/util", "save")>>, <<>> >>,
   << <<ReexportOf("api", "store", "a/util", "save")>>, <<ReexportOf("api", "store", "b", "make")>> >>}

NameCodes ==
  {[Program(refs) EXCEPT
      !.files = << [refs |-> Of(refs, {main}), reexports |-> reexports[1]],
                   [refs |-> Of(refs, {make}), reexports |-> reexports[2]] >>,
      !.entry = {main}, !.scip = s.scip, !.scheme = s.scheme, !.complete = s.complete] :
     refs \in SUBSET NameRefs,
     reexports \in Reexports,
     s \in {[scip |-> <<>>, scheme |-> "rust", complete |-> TRUE],
            [scip |-> 8 :> FactOf(b_save, FALSE, 1, TRUE), scheme |-> "rust", complete |-> TRUE],
            [scip |-> 8 :> FactOf(0, FALSE, 0, TRUE), scheme |-> "rust", complete |-> TRUE],
            [scip |-> 8 :> FactOf(a_save, FALSE, 1, TRUE), scheme |-> "clang", complete |-> TRUE],
            [scip |-> 8 :> FactOf(a_save, FALSE, 1, TRUE), scheme |-> "clang", complete |-> FALSE],
            [scip |-> 8 :> FactOf(b_save, FALSE, 1, FALSE), scheme |-> "rust", complete |-> TRUE]}}

(* -- chains: save(..) and m(..) on one value, make().m(), callbacks ------- *)
At(r, site) == [r EXCEPT !.site = site]
ChainedRefs ==
  {Ref(1, main, "m", "virtual"),
   At(Ref(2, main, "save", "virtual"), 1),
   At(Bound(Ref(3, main, "make", "calls"), make), 1),
   At(Ref(4, main, "m", "virtual"), 1),
   Ref(6, main, "cb", "callback"),
   At([Ref(7, main, "cb", "callback") EXCEPT !.arity = 1], 6)}
ChainedCodes ==
  {[Program(refs) EXCEPT !.impls = {<<Circle, 2>>, <<Disc, 2>>, <<Square, 2>>}, !.scip = scip] :
     refs \in SUBSET ChainedRefs,
     scip \in {<<>>, 1 :> FactOf(make, FALSE, 1, TRUE), 1 :> FactOf(0, FALSE, 0, TRUE)}}

(* Facts without a call they are about change nothing. *)
Ids(p) == {r.id : r \in UNION {Range(p.files[i].refs) : i \in DOMAIN p.files}}
MCCodes ==
  {p \in DispatchCodes \cup NameCodes \cup ChainedCodes :
     /\ DOMAIN p.scip \subseteq Ids(p)
     /\ Len(p.files) = 2 /\ 5 \notin Ids(p) => p.files[1].reexports = <<>>}
===============================================================================
