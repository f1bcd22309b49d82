--------------------------------- MODULE MCCql ---------------------------------
(* Queries of every form, over every graph of a menu of edges. *)
EXTENDS Cql

MCTexts ==
  <<"Store", "a.rs", "always", "app::Store", "app::Store::open", "app::load", "app::main",
    "b.rs", "calls", "certain", "contains", "derives_from", "entrypoint", "exception",
    "function", "load", "main", "method", "open", "panic", "possible", "probable", "type">>

Defined(fqn, short, file, line, kind, akin) ==
  [fqn |-> fqn, names |-> {fqn, short, "app::*"}, file |-> file, line |-> line,
   kind |-> kind, akin |-> akin]

MCNodeInfo ==
  <<Defined("app::main", "main", "a.rs", 1, "entrypoint", {}),
    Defined("app::load", "load", "a.rs", 5, "function", {"app.load"}),
    Defined("app::Store::open", "open", "b.rs", 3, "method", {}),
    Defined("app::Store", "Store", "b.rs", 1, "type", {})>>

MCSelectors == {"app::*", "app.load", "load"}

CqlEdge(id, src, dst, kind, condition, confidence) ==
  [id |-> id, src |-> src, dst |-> dst, kind |-> kind, condition |-> condition,
   confidence |-> confidence, group |-> 0, lost |-> "no"]

(* A fork that joins, a cycle, a self call, parallel calls, a member, and  *)
(* a value that flows two ways to one place.                               *)
CqlMenu ==
  {CqlEdge(1, 1, 2, "calls", "always", 2), CqlEdge(2, 1, 3, "calls", "exception", 1),
   CqlEdge(3, 2, 3, "calls", "always", 0), CqlEdge(4, 2, 2, "calls", "always", 2),
   CqlEdge(5, 3, 2, "calls", "panic", 1), CqlEdge(6, 1, 3, "calls", "always", 0)}

CqlFixed ==
  {CqlEdge(7, 4, 3, "contains", "always", 2), CqlEdge(8, 1, 2, "derives_from", "always", 1),
   CqlEdge(9, 2, 3, "derives_from", "always", 0), CqlEdge(10, 1, 3, "derives_from", "always", 2)}

MCCqlGraphs == {CqlFixed \cup s : s \in SUBSET CqlMenu} \cup {{}}

-------------------------------------------------------------------------------
AnyNode(v) == [var |-> v, label |-> "", props |-> <<>>]
Of(v, kind) == [AnyNode(v) EXCEPT !.label = kind]
NamedNode(v, name) == [AnyNode(v) EXCEPT !.props = <<<<"name", Text(name)>>>>]
Having(v, key, value) == [AnyNode(v) EXCEPT !.props = <<<<key, value>>>>]

Rel(types) == [var |-> "", arrow |-> "forward", types |-> types, hop |-> TRUE,
               least |-> NotGiven, most |-> NotGiven, props |-> <<>>]
CallRel == Rel(<<"CALLS">>)
Star(rel, least, most) == [rel EXCEPT !.hop = FALSE, !.least = least, !.most = most]
Back(rel) == [rel EXCEPT !.arrow = "backward"]
As(rel, v) == [rel EXCEPT !.var = v]

Pattern(start, rel, end) ==
  [path |-> "", start |-> start, steps |-> <<[rel |-> rel, node |-> end]>>]
Then(pattern, rel, end) ==
  [pattern EXCEPT !.steps = Append(@, [rel |-> rel, node |-> end])]
PathIs(v, pattern) == [pattern EXCEPT !.path = v]

Lit(v) == [op |-> "literal", value |-> v]
Yes == Lit(Bool(TRUE))
V(v) == [op |-> "prop", head |-> v, fields |-> <<>>]
Prop(v, f) == [op |-> "prop", head |-> v, fields |-> <<f>>]
Fn(f, args) == [op |-> "apply", name |-> f, args |-> args]
Is(left, sign, right) == [op |-> "binary", sign |-> sign, left |-> left, right |-> right]
Not(e) == [op |-> "not", of |-> e]
Pat(pattern, negated) == [op |-> "pattern", pattern |-> pattern, negated |-> negated]
Each(v, list, where, out) == [op |-> "each", var |-> v, list |-> list, where |-> where, out |-> out]
Some(kind, v, list, where) ==
  [op |-> "some", kind |-> kind, var |-> v, list |-> list, where |-> where, out |-> Yes]
Count == Fn("count", <<[op |-> "star"]>>)

Match(pattern, where) == [op |-> "match", patterns |-> <<pattern>>, where |-> where]
CallOf(proc, arg, yields, where) ==
  [op |-> "call", proc |-> proc, args |-> <<arg>>, yields |-> yields, where |-> where]
Yield(name, as) == [name |-> name, as |-> as]

Item(expr, as, text) == [expr |-> expr, as |-> as, text |-> text]
Col(v) == Item(V(v), "", v)
NameOf(v) == Item(Prop(v, "name"), "", v \o ".name")
Returning(items) ==
  [items |-> items, distinct |-> FALSE, orderBy |-> <<>>, limit |-> NotGiven, where |-> Yes]
By(expr, text, descending) == [expr |-> expr, text |-> text, descending |-> descending]

Part(reading, ret) == [reading |-> reading, ret |-> ret]
OneMatch(pattern, where, items) == <<Part(<<Match(pattern, where)>>, Returning(items))>>

-------------------------------------------------------------------------------
SafePath == Some("none", "r", Fn("relationships", <<V("p")>>),
                 Is(Prop("r", "condition"), "in", Lit(List(<<Text("exception"), Text("panic")>>))))
ToOpen(start, least, most) ==
  PathIs("p", Pattern(start, Star(CallRel, least, most), NamedNode("b", "open")))
Confidences == Each("e", Fn("relationships", <<V("p")>>), Yes, Prop("e", "confidence"))

(* One relationship: from either end, either way, stored either way. *)
SingleHops ==
  {OneMatch(Pattern(AnyNode("a"), As(CallRel, "r"), AnyNode("b")), Is(Prop("a", "kind"), "<>", Prop("b", "kind")),
       <<NameOf("a"), NameOf("b")>>),
   OneMatch(Pattern(AnyNode("a"), Back(CallRel), NamedNode("b", "main")), Yes, <<NameOf("a")>>),
   OneMatch(Pattern(NamedNode("a", "app::load"), As(CallRel, "r"), Of("b", "method")),
       Is(Prop("r", "confidence"), "=", Lit(Text("possible"))), <<Col("b"), Col("r")>>),
   OneMatch(Pattern(AnyNode("a"), [As(CallRel, "r") EXCEPT !.props = <<<<"confidence", Text("probable")>>>>], NamedNode("b", "open")),
       Is(Is(Prop("a", "line"), "<=", Lit(Number(1))), "or", Is(Prop("b", "file"), ">", Lit(Text("a.rs")))),
       <<NameOf("a"), Item(Prop("r", "condition"), "why", "r.condition")>>),
   OneMatch(Pattern(AnyNode("a"), [Rel(<<>>) EXCEPT !.props = <<<<"condition", Text("exception")>>>>], Having("b", "file", Text("b.rs"))),
       Yes, <<NameOf("b")>>),
   OneMatch(Pattern(AnyNode("m"), Rel(<<"MEMBER_OF">>), NamedNode("t", "Store")), Yes, <<NameOf("m"), NameOf("t")>>),
   OneMatch(Pattern(Of("m", "method"), Rel(<<"MEMBER_OF">>), AnyNode("t")), Not(Prop("m", "none")), <<NameOf("t")>>),
   OneMatch(Pattern(AnyNode("m"), Rel(<<"CONTAINS">>), NamedNode("t", "open")), Not(Is(V("m"), "in", Lit(Null))), <<NameOf("m")>>),
   OneMatch(Pattern(Having("a", "kind", Text("function")), Rel(<<"CALLS", "DATA_FLOW">>), AnyNode("a")), Yes, <<NameOf("a")>>)}

Lengths ==
  {OneMatch(Pattern(NamedNode("a", "main"), Star(CallRel, NotGiven, NotGiven), AnyNode("b")), Yes, <<Col("b")>>),
   OneMatch(Pattern(AnyNode("a"), Star(CallRel, 2, 3), Of("b", "method")), Yes, <<NameOf("a")>>),
   OneMatch(Pattern(Of("a", "function"), Star(Back(CallRel), 0, 1), NamedNode("b", "app::*")), Yes, <<NameOf("b")>>),
   OneMatch(ToOpen(NamedNode("a", "main"), NotGiven, NotGiven), SafePath, <<Col("p")>>),
   OneMatch(ToOpen(NamedNode("a", "main"), 2, 3), Is(Fn("length", <<V("p")>>), ">", Lit(Number(2))), <<Item(Confidences, "cs", "<expr>")>>),
   OneMatch(ToOpen(AnyNode("a"), NotGiven, 2), Some("all", "n", Fn("nodes", <<V("p")>>), Is(Prop("n", "kind"), "<>", Lit(Text("type")))),
       <<Item(Fn("length", <<V("p")>>), "hops", "length(p)"),
         Item(Fn("last_node", <<V("p")>>), "last", "last_node(p)"),
         Item(Fn("position_in", <<V("a"), V("p")>>), "at", "position_in(a, p)")>>)}

Chains ==
  {OneMatch(Then(Pattern(NamedNode("a", "main"), As(CallRel, "r"), AnyNode("b")), CallRel, AnyNode("c")), Yes, <<NameOf("b"), NameOf("c")>>),
   OneMatch(Then(Pattern(Of("a", "entrypoint"), Star(CallRel, NotGiven, NotGiven), AnyNode("b")), Rel(<<"MEMBER_OF">>), NamedNode("t", "Store")),
       Yes, <<NameOf("b")>>),
   <<Part(<<[Match(Pattern(AnyNode("a"), CallRel, NamedNode("b", "load")), Yes)
              EXCEPT !.patterns = Append(@, Pattern(AnyNode("c"), Back(CallRel), AnyNode("d")))]>>,
          Returning(<<NameOf("a"), NameOf("d")>>))>>}

Predicates ==
  {OneMatch(Pattern(AnyNode("a"), CallRel, AnyNode("b")), Pat(Pattern(AnyNode("b"), Back(CallRel), NamedNode("", "main")), TRUE), <<NameOf("b")>>),
   OneMatch(Pattern(AnyNode("a"), CallRel, AnyNode("b")), Pat(Pattern(AnyNode("a"), Star(CallRel, 2, NotGiven), Of("", "method")), FALSE), <<NameOf("b")>>),
   OneMatch(Pattern(AnyNode("a"), CallRel, AnyNode("b")),
       Is(Fn("select", <<V("a"), Lit(Text("app.load")), Lit(Bool(TRUE))>>), "and",
          Not(Fn("select", <<V("b"), Lit(Text("load"))>>))), <<NameOf("b")>>),
   OneMatch(ToOpen(NamedNode("a", "main"), NotGiven, NotGiven),
       Some("any", "n", Fn("nodes", <<V("p")>>),
            Is(Fn("position_in", <<V("n"), V("p")>>), "<", Fn("position_in", <<V("b"), V("p")>>))),
       <<Item(Fn("size", <<Fn("nodes", <<V("p")>>)>>), "", "size(nodes(p))")>>)}

Shapes ==
  LET calls == Match(Pattern(AnyNode("a"), As(CallRel, "r"), AnyNode("b")), Yes)
      Table(items) == Returning(items)
  IN  {<<Part(<<calls>>, [Table(<<NameOf("a"), Item(Count, "n", "count(*)")>>)
              EXCEPT !.orderBy = <<By(V("n"), "n", TRUE)>>, !.limit = 2])>>,
       <<Part(<<calls>>, [Table(<<Item(Fn("count", <<V("zzz")>>), "", "count(zzz)"),
                                  Item(Fn("collect", <<Prop("b", "name")>>), "bs", "collect(b.name)")>>)
              EXCEPT !.distinct = TRUE])>>,
       <<Part(<<calls>>, Table(<<Item(Count, "n", "count(*)"), NameOf("b"),
                                 Item(Fn("max", <<Prop("r", "confidence")>>), "best", "MAX(r.confidence)")>>))>>,
       <<Part(<<Match(ToOpen(NamedNode("a", "main"), NotGiven, NotGiven), Yes)>>,
              Table(<<Item(Fn("min", <<Confidences>>), "weakest", "MIN(<expr>)")>>))>>,
       <<Part(<<calls>>, [Table(<<NameOf("b")>>) EXCEPT !.distinct = TRUE, !.limit = 1])>>,
       <<Part(<<calls>>, [Table(<<NameOf("b"), Item(Prop("r", "confidence"), "c", "r.confidence")>>)
              EXCEPT !.orderBy = <<By(Prop("r", "confidence"), "r.confidence", FALSE), By(Prop("b", "name"), "b.name", TRUE)>>, !.limit = 2])>>,
       <<Part(<<Match(ToOpen(NamedNode("a", "main"), NotGiven, NotGiven), Yes)>>,
              [Table(<<Col("p")>>) EXCEPT !.orderBy = <<By(V("p"), "p", TRUE)>>, !.limit = 2])>>,
       <<Part(<<calls>>, Table(<<Item(Fn("collect", <<Prop("b", "name")>>), "met", "collect(b.name)")>>)),
         Part(<<Match(Pattern(AnyNode("c"), CallRel, AnyNode("d")), Not(Is(Prop("c", "name"), "in", V("met"))))>>,
              [Table(<<NameOf("c"), Col("a")>>) EXCEPT !.distinct = TRUE])>>,
       <<Part(<<calls>>, [Table(<<Col("b")>>) EXCEPT !.where = Is(Prop("b", "kind"), "=", Lit(Text("method")))]),
         Part(<<Match(Pattern(AnyNode("c"), Rel(<<"MEMBER_OF">>), AnyNode("t")), Is(V("c"), "=", V("b")))>>,
              Table(<<NameOf("t")>>))>>}

Procedures ==
  {<<Part(<<CallOf("mutation_fanout", Lit(Text("main")), <<Yield("mutator", ""), Yield("confidence", "c")>>,
                   Is(V("c"), ">=", Lit(Text("certain"))))>>, Returning(<<Col("mutator"), Col("c")>>))>>,
   <<Part(<<CallOf("pedigree", Lit(Text("app::*")), <<Yield("source", "")>>, Yes),
            Match(Pattern(AnyNode("m"), CallRel, AnyNode("x")), Is(Prop("m", "name"), "=", V("source")))>>,
          Returning(<<NameOf("x")>>))>>}

(* What is refused, before the graph is looked at or when it is met. *)
Refused ==
  LET calls == Pattern(AnyNode("a"), CallRel, AnyNode("b"))
  IN  {OneMatch([calls EXCEPT !.steps = <<>>], Yes, <<Col("a")>>),
       OneMatch(calls, Yes, <<Item(Prop("a", "confidence"), "", "a.confidence")>>),
       OneMatch(calls, Not([op |-> "prop", head |-> "a", fields |-> <<"in_degree", "calls">>]), <<Col("a")>>),
       OneMatch(Pattern(Of("a", "klass"), CallRel, AnyNode("b")), Yes, <<Col("a")>>),
       OneMatch(Pattern(AnyNode("a"), Rel(<<"MEMBER_OF", "CALLS">>), AnyNode("b")), Yes, <<Col("a")>>),
       OneMatch(Pattern(AnyNode("a"), Rel(<<"RESOLVES_TO">>), AnyNode("b")), Yes, <<Col("a")>>),
       OneMatch(Then(Pattern(AnyNode("a"), CallRel, AnyNode("")), CallRel, AnyNode("c")), Yes, <<Col("a")>>),
       OneMatch(PathIs("p", Then(calls, CallRel, AnyNode("c"))), Yes, <<Col("p")>>),
       OneMatch(ToOpen(AnyNode("a"), NotGiven, 2), Some("any", "r", Fn("relationships", <<V("p")>>), Prop("r", "site")), <<Col("p")>>),
       OneMatch(calls, Fn("size", <<V("a")>>), <<Col("a")>>),
       OneMatch(calls, Fn("select", <<V("a"), Lit(Text("Store"))>>), <<Col("a")>>),
       OneMatch(calls, Fn("upper", <<Prop("a", "name")>>), <<Col("a")>>),
       <<Part(<<Match(calls, Yes)>>, [Returning(<<Col("a")>>) EXCEPT !.orderBy = <<By(Prop("b", "name"), "b.name", FALSE)>>])>>,
       <<Part(<<Match(calls, Yes)>>, [Returning(<<Col("a")>>) EXCEPT !.orderBy = <<By(Prop("b", "site"), "b.site", FALSE)>>])>>,
       <<Part(<<Match(calls, Yes)>>, [Returning(<<Col("a")>>) EXCEPT !.orderBy = <<By(Prop("b", "site"), "b.site", FALSE)>>]),
         Part(<<>>, Returning(<<Col("a")>>))>>,
       <<Part(<<CallOf("type_reconstruct", Lit(Text("main")), <<>>, Yes)>>, Returning(<<Col("a")>>))>>,
       <<Part(<<Match(calls, Yes), CallOf("pedigree", V("a"), <<Yield("source", "")>>, Yes)>>, Returning(<<Col("source")>>))>>}

MCCqlQueries == SingleHops \cup Lengths \cup Chains \cup Predicates \cup Shapes \cup Procedures \cup Refused
===============================================================================
