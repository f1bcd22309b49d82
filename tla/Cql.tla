---------------------------------- MODULE Cql ----------------------------------
(***************************************************************************)
(* Evaluation of a query (cgx-cql: eval.rs, proc.rs): part by part and     *)
(* clause by clause over a stream of bindings, from variables to values.   *)
(* A binding is a function from the variables it has.                      *)
(*                                                                         *)
(* The walks of a variable-length step are given by what they find, in the *)
(* order they find it; PathWalker has their loops.  An expression is a     *)
(* record whose op says which form it has; an item of a projection also    *)
(* has the text it renders to, which names its column.                     *)
(***************************************************************************)
EXTENDS CqlPlan

CONSTANTS
  CqlGraphs,   \* sets of edges
  CqlQueries,
  RowCap,      \* DEFAULT_VAR_LENGTH_ROWS
  MaxPaths, MaxSteps  \* the budgets of the walker

VARIABLES
  links,    \* the edges of the graph
  asking,   \* the query
  doing,    \* plan, read, done or failed
  part,     \* which part of the query
  clause,   \* which reading clause of it
  stream,   \* the bindings so far
  cut,      \* the truncation so far
  table     \* the answer

cqlVars == <<links, asking, doing, part, clause, stream, cut, table>>

NoTable == [columns |-> <<>>, rows |-> <<>>, paths |-> <<>>]

InIdOrder(ns) == SelectSeq([i \in 1 .. Cardinality(Nodes) |-> i], LAMBDA n : n \in ns)
(* A set in the order of a total one. *)
Ranked(S, Before_(_, _)) ==
  [k \in 1 .. Cardinality(S) |-> CHOOSE x \in S : Cardinality({y \in S : Before_(y, x)}) = k - 1]

ById(es) == Ranked(es, LAMBDA e, f : e.id < f.id)
EdgeOf(es, id) == CHOOSE e \in es : e.id = id

(* Stable: what neither comes before the other keeps its order. *)
SortedBy(s, Before_(_, _)) ==
  LET places == SortSeq([i \in DOMAIN s |-> i],
                        LAMBDA i, j : Before_(s[i], s[j]) \/ (~Before_(s[j], s[i]) /\ i < j))
  IN  [i \in DOMAIN s |-> s[places[i]]]

-------------------------------------------------------------------------------
(* Expressions *)
NodeFieldValue(n, field) ==
  CASE field = "line" -> Number(NodeInfo[n].line)
    [] field = "file" -> Text(NodeInfo[n].file)
    [] field = "kind" -> Text(NodeInfo[n].kind)
    [] field = "fqn"  -> Text(NodeInfo[n].fqn)

ConfidenceToken == [c \in 0 .. 2 |-> CHOOSE t \in DOMAIN ConfidenceRank : ConfidenceRank[t] = c]

EdgeFieldValue(e, field) ==
  CASE field = "condition"  -> Text(e.condition)
    [] field = "confidence" -> Text(ConfidenceToken[e.confidence])
    [] field = "kind"       -> Text(e.kind)

(* A variable no one bound is null, and so is a property of it. *)
PropertyOf(es, expr, b) ==
  LET base == IF expr.head \in DOMAIN b THEN b[expr.head] ELSE Null
      field == expr.fields[1]
  IN  CASE expr.fields = <<>>                           -> base
        [] Len(expr.fields) > 1                         -> Failure
        [] TypeOf(base) = "null"                        -> Null
        [] TypeOf(base) = "node" /\ NodeField(field) # "none" ->
             NodeFieldValue(ContentOf(base), NodeField(field))
        [] TypeOf(base) = "edge" /\ EdgeField(field) # "none" ->
             EdgeFieldValue(EdgeOf(es, ContentOf(base)), EdgeField(field))
        [] OTHER                                        -> Failure

(* Both sides are evaluated; null is false in a condition, and in a        *)
(* comparison makes it false.                                              *)
EvalBinary(sign, v, w) ==
  CASE IsFailure(v) \/ IsFailure(w) -> Failure
    [] sign = "and" -> Bool(IsTruthy(v) /\ IsTruthy(w))
    [] sign = "or"  -> Bool(IsTruthy(v) \/ IsTruthy(w))
    [] sign = "in"  ->
         CASE TypeOf(w) = "list" -> Bool(\E i \in DOMAIN ContentOf(w) : ContentOf(w)[i] = v)
           [] TypeOf(w) = "null" -> Bool(FALSE)
           [] OTHER              -> Failure
    [] OTHER ->
         Bool(/\ v # Null /\ w # Null
              /\ CASE sign = "="  -> v = w
                   [] sign = "<>" -> v # w
                   [] sign = "<"  -> Less(v, w)
                   [] sign = "<=" -> ~Less(w, v)
                   [] sign = ">"  -> Less(w, v)
                   [] sign = ">=" -> ~Less(v, w))

PathFunction(name, p) ==
  CASE name = "nodes"         -> List([i \in DOMAIN p.nodes |-> NodeValue(p.nodes[i])])
    [] name = "relationships" -> List([i \in DOMAIN p.edges |-> EdgeValue(p.edges[i])])
    [] name = "length"        -> Number(Len(p.edges))
    [] name = "last_node"     -> NodeValue(p.nodes[Len(p.nodes)])

PositionIn(n, p) ==
  IF \E i \in DOMAIN p.nodes : p.nodes[i] = n
  THEN Number(Min({i \in DOMAIN p.nodes : p.nodes[i] = n}) - 1) ELSE Null

(* A selector that does not compile is an error, never false. *)
EvalSelect(args) ==
  CASE Len(args) \notin {2, 3}      -> Failure
    [] TypeOf(args[1]) = "null"     -> Bool(FALSE)
    [] TypeOf(args[1]) # "node"     -> Failure
    [] TypeOf(args[2]) # "str"      -> Failure
    [] Len(args) = 3 /\ TypeOf(args[3]) # "bool" -> Failure
    [] ContentOf(args[2]) \notin Selectors       -> Failure
    [] OTHER ->
         LET info == NodeInfo[ContentOf(args[1])]
             agnostic == Len(args) = 3 /\ args[3] = Bool(TRUE)
         IN  Bool(ContentOf(args[2]) \in IF agnostic THEN info.names \cup info.akin ELSE info.names)

EvalFunction(name, args) ==
  CASE \E i \in DOMAIN args : IsFailure(args[i]) -> Failure
    [] name \in {"nodes", "relationships", "length", "last_node"} ->
         IF Len(args) = 1 /\ TypeOf(args[1]) = "path"
         THEN PathFunction(name, ContentOf(args[1])) ELSE Failure
    [] name = "position_in" ->
         IF Len(args) = 2 /\ TypeOf(args[1]) = "node" /\ TypeOf(args[2]) = "path"
         THEN PositionIn(ContentOf(args[1]), ContentOf(args[2])) ELSE Failure
    [] name = "size" ->
         CASE Len(args) # 1              -> Failure
           [] TypeOf(args[1]) = "list"   -> Number(Len(ContentOf(args[1])))
           [] TypeOf(args[1]) = "null"   -> Null
           [] OTHER                      -> Failure
    [] name = "select" -> EvalSelect(args)
    [] OTHER -> Failure

(* What the peer end asks of a node; a name is matched as an anchor's is. *)
PeerMatches(step, n) ==
  /\ step.peerKinds = {} \/ NodeInfo[n].kind \in step.peerKinds
  /\ \A i \in DOMAIN step.peerProps :
       LET key == step.peerProps[i][1]
           value == step.peerProps[i][2]
       IN  IF NodeField(key) = "fqn"
           THEN TypeOf(value) = "str" /\ ContentOf(value) \in NodeInfo[n].names
           ELSE NodeFieldValue(n, NodeField(key)) = value

IsBound(b, v) == v # "" /\ v \in DOMAIN b /\ TypeOf(b[v]) = "node"

AdmittedBy(es, step) == UNION {Neighbors(es, n, step.dir, step.filter) : n \in Nodes}

(* pattern_exists: from the anchor, if it is bound, does an edge lead to   *)
(* some peer?  What the peer's variable is bound to is not asked, and a    *)
(* breadth-first walk does not come back to where it began.                *)
LeadsToPeer(es, step, b) ==
  LET anchors == IF IsBound(b, step.anchorVar) THEN {ContentOf(b[step.anchorVar])} ELSE step.anchor
      admitted == AdmittedBy(es, step)
  IN  \E a \in anchors :
        IF step.hop
        THEN \E e \in Neighbors(es, a, step.dir, step.filter) : PeerMatches(step, Peer(e, step.dir))
        ELSE \E n \in Within(admitted, {a}, step.dir, step.most) \ {a} :
               Distance(admitted, a, n, step.dir) >= step.least /\ PeerMatches(step, n)

PatternExists(es, pattern, b) == LeadsToPeer(es, LowerPatternChain(pattern)[1], b)

EvalPattern(es, expr, b) ==
  IF Len(expr.pattern.steps) # 1 \/ PatternRejected(expr.pattern) THEN Failure
  ELSE Bool(PatternExists(es, expr.pattern, b) # expr.negated)

ItemsOf(v) == IF TypeOf(v) = "list" THEN ContentOf(v) ELSE <<>>

(* [x IN list WHERE where | out] *)
ListComp(list, Where(_), Out(_)) ==
  IF \/ TypeOf(list) \notin {"list", "null"}
     \/ \E i \in DOMAIN ItemsOf(list) :
          \/ IsFailure(Where(ItemsOf(list)[i]))
          \/ IsTruthy(Where(ItemsOf(list)[i])) /\ IsFailure(Out(ItemsOf(list)[i]))
  THEN Failure
  ELSE LET kept == SelectSeq(ItemsOf(list), LAMBDA v : IsTruthy(Where(v)))
       IN  List([i \in DOMAIN kept |-> Out(kept[i])])

(* NONE, ANY and ALL (x IN list WHERE where) *)
Quantifier(kind, list, Where(_)) ==
  LET holds == {i \in DOMAIN ItemsOf(list) : IsTruthy(Where(ItemsOf(list)[i]))}
  IN  IF \/ TypeOf(list) \notin {"list", "null"}
         \/ \E i \in DOMAIN ItemsOf(list) : IsFailure(Where(ItemsOf(list)[i]))
      THEN Failure
      ELSE Bool(CASE kind = "none" -> holds = {}
                  [] kind = "any"  -> holds # {}
                  [] kind = "all"  -> holds = DOMAIN ItemsOf(list))

RECURSIVE Eval(_, _, _)
Eval(es, expr, b) ==
  CASE expr.op = "literal" -> expr.value
    [] expr.op = "prop"    -> PropertyOf(es, expr, b)
    [] expr.op = "not"     ->
         LET v == Eval(es, expr.of, b) IN IF IsFailure(v) THEN v ELSE Bool(~IsTruthy(v))
    [] expr.op = "binary"  ->
         EvalBinary(expr.sign, Eval(es, expr.left, b), Eval(es, expr.right, b))
    [] expr.op = "pattern" -> EvalPattern(es, expr, b)
    [] expr.op = "apply"   ->
         EvalFunction(expr.name, [i \in DOMAIN expr.args |-> Eval(es, expr.args[i], b)])
    [] expr.op = "each"    ->
         LET With(e, v) == Eval(es, e, (expr.var :> v) @@ b)
         IN  ListComp(Eval(es, expr.list, b), LAMBDA v : With(expr.where, v), LAMBDA v : With(expr.out, v))
    [] expr.op = "some"    ->
         Quantifier(expr.kind, Eval(es, expr.list, b), LAMBDA v : Eval(es, expr.where, (expr.var :> v) @@ b))
    [] OTHER -> Failure

Fails(es, expr, rows) == \E i \in DOMAIN rows : IsFailure(Eval(es, expr, rows[i]))
Filter(es, expr, rows) == SelectSeq(rows, LAMBDA b : IsTruthy(Eval(es, expr, b)))

-------------------------------------------------------------------------------
(* Patterns *)
BindTo(v, value) == IF v = "" THEN <<>> ELSE v :> value

Extend(b, step, a, n, rel, p) ==
  BindTo(step.path, p) @@ BindTo(step.rel, rel) @@ BindTo(step.peerVar, NodeValue(n))
    @@ BindTo(step.anchorVar, NodeValue(a)) @@ b

(* A step of a chain starts from what the step before it bound. *)
AnchorsOf(step, b) ==
  IF step.bound = "" THEN InIdOrder(step.anchor)
  ELSE IF IsBound(b, step.bound) THEN <<ContentOf(b[step.bound])>> ELSE <<>>

ExpandHop(es, step, b, a) ==
  LET out == ById({e \in Neighbors(es, a, step.dir, step.filter) : PeerMatches(step, Peer(e, step.dir))})
      To(e) == Peer(e, step.dir)
  IN  [i \in DOMAIN out |->
        Extend(b, step, a, To(out[i]), EdgeValue(out[i].id),
               PathValue(<<a, To(out[i])>>, <<out[i].id>>))]

(* peer_goal_ids: a name alone decides, if there is one. *)
PeerGoals(step) ==
  LET names == SelectSeq(step.peerProps, IsNameProp)
  IN  IF names # <<>> /\ TypeOf(names[1][2]) = "str"
      THEN {n \in Nodes : ContentOf(names[1][2]) \in NodeInfo[n].names}
      ELSE {n \in Nodes : PeerMatches(step, n)}

(* The trails to a goal as the depth-first walk visits them: in the order  *)
(* of their edges, as far as MaxSteps, and no more than MaxPaths.          *)
TrailsTo(es, step, a, goal) ==
  LET Turns(r, q) == LexBefore(r, q, LAMBDA e, f : Before(e, f, step.dir))
      EndsAtGoal(r) == r # <<>> /\ Peer(r[Len(r)], step.dir) = goal
      all == Routes(AdmittedBy(es, step), a, step.dir, step.most,
                    LAMBDA r : /\ IsInjective(r)
                               /\ \A i \in 1 .. Len(r) - 1 : Peer(r[i], step.dir) # goal)
      inTime == {r \in all : Cardinality({q \in all : Turns(q, r)}) < MaxSteps}
      ended == {r \in inTime : EndsAtGoal(r)}
      got == {r \in ended : Cardinality({q \in ended : Turns(q, r)}) < MaxPaths}
  IN  [routes |-> Ranked(got, Turns),
       cut |-> CASE Cardinality(ended) >= MaxPaths -> "path-cap"
                 [] inTime # all                   -> "step-budget"
                 [] OTHER                          -> "none"]

ExpandTrails(es, step, b, a) ==
  LET goals == InIdOrder(PeerGoals(step))
      Path(r) == PathValue(<<a>> \o [i \in DOMAIN r |-> Peer(r[i], step.dir)],
                           [i \in DOMAIN r |-> r[i].id])
      rows(goal) ==
        LET long == SelectSeq(TrailsTo(es, step, a, goal).routes, LAMBDA r : Len(r) >= step.least)
        IN  [i \in DOMAIN long |-> Extend(b, [step EXCEPT !.rel = ""], a, goal, Null, Path(long[i]))]
  IN  FlattenSeq([i \in DOMAIN goals |-> rows(goals[i])])

(* reachable_within, by PatternBindsByLength of PathWalker. *)
ExpandPeers(es, step, b, a) ==
  LET layer == Layers(AdmittedBy(es, step), {a}, step.dir, step.most)
      met == InIdOrder(PeerGoals(step) \cap UNION {layer[k] : k \in Max({step.least, 1}) .. step.most})
  IN  [i \in DOMAIN met |-> Extend(b, [step EXCEPT !.rel = ""], a, met[i], Null, Null)]

(* A budget that ran out outweighs a cap that filled. *)
Upgrade(cuts) ==
  IF "step-budget" \in cuts THEN "step-budget" ELSE IF "path-cap" \in cuts THEN "path-cap" ELSE "none"

(* expand_pattern: each binding by each of its anchors, in order. *)
Grown(es, step, rows) ==
  LET Grow(b, a) == IF step.hop THEN ExpandHop(es, step, b, a)
                    ELSE IF step.path # "" THEN ExpandTrails(es, step, b, a)
                    ELSE ExpandPeers(es, step, b, a)
  IN  FlattenSeq([i \in DOMAIN rows |->
        LET as == AnchorsOf(step, rows[i])
        IN  FlattenSeq([j \in DOMAIN as |-> Grow(rows[i], as[j])])])

TrailCuts(es, step, rows) ==
  IF step.hop \/ step.path = "" THEN {}
  ELSE {TrailsTo(es, step, a, goal).cut :
          a \in UNION {ToSet(AnchorsOf(step, rows[i])) : i \in DOMAIN rows}, goal \in PeerGoals(step)}

(* The peers of a walk without a path are capped as they are bound. *)
Capped(step, grown, cuts) ==
  IF ~step.hop /\ step.path = "" /\ Len(grown) > RowCap
  THEN [rows |-> SubSeq(grown, 1, RowCap), cut |-> Upgrade(cuts \cup {"path-cap"})]
  ELSE [rows |-> grown, cut |-> Upgrade(cuts)]

Expand(es, step, done) ==
  Capped(step, Grown(es, step, done.rows), {done.cut} \cup TrailCuts(es, step, done.rows))

StepsOf(patterns) == FlattenSeq([i \in DOMAIN patterns |-> LowerPatternChain(patterns[i])])

ExpandAll(es, steps, rows, before) ==
  FoldLeft(LAMBDA done, step : Expand(es, step, done), [rows |-> rows, cut |-> before], steps)

-------------------------------------------------------------------------------
(* Procedures *)
ProcPlan ==
  [mutation_fanout |-> [dir |-> "forward", column |-> "mutator"],
   pedigree |-> [dir |-> "backward", column |-> "source"]]

CallRejected(c) ==
  \/ c.proc \notin DOMAIN ProcPlan
  \/ \E i \in DOMAIN c.yields :
       c.yields[i].name \notin {ProcPlan[c.proc].column, "confidence"}

(* What bfs discovers, as the edge it first meets each node by. *)
RECURSIVE Discovered(_, _, _, _, _)
Discovered(es, dir, layer, met, depth) ==
  LET place(e) == CHOOSE i \in DOMAIN layer : layer[i] = Source(e, dir)
      out == {e \in es : Source(e, dir) \in ToSet(layer) /\ Peer(e, dir) \notin met}
      Sooner(e, f) == place(e) < place(f) \/ (place(e) = place(f) /\ Before(e, f, dir))
      first == {e \in out : \A f \in out : Peer(f, dir) = Peer(e, dir) /\ f # e => Sooner(e, f)}
      next == Ranked(first, Sooner)
  IN  IF depth = 0 \/ first = {} THEN {}
      ELSE first \cup Discovered(es, dir, [i \in DOMAIN next |-> Peer(next[i], dir)],
                                 met \cup {Peer(e, dir) : e \in first}, depth - 1)

FlowFilter == [kinds |-> {"derives_from"}, mode |-> "any", condition |-> "always", floor |-> 0, cap |-> 0]

(* Mutant: every edge that flows into a node reports it. *)
FlowInto_EveryEdge(es, a, dir) == {e \in es : Admits(FlowFilter, e) /\ Peer(e, dir) # a}

FlowInto(es, a, dir) == Discovered({e \in es : Admits(FlowFilter, e)}, dir, <<a>>, {a}, DefaultDepth)

CallFails(es, c, rows) ==
  \E i \in DOMAIN rows : Len(c.args) # 1 \/ TypeOf(Eval(es, c.args[1], rows[i])) # "str"

FlowFrom(es, name, dir) ==
  LET anchors == InIdOrder({n \in Nodes : name \in NodeInfo[n].names})
      Sooner(e, f) == Before(e, f, dir)
  IN  SortedBy(FlattenSeq([i \in DOMAIN anchors |-> Ranked(FlowInto(es, anchors[i], dir), Sooner)]), Sooner)

(* eval_call: the columns asked for, of each node the value flows to. *)
YieldRows(c, b, reached) ==
  LET proc == ProcPlan[c.proc]
      Key(y) == IF y.as = "" THEN y.name ELSE y.as
      Given(y, e) == IF y.name = proc.column THEN NodeFieldValue(Peer(e, proc.dir), "fqn")
                     ELSE EdgeFieldValue(e, "confidence")
  IN  [i \in DOMAIN reached |->
        FoldLeft(LAMBDA row, y : (Key(y) :> Given(y, reached[i])) @@ row, b, c.yields)]

CallRows(es, c, b) ==
  YieldRows(c, b, FlowFrom(es, ContentOf(Eval(es, c.args[1], b)), ProcPlan[c.proc].dir))

-------------------------------------------------------------------------------
(* Projection *)
AggregateNames == {"collect", "count", "min", "max"}
IsAggregate(expr) == expr.op = "apply" /\ expr.name \in AggregateNames
IsStar(expr) == expr.op = "star"

NodesIn(b) == {ContentOf(b[v]) : v \in {v \in DOMAIN b : TypeOf(b[v]) = "node"}}
Representative(b) == Min(NodesIn(b) \cup {Cardinality(Nodes) + 1})

(* Confidence tokens have an order of their own. *)
AggregateLess(v, w) ==
  IF {TypeOf(v), TypeOf(w)} = {"str"} /\ {ContentOf(v), ContentOf(w)} \subseteq DOMAIN ConfidenceRank
  THEN ConfidenceRank[ContentOf(v)] < ConfidenceRank[ContentOf(w)] ELSE Less(v, w)

Best(vs, Below(_, _)) ==
  IF vs = {} THEN Null ELSE CHOOSE v \in vs : \A w \in vs : ~Below(w, v)

(* One aggregate over the bindings of a group, of the values vs its        *)
(* argument has there; nulls do not count, and a list counts as its items. *)
Aggregated(name, group, vs) ==
  LET known(order) == SelectSeq(order, LAMBDA i : vs[i] # Null)
      places == [i \in DOMAIN group |-> i]
      collected == known(SortedBy(places, LAMBDA i, j : Representative(group[i]) < Representative(group[j])))
      elements == UNION {IF TypeOf(vs[i]) = "list" THEN ToSet(ContentOf(vs[i])) ELSE {vs[i]} :
                           i \in DOMAIN group} \ {Null}
  IN  CASE \E i \in DOMAIN vs : IsFailure(vs[i]) -> Failure
        [] name = "count"   -> Number(Len(known(places)))
        [] name = "collect" -> List([i \in DOMAIN collected |-> vs[collected[i]]])
        [] name = "min"     -> Best(elements, AggregateLess)
        [] name = "max"     -> Best(elements, LAMBDA v, w : AggregateLess(w, v))

EvalAggregate(es, expr, group) ==
  CASE expr.name = "count" /\ (expr.args = <<>> \/ IsStar(expr.args[1])) -> Number(Len(group))
    [] Len(expr.args) # 1 -> Failure
    [] OTHER -> Aggregated(expr.name, group, [i \in DOMAIN group |-> Eval(es, expr.args[1], group[i])])

ColumnName(item) ==
  CASE item.as # "" -> item.as
    [] item.expr.op = "prop" /\ item.expr.fields = <<>> -> item.expr.head
    [] OTHER -> item.text

Columns(ret) == [i \in DOMAIN ret.items |-> ColumnName(ret.items[i])]
RowOf(es, ret, b) == [i \in DOMAIN ret.items |-> Eval(es, ret.items[i].expr, b)]
RowLess(r, s) == LexBefore(r, s, Less)

(* Grouped: one row for each tuple of the keys, which are the items that   *)
(* do not aggregate; without a key all is one group, if need be an empty one. *)
GroupRow(es, ret, group) ==
  [i \in DOMAIN ret.items |->
    IF IsAggregate(ret.items[i].expr) THEN EvalAggregate(es, ret.items[i].expr, group)
    ELSE Eval(es, ret.items[i].expr, group[1])]

KeyOf(es, ret, b) ==
  LET keys == SelectSeq(ret.items, LAMBDA item : ~IsAggregate(item.expr))
  IN  [i \in DOMAIN keys |-> Eval(es, keys[i].expr, b)]

(* The bindings by their keys, in the order the keys are first met. *)
GroupsBy(rows, keys) ==
  LET heads == SelectSeq([i \in DOMAIN rows |-> i], LAMBDA i : \A j \in 1 .. i - 1 : keys[j] # keys[i])
      alike(i) == SelectSeq([j \in DOMAIN rows |-> j], LAMBDA j : keys[j] = keys[i])
  IN  [k \in DOMAIN heads |-> LET same == alike(heads[k]) IN [m \in DOMAIN same |-> rows[same[m]]]]

GroupsOf(es, ret, rows) ==
  IF rows = <<>> /\ \A i \in DOMAIN ret.items : IsAggregate(ret.items[i].expr) THEN <<<<>>>>
  ELSE GroupsBy(rows, [i \in DOMAIN rows |-> KeyOf(es, ret, rows[i])])

GroupedRows(es, ret, groups) == [k \in DOMAIN groups |-> GroupRow(es, ret, groups[k])]

(* Without aggregates: a row a binding, by the first node it binds. *)
PlainRows(ret, rows, made) ==
  LET sooner(i, j) == \/ Representative(rows[i]) < Representative(rows[j])
                      \/ /\ Representative(rows[i]) = Representative(rows[j])
                         /\ RowLess(made[i], made[j])
      from == SortedBy([i \in DOMAIN rows |-> i], sooner)
  IN  IF ret.orderBy = <<>> THEN [i \in DOMAIN from |-> made[from[i]]] ELSE made

Deduped(rows) == Ranked(ToSet(rows), RowLess)

(* ORDER BY names a column, or repeats what one was made of. *)
OrderColumn(ret, key) ==
  {i \in DOMAIN ret.items : ColumnName(ret.items[i]) = key.text \/ ret.items[i].text = key.text}

OrderBefore(ret, r, s) ==
  LET At(k) == Min(OrderColumn(ret, ret.orderBy[k]))
      Earlier(k) == IF ret.orderBy[k].descending THEN Less(s[At(k)], r[At(k)]) ELSE Less(r[At(k)], s[At(k)])
      Same(k) == r[At(k)] = s[At(k)]
  IN  \/ \E k \in DOMAIN ret.orderBy : Earlier(k) /\ \A j \in 1 .. k - 1 : Same(j)
      \/ (\A k \in DOMAIN ret.orderBy : Same(k)) /\ RowLess(r, s)

Grouping(ret) == \E i \in DOMAIN ret.items : IsAggregate(ret.items[i].expr)

(* The items of each binding or group. *)
Made(es, ret, rows) ==
  IF Grouping(ret) THEN GroupedRows(es, ret, GroupsOf(es, ret, rows))
  ELSE [i \in DOMAIN rows |-> RowOf(es, ret, rows[i])]

(* By the columns asked for; groups by themselves, if by none. *)
Ordered(ret, rows) ==
  IF ret.orderBy # <<>> THEN SortedBy(rows, LAMBDA r, s : OrderBefore(ret, r, s))
  ELSE IF Grouping(ret) THEN SortedBy(rows, RowLess) ELSE rows

FirstOf(limit, rows) == IF limit = NotGiven THEN rows ELSE SubSeq(rows, 1, Min({limit, Len(rows)}))

(* Mutant: the first rows are taken, and those are sorted. *)
Limited_First(ret, rows) == Ordered(ret, FirstOf(ret.limit, rows))

Limited(ret, rows) == FirstOf(ret.limit, Ordered(ret, rows))

ProjectRows(ret, rows, made) ==
  LET plain == IF Grouping(ret) THEN made ELSE PlainRows(ret, rows, made)
  IN  Limited(ret, IF ret.distinct THEN Deduped(plain) ELSE plain)

(* The whole-path channel of a projection of one variable. *)
PathsOf(ret, rows) ==
  IF Len(ret.items) = 1 /\ ret.items[1].expr.op = "prop" /\ ret.items[1].expr.fields = <<>>
  THEN LET whole == SelectSeq(rows, LAMBDA r : TypeOf(r[1]) = "path")
       IN  [i \in DOMAIN whole |-> ContentOf(whole[i][1])]
  ELSE <<>>

ProjectFails(ret, made) ==
  \/ \E i \in DOMAIN made : \E j \in DOMAIN made[i] : IsFailure(made[i][j])
  \/ made # <<>> /\ \E k \in DOMAIN ret.orderBy : OrderColumn(ret, ret.orderBy[k]) = {}

-------------------------------------------------------------------------------
CqlInit ==
  /\ links \in CqlGraphs
  /\ asking \in CqlQueries
  /\ doing = "plan"
  /\ part = 1
  /\ clause = 1
  /\ stream = <<<<>>>>
  /\ cut = "none"
  /\ table = NoTable

ThisPart == asking[part]
ThisClause == ThisPart.reading[clause]

(* A WITH is not asked what it orders by. *)
OrderKeys(p) ==
  IF part = Len(asking) THEN {p.ret.orderBy[k].expr : k \in DOMAIN p.ret.orderBy} ELSE {}

PartRejected(p) ==
  LET matches == SelectSeq(p.reading, LAMBDA c : c.op = "match")
      patterns == FlattenSeq([i \in DOMAIN matches |-> matches[i].patterns])
      said == {p.reading[i].where : i \in DOMAIN p.reading}
                \cup {p.ret.items[i].expr : i \in DOMAIN p.ret.items} \cup {p.ret.where}
                \cup OrderKeys(p)
  IN  \/ \E i \in DOMAIN patterns : PatternRejected(patterns[i])
      \/ \E i \in DOMAIN p.reading : p.reading[i].op = "call" /\ CallRejected(p.reading[i])
      \/ \E e \in said : ExprRejected(e, TypesIn(StepsOf(patterns)))

(* eval_reading, before it looks at the graph. *)
PlanPart ==
  /\ doing = "plan"
  /\ doing' = IF PartRejected(ThisPart) THEN "failed" ELSE "read"
  /\ clause' = 1
  /\ UNCHANGED <<links, asking, part, stream, cut, table>>

IsReading(op) == doing = "read" /\ clause <= Len(ThisPart.reading) /\ ThisClause.op = op

(* What a clause leaves, of the rows it made, to the next. *)
KeepWhere(rows) ==
  IF Fails(links, ThisClause.where, rows)
  THEN doing' = "failed" /\ UNCHANGED <<clause, stream>>
  ELSE /\ stream' = Filter(links, ThisClause.where, rows)
       /\ clause' = clause + 1
       /\ UNCHANGED doing

KeepMade(made) == cut' = made.cut /\ KeepWhere(made.rows)

ReadMatch ==
  /\ IsReading("match")
  /\ KeepMade(ExpandAll(links, StepsOf(ThisClause.patterns), stream, cut))
  /\ UNCHANGED <<links, asking, part, table>>

ReadCall ==
  /\ IsReading("call")
  /\ IF CallFails(links, ThisClause, stream)
     THEN doing' = "failed" /\ UNCHANGED <<clause, stream>>
     ELSE KeepWhere(FlattenSeq([i \in DOMAIN stream |-> CallRows(links, ThisClause, stream[i])]))
  /\ UNCHANGED <<links, asking, part, cut, table>>

IsProjecting == doing = "read" /\ clause > Len(ThisPart.reading)
Carry(ret, row) ==
  [v \in ToSet(Columns(ret)) |-> row[Max({i \in DOMAIN row : Columns(ret)[i] = v})]]

(* project_with: only what is listed goes on to the next part. *)
CarryOn(ret, carried) ==
  IF Fails(links, ret.where, carried)
  THEN doing' = "failed" /\ UNCHANGED <<part, stream>>
  ELSE /\ stream' = Filter(links, ret.where, carried)
       /\ part' = part + 1
       /\ doing' = "plan"

ProjectOn(ret, made) ==
  IF ProjectFails(ret, made) THEN doing' = "failed" /\ UNCHANGED <<part, stream>>
  ELSE LET projected == ProjectRows(ret, stream, made)
       IN  CarryOn(ret, [i \in DOMAIN projected |-> Carry(ret, projected[i])])

ProjectWith ==
  /\ IsProjecting
  /\ part < Len(asking)
  /\ ProjectOn(ThisPart.ret, Made(links, ThisPart.ret, stream))
  /\ UNCHANGED <<links, asking, clause, cut, table>>

Tabled(ret, rows) == [columns |-> Columns(ret), rows |-> rows, paths |-> PathsOf(ret, rows)]

ProjectOut(ret, made) ==
  IF ProjectFails(ret, made) THEN doing' = "failed" /\ UNCHANGED table
  ELSE table' = Tabled(ret, ProjectRows(ret, stream, made)) /\ doing' = "done"

ProjectReturn ==
  /\ IsProjecting
  /\ part = Len(asking)
  /\ ProjectOut(ThisPart.ret, Made(links, ThisPart.ret, stream))
  /\ UNCHANGED <<links, asking, part, clause, stream, cut>>

CqlNext == PlanPart \/ ReadMatch \/ ReadCall \/ ProjectWith \/ ProjectReturn

CqlSpec == CqlInit /\ [][CqlNext]_cqlVars
-------------------------------------------------------------------------------
(* What a pattern means, read as it is written and from no end in          *)
(* particular.                                                             *)
Satisfies(n, node) ==
  /\ KindsOf(node) = {} \/ NodeInfo[n].kind \in KindsOf(node)
  /\ \A i \in DOMAIN PropsOf(node) :
       LET key == PropsOf(node)[i][1]
           value == PropsOf(node)[i][2]
       IN  IF NodeField(key) = "fqn" THEN ContentOf(value) \in NodeInfo[n].names
           ELSE NodeFieldValue(n, NodeField(key)) = value

(* From the node on the left of a relationship to the one on its right. *)
Along(rel) == IF (rel.arrow = "forward") # Inverts(rel) THEN "forward" ELSE "backward"
Ends(rel, e) == <<Source(e, Along(rel)), Peer(e, Along(rel))>>

FromEnd(pattern) == Len(pattern.steps) = 1 /\ Selectivity(pattern.start) < Selectivity(EndOf(pattern, 1))

(* The ways a step of a pattern leads from one node to another.  A trail   *)
(* meets the end it is looked for from the other only once.                *)
WaysOf(es, pattern, i, n, m) ==
  LET rel == pattern.steps[i].rel
      admitted == {e \in es : Admits(EdgeFilterOf(rel), e)}
      least == Max({1, IF rel.least = NotGiven THEN 1 ELSE rel.least})
      most == IF rel.most = NotGiven THEN DefaultDepth ELSE rel.most
      meets(r, k) == IF FromEnd(pattern) THEN Source(r[k + 1], Along(rel)) = n ELSE Peer(r[k], Along(rel)) = m
  IN  IF rel.hop THEN {<<e>> : e \in {e \in admitted : Ends(rel, e) = <<n, m>>}}
      ELSE IF pattern.path = ""
      THEN IF \E k \in least .. most : m \in Layers(admitted, {n}, Along(rel), most)[k] THEN {<<>>} ELSE {}
      ELSE {r \in Routes(admitted, n, Along(rel), most, IsInjective) :
              /\ Len(r) >= least /\ Peer(r[Len(r)], Along(rel)) = m
              /\ \A k \in 1 .. Len(r) - 1 : ~meets(r, k)}

Solutions(es, pattern) ==
  FoldLeft(LAMBDA sols, i :
             UNION {{[nodes |-> Append(s.nodes, m), ways |-> Append(s.ways, w)] :
                       w \in WaysOf(es, pattern, i, s.nodes[i], m)} :
                    s \in sols, m \in {m \in Nodes : Satisfies(m, EndOf(pattern, i))}},
           {[nodes |-> <<n>>, ways |-> <<>>] : n \in {n \in Nodes : Satisfies(n, pattern.start)}},
           [i \in DOMAIN pattern.steps |-> i])

(* The path of a solution, as walked. *)
PathFound(pattern, sol) ==
  LET r == sol.ways[1]
      ids == [i \in DOMAIN r |-> r[i].id]
      ns == <<sol.nodes[1]>> \o [i \in DOMAIN r |-> Peer(r[i], Along(pattern.steps[1].rel))]
  IN  IF FromEnd(pattern) THEN PathValue(Reverse(ns), Reverse(ids)) ELSE PathValue(ns, ids)

Bindings(pattern, sol) ==
  FoldLeft(LAMBDA made, i :
             BindTo(EndOf(pattern, i).var, NodeValue(sol.nodes[i + 1]))
             @@ (IF pattern.steps[i].rel.hop
                 THEN BindTo(pattern.steps[i].rel.var, EdgeValue(sol.ways[i][1].id)) ELSE <<>>)
             @@ made,
           (IF pattern.path = "" THEN <<>> ELSE BindTo(pattern.path, PathFound(pattern, sol)))
             @@ BindTo(pattern.start.var, NodeValue(sol.nodes[1])),
           [i \in DOMAIN pattern.steps |-> i])

VarsOf(pattern) ==
  SelectSeq(<<pattern.path, pattern.start.var>>
              \o FlattenSeq([i \in DOMAIN pattern.steps |-> <<pattern.steps[i].rel.var, EndOf(pattern, i).var>>]),
            LAMBDA v : v # "")

(* The end a walk starts from is not asked all its constraints, nor is one *)
(* with a name at the other end of a variable-length walk; and a variable  *)
(* met again is bound again.                                               *)
IsPlain(pattern, rows) ==
  /\ \A node \in {pattern.start} \cup {EndOf(pattern, i) : i \in DOMAIN pattern.steps} :
       AnchorSet(node) = {n \in Nodes : Satisfies(n, node)}
  /\ IsInjective(VarsOf(pattern))
  /\ \A i \in DOMAIN rows : DOMAIN rows[i] \cap ToSet(VarsOf(pattern)) = {}

Occurrences(rows, b) == Cardinality({i \in DOMAIN rows : rows[i] = b})

MatchBinds ==
  LET pattern == ThisClause.patterns[1]
      sols == Solutions(links, pattern)
      made == {<<i, sol>> : i \in DOMAIN stream, sol \in sols}
      Row(m) == Bindings(pattern, m[2]) @@ stream[m[1]]
      kept == {m \in made : IsTruthy(Eval(links, ThisClause.where, Row(m)))}
  IN  Len(ThisClause.patterns) = 1 /\ IsPlain(pattern, stream) /\ cut' = "none" =>
        /\ Len(stream') = Cardinality(kept)
        /\ \A m \in kept : Occurrences(stream', Row(m)) = Cardinality({k \in kept : Row(k) = Row(m)})

(* A CALL reports each node its value flows to, or from, once for each     *)
(* node its argument names, and the confidence of an edge that closes in.  *)
CallBinds ==
  LET proc == ProcPlan[ThisClause.proc]
      admitted == {e \in links : Admits(FlowFilter, e)}
      anchors(b) == {n \in Nodes : ContentOf(Eval(links, ThisClause.args[1], b)) \in NodeInfo[n].names}
      Nearing(a, e) ==
        LET near == Within(admitted, {a}, proc.dir, Cardinality(Nodes))
            Far(n) == Distance(admitted, a, n, proc.dir)
        IN  /\ {e.src, e.dst} \subseteq near
            /\ Far(Peer(e, proc.dir)) = Far(Source(e, proc.dir)) + 1
      rows == [i \in DOMAIN stream |-> CallRows(links, ThisClause, stream[i])]
  IN  \A i \in DOMAIN stream :
        LET met == {<<a, n>> \in anchors(stream[i]) \X Nodes :
                      n # a /\ n \in Within(admitted, {a}, proc.dir, DefaultDepth)}
        IN  /\ Len(rows[i]) = Cardinality(met)
            /\ \A k \in DOMAIN rows[i] :
                 \E m \in met : \E e \in admitted :
                   /\ Peer(e, proc.dir) = m[2] /\ Nearing(m[1], e)
                   /\ \A j \in DOMAIN ThisClause.yields :
                        LET y == ThisClause.yields[j]
                        IN  rows[i][k][IF y.as = "" THEN y.name ELSE y.as]
                              = IF y.name = "confidence" THEN EdgeFieldValue(e, "confidence")
                                ELSE NodeFieldValue(m[2], "fqn")

(* Whichever end a walk starts from, whichever way a type is stored and    *)
(* however a chain is joined, a MATCH extends each binding by the          *)
(* solutions of its pattern, as many times as there are, and by nothing    *)
(* else, unless a cut is reported; and a CALL by the nodes its value flows *)
(* to.                                                                     *)
RowsAreTheMatches ==
  [][/\ IsReading("match") /\ doing' = "read" => MatchBinds
     /\ IsReading("call") /\ doing' = "read" => CallBinds]_cqlVars

(* The answer is of the last stream: a row a binding, or with DISTINCT one *)
(* each, or one row a group that accounts for all its bindings; LIMIT      *)
(* keeps the first in the order asked for; and the paths are those of the  *)
(* rows.                                                                   *)
TableIsOfTheStream ==
  doing = "done" =>
    LET ret == ThisPart.ret
        rows == table.rows
        made == [i \in DOMAIN stream |-> RowOf(links, ret, stream[i])]
        due(r) == IF ret.distinct THEN 1 ELSE Occurrences(made, r)
        groups == {KeyOf(links, ret, stream[i]) : i \in DOMAIN stream}
        total == IF Grouping(ret)
                 THEN IF \A i \in DOMAIN ret.items : IsAggregate(ret.items[i].expr) THEN 1 ELSE Cardinality(groups)
                 ELSE IF ret.distinct THEN Cardinality(ToSet(made)) ELSE Len(made)
        KeyIn(r) == LET at == SelectSeq([i \in DOMAIN r |-> i], LAMBDA i : ~IsAggregate(ret.items[i].expr))
                    IN  [k \in DOMAIN at |-> r[at[k]]]
    IN  /\ Len(rows) = IF ret.limit = NotGiven THEN total ELSE Min({ret.limit, total})
        /\ ret.orderBy # <<>> => \A i, j \in DOMAIN rows : i < j => ~OrderBefore(ret, rows[j], rows[i])
        /\ ~Grouping(ret) => \A r \in ToSet(made) \cup ToSet(rows) :
             /\ Occurrences(rows, r) <= due(r)
             /\ Occurrences(rows, r) < due(r) /\ ret.orderBy # <<>> =>
                  \A k \in DOMAIN rows : ~OrderBefore(ret, r, rows[k])
        /\ Grouping(ret) /\ groups # {} => \A r \in ToSet(rows) :
             LET size == Cardinality({i \in DOMAIN stream : KeyOf(links, ret, stream[i]) = KeyIn(r)})
             IN  /\ size > 0 /\ Occurrences(rows, r) = 1
                 /\ \A i \in DOMAIN r :
                      ret.items[i].expr.op = "apply" /\ ret.items[i].expr.args = <<[op |-> "star"]>>
                        => r[i] = Number(size)
        /\ table.paths # <<>> => [i \in DOMAIN rows |-> ContentOf(rows[i][1])] = table.paths

(* A path runs as its pattern is written, from the node on the left, so    *)
(* that position_in tells what comes before what on the way.               *)
PathsRunAsWritten ==
  doing = "read" /\ clause > 1 /\ ThisPart.reading[clause - 1].op = "match" =>
    \A i \in DOMAIN stream :
      LET pattern == ThisPart.reading[clause - 1].patterns[1]
      IN  pattern.path # "" /\ IsBound(stream[i], pattern.start.var) =>
            ContentOf(stream[i][pattern.path]).nodes[1] = ContentOf(stream[i][pattern.start.var])
===============================================================================
