------------------------------- MODULE CqlPlan --------------------------------
(***************************************************************************)
(* Values and plans of the query language of cgx-cql: value.rs, lower.rs   *)
(* and the checks eval.rs makes of a part before it runs any of it.        *)
(*                                                                         *)
(* A value is a pair of its type and its content.  A text is one of the    *)
(* constant Texts, which lists them in byte order.  Floats are left out:   *)
(* only a literal makes one.  One Failure stands for every error: where it *)
(* points and what it says is wording.                                     *)
(*                                                                         *)
(* A query is its syntax tree.  A node of a pattern is a record of var (""  *)
(* for none), label ("" for none) and props, a sequence of pairs of a key  *)
(* and a value; a relationship has var, arrow, types, hop, and, if    *)
(* it is no single hop, least and most, NotGiven if absent, and props.     *)
(***************************************************************************)
EXTENDS GraphView

CONSTANTS
  Texts,     \* the strings there are, in byte order
  NodeInfo,  \* of a node: fqn, file, line, kind, the names and selectors it
             \* answers to, and those it does with the agnostic flag (akin)
  Selectors, \* the texts that compile as selectors
  DefaultDepth  \* DEFAULT_VAR_LENGTH_DEPTH

NotGiven == -1

Null == <<"null", 0>>
Bool(b) == <<"bool", b>>
Number(n) == <<"int", n>>
Text(s) == <<"str", s>>
List(vs) == <<"list", vs>>
NodeValue(n) == <<"node", n>>
EdgeValue(id) == <<"edge", id>>
PathValue(ns, ids) == <<"path", [nodes |-> ns, edges |-> ids]>>
Failure == <<"failure", 0>>

TypeOf(v) == v[1]
ContentOf(v) == v[2]
IsFailure(v) == TypeOf(v) = "failure"
IsTruthy(v) == v # Null /\ v # Bool(FALSE)

TypeRank ==
  [null |-> 0, bool |-> 1, int |-> 2, str |-> 4, list |-> 5, node |-> 6,
   edge |-> 7, path |-> 8]

TextRank(s) == CHOOSE i \in DOMAIN Texts : Texts[i] = s

ScalarRank(v) ==
  CASE TypeOf(v) = "null" -> 0
    [] TypeOf(v) = "bool" -> IF ContentOf(v) THEN 1 ELSE 0
    [] TypeOf(v) = "str"  -> TextRank(ContentOf(v))
    [] OTHER              -> ContentOf(v)

(* Lexicographic: the first difference decides, else the length. *)
LexBefore(s, t, Before_(_, _)) ==
  \/ \E i \in DOMAIN s \cap DOMAIN t :
       Before_(s[i], t[i]) /\ \A j \in 1 .. i - 1 : s[j] = t[j]
  \/ Len(s) < Len(t) /\ \A i \in DOMAIN s : s[i] = t[i]

(* Paths by their nodes, then by their edges. *)
PathLess(p, q) ==
  \/ LexBefore(p.nodes, q.nodes, <)
  \/ p.nodes = q.nodes /\ LexBefore(p.edges, q.edges, <)

(* The total order of values: by type, then by content. *)
RECURSIVE Less(_, _)
Less(v, w) ==
  IF TypeOf(v) # TypeOf(w) THEN TypeRank[TypeOf(v)] < TypeRank[TypeOf(w)]
  ELSE CASE TypeOf(v) = "list" -> LexBefore(ContentOf(v), ContentOf(w), Less)
         [] TypeOf(v) = "path" -> PathLess(ContentOf(v), ContentOf(w))
         [] OTHER -> ScalarRank(v) < ScalarRank(w)

-------------------------------------------------------------------------------
(* The maps from names of the language to fields and kinds of the graph.   *)
(* What is not among them is refused, never answered.                      *)
NodeField(name) ==
  CASE name \in {"name", "fqn"}           -> "fqn"
    [] name \in {"file", "line", "kind"}  -> name
    [] OTHER                              -> "none"

EdgeField(name) ==
  IF name \in {"condition", "confidence", "kind"} THEN name ELSE "none"

SymbolKinds ==
  {"function", "method", "type", "field", "variable", "module", "constant",
   "macro", "lambda", "entrypoint"}

(* The six kinds of call are one here; a relationship without a type is    *)
(* the call family, which has spawns too.                                  *)
RelKinds ==
  [CALLS |-> "calls", SPAWNS |-> "spawns", DATA_FLOW |-> "derives_from",
   MEMBER_OF |-> "contains", CONTAINS |-> "contains", INHERITS |-> "inherits",
   IMPLEMENTS |-> "implements", OVERRIDES |-> "overrides"]

ConditionTokens == {"always", "conditional", "loop", "exception", "panic"}
ConfidenceRank == [possible |-> 0, probable |-> 1, certain |-> 2]

(* MEMBER_OF is the stored edge from a type to its member, read backwards. *)
Inverts(rel) == \E i \in DOMAIN rel.types : rel.types[i] = "MEMBER_OF"

RelRejected(rel) ==
  \/ \E i \in DOMAIN rel.types : rel.types[i] \notin DOMAIN RelKinds
  \/ Inverts(rel) /\ \E i \in DOMAIN rel.types : rel.types[i] # "MEMBER_OF"
  \/ \E i \in DOMAIN rel.props :
       LET key == rel.props[i][1]
           value == rel.props[i][2]
       IN  \/ EdgeField(key) \in {"none", "kind"}
           \/ TypeOf(value) # "str"
           \/ key = "condition" /\ ContentOf(value) \notin ConditionTokens
           \/ key = "confidence" /\ ContentOf(value) \notin DOMAIN ConfidenceRank

(* node_constraints: a label or a kind is a constraint on the kind, and    *)
(* two of them admit either.                                               *)
NodeRejected(node) ==
  \/ node.label # "" /\ node.label \notin SymbolKinds
  \/ \E i \in DOMAIN node.props :
       LET key == node.props[i][1]
           value == node.props[i][2]
       IN  \/ NodeField(key) = "none"
           \/ key = "kind" /\ (TypeOf(value) # "str" \/ ContentOf(value) \notin SymbolKinds)

KindsOf(node) ==
  (IF node.label = "" THEN {} ELSE {node.label})
    \cup {ContentOf(node.props[i][2]) : i \in {i \in DOMAIN node.props : node.props[i][1] = "kind"}}

PropsOf(node) == SelectSeq(node.props, LAMBDA p : p[1] # "kind")

IsNameProp(prop) == NodeField(prop[1]) = "fqn"
HasName(node) == \E i \in DOMAIN node.props : IsNameProp(node.props[i])

Selectivity(node) ==
  IF HasName(node) THEN 2 ELSE IF KindsOf(node) # {} \/ PropsOf(node) # <<>> THEN 1 ELSE 0

(* The nodes to start from: those of the first name, else those of the     *)
(* kinds, else all.  The other constraints of this end are not looked at.  *)
AnchorSet(node) ==
  LET names == SelectSeq(node.props, IsNameProp)
  IN  IF names # <<>> /\ TypeOf(names[1][2]) = "str"
      THEN {n \in Nodes : ContentOf(names[1][2]) \in NodeInfo[n].names}
      ELSE IF KindsOf(node) # {} THEN {n \in Nodes : NodeInfo[n].kind \in KindsOf(node)}
      ELSE Nodes

EdgeFilterOf(rel) ==
  LET given(key) == {ContentOf(rel.props[i][2]) : i \in {i \in DOMAIN rel.props : rel.props[i][1] = key}}
  IN  [kinds |-> {RelKinds[rel.types[i]] : i \in DOMAIN rel.types},
       mode |-> IF given("condition") = {} THEN "any" ELSE "only",
       condition |-> IF given("condition") = {} THEN "always" ELSE CHOOSE c \in given("condition") : TRUE,
       floor |-> IF given("confidence") = {} THEN 0
                 ELSE ConfidenceRank[CHOOSE c \in given("confidence") : TRUE],
       cap |-> 0]

Reverse_(dir) == IF dir = "forward" THEN "backward" ELSE "forward"
WalkDirection(rel) == IF Inverts(rel) THEN Reverse_(rel.arrow) ELSE rel.arrow

(* A step of a plan: a walk from its anchor to its peer. *)
StepFrom(anchor, peer, rel, dir, pathVar) ==
  [path |-> pathVar, bound |-> "", anchorVar |-> anchor.var, peerVar |-> peer.var,
   rel |-> rel.var, anchor |-> AnchorSet(anchor), dir |-> dir,
   filter |-> EdgeFilterOf(rel), hop |-> rel.hop,
   least |-> IF rel.least = NotGiven THEN 1 ELSE rel.least,
   most |-> IF rel.most = NotGiven THEN DefaultDepth ELSE rel.most,
   peerKinds |-> KindsOf(peer), peerProps |-> PropsOf(peer)]

(* Mutant: the walk keeps its direction whichever end it starts from. *)
LowerSingle_KeepsArrow(pathVar, start, rel, end) ==
  IF Selectivity(start) >= Selectivity(end)
  THEN StepFrom(start, end, rel, WalkDirection(rel), pathVar)
  ELSE StepFrom(end, start, rel, WalkDirection(rel), pathVar)

(* One relationship is walked from its more selective end. *)
LowerSingle(pathVar, start, rel, end) ==
  IF Selectivity(start) >= Selectivity(end)
  THEN StepFrom(start, end, rel, WalkDirection(rel), pathVar)
  ELSE StepFrom(end, start, rel, Reverse_(WalkDirection(rel)), pathVar)

(* The node a step of a pattern starts from, and the one it ends at. *)
StartOf(pattern, i) == IF i = 1 THEN pattern.start ELSE pattern.steps[i - 1].node
EndOf(pattern, i) == pattern.steps[i].node

(* A chain is walked as written, each step from what the last one bound. *)
LowerPatternChain(pattern) ==
  IF Len(pattern.steps) = 1
  THEN <<LowerSingle(pattern.path, pattern.start, pattern.steps[1].rel, EndOf(pattern, 1))>>
  ELSE [i \in DOMAIN pattern.steps |->
         LET rel == pattern.steps[i].rel
             step == StepFrom(StartOf(pattern, i), EndOf(pattern, i), rel, WalkDirection(rel), "")
         IN  [step EXCEPT !.bound = IF i = 1 THEN "" ELSE StartOf(pattern, i).var]]

PatternRejected(pattern) ==
  \/ pattern.steps = <<>>
  \/ NodeRejected(pattern.start)
  \/ \E i \in DOMAIN pattern.steps :
       NodeRejected(EndOf(pattern, i)) \/ RelRejected(pattern.steps[i].rel)
  \/ /\ Len(pattern.steps) > 1
     /\ pattern.path # "" \/ \E i \in 1 .. Len(pattern.steps) - 1 : EndOf(pattern, i).var = ""

-------------------------------------------------------------------------------
(* What a part's patterns say of the type of a variable.  Variables that   *)
(* a WITH or a YIELD brings in have none, and are checked as they are read. *)
TypesIn(steps) ==
  [v \in {steps[i].path : i \in DOMAIN steps} |-> "path"]
  @@ [v \in {steps[i].rel : i \in DOMAIN steps} |-> "edge"]
  @@ [v \in UNION {{steps[i].anchorVar, steps[i].peerVar} : i \in DOMAIN steps} |-> "node"]

TypeIn(types, v) == IF v \in DOMAIN types THEN types[v] ELSE "any"

ElementType(list) ==
  CASE list.op = "apply" /\ list.name = "relationships" -> "edge"
    [] list.op = "apply" /\ list.name = "nodes"         -> "node"
    [] OTHER                                            -> "any"

WithElement(types, v, type) == (v :> type) @@ types

(* validate_expr: a property no record backs is refused before a walk. A   *)
(* pattern in a predicate is checked when it is met.                       *)
RECURSIVE ExprRejected(_, _)
ExprRejected(expr, types) ==
  CASE expr.op = "prop" ->
         \/ Len(expr.fields) > 1
         \/ /\ Len(expr.fields) = 1
            /\ \/ TypeIn(types, expr.head) = "node" /\ NodeField(expr.fields[1]) = "none"
               \/ TypeIn(types, expr.head) = "edge" /\ EdgeField(expr.fields[1]) = "none"
    [] expr.op = "not"    -> ExprRejected(expr.of, types)
    [] expr.op = "binary" -> ExprRejected(expr.left, types) \/ ExprRejected(expr.right, types)
    [] expr.op = "apply"  -> \E i \in DOMAIN expr.args : ExprRejected(expr.args[i], types)
    [] expr.op \in {"each", "some"} ->
         \/ ExprRejected(expr.list, types)
         \/ \E e \in {expr.where, expr.out} :
              ExprRejected(e, WithElement(types, expr.var, ElementType(expr.list)))
    [] OTHER -> FALSE
===============================================================================
