------------------------------ MODULE MCAnalyses ------------------------------
(* One run of the components that share no state: the walks over a stored  *)
(* graph with their contract, the session they are asked in, receiver      *)
(* narrowing, data flow between functions, the language adapters, the      *)
(* query language, the comparison of two states of a repository and the    *)
(* coupling of its files.  A behavior is one of one of them; the others    *)
(* are off.                                                                *)
EXTENDS Contract, McpSession, ReceiverWorlds, MCSummaries, Extraction, MCCql,
        MCChanges, TLC

CONSTANTS
  source, generated, blobA, blobB,
  Whole     \* nodes of a path, from its leaf, of any kind

-------------------------------------------------------------------------------
(* The session: a source file and an ignored one, two trees of commits;   *)
(* the ignored file is tracked in one of them.                             *)
MCTrees ==
  {source :> blobA @@ generated :> Absent, source :> blobB @@ generated :> blobA}

-------------------------------------------------------------------------------
(* The walks: every program made of a menu of calls, and every kind of     *)
(* query over it.                                                          *)
MCNodes == 1 .. 4

Call(id, src, dst, kind, condition, confidence, member) ==
  [id |-> id, src |-> src, dst |-> dst, kind |-> kind, condition |-> condition,
   confidence |-> confidence, group |-> member, lost |-> "no"]

(* A fork and a cycle, parallel edges, a candidate group of two, a spawn,  *)
(* a self-call, a data flow, and calls of both kinds that left no edge. *)
Menu ==
  {Call(1, 1, 2, "calls", "always", 2, 0),
   Call(2, 1, 2, "calls", "exception", 1, 0),
   Call(3, 1, 3, "calls", "exception", 2, 0),
   Call(4, 2, 3, "calls", "always", 0, 1),
   Call(5, 2, 4, "calls", "always", 0, 1),
   Call(6, 3, 2, "calls", "panic", 1, 0),
   Call(7, 3, 4, "spawns", "always", 2, 0),
   Call(8, 4, 4, "calls", "always", 2, 0),
   Call(11, 1, 4, "derives_from", "always", 2, 0),
   [Call(9, 2, 4, "calls", "always", 2, 0) EXCEPT !.lost = "unresolved"],
   [Call(10, 3, 4, "calls", "always", 2, 0) EXCEPT !.lost = "narrowed"]}

AnyCall == [floor |-> 0, mode |-> "any", condition |-> "always", kinds |-> {}, cap |-> 0]
Sure == [AnyCall EXCEPT !.floor = 1]
Single == [AnyCall EXCEPT !.cap = 1]
Normal == [AnyCall EXCEPT !.mode = "exclude", !.condition = "exception"]
Spelled == [AnyCall EXCEPT !.kinds = {"calls"}]

Flow == [AnyCall EXCEPT !.kinds = {"derives_from"}]

Ask == [op |-> "neighbors", from |-> 1, to |-> 4, roots |-> <<>>, dir |-> "forward",
        filter |-> AnyCall, depth |-> Unbounded, min |-> 1, cap |-> 9, budget |-> 99]

MCQueries ==
  {[Ask EXCEPT !.filter = f, !.depth = d] : f \in {AnyCall, Sure, Single, Normal, Spelled, Flow}, d \in {Unbounded, 2}}
  \cup {[Ask EXCEPT !.from = 4, !.dir = "backward", !.filter = f, !.depth = d] : f \in {AnyCall, Sure}, d \in {Unbounded, 1}}
  \cup {[Ask EXCEPT !.op = op, !.filter = f, !.depth = d] : op \in {"reaches", "paths"}, f \in {AnyCall, Sure, Single}, d \in {Unbounded, 2}}
  \cup {[Ask EXCEPT !.op = "reaches", !.to = 1]}
  \cup {[Ask EXCEPT !.op = "unused", !.roots = rs] : rs \in {<<>>, <<2>>, <<2, 3>>}}
  \cup {[Ask EXCEPT !.op = "unused", !.roots = <<2, 1>>, !.depth = 1]}
  \cup {[Ask EXCEPT !.op = "within", !.from = n, !.min = 2, !.depth = 3] : n \in {1, 2}}
  \cup {[Ask EXCEPT !.op = op, !.cap = 2, !.budget = b] : op \in {"paths", "trails"}, b \in {3, 5, 99}}
  \cup {[Ask EXCEPT !.op = "trails", !.from = n, !.depth = 3] : n \in {1, 4}}

MCPrograms == SUBSET Menu

-------------------------------------------------------------------------------
(* Receivers: lattices of four classes with every choice of who defines m, *)
(* and small programs over two nested functions.                           *)
Lattices ==
  {<<<<>>, <<1>>, <<1>>, <<2, 3>>>>,          \* a diamond
   <<<<>>, <<1>>, <<1>>, <<3, 2>>>>,
   <<<<>>, <<>>, <<1>>, <<3, 2>>>>,           \* a mixin
   <<<<>>, <<>>, <<1, 2>>, <<2, 1>>>>,
   <<<<>>, <<1>>, <<2>>, <<1, 2>>>>,          \* no order for 4
   <<<<Open>>, <<1>>, <<2, Open>>, <<Open>>>>,
   <<<<>>, <<Unknown>>, <<1>>, <<2>>>>,
   <<<<>>, <<Unknown, 1>>, <<1>>, <<2, 3>>>>,
   <<<<>>, <<>>, <<2, Unknown>>, <<3, 1>>>>,
   <<<<>>, <<Unknown>>, <<Unknown, 1>>, <<Open>>>>,
   <<<<Protocol>>, <<1>>, <<>>, <<3>>>>,
   <<<<Metaclass>>, <<1>>, <<>>, <<3>>>>}

NoCode == [lang |-> "python", bases |-> <<>>, own |-> <<>>, attrs |-> <<>>, abstract |-> {},
          params |-> {}, binds |-> {}, fieldBinds |-> {}, attrStores |-> {}, sites |-> <<>>]

Site(is, of, scope, var) == [is |-> is, of |-> of, scope |-> scope, var |-> var]

SitesOfClass(c) ==
  <<Site("self", c, 1, "x"), Site("super", c, 1, "x"), Site("class", {c}, 1, "x"),
    Site("call", {c}, 1, "x")>>

Quirks == {<<"none", 1>>, <<"m", 1>>, <<"m", 2>>, <<"getattr", 1>>, <<"getattr", 3>>,
           <<"getattribute", 1>>, <<"getattribute", 3>>, <<"new", 1>>, <<"new", 2>>}

InitLattice ==
  \E bases \in Lattices, M \in SUBSET (1 .. 4), q \in Quirks :
    ReceiversInit(
      [NoCode EXCEPT
         !.bases = bases,
         !.own = [c \in 1 .. 4 |-> (IF c \in M THEN {"m"} ELSE {})
                    \cup (IF c = q[2] /\ q[1] \in {"getattr", "getattribute", "new"} THEN {q[1]} ELSE {})],
         !.attrs = [c \in 1 .. 4 |-> IF c = q[2] /\ q[1] = "m" THEN {"m"} ELSE {}],
         !.sites = FlattenSeq([c \in 1 .. 4 |-> SitesOfClass(c)])])

Src(is, of) == [is |-> is, of |-> of, var |-> "x"]
Var(v) == [is |-> "var", of |-> {}, var |-> v]
Bind(scope, var, src) == [scope |-> scope, var |-> var, src |-> src]
Store(class, name, src) == [class |-> class, name |-> name, scope |-> 1, src |-> src]
AttrStore(scope, base, name, src) == [scope |-> scope, base |-> base, name |-> name, src |-> src]

Facts ==
  {[to |-> "binds", fact |-> b] : b \in
     {Bind(1, "v", Src("call", {1})), Bind(1, "v", Src("declared", {1})),
      Bind(1, "v", Src("declared", {Open})), Bind(1, "v", Src("literal", {})),
      Bind(1, "v", Src("opaque", {})), Bind(1, "w", Var("v")), Bind(1, "v", Var("w")),
      Bind(2, "v", Var("w")), Bind(2, "v", Src("call", {2, 3})), Bind(2, "w", Src("call", {3})),
      Bind(1, "w", Src("null", {})), Bind(2, "w", Var("z"))}}
  \cup {[to |-> "params", fact |-> Bind(1, "v", Src("declared", {2, Open}))]}
  \cup {[to |-> "fieldBinds", fact |-> b] : b \in
     {Store(1, "f", Var("v")), Store(2, "f", Src("call", {3})), Store(2, "m", Src("opaque", {}))}}
  \cup {[to |-> "attrStores", fact |-> s] : s \in
     {AttrStore(1, Var("v"), "f", Src("call", {3})), AttrStore(1, Var("w"), "f", Src("opaque", {})),
      AttrStore(1, Src("opaque", {}), "f", Src("call", {1})),
      AttrStore(2, Var("v"), "m", Src("opaque", {})), AttrStore(2, Var("z"), "m", Src("opaque", {}))}}

GoFacts ==
  {[to |-> "binds", fact |-> b] : b \in
     {Bind(1, "v", Src("new", {1})), Bind(1, "v", Src("declared", {2})),
      Bind(1, "v", Src("declared", {3})), Bind(1, "v", Src("null", {})),
      Bind(1, "w", Var("v")), Bind(2, "v", Src("opaque", {}))}}
  \cup {[to |-> "params", fact |-> p] : p \in
     {Bind(1, "v", Src("receiver", {1})), Bind(2, "w", Src("declared", {1}))}}

Chosen(known, to) == {x.fact : x \in {x \in known : x.to = to}}

WithFacts(r, known) ==
  [r EXCEPT !.params = Chosen(known, "params"), !.binds = Chosen(known, "binds"),
            !.fieldBinds = Chosen(known, "fieldBinds"), !.attrStores = Chosen(known, "attrStores")]

LocalSites == <<Site("local", {}, 1, "v"), Site("local", {}, 2, "v"), Site("local", {}, 2, "w")>>

InitFlow ==
  \/ \E k \in 1 .. 3 : \E known \in kSubset(k, Facts) :
     \E bases \in {<<<<>>, <<1>>, <<>>>>, <<<<>>, <<Open>>, <<Unknown>>>>} :
     \E M \in {{1, 2}, {2, 3}} :
       ReceiversInit(WithFacts(
         [NoCode EXCEPT !.bases = bases,
                       !.own = [c \in 1 .. 3 |-> IF c \in M THEN {"m"} ELSE {}],
                       !.attrs = [c \in 1 .. 3 |-> {}],
                       !.sites = LocalSites \o <<Site("field", 1, 1, "x"), Site("field", 2, 1, "x"),
                                   Site("self", 1, 1, "x"), Site("class", {3}, 1, "x"),
                                   Site("literal", {}, 1, "x"), Site("subscript", {}, 1, "x")>>], known))
  \/ \E k \in 1 .. 3 : \E known \in kSubset(k, GoFacts) : \E M \in {{1, 2}, {2, 3}} :
       ReceiversInit(WithFacts(
         [NoCode EXCEPT !.lang = "go", !.bases = [c \in 1 .. 3 |-> <<>>], !.abstract = {3},
                       !.own = [c \in 1 .. 3 |-> IF c \in M THEN {"m"} ELSE {}],
                       !.attrs = [c \in 1 .. 3 |-> {}],
                       !.sites = LocalSites], known))

InitReceivers == InitLattice \/ InitFlow

-------------------------------------------------------------------------------
(* The grammars of the languages, as far as the adapters tell their nodes  *)
(* apart, and the leaves: a name or a call.                                *)

(* A slot: a child of category out in role r of a node of kind k, that     *)
(* reads c, where a node of category cat may stand.                        *)
S(cat, k, cs, outs) == {<<cat, [k |-> k, r |-> o[1], c |-> c], o[2]>> : c \in cs, o \in outs}
One(r, out) == {<<r, out>>}
Branches == {<<"condition", "expr">>, <<"consequence", "stmt">>, <<"alternative", "stmt">>}
Body == One("body", "stmt")
Value == One("value", "expr")
AnyText == {"other"}

RustSlots == UNION {
    S("item", "function_item", {"main"}, Body),
    S("item", "function_item", {"other"}, Body \cup One("tail", "expr")),
    S("item", "function_item", {"macro"}, Body),
    S("item", "struct_item", AnyText, Value), S("item", "const_item", AnyText, Value),
    S("item", "trait_item", AnyText, One("body", "member")),
    S("item", "impl_item", {"other", "of_trait"}, One("body", "member")),
    S("member", "function_item", AnyText, Body),
    S("item", "mod_item", AnyText, One("body", "item")),
    S("stmt", "let_declaration", {"name", "pattern"}, Value),
    S("expr", "assignment_expression", AnyText, Value),
    S("expr", "return_expression", AnyText, Value),
    S("expr", "if_expression", AnyText, Branches),
    S("expr", "match_expression", AnyText, {<<"value", "expr">>, <<"arm", "stmt">>,
        <<"err_arm", "stmt">>, <<"guard", "expr">>}),
    S("expr", "for_expression", AnyText, Body \cup Value),
    S("expr", "while_expression", AnyText, Body \cup One("condition", "expr")),
    S("expr", "try_expression", AnyText, One("operand", "expr")),
    S("expr", "await_expression", AnyText, One("operand", "expr")),
    S("expr", "closure_expression", AnyText, Body),
    S("expr", "call_expression", {"plain", "new", "spawn"}, One("arguments", "expr")),
    S("expr", "call_expression", {"method"},
        {<<"arguments", "expr">>, <<"function", "callee">>}),
    S("expr", "call_expression", {"spawn"}, One("function", "name")),
    S("expr", "call_expression", {"computed"},
        {<<"arguments", "expr">>, <<"function", "expr">>}),
    S("callee", "field_expression", AnyText, One("operand", "expr")),
    S("expr", "field_expression", AnyText, One("operand", "expr")),
    S("expr", "binary_expression", AnyText, One("operand", "expr")),
    S("expr", "reference_expression", AnyText, One("operand", "expr")),
    S("expr", "struct_expression", AnyText, One("element", "expr")),
    S("expr", "macro_invocation", {"panic", "other"}, One("tokens", "name"))}

GoSlots == UNION {
    S("item", "function_declaration", {"main", "other"}, Body),
    S("item", "method_declaration", AnyText, Body),
    S("item", "var_declaration", AnyText, Value), S("item", "type_declaration", AnyText, Value),
    S("stmt", "var_declaration", AnyText, Value),
    S("stmt", "short_var_declaration", {"name", "many"}, Value),
    S("stmt", "assignment_statement", {"name", "field"}, Value),
    S("stmt", "return_statement", AnyText, Value), S("stmt", "send_statement", AnyText, Value),
    S("stmt", "go_statement", AnyText, One("operand", "call")),
    S("stmt", "defer_statement", AnyText, One("operand", "call")),
    S("stmt", "if_statement", {"err", "other"}, {<<"consequence", "stmt">>}),
    S("stmt", "if_statement", AnyText, Branches \cup One("initializer", "stmt")),
    S("stmt", "for_statement", AnyText, Body \cup One("condition", "expr")),
    S("stmt", "expression_switch_statement", AnyText,
        {<<"case", "stmt">>, <<"value", "expr">>}),
    S("expr", "func_literal", AnyText, Body),
    S("call", "call_expression", {"plain", "reflect"}, One("arguments", "expr")),
    S("call", "call_expression", {"method"},
        {<<"arguments", "expr">>, <<"function", "callee">>}),
    S("call", "call_expression", {"literal"}, One("function", "literal")),
    S("literal", "func_literal", AnyText, Body),
    S("callee", "selector_expression", AnyText, One("operand", "expr")),
    S("expr", "selector_expression", AnyText, One("operand", "expr")),
    S("expr", "binary_expression", AnyText, One("operand", "expr")),
    S("expr", "parenthesized_expression", AnyText, One("operand", "expr")),
    S("expr", "index_expression", AnyText, One("index", "expr")),
    S("expr", "composite_literal", AnyText, One("element", "expr"))}

CSlots == UNION {
    S("item", "function_definition", {"main", "other"}, Body),
    S("item", "declaration", {"data"}, Value), S("stmt", "declaration", {"data"}, Value),
    S("item", "enum_specifier", AnyText, Value), S("item", "preproc_def", AnyText, Value),
    S("item", "preproc_if", AnyText, One("body", "item")),
    S("stmt", "preproc_if", AnyText, Body),
    S("stmt", "if_statement", AnyText, Branches),
    S("stmt", "for_statement", AnyText, Body \cup One("condition", "expr")),
    S("stmt", "while_statement", AnyText, Body),
    S("stmt", "switch_statement", AnyText, Body \cup One("condition", "expr")),
    S("expr", "conditional_expression", AnyText, Branches),
    S("expr", "binary_expression", AnyText, One("operand", "expr")),
    S("expr", "call_expression", {"plain", "macro", "pointer"}, One("arguments", "expr")),
    S("expr", "call_expression", {"computed"},
        {<<"arguments", "expr">>, <<"function", "expr">>})}

CppSlots == UNION {
    S("item", "namespace_definition", {"named", "anonymous"}, One("body", "item")),
    S("item", "class_specifier", {"derived", "other"}, One("body", "member")),
    S("item", "template_declaration", AnyText, One("declaration", "item")),
    S("item", "function_definition", {"main", "other", "qualified"}, Body),
    S("member", "function_definition", AnyText, Body \cup One("initializers", "expr")),
    S("member", "declaration", {"data"}, Value \cup One("type", "type")),
    S("item", "declaration", {"data"}, Value \cup One("type", "type")),
    S("stmt", "declaration", {"data"}, Value \cup One("type", "type")),
    S("type", "class_specifier", {"anonymous", "other"}, One("body", "member")),
    S("item", "enum_specifier", AnyText, Value),
    S("item", "type_definition", AnyText, One("type", "type")),
    S("stmt", "if_statement", AnyText, Branches),
    S("stmt", "for_statement", AnyText, Body \cup One("condition", "expr")),
    S("stmt", "switch_statement", AnyText, {<<"case", "stmt">>, <<"condition", "expr">>}),
    S("stmt", "try_statement", AnyText, Body \cup One("except", "stmt")),
    S("stmt", "return_statement", AnyText, Value),
    S("expr", "lambda_expression", AnyText, Body),
    S("expr", "conditional_expression", AnyText, One("consequence", "expr")),
    S("expr", "call_expression", {"plain", "macro"}, One("arguments", "expr")),
    S("expr", "call_expression", {"method"},
        {<<"arguments", "expr">>, <<"function", "expr">>}),
    S("expr", "call_expression", {"literal"}, One("function", "literal")),
    S("literal", "lambda_expression", AnyText, Body),
    S("expr", "new_expression", AnyText, One("arguments", "expr"))}

JavaSlots == UNION {
    S("item", "class_declaration", {"derived", "other"}, One("body", "member")),
    S("item", "interface_declaration", {"derived"}, One("body", "member")),
    S("member", "method_declaration", {"main", "synchronized", "other"}, Body),
    S("member", "constructor_declaration", AnyText, Body),
    S("member", "field_declaration", AnyText, Value),
    S("member", "enum_constant", AnyText, Value),
    S("member", "static_initializer", AnyText, Body),
    S("stmt", "class_declaration", AnyText, One("body", "member")),
    S("stmt", "local_variable_declaration", AnyText, Value),
    S("expr", "assignment_expression", {"name", "field"}, Value),
    S("stmt", "return_statement", AnyText, Value),
    S("stmt", "if_statement", AnyText, Branches),
    S("stmt", "while_statement", AnyText, Body \cup One("condition", "expr")),
    S("stmt", "enhanced_for_statement", AnyText, Body \cup Value),
    S("stmt", "switch_expression", AnyText, {<<"case", "stmt">>, <<"condition", "expr">>}),
    S("stmt", "try_statement", AnyText,
        {<<"resources", "stmt">>, <<"except", "stmt">>, <<"finally", "stmt">>} \cup Body),
    S("stmt", "synchronized_statement", AnyText, Body \cup Value),
    S("expr", "ternary_expression", AnyText,
        {<<"condition", "expr">>, <<"consequence", "expr">>}),
    S("expr", "lambda_expression", AnyText, Body),
    S("expr", "method_invocation", {"plain", "reflect"}, One("arguments", "expr")),
    S("expr", "method_invocation", {"method"}, One("function", "expr")),
    S("expr", "object_creation_expression", AnyText,
        {<<"arguments", "expr">>, <<"class_body", "member">>}),
    S("expr", "field_access", AnyText, One("operand", "expr")),
    S("expr", "binary_expression", AnyText, One("operand", "expr")),
    S("expr", "parenthesized_expression", AnyText, One("operand", "expr"))}

PythonSlots == UNION {
    S("stmt", "function_definition", {"main", "test", "other"}, Body),
    S("stmt", "function_definition", {"other"}, One("parameters", "expr")),
    S("stmt", "class_definition", {"test", "other"}, Body),
    S("stmt", "class_definition", {"derived"}, One("superclasses", "expr")),
    S("stmt", "decorated_definition", {"abstract", "other"}, One("definition", "def")),
    S("stmt", "decorated_definition", {"other"}, One("decorator", "expr")),
    S("def", "function_definition", AnyText, Body),
    S("stmt", "assignment", {"name", "field"}, Value),
    S("value", "assignment", {"name"}, Value),
    S("stmt", "augmented_assignment", AnyText, Value),
    S("stmt", "return_statement", AnyText, Value),
    S("stmt", "with_statement", {"lock"}, Body \cup One("item", "expr")),
    S("stmt", "if_statement", {"main_guard"}, One("consequence", "stmt")),
    S("stmt", "if_statement", AnyText, Branches),
    S("stmt", "match_statement", AnyText, {<<"subject", "expr">>, <<"case", "stmt">>}),
    S("stmt", "while_statement", AnyText, Body \cup One("condition", "expr")),
    S("stmt", "try_statement", AnyText, {<<"except", "stmt">>, <<"except_group", "stmt">>,
        <<"finally", "stmt">>, <<"else", "stmt">>} \cup Body),
    S("expr", "conditional_expression", AnyText, {<<"condition", "expr">>, <<"consequence", "expr">>}),
    S("expr", "named_expression", AnyText, Value),
    S("expr", "lambda", AnyText, One("body", "expr")),
    S("expr", "await", AnyText, One("operand", "expr")),
    S("expr", "call", {"plain", "class", "dynamic", "spawn"}, One("arguments", "expr")),
    S("expr", "call", {"chained"}, One("function", "call")),
    S("expr", "call", {"deep"}, One("function", "subscript")),
    S("expr", "call", {"computed"}, {<<"function", "call">>, <<"arguments", "expr">>}),
    S("call", "call", {"method"}, One("arguments", "expr")),
    S("subscript", "subscript", AnyText, One("index", "expr")),
    S("expr", "attribute", AnyText, One("operand", "expr")),
    S("expr", "subscript", AnyText, One("index", "expr")),
    S("expr", "binary_operator", AnyText, One("operand", "expr")),
    S("expr", "parenthesized_expression", AnyText, One("operand", "expr")),
    S("expr", "list", AnyText, One("element", "expr"))}

TsSlots == UNION {
    S("stmt", "function_declaration", {"main", "other"}, Body),
    S("item", "export_statement", AnyText, One("declaration", "stmt") \cup Value),
    S("stmt", "class_declaration", AnyText,
        {<<"body", "member">>, <<"heritage", "expr">>, <<"static_block", "stmt">>}),
    S("member", "method_definition", AnyText, Body),
    S("member", "field_definition", AnyText, Value),
    S("item", "interface_declaration", AnyText, One("value", "name")),
    S("stmt", "lexical_declaration", AnyText, Value),
    S("expr", "arrow_function", AnyText, Body \cup One("expression", "expr")),
    S("item", "assignment_expression", {"exports"}, Value),
    S("expr", "assignment_expression", {"name", "field"}, Value),
    S("expr", "augmented_assignment_expression", AnyText, Value),
    S("stmt", "return_statement", AnyText, Value),
    S("stmt", "throw_statement", AnyText, One("operand", "expr")),
    S("stmt", "if_statement", {"block"}, Branches),
    S("stmt", "if_statement", {"unbraced"}, One("consequence", "stmt")),
    S("stmt", "switch_statement", AnyText, {<<"case", "stmt">>, <<"value", "expr">>}),
    S("stmt", "while_statement", AnyText, Body \cup One("condition", "expr")),
    S("stmt", "try_statement", AnyText, {<<"except", "stmt">>, <<"finally", "stmt">>} \cup Body),
    S("expr", "ternary_expression", AnyText, {<<"condition", "expr">>, <<"consequence", "expr">>}),
    S("expr", "call_expression", {"plain", "test", "loop", "eval", "import"},
        One("arguments", "expr")),
    S("expr", "call_expression", {"chained"}, One("function", "call")),
    S("expr", "call_expression", {"deep"}, One("function", "access")),
    S("expr", "call_expression", {"computed"},
        {<<"function", "call">>, <<"arguments", "expr">>}),
    S("call", "call_expression", {"method"}, One("arguments", "expr")),
    S("expr", "new_expression", {"other", "eval"}, One("arguments", "expr")),
    S("expr", "await_expression", AnyText, One("operand", "expr")),
    S("expr", "member_expression", AnyText, One("operand", "expr")),
    S("access", "member_expression", AnyText, One("operand", "call")),
    S("expr", "binary_expression", AnyText, One("operand", "expr")),
    S("expr", "parenthesized_expression", AnyText, One("operand", "expr")),
    S("expr", "array", AnyText, One("element", "expr"))}

FallbackSlots == UNION {
    S("stmt", "function_definition", {"other", "unnamed"}, Body),
    S("stmt", "method_definition", AnyText, Body), S("stmt", "class_definition", AnyText, Body),
    S("stmt", "namespace_definition", AnyText, Body),
    S("stmt", "if_statement", AnyText, Body), S("stmt", "assignment", AnyText, Value),
    S("expr", "struct_expression", AnyText, One("element", "expr")),
    S("expr", "call", {"other", "unnamed"}, One("arguments", "expr")),
    S("expr", "method_invocation", AnyText, One("arguments", "expr")),
    S("expr", "function_call", AnyText, One("arguments", "expr"))}

AllSlots == [fallback |-> FallbackSlots, rust |-> RustSlots, go |-> GoSlots,
          c |-> CSlots, cpp |-> CppSlots, java |-> JavaSlots,
          python |-> PythonSlots, typescript |-> TsSlots]

-----------------------------------------------------------------------------
(* What may stand where a category is asked for.                           *)
Accepted(cat) ==
    CASE cat = "item" -> {"item", "stmt", "expr", "call"}
      [] cat = "stmt" -> {"stmt", "item", "expr", "call"}
      [] cat = "expr" -> {"expr", "call"}
      [] OTHER -> {cat}

(* At the top of a file of these languages there are only declarations.    *)
TopOnly == {"rust", "go", "c", "cpp", "java"}
Standing(l, cat) ==
    IF l \in TopOnly /\ cat = "item" THEN {"item"}
    ELSE IF l \in {"c", "cpp", "java", "go", "typescript"} /\ cat = "stmt"
    THEN {"stmt", "expr", "call"} ELSE Accepted(cat)

CallKind(l) == CASE l = "java" -> "method_invocation" [] l = "python" -> "call"
                 [] OTHER -> "call_expression"
Leaf(k) == [k |-> k, r |-> "leaf", c |-> "plain"]
MCLeaves(l, cat) ==
    LET cats == Standing(l, cat)
    IN  (IF cats \cap {"expr", "name"} # {} THEN {Leaf("identifier")} ELSE {}) \cup
        (IF cats \cap {"expr", "call"} # {} THEN {Leaf(CallKind(l))} ELSE {})

(* In the deepest paths the node farthest from the leaf is a type.         *)
IsDeep(node) ==
    /\ node.k \in Types \cup {"decorated_definition", "impl_item", "object_creation_expression"}
    /\ node.r \in {"body", "definition", "class_body"}
    /\ node.c \in {"other", "abstract"}

MCSlots(l, cat, n) ==
    {<<s[2], s[3]>> : s \in {t \in AllSlots[l] :
        t[1] \in Standing(l, cat) /\ (n > Whole => IsDeep(t[2]))}}

MCLanguages == DOMAIN AllSlots

-------------------------------------------------------------------------------
(* The components that are off, and one that is not. *)
WalkOff ==
  /\ pc = "off" /\ program = {} /\ query = Ask /\ frontier = <<>> /\ seen = {}
  /\ found = {} /\ weakest = <<>> /\ roots = <<>> /\ used = {} /\ trail = <<>>
  /\ todo = <<>> /\ marked = {} /\ paths = <<>> /\ truncation = "none"
  /\ steps = 0

ReceiversOff ==
  /\ phase = "off" /\ repo = NoCode /\ flow = <<>> /\ fields = <<>>
  /\ attrs = <<>> /\ foreign = {} /\ answers = <<>> /\ ledger = <<>>

SummariesOff ==
  /\ progress = "off" /\ code = <<>> /\ unread = <<>> /\ current = <<>>
  /\ values = {} /\ inside = <<>> /\ summaries = <<>> /\ group = {} /\ turn = 0
  /\ grew = FALSE /\ spent = <<>> /\ overruns = 0 /\ applied = <<>>
  /\ prior = <<>>

SessionOff ==
  /\ stage = "off" /\ gitHead = NoFiles /\ work = NoFiles /\ index = NoFiles
  /\ stored = <<>> /\ left = {} /\ call = NoCall
  /\ quiet = FALSE /\ mixed = FALSE /\ swept = FALSE
  /\ earlier = NoAnswer /\ moves = 0

ExtractOff ==
  /\ pass = "off" /\ lang = "rust" /\ path = <<>> /\ at = 1 /\ ctx = RootCtx
  /\ frames = <<>> /\ facts = NoFacts

CqlOff ==
  /\ links = {} /\ asking = <<>> /\ doing = "off" /\ part = 1 /\ clause = 1
  /\ stream = <<>> /\ cut = "none" /\ table = NoTable

ChangesOff ==
  /\ disk = <<>> /\ tip = "c0" /\ demand = [op |-> "none"] /\ progressed = "off"
  /\ ends = <<>> /\ before = NoSide /\ after = NoSide /\ graphs = {}
  /\ firstRead = NoGraph /\ reply = NoReply /\ stirs = {}

AnalysesInit ==
  \/ WalkInit /\ ReceiversOff /\ SummariesOff /\ SessionOff /\ ExtractOff
     /\ CqlOff /\ ChangesOff /\ CouplingOff
  \/ WalkOff /\ InitReceivers /\ SummariesOff /\ SessionOff /\ ExtractOff
     /\ CqlOff /\ ChangesOff /\ CouplingOff
  \/ WalkOff /\ ReceiversOff /\ InitSummaries /\ SessionOff /\ ExtractOff
     /\ CqlOff /\ ChangesOff /\ CouplingOff
  \/ WalkOff /\ ReceiversOff /\ SummariesOff /\ SessionInit /\ ExtractOff
     /\ CqlOff /\ ChangesOff /\ CouplingOff
  \/ WalkOff /\ ReceiversOff /\ SummariesOff /\ SessionOff /\ ExtractInit
     /\ CqlOff /\ ChangesOff /\ CouplingOff
  \/ WalkOff /\ ReceiversOff /\ SummariesOff /\ SessionOff /\ ExtractOff
     /\ CqlInit /\ ChangesOff /\ CouplingOff
  \/ WalkOff /\ ReceiversOff /\ SummariesOff /\ SessionOff /\ ExtractOff
     /\ CqlOff /\ ChangesInit /\ CouplingOff
  \/ WalkOff /\ ReceiversOff /\ SummariesOff /\ SessionOff /\ ExtractOff
     /\ CqlOff /\ ChangesOff /\ CouplingInit

AnalysesNext ==
  \/ /\ pc # "off" /\ WalkNext
     /\ UNCHANGED <<receiverVars, summaryVars, sessionVars, walkVars,
                    cqlVars, changeVars, couplingVars>>
  \/ /\ phase # "off" /\ ReceiversNext
     /\ UNCHANGED <<pathVars, summaryVars, sessionVars, walkVars,
                    cqlVars, changeVars, couplingVars>>
  \/ /\ progress # "off" /\ SummariesNext
     /\ UNCHANGED <<pathVars, receiverVars, sessionVars, walkVars,
                    cqlVars, changeVars, couplingVars>>
  \/ /\ stage # "off" /\ SessionNext
     /\ UNCHANGED <<pathVars, receiverVars, summaryVars, walkVars,
                    cqlVars, changeVars, couplingVars>>
  \/ /\ pass # "off" /\ ExtractNext
     /\ UNCHANGED <<pathVars, receiverVars, summaryVars, sessionVars,
                    cqlVars, changeVars, couplingVars>>
  \/ /\ doing # "off" /\ CqlNext
     /\ UNCHANGED <<pathVars, receiverVars, summaryVars, sessionVars,
                    walkVars, changeVars, couplingVars>>
  \/ /\ progressed # "off" /\ ChangesNext
     /\ UNCHANGED <<pathVars, receiverVars, summaryVars, sessionVars,
                    walkVars, cqlVars, couplingVars>>
  \/ /\ counting # "off" /\ CouplingNext
     /\ UNCHANGED <<pathVars, receiverVars, summaryVars, sessionVars,
                    walkVars, cqlVars, changeVars>>

AnalysesSpec ==
  AnalysesInit
    /\ [][AnalysesNext]_<<pathVars, receiverVars, summaryVars, sessionVars, walkVars, cqlVars,
                          changeVars, couplingVars>>
==============================================================================
