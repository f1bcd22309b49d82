----------------------------- MODULE Extraction -----------------------------
(***************************************************************************)
(* The adapters over every tree of their grammars, and what holds of the   *)
(* facts they leave, whatever the language: the properties are stated on   *)
(* the path alone, with what each adapter is known to leave out named in   *)
(* one table (Unwalked), and not with the context the walk carried.        *)
(***************************************************************************)
EXTENDS SyntaxWalk

CONSTANTS
    Languages,          \* those whose trees are walked
    Depths,             \* the numbers of nodes paths are grown to
    Slots(_, _, _),     \* <<node, category of its child>> where, in a language,
                        \* a category is asked for, so many nodes from the leaf
    Leaves(_, _)        \* the nodes without a child that may stand there

Rust == INSTANCE ExtractRust
Go == INSTANCE ExtractGo
C == INSTANCE ExtractC
Cpp == INSTANCE ExtractCpp
Java == INSTANCE ExtractJava
Python == INSTANCE ExtractPython
Ts == INSTANCE ExtractTs
-----------------------------------------------------------------------------
(* fallback.rs, the adapter of every language that has none: it knows no   *)
(* grammar, and tells definitions and calls by the words in the kinds of   *)
(* the nodes.  c is "unnamed" when neither a name nor an identifier is     *)
(* found in the node.                                                      *)

(* classify_def: a kind is a definition as soon as it has one of the words *)
(* in it, method before function, those of calls too.                      *)
MethodKinds == {"method_definition", "method_invocation"}
FunctionKinds == {"function_definition", "function_call"}
TypeKinds == {"class_definition", "struct_expression"}
ModuleKinds == {"namespace_definition"}
FallbackScopes == MethodKinds \cup FunctionKinds \cup TypeKinds \cup ModuleKinds

DefKind(k) == CASE k \in MethodKinds -> "method" [] k \in FunctionKinds -> "function"
                [] k \in TypeKinds -> "type" [] OTHER -> "module"

(* record_def: whatever has a name opens a scope; what has none is left    *)
(* out, and what is in it belongs to the scope around it.                  *)
RecordDef ==
    /\ IsAt(FallbackScopes)
    /\ IF Reads = "unnamed" THEN UNCHANGED <<facts, ctx>>
       ELSE /\ facts' = Add(facts, "defs", {ADef(Named, DefKind(Kind))})
            /\ ctx' = EnterBody(Named, Push(Named))
    /\ at' = at + 1
    /\ Keep

(* is_call, record_call: of the kinds of calls, those that are not also    *)
(* taken for a definition; no guard is told apart.                         *)
RecordCall ==
    /\ IsAt({"call", "call_expression"})
    /\ facts' = IF Reads = "unnamed" THEN facts
                ELSE Add(facts, "refs", {ARef("call", "always", "none")})
    /\ at' = at + 1
    /\ UNCHANGED ctx /\ Keep

FallbackChildren == Through({"if_statement", "assignment", "identifier"})

FallbackNext ==
    /\ lang = "fallback"
    /\ RecordDef \/ RecordCall \/ FallbackChildren

-----------------------------------------------------------------------------
(* Any tree of the grammar; the language of the file chooses its adapter.  *)
RECURSIVE Tree(_, _, _, _)
Tree(l, category, above, n) ==
    \/ \E leaf \in Leaves(l, category) : StartWalk(l, Append(above, leaf))
    \/ /\ n > 1
       /\ \E s \in Slots(l, category, n) : Tree(l, s[2], Append(above, s[1]), n - 1)

ExtractInit == \E l \in Languages, n \in Depths : Tree(l, "item", <<>>, n)

ExtractNext ==
    \/ Rust!RustNext \/ Go!GoNext \/ C!CNext \/ Cpp!CppNext
    \/ Java!JavaNext \/ Python!PythonNext \/ Ts!TsNext \/ FallbackNext
    \/ Finish

ExtractSpec == ExtractInit /\ [][ExtractNext]_walkVars

-----------------------------------------------------------------------------
(* What the path itself says.                                              *)

Functions == {"function_item", "function_declaration", "method_declaration",
    "function_definition", "constructor_declaration", "method_definition"}
Closures == {"closure_expression", "func_literal"}
Calls == {"call_expression", "method_invocation", "call",
    "object_creation_expression", "new_expression"}
Types == {"class_declaration", "class_definition", "class_specifier",
    "interface_declaration"}

(* The body of a function, or of an arrow function with a name.            *)
IsNamedArrow(i) == path[i].k = "lexical_declaration" /\ path[i].r = "value"
                   /\ path[i + 1].k \in {"arrow_function", "function_expression"}
IsExportedArrow(i) == i = 1 /\ path[1].c = "exports"
                      /\ path[2].k \in {"arrow_function", "function_expression"}
IsFunction(i) ==
    /\ path[i].k \in Functions \/ IsNamedArrow(i) \/ IsExportedArrow(i)
    /\ path[i].c # "unnamed"
IsOwner(i) ==
    \/ IsFunction(i)
    \/ path[i].k \in Types /\ path[i].c \notin {"anonymous", "unnamed"}
    \/ lang = "fallback" /\ path[i].k \in FallbackScopes /\ path[i].c # "unnamed"

(* The innermost function, function or type, and whatever has a scope,     *)
(* around a node; 0 when there is none.                                    *)
LastOf(S) == IF S = {} THEN 0 ELSE CHOOSE i \in S : \A j \in S : j <= i
FunctionOf(i) == LastOf({j \in 1 .. i - 1 : IsFunction(j)})
OwnerOf(i) == LastOf({j \in 1 .. i - 1 : IsOwner(j)})
ScopeOf(i) == LastOf({j \in 1 .. i - 1 : IsOwner(j) \/ path[j].k \in Closures})

(* In TypeScript the body of an arrow function with a name that is an      *)
(* expression is not handled, nor what it is directly made of, but for     *)
(* the parts of a call.                                                    *)
IsSkipped(i) ==
    /\ lang = "typescript"
    /\ \E a \in {i - 2, i - 3} \cap 1 .. i :
          /\ IsNamedArrow(a) /\ path[a + 1].r = "expression"
          /\ a = i - 3 => /\ path[a + 2].k \notin {"arrow_function"}
                         /\ path[a + 2].r \notin {"arguments", "function"}

(* The label a construct puts on what is in it (GM-3.1).                   *)
Guard(i) ==
    LET n == path[i]
    IN  CASE IsSkipped(i) \/ lang = "fallback" -> "always"
          [] n.r \in {"arm", "case"} -> "conditional"
          [] n.r \in {"err_arm", "except"} -> "exception"
          [] n.k \in {"if_statement", "if_expression", "ternary_expression"}
             /\ n.r \in {"consequence", "alternative"} ->
                IF n.c = "err" THEN "exception" ELSE "conditional"
          [] n.k = "conditional_expression" /\ lang = "python" -> "conditional"
          [] n.k = "switch_statement" /\ n.r = "body" -> "conditional"
          [] n.k \in {"for_expression", "while_expression", "for_statement",
                      "while_statement", "enhanced_for_statement"}
             /\ n.r = "body" -> "loop"
          [] n.c = "loop" /\ n.r = "arguments"
             /\ (i > 1 => path[i - 1].k # "await_expression") -> "loop"
          [] OTHER -> "always"

(* GM-3.2: the strongest label of the constructs from a function's body,   *)
(* given as the position after the function, down to the node.             *)
Guarded(from, i) == Resolve({Guard(j) : j \in from + 1 .. i - 1})

(* Where calls are known to be left out: what each adapter does not walk.  *)
Unwalked == [rust |-> {<<"const_item", "value">>, <<"struct_item", "value">>,
                       <<"match_expression", "guard">>, <<"macro_invocation", "tokens">>},
    go |-> {<<"var_declaration", "value">>, <<"type_declaration", "value">>},
    c |-> {<<"enum_specifier", "value">>, <<"preproc_def", "value">>},
    cpp |-> {<<"function_definition", "initializers">>, <<"enum_specifier", "value">>,
             <<"alias_declaration", "value">>},
    java |-> {<<"field_declaration", "value">>, <<"enum_constant", "value">>},
    python |-> {<<"function_definition", "parameters">>,
                <<"class_definition", "superclasses">>,
                <<"decorated_definition", "decorator">>,
                <<"try_statement", "except_group">>},
    typescript |-> {<<"export_statement", "value">>, <<"class_declaration", "heritage">>,
                <<"class_declaration", "static_block">>, <<"field_definition", "value">>,
                <<"switch_statement", "value">>, <<"for_statement", "condition">>,
                <<"while_statement", "condition">>, <<"new_expression", "function">>},
    fallback |-> {}]

(* A call recorded by what it is the operand of, which then walks its      *)
(* arguments only: a spawn so recorded is not handled as one.              *)
RECURSIVE IsTaken(_)
IsTaken(i) ==
    /\ i > 1 /\ path[i].k \in Calls
    /\ \/ path[i - 1].k \in {"await_expression", "await", "go_statement",
                             "defer_statement"}
       \/ lang = "rust" /\ path[i - 1].c = "spawn" /\ ~IsTaken(i - 1)

(* The callee of a call that is awaited, spawned or deferred; in Python    *)
(* and TypeScript also a callee that is not the call of a method of what a *)
(* call returned; of an import, the arguments too.                         *)
CalleeLost(i) ==
    /\ path[i].k \in Calls /\ path[i].r = "function" /\ ~IsSkipped(i)
    /\ \/ IsTaken(i)
       \/ path[i].c = "spawn"
       \/ lang = "python" /\ path[i].c \notin {"chained", "computed"}
       \/ lang = "typescript" /\ path[i].c # "chained"

(* TypeScript: a statement at the top of the file, what is in an import,   *)
(* and an unbraced branch that is a statement with a body.                 *)
TsStatements == {"if_statement", "for_statement", "while_statement",
                 "switch_statement", "try_statement"}
TsLost(i) ==
    \/ i = 1 /\ path[1].k \in TsStatements \cup {"throw_statement"}
    \/ path[i].k = "call_expression" /\ path[i].c = "import" /\ ~IsSkipped(i)
    \/ path[i].c = "unbraced" /\ path[i].r = "consequence"
       /\ path[i + 1].k \in TsStatements

Reached(i) ==
    /\ \A j \in 1 .. i - 1 :
          /\ <<path[j].k, path[j].r>> \notin Unwalked[lang]
          /\ ~CalleeLost(j)
          /\ ~(lang = "cpp" /\ path[j].k = "declaration" /\ path[j].r = "value"
               /\ j > 1 /\ path[j - 1].k = "class_specifier"
               /\ path[j - 1].c # "anonymous")
          /\ ~(lang = "typescript" /\ TsLost(j))
    /\ ~IsSkipped(i)

(* A callee without a name (in Rust one in parentheses), a macro, and in   *)
(* Rust a spawn, unless it is itself spawned, awaited or tried.            *)
HasNoName(i) ==
    CASE lang = "rust" ->
            \/ path[i].c = "computed"
            \/ path[i].c = "spawn" /\ ~IsTaken(i)
               /\ (i > 1 => path[i - 1].k # "try_expression")
      [] lang = "go" -> FALSE
      [] lang = "c" -> path[i].c = "macro"
      [] lang = "fallback" -> path[i].c = "unnamed" \/ path[i].k = "method_invocation"
      [] OTHER -> path[i].c \in {"macro", "computed", "literal"}

CallsOnPath == {i \in 1 .. Len(path) :
                  path[i].k \in Calls /\ Reached(i) /\ ~HasNoName(i)}
CallRefs == {r \in facts.refs : path[r.at].k \in Calls}

-----------------------------------------------------------------------------

(* The label of a call is the strongest of the constructs around it, up to *)
(* the body of the nearest function or type with a name: those around a    *)
(* closure count for the calls in it, and in TypeScript, where nothing     *)
(* empties the stack, those around a function or a type do.  A finally     *)
(* only adds "always" to them (GM-3.2): what is around it still counts,    *)
(* where the comment of walk_try_stmt would have it overridden.            *)
LabelsAreOfTheChain ==
    Done => \A r \in CallRefs :
       LET from == IF lang = "typescript" THEN 0 ELSE OwnerOf(r.at)
       IN  \/ r.cond = Guarded(from, r.at)
           \/ /\ lang = "rust" /\ r.cond = "exception"     \* the way of failure
              /\ \E j \in 1 .. r.at - 1 : path[j].k = "try_expression"

(* Every call of a file, however deep and in whatever it is nested, is     *)
(* recorded, in the scope of the innermost function or closure around it,  *)
(* except in the places Unwalked and the operators above name; nothing     *)
(* else is recorded as a call, and no call twice: only Rust records a      *)
(* spawned or tried one again, as a reference of its own kind or label.    *)
(* And its label is that of its place (LabelsAreOfTheChain).               *)
CallsAreSeenWhereTheyStand ==
    /\ LabelsAreOfTheChain
    /\ Done =>
       /\ {r.at : r \in CallRefs} = CallsOnPath
       /\ \A r, s \in CallRefs :
             r.at = s.at /\ r # s => /\ lang = "rust"
                                     /\ \/ r.kind = "spawn" \/ s.kind = "spawn"
                                        \/ r.cond = "exception" \/ s.cond = "exception"
       /\ \A r \in CallRefs :
             ScopeOf(r.at) # 0 =>
                /\ r.scope # <<>>
                /\ LET owner == r.scope[Len(r.scope)]
                   IN  owner[Len(owner)] = ScopeOf(r.at)

(* An effect is credited to a definition of the file, the nearest function *)
(* around it, and there is none for a call that is not recorded (but a     *)
(* spawn, and in Rust a callee without a name, whose text is read all the  *)
(* same): the closure over callees would otherwise lose it or invent one.  *)
(* A flow is recorded under the function its assignment is in, in the      *)
(* languages whose second pass stays out of nested definitions.            *)
FactsAreOfTheirFunction ==
    Done =>
       /\ \A e \in facts.effects :
             /\ OwnerOf(e.at) # 0 => e.owner[Len(e.owner)] \in {OwnerOf(e.at), e.at}
             /\ e.owner # <<>> => \/ e.owner \in {d.fqn : d \in facts.defs}
                                  \/ path[e.owner[Len(e.owner)]].k = "impl_item"
             /\ e.what = "call" => \/ e.at \in {r.at : r \in facts.refs}
                                   \/ path[e.at].c = "spawn"
                                   \/ lang = "rust" /\ path[e.at].c = "computed"
       /\ lang \in {"go", "python", "typescript"} => \A f \in facts.flows :
             f.fn[Len(f.fn)] = FunctionOf(f.to)

-----------------------------------------------------------------------------
(* Data flow.  What is between an assignment and a name in its value.      *)

Fields == {"field_expression", "selector_expression", "attribute",
    "field_access", "member_expression"}
Operators == {"binary_expression", "binary_operator", "reference_expression",
    "parenthesized_expression"}

IsChain(i) ==           \* below a field only fields
    /\ path[Len(path)].k = "identifier"
    /\ \A j \in i + 1 .. Len(path) - 1 :
          /\ path[j].k \in Fields \cup Operators /\ path[j].r = "operand"
          /\ path[j].k \in Fields => path[j + 1].k \in Fields \cup {"identifier"}

(* The assignments the second pass comes to: those of a body, with nothing *)
(* it does not enter in between.                                           *)
Assigns == {"let_declaration", "assignment_expression", "return_expression",
    "short_var_declaration", "assignment_statement", "return_statement",
    "assignment", "local_variable_declaration"}
Entered == Assigns \cup {"if_expression", "for_expression", "match_expression",
    "if_statement", "for_statement", "while_statement", "try_statement",
    "with_statement"}

IsBodyAssignment(i) ==
    /\ path[i].k \in Assigns /\ path[i].c \notin {"pattern", "many", "field", "exports"}
    /\ FunctionOf(i) # 0 /\ Reached(i) /\ lang \notin {"c", "cpp", "fallback"}
    /\ path[FunctionOf(i)].r = "body"
    /\ \A j \in FunctionOf(i) + 1 .. i - 1 :
          /\ path[j].k \in Entered \ {"assignment"}
          /\ path[j].r \in {"body", "consequence", "alternative", "arm", "case"}

(* No value derives from what a call does to it without a mark: a source   *)
(* recorded across a call is kept with the mark of the call, or is the     *)
(* argument it was given.  The name an assignment reads through operators, *)
(* parentheses and fields only is a source of it, and a value that is a    *)
(* call is marked, under whatever guards, in whatever function it is.  And *)
(* flows and effects are those of their function (FactsAreOfTheirFunction).*)
FlowsFollowTheValues ==
    /\ FactsAreOfTheirFunction
    /\ Done =>
       /\ \A f \in facts.flows :
             f.how = "source" => \A i \in f.to + 1 .. Len(path) : path[i].k \notin Calls
       /\ \A i \in 1 .. Len(path) - 1 :
             IsBodyAssignment(i) =>
                /\ IsChain(i) => \E f \in facts.flows : f.to = i /\ f.how = "source"
                /\ path[i + 1].k \in Calls =>
                      \E f \in facts.flows : f.to = i /\ f.cut = "opaque"

=============================================================================
