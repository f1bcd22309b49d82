------------------------------- MODULE Receivers -------------------------------
(***************************************************************************)
(* Receiver narrowing (cgx-resolve/src/receiver): what a method call x.m() *)
(* may lead to when the kind of its receiver is known.  The class lattice  *)
(* with its unresolvable bases, the typing of locals and instance fields,  *)
(* the lookups of m, and the counts of what was narrowed away.             *)
(*                                                                         *)
(* A repository is a record.  Its classes are numbered, bases first;       *)
(* bases[c] lists the bases of c as written, each a class or one of        *)
(*   Open      a class of another repository,                              *)
(*   Unknown   a name nobody can resolve,                                  *)
(*   Protocol, Metaclass   the classes of that role, also out of the       *)
(*             repository.                                                 *)
(* own[c] and attrs[c] are the names among m, f, "new", "getattr" and      *)
(* "getattribute" that c defines as methods and as anything else.          *)
(*                                                                         *)
(* Facts of two nested functions 1 and 2: params and binds [scope, var,    *)
(* src], fieldBinds [class, name, scope, src] and attrStores [scope, base, *)
(* name, src].  A src is [is, of, var]; of is a set of types, each a class,*)
(* Open or Unknown.  sites lists the calls, each [is, of, scope, var].     *)
(* Names in them are already resolved to types.                            *)
(***************************************************************************)
EXTENDS Integers, Sequences, FiniteSets, SequencesExt

Open == 0
Unknown == -1
Protocol == -2
Metaclass == -3

VARIABLES
  repo,
  phase,       \* "seed", "solve", "narrow" or "done"
  flow,        \* flow[<<scope, var>>]: its type state
  fields,      \* fields[c]: the type states stored in the f of c
  attrs,       \* attrs[c]: names that are not methods, stores included
  foreign,     \* names stored through a base of unknown type
  answers,     \* what each site so far leads to
  ledger       \* calls narrowed, and how many of them kept the m of a class

receiverVars == <<repo, phase, flow, fields, attrs, foreign, answers, ledger>>

ClassIds == DOMAIN repo.bases
BasesOf(c) == Range(repo.bases[c])
Superclasses(c) == {b \in BasesOf(c) : b > 0}
IsPython == repo.lang = "python"

-------------------------------------------------------------------------------
(* Lattice.                                                                *)

Above ==
  LET above[c \in ClassIds] == {c} \cup UNION {above[b] : b \in Superclasses(c)}
  IN  above

Cone(c) == {s \in ClassIds : c \in Above[s]}

(* The floating closure: what may be a subclass of anything. *)
Floating == UNION {Cone(c) : c \in {c \in ClassIds : Unknown \in BasesOf(c)}}
Meta == UNION {Cone(c) : c \in {c \in ClassIds : Metaclass \in BasesOf(c)}}
IsStructural(c) == Protocol \in BasesOf(c) \/ (~IsPython /\ c \in repo.abstract)
ExtAny == {c \in ClassIds : BasesOf(c) \cap {Open, Protocol, Metaclass} # {}}

(* with_ancestors *)
WithAncestors(cs) == UNION {Above[c] : c \in cs}
HasUnknownBase(cs) == \E c \in cs : Unknown \in BasesOf(c)

(* mro_may_define, before the stores of attributes are known. *)
MayDefine(c, name) ==
  \E a \in Above[c] : name \in repo.own[a] \cup repo.attrs[a] \/ Unknown \in BasesOf(a)

-------------------------------------------------------------------------------
(* Lookups.                                                                *)

Nothing == [targets |-> {}, open |-> FALSE, unknown |-> FALSE]
Unsure == [Nothing EXCEPT !.unknown = TRUE]
At(c) == [Nothing EXCEPT !.targets = {c}]
Merged(rs) ==
  [targets |-> UNION {r.targets : r \in rs}, open |-> \E r \in rs : r.open,
   unknown |-> \E r \in rs : r.unknown]
(* What of several receivers one is open counts if that one found nothing. *)
Folded(rs) ==
  [Merged(rs) EXCEPT !.open = \E r \in rs : r.open /\ r.targets = {}]
Closed(r) == [r EXCEPT !.open = FALSE]

BaseLookup(look, b) ==
  IF b > 0 THEN look[b]
  ELSE IF b = Unknown THEN Unsure ELSE [Nothing EXCEPT !.open = TRUE]

(* Per branch of the bases, the nearest definition of a name. *)
NearestIn(name, c, look) ==
  IF name \in attrs[c] THEN Unsure
  ELSE IF name \in repo.own[c] THEN At(c)
  ELSE Merged({BaseLookup(look, b) : b \in BasesOf(c)})

Doubt(r, name) ==
  [r EXCEPT !.unknown = @ \/ (r.targets = {} /\ name \in foreign)]

Hooks(name) ==
  LET look[c \in ClassIds] == Doubt(NearestIn(name, c, look), name) IN look

(* Access is customised: always, or where nothing is found. *)
Intercepted(c, r) ==
  \/ Hooks("getattribute")[c].targets # {}
  \/ r.targets = {} /\ LET hook == Hooks("getattr")[c]
                       IN  hook.targets # {} \/ hook.unknown

Lookup ==
  LET look[c \in ClassIds] ==
        LET near == NearestIn("m", c, look)
        IN  Doubt([near EXCEPT !.unknown = @ \/ Intercepted(c, near)], "m")
  IN  look

OwnOf(c) ==
  IF "m" \in attrs[c] THEN Unsure ELSE IF "m" \in repo.own[c] THEN At(c) ELSE Nothing

(* What the floating classes add to a cone: their own m, or else that of   *)
(* the bases they are known to have.                                       *)
FloatingPart ==
  LET Part(f) ==
        IF "m" \in attrs[f] \cup repo.own[f] THEN OwnOf(f)
        ELSE Merged({Lookup[s] : s \in Superclasses(f) \ Floating})
  IN  Closed(Merged({Part(f) : f \in Floating}))

(* ... and to super() in the root of a cone. *)
FloatingPartBeyond(cone) ==
  LET Part(f) ==
        Merged({IF s \in Floating THEN OwnOf(s) ELSE Lookup[s] :
                  s \in Superclasses(f) \ cone})
  IN  Closed(Merged({Part(f) : f \in Floating \ cone}))

ConeLookup(c) ==
  Merged({Folded({Lookup[s] : s \in Cone(c)}), FloatingPart})

(* Mutant: only the bases of the class itself.                             *)
SuperLookup_Own(c) == Merged({BaseLookup(Lookup, b) : b \in BasesOf(c)})

SuperLookup(c) ==
  LET cone == Cone(c)
  IN  Merged({BaseLookup(Lookup, b) : b \in UNION {BasesOf(s) : s \in cone} \ cone}
             \cup {FloatingPartBeyond(cone)})

ExtConeLookup ==
  [Merged({ConeLookup(c) : c \in ExtAny} \cup {FloatingPart}) EXCEPT !.open = TRUE]

-------------------------------------------------------------------------------
(* Type states: the classes a value may be of, each exactly or with its    *)
(* subclasses, and whether it may be of a class from outside.              *)

Top == [top |-> TRUE, types |-> {}, ext |-> {}]
Untouched == [top |-> FALSE, types |-> {}, ext |-> {}]
Known(ts) == ~ts.top /\ (ts.types # {} \/ ts.ext # {})

JoinedAll(states) ==
  IF \E ts \in states : ts.top THEN Top
  ELSE [top |-> FALSE, types |-> UNION {ts.types : ts \in states},
        ext |-> UNION {ts.ext : ts \in states}]

Joined(a, b) == JoinedAll({a, b})

ResolveType(types, cone) ==
  IF Unknown \in types \/ \E c \in types : c > 0 /\ IsStructural(c) THEN Top
  ELSE [top |-> FALSE,
        types |-> {<<c, cone /\ IsPython>> : c \in types \ {Open}},
        ext |-> IF Open \in types THEN {cone} ELSE {}]

(* constructed: a call of a class, unless a __new__ may answer it. *)
Constructed(types) ==
  IF \E c \in types : c > 0 /\ MayDefine(c, "new") THEN Top ELSE ResolveType(types, FALSE)

PythonSource(src) ==
  CASE src.is = "new"      -> ResolveType(src.of, FALSE)
    [] src.is = "declared" -> ResolveType(src.of, TRUE)
    [] src.is = "call"     -> Constructed(src.of)
    [] src.is = "literal"  -> ResolveType({Open}, FALSE)
    [] src.is = "null"     -> Untouched
    [] OTHER               -> Top

GoSource(src) ==
  CASE src.is \in {"new", "declared"} -> ResolveType(src.of, FALSE)
    [] src.is = "null"                -> Untouched
    [] OTHER                          -> Top

TypedLookup(ts) ==
  LET Of(t) == IF t[2] THEN ConeLookup(t[1]) ELSE Lookup[t[1]]
      typed == Folded({Of(t) : t \in ts.types})
      ext == IF TRUE \in ts.ext THEN ExtConeLookup ELSE [Nothing EXCEPT !.open = ts.ext # {}]
  IN  Merged({typed, ext})

-------------------------------------------------------------------------------
(* Locals and their flow.                                                  *)

BoundNames == {<<b.scope, b.var>> : b \in repo.params \cup repo.binds}

(* The function whose variable a name is, 0 if no function binds it. *)
Owner(scope, var) ==
  IF <<scope, var>> \in BoundNames THEN scope
  ELSE IF <<1, var>> \in BoundNames THEN 1 ELSE 0

Node(scope, var) == <<Owner(scope, var), var>>

ParamState(p) ==
  IF IsPython THEN PythonSource(p.src)
  ELSE IF p.src.is = "receiver" THEN ResolveType(p.src.of, FALSE) ELSE Top

BindState(b) ==
  IF b.src.is = "var"
  THEN IF Owner(b.scope, b.src.var) = 0 THEN Top ELSE Untouched
  ELSE IF IsPython THEN PythonSource(b.src) ELSE GoSource(b.src)

Seed ==
  /\ phase = "seed"
  /\ flow' = [n \in BoundNames |->
       JoinedAll({ParamState(p) : p \in {p \in repo.params : <<p.scope, p.var>> = n}}
                 \cup {BindState(b) : b \in {b \in repo.binds : <<b.scope, b.var>> = n}})]
  /\ phase' = "solve"
  /\ UNCHANGED <<repo, fields, attrs, foreign, answers, ledger>>

Copies ==
  {<<Node(b.scope, b.src.var), <<b.scope, b.var>>>> :
     b \in {b \in repo.binds : b.src.is = "var" /\ Owner(b.scope, b.src.var) # 0}}

Unsolved == {e \in Copies : Joined(flow[e[2]], flow[e[1]]) # flow[e[2]]}

(* One copy edge that adds something. *)
Solve ==
  /\ phase = "solve"
  /\ \E e \in Unsolved : flow' = [flow EXCEPT ![e[2]] = Joined(@, flow[e[1]])]
  /\ UNCHANGED <<repo, phase, fields, attrs, foreign, answers, ledger>>

-------------------------------------------------------------------------------
(* Fields.                                                                 *)

StoredState(scope, src) ==
  IF src.is # "var" THEN PythonSource(src)
  ELSE IF Owner(scope, src.var) = 0 THEN Top ELSE flow[Node(scope, src.var)]

(* The classes a store through a name goes to, none if that is unsure. *)
StoredTo(s) ==
  IF s.base.is # "var" \/ Owner(s.scope, s.base.var) = 0 THEN {}
  ELSE LET ts == flow[Node(s.scope, s.base.var)]
       IN  IF ts.top \/ ts.ext # {} THEN {} ELSE {t[1] : t \in ts.types}

Poisoned == {s.name : s \in {s \in repo.attrStores : StoredTo(s) = {}}}

(* finish and add_attr_stores: when the flow is solved. *)
FinishFields ==
  /\ phase = "solve"
  /\ Unsolved = {}
  /\ fields' = [c \in ClassIds |->
       {StoredState(b.scope, b.src) :
          b \in {b \in repo.fieldBinds : b.class = c /\ b.name = "f"}}
       \cup {StoredState(s.scope, s.src) :
          s \in {s \in repo.attrStores : c \in StoredTo(s) /\ s.name = "f"}}]
  /\ attrs' = [c \in ClassIds |->
       attrs[c] \cup {s.name : s \in {s \in repo.attrStores : c \in StoredTo(s)}}]
  /\ foreign' = Poisoned
  /\ phase' = "narrow"
  /\ UNCHANGED <<repo, flow, answers, ledger>>

(* field_types: what the field f of an instance of c or a subclass holds,  *)
(* Top where the code has no answer.                                       *)
FieldTypes(c) ==
  LET family == WithAncestors(Cone(c))
      wide == family \cup WithAncestors(Floating)
      stores == UNION {fields[x] : x \in wide}
  IN  IF \/ "f" \in foreign
         \/ HasUnknownBase(family)
         \/ \E x \in wide : "f" \in repo.own[x] \cup repo.attrs[x]
         \/ stores = {}
      THEN Top ELSE JoinedAll(stores)

-------------------------------------------------------------------------------
(* Sites.                                                                  *)

OwnersOfM == {c \in ClassIds : "m" \in repo.own[c]}

Legacy == [kind |-> "legacy", hits |-> OwnersOfM]
External == [kind |-> "external", hits |-> {}]

(* finish: a narrowed site, one proved external, or the same-name set. *)
Outcome(r) ==
  IF r.unknown THEN Legacy
  ELSE IF r.targets # {} THEN [kind |-> "typed", hits |-> r.targets]
  ELSE IF r.open THEN External ELSE Legacy

ByType(ts) == IF Known(ts) THEN Outcome(TypedLookup(ts)) ELSE Legacy

ClassifyPython(s) ==
  CASE s.is \in {"literal", "module"} -> External
    [] s.is = "super" -> Outcome(SuperLookup(s.of))
    [] s.is = "call"  -> IF Constructed(s.of).types = {} THEN Legacy
                         ELSE ByType(Constructed(s.of))
    [] s.is = "self"  -> IF s.of \in Meta THEN Legacy ELSE Outcome(ConeLookup(s.of))
    [] s.is = "field" -> IF s.of \in Meta THEN Legacy ELSE ByType(FieldTypes(s.of))
    [] s.is = "local" -> IF Owner(s.scope, s.var) = 0 THEN Legacy
                         ELSE ByType(flow[Node(s.scope, s.var)])
    [] s.is = "class" -> Outcome(Merged({Lookup[c] : c \in s.of}))
    [] OTHER          -> Legacy      \* a rebound self, a subscript, a chain

(* go_vta: every type of the variable must have its own m. *)
ClassifyGo(s) ==
  IF s.is # "local" \/ Owner(s.scope, s.var) = 0 THEN Legacy
  ELSE LET ts == flow[Node(s.scope, s.var)]
           cs == {t[1] : t \in ts.types}
       IN  IF ts.top \/ cs = {} \/ ts.ext # {} \/ ~(cs \subseteq OwnersOfM)
           THEN Legacy ELSE [kind |-> "typed", hits |-> cs]

Classify(s) == IF IsPython THEN ClassifyPython(s) ELSE ClassifyGo(s)

Counted(answer) == answer.kind # "legacy"

(* The ledger's counts of an answer. *)
Note(answer) ==
  /\ answers' = Append(answers, answer)
  /\ ledger' = IF Counted(answer)
               THEN [narrowed |-> ledger.narrowed + 1,
                     kept |-> [c \in ClassIds |->
                       ledger.kept[c] + (IF c \in answer.hits THEN 1 ELSE 0)]]
               ELSE ledger

Narrow ==
  /\ phase = "narrow"
  /\ Note(Classify(repo.sites[Len(answers) + 1]))
  /\ phase' = IF Len(answers') = Len(repo.sites) THEN "done" ELSE phase
  /\ UNCHANGED <<repo, flow, fields, attrs, foreign>>

(* Ledger::finish: how often the m of c was narrowed away. *)
NarrowedAway(c) == ledger.narrowed - ledger.kept[c]

ReceiversInit(r) ==
  /\ repo = r
  /\ phase = "seed"
  /\ flow = <<>>
  /\ fields = <<>>
  /\ attrs = [c \in ClassIds |->
       repo.attrs[c] \cup {b.name : b \in {b \in repo.fieldBinds : b.class = c}}]
  /\ foreign = {}
  /\ answers = <<>>
  /\ ledger = [narrowed |-> 0, kept |-> [c \in ClassIds |-> 0]]

ReceiversNext == Seed \/ Solve \/ FinishFields \/ Narrow
===============================================================================
