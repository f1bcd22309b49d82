---------------------------- MODULE ReceiverWorlds -----------------------------
(***************************************************************************)
(* What a run of the program may call, to hold the narrowing of Receivers  *)
(* against: method resolution and the flow of values as the languages      *)
(* define them, in every world that decides what the unresolvable bases    *)
(* are.                                                                    *)
(*                                                                         *)
(* Within the limits lookup.rs names: a method is not overwritten from     *)
(* outside its class family, an attribute counts where a class of the      *)
(* resolution order holds it, one unresolvable base of a world is a class  *)
(* of the repository, and an access hook or an m stored on an object does  *)
(* not count where the class has an unresolvable base.                     *)
(***************************************************************************)
EXTENDS Receivers


Outside == 0
Anything == ClassIds \cup {Outside}

HasUnknown == {c \in ClassIds : Unknown \in BasesOf(c)}

(* A world resolves at most one unresolvable base to a class here. *)
Worlds ==
  {w \in [HasUnknown -> Anything] :
     /\ \A c \in HasUnknown : w[c] # 0 => c \notin Above[w[c]]
     /\ Cardinality({c \in HasUnknown : w[c] # Outside}) <= 1}

-------------------------------------------------------------------------------
(* Python's method resolution order (C3).                                  *)

Blocked(lists) == UNION {Range(Tail(l)) : l \in {l \in Range(lists) : l # <<>>}}
Candidates(lists) ==
  {i \in DOMAIN lists : lists[i] # <<>> /\ Head(lists[i]) \notin Blocked(lists)}

RECURSIVE Merge(_)
(* NoOrder stands in the result where the lists contradict each other. *)
NoOrder == -9
Merge(lists) ==
  IF \A l \in Range(lists) : l = <<>> THEN <<>>
  ELSE IF Candidates(lists) = {} THEN <<NoOrder>>
  ELSE LET i == CHOOSE i \in Candidates(lists) : \A j \in Candidates(lists) : i <= j
           next == Head(lists[i])
       IN  <<next>> \o Merge([j \in DOMAIN lists |->
             IF lists[j] # <<>> /\ Head(lists[j]) = next THEN Tail(lists[j]) ELSE lists[j]])

(* The bases of c here, in order. *)
BasesIn(w, c) ==
  LET real == [i \in DOMAIN repo.bases[c] |->
                 IF repo.bases[c][i] = Unknown THEN w[c] ELSE repo.bases[c][i]]
  IN  SelectSeq(real, LAMBDA b : b > 0)

(* Mro(w)[c]: the order of c, itself first. *)
Mro(w) ==
  LET mro[c \in ClassIds] ==
        LET bases == BasesIn(w, c)
        IN  <<c>> \o Merge([i \in DOMAIN bases |-> mro[bases[i]]] \o <<bases>>)
  IN  mro

(* The same as a table, the classes without an order left out. *)
Orders(w) ==
  LET mro == [c \in ClassIds |-> Mro(w)[c]]
      sound == {c \in ClassIds : NoOrder \notin Range(mro[c])}
  IN  [c \in sound |-> mro[c]]

SubclassesIn(order, c) == {k \in DOMAIN order : c \in Range(order[k])}

(* A class that inherits from outside the repository. *)
IsOutsideIn(w, order, k) ==
  \E a \in Range(order[k]) :
     \/ BasesOf(a) \cap {Open, Protocol, Metaclass} # {}
     \/ a \in HasUnknown /\ w[a] = Outside

-------------------------------------------------------------------------------
(* What a call of m finds, the classes in order tried one after another.   *)

Holds(c, name) ==
  \/ name \in repo.own[c] \cup repo.attrs[c]
  \/ \E b \in repo.fieldBinds : b.class = c /\ b.name = name

FirstFrom(classes) ==
  LET holders == SelectSeq(classes, LAMBDA c : Holds(c, "m"))
  IN  IF holders = <<>> THEN {}
      ELSE IF repo.own[Head(holders)] \cap {"m"} = {}
              \/ "m" \in repo.attrs[Head(holders)]
              \/ \E b \in repo.fieldBinds : b.class = Head(holders) /\ b.name = "m"
           THEN OwnersOfM ELSE {Head(holders)}

HasHook(k, name) == \E a \in Above[k] : Holds(a, name)

(* stored: objects that may get an m from outside their class. *)
CalleesOf(order, stored, k) ==
  IF k = Outside THEN {}
  ELSE LET found == FirstFrom(order[k])
       IN  IF /\ k \notin Floating
              /\ \/ \E a \in Above[k] : "getattribute" \in repo.own[a]
                 \/ found = {} /\ (HasHook(k, "getattr") \/ k \in stored)
           THEN OwnersOfM ELSE found

After(c, classes) ==
  LET i == CHOOSE i \in DOMAIN classes : classes[i] = c
  IN  SubSeq(classes, i + 1, Len(classes))

-------------------------------------------------------------------------------
(* What the variables hold: the classes of the objects, or Outside.        *)

Every(order) == DOMAIN order \cup {Outside}

OfType(w, order, t, exactly) ==
  CASE t = Unknown -> Every(order)
    [] t = Open -> {Outside} \cup IF exactly THEN {} ELSE {k \in DOMAIN order : IsOutsideIn(w, order, k)}
    [] OTHER -> IF IsStructural(t) THEN Every(order)
                ELSE IF exactly \/ ~IsPython THEN {t} \cap DOMAIN order ELSE SubclassesIn(order, t)

OfTypes(w, order, ts, exactly) == UNION {OfType(w, order, t, exactly) : t \in ts}

MadeBy(w, order, ts) ==
  IF \E t \in ts : t > 0 /\ t \in DOMAIN order
                   /\ \E a \in Range(order[t]) : Holds(a, "new")
  THEN Every(order) ELSE OfTypes(w, order, ts, TRUE)

(* held: what the variables hold so far. *)
ValuesOf(w, order, held, scope, src) ==
  CASE src.is = "var"      -> IF Owner(scope, src.var) = 0 THEN Every(order)
                              ELSE held[Node(scope, src.var)]
    [] src.is = "new"      -> OfTypes(w, order, src.of, TRUE)
    [] src.is = "receiver" -> OfTypes(w, order, src.of, TRUE)
    [] src.is = "declared" -> OfTypes(w, order, src.of, FALSE)
    [] src.is = "call"     -> MadeBy(w, order, src.of)
    [] src.is = "literal"  -> {Outside}
    [] src.is = "null"     -> {}
    [] OTHER               -> Every(order)

RECURSIVE HeldFrom(_, _, _)
HeldFrom(w, order, held) ==
  LET more == [n \in BoundNames |-> held[n] \cup UNION
        {ValuesOf(w, order, held, b.scope, b.src) :
           b \in {b \in repo.params \cup repo.binds : <<b.scope, b.var>> = n}}]
  IN  IF more = held THEN held ELSE HeldFrom(w, order, more)

Held(w, order) == HeldFrom(w, order, [n \in BoundNames |-> {}])

(* The objects that a store through a name reaches. *)
BasesReached(w, order, held, s) == ValuesOf(w, order, held, s.scope, s.base)

(* The field f of an object of class k. *)
FieldOf(w, order, held, k) ==
  IF \E a \in Range(order[k]) : "f" \in repo.own[a] \cup repo.attrs[a]
  THEN Every(order)
  ELSE UNION {ValuesOf(w, order, held, b.scope, b.src) :
                b \in {b \in repo.fieldBinds : b.name = "f" /\ b.class \in Range(order[k])}}
       \cup UNION {ValuesOf(w, order, held, s.scope, s.src) :
                s \in {s \in repo.attrStores : s.name = "f" /\ k \in BasesReached(w, order, held, s)}}

-------------------------------------------------------------------------------
(* The methods a site may call in a world. *)
CalleesOfSite(w, order, held, s) ==
  LET stored == UNION {BasesReached(w, order, held, t) : t \in {t \in repo.attrStores : t.name = "m"}}
      Of(objects) == UNION {CalleesOf(order, stored, k) : k \in objects}
  IN  CASE s.is = "super" -> UNION {FirstFrom(After(s.of, order[k])) : k \in SubclassesIn(order, s.of)}
        [] s.is = "self"  -> Of(SubclassesIn(order, s.of))
        [] s.is = "field" -> Of(UNION {FieldOf(w, order, held, k) : k \in SubclassesIn(order, s.of)})
        [] s.is = "call"  -> Of(MadeBy(w, order, s.of))
        [] s.is = "class" -> Of(s.of \cap DOMAIN order)
        [] s.is = "local" -> IF Owner(s.scope, s.var) = 0 THEN OwnersOfM
                             ELSE Of(held[Node(s.scope, s.var)])
        [] s.is \in {"literal", "module"} -> {}
        [] OTHER -> OwnersOfM

(* A narrowed call keeps every method that a run of it may reach, whatever *)
(* the unresolvable bases are; a call proved external reaches none.  And a *)
(* method is said to be narrowed away as often as such a call leaves it    *)
(* out.  (ReceiverIndex::narrow over receiver/lookup.rs, Ledger::finish)   *)
NarrowingKeepsTheCallee ==
  phase = "done" =>
    /\ \A w \in Worlds :
         LET order == Orders(w)
             held == Held(w, order)
         IN  \A i \in DOMAIN answers :
               answers[i].kind # "legacy"
               => CalleesOfSite(w, order, held, repo.sites[i]) \subseteq answers[i].hits
    /\ \A c \in OwnersOfM :
         NarrowedAway(c) = Cardinality({i \in DOMAIN answers :
           answers[i].kind # "legacy" /\ c \notin answers[i].hits})
===============================================================================
