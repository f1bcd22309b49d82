----------------------------- MODULE EffectClosure -----------------------------
(***************************************************************************)
(* The last pass over a linked graph (effects.rs): what each definition    *)
(* does, directly or through the calls it makes, spawned work excepted.    *)
(* It rests on the iterative search for strongly connected components of   *)
(* graph_alg.rs, which emits a component after all those it leads to, and  *)
(* is modelled step by step: its explicit stack of frames, its index and   *)
(* low-link of each node, its stack of open nodes.                         *)
(***************************************************************************)
EXTENDS Precision

VARIABLES
  frames,      \* the call stack: [node, left: successors still to look at]
  index,       \* index[n]: when n was met, of the nodes met
  low,         \* their low-links
  open,        \* Tarjan's stack
  components,  \* those emitted
  transitive   \* transitive_effects of each node

sccVars == <<frames, index, low, open, components>>
resolverVars == <<code, order, stage, todo, graph, linked, sccVars, transitive>>

(* Mutant: effects flow back from spawned work. *)
Propagates_Spawns(e) == IsCall(e) /\ e.src # e.dst

Propagates(e) == IsCall(e) /\ e.kind # "spawns" /\ e.src # e.dst

AllNodes == Node \cup {e.dst : e \in ToSet(graph.edges)}
Successors(n) == {e.dst : e \in {e \in ToSet(graph.edges) : Propagates(e) /\ e.src = n}}
Frame(n) == [node |-> n, left |-> Successors(n)]
top == frames[Len(frames)]
Met == DOMAIN index
NextIndex == 1 + Cardinality(Met)

Meet(n) ==
  /\ index' = [m \in Met \cup {n} |-> IF m = n THEN NextIndex ELSE index[m]]
  /\ low' = [m \in Met \cup {n} |-> IF m = n THEN NextIndex ELSE low[m]]
  /\ open' = Append(open, n)

EffectsInit ==
  /\ frames = <<>>
  /\ index = [n \in {} |-> 0]
  /\ low = [n \in {} |-> 0]
  /\ open = <<>>
  /\ components = <<>>
  /\ transitive = [n \in {} |-> {}]

Start ==
  /\ stage = "effects"
  /\ frames = <<>>
  /\ \E n \in AllNodes :
       /\ n \notin Met
       /\ \A m \in AllNodes : m < n => m \in Met
       /\ Meet(n)
       /\ frames' = <<Frame(n)>>
  /\ UNCHANGED components

(* Successors are taken in ascending order.  A node met a second time      *)
(* while it is open lowers the link.                                       *)
Descend ==
  /\ stage = "effects"
  /\ frames # <<>>
  /\ \E w \in top.left :
       /\ \A m \in top.left : w <= m
       /\ LET rest == [frames EXCEPT ![Len(frames)].left = @ \ {w}]
          IN  IF w \notin Met
              THEN /\ Meet(w)
                   /\ frames' = Append(rest, Frame(w))
              ELSE /\ frames' = rest
                   /\ low' = IF w \in Range(open)
                             THEN [low EXCEPT ![top.node] = Min({@, index[w]})] ELSE low
                   /\ UNCHANGED <<index, open>>
  /\ UNCHANGED components

(* The parent's low-link takes in its child's. *)
Relaxed(v) ==
  IF Len(frames) = 1 THEN low
  ELSE LET p == frames[Len(frames) - 1].node IN [low EXCEPT ![p] = Min({@, low[v]})]

Ascend ==
  /\ stage = "effects"
  /\ frames # <<>>
  /\ top.left = {}
  /\ LET v == top.node
         at == CHOOSE i \in DOMAIN open : open[i] = v
     IN  /\ IF low[v] = index[v]
            THEN /\ components' = Append(components, {open[i] : i \in at .. Len(open)})
                 /\ open' = SubSeq(open, 1, at - 1)
            ELSE UNCHANGED <<components, open>>
         /\ low' = Relaxed(v)
  /\ frames' = SubSeq(frames, 1, Len(frames) - 1)
  /\ UNCHANGED index

Own(n) == IF n \in Node THEN Symbols[n].effects ELSE {}

(* Mutant: a component takes in its successors' own effects only. *)
Settled_OneStep ==
  LET At(n) == CHOOSE i \in DOMAIN components : n \in components[i]
      Around(i) == components[i] \cup UNION {Successors(n) : n \in components[i]}
  IN  [n \in AllNodes |-> UNION {Own(m) : m \in Around(At(n))}]

(* run_effect_closure: one pass over the components in the order emitted,  *)
(* each from its members' own effects and its successors' settled ones.    *)
Settled ==
  LET At(n) == CHOOSE i \in DOMAIN components : n \in components[i]
      settled[i \in DOMAIN components] ==
        (UNION {Own(n) : n \in components[i]})
          \cup (UNION {UNION {settled[At(m)] : m \in Successors(n) \ components[i]} :
                         n \in components[i]})
  IN  [n \in AllNodes |-> settled[At(n)]]

Close ==
  /\ stage = "effects"
  /\ frames = <<>>
  /\ AllNodes \subseteq Met
  /\ transitive' = Settled
  /\ stage' = "done"
  /\ UNCHANGED sccVars

ResolverInit == LinkInit /\ EffectsInit

ResolverNext ==
  \/ (LinkRef \/ Finalize \/ Scip \/ Cha \/ Rta \/ Sig) /\ UNCHANGED <<sccVars, transitive>>
  \/ (Start \/ Descend \/ Ascend) /\ UNCHANGED <<code, order, stage, todo, graph, linked, transitive>>
  \/ Close /\ UNCHANGED <<code, order, todo, graph, linked>>

ResolverSpec == ResolverInit /\ [][ResolverNext]_resolverVars
-------------------------------------------------------------------------------
(* effects.rs: transitive_effects(n) is n's own effects and those of all   *)
(* it reaches over calls, whatever cycles the calls make.                  *)
EffectsAreOfAllReached ==
  stage = "done" =>
    \A n \in AllNodes :
      transitive[n] = UNION {Own(m) : m \in
        ReachOver({e \in ToSet(graph.edges) : IsCall(e) /\ e.kind # "spawns"}, {n})}
===============================================================================
