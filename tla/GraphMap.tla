------------------------------- MODULE GraphMap -------------------------------
(***************************************************************************)
(* What a FactStore promises about linked graphs (the trait doc of         *)
(* cgx-store/src/store.rs), whatever layout holds them: a map from graph   *)
(* keys to graphs, replaced one key at a time, and readers that hold no    *)
(* lock.  A reader gets the graph its key named when it began.  It may be  *)
(* told "corrupt" instead only if that key was replaced or dropped while   *)
(* it read, or was not intact: published since the last power loss.        *)
(***************************************************************************)
CONSTANTS Readers, Keys, Graphs, Current, Newer, None

VARIABLES
  map,      \* map[k]: the graph stored under k, or None
  intact,   \* the keys whose graph is whole
  pend,     \* pend[p]: the read p is in, or Idle
  reply     \* reply[p]: what p's last call returned, if it was a read

gmVars == <<map, intact, pend, reply>>

Idle == [st |-> "idle"]

Reading(k, g, e) == [st |-> "reading", key |-> k, val |-> g, excused |-> e]

(* Readers of a key may find its objects gone once its entry has changed. *)
Excuse(ks) ==
  [p \in Readers |-> IF pend[p].st = "reading" /\ pend[p].key \in ks
                     THEN Reading(pend[p].key, pend[p].val, TRUE)
                     ELSE pend[p]]

GMInit ==
  /\ map \in [Keys -> Graphs \cup {None}]
  /\ intact = Keys
  /\ pend = [p \in Readers |-> Idle]
  /\ reply = [p \in Readers |-> "none"]

Store(k, g) ==
  /\ map' = [map EXCEPT ![k] = g]
  /\ intact' = intact \cup {k}
  /\ pend' = Excuse({k})
  /\ UNCHANGED reply

Drop(ks) ==
  /\ map' = [k \in Keys |-> IF k \in ks THEN None ELSE map[k]]
  /\ pend' = Excuse(ks)
  /\ UNCHANGED <<intact, reply>>

BeginRead(p, k) ==
  /\ pend[p] = Idle
  /\ map[k] # None
  /\ pend' = [pend EXCEPT ![p] = Reading(k, map[k], k \notin intact)]
  /\ reply' = [reply EXCEPT ![p] = "none"]
  /\ UNCHANGED <<map, intact>>

(* A key with no graph reads as the empty graph. *)
ReadNothing(p, k) ==
  /\ pend[p] = Idle
  /\ map[k] = None
  /\ reply' = [reply EXCEPT ![p] = "empty"]
  /\ UNCHANGED <<map, intact, pend>>

EndRead(p) ==
  /\ pend[p].st = "reading"
  /\ \/ /\ pend[p].val \in Current
        /\ reply' = [reply EXCEPT ![p] = pend[p].val]
     \/ /\ pend[p].val \in Newer
        /\ reply' = [reply EXCEPT ![p] = "format"]
     \/ /\ pend[p].excused \/ pend[p].val \notin (Current \cup Newer)
        /\ reply' = [reply EXCEPT ![p] = "corrupt"]
  /\ pend' = [pend EXCEPT ![p] = Idle]
  /\ UNCHANGED <<map, intact>>

(* Another call of p starts or ends, or p dies: its pending read is gone. *)
Leave(p) ==
  /\ pend' = [pend EXCEPT ![p] = Idle]
  /\ reply' = [reply EXCEPT ![p] = "none"]
  /\ UNCHANGED <<map, intact>>

(* A power loss may bring back any earlier entry, and none is known whole. *)
Damage ==
  /\ map' \in [Keys -> Graphs \cup {None}]
  /\ intact' = {}
  /\ pend' = [p \in Readers |-> Idle]
  /\ reply' = [p \in Readers |-> "none"]

GMNext ==
  \/ \E k \in Keys, g \in Graphs : Store(k, g)
  \/ \E ks \in SUBSET Keys : Drop(ks)
  \/ \E p \in Readers, k \in Keys : BeginRead(p, k) \/ ReadNothing(p, k)
  \/ \E p \in Readers : EndRead(p) \/ Leave(p)
  \/ Damage

GMSpec == GMInit /\ [][GMNext]_gmVars
===============================================================================
