----------------------------- MODULE MCTransport -----------------------------
(* Small instances of Transport: one graph under each of two keys, and one *)
(* of another store format.                                                  *)
EXTENDS Transport, TLC

CONSTANTS p1, p2, c1, c2, k1, k2, g1, gNew, s1, s2

MCShardsOf ==
  [g \in Graphs |-> IF g = g1 THEN {s1, s2} ELSE {s2}]

(* Each process in a clone of its own, or both in the first one. *)
OwnClone == [p \in Procs |-> IF p = p1 THEN c1 ELSE c2]
OneClone == [p \in Procs |-> c1]

KeySymmetric == Permutations(Keys)
OneCloneSymmetric == Permutations(Keys) \cup Permutations(Procs)
==============================================================================
