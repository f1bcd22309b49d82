---------------------------- MODULE MCObjectStore ----------------------------
(* Small instances of ObjectStore. *)
EXTENDS ObjectStore, TLC

CONSTANTS p1, p2, k1, k2, g1, g2, gOld, gNew, s1, s2, s3, d1, d2

(* Processes and keys are interchangeable. *)
Symmetric == Permutations(Procs) \cup Permutations(Keys)

(* index_repo keeps the one key it has just written. *)
KeepOne == {{k} : k \in Keys}

(* g1 and g2 share the shard s2, as two trees share an unchanged function. *)
MCShardsOf ==
  [g \in Graphs |-> CASE g = g1 -> {s1, s2}
                      [] g = g2 -> {s2, s3}
                      [] OTHER -> {s3}]

MCFormat ==
  [g \in Graphs |-> CASE g = gOld -> "older" [] g = gNew -> "newer" [] OTHER -> "current"]

(* One fan-out directory holds s1 and s2, the other everything else. *)
MCDirOf == [o \in Objects |-> IF o \in {s1, s2} THEN d1 ELSE d2]
===============================================================================
