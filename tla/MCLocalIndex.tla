----------------------------- MODULE MCLocalIndex -----------------------------
(* Small instances of LocalIndex: two trees, each with a graph per mode. *)
EXTENDS LocalIndex, TLC

CONSTANTS p1, p2, t1, t2, base1, base2, flow1, flow2

MCTreeOf == base1 :> t1 @@ flow1 :> t1 @@ base2 :> t2 @@ flow2 :> t2
MCModeOf ==
  base1 :> "base" @@ base2 :> "base" @@ flow1 :> "dataflow" @@ flow2 :> "dataflow"

(* The two trees may be swapped, with their graphs; and the processes,     *)
(* where all of them may index.                                            *)
Swap ==
  t1 :> t2 @@ t2 :> t1 @@ base1 :> base2 @@ base2 :> base1 @@ flow1 :> flow2 @@ flow2 :> flow1

TreeSymmetric == {Swap}
Symmetric == {Swap} \cup Permutations(Procs)
===============================================================================
