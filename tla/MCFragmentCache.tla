---------------------------- MODULE MCFragmentCache ----------------------------
(* A small instance of FragmentCache: two processes of one version, and    *)
(* one of another whose runs may be over an overlay; a blob at two paths.  *)
EXTENDS FragmentCache, TLC

CONSTANTS p1, p2, p3, x, a, b

MCVersionOf == p1 :> 1 @@ p2 :> 2 @@ p3 :> 1
SameVersion == Permutations({p1, p3})
MCFiles == {<<x, a>>, <<x, b>>}
MCSourceSets == {MCFiles}
================================================================================
