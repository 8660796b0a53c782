---------------------------- MODULE MCNodeVolume ----------------------------
(* Two volumes, one of them with a preference for a file system.           *)
EXTENDS NodeVolume, TLC

CONSTANTS v1, v2, xfs, l1, l2

RequestedFs == v1 :> Blank @@ v2 :> xfs
(* LUNs 1 and 11. *)
Ending == {<<l1, l1>>, <<l2, l2>>, <<l2, l1>>}
ThreadsAreAlike == Permutations(Threads)
=============================================================================
