----------------------------- MODULE MCFlashCopy -----------------------------
(* Two workers, and an array of one volume on which at most MaxVdisks - 1  *)
(* more objects are made.                                                  *)
EXTENDS FlashCopy, TLC

Symmetry == Permutations(Threads) \union Permutations(VolumeNames)
              \union Permutations(SnapshotNames)
=============================================================================
