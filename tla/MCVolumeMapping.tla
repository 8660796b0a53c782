--------------------------- MODULE MCVolumeMapping ---------------------------
(* Three volumes compete for the two LUNs of one host; the exclusive one   *)
(* is also wanted by another host.                                         *)
EXTENDS VolumeMapping, TLC

CONSTANTS v1, v2, v3, h1, h2

WantedPairs == {<<v1, h1>>, <<v1, h2>>, <<v2, h1>>, <<v3, h1>>}

Symmetry == Permutations(Threads) \union Permutations(Volumes \ Exclusive)
=============================================================================
