---------------------------- MODULE MCHostDefiner ----------------------------
(* One node and one array.                                                 *)
EXTENDS HostDefiner, TLC

(* A lost event and a restart are alternatives: with both a run takes      *)
(* twice as long.                                                          *)
LostOrRestarted == missed + restarts <= 1

Symmetry == Permutations(Workers) \union Permutations(HdIds) \union Permutations(Ports)
=============================================================================
