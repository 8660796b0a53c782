--------------------------- MODULE MCNodeSyncLock ---------------------------
(* Three goroutines, three volumes, two LUNs and two tokens: the smallest  *)
(* instance in which a request can lose a LUN to one rival, a volume to    *)
(* another, or the last token to both.                                     *)
EXTENDS NodeSyncLock
=============================================================================
