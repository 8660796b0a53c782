--------------------------- MODULE NodeLockPromise ---------------------------
(***************************************************************************)
(* What the node service's request lock promises its handlers, with no     *)
(* word on how: a request is granted only while no granted request works   *)
(* on its volume, no two granted stage requests work on one LUN (when the  *)
(* plugin cleans SCSI devices), and at most MaxInvocations requests are    *)
(* granted at a time.                                                      *)
(***************************************************************************)
EXTENDS Naturals, FiniteSets

CONSTANTS Threads,          \* the goroutines that serve node requests
          Volumes,          \* volume ids
          Luns,             \* LUN numbers a stage request can name
          NoLun,            \* the LUN of a request that locks its volume only
          None,             \* a thread that was granted nothing
          MaxInvocations,   \* the -max-invocations flag
          CleanScsiDevice   \* the -clean-scsi-device flag

Request == [volume : Volumes, lun : Luns \union {NoLun}]

VARIABLE granted            \* the request each thread was granted, or None

Conflict(r, q) ==
  \/ r.volume = q.volume
  \/ CleanScsiDevice /\ r.lun \in Luns /\ r.lun = q.lun

Granted == {t \in Threads : granted[t] # None}

Init == granted = [t \in Threads |-> None]

Grant(t, r) ==
  /\ granted[t] = None
  /\ \A u \in Granted : ~ Conflict(r, granted[u])
  /\ Cardinality(Granted) < MaxInvocations
  /\ granted' = [granted EXCEPT ![t] = r]

Release(t) ==
  /\ granted[t] # None
  /\ granted' = [granted EXCEPT ![t] = None]

Next == \E t \in Threads : Release(t) \/ \E r \in Request : Grant(t, r)

Spec == Init /\ [][Next]_granted
=============================================================================
