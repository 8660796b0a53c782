---------------------------- MODULE NodeSyncLock ----------------------------
(***************************************************************************)
(* node/pkg/driver/sync_lock.go: the lock every node handler takes before  *)
(* it works on a volume.  One sync.Map holds the volume ids and the LUNs   *)
(* in use (its keys are strings and ints, so the two cannot collide), and  *)
(* a buffered channel of MaxInvocations tokens bounds the handlers that    *)
(* run at a time.                                                          *)
(*                                                                         *)
(* A step of a thread is one access to the map or to the channel.          *)
(***************************************************************************)
EXTENDS Naturals, FiniteSets

CONSTANTS Threads, Volumes, Luns, NoLun, None, MaxInvocations, CleanScsiDevice

(* cmd/main.go refuses to start with -max-invocations below 1.             *)
ASSUME LockAssumption ==
  /\ IsFiniteSet(Threads)
  /\ Volumes \intersect Luns = {}
  /\ NoLun \notin Luns
  /\ None \notin [volume : Volumes, lun : Luns \union {NoLun}]
  /\ MaxInvocations \in Nat \ {0}
  /\ CleanScsiDevice \in BOOLEAN

VARIABLES
  syncMap,    \* SyncLock.SyncMap: the ids and LUNs being processed
  tokens,     \* the number of tokens in the channel SyncLock.Tokens
  pc,         \* where each thread is in the lock's code
  req         \* the volume and LUN each thread works on (None when idle)

vars == <<syncMap, tokens, pc, req>>

Request == [volume : Volumes, lun : Luns \union {NoLun}]

Phase == {"idle", "addLun", "addVolume", "awaitToken", "undoLun",
          "locked", "removeLun", "takeToken", "removeVolume"}

NoRequest == None

(* addLunLock and removeLunLock do nothing unless SCSI cleaning is on.     *)
LocksLun(t) == CleanScsiDevice /\ req[t] # NoRequest /\ req[t].lun \in Luns

Goto(t, to) == pc' = [pc EXCEPT ![t] = to]

(* The handler returns, with an answer or with an error: the thread is     *)
(* free to serve another request.                                          *)
Return(t) ==
  /\ Goto(t, "idle")
  /\ req' = [req EXCEPT ![t] = NoRequest]

Init ==
  /\ syncMap = {}
  /\ tokens = 0
  /\ pc = [t \in Threads |-> "idle"]
  /\ req = [t \in Threads |-> NoRequest]

-----------------------------------------------------------------------------
(* NodeStageVolume calls AddVolumeAndLunLock; the other handlers call      *)
(* AddVolumeLock and name no LUN.                                          *)
Call(t) ==
  /\ pc[t] = "idle"
  /\ \E r \in Request :
       /\ req' = [req EXCEPT ![t] = r]
       /\ Goto(t, IF r.lun = NoLun THEN "addVolume" ELSE "addLun")
  /\ UNCHANGED <<syncMap, tokens>>

(* addLunLock: LoadOrStore of the LUN; in use is LunAlreadyProcessingError. *)
AddLunLock(t) ==
  /\ pc[t] = "addLun"
  /\ \/ /\ ~ LocksLun(t)
        /\ Goto(t, "addVolume")
        /\ UNCHANGED <<syncMap, req>>
     \/ /\ LocksLun(t)
        /\ req[t].lun \notin syncMap
        /\ syncMap' = syncMap \union {req[t].lun}
        /\ Goto(t, "addVolume")
        /\ UNCHANGED req
     \/ /\ LocksLun(t)
        /\ req[t].lun \in syncMap
        /\ Return(t)
        /\ UNCHANGED syncMap
  /\ UNCHANGED tokens

(* AddVolumeLock, first half: LoadOrStore of the id.  An id in use is      *)
(* VolumeAlreadyProcessingError, on which AddVolumeAndLunLock gives its    *)
(* LUN back.                                                               *)
AddVolumeLock(t) ==
  /\ pc[t] = "addVolume"
  /\ \/ /\ req[t].volume \notin syncMap
        /\ syncMap' = syncMap \union {req[t].volume}
        /\ Goto(t, "awaitToken")
        /\ UNCHANGED req
     \/ /\ req[t].volume \in syncMap
        /\ IF LocksLun(t)
             THEN Goto(t, "undoLun") /\ UNCHANGED req
             ELSE Return(t)
        /\ UNCHANGED syncMap
  /\ UNCHANGED tokens

(* Mutant: the channel is not bounded.                                     *)
PutTokenUnbounded(t) ==
  /\ pc[t] = "awaitToken"
  /\ tokens' = tokens + 1
  /\ Goto(t, "locked")
  /\ UNCHANGED <<syncMap, req>>

(* AddVolumeLock, the select: the send succeeds while the channel has room. *)
PutToken(t) ==
  /\ pc[t] = "awaitToken"
  /\ tokens < MaxInvocations
  /\ tokens' = tokens + 1
  /\ Goto(t, "locked")
  /\ UNCHANGED <<syncMap, req>>

(* Mutant: the timeout forgets to delete the id.                           *)
TokenTimeoutKeepsId(t) ==
  /\ pc[t] = "awaitToken"
  /\ tokens = MaxInvocations
  /\ IF LocksLun(t)
       THEN Goto(t, "undoLun") /\ UNCHANGED req
       ELSE Return(t)
  /\ UNCHANGED <<syncMap, tokens>>

(* Mutant: the timeout releases the volume the way a finished handler does. *)
TokenTimeoutReleases(t) ==
  /\ pc[t] = "awaitToken"
  /\ tokens = MaxInvocations
  /\ Goto(t, IF LocksLun(t) THEN "removeLun" ELSE "takeToken")
  /\ UNCHANGED <<syncMap, tokens, req>>

(* AddVolumeLock, the select: the channel stayed full for a second.  The   *)
(* id is deleted and the request fails with VolumeNoResources.             *)
TokenTimeout(t) ==
  /\ pc[t] = "awaitToken"
  /\ tokens = MaxInvocations
  /\ syncMap' = syncMap \ {req[t].volume}
  /\ IF LocksLun(t)
       THEN Goto(t, "undoLun") /\ UNCHANGED req
       ELSE Return(t)
  /\ UNCHANGED tokens

(* AddVolumeAndLunLock gives the LUN back when the volume was refused.     *)
UndoLunLock(t) ==
  /\ pc[t] = "undoLun"
  /\ syncMap' = syncMap \ {req[t].lun}
  /\ Return(t)
  /\ UNCHANGED tokens

(* The handler's body ends; its deferred Remove...Lock runs.               *)
Finish(t) ==
  /\ pc[t] = "locked"
  /\ Goto(t, IF LocksLun(t) THEN "removeLun" ELSE "takeToken")
  /\ UNCHANGED <<syncMap, tokens, req>>

(* RemoveVolumeAndLunLock deletes the LUN before it releases the volume.   *)
RemoveLunLock(t) ==
  /\ pc[t] = "removeLun"
  /\ syncMap' = syncMap \ {req[t].lun}
  /\ Goto(t, "takeToken")
  /\ UNCHANGED <<tokens, req>>

(* RemoveVolumeLock: the receive blocks while the channel is empty.        *)
TakeToken(t) ==
  /\ pc[t] = "takeToken"
  /\ tokens > 0
  /\ tokens' = tokens - 1
  /\ Goto(t, "removeVolume")
  /\ UNCHANGED <<syncMap, req>>

RemoveVolumeLock(t) ==
  /\ pc[t] = "removeVolume"
  /\ syncMap' = syncMap \ {req[t].volume}
  /\ Return(t)
  /\ UNCHANGED tokens

Step(t) ==
  \/ AddLunLock(t)    \/ AddVolumeLock(t) \/ PutToken(t)
  \/ TokenTimeout(t)  \/ UndoLunLock(t)   \/ Finish(t)
  \/ RemoveLunLock(t) \/ TakeToken(t)     \/ RemoveVolumeLock(t)

Next == \E t \in Threads : Call(t) \/ Step(t)

(* The Go scheduler runs every runnable goroutine, and a handler's body    *)
(* ends; nobody has to call.                                               *)
Fairness == \A t \in Threads : WF_vars(Step(t))

Spec == Init /\ [][Next]_vars

FairSpec == Spec /\ Fairness

-----------------------------------------------------------------------------
(* Who holds what: the threads whose id is in the map, those whose token   *)
(* is in the channel, and those whose LUN is in the map.                   *)
OwnsVolume(t) ==
  pc[t] \in {"awaitToken", "locked", "removeLun", "takeToken", "removeVolume"}

OwnsToken(t) == pc[t] \in {"locked", "removeLun", "takeToken"}

OwnsLun(t) ==
  /\ LocksLun(t)
  /\ pc[t] \in {"addVolume", "awaitToken", "undoLun", "locked", "removeLun"}

TokenOwners == {t \in Threads : OwnsToken(t)}

TypeOK ==
  /\ syncMap \subseteq Volumes \union Luns
  /\ tokens \in 0 .. MaxInvocations
  /\ pc \in [Threads -> Phase]
  /\ req \in [Threads -> Request \union {NoRequest}]
  /\ \A t \in Threads : pc[t] # "idle" => req[t] \in Request

(* No two handlers run on one volume, and no two stage handlers on one LUN *)
(* when SCSI cleaning is on (node.go's handlers rely on it).               *)
MutualExclusion ==
  \A t, u \in Threads :
    t # u /\ OwnsVolume(t) /\ OwnsVolume(u) => req[t].volume # req[u].volume

LunExclusion ==
  \A t, u \in Threads :
    t # u /\ OwnsLun(t) /\ OwnsLun(u) => req[t].lun # req[u].lun

(* Every key of the map has a thread that will delete it: a key left       *)
(* behind would refuse every later request for that volume or LUN.         *)
NoOrphanKey ==
  \A k \in syncMap :
    \E t \in Threads : \/ OwnsVolume(t) /\ req[t].volume = k
                       \/ OwnsLun(t) /\ req[t].lun = k

(* Every key a thread relies on is in the map: no error path of another    *)
(* thread deleted it.                                                      *)
OwnedKeysPresent ==
  \A t \in Threads : /\ OwnsVolume(t) => req[t].volume \in syncMap
                     /\ OwnsLun(t) => req[t].lun \in syncMap

(* The channel holds one token per handler that runs, so the receive in    *)
(* RemoveVolumeLock, made before the id is deleted, never blocks.          *)
TokenAccounting == tokens = Cardinality(TokenOwners)

(* Every request gets its answer.                                          *)
RequestsReturn == \A t \in Threads : pc[t] # "idle" ~> pc[t] = "idle"

(* The promise, under the mapping that calls a request granted while its   *)
(* thread is in the handler's body.                                        *)
Promise == INSTANCE NodeLockPromise
             WITH granted <- [t \in Threads |->
                                IF pc[t] = "locked" THEN req[t] ELSE None]

ImplementsPromise == Promise!Spec
=============================================================================
