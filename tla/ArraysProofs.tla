---------------------------- MODULE ArraysProofs ----------------------------
(***************************************************************************)
(* Lemmas about Arrays, for every number of threads, names, identifiers,   *)
(* arrays and systems, and any number of requests, failures and restarts.  *)
(* A behaviour is of one service; each has its own inductive invariant,    *)
(* and all of them share that of the request lock.                         *)
(*                                                                         *)
(* Here is what the services share, the routing of requests to the arrays, *)
(* and the volumes and snapshots on SolidFire, in a storage partition, on  *)
(* XIV and on E-Series.  ServicesProofs has publishing, groups,            *)
(* replication and hosts, ObjectsProofs the other arrays and what holds of *)
(* the objects on all of them.                                             *)
(***************************************************************************)
EXTENDS Arrays, FiniteSetTheorems, TLAPS


-----------------------------------------------------------------------------
(* The request lock.                                                       *)

(* A thread has a request while it is not idle, the locks taken are those  *)
(* of the requests, and no two requests have the same.                     *)
Locked ==
  /\ pc = [t \in Threads |-> pc[t]]
  /\ req = [t \in Threads |-> req[t]]
  /\ local = [t \in Threads |-> local[t]]
  /\ \A t \in Threads : pc[t] = "idle" <=> req[t] = None
  /\ ids_in_use = {LockOf(req[t]) : t \in {x \in Threads : req[x] # None}}
  /\ \A t, u \in Threads :
       req[t] # None /\ req[u] # None /\ LockOf(req[t]) = LockOf(req[u]) => t = u

(* How a step of t may change the requests: not at all, or t goes on, or   *)
(* its handler returns, or it takes a request whose lock is free.          *)
Moves(t) ==
  /\ service' = service
  /\ local' = [u \in Threads |-> local'[u]]
  /\ \/ UNCHANGED <<ids_in_use, pc, req>>
     \/ /\ pc[t] # "idle" /\ pc'[t] # "idle"
        /\ pc' = [u \in Threads |-> IF u = t THEN pc'[t] ELSE pc[u]]
        /\ UNCHANGED <<ids_in_use, req>>
     \/ /\ pc[t] # "idle"
        /\ ids_in_use' = ids_in_use \ {LockOf(req[t])}
        /\ pc' = [u \in Threads |-> IF u = t THEN "idle" ELSE pc[u]]
        /\ req' = [u \in Threads |-> IF u = t THEN None ELSE req[u]]
     \/ /\ pc[t] = "idle" /\ pc'[t] # "idle" /\ req'[t] # None
        /\ LockOf(req'[t]) \notin ids_in_use
        /\ ids_in_use' = ids_in_use \union {LockOf(req'[t])}
        /\ pc' = [u \in Threads |-> IF u = t THEN pc'[t] ELSE pc[u]]
        /\ req' = [u \in Threads |-> IF u = t THEN req'[t] ELSE req[u]]

LEMMA MovesKeepLocked ==
  ASSUME Locked, NEW t \in Threads, Moves(t)
  PROVE  Locked'
<1>1. CASE UNCHANGED <<ids_in_use, pc, req>>
  <2>1. local' = [u \in Threads |-> local'[u]]
    BY DEF Moves
  <2>2. pc' = pc /\ req' = req /\ ids_in_use' = ids_in_use
    BY <1>1
  <2> QED
    BY <2>1, <2>2 DEF Locked
<1>2. CASE /\ pc[t] # "idle" /\ pc'[t] # "idle"
           /\ pc' = [u \in Threads |-> IF u = t THEN pc'[t] ELSE pc[u]]
           /\ UNCHANGED <<ids_in_use, req>>
  BY <1>2 DEF Locked, Moves
<1>3. CASE /\ pc[t] # "idle"
           /\ ids_in_use' = ids_in_use \ {LockOf(req[t])}
           /\ pc' = [u \in Threads |-> IF u = t THEN "idle" ELSE pc[u]]
           /\ req' = [u \in Threads |-> IF u = t THEN None ELSE req[u]]
  BY <1>3 DEF Locked, Moves
<1>4. CASE /\ pc[t] = "idle" /\ pc'[t] # "idle" /\ req'[t] # None
           /\ LockOf(req'[t]) \notin ids_in_use
           /\ ids_in_use' = ids_in_use \union {LockOf(req'[t])}
           /\ pc' = [u \in Threads |-> IF u = t THEN pc'[t] ELSE pc[u]]
           /\ req' = [u \in Threads |-> IF u = t THEN req'[t] ELSE req[u]]
  <2>1. /\ pc' = [u \in Threads |-> pc'[u]] /\ req' = [u \in Threads |-> req'[u]]
        /\ local' = [u \in Threads |-> local'[u]]
        /\ \A u \in Threads : pc'[u] = "idle" <=> req'[u] = None
    BY <1>4 DEF Locked, Moves
  <2>2. req[t] = None /\ \A u \in Threads : u # t => req'[u] = req[u]
    BY <1>4 DEF Locked
  <2>3. ids_in_use' = {LockOf(req'[u]) : u \in {x \in Threads : req'[x] # None}}
    BY <1>4, <2>2 DEF Locked
  <2>4. ASSUME NEW u \in Threads, NEW w \in Threads, req'[u] # None, req'[w] # None,
               LockOf(req'[u]) = LockOf(req'[w])
        PROVE  u = w
    BY <1>4, <2>2, <2>4 DEF Locked
  <2> QED
    BY <2>1, <2>3, <2>4 DEF Locked
<1> QED
  BY <1>1, <1>2, <1>3, <1>4 DEF Moves

(* What other threads have in hand stays as it is.                         *)
Alone(t) ==
  \A u \in Threads \ {t} : pc'[u] = pc[u] /\ req'[u] = req[u] /\ local'[u] = local[u]

LEMMA ProceedMoves ==
  ASSUME Locked, NEW t \in Threads, pc[t] # "idle", NEW to, to # "idle", NEW memo,
         Proceed(t, to, memo)
  PROVE  /\ Moves(t) /\ Alone(t) /\ calls' = calls
         /\ pc'[t] = to /\ req'[t] = req[t] /\ local'[t] = memo
  BY DEF Locked, Moves, Proceed, Alone

LEMMA ContinueMoves ==
  ASSUME Locked, NEW t \in Threads, pc[t] # "idle", NEW to, to # "idle", Continue(t, to)
  PROVE  /\ Moves(t) /\ Alone(t) /\ calls' = calls
         /\ pc'[t] = to /\ req'[t] = req[t] /\ local'[t] = local[t]
  BY DEF Locked, Moves, Continue, Proceed, Alone

LEMMA ReturnMoves ==
  ASSUME Locked, NEW t \in Threads, pc[t] # "idle", Return(t)
  PROVE  /\ Moves(t) /\ Alone(t) /\ calls' = calls
         /\ pc'[t] = "idle" /\ req'[t] = None /\ local'[t] = None
  BY DEF Locked, Moves, Return, Alone

LEMMA RejectMoves ==
  ASSUME Locked, NEW t \in Threads, pc[t] # "idle", Reject(t)
  PROVE  /\ Moves(t) /\ Alone(t) /\ calls' = calls
         /\ pc'[t] = "idle" /\ req'[t] = None /\ local'[t] = None
         /\ UNCHANGED <<array, memory, known, failures, crashes>>
  BY ReturnMoves DEF Reject, NoFault

LEMMA EnterMoves ==
  ASSUME Locked, NEW t \in Threads, NEW r, r # None, NEW place, place # "idle", NEW memo,
         Enter(t, r, place, memo)
  PROVE  /\ Moves(t) /\ Alone(t) /\ pc[t] = "idle"
         /\ pc'[t] = place /\ req'[t] = r /\ local'[t] = memo
         /\ \A u \in Threads : req[u] # None => LockOf(req[u]) # LockOf(r)
         /\ UNCHANGED <<service, array, memory, failures, crashes>>
  BY DEF Locked, Moves, Enter, Alone

LEMMA CrashKeepsLocked ==
  ASSUME Locked, Crash
  PROVE  Locked'
  BY DEF Locked, Crash

LEMMA InitLocked ==
  ASSUME NEW type, InitService(type)
  PROVE  Locked
  BY DEF Locked, InitService

-----------------------------------------------------------------------------
(* Each service takes steps of its own only, and all of them keep the      *)
(* request lock.                                                           *)

LEMMA RollBackMoves ==
  ASSUME Locked, NEW t \in Threads, pc[t] # "idle", NEW to, to # "idle"
  PROVE  (RollBack(t, to) => Moves(t)) /\ (TryAgain(t, to) => Moves(t))
  BY ProceedMoves, ReturnMoves DEF RollBack, TryAgain

LEMMA ReportMoves ==
  ASSUME Locked, NEW t \in Threads, pc[t] # "idle"
  PROVE  /\ \A u : Report(t, u) => Moves(t)
         /\ Deleted(t) => Moves(t)
         /\ Expanded(t) => Moves(t)
  BY ReturnMoves DEF Report, Deleted, Expanded

LEMMA CallObjectsMove ==
  ASSUME Locked, NEW t \in Threads, CallObjects(t)
  PROVE  service \in ObjectServices /\ service' = service /\ Locked'
<1> DEFINE place(r) == CASE r.op \in CreateOps -> "find"
                         [] r.op \in DeleteOps -> "look"
                         [] OTHER -> "expand"
           memo(r) == [NoMemo EXCEPT !.mine = IF r.op \in CreateOps THEN None ELSE r.uid]
<1>1. PICK r \in Allowed : Enter(t, r, place(r), memo(r))
  BY DEF CallObjects
<1>2. r \in Request
  BY ArrayObjectsAssumption DEF Allowed, Asking, Request, Ops, CreateOps, DeleteOps, Names,
     Volumes, Snapshots, Reported
<1>3. place(r) # "idle"
  OBVIOUS
<1> HIDE DEF place, memo
<1>4. Moves(t)
  BY <1>1, <1>2, <1>3, ArrayObjectsAssumption, EnterMoves
<1> QED
  BY <1>4, MovesKeepLocked DEF CallObjects, Moves

LEMMA DS8KMove ==
  ASSUME Locked, DS8KNext
  PROVE  service = "ds8k" /\ service' = service /\ Locked'
<1>1. ASSUME NEW t \in Threads, DS8KFind(t)
      PROVE  service = "ds8k" /\ Moves(t)
  BY <1>1, ProceedMoves, ContinueMoves, RejectMoves DEF DS8KFind, At
<1>2. ASSUME NEW t \in Threads, DS8KToggle(t)
      PROVE  service = "ds8k" /\ Moves(t)
  BY <1>2, ReturnMoves, ReportMoves DEF DS8KToggle, At
<1>3. ASSUME NEW t \in Threads, DS8KCreate(t)
      PROVE  service = "ds8k" /\ Moves(t)
  BY <1>3, ProceedMoves, RejectMoves DEF DS8KCreate, At
<1>4. ASSUME NEW t \in Threads, DS8KReadBack(t)
      PROVE  service = "ds8k" /\ Moves(t)
  BY <1>4, ContinueMoves, ReportMoves DEF DS8KReadBack, At
<1>5. ASSUME NEW t \in Threads, DS8KCopySource(t)
      PROVE  service = "ds8k" /\ Moves(t)
  BY <1>5, ContinueMoves, RollBackMoves DEF DS8KCopySource, At, CopySource
<1>6. ASSUME NEW t \in Threads, DS8KFlashcopy(t)
      PROVE  service = "ds8k" /\ Moves(t)
  BY <1>6, ContinueMoves, RollBackMoves DEF DS8KFlashcopy, At
<1>7. ASSUME NEW t \in Threads, DS8KVerify(t)
      PROVE  service = "ds8k" /\ Moves(t)
  BY <1>7, ReportMoves DEF DS8KVerify, At
<1>8. ASSUME NEW t \in Threads, DS8KInvalid(t)
      PROVE  service = "ds8k" /\ Moves(t)
  BY <1>8, ReturnMoves, RollBackMoves DEF DS8KInvalid, At
<1>9. ASSUME NEW t \in Threads, DS8KUndo(t)
      PROVE  service = "ds8k" /\ Moves(t)
  BY <1>9, ReturnMoves DEF DS8KUndo, At
<1>10. ASSUME NEW t \in Threads, DS8KLook(t)
      PROVE  service = "ds8k" /\ Moves(t)
  BY <1>10, ProceedMoves, ReturnMoves, RollBackMoves, ReportMoves
     DEF DS8KLook, At, Refused, DS8KOnError
<1>11. ASSUME NEW t \in Threads, DS8KDeleteCopies(t)
      PROVE  service = "ds8k" /\ Moves(t)
  BY <1>11, ProceedMoves, ContinueMoves, ReturnMoves, RollBackMoves
     DEF DS8KDeleteCopies, At, Refused, DS8KOnError
<1>12. ASSUME NEW t \in Threads, DS8KDeleteVolume(t)
      PROVE  service = "ds8k" /\ Moves(t)
  BY <1>12, ContinueMoves, ReturnMoves, RollBackMoves, ReportMoves
     DEF DS8KDeleteVolume, At, Refused, DS8KOnError
<1>13. ASSUME NEW t \in Threads, DS8KForget(t)
      PROVE  service = "ds8k" /\ Moves(t)
  BY <1>13, ReportMoves DEF DS8KForget, At
<1>14. ASSUME NEW t \in Threads, DS8KExpand(t)
      PROVE  service = "ds8k" /\ Moves(t)
  BY <1>14, ProceedMoves, RejectMoves, ReportMoves DEF DS8KExpand, At
<1>15. ASSUME NEW t \in Threads, DS8KExtend(t)
      PROVE  service = "ds8k" /\ Moves(t)
  BY <1>15, RejectMoves, ReportMoves DEF DS8KExtend, At
<1>16. ASSUME NEW t \in Threads, DS8KFail(t)
      PROVE  service = "ds8k" /\ Moves(t)
  BY <1>16, ReturnMoves, RollBackMoves DEF DS8KFail, DS8KOnError
<1>17. ASSUME FinishCopy
      PROVE  service = "ds8k" /\ service' = service /\ Locked'
  BY <1>17 DEF FinishCopy, Locked, NoFault
<1> QED
  BY <1>1, <1>2, <1>3, <1>4, <1>5, <1>6, <1>7, <1>8, <1>9, <1>10, <1>11, <1>12, <1>13, <1>14,
     <1>15, <1>16, <1>17, MovesKeepLocked
     DEF DS8KNext, Moves

LEMMA XIVMove ==
  ASSUME Locked, XIVNext
  PROVE  service = "xiv" /\ service' = service /\ Locked'
<1>1. ASSUME NEW t \in Threads, XIVFind(t)
      PROVE  service = "xiv" /\ Moves(t)
  BY <1>1, ContinueMoves, RejectMoves, ReportMoves DEF XIVFind, At
<1>2. ASSUME NEW t \in Threads, XIVCreate(t)
      PROVE  service = "xiv" /\ Moves(t)
  BY <1>2, ProceedMoves, RejectMoves, ReportMoves DEF XIVCreate, At
<1>3. ASSUME NEW t \in Threads, XIVCopySource(t)
      PROVE  service = "xiv" /\ Moves(t)
  BY <1>3, ProceedMoves, RollBackMoves DEF XIVCopySource, At, CopySource
<1>4. ASSUME NEW t \in Threads, XIVCopy(t)
      PROVE  service = "xiv" /\ Moves(t)
  BY <1>4, ContinueMoves, RollBackMoves, ReportMoves DEF XIVCopy, At
<1>5. ASSUME NEW t \in Threads, XIVResize(t)
      PROVE  service = "xiv" /\ Moves(t)
  BY <1>5, ReportMoves DEF XIVResize, At
<1>6. ASSUME NEW t \in Threads, XIVLook(t)
      PROVE  service = "xiv" /\ Moves(t)
  BY <1>6, ProceedMoves, ReturnMoves, RollBackMoves, ReportMoves DEF XIVLook, At, XIVOnError
<1>7. ASSUME NEW t \in Threads, XIVRemove(t)
      PROVE  service = "xiv" /\ Moves(t)
  BY <1>7, ReportMoves DEF XIVRemove, At
<1>8. ASSUME NEW t \in Threads, XIVExpand(t)
      PROVE  service = "xiv" /\ Moves(t)
  BY <1>8, ProceedMoves, RejectMoves, ReportMoves DEF XIVExpand, At
<1>9. ASSUME NEW t \in Threads, XIVExtend(t)
      PROVE  service = "xiv" /\ Moves(t)
  BY <1>9, ReturnMoves, RejectMoves, ReportMoves DEF XIVExtend, At
<1>10. ASSUME NEW t \in Threads, XIVFail(t)
      PROVE  service = "xiv" /\ Moves(t)
  BY <1>10, ReturnMoves, RollBackMoves DEF XIVFail, XIVOnError
<1> QED
  BY <1>1, <1>2, <1>3, <1>4, <1>5, <1>6, <1>7, <1>8, <1>9, <1>10, MovesKeepLocked
     DEF XIVNext, Moves

LEMMA SANtricityMove ==
  ASSUME Locked, SANtricityNext
  PROVE  service = "santricity" /\ service' = service /\ Locked'
<1>1. ASSUME NEW t \in Threads, SANtricityFind(t)
      PROVE  service = "santricity" /\ Moves(t)
  BY <1>1, ContinueMoves, RejectMoves, ReportMoves DEF SANtricityFind, At
<1>2. ASSUME NEW t \in Threads, SANtricityCreate(t)
      PROVE  service = "santricity" /\ Moves(t)
  BY <1>2, ProceedMoves, RejectMoves, ReportMoves DEF SANtricityCreate
<1>3. ASSUME NEW t \in Threads, SANtricityCopySource(t)
      PROVE  service = "santricity" /\ Moves(t)
  BY <1>3, ReportMoves, RollBackMoves DEF SANtricityCopySource, At, CopySource
<1>4. ASSUME NEW t \in Threads, SANtricityChooseGroup(t)
      PROVE  service = "santricity" /\ Moves(t)
  BY <1>4, ProceedMoves, RejectMoves DEF SANtricityChooseGroup, At
<1>5. ASSUME NEW t \in Threads, SANtricityCreateImage(t)
      PROVE  service = "santricity" /\ Moves(t)
  BY <1>5, ProceedMoves, RejectMoves DEF SANtricityCreateImage, At
<1>6. ASSUME NEW t \in Threads, SANtricityNewest(t)
      PROVE  service = "santricity" /\ Moves(t)
  BY <1>6, RejectMoves, ReportMoves DEF SANtricityNewest, At
<1>7. ASSUME NEW t \in Threads, SANtricityDeleteVolume(t)
      PROVE  service = "santricity" /\ Moves(t)
  BY <1>7, ReturnMoves DEF SANtricityDeleteVolume, At
<1>8. ASSUME NEW t \in Threads, SANtricityFindGroup(t)
      PROVE  service = "santricity" /\ Moves(t)
  BY <1>8, ProceedMoves, ReportMoves DEF SANtricityFindGroup, At
<1>9. ASSUME NEW t \in Threads, SANtricityRemoveGroup(t)
      PROVE  service = "santricity" /\ Moves(t)
  BY <1>9, ReturnMoves DEF SANtricityRemoveGroup, At
<1>10. ASSUME NEW t \in Threads, SANtricityExpand(t)
      PROVE  service = "santricity" /\ Moves(t)
  BY <1>10, RejectMoves, ReportMoves DEF SANtricityExpand, At
<1>11. ASSUME NEW t \in Threads, SANtricityFail(t)
      PROVE  service = "santricity" /\ Moves(t)
  BY <1>11, ContinueMoves, ReturnMoves, RollBackMoves, ReportMoves
     DEF SANtricityFail, SANtricityOnError
<1> QED
  BY <1>1, <1>2, <1>3, <1>4, <1>5, <1>6, <1>7, <1>8, <1>9, <1>10, <1>11, MovesKeepLocked
     DEF SANtricityNext, Moves

LEMMA SolidFireMove ==
  ASSUME Locked, SolidFireNext
  PROVE  service = "solidfire" /\ service' = service /\ Locked'
<1>1. ASSUME NEW t \in Threads, SolidFireFind(t)
      PROVE  service = "solidfire" /\ Moves(t)
  BY <1>1, ContinueMoves, RejectMoves, ReportMoves DEF SolidFireFind, At
<1>2. ASSUME NEW t \in Threads, SolidFireCreate(t)
      PROVE  service = "solidfire" /\ Moves(t)
  BY <1>2, ProceedMoves, RejectMoves DEF SolidFireCreate, At
<1>3. ASSUME NEW t \in Threads, SolidFireReadBack(t)
      PROVE  service = "solidfire" /\ Moves(t)
  BY <1>3, ContinueMoves, ReportMoves DEF SolidFireReadBack, At
<1>4. ASSUME NEW t \in Threads, SolidFireCopySource(t)
      PROVE  service = "solidfire" /\ Moves(t)
  BY <1>4, RollBackMoves DEF SolidFireCopySource, At
<1>5. ASSUME NEW t \in Threads, SolidFireDelete(t)
      PROVE  service = "solidfire" /\ Moves(t)
  BY <1>5, RollBackMoves, ReportMoves DEF SolidFireDelete, At
<1>6. ASSUME NEW t \in Threads, SolidFireExpand(t)
      PROVE  service = "solidfire" /\ Moves(t)
  BY <1>6, RejectMoves, ReportMoves DEF SolidFireExpand, At
<1>7. ASSUME NEW t \in Threads, SolidFireFail(t)
      PROVE  service = "solidfire" /\ Moves(t)
  BY <1>7, ContinueMoves, ReturnMoves, RollBackMoves DEF SolidFireFail
<1> QED
  BY <1>1, <1>2, <1>3, <1>4, <1>5, <1>6, <1>7, MovesKeepLocked DEF SolidFireNext, Moves

LEMMA FunctionMove ==
  ASSUME Locked, SnapshotFunctionNext
  PROVE  service = "snapshotFunction" /\ service' = service /\ Locked'
<1>1. ASSUME NEW t \in Threads, FunctionFind(t)
      PROVE  service = "snapshotFunction" /\ Moves(t)
  BY <1>1, ContinueMoves, RejectMoves, ReportMoves DEF FunctionFind, At, AtFunction, Step
<1>2. ASSUME NEW t \in Threads, FunctionCreate(t)
      PROVE  service = "snapshotFunction" /\ Moves(t)
  BY <1>2, ProceedMoves, RejectMoves DEF FunctionCreate, At, AtFunction
<1>3. ASSUME NEW t \in Threads, AddSnapshot(t)
      PROVE  service = "snapshotFunction" /\ Moves(t)
  BY <1>3, ProceedMoves, RejectMoves DEF AddSnapshot, At, AtFunction
<1>4. ASSUME NEW t \in Threads, AddTemporarySnapshot(t)
      PROVE  service = "snapshotFunction" /\ Moves(t)
  BY <1>4, ContinueMoves, RejectMoves DEF AddTemporarySnapshot, At, AtFunction, Step
<1>5. ASSUME NEW t \in Threads, MakeFromSnapshot(t)
      PROVE  service = "snapshotFunction" /\ Moves(t)
  BY <1>5, ContinueMoves, RejectMoves DEF MakeFromSnapshot, At, AtFunction, Step
<1>6. ASSUME NEW t \in Threads, ReadGroupVolume(t)
      PROVE  service = "snapshotFunction" /\ Moves(t)
  BY <1>6, ProceedMoves DEF ReadGroupVolume, At, AtFunction
<1>7. ASSUME NEW t \in Threads, LeaveTemporaryGroup(t)
      PROVE  service = "snapshotFunction" /\ Moves(t)
  BY <1>7, ContinueMoves DEF LeaveTemporaryGroup, At, AtFunction, Step
<1>8. ASSUME NEW t \in Threads, RemoveTemporaryGroup(t)
      PROVE  service = "snapshotFunction" /\ Moves(t)
  BY <1>8, ContinueMoves DEF RemoveTemporaryGroup, At, AtFunction, Step
<1>9. ASSUME NEW t \in Threads, RenameVolume(t)
      PROVE  service = "snapshotFunction" /\ Moves(t)
  BY <1>9, ContinueMoves DEF RenameVolume, At, AtFunction, Step
<1>10. ASSUME NEW t \in Threads, RemoveTemporarySnapshot(t)
      PROVE  service = "snapshotFunction" /\ Moves(t)
  BY <1>10, ContinueMoves DEF RemoveTemporarySnapshot, At, AtFunction, Step
<1>11. ASSUME NEW t \in Threads, FunctionReadBack(t)
      PROVE  service = "snapshotFunction" /\ Moves(t)
  BY <1>11, RejectMoves, ReportMoves DEF FunctionReadBack, At, AtFunction
<1>12. ASSUME NEW t \in Threads, UndoFunctionVolume(t)
      PROVE  service = "snapshotFunction" /\ Moves(t)
  BY <1>12, ContinueMoves DEF UndoFunctionVolume, At, AtFunction, Step
<1>13. ASSUME NEW t \in Threads, UndoTemporaryGroup(t)
      PROVE  service = "snapshotFunction" /\ Moves(t)
  BY <1>13, ReturnMoves DEF UndoTemporaryGroup, At, AtFunction
<1>14. ASSUME NEW t \in Threads, FunctionLook(t)
      PROVE  service = "snapshotFunction" /\ Moves(t)
  BY <1>14, ContinueMoves, RejectMoves, ReportMoves DEF FunctionLook, At, AtFunction, Step
<1>15. ASSUME NEW t \in Threads, FunctionRemove(t)
      PROVE  service = "snapshotFunction" /\ Moves(t)
  BY <1>15, ReportMoves DEF FunctionRemove, At, AtFunction
<1>16. ASSUME NEW t \in Threads, FunctionExpand(t)
      PROVE  service = "snapshotFunction" /\ Moves(t)
  BY <1>16, ContinueMoves, RejectMoves, ReportMoves DEF FunctionExpand, At, AtFunction, Step
<1>17. ASSUME NEW t \in Threads, FunctionExtend(t)
      PROVE  service = "snapshotFunction" /\ Moves(t)
  BY <1>17, RejectMoves, ReportMoves DEF FunctionExtend, At, AtFunction
<1>18. ASSUME NEW t \in Threads, FunctionFail(t)
      PROVE  service = "snapshotFunction" /\ Moves(t)
  BY <1>18, ContinueMoves, ReturnMoves DEF FunctionFail
<1> QED
  BY <1>1, <1>2, <1>3, <1>4, <1>5, <1>6, <1>7, <1>8, <1>9, <1>10, <1>11, <1>12, <1>13, <1>14,
     <1>15, <1>16, <1>17, <1>18, MovesKeepLocked
     DEF SnapshotFunctionNext, Moves

LEMMA PartitionMove ==
  ASSUME Locked, PartitionNext
  PROVE  service = "partition" /\ service' = service /\ Locked'
<1>1. ASSUME NEW t \in Threads, PartitionFind(t)
      PROVE  service = "partition" /\ Moves(t)
  BY <1>1, ContinueMoves, RejectMoves, ReportMoves DEF PartitionFind, At, AtPartition, Goes
<1>2. ASSUME NEW t \in Threads, PartitionCreate(t)
      PROVE  service = "partition" /\ Moves(t)
  BY <1>2, ContinueMoves, RejectMoves DEF PartitionCreate, At, AtPartition, Goes
<1>3. ASSUME NEW t \in Threads, AddGroupSnapshot(t)
      PROVE  service = "partition" /\ Moves(t)
  BY <1>3, ContinueMoves, RejectMoves DEF AddGroupSnapshot, At, AtPartition, Goes
<1>4. ASSUME NEW t \in Threads, CloneFromSnapshot(t)
      PROVE  service = "partition" /\ Moves(t)
  BY <1>4, ProceedMoves, ContinueMoves DEF CloneFromSnapshot, At, AtPartition, Goes
<1>5. ASSUME NEW t \in Threads, RemoveGroupSnapshot(t)
      PROVE  service = "partition" /\ Moves(t)
  BY <1>5, ContinueMoves, ReturnMoves DEF RemoveGroupSnapshot, At, AtPartition
<1>6. ASSUME NEW t \in Threads, PartitionReadBack(t)
      PROVE  service = "partition" /\ Moves(t)
  BY <1>6, RejectMoves, ReportMoves DEF PartitionReadBack, At, AtPartition
<1>7. ASSUME NEW t \in Threads, PartitionLook(t)
      PROVE  service = "partition" /\ Moves(t)
  BY <1>7, ProceedMoves, ReportMoves DEF PartitionLook, At, AtPartition
<1>8. ASSUME NEW t \in Threads, PartitionRemove(t)
      PROVE  service = "partition" /\ Moves(t)
  BY <1>8, ReportMoves DEF PartitionRemove, At, AtPartition
<1>9. ASSUME NEW t \in Threads, PartitionExpand(t)
      PROVE  service = "partition" /\ Moves(t)
  BY <1>9, ProceedMoves, RejectMoves, ReportMoves DEF PartitionExpand, At, AtPartition
<1>10. ASSUME NEW t \in Threads, PartitionExtend(t)
      PROVE  service = "partition" /\ Moves(t)
  BY <1>10, ReturnMoves, RejectMoves, ReportMoves DEF PartitionExtend, At, AtPartition
<1>11. ASSUME NEW t \in Threads, PartitionFail(t)
      PROVE  service = "partition" /\ Moves(t)
  BY <1>11, ContinueMoves, ReturnMoves DEF PartitionFail
<1>12. ASSUME DiscardSnapshot
      PROVE  service = "partition" /\ service' = service /\ Locked'
  BY <1>12 DEF DiscardSnapshot, Locked, NoFault
<1> QED
  BY <1>1, <1>2, <1>3, <1>4, <1>5, <1>6, <1>7, <1>8, <1>9, <1>10, <1>11, <1>12,
     MovesKeepLocked
     DEF PartitionNext, Moves

LEMMA MappingsMove ==
  ASSUME Locked, MappingsNext
  PROVE  service = "mappings" /\ service' = service /\ Locked'
<1>1. ASSUME NEW t \in Threads, CallMappings(t)
      PROVE  service = "mappings" /\ Moves(t)
  <2>1. PICK r \in MappingRequest, place \in MappingPlace \ {"idle"} : Enter(t, r, place, NoMapping)
    BY <1>1 DEF CallMappings, MappingPlace
  <2> QED
    BY <1>1, <2>1, ArrayMappingsAssumption, EnterMoves DEF CallMappings
<1>2. ASSUME NEW t \in Threads, ReadMappings(t)
      PROVE  service = "mappings" /\ Moves(t)
  BY <1>2, ContinueMoves, ReturnMoves, RejectMoves DEF ReadMappings, At, Published
<1>3. ASSUME NEW t \in Threads, ChooseLun(t)
      PROVE  service = "mappings" /\ Moves(t)
  BY <1>3, ProceedMoves, RejectMoves DEF ChooseLun, At
<1>4. ASSUME NEW t \in Threads, MapByLun(t)
      PROVE  service = "mappings" /\ Moves(t)
  BY <1>4, ContinueMoves, ReturnMoves, RejectMoves DEF MapByLun, At, Published
<1>5. ASSUME NEW t \in Threads, MapByArray(t)
      PROVE  service = "mappings" /\ Moves(t)
  BY <1>5, ContinueMoves, ReturnMoves, RejectMoves DEF MapByArray, At, Published
<1>6. ASSUME NEW t \in Threads, ReadLun(t)
      PROVE  service = "mappings" /\ Moves(t)
  BY <1>6, ReturnMoves DEF ReadLun, At, Published
<1>7. ASSUME NEW t \in Threads, FindMapping(t)
      PROVE  service = "mappings" /\ Moves(t)
  BY <1>7, ProceedMoves, ReturnMoves DEF FindMapping, At, Unpublished
<1>8. ASSUME NEW t \in Threads, Unmap(t)
      PROVE  service = "mappings" /\ Moves(t)
  BY <1>8, ReturnMoves DEF Unmap, At, Unpublished
<1>9. ASSUME NEW t \in Threads, MappingFails(t)
      PROVE  service = "mappings" /\ Moves(t)
  BY <1>9, ReturnMoves DEF MappingFails, Published, Unpublished
<1> QED
  BY <1>1, <1>2, <1>3, <1>4, <1>5, <1>6, <1>7, <1>8, <1>9, MovesKeepLocked
     DEF MappingsNext, Moves

LEMMA GroupsMove ==
  ASSUME Locked, GroupsNext
  PROVE  service = "groups" /\ service' = service /\ Locked'
<1>1. ASSUME NEW t \in Threads, CallGroups(t)
      PROVE  service = "groups" /\ Moves(t)
  <2>1. PICK r \in GroupRequest, place \in GroupPlace \ {"idle"} : Enter(t, r, place, NoMembers)
    BY <1>1 DEF CallGroups, GroupPlace
  <2> QED
    BY <1>1, <2>1, GroupsAssumption, EnterMoves DEF CallGroups
<1>2. ASSUME NEW t \in Threads, FindGroup(t)
      PROVE  service = "groups" /\ Moves(t)
  BY <1>2, ContinueMoves, RejectMoves DEF FindGroup, At
<1>3. ASSUME NEW t \in Threads, MakeGroup(t)
      PROVE  service = "groups" /\ Moves(t)
  BY <1>3, ReturnMoves DEF MakeGroup, At
<1>4. ASSUME NEW t \in Threads, ReadGroup(t)
      PROVE  service = "groups" /\ Moves(t)
  BY <1>4, ContinueMoves, ReturnMoves DEF ReadGroup, At, GroupDeleted
<1>5. ASSUME NEW t \in Threads, RemoveGroup(t)
      PROVE  service = "groups" /\ Moves(t)
  BY <1>5, ReturnMoves, RejectMoves DEF RemoveGroup, At, GroupDeleted
<1>6. ASSUME NEW t \in Threads, ReadMembers(t)
      PROVE  service = "groups" /\ Moves(t)
  BY <1>6, ProceedMoves, RejectMoves DEF ReadMembers, At
<1>7. ASSUME NEW t \in Threads, AddNext(t)
      PROVE  service = "groups" /\ Moves(t)
  BY <1>7, ProceedMoves, ContinueMoves, RejectMoves DEF AddNext, At
<1>8. ASSUME NEW t \in Threads, Join(t)
      PROVE  service = "groups" /\ Moves(t)
  BY <1>8, ProceedMoves, RejectMoves DEF Join, At
<1>9. ASSUME NEW t \in Threads, LeaveNext(t)
      PROVE  service = "groups" /\ Moves(t)
  BY <1>9, ProceedMoves, ContinueMoves DEF LeaveNext, At
<1>10. ASSUME NEW t \in Threads, Confirm(t)
      PROVE  service = "groups" /\ Moves(t)
  BY <1>10, ReturnMoves, RejectMoves DEF Confirm, At
<1>11. ASSUME NEW t \in Threads, GroupsFail(t)
      PROVE  service = "groups" /\ Moves(t)
  BY <1>11, ReturnMoves DEF GroupsFail
<1> QED
  BY <1>1, <1>2, <1>3, <1>4, <1>5, <1>6, <1>7, <1>8, <1>9, <1>10, <1>11, MovesKeepLocked
     DEF GroupsNext, Moves

LEMMA ReplicationMove ==
  ASSUME Locked, ReplicationNext
  PROVE  service = "replication" /\ service' = service /\ Locked'
<1>1. ASSUME NEW t \in Threads, CallReplication(t)
      PROVE  service = "replication" /\ Moves(t)
  <2>1. PICK r \in ReplicationRequest : Enter(t, r, "get", [disturbed |-> FALSE])
    BY <1>1 DEF CallReplication
  <2> QED
    BY <1>1, <2>1, ReplicationAssumption, EnterMoves DEF CallReplication
<1>2. ASSUME NEW t \in Threads, GetToEnable(t)
      PROVE  service = "replication" /\ Moves(t)
  BY <1>2, ContinueMoves, ReturnMoves, RejectMoves DEF GetToEnable, At, Done, GoOn, Answered
<1>3. ASSUME NEW t \in Threads, GetToDisable(t)
      PROVE  service = "replication" /\ Moves(t)
  BY <1>3, ContinueMoves, ReturnMoves DEF GetToDisable, At, Done, GoOn, Answered
<1>4. ASSUME NEW t \in Threads, GetToSwitch(t)
      PROVE  service = "replication" /\ Moves(t)
  BY <1>4, ContinueMoves, ReturnMoves, RejectMoves DEF GetToSwitch, At, Done, GoOn, Answered
<1>5. ASSUME NEW t \in Threads, MakeMirror(t)
      PROVE  service = "replication" /\ Moves(t)
  BY <1>5, ContinueMoves, RejectMoves DEF MakeMirror, At
<1>6. ASSUME NEW t \in Threads, StartMirror(t)
      PROVE  service = "replication" /\ Moves(t)
  BY <1>6, ReturnMoves DEF StartMirror, At, Answered
<1>7. ASSUME NEW t \in Threads, StopMirror(t)
      PROVE  service = "replication" /\ Moves(t)
  BY <1>7, ContinueMoves DEF StopMirror, At
<1>8. ASSUME NEW t \in Threads, RemoveMirror(t)
      PROVE  service = "replication" /\ Moves(t)
  BY <1>8, ReturnMoves DEF RemoveMirror, At, Answered
<1>9. ASSUME NEW t \in Threads, LookAtMirror(t)
      PROVE  service = "replication" /\ Moves(t)
  BY <1>9, ContinueMoves, ReturnMoves DEF LookAtMirror, At, Done, GoOn, Answered
<1>10. ASSUME NEW t \in Threads, RestartMirror(t)
      PROVE  service = "replication" /\ Moves(t)
  BY <1>10, ContinueMoves DEF RestartMirror, At
<1>11. ASSUME NEW t \in Threads, SwitchMirror(t)
      PROVE  service = "replication" /\ Moves(t)
  BY <1>11, ReturnMoves, RejectMoves DEF SwitchMirror, At, Answered
<1>12. ASSUME NEW t \in Threads, DetachPolicy(t)
      PROVE  service = "replication" /\ Moves(t)
  BY <1>12, ContinueMoves, ReturnMoves DEF DetachPolicy, At, Answered
<1>13. ASSUME NEW t \in Threads, AttachPolicy(t)
      PROVE  service = "replication" /\ Moves(t)
  BY <1>13, ReturnMoves DEF AttachPolicy, At, Answered
<1>14. ASSUME NEW t \in Threads, FreeGroup(t)
      PROVE  service = "replication" /\ Moves(t)
  BY <1>14, ContinueMoves DEF FreeGroup, At
<1>15. ASSUME NEW t \in Threads, ProduceGroup(t)
      PROVE  service = "replication" /\ Moves(t)
  BY <1>15, ReturnMoves DEF ProduceGroup, At, Answered
<1>16. ASSUME NEW t \in Threads, ReplicationFails(t)
      PROVE  service = "replication" /\ Moves(t)
  BY <1>16, ContinueMoves, ReturnMoves DEF ReplicationFails, Answered
<1>17. ASSUME OtherSide
      PROVE  service = "replication" /\ service' = service /\ Locked'
  BY <1>17 DEF OtherSide, Locked, NoFault
<1> QED
  BY <1>1, <1>2, <1>3, <1>4, <1>5, <1>6, <1>7, <1>8, <1>9, <1>10, <1>11, <1>12, <1>13, <1>14,
     <1>15, <1>16, <1>17, MovesKeepLocked
     DEF ReplicationNext, Moves

LEMMA HostsMove ==
  ASSUME Locked, HostsNext, known.recorded \in NodePorts \union {None}
  PROVE  service = "hosts" /\ service' = service /\ Locked'
<1>1. ASSUME NEW t \in Threads, CallHosts(t)
      PROVE  service = "hosts" /\ Moves(t)
  <2>1. PICK op \in {"define", "undefine"}, s \in NextSettings :
          Enter(t, [op |-> op, worker |-> t, setting |-> s,
                    recorded |-> IF known.recorded = None THEN s.ports ELSE known.recorded],
                IF op = "define" THEN "findHost" ELSE "findUndefined", NoHostMemo)
    BY <1>1 DEF CallHosts
  <2> DEFINE r == [op |-> op, worker |-> t, setting |-> s,
                   recorded |-> IF known.recorded = None THEN s.ports ELSE known.recorded]
             place == IF op = "define" THEN "findHost" ELSE "findUndefined"
  <2>2. r \in HostRequest /\ place # "idle"
    BY DEF HostRequest, NextSettings, Setting
  <2> HIDE DEF r, place
  <2>3. Enter(t, r, place, NoHostMemo)
    BY <2>1 DEF r, place
  <2> QED
    BY <1>1, <2>2, <2>3, ArrayHostsAssumption, EnterMoves DEF CallHosts
<1>2. ASSUME NEW t \in Threads, FindHost(t)
      PROVE  service = "hosts" /\ Moves(t)
  BY <1>2, ProceedMoves, ReturnMoves DEF FindHost, At, AtHost, Refuse, Move, Creation, Answer
<1>3. ASSUME NEW t \in Threads, VerifyPartition(t)
      PROVE  service = "hosts" /\ Moves(t)
  BY <1>3, ProceedMoves, ReturnMoves
     DEF VerifyPartition, At, AtHost, Move, IsGone, Creation, Fails, Answer, Salvage
<1>4. ASSUME NEW t \in Threads, DropHost(t)
      PROVE  service = "hosts" /\ Moves(t)
  BY <1>4, ProceedMoves, ReturnMoves
     DEF DropHost, At, AtHost, Move, Creation, RemoveHost, Fails, Answer, Salvage
<1>5. ASSUME NEW t \in Threads, ReadPorts(t)
      PROVE  service = "hosts" /\ Moves(t)
  BY <1>5, ProceedMoves, ReturnMoves
     DEF ReadPorts, At, AtHost, Answer, Move, Salvage, IsGone, AfterPorts, Creation, Fails
<1>6. ASSUME NEW t \in Threads, RemovePorts(t)
      PROVE  service = "hosts" /\ Moves(t)
  BY <1>6, ProceedMoves, ReturnMoves
     DEF RemovePorts, At, AtHost, Move, Fails, AfterPorts, Answer, Salvage
<1>7. ASSUME NEW t \in Threads, ChangeProtocol(t)
      PROVE  service = "hosts" /\ Moves(t)
  BY <1>7, ProceedMoves, ReturnMoves
     DEF ChangeProtocol, At, AtHost, Move, Fails, Answer, Salvage
<1>8. ASSUME NEW t \in Threads, AddPorts(t)
      PROVE  service = "hosts" /\ Moves(t)
  BY <1>8, ProceedMoves, ReturnMoves DEF AddPorts, At, AtHost, Move, Fails, Answer, Salvage
<1>9. ASSUME NEW t \in Threads, CountPorts(t)
      PROVE  service = "hosts" /\ Moves(t)
  BY <1>9, ProceedMoves, ReturnMoves
     DEF CountPorts, At, AtHost, Move, IsGone, AfterPorts, Creation, Fails, Answer, Salvage
<1>10. ASSUME NEW t \in Threads, DropEmpty(t)
      PROVE  service = "hosts" /\ Moves(t)
  BY <1>10, ProceedMoves, ReturnMoves
     DEF DropEmpty, At, AtHost, Answer, Salvage, RemoveHost, Fails
<1>11. ASSUME NEW t \in Threads, TryPort(t)
      PROVE  service = "hosts" /\ Moves(t)
  BY <1>11, ProceedMoves, ReturnMoves
     DEF TryPort, At, AtHost, Move, Fails, NameTaken, Answer, Salvage
<1>12. ASSUME NEW t \in Threads, UntryPort(t)
      PROVE  service = "hosts" /\ Moves(t)
  BY <1>12, ProceedMoves, ReturnMoves
     DEF UntryPort, At, AtHost, Move, RemoveHost, Fails, Answer, Salvage
<1>13. ASSUME NEW t \in Threads, MakeHost(t)
      PROVE  service = "hosts" /\ Moves(t)
  BY <1>13, ProceedMoves, ReturnMoves
     DEF MakeHost, At, AtHost, Move, Fails, NameTaken, Answer, Salvage
<1>14. ASSUME NEW t \in Threads, Validate(t)
      PROVE  service = "hosts" /\ Moves(t)
  BY <1>14, ProceedMoves, ReturnMoves DEF Validate, At, AtHost, Move, Fails, Answer, Salvage
<1>15. ASSUME NEW t \in Threads, ReadGroups(t)
      PROVE  service = "hosts" /\ Moves(t)
  BY <1>15, ProceedMoves DEF ReadGroups, At, AtHost, Move, Creation
<1>16. ASSUME NEW t \in Threads, RemoveGroups(t)
      PROVE  service = "hosts" /\ Moves(t)
  BY <1>16, ProceedMoves DEF RemoveGroups, At, AtHost, Move, Creation
<1>17. ASSUME NEW t \in Threads, AddGroups(t)
      PROVE  service = "hosts" /\ Moves(t)
  BY <1>17, ProceedMoves DEF AddGroups, At, AtHost, Move, Creation
<1>18. ASSUME NEW t \in Threads, Respond(t)
      PROVE  service = "hosts" /\ Moves(t)
  BY <1>18, ProceedMoves, ReturnMoves DEF Respond, At, AtHost, Answer, Fails, Salvage
<1>19. ASSUME NEW t \in Threads, FindUndefined(t)
      PROVE  service = "hosts" /\ Moves(t)
  BY <1>19, ProceedMoves, ReturnMoves DEF FindUndefined, At, AtHost, Answer, Refuse, Move
<1>20. ASSUME NEW t \in Threads, UndefineHost(t)
      PROVE  service = "hosts" /\ Moves(t)
  BY <1>20, ProceedMoves, ReturnMoves
     DEF UndefineHost, At, AtHost, Answer, RemoveHost, Fails, Salvage
<1>21. ASSUME NEW t \in Threads, HostFail(t)
      PROVE  service = "hosts" /\ Moves(t)
  BY <1>21, ProceedMoves, ReturnMoves DEF HostFail, Answer, Salvage
<1> QED
  BY <1>1, <1>2, <1>3, <1>4, <1>5, <1>6, <1>7, <1>8, <1>9, <1>10, <1>11, <1>12, <1>13, <1>14,
     <1>15, <1>16, <1>17, <1>18, <1>19, <1>20, <1>21, MovesKeepLocked
     DEF HostsNext, Moves

(* No step of the host definer makes the process another service.          *)
LEMMA HostsStay ==
  ASSUME HostsNext
  PROVE  service = "hosts" /\ service' = service
<1>1. ASSUME NEW t \in Threads, CallHosts(t)
      PROVE  service = "hosts" /\ service' = service
  BY <1>1 DEF CallHosts, Enter
<1>2. ASSUME NEW t \in Threads, FindHost(t)
      PROVE  service = "hosts" /\ service' = service
  BY <1>2 DEF FindHost, At, AtHost, Refuse, Move, Creation, Answer, Proceed, Return
<1>3. ASSUME NEW t \in Threads, VerifyPartition(t)
      PROVE  service = "hosts" /\ service' = service
  BY <1>3 DEF VerifyPartition, At, AtHost, Move, IsGone, Creation, Fails, Answer, Salvage, Proceed, Return
<1>4. ASSUME NEW t \in Threads, DropHost(t)
      PROVE  service = "hosts" /\ service' = service
  BY <1>4 DEF DropHost, At, AtHost, Move, Creation, RemoveHost, Fails, Answer, Salvage, Proceed, Return
<1>5. ASSUME NEW t \in Threads, ReadPorts(t)
      PROVE  service = "hosts" /\ service' = service
  BY <1>5 DEF ReadPorts, At, AtHost, Answer, Move, Salvage, IsGone, AfterPorts, Creation, Fails, Proceed, Return
<1>6. ASSUME NEW t \in Threads, RemovePorts(t)
      PROVE  service = "hosts" /\ service' = service
  BY <1>6 DEF RemovePorts, At, AtHost, Move, Fails, AfterPorts, Answer, Salvage, Proceed, Return
<1>7. ASSUME NEW t \in Threads, ChangeProtocol(t)
      PROVE  service = "hosts" /\ service' = service
  BY <1>7 DEF ChangeProtocol, At, AtHost, Move, Fails, Answer, Salvage, Proceed, Return
<1>8. ASSUME NEW t \in Threads, AddPorts(t)
      PROVE  service = "hosts" /\ service' = service
  BY <1>8 DEF AddPorts, At, AtHost, Move, Fails, Answer, Salvage, Proceed, Return
<1>9. ASSUME NEW t \in Threads, CountPorts(t)
      PROVE  service = "hosts" /\ service' = service
  BY <1>9 DEF CountPorts, At, AtHost, Move, IsGone, AfterPorts, Creation, Fails, Answer, Salvage, Proceed, Return
<1>10. ASSUME NEW t \in Threads, DropEmpty(t)
      PROVE  service = "hosts" /\ service' = service
  BY <1>10 DEF DropEmpty, At, AtHost, Answer, Salvage, RemoveHost, Fails, Proceed, Return
<1>11. ASSUME NEW t \in Threads, TryPort(t)
      PROVE  service = "hosts" /\ service' = service
  BY <1>11 DEF TryPort, At, AtHost, Move, Fails, NameTaken, Answer, Salvage, Proceed, Return
<1>12. ASSUME NEW t \in Threads, UntryPort(t)
      PROVE  service = "hosts" /\ service' = service
  BY <1>12 DEF UntryPort, At, AtHost, Move, RemoveHost, Fails, Answer, Salvage, Proceed, Return
<1>13. ASSUME NEW t \in Threads, MakeHost(t)
      PROVE  service = "hosts" /\ service' = service
  BY <1>13 DEF MakeHost, At, AtHost, Move, Fails, NameTaken, Answer, Salvage, Proceed, Return
<1>14. ASSUME NEW t \in Threads, Validate(t)
      PROVE  service = "hosts" /\ service' = service
  BY <1>14 DEF Validate, At, AtHost, Move, Fails, Answer, Salvage, Proceed, Return
<1>15. ASSUME NEW t \in Threads, ReadGroups(t)
      PROVE  service = "hosts" /\ service' = service
  BY <1>15 DEF ReadGroups, At, AtHost, Move, Creation, Proceed, Return
<1>16. ASSUME NEW t \in Threads, RemoveGroups(t)
      PROVE  service = "hosts" /\ service' = service
  BY <1>16 DEF RemoveGroups, At, AtHost, Move, Creation, Proceed, Return
<1>17. ASSUME NEW t \in Threads, AddGroups(t)
      PROVE  service = "hosts" /\ service' = service
  BY <1>17 DEF AddGroups, At, AtHost, Move, Creation, Proceed, Return
<1>18. ASSUME NEW t \in Threads, Respond(t)
      PROVE  service = "hosts" /\ service' = service
  BY <1>18 DEF Respond, At, AtHost, Answer, Fails, Salvage, Proceed, Return
<1>19. ASSUME NEW t \in Threads, FindUndefined(t)
      PROVE  service = "hosts" /\ service' = service
  BY <1>19 DEF FindUndefined, At, AtHost, Answer, Refuse, Move, Proceed, Return
<1>20. ASSUME NEW t \in Threads, UndefineHost(t)
      PROVE  service = "hosts" /\ service' = service
  BY <1>20 DEF UndefineHost, At, AtHost, Answer, RemoveHost, Fails, Salvage, Proceed, Return
<1>21. ASSUME NEW t \in Threads, HostFail(t)
      PROVE  service = "hosts" /\ service' = service
  BY <1>21 DEF HostFail, Answer, Salvage, Proceed, Return
<1> QED
  BY <1>1, <1>2, <1>3, <1>4, <1>5, <1>6, <1>7, <1>8, <1>9, <1>10, <1>11, <1>12, <1>13, <1>14,
     <1>15, <1>16, <1>17, <1>18, <1>19, <1>20, <1>21
     DEF HostsNext

LEMMA OthersStay ==
  ASSUME MappingsNext \/ GroupsNext \/ ReplicationNext \/ HostsNext,
         service \in {"mappings", "groups", "replication"} => Locked
  PROVE  /\ service \in {"mappings", "groups", "replication", "hosts"} /\ service' = service
         /\ service # "hosts" => Locked'
<1>1. CASE MappingsNext
  <2>1. service = "mappings"
    BY Zenon, <1>1 DEF MappingsNext, CallMappings, ReadMappings, ChooseLun, MapByLun, MapByArray,
       ReadLun, FindMapping, Unmap, MappingFails, At
  <2> QED
    BY <1>1, <2>1, MappingsMove
<1>2. CASE GroupsNext
  <2>1. service = "groups"
    BY Zenon, <1>2 DEF GroupsNext, CallGroups, FindGroup, MakeGroup, ReadGroup, RemoveGroup,
       ReadMembers, AddNext, Join, LeaveNext, Confirm, GroupsFail, At
  <2> QED
    BY <1>2, <2>1, GroupsMove
<1>3. CASE ReplicationNext
  <2>1. service = "replication"
    BY ZenonT(60), <1>3 DEF ReplicationNext, CallReplication, GetToEnable, GetToDisable, GetToSwitch,
       MakeMirror, StartMirror, StopMirror, RemoveMirror, LookAtMirror, RestartMirror, SwitchMirror,
       DetachPolicy, AttachPolicy, FreeGroup, ProduceGroup, ReplicationFails, OtherSide, At
  <2> QED
    BY <1>3, <2>1, ReplicationMove
<1>4. CASE HostsNext
  BY <1>4, HostsStay
<1> QED
  BY <1>1, <1>2, <1>3, <1>4

LEMMA RoutingMove ==
  ASSUME Locked, RoutingNext, array.secret \in Secret, known.told \subseteq RoutedId
  PROVE  service = "routing" /\ service' = service /\ Locked'
<1>1. ASSUME ChangeRouting
      PROVE  service = "routing" /\ service' = service /\ Locked'
  BY <1>1 DEF ChangeRouting, Locked, NoFault
<1>2. ASSUME NEW t \in Threads, CallRouting(t)
      PROVE  service = "routing" /\ Moves(t)
  <2>1. CASE \E n \in RoutedNames, z \in Zones \union {None} :
               Enter(t, [op |-> "createVolume", name |-> n, uid |-> None, zone |-> z,
                         secret |-> array.secret], "choose", NoRoute)
    <3>1. PICK r \in RoutedRequest : Enter(t, r, "choose", NoRoute)
      BY <2>1 DEF RoutedRequest
    <3> QED
      BY <1>2, <3>1, RoutingAssumption, EnterMoves DEF CallRouting
  <2>2. CASE \E id \in known.told \ known.gone :
               Enter(t, [op |-> "deleteVolume", name |-> id.volume.name, uid |-> id, zone |-> None,
                         secret |-> array.secret], "choose", NoRoute)
    <3>1. PICK r \in RoutedRequest : Enter(t, r, "choose", NoRoute)
      BY <2>2 DEF RoutedRequest, RoutedId, RoutedVolume
    <3> QED
      BY <1>2, <3>1, RoutingAssumption, EnterMoves DEF CallRouting
  <2> QED
    BY <1>2, <2>1, <2>2 DEF CallRouting
<1>3. ASSUME NEW t \in Threads, Choose(t)
      PROVE  service = "routing" /\ Moves(t)
  BY <1>3, ProceedMoves, ReturnMoves, RejectMoves DEF Choose, At, RoutingStep, DetectArrayType
<1>4. ASSUME NEW t \in Threads, GetAgent(t)
      PROVE  service = "routing" /\ Moves(t)
  BY <1>4, ProceedMoves, ReturnMoves DEF GetAgent, At, RoutingStep
<1>5. ASSUME NEW t \in Threads, ServeRequest(t)
      PROVE  service = "routing" /\ Moves(t)
  BY <1>5, ContinueMoves, ReturnMoves, RejectMoves DEF ServeRequest, At
<1>6. ASSUME NEW t \in Threads, AnswerRouted(t)
      PROVE  service = "routing" /\ Moves(t)
  BY <1>6, ReturnMoves DEF AnswerRouted, At
<1> QED
  BY <1>1, <1>2, <1>3, <1>4, <1>5, <1>6, MovesKeepLocked DEF RoutingNext, Moves

(* A state that has not changed keeps its invariant.                       *)
LEMMA StutterKeepsLocked ==
  ASSUME Locked, UNCHANGED vars
  PROVE  Locked'
<1>1. UNCHANGED <<ids_in_use, pc, req, local>>
  BY DEF vars
<1>2. /\ pc' = [t \in Threads |-> pc'[t]] /\ req' = [t \in Threads |-> req'[t]]
      /\ local' = [t \in Threads |-> local'[t]]
      /\ \A t \in Threads : pc'[t] = "idle" <=> req'[t] = None
      /\ ids_in_use' = {LockOf(req'[t]) : t \in {x \in Threads : req'[x] # None}}
  BY <1>1 DEF Locked
<1>3. \A t, u \in Threads :
        req'[t] # None /\ req'[u] # None /\ LockOf(req'[t]) = LockOf(req'[u]) => t = u
  BY <1>1 DEF Locked
<1> QED
  BY <1>2, <1>3 DEF Locked

-----------------------------------------------------------------------------
(* The array a request is for.                                             *)

(* A set of numbers up to n has a least one.                               *)
LEMMA LeastElement ==
  ASSUME NEW n \in Nat, NEW S, S \subseteq 1 .. n, S # {}
  PROVE  \E m \in S : \A k \in S : m <= k
<1> DEFINE Below(k) == {j \in 1 .. n : j < k}
           T == {Below(k) : k \in S}
<1>1. T \subseteq FiniteSubsetsOf(1 .. n) /\ T # {}
  <2>1. IsFiniteSet(1 .. n)
    BY FS_Interval
  <2>2. FiniteSubsetsOf(1 .. n) = SUBSET (1 .. n)
    BY <2>1, FS_FiniteSubsetsOfFinite
  <2>3. T \subseteq SUBSET (1 .. n) /\ T # {}
    OBVIOUS
  <2> QED
    BY <2>2, <2>3
<1>2. IsWellFoundedOn(StrictSubsetOrdering(1 .. n), FiniteSubsetsOf(1 .. n))
  BY FS_StrictSubsetOrderingWellFounded
<1>3. PICK x \in T : \A y \in T : ~ (<<y, x>> \in StrictSubsetOrdering(1 .. n))
  <2> HIDE DEF T
  <2> QED
    BY <1>1, <1>2, WFMin
<1>4. PICK m \in S : x = Below(m)
  OBVIOUS
<1>5. ASSUME NEW k \in S, k < m
      PROVE  FALSE
  <2>1. /\ Below(k) \in T /\ Below(k) \in SUBSET (1 .. n) /\ Below(m) \in SUBSET (1 .. n)
        /\ Below(k) \subseteq Below(m) /\ k \in Below(m) /\ k \notin Below(k)
    BY <1>5
  <2>2. <<Below(k), Below(m)>> \in StrictSubsetOrdering(1 .. n)
    <3> HIDE DEF Below
    <3> QED
      BY <2>1 DEF StrictSubsetOrdering
  <2> QED
    BY <1>3, <1>4, <2>1, <2>2
<1> QED
  BY <1>5

(* The earliest of some members of a sequence is one of them.              *)
LEMMA EarliestIsOne ==
  ASSUME NEW X, NEW seq \in Seq(X), NEW S, S \subseteq Range(seq), S # {}
  PROVE  EarliestIn(seq, S) \in S
<1> DEFINE places == {i \in 1 .. Len(seq) : seq[i] \in S}
<1>1. places \subseteq 1 .. Len(seq) /\ places # {} /\ Len(seq) \in Nat
  BY DEF Range
<1>2. PICK i \in places : \A j \in places : i <= j
  <2> HIDE DEF places
  <2> QED
    BY <1>1, LeastElement
<1>3. ASSUME NEW y \in S \ {seq[i]}
      PROVE  Before(seq, seq[i], y)
  <2>1. PICK j \in 1 .. Len(seq) : seq[j] = y
    BY DEF Range
  <2>2. i < j
    BY <1>2, <1>3, <2>1
  <2> QED
    BY <1>2, <2>1, <2>2 DEF Before
<1>4. seq[i] \in S
  OBVIOUS
<1> QED
  BY <1>3, <1>4 DEF EarliestIn

LEMMA TypeOrderIsSequence ==
  TypeOrder \in Seq(ArrayTypes)
<1>1. TypeOrder \in Seq({"santricity", "xiv", "ds8k", "solidfire", "svc"})
  BY DEF TypeOrder
<1> HIDE DEF TypeOrder
<1>2. \A i \in 1 .. Len(TypeOrder) : TypeOrder[i] \in ArrayTypes
  BY <1>1 DEF ArrayTypes, Range
<1> QED
  BY <1>1, <1>2

(* An array answers at one address at least, as one type at least.         *)
LEMMA StorageHasType ==
  ASSUME NEW s \in Storage
  PROVE  Offered(s) # {} /\ Offered(s) \subseteq ArrayTypes /\ TypeOfStorage(s) \in Offered(s)
<1>1. Offered(s) # {} /\ Offered(s) \subseteq ArrayTypes
  <2>1. PICK e \in AddressesOf[s] : TypesAt[e] # {}
    BY Zenon, RoutingAssumption
  <2>2. \A c \in AddressesOf[s] : TypesAt[c] \subseteq ArrayTypes
    BY Zenon, RoutingAssumption
  <2> QED
    BY <2>1, <2>2 DEF Offered
<1> QED
  BY <1>1, TypeOrderIsSequence, EarliestIsOne DEF TypeOfStorage, ArrayTypes

StorageIn(secret, system) == secret[IF None \in DOMAIN secret THEN None ELSE system].storage

SameArrays(s, w) == DOMAIN s = DOMAIN w /\ \A k \in DOMAIN s : s[k].storage = w[k].storage

(* A config has an entry for each of its systems.                          *)
IsSystem(secret, k) == k \in Systems \union {None} /\ (None \in DOMAIN secret \/ k \in Systems)

RoutingTyped ==
  /\ array \in [secret : Secret, volumes : SUBSET RoutedVolume, password : [Storage -> Passwords]]
  /\ known \in [zone : [RoutedNames -> Zones \union {None}], told : SUBSET RoutedId,
                deleting : SUBSET RoutedId, gone : SUBSET RoutedId, changes : Nat, moved : BOOLEAN]
  /\ failures \in Nat

(* An identifier names the system of its volume's array, and the type of   *)
(* that array unless a connection failed.                                  *)
ToldInv ==
  \A id \in known.told :
    /\ IsSystem(array.secret, id.system)
    /\ id.volume.storage = StorageIn(array.secret, id.system)
    /\ failures = 0 => id.type = TypeOfStorage(id.volume.storage)

(* So are the types that are kept, and the agents.                         *)
MemoryInv ==
  \A s \in Storage :
    /\ \A e \in AddressesOf[s] : TypeKey(e) \in DOMAIN memory =>
         /\ memory[TypeKey(e)] \in ArrayTypes
         /\ failures = 0 => memory[TypeKey(e)] = TypeOfStorage(s)
    /\ \A y \in Systems \union {None} : AgentKey(s, y) \in DOMAIN memory =>
         /\ memory[AgentKey(s, y)] \in Agent
         /\ failures = 0 => memory[AgentKey(s, y)].type = TypeOfStorage(s)

(* A request holds an older secret, of the same arrays; once its system is *)
(* chosen it goes to the array of that system, which has its volume.       *)
Routed(t) ==
  pc[t] # "idle" =>
    /\ pc[t] \in RoutingPlace /\ req[t] \in RoutedRequest /\ local[t] \in RoutedMemo
    /\ SameArrays(req[t].secret, array.secret)
    /\ req[t].op = "createVolume" => req[t].uid = None
    /\ req[t].op = "deleteVolume" => req[t].uid \in known.told
    /\ pc[t] \in {"getAgent", "serve", "answer"} =>
         /\ IsSystem(req[t].secret, local[t].system)
         /\ local[t].storage = StorageIn(req[t].secret, local[t].system)
         /\ req[t].uid # None => local[t].storage = req[t].uid.volume.storage
         /\ local[t].type \in ArrayTypes
         /\ failures = 0 => local[t].type = TypeOfStorage(local[t].storage)
    /\ pc[t] \in {"serve", "answer"} =>
         /\ local[t].agent \in Agent
         /\ local[t].agent.password = EntryOf(req[t], local[t].system).password
         /\ failures = 0 => local[t].agent.type = TypeOfStorage(local[t].storage)

RoutingInv ==
  /\ Locked /\ RoutingTyped /\ ToldInv /\ MemoryInv
  /\ \A t \in Threads : Routed(t)

LEMMA RoutingServes ==
  ASSUME RoutingInv
  PROVE  ServedByItsOwn
  BY DEF RoutingInv, Routed, ServedByItsOwn

LEMMA KeysDiffer ==
  /\ \A e, f : TypeKey(e) = TypeKey(f) => e = f
  /\ \A s, w, y, z : AgentKey(s, y) = AgentKey(w, z) => s = w /\ y = z
  /\ \A e, s, y : TypeKey(e) # AgentKey(s, y)
  BY DEF TypeKey, AgentKey

LEMMA SystemHasEntry ==
  ASSUME NEW secret \in Secret, NEW k, IsSystem(secret, k)
  PROVE  /\ (IF None \in DOMAIN secret THEN None ELSE k) \in DOMAIN secret
         /\ StorageIn(secret, k) \in Storage
         /\ secret[IF None \in DOMAIN secret THEN None ELSE k] \in Entry
         /\ \A w : SameArrays(secret, w) => StorageIn(w, k) = StorageIn(secret, k) /\ IsSystem(w, k)
<1> DEFINE place == IF None \in DOMAIN secret THEN None ELSE k
<1>1. place \in DOMAIN secret /\ secret[place] \in Entry
  BY DEF Secret, IsSystem
<1>2. secret[place].storage \in Storage
  BY <1>1 DEF Entry
<1>3. ASSUME NEW w, SameArrays(secret, w)
      PROVE  StorageIn(w, k) = StorageIn(secret, k) /\ IsSystem(w, k)
  BY <1>1, <1>3 DEF SameArrays, StorageIn, IsSystem
<1> QED
  BY <1>1, <1>2, <1>3 DEF StorageIn

LEMMA InitRoutingInv ==
  ASSUME InitRouting
  PROVE  RoutingInv
<1> DEFINE p == CHOOSE x \in Passwords : TRUE
<1>1. PICK secret \in Secret :
        array = [secret |-> secret, volumes |-> {}, password |-> [s \in Storage |-> p]]
  BY DEF InitRouting
<1>2. p \in Passwords
  BY RoutingAssumption
<1> HIDE DEF p
<1>3. /\ memory = <<>> /\ failures = 0 /\ \A t \in Threads : pc[t] = "idle"
      /\ known = [zone |-> [n \in RoutedNames |-> None], told |-> {}, deleting |-> {}, gone |-> {},
                  changes |-> 0, moved |-> FALSE]
  BY DEF InitRouting, InitService
<1>4. Locked
  BY InitLocked DEF InitRouting
<1>5. RoutingTyped
  BY <1>1, <1>2, <1>3 DEF RoutingTyped
<1>6. DOMAIN memory = {}
  BY <1>3
<1> QED
  BY <1>3, <1>4, <1>5, <1>6 DEF RoutingInv, ToldInv, MemoryInv, Routed

(* What holds of the requests keeps holding while they wait, if secrets    *)
(* keep their arrays and nothing that was told is taken back.              *)
LEMMA RoutedWaits ==
  ASSUME RoutingInv, NEW u \in Threads,
         pc'[u] = pc[u], req'[u] = req[u], local'[u] = local[u],
         SameArrays(array.secret, array'.secret), known.told \subseteq known'.told,
         failures \in Nat, failures' \in {failures, failures + 1}
  PROVE  Routed(u)'
<1>1. Routed(u)
  BY DEF RoutingInv
<1>2. SameArrays(req[u].secret, array.secret) => SameArrays(req[u].secret, array'.secret)
  BY DEF SameArrays
<1>3. failures' = 0 => failures = 0
  OBVIOUS
<1> QED
  BY <1>1, <1>2, <1>3 DEF Routed, EntryOf

(* A step of t that leaves the table alone and tells nothing new.          *)
LEMMA RoutingGoesOn ==
  ASSUME RoutingInv, NEW t \in Threads, Moves(t), Alone(t), known' = known,
         array' \in [secret : {array.secret}, volumes : SUBSET RoutedVolume,
                     password : [Storage -> Passwords]],
         failures' \in {failures, failures + 1},
         MemoryInv', Routed(t)'
  PROVE  RoutingInv'
<1>1. Locked' /\ RoutingTyped' /\ failures \in Nat /\ array'.secret = array.secret
  BY MovesKeepLocked DEF RoutingInv, RoutingTyped
<1>2. SameArrays(array.secret, array'.secret)
  BY <1>1 DEF SameArrays
<1>3. ToldInv'
  BY <1>1 DEF RoutingInv, ToldInv
<1>4. ASSUME NEW u \in Threads, u # t
      PROVE  Routed(u)'
  BY <1>1, <1>2, <1>4, RoutedWaits DEF Alone
<1> QED
  BY <1>1, <1>3, <1>4 DEF RoutingInv

LEMMA MemoryStays ==
  ASSUME MemoryInv, memory' = memory, failures \in Nat, failures' \in {failures, failures + 1}
  PROVE  MemoryInv'
<1>1. failures' = 0 => failures = 0
  OBVIOUS
<1> QED
  BY <1>1 DEF MemoryInv

LEMMA RoutingFreed ==
  ASSUME RoutingInv, NEW t \in Threads, pc[t] # "idle", Return(t), UNCHANGED <<array, known>>,
         MemoryInv', failures' \in {failures, failures + 1}
  PROVE  RoutingInv'
<1>1. Moves(t) /\ Alone(t) /\ pc'[t] = "idle"
  BY ReturnMoves DEF RoutingInv
<1>2. Routed(t)'
  BY <1>1 DEF Routed
<1>3. array' \in [secret : {array.secret}, volumes : SUBSET RoutedVolume,
                  password : [Storage -> Passwords]]
  BY DEF RoutingInv, RoutingTyped
<1> QED
  BY <1>1, <1>2, <1>3, RoutingGoesOn

LEMMA RoutingReject ==
  ASSUME RoutingInv, NEW t \in Threads, pc[t] # "idle", Reject(t)
  PROVE  RoutingInv'
<1>1. MemoryInv'
  BY MemoryStays DEF RoutingInv, RoutingTyped, Reject, NoFault
<1> QED
  BY <1>1, RoutingFreed DEF Reject, NoFault

LEMMA ChangeRoutingKeeps ==
  ASSUME RoutingInv, ChangeRouting
  PROVE  RoutingInv'
<1>1. /\ RoutingTyped /\ UNCHANGED <<service, ids_in_use, pc, req, local, memory, failures>>
      /\ Locked'
  <2>1. RoutingTyped /\ Locked /\ UNCHANGED <<service, ids_in_use, pc, req, local, memory, failures>>
    BY DEF ChangeRouting, RoutingInv
  <2> QED
    BY <2>1 DEF Locked
<1>2. PICK k \in DOMAIN array.secret :
        /\ \/ \E f \in Entry : /\ f.storage = array.secret[k].storage
                               /\ array' = [array EXCEPT !.secret[k] = f]
           \/ \E p \in Passwords : array' = [array EXCEPT !.password[array.secret[k].storage] = p]
        /\ known' = [known EXCEPT !.changes = @ + 1,
             !.moved = @ \/ (array'.secret[k].zones # array.secret[k].zones)]
  <2>1. PICK k \in DOMAIN array.secret :
          LET e == array.secret[k]
              become(f) == array' = [array EXCEPT !.secret[k] = f]
          IN  /\ \/ \E p \in Passwords \ {e.password} :
                      \/ become([e EXCEPT !.password = p])
                      \/ array' = [array EXCEPT !.password[e.storage] = p]
                 \/ k # None /\ \E z \in (SUBSET Zones) \ {{}, e.zones} : become([e EXCEPT !.zones = z])
                 \/ become([e EXCEPT !.complete = ~ @])
              /\ known' = [known EXCEPT !.changes = @ + 1,
                   !.moved = @ \/ (array'.secret[k].zones # e.zones)]
    BY Zenon DEF ChangeRouting
  <2> DEFINE e == array.secret[k]
  <2>2. e \in Entry
    BY <1>1 DEF RoutingTyped, Secret
  <2>3. /\ \A p \in Passwords : [e EXCEPT !.password = p] \in Entry
                                /\ [e EXCEPT !.password = p].storage = e.storage
        /\ \A z \in SUBSET Zones : [e EXCEPT !.zones = z] \in Entry
                                   /\ [e EXCEPT !.zones = z].storage = e.storage
        /\ [e EXCEPT !.complete = ~ @] \in Entry /\ [e EXCEPT !.complete = ~ @].storage = e.storage
    BY <2>2 DEF Entry
  <2>4. \/ \E p \in Passwords : array' = [array EXCEPT !.secret[k] = [e EXCEPT !.password = p]]
        \/ \E p \in Passwords : array' = [array EXCEPT !.password[e.storage] = p]
        \/ \E z \in SUBSET Zones : array' = [array EXCEPT !.secret[k] = [e EXCEPT !.zones = z]]
        \/ array' = [array EXCEPT !.secret[k] = [e EXCEPT !.complete = ~ @]]
    BY <2>1
  <2>5. known' = [known EXCEPT !.changes = @ + 1,
                    !.moved = @ \/ (array'.secret[k].zones # e.zones)]
    BY <2>1
  <2> HIDE DEF e
  <2>7. \/ \E f \in Entry : f.storage = e.storage /\ array' = [array EXCEPT !.secret[k] = f]
        \/ \E p \in Passwords : array' = [array EXCEPT !.password[e.storage] = p]
    BY <2>3, <2>4
  <2> USE DEF e
  <2> QED
    BY Zenon, <2>5, <2>7
<1>3. /\ array' \in [secret : Secret, volumes : SUBSET RoutedVolume,
                     password : [Storage -> Passwords]]
      /\ SameArrays(array.secret, array'.secret) /\ SameArrays(array'.secret, array.secret)
  <2>1. /\ array \in [secret : Secret, volumes : SUBSET RoutedVolume,
                      password : [Storage -> Passwords]]
        /\ array.secret[k] \in Entry /\ array.secret[k].storage \in Storage
    BY <1>1 DEF RoutingTyped, Secret, Entry
  <2>2. ASSUME NEW f \in Entry, f.storage = array.secret[k].storage,
               array' = [array EXCEPT !.secret[k] = f]
        PROVE  /\ array' \in [secret : Secret, volumes : SUBSET RoutedVolume,
                              password : [Storage -> Passwords]]
               /\ SameArrays(array.secret, array'.secret) /\ SameArrays(array'.secret, array.secret)
    <3> DEFINE secret == [array.secret EXCEPT ![k] = f]
    <3>1. secret \in Secret
      BY <2>1 DEF Secret
    <3>2. /\ DOMAIN secret = DOMAIN array.secret
          /\ \A j \in DOMAIN secret : secret[j].storage = array.secret[j].storage
      BY <2>2
    <3>3. array' = [array EXCEPT !.secret = secret]
      BY <2>2
    <3> HIDE DEF secret
    <3> QED
      BY <2>1, <3>1, <3>2, <3>3 DEF SameArrays
  <2>3. ASSUME NEW p \in Passwords, array' = [array EXCEPT !.password[array.secret[k].storage] = p]
        PROVE  /\ array' \in [secret : Secret, volumes : SUBSET RoutedVolume,
                              password : [Storage -> Passwords]]
               /\ array'.secret = array.secret
    BY <2>1, <2>3
  <2> QED
    BY <1>2, <2>2, <2>3 DEF SameArrays
<1>4. known' \in [zone : {known.zone}, told : {known.told}, deleting : {known.deleting},
                  gone : {known.gone}, changes : Nat, moved : BOOLEAN]
  <2> DEFINE moved == known.moved \/ (array'.secret[k].zones # array.secret[k].zones)
             changed == [known EXCEPT !.changes = @ + 1]
  <2>1. changed \in [zone : {known.zone}, told : {known.told}, deleting : {known.deleting},
                     gone : {known.gone}, changes : Nat, moved : BOOLEAN]
    BY <1>1 DEF RoutingTyped
  <2>2. known' = [known EXCEPT !.changes = @ + 1, !.moved = moved]
    BY <1>2
  <2>3. known' = [changed EXCEPT !.moved = moved]
    BY Zenon, <2>2
  <2>4. moved \in BOOLEAN
    BY <1>1 DEF RoutingTyped
  <2> HIDE DEF moved, changed
  <2> QED
    BY <2>1, <2>3, <2>4
<1>5. RoutingTyped'
  BY <1>1, <1>3, <1>4 DEF RoutingTyped
<1>6. ToldInv'
  BY <1>1, <1>3, <1>4, SystemHasEntry DEF RoutingInv, RoutingTyped, ToldInv
<1>7. MemoryInv'
  BY <1>1, MemoryStays DEF RoutingInv, RoutingTyped
<1>8. ASSUME NEW u \in Threads
      PROVE  Routed(u)'
  BY <1>1, <1>3, <1>4, RoutedWaits DEF RoutingTyped
<1> QED
  BY <1>1, <1>5, <1>6, <1>7, <1>8 DEF RoutingInv

LEMMA CallRoutingKeeps ==
  ASSUME RoutingInv, NEW t \in Threads, CallRouting(t)
  PROVE  RoutingInv'
<1>1. PICK r \in RoutedRequest :
        /\ Enter(t, r, "choose", NoRoute) /\ r.secret = array.secret
        /\ r.op = "createVolume" => r.uid = None
        /\ r.op = "deleteVolume" => r.uid \in known.told
        /\ \/ known' = [known EXCEPT !.zone[r.name] = r.zone]
           \/ known' = [known EXCEPT !.deleting = @ \union {r.uid}] /\ r.uid \in known.told
  <2>1. CASE \E n \in RoutedNames, z \in Zones \union {None} :
               /\ Enter(t, [op |-> "createVolume", name |-> n, uid |-> None, zone |-> z,
                            secret |-> array.secret], "choose", NoRoute)
               /\ known' = [known EXCEPT !.zone[n] = z]
    <3>1. PICK n \in RoutedNames, z \in Zones \union {None} :
               /\ Enter(t, [op |-> "createVolume", name |-> n, uid |-> None, zone |-> z,
                            secret |-> array.secret], "choose", NoRoute)
               /\ known' = [known EXCEPT !.zone[n] = z]
      BY <2>1
    <3> DEFINE r == [op |-> "createVolume", name |-> n, uid |-> None, zone |-> z,
                     secret |-> array.secret]
    <3>2. r \in RoutedRequest
      BY DEF RoutedRequest, RoutingInv, RoutingTyped
    <3> QED
      BY <3>1, <3>2
  <2>2. CASE \E id \in known.told \ known.gone :
               /\ Enter(t, [op |-> "deleteVolume", name |-> id.volume.name, uid |-> id,
                            zone |-> None, secret |-> array.secret], "choose", NoRoute)
               /\ known' = [known EXCEPT !.deleting = @ \union {id}]
    <3>1. PICK id \in known.told \ known.gone :
               /\ Enter(t, [op |-> "deleteVolume", name |-> id.volume.name, uid |-> id,
                            zone |-> None, secret |-> array.secret], "choose", NoRoute)
               /\ known' = [known EXCEPT !.deleting = @ \union {id}]
      BY <2>2
    <3> DEFINE r == [op |-> "deleteVolume", name |-> id.volume.name, uid |-> id,
                     zone |-> None, secret |-> array.secret]
    <3>2. id \in RoutedId /\ id.volume.name \in RoutedNames
      BY DEF RoutingInv, RoutingTyped, RoutedId, RoutedVolume
    <3>3. r \in RoutedRequest
      BY <3>2 DEF RoutedRequest, RoutingInv, RoutingTyped
    <3> QED
      BY <3>1, <3>3
  <2> QED
    BY <2>1, <2>2 DEF CallRouting
<1>2. /\ Moves(t) /\ Alone(t) /\ pc'[t] = "choose" /\ req'[t] = r /\ local'[t] = NoRoute
      /\ UNCHANGED <<array, memory, failures>> /\ Locked'
  <2>1. Enter(t, r, "choose", NoRoute) /\ r # None /\ Locked
    BY <1>1, RoutingAssumption DEF RoutingInv
  <2> QED
    BY <2>1, EnterMoves, MovesKeepLocked
<1>3. /\ known' \in [zone : [RoutedNames -> Zones \union {None}], told : {known.told},
                     deleting : SUBSET RoutedId, gone : SUBSET RoutedId, changes : Nat,
                     moved : BOOLEAN]
  <2>1. r.name \in RoutedNames /\ r.zone \in Zones \union {None}
    BY DEF RoutedRequest
  <2> QED
    BY <1>1, <2>1 DEF RoutingInv, RoutingTyped
<1>4. RoutingTyped' /\ ToldInv'
  BY <1>2, <1>3 DEF RoutingInv, RoutingTyped, ToldInv
<1>5. MemoryInv'
  BY <1>2, MemoryStays DEF RoutingInv, RoutingTyped
<1>6. Routed(t)'
  BY <1>1, <1>2, <1>3 DEF Routed, RoutingPlace, RoutedMemo, NoRoute, SameArrays
<1>7. ASSUME NEW u \in Threads, u # t
      PROVE  Routed(u)'
  <2>1. SameArrays(array.secret, array'.secret) /\ failures \in Nat
    BY <1>2 DEF SameArrays, RoutingInv, RoutingTyped
  <2> QED
    BY <1>2, <1>3, <1>7, <2>1, RoutedWaits DEF Alone
<1> QED
  BY <1>2, <1>4, <1>5, <1>6, <1>7 DEF RoutingInv

RouteFor(r, k) == [NoRoute EXCEPT !.system = k, !.storage = EntryOf(r, k).storage]

LEMMA RouteIs ==
  ASSUME NEW r, NEW k
  PROVE  RouteFor(r, k) = [system |-> k, storage |-> EntryOf(r, k).storage, type |-> None, agent |-> None]
<1> DEFINE chosen == [NoRoute EXCEPT !.system = k]
<1>1. chosen = [system |-> k, storage |-> None, type |-> None, agent |-> None]
  BY DEF NoRoute
<1>2. RouteFor(r, k) = [chosen EXCEPT !.storage = EntryOf(r, k).storage]
  BY Zenon DEF RouteFor
<1> HIDE DEF chosen
<1> QED
  BY <1>1, <1>2

(* A request that is on its way to an agent, with the type to ask for.     *)
LEMMA RouteChosen ==
  ASSUME RoutingInv, NEW t \in Threads, pc[t] = "choose",
         NEW k, IsSystem(req[t].secret, k), NEW type \in ArrayTypes,
         RoutingStep(t, "getAgent", [RouteFor(req[t], k) EXCEPT !.type = type]),
         failures' \in {failures, failures + 1}, MemoryInv',
         req[t].uid # None => EntryOf(req[t], k).storage = req[t].uid.volume.storage,
         failures' = 0 => type = TypeOfStorage(EntryOf(req[t], k).storage)
  PROVE  RoutingInv'
<1> DEFINE s == EntryOf(req[t], k).storage
           memo == [RouteFor(req[t], k) EXCEPT !.type = type]
<1>1. /\ Routed(t) /\ req[t].secret \in Secret /\ k \in Systems \union {None}
      /\ UNCHANGED <<array, known>>
  BY DEF RoutingInv, Routed, RoutedRequest, IsSystem, RoutingStep
<1>2. s \in Storage /\ s = StorageIn(req[t].secret, k)
  BY <1>1, SystemHasEntry DEF EntryOf, StorageIn
<1> HIDE DEF s
<1>3. memo = [system |-> k, storage |-> s, type |-> type, agent |-> None]
  <2> DEFINE route == RouteFor(req[t], k)
  <2>1. route = [system |-> k, storage |-> s, type |-> None, agent |-> None]
    BY RouteIs DEF s
  <2>2. memo = [route EXCEPT !.type = type]
    OBVIOUS
  <2> HIDE DEF memo, route
  <2> QED
    BY <2>1, <2>2
<1>4. /\ Moves(t) /\ Alone(t) /\ pc'[t] = "getAgent" /\ req'[t] = req[t] /\ local'[t] = memo
  BY ProceedMoves DEF RoutingInv, RoutingStep
<1> HIDE DEF memo
<1>5. memo \in RoutedMemo
  BY <1>1, <1>2, <1>3 DEF RoutedMemo
<1>6. Routed(t)'
  BY <1>1, <1>2, <1>3, <1>4, <1>5 DEF Routed, RoutingPlace, s
<1>7. array' \in [secret : {array.secret}, volumes : SUBSET RoutedVolume,
                  password : [Storage -> Passwords]]
  BY <1>1 DEF RoutingInv, RoutingTyped
<1> QED
  BY <1>1, <1>4, <1>6, <1>7, RoutingGoesOn

(* The system of a request is one of its secret, and that of its volume.   *)
LEMMA ChoiceIsSystem ==
  ASSUME RoutingInv, NEW t \in Threads, pc[t] = "choose", NEW k \in Choices(req[t])
  PROVE  /\ IsSystem(req[t].secret, k)
         /\ EntryOf(req[t], k).storage \in Storage
         /\ req[t].uid # None => k = req[t].uid.system
         /\ req[t].uid # None => EntryOf(req[t], k).storage = req[t].uid.volume.storage
         /\ req[t].uid # None /\ failures = 0 =>
              req[t].uid.type = TypeOfStorage(EntryOf(req[t], k).storage)
         /\ req[t].uid # None => req[t].uid.type \in ArrayTypes
<1> DEFINE r == req[t]
<1>1. /\ r \in RoutedRequest /\ r.secret \in Secret /\ SameArrays(r.secret, array.secret)
      /\ r.uid # None => r.uid \in known.told /\ r.uid \in RoutedId
      /\ r.op \in {"createVolume", "deleteVolume"} /\ array.secret \in Secret
  BY DEF RoutingInv, Routed, RoutedRequest, RoutingTyped
<1>2. r.uid # None => IsSystem(array.secret, r.uid.system)
  BY <1>1 DEF RoutingInv, ToldInv
<1>3. IsSystem(r.secret, k) /\ (r.uid # None => k = r.uid.system)
  <2>1. CASE r.uid # None
    BY <1>1, <1>2, <2>1 DEF Choices, IsSystem, SameArrays
  <2>2. CASE r.uid = None /\ None \in DOMAIN r.secret
    BY <2>2 DEF Choices, IsSystem
  <2>3. CASE r.uid = None /\ None \notin DOMAIN r.secret
    <3>1. Matching(r) # {} /\ k = EarliestIn(SystemOrder, Matching(r))
      BY <2>3 DEF Choices
    <3>2. Matching(r) \subseteq Range(SystemOrder) /\ SystemOrder \in Seq(Systems)
      BY RoutingAssumption DEF Matching, Systems
    <3>3. k \in Matching(r)
      BY <3>1, <3>2, EarliestIsOne
    <3> QED
      BY <2>3, <3>3 DEF Matching, IsSystem
  <2> QED
    BY <2>1, <2>2, <2>3
<1>4. EntryOf(r, k).storage = StorageIn(r.secret, k) /\ StorageIn(r.secret, k) \in Storage
      /\ StorageIn(array.secret, k) = StorageIn(r.secret, k)
  BY <1>1, <1>3, SystemHasEntry DEF EntryOf, StorageIn
<1>5. r.uid # None =>
        /\ r.uid.volume.storage = StorageIn(array.secret, r.uid.system)
        /\ failures = 0 => r.uid.type = TypeOfStorage(r.uid.volume.storage)
        /\ r.uid.type \in ArrayTypes
  BY <1>1 DEF RoutingInv, ToldInv, RoutedId
<1> QED
  BY <1>3, <1>4, <1>5

LEMMA TypeKept ==
  ASSUME MemoryInv, failures \in Nat, failures' \in {failures, failures + 1},
         NEW s \in Storage, NEW e \in AddressesOf[s], NEW type \in ArrayTypes,
         failures' = 0 => type = TypeOfStorage(s),
         memory' = Kept(TypeKey(e), type)
  PROVE  MemoryInv'
<1>1. /\ DOMAIN memory' = {TypeKey(e)} \union DOMAIN memory
      /\ \A k \in DOMAIN memory' : memory'[k] = IF k = TypeKey(e) THEN type ELSE memory[k]
  BY DEF Kept
<1>2. failures' = 0 => failures = 0
  OBVIOUS
<1>3. ASSUME NEW w \in Storage, NEW f \in AddressesOf[w], TypeKey(f) \in DOMAIN memory'
      PROVE  /\ memory'[TypeKey(f)] \in ArrayTypes
             /\ failures' = 0 => memory'[TypeKey(f)] = TypeOfStorage(w)
  <2>1. CASE TypeKey(f) = TypeKey(e)
    BY <1>1, <1>3, <2>1, KeysDiffer, RoutingAssumption
  <2>2. CASE TypeKey(f) # TypeKey(e)
    BY <1>1, <1>2, <1>3, <2>2 DEF MemoryInv
  <2> QED
    BY <2>1, <2>2
<1>4. ASSUME NEW w \in Storage, NEW y \in Systems \union {None}, AgentKey(w, y) \in DOMAIN memory'
      PROVE  /\ memory'[AgentKey(w, y)] \in Agent
             /\ failures' = 0 => memory'[AgentKey(w, y)].type = TypeOfStorage(w)
  <2>1. AgentKey(w, y) # TypeKey(e)
    BY KeysDiffer
  <2> QED
    BY <1>1, <1>2, <1>4, <2>1 DEF MemoryInv
<1> QED
  BY <1>3, <1>4 DEF MemoryInv

LEMMA AgentKept ==
  ASSUME MemoryInv, failures \in Nat, failures' = failures,
         NEW s \in Storage, NEW k \in Systems \union {None}, NEW agent \in Agent,
         failures = 0 => agent.type = TypeOfStorage(s),
         memory' = Kept(AgentKey(s, k), agent)
  PROVE  MemoryInv'
<1>1. /\ DOMAIN memory' = {AgentKey(s, k)} \union DOMAIN memory
      /\ \A j \in DOMAIN memory' : memory'[j] = IF j = AgentKey(s, k) THEN agent ELSE memory[j]
  BY DEF Kept
<1>2. ASSUME NEW w \in Storage, NEW f \in AddressesOf[w], TypeKey(f) \in DOMAIN memory'
      PROVE  /\ memory'[TypeKey(f)] \in ArrayTypes
             /\ failures' = 0 => memory'[TypeKey(f)] = TypeOfStorage(w)
  <2>1. AgentKey(s, k) # TypeKey(f)
    BY KeysDiffer
  <2> QED
    BY <1>1, <1>2, <2>1 DEF MemoryInv
<1>3. ASSUME NEW w \in Storage, NEW y \in Systems \union {None}, AgentKey(w, y) \in DOMAIN memory'
      PROVE  /\ memory'[AgentKey(w, y)] \in Agent
             /\ failures' = 0 => memory'[AgentKey(w, y)].type = TypeOfStorage(w)
  <2>1. CASE AgentKey(w, y) = AgentKey(s, k)
    BY <1>1, <1>3, <2>1, KeysDiffer
  <2>2. CASE AgentKey(w, y) # AgentKey(s, k)
    BY <1>1, <1>3, <2>2 DEF MemoryInv
  <2> QED
    BY <2>1, <2>2
<1> QED
  BY <1>2, <1>3 DEF MemoryInv

LEMMA AgentDropped ==
  ASSUME MemoryInv, failures \in Nat, failures' \in {failures, failures + 1}, NEW key,
         memory' = [k \in DOMAIN memory \ {key} |-> memory[k]]
  PROVE  MemoryInv'
<1>1. failures' = 0 => failures = 0
  OBVIOUS
<1>2. /\ DOMAIN memory' = DOMAIN memory \ {key}
      /\ \A k \in DOMAIN memory' : memory'[k] = memory[k]
  OBVIOUS
<1> QED
  BY <1>1, <1>2 DEF MemoryInv

LEMMA ChooseKeeps ==
  ASSUME RoutingInv, NEW t \in Threads, Choose(t)
  PROVE  RoutingInv'
<1>1. /\ pc[t] = "choose" /\ Routed(t) /\ MemoryInv /\ failures \in Nat
      /\ req[t].op \in {"createVolume", "deleteVolume"}
      /\ req[t].op = "createVolume" <=> req[t].uid = None
  <2>1. pc[t] = "choose" /\ Routed(t) /\ MemoryInv /\ failures \in Nat
    <3>1. pc[t] = "choose"
      BY Zenon DEF Choose, At
    <3> QED
      BY <3>1 DEF RoutingInv, RoutingTyped
  <2>2. /\ req[t].op \in {"createVolume", "deleteVolume"}
        /\ req[t].op = "createVolume" => req[t].uid = None
        /\ req[t].op = "deleteVolume" => req[t].uid \in known.told
    BY <2>1 DEF Routed, RoutedRequest
  <2>3. None \notin known.told
    BY RoutingAssumption DEF RoutingInv, RoutingTyped
  <2> QED
    BY <2>1, <2>2, <2>3
<1>2. CASE Reject(t)
  BY <1>1, <1>2, RoutingReject
<1> DEFINE route(k) == RouteFor(req[t], k)
           s(k) == EntryOf(req[t], k).storage
<1>3. \A k : route(k).storage = s(k)
  BY RouteIs
<1>4. ASSUME NEW k \in Choices(req[t]), req[t].op = "createVolume", DetectArrayType(t, route(k))
      PROVE  RoutingInv'
  <2> DEFINE mine == AddressesOf[s(k)]
  <2>1. /\ IsSystem(req[t].secret, k) /\ s(k) \in Storage
    BY <1>1, <1>4, ChoiceIsSystem
  <2>2. AddressesOf[route(k).storage] = mine
    BY <1>3
  <2>3. ASSUME NEW type \in ArrayTypes, RoutingStep(t, "getAgent", [route(k) EXCEPT !.type = type]),
               failures' \in {failures, failures + 1}, MemoryInv',
               failures' = 0 => type = TypeOfStorage(s(k))
        PROVE  RoutingInv'
    <3>1. req[t].uid = None
      BY <1>1, <1>4
    <3>2. EntryOf(req[t], k).storage = s(k)
      OBVIOUS
    <3>3. RoutingStep(t, "getAgent", [RouteFor(req[t], k) EXCEPT !.type = type])
      BY <2>3
    <3> HIDE DEF route, s
    <3> QED
      BY <1>1, <2>1, <2>3, <3>1, <3>2, <3>3, RouteChosen
  <2>4. ASSUME NEW e \in mine, TypeKey(e) \in DOMAIN memory, NoFault, UNCHANGED memory,
               RoutingStep(t, "getAgent", [route(k) EXCEPT !.type = memory[TypeKey(e)]])
        PROVE  RoutingInv'
    <3>1. /\ memory[TypeKey(e)] \in ArrayTypes /\ failures' = failures
          /\ failures = 0 => memory[TypeKey(e)] = TypeOfStorage(s(k))
      BY <1>1, <2>1, <2>4 DEF MemoryInv, NoFault
    <3>2. MemoryInv'
      BY <1>1, <2>4, <3>1, MemoryStays
    <3> HIDE DEF route, s
    <3> QED
      BY <2>3, <2>4, <3>1, <3>2
  <2>5. ASSUME NEW missed \in SUBSET {c \in mine \X ArrayTypes : c[2] \in TypesAt[c[1]]},
               IF missed = {} THEN NoFault ELSE Fault,
               LET seen(e) == {y \in TypesAt[e] : <<e, y>> \notin missed}
                   all == UNION {seen(e) : e \in mine}
               IN  IF all = {} THEN Return(t) /\ UNCHANGED <<array, memory, known>>
                     ELSE \E e \in mine :
                            /\ EarliestIn(TypeOrder, all) \in seen(e)
                            /\ memory' = Kept(TypeKey(e), EarliestIn(TypeOrder, all))
                            /\ RoutingStep(t, "getAgent",
                                 [route(k) EXCEPT !.type = EarliestIn(TypeOrder, all)])
        PROVE  RoutingInv'
    <3> DEFINE seen(e) == {y \in TypesAt[e] : <<e, y>> \notin missed}
               all == UNION {seen(e) : e \in mine}
               type == EarliestIn(TypeOrder, all)
    <3>1. failures' \in {failures, failures + 1} /\ (failures' = 0 => missed = {})
      <4>1. \/ missed = {} /\ UNCHANGED failures
            \/ missed # {} /\ failures' = failures + 1
        BY Zenon, <2>5 DEF Fault, NoFault
      <4> QED
        BY <1>1, <4>1
    <3>2. CASE all = {}
      <4>1. Return(t) /\ UNCHANGED <<array, memory, known>>
        BY <2>5, <3>2
      <4>2. MemoryInv'
        BY <1>1, <3>1, <4>1, MemoryStays
      <4> QED
        BY <1>1, <3>1, <4>1, <4>2, RoutingFreed
    <3>3. CASE all # {}
      <4>1. PICK e \in mine :
              /\ type \in seen(e)
              /\ memory' = Kept(TypeKey(e), type)
              /\ RoutingStep(t, "getAgent", [route(k) EXCEPT !.type = type])
        BY Zenon, <2>5, <3>3
      <4>2. missed = {} => all = Offered(s(k))
        BY DEF Offered
      <4>3. failures' = 0 => type = TypeOfStorage(s(k))
        BY <3>1, <4>2 DEF TypeOfStorage
      <4>4. type \in ArrayTypes
        BY <2>1, <4>1, RoutingAssumption
      <4> HIDE DEF type, seen, route, s
      <4>5. MemoryInv'
        BY <1>1, <2>1, <3>1, <4>1, <4>3, <4>4, TypeKept
      <4> QED
        BY <2>3, <3>1, <4>1, <4>3, <4>4, <4>5
    <3> QED
      BY <3>2, <3>3
  <2> DEFINE cached == {e \in mine : TypeKey(e) \in DOMAIN memory}
  <2>6. \/ \E e \in cached :
             /\ RoutingStep(t, "getAgent", [route(k) EXCEPT !.type = memory[TypeKey(e)]])
             /\ NoFault /\ UNCHANGED memory
        \/ \E missed \in SUBSET {c \in mine \X ArrayTypes : c[2] \in TypesAt[c[1]]} :
             LET seen(e) == {y \in TypesAt[e] : <<e, y>> \notin missed}
                 all == UNION {seen(e) : e \in mine}
             IN  /\ IF missed = {} THEN NoFault ELSE Fault
                 /\ IF all = {} THEN Return(t) /\ UNCHANGED <<array, memory, known>>
                      ELSE \E e \in mine :
                             /\ EarliestIn(TypeOrder, all) \in seen(e)
                             /\ memory' = Kept(TypeKey(e), EarliestIn(TypeOrder, all))
                             /\ RoutingStep(t, "getAgent",
                                  [route(k) EXCEPT !.type = EarliestIn(TypeOrder, all)])
    <3> HIDE DEF route, s, mine
    <3> QED
      BY ZenonT(60), <1>4, <2>2 DEF DetectArrayType
  <2> HIDE DEF route, s, mine
  <2> QED
    BY Zenon, <2>4, <2>5, <2>6
<1>5. ASSUME NEW k \in Choices(req[t]), req[t].op = "deleteVolume", NoFault, UNCHANGED memory,
             RoutingStep(t, "getAgent", [route(k) EXCEPT !.type = req[t].uid.type])
      PROVE  RoutingInv'
  <2>1. MemoryInv' /\ failures' = failures
    BY <1>1, <1>5, MemoryStays DEF NoFault
  <2>2. /\ IsSystem(req[t].secret, k) /\ req[t].uid.type \in ArrayTypes
        /\ req[t].uid # None => s(k) = req[t].uid.volume.storage
        /\ failures = 0 => req[t].uid.type = TypeOfStorage(s(k))
    BY <1>1, <1>5, ChoiceIsSystem
  <2>3. RoutingStep(t, "getAgent", [RouteFor(req[t], k) EXCEPT !.type = req[t].uid.type])
    BY <1>5
  <2>4. EntryOf(req[t], k).storage = s(k)
    OBVIOUS
  <2> HIDE DEF route, s
  <2> QED
    BY <1>1, <1>5, <2>1, <2>2, <2>3, <2>4, RouteChosen
<1>6. \/ Reject(t)
      \/ \E k \in Choices(req[t]) :
           IF req[t].op = "createVolume" THEN DetectArrayType(t, route(k))
             ELSE /\ RoutingStep(t, "getAgent", [route(k) EXCEPT !.type = req[t].uid.type])
                  /\ NoFault /\ UNCHANGED memory
  BY Zenon DEF Choose, RouteFor
<1> HIDE DEF route
<1> QED
  BY <1>1, <1>2, <1>4, <1>5, <1>6

LEMMA GetAgentKeeps ==
  ASSUME RoutingInv, NEW t \in Threads, GetAgent(t)
  PROVE  RoutingInv'
<1> DEFINE s == local[t].storage
           k == local[t].system
           key == AgentKey(s, k)
           new == [type |-> local[t].type, password |-> EntryOf(req[t], k).password]
<1>1. /\ pc[t] = "getAgent" /\ Routed(t) /\ MemoryInv /\ failures \in Nat
      /\ local[t] \in RoutedMemo /\ req[t].secret \in Secret
  <2>1. pc[t] = "getAgent"
    BY Zenon DEF GetAgent, At
  <2> QED
    BY <2>1 DEF RoutingInv, RoutingTyped, Routed, RoutedRequest
<1>2. /\ IsSystem(req[t].secret, k) /\ k \in Systems \union {None}
      /\ s = StorageIn(req[t].secret, k) /\ s \in Storage
      /\ EntryOf(req[t], k).password \in Passwords /\ new \in Agent
      /\ failures = 0 => new.type = TypeOfStorage(s)
  <2>1. /\ IsSystem(req[t].secret, k) /\ s = StorageIn(req[t].secret, k)
        /\ local[t].type \in ArrayTypes /\ (failures = 0 => local[t].type = TypeOfStorage(s))
    BY <1>1 DEF Routed
  <2>2. EntryOf(req[t], k) \in Entry /\ s \in Storage
    BY <1>1, <2>1, SystemHasEntry DEF EntryOf
  <2> QED
    BY <2>1, <2>2 DEF Entry, Agent, IsSystem
<1>3. ASSUME NEW agent \in Agent, RoutingStep(t, "serve", [local[t] EXCEPT !.agent = agent]),
             agent.password = EntryOf(req[t], k).password, NoFault, MemoryInv',
             failures = 0 => agent.type = TypeOfStorage(s)
      PROVE  RoutingInv'
  <2> DEFINE memo == [local[t] EXCEPT !.agent = agent]
  <2>1. /\ memo \in RoutedMemo /\ memo.agent = agent /\ memo.storage = s /\ memo.system = k
        /\ memo.type = local[t].type
    BY <1>1, <1>3 DEF RoutedMemo
  <2>2. Proceed(t, "serve", memo) /\ UNCHANGED <<array, known, failures>>
    BY <1>3 DEF RoutingStep, NoFault
  <2> HIDE DEF memo
  <2>3. /\ Moves(t) /\ Alone(t) /\ pc'[t] = "serve" /\ req'[t] = req[t] /\ local'[t] = memo
    BY <1>1, <2>2, ProceedMoves DEF RoutingInv
  <2>4. Routed(t)'
    BY <1>1, <1>2, <1>3, <2>1, <2>2, <2>3 DEF Routed, RoutingPlace
  <2>5. array' \in [secret : {array.secret}, volumes : SUBSET RoutedVolume,
                    password : [Storage -> Passwords]]
    BY <2>2 DEF RoutingInv, RoutingTyped
  <2> QED
    BY <1>1, <1>3, <2>2, <2>3, <2>4, <2>5, RoutingGoesOn
<1> HIDE DEF new
<1>4. CASE /\ IsCurrent(t) /\ NoFault /\ UNCHANGED memory
           /\ RoutingStep(t, "serve", [local[t] EXCEPT !.agent = memory[key]])
  <2>1. key \in DOMAIN memory /\ memory[key].password = EntryOf(req[t], k).password
    BY <1>4 DEF IsCurrent
  <2>2. memory[key] \in Agent /\ (failures = 0 => memory[key].type = TypeOfStorage(s))
    BY <1>1, <1>2, <2>1 DEF MemoryInv
  <2>3. MemoryInv'
    BY <1>1, <1>4, MemoryStays DEF NoFault
  <2> QED
    BY <1>3, <1>4, <2>1, <2>2, <2>3
<1>5. CASE /\ RoutingStep(t, "serve", [local[t] EXCEPT !.agent = new])
           /\ memory' = Kept(key, new) /\ NoFault
  <2>1. MemoryInv' /\ new.password = EntryOf(req[t], k).password
    BY <1>1, <1>2, <1>5, AgentKept DEF NoFault, new
  <2> QED
    BY <1>2, <1>3, <1>5, <2>1
<1>6. CASE /\ Return(t) /\ UNCHANGED <<array, known>>
           /\ memory' = [j \in DOMAIN memory \ {key} |-> memory[j]]
           /\ Fault \/ NoFault
  <2>1. failures' \in {failures, failures + 1}
    BY <1>6 DEF Fault, NoFault
  <2>2. MemoryInv'
    BY <1>1, <1>6, <2>1, AgentDropped
  <2> QED
    BY <1>1, <1>6, <2>1, <2>2, RoutingFreed
<1> QED
  BY Zenon, <1>4, <1>5, <1>6 DEF GetAgent, new

LEMMA ServeRequestKeeps ==
  ASSUME RoutingInv, NEW t \in Threads, ServeRequest(t)
  PROVE  RoutingInv'
<1>1. /\ pc[t] = "serve" /\ Routed(t) /\ MemoryInv /\ failures \in Nat
      /\ local[t] \in RoutedMemo /\ req[t] \in RoutedRequest
  BY DEF ServeRequest, At, RoutingInv, RoutingTyped, Routed
<1>2. CASE Reject(t)
  BY <1>1, <1>2, RoutingReject
<1>3. CASE Fault /\ Return(t) /\ UNCHANGED <<array, memory, known>>
  <2>1. failures' = failures + 1
    BY <1>3 DEF Fault
  <2>2. MemoryInv'
    BY <1>1, <1>3, <2>1, MemoryStays
  <2> QED
    BY <1>1, <1>3, <2>1, <2>2, RoutingFreed
<1> DEFINE s == local[t].storage
           volume == IF req[t].uid = None THEN [name |-> req[t].name, storage |-> s]
                       ELSE req[t].uid.volume
           volumes == IF req[t].op = "createVolume" THEN array.volumes \union {volume}
                        ELSE IF volume.storage = s THEN array.volumes \ {volume} ELSE array.volumes
<1>4. CASE /\ array' = [array EXCEPT !.volumes = volumes]
           /\ Continue(t, "answer") /\ NoFault /\ UNCHANGED <<memory, known>>
  <2>1. s \in Storage
    <3>1. req[t].secret \in Secret /\ IsSystem(req[t].secret, local[t].system)
          /\ s = StorageIn(req[t].secret, local[t].system)
      BY <1>1 DEF Routed, RoutedRequest
    <3> QED
      BY <3>1, SystemHasEntry
  <2>2. volume \in RoutedVolume
    BY <1>1, <2>1 DEF RoutedVolume, RoutedRequest, RoutedId
  <2>3. volumes \subseteq RoutedVolume
    BY <2>2 DEF RoutingInv, RoutingTyped
  <2> HIDE DEF volumes, volume, s
  <2>4. array' \in [secret : {array.secret}, volumes : SUBSET RoutedVolume,
                    password : [Storage -> Passwords]]
    BY <1>4, <2>3 DEF RoutingInv, RoutingTyped
  <2>5. Moves(t) /\ Alone(t) /\ pc'[t] = "answer" /\ req'[t] = req[t] /\ local'[t] = local[t]
    BY <1>1, <1>4, ContinueMoves DEF RoutingInv
  <2>6. array'.secret = array.secret /\ failures' = failures /\ known' = known
    BY <1>4, <2>4 DEF NoFault
  <2>7. MemoryInv'
    BY <1>1, <1>4, <2>6, MemoryStays
  <2>8. Routed(t)'
    BY <1>1, <2>5, <2>6 DEF Routed, RoutingPlace, SameArrays
  <2> QED
    BY <1>1, <2>4, <2>5, <2>6, <2>7, <2>8, RoutingGoesOn
<1> QED
  BY Zenon, <1>2, <1>3, <1>4 DEF ServeRequest

LEMMA AnswerRoutedKeeps ==
  ASSUME RoutingInv, NEW t \in Threads, AnswerRouted(t)
  PROVE  RoutingInv'
<1>1. /\ pc[t] = "answer" /\ Routed(t) /\ MemoryInv /\ RoutingTyped /\ failures \in Nat
      /\ local[t] \in RoutedMemo /\ req[t] \in RoutedRequest
      /\ Return(t) /\ UNCHANGED <<array, memory, failures>>
      /\ req[t].op \in {"createVolume", "deleteVolume"} /\ req[t].secret \in Secret
      /\ SameArrays(req[t].secret, array.secret) /\ array.secret \in Secret
  BY DEF AnswerRouted, At, NoFault, RoutingInv, RoutingTyped, Routed, RoutedRequest
<1>2. Moves(t) /\ Alone(t) /\ pc'[t] = "idle" /\ Locked'
  BY <1>1, ReturnMoves, MovesKeepLocked DEF RoutingInv
<1> DEFINE id == [type |-> local[t].agent.type, system |-> local[t].system,
                  volume |-> [name |-> req[t].name, storage |-> local[t].storage]]
<1>3. /\ id \in RoutedId
      /\ IsSystem(array.secret, id.system)
      /\ id.volume.storage = StorageIn(array.secret, id.system)
      /\ failures = 0 => id.type = TypeOfStorage(id.volume.storage)
  <2>1. /\ IsSystem(req[t].secret, local[t].system)
        /\ local[t].storage = StorageIn(req[t].secret, local[t].system)
        /\ local[t].agent \in Agent
        /\ failures = 0 => local[t].agent.type = TypeOfStorage(local[t].storage)
    BY <1>1 DEF Routed
  <2>2. /\ local[t].storage \in Storage
        /\ local[t].storage = StorageIn(array.secret, local[t].system)
        /\ IsSystem(array.secret, local[t].system)
    BY <1>1, <2>1, SystemHasEntry
  <2>3. local[t].agent.type \in ArrayTypes /\ local[t].system \in Systems \union {None}
        /\ req[t].name \in RoutedNames
    BY <1>1, <2>1 DEF Agent, IsSystem, RoutedRequest
  <2>4. id \in RoutedId
    BY <2>2, <2>3 DEF RoutedId, RoutedVolume
  <2> QED
    BY <2>1, <2>2, <2>4
<1>4. \/ req[t].uid \in known.told /\ known' = [known EXCEPT !.gone = @ \union {req[t].uid}]
      \/ known' = [known EXCEPT !.told = @ \union {id}]
  BY <1>1 DEF AnswerRouted, Routed
<1> HIDE DEF id
<1>5. /\ known' \in [zone : [RoutedNames -> Zones \union {None}], told : SUBSET RoutedId,
                     deleting : SUBSET RoutedId, gone : SUBSET RoutedId, changes : Nat,
                     moved : BOOLEAN]
      /\ known.told \subseteq known'.told /\ known'.told \subseteq known.told \union {id}
  <2>1. CASE req[t].uid \in known.told /\ known' = [known EXCEPT !.gone = @ \union {req[t].uid}]
    <3>1. req[t].uid \in RoutedId
      BY <1>1, <2>1 DEF RoutingTyped
    <3> QED
      BY <1>1, <2>1, <3>1 DEF RoutingTyped
  <2>2. CASE known' = [known EXCEPT !.told = @ \union {id}]
    BY <1>1, <1>3, <2>2 DEF RoutingTyped
  <2> QED
    BY <1>4, <2>1, <2>2
<1>6. RoutingTyped'
  BY <1>1, <1>5 DEF RoutingTyped
<1>7. ToldInv'
  BY <1>1, <1>3, <1>5 DEF RoutingInv, ToldInv
<1>8. MemoryInv'
  BY <1>1, MemoryStays
<1>9. ASSUME NEW u \in Threads
      PROVE  Routed(u)'
  <2>1. CASE u = t
    BY <1>2, <2>1 DEF Routed
  <2>2. CASE u # t
    <3>1. SameArrays(array.secret, array'.secret)
      BY <1>1 DEF SameArrays
    <3> QED
      BY <1>1, <1>2, <1>5, <2>2, <3>1, RoutedWaits DEF Alone
  <2> QED
    BY <2>1, <2>2
<1> QED
  BY <1>2, <1>6, <1>7, <1>8, <1>9 DEF RoutingInv

LEMMA RoutingStepKeeps ==
  ASSUME RoutingInv, RoutingNext
  PROVE  RoutingInv'
  BY ChangeRoutingKeeps, CallRoutingKeeps, ChooseKeeps, GetAgentKeeps, ServeRequestKeeps,
     AnswerRoutedKeeps DEF RoutingNext

LEMMA CrashKeepsRouting ==
  ASSUME RoutingInv, Crash
  PROVE  RoutingInv'
<1>1. Locked'
  BY CrashKeepsLocked DEF RoutingInv
<1>2. /\ UNCHANGED <<array, known, failures>> /\ DOMAIN memory' = {}
      /\ \A t \in Threads : pc'[t] = "idle"
  BY DEF Crash
<1> QED
  BY <1>1, <1>2 DEF RoutingInv, RoutingTyped, ToldInv, MemoryInv, Routed

LEMMA StutterKeepsRouting ==
  ASSUME RoutingInv, UNCHANGED vars
  PROVE  RoutingInv'
<1>1. UNCHANGED vars /\ Locked'
  BY StutterKeepsLocked DEF RoutingInv
<1>2. RoutingTyped' /\ ToldInv' /\ MemoryInv'
  BY <1>1 DEF RoutingInv, vars, RoutingTyped, ToldInv, MemoryInv
<1>3. \A t \in Threads : Routed(t)'
  BY <1>1 DEF RoutingInv, vars, Routed
<1> QED
  BY <1>1, <1>2, <1>3 DEF RoutingInv

-----------------------------------------------------------------------------
(* What the orchestrator knows, and what the requests are.                 *)

Creates(t) == req[t] # None /\ req[t].op \in CreateOps
Deletes(t) == req[t] # None /\ req[t].op \in DeleteOps
Expands(t) == req[t] # None /\ req[t].op = "expandVolume"

Memo(R) == [mine : Ids \union {None}, read : R \union {None}, others : SUBSET Ids, tries : Nat]

(* The one request that is made under a name.                              *)
Asks(n, r) ==
  /\ r \in Request /\ r.name = n
  /\ \/ n \in VolumeNames /\ r.op = "createVolume" /\ r.size \in Sizes /\ (r.uid = None <=> r.from = None)
     \/ n \in SnapshotNames /\ r.op = "createSnapshot" /\ r.uid \in Ids /\ r.from = "volume"

(* An answer is to the request made under its name; an expansion changes   *)
(* only the size.                                                          *)
Answers(a) ==
  /\ a \in Request /\ a.name \in Names /\ known.asked[a.name] # None
  /\ a.op = known.asked[a.name].op /\ a.uid = known.asked[a.name].uid
  /\ a.op = "createVolume" => a.size \in Sizes

KnownInv ==
  /\ known \in KnownObjects
  /\ \A n \in Names : known.asked[n] # None => Asks(n, known.asked[n])
  /\ \A u \in Ids : known.acked[u] # None => Answers(known.acked[u])

RequestInv(t) ==
  /\ req[t] # None => req[t] \in Request
  /\ Creates(t) => req[t].name \in Names /\ known.asked[req[t].name] = req[t]
  /\ Deletes(t) => req[t].uid \in Ids /\ req[t].uid \in known.deleting
  /\ Expands(t) => req[t].uid \in Ids /\ req[t].size \in Sizes

(* A thread that has made an object, which nobody has been told of.  What  *)
(* is in hand at "toggle" was found, and the image at "newest" may be      *)
(* reported for another request.                                           *)
Makes(t) == Creates(t) /\ local[t].mine # None /\ pc[t] \notin {"toggle", "newest"}

OpOf(r) == IF r.op = "deleteSnapshot" THEN "createSnapshot" ELSE "createVolume"

RoleInv(t) ==
  /\ Makes(t) =>
       /\ local[t].mine \in Ids
       /\ known.acked[local[t].mine] = None /\ local[t].mine \notin known.deleting
  /\ Deletes(t) \/ Expands(t) =>
       /\ local[t].mine = req[t].uid
       /\ known.acked[req[t].uid] # None /\ known.acked[req[t].uid].op = OpOf(req[t])

(* While something is made from a source, its deletion is not asked for.   *)
SourceInv(t) ==
  service # "ds8k" /\ Creates(t) /\ req[t].uid # None =>
    /\ req[t].uid \in Ids \ known.deleting
    /\ known.acked[req[t].uid] # None
    /\ known.acked[req[t].uid].op = IF req[t].from = "volume" THEN "createVolume" ELSE "createSnapshot"

ObjectsInv ==
  /\ service \in ObjectServices
  /\ Locked /\ KnownInv
  /\ \A t \in Threads : RequestInv(t) /\ RoleInv(t) /\ SourceInv(t)

(* Two requests that delete or expand are for different objects, and what  *)
(* one has made no other deletes, expands or copies.                       *)
LEMMA HandsDiffer ==
  ASSUME ObjectsInv, NEW t \in Threads, NEW w \in Threads, t # w,
         Deletes(w) \/ Expands(w),
         Makes(t) \/ Deletes(t) \/ Expands(t)
  PROVE  local[t].mine # local[w].mine
<1>1. RequestInv(t) /\ RequestInv(w) /\ RoleInv(t) /\ RoleInv(w)
  BY DEF ObjectsInv
<1>2. CASE Makes(t)
  BY <1>1, <1>2 DEF RoleInv
<1>3. CASE Deletes(t) \/ Expands(t)
  <2>1. SUFFICES ASSUME req[t].uid = req[w].uid
                 PROVE  FALSE
    BY <1>1, <1>3 DEF RoleInv
  <2>2. OpOf(req[t]) = OpOf(req[w])
    BY <1>1, <1>3, <2>1 DEF RoleInv
  <2>3. LockOf(req[t]) = LockOf(req[w])
    BY <1>3, <2>1, <2>2 DEF LockOf, OpOf, Deletes, Expands, DeleteOps
  <2> QED
    BY <1>3, <2>3 DEF ObjectsInv, Locked, Deletes, Expands
<1> QED
  BY <1>2, <1>3

LEMMA MakersDiffer ==
  ASSUME ObjectsInv, NEW t \in Threads, NEW w \in Threads, t # w, Creates(t), Creates(w)
  PROVE  req[t].name # req[w].name
<1>1. /\ known.asked[req[t].name] = req[t] /\ known.asked[req[w].name] = req[w]
      /\ req[t].op \in CreateOps /\ req[w].op \in CreateOps
  BY DEF ObjectsInv, RequestInv, Creates
<1>2. req[t].name = req[w].name => LockOf(req[t]) = LockOf(req[w])
  BY <1>1 DEF LockOf, CreateOps
<1> QED
  BY <1>2 DEF ObjectsInv, Locked, Creates

LEMMA SourceIsNotMade ==
  ASSUME ObjectsInv, service # "ds8k", NEW t \in Threads, NEW w \in Threads,
         Makes(t) \/ Deletes(t), Creates(w), req[w].uid # None
  PROVE  local[t].mine # req[w].uid
  BY DEF ObjectsInv, RequestInv, RoleInv, SourceInv

-----------------------------------------------------------------------------
(* A step of t that keeps its promises: what it tells the orchestrator is  *)
(* an answer to its own request, of an object that no other request is     *)
(* making.                                                                 *)
Tells(t, u) ==
  \/ known'.acked[u] = known.acked[u]
  \/ /\ Creates(t) /\ known'.acked[u] = req[t]
     /\ known.acked[u] = None \/ known.acked[u].op = req[t].op
     /\ \A w \in Threads \ {t} : Makes(w) => local[w].mine # u
  \/ Deletes(t) /\ u = req[t].uid /\ known'.acked[u] = None
  \/ Expands(t) /\ u = req[t].uid /\ known'.acked[u] = [known.acked[u] EXCEPT !.size = req[t].size]

Careful(t) ==
  /\ Alone(t) /\ service' = service /\ req'[t] \in {req[t], None}
  /\ known' \in KnownObjects /\ known'.asked = known.asked
  /\ \A u \in Ids : Tells(t, u)
  /\ known'.deleting \subseteq known.deleting
  /\ \A w \in Threads : Deletes(w) => req[w].uid \in known'.deleting

LEMMA AnswersKept ==
  ASSUME KnownInv, known'.asked = known.asked
  PROVE  \A a : Answers(a) => Answers(a)'
  BY DEF Answers

LEMMA CarefulKeeps ==
  ASSUME ObjectsInv, Locked', NEW t \in Threads, Careful(t), RoleInv(t)'
  PROVE  ObjectsInv'
<1>1. KnownInv'
  <2>1. known' \in KnownObjects /\ known'.asked = known.asked
    BY DEF Careful
  <2>2. \A n \in Names : known'.asked[n] # None => Asks(n, known'.asked[n])
    BY <2>1 DEF ObjectsInv, KnownInv
  <2>3. ASSUME NEW u \in Ids, known'.acked[u] # None
        PROVE  Answers(known.acked[u])'
    <3>1. Tells(t, u) /\ RequestInv(t) /\ (known.acked[u] # None => Answers(known.acked[u]))
      BY DEF Careful, ObjectsInv, KnownInv
    <3>2. CASE known'.acked[u] = known.acked[u]
      BY <2>1, <2>3, <3>1, <3>2 DEF Answers
    <3>3. CASE Creates(t) /\ known'.acked[u] = req[t]
      <4>1. /\ req[t] \in Request /\ req[t].name \in Names
            /\ known.asked[req[t].name] = req[t] /\ req[t] # None
        BY <3>1, <3>3 DEF RequestInv, Creates
      <4>2. req[t].op = "createVolume" => req[t].size \in Sizes
        BY <4>1 DEF ObjectsInv, KnownInv, Asks
      <4> QED
        BY <2>1, <3>3, <4>1, <4>2 DEF Answers
    <3>4. CASE /\ Expands(t) /\ u = req[t].uid
               /\ known'.acked[u] = [known.acked[u] EXCEPT !.size = req[t].size]
      <4>1. req[t].size \in Sizes /\ known.acked[u] # None /\ known.acked[u] \in Request
        BY <3>1, <3>4 DEF ObjectsInv, RequestInv, RoleInv, Answers
      <4>2. /\ known'.acked[u] \in Request /\ known'.acked[u].name = known.acked[u].name
            /\ known'.acked[u].op = known.acked[u].op /\ known'.acked[u].uid = known.acked[u].uid
            /\ known'.acked[u].size = req[t].size
        BY <3>4, <4>1 DEF Request
      <4> QED
        BY <2>1, <3>1, <4>1, <4>2 DEF Answers
    <3> QED
      BY <2>3, <3>1, <3>2, <3>3, <3>4 DEF Tells
  <2> QED
    BY <2>1, <2>2, <2>3 DEF KnownInv, Asks
<1>2. ASSUME NEW w \in Threads
      PROVE  RequestInv(w)'
  <2>1. /\ req'[w] \in {req[w], None} /\ known'.asked = known.asked
        /\ Deletes(w) => req[w].uid \in known'.deleting
    BY DEF Careful, Alone
  <2> QED
    BY <2>1 DEF ObjectsInv, RequestInv, Creates, Deletes, Expands
<1>3. ASSUME NEW w \in Threads, w # t
      PROVE  RoleInv(w)'
  <2>1. /\ pc'[w] = pc[w] /\ req'[w] = req[w] /\ local'[w] = local[w]
        /\ RoleInv(w) /\ RequestInv(w)
    BY <1>3 DEF Careful, Alone, ObjectsInv
  <2>2. ASSUME Makes(w)
        PROVE  /\ local[w].mine \in Ids /\ known'.acked[local[w].mine] = None
               /\ local[w].mine \notin known'.deleting
    <3>1. local[w].mine \in Ids /\ known.acked[local[w].mine] = None /\ local[w].mine \notin known.deleting
      BY <2>1, <2>2 DEF RoleInv
    <3>2. Expands(t) => local[w].mine # req[t].uid
      BY <1>3, <2>2, HandsDiffer DEF ObjectsInv, RoleInv
    <3> QED
      BY <1>3, <2>2, <3>1, <3>2 DEF Careful, Tells
  <2>3. ASSUME Deletes(w) \/ Expands(w)
        PROVE  known'.acked[req[w].uid] # None /\ known'.acked[req[w].uid].op = OpOf(req[w])
    <3>1. /\ known.acked[req[w].uid] # None /\ known.acked[req[w].uid].op = OpOf(req[w])
          /\ req[w].uid \in Ids
      BY <2>1, <2>3 DEF RoleInv, RequestInv
    <3>2. Deletes(t) \/ Expands(t) => req[t].uid # req[w].uid
      BY <1>3, <2>3, HandsDiffer DEF ObjectsInv, RoleInv
    <3> QED
      BY <3>1, <3>2 DEF Careful, Tells, Creates
  <2> QED
    BY <2>1, <2>2, <2>3 DEF RoleInv, Makes, Creates, Deletes, Expands
<1>4. ASSUME NEW w \in Threads
      PROVE  SourceInv(w)'
  <2>1. SUFFICES ASSUME service # "ds8k", Creates(w), req[w].uid # None, req'[w] = req[w]
                 PROVE  /\ req[w].uid \in Ids \ known'.deleting
                        /\ known'.acked[req[w].uid] # None
                        /\ known'.acked[req[w].uid].op =
                             IF req[w].from = "volume" THEN "createVolume" ELSE "createSnapshot"
    BY DEF Careful, Alone, SourceInv, Creates
  <2>2. /\ req[w].uid \in Ids \ known.deleting /\ known.acked[req[w].uid] # None
        /\ known.acked[req[w].uid].op =
             IF req[w].from = "volume" THEN "createVolume" ELSE "createSnapshot"
    BY <2>1 DEF ObjectsInv, SourceInv
  <2>3. Tells(t, req[w].uid) /\ req[w].uid \notin known'.deleting
    BY <2>2 DEF Careful
  <2>4. Deletes(t) => req[t].uid # req[w].uid
    BY <2>1, SourceIsNotMade DEF ObjectsInv, RoleInv
  <2>5. Expands(t) /\ req[t].uid = req[w].uid => known.acked[req[w].uid] \in Request
    BY <2>2 DEF ObjectsInv, KnownInv, Answers
  <2>6. CASE /\ Expands(t) /\ req[t].uid = req[w].uid
             /\ known'.acked[req[w].uid] = [known.acked[req[w].uid] EXCEPT !.size = req[t].size]
    <3>1. /\ known'.acked[req[w].uid].op = known.acked[req[w].uid].op
          /\ known'.acked[req[w].uid] \in Request
      BY <2>5, <2>6 DEF ObjectsInv, RequestInv, Request
    <3> QED
      BY <2>2, <2>3, <3>1, ArrayObjectsAssumption
  <2> QED
    BY <2>2, <2>3, <2>4, <2>6 DEF Tells, Creates
<1> QED
  BY <1>1, <1>2, <1>3, <1>4 DEF ObjectsInv, Careful

-----------------------------------------------------------------------------
(* What the orchestrator knows of an object.                               *)

(* The object is what was reported.  E-Series images have no name.         *)
Fits(u) ==
  LET a == known.acked[u]
      o == object[u]
  IN  IF service = "santricity"
        THEN /\ o.kind = "image" <=> a.op = "createSnapshot"
             /\ o.name = IF o.kind = "image" THEN None ELSE a.name
        ELSE o.name = a.name

(* What DeletedIsGone excepts.                                             *)
MayStay(u) ==
  \/ service = "solidfire"
  \/ service = "santricity" /\ failures > 0
  \/ service = "ds8k" /\ object[u].name \in SnapshotNames

IsLarge(u, r) == r.op = "createVolume" /\ r.uid = None => object[u].size >= r.size

(* Identifiers are given out in order, a DS8000 gives them again.          *)
Obj(u) ==
  /\ service # "ds8k" /\ u > array.made =>
       object[u] = None /\ known.acked[u] = None /\ u \notin known.deleting \union known.gone
  /\ Trusted(u) => Exists(u)
  /\ known.acked[u] # None /\ Exists(u) => Fits(u) /\ IsLarge(u, known.acked[u])
  /\ u \in known.gone /\ Exists(u) => MayStay(u)
  /\ Exists(u) /\ object[u].name # None =>
       /\ object[u].name \in Names /\ known.asked[object[u].name] # None
       /\ IsLarge(u, known.asked[object[u].name])

Untouched(u) ==
  /\ object'[u] = object[u] /\ known'.acked[u] = known.acked[u]
  /\ u \in known'.deleting <=> u \in known.deleting
  /\ u \in known'.gone <=> u \in known.gone
  /\ u \in known'.yanked <=> u \in known.yanked

(* The time goes on.                                                       *)
Onward ==
  /\ service' = service /\ failures' \in {failures, failures + 1} /\ failures \in Nat
  /\ service # "ds8k" => array.made \in Nat /\ array'.made \in Nat /\ array.made <= array'.made
  /\ \A n \in Names : known.asked[n] # None => known'.asked[n] = known.asked[n]

LEMMA ObjKept ==
  ASSUME NEW u \in Ids, Obj(u), Onward, Untouched(u)
  PROVE  Obj(u)'
<1>1. u \in Nat
  BY ArrayObjectsAssumption
<1>2. service # "ds8k" /\ u > array'.made => u > array.made
  BY <1>1 DEF Onward
<1>3. /\ Exists(u)' <=> Exists(u)
      /\ Trusted(u)' <=> Trusted(u)
      /\ service' = service /\ (object[u])' = object[u] /\ (known.acked[u])' = known.acked[u]
  BY DEF Onward, Untouched, Exists, Trusted, object
<1>4. MayStay(u) => MayStay(u)'
  BY <1>3 DEF MayStay, Onward
<1>5. Fits(u)' <=> Fits(u)
  BY <1>3 DEF Fits
<1>6. \A r : IsLarge(u, r)' <=> IsLarge(u, r)
  BY <1>3 DEF IsLarge
<1>7. Exists(u) /\ object[u].name # None =>
        /\ known'.asked[object[u].name] = known.asked[object[u].name]
        /\ object[u].name \in Names /\ known.asked[object[u].name] # None
        /\ IsLarge(u, known.asked[object[u].name])
  BY DEF Obj, Onward
<1>8. /\ service # "ds8k" /\ u > array'.made =>
           object'[u] = None /\ known'.acked[u] = None /\ u \notin known'.deleting \union known'.gone
      /\ Trusted(u)' => Exists(u)'
      /\ u \in known'.gone /\ Exists(u)' => MayStay(u)'
  BY <1>2, <1>3, <1>4 DEF Obj, Untouched
<1>9. known'.acked[u] # None /\ Exists(u)' => Fits(u)' /\ IsLarge(u, known.acked[u])'
  BY <1>3, <1>5 DEF Obj, Untouched, IsLarge
<1>10. Exists(u)' /\ object'[u].name # None =>
         /\ object'[u].name \in Names /\ known'.asked[object'[u].name] # None
         /\ IsLarge(u, known.asked[object[u].name])'
  BY <1>3, <1>7 DEF IsLarge, Untouched
<1> QED
  BY <1>3, <1>8, <1>9, <1>10 DEF Obj

(* The effects of the answers on what the orchestrator knows.              *)
LEMMA ReportTells ==
  ASSUME ObjectsInv, NEW t \in Threads, NEW u \in Ids, Creates(t), Report(t, u)
  PROVE  /\ known' \in KnownObjects
         /\ known'.acked[u] = req[t]
         /\ \A w \in Ids : w # u => known'.acked[w] = known.acked[w]
         /\ known'.asked = known.asked /\ known'.deleting = known.deleting
         /\ known'.gone = known.gone /\ known'.yanked = known.yanked /\ known'.since = known.since
         /\ Alone(t) /\ req'[t] = None /\ pc'[t] = "idle" /\ service' = service /\ calls' = calls
<1>1. known \in KnownObjects /\ req[t] \in Request
  BY DEF ObjectsInv, KnownInv, RequestInv, Creates
<1>2. known' = [known EXCEPT !.acked[u] = req[t]] /\ Return(t) /\ pc[t] # "idle"
  BY DEF Report, Creates, ObjectsInv, Locked
<1>3. Alone(t) /\ req'[t] = None /\ pc'[t] = "idle" /\ service' = service /\ calls' = calls
  BY <1>2, ReturnMoves DEF ObjectsInv, Return
<1> QED
  BY <1>1, <1>2, <1>3 DEF KnownObjects

LEMMA DeletedTells ==
  ASSUME ObjectsInv, NEW t \in Threads, Deleted(t), req[t] # None
  PROVE  /\ known' \in KnownObjects
         /\ \A w \in Ids : known'.acked[w] = IF Deletes(t) /\ w = req[t].uid THEN None ELSE known.acked[w]
         /\ known'.gone = IF Deletes(t) THEN known.gone \union {req[t].uid} ELSE known.gone
         /\ ~ Deletes(t) => known' = known
         /\ known'.asked = known.asked /\ known'.deleting = known.deleting
         /\ known'.yanked = known.yanked /\ known'.since = known.since
         /\ Alone(t) /\ req'[t] = None /\ pc'[t] = "idle" /\ service' = service /\ calls' = calls
<1>1. known \in KnownObjects /\ (Deletes(t) => req[t].uid \in Ids)
  BY DEF ObjectsInv, KnownInv, RequestInv
<1>2. Return(t) /\ pc[t] # "idle"
  BY DEF Deleted, ObjectsInv, Locked
<1>3. Alone(t) /\ req'[t] = None /\ pc'[t] = "idle" /\ service' = service /\ calls' = calls
  BY <1>2, ReturnMoves DEF ObjectsInv, Return
<1>4. CASE Deletes(t)
  <2>1. known' = [known EXCEPT !.gone = @ \union {req[t].uid}, !.acked[req[t].uid] = None]
    BY <1>4 DEF Deleted, Deletes
  <2> QED
    BY <1>1, <1>3, <1>4, <2>1 DEF KnownObjects
<1>5. CASE ~ Deletes(t)
  <2>1. known' = known
    BY <1>5 DEF Deleted, Deletes
  <2> QED
    BY <1>1, <1>3, <1>5, <2>1
<1> QED
  BY <1>4, <1>5

LEMMA ExpandedTells ==
  ASSUME ObjectsInv, NEW t \in Threads, Expanded(t), Expands(t)
  PROVE  /\ known' \in KnownObjects
         /\ known'.acked[req[t].uid] = [known.acked[req[t].uid] EXCEPT !.size = req[t].size]
         /\ \A w \in Ids : w # req[t].uid => known'.acked[w] = known.acked[w]
         /\ known'.asked = known.asked /\ known'.deleting = known.deleting
         /\ known'.gone = known.gone /\ known'.yanked = known.yanked /\ known'.since = known.since
         /\ Alone(t) /\ req'[t] = None /\ pc'[t] = "idle" /\ service' = service /\ calls' = calls
<1>1. /\ known \in KnownObjects /\ req[t].uid \in Ids /\ req[t].size \in Sizes
      /\ known.acked[req[t].uid] # None /\ known.acked[req[t].uid] \in Request
  BY DEF ObjectsInv, KnownInv, RequestInv, RoleInv, Answers
<1>2. Return(t) /\ pc[t] # "idle"
  BY DEF Expanded, Expands, ObjectsInv, Locked
<1>3. Alone(t) /\ req'[t] = None /\ pc'[t] = "idle" /\ service' = service /\ calls' = calls
  BY <1>2, ReturnMoves DEF ObjectsInv, Return
<1>4. known' = [known EXCEPT !.acked[req[t].uid].size = req[t].size]
  BY <1>1 DEF Expanded
<1>5. [known.acked[req[t].uid] EXCEPT !.size = req[t].size] \in Request
  BY <1>1 DEF Request
<1> QED
  BY <1>1, <1>3, <1>4, <1>5 DEF KnownObjects

-----------------------------------------------------------------------------
(* Steps that are careful.                                                 *)

LEMMA SilentCareful ==
  ASSUME ObjectsInv, NEW t \in Threads, Alone(t), service' = service, req'[t] \in {req[t], None},
         known' = known
  PROVE  Careful(t)
  BY DEF Careful, Tells, ObjectsInv, KnownInv, RequestInv

LEMMA DeletedCareful ==
  ASSUME ObjectsInv, NEW t \in Threads, Deleted(t), req[t] # None
  PROVE  Careful(t)
<1>1. \A w \in Threads : Deletes(w) => req[w].uid \in known.deleting
  BY DEF ObjectsInv, RequestInv
<1> QED
  BY <1>1, DeletedTells DEF Careful, Tells

LEMMA ExpandedCareful ==
  ASSUME ObjectsInv, NEW t \in Threads, Expanded(t), Expands(t)
  PROVE  Careful(t)
<1>1. \A w \in Threads : Deletes(w) => req[w].uid \in known.deleting
  BY DEF ObjectsInv, RequestInv
<1> QED
  BY <1>1, ExpandedTells DEF Careful, Tells

LEMMA ReportCareful ==
  ASSUME ObjectsInv, NEW t \in Threads, NEW u \in Ids, Creates(t), Report(t, u),
         known.acked[u] = None \/ known.acked[u].op = req[t].op,
         \A w \in Threads \ {t} : Makes(w) => local[w].mine # u
  PROVE  Careful(t)
<1>1. \A w \in Threads : Deletes(w) => req[w].uid \in known.deleting
  BY DEF ObjectsInv, RequestInv
<1> QED
  BY <1>1, ReportTells DEF Careful, Tells

(* A returning handler has nothing in hand.                                *)
LEMMA FreedRole ==
  ASSUME NEW t \in Threads, req'[t] = None
  PROVE  RoleInv(t)' /\ SourceInv(t)' /\ RequestInv(t)'
  BY DEF RoleInv, SourceInv, RequestInv, Makes, Creates, Deletes, Expands

LEMMA OnwardSteps ==
  ASSUME service' = service, failures \in Nat, failures' \in {failures, failures + 1},
         service # "ds8k" => array.made \in Nat /\ array' = array,
         known'.asked = known.asked
  PROVE  Onward
  BY DEF Onward

LEMMA UnchangedObjs ==
  ASSUME \A u \in Ids : Obj(u), Onward, array'.object = array.object, known' = known
  PROVE  \A u \in Ids : Obj(u)'
<1>1. \A u \in Ids : Untouched(u)
  BY DEF Untouched, object
<1> QED
  BY <1>1, ObjKept

(* An object that is reported under its name.                              *)
LEMMA ReportedObj ==
  ASSUME ObjectsInv, NEW t \in Threads, NEW u \in Ids, Creates(t), Report(t, u),
         service # "santricity", service # "ds8k" => u \in Nat /\ u <= array'.made /\ array'.made \in Nat,
         object'[u] # None, object'[u].name = req[t].name,
         u \in known.gone => MayStay(u)',
         NEW q, q = req[t], IsLarge(u, q)'
  PROVE  Obj(u)'
<1>1. /\ known'.acked[u] = q /\ known'.asked = known.asked /\ service' = service
      /\ known'.gone = known.gone
  BY ReportTells
<1>2. q.name \in Names /\ known.asked[q.name] = q /\ q # None
  BY DEF ObjectsInv, RequestInv, Creates
<1>3. Exists(u)' /\ u # None
  BY ArrayObjectsAssumption DEF Exists, object
<1>4. Fits(u)'
  BY <1>1 DEF Fits, object
<1>5. service # "ds8k" => ~ (u > array'.made)
  OBVIOUS
<1>6. IsLarge(u, known.acked[u])' /\ IsLarge(u, known.asked[object[u].name])'
  BY <1>1, <1>2 DEF IsLarge, object
<1> QED
  BY <1>1, <1>2, <1>3, <1>4, <1>5, <1>6 DEF Obj, object

(* Objects that are gone, which nobody trusts.                             *)
LEMMA DeletedObjs ==
  ASSUME ObjectsInv, \A u \in Ids : Obj(u), NEW t \in Threads, req[t] # None, Deleted(t), Onward,
         \A u \in Ids : object'[u] = object[u] \/ (object'[u] = None /\ ~ Trusted(u)),
         Deletes(t) => object'[req[t].uid] = None \/ MayStay(req[t].uid)
  PROVE  \A u \in Ids : Obj(u)'
<1> SUFFICES ASSUME NEW u \in Ids
             PROVE  Obj(u)'
  OBVIOUS
<1>1. /\ Obj(u)
      /\ known'.acked[u] = IF Deletes(t) /\ u = req[t].uid THEN None ELSE known.acked[u]
      /\ known'.gone = IF Deletes(t) THEN known.gone \union {req[t].uid} ELSE known.gone
      /\ known'.asked = known.asked /\ known'.deleting = known.deleting
      /\ known'.yanked = known.yanked
      /\ object'[u] = object[u] \/ (object'[u] = None /\ ~ Trusted(u))
  BY DeletedTells
<1>2. CASE object'[u] = object[u] /\ ~ (Deletes(t) /\ u = req[t].uid)
  BY <1>1, <1>2, ObjKept DEF Untouched
<1>3. CASE object'[u] = None /\ ~ Trusted(u)
  <2>1. ~ Exists(u)' /\ ~ Trusted(u)'
    BY <1>1, <1>3 DEF Exists, Trusted, object
  <2>2. service' # "ds8k" /\ u > array'.made =>
          object'[u] = None /\ known'.acked[u] = None /\ u \notin known'.deleting \union known'.gone
    <3>1. SUFFICES ASSUME service # "ds8k", u > array'.made
                   PROVE  known'.acked[u] = None /\ u \notin known'.deleting \union known'.gone
      BY <1>3 DEF Onward
    <3>2. u > array.made
      BY <3>1, ArrayObjectsAssumption DEF Onward
    <3>3. known.acked[u] = None /\ u \notin known.deleting \union known.gone
      BY <1>1, <3>1, <3>2 DEF Obj
    <3>4. Deletes(t) => req[t].uid # u
      BY <3>3 DEF ObjectsInv, RequestInv
    <3> QED
      BY <1>1, <3>3, <3>4
  <2> QED
    BY <1>1, <2>1, <2>2 DEF Obj, object
<1>4. CASE object'[u] = object[u] /\ Deletes(t) /\ u = req[t].uid
  <2>1. /\ known'.acked[u] = None /\ ~ Trusted(u)' /\ (Exists(u)' <=> Exists(u))
        /\ service' = service /\ (object[u])' = object[u]
    BY <1>1, <1>4 DEF Exists, Trusted, object, Onward
  <2>2. Exists(u)' => MayStay(u)'
    <3>1. MayStay(u) => MayStay(u)'
      BY <2>1 DEF MayStay, Onward
    <3> QED
      BY <1>4, <2>1, <3>1 DEF Exists, object
  <2>3. ~ (service' # "ds8k" /\ u > array'.made)
    <3>1. u \in known.deleting /\ u \in Nat
      BY <1>4, ArrayObjectsAssumption DEF ObjectsInv, RequestInv
    <3> QED
      BY <1>1, <3>1 DEF Obj, Onward
  <2>4. Exists(u)' /\ object'[u].name # None =>
          /\ object'[u].name \in Names /\ known'.asked[object'[u].name] # None
          /\ IsLarge(u, known.asked[object[u].name])'
    BY <1>1, <2>1 DEF Obj, IsLarge, object
  <2> QED
    BY <2>1, <2>2, <2>3, <2>4 DEF Obj, object
<1> QED
  BY <1>1, <1>2, <1>3, <1>4

(* An object that has the size that was asked for.                         *)
LEMMA ExpandedObjs ==
  ASSUME ObjectsInv, \A u \in Ids : Obj(u), NEW t \in Threads, Expands(t), Expanded(t), Onward,
         \A u \in Ids \ {req[t].uid} : object'[u] = object[u],
         object[req[t].uid] # None, object'[req[t].uid] # None,
         object'[req[t].uid].name = object[req[t].uid].name,
         service = "santricity" => object'[req[t].uid].kind = object[req[t].uid].kind,
         object[req[t].uid].size \in Nat, object'[req[t].uid].size \in Nat,
         object'[req[t].uid].size >= object[req[t].uid].size,
         object'[req[t].uid].size >= req[t].size
  PROVE  \A u \in Ids : Obj(u)'
<1> SUFFICES ASSUME NEW u \in Ids
             PROVE  Obj(u)'
  OBVIOUS
<1>1. /\ Obj(u) /\ req[t].uid \in Ids
      /\ known'.acked[req[t].uid] = [known.acked[req[t].uid] EXCEPT !.size = req[t].size]
      /\ u # req[t].uid => known'.acked[u] = known.acked[u]
      /\ known'.asked = known.asked /\ known'.deleting = known.deleting
      /\ known'.gone = known.gone /\ known'.yanked = known.yanked
  BY ExpandedTells DEF ObjectsInv, RequestInv
<1>2. CASE u # req[t].uid
  BY <1>1, <1>2, ObjKept DEF Untouched
<1>3. CASE u = req[t].uid
  <2>1. /\ known.acked[u] # None /\ known.acked[u] \in Request /\ Answers(known.acked[u])
        /\ req[t].size \in Nat
    BY <1>3, ArrayObjectsAssumption DEF ObjectsInv, RoleInv, KnownInv, Answers, RequestInv
  <2>2. /\ known'.acked[u].name = known.acked[u].name /\ known'.acked[u].op = known.acked[u].op
        /\ known'.acked[u].uid = known.acked[u].uid /\ known'.acked[u].size = req[t].size
    BY <1>1, <1>3, <2>1 DEF Request
  <2>3. /\ Exists(u) /\ Exists(u)' /\ Fits(u) /\ service' = service
    BY <1>1, <1>3, <2>1, ArrayObjectsAssumption DEF Obj, Exists, object, Onward
  <2>4. Fits(u)'
    BY <1>3, <2>2, <2>3 DEF Fits, object
  <2>5. IsLarge(u, known.acked[u])'
    BY <1>3, <2>2 DEF IsLarge, object
  <2>6. object'[u].name # None =>
          /\ object'[u].name \in Names /\ known'.asked[object'[u].name] # None
          /\ IsLarge(u, known.asked[object[u].name])'
    <3>1. SUFFICES ASSUME object[u].name # None
                   PROVE  /\ object[u].name \in Names /\ known.asked[object[u].name] # None
                          /\ LET r == known.asked[object[u].name] IN
                             r.op = "createVolume" /\ r.uid = None => object'[u].size >= r.size
      BY <1>1, <1>3 DEF IsLarge, object
    <3>2. /\ object[u].name \in Names /\ known.asked[object[u].name] # None
          /\ IsLarge(u, known.asked[object[u].name])
          /\ Asks(object[u].name, known.asked[object[u].name])
      BY <1>1, <2>3, <3>1 DEF Obj, ObjectsInv, KnownInv
    <3>3. ASSUME NEW r, Asks(object[u].name, r), IsLarge(u, r), r.op = "createVolume", r.uid = None
          PROVE  object'[u].size >= r.size
      <4>1. r.size \in Nat /\ object[u].size >= r.size
        BY <3>3, ArrayObjectsAssumption DEF Asks, IsLarge
      <4> QED
        BY <1>3, <4>1
    <3> QED
      BY <3>2, <3>3
  <2>7. ~ (service' # "ds8k" /\ u > array'.made)
    <3>1. u \in Nat
      BY ArrayObjectsAssumption
    <3> QED
      BY <1>1, <2>1, <3>1 DEF Obj, Onward
  <2>8. u \in known'.gone => MayStay(u)'
    <3>1. MayStay(u) => MayStay(u)'
      BY <1>3, <2>3 DEF MayStay, object, Onward
    <3> QED
      BY <1>1, <2>3, <3>1 DEF Obj
  <2> QED
    BY <2>3, <2>4, <2>5, <2>6, <2>7, <2>8 DEF Obj, object
<1> QED
  BY <1>2, <1>3

(* An object that is new, which nobody knows.                              *)
LEMMA NewObj ==
  ASSUME ObjectsInv, NEW t \in Threads, NEW u \in Ids, Creates(t), service' = service,
         known' = known, known.acked[u] = None, u \notin known.gone,
         service # "ds8k" => u \in Nat /\ u <= array'.made /\ array'.made \in Nat,
         NEW q, q = req[t], IsLarge(u, q)',
         object'[u] # None, object'[u].name \in {None, q.name}
  PROVE  Obj(u)'
<1>1. q.name \in Names /\ known.asked[q.name] = q /\ q # None
  BY DEF ObjectsInv, RequestInv, Creates
<1>2. ~ Trusted(u)' /\ known'.acked[u] = None /\ u \notin known'.gone
  BY DEF Trusted
<1>3. service' # "ds8k" => ~ (u > array'.made)
  OBVIOUS
<1>4. object'[u].name # None =>
        /\ object'[u].name \in Names /\ known'.asked[object'[u].name] # None
        /\ IsLarge(u, known.asked[object[u].name])'
  BY <1>1 DEF IsLarge, object
<1> QED
  BY <1>2, <1>3, <1>4 DEF Obj, object

-----------------------------------------------------------------------------
(* A new request.                                                          *)

LEMMA AllowedRequests ==
  ASSUME KnownInv, NEW r \in Allowed
  PROVE  /\ r \in Request /\ r # None
         /\ r.op \in CreateOps =>
              /\ r.name \in Names /\ Asks(r.name, r) /\ known.asked[r.name] \in {None, r}
              /\ r.uid # None =>
                   /\ r.uid \in Ids /\ known.acked[r.uid] # None
                   /\ known.acked[r.uid].op = IF r.from = "volume" THEN "createVolume" ELSE "createSnapshot"
         /\ r.op \in DeleteOps \union {"expandVolume"} =>
              /\ r.uid \in Ids /\ known.acked[r.uid] # None /\ known.acked[r.uid].op = OpOf(r)
         /\ r.op = "expandVolume" => r.size \in Sizes
         /\ r.op \in CreateOps \union DeleteOps \union {"expandVolume"}
<1> USE ArrayObjectsAssumption
<1>1. Volumes \subseteq Ids /\ Snapshots \subseteq Ids
  BY DEF Volumes, Snapshots, Reported
<1>2. /\ \A u \in Volumes : known.acked[u] # None /\ known.acked[u].op = "createVolume"
      /\ \A u \in Snapshots : known.acked[u] # None /\ known.acked[u].op = "createSnapshot"
  BY DEF Volumes, Snapshots, Reported
<1>3. SizeOf \in [VolumeNames -> Sizes] /\ Names = VolumeNames \union SnapshotNames
  BY DEF Names
<1>4. CASE \E n \in VolumeNames :
             r = Asking("createVolume", n, None, None, SizeOf[n]) /\ known.asked[r.name] \in {None, r}
  BY <1>1, <1>2, <1>3, <1>4 DEF Asking, Asks, Request, CreateOps, DeleteOps, Ops
<1>5. CASE \E n \in VolumeNames, u \in Volumes :
             r = Asking("createVolume", n, u, "volume", SizeOf[n]) /\ known.asked[r.name] \in {None, r}
  <2>1. PICK n \in VolumeNames, u \in Volumes : r = Asking("createVolume", n, u, "volume", SizeOf[n])
    BY <1>5
  <2>2. u # None /\ r \in Request /\ r # None
    BY <1>1, <1>3, <2>1 DEF Asking, Request, CreateOps, Ops
  <2> QED
    BY <1>1, <1>2, <1>3, <1>5, <2>1, <2>2 DEF Asking, Asks, CreateOps, DeleteOps
<1>6. CASE \E n \in VolumeNames, u \in Snapshots :
             r = Asking("createVolume", n, u, "snapshot", SizeOf[n]) /\ known.asked[r.name] \in {None, r}
  <2>1. PICK n \in VolumeNames, u \in Snapshots : r = Asking("createVolume", n, u, "snapshot", SizeOf[n])
    BY <1>6
  <2>2. u # None /\ r \in Request /\ r # None
    BY <1>1, <1>3, <2>1 DEF Asking, Request, CreateOps, Ops
  <2> QED
    BY <1>1, <1>2, <1>3, <1>6, <2>1, <2>2 DEF Asking, Asks, CreateOps, DeleteOps
<1>7. CASE \E n \in SnapshotNames, u \in Volumes :
             r = Asking("createSnapshot", n, u, "volume", None) /\ known.asked[r.name] \in {None, r}
  <2>1. PICK n \in SnapshotNames, u \in Volumes : r = Asking("createSnapshot", n, u, "volume", None)
    BY <1>7
  <2>2. u # None /\ r \in Request /\ r # None
    BY <1>1, <1>3, <2>1 DEF Asking, Request, CreateOps, Ops
  <2> QED
    BY <1>1, <1>2, <1>3, <1>7, <2>1, <2>2 DEF Asking, Asks, CreateOps, DeleteOps
<1>8. CASE \E u \in Volumes : r = Asking("deleteVolume", None, u, None, None)
  BY <1>1, <1>2, <1>3, <1>8 DEF Asking, Request, CreateOps, DeleteOps, Ops, OpOf
<1>9. CASE \E u \in Snapshots : r = Asking("deleteSnapshot", None, u, None, None)
  BY <1>1, <1>2, <1>3, <1>9 DEF Asking, Request, CreateOps, DeleteOps, Ops, OpOf
<1>10. CASE \E u \in Volumes, s \in Sizes : r = Asking("expandVolume", None, u, None, s)
  BY <1>1, <1>2, <1>3, <1>10 DEF Asking, Request, CreateOps, DeleteOps, Ops, OpOf
<1> QED
  BY <1>4, <1>5, <1>6, <1>7, <1>8, <1>9, <1>10 DEF Allowed

(* How a request starts.                                                   *)
Starts(t) ==
  /\ pc[t] = "idle" /\ req'[t] # None
  /\ \/ Creates(t)' /\ pc'[t] = "find" /\ local'[t] = [NoMemo EXCEPT !.mine = None]
     \/ Deletes(t)' /\ pc'[t] = "look" /\ local'[t] = [NoMemo EXCEPT !.mine = (req'[t]).uid]
     \/ Expands(t)' /\ pc'[t] = "expand" /\ local'[t] = [NoMemo EXCEPT !.mine = (req'[t]).uid]

LEMMA CallKeeps ==
  ASSUME ObjectsInv, \A u \in Ids : Obj(u), failures \in Nat, service # "ds8k" => array.made \in Nat,
         NEW t \in Threads, CallObjects(t)
  PROVE  /\ ObjectsInv' /\ (\A u \in Ids : Obj(u)')
         /\ Alone(t) /\ Starts(t) /\ Onward
         /\ UNCHANGED <<service, array, memory, failures, crashes>>
         /\ known'.acked = known.acked /\ known'.gone = known.gone
         /\ known'.yanked = known.yanked /\ known'.since = known.since
         /\ known.deleting \subseteq known'.deleting
         /\ \A u \in known'.deleting : u \in known.deleting \/ known.acked[u] # None
<1>1. PICK r \in Allowed :
        /\ Undisturbed(r)
        /\ Enter(t, r, CASE r.op \in CreateOps -> "find"
                         [] r.op \in DeleteOps -> "look"
                         [] OTHER -> "expand",
                 [NoMemo EXCEPT !.mine = IF r.op \in CreateOps THEN None ELSE r.uid])
        /\ known' = IF r.op \in DeleteOps
                      THEN [known EXCEPT !.deleting = @ \union {r.uid}]
                    ELSE IF r.op \in CreateOps THEN [known EXCEPT !.asked[r.name] = r] ELSE known
  BY DEF CallObjects
<1>2. /\ Locked /\ KnownInv
      /\ \A w \in Threads : RequestInv(w) /\ RoleInv(w) /\ SourceInv(w)
  BY DEF ObjectsInv
<1>3. /\ r \in Request /\ r # None
      /\ r.op \in CreateOps =>
           /\ r.name \in Names /\ Asks(r.name, r) /\ known.asked[r.name] \in {None, r}
           /\ r.uid # None =>
                /\ r.uid \in Ids /\ known.acked[r.uid] # None
                /\ known.acked[r.uid].op = IF r.from = "volume" THEN "createVolume" ELSE "createSnapshot"
      /\ r.op \in DeleteOps \union {"expandVolume"} =>
           /\ r.uid \in Ids /\ known.acked[r.uid] # None /\ known.acked[r.uid].op = OpOf(r)
      /\ r.op = "expandVolume" => r.size \in Sizes
      /\ r.op \in CreateOps \union DeleteOps \union {"expandVolume"}
  BY <1>2, AllowedRequests
<1>4. /\ Moves(t) /\ Alone(t) /\ pc[t] = "idle" /\ req'[t] = r
      /\ pc'[t] = (CASE r.op \in CreateOps -> "find"
                     [] r.op \in DeleteOps -> "look"
                     [] OTHER -> "expand")
      /\ local'[t] = [NoMemo EXCEPT !.mine = IF r.op \in CreateOps THEN None ELSE r.uid]
      /\ UNCHANGED <<service, array, memory, failures, crashes>>
  <2> DEFINE place == CASE r.op \in CreateOps -> "find"
                        [] r.op \in DeleteOps -> "look"
                        [] OTHER -> "expand"
             memo == [NoMemo EXCEPT !.mine = IF r.op \in CreateOps THEN None ELSE r.uid]
  <2>1. Enter(t, r, place, memo) /\ place # "idle"
    BY <1>1
  <2> HIDE DEF place, memo
  <2>3. Locked /\ r # None
    BY <1>2, <1>3
  <2>2. /\ Moves(t) /\ Alone(t) /\ pc[t] = "idle" /\ req'[t] = r /\ pc'[t] = place /\ local'[t] = memo
        /\ UNCHANGED <<service, array, memory, failures, crashes>>
    BY <2>1, <2>3, EnterMoves
  <2> QED
    BY <2>2 DEF place, memo
<1>5. Locked' /\ service' = service
  BY <1>2, <1>4, MovesKeepLocked
<1>6. /\ known' \in KnownObjects /\ known'.acked = known.acked
      /\ known'.gone = known.gone /\ known'.yanked = known.yanked /\ known'.since = known.since
      /\ known'.deleting = IF r.op \in DeleteOps THEN known.deleting \union {r.uid} ELSE known.deleting
      /\ \A n \in Names : known'.asked[n] = IF r.op \in CreateOps /\ n = r.name THEN r ELSE known.asked[n]
  <2>1. known \in KnownObjects /\ CreateOps \intersect DeleteOps = {}
    BY <1>2 DEF KnownInv, CreateOps, DeleteOps
  <2>2. CASE r.op \in DeleteOps
    BY <1>1, <1>3, <2>1, <2>2 DEF KnownObjects
  <2>3. CASE r.op \in CreateOps
    BY <1>1, <1>3, <2>1, <2>3 DEF KnownObjects
  <2>4. CASE r.op \notin CreateOps \union DeleteOps
    BY <1>1, <2>1, <2>4
  <2> QED
    BY <2>2, <2>3, <2>4
<1>7. \A n \in Names : known.asked[n] # None => known'.asked[n] = known.asked[n]
  BY <1>3, <1>6
<1>8. KnownInv'
  <2>1. \A n \in Names : known'.asked[n] # None => Asks(n, known'.asked[n])
    BY <1>2, <1>3, <1>6 DEF KnownInv
  <2>2. \A a : Answers(a) => Answers(a)'
    BY <1>7 DEF Answers
  <2>3. \A u \in Ids : known'.acked[u] # None => Answers(known.acked[u])'
    BY <1>2, <1>6, <2>2 DEF KnownInv
  <2> QED
    BY <1>6, <2>1, <2>3 DEF KnownInv, Asks
<1>9. Starts(t)
  BY <1>3, <1>4 DEF Starts, Creates, Deletes, Expands, CreateOps, DeleteOps
<1>10. ASSUME NEW w \in Threads, w # t
       PROVE  RequestInv(w)' /\ RoleInv(w)' /\ SourceInv(w)'
  <2>1. /\ pc'[w] = pc[w] /\ req'[w] = req[w] /\ local'[w] = local[w]
        /\ RequestInv(w) /\ RoleInv(w) /\ SourceInv(w)
    BY <1>2, <1>4, <1>10 DEF Alone
  <2>2. RequestInv(w)'
    <3>1. Creates(w) => known'.asked[req[w].name] = known.asked[req[w].name]
      BY <1>7, <2>1 DEF RequestInv, Creates
    <3> QED
      BY <1>6, <2>1, <3>1 DEF RequestInv, Creates, Deletes, Expands
  <2>3. RoleInv(w)'
    BY <1>3, <1>6, <2>1 DEF RoleInv, Makes, Creates, Deletes, Expands
  <2>4. SourceInv(w)'
    <3>1. service # "ds8k" /\ r.op \in DeleteOps /\ Creates(w) => req[w].uid # r.uid
      BY <1>1 DEF Undisturbed, Creates
    <3> QED
      BY <1>5, <1>6, <2>1, <3>1 DEF SourceInv, Creates
  <2> QED
    BY <2>2, <2>3, <2>4
<1>11. RequestInv(t)' /\ RoleInv(t)' /\ SourceInv(t)'
  <2>1. CASE r.op \in CreateOps
    <3>1. Creates(t)' /\ ~ Deletes(t)' /\ ~ Expands(t)' /\ local'[t].mine = None
      BY <1>3, <1>4, <2>1 DEF Creates, Deletes, Expands, CreateOps, DeleteOps, NoMemo
    <3>2. service # "ds8k" /\ r.uid # None => r.uid \notin known'.deleting
      BY <1>1, <1>6, <2>1, <3>1 DEF Undisturbed, CreateOps, DeleteOps
    <3> QED
      BY <1>3, <1>4, <1>5, <1>6, <2>1, <3>1, <3>2 DEF RequestInv, RoleInv, SourceInv, Makes
  <2>2. CASE r.op \in DeleteOps
    <3>1. ~ Creates(t)' /\ Deletes(t)' /\ ~ Expands(t)' /\ local'[t].mine = r.uid
      BY <1>3, <1>4, <2>2 DEF Creates, Deletes, Expands, CreateOps, DeleteOps, NoMemo
    <3> QED
      BY <1>3, <1>4, <1>6, <2>2, <3>1 DEF RequestInv, RoleInv, SourceInv, Makes
  <2>3. CASE r.op = "expandVolume"
    <3>1. ~ Creates(t)' /\ ~ Deletes(t)' /\ Expands(t)' /\ local'[t].mine = r.uid
      BY <1>3, <1>4, <2>3 DEF Creates, Deletes, Expands, CreateOps, DeleteOps, NoMemo
    <3> QED
      BY <1>3, <1>4, <1>6, <2>3, <3>1 DEF RequestInv, RoleInv, SourceInv, Makes
  <2> QED
    BY <1>3, <2>1, <2>2, <2>3
<1>12. ObjectsInv'
  BY <1>5, <1>8, <1>10, <1>11 DEF ObjectsInv
<1>13. Onward
  BY <1>4, <1>5, <1>7 DEF Onward
<1>14. ASSUME NEW u \in Ids
       PROVE  Obj(u)'
  <2>1. Obj(u) /\ object'[u] = object[u] /\ known'.acked[u] = known.acked[u]
    BY <1>4, <1>6 DEF object
  <2>2. CASE u \in known'.deleting <=> u \in known.deleting
    BY <1>6, <1>13, <2>1, <2>2, ObjKept DEF Untouched
  <2>3. CASE u \notin known.deleting /\ u \in known'.deleting
    <3>1. u = r.uid /\ known.acked[u] # None
      BY <1>3, <1>6, <2>3
    <3>2. ~ (service' # "ds8k" /\ u > array'.made) /\ ~ Trusted(u)'
      BY <1>4, <1>5, <2>1, <2>3, <3>1 DEF Obj, Trusted
    <3>3. /\ Exists(u)' <=> Exists(u)
          /\ (object[u])' = object[u] /\ (known.acked[u])' = known.acked[u]
          /\ Fits(u)' <=> Fits(u)
          /\ MayStay(u)' <=> MayStay(u)
      BY <1>4, <1>5, <2>1 DEF Exists, object, Fits, MayStay
    <3>4. \A q : IsLarge(u, q)' <=> IsLarge(u, q)
      BY <3>3 DEF IsLarge
    <3>5. Exists(u) /\ object[u].name # None =>
            /\ object'[u].name \in Names /\ known'.asked[object'[u].name] # None
            /\ IsLarge(u, known.asked[object[u].name])'
      BY <1>7, <2>1 DEF Obj, IsLarge, object
    <3>6. known.acked[u] # None /\ Exists(u) => IsLarge(u, known.acked[u])'
      BY <2>1 DEF Obj, IsLarge, object
    <3> QED
      BY <1>6, <2>1, <3>2, <3>3, <3>5, <3>6 DEF Obj
  <2> QED
    BY <1>6, <2>2, <2>3
<1>15. \A u \in known'.deleting : u \in known.deleting \/ known.acked[u] # None
  BY <1>3, <1>6
<1> QED
  BY <1>4, <1>6, <1>9, <1>12, <1>13, <1>14, <1>15

-----------------------------------------------------------------------------
(* The first volume, and restarts.                                         *)

LEMMA LeastNumber ==
  ASSUME NEW S, S \subseteq Nat, S # {}
  PROVE  \E m \in S : \A k \in S : m <= k
<1>1. PICK s \in S : TRUE
  OBVIOUS
<1> DEFINE T == {k + 1 : k \in {j \in S : j <= s}}
<1>2. s + 1 \in Nat /\ T \subseteq 1 .. s + 1 /\ T # {}
  BY <1>1
<1>3. PICK m \in T : \A k \in T : m <= k
  <2> HIDE DEF T
  <2> QED
    BY <1>2, LeastElement
<1>4. PICK j \in S : m = j + 1 /\ j <= s
  OBVIOUS
<1>5. ASSUME NEW k \in S
      PROVE  j <= k
  <2>1. k <= s => k + 1 \in T
    BY <1>1
  <2> QED
    BY <1>1, <1>3, <1>4, <2>1
<1> QED
  BY <1>5

LEMMA FirstOnes == FirstName \in VolumeNames /\ FirstId \in Ids
<1>1. FirstId \in Ids
  <2>1. \E u \in Ids : \A w \in Ids : u <= w
    BY LeastNumber, ArrayObjectsAssumption
  <2> QED
    BY <2>1 DEF FirstId
<1>2. FirstName \in VolumeNames
  <2> DEFINE S == {SizeOf[n] : n \in VolumeNames}
  <2>1. S \subseteq Nat /\ S # {}
    <3>1. PICK n \in VolumeNames : TRUE
      BY ArrayObjectsAssumption
    <3>2. SizeOf[n] \in S
      BY <3>1
    <3>3. \A m \in VolumeNames : SizeOf[m] \in Nat
      BY ArrayObjectsAssumption
    <3> QED
      BY <3>2, <3>3
  <2>2. PICK s \in S : \A k \in S : s <= k
    <3> HIDE DEF S
    <3> QED
      BY <2>1, LeastNumber
  <2>3. \E n \in VolumeNames : \A m \in VolumeNames : SizeOf[n] <= SizeOf[m]
    BY <2>2
  <2> QED
    BY <2>3 DEF FirstName
<1> QED
  BY <1>1, <1>2

LEMMA InitObjectsInv ==
  ASSUME NEW type \in ObjectServices, InitObjects(type), NEW o, o # None,
         array.object = First(o), o.name = FirstName, o.size = SizeOf[FirstName],
         type = "santricity" => o.kind = "volume",
         type # "ds8k" => array.made = FirstId
  PROVE  /\ ObjectsInv /\ (\A u \in Ids : Obj(u))
         /\ failures = 0 /\ service = type
         /\ \A t \in Threads : pc[t] = "idle" /\ req[t] = None
         /\ \A u \in Ids : object[u] = IF u = FirstId THEN o ELSE None
         /\ FirstId \in Nat /\ FirstName \in Names
         /\ known.since = [n \in SnapshotNames |-> None] /\ known.acked[FirstId].uid = None
         /\ known.acked[FirstId].op = "createVolume"
         /\ \A u \in Ids : u # FirstId => known.acked[u] = None
         /\ known.asked[FirstName].uid = None /\ known.asked[FirstName].op = "createVolume"
<1> DEFINE r == Asking("createVolume", FirstName, None, None, SizeOf[FirstName])
<1> USE ArrayObjectsAssumption
<1>1. /\ FirstName \in VolumeNames /\ FirstId \in Ids /\ FirstName \in Names
      /\ Names = VolumeNames \union SnapshotNames
  BY FirstOnes DEF Names
<1>2. r \in Request /\ r # None /\ Asks(FirstName, r)
  BY <1>1 DEF Asking, Request, Asks, Ops, CreateOps
<1>3. /\ r.op = "createVolume" /\ r.uid = None /\ r.name = FirstName /\ r.size = SizeOf[FirstName]
      /\ SizeOf[FirstName] \in Nat
  BY <1>1 DEF Asking
<1>4. known = [asked |-> [n \in Names |-> IF n = FirstName THEN r ELSE None],
               acked |-> First(r), deleting |-> {}, gone |-> {}, yanked |-> {},
               since |-> [n \in SnapshotNames |-> None]]
  BY DEF InitObjects
<1> HIDE DEF r
<1>5. /\ known.asked = [n \in Names |-> IF n = FirstName THEN r ELSE None]
      /\ known.acked = [u \in Ids |-> IF u = FirstId THEN r ELSE None]
      /\ known.deleting = {} /\ known.gone = {} /\ known.since = [n \in SnapshotNames |-> None]
  BY <1>4 DEF First
<1>6. known \in KnownObjects
  BY <1>2, <1>4 DEF KnownObjects, First
<1>7. KnownInv
  BY <1>1, <1>2, <1>3, <1>5, <1>6 DEF KnownInv, Answers
<1>8. /\ service = type /\ failures = 0 /\ Locked
      /\ \A t \in Threads : pc[t] = "idle" /\ req[t] = None
  BY InitLocked DEF InitObjects, InitService
<1>9. \A t \in Threads : RequestInv(t) /\ RoleInv(t) /\ SourceInv(t)
  BY <1>8 DEF RequestInv, RoleInv, SourceInv, Makes, Creates, Deletes, Expands
<1>10. ObjectsInv
  BY <1>7, <1>8, <1>9 DEF ObjectsInv
<1>11. \A u \in Ids : object[u] = IF u = FirstId THEN o ELSE None
  BY DEF object, First
<1>12. ASSUME NEW u \in Ids
       PROVE  Obj(u)
  <2>1. CASE u = FirstId
    <3>1. /\ object[u] = o /\ Exists(u) /\ known.acked[u] = r /\ FirstId \in Nat
          /\ known.asked[object[u].name] = r
      <4>1. object[u] = o /\ u # None /\ known.acked[u] = r /\ FirstId \in Nat
        BY <1>1, <1>5, <1>11, <2>1
      <4> QED
        BY <1>1, <1>5, <4>1 DEF Exists
    <3>2. Fits(u)
      BY <1>1, <1>3, <1>8, <3>1 DEF Fits
    <3>3. IsLarge(u, r)
      BY <1>3, <3>1 DEF IsLarge
    <3> QED
      BY <1>1, <1>2, <1>5, <1>8, <2>1, <3>1, <3>2, <3>3 DEF Obj, Trusted
  <2>2. CASE u # FirstId
    BY <1>5, <1>11, <2>2 DEF Obj, Trusted, Exists
  <2> QED
    BY <2>1, <2>2
<1> QED
  BY <1>1, <1>3, <1>5, <1>8, <1>10, <1>11, <1>12

LEMMA CrashKeepsObjects ==
  ASSUME ObjectsInv, \A u \in Ids : Obj(u), failures \in Nat, service # "ds8k" => array.made \in Nat,
         Crash
  PROVE  /\ ObjectsInv' /\ (\A u \in Ids : Obj(u)')
         /\ \A t \in Threads : pc'[t] = "idle" /\ req'[t] = None
         /\ memory' = <<>> /\ UNCHANGED <<service, array, known, failures>>
<1>1. /\ \A t \in Threads : pc'[t] = "idle" /\ req'[t] = None
      /\ memory' = <<>> /\ UNCHANGED <<service, array, known, failures>>
  BY DEF Crash
<1>2. Locked' /\ KnownInv'
  BY <1>1, CrashKeepsLocked DEF ObjectsInv, KnownInv, Answers, Asks
<1>3. \A t \in Threads : RequestInv(t)' /\ RoleInv(t)' /\ SourceInv(t)'
  BY <1>1, FreedRole
<1>4. Onward
  BY <1>1 DEF Onward
<1> QED
  BY <1>1, <1>2, <1>3, <1>4, UnchangedObjs DEF ObjectsInv

(* What is known of the objects does not depend on the array.              *)
LEMMA QuietKeepsObjects ==
  ASSUME ObjectsInv, UNCHANGED <<service, ids_in_use, pc, req, local, known>>
  PROVE  ObjectsInv'
<1>1. Locked
  BY DEF ObjectsInv
<1>2. Locked'
  <2>1. /\ pc' = [t \in Threads |-> pc'[t]] /\ req' = [t \in Threads |-> req'[t]]
        /\ local' = [t \in Threads |-> local'[t]]
        /\ \A t \in Threads : pc'[t] = "idle" <=> req'[t] = None
        /\ ids_in_use' = {LockOf(req'[t]) : t \in {x \in Threads : req'[x] # None}}
    BY <1>1 DEF Locked
  <2>2. \A t, u \in Threads :
          req'[t] # None /\ req'[u] # None /\ LockOf(req'[t]) = LockOf(req'[u]) => t = u
    BY <1>1 DEF Locked
  <2> QED
    BY <2>1, <2>2 DEF Locked
<1>3. KnownInv'
  BY DEF ObjectsInv, KnownInv, Answers
<1>4. ASSUME NEW t \in Threads
      PROVE  RequestInv(t)' /\ RoleInv(t)' /\ SourceInv(t)'
  <2>1. RequestInv(t) /\ RoleInv(t) /\ SourceInv(t)
    BY DEF ObjectsInv
  <2>2. RequestInv(t)'
    BY <2>1 DEF RequestInv, Creates, Deletes, Expands
  <2>3. RoleInv(t)'
    BY <2>1 DEF RoleInv, Makes, Creates, Deletes, Expands
  <2>4. SourceInv(t)'
    BY <2>1 DEF SourceInv, Creates
  <2> QED
    BY <2>2, <2>3, <2>4
<1> QED
  BY <1>2, <1>3, <1>4 DEF ObjectsInv

LEMMA StutterKeepsObjects ==
  ASSUME ObjectsInv, UNCHANGED vars
  PROVE  ObjectsInv' /\ ((\A u \in Ids : Obj(u)) => \A u \in Ids : Obj(u)')
<1>1. UNCHANGED <<service, ids_in_use, pc, req, local, array, known, failures>>
  BY DEF vars
<1>2. ObjectsInv'
  BY <1>1, QuietKeepsObjects
<1>4. ASSUME NEW u \in Ids, Obj(u)
      PROVE  Obj(u)'
  BY <1>1, <1>4 DEF Obj, Trusted, Fits, MayStay, IsLarge, Exists, object
<1> QED
  BY <1>2, <1>4

-----------------------------------------------------------------------------
(* SolidFire.                                                              *)

(* A thread past its look-up, as long as nothing failed, has a name that   *)
(* is free; a volume it has made is there.                                 *)
SolidFireHand(t) ==
  pc[t] # "idle" =>
    /\ pc[t] \in SolidFirePlace /\ local[t] \in Memo({})
    /\ \/ pc[t] \in {"find", "create"} /\ Creates(t) /\ local[t].mine = None
       \/ /\ pc[t] \in {"readBack", "copySource", "look"} /\ Creates(t)
          /\ local[t].mine \in Ids /\ Exists(local[t].mine)
          /\ object[local[t].mine].name = req[t].name /\ IsLarge(local[t].mine, req[t])
       \/ pc[t] = "look" /\ Deletes(t)
       \/ pc[t] = "expand" /\ Expands(t)
    /\ pc[t] \in {"copySource", "look"} /\ Creates(t) => IsCopy(t)
    /\ pc[t] \in {"create", "readBack", "copySource"} => req[t].op = "createVolume"
    /\ pc[t] = "create" /\ failures = 0 => Named(req[t].name) = {}

SolidFireWorld ==
  /\ array \in [object : [Ids -> SolidFireVolume \union {None}], made : {0} \union Ids]
  /\ memory = <<>> /\ failures \in Nat
  /\ \A u \in Ids : Obj(u)
  /\ failures = 0 =>
       \A u, w \in Ids : Exists(u) /\ Exists(w) /\ object[u].name = object[w].name => u = w

SolidFireInv ==
  /\ service = "solidfire" /\ ObjectsInv /\ SolidFireWorld
  /\ \A t \in Threads : SolidFireHand(t)

LEMMA SolidFireSame ==
  ASSUME SolidFireInv, Locked', NEW t \in Threads, Careful(t), UNCHANGED <<array, memory>>,
         failures' \in {failures, failures + 1}, RoleInv(t)', SolidFireHand(t)',
         \A u \in Ids : Obj(u)'
  PROVE  SolidFireInv'
<1>1. ObjectsInv' /\ Alone(t) /\ service' = "solidfire"
  BY CarefulKeeps DEF SolidFireInv, Careful
<1>2. SolidFireWorld'
  BY DEF SolidFireInv, SolidFireWorld, Exists, object
<1>3. ASSUME NEW w \in Threads, w # t
      PROVE  SolidFireHand(w)'
  <2>1. SolidFireHand(w) /\ pc'[w] = pc[w] /\ req'[w] = req[w] /\ local'[w] = local[w]
    BY <1>1, <1>3 DEF SolidFireInv, Alone
  <2>2. failures' = 0 => failures = 0
    BY DEF SolidFireInv, SolidFireWorld
  <2> QED
    BY <2>1, <2>2 DEF SolidFireHand, Creates, Deletes, Expands, IsCopy, Exists, Named, object, IsLarge
<1> QED
  BY <1>1, <1>2, <1>3 DEF SolidFireInv

LEMMA SolidFireMade ==
  ASSUME SolidFireInv
  PROVE  /\ ObjectsInv /\ (\A u \in Ids : Obj(u)) /\ failures \in Nat /\ array.made \in Nat
         /\ Ids \subseteq Nat /\ service = "solidfire"
         /\ \A t \in Threads : Makes(t) =>
              /\ local[t].mine \in Ids /\ Exists(local[t].mine)
              /\ object[local[t].mine].name = req[t].name
<1>1. ObjectsInv /\ service = "solidfire" /\ SolidFireWorld /\ \A t \in Threads : SolidFireHand(t)
  BY DEF SolidFireInv
<1>2. (\A u \in Ids : Obj(u)) /\ failures \in Nat /\ array.made \in {0} \union Ids
  BY <1>1 DEF SolidFireWorld
<1>3. Ids \subseteq Nat
  BY ArrayObjectsAssumption
<1>4. array.made \in Nat
  <2>1. array.made = 0 \/ array.made \in Ids
    BY <1>2
  <2>2. \A u \in Ids : u \in Nat
    BY <1>3
  <2> QED
    BY <2>1, <2>2
<1>5. ASSUME NEW t \in Threads, Makes(t)
      PROVE  /\ local[t].mine \in Ids /\ Exists(local[t].mine)
             /\ object[local[t].mine].name = req[t].name
  <2>1. SolidFireHand(t)
    BY <1>1
  <2>2. pc[t] # "idle"
    BY <1>1, <1>5 DEF ObjectsInv, Locked, Makes, Creates
  <2> QED
    BY <1>5, <2>1, <2>2 DEF SolidFireHand, Makes, Creates, Deletes, Expands, CreateOps, DeleteOps
<1> QED
  BY <1>1, <1>2, <1>3, <1>4, <1>5

(* A step that changes nothing but the place of its thread, or ends it.    *)
LEMMA SolidFireGoesOn ==
  ASSUME SolidFireInv, Locked', NEW t \in Threads, Alone(t), UNCHANGED <<array, memory, known, service>>,
         failures' \in {failures, failures + 1},
         \/ req'[t] = None /\ pc'[t] = "idle"
         \/ req'[t] = req[t] /\ RoleInv(t)' /\ SolidFireHand(t)'
  PROVE  SolidFireInv'
<1>1. Careful(t)
  BY SilentCareful DEF SolidFireInv
<1>2. Onward
  BY SolidFireMade, OnwardSteps
<1>3. \A u \in Ids : Obj(u)'
  BY <1>2, UnchangedObjs, SolidFireMade
<1>4. RoleInv(t)' /\ SolidFireHand(t)'
  BY FreedRole DEF SolidFireHand
<1> QED
  BY <1>1, <1>3, <1>4, SolidFireSame

LEMMA SolidFireReports ==
  ASSUME SolidFireInv, Locked', NEW t \in Threads, NEW u \in Ids, Creates(t), Report(t, u),
         UNCHANGED <<array, memory, failures>>,
         Exists(u), object[u].name = req[t].name, IsLarge(u, req[t])
  PROVE  SolidFireInv'
<1> USE SolidFireMade
<1>1. ASSUME NEW w \in Threads \ {t}, Makes(w)
      PROVE  local[w].mine # u
  BY <1>1, MakersDiffer DEF Makes
<1>2. known.acked[u] = None \/ known.acked[u].op = req[t].op
  <2>1. ASSUME known.acked[u] # None
        PROVE  known.acked[u].op = req[t].op
    <3>1. known.acked[u].name = req[t].name
      BY <2>1 DEF Obj, Fits
    <3>2. /\ known.acked[u].op = known.asked[known.acked[u].name].op
          /\ known.asked[req[t].name] = req[t]
      BY <2>1 DEF ObjectsInv, KnownInv, Answers, RequestInv
    <3> QED
      BY <3>1, <3>2
  <2> QED
    BY <2>1
<1>3. Careful(t)
  BY <1>1, <1>2, ReportCareful
<1>4. Onward /\ req'[t] = None /\ pc'[t] = "idle" /\ known'.asked = known.asked
  BY ReportTells, OnwardSteps
<1>5. ASSUME NEW w \in Ids
      PROVE  Obj(w)'
  <2>1. CASE w = u
    <3>1. IsLarge(u, req[t]) /\ object' = object
      BY DEF object
    <3>2. \A q : IsLarge(u, q)' <=> IsLarge(u, q)
      BY <3>1 DEF IsLarge
    <3>3. u \in Nat /\ u <= array.made
      BY DEF Obj, Exists
    <3>4. MayStay(u)'
      BY <1>4 DEF MayStay, Onward
    <3> QED
      BY <2>1, <3>1, <3>2, <3>3, <3>4, ReportedObj DEF Exists
  <2>2. CASE w # u
    <3>1. Untouched(w)
      BY <2>2, ReportTells DEF Untouched, object
    <3> QED
      BY <1>4, <3>1, ObjKept
  <2> QED
    BY <2>1, <2>2
<1>6. RoleInv(t)' /\ SolidFireHand(t)'
  BY <1>4, FreedRole DEF SolidFireHand
<1> QED
  BY <1>3, <1>5, <1>6, SolidFireSame

LEMMA CreatorAsks ==
  ASSUME ObjectsInv, NEW t \in Threads, Creates(t)
  PROVE  /\ Asks(req[t].name, req[t]) /\ req[t].name \in Names /\ known.asked[req[t].name] = req[t]
         /\ req[t].op \in CreateOps /\ req[t] # None /\ req[t] \in Request
         /\ req[t].op = "createVolume" => req[t].name \in VolumeNames /\ req[t].size \in Sizes
         /\ req[t].op = "createSnapshot" => req[t].name \in SnapshotNames /\ req[t].uid \in Ids
  BY ArrayObjectsAssumption DEF ObjectsInv, KnownInv, RequestInv, Creates, Asks, Names, CreateOps

LEMMA SolidFireFindKeeps ==
  ASSUME SolidFireInv, Locked', NEW t \in Threads, SolidFireFind(t)
  PROVE  SolidFireInv'
<1>1. /\ ObjectsInv /\ Locked /\ pc[t] = "find" /\ Creates(t) /\ local[t].mine = None
      /\ local[t] \in Memo({}) /\ SolidFireHand(t)
  BY DEF SolidFireInv, ObjectsInv, SolidFireFind, At, SolidFireHand
<1>2. CASE Reject(t)
  BY <1>1, <1>2, RejectMoves, SolidFireGoesOn DEF Reject, Return
<1>3. CASE /\ req[t].op # "createSnapshot" /\ Named(req[t].name) = {} /\ Continue(t, "create")
           /\ NoFault /\ UNCHANGED <<array, memory, known>>
  <2>1. /\ Alone(t) /\ pc'[t] = "create" /\ req'[t] = req[t] /\ local'[t] = local[t]
        /\ UNCHANGED <<array, memory, known, service, failures>>
    BY <1>1, <1>3, ContinueMoves DEF NoFault, Continue, Proceed
  <2>2. RoleInv(t)'
    BY <1>1, <2>1 DEF RoleInv, Makes, Deletes, Expands, Creates, CreateOps, DeleteOps
  <2>3. Named(req[t].name)' = {} /\ req[t].op = "createVolume"
    BY <1>1, <1>3, <2>1 DEF Named, Exists, object, Creates, CreateOps
  <2>4. SolidFireHand(t)'
    BY <1>1, <2>1, <2>3 DEF SolidFireHand, SolidFirePlace, Creates
  <2> QED
    BY <2>1, <2>2, <2>4, SolidFireGoesOn
<1>4. CASE \E u \in Named(req[t].name) :
             /\ Accepts(req[t], None, object[u].size)
             /\ Report(t, u) /\ NoFault /\ UNCHANGED <<array, memory>>
  <2>1. PICK u \in Named(req[t].name) :
          /\ Accepts(req[t], None, object[u].size)
          /\ Report(t, u) /\ NoFault /\ UNCHANGED <<array, memory>>
    BY <1>4
  <2>2. u \in Ids /\ Exists(u) /\ object[u].name = req[t].name /\ IsLarge(u, req[t])
    BY <2>1 DEF Named, Accepts, IsLarge
  <2> QED
    BY <1>1, <2>1, <2>2, SolidFireReports DEF NoFault
<1> QED
  BY <1>2, <1>3, <1>4 DEF SolidFireFind

LEMMA SolidFireCreateKeeps ==
  ASSUME SolidFireInv, Locked', NEW t \in Threads, SolidFireCreate(t)
  PROVE  SolidFireInv'
<1>1. /\ Locked /\ ObjectsInv /\ (\A u \in Ids : Obj(u)) /\ failures \in Nat /\ array.made \in Nat
      /\ service = "solidfire" /\ pc[t] = "create" /\ Creates(t) /\ local[t].mine = None
      /\ local[t] \in Memo({}) /\ SolidFireHand(t) /\ SolidFireWorld /\ req[t].op = "createVolume"
      /\ failures = 0 => Named(req[t].name) = {}
  BY SolidFireMade DEF SolidFireInv, ObjectsInv, SolidFireCreate, At, SolidFireHand
<1>2. CASE Reject(t)
  BY <1>1, <1>2, RejectMoves, SolidFireGoesOn DEF Reject, Return
<1>3. CASE ~ Reject(t)
  <2>1. PICK u \in Ids :
          /\ u = array.made + 1
          /\ array' = [array EXCEPT !.made = u,
               !.object[u] = [name |-> req[t].name, size |-> req[t].size]]
          /\ Proceed(t, "readBack", [local[t] EXCEPT !.mine = u])
          /\ NoFault /\ UNCHANGED <<memory, known>>
    BY <1>3 DEF SolidFireCreate
  <2> DEFINE memo == [local[t] EXCEPT !.mine = u]
  <2>2. memo.mine = u /\ memo \in Memo({})
    BY <1>1, <2>1 DEF Memo
  <2>3. u \in Nat /\ u > array.made /\ u # None
    BY <1>1, <2>1, ArrayObjectsAssumption
  <2> DEFINE o == [name |-> req[t].name, size |-> req[t].size]
  <2>4. /\ o \in SolidFireVolume /\ o # None /\ o.name = req[t].name /\ o.size = req[t].size
        /\ req[t].size \in Nat
    <3>1. req[t].name \in VolumeNames /\ req[t].size \in Sizes
      BY <1>1, CreatorAsks
    <3>2. o \in SolidFireVolume
      BY <3>1 DEF SolidFireVolume
    <3>3. req[t].size \in Nat
      BY <3>1, ArrayObjectsAssumption
    <3>4. o # None
      BY <3>2, SolidFireAssumption
    <3> QED
      BY <3>2, <3>3, <3>4
  <2>5. /\ array'.made = u /\ array'.object = [array.object EXCEPT ![u] = o]
        /\ array' \in [object : [Ids -> SolidFireVolume \union {None}], made : {0} \union Ids]
    BY <1>1, <2>1, <2>4 DEF SolidFireWorld
  <2> HIDE DEF memo, o
  <2>6. Proceed(t, "readBack", memo)
    BY <2>1 DEF memo
  <2>7. /\ Alone(t) /\ pc'[t] = "readBack" /\ req'[t] = req[t] /\ local'[t] = memo
        /\ service' = service /\ known' = known /\ failures' = failures /\ memory' = memory
    <3>1. Moves(t) /\ Alone(t) /\ pc'[t] = "readBack" /\ req'[t] = req[t] /\ local'[t] = memo
      BY <1>1, <2>6, ProceedMoves
    <3> QED
      BY <2>1, <3>1 DEF NoFault, Moves
  <2>8. /\ object[u] = None /\ object'[u] = o
        /\ \A w \in Ids : w # u => object'[w] = object[w]
        /\ known.acked[u] = None /\ u \notin known.deleting \union known.gone
    BY <1>1, <2>1, <2>3, <2>5 DEF object, Obj, SolidFireWorld
  <2>9. /\ \A w \in Ids : w # u => (Exists(w)' <=> Exists(w))
        /\ Exists(u)' /\ ~ Exists(u)
    BY <2>3, <2>4, <2>8 DEF Exists, object
  <2>10. Careful(t) /\ RoleInv(t)'
    <3>1. Careful(t)
      BY <1>1, <2>7, SilentCareful
    <3>2. RoleInv(t)'
      BY <1>1, <2>1, <2>2, <2>7, <2>8 DEF RoleInv, Creates, Deletes, Expands, CreateOps, DeleteOps
    <3> QED
      BY <3>1, <3>2
  <2>11. ObjectsInv'
    BY <1>1, <2>10, CarefulKeeps
  <2>12. Onward
    BY <1>1, <2>1, <2>3, <2>5, <2>7 DEF Onward
  <2>13. \A w \in Ids : Obj(w)'
    <3>1. ASSUME NEW w \in Ids, w # u
          PROVE  Obj(w)'
      BY <1>1, <2>7, <2>8, <2>12, <3>1, ObjKept DEF Untouched
    <3>2. ASSUME NEW q, q = req[t]
          PROVE  IsLarge(u, q)'
      BY <2>4, <2>8, <3>2 DEF IsLarge, object
    <3>3. Obj(u)'
      <4>1. u \in Ids /\ array'.made \in Nat /\ u <= array'.made
        BY <2>1, <2>3, <2>5
      <4> QED
        BY <1>1, <2>3, <2>4, <2>7, <2>8, <3>2, <4>1, NewObj
    <3> QED
      BY <3>1, <3>3
  <2>14. failures' = 0 =>
           \A v, w \in Ids : Exists(v)' /\ Exists(w)' /\ object'[v].name = object'[w].name => v = w
    <3>1. SUFFICES ASSUME failures = 0, NEW v \in Ids, NEW w \in Ids, v # w, Exists(v)', Exists(w)',
                          object'[v].name = object'[w].name
                   PROVE  FALSE
      BY <2>7
    <3>2. \A x \in Ids : Exists(x) => object[x].name # req[t].name
      BY <1>1, <3>1 DEF Named
    <3> QED
      BY <1>1, <2>4, <2>8, <2>9, <3>1, <3>2 DEF SolidFireWorld
  <2>15. SolidFireWorld'
    BY <1>1, <2>5, <2>7, <2>13, <2>14 DEF SolidFireWorld, object
  <2>16. SolidFireHand(t)'
    <3>1. Exists(u)' /\ object'[u].name = req[t].name /\ IsLarge(u, req[t])'
      BY <2>4, <2>7, <2>8, <2>9 DEF IsLarge, object
    <3> QED
      BY <1>1, <2>1, <2>2, <2>7, <3>1 DEF SolidFireHand, SolidFirePlace, Creates, object
  <2>17. ASSUME NEW w \in Threads, w # t
         PROVE  SolidFireHand(w)'
    <3>1. /\ pc'[w] = pc[w] /\ req'[w] = req[w] /\ local'[w] = local[w] /\ SolidFireHand(w)
      BY <2>7, <2>17 DEF Alone, SolidFireInv
    <3>2. pc[w] \in {"readBack", "copySource", "look"} /\ Creates(w) =>
            /\ local[w].mine \in Ids /\ Exists(local[w].mine)'
            /\ object'[local[w].mine].name = req[w].name /\ IsLarge(local[w].mine, req[w])'
      BY <2>8, <2>9, <3>1 DEF SolidFireHand, IsLarge, object, Deletes, Creates, CreateOps, DeleteOps
    <3>3. pc[w] = "create" /\ failures = 0 => Named(req[w].name)' = {}
      <4>1. SUFFICES ASSUME pc[w] = "create", failures = 0, NEW x \in Ids, Exists(x)',
                            object'[x].name = req[w].name
                     PROVE  FALSE
        BY <3>1 DEF Named, object
      <4>2. Creates(w) /\ Named(req[w].name) = {}
        BY <3>1, <4>1 DEF SolidFireHand
      <4>3. req[w].name # req[t].name
        BY <1>1, <2>17, <4>2, MakersDiffer
      <4> QED
        BY <2>4, <2>8, <2>9, <4>1, <4>2, <4>3 DEF Named
    <3> QED
      BY <2>7, <3>1, <3>2, <3>3 DEF SolidFireHand, Creates, Deletes, Expands, IsCopy, object
  <2> QED
    BY <2>7, <2>11, <2>15, <2>16, <2>17 DEF SolidFireInv
<1> QED
  BY <1>2, <1>3

LEMMA SolidFireReadBackKeeps ==
  ASSUME SolidFireInv, Locked', NEW t \in Threads, SolidFireReadBack(t)
  PROVE  SolidFireInv'
<1>1. /\ ObjectsInv /\ Locked /\ pc[t] = "readBack" /\ Creates(t)
      /\ local[t].mine \in Ids /\ Exists(local[t].mine) /\ object[local[t].mine].name = req[t].name
      /\ IsLarge(local[t].mine, req[t])
      /\ local[t] \in Memo({}) /\ SolidFireHand(t) /\ RoleInv(t)
  BY DEF SolidFireInv, ObjectsInv, SolidFireReadBack, At, SolidFireHand
<1>2. CASE IsCopy(t)
  <2>1. Continue(t, "copySource") /\ UNCHANGED <<array, memory, known, failures>>
    BY <1>2 DEF SolidFireReadBack, NoFault
  <2>2. /\ Moves(t) /\ Alone(t) /\ pc'[t] = "copySource" /\ req'[t] = req[t] /\ local'[t] = local[t]
    BY <1>1, <2>1, ContinueMoves
  <2>3. service' = service
    BY <2>2 DEF Moves
  <2>4. RoleInv(t)'
    BY <1>1, <2>1, <2>2 DEF RoleInv, Makes, Deletes, Expands, Creates, CreateOps, DeleteOps
  <2>5. SolidFireHand(t)'
    BY <1>1, <1>2, <2>1, <2>2
    DEF SolidFireHand, SolidFirePlace, Creates, IsCopy, Exists, object, IsLarge
  <2> QED
    BY <2>1, <2>2, <2>3, <2>4, <2>5, SolidFireGoesOn
<1>3. CASE ~ IsCopy(t)
  BY <1>1, <1>3, SolidFireReports DEF SolidFireReadBack, NoFault
<1> QED
  BY <1>2, <1>3

LEMMA SolidFireRollsBack ==
  ASSUME SolidFireInv, Locked', NEW t \in Threads, pc[t] = "copySource", RollBack(t, "look"),
         UNCHANGED <<array, memory, known>>, failures' \in {failures, failures + 1}
  PROVE  SolidFireInv'
<1>1. /\ ObjectsInv /\ Locked /\ Creates(t)
      /\ local[t].mine \in Ids /\ Exists(local[t].mine) /\ object[local[t].mine].name = req[t].name
      /\ local[t] \in Memo({}) /\ SolidFireHand(t) /\ RoleInv(t) /\ IsCopy(t)
      /\ IsLarge(local[t].mine, req[t])
  BY DEF SolidFireInv, ObjectsInv, SolidFireHand
<1> DEFINE memo == [local[t] EXCEPT !.tries = RollbackTries]
<1>2. Proceed(t, "look", memo) /\ memo.mine = local[t].mine /\ memo \in Memo({})
  BY <1>1, ArrayObjectsAssumption DEF RollBack, Memo
<1> HIDE DEF memo
<1>3. Moves(t) /\ Alone(t) /\ pc'[t] = "look" /\ req'[t] = req[t] /\ local'[t] = memo
  BY <1>1, <1>2, ProceedMoves
<1>4. service' = service
  BY <1>3 DEF Moves
<1>5. RoleInv(t)'
  BY <1>1, <1>2, <1>3 DEF RoleInv, Makes, Deletes, Expands, Creates, CreateOps, DeleteOps
<1>6. SolidFireHand(t)'
  BY <1>1, <1>2, <1>3 DEF SolidFireHand, SolidFirePlace, Creates, IsCopy, Exists, object, IsLarge
<1> QED
  BY <1>3, <1>4, <1>5, <1>6, SolidFireGoesOn

LEMMA SolidFireDeleteKeeps ==
  ASSUME SolidFireInv, Locked', NEW t \in Threads, SolidFireDelete(t)
  PROVE  SolidFireInv'
<1>1. /\ ObjectsInv /\ Locked /\ pc[t] = "look" /\ (\A u \in Ids : Obj(u)) /\ failures \in Nat
      /\ array.made \in Nat /\ service = "solidfire" /\ req[t] # None
      /\ local[t] \in Memo({}) /\ SolidFireHand(t) /\ RoleInv(t)
      /\ UNCHANGED <<array, memory, failures>>
  BY SolidFireMade DEF SolidFireInv, ObjectsInv, SolidFireDelete, At, SolidFireHand, Locked, NoFault
<1>2. CASE IsCopy(t) /\ local[t].tries > 1 /\ Proceed(t, "look", [local[t] EXCEPT !.tries = @ - 1])
           /\ known' = known
  <2>1. /\ Creates(t) /\ local[t].mine \in Ids /\ Exists(local[t].mine)
        /\ object[local[t].mine].name = req[t].name /\ IsLarge(local[t].mine, req[t])
    BY <1>1, <1>2 DEF SolidFireHand, IsCopy, Deletes, DeleteOps
  <2> DEFINE memo == [local[t] EXCEPT !.tries = @ - 1]
  <2>2. Proceed(t, "look", memo) /\ memo.mine = local[t].mine /\ memo \in Memo({})
    BY <1>1, <1>2 DEF Memo
  <2> HIDE DEF memo
  <2>3. Moves(t) /\ Alone(t) /\ pc'[t] = "look" /\ req'[t] = req[t] /\ local'[t] = memo
    BY <1>1, <2>2, ProceedMoves
  <2>4. service' = service
    BY <2>3 DEF Moves
  <2>5. RoleInv(t)'
    BY <1>1, <1>2, <2>1, <2>2, <2>3 DEF RoleInv, Makes, Deletes, Expands, Creates, CreateOps, DeleteOps
  <2>6. SolidFireHand(t)'
    BY <1>1, <1>2, <2>1, <2>2, <2>3
    DEF SolidFireHand, SolidFirePlace, Creates, IsCopy, Exists, object, IsLarge
  <2> QED
    BY <1>1, <1>2, <2>3, <2>4, <2>5, <2>6, SolidFireGoesOn
<1>3. CASE IsCopy(t) /\ Return(t) /\ known' = known
  BY <1>1, <1>3, ReturnMoves, SolidFireGoesOn DEF Return
<1>4. CASE Deleted(t)
  <2>1. Careful(t) /\ req'[t] = None /\ pc'[t] = "idle" /\ known'.asked = known.asked /\ service' = service
    BY <1>1, <1>4, DeletedCareful, DeletedTells
  <2>2. Onward
    BY <1>1, <2>1, OnwardSteps
  <2>3. \A u \in Ids : Obj(u)'
    <3>1. \A u \in Ids : object'[u] = object[u] /\ MayStay(u)
      BY <1>1 DEF object, MayStay
    <3>2. Deletes(t) => req[t].uid \in Ids
      BY <1>1 DEF ObjectsInv, RequestInv
    <3> QED
      BY <1>1, <1>4, <2>2, <3>1, <3>2, DeletedObjs
  <2>4. RoleInv(t)' /\ SolidFireHand(t)'
    BY <2>1, FreedRole DEF SolidFireHand
  <2> QED
    BY <1>1, <2>1, <2>3, <2>4, SolidFireSame
<1> QED
  BY <1>2, <1>3, <1>4 DEF SolidFireDelete, TryAgain

LEMMA SolidFireExpandKeeps ==
  ASSUME SolidFireInv, Locked', NEW t \in Threads, SolidFireExpand(t)
  PROVE  SolidFireInv'
<1>1. /\ ObjectsInv /\ Locked /\ pc[t] = "expand" /\ (\A u \in Ids : Obj(u)) /\ failures \in Nat
      /\ array.made \in Nat /\ service = "solidfire" /\ Expands(t) /\ req[t].uid \in Ids
      /\ SolidFireWorld /\ req[t].size \in Nat
  BY SolidFireMade, ArrayObjectsAssumption
  DEF SolidFireInv, ObjectsInv, SolidFireExpand, At, SolidFireHand, RequestInv
<1>2. CASE Reject(t)
  BY <1>1, <1>2, RejectMoves, SolidFireGoesOn DEF Reject, Return
<1>3. CASE /\ Exists(req[t].uid) /\ object[req[t].uid].size >= req[t].size
           /\ Expanded(t) /\ NoFault /\ UNCHANGED <<array, memory>>
  <2>1. /\ Careful(t) /\ req'[t] = None /\ pc'[t] = "idle" /\ known'.asked = known.asked
        /\ service' = service /\ failures' = failures
    BY <1>1, <1>3, ExpandedCareful, ExpandedTells DEF NoFault
  <2>2. Onward
    BY <1>1, <1>3, <2>1, OnwardSteps
  <2>3. \A u \in Ids : Obj(u)'
    <3>1. object' = object /\ object[req[t].uid] # None /\ object[req[t].uid] \in SolidFireVolume
      BY <1>1, <1>3 DEF object, SolidFireWorld, Exists
    <3>2. object[req[t].uid].size \in Nat
      BY <3>1, ArrayObjectsAssumption DEF SolidFireVolume
    <3> QED
      BY <1>1, <1>3, <2>2, <3>1, <3>2, ExpandedObjs
  <2>4. RoleInv(t)' /\ SolidFireHand(t)'
    BY <2>1, FreedRole DEF SolidFireHand
  <2> QED
    BY <1>3, <2>1, <2>3, <2>4, SolidFireSame
<1> QED
  BY <1>2, <1>3 DEF SolidFireExpand

LEMMA SolidFireFailKeeps ==
  ASSUME SolidFireInv, Locked', NEW t \in Threads, SolidFireFail(t)
  PROVE  SolidFireInv'
<1>1. /\ ObjectsInv /\ Locked /\ pc[t] # "idle" /\ failures' = failures + 1 /\ failures \in Nat
      /\ UNCHANGED <<array, memory, known>> /\ SolidFireHand(t)
  BY SolidFireMade DEF SolidFireInv, ObjectsInv, SolidFireFail, Fault
<1>2. CASE pc[t] = "find" /\ req[t].op = "createVolume" /\ Continue(t, "create")
  <2>1. Creates(t) /\ local[t].mine = None /\ local[t] \in Memo({})
    BY <1>1, <1>2 DEF SolidFireHand
  <2>2. Moves(t) /\ Alone(t) /\ pc'[t] = "create" /\ req'[t] = req[t] /\ local'[t] = local[t]
    BY <1>1, <1>2, ContinueMoves
  <2>3. service' = service /\ failures' # 0
    BY <1>1, <2>2 DEF Moves
  <2>4. RoleInv(t)'
    BY <2>1, <2>2 DEF RoleInv, Makes, Deletes, Expands, Creates, CreateOps, DeleteOps
  <2>5. SolidFireHand(t)'
    BY <1>2, <2>1, <2>2, <2>3 DEF SolidFireHand, SolidFirePlace, Creates
  <2> QED
    BY <1>1, <2>2, <2>3, <2>4, <2>5, SolidFireGoesOn
<1>3. CASE pc[t] = "copySource" /\ RollBack(t, "look")
  BY <1>1, <1>3, SolidFireRollsBack
<1>4. CASE Return(t)
  BY <1>1, <1>4, ReturnMoves, SolidFireGoesOn DEF Return
<1> QED
  BY <1>2, <1>3, <1>4 DEF SolidFireFail

LEMMA SolidFireCallKeeps ==
  ASSUME SolidFireInv, NEW t \in Threads, CallObjects(t)
  PROVE  SolidFireInv'
<1>1. /\ ObjectsInv' /\ (\A u \in Ids : Obj(u)') /\ Alone(t) /\ Starts(t)
      /\ UNCHANGED <<service, array, memory, failures>>
  BY SolidFireMade, CallKeeps
<1>2. SolidFireWorld'
  BY <1>1 DEF SolidFireInv, SolidFireWorld, Exists, object
<1>3. SolidFireHand(t)'
  <2>1. CASE Creates(t)' /\ pc'[t] = "find" /\ local'[t] = [NoMemo EXCEPT !.mine = None]
    BY <2>1 DEF SolidFireHand, SolidFirePlace, NoMemo, Memo
  <2>2. CASE Deletes(t)' /\ pc'[t] = "look" /\ local'[t] = [NoMemo EXCEPT !.mine = (req'[t]).uid]
    <3>1. (req'[t]).uid \in Ids /\ ~ Creates(t)'
      BY <1>1, <2>2 DEF ObjectsInv, RequestInv, Creates, Deletes, CreateOps, DeleteOps
    <3> QED
      BY <2>2, <3>1 DEF SolidFireHand, SolidFirePlace, NoMemo, Memo
  <2>3. CASE Expands(t)' /\ pc'[t] = "expand" /\ local'[t] = [NoMemo EXCEPT !.mine = (req'[t]).uid]
    <3>1. (req'[t]).uid \in Ids
      BY <1>1, <2>3 DEF ObjectsInv, RequestInv
    <3> QED
      BY <2>3, <3>1 DEF SolidFireHand, SolidFirePlace, NoMemo, Memo
  <2> QED
    BY <1>1, <2>1, <2>2, <2>3 DEF Starts
<1>4. ASSUME NEW w \in Threads, w # t
      PROVE  SolidFireHand(w)'
  <2>1. SolidFireHand(w) /\ pc'[w] = pc[w] /\ req'[w] = req[w] /\ local'[w] = local[w]
    BY <1>1, <1>4 DEF SolidFireInv, Alone
  <2> QED
    BY <1>1, <2>1 DEF SolidFireHand, Creates, Deletes, Expands, IsCopy, Exists, Named, object, IsLarge
<1> QED
  BY <1>1, <1>2, <1>3, <1>4 DEF SolidFireInv

LEMMA SolidFireCrashKeeps ==
  ASSUME SolidFireInv, Crash
  PROVE  SolidFireInv'
<1>1. /\ ObjectsInv' /\ (\A u \in Ids : Obj(u)') /\ (\A t \in Threads : pc'[t] = "idle")
      /\ memory' = <<>> /\ UNCHANGED <<service, array, known, failures>>
  BY SolidFireMade, CrashKeepsObjects
<1>2. SolidFireWorld'
  BY <1>1 DEF SolidFireInv, SolidFireWorld, Exists, object
<1>3. \A t \in Threads : SolidFireHand(t)'
  BY <1>1 DEF SolidFireHand
<1> QED
  BY <1>1, <1>2, <1>3 DEF SolidFireInv

LEMMA InitSolidFireInv ==
  ASSUME InitSolidFire
  PROVE  SolidFireInv
<1> DEFINE o == [name |-> FirstName, size |-> SizeOf[FirstName]]
<1>1. FirstName \in VolumeNames /\ FirstId \in Ids /\ SizeOf[FirstName] \in Sizes
  BY FirstOnes, ArrayObjectsAssumption
<1>2. o \in SolidFireVolume
  BY <1>1 DEF SolidFireVolume
<1>3. /\ o # None /\ o.name = FirstName /\ o.size = SizeOf[FirstName]
      /\ InitObjects("solidfire") /\ memory = <<>>
      /\ array = [object |-> First(o), made |-> FirstId]
  BY <1>2, SolidFireAssumption DEF InitSolidFire
<1> HIDE DEF o
<1>4. array.object = First(o) /\ array.made = FirstId /\ First(o) \in [Ids -> SolidFireVolume \union {None}]
  BY <1>2, <1>3 DEF First
<1>5. /\ ObjectsInv /\ (\A u \in Ids : Obj(u)) /\ failures = 0 /\ service = "solidfire"
      /\ \A t \in Threads : pc[t] = "idle"
      /\ \A u \in Ids : object[u] = IF u = FirstId THEN o ELSE None
  BY <1>3, <1>4, InitObjectsInv DEF ObjectServices
<1>6. SolidFireWorld
  BY <1>1, <1>3, <1>4, <1>5 DEF SolidFireWorld, Exists
<1> QED
  BY <1>5, <1>6 DEF SolidFireInv, SolidFireHand

LEMMA SolidFireStep ==
  ASSUME SolidFireInv, SolidFireNext
  PROVE  SolidFireInv'
<1>1. Locked'
  BY SolidFireMove DEF SolidFireInv, ObjectsInv
<1>2. PICK t \in Threads :
        \/ SolidFireFind(t) \/ SolidFireCreate(t) \/ SolidFireReadBack(t) \/ SolidFireCopySource(t)
        \/ SolidFireDelete(t) \/ SolidFireExpand(t) \/ SolidFireFail(t)
  BY DEF SolidFireNext
<1>3. CASE SolidFireCopySource(t)
  <2>1. /\ pc[t] = "copySource" /\ RollBack(t, "look")
        /\ UNCHANGED <<array, memory, known, failures>>
    BY <1>3 DEF SolidFireCopySource, At, NoFault
  <2> QED
    BY <1>1, <2>1, SolidFireRollsBack
<1> QED
  BY <1>1, <1>2, <1>3, SolidFireFindKeeps, SolidFireCreateKeeps, SolidFireReadBackKeeps,
     SolidFireDeleteKeeps, SolidFireExpandKeeps, SolidFireFailKeeps

(* What the properties say of a SolidFire array.                           *)
LEMMA SolidFireMeans ==
  ASSUME SolidFireInv
  PROVE  TypeOK /\ ReportedStays /\ ReportedAsAsked /\ DeletedIsGone /\ NameOnce
<1>1. ObjectsInv /\ (\A u \in Ids : Obj(u)) /\ service = "solidfire" /\ SolidFireWorld /\ KnownInv
  BY SolidFireMade DEF SolidFireInv, ObjectsInv
<1>2. TypeOK
  <2>1. \A t \in Threads : pc[t] \in SolidFirePlace
    BY DEF SolidFireInv, SolidFireHand, SolidFirePlace
  <2>2. SolidFireTypeOK
    BY <1>1, <2>1 DEF SolidFireTypeOK, SolidFireWorld
  <2>3. ObjectsTypeOK /\ ids_in_use = {LockOf(req[t]) : t \in {x \in Threads : req[x] # None}}
    BY <1>1 DEF ObjectsTypeOK, ObjectsInv, KnownInv, RequestInv, Locked
  <2> QED
    BY <1>1, <2>2, <2>3 DEF TypeOK
<1>3. ReportedStays
  BY <1>1 DEF ReportedStays, Obj, Trusted, Fits
<1>4. ReportedAsAsked
  BY <1>1 DEF ReportedAsAsked, Obj, Trusted, IsLarge
<1>5. DeletedIsGone
  BY <1>1 DEF DeletedIsGone
<1>6. NameOnce
  <2>1. failures = 0 \/ failures > 0
    BY <1>1 DEF SolidFireWorld
  <2> QED
    BY <1>1, <2>1 DEF NameOnce, SolidFireWorld
<1> QED
  BY <1>2, <1>3, <1>4, <1>5, <1>6

-----------------------------------------------------------------------------
(* A storage partition.                                                    *)

(* An object that a thread has made, or is about to remove or extend, is   *)
(* there under its name.                                                   *)
PartitionHand(t) ==
  pc[t] # "idle" =>
    /\ pc[t] \in PartitionPlace /\ local[t] \in Memo(PartitionObject)
    /\ pc[t] \in {"find", "create", "snapshot", "clone", "removeSnapshot", "readBack"} => Creates(t)
    /\ pc[t] \in {"look", "remove"} => Deletes(t)
    /\ pc[t] \in {"expand", "extend"} => Expands(t)
    /\ pc[t] \in {"find", "create", "snapshot", "clone"} => local[t].mine = None
    /\ pc[t] = "create" => req[t].uid = None
    /\ pc[t] \in {"snapshot", "clone"} => req[t].uid # None
    /\ Makes(t) => Exists(local[t].mine) /\ object[local[t].mine].name = req[t].name
    /\ pc[t] \in {"remove", "extend"} =>
         /\ Exists(local[t].mine) /\ local[t].read # None
         /\ local[t].read.name = object[local[t].mine].name
    /\ pc[t] = "extend" => object[local[t].mine].size < req[t].size

(* A name is taken once, by what was asked for under it, and a temporary   *)
(* snapshot has the source of the request of its name.                     *)
PartitionWorld ==
  /\ array \in [object : [Ids -> PartitionObject \union {None}], made : {0} \union Ids,
                temporary : [Names -> Ids \union {None}]]
  /\ memory = <<>> /\ failures \in Nat
  /\ \A u \in Ids : Obj(u)
  /\ \A u, w \in Ids : Exists(u) /\ Exists(w) /\ object[u].name = object[w].name => u = w
  /\ \A u \in Ids : Exists(u) => object[u].source = known.asked[object[u].name].uid
  /\ \A n \in Names : array.temporary[n] # None =>
       known.asked[n] # None /\ array.temporary[n] = known.asked[n].uid

PartitionInv ==
  /\ service = "partition" /\ ObjectsInv /\ PartitionWorld
  /\ \A t \in Threads : PartitionHand(t)

LEMMA PartitionKnows ==
  ASSUME PartitionInv
  PROVE  /\ ObjectsInv /\ Locked /\ KnownInv /\ (\A u \in Ids : Obj(u)) /\ failures \in Nat
         /\ array.made \in Nat /\ service = "partition" /\ PartitionWorld
         /\ \A t \in Threads : PartitionHand(t) /\ RoleInv(t) /\ RequestInv(t)
<1>1. ObjectsInv /\ PartitionWorld /\ service = "partition" /\ \A t \in Threads : PartitionHand(t)
  BY DEF PartitionInv
<1>2. array.made \in Nat
  <2>1. array.made = 0 \/ array.made \in Ids
    BY <1>1 DEF PartitionWorld
  <2>2. \A u \in Ids : u \in Nat
    BY ArrayObjectsAssumption
  <2> QED
    BY <2>1, <2>2
<1>3. Locked /\ KnownInv /\ \A t \in Threads : RoleInv(t) /\ RequestInv(t)
  BY <1>1 DEF ObjectsInv
<1>4. (\A u \in Ids : Obj(u)) /\ failures \in Nat
  BY <1>1 DEF PartitionWorld
<1> QED
  BY <1>1, <1>2, <1>3, <1>4

(* What t does leaves the objects in other hands as they are.              *)
LEMMA PartitionKeeps ==
  ASSUME PartitionInv, Locked', NEW t \in Threads, Careful(t), RoleInv(t)', PartitionHand(t)',
         PartitionWorld',
         \A w \in Threads \ {t} :
           (Makes(w) \/ Deletes(w) \/ Expands(w)) /\ local[w].mine \in Ids =>
             object'[local[w].mine] = object[local[w].mine]
  PROVE  PartitionInv'
<1>1. ObjectsInv' /\ Alone(t) /\ service' = "partition"
  BY CarefulKeeps DEF PartitionInv, Careful
<1>2. ASSUME NEW w \in Threads, w # t
      PROVE  PartitionHand(w)'
  <2>1. /\ PartitionHand(w) /\ RoleInv(w) /\ RequestInv(w)
        /\ pc'[w] = pc[w] /\ req'[w] = req[w] /\ local'[w] = local[w]
    BY <1>1, <1>2 DEF PartitionInv, Alone, ObjectsInv
  <2>2. Makes(w) \/ Deletes(w) \/ Expands(w) =>
          local[w].mine \in Ids /\ object'[local[w].mine] = object[local[w].mine]
    BY <1>2, <2>1 DEF RoleInv, RequestInv
  <2>3. Makes(w)' <=> Makes(w)
    BY <2>1 DEF Makes, Creates
  <2>4. CASE Makes(w) \/ Deletes(w) \/ Expands(w)
    <3>1. /\ Exists(local[w].mine)' <=> Exists(local[w].mine)
          /\ (object[local[w].mine])' = object[local[w].mine]
      BY <2>1, <2>2, <2>4 DEF Exists, object
    <3> QED
      BY <2>1, <2>3, <3>1 DEF PartitionHand, Creates, Deletes, Expands
  <2>5. CASE ~ (Makes(w) \/ Deletes(w) \/ Expands(w))
    BY <2>1, <2>3, <2>5 DEF PartitionHand, Creates, Deletes, Expands
  <2> QED
    BY <2>4, <2>5
<1> QED
  BY <1>1, <1>2 DEF PartitionInv

LEMMA PartitionWorldKept ==
  ASSUME PartitionInv, UNCHANGED <<array, memory, service>>, known'.asked = known.asked,
         failures' \in {failures, failures + 1}, \A u \in Ids : Obj(u)'
  PROVE  PartitionWorld'
<1>1. object' = object
  BY DEF object
<1> QED
  BY <1>1 DEF PartitionInv, PartitionWorld, Exists, object

LEMMA PartitionGoesOn ==
  ASSUME PartitionInv, Locked', NEW t \in Threads, Alone(t), UNCHANGED <<array, memory, known, service>>,
         failures' \in {failures, failures + 1},
         \/ req'[t] = None /\ pc'[t] = "idle"
         \/ req'[t] = req[t] /\ RoleInv(t)' /\ PartitionHand(t)'
  PROVE  PartitionInv'
<1>1. Careful(t)
  BY PartitionKnows, SilentCareful
<1>2. Onward
  BY PartitionKnows, OnwardSteps
<1>3. \A u \in Ids : Obj(u)'
  BY <1>2, UnchangedObjs, PartitionKnows
<1>4. RoleInv(t)' /\ PartitionHand(t)'
  BY FreedRole DEF PartitionHand
<1>5. \A u : object'[u] = object[u]
  BY DEF object
<1>6. PartitionWorld'
  BY <1>3, PartitionWorldKept
<1> QED
  BY <1>1, <1>4, <1>5, <1>6, PartitionKeeps

LEMMA PartitionRejects ==
  ASSUME PartitionInv, Locked', NEW t \in Threads, pc[t] # "idle", Return(t),
         UNCHANGED <<array, memory, known>>, failures' \in {failures, failures + 1}
  PROVE  PartitionInv'
<1>1. /\ Alone(t) /\ req'[t] = None /\ pc'[t] = "idle" /\ service' = service
  BY PartitionKnows, ReturnMoves DEF Return
<1> QED
  BY <1>1, PartitionGoesOn

(* What a request finds or has made under its name is reported.            *)
LEMMA PartitionReports ==
  ASSUME PartitionInv, Locked', NEW t \in Threads, NEW u \in Ids, Creates(t), Report(t, u),
         UNCHANGED <<array, memory, failures>>, Exists(u), object[u].name = req[t].name
  PROVE  PartitionInv'
<1>1. /\ ObjectsInv /\ (\A w \in Ids : Obj(w)) /\ failures \in Nat /\ array.made \in Nat
      /\ service = "partition" /\ PartitionWorld /\ KnownInv
      /\ \A w \in Threads : PartitionHand(w)
  BY PartitionKnows
<1>2. known.asked[req[t].name] = req[t] /\ req[t].name \in Names
  BY <1>1, CreatorAsks
<1>3. ASSUME NEW w \in Threads \ {t}, Makes(w)
      PROVE  local[w].mine # u
  <2>1. object[local[w].mine].name = req[w].name
    BY <1>1, <1>3 DEF PartitionHand, Makes, Creates, ObjectsInv, Locked
  <2> QED
    BY <1>1, <1>3, <2>1, MakersDiffer DEF Makes
<1>4. known.acked[u] = None \/ known.acked[u].op = req[t].op
  <2>1. ASSUME known.acked[u] # None
        PROVE  known.acked[u].op = req[t].op
    <3>1. known.acked[u].name = req[t].name
      BY <1>1, <2>1 DEF Obj, Fits
    <3> QED
      BY <1>1, <1>2, <2>1, <3>1 DEF KnownInv, Answers
  <2> QED
    BY <2>1
<1>5. Careful(t)
  BY <1>1, <1>3, <1>4, ReportCareful
<1>6. Onward /\ req'[t] = None /\ pc'[t] = "idle" /\ known'.asked = known.asked /\ service' = service
  BY <1>1, ReportTells, OnwardSteps
<1>7. ASSUME NEW w \in Ids
      PROVE  Obj(w)'
  <2>1. CASE w = u
    <3>1. IsLarge(u, req[t]) /\ object' = object /\ object[u] # None
      BY <1>1, <1>2, ArrayObjectsAssumption DEF object, Obj, Exists
    <3>2. \A q : IsLarge(u, q)' <=> IsLarge(u, q)
      BY <3>1 DEF IsLarge
    <3>3. u \in Nat /\ u <= array.made
      BY <1>1, <3>1, ArrayObjectsAssumption DEF Obj
    <3>4. u \notin known.gone
      BY <1>1 DEF Obj, MayStay
    <3> QED
      BY <1>1, <2>1, <3>1, <3>2, <3>3, <3>4, ReportedObj
  <2>2. CASE w # u
    <3>1. Untouched(w)
      BY <1>1, <2>2, ReportTells DEF Untouched, object
    <3> QED
      BY <1>1, <1>6, <3>1, ObjKept
  <2> QED
    BY <2>1, <2>2
<1>8. RoleInv(t)' /\ PartitionHand(t)'
  BY <1>6, FreedRole DEF PartitionHand
<1>9. \A w : object'[w] = object[w]
  BY DEF object
<1>10. PartitionWorld'
  BY <1>6, <1>7, PartitionWorldKept
<1> QED
  BY <1>5, <1>8, <1>9, <1>10, PartitionKeeps

(* A creator goes on with what it has made, or with nothing.               *)
LEMMA PartitionCreatorGoes ==
  ASSUME PartitionInv, Locked', NEW t \in Threads, Creates(t), pc[t] # "idle",
         NEW to \in {"create", "snapshot", "clone", "removeSnapshot", "readBack"}, Continue(t, to),
         UNCHANGED <<array, memory, known>>, failures' \in {failures, failures + 1},
         to \in {"create", "snapshot", "clone"} => local[t].mine = None,
         to = "create" => req[t].uid = None,
         to \in {"snapshot", "clone"} => req[t].uid # None
  PROVE  PartitionInv'
<1>1. PartitionHand(t) /\ RoleInv(t) /\ RequestInv(t) /\ Locked
  BY PartitionKnows
<1>2. Moves(t) /\ Alone(t) /\ pc'[t] = to /\ req'[t] = req[t] /\ local'[t] = local[t]
  BY <1>1, ContinueMoves
<1>3. service' = service
  BY <1>2 DEF Moves
<1>4. pc[t] \notin {"toggle", "newest"}
  BY <1>1 DEF PartitionHand, PartitionPlace
<1>5. Creates(t)' /\ ~ Deletes(t)' /\ ~ Expands(t)' /\ (Makes(t)' <=> Makes(t))
  BY <1>2, <1>4 DEF Creates, Makes, Deletes, Expands, CreateOps, DeleteOps
<1>6. RoleInv(t)'
  BY <1>1, <1>2, <1>5 DEF RoleInv
<1>7. PartitionHand(t)'
  <2>1. (object[local[t].mine])' = object[local[t].mine] /\ (Exists(local[t].mine)' <=> Exists(local[t].mine))
    BY <1>2 DEF object, Exists
  <2> QED
    BY <1>1, <1>2, <1>5, <2>1 DEF PartitionHand, PartitionPlace
<1> QED
  BY <1>2, <1>3, <1>6, <1>7, PartitionGoesOn

LEMMA PartitionFindKeeps ==
  ASSUME PartitionInv, Locked', NEW t \in Threads, PartitionFind(t)
  PROVE  PartitionInv'
<1>1. /\ pc[t] = "find" /\ Creates(t) /\ local[t].mine = None
  BY PartitionKnows DEF PartitionFind, AtPartition, At, PartitionHand
<1>2. CASE Reject(t)
  BY <1>1, <1>2, PartitionRejects DEF Reject, NoFault
<1>3. ASSUME NEW u \in Named(req[t].name), Report(t, u), NoFault, UNCHANGED <<array, memory>>
      PROVE  PartitionInv'
  <2>1. u \in Ids /\ Exists(u) /\ object[u].name = req[t].name
    BY DEF Named
  <2> QED
    BY <1>1, <1>3, <2>1, PartitionReports DEF NoFault
<1>4. CASE Goes(t, IF req[t].uid = None THEN "create" ELSE "snapshot") /\ UNCHANGED array
  <2>1. /\ Continue(t, IF req[t].uid = None THEN "create" ELSE "snapshot")
        /\ UNCHANGED <<array, memory, known, failures>>
    BY <1>4 DEF Goes, NoFault
  <2>2. CASE req[t].uid = None
    BY <1>1, <2>1, <2>2, PartitionCreatorGoes
  <2>3. CASE req[t].uid # None
    BY <1>1, <2>1, <2>3, PartitionCreatorGoes
  <2> QED
    BY <2>2, <2>3
<1> QED
  BY <1>2, <1>3, <1>4 DEF PartitionFind

(* A volume with a new identifier and a name that is free.                 *)
LEMMA PartitionMakes ==
  ASSUME PartitionInv, Locked', NEW t \in Threads, Creates(t), NEW size, NEW source,
         MakeVolume(t, size, source), CanMake(req[t].name),
         Alone(t), UNCHANGED <<memory, known, service, failures>>, req'[t] = req[t], pc'[t] # "idle",
         size \in Sizes, source = req[t].uid, source = None => size = req[t].size,
         RoleInv(t)', PartitionHand(t)'
  PROVE  PartitionInv'
<1>1. /\ ObjectsInv /\ Locked /\ (\A u \in Ids : Obj(u)) /\ failures \in Nat /\ array.made \in Nat
      /\ service = "partition" /\ PartitionWorld /\ RequestInv(t)
      /\ \A w \in Threads : RoleInv(w) /\ RequestInv(w) /\ PartitionHand(w)
  BY PartitionKnows
<1>2. /\ req[t].name \in Names /\ req[t] \in Request /\ known.asked[req[t].name] = req[t]
      /\ source \in Ids \union {None} /\ size \in Nat
  BY <1>1, CreatorAsks, ArrayObjectsAssumption DEF Request
<1>3. PICK u \in Ids : u = array.made + 1
  BY DEF CanMake
<1> DEFINE o == [name |-> req[t].name, size |-> size, source |-> source]
<1>4. o \in PartitionObject /\ o # None
  <2>1. o \in PartitionObject
    BY <1>2 DEF PartitionObject
  <2> QED
    BY <2>1, PartitionAssumption
<1>5. o.name = req[t].name /\ o.size = size /\ o.source = source
  OBVIOUS
<1>6. array' = [array EXCEPT !.made = u, !.object[u] = o]
  BY <1>3 DEF MakeVolume
<1> HIDE DEF o
<1>7. u \in Nat /\ u > array.made /\ u # None
  BY <1>1, <1>3, ArrayObjectsAssumption
<1>8. /\ array'.made = u /\ array'.object = [array.object EXCEPT ![u] = o]
      /\ array'.temporary = array.temporary
      /\ array' \in [object : [Ids -> PartitionObject \union {None}], made : {0} \union Ids,
                     temporary : [Names -> Ids \union {None}]]
  BY <1>1, <1>4, <1>6 DEF PartitionWorld
<1>9. /\ object[u] = None /\ object'[u] = o
      /\ \A w \in Ids : w # u => object'[w] = object[w]
      /\ known.acked[u] = None /\ u \notin known.deleting \union known.gone
  BY <1>1, <1>7, <1>8 DEF object, Obj, PartitionWorld
<1>10. /\ \A w \in Ids : w # u => (Exists(w)' <=> Exists(w))
       /\ Exists(u)' /\ ~ Exists(u)
  BY <1>4, <1>7, <1>9 DEF Exists, object
<1>11. Careful(t)
  BY <1>1, SilentCareful
<1>12. Onward
  BY <1>1, <1>7, <1>8 DEF Onward
<1>13. \A w \in Ids : Obj(w)'
  <2>1. ASSUME NEW w \in Ids, w # u
        PROVE  Obj(w)'
    BY <1>1, <1>9, <1>12, <2>1, ObjKept DEF Untouched
  <2>2. Obj(u)'
    <3>1. ASSUME NEW q, q = req[t]
          PROVE  IsLarge(u, q)'
      BY <1>2, <1>5, <1>9, <3>1 DEF IsLarge, object
    <3>2. u \in Ids /\ array'.made \in Nat /\ u <= array'.made
      BY <1>7, <1>8
    <3>3. object'[u] # None /\ object'[u].name = req[t].name
      BY <1>4, <1>5, <1>9
    <3> QED
      BY <1>1, <1>7, <1>9, <3>1, <3>2, <3>3, NewObj
  <2> QED
    BY <2>1, <2>2
<1>14. \A v, w \in Ids : Exists(v)' /\ Exists(w)' /\ object'[v].name = object'[w].name => v = w
  <2>1. SUFFICES ASSUME NEW v \in Ids, NEW w \in Ids, v # w, Exists(v)', Exists(w)',
                        object'[v].name = object'[w].name
                 PROVE  FALSE
    OBVIOUS
  <2>2. \A x \in Ids : Exists(x) => object[x].name # req[t].name
    BY DEF Named, CanMake
  <2> QED
    BY <1>1, <1>5, <1>9, <1>10, <2>1, <2>2 DEF PartitionWorld
<1>15. \A w \in Ids : Exists(w)' => object'[w].source = known'.asked[object'[w].name].uid
  BY <1>1, <1>2, <1>5, <1>9, <1>10 DEF PartitionWorld
<1>16. PartitionWorld'
  BY <1>1, <1>8, <1>13, <1>14, <1>15 DEF PartitionWorld, object
<1>17. ASSUME NEW w \in Threads \ {t}, Makes(w) \/ Deletes(w) \/ Expands(w), local[w].mine \in Ids
       PROVE  object'[local[w].mine] = object[local[w].mine]
  <2>1. local[w].mine # u
    <3>1. CASE Makes(w)
      BY <1>1, <1>9, <1>10, <3>1 DEF PartitionHand, Makes, Creates, Locked
    <3>2. CASE Deletes(w) \/ Expands(w)
      BY <1>1, <1>9, <3>2 DEF RoleInv
    <3> QED
      BY <1>17, <3>1, <3>2
  <2> QED
    BY <1>9, <1>17, <2>1
<1> QED
  BY <1>11, <1>16, <1>17, PartitionKeeps

LEMMA PartitionCreateKeeps ==
  ASSUME PartitionInv, Locked', NEW t \in Threads, PartitionCreate(t)
  PROVE  PartitionInv'
<1>1. /\ ObjectsInv /\ Locked /\ pc[t] = "create" /\ Creates(t) /\ local[t].mine = None
      /\ req[t].uid = None /\ PartitionHand(t)
  BY PartitionKnows DEF PartitionCreate, AtPartition, At, PartitionHand
<1>2. CASE Reject(t)
  BY <1>1, <1>2, PartitionRejects DEF Reject, NoFault
<1>3. CASE CanMake(req[t].name) /\ MakeVolume(t, req[t].size, None) /\ Goes(t, "readBack")
  <2>1. Continue(t, "readBack") /\ UNCHANGED <<memory, known, failures>>
    BY <1>3 DEF Goes, NoFault
  <2>2. Moves(t) /\ Alone(t) /\ pc'[t] = "readBack" /\ req'[t] = req[t] /\ local'[t] = local[t]
    BY <1>1, <2>1, ContinueMoves
  <2>3. service' = service
    BY <2>2 DEF Moves
  <2>4. req[t].op = "createVolume" /\ req[t].size \in Sizes
    <3>1. req[t].op \in CreateOps /\ (req[t].op = "createSnapshot" => req[t].uid \in Ids)
      BY <1>1, CreatorAsks
    <3>2. req[t].op = "createVolume"
      BY <1>1, <3>1, ArrayObjectsAssumption DEF CreateOps
    <3> QED
      BY <1>1, <3>2, CreatorAsks
  <2>5. Creates(t)' /\ ~ Deletes(t)' /\ ~ Expands(t)' /\ ~ Makes(t)'
    BY <1>1, <2>2 DEF Creates, Makes, Deletes, Expands, CreateOps, DeleteOps
  <2>6. RoleInv(t)' /\ PartitionHand(t)'
    BY <1>1, <2>2, <2>5 DEF RoleInv, PartitionHand, PartitionPlace
  <2> QED
    BY <1>1, <1>3, <2>1, <2>2, <2>3, <2>4, <2>6, PartitionMakes
<1> QED
  BY <1>2, <1>3 DEF PartitionCreate

(* The temporary snapshot of a name comes and goes.                        *)
LEMMA PartitionSnapshots ==
  ASSUME PartitionInv, NEW n \in Names, NEW source \in Ids \union {None},
         array' = [array EXCEPT !.temporary[n] = source],
         source # None => known.asked[n] # None /\ source = known.asked[n].uid,
         UNCHANGED <<memory, known, service>>, failures' \in {failures, failures + 1}
  PROVE  PartitionWorld' /\ \A u : object'[u] = object[u]
<1>1. /\ array'.made = array.made /\ array'.object = array.object
      /\ array'.temporary = [array.temporary EXCEPT ![n] = source]
      /\ array' \in [object : [Ids -> PartitionObject \union {None}], made : {0} \union Ids,
                     temporary : [Names -> Ids \union {None}]]
      /\ array.temporary \in [Names -> Ids \union {None}]
  BY DEF PartitionInv, PartitionWorld
<1>2. object' = object
  BY <1>1 DEF object
<1>3. Onward
  BY <1>1, PartitionKnows DEF Onward
<1>4. \A u \in Ids : Obj(u)'
  BY <1>1, <1>3, UnchangedObjs, PartitionKnows
<1>5. \A m \in Names : array'.temporary[m] # None =>
        known'.asked[m] # None /\ array'.temporary[m] = known'.asked[m].uid
  BY <1>1 DEF PartitionInv, PartitionWorld
<1>6. \A u : Exists(u)' <=> Exists(u)
  BY <1>2 DEF Exists
<1>7. PartitionWorld'
  BY <1>1, <1>2, <1>4, <1>5, <1>6 DEF PartitionInv, PartitionWorld
<1> QED
  BY <1>2, <1>7

LEMMA AddGroupSnapshotKeeps ==
  ASSUME PartitionInv, Locked', NEW t \in Threads, AddGroupSnapshot(t)
  PROVE  PartitionInv'
<1>1. /\ ObjectsInv /\ Locked /\ pc[t] = "snapshot" /\ Creates(t) /\ local[t].mine = None
      /\ req[t].uid # None /\ PartitionHand(t)
  BY PartitionKnows DEF AddGroupSnapshot, AtPartition, At, PartitionHand
<1>2. CASE Reject(t)
  BY <1>1, <1>2, PartitionRejects DEF Reject, NoFault
<1>3. CASE array' = [array EXCEPT !.temporary[req[t].name] = req[t].uid] /\ Goes(t, "clone")
  <2>1. Continue(t, "clone") /\ UNCHANGED <<memory, known, failures>>
    BY <1>3 DEF Goes, NoFault
  <2>2. Moves(t) /\ Alone(t) /\ pc'[t] = "clone" /\ req'[t] = req[t] /\ local'[t] = local[t]
    BY <1>1, <2>1, ContinueMoves
  <2>3. service' = service
    BY <2>2 DEF Moves
  <2>4. req[t].name \in Names /\ known.asked[req[t].name] = req[t] /\ req[t] # None /\ req[t] \in Request
    BY <1>1, CreatorAsks
  <2>5. req[t].uid \in Ids
    BY <1>1, <2>4 DEF Request
  <2>6. PartitionWorld' /\ \A u : object'[u] = object[u]
    BY <1>3, <2>1, <2>3, <2>4, <2>5, PartitionSnapshots
  <2>7. Creates(t)' /\ ~ Deletes(t)' /\ ~ Expands(t)' /\ ~ Makes(t)'
    BY <1>1, <2>2 DEF Creates, Makes, Deletes, Expands, CreateOps, DeleteOps
  <2>8. RoleInv(t)' /\ PartitionHand(t)'
    BY <1>1, <2>2, <2>7 DEF RoleInv, PartitionHand, PartitionPlace
  <2>9. Careful(t)
    BY <1>1, <2>1, <2>2, <2>3, SilentCareful
  <2> QED
    BY <2>6, <2>8, <2>9, PartitionKeeps
<1> QED
  BY <1>2, <1>3 DEF AddGroupSnapshot

LEMMA CloneFromSnapshotKeeps ==
  ASSUME PartitionInv, Locked', NEW t \in Threads, CloneFromSnapshot(t)
  PROVE  PartitionInv'
<1> DEFINE n == req[t].name
           source == array.temporary[n]
<1>1. /\ ObjectsInv /\ Locked /\ pc[t] = "clone" /\ Creates(t) /\ local[t].mine = None
      /\ PartitionHand(t) /\ PartitionWorld /\ local[t] \in Memo(PartitionObject)
      /\ array.made \in Nat /\ (\A u \in Ids : Obj(u)) /\ service = "partition" /\ req[t].uid # None
  BY PartitionKnows DEF CloneFromSnapshot, AtPartition, At, PartitionHand
<1>2. CASE Goes(t, "removeSnapshot") /\ UNCHANGED array
  BY <1>1, <1>2, PartitionCreatorGoes DEF Goes, NoFault
<1>3. CASE /\ CanMake(n) /\ Exists(source) /\ MakeVolume(t, object[source].size, source)
           /\ Proceed(t, "removeSnapshot", [local[t] EXCEPT !.mine = array.made + 1])
           /\ NoFault /\ UNCHANGED <<memory, known>>
  <2>1. n \in Names /\ known.asked[n] = req[t] /\ req[t] \in Request
    BY <1>1, CreatorAsks
  <2>2. source # None /\ source \in Ids /\ source = req[t].uid
    BY <1>1, <1>3, <2>1 DEF PartitionWorld, Exists
  <2>3. object[source].size \in Sizes
    BY <1>1, <1>3, <2>2 DEF PartitionWorld, PartitionObject, object, Exists
  <2>4. PICK u \in Ids : u = array.made + 1
    BY <1>3 DEF CanMake
  <2> DEFINE memo == [local[t] EXCEPT !.mine = u]
  <2>5. /\ memo.mine = u /\ memo \in Memo(PartitionObject)
        /\ Proceed(t, "removeSnapshot", memo)
    BY <1>1, <1>3, <2>4 DEF Memo
  <2> HIDE DEF memo
  <2>6. Moves(t) /\ Alone(t) /\ pc'[t] = "removeSnapshot" /\ req'[t] = req[t] /\ local'[t] = memo
    BY <1>1, <2>5, ProceedMoves
  <2>7. service' = service /\ failures' = failures
    BY <1>3, <2>6 DEF Moves, NoFault
  <2>8. known.acked[u] = None /\ u \notin known.deleting /\ u # None
    <3>1. u \in Nat /\ u > array.made
      BY <1>1, <2>4
    <3> QED
      BY <1>1, <3>1, ArrayObjectsAssumption DEF Obj
  <2>9. Creates(t)' /\ ~ Deletes(t)' /\ ~ Expands(t)'
    BY <1>1, <2>6 DEF Creates, Deletes, Expands, CreateOps, DeleteOps
  <2>10. RoleInv(t)'
    BY <1>3, <2>5, <2>6, <2>8, <2>9 DEF RoleInv
  <2>11. PartitionHand(t)'
    <3>1. object'[u] = [name |-> req[t].name, size |-> object[source].size, source |-> source]
      BY <1>1, <1>3, <2>4 DEF MakeVolume, object, PartitionWorld
    <3>2. object'[u] \in PartitionObject /\ object'[u].name = req[t].name
      BY <2>1, <2>2, <2>3, <3>1 DEF PartitionObject
    <3>3. Exists(u)' /\ object'[u].name = req[t].name
      BY <2>8, <3>2, PartitionAssumption DEF Exists, object
    <3> QED
      BY <1>1, <2>5, <2>6, <2>9, <3>3 DEF PartitionHand, PartitionPlace, object
  <2> QED
    BY <1>1, <1>3, <2>2, <2>3, <2>6, <2>7, <2>10, <2>11, PartitionMakes
<1> QED
  BY <1>2, <1>3 DEF CloneFromSnapshot

LEMMA RemoveGroupSnapshotKeeps ==
  ASSUME PartitionInv, Locked', NEW t \in Threads, RemoveGroupSnapshot(t)
  PROVE  PartitionInv'
<1>1. /\ ObjectsInv /\ Locked /\ pc[t] = "removeSnapshot" /\ Creates(t)
      /\ PartitionHand(t) /\ RoleInv(t)
      /\ array' = [array EXCEPT !.temporary[req[t].name] = None]
      /\ UNCHANGED <<memory, known, failures>>
      /\ Continue(t, "readBack") \/ Return(t)
  BY PartitionKnows DEF RemoveGroupSnapshot, AtPartition, At, PartitionHand, NoFault
<1>2. req[t].name \in Names
  BY <1>1, CreatorAsks
<1>3. PartitionWorld' /\ \A u : object'[u] = object[u]
  <2>1. service' = service
    BY <1>1 DEF Continue, Proceed, Return
  <2> QED
    BY <1>1, <1>2, <2>1, PartitionSnapshots
<1>4. CASE Return(t)
  <2>1. Alone(t) /\ req'[t] = None /\ pc'[t] = "idle" /\ service' = service
    BY <1>1, <1>4, ReturnMoves DEF Return
  <2>2. RoleInv(t)' /\ PartitionHand(t)' /\ Careful(t)
    BY <1>1, <2>1, FreedRole, SilentCareful DEF PartitionHand
  <2> QED
    BY <1>3, <2>2, PartitionKeeps
<1>5. CASE Continue(t, "readBack")
  <2>1. Moves(t) /\ Alone(t) /\ pc'[t] = "readBack" /\ req'[t] = req[t] /\ local'[t] = local[t]
    BY <1>1, <1>5, ContinueMoves
  <2>2. service' = service
    BY <2>1 DEF Moves
  <2>3. Creates(t)' /\ ~ Deletes(t)' /\ ~ Expands(t)' /\ (Makes(t)' <=> Makes(t))
    BY <1>1, <2>1 DEF Creates, Makes, Deletes, Expands, CreateOps, DeleteOps
  <2>4. RoleInv(t)' /\ Careful(t)
    BY <1>1, <2>1, <2>2, <2>3, SilentCareful DEF RoleInv
  <2>5. (object[local[t].mine])' = object[local[t].mine] /\ (Exists(local[t].mine)' <=> Exists(local[t].mine))
    BY <1>3, <2>1 DEF object, Exists
  <2>6. PartitionHand(t)'
    BY <1>1, <2>1, <2>3, <2>5 DEF PartitionHand, PartitionPlace
  <2> QED
    BY <1>3, <2>4, <2>6, PartitionKeeps
<1> QED
  BY <1>1, <1>4, <1>5

LEMMA PartitionReadBackKeeps ==
  ASSUME PartitionInv, Locked', NEW t \in Threads, PartitionReadBack(t)
  PROVE  PartitionInv'
<1>1. pc[t] = "readBack" /\ Creates(t)
  BY PartitionKnows DEF PartitionReadBack, AtPartition, At, PartitionHand
<1>2. CASE Reject(t)
  BY <1>1, <1>2, PartitionRejects DEF Reject, NoFault
<1>3. ASSUME NEW u \in Named(req[t].name), Report(t, u), NoFault, UNCHANGED <<array, memory>>
      PROVE  PartitionInv'
  <2>1. u \in Ids /\ Exists(u) /\ object[u].name = req[t].name
    BY DEF Named
  <2> QED
    BY <1>1, <1>3, <2>1, PartitionReports DEF NoFault
<1> QED
  BY <1>2, <1>3 DEF PartitionReadBack

LEMMA DiscardSnapshotKeeps ==
  ASSUME PartitionInv, DiscardSnapshot
  PROVE  PartitionInv'
<1>1. /\ UNCHANGED <<service, ids_in_use, pc, req, local, memory, known, failures>>
  BY DEF DiscardSnapshot, NoFault
<1>2. PICK n \in Names : array' = [array EXCEPT !.temporary[n] = None]
  BY DEF DiscardSnapshot
<1>3. PartitionWorld' /\ \A u : object'[u] = object[u]
  BY <1>1, <1>2, PartitionSnapshots
<1>4. ObjectsInv'
  BY <1>1, QuietKeepsObjects DEF PartitionInv
<1>5. ASSUME NEW w \in Threads
      PROVE  PartitionHand(w)'
  <2>1. /\ PartitionHand(w) /\ pc'[w] = pc[w] /\ req'[w] = req[w] /\ local'[w] = local[w]
        /\ (object[local[w].mine])' = object[local[w].mine]
        /\ Exists(local[w].mine)' <=> Exists(local[w].mine)
    BY <1>1, <1>3 DEF PartitionInv, object, Exists
  <2> QED
    BY <2>1 DEF PartitionHand, Makes, Creates, Deletes, Expands
<1> QED
  BY <1>1, <1>3, <1>4, <1>5 DEF PartitionInv

LEMMA PartitionFailKeeps ==
  ASSUME PartitionInv, Locked', NEW t \in Threads, PartitionFail(t)
  PROVE  PartitionInv'
<1>1. /\ pc[t] # "idle" /\ failures' = failures + 1 /\ UNCHANGED <<array, memory, known>>
      /\ PartitionHand(t)
  BY PartitionKnows DEF PartitionFail, Fault
<1>2. CASE pc[t] = "clone" /\ Continue(t, "removeSnapshot")
  BY <1>1, <1>2, PartitionCreatorGoes DEF PartitionHand
<1>3. CASE Return(t)
  BY <1>1, <1>3, PartitionRejects
<1> QED
  BY <1>2, <1>3 DEF PartitionFail

(* The object is read before it is removed or extended.                    *)
LEMMA PartitionReads ==
  ASSUME PartitionInv, Locked', NEW t \in Threads, NEW u, u = local[t].mine, Exists(u),
         NEW to, Proceed(t, to, [local[t] EXCEPT !.read = object[u]]),
         UNCHANGED <<array, memory, known, failures>>,
         \/ to = "remove" /\ pc[t] = "look"
         \/ to = "extend" /\ pc[t] = "expand" /\ object[u].size < req[t].size
  PROVE  PartitionInv'
<1>1. /\ Locked /\ PartitionHand(t) /\ RoleInv(t) /\ RequestInv(t) /\ PartitionWorld
      /\ local[t] \in Memo(PartitionObject)
  BY PartitionKnows DEF PartitionHand
<1>2. u \in Ids /\ (Deletes(t) \/ Expands(t)) /\ ~ Creates(t) /\ pc[t] # "idle"
  BY <1>1 DEF PartitionHand, RoleInv, RequestInv, Deletes, Expands, Creates, CreateOps, DeleteOps
<1>3. object[u] \in PartitionObject /\ object[u] # None
  BY <1>1, <1>2 DEF PartitionWorld, object, Exists
<1> DEFINE memo == [local[t] EXCEPT !.read = object[u]]
<1>4. /\ memo \in Memo(PartitionObject) /\ memo.mine = u /\ memo.read = object[u]
      /\ Proceed(t, to, memo)
  BY <1>1, <1>3 DEF Memo
<1> HIDE DEF memo
<1>5. Moves(t) /\ Alone(t) /\ pc'[t] = to /\ req'[t] = req[t] /\ local'[t] = memo
  BY <1>1, <1>2, <1>4, ProceedMoves
<1>6. service' = service
  BY <1>5 DEF Moves
<1>7. (Deletes(t)' <=> Deletes(t)) /\ (Expands(t)' <=> Expands(t)) /\ ~ Creates(t)'
  BY <1>2, <1>5 DEF Deletes, Expands, Creates
<1>8. RoleInv(t)'
  BY <1>1, <1>4, <1>5, <1>7 DEF RoleInv, Makes
<1>9. PartitionHand(t)'
  <2>1. (object[u])' = object[u] /\ Exists(u)'
    BY DEF object, Exists
  <2> QED
    BY <1>1, <1>3, <1>4, <1>5, <1>7, <2>1 DEF PartitionHand, PartitionPlace, Makes
<1> QED
  BY <1>5, <1>6, <1>8, <1>9, PartitionGoesOn

(* A deletion that was answered: what it removed was in its own hand.      *)
LEMMA PartitionDeletes ==
  ASSUME PartitionInv, Locked', NEW t \in Threads, Deletes(t), Deleted(t),
         UNCHANGED <<memory, failures>>,
         array' = array \/ array' = [array EXCEPT !.object = array'.object],
         array'.object \in [Ids -> PartitionObject \union {None}],
         object'[req[t].uid] = None,
         \A u \in Ids : u # req[t].uid => object'[u] = object[u]
  PROVE  PartitionInv'
<1>1. /\ ObjectsInv /\ Locked /\ (\A u \in Ids : Obj(u)) /\ failures \in Nat /\ array.made \in Nat
      /\ service = "partition" /\ PartitionWorld /\ KnownInv
      /\ RoleInv(t) /\ RequestInv(t) /\ req[t] # None
  BY PartitionKnows DEF Deletes
<1>2. req[t].uid \in Ids /\ req[t].uid \in known.deleting /\ local[t].mine = req[t].uid
  BY <1>1 DEF RequestInv, RoleInv
<1>3. /\ req'[t] = None /\ pc'[t] = "idle" /\ known'.asked = known.asked /\ service' = service
  BY <1>1, DeletedTells
<1>4. /\ array'.made = array.made /\ array'.temporary = array.temporary
      /\ array' \in [object : [Ids -> PartitionObject \union {None}], made : {0} \union Ids,
                     temporary : [Names -> Ids \union {None}]]
  BY <1>1 DEF PartitionWorld
<1>5. Onward
  BY <1>1, <1>3, <1>4 DEF Onward
<1>6. \A u \in Ids : Obj(u)'
  BY <1>1, <1>2, <1>5, DeletedObjs DEF Trusted
<1>7. \A u \in Ids : Exists(u)' => Exists(u) /\ object'[u] = object[u]
  BY <1>2 DEF Exists, object
<1>8. PartitionWorld'
  BY <1>1, <1>3, <1>4, <1>6, <1>7 DEF PartitionWorld, object
<1>9. RoleInv(t)' /\ PartitionHand(t)' /\ Careful(t)
  BY <1>1, <1>3, FreedRole, DeletedCareful DEF PartitionHand
<1>10. \A w \in Threads \ {t} : Makes(w) \/ Deletes(w) \/ Expands(w) => local[w].mine # req[t].uid
  BY <1>1, <1>2, HandsDiffer
<1> QED
  BY <1>8, <1>9, <1>10, PartitionKeeps

LEMMA PartitionLookKeeps ==
  ASSUME PartitionInv, Locked', NEW t \in Threads, PartitionLook(t)
  PROVE  PartitionInv'
<1>1. /\ pc[t] = "look" /\ Deletes(t) /\ RoleInv(t) /\ RequestInv(t) /\ PartitionWorld
  BY PartitionKnows DEF PartitionLook, AtPartition, At, PartitionHand
<1>2. CASE ~ Exists(local[t].mine) /\ Deleted(t) /\ NoFault /\ UNCHANGED <<array, memory>>
  <2>1. object' = object /\ array'.object \in [Ids -> PartitionObject \union {None}]
    BY <1>1, <1>2 DEF object, PartitionWorld
  <2>2. object[req[t].uid] = None
    BY <1>1, <1>2, ArrayObjectsAssumption DEF RoleInv, RequestInv, Exists
  <2> QED
    BY <1>1, <1>2, <2>1, <2>2, PartitionDeletes DEF NoFault
<1>3. CASE /\ Exists(local[t].mine)
           /\ Proceed(t, "remove", [local[t] EXCEPT !.read = object[local[t].mine]])
           /\ NoFault /\ UNCHANGED <<array, memory, known>>
  BY <1>1, <1>3, PartitionReads DEF NoFault
<1> QED
  BY <1>2, <1>3 DEF PartitionLook

LEMMA PartitionRemoveKeeps ==
  ASSUME PartitionInv, Locked', NEW t \in Threads, PartitionRemove(t)
  PROVE  PartitionInv'
<1> DEFINE m == req[t].uid
<1>1. /\ pc[t] = "remove" /\ Deletes(t) /\ RoleInv(t) /\ RequestInv(t) /\ PartitionWorld
      /\ Exists(m) /\ local[t].read.name = object[m].name /\ m \in Ids
      /\ Deleted(t) /\ UNCHANGED <<memory, failures>>
      /\ array' = [array EXCEPT !.object =
                     [u \in Ids |-> IF u \in Named(local[t].read.name) THEN None ELSE @[u]]]
  BY PartitionKnows DEF PartitionRemove, AtPartition, At, PartitionHand, RoleInv, RequestInv, NoFault
<1>2. Named(local[t].read.name) = {m}
  BY <1>1 DEF Named, PartitionWorld
<1>3. /\ array'.object = [u \in Ids |-> IF u \in Named(local[t].read.name) THEN None ELSE array.object[u]]
      /\ array' = [array EXCEPT !.object = array'.object]
  BY <1>1 DEF PartitionWorld
<1>4. /\ array'.object \in [Ids -> PartitionObject \union {None}]
      /\ object'[m] = None /\ \A u \in Ids : u # m => object'[u] = object[u]
  BY <1>1, <1>2, <1>3 DEF PartitionWorld, object
<1> QED
  BY <1>1, <1>3, <1>4, PartitionDeletes

LEMMA PartitionExpands ==
  ASSUME PartitionInv, Locked', NEW t \in Threads, Expands(t), Expanded(t),
         UNCHANGED <<memory, failures>>, Exists(req[t].uid),
         \/ array' = array /\ object[req[t].uid].size >= req[t].size
         \/ /\ array' = [array EXCEPT !.object[req[t].uid].size = req[t].size]
            /\ object[req[t].uid].size < req[t].size
  PROVE  PartitionInv'
<1> DEFINE m == req[t].uid
<1>1. /\ ObjectsInv /\ Locked /\ (\A u \in Ids : Obj(u)) /\ failures \in Nat /\ array.made \in Nat
      /\ service = "partition" /\ PartitionWorld /\ KnownInv
      /\ RoleInv(t) /\ RequestInv(t)
  BY PartitionKnows
<1>2. m \in Ids /\ req[t].size \in Sizes /\ req[t].size \in Nat /\ local[t].mine = m
  BY <1>1, ArrayObjectsAssumption DEF RequestInv, RoleInv
<1>3. /\ req'[t] = None /\ pc'[t] = "idle" /\ known'.asked = known.asked /\ service' = service
  BY <1>1, ExpandedTells
<1>4. object[m] \in PartitionObject /\ object[m] # None /\ object[m].size \in Nat
  BY <1>1, <1>2, ArrayObjectsAssumption DEF PartitionWorld, PartitionObject, object, Exists
<1>5. /\ array'.made = array.made /\ array'.temporary = array.temporary
      /\ array' \in [object : [Ids -> PartitionObject \union {None}], made : {0} \union Ids,
                     temporary : [Names -> Ids \union {None}]]
      /\ object'[m].name = object[m].name /\ object'[m].source = object[m].source
      /\ object'[m].size \in Nat /\ object'[m].size >= object[m].size /\ object'[m].size >= req[t].size
      /\ object'[m] \in PartitionObject
      /\ \A u \in Ids : u # m => object'[u] = object[u]
  <2>1. CASE array' = array /\ object[m].size >= req[t].size
    <3>1. object' = object
      BY <2>1 DEF object
    <3> QED
      BY <1>1, <1>4, <2>1, <3>1 DEF PartitionWorld
  <2>2. CASE array' = [array EXCEPT !.object[m].size = req[t].size] /\ object[m].size < req[t].size
    <3> DEFINE o == [object[m] EXCEPT !.size = req[t].size]
    <3>1. o \in PartitionObject /\ o.name = object[m].name /\ o.source = object[m].source /\ o.size = req[t].size
      BY <1>2, <1>4 DEF PartitionObject
    <3>2. array' = [array EXCEPT !.object[m] = o]
      BY <1>1, <1>2, <2>2 DEF PartitionWorld, object
    <3> HIDE DEF o
    <3>3. /\ array'.made = array.made /\ array'.temporary = array.temporary
          /\ array'.object = [array.object EXCEPT ![m] = o]
          /\ array' \in [object : [Ids -> PartitionObject \union {None}], made : {0} \union Ids,
                         temporary : [Names -> Ids \union {None}]]
      BY <1>1, <3>1, <3>2 DEF PartitionWorld
    <3>4. object'[m] = o /\ \A u \in Ids : u # m => object'[u] = object[u]
      BY <1>1, <1>2, <3>3 DEF PartitionWorld, object
    <3>5. /\ object'[m].name = object[m].name /\ object'[m].source = object[m].source
          /\ object'[m].size = req[t].size /\ object'[m] \in PartitionObject
      BY <3>1, <3>4
    <3>6. object'[m].size \in Nat /\ object'[m].size >= object[m].size /\ object'[m].size >= req[t].size
      BY <1>2, <1>4, <2>2, <3>5
    <3> QED
      BY <3>3, <3>4, <3>5, <3>6
  <2> QED
    BY <2>1, <2>2
<1>6. object'[m] # None
  BY <1>5, PartitionAssumption
<1>7. Onward
  BY <1>1, <1>3, <1>5 DEF Onward
<1>8. \A u \in Ids : Obj(u)'
  BY <1>1, <1>4, <1>5, <1>6, <1>7, ExpandedObjs
<1>9. /\ \A u \in Ids : Exists(u)' <=> Exists(u)
      /\ \A u \in Ids : object'[u].name = object[u].name /\ object'[u].source = object[u].source
  BY <1>2, <1>4, <1>5, <1>6, ArrayObjectsAssumption DEF Exists, object
<1>10. PartitionWorld'
  <2>1. memory' = <<>> /\ failures' \in Nat
    BY <1>1 DEF PartitionWorld
  <2>2. \A u, w \in Ids : Exists(u)' /\ Exists(w)' /\ object'[u].name = object'[w].name => u = w
    BY <1>1, <1>9 DEF PartitionWorld
  <2>3. \A u \in Ids : Exists(u)' => object'[u].source = known'.asked[object'[u].name].uid
    BY <1>1, <1>3, <1>9 DEF PartitionWorld
  <2>4. \A n \in Names : array'.temporary[n] # None =>
          known'.asked[n] # None /\ array'.temporary[n] = known'.asked[n].uid
    BY <1>1, <1>3, <1>5 DEF PartitionWorld
  <2> QED
    BY <1>5, <1>8, <2>1, <2>2, <2>3, <2>4 DEF PartitionWorld
<1>11. RoleInv(t)' /\ PartitionHand(t)' /\ Careful(t)
  BY <1>1, <1>3, FreedRole, ExpandedCareful DEF PartitionHand
<1>12. \A w \in Threads \ {t} : Makes(w) \/ Deletes(w) \/ Expands(w) => local[w].mine # m
  BY <1>1, <1>2, HandsDiffer
<1> QED
  BY <1>5, <1>10, <1>11, <1>12, PartitionKeeps

LEMMA PartitionExpandKeeps ==
  ASSUME PartitionInv, Locked', NEW t \in Threads, PartitionExpand(t)
  PROVE  PartitionInv'
<1>1. /\ pc[t] = "expand" /\ Expands(t) /\ RoleInv(t) /\ RequestInv(t) /\ PartitionWorld
      /\ local[t].mine = req[t].uid
  BY PartitionKnows DEF PartitionExpand, AtPartition, At, PartitionHand, RoleInv
<1>2. CASE Reject(t)
  BY <1>1, <1>2, PartitionRejects DEF Reject, NoFault
<1>3. CASE /\ Exists(local[t].mine) /\ object[local[t].mine].size >= req[t].size
           /\ Expanded(t) /\ NoFault /\ UNCHANGED <<array, memory>>
  BY <1>1, <1>3, PartitionExpands DEF NoFault
<1>4. CASE /\ Exists(local[t].mine) /\ ~ (object[local[t].mine].size >= req[t].size)
           /\ Proceed(t, "extend", [local[t] EXCEPT !.read = object[local[t].mine]])
           /\ NoFault /\ UNCHANGED <<array, memory, known>>
  <2>1. object[req[t].uid].size \in Nat /\ req[t].size \in Nat
    BY <1>1, <1>4, ArrayObjectsAssumption DEF PartitionWorld, PartitionObject, object, Exists, RequestInv
  <2>2. object[local[t].mine].size < req[t].size
    BY <1>1, <1>4, <2>1
  <2> QED
    BY <1>1, <1>4, <2>2, PartitionReads DEF NoFault
<1> QED
  BY <1>2, <1>3, <1>4 DEF PartitionExpand

LEMMA PartitionExtendKeeps ==
  ASSUME PartitionInv, Locked', NEW t \in Threads, PartitionExtend(t)
  PROVE  PartitionInv'
<1> DEFINE m == req[t].uid
<1>1. /\ pc[t] = "extend" /\ Expands(t) /\ RoleInv(t) /\ RequestInv(t) /\ PartitionWorld
      /\ Exists(m) /\ local[t].read.name = object[m].name /\ m \in Ids /\ local[t].mine = m
      /\ object[m].size < req[t].size
  BY PartitionKnows DEF PartitionExtend, AtPartition, At, PartitionHand, RoleInv, RequestInv
<1>2. Named(local[t].read.name) = {m}
  BY <1>1 DEF Named, PartitionWorld
<1>3. /\ array' = [array EXCEPT !.object[m].size = req[t].size]
      /\ Expanded(t) /\ NoFault /\ UNCHANGED memory
  BY <1>1, <1>2 DEF PartitionExtend
<1> QED
  BY <1>1, <1>3, PartitionExpands DEF NoFault

LEMMA PartitionCallKeeps ==
  ASSUME PartitionInv, NEW t \in Threads, CallObjects(t)
  PROVE  PartitionInv'
<1>1. /\ ObjectsInv' /\ (\A u \in Ids : Obj(u)') /\ Alone(t) /\ Starts(t) /\ Onward
      /\ UNCHANGED <<service, array, memory, failures>>
  BY PartitionKnows, CallKeeps
<1>2. PartitionWorld'
  <2>1. /\ \A u \in Ids : Exists(u) /\ object[u].name # None =>
             known'.asked[object[u].name] = known.asked[object[u].name]
        /\ \A u \in Ids : Exists(u) => object[u].name # None
    <3>1. \A u \in Ids : Exists(u) => object[u].name \in Names /\ object[u].name # None
      BY ArrayObjectsAssumption DEF PartitionInv, PartitionWorld, PartitionObject, Exists, object
    <3>2. \A u \in Ids : Exists(u) => known.asked[object[u].name] # None
      BY <3>1, PartitionKnows DEF Obj
    <3> QED
      BY <1>1, <3>1, <3>2 DEF Onward
  <2>2. \A n \in Names : known.asked[n] # None => known'.asked[n] = known.asked[n]
    BY <1>1 DEF Onward
  <2> QED
    BY <1>1, <2>1, <2>2 DEF PartitionInv, PartitionWorld, Exists, object
<1>3. PartitionHand(t)'
  <2>1. CASE Creates(t)' /\ pc'[t] = "find" /\ local'[t] = [NoMemo EXCEPT !.mine = None]
    BY <2>1 DEF PartitionHand, PartitionPlace, NoMemo, Memo, Makes
  <2>2. CASE Deletes(t)' /\ pc'[t] = "look" /\ local'[t] = [NoMemo EXCEPT !.mine = (req'[t]).uid]
    <3>1. (req'[t]).uid \in Ids /\ ~ Creates(t)'
      BY <1>1, <2>2 DEF ObjectsInv, RequestInv, Creates, Deletes, CreateOps, DeleteOps
    <3> QED
      BY <2>2, <3>1 DEF PartitionHand, PartitionPlace, NoMemo, Memo, Makes
  <2>3. CASE Expands(t)' /\ pc'[t] = "expand" /\ local'[t] = [NoMemo EXCEPT !.mine = (req'[t]).uid]
    <3>1. (req'[t]).uid \in Ids /\ ~ Creates(t)'
      BY <1>1, <2>3 DEF ObjectsInv, RequestInv, Creates, Expands, CreateOps
    <3> QED
      BY <2>3, <3>1 DEF PartitionHand, PartitionPlace, NoMemo, Memo, Makes
  <2> QED
    BY <1>1, <2>1, <2>2, <2>3 DEF Starts
<1>4. ASSUME NEW w \in Threads, w # t
      PROVE  PartitionHand(w)'
  <2>1. PartitionHand(w) /\ pc'[w] = pc[w] /\ req'[w] = req[w] /\ local'[w] = local[w]
    BY <1>1, <1>4 DEF PartitionInv, Alone
  <2> QED
    BY <1>1, <2>1 DEF PartitionHand, Makes, Creates, Deletes, Expands, Exists, object
<1> QED
  BY <1>1, <1>2, <1>3, <1>4 DEF PartitionInv

LEMMA PartitionCrashKeeps ==
  ASSUME PartitionInv, Crash
  PROVE  PartitionInv'
<1>1. /\ ObjectsInv' /\ (\A u \in Ids : Obj(u)') /\ (\A t \in Threads : pc'[t] = "idle")
      /\ memory' = <<>> /\ UNCHANGED <<service, array, known, failures>>
  BY PartitionKnows, CrashKeepsObjects
<1>2. PartitionWorld'
  BY <1>1 DEF PartitionInv, PartitionWorld, Exists, object
<1>3. \A t \in Threads : PartitionHand(t)'
  BY <1>1 DEF PartitionHand
<1> QED
  BY <1>1, <1>2, <1>3 DEF PartitionInv

LEMMA InitPartitionInv ==
  ASSUME InitPartition
  PROVE  PartitionInv
<1> DEFINE o == [name |-> FirstName, size |-> SizeOf[FirstName], source |-> None]
<1>1. FirstName \in Names /\ FirstId \in Ids /\ SizeOf[FirstName] \in Sizes
  BY FirstOnes, ArrayObjectsAssumption DEF Names
<1>2. o \in PartitionObject
  BY <1>1 DEF PartitionObject
<1>3. /\ o # None /\ o.name = FirstName /\ o.size = SizeOf[FirstName] /\ o.source = None
      /\ InitObjects("partition") /\ memory = <<>>
      /\ array = [object |-> First(o), made |-> FirstId, temporary |-> [n \in Names |-> None]]
  BY <1>2, PartitionAssumption DEF InitPartition
<1> HIDE DEF o
<1>4. /\ array.object = First(o) /\ array.made = FirstId /\ array.temporary = [n \in Names |-> None]
      /\ First(o) \in [Ids -> PartitionObject \union {None}]
  BY <1>2, <1>3 DEF First
<1>5. /\ ObjectsInv /\ (\A u \in Ids : Obj(u)) /\ failures = 0 /\ service = "partition"
      /\ \A t \in Threads : pc[t] = "idle"
      /\ \A u \in Ids : object[u] = IF u = FirstId THEN o ELSE None
      /\ known.asked[FirstName].uid = None
  BY <1>3, <1>4, InitObjectsInv DEF ObjectServices
<1>6. PartitionWorld
  BY <1>1, <1>3, <1>4, <1>5 DEF PartitionWorld, Exists
<1> QED
  BY <1>5, <1>6 DEF PartitionInv, PartitionHand

LEMMA PartitionStep ==
  ASSUME PartitionInv, PartitionNext
  PROVE  PartitionInv'
<1>1. Locked'
  BY PartitionMove DEF PartitionInv, ObjectsInv
<1>2. CASE DiscardSnapshot
  BY <1>2, DiscardSnapshotKeeps
<1>3. ASSUME NEW t \in Threads,
             \/ PartitionFind(t) \/ PartitionCreate(t) \/ AddGroupSnapshot(t) \/ CloneFromSnapshot(t)
             \/ RemoveGroupSnapshot(t) \/ PartitionReadBack(t)
      PROVE  PartitionInv'
  BY <1>1, <1>3, PartitionFindKeeps, PartitionCreateKeeps, AddGroupSnapshotKeeps,
     CloneFromSnapshotKeeps, RemoveGroupSnapshotKeeps, PartitionReadBackKeeps
<1>4. ASSUME NEW t \in Threads,
             \/ PartitionLook(t) \/ PartitionRemove(t) \/ PartitionExpand(t) \/ PartitionExtend(t)
             \/ PartitionFail(t)
      PROVE  PartitionInv'
  BY <1>1, <1>4, PartitionLookKeeps, PartitionRemoveKeeps, PartitionExpandKeeps,
     PartitionExtendKeeps, PartitionFailKeeps
<1> QED
  BY <1>2, <1>3, <1>4 DEF PartitionNext

(* What the properties say of a partition.                                 *)
LEMMA PartitionMeans ==
  ASSUME PartitionInv
  PROVE  TypeOK /\ ReportedStays /\ ReportedAsAsked /\ DeletedIsGone /\ NameOnce
<1>1. ObjectsInv /\ (\A u \in Ids : Obj(u)) /\ service = "partition" /\ PartitionWorld /\ KnownInv
  BY PartitionKnows
<1>2. TypeOK
  <2>1. \A t \in Threads : pc[t] \in PartitionPlace
    BY DEF PartitionInv, PartitionHand, PartitionPlace
  <2>2. PartitionTypeOK
    BY <1>1, <2>1 DEF PartitionTypeOK, PartitionWorld
  <2>3. ObjectsTypeOK /\ ids_in_use = {LockOf(req[t]) : t \in {x \in Threads : req[x] # None}}
    BY <1>1 DEF ObjectsTypeOK, ObjectsInv, KnownInv, RequestInv, Locked
  <2> QED
    BY <1>1, <2>2, <2>3 DEF TypeOK
<1>3. ReportedStays
  BY <1>1 DEF ReportedStays, Obj, Trusted, Fits
<1>4. ReportedAsAsked
  <2>1. \A u \in Ids : Trusted(u) => object[u].source = known.acked[u].uid
    <3>1. ASSUME NEW u \in Ids, Trusted(u)
          PROVE  object[u].source = known.acked[u].uid
      <4>1. Exists(u) /\ known.acked[u] # None /\ object[u].name = known.acked[u].name
        BY <1>1, <3>1 DEF Obj, Trusted, Fits
      <4>2. known.acked[u].uid = known.asked[object[u].name].uid
        BY <1>1, <4>1 DEF KnownInv, Answers
      <4> QED
        BY <1>1, <4>1, <4>2 DEF PartitionWorld
    <3> QED
      BY <3>1
  <2> QED
    BY <1>1, <2>1 DEF ReportedAsAsked, Obj, Trusted, IsLarge, PartitionHasData
<1>5. DeletedIsGone
  <2>1. known.gone \subseteq Ids
    BY <1>1 DEF KnownInv, KnownObjects
  <2>2. \A u \in known.gone : ~ Exists(u)
    BY <1>1, <2>1 DEF Obj, MayStay
  <2> QED
    BY <1>1, <2>2 DEF DeletedIsGone
<1>6. NameOnce
  BY <1>1 DEF NameOnce, PartitionWorld
<1> QED
  BY <1>2, <1>3, <1>4, <1>5, <1>6

-----------------------------------------------------------------------------
(* XIV.                                                                    *)

(* An object that a thread has made, or is about to remove or extend, and  *)
(* the source of a copy are there under their names; what is removed has   *)
(* no snapshots.                                                           *)
XIVHand(t) ==
  pc[t] # "idle" =>
    /\ pc[t] \in XIVPlace /\ local[t] \in Memo(XIVObject)
    /\ pc[t] \in {"find", "create", "copySource", "copy", "resize"} => Creates(t)
    /\ pc[t] \in {"find", "create"} => local[t].mine = None
    /\ pc[t] \in {"copySource", "copy", "resize"} => IsCopy(t) /\ local[t].mine # None
    /\ pc[t] \in {"look", "remove"} => Deletes(t) \/ (Creates(t) /\ IsCopy(t) /\ local[t].mine # None)
    /\ pc[t] \in {"expand", "extend"} => Expands(t)
    /\ Makes(t) =>
         /\ Exists(local[t].mine) /\ object[local[t].mine].name = req[t].name
         /\ object[local[t].mine].master = None
    /\ pc[t] = "copy" =>
         /\ Exists(req[t].uid) /\ local[t].read # None
         /\ local[t].read.name = object[req[t].uid].name
    /\ pc[t] = "resize" => object[local[t].mine].source = req[t].uid
    /\ pc[t] \in {"remove", "extend"} =>
         /\ Exists(local[t].mine) /\ local[t].read # None
         /\ local[t].read.name = object[local[t].mine].name
    /\ pc[t] = "remove" => SnapshotsOf(local[t].mine) = {}
    /\ pc[t] = "extend" => object[local[t].mine].size < req[t].size

(* A snapshot is of the volume it was asked for of, and a volume's source  *)
(* the one asked for, which a reported volume has been copied from.        *)
XIVData(u) ==
  LET o == object[u]
      r == known.asked[o.name]
  IN  Exists(u) =>
        /\ o.master # None <=> r.op = "createSnapshot"
        /\ o.master # None =>
             /\ o.master = r.uid /\ o.master <= array.made
             /\ Exists(o.master) => object[o.master].master = None
        /\ o.master = None /\ o.source # None => o.source = r.uid
        /\ known.acked[u] # None /\ o.master = None => o.source = known.acked[u].uid

XIVArray ==
  array \in [object : [Ids -> XIVObject \union {None}], made : {0} \union Ids, gen3 : BOOLEAN]

XIVWorld ==
  /\ XIVArray
  /\ memory = <<>> /\ failures \in Nat
  /\ \A u \in Ids : Obj(u) /\ XIVData(u)
  /\ \A u, w \in Ids : Exists(u) /\ Exists(w) /\ object[u].name = object[w].name => u = w

XIVInv ==
  /\ service = "xiv" /\ ObjectsInv /\ XIVWorld
  /\ \A t \in Threads : XIVHand(t)

LEMMA XIVKnows ==
  ASSUME XIVInv
  PROVE  /\ ObjectsInv /\ Locked /\ KnownInv /\ (\A u \in Ids : Obj(u) /\ XIVData(u))
         /\ failures \in Nat /\ array.made \in Nat /\ service = "xiv" /\ XIVWorld
         /\ \A t \in Threads : XIVHand(t) /\ RoleInv(t) /\ RequestInv(t) /\ SourceInv(t)
<1>1. ObjectsInv /\ XIVWorld /\ service = "xiv" /\ \A t \in Threads : XIVHand(t)
  BY DEF XIVInv
<1>2. array.made \in Nat
  <2>1. XIVArray
    BY <1>1 DEF XIVWorld
  <2>2. array.made = 0 \/ array.made \in Ids
    BY <2>1 DEF XIVArray
  <2>3. \A u \in Ids : u \in Nat
    BY ArrayObjectsAssumption
  <2> QED
    BY <2>2, <2>3
<1>3. Locked /\ KnownInv /\ \A t \in Threads : RoleInv(t) /\ RequestInv(t) /\ SourceInv(t)
  BY <1>1 DEF ObjectsInv
<1>4. (\A u \in Ids : Obj(u) /\ XIVData(u)) /\ failures \in Nat
  BY <1>1 DEF XIVWorld
<1> QED
  BY <1>1, <1>2, <1>3, <1>4

InHand(t) == Makes(t) \/ Deletes(t) \/ Expands(t)

(* A step of t changes one object, which nobody else has in hand; one that *)
(* somebody copies keeps its name.                                         *)
XIVTouches(t, m) ==
  /\ \A u \in Ids \ {m} : object'[u] = object[u]
  /\ \A w \in Threads \ {t} : InHand(w) => local[w].mine # m
  /\ \A w \in Threads \ {t} : Creates(w) /\ req[w].uid = m /\ Exists(m) =>
       object'[m] # None /\ object'[m].name = object[m].name
  /\ object'[m] # None /\ object'[m].master # None =>
       \/ Exists(m) /\ object'[m].master = object[m].master
       \/ Creates(t) /\ object'[m].master = req[t].uid

LEMMA XIVKeeps ==
  ASSUME XIVInv, Locked', NEW t \in Threads, Careful(t), RoleInv(t)', XIVHand(t)', XIVWorld',
         array' = array \/ \E m \in Ids : XIVTouches(t, m)
  PROVE  XIVInv'
<1>1. ObjectsInv' /\ Alone(t) /\ service' = "xiv"
  BY CarefulKeeps DEF XIVInv, Careful
<1>2. ASSUME NEW w \in Threads, w # t
      PROVE  XIVHand(w)'
  <2>1. /\ XIVHand(w) /\ RoleInv(w) /\ RequestInv(w)
        /\ pc'[w] = pc[w] /\ req'[w] = req[w] /\ local'[w] = local[w]
    BY <1>1, <1>2 DEF XIVInv, Alone, ObjectsInv
  <2>2. InHand(w) => local[w].mine \in Ids
    BY <2>1 DEF RoleInv, RequestInv, InHand
  <2>3. /\ Makes(w)' <=> Makes(w)
        /\ Creates(w)' <=> Creates(w)
        /\ Deletes(w)' <=> Deletes(w)
        /\ Expands(w)' <=> Expands(w)
        /\ IsCopy(w)' <=> IsCopy(w)
    BY <2>1 DEF Makes, Creates, Deletes, Expands, IsCopy
  <2>4. /\ InHand(w) => object'[local[w].mine] = object[local[w].mine]
        /\ Creates(w) /\ req[w].uid \in Ids /\ Exists(req[w].uid) =>
             object'[req[w].uid] # None /\ object'[req[w].uid].name = object[req[w].uid].name
        /\ pc[w] = "remove" => SnapshotsOf(local[w].mine)' = {}
    <3>1. CASE array' = array
      <4>1. object' = object
        BY <3>1 DEF object
      <4>2. SnapshotsOf(local[w].mine)' = SnapshotsOf(local[w].mine)
        BY <2>1, <4>1 DEF SnapshotsOf, Exists
      <4> QED
        BY <2>1, <4>1, <4>2 DEF XIVHand, Exists
    <3>2. ASSUME NEW m \in Ids, XIVTouches(t, m)
          PROVE  <2>4!1 /\ <2>4!2 /\ <2>4!3
      <4>1. InHand(w) => object'[local[w].mine] = object[local[w].mine]
        BY <1>2, <2>2, <3>2 DEF XIVTouches
      <4>2. Creates(w) /\ req[w].uid \in Ids /\ Exists(req[w].uid) =>
              object'[req[w].uid] # None /\ object'[req[w].uid].name = object[req[w].uid].name
        BY <1>2, <3>2 DEF XIVTouches, Exists
      <4>3. ASSUME pc[w] = "remove", NEW x \in Ids, Exists(x)', object'[x].master = local[w].mine
            PROVE  FALSE
        <5>1. /\ SnapshotsOf(local[w].mine) = {} /\ local[w].mine # None
              /\ Makes(w) \/ Deletes(w)
          BY <2>1, <2>2, <4>3, ArrayObjectsAssumption DEF XIVHand, Makes, InHand
        <5>2. ~ (Exists(x) /\ object[x].master = local[w].mine)
          BY <5>1 DEF SnapshotsOf
        <5>3. object'[x] # None
          BY <4>3 DEF Exists, object
        <5>4. x = m /\ Creates(t) /\ object'[m].master = req[t].uid
          BY <3>2, <4>3, <5>1, <5>2, <5>3 DEF XIVTouches, Exists, object
        <5>5. req[t].uid = local[w].mine /\ req[t].uid # None
          BY <4>3, <5>1, <5>4
        <5> QED
          BY <1>2, <5>1, <5>4, <5>5, SourceIsNotMade DEF XIVInv
      <4> QED
        BY <2>1, <4>1, <4>2, <4>3 DEF SnapshotsOf, object
    <3> QED
      BY <3>1, <3>2
  <2>5. InHand(w) =>
          /\ Exists(local[w].mine)' <=> Exists(local[w].mine)
          /\ (object[local[w].mine])' = object[local[w].mine]
    BY <2>1, <2>4 DEF Exists, object
  <2>6. Creates(w) /\ req[w].uid \in Ids /\ Exists(req[w].uid) =>
          Exists(req[w].uid)' /\ (object[req[w].uid].name)' = object[req[w].uid].name
    BY <2>1, <2>4, ArrayObjectsAssumption DEF Exists, object
  <2>7. Creates(w) => req[w].uid \in Ids \union {None}
    BY <2>1 DEF RequestInv, Request, Creates
  <2>8. CASE pc[w] = "idle"
    BY <2>1, <2>8 DEF XIVHand
  <2>9. CASE pc[w] # "idle" /\ InHand(w)
    <3>1. pc[w] = "copy" => Exists(req[w].uid)' /\ local[w].read.name = (object[req[w].uid].name)'
      BY <2>1, <2>6, <2>7, <2>9 DEF XIVHand, Exists
    <3> QED
      BY <2>1, <2>3, <2>4, <2>5, <2>9, <3>1 DEF XIVHand
  <2>10. CASE pc[w] # "idle" /\ ~ InHand(w)
    <3>1. pc[w] \in {"find", "create"} /\ Creates(w)
      BY <2>1, <2>10 DEF XIVHand, InHand, Makes, XIVPlace
    <3> QED
      BY <2>1, <2>3, <2>10, <3>1 DEF XIVHand, InHand
  <2> QED
    BY <2>8, <2>9, <2>10
<1> QED
  BY <1>1, <1>2 DEF XIVInv

LEMMA XIVGoesOn ==
  ASSUME XIVInv, Locked', NEW t \in Threads, Alone(t), UNCHANGED <<array, memory, known, service>>,
         failures' \in {failures, failures + 1},
         \/ req'[t] = None /\ pc'[t] = "idle"
         \/ req'[t] = req[t] /\ RoleInv(t)' /\ XIVHand(t)'
  PROVE  XIVInv'
<1>1. Careful(t)
  BY XIVKnows, SilentCareful
<1>2. Onward
  BY XIVKnows, OnwardSteps
<1>3. \A u \in Ids : Obj(u)'
  BY <1>2, UnchangedObjs, XIVKnows
<1>4. RoleInv(t)' /\ XIVHand(t)'
  BY FreedRole DEF XIVHand
<1>5. XIVWorld'
  <2>1. object' = object /\ failures' \in Nat /\ XIVWorld
    BY XIVKnows DEF object
  <2>2. \A u \in Ids : XIVData(u)'
    BY <2>1 DEF XIVWorld, XIVData, Exists
  <2> QED
    BY <1>3, <2>1, <2>2 DEF XIVWorld, XIVArray, Exists
<1> QED
  BY <1>1, <1>4, <1>5, XIVKeeps

LEMMA XIVReturns ==
  ASSUME XIVInv, Locked', NEW t \in Threads, pc[t] # "idle", Return(t),
         UNCHANGED <<array, memory, known>>, failures' \in {failures, failures + 1}
  PROVE  XIVInv'
<1>1. /\ Alone(t) /\ req'[t] = None /\ pc'[t] = "idle" /\ service' = service
  BY XIVKnows, ReturnMoves DEF Return
<1> QED
  BY <1>1, XIVGoesOn

(* A creator has made or changed m, or has found it.                       *)
LEMMA XIVWorldKeeps ==
  ASSUME XIVInv, NEW t \in Threads, Creates(t), Onward, known'.asked = known.asked, memory' = <<>>,
         NEW m \in Ids, NEW o \in XIVObject, XIVArray', object'[m] = o,
         \A u \in Ids \ {m} : object'[u] = object[u] /\ known'.acked[u] = known.acked[u],
         o.name = req[t].name, array.made <= array'.made,
         \/ Exists(m) /\ object[m].name = o.name /\ object[m].master = o.master
         \/ Named(req[t].name) = {} /\ m > array.made,
         o.master # None <=> req[t].op = "createSnapshot",
         o.master # None => o.master = req[t].uid,
         o.master = None /\ o.source # None => o.source = req[t].uid,
         known'.acked[m] # None /\ o.master = None => o.source = known'.acked[m].uid,
         \A u \in Ids : Obj(u)'
  PROVE  XIVWorld'
<1>1. /\ ObjectsInv /\ KnownInv /\ (\A u \in Ids : Obj(u) /\ XIVData(u)) /\ array.made \in Nat
      /\ service = "xiv" /\ XIVWorld /\ SourceInv(t)
  BY XIVKnows
<1>2. known.asked[req[t].name] = req[t] /\ req[t].name \in Names
  BY <1>1, CreatorAsks
<1>3. m \in Nat /\ m # None /\ array'.made \in Nat
  BY ArrayObjectsAssumption DEF XIVArray
<1>4. o # None
  BY XIVAssumption
<1>5. /\ Exists(m)' /\ \A u \in Ids : u # m => (Exists(u)' <=> Exists(u))
  BY <1>3, <1>4 DEF Exists, object
<1>6. o.master # None => o.master <= array.made /\ (Exists(o.master) => object[o.master].master = None)
  <2>1. SUFFICES ASSUME o.master # None
                 PROVE  o.master <= array.made /\ (Exists(o.master) => object[o.master].master = None)
    OBVIOUS
  <2> DEFINE v == req[t].uid
  <2>2. /\ o.master = v /\ req[t].op = "createSnapshot" /\ v \in Ids /\ req[t].from = "volume"
    BY <1>1, <2>1, CreatorAsks DEF Asks, CreateOps
  <2>3. known.acked[v] # None /\ known.acked[v].op = "createVolume"
    BY <1>1, <2>1, <2>2 DEF SourceInv
  <2>4. v <= array.made
    BY <1>1, <2>2, <2>3, ArrayObjectsAssumption DEF Obj
  <2>5. Exists(v) => object[v].master = None
    <3>1. ASSUME Exists(v)
          PROVE  known.asked[object[v].name].op = "createVolume"
      BY <1>1, <2>2, <2>3, <3>1 DEF Obj, Fits, KnownInv, Answers
    <3> QED
      BY <1>1, <2>2, <3>1 DEF XIVData
  <2> QED
    BY <2>2, <2>4, <2>5
<1>7. m > array.made => \A u \in Ids : Exists(u) => object[u].master # m
  <2>1. SUFFICES ASSUME m > array.made, NEW u \in Ids, Exists(u), object[u].master = m
                 PROVE  FALSE
    OBVIOUS
  <2>2. m <= array.made
    BY <1>1, <1>3, <2>1 DEF XIVData
  <2> QED
    BY <1>1, <1>3, <2>1, <2>2
<1>8. ASSUME NEW u \in Ids
      PROVE  XIVData(u)'
  <2>1. CASE u = m
    <3>1. /\ o.master # None =>
               o.master <= array'.made /\ (Exists(o.master)' => object'[o.master].master = None)
      <4>1. SUFFICES ASSUME o.master # None
                     PROVE  o.master <= array'.made /\ (Exists(o.master)' => object'[o.master].master = None)
        OBVIOUS
      <4>2. o.master \in Ids /\ o.master \in Nat
        BY <4>1, ArrayObjectsAssumption DEF XIVObject
      <4>3. o.master <= array'.made
        BY <1>1, <1>3, <1>6, <4>1, <4>2
      <4>4. o.master # m
        <5>1. CASE Exists(m) /\ object[m].name = o.name /\ object[m].master = o.master
          BY <1>6, <4>1, <5>1
        <5>2. CASE m > array.made
          BY <1>1, <1>3, <1>6, <4>1, <4>2, <5>2
        <5> QED
          BY <5>1, <5>2
      <4> QED
        BY <1>5, <1>6, <4>1, <4>2, <4>3, <4>4
    <3>2. (object[u])' = o /\ known'.asked[o.name] = req[t]
      BY <1>2, <2>1 DEF object
    <3> QED
      BY <2>1, <3>1, <3>2 DEF XIVData, object
  <2>2. CASE u # m
    <3>1. /\ (object[u])' = object[u] /\ (Exists(u)' <=> Exists(u)) /\ XIVData(u)
          /\ known'.acked[u] = known.acked[u]
      BY <1>1, <1>5, <2>2 DEF object
    <3>2. ASSUME Exists(u), object[u].master # None
          PROVE  /\ object[u].master <= array'.made
                 /\ Exists(object[u].master)' => object'[object[u].master].master = None
      <4>1. object[u].master \in Ids /\ object[u].master \in Nat
        BY <1>1, <3>2, ArrayObjectsAssumption DEF XIVWorld, XIVArray, XIVObject, Exists, object
      <4>2. object[u].master <= array.made
        BY <3>1, <3>2 DEF XIVData
      <4>3. object[u].master <= array'.made
        BY <1>1, <1>3, <4>1, <4>2
      <4>4. Exists(object[u].master)' => object'[object[u].master].master = None
        <5>1. CASE object[u].master # m
          BY <1>5, <3>1, <3>2, <4>1, <5>1 DEF XIVData
        <5>2. CASE object[u].master = m
          <6>1. Exists(m) /\ object[m].master = o.master
            BY <1>7, <3>2, <5>2
          <6>2. object[m].master = None
            BY <3>1, <3>2, <5>2, <6>1 DEF XIVData
          <6> QED
            BY <5>2, <6>1, <6>2
        <5> QED
          BY <5>1, <5>2
      <4> QED
        BY <4>3, <4>4
    <3>3. Exists(object[u].master)' => (object[object[u].master].master)' = object'[object[u].master].master
      BY <3>1 DEF object
    <3> QED
      BY <3>1, <3>2, <3>3 DEF XIVData, object
  <2> QED
    BY <2>1, <2>2
<1>9. \A v, w \in Ids : Exists(v)' /\ Exists(w)' /\ object'[v].name = object'[w].name => v = w
  <2>1. SUFFICES ASSUME NEW v \in Ids, NEW w \in Ids, v # w, Exists(v)', Exists(w)',
                        object'[v].name = object'[w].name
                 PROVE  FALSE
    OBVIOUS
  <2>2. CASE Exists(m) /\ object[m].name = o.name
    BY <1>1, <1>5, <2>1, <2>2 DEF XIVWorld
  <2>3. CASE Named(req[t].name) = {}
    <3>1. \A x \in Ids : Exists(x) => object[x].name # req[t].name
      BY <2>3 DEF Named
    <3> QED
      BY <1>1, <1>5, <2>1, <3>1 DEF XIVWorld
  <2> QED
    BY <2>2, <2>3
<1>10. failures' \in Nat
  BY DEF Onward
<1> QED
  BY <1>8, <1>9, <1>10 DEF XIVWorld, object

(* A thread changes only what it has in hand.                              *)
LEMMA XIVOwn ==
  ASSUME XIVInv, NEW t \in Threads, InHand(t), NEW m \in Ids, m = local[t].mine,
         \A u \in Ids \ {m} : object'[u] = object[u],
         Exists(m) /\ Expands(t) => object'[m] # None /\ object'[m].name = object[m].name,
         object'[m] # None => Exists(m) /\ object'[m].master = object[m].master
  PROVE  XIVTouches(t, m)
<1>1. ObjectsInv /\ service = "xiv" /\ \A w \in Threads : XIVHand(w)
  BY XIVKnows
<1>2. \A w \in Threads \ {t} : InHand(w) => local[w].mine # m
  <2>1. SUFFICES ASSUME NEW w \in Threads \ {t}, InHand(w), local[w].mine = m
                 PROVE  FALSE
    OBVIOUS
  <2>2. CASE Makes(t) /\ Makes(w)
    <3>1. /\ pc[t] # "idle" /\ pc[w] # "idle" /\ Creates(t) /\ Creates(w)
      BY <1>1, <2>2 DEF Makes, Creates, ObjectsInv, Locked
    <3>2. object[m].name = req[t].name /\ object[m].name = req[w].name
      BY <1>1, <2>1, <2>2, <3>1 DEF XIVHand
    <3> QED
      BY <1>1, <3>1, <3>2, MakersDiffer
  <2>3. CASE Deletes(t) \/ Expands(t)
    BY <1>1, <2>1, <2>3, HandsDiffer DEF InHand
  <2>4. CASE Deletes(w) \/ Expands(w)
    BY <1>1, <2>1, <2>4, HandsDiffer DEF InHand
  <2> QED
    BY <2>1, <2>2, <2>3, <2>4 DEF InHand
<1>3. \A w \in Threads \ {t} : Creates(w) /\ req[w].uid = m /\ Exists(m) =>
        object'[m] # None /\ object'[m].name = object[m].name
  <2>1. SUFFICES ASSUME NEW w \in Threads \ {t}, Creates(w), req[w].uid = m, Exists(m), ~ Expands(t)
                 PROVE  FALSE
    OBVIOUS
  <2>2. m # None /\ (Makes(t) \/ Deletes(t))
    BY <2>1, ArrayObjectsAssumption DEF InHand
  <2> QED
    BY <1>1, <2>1, <2>2, SourceIsNotMade
<1> QED
  BY <1>2, <1>3 DEF XIVTouches

(* What a request finds, has made or has copied under its name is          *)
(* reported.                                                               *)
LEMMA XIVReports ==
  ASSUME XIVInv, Locked', NEW t \in Threads, NEW m \in Ids, Creates(t), Report(t, m),
         UNCHANGED <<memory, failures>>, NEW o \in XIVObject, XIVArray', object'[m] = o,
         array' = array \/ XIVTouches(t, m), \A u \in Ids \ {m} : object'[u] = object[u],
         o.name = req[t].name, array.made <= array'.made, m <= array'.made,
         \/ Exists(m) /\ object[m].name = o.name /\ object[m].master = o.master
         \/ Named(req[t].name) = {} /\ m > array.made,
         o.master # None <=> req[t].op = "createSnapshot",
         o.master # None => o.master = req[t].uid,
         o.master = None => o.source = req[t].uid,
         NEW q, q = req[t], q.op = "createVolume" /\ q.uid = None => o.size >= q.size
  PROVE  XIVInv'
<1>1. /\ ObjectsInv /\ (\A w \in Ids : Obj(w) /\ XIVData(w)) /\ failures \in Nat /\ array.made \in Nat
      /\ service = "xiv" /\ XIVWorld /\ KnownInv
      /\ \A w \in Threads : XIVHand(w) /\ RoleInv(w) /\ RequestInv(w)
  BY XIVKnows
<1>2. known.asked[req[t].name] = req[t] /\ req[t].name \in Names
  BY <1>1, CreatorAsks
<1>3. m \in Nat /\ array'.made \in Nat /\ o # None
  <2>1. array'.made = 0 \/ array'.made \in Ids
    BY DEF XIVArray
  <2>2. \A u \in Ids : u \in Nat
    BY ArrayObjectsAssumption
  <2> QED
    BY <2>1, <2>2, XIVAssumption
<1>4. ASSUME NEW w \in Threads \ {t}, Makes(w)
      PROVE  local[w].mine # m
  <2>1. object[local[w].mine].name = req[w].name /\ Exists(local[w].mine) /\ pc[w] # "idle" /\ Creates(w)
    BY <1>1, <1>4 DEF XIVHand, Makes, Creates, ObjectsInv, Locked
  <2>2. CASE Exists(m) /\ object[m].name = o.name
    BY <1>1, <1>4, <2>1, <2>2, MakersDiffer
  <2>3. CASE m > array.made
    <3>1. ~ Exists(m)
      BY <1>1, <2>3 DEF Obj, Exists
    <3> QED
      BY <2>1, <3>1
  <2> QED
    BY <2>2, <2>3
<1>5. known.acked[m] = None \/ known.acked[m].op = req[t].op
  <2>1. ASSUME known.acked[m] # None
        PROVE  known.acked[m].op = req[t].op
    <3>1. Exists(m) /\ object[m].name = o.name
      BY <1>1, <2>1 DEF Obj
    <3>2. known.acked[m].name = req[t].name
      BY <1>1, <2>1, <3>1 DEF Obj, Fits
    <3> QED
      BY <1>1, <1>2, <2>1, <3>2 DEF KnownInv, Answers
  <2> QED
    BY <2>1
<1>6. Careful(t)
  BY <1>1, <1>4, <1>5, ReportCareful
<1>7. /\ req'[t] = None /\ pc'[t] = "idle" /\ known'.asked = known.asked /\ service' = service
      /\ known'.acked[m] = req[t] /\ known'.gone = known.gone
      /\ \A w \in Ids : w # m => known'.acked[w] = known.acked[w]
  BY <1>1, ReportTells
<1>8. Onward
  BY <1>1, <1>3, <1>7 DEF Onward
<1>9. ASSUME NEW w \in Ids
      PROVE  Obj(w)'
  <2>1. CASE w = m
    <3>1. object'[m] # None /\ object'[m].name = req[t].name
      BY <1>3
    <3>2. IsLarge(m, q)'
      BY DEF IsLarge, object
    <3>3. m \notin known.gone
      <4>1. CASE Exists(m)
        BY <1>1, <4>1 DEF Obj, MayStay
      <4>2. CASE m > array.made
        BY <1>1, <4>2 DEF Obj
      <4> QED
        BY <4>1, <4>2
    <3> QED
      BY <1>1, <1>3, <2>1, <3>1, <3>2, <3>3, ReportedObj
  <2>2. CASE w # m
    <3>1. Untouched(w)
      BY <1>1, <2>2, ReportTells DEF Untouched
    <3> QED
      BY <1>1, <1>8, <3>1, ObjKept
  <2> QED
    BY <2>1, <2>2
<1>10. RoleInv(t)' /\ XIVHand(t)'
  BY <1>7, FreedRole DEF XIVHand
<1>11. memory' = <<>>
  BY <1>1 DEF XIVWorld
<1>12. XIVWorld'
  BY <1>7, <1>8, <1>9, <1>11, XIVWorldKeeps
<1> QED
  BY <1>6, <1>10, <1>12, XIVKeeps

LEMMA XIVFindKeeps ==
  ASSUME XIVInv, Locked', NEW t \in Threads, XIVFind(t)
  PROVE  XIVInv'
<1>1. /\ pc[t] = "find" /\ Creates(t) /\ local[t].mine = None /\ local[t] \in Memo(XIVObject)
      /\ Locked /\ XIVWorld /\ (\A u \in Ids : Obj(u) /\ XIVData(u)) /\ ObjectsInv /\ array.made \in Nat
  BY XIVKnows DEF XIVFind, At, XIVHand
<1>2. CASE Reject(t)
  BY <1>1, <1>2, XIVReturns DEF Reject, NoFault
<1>3. CASE Continue(t, "create") /\ NoFault /\ UNCHANGED <<array, memory, known>>
  <2>1. Moves(t) /\ Alone(t) /\ pc'[t] = "create" /\ req'[t] = req[t] /\ local'[t] = local[t]
    BY <1>1, <1>3, ContinueMoves
  <2>2. service' = service /\ failures' = failures
    BY <1>3, <2>1 DEF Moves, NoFault
  <2>3. Creates(t)' /\ ~ Deletes(t)' /\ ~ Expands(t)' /\ ~ Makes(t)'
    BY <1>1, <2>1 DEF Creates, Makes, Deletes, Expands, CreateOps, DeleteOps
  <2>4. RoleInv(t)' /\ XIVHand(t)'
    BY <1>1, <2>1, <2>3 DEF RoleInv, XIVHand, XIVPlace
  <2> QED
    BY <1>3, <2>1, <2>2, <2>4, XIVGoesOn
<1>4. ASSUME NEW u \in Named(req[t].name),
             (req[t].op = "createSnapshot") = (object[u].master # None),
             Accepts(req[t], XIVSourceOf(object[u]), object[u].size),
             Report(t, u), NoFault, UNCHANGED <<array, memory>>
      PROVE  XIVInv'
  <2>1. u \in Ids /\ Exists(u) /\ object[u].name = req[t].name
    BY DEF Named
  <2>2. object[u] \in XIVObject /\ XIVArray /\ object' = object /\ u <= array.made
    <3>1. object[u] \in XIVObject /\ XIVArray /\ object' = object
      BY <1>1, <1>4, <2>1 DEF XIVWorld, XIVArray, object, Exists
    <3>2. ~ (u > array.made)
      BY <1>1, <2>1, XIVKnows DEF Obj, Exists
    <3>3. u \in Nat
      BY <2>1, ArrayObjectsAssumption
    <3> QED
      BY <1>1, <3>1, <3>2, <3>3
  <2>3. object[u].master # None => object[u].master = req[t].uid
    BY <1>4 DEF Accepts, XIVSourceOf
  <2>4. object[u].master = None => object[u].source = req[t].uid
    <3>1. ASSUME object[u].master = None
          PROVE  object[u].source = req[t].uid
      <4>1. CASE ~ array.gen3
        BY <1>1, <1>4, <3>1, <4>1 DEF Accepts, XIVSourceOf
      <4>2. CASE array.gen3
        <5>1. req[t].uid = None
          BY <1>4, <3>1, <4>2 DEF Accepts, XIVSourceOf
        <5>2. object[u].source # None => object[u].source = req[t].uid
          BY <1>1, <2>1, <3>1, CreatorAsks DEF XIVData
        <5> QED
          BY <5>1, <5>2
      <4> QED
        BY <4>1, <4>2
    <3> QED
      BY <3>1
  <2>5. XIVArray' /\ failures' = failures
    BY <1>4, <2>2 DEF XIVArray, NoFault
  <2>6. req[t].uid = None => object[u].size >= req[t].size
    BY <1>4 DEF Accepts
  <2>7. object[u].master # None <=> req[t].op = "createSnapshot"
    BY <1>4
  <2>8. array.made <= array'.made /\ u <= array'.made
    BY <1>1, <1>4, <2>2
  <2>9. object'[u] = object[u] /\ \A w \in Ids \ {u} : object'[w] = object[w]
    BY <2>2
  <2> QED
    BY <1>1, <1>4, <2>1, <2>2, <2>3, <2>4, <2>5, <2>6, <2>7, <2>8, <2>9, XIVReports
<1> QED
  BY <1>2, <1>3, <1>4 DEF XIVFind

LEMMA XIVCreateKeeps ==
  ASSUME XIVInv, Locked', NEW t \in Threads, XIVCreate(t)
  PROVE  XIVInv'
<1>1. /\ pc[t] = "create" /\ Creates(t) /\ local[t].mine = None /\ local[t] \in Memo(XIVObject)
      /\ Locked /\ XIVWorld /\ (\A u \in Ids : Obj(u)) /\ ObjectsInv /\ array.made \in Nat
      /\ failures \in Nat /\ service = "xiv"
      /\ \A w \in Threads : XIVHand(w) /\ RoleInv(w) /\ RequestInv(w)
  BY XIVKnows DEF XIVCreate, At, XIVHand
<1>2. CASE Reject(t)
  BY <1>1, <1>2, XIVReturns DEF Reject, NoFault
<1> DEFINE snapshot == req[t].op = "createSnapshot"
           new == [name |-> req[t].name, source |-> None,
                   size |-> IF snapshot THEN object[req[t].uid].size ELSE req[t].size,
                   master |-> IF snapshot THEN req[t].uid ELSE None]
<1>3. CASE ~ Reject(t)
  <2>1. PICK u \in Ids :
          /\ u = array.made + 1 /\ Named(req[t].name) = {} /\ (snapshot => Exists(req[t].uid))
          /\ array' = [array EXCEPT !.made = u, !.object[u] = new]
          /\ IF IsCopy(t)
               THEN Proceed(t, "copySource", [local[t] EXCEPT !.mine = u]) /\ UNCHANGED known
               ELSE Report(t, u)
          /\ NoFault /\ UNCHANGED memory
    BY <1>3 DEF XIVCreate
  <2>2. /\ req[t].name \in Names /\ req[t] \in Request /\ req[t].op \in CreateOps
        /\ snapshot => req[t].uid \in Ids /\ req[t].uid # None
        /\ ~ snapshot => req[t].size \in Sizes
    BY <1>1, CreatorAsks, ArrayObjectsAssumption DEF CreateOps
  <2>3. new \in XIVObject
    <3>1. snapshot => object[req[t].uid].size \in Sizes
      BY <1>1, <2>1, <2>2 DEF XIVWorld, XIVArray, XIVObject, object, Exists
    <3> QED
      BY <2>2, <3>1 DEF XIVObject
  <2>4. PICK o \in XIVObject : o = new
    BY <2>3
  <2>5. /\ o.name = req[t].name /\ o.source = None /\ (~ snapshot => o.size = req[t].size)
        /\ (o.master # None <=> snapshot) /\ (o.master # None => o.master = req[t].uid)
        /\ array' = [array EXCEPT !.made = u, !.object[u] = o] /\ o # None
    BY <2>1, <2>2, <2>4, XIVAssumption
  <2>6. u \in Nat /\ u > array.made /\ array.made <= u /\ u # None
    BY <1>1, <2>1, ArrayObjectsAssumption
  <2>7. /\ array'.made = u /\ XIVArray' /\ object'[u] = o
        /\ \A w \in Ids \ {u} : object'[w] = object[w]
    BY <1>1, <2>5 DEF XIVWorld, XIVArray, object
  <2>8. ~ Exists(u) /\ known.acked[u] = None /\ u \notin known.deleting \union known.gone
    BY <1>1, <2>6 DEF Obj, Exists
  <2>9. XIVTouches(t, u)
    <3>1. ASSUME NEW w \in Threads \ {t}, InHand(w)
          PROVE  local[w].mine # u
      <4>1. CASE Makes(w)
        BY <1>1, <2>8, <4>1 DEF XIVHand, Makes, Creates, Locked
      <4>2. CASE Deletes(w) \/ Expands(w)
        BY <1>1, <2>8, <4>2 DEF RoleInv
      <4> QED
        BY <3>1, <4>1, <4>2 DEF InHand
    <3> QED
      BY <1>1, <2>5, <2>7, <2>8, <3>1 DEF XIVTouches
  <2>10. CASE ~ IsCopy(t)
    <3>1. Report(t, u) /\ UNCHANGED <<memory, failures>>
      BY <2>1, <2>10 DEF NoFault
    <3>2. ~ snapshot => req[t].op = "createVolume" /\ req[t].uid = None
      BY <2>2, <2>10 DEF CreateOps, IsCopy
    <3>3. /\ o.master = None => o.source = req[t].uid
          /\ ~ snapshot => o.size >= req[t].size
      BY <2>2, <2>5, <3>2, ArrayObjectsAssumption
    <3>4. snapshot => req[t].op # "createVolume"
      OBVIOUS
    <3>5. array.made <= array'.made /\ u <= array'.made
      BY <2>6, <2>7
    <3> HIDE DEF snapshot, new
    <3>6. req[t].op = "createVolume" /\ req[t].uid = None => o.size >= req[t].size
      BY <3>3, <3>4
    <3>7. o.master # None <=> req[t].op = "createSnapshot"
      BY <2>5 DEF snapshot
    <3> QED
      BY <1>1, <2>1, <2>5, <2>6, <2>7, <2>9, <3>1, <3>3, <3>5, <3>6, <3>7, XIVReports
  <2>11. CASE IsCopy(t)
    <3> DEFINE memo == [local[t] EXCEPT !.mine = u]
    <3>1. memo.mine = u /\ memo \in Memo(XIVObject) /\ Proceed(t, "copySource", memo)
      BY <1>1, <2>1, <2>11 DEF Memo
    <3> HIDE DEF memo
    <3>2. Moves(t) /\ Alone(t) /\ pc'[t] = "copySource" /\ req'[t] = req[t] /\ local'[t] = memo
      BY <1>1, <3>1, ProceedMoves
    <3>3. UNCHANGED <<service, known, failures, memory>>
      BY <2>1, <2>11, <3>2 DEF Moves, NoFault
    <3>4. Creates(t)' /\ ~ Deletes(t)' /\ ~ Expands(t)' /\ IsCopy(t)' /\ ~ snapshot
      BY <1>1, <2>11, <3>2 DEF Creates, Deletes, Expands, CreateOps, DeleteOps, IsCopy
    <3>5. RoleInv(t)'
      BY <2>8, <3>1, <3>2, <3>3, <3>4 DEF RoleInv
    <3>6. XIVHand(t)'
      <4>1. Exists(u)' /\ (object[u])' = o /\ o.master = None
        BY <2>5, <2>6, <2>7, <3>4 DEF Exists, object
      <4> QED
        BY <2>5, <2>6, <3>1, <3>2, <3>4, <4>1 DEF XIVHand, XIVPlace
    <3>7. Careful(t)
      BY <1>1, <3>2, <3>3, SilentCareful
    <3>8. Onward
      BY <1>1, <2>6, <2>7, <3>3 DEF Onward
    <3>9. \A w \in Ids : Obj(w)'
      <4>1. ASSUME NEW w \in Ids, w # u
            PROVE  Obj(w)'
        BY <1>1, <2>7, <3>3, <3>8, <4>1, ObjKept DEF Untouched
      <4>2. ASSUME NEW q, q = req[t]
            PROVE  IsLarge(u, q)'
        BY <2>11, <4>2 DEF IsLarge, IsCopy
      <4>3. array'.made \in Nat /\ u <= array'.made
        BY <2>6, <2>7
      <4>4. Obj(u)'
        BY <1>1, <2>5, <2>6, <2>7, <2>8, <3>3, <4>2, <4>3, NewObj
      <4> QED
        BY <4>1, <4>4
    <3>10. XIVWorld'
      <4>1. array.made <= array'.made /\ memory' = <<>> /\ known'.acked[u] = None
        BY <1>1, <2>6, <2>7, <2>8, <3>3 DEF XIVWorld
      <4>2. o.master # None <=> req[t].op = "createSnapshot"
        BY <2>5
      <4> HIDE DEF snapshot, new
      <4> QED
        BY <1>1, <2>1, <2>5, <2>6, <2>7, <3>3, <3>8, <3>9, <4>1, <4>2, XIVWorldKeeps
    <3> QED
      BY <2>9, <3>5, <3>6, <3>7, <3>10, XIVKeeps
  <2> QED
    BY <2>10, <2>11
<1> QED
  BY <1>2, <1>3

(* A roll-back starts, or tries again.                                     *)
LEMMA XIVTries ==
  ASSUME XIVInv, Locked', NEW t \in Threads, Creates(t), IsCopy(t), local[t].mine # None,
         pc[t] # "idle", NEW k, Proceed(t, "look", [local[t] EXCEPT !.tries = k]), k \in Nat,
         UNCHANGED <<array, memory, known>>, failures' \in {failures, failures + 1}
  PROVE  XIVInv'
<1>1. /\ Locked /\ XIVHand(t) /\ RoleInv(t) /\ local[t] \in Memo(XIVObject) /\ Makes(t)
  BY XIVKnows DEF XIVHand, XIVPlace, Makes
<1> DEFINE memo == [local[t] EXCEPT !.tries = k]
<1>2. memo.mine = local[t].mine /\ memo \in Memo(XIVObject) /\ Proceed(t, "look", memo)
  BY <1>1 DEF Memo
<1> HIDE DEF memo
<1>3. Moves(t) /\ Alone(t) /\ pc'[t] = "look" /\ req'[t] = req[t] /\ local'[t] = memo
  BY <1>1, <1>2, ProceedMoves
<1>4. service' = service
  BY <1>3 DEF Moves
<1>5. Creates(t)' /\ ~ Deletes(t)' /\ ~ Expands(t)' /\ IsCopy(t)'
  BY <1>3 DEF Creates, Deletes, Expands, CreateOps, DeleteOps, IsCopy
<1>6. RoleInv(t)'
  BY <1>1, <1>2, <1>3, <1>5 DEF RoleInv
<1>7. XIVHand(t)'
  <2>1. /\ (object[local[t].mine])' = object[local[t].mine]
        /\ Exists(local[t].mine)' <=> Exists(local[t].mine)
    BY <1>2, <1>3 DEF object, Exists
  <2> QED
    BY <1>1, <1>2, <1>3, <1>5, <2>1 DEF XIVHand, XIVPlace
<1> QED
  BY <1>3, <1>4, <1>6, <1>7, XIVGoesOn

LEMMA XIVRollsBack ==
  ASSUME XIVInv, Locked', NEW t \in Threads, pc[t] \in {"copySource", "copy", "resize"},
         RollBack(t, "look"), UNCHANGED <<array, memory, known>>, failures' \in {failures, failures + 1}
  PROVE  XIVInv'
<1>1. Creates(t) /\ IsCopy(t) /\ local[t].mine # None
  BY XIVKnows DEF XIVHand
<1>2. Proceed(t, "look", [local[t] EXCEPT !.tries = RollbackTries]) /\ RollbackTries \in Nat
  BY ArrayObjectsAssumption DEF RollBack
<1> QED
  BY <1>1, <1>2, XIVTries

LEMMA XIVTriesAgain ==
  ASSUME XIVInv, Locked', NEW t \in Threads, pc[t] \in {"look", "remove"}, IsCopy(t),
         TryAgain(t, "look"), UNCHANGED <<array, memory, known>>, failures' \in {failures, failures + 1}
  PROVE  XIVInv'
<1>1. Creates(t) /\ local[t].mine # None /\ local[t].tries \in Nat
  BY XIVKnows DEF XIVHand, Memo, IsCopy, Deletes, DeleteOps
<1>2. CASE Return(t)
  BY <1>2, XIVReturns
<1>3. CASE local[t].tries > 1 /\ Proceed(t, "look", [local[t] EXCEPT !.tries = @ - 1])
  <2>1. local[t].tries - 1 \in Nat /\ Proceed(t, "look", [local[t] EXCEPT !.tries = local[t].tries - 1])
    BY <1>1, <1>3
  <2> QED
    BY <1>1, <2>1, XIVTries
<1> QED
  BY <1>2, <1>3 DEF TryAgain

LEMMA XIVErrs ==
  ASSUME XIVInv, Locked', NEW t \in Threads, pc[t] # "idle", XIVOnError(t),
         UNCHANGED <<array, memory, known>>, failures' \in {failures, failures + 1}
  PROVE  XIVInv'
<1>1. \/ pc[t] \in {"copySource", "copy", "resize"} /\ RollBack(t, "look")
      \/ pc[t] \in {"look", "remove"} /\ IsCopy(t) /\ TryAgain(t, "look")
      \/ Return(t)
  BY DEF XIVOnError
<1> QED
  BY <1>1, XIVRollsBack, XIVTriesAgain, XIVReturns

LEMMA XIVCopySourceKeeps ==
  ASSUME XIVInv, Locked', NEW t \in Threads, XIVCopySource(t)
  PROVE  XIVInv'
<1>1. /\ pc[t] = "copySource" /\ Creates(t) /\ IsCopy(t) /\ local[t].mine # None
      /\ local[t] \in Memo(XIVObject) /\ Locked /\ XIVWorld /\ XIVHand(t) /\ RoleInv(t)
      /\ RequestInv(t) /\ Makes(t) /\ req[t].uid # None
  BY XIVKnows DEF XIVCopySource, At, XIVHand, Makes, IsCopy
<1>2. CASE RollBack(t, "look") /\ NoFault /\ UNCHANGED <<array, memory, known>>
  BY <1>1, <1>2, XIVRollsBack DEF NoFault
<1>3. CASE /\ Exists(req[t].uid)
           /\ Proceed(t, "copy", [local[t] EXCEPT !.read = object[req[t].uid]])
           /\ NoFault /\ UNCHANGED <<array, memory, known>>
  <2>1. PICK s \in Ids : s = req[t].uid
    BY <1>1 DEF RequestInv, Request, Creates
  <2>2. object[s] \in XIVObject /\ object[s] # None
    BY <1>1, <1>3, <2>1 DEF XIVWorld, XIVArray, object, Exists
  <2> DEFINE memo == [local[t] EXCEPT !.read = object[s]]
  <2>3. /\ memo.mine = local[t].mine /\ memo.read = object[s] /\ memo \in Memo(XIVObject)
        /\ Proceed(t, "copy", memo)
    BY <1>1, <1>3, <2>1, <2>2 DEF Memo
  <2> HIDE DEF memo
  <2>4. Moves(t) /\ Alone(t) /\ pc'[t] = "copy" /\ req'[t] = req[t] /\ local'[t] = memo
    BY <1>1, <2>3, ProceedMoves
  <2>5. UNCHANGED <<service, failures>>
    BY <1>3, <2>4 DEF Moves, NoFault
  <2>6. Creates(t)' /\ ~ Deletes(t)' /\ ~ Expands(t)' /\ IsCopy(t)'
    BY <1>1, <2>4 DEF Creates, Deletes, Expands, CreateOps, DeleteOps, IsCopy
  <2>7. RoleInv(t)'
    BY <1>1, <1>3, <2>3, <2>4, <2>6 DEF RoleInv
  <2>8. XIVHand(t)'
    <3>1. /\ (object[local[t].mine])' = object[local[t].mine]
          /\ Exists(local[t].mine)' <=> Exists(local[t].mine)
          /\ (object[s])' = object[s] /\ Exists(s)'
      BY <1>3, <2>1, <2>3, <2>4 DEF object, Exists
    <3> QED
      BY <1>1, <2>1, <2>2, <2>3, <2>4, <2>6, <3>1 DEF XIVHand, XIVPlace
  <2> QED
    BY <1>3, <2>4, <2>5, <2>7, <2>8, XIVGoesOn
<1> QED
  BY <1>2, <1>3 DEF XIVCopySource, CopySource

(* The source of a copy is the only object of its name.                    *)
LEMMA XIVCopies ==
  ASSUME XIVInv, NEW t \in Threads, pc[t] = "copy", NEW m, m = local[t].mine
  PROVE  /\ Creates(t) /\ Makes(t) /\ IsCopy(t) /\ m \in Ids /\ Exists(m) /\ object[m] \in XIVObject
         /\ object[m].name = req[t].name /\ object[m].master = None
         /\ req[t].uid \in Ids /\ Named(local[t].read.name) = {req[t].uid}
         /\ local[t].read \in XIVObject /\ local[t] \in Memo(XIVObject)
         /\ m \in Nat /\ m <= array.made /\ array.made \in Nat /\ known.acked[m] = None
<1>1. array.made \in Nat
  BY XIVKnows
<1>2. Creates(t) /\ IsCopy(t) /\ Makes(t) /\ local[t] \in Memo(XIVObject)
  BY XIVKnows DEF XIVHand, Makes
<1>3. m \in Ids /\ known.acked[m] = None /\ RoleInv(t) /\ XIVHand(t) /\ XIVWorld
  BY <1>2, XIVKnows DEF RoleInv
<1>4. Exists(m) /\ object[m].name = req[t].name /\ object[m].master = None
  BY <1>2, <1>3 DEF XIVHand
<1>5. object[m] \in XIVObject
  BY <1>3, <1>4 DEF XIVWorld, XIVArray, object, Exists
<1>6. req[t].uid \in Ids
  BY <1>2, XIVKnows DEF RequestInv, Request, Creates, IsCopy
<1>7. Exists(req[t].uid) /\ local[t].read # None /\ local[t].read.name = object[req[t].uid].name
  BY <1>3 DEF XIVHand
<1>8. Named(local[t].read.name) = {req[t].uid}
  BY <1>3, <1>6, <1>7 DEF Named, XIVWorld
<1>9. local[t].read \in XIVObject
  BY <1>2, <1>7 DEF Memo
<1>10. m \in Nat /\ m <= array.made
  <2>1. ~ (m > array.made) /\ m \in Nat
    BY <1>3, <1>4, XIVKnows, ArrayObjectsAssumption DEF Obj, Exists
  <2> QED
    BY <1>1, <2>1
<1> QED
  BY <1>1, <1>2, <1>3, <1>4, <1>5, <1>6, <1>8, <1>9, <1>10

(* The copy, and the resize after it, change what the thread has made.     *)
LEMMA XIVChanges ==
  ASSUME XIVInv, Locked', NEW t \in Threads, Makes(t), NEW m, m = local[t].mine, IsCopy(t),
         NEW o \in XIVObject, PutXIV(m, o), o.name = req[t].name, o.master = None, o.source = req[t].uid,
         UNCHANGED <<memory, failures>>,
         \/ Report(t, m)
         \/ /\ Careful(t) /\ known' = known /\ RoleInv(t)'
            /\ (object'[m] = o /\ Exists(m)' /\ (\A u \in Ids \ {m} : object'[u] = object[u]) => XIVHand(t)')
  PROVE  XIVInv'
<1>1. /\ ObjectsInv /\ (\A w \in Ids : Obj(w)) /\ failures \in Nat /\ array.made \in Nat
      /\ service = "xiv" /\ XIVWorld /\ RoleInv(t) /\ Creates(t)
  BY XIVKnows DEF Makes
<1>2. m \in Ids /\ known.acked[m] = None /\ m \notin known.deleting
  BY <1>1 DEF RoleInv
<1>3. Exists(m) /\ object[m].name = req[t].name /\ object[m].master = None
  BY XIVKnows DEF XIVHand, Makes, Creates, ObjectsInv, Locked
<1>4. m \in Nat /\ m <= array.made /\ m # None /\ o # None
  <2>1. ~ (m > array.made)
    BY <1>1, <1>2, <1>3 DEF Obj, Exists
  <2> QED
    BY <1>1, <1>2, <2>1, ArrayObjectsAssumption, XIVAssumption
<1>5. /\ array'.made = array.made /\ XIVArray' /\ object'[m] = o
      /\ \A w \in Ids \ {m} : object'[w] = object[w]
  BY <1>1, <1>2 DEF XIVWorld, XIVArray, object, PutXIV
<1>6. XIVTouches(t, m)
  <2>1. InHand(t) /\ ~ Expands(t)
    BY <1>1 DEF InHand, Creates, Expands, CreateOps
  <2> QED
    BY <1>2, <1>3, <1>5, <2>1, XIVOwn
<1>7. req[t].op = "createVolume" /\ req[t].uid # None
  BY DEF IsCopy
<1>8. CASE Report(t, m)
  BY <1>1, <1>2, <1>3, <1>4, <1>5, <1>6, <1>7, <1>8, XIVReports
<1>9. CASE /\ Careful(t) /\ known' = known /\ RoleInv(t)'
           /\ (object'[m] = o /\ Exists(m)' /\ (\A u \in Ids \ {m} : object'[u] = object[u]) => XIVHand(t)')
  <2>1. Exists(m)'
    BY <1>4, <1>5 DEF Exists, object
  <2>2. XIVHand(t)'
    BY <1>5, <1>9, <2>1
  <2>3. service' = service /\ Onward
    BY <1>1, <1>5, <1>9 DEF Careful, Onward
  <2>4. \A w \in Ids : Obj(w)'
    <3>1. ASSUME NEW w \in Ids, w # m
          PROVE  Obj(w)'
      BY <1>1, <1>5, <1>9, <2>3, <3>1, ObjKept DEF Untouched
    <3>2. Obj(m)'
      <4>1. ASSUME NEW q, q = req[t]
            PROVE  IsLarge(m, q)'
        BY <1>7, <4>1 DEF IsLarge
      <4>2. m \notin known.gone
        BY <1>1, <1>2, <1>3 DEF Obj, MayStay
      <4> QED
        BY <1>1, <1>2, <1>4, <1>5, <1>9, <2>3, <4>1, <4>2, NewObj
    <3> QED
      BY <3>1, <3>2
  <2>5. XIVWorld'
    <3>1. memory' = <<>>
      BY <1>1 DEF XIVWorld
    <3> QED
      BY <1>1, <1>2, <1>3, <1>4, <1>5, <1>7, <1>9, <2>3, <2>4, <3>1, XIVWorldKeeps
  <2> QED
    BY <1>6, <1>9, <1>2, <2>2, <2>5, XIVKeeps
<1> QED
  BY <1>8, <1>9

LEMMA XIVCopyKeeps ==
  ASSUME XIVInv, Locked', NEW t \in Threads, XIVCopy(t)
  PROVE  XIVInv'
<1> DEFINE read == local[t].read
<1>1. /\ pc[t] = "copy" /\ Locked /\ ObjectsInv /\ XIVHand(t) /\ RoleInv(t)
  BY XIVKnows DEF XIVCopy, At
<1>2. PICK m : m = local[t].mine
  OBVIOUS
<1>3. /\ Creates(t) /\ Makes(t) /\ IsCopy(t) /\ m \in Ids /\ Exists(m) /\ object[m] \in XIVObject
      /\ object[m].name = req[t].name /\ object[m].master = None
      /\ req[t].uid \in Ids /\ Named(read.name) = {req[t].uid}
      /\ read \in XIVObject /\ local[t] \in Memo(XIVObject)
  BY <1>1, <1>2, XIVCopies
<1> DEFINE new == [object[m] EXCEPT !.source = CHOOSE s \in Named(read.name) : TRUE,
                                    !.size = read.size]
<1>4. /\ PutXIV(m, new)
      /\ IF req[t].size > read.size
           THEN Continue(t, "resize") /\ UNCHANGED known ELSE Report(t, m)
      /\ NoFault /\ UNCHANGED memory
  BY <1>2, <1>3 DEF XIVCopy
<1>5. (CHOOSE s \in Named(read.name) : TRUE) = req[t].uid
  BY <1>3
<1>6. new \in XIVObject /\ new.name = req[t].name /\ new.master = None /\ new.source = req[t].uid
  BY <1>3, <1>5 DEF XIVObject
<1>7. PICK o \in XIVObject : o = new
  BY <1>6
<1> HIDE DEF new
<1>8. PutXIV(m, o) /\ o.name = req[t].name /\ o.master = None /\ o.source = req[t].uid
  BY <1>4, <1>6, <1>7
<1>9. failures' = failures /\ memory' = memory
  BY <1>4 DEF NoFault
<1>10. CASE Report(t, m)
  BY <1>2, <1>3, <1>8, <1>9, <1>10, XIVChanges
<1>11. CASE Continue(t, "resize") /\ UNCHANGED known
  <2>1. Moves(t) /\ Alone(t) /\ pc'[t] = "resize" /\ req'[t] = req[t] /\ local'[t] = local[t]
    BY <1>1, <1>11, ContinueMoves
  <2>2. service' = service
    BY <2>1 DEF Moves
  <2>3. Careful(t)
    BY <1>1, <1>11, <2>1, <2>2, SilentCareful
  <2>4. Creates(t)' /\ ~ Deletes(t)' /\ ~ Expands(t)' /\ IsCopy(t)'
    BY <1>3, <2>1 DEF Creates, Deletes, Expands, CreateOps, DeleteOps, IsCopy
  <2>5. RoleInv(t)'
    BY <1>1, <1>2, <1>3, <1>11, <2>1, <2>4 DEF RoleInv
  <2>6. ASSUME object'[m] = o, Exists(m)'
        PROVE  XIVHand(t)'
    <3>1. Exists(local[t].mine)' /\ (object[local[t].mine])' = o
      BY <1>2, <2>1, <2>6 DEF object
    <3>2. local[t].mine # None
      BY <1>3 DEF Makes
    <3> QED
      BY <1>3, <1>8, <2>1, <2>4, <3>1, <3>2 DEF XIVHand, XIVPlace
  <2> QED
    BY <1>2, <1>3, <1>8, <1>9, <1>11, <2>3, <2>5, <2>6, XIVChanges
<1> QED
  BY <1>4, <1>10, <1>11

LEMMA XIVResizeKeeps ==
  ASSUME XIVInv, Locked', NEW t \in Threads, XIVResize(t)
  PROVE  XIVInv'
<1>1. PICK m : m = local[t].mine
  OBVIOUS
<1>2. /\ pc[t] = "resize" /\ Creates(t) /\ Makes(t) /\ IsCopy(t) /\ XIVHand(t) /\ RoleInv(t) /\ XIVWorld
      /\ ObjectsInv
  BY XIVKnows DEF XIVResize, At, XIVHand, Makes
<1>3. m \in Ids /\ Exists(m) /\ object[m].name = req[t].name /\ object[m].master = None
      /\ object[m].source = req[t].uid
  BY <1>1, <1>2 DEF XIVHand, RoleInv
<1>4. object[m] \in XIVObject /\ req[t].size \in Sizes
  BY <1>2, <1>3, CreatorAsks DEF XIVWorld, XIVArray, object, Exists, IsCopy
<1> DEFINE new == [object[m] EXCEPT !.size = req[t].size]
<1>5. new \in XIVObject /\ new.name = req[t].name /\ new.master = None /\ new.source = req[t].uid
  BY <1>3, <1>4 DEF XIVObject
<1>6. PutXIV(m, new) /\ Report(t, m) /\ NoFault /\ memory' = memory
  BY <1>1 DEF XIVResize
<1> QED
  BY <1>1, <1>2, <1>5, <1>6, XIVChanges DEF NoFault

LEMMA XIVFailKeeps ==
  ASSUME XIVInv, Locked', NEW t \in Threads, XIVFail(t)
  PROVE  XIVInv'
<1>1. pc[t] # "idle" /\ failures' = failures + 1 /\ XIVOnError(t) /\ UNCHANGED <<array, memory, known>>
  BY DEF XIVFail, Fault
<1> QED
  BY <1>1, XIVErrs

(* The object is read before it is removed or extended.                    *)
LEMMA XIVReads ==
  ASSUME XIVInv, Locked', NEW t \in Threads, InHand(t), pc[t] # "idle",
         NEW u \in Ids, u = local[t].mine, Exists(u),
         NEW to, Proceed(t, to, [local[t] EXCEPT !.read = object[u]]),
         UNCHANGED <<array, memory, known, failures>>,
         \/ to = "remove" /\ pc[t] = "look" /\ SnapshotsOf(u) = {}
         \/ to = "extend" /\ pc[t] = "expand" /\ object[u].size < req[t].size
  PROVE  XIVInv'
<1>1. /\ Locked /\ XIVHand(t) /\ RoleInv(t) /\ RequestInv(t) /\ XIVWorld
      /\ local[t] \in Memo(XIVObject) /\ local[t].mine # None
  BY XIVKnows, ArrayObjectsAssumption DEF XIVHand
<1>2. object[u] \in XIVObject /\ object[u] # None
  BY <1>1 DEF XIVWorld, XIVArray, object, Exists
<1> DEFINE memo == [local[t] EXCEPT !.read = object[u]]
<1>3. /\ memo \in Memo(XIVObject) /\ memo.mine = u /\ memo.read = object[u]
      /\ Proceed(t, to, memo)
  BY <1>1, <1>2 DEF Memo
<1> HIDE DEF memo
<1>4. Moves(t) /\ Alone(t) /\ pc'[t] = to /\ req'[t] = req[t] /\ local'[t] = memo
  BY <1>1, <1>3, ProceedMoves
<1>5. service' = service
  BY <1>4 DEF Moves
<1>6. /\ Deletes(t)' <=> Deletes(t)
      /\ Expands(t)' <=> Expands(t)
      /\ Creates(t)' <=> Creates(t)
      /\ IsCopy(t)' <=> IsCopy(t)
      /\ Makes(t)' <=> Makes(t)
  BY <1>1, <1>3, <1>4 DEF Deletes, Expands, Creates, IsCopy, Makes
<1>7. RoleInv(t)'
  BY <1>1, <1>3, <1>4, <1>6 DEF RoleInv
<1>8. XIVHand(t)'
  <2>1. /\ (object[u])' = object[u] /\ Exists(u)' /\ SnapshotsOf(u)' = SnapshotsOf(u)
    BY DEF object, Exists, SnapshotsOf
  <2> QED
    BY <1>1, <1>2, <1>3, <1>4, <1>6, <2>1 DEF XIVHand, XIVPlace
<1> QED
  BY <1>4, <1>5, <1>7, <1>8, XIVGoesOn

(* What a deletion or a roll-back removes was in its own hand.             *)
LEMMA XIVDeletes ==
  ASSUME XIVInv, Locked', NEW t \in Threads, pc[t] \in {"look", "remove"}, Deleted(t),
         NEW m \in Ids, m = local[t].mine,
         UNCHANGED <<memory, failures>>, XIVArray', array'.made = array.made,
         object'[m] = None,
         \A u \in Ids : u # m => object'[u] = object[u]
  PROVE  XIVInv'
<1>1. /\ ObjectsInv /\ (\A u \in Ids : Obj(u) /\ XIVData(u)) /\ failures \in Nat /\ array.made \in Nat
      /\ service = "xiv" /\ XIVWorld /\ XIVHand(t) /\ RoleInv(t) /\ RequestInv(t)
  BY XIVKnows
<1>2. /\ InHand(t) /\ ~ Expands(t) /\ req[t] # None /\ ~ Trusted(m)
      /\ Deletes(t) => req[t].uid = m
  <2>1. Deletes(t) \/ Makes(t)
    BY <1>1 DEF XIVHand, Makes
  <2>2. ~ Expands(t) /\ req[t] # None
    BY <2>1 DEF Deletes, Makes, Creates, Expands, CreateOps, DeleteOps
  <2> QED
    BY <1>1, <2>1, <2>2 DEF InHand, Trusted, RoleInv, RequestInv
<1>3. /\ req'[t] = None /\ pc'[t] = "idle" /\ known'.asked = known.asked /\ service' = service
      /\ \A u \in Ids : u # m => known'.acked[u] = known.acked[u]
  BY <1>1, <1>2, DeletedTells
<1>4. Onward
  BY <1>1, <1>3 DEF Onward
<1>5. \A u \in Ids : Obj(u)'
  BY <1>1, <1>2, <1>4, DeletedObjs
<1>6. XIVTouches(t, m)
  BY <1>2, XIVOwn
<1>7. ~ Exists(m)' /\ \A u \in Ids : u # m => (Exists(u)' <=> Exists(u))
  BY DEF Exists, object
<1>8. ASSUME NEW u \in Ids
      PROVE  XIVData(u)'
  <2>1. CASE u = m
    BY <1>7, <2>1 DEF XIVData
  <2>2. CASE u # m /\ ~ Exists(u)
    BY <1>7, <2>2 DEF XIVData
  <2>3. CASE u # m /\ Exists(u)
    <3>1. /\ XIVData(u) /\ (object[u])' = object[u] /\ known'.acked[u] = known.acked[u] /\ Exists(u)'
      BY <1>1, <1>3, <1>7, <2>3 DEF object
    <3>2. object[u].master # None => object[u].master \in Ids
      BY <1>1, <2>3 DEF XIVWorld, XIVArray, XIVObject, Exists, object
    <3>3. PICK v : v = object[u].master
      OBVIOUS
    <3>4. v # None /\ Exists(v)' => Exists(v) /\ (object[v])' = object[v]
      BY <1>7, <3>2, <3>3 DEF object
    <3> QED
      BY <1>3, <2>3, <3>1, <3>3, <3>4 DEF XIVData
  <2> QED
    BY <2>1, <2>2, <2>3
<1>9. XIVWorld'
  <2>1. \A v, w \in Ids : Exists(v)' /\ Exists(w)' /\ object'[v].name = object'[w].name => v = w
    BY <1>1, <1>7 DEF XIVWorld
  <2> QED
    BY <1>1, <1>5, <1>8, <2>1 DEF XIVWorld, object
<1>10. RoleInv(t)' /\ XIVHand(t)' /\ Careful(t)
  BY <1>1, <1>2, <1>3, FreedRole, DeletedCareful DEF XIVHand
<1> QED
  BY <1>6, <1>9, <1>10, XIVKeeps

(* A snapshot has no snapshots.                                            *)
LEMMA XIVIsFree ==
  ASSUME XIVInv, NEW t \in Threads, pc[t] = "look", NEW u \in Ids, u = local[t].mine,
         Exists(u), ~ InUse(t)
  PROVE  SnapshotsOf(u) = {}
<1>1. /\ \A w \in Ids : Obj(w) /\ XIVData(w)
      /\ XIVHand(t) /\ RoleInv(t) /\ KnownInv
  BY XIVKnows
<1>2. SUFFICES ASSUME req[t].op = "deleteSnapshot", NEW x \in SnapshotsOf(u)
               PROVE  FALSE
  BY DEF InUse
<1>3. Deletes(t) /\ known.acked[u] # None /\ known.acked[u].op = "createSnapshot"
  BY <1>1, <1>2 DEF XIVHand, RoleInv, OpOf, Creates, CreateOps, Deletes
<1>4. known.asked[object[u].name].op = "createSnapshot"
  BY <1>1, <1>3 DEF Obj, Fits, KnownInv, Answers, XIVInv
<1>5. object[u].master # None
  BY <1>1, <1>4 DEF XIVData
<1>6. x \in Ids /\ Exists(x) /\ object[x].master = u /\ u # None
  BY ArrayObjectsAssumption DEF SnapshotsOf
<1>7. object[u].master = None
  BY <1>1, <1>6 DEF XIVData
<1> QED
  BY <1>5, <1>7

LEMMA XIVLookKeeps ==
  ASSUME XIVInv, Locked', NEW t \in Threads, XIVLook(t)
  PROVE  XIVInv'
<1>1. PICK u : u = local[t].mine
  OBVIOUS
<1>2. /\ pc[t] = "look" /\ XIVHand(t) /\ RoleInv(t) /\ RequestInv(t) /\ XIVWorld
  BY XIVKnows DEF XIVLook, At
<1>3. Deletes(t) \/ Makes(t)
  BY <1>2 DEF XIVHand, Makes
<1>4. u \in Ids /\ InHand(t)
  BY <1>1, <1>2, <1>3 DEF RoleInv, RequestInv, InHand
<1>5. CASE ~ Exists(u) /\ Deleted(t) /\ NoFault /\ UNCHANGED <<array, memory>>
  <2>1. object'[u] = None /\ object' = object /\ array'.made = array.made /\ XIVArray'
    BY <1>2, <1>4, <1>5, ArrayObjectsAssumption DEF Exists, object, XIVWorld, XIVArray
  <2> QED
    BY <1>1, <1>2, <1>4, <1>5, <2>1, XIVDeletes DEF NoFault
<1>6. CASE XIVOnError(t) /\ NoFault /\ UNCHANGED <<array, memory, known>>
  BY <1>2, <1>6, XIVErrs DEF NoFault
<1>7. CASE /\ Exists(u) /\ ~ InUse(t)
           /\ Proceed(t, "remove", [local[t] EXCEPT !.read = object[u]])
           /\ NoFault /\ UNCHANGED <<array, memory, known>>
  <2>1. SnapshotsOf(u) = {}
    BY <1>1, <1>2, <1>4, <1>7, XIVIsFree
  <2> QED
    BY <1>1, <1>2, <1>4, <1>7, <2>1, XIVReads DEF NoFault
<1> QED
  BY <1>1, <1>5, <1>6, <1>7 DEF XIVLook

LEMMA XIVRemoveKeeps ==
  ASSUME XIVInv, Locked', NEW t \in Threads, XIVRemove(t)
  PROVE  XIVInv'
<1>1. PICK m : m = local[t].mine
  OBVIOUS
<1>2. /\ pc[t] = "remove" /\ XIVHand(t) /\ RoleInv(t) /\ RequestInv(t) /\ XIVWorld
  BY XIVKnows DEF XIVRemove, At
<1>3. Deletes(t) \/ Makes(t)
  BY <1>2 DEF XIVHand, Makes
<1>4. m \in Ids
  BY <1>1, <1>2, <1>3 DEF RoleInv, RequestInv
<1>5. Exists(m) /\ local[t].read.name = object[m].name /\ SnapshotsOf(m) = {}
  BY <1>1, <1>2 DEF XIVHand
<1>6. Named(local[t].read.name) = {m}
  BY <1>2, <1>4, <1>5 DEF Named, XIVWorld
<1>7. {x \in Ids : \E u \in Named(local[t].read.name) : x \in {u} \union SnapshotsOf(u)} = {m}
  BY <1>4, <1>5, <1>6
<1>8. /\ array' = [array EXCEPT !.object = [u \in Ids |-> IF u \in {m} THEN None ELSE @[u]]]
      /\ Deleted(t) /\ NoFault /\ UNCHANGED memory
  BY <1>7 DEF XIVRemove
<1>9. array'.object = [u \in Ids |-> IF u \in {m} THEN None ELSE array.object[u]] /\ array'.made = array.made
      /\ array'.gen3 = array.gen3 /\ XIVArray
  BY <1>2, <1>8 DEF XIVWorld, XIVArray
<1>10. /\ XIVArray' /\ object'[m] = None
       /\ \A u \in Ids : u # m => object'[u] = object[u]
  BY <1>4, <1>8, <1>9 DEF XIVArray, object
<1> QED
  BY <1>1, <1>2, <1>4, <1>8, <1>9, <1>10, XIVDeletes DEF NoFault

LEMMA XIVExpands ==
  ASSUME XIVInv, Locked', NEW t \in Threads, Expands(t), Expanded(t),
         UNCHANGED <<memory, failures>>, NEW m \in Ids, m = req[t].uid, Exists(m),
         \/ array' = array /\ object[m].size >= req[t].size
         \/ PutXIV(m, [object[m] EXCEPT !.size = req[t].size]) /\ object[m].size < req[t].size
  PROVE  XIVInv'
<1>1. /\ ObjectsInv /\ (\A u \in Ids : Obj(u) /\ XIVData(u)) /\ failures \in Nat /\ array.made \in Nat
      /\ service = "xiv" /\ XIVWorld /\ KnownInv /\ RoleInv(t) /\ RequestInv(t)
  BY XIVKnows
<1>2. req[t].size \in Sizes /\ req[t].size \in Nat /\ local[t].mine = m
  BY <1>1, ArrayObjectsAssumption DEF RequestInv, RoleInv
<1>3. /\ req'[t] = None /\ pc'[t] = "idle" /\ known'.asked = known.asked /\ service' = service
      /\ known'.acked[m] = [known.acked[m] EXCEPT !.size = req[t].size]
      /\ \A u \in Ids : u # m => known'.acked[u] = known.acked[u]
  BY <1>1, ExpandedTells
<1>4. object[m] \in XIVObject /\ object[m] # None /\ object[m].size \in Nat
  BY <1>1, <1>2, ArrayObjectsAssumption DEF XIVWorld, XIVArray, XIVObject, object, Exists
<1>5. /\ array'.made = array.made /\ XIVArray'
      /\ object'[m].name = object[m].name /\ object'[m].source = object[m].source
      /\ object'[m].master = object[m].master
      /\ object'[m].size \in Nat /\ object'[m].size >= object[m].size /\ object'[m].size >= req[t].size
      /\ object'[m] \in XIVObject
      /\ \A u \in Ids : u # m => object'[u] = object[u]
  <2>1. CASE array' = array /\ object[m].size >= req[t].size
    <3>1. object' = object
      BY <2>1 DEF object
    <3> QED
      BY <1>1, <1>4, <2>1, <3>1 DEF XIVWorld, XIVArray
  <2>2. CASE PutXIV(m, [object[m] EXCEPT !.size = req[t].size]) /\ object[m].size < req[t].size
    <3> DEFINE o == [object[m] EXCEPT !.size = req[t].size]
    <3>1. /\ o \in XIVObject /\ o.name = object[m].name /\ o.source = object[m].source
          /\ o.size = req[t].size /\ o.master = object[m].master
      BY <1>2, <1>4 DEF XIVObject
    <3>2. array' = [array EXCEPT !.object[m] = o]
      BY <2>2 DEF PutXIV
    <3> HIDE DEF o
    <3>3. array'.made = array.made /\ array'.object = [array.object EXCEPT ![m] = o] /\ XIVArray'
      BY <1>1, <3>1, <3>2 DEF XIVWorld, XIVArray
    <3>4. object'[m] = o /\ \A u \in Ids : u # m => object'[u] = object[u]
      BY <1>1, <3>3 DEF XIVWorld, XIVArray, object
    <3> QED
      BY <1>2, <1>4, <2>2, <3>1, <3>3, <3>4
  <2> QED
    BY <2>1, <2>2
<1>6. object'[m] # None
  BY <1>5, XIVAssumption
<1>7. Onward
  BY <1>1, <1>3, <1>5 DEF Onward
<1>8. \A u \in Ids : Obj(u)'
  BY <1>1, <1>4, <1>5, <1>6, <1>7, ExpandedObjs
<1>9. /\ \A u \in Ids : Exists(u)' <=> Exists(u)
      /\ \A u \in Ids : object'[u].name = object[u].name /\ object'[u].source = object[u].source
                        /\ object'[u].master = object[u].master
  BY <1>4, <1>5, <1>6, ArrayObjectsAssumption DEF Exists, object
<1>10. \A u \in Ids : known'.acked[u] # None => known.acked[u] # None /\ known'.acked[u].uid = known.acked[u].uid
  <2>1. known.acked[m] \in Request /\ known.acked[m] # None
    BY <1>1 DEF RoleInv, KnownInv, Answers
  <2>2. known'.acked[m].uid = known.acked[m].uid
    BY <1>3, <2>1 DEF Request
  <2> QED
    BY <1>3, <2>1, <2>2
<1>11. ASSUME NEW u \in Ids
       PROVE  XIVData(u)'
  <2>1. CASE ~ Exists(u)
    BY <1>9, <2>1 DEF XIVData
  <2>2. CASE Exists(u)
    <3>1. PICK n : n = object[u].name
      OBVIOUS
    <3>2. PICK v : v = object[u].master
      OBVIOUS
    <3>3. v # None => v \in Ids
      BY <1>1, <2>2, <3>2 DEF XIVWorld, XIVArray, XIVObject, Exists, object
    <3>4. /\ (object[u].name)' = n /\ (object[u].master)' = v /\ (object[u].source)' = object[u].source
          /\ Exists(u)' /\ known'.asked = known.asked
      BY <1>3, <1>9, <2>2, <3>1, <3>2 DEF object
    <3>5. v # None /\ Exists(v)' => Exists(v) /\ (object[v].master)' = object[v].master
      BY <1>9, <3>3 DEF object
    <3>6. XIVData(u) /\ array'.made = array.made
      BY <1>1, <1>5
    <3> QED
      BY <1>10, <2>2, <3>1, <3>2, <3>4, <3>5, <3>6 DEF XIVData
  <2> QED
    BY <2>1, <2>2
<1>12. XIVWorld'
  <2>1. \A v, w \in Ids : Exists(v)' /\ Exists(w)' /\ object'[v].name = object'[w].name => v = w
    BY <1>1, <1>9 DEF XIVWorld
  <2> QED
    BY <1>1, <1>5, <1>8, <1>11, <2>1 DEF XIVWorld, object
<1>13. XIVTouches(t, m)
  BY <1>2, <1>5, <1>6, <1>4, ArrayObjectsAssumption, XIVOwn DEF InHand, Exists
<1>14. RoleInv(t)' /\ XIVHand(t)' /\ Careful(t)
  BY <1>1, <1>3, FreedRole, ExpandedCareful DEF XIVHand
<1> QED
  BY <1>12, <1>13, <1>14, XIVKeeps

LEMMA XIVExpandKeeps ==
  ASSUME XIVInv, Locked', NEW t \in Threads, XIVExpand(t)
  PROVE  XIVInv'
<1>1. PICK m : m = local[t].mine
  OBVIOUS
<1>2. /\ pc[t] = "expand" /\ Expands(t) /\ RoleInv(t) /\ RequestInv(t) /\ XIVWorld
  BY XIVKnows DEF XIVExpand, At, XIVHand
<1>3. m = req[t].uid /\ m \in Ids
  BY <1>1, <1>2 DEF RoleInv, RequestInv
<1>4. CASE Reject(t)
  BY <1>2, <1>4, XIVReturns DEF Reject, NoFault
<1>5. CASE Exists(m) /\ object[m].size >= req[t].size /\ Expanded(t) /\ NoFault /\ UNCHANGED <<array, memory>>
  BY <1>2, <1>3, <1>5, XIVExpands DEF NoFault
<1>6. CASE /\ Exists(m) /\ object[m].size < req[t].size
           /\ Proceed(t, "extend", [local[t] EXCEPT !.read = object[m]])
           /\ NoFault /\ UNCHANGED <<array, memory, known>>
  BY <1>1, <1>2, <1>3, <1>6, XIVReads DEF NoFault, InHand
<1> QED
  BY <1>1, <1>4, <1>5, <1>6 DEF XIVExpand

LEMMA XIVExtendKeeps ==
  ASSUME XIVInv, Locked', NEW t \in Threads, XIVExtend(t)
  PROVE  XIVInv'
<1>1. PICK m : m = local[t].mine
  OBVIOUS
<1>2. /\ pc[t] = "extend" /\ Expands(t) /\ RoleInv(t) /\ RequestInv(t) /\ XIVWorld
      /\ Exists(m) /\ local[t].read.name = object[m].name /\ object[m].size < req[t].size
  BY <1>1, XIVKnows DEF XIVExtend, At, XIVHand
<1>3. m = req[t].uid /\ m \in Ids
  BY <1>1, <1>2 DEF RoleInv, RequestInv
<1>4. Named(local[t].read.name) = {m}
  BY <1>2, <1>3 DEF Named, XIVWorld
<1>5. /\ PutXIV(m, [object[m] EXCEPT !.size = req[t].size])
      /\ Expanded(t) /\ NoFault /\ UNCHANGED memory
  BY <1>1, <1>2, <1>4 DEF XIVExtend
<1> QED
  BY <1>2, <1>3, <1>5, XIVExpands DEF NoFault

LEMMA XIVCallKeeps ==
  ASSUME XIVInv, NEW t \in Threads, CallObjects(t)
  PROVE  XIVInv'
<1>1. /\ ObjectsInv' /\ (\A u \in Ids : Obj(u)') /\ Alone(t) /\ Starts(t) /\ Onward
      /\ UNCHANGED <<service, array, memory, failures>> /\ known'.acked = known.acked
  BY XIVKnows, CallKeeps
<1>2. XIVWorld'
  <2>1. ASSUME NEW u \in Ids
        PROVE  XIVData(u)'
    <3>1. XIVData(u) /\ object' = object /\ (Exists(u)' <=> Exists(u)) /\ array'.made = array.made
      BY <1>1, XIVKnows DEF Exists, object
    <3>2. CASE ~ Exists(u)
      BY <3>1, <3>2 DEF XIVData
    <3>3. CASE Exists(u)
      <4>1. object[u].name \in Names /\ object[u].name # None
        BY <3>3, XIVKnows, ArrayObjectsAssumption DEF XIVWorld, XIVArray, XIVObject, Exists, object
      <4>2. known.asked[object[u].name] # None
        BY <3>3, <4>1, XIVKnows DEF Obj
      <4>3. known'.asked[object[u].name] = known.asked[object[u].name]
        BY <1>1, <4>1, <4>2 DEF Onward
      <4>4. \A v : Exists(v)' <=> Exists(v)
        BY <3>1 DEF Exists
      <4> QED
        BY <1>1, <3>1, <3>3, <4>3, <4>4 DEF XIVData
    <3> QED
      BY <3>2, <3>3
  <2> QED
    BY <1>1, <2>1 DEF XIVInv, XIVWorld, XIVArray, Exists, object
<1>3. XIVHand(t)'
  <2>1. CASE Creates(t)' /\ pc'[t] = "find" /\ local'[t] = [NoMemo EXCEPT !.mine = None]
    BY <2>1 DEF XIVHand, XIVPlace, NoMemo, Memo, Makes
  <2>2. CASE Deletes(t)' /\ pc'[t] = "look" /\ local'[t] = [NoMemo EXCEPT !.mine = (req'[t]).uid]
    <3>1. (req'[t]).uid \in Ids /\ ~ Creates(t)'
      BY <1>1, <2>2 DEF ObjectsInv, RequestInv, Creates, Deletes, CreateOps, DeleteOps
    <3> QED
      BY <2>2, <3>1 DEF XIVHand, XIVPlace, NoMemo, Memo, Makes
  <2>3. CASE Expands(t)' /\ pc'[t] = "expand" /\ local'[t] = [NoMemo EXCEPT !.mine = (req'[t]).uid]
    <3>1. (req'[t]).uid \in Ids /\ ~ Creates(t)'
      BY <1>1, <2>3 DEF ObjectsInv, RequestInv, Creates, Expands, CreateOps
    <3> QED
      BY <2>3, <3>1 DEF XIVHand, XIVPlace, NoMemo, Memo, Makes
  <2> QED
    BY <1>1, <2>1, <2>2, <2>3 DEF Starts
<1>4. ASSUME NEW w \in Threads, w # t
      PROVE  XIVHand(w)'
  <2>1. XIVHand(w) /\ pc'[w] = pc[w] /\ req'[w] = req[w] /\ local'[w] = local[w] /\ object' = object
    BY <1>1, <1>4 DEF XIVInv, Alone, object
  <2>2. \A u : (Exists(u)' <=> Exists(u)) /\ SnapshotsOf(u)' = SnapshotsOf(u)
    BY <2>1 DEF Exists, SnapshotsOf
  <2> QED
    BY <2>1, <2>2 DEF XIVHand, Makes, Creates, Deletes, Expands, IsCopy
<1> QED
  BY <1>1, <1>2, <1>3, <1>4 DEF XIVInv

LEMMA XIVCrashKeeps ==
  ASSUME XIVInv, Crash
  PROVE  XIVInv'
<1>1. /\ ObjectsInv' /\ (\A u \in Ids : Obj(u)') /\ (\A t \in Threads : pc'[t] = "idle")
      /\ memory' = <<>> /\ UNCHANGED <<service, array, known, failures>>
  BY XIVKnows, CrashKeepsObjects
<1>2. XIVWorld'
  <2>1. object' = object /\ \A u : Exists(u)' <=> Exists(u)
    BY <1>1 DEF object, Exists
  <2>2. \A u \in Ids : XIVData(u)'
    BY <1>1, <2>1, XIVKnows DEF XIVData
  <2> QED
    BY <1>1, <2>1, <2>2 DEF XIVInv, XIVWorld, XIVArray
<1>3. \A t \in Threads : XIVHand(t)'
  BY <1>1 DEF XIVHand
<1> QED
  BY <1>1, <1>2, <1>3 DEF XIVInv

LEMMA InitXIVInv ==
  ASSUME InitXIV
  PROVE  XIVInv
<1> DEFINE o == [name |-> FirstName, size |-> SizeOf[FirstName], master |-> None, source |-> None]
<1>1. FirstName \in Names /\ FirstId \in Ids /\ SizeOf[FirstName] \in Sizes
  BY FirstOnes, ArrayObjectsAssumption DEF Names
<1>2. o \in XIVObject
  BY <1>1 DEF XIVObject
<1>3. PICK g \in BOOLEAN : array = [object |-> First(o), made |-> FirstId, gen3 |-> g]
  BY DEF InitXIV
<1>4. /\ o # None /\ o.name = FirstName /\ o.size = SizeOf[FirstName] /\ o.source = None /\ o.master = None
      /\ InitObjects("xiv") /\ memory = <<>>
  BY <1>2, XIVAssumption DEF InitXIV
<1> HIDE DEF o
<1>5. /\ array.object = First(o) /\ array.made = FirstId
      /\ First(o) \in [Ids -> XIVObject \union {None}]
  BY <1>2, <1>3 DEF First
<1>6. XIVArray
  BY <1>1, <1>3, <1>5 DEF XIVArray
<1>7. /\ ObjectsInv /\ (\A u \in Ids : Obj(u)) /\ failures = 0 /\ service = "xiv"
      /\ \A t \in Threads : pc[t] = "idle"
      /\ \A u \in Ids : object[u] = IF u = FirstId THEN o ELSE None
      /\ known.acked[FirstId].uid = None /\ known.asked[FirstName].op = "createVolume"
  BY <1>4, <1>5, InitObjectsInv DEF ObjectServices
<1>8. \A u \in Ids : XIVData(u)
  BY <1>4, <1>7 DEF XIVData, Exists
<1>9. XIVWorld
  BY <1>4, <1>6, <1>7, <1>8 DEF XIVWorld, Exists
<1> QED
  BY <1>7, <1>9 DEF XIVInv, XIVHand

LEMMA XIVStep ==
  ASSUME XIVInv, XIVNext
  PROVE  XIVInv'
<1>1. Locked'
  BY XIVMove DEF XIVInv, ObjectsInv
<1>2. ASSUME NEW t \in Threads,
             XIVFind(t) \/ XIVCreate(t) \/ XIVCopySource(t) \/ XIVCopy(t) \/ XIVResize(t)
      PROVE  XIVInv'
  BY <1>1, <1>2, XIVFindKeeps, XIVCreateKeeps, XIVCopySourceKeeps, XIVCopyKeeps, XIVResizeKeeps
<1>3. ASSUME NEW t \in Threads,
             XIVLook(t) \/ XIVRemove(t) \/ XIVExpand(t) \/ XIVExtend(t) \/ XIVFail(t)
      PROVE  XIVInv'
  BY <1>1, <1>3, XIVLookKeeps, XIVRemoveKeeps, XIVExpandKeeps, XIVExtendKeeps, XIVFailKeeps
<1> QED
  BY <1>2, <1>3 DEF XIVNext

(* What the properties say of an XIV.                                      *)
LEMMA XIVMeans ==
  ASSUME XIVInv
  PROVE  TypeOK /\ ReportedStays /\ ReportedAsAsked /\ DeletedIsGone /\ NameOnce
<1>1. /\ ObjectsInv /\ (\A u \in Ids : Obj(u) /\ XIVData(u)) /\ service = "xiv" /\ XIVWorld /\ KnownInv
  BY XIVKnows
<1>2. TypeOK
  <2>1. \A t \in Threads : pc[t] \in XIVPlace
    BY DEF XIVInv, XIVHand, XIVPlace
  <2>2. XIVTypeOK
    BY <1>1, <2>1 DEF XIVTypeOK, XIVWorld, XIVArray
  <2>3. ObjectsTypeOK /\ ids_in_use = {LockOf(req[t]) : t \in {x \in Threads : req[x] # None}}
    BY <1>1 DEF ObjectsTypeOK, ObjectsInv, KnownInv, RequestInv, Locked
  <2> QED
    BY <1>1, <2>2, <2>3 DEF TypeOK
<1>3. ReportedStays
  BY <1>1 DEF ReportedStays, Obj, Trusted, Fits
<1>4. ReportedAsAsked
  <2>1. \A u \in Ids : Trusted(u) => XIVHasData(u)
    <3>1. ASSUME NEW u \in Ids, Trusted(u)
          PROVE  XIVHasData(u)
      <4>1. Exists(u) /\ known.acked[u] # None /\ object[u].name = known.acked[u].name
        BY <1>1, <3>1 DEF Obj, Trusted, Fits
      <4>2. known.acked[u].uid = known.asked[object[u].name].uid
        BY <1>1, <4>1 DEF KnownInv, Answers
      <4> QED
        BY <1>1, <4>1, <4>2 DEF XIVData, XIVHasData
    <3> QED
      BY <3>1
  <2> QED
    BY <1>1, <2>1 DEF ReportedAsAsked, Obj, Trusted, IsLarge
<1>5. DeletedIsGone
  <2>1. known.gone \subseteq Ids
    BY <1>1 DEF KnownInv, KnownObjects
  <2>2. \A u \in known.gone : ~ Exists(u)
    BY <1>1, <2>1 DEF Obj, MayStay
  <2> QED
    BY <1>1, <2>2 DEF DeletedIsGone
<1>6. NameOnce
  BY <1>1 DEF NameOnce, XIVWorld
<1> QED
  BY <1>2, <1>3, <1>4, <1>5, <1>6

-----------------------------------------------------------------------------
(* E-Series.                                                               *)

Young(u, n) == known.since[n] # None /\ u > known.since[n]

(* A volume or view a thread has made is no base of anything; a view goes  *)
(* no sooner than its image.  An image a thread has made goes only when it *)
(* is deleted, or with its group.                                          *)
SANtricityHand(t) ==
  pc[t] # "idle" =>
    /\ pc[t] \in SANtricityPlace /\ local[t] \in Memo({})
    /\ pc[t] \in {"find", "create", "createAgain", "chooseGroup", "createImage"} =>
         Creates(t) /\ local[t].mine = None
    /\ pc[t] \in {"create", "createAgain"} => req[t].op = "createVolume"
    /\ pc[t] = "copySource" => Makes(t)
    /\ pc[t] = "look" => Makes(t) \/ Deletes(t)
    /\ pc[t] \in {"chooseGroup", "createImage", "newest"} =>
         /\ Creates(t) /\ req[t].op = "createSnapshot"
         /\ known.since[req[t].name] # None
    /\ pc[t] = "removeGroup" => Deletes(t)
    /\ pc[t] = "expand" => Expands(t)
    /\ Makes(t) =>
         /\ IsCopy(t) /\ local[t].mine <= array.made
         /\ \A u \in Ids : Exists(u) => object[u].base # local[t].mine
         /\ \A g \in Ids : array.group[g] # None => array.group[g].volume # local[t].mine
         /\ Exists(local[t].mine) =>
              /\ object[local[t].mine].name = req[t].name
              /\ object[local[t].mine].kind = IF req[t].from = "snapshot" THEN "view" ELSE "volume"
    /\ pc[t] = "copySource" /\ Exists(req[t].uid) => Exists(local[t].mine)
    /\ pc[t] = "copySource" /\ req[t].from # "snapshot" => Exists(local[t].mine)
    /\ pc[t] = "createImage" =>
         \A g \in local[t].others : g <= array.groups /\
           (array.group[g] # None => array.group[g].volume = req[t].uid)
    /\ pc[t] = "newest" =>
         /\ local[t].mine \in Ids /\ local[t].mine <= array.made
         /\ Young(local[t].mine, req[t].name)
         /\ Exists(local[t].mine) =>
              object[local[t].mine].kind = "image" /\ object[local[t].mine].base = req[t].uid
         /\ Exists(local[t].mine) \/ local[t].mine \in known.yanked \union known.deleting
         /\ known.acked[local[t].mine] # None => known.acked[local[t].mine].op = "createSnapshot"
    /\ pc[t] = "removeGroup" =>
         \A u \in Ids : Exists(u) /\ u = local[t].mine => local[t].others = {object[u].group}

SANtricityArray ==
  array \in [object : [Ids -> SANtricityObject \union {None}], made : Ids,
             group : [Ids -> SnapshotGroup \union {None}], groups : {0} \union Ids]

SANtricityData(u) ==
  Exists(u) =>
    /\ object[u].base # None => object[u].base <= array.made
    /\ object[u].kind # "image" => object[u].group = None /\ object[u].name # None
    /\ object[u].kind = "view" => object[u].base = known.asked[object[u].name].uid
    /\ object[u].kind = "image" =>
         /\ object[u].name = None /\ object[u].group # None
         /\ array.group[object[u].group] # None
         /\ object[u].base = array.group[object[u].group].volume
         /\ Young(u, array.group[object[u].group].name)
         /\ known.acked[u] # None =>
              /\ object[u].base = known.acked[u].uid
              /\ known.deleting = {} => Young(u, known.acked[u].name)

GroupData(g) ==
  array.group[g] # None =>
    /\ g <= array.groups /\ known.since[array.group[g].name] # None
    /\ Exists(array.group[g].volume) /\ object[array.group[g].volume].kind = "volume"

SANtricityApart ==
  \A u, w \in Ids : Exists(u) /\ Exists(w) /\ object[u].name = object[w].name /\ object[u].name # None =>
    u = w

SinceInv == \A n \in SnapshotNames : known.since[n] # None => known.since[n] <= array.made

SANtricityWorld ==
  /\ SANtricityArray
  /\ memory = <<>> /\ failures \in Nat
  /\ \A u \in Ids : Obj(u) /\ SANtricityData(u)
  /\ \A g \in Ids : GroupData(g)
  /\ SANtricityApart /\ SinceInv
  /\ known.yanked # {} => known.deleting # {}

(* A thread that has made an object, if an image it may be reported by     *)
(* others.                                                                 *)
HasMade(t) == Makes(t) \/ pc[t] = "newest"

SANtricityMade ==
  \A t, w \in Threads : t # w /\ HasMade(t) /\ HasMade(w) => local[t].mine # local[w].mine

SANtricityInv ==
  /\ service = "santricity" /\ ObjectsInv /\ SANtricityWorld /\ SANtricityMade
  /\ \A t \in Threads : SANtricityHand(t)

LEMMA SANtricityKnows ==
  ASSUME SANtricityInv
  PROVE  /\ ObjectsInv /\ Locked /\ KnownInv /\ (\A u \in Ids : Obj(u) /\ SANtricityData(u))
         /\ failures \in Nat /\ array.made \in Nat /\ array.groups \in Nat
         /\ service = "santricity" /\ SANtricityWorld
         /\ memory = <<>> /\ SANtricityArray /\ SANtricityApart /\ SinceInv /\ SANtricityMade
         /\ \A g \in Ids : GroupData(g)
         /\ \A t \in Threads : SANtricityHand(t) /\ RoleInv(t) /\ RequestInv(t) /\ SourceInv(t)
<1>1. /\ ObjectsInv /\ SANtricityWorld /\ service = "santricity" /\ SANtricityMade
      /\ \A t \in Threads : SANtricityHand(t)
  BY DEF SANtricityInv
<1>2. SANtricityArray
  BY <1>1 DEF SANtricityWorld
<1>3. array.made \in Nat /\ array.groups \in Nat
  <2>1. array.made \in Ids /\ (array.groups = 0 \/ array.groups \in Ids)
    BY <1>2 DEF SANtricityArray
  <2>2. \A u \in Ids : u \in Nat
    BY ArrayObjectsAssumption
  <2> QED
    BY <2>1, <2>2
<1>4. Locked /\ KnownInv /\ \A t \in Threads : RoleInv(t) /\ RequestInv(t) /\ SourceInv(t)
  BY <1>1 DEF ObjectsInv
<1>5. /\ (\A u \in Ids : Obj(u) /\ SANtricityData(u)) /\ failures \in Nat /\ memory = <<>>
      /\ SANtricityApart /\ SinceInv /\ \A g \in Ids : GroupData(g)
  BY <1>1 DEF SANtricityWorld
<1> QED
  BY <1>1, <1>2, <1>3, <1>4, <1>5

LEMMA SANtricityHasTypes ==
  ASSUME SANtricityInv, NEW u \in Ids, Exists(u)
  PROVE  object[u] \in SANtricityObject /\ object[u] # None /\ u \in Nat /\ u <= array.made
<1>1. SANtricityArray /\ Obj(u) /\ array.made \in Nat /\ service = "santricity"
  BY SANtricityKnows
<1>2. object[u] \in SANtricityObject /\ object[u] # None
  BY <1>1 DEF SANtricityArray, object, Exists
<1>3. u \in Nat
  BY ArrayObjectsAssumption
<1>4. ~ (u > array.made)
  BY <1>1, <1>2 DEF Obj
<1> QED
  BY <1>1, <1>2, <1>3, <1>4

(* What was ever reported is no new object.                                *)
LEMMA SANtricityOld ==
  ASSUME SANtricityInv, NEW u \in Ids, known.acked[u] # None \/ u \in known.deleting
  PROVE  u \in Nat /\ u <= array.made
<1>1. Obj(u) /\ array.made \in Nat /\ service = "santricity"
  BY SANtricityKnows
<1>2. u \in Nat
  BY ArrayObjectsAssumption
<1>3. ~ (u > array.made)
  BY <1>1 DEF Obj
<1> QED
  BY <1>1, <1>2, <1>3

(* What a step of t may do to an object: nothing, give it another size,    *)
(* make it, or remove it.                                                  *)
Resizes(u) ==
  /\ Exists(u) /\ object'[u] # None
  /\ object'[u].name = object[u].name /\ object'[u].kind = object[u].kind
  /\ object'[u].base = object[u].base /\ object'[u].group = object[u].group

Appears(t, u) ==
  /\ u > array.made /\ object'[u] # None
  /\ object'[u].base = None \/ (Creates(t) /\ object'[u].base = req[t].uid)

Removes(t, u) ==
  /\ object'[u] = None /\ Exists(u)
  /\ u \in known'.yanked \union known.deleting \/ (Makes(t) /\ u = local[t].mine)
  /\ \/ (Makes(t) \/ Deletes(t)) /\ u = local[t].mine
     \/ object[u].kind = "image"
     \/ object[u].kind = "view" /\ object'[object[u].base] = None

Mild(t) ==
  /\ array'.made \in Nat /\ array.made <= array'.made
  /\ array'.groups \in Nat /\ array.groups <= array'.groups
  /\ \A g \in Ids : array'.group[g] # None =>
       \/ array'.group[g] = array.group[g]
       \/ g > array.groups /\ Creates(t) /\ array'.group[g].volume = req[t].uid
  /\ \A n \in SnapshotNames : known.since[n] # None => known'.since[n] = known.since[n]
  /\ known.yanked \subseteq known'.yanked /\ known'.deleting = known.deleting
  /\ \A u \in Ids : object'[u] = object[u] \/ Resizes(u) \/ Appears(t, u) \/ Removes(t, u)
  /\ \A u \in Ids : known.acked[u] = None /\ known'.acked[u] # None =>
       \/ known'.acked[u].op = "createSnapshot"
       \/ u > array.made
       \/ Exists(u) /\ object[u].kind # "image"

LEMMA SANtricityOthers ==
  ASSUME SANtricityInv, NEW t \in Threads, NEW w \in Threads, w # t, Careful(t), Mild(t)
  PROVE  SANtricityHand(w)'
<1>1. /\ pc'[w] = pc[w] /\ req'[w] = req[w] /\ local'[w] = local[w] /\ ObjectsInv
      /\ SANtricityHand(w) /\ SANtricityHand(t) /\ RoleInv(w) /\ RequestInv(w) /\ SourceInv(w) /\ SourceInv(t)
      /\ service = "santricity" /\ array.made \in Nat /\ array.groups \in Nat
      /\ array'.made \in Nat /\ array.made <= array'.made
      /\ array'.groups \in Nat /\ array.groups <= array'.groups
      /\ known'.deleting = known.deleting /\ known.yanked \subseteq known'.yanked
  BY SANtricityKnows DEF Careful, Alone, Mild
<1>2. /\ Makes(w)' <=> Makes(w)
      /\ Creates(w)' <=> Creates(w)
      /\ Deletes(w)' <=> Deletes(w)
      /\ Expands(w)' <=> Expands(w)
      /\ IsCopy(w)' <=> IsCopy(w)
  BY <1>1 DEF Makes, Creates, Deletes, Expands, IsCopy
<1>3. PICK m : m = local[w].mine
  OBVIOUS
<1>4. ASSUME NEW u \in Ids
      PROVE  /\ u \in Nat /\ u # None
             /\ object'[u] = object[u] \/ Resizes(u) \/ Appears(t, u) \/ Removes(t, u)
             /\ Exists(u)' <=> object'[u] # None
             /\ Exists(u) <=> object[u] # None
  BY ArrayObjectsAssumption DEF Mild, Exists, object
<1>5. ASSUME NEW u \in Ids, u <= array.made, Exists(u)'
      PROVE  /\ Exists(u) /\ object'[u].name = object[u].name /\ object'[u].kind = object[u].kind
             /\ object'[u].base = object[u].base /\ object'[u].group = object[u].group
  <2>1. ~ Appears(t, u) /\ ~ Removes(t, u)
    BY <1>1, <1>4, <1>5 DEF Appears, Removes
  <2> QED
    BY <1>4, <1>5, <2>1 DEF Resizes
<1>6. CASE pc[w] = "idle"
  BY <1>1, <1>6 DEF SANtricityHand
<1>7. CASE pc[w] \in {"find", "create", "createAgain", "chooseGroup", "createImage"}
  <2>1. pc[w] \in {"chooseGroup", "createImage"} => known'.since[req[w].name] # None
    <3>1. SUFFICES ASSUME pc[w] \in {"chooseGroup", "createImage"}
                   PROVE  known'.since[req[w].name] # None
      OBVIOUS
    <3>2. Creates(w) /\ req[w].op = "createSnapshot" /\ known.since[req[w].name] # None
      BY <1>1, <3>1 DEF SANtricityHand
    <3>3. req[w].name \in SnapshotNames
      BY <1>1, <3>2, CreatorAsks
    <3> QED
      BY <3>2, <3>3 DEF Mild
  <2>2. ASSUME pc[w] = "createImage", NEW g \in local[w].others
        PROVE  g <= array'.groups /\ (array'.group[g] # None => array'.group[g].volume = req[w].uid)
    <3>1. g \in Ids /\ g <= array.groups /\ (array.group[g] # None => array.group[g].volume = req[w].uid)
      BY <1>1, <2>2 DEF SANtricityHand, Memo
    <3>2. ~ (g > array.groups) /\ g <= array'.groups
      BY <1>1, <1>4, <3>1
    <3> QED
      BY <3>1, <3>2 DEF Mild
  <2>3. ~ Makes(w)
    BY <1>1, <1>7 DEF SANtricityHand, Makes
  <2> QED
    BY <1>1, <1>2, <1>7, <2>1, <2>2, <2>3 DEF SANtricityHand
<1>8. CASE pc[w] = "expand"
  <2>1. ~ Makes(w)
    BY <1>1, <1>8 DEF SANtricityHand, Makes, Creates, Expands, CreateOps
  <2> QED
    BY <1>1, <1>2, <1>8, <2>1 DEF SANtricityHand
<1>9. CASE pc[w] = "removeGroup" \/ (pc[w] = "look" /\ ~ Makes(w))
  <2>1. Deletes(w) /\ ~ Makes(w)
    BY <1>1, <1>9 DEF SANtricityHand, Makes, Creates, Deletes, CreateOps, DeleteOps
  <2>2. m \in Ids /\ known.acked[m] # None
    BY <1>1, <1>3, <2>1 DEF RoleInv, RequestInv
  <2>3. m <= array.made
    BY <2>2, SANtricityOld
  <2>4. Exists(m)' => Exists(m) /\ object'[m].group = object[m].group
    BY <1>5, <2>2, <2>3
  <2> QED
    BY <1>1, <1>2, <1>3, <1>9, <2>1, <2>4 DEF SANtricityHand, object
<1>10. CASE pc[w] = "newest"
  <2>1. /\ Creates(w) /\ req[w].op = "createSnapshot" /\ known.since[req[w].name] # None
        /\ m \in Ids /\ m <= array.made /\ Young(m, req[w].name)
        /\ Exists(m) => object[m].kind = "image" /\ object[m].base = req[w].uid
        /\ Exists(m) \/ m \in known.yanked \union known.deleting
        /\ known.acked[m] # None => known.acked[m].op = "createSnapshot"
    BY <1>1, <1>3, <1>10 DEF SANtricityHand
  <2>2. known'.since[req[w].name] = known.since[req[w].name]
    BY <1>1, <2>1, CreatorAsks DEF Mild
  <2>3. m \in Nat /\ m <= array'.made
    BY <1>1, <1>4, <2>1
  <2>4. Exists(m)' => object'[m].kind = "image" /\ object'[m].base = req[w].uid
    BY <1>5, <2>1
  <2>5. Exists(m)' \/ m \in known'.yanked \union known'.deleting
    <3>1. SUFFICES ASSUME Exists(m), ~ Exists(m)', m \notin known'.yanked \union known'.deleting
                   PROVE  FALSE
      BY <1>1, <2>1
    <3>2. Removes(t, m)
      BY <1>4, <2>1, <3>1 DEF Resizes, Appears
    <3>3. Makes(t) /\ m = local[t].mine
      BY <1>1, <3>1, <3>2 DEF Removes
    <3>4. object[m].kind \in {"view", "volume"} /\ pc[t] # "idle"
      BY <1>1, <3>1, <3>3 DEF SANtricityHand, Makes, Creates, ObjectsInv, Locked
    <3> QED
      BY <2>1, <3>1, <3>4
  <2>6. known'.acked[m] # None => known'.acked[m].op = "createSnapshot"
    <3>1. SUFFICES ASSUME known'.acked[m] # None
                   PROVE  known'.acked[m].op = "createSnapshot"
      OBVIOUS
    <3>2. CASE known.acked[m] = None
      BY <1>1, <2>1, <2>3, <3>1, <3>2 DEF Mild
    <3>3. CASE known.acked[m] # None
      <4>1. Tells(t, m) /\ known.acked[m] \in Request
        BY <1>1, <2>1, <3>3 DEF Careful, ObjectsInv, KnownInv, Answers
      <4>2. Expands(t) /\ m = req[t].uid => FALSE
        BY <1>1, <2>1, <3>3, SANtricityKnows DEF RoleInv, OpOf, Expands
      <4> QED
        BY <2>1, <3>1, <3>3, <4>1, <4>2 DEF Tells
    <3> QED
      BY <3>2, <3>3
  <2>7. ~ Makes(w)
    BY <1>10 DEF Makes
  <2> QED
    BY <1>1, <1>2, <1>3, <1>10, <2>1, <2>2, <2>3, <2>4, <2>5, <2>6, <2>7 DEF SANtricityHand, Young, object
<1>11. CASE pc[w] # "idle" /\ Makes(w)
  <2>0. PICK s : s = req[w].uid
    OBVIOUS
  <2>1. /\ Creates(w) /\ IsCopy(w) /\ m \in Ids /\ m <= array.made /\ m # None
        /\ pc[w] \in SANtricityPlace /\ local[w] \in Memo({})
        /\ \A u \in Ids : Exists(u) => object[u].base # m
        /\ \A g \in Ids : array.group[g] # None => array.group[g].volume # m
        /\ Exists(m) =>
             /\ object[m].name = req[w].name
             /\ object[m].kind = IF req[w].from = "snapshot" THEN "view" ELSE "volume"
    BY <1>1, <1>3, <1>4, <1>11 DEF SANtricityHand, RoleInv, Makes
  <2>2. pc[w] \in {"copySource", "look"}
    BY <1>1, <1>3, <1>11, <2>1
      DEF SANtricityHand, SANtricityPlace, Makes, Creates, Deletes, Expands, CreateOps, DeleteOps
  <2>3. m <= array'.made
    BY <1>1, <1>4, <2>1
  <2>4. Creates(t) /\ req[t].uid # None => req[t].uid # m
    BY <1>1, <1>3, <1>11, SourceIsNotMade
  <2>5. ASSUME NEW u \in Ids, Exists(u)'
        PROVE  object'[u].base # m
    BY <1>4, <2>1, <2>4, <2>5 DEF Resizes, Appears, Removes
  <2>6. \A g \in Ids : array'.group[g] # None => array'.group[g].volume # m
    BY <2>1, <2>4 DEF Mild
  <2>7. Exists(m)' =>
          /\ object'[m].name = req[w].name
          /\ object'[m].kind = IF req[w].from = "snapshot" THEN "view" ELSE "volume"
    BY <1>5, <2>1
  <2>8. ASSUME Exists(m), ~ Exists(m)'
        PROVE  req[w].from = "snapshot" /\ ~ Exists(s)'
    <3>1. Removes(t, m)
      BY <1>4, <2>1, <2>8 DEF Resizes, Appears
    <3>2. ~ ((Makes(t) \/ Deletes(t)) /\ m = local[t].mine)
      <4>1. CASE Deletes(t)
        BY <1>1, <1>3, <1>11, <4>1, HandsDiffer
      <4>2. CASE Makes(t) /\ m = local[t].mine
        <5>1. Creates(t) /\ object[m].name = req[t].name /\ pc[t] # "idle"
          BY <1>1, <2>8, <4>2 DEF SANtricityHand, Makes, Creates, ObjectsInv, Locked
        <5> QED
          BY <1>1, <2>1, <2>8, <5>1, MakersDiffer
      <4> QED
        BY <4>1, <4>2
    <3>3. object[m].kind = "view" /\ object'[object[m].base] = None
      BY <2>1, <2>8, <3>1, <3>2 DEF Removes
    <3>4. object[m].base = req[w].uid
      <4>1. known.asked[req[w].name] = req[w] /\ SANtricityData(m)
        BY <1>1, <2>1, CreatorAsks, SANtricityKnows
      <4> QED
        BY <2>1, <2>8, <3>3, <4>1 DEF SANtricityData
    <3> QED
      BY <2>0, <2>1, <2>8, <3>3, <3>4 DEF Exists, object
  <2>9. Exists(s)' => Exists(s)
    <3>1. s \in Ids /\ known.acked[s] # None
      BY <1>1, <2>0, <2>1 DEF SourceInv, IsCopy
    <3>2. s <= array.made
      BY <3>1, SANtricityOld
    <3> QED
      BY <1>5, <3>1, <3>2
  <2>10. /\ pc[w] = "copySource" /\ Exists(s)' => Exists(m)'
         /\ pc[w] = "copySource" /\ req[w].from # "snapshot" => Exists(m)'
    BY <1>1, <1>3, <2>0, <2>8, <2>9 DEF SANtricityHand
  <2>11. \A u \in Ids : Exists(u)' => (object[u].base)' # m
    BY <2>5 DEF object
  <2>12. /\ (Exists(req[w].uid))' <=> Exists(s)'
         /\ Exists(local[w].mine)' <=> Exists(m)'
         /\ (object[local[w].mine])' = object'[m]
    BY <1>1, <1>3, <2>0 DEF Exists, object
  <2>13. Makes(w)' /\ IsCopy(w)' /\ req'[w] = req[w] /\ pc'[w] = pc[w] /\ local'[w].mine = m
    BY <1>1, <1>2, <1>3, <1>11, <2>1
  <2>14. Creates(w)' /\ local'[w] \in Memo({})
    BY <1>1, <1>2, <2>1
  <2> QED
    BY <2>2, <2>3, <2>6, <2>7, <2>10, <2>11, <2>12, <2>13, <2>14 DEF SANtricityHand, SANtricityPlace
<1>12. pc[w] \in SANtricityPlace
  BY <1>1 DEF SANtricityHand, SANtricityPlace
<1> QED
  BY <1>1, <1>6, <1>7, <1>8, <1>9, <1>10, <1>11, <1>12 DEF SANtricityPlace, SANtricityHand

LEMMA SANtricityKeeps ==
  ASSUME SANtricityInv, Locked', NEW t \in Threads, Careful(t), Mild(t),
         HasMade(t)' => \A w \in Threads \ {t} : HasMade(w) => local[w].mine # local'[t].mine,
         RoleInv(t)', SANtricityHand(t)', SANtricityWorld'
  PROVE  SANtricityInv'
<1>1. ObjectsInv' /\ service' = "santricity"
  BY CarefulKeeps DEF SANtricityInv, Careful
<1>2. \A w \in Threads \ {t} : SANtricityHand(w)'
  BY SANtricityOthers
<1>3. SANtricityMade'
  <2>1. \A w \in Threads \ {t} : (HasMade(w)' <=> HasMade(w)) /\ local'[w] = local[w]
    BY DEF HasMade, Makes, Creates, Careful, Alone
  <2>2. SANtricityMade
    BY SANtricityKnows
  <2> QED
    BY <2>1, <2>2 DEF SANtricityMade
<1> QED
  BY <1>1, <1>2, <1>3 DEF SANtricityInv

(* A step that changes nothing, but that may note when a snapshot was      *)
(* first asked for.                                                        *)
Notes ==
  /\ known' \in KnownObjects /\ known'.acked = known.acked /\ known'.asked = known.asked
  /\ known'.deleting = known.deleting /\ known'.gone = known.gone /\ known'.yanked = known.yanked
  /\ \A n \in SnapshotNames : known.since[n] # None => known'.since[n] = known.since[n]
  /\ \A n \in SnapshotNames : known'.since[n] # None => known'.since[n] <= array.made

LEMMA SANtricityGoesOn ==
  ASSUME SANtricityInv, Locked', NEW t \in Threads, Alone(t), UNCHANGED <<array, memory, service>>,
         Notes, failures' \in {failures, failures + 1},
         \/ req'[t] = None /\ pc'[t] = "idle"
         \/ /\ req'[t] = req[t] /\ RoleInv(t)' /\ SANtricityHand(t)'
            /\ HasMade(t)' => HasMade(t) /\ local'[t].mine = local[t].mine
  PROVE  SANtricityInv'
<1>1. /\ failures \in Nat /\ array.made \in Nat /\ array.groups \in Nat
      /\ service = "santricity" /\ memory = <<>>
      /\ (\A u \in Ids : Obj(u) /\ SANtricityData(u)) /\ (\A g \in Ids : GroupData(g))
      /\ SANtricityApart /\ SANtricityArray /\ ObjectsInv
      /\ known.yanked # {} => known.deleting # {}
  BY SANtricityKnows DEF SANtricityWorld
<1>2. Careful(t)
  <2>1. \A w \in Threads : Deletes(w) => req[w].uid \in known.deleting
    BY <1>1 DEF ObjectsInv, RequestInv
  <2> QED
    BY <1>1, <2>1 DEF Careful, Tells, Notes
<1>3. object' = object /\ (\A u : Exists(u)' <=> Exists(u)) /\ array' = array
  BY DEF object, Exists
<1>4. Mild(t)
  BY <1>1, <1>3 DEF Mild, Notes
<1>5. Onward
  BY <1>1 DEF Onward, Notes
<1>6. \A u \in Ids : Obj(u)'
  BY <1>1, <1>3, <1>5, ObjKept DEF Untouched, Notes
<1>7. ASSUME NEW u \in Ids
      PROVE  SANtricityData(u)'
  <2>1. CASE ~ Exists(u)
    BY <1>3, <2>1 DEF SANtricityData
  <2>2. CASE Exists(u)
    <3>1. SANtricityData(u) /\ object[u] \in SANtricityObject
      BY <1>1, <2>2, SANtricityHasTypes
    <3>2. ASSUME NEW n \in SnapshotNames, Young(u, n)
          PROVE  Young(u, n)'
      BY <3>2 DEF Young, Notes
    <3>3. object[u].kind = "image" => array.group[object[u].group].name \in SnapshotNames
      BY <1>1, <2>2, <3>1 DEF SANtricityData, SANtricityArray, SANtricityObject, SnapshotGroup
    <3>4. object[u].kind = "image" /\ known.acked[u] # None => known.acked[u].name \in SnapshotNames
      <4>1. SUFFICES ASSUME object[u].kind = "image", known.acked[u] # None
                     PROVE  known.acked[u].name \in SnapshotNames
        OBVIOUS
      <4>2. known.acked[u].op = "createSnapshot"
        BY <1>1, <2>2, <4>1 DEF Obj, Fits
      <4> QED
        BY <1>1, <4>1, <4>2 DEF ObjectsInv, KnownInv, Answers, Asks
    <3> QED
      BY <1>3, <2>2, <3>1, <3>2, <3>3, <3>4 DEF SANtricityData, Notes, Young
  <2> QED
    BY <2>1, <2>2
<1>8. ASSUME NEW g \in Ids
      PROVE  GroupData(g)'
  <2>1. GroupData(g) /\ (array.group[g] # None => array.group[g].name \in SnapshotNames)
    BY <1>1 DEF SANtricityArray, SnapshotGroup
  <2> QED
    BY <1>3, <2>1 DEF GroupData, Notes
<1>9. SANtricityWorld'
  BY <1>1, <1>3, <1>6, <1>7, <1>8 DEF SANtricityWorld, SANtricityApart, SANtricityArray, SinceInv, Notes
<1>10. RoleInv(t)' /\ SANtricityHand(t)'
  BY FreedRole DEF SANtricityHand
<1>11. HasMade(t)' => HasMade(t) /\ local'[t].mine = local[t].mine
  BY DEF HasMade, Makes, Creates
<1>12. HasMade(t)' => \A w \in Threads \ {t} : HasMade(w) => local[w].mine # local'[t].mine
  BY <1>11, SANtricityKnows DEF SANtricityMade
<1> QED
  BY <1>2, <1>4, <1>9, <1>10, <1>12, SANtricityKeeps

LEMMA SANtricityNotes ==
  ASSUME SANtricityInv, known' = known
  PROVE  Notes
  BY SANtricityKnows DEF Notes, KnownInv, SinceInv

LEMMA SANtricityReturns ==
  ASSUME SANtricityInv, Locked', NEW t \in Threads, pc[t] # "idle", Return(t),
         UNCHANGED <<array, memory, known>>, failures' \in {failures, failures + 1}
  PROVE  SANtricityInv'
<1>1. Alone(t) /\ req'[t] = None /\ pc'[t] = "idle" /\ service' = service
  BY SANtricityKnows, ReturnMoves DEF Return
<1> QED
  BY <1>1, SANtricityNotes, SANtricityGoesOn

LEMMA SANtricityRejects ==
  ASSUME SANtricityInv, Locked', NEW t \in Threads, pc[t] # "idle", Reject(t)
  PROVE  SANtricityInv'
  BY SANtricityReturns DEF Reject, NoFault

(* The roles of a thread that goes on with another memory of what it does. *)
LEMMA SANtricityProceeds ==
  ASSUME SANtricityInv, NEW t \in Threads, pc[t] # "idle", NEW to, to # "idle",
         NEW memo, Proceed(t, to, memo)
  PROVE  /\ Alone(t) /\ pc'[t] = to /\ req'[t] = req[t] /\ local'[t] = memo /\ service' = service
         /\ Creates(t)' <=> Creates(t)
         /\ Deletes(t)' <=> Deletes(t)
         /\ Expands(t)' <=> Expands(t)
         /\ IsCopy(t)' <=> IsCopy(t)
<1>1. ObjectsInv /\ Locked
  BY SANtricityKnows
<1>2. Alone(t) /\ pc'[t] = to /\ req'[t] = req[t] /\ local'[t] = memo /\ service' = service
  BY <1>1, ProceedMoves DEF Proceed, ObjectsInv
<1> QED
  BY <1>2 DEF Creates, Deletes, Expands, IsCopy

(* An object is reported: a volume or view under its name, an image of the *)
(* requested volume, or the image that was made and is gone again.         *)
LEMMA SANtricityReports ==
  ASSUME SANtricityInv, Locked', NEW t \in Threads, Creates(t), NEW u \in Ids, Report(t, u),
         NoFault, UNCHANGED <<array, memory>>, u <= array.made,
         \A w \in Threads \ {t} : Makes(w) => local[w].mine # u,
         NEW q, q = req[t],
         \/ /\ q.op = "createVolume" /\ Exists(u) /\ object[u].kind # "image" /\ object[u].name = q.name
            /\ IsLarge(u, q)
         \/ /\ q.op = "createSnapshot" /\ Exists(u) /\ object[u].kind = "image" /\ object[u].base = q.uid
            /\ known.deleting = {} => Young(u, q.name)
         \/ /\ q.op = "createSnapshot" /\ ~ Exists(u) /\ u \in known.yanked \union known.deleting
            /\ known.acked[u] # None => known.acked[u].op = "createSnapshot"
  PROVE  SANtricityInv'
<1>1. /\ ObjectsInv /\ (\A w \in Ids : Obj(w) /\ SANtricityData(w)) /\ failures \in Nat /\ array.made \in Nat
      /\ array.groups \in Nat /\ service = "santricity" /\ KnownInv /\ memory = <<>>
      /\ SANtricityArray /\ SANtricityApart /\ SinceInv /\ (\A g \in Ids : GroupData(g))
      /\ known.yanked # {} => known.deleting # {}
  BY SANtricityKnows DEF SANtricityWorld
<1>2. known.asked[q.name] = q /\ q.name \in Names /\ q.name # None /\ q # None
  BY <1>1, CreatorAsks, ArrayObjectsAssumption
<1>3. known.acked[u] = None \/ known.acked[u].op = q.op
  <2>1. Exists(u) /\ known.acked[u] # None => known.acked[u].op \in CreateOps /\ Fits(u)
    BY <1>1 DEF Obj, KnownInv, Answers, Asks, CreateOps
  <2> QED
    BY <1>1, <2>1 DEF Fits, CreateOps
<1>4. Careful(t)
  BY <1>1, <1>3, ReportCareful
<1>5. /\ req'[t] = None /\ pc'[t] = "idle" /\ known'.asked = known.asked /\ service' = service
      /\ known'.acked[u] = q /\ known'.gone = known.gone /\ known'.deleting = known.deleting
      /\ known'.yanked = known.yanked /\ known'.since = known.since
      /\ \A w \in Ids : w # u => known'.acked[w] = known.acked[w]
  BY <1>1, ReportTells
<1>6. /\ object' = object /\ array' = array /\ failures' = failures
      /\ \A w : Exists(w)' <=> Exists(w)
  BY DEF object, NoFault, Exists
<1>7. Mild(t)
  <2>1. known'.acked[u].op = "createSnapshot" \/ (Exists(u) /\ object[u].kind # "image")
    BY <1>5
  <2> QED
    BY <1>1, <1>5, <1>6, <2>1 DEF Mild
<1>8. Onward
  BY <1>1, <1>5, <1>6 DEF Onward
<1>9. u \in Nat /\ ~ (u > array.made)
  <2>1. u \in Nat
    BY ArrayObjectsAssumption
  <2> QED
    BY <1>1, <2>1
<1>10. Obj(u)'
  <2>1. CASE Exists(u)
    <3>1. Fits(u)'
      <4>1. object[u].kind = "image" => object[u].name = None
        BY <1>1, <2>1 DEF SANtricityData
      <4> QED
        BY <1>1, <1>5, <1>6, <2>1, <4>1 DEF Fits
    <3>2. IsLarge(u, known.acked[u])'
      BY <1>5, <1>6, <2>1 DEF IsLarge
    <3>3. object[u].name # None =>
            /\ object[u].name \in Names /\ known.asked[object[u].name] # None
            /\ IsLarge(u, known.asked[object[u].name])'
      BY <1>1, <1>5, <1>6, <2>1 DEF Obj, IsLarge
    <3>4. u \in known'.gone => MayStay(u)'
      BY <1>1, <1>5, <1>6, <2>1 DEF Obj, MayStay
    <3> QED
      BY <1>2, <1>5, <1>6, <1>9, <2>1, <3>1, <3>2, <3>3, <3>4 DEF Obj
  <2>2. CASE ~ Exists(u)
    <3>1. ~ Trusted(u)' /\ ~ Exists(u)'
      BY <1>5, <1>6, <2>2 DEF Trusted
    <3> QED
      BY <1>6, <1>9, <3>1 DEF Obj
  <2> QED
    BY <2>1, <2>2
<1>11. ASSUME NEW w \in Ids
       PROVE  Obj(w)'
  <2>1. w # u => Untouched(w)
    BY <1>5, <1>6 DEF Untouched
  <2> QED
    BY <1>1, <1>8, <1>10, <2>1, ObjKept
<1>12. ASSUME NEW w \in Ids
       PROVE  SANtricityData(w)'
  <2>1. \A n : Young(w, n)' <=> Young(w, n)
    BY <1>5 DEF Young
  <2>2. SANtricityData(w)
    BY <1>1
  <2>3. CASE w # u
    BY <1>5, <1>6, <2>1, <2>2, <2>3 DEF SANtricityData, Young
  <2>4. CASE w = u
    BY <1>5, <1>6, <2>1, <2>2, <2>4 DEF SANtricityData, Young
  <2> QED
    BY <2>3, <2>4
<1>13. \A g \in Ids : GroupData(g)'
  BY <1>1, <1>5, <1>6 DEF GroupData
<1>14. SANtricityWorld'
  BY <1>1, <1>5, <1>6, <1>11, <1>12, <1>13 DEF SANtricityWorld, SANtricityApart, SANtricityArray, SinceInv
<1>15. RoleInv(t)' /\ SANtricityHand(t)' /\ ~ HasMade(t)'
  BY <1>5, FreedRole DEF SANtricityHand, HasMade, Makes, Creates
<1> QED
  BY <1>4, <1>7, <1>14, <1>15, SANtricityKeeps

LEMMA SANtricityFindKeeps ==
  ASSUME SANtricityInv, Locked', NEW t \in Threads, SANtricityFind(t)
  PROVE  SANtricityInv'
<1>1. PICK q : q = req[t]
  OBVIOUS
<1>2. /\ ObjectsInv /\ Creates(t) /\ pc[t] = "find" /\ local[t].mine = None /\ service = "santricity"
      /\ local[t] \in Memo({}) /\ array.made \in Nat /\ SinceInv /\ KnownInv /\ SANtricityArray
      /\ q.op \in CreateOps /\ q.name \in Names /\ known.asked[q.name] = q
      /\ q.op = "createSnapshot" => q.name \in SnapshotNames
  BY <1>1, SANtricityKnows, CreatorAsks DEF SANtricityFind, At, SANtricityHand
<1>3. PICK found : found = IF q.op = "createVolume" THEN Named(q.name)
                             ELSE {x \in ImagesOf(q.uid) : array.group[object[x].group].name = q.name}
  OBVIOUS
<1>4. CASE /\ Continue(t, IF q.op = "createVolume" THEN "create" ELSE "chooseGroup")
           /\ known' = IF q.op = "createSnapshot" /\ known.since[q.name] = None
                         THEN [known EXCEPT !.since[q.name] = array.made] ELSE known
           /\ NoFault /\ UNCHANGED <<array, memory>>
  <2>1. PICK to \in {"create", "chooseGroup"} :
          /\ to = IF q.op = "createVolume" THEN "create" ELSE "chooseGroup"
          /\ Proceed(t, to, local[t])
    BY <1>4 DEF Continue
  <2>2. /\ Alone(t) /\ pc'[t] = to /\ req'[t] = req[t] /\ local'[t] = local[t] /\ service' = service
        /\ Creates(t)' /\ ~ Deletes(t)' /\ ~ Expands(t)' /\ ~ Makes(t)'
    BY <1>2, <2>1, SANtricityProceeds DEF Creates, Deletes, Expands, CreateOps, DeleteOps, Makes
  <2>3. Notes /\ (q.op = "createSnapshot" => known'.since[q.name] # None)
    <3>1. CASE q.op = "createSnapshot" /\ known.since[q.name] = None
      <4>1. known' = [known EXCEPT !.since[q.name] = array.made] /\ known \in KnownObjects
        BY <1>2, <1>4, <3>1 DEF KnownInv
      <4>2. /\ known' \in KnownObjects /\ known'.acked = known.acked /\ known'.asked = known.asked
            /\ known'.deleting = known.deleting /\ known'.gone = known.gone /\ known'.yanked = known.yanked
            /\ known'.since[q.name] = array.made
            /\ \A n \in SnapshotNames : n # q.name => known'.since[n] = known.since[n]
        BY <1>2, <3>1, <4>1 DEF KnownObjects
      <4>3. array.made # None /\ array.made <= array.made
        BY <1>2, ArrayObjectsAssumption DEF SANtricityArray
      <4> QED
        BY <1>2, <3>1, <4>2, <4>3 DEF Notes, SinceInv
    <3>2. CASE ~ (q.op = "createSnapshot" /\ known.since[q.name] = None)
      BY <1>4, <3>2, SANtricityNotes
    <3> QED
      BY <3>1, <3>2
  <2>4. RoleInv(t)'
    BY <2>2 DEF RoleInv
  <2>5. SANtricityHand(t)'
    <3>1. pc'[t] = to /\ local'[t] \in Memo({}) /\ local'[t].mine = None /\ req'[t] = q /\ Creates(t)'
      BY <1>1, <1>2, <2>2
    <3>2. CASE to = "create"
      <4>1. q.op = "createVolume"
        BY <2>1, <3>2
      <4> QED
        BY <2>2, <3>1, <3>2, <4>1 DEF SANtricityHand, SANtricityPlace
    <3>3. CASE to = "chooseGroup"
      <4>1. q.op = "createSnapshot"
        BY <1>2, <2>1, <3>3 DEF CreateOps
      <4> QED
        BY <2>2, <2>3, <3>1, <3>3, <4>1 DEF SANtricityHand, SANtricityPlace
    <3> QED
      BY <3>2, <3>3
  <2> QED
    BY <1>4, <2>1, <2>2, <2>3, <2>4, <2>5, SANtricityGoesOn DEF NoFault, HasMade
<1>5. CASE Reject(t)
  BY <1>2, <1>5, SANtricityRejects
<1>6. ASSUME NEW u \in found, q.op = "createSnapshot" \/ Accepts(q, None, object[u].size),
             Report(t, u), NoFault, UNCHANGED <<array, memory>>
      PROVE  SANtricityInv'
  <2>1. u \in Ids /\ Exists(u)
    BY <1>2, <1>3, <1>6 DEF Named, ImagesOf
  <2>2. u <= array.made /\ SANtricityData(u) /\ object[u] \in SANtricityObject
    BY <2>1, SANtricityKnows, SANtricityHasTypes
  <2>3. CASE q.op = "createVolume"
    <3>1. object[u].name = q.name /\ Accepts(q, None, object[u].size)
      BY <1>3, <1>6, <2>3 DEF Named
    <3>2. object[u].kind # "image" /\ IsLarge(u, q)
      BY <1>2, <2>1, <2>2, <3>1, ArrayObjectsAssumption DEF SANtricityData, IsLarge, Accepts
    <3>3. ASSUME NEW w \in Threads \ {t}, Makes(w)
          PROVE  local[w].mine # u
      <4>1. pc[w] # "idle" /\ Creates(w) /\ SANtricityHand(w)
        BY <1>2, <3>3, SANtricityKnows DEF Makes, Creates, ObjectsInv, Locked
      <4>2. Exists(local[w].mine) => object[local[w].mine].name = req[w].name
        BY <3>3, <4>1 DEF SANtricityHand
      <4> QED
        BY <1>1, <1>2, <2>1, <3>1, <4>1, <4>2, MakersDiffer
    <3> QED
      BY <1>1, <1>2, <1>6, <2>1, <2>2, <2>3, <3>1, <3>2, <3>3, SANtricityReports
  <2>4. CASE q.op = "createSnapshot"
    <3>1. /\ object[u].kind = "image" /\ object[u].base = q.uid
          /\ array.group[object[u].group].name = q.name
      BY <1>3, <1>6, <2>4 DEF ImagesOf
    <3>2. Young(u, q.name)
      BY <2>1, <2>2, <3>1 DEF SANtricityData
    <3>3. ASSUME NEW w \in Threads \ {t}, Makes(w)
          PROVE  local[w].mine # u
      <4>1. pc[w] # "idle" /\ SANtricityHand(w)
        BY <1>2, <3>3, SANtricityKnows DEF Makes, Creates, ObjectsInv, Locked
      <4>2. Exists(local[w].mine) => object[local[w].mine].kind # "image"
        BY <3>3, <4>1 DEF SANtricityHand
      <4> QED
        BY <2>1, <3>1, <4>2
    <3> QED
      BY <1>1, <1>2, <1>6, <2>1, <2>2, <2>4, <3>1, <3>2, <3>3, SANtricityReports
  <2> QED
    BY <1>2, <2>3, <2>4 DEF CreateOps
<1> QED
  BY <1>1, <1>3, <1>4, <1>5, <1>6 DEF SANtricityFind


(* The next number belongs to nothing.                                     *)
LEMMA SANtricityFresh ==
  ASSUME SANtricityInv, NEW m, m = array.made + 1, m \in Ids
  PROVE  /\ m \in Nat /\ m > array.made /\ m # None /\ object[m] = None /\ ~ Exists(m)
         /\ known.acked[m] = None /\ m \notin known.deleting /\ m \notin known.gone
         /\ \A u \in Ids : u <= array.made => u # m
         /\ \A w \in Threads : HasMade(w) => local[w].mine # m
         /\ \A u \in Ids : Exists(u) => object[u].base # m
         /\ \A g \in Ids : array.group[g] # None => array.group[g].volume # m
<1>1. /\ array.made \in Nat /\ service = "santricity" /\ Obj(m) /\ Locked /\ SANtricityArray
      /\ \A u \in Ids : SANtricityData(u) /\ GroupData(u)
  BY SANtricityKnows
<1>2. m \in Nat /\ m > array.made /\ m # None
  BY <1>1, ArrayObjectsAssumption
<1>3. /\ object[m] = None /\ ~ Exists(m)
      /\ known.acked[m] = None /\ m \notin known.deleting /\ m \notin known.gone
  BY <1>1, <1>2 DEF Obj, Exists
<1>4. ASSUME NEW u \in Ids, u <= array.made
      PROVE  u # m
  BY <1>1, <1>2, <1>4, ArrayObjectsAssumption
<1>5. ASSUME NEW w \in Threads, HasMade(w)
      PROVE  local[w].mine # m
  <2>1. pc[w] # "idle" /\ SANtricityHand(w) /\ RoleInv(w)
    BY <1>1, <1>5, SANtricityKnows DEF HasMade, Makes, Creates, Locked
  <2>2. local[w].mine \in Ids /\ local[w].mine <= array.made
    BY <1>5, <2>1 DEF SANtricityHand, RoleInv, HasMade
  <2> QED
    BY <1>4, <2>2
<1>6. ASSUME NEW u \in Ids, Exists(u)
      PROVE  object[u].base # m
  <2>1. object[u].base \in Ids \union {None}
    BY <1>6, SANtricityHasTypes DEF SANtricityObject
  <2>2. object[u].base # None => object[u].base <= array.made
    BY <1>1, <1>6 DEF SANtricityData
  <2> QED
    BY <1>2, <1>4, <2>1, <2>2
<1>7. ASSUME NEW g \in Ids, array.group[g] # None
      PROVE  array.group[g].volume # m
  <2>1. array.group[g].volume \in Ids /\ Exists(array.group[g].volume)
    BY <1>1, <1>7 DEF SANtricityArray, SnapshotGroup, GroupData
  <2> QED
    BY <1>3, <2>1
<1> QED
  BY <1>2, <1>3, <1>4, <1>5, <1>6, <1>7

(* An object is made, and may be reported if it is no image.               *)
SANtricityNew(q, o) ==
  /\ o \in SANtricityObject
  /\ o.kind # "image" =>
       /\ q.op = "createVolume" /\ o.name = q.name /\ Named(q.name) = {} /\ o.group = None
       /\ o.base = None \/ (o.base = q.uid /\ Exists(q.uid))
       /\ o.kind = "view" => o.base = q.uid
       /\ q.uid = None => o.size >= q.size
  /\ o.kind = "image" =>
       /\ q.op = "createSnapshot" /\ o.name = None /\ o.group \in Ids /\ array.group[o.group] # None
       /\ o.base = array.group[o.group].volume /\ o.base = q.uid

SANtricityAdding(t, m, q, o) ==
  /\ Creates(t) /\ m = array.made + 1 /\ m \in Ids /\ q = req[t] /\ SANtricityNew(q, o)
  /\ array' = [array EXCEPT !.made = m, !.object[m] = o] /\ UNCHANGED <<memory, failures, service>>
  /\ known'.asked = known.asked /\ known'.deleting = known.deleting /\ known'.gone = known.gone
  /\ known'.yanked = known.yanked /\ known'.since = known.since
  /\ \A u \in Ids : u # m => known'.acked[u] = known.acked[u]
  /\ known'.acked[m] = None \/ (known'.acked[m] = q /\ o.kind # "image")

LEMMA SANtricityAdds ==
  ASSUME SANtricityInv, NEW t \in Threads, NEW m, NEW q, NEW o, SANtricityAdding(t, m, q, o)
  PROVE  /\ SANtricityWorld' /\ Mild(t)
         /\ object'[m] = o /\ Exists(m)' /\ array'.made = m /\ array'.group = array.group
         /\ array'.groups = array.groups
         /\ \A u \in Ids : u # m => object'[u] = object[u] /\ (Exists(u)' <=> Exists(u))
<1> USE DEF SANtricityAdding
<1>1. /\ failures \in Nat /\ array.made \in Nat /\ array.groups \in Nat
      /\ service = "santricity" /\ memory = <<>> /\ ObjectsInv
      /\ (\A u \in Ids : Obj(u) /\ SANtricityData(u)) /\ (\A g \in Ids : GroupData(g))
      /\ SANtricityApart /\ SANtricityArray /\ SinceInv
      /\ known.yanked # {} => known.deleting # {}
  BY SANtricityKnows DEF SANtricityWorld
<1>2. /\ m \in Nat /\ m > array.made /\ m # None /\ object[m] = None /\ ~ Exists(m)
      /\ known.acked[m] = None /\ m \notin known.deleting /\ m \notin known.gone
      /\ \A u \in Ids : u <= array.made => u # m
  BY SANtricityFresh
<1>3. o \in SANtricityObject /\ o # None
  BY SANtricityAssumption DEF SANtricityNew
<1>4. /\ array'.object = [array.object EXCEPT ![m] = o] /\ array'.made = m
      /\ array'.group = array.group /\ array'.groups = array.groups
      /\ [array.object EXCEPT ![m] = o] \in [Ids -> SANtricityObject \union {None}]
  BY <1>1, <1>3 DEF SANtricityArray
<1>5. /\ object'[m] = o
      /\ \A u \in Ids : u # m => object'[u] = object[u]
  BY <1>1, <1>4 DEF SANtricityArray, object
<1>6. /\ Exists(m)'
      /\ \A u \in Ids : u # m => (Exists(u)' <=> Exists(u))
  BY <1>2, <1>3, <1>5 DEF Exists, object
<1>7. SANtricityArray'
  BY <1>1, <1>4 DEF SANtricityArray
<1>8. /\ q.name \in Names /\ known.asked[q.name] = q /\ q # None /\ q.name # None
      /\ q.op = "createSnapshot" => q.name \in SnapshotNames
  BY <1>1, CreatorAsks, ArrayObjectsAssumption
<1>9. array.made <= array'.made /\ array'.made \in Nat
  BY <1>1, <1>2, <1>4
<1>10. Onward
  BY <1>1, <1>9 DEF Onward
<1>11. Obj(m)'
  <2>1. IsLarge(m, q)'
    BY <1>5 DEF IsLarge, SANtricityNew, object
  <2>2. known'.acked[m] # None => Fits(m)' /\ IsLarge(m, known.acked[m])'
    BY <1>1, <1>5, <2>1 DEF Fits, SANtricityNew, object, IsLarge
  <2>3. object'[m].name # None =>
          /\ object'[m].name \in Names /\ known'.asked[object'[m].name] # None
          /\ IsLarge(m, known.asked[object[m].name])'
    BY <1>5, <1>8, <2>1 DEF SANtricityNew, object, IsLarge, SANtricityObject
  <2>4. ~ (m > array'.made) /\ m \notin known'.gone
    BY <1>2, <1>4
  <2> QED
    BY <1>1, <1>3, <1>5, <1>6, <2>2, <2>3, <2>4 DEF Obj, object
<1>12. ASSUME NEW u \in Ids
       PROVE  Obj(u)'
  <2>1. u # m => Untouched(u)
    BY <1>5 DEF Untouched
  <2> QED
    BY <1>1, <1>10, <1>11, <2>1, ObjKept
<1>13. ASSUME NEW u \in Ids, u # m
       PROVE  SANtricityData(u)'
  <2>1. SANtricityData(u) /\ object'[u] = object[u] /\ (Exists(u)' <=> Exists(u)) /\ known'.acked[u] = known.acked[u]
    BY <1>1, <1>5, <1>6, <1>13
  <2>2. \A n : Young(u, n)' <=> Young(u, n)
    BY DEF Young
  <2>3. Exists(u) /\ object[u].base # None => object[u].base <= array'.made
    <3>1. Exists(u) => object[u].base \in Ids \union {None}
      BY SANtricityHasTypes DEF SANtricityObject
    <3>2. Exists(u) /\ object[u].base # None => object[u].base \in Nat /\ object[u].base <= array.made
      BY <2>1, <3>1, ArrayObjectsAssumption DEF SANtricityData
    <3> QED
      BY <1>1, <1>9, <3>2
  <2> QED
    BY <1>4, <2>1, <2>2, <2>3 DEF SANtricityData, object, Young
<1>14. SANtricityData(m)'
  <2>1. o.base # None => o.base <= array'.made
    <3>1. CASE o.kind # "image"
      <4>1. o.base # None => o.base \in Ids /\ Exists(o.base)
        BY <1>3, <3>1 DEF SANtricityNew, SANtricityObject
      <4>2. o.base # None => o.base \in Nat /\ o.base <= array.made
        BY <4>1, SANtricityHasTypes
      <4> QED
        BY <1>1, <1>9, <4>2
    <3>2. CASE o.kind = "image"
      <4>1. o.base \in Ids /\ Exists(o.base)
        BY <1>1, <3>2 DEF SANtricityNew, GroupData, SANtricityArray, SnapshotGroup
      <4>2. o.base \in Nat /\ o.base <= array.made
        BY <4>1, SANtricityHasTypes
      <4> QED
        BY <1>1, <1>9, <4>2
    <3> QED
      BY <3>1, <3>2
  <2>2. CASE o.kind # "image"
    BY <1>5, <1>8, <2>1, <2>2 DEF SANtricityData, SANtricityNew, object
  <2>3. CASE o.kind = "image"
    <3>1. PICK n : n = array.group[o.group].name
      OBVIOUS
    <3>2. /\ known.since[n] # None /\ n \in SnapshotNames /\ o.group \in Ids /\ o.group # None
          /\ array.group[o.group] # None
      BY <1>1, <2>3, <3>1, ArrayObjectsAssumption
         DEF SANtricityNew, GroupData, SANtricityArray, SnapshotGroup
    <3>3. known.since[n] \in Nat /\ known.since[n] <= array.made
      BY <1>1, <3>2 DEF SinceInv, ObjectsInv, KnownInv, KnownObjects
    <3>4. m > known.since[n]
      BY <1>1, <1>2, <3>3
    <3>5. Young(m, n)'
      BY <3>2, <3>4 DEF Young
    <3>6. known'.acked[m] = None
      BY <2>3
    <3>7. o.name = None /\ o.base = array.group[o.group].volume
      BY <2>3 DEF SANtricityNew
    <3> QED
      BY <1>4, <1>5, <2>1, <2>3, <3>1, <3>2, <3>5, <3>6, <3>7 DEF SANtricityData, object, Young
  <2> QED
    BY <2>2, <2>3
<1>15. ASSUME NEW g \in Ids
       PROVE  GroupData(g)'
  <2>1. SUFFICES ASSUME array.group[g] # None
                 PROVE  GroupData(g)'
    BY <1>4 DEF GroupData
  <2>2. PICK v : v = array.group[g].volume
    OBVIOUS
  <2>3. /\ v \in Ids /\ Exists(v) /\ object[v].kind = "volume"
        /\ g <= array.groups /\ known.since[array.group[g].name] # None
    BY <1>1, <2>1, <2>2 DEF SANtricityArray, SnapshotGroup, GroupData
  <2>4. Exists(v)' /\ (object[v])' = object[v]
    BY <1>2, <1>5, <1>6, <2>3 DEF object
  <2>5. (array.group[g].volume)' = v
    BY <1>4, <2>2
  <2> QED
    BY <1>4, <2>3, <2>4, <2>5 DEF GroupData
<1>16. SANtricityApart'
  <2>1. ASSUME NEW u \in Ids, Exists(u), u # m, o.name # None
        PROVE  object[u].name # o.name
    <3>1. o.kind # "image"
      BY <2>1 DEF SANtricityNew
    <3> QED
      BY <2>1, <3>1 DEF SANtricityNew, Named
  <2>2. ASSUME NEW u \in Ids, NEW w \in Ids, Exists(u)', Exists(w)',
               object'[u].name = object'[w].name, object'[u].name # None
        PROVE  u = w
    <3>1. CASE u # m /\ w # m
      BY <1>1, <1>5, <1>6, <2>2, <3>1 DEF SANtricityApart
    <3>2. CASE u = m /\ w # m
      BY <1>5, <1>6, <2>1, <2>2, <3>2
    <3>3. CASE u # m /\ w = m
      BY <1>5, <1>6, <2>1, <2>2, <3>3
    <3> QED
      BY <3>1, <3>2, <3>3
  <2> QED
    BY <2>2 DEF SANtricityApart, object
<1>17. SinceInv'
  <2>1. \A n \in SnapshotNames : known.since[n] # None => known.since[n] \in Nat /\ known.since[n] <= array.made
    BY <1>1 DEF SinceInv, ObjectsInv, KnownInv, KnownObjects
  <2>2. \A n \in SnapshotNames : known.since[n] # None => known.since[n] <= array'.made
    BY <1>1, <1>9, <2>1
  <2> QED
    BY <2>2 DEF SinceInv
<1>18. SANtricityWorld'
  BY <1>1, <1>7, <1>12, <1>13, <1>14, <1>15, <1>16, <1>17 DEF SANtricityWorld
<1>19. Mild(t)
  <2>1. Appears(t, m)
    <3>1. o.base = None \/ o.base = req[t].uid
      BY DEF SANtricityNew
    <3> QED
      BY <1>2, <1>3, <1>5, <3>1 DEF Appears
  <2>2. \A u \in Ids : object'[u] = object[u] \/ Appears(t, u)
    BY <1>5, <2>1
  <2>3. \A u \in Ids : known.acked[u] = None /\ known'.acked[u] # None => u > array.made
    BY <1>2
  <2> QED
    BY <1>1, <1>4, <1>9, <2>2, <2>3 DEF Mild
<1> QED
  BY <1>4, <1>5, <1>6, <1>18, <1>19

LEMMA SANtricityCreateKeeps ==
  ASSUME SANtricityInv, Locked', NEW t \in Threads, SANtricityCreate(t)
  PROVE  SANtricityInv'
<1>1. PICK q, m : q = req[t] /\ m = array.made + 1
  OBVIOUS
<1>2. /\ ObjectsInv /\ Creates(t) /\ pc[t] \in {"create", "createAgain"} /\ local[t].mine = None
      /\ service = "santricity" /\ local[t] \in Memo({}) /\ SourceInv(t) /\ array.made \in Nat
      /\ q.op = "createVolume" /\ Asks(q.name, q) /\ known.asked[q.name] = q
      /\ q.name \in VolumeNames /\ q.name \in Names /\ q.size \in Sizes
  BY <1>1, SANtricityKnows, CreatorAsks DEF SANtricityCreate, SANtricityHand
<1>3. CASE Reject(t)
  BY <1>2, <1>3, SANtricityRejects
<1>4. PICK isView \in BOOLEAN : isView <=> q.from = "snapshot"
  OBVIOUS
<1>5. PICK o : o = [kind |-> IF isView THEN "view" ELSE "volume", name |-> q.name,
                    size |-> IF isView THEN object[q.uid].size ELSE q.size,
                    base |-> IF isView THEN q.uid ELSE None, group |-> None]
  OBVIOUS
<1>6. ASSUME m \in Ids, Named(q.name) = {}, isView => Exists(q.uid),
             array' = [array EXCEPT !.made = m, !.object[m] = o],
             \/ IsCopy(t) /\ Proceed(t, "copySource", [local[t] EXCEPT !.mine = m]) /\ UNCHANGED known
             \/ ~ IsCopy(t) /\ Report(t, m),
             NoFault, UNCHANGED memory
      PROVE  SANtricityInv'
  <2>1. isView => q.uid \in Ids /\ object[q.uid].size \in Sizes
    <3>1. isView => q.uid \in Ids
      BY <1>2, <1>4, ArrayObjectsAssumption DEF Asks, Request
    <3> QED
      BY <1>6, <3>1, SANtricityHasTypes DEF SANtricityObject
  <2>2. SANtricityNew(q, o)
    <3>1. o \in SANtricityObject
      BY <1>2, <1>5, <2>1 DEF SANtricityObject
    <3>2. q.uid = None => ~ isView /\ o.size >= q.size
      <4>1. q.uid = None => ~ isView
        BY <1>2, <1>4, ArrayObjectsAssumption DEF Asks
      <4> QED
        BY <1>2, <1>5, <4>1, ArrayObjectsAssumption
    <3>3. /\ o.kind = (IF isView THEN "view" ELSE "volume") /\ o.name = q.name /\ o.group = None
          /\ o.base = IF isView THEN q.uid ELSE None
      BY <1>5
    <3> QED
      BY <1>2, <1>6, <3>1, <3>2, <3>3 DEF SANtricityNew
  <2>3. /\ o.kind = (IF isView THEN "view" ELSE "volume") /\ o.name = q.name
        /\ service' = service /\ failures' = failures
    BY <1>5, <1>6 DEF NoFault, Proceed, Report, Return
  <2>4. /\ m \in Nat /\ m # None /\ known.acked[m] = None /\ m \notin known.deleting
        /\ \A w \in Threads : HasMade(w) => local[w].mine # m
        /\ \A u \in Ids : Exists(u) => object[u].base # m
        /\ \A g \in Ids : array.group[g] # None => array.group[g].volume # m
    BY <1>1, <1>6, SANtricityFresh
  <2>5. CASE IsCopy(t) /\ Proceed(t, "copySource", [local[t] EXCEPT !.mine = m]) /\ UNCHANGED known
    <3>1. PICK memo : memo = [local[t] EXCEPT !.mine = m]
      OBVIOUS
    <3>2. memo \in Memo({}) /\ memo.mine = m
      BY <1>2, <1>6, <3>1 DEF Memo
    <3>3. /\ Alone(t) /\ pc'[t] = "copySource" /\ req'[t] = q /\ local'[t] = memo
          /\ Creates(t)' /\ ~ Deletes(t)' /\ ~ Expands(t)' /\ IsCopy(t)'
      BY <1>1, <1>2, <2>5, <3>1, SANtricityProceeds DEF Creates, Deletes, Expands, CreateOps, DeleteOps
    <3>4. /\ SANtricityWorld' /\ Mild(t)
          /\ object'[m] = o /\ Exists(m)' /\ array'.made = m /\ array'.group = array.group
          /\ \A u \in Ids : u # m => object'[u] = object[u] /\ (Exists(u)' <=> Exists(u))
      <4>1. /\ known'.asked = known.asked /\ known'.deleting = known.deleting /\ known'.gone = known.gone
            /\ known'.yanked = known.yanked /\ known'.since = known.since /\ known'.acked = known.acked
        BY <2>5
      <4>2. UNCHANGED <<memory, failures, service>> /\ m \in Ids
        BY <1>6, <2>3
      <4>3. array' = [array EXCEPT !.made = m, !.object[m] = o]
        BY <1>6
      <4>4. SANtricityAdding(t, m, q, o)
        BY <1>1, <1>2, <2>2, <2>4, <4>1, <4>2, <4>3 DEF SANtricityAdding
      <4> QED
        BY <4>4, SANtricityAdds
    <3>5. Makes(t)'
      BY <2>4, <3>2, <3>3 DEF Makes
    <3>6. RoleInv(t)'
      BY <1>6, <2>4, <2>5, <3>2, <3>3 DEF RoleInv
    <3>7. Careful(t)
      BY <1>1, <1>2, <2>3, <2>5, <3>3, SilentCareful
    <3>8. \A u \in Ids : Exists(u)' => (object[u].base)' # m
      <4>1. o.base # m
        <5>1. isView => q.uid # m
          BY <1>6, <2>1, <2>4, <1>1, SANtricityFresh
        <5> QED
          BY <1>5, <2>4, <5>1
      <4> QED
        BY <2>4, <3>4, <4>1 DEF object
    <3>9. SANtricityHand(t)'
      <4>1. m <= array'.made
        BY <2>4, <3>4
      <4>2. \A g \in Ids : array'.group[g] # None => array'.group[g].volume # m
        BY <2>4, <3>4
      <4>3. (object[m])' = o
        BY <3>4 DEF object
      <4> QED
        BY <1>4, <2>3, <3>2, <3>3, <3>4, <3>5, <3>8, <4>1, <4>2, <4>3 DEF SANtricityHand, SANtricityPlace
    <3>10. HasMade(t)' => \A w \in Threads \ {t} : HasMade(w) => local[w].mine # local'[t].mine
      BY <2>4, <3>2, <3>3
    <3> QED
      BY <3>4, <3>6, <3>7, <3>9, <3>10, SANtricityKeeps
  <2>6. CASE Report(t, m)
    <3>1. Careful(t)
      BY <1>2, <1>6, <2>4, <2>6, ReportCareful DEF HasMade
    <3>2. /\ known'.asked = known.asked /\ known'.deleting = known.deleting /\ known'.gone = known.gone
          /\ known'.yanked = known.yanked /\ known'.since = known.since
          /\ \A u \in Ids : u # m => known'.acked[u] = known.acked[u]
          /\ known'.acked[m] = q /\ o.kind # "image" /\ req'[t] = None /\ pc'[t] = "idle"
      BY <1>1, <1>2, <1>6, <2>3, <2>6, ReportTells
    <3>3. SANtricityWorld' /\ Mild(t)
      <4>1. UNCHANGED <<memory, failures, service>> /\ m \in Ids
        BY <1>6, <2>3
      <4>2. array' = [array EXCEPT !.made = m, !.object[m] = o]
        BY <1>6
      <4>3. SANtricityAdding(t, m, q, o)
        BY <1>1, <1>2, <2>2, <3>2, <4>1, <4>2 DEF SANtricityAdding
      <4> QED
        BY <4>3, SANtricityAdds
    <3>4. RoleInv(t)' /\ SANtricityHand(t)' /\ ~ HasMade(t)'
      BY <3>2, FreedRole DEF SANtricityHand, HasMade, Makes, Creates
    <3> QED
      BY <3>1, <3>3, <3>4, SANtricityKeeps
  <2> QED
    BY <1>6, <2>5, <2>6
<1> QED
  BY <1>1, <1>3, <1>4, <1>5, <1>6 DEF SANtricityCreate, Add, Made

(* A roll-back begins, or tries again.                                     *)
LEMMA SANtricityTries ==
  ASSUME SANtricityInv, Locked', NEW t \in Threads, pc[t] # "idle", Makes(t),
         NEW k \in Nat, Proceed(t, "look", [local[t] EXCEPT !.tries = k]),
         UNCHANGED <<array, memory, known>>, failures' \in {failures, failures + 1}
  PROVE  SANtricityInv'
<1>1. PICK memo : memo = [local[t] EXCEPT !.tries = k]
  OBVIOUS
<1>2. /\ SANtricityHand(t) /\ RoleInv(t) /\ local[t] \in Memo({}) /\ Creates(t)
  BY SANtricityKnows DEF SANtricityHand, Makes
<1>3. memo \in Memo({}) /\ memo.mine = local[t].mine
  BY <1>1, <1>2 DEF Memo
<1>4. /\ Alone(t) /\ pc'[t] = "look" /\ req'[t] = req[t] /\ local'[t] = memo /\ service' = service
      /\ Creates(t)' /\ ~ Deletes(t)' /\ ~ Expands(t)' /\ (IsCopy(t)' <=> IsCopy(t))
  BY <1>1, <1>2, SANtricityProceeds DEF Creates, Deletes, Expands, CreateOps, DeleteOps
<1>5. Makes(t)' /\ HasMade(t)
  BY <1>3, <1>4 DEF Makes, HasMade
<1>6. RoleInv(t)'
  BY <1>2, <1>3, <1>4 DEF RoleInv
<1>7. SANtricityHand(t)'
  <2>1. object' = object /\ \A u : Exists(u)' <=> Exists(u)
    BY DEF object, Exists
  <2>2. (object[local[t].mine])' = object[local[t].mine] /\ (Exists(local[t].mine)' <=> Exists(local[t].mine))
    BY <1>3, <1>4, <2>1 DEF object, Exists
  <2> QED
    BY <1>2, <1>3, <1>4, <1>5, <2>1, <2>2 DEF SANtricityHand, SANtricityPlace
<1> QED
  BY <1>3, <1>4, <1>5, <1>6, <1>7, SANtricityNotes, SANtricityGoesOn

LEMMA SANtricityCopySourceKeeps ==
  ASSUME SANtricityInv, Locked', NEW t \in Threads, SANtricityCopySource(t)
  PROVE  SANtricityInv'
<1>1. PICK q, m : q = req[t] /\ m = local[t].mine
  OBVIOUS
<1>2. /\ pc[t] = "copySource" /\ Makes(t) /\ Creates(t) /\ ObjectsInv /\ SANtricityHand(t) /\ RoleInv(t)
      /\ IsCopy(t) /\ service = "santricity"
  BY SANtricityKnows DEF SANtricityCopySource, At, SANtricityHand, Makes
<1>3. CASE RollBack(t, "look") /\ NoFault /\ UNCHANGED <<array, memory, known>>
  BY <1>2, <1>3, SANtricityTries, ArrayObjectsAssumption DEF RollBack, NoFault
<1>4. CASE Exists(q.uid) /\ Report(t, m) /\ NoFault /\ UNCHANGED <<array, memory>>
  <2>1. /\ m \in Ids /\ m <= array.made /\ Exists(m) /\ object[m].name = q.name
        /\ object[m].kind # "image" /\ q.op = "createVolume" /\ q.uid # None
    BY <1>1, <1>2, <1>4 DEF SANtricityHand, RoleInv, IsCopy
  <2>2. IsLarge(m, q)
    BY <2>1 DEF IsLarge
  <2>3. \A w \in Threads \ {t} : Makes(w) => local[w].mine # m
    BY <1>1, <1>2, SANtricityKnows DEF SANtricityMade, HasMade
  <2> QED
    BY <1>1, <1>2, <1>4, <2>1, <2>2, <2>3, SANtricityReports
<1> QED
  BY <1>1, <1>3, <1>4 DEF SANtricityCopySource, CopySource

LEMMA SANtricityChooseGroupKeeps ==
  ASSUME SANtricityInv, Locked', NEW t \in Threads, SANtricityChooseGroup(t)
  PROVE  SANtricityInv'
<1>1. PICK q, v, g : q = req[t] /\ v = q.uid /\ g = array.groups + 1
  OBVIOUS
<1>2. /\ ObjectsInv /\ Creates(t) /\ pc[t] = "chooseGroup" /\ local[t].mine = None
      /\ service = "santricity" /\ local[t] \in Memo({}) /\ array.made \in Nat /\ array.groups \in Nat
      /\ q.op = "createSnapshot" /\ v \in Ids /\ q.name \in SnapshotNames /\ known.since[q.name] # None
      /\ SANtricityArray /\ SANtricityApart /\ SinceInv /\ failures \in Nat /\ memory = <<>>
      /\ (\A u \in Ids : Obj(u) /\ SANtricityData(u)) /\ (\A x \in Ids : GroupData(x))
      /\ known.yanked # {} => known.deleting # {}
  BY <1>1, SANtricityKnows, CreatorAsks DEF SANtricityChooseGroup, At, SANtricityHand, SANtricityWorld
<1>3. CASE Reject(t)
  BY <1>2, <1>3, SANtricityRejects
<1>4. ASSUME NEW x \in Ids, Proceed(t, "createImage", [local[t] EXCEPT !.others = {x}])
      PROVE  /\ Alone(t) /\ pc'[t] = "createImage" /\ req'[t] = req[t] /\ service' = service
             /\ RoleInv(t)' /\ ~ HasMade(t)'
             /\ UNCHANGED <<known, array>> \/ (known' = known /\ array'.object = array.object) =>
                  (x <= array'.groups /\ (array'.group[x] # None => array'.group[x].volume = v) =>
                     SANtricityHand(t)')
  <2>1. PICK memo : memo = [local[t] EXCEPT !.others = {x}]
    OBVIOUS
  <2>2. memo \in Memo({}) /\ memo.mine = None /\ memo.others = {x}
    BY <1>2, <2>1 DEF Memo
  <2>3. /\ Alone(t) /\ pc'[t] = "createImage" /\ req'[t] = req[t] /\ local'[t] = memo /\ service' = service
        /\ Creates(t)' /\ ~ Deletes(t)' /\ ~ Expands(t)'
    BY <1>2, <1>4, <2>1, SANtricityProceeds DEF Creates, Deletes, Expands, CreateOps, DeleteOps
  <2>4. ~ Makes(t)' /\ ~ HasMade(t)' /\ RoleInv(t)'
    BY <2>2, <2>3 DEF Makes, HasMade, RoleInv
  <2>5. known' = known /\ x <= array'.groups /\ (array'.group[x] # None => array'.group[x].volume = v) =>
          SANtricityHand(t)'
    BY <1>1, <1>2, <2>2, <2>3, <2>4 DEF SANtricityHand, SANtricityPlace
  <2> QED
    BY <2>3, <2>4, <2>5
<1>5. ASSUME NEW x \in GroupsOf(v), Proceed(t, "createImage", [local[t] EXCEPT !.others = {x}]),
             NoFault, UNCHANGED <<array, memory, known>>
      PROVE  SANtricityInv'
  <2>1. x \in Ids /\ array.group[x] # None /\ array.group[x].volume = v /\ x <= array.groups
    BY <1>2 DEF GroupsOf, GroupData
  <2>2. /\ Alone(t) /\ req'[t] = req[t] /\ service' = service
        /\ RoleInv(t)' /\ ~ HasMade(t)' /\ SANtricityHand(t)'
    BY <1>4, <1>5, <2>1
  <2> QED
    BY <1>5, <2>2, SANtricityNotes, SANtricityGoesOn DEF NoFault
<1>6. ASSUME Exists(v), object[v].kind = "volume", g \in Ids,
             array' = [array EXCEPT !.groups = g, !.group[g] = [volume |-> v, name |-> q.name]],
             Proceed(t, "createImage", [local[t] EXCEPT !.others = {g}]),
             NoFault, UNCHANGED <<memory, known>>
      PROVE  SANtricityInv'
  <2>1. PICK new \in SnapshotGroup : new = [volume |-> v, name |-> q.name]
    BY <1>2 DEF SnapshotGroup
  <2>2. new # None /\ new.volume = v /\ new.name = q.name
    BY <2>1, SANtricityAssumption
  <2>3. /\ array'.object = array.object /\ array'.made = array.made /\ array'.groups = g
        /\ array'.group = [array.group EXCEPT ![g] = new]
        /\ [array.group EXCEPT ![g] = new] \in [Ids -> SnapshotGroup \union {None}]
    BY <1>2, <1>6, <2>1 DEF SANtricityArray
  <2>4. /\ array'.group[g] = new
        /\ \A x \in Ids : x # g => array'.group[x] = array.group[x]
    BY <1>2, <1>6, <2>3 DEF SANtricityArray
  <2>5. SANtricityArray'
    BY <1>2, <1>6, <2>3 DEF SANtricityArray
  <2>6. g \in Nat /\ g > array.groups /\ array.groups <= g /\ ~ (g <= array.groups)
    BY <1>1, <1>2
  <2>7. array.group[g] = None
    BY <1>2, <1>6, <2>6 DEF GroupData
  <2>8. object' = object /\ (\A u : Exists(u)' <=> Exists(u)) /\ known' = known /\ failures' = failures
    BY <1>6, <2>3 DEF object, Exists, NoFault
  <2>9. /\ Alone(t) /\ req'[t] = req[t] /\ service' = service
        /\ RoleInv(t)' /\ ~ HasMade(t)' /\ SANtricityHand(t)'
    <3>1. g <= array'.groups /\ (array'.group[g] # None => array'.group[g].volume = v)
      BY <2>2, <2>3, <2>4, <2>6
    <3> QED
      BY <1>4, <1>6, <2>3, <3>1
  <2>10. Careful(t)
    BY <1>2, <2>8, <2>9, SilentCareful
  <2>11. Mild(t)
    <3>1. array'.group[g].volume = req[t].uid
      BY <1>1, <2>2, <2>4
    <3>2. \A x \in Ids : array'.group[x] # None =>
            \/ array'.group[x] = array.group[x]
            \/ x > array.groups /\ Creates(t) /\ array'.group[x].volume = req[t].uid
      BY <1>2, <2>4, <2>6, <3>1
    <3>3. array'.made \in Nat /\ array.made <= array'.made /\ array'.groups \in Nat /\ array.groups <= array'.groups
      BY <1>2, <2>3, <2>6
    <3> QED
      BY <2>8, <3>2, <3>3 DEF Mild
  <2>12. Onward
    BY <1>2, <2>3, <2>8, <2>9 DEF Onward
  <2>13. \A u \in Ids : Obj(u)'
    BY <1>2, <2>8, <2>12, ObjKept DEF Untouched
  <2>14. ASSUME NEW u \in Ids
         PROVE  SANtricityData(u)'
    <3>1. SANtricityData(u)
      BY <1>2
    <3>2. ASSUME Exists(u), object[u].kind = "image"
          PROVE  array'.group[object[u].group] = array.group[object[u].group]
      <4>1. object[u].group \in Ids /\ object[u].group # g
        BY <2>7, <3>1, <3>2, SANtricityHasTypes DEF SANtricityData, SANtricityObject
      <4> QED
        BY <2>4, <4>1
    <3> QED
      BY <2>3, <2>8, <3>1, <3>2 DEF SANtricityData, Young
  <2>15. ASSUME NEW x \in Ids
         PROVE  GroupData(x)'
    <3>1. CASE x = g
      BY <1>2, <1>6, <2>2, <2>3, <2>4, <2>6, <2>8, <3>1 DEF GroupData
    <3>2. CASE x # g
      <4>1. array.group[x] # None => x <= g
        <5>1. x \in Nat
          BY ArrayObjectsAssumption
        <5> QED
          BY <1>2, <2>6, <5>1 DEF GroupData
      <4> QED
        BY <1>2, <2>3, <2>4, <2>8, <3>2, <4>1 DEF GroupData
    <3> QED
      BY <3>1, <3>2
  <2>16. SANtricityWorld'
    BY <1>2, <1>6, <2>3, <2>5, <2>8, <2>13, <2>14, <2>15 DEF SANtricityWorld, SANtricityApart, SinceInv
  <2> QED
    BY <2>9, <2>10, <2>11, <2>16, SANtricityKeeps
<1> QED
  BY <1>1, <1>3, <1>5, <1>6 DEF SANtricityChooseGroup

LEMMA SANtricityCreateImageKeeps ==
  ASSUME SANtricityInv, Locked', NEW t \in Threads, SANtricityCreateImage(t)
  PROVE  SANtricityInv'
<1>1. PICK q, m : q = req[t] /\ m = array.made + 1
  OBVIOUS
<1>2. /\ ObjectsInv /\ Creates(t) /\ pc[t] = "createImage" /\ local[t].mine = None
      /\ service = "santricity" /\ local[t] \in Memo({}) /\ array.made \in Nat /\ array.groups \in Nat
      /\ q.op = "createSnapshot" /\ q.name \in SnapshotNames /\ known.since[q.name] # None
      /\ SANtricityArray /\ SinceInv /\ KnownInv
      /\ \A g \in local[t].others : array.group[g] # None => array.group[g].volume = q.uid
  BY <1>1, SANtricityKnows, CreatorAsks DEF SANtricityCreateImage, At, SANtricityHand
<1>3. CASE Reject(t)
  BY <1>2, <1>3, SANtricityRejects
<1>4. ASSUME NEW g \in local[t].others, array.group[g] # None, m \in Ids,
             Add([kind |-> "image", name |-> None, size |-> object[array.group[g].volume].size,
                  base |-> array.group[g].volume, group |-> g]),
             Proceed(t, "newest", [local[t] EXCEPT !.mine = m]), NoFault, UNCHANGED <<memory, known>>
      PROVE  SANtricityInv'
  <2>1. PICK o : o = [kind |-> "image", name |-> None, size |-> object[array.group[g].volume].size,
                      base |-> array.group[g].volume, group |-> g]
    OBVIOUS
  <2>2. g \in Ids /\ array.group[g].volume = q.uid
    BY <1>2, <1>4 DEF Memo
  <2>3. array.group[g].volume \in Ids /\ object[array.group[g].volume].size \in Sizes
    <3>1. array.group[g].volume \in Ids /\ Exists(array.group[g].volume)
      BY <1>2, <1>4, <2>2, SANtricityKnows DEF SANtricityArray, SnapshotGroup, GroupData
    <3> QED
      BY <3>1, SANtricityHasTypes DEF SANtricityObject
  <2>4. SANtricityNew(q, o) /\ o.kind = "image" /\ o.base = q.uid
    BY <1>2, <1>4, <2>1, <2>2, <2>3 DEF SANtricityNew, SANtricityObject
  <2>5. /\ m \in Nat /\ m > array.made /\ m # None /\ known.acked[m] = None
        /\ \A w \in Threads : HasMade(w) => local[w].mine # m
    BY <1>1, <1>4, SANtricityFresh
  <2>6. known' = known /\ memory' = memory /\ failures' = failures /\ service' = service
    BY <1>4 DEF NoFault, Proceed
  <2>7. SANtricityAdding(t, m, q, o)
    <3>1. array' = [array EXCEPT !.made = m, !.object[m] = o]
      BY <1>1, <1>4, <2>1 DEF Add, Made
    <3> QED
      BY <1>1, <1>2, <1>4, <2>4, <2>5, <2>6, <3>1 DEF SANtricityAdding
  <2>8. /\ SANtricityWorld' /\ Mild(t)
        /\ object'[m] = o /\ Exists(m)' /\ array'.made = m
    BY <2>7, SANtricityAdds
  <2>9. PICK memo : memo = [local[t] EXCEPT !.mine = m]
    OBVIOUS
  <2>10. memo \in Memo({}) /\ memo.mine = m
    BY <1>2, <1>4, <2>9 DEF Memo
  <2>11. /\ Alone(t) /\ pc'[t] = "newest" /\ req'[t] = q /\ local'[t] = memo
         /\ Creates(t)' /\ ~ Deletes(t)' /\ ~ Expands(t)' /\ ~ Makes(t)'
    BY <1>1, <1>2, <1>4, <2>9, SANtricityProceeds DEF Creates, Deletes, Expands, CreateOps, DeleteOps, Makes
  <2>12. RoleInv(t)'
    BY <2>11 DEF RoleInv
  <2>13. Careful(t)
    BY <1>1, <1>2, <2>6, <2>11, SilentCareful
  <2>14. Young(m, q.name)
    <3>1. known.since[q.name] \in Nat /\ known.since[q.name] <= array.made
      BY <1>2 DEF SinceInv, KnownInv, KnownObjects
    <3> QED
      BY <1>2, <2>5, <3>1 DEF Young
  <2>15. SANtricityHand(t)'
    <3>1. m <= array'.made /\ (object[m])' = o
      BY <2>5, <2>8 DEF object
    <3> QED
      BY <1>2, <1>4, <2>4, <2>5, <2>6, <2>8, <2>10, <2>11, <2>14, <3>1
         DEF SANtricityHand, SANtricityPlace, Young
  <2> QED
    BY <2>5, <2>8, <2>10, <2>11, <2>12, <2>13, <2>15, SANtricityKeeps
<1> QED
  BY <1>1, <1>3, <1>4 DEF SANtricityCreateImage, Made

LEMMA SANtricityNewestKeeps ==
  ASSUME SANtricityInv, Locked', NEW t \in Threads, SANtricityNewest(t)
  PROVE  SANtricityInv'
<1>1. PICK q, m : q = req[t] /\ m = local[t].mine
  OBVIOUS
<1>2. /\ Creates(t) /\ pc[t] = "newest" /\ service = "santricity" /\ ObjectsInv /\ KnownInv
      /\ q.op = "createSnapshot" /\ q.name \in SnapshotNames
      /\ m \in Ids /\ m <= array.made /\ Young(m, q.name)
      /\ Exists(m) => object[m].kind = "image" /\ object[m].base = q.uid
      /\ Exists(m) \/ m \in known.yanked \union known.deleting
      /\ known.acked[m] # None => known.acked[m].op = "createSnapshot"
      /\ known.yanked # {} => known.deleting # {}
  BY <1>1, SANtricityKnows, CreatorAsks DEF SANtricityNewest, At, SANtricityHand, SANtricityWorld
<1>3. CASE Reject(t)
  BY <1>2, <1>3, SANtricityRejects
<1>4. ASSUME NEW u \in ImagesOf(q.uid), \A x \in ImagesOf(q.uid) : x <= u,
             Report(t, u), NoFault, UNCHANGED <<array, memory>>
      PROVE  SANtricityInv'
  <2>1. u \in Ids /\ Exists(u) /\ object[u].kind = "image" /\ object[u].base = q.uid
    BY DEF ImagesOf
  <2>2. u <= array.made /\ u \in Nat /\ m \in Nat
    BY <1>2, <2>1, SANtricityHasTypes, ArrayObjectsAssumption
  <2>3. known.deleting = {} => Young(u, q.name)
    <3>1. SUFFICES ASSUME known.deleting = {}
                   PROVE  Young(u, q.name)
      OBVIOUS
    <3>2. m \in ImagesOf(q.uid)
      BY <1>2, <3>1 DEF ImagesOf
    <3>3. m <= u
      BY <1>4, <3>2
    <3>4. known.since[q.name] \in Nat /\ m > known.since[q.name]
      BY <1>2 DEF Young, KnownInv, KnownObjects
    <3> QED
      BY <1>2, <2>2, <3>3, <3>4 DEF Young
  <2>4. ASSUME NEW w \in Threads \ {t}, Makes(w)
        PROVE  local[w].mine # u
    <3>1. pc[w] # "idle" /\ SANtricityHand(w)
      BY <1>2, <2>4, SANtricityKnows DEF Makes, Creates, ObjectsInv, Locked
    <3>2. Exists(local[w].mine) => object[local[w].mine].kind # "image"
      BY <2>4, <3>1 DEF SANtricityHand
    <3> QED
      BY <2>1, <3>2
  <2> QED
    BY <1>1, <1>2, <1>4, <2>1, <2>2, <2>3, <2>4, SANtricityReports
<1>5. ASSUME ImagesOf(q.uid) = {}, Report(t, m), NoFault, UNCHANGED <<array, memory>>
      PROVE  SANtricityInv'
  <2>1. ~ Exists(m) /\ m \in known.yanked \union known.deleting
    BY <1>2, <1>5 DEF ImagesOf
  <2>2. \A w \in Threads \ {t} : Makes(w) => local[w].mine # m
    BY <1>1, <1>2, SANtricityKnows DEF SANtricityMade, HasMade
  <2> QED
    BY <1>1, <1>2, <1>5, <2>1, <2>2, SANtricityReports
<1> QED
  BY <1>1, <1>3, <1>4, <1>5 DEF SANtricityNewest

(* t answers and frees what its volume or image has in hand: the objects R *)
(* and the groups G, and Y can no longer be trusted.                       *)
SANtricityTaking(t, m, R, G, Y) ==
  /\ Makes(t) \/ Deletes(t)
  /\ m = local[t].mine /\ R \subseteq Ids /\ G \subseteq Ids /\ Y \subseteq Ids
  /\ Return(t) /\ memory' = memory /\ failures' \in {failures, failures + 1}
  /\ array' = [array EXCEPT !.object = [u \in Ids |-> IF u \in R THEN None ELSE array.object[u]],
                            !.group = [g \in Ids |-> IF g \in G THEN None ELSE array.group[g]]]
  /\ Deletes(t) =>
       /\ known' = [known EXCEPT !.yanked = @ \union Y, !.gone = @ \union {req[t].uid},
                                 !.acked[req[t].uid] = None]
       /\ m \in R \/ ~ Exists(m) \/ failures' > 0
  /\ ~ Deletes(t) => known' = known
  /\ \A u \in R : Exists(u) =>
       \/ u = m
       \/ Deletes(t) /\ u \in Y /\ object[u].kind = "image"
       \/ Deletes(t) /\ u \in Y /\ object[u].kind = "view" /\ object[u].base \in R
  /\ \A u \in Ids \ R : Exists(u) /\ object[u].kind = "image" => object[u].group \notin G
  /\ \A g \in Ids \ G : array.group[g] # None => array.group[g].volume # m \/ ~ (m \in R)

LEMMA SANtricityTakes ==
  ASSUME SANtricityInv, Locked', NEW t \in Threads, NEW m, NEW R, NEW G, NEW Y,
         SANtricityTaking(t, m, R, G, Y)
  PROVE  SANtricityInv'
<1> USE DEF SANtricityTaking
<1>1. /\ ObjectsInv /\ (\A w \in Ids : Obj(w) /\ SANtricityData(w)) /\ failures \in Nat /\ array.made \in Nat
      /\ array.groups \in Nat /\ service = "santricity" /\ KnownInv /\ memory = <<>>
      /\ SANtricityArray /\ SANtricityApart /\ SinceInv /\ (\A g \in Ids : GroupData(g))
      /\ known.yanked # {} => known.deleting # {}
      /\ known \in KnownObjects /\ RoleInv(t) /\ RequestInv(t)
  BY SANtricityKnows DEF SANtricityWorld, KnownInv
<1>2. pc[t] # "idle" /\ ~ (Makes(t) /\ Deletes(t))
  BY <1>1 DEF ObjectsInv, Locked, Makes, Creates, Deletes, CreateOps, DeleteOps
<1>3. Alone(t) /\ req'[t] = None /\ pc'[t] = "idle" /\ service' = service
  BY <1>1, <1>2, ReturnMoves DEF ObjectsInv, Return
<1>4. m \in Ids /\ (Deletes(t) => m = req[t].uid /\ m \in known.deleting)
  BY <1>1 DEF RoleInv, RequestInv
<1>5. PICK f \in [Ids -> SANtricityObject \union {None}] :
        f = [u \in Ids |-> IF u \in R THEN None ELSE array.object[u]]
  BY <1>1 DEF SANtricityArray
<1>6. PICK h \in [Ids -> SnapshotGroup \union {None}] :
        h = [g \in Ids |-> IF g \in G THEN None ELSE array.group[g]]
  BY <1>1 DEF SANtricityArray
<1>7. /\ array'.made = array.made /\ array'.groups = array.groups
      /\ array'.object = f /\ array'.group = h /\ SANtricityArray'
  <2>1. array' = [array EXCEPT !.object = f, !.group = h]
    BY <1>5, <1>6
  <2> HIDE DEF SANtricityTaking
  <2>2. /\ array'.made = array.made /\ array'.groups = array.groups
        /\ array'.object = f /\ array'.group = h
    BY <1>1, <2>1 DEF SANtricityArray
  <2> QED
    BY <1>1, <2>1, <2>2 DEF SANtricityArray
<1>8. /\ \A u \in Ids : object'[u] = IF u \in R THEN None ELSE object[u]
      /\ \A g \in Ids : array'.group[g] = IF g \in G THEN None ELSE array.group[g]
  BY <1>5, <1>6, <1>7 DEF object
<1>9. /\ \A u \in Ids : u # None
      /\ \A u \in Ids : Exists(u)' <=> Exists(u) /\ u \notin R
  BY <1>8, ArrayObjectsAssumption DEF Exists, object
<1>10. /\ known' \in KnownObjects /\ known'.asked = known.asked /\ known'.deleting = known.deleting
       /\ known'.since = known.since
       /\ known'.yanked = IF Deletes(t) THEN known.yanked \union Y ELSE known.yanked
       /\ known'.gone = IF Deletes(t) THEN known.gone \union {m} ELSE known.gone
       /\ \A u \in Ids : known'.acked[u] = IF Deletes(t) /\ u = m THEN None ELSE known.acked[u]
  <2>1. CASE Deletes(t)
    <3>1. known' = [known EXCEPT !.yanked = @ \union Y, !.gone = @ \union {m}, !.acked[m] = None]
      BY <1>4, <2>1
    <3> QED
      BY <1>1, <1>4, <2>1, <3>1 DEF KnownObjects
  <2>2. CASE ~ Deletes(t)
    BY <1>1, <2>2
  <2> QED
    BY <2>1, <2>2
<1>11. Careful(t)
  <2>1. \A w \in Threads : Deletes(w) => req[w].uid \in known.deleting
    BY <1>1 DEF ObjectsInv, RequestInv
  <2> QED
    BY <1>3, <1>4, <1>10, <2>1 DEF Careful, Tells
<1>12. Mild(t)
  <2>1. ASSUME NEW u \in Ids, object'[u] # object[u]
        PROVE  Removes(t, u)
    <3>1. u \in R /\ object'[u] = None /\ Exists(u)
      BY <1>8, <1>9, <2>1 DEF Exists
    <3>2. CASE u = m
      BY <1>4, <3>1, <3>2 DEF Removes
    <3>3. CASE Deletes(t) /\ u \in Y /\ object[u].kind = "image"
      BY <1>10, <3>1, <3>3 DEF Removes
    <3>4. CASE Deletes(t) /\ u \in Y /\ object[u].kind = "view" /\ object[u].base \in R
      BY <1>8, <1>10, <3>1, <3>4 DEF Removes
    <3> QED
      BY <3>1, <3>2, <3>3, <3>4
  <2> QED
    BY <1>1, <1>7, <1>8, <1>10, <2>1 DEF Mild
<1>13. Onward
  BY <1>1, <1>3, <1>7, <1>10 DEF Onward
<1>14. ASSUME NEW u \in Ids
       PROVE  Obj(u)'
  <2>1. CASE u \notin R /\ ~ (Deletes(t) /\ (u = m \/ u \in Y))
    <3>1. Untouched(u)
      BY <1>8, <1>10, <2>1 DEF Untouched
    <3> QED
      BY <1>1, <1>13, <3>1, ObjKept
  <2>2. CASE u \in R \/ (Deletes(t) /\ (u = m \/ u \in Y))
    <3>1. ~ Trusted(u)'
      <4>1. CASE Deletes(t) /\ (u = m \/ u \in Y)
        BY <1>10, <4>1 DEF Trusted
      <4>2. CASE u \in R /\ Exists(u)
        BY <1>1, <1>4, <1>10, <4>2 DEF Trusted, RoleInv
      <4>3. CASE ~ Exists(u)
        BY <1>1, <1>10, <4>3 DEF Obj, Trusted
      <4> QED
        BY <2>2, <4>1, <4>2, <4>3
    <3>2. u > array'.made =>
            object'[u] = None /\ known'.acked[u] = None /\ u \notin known'.deleting \union known'.gone
      <4>1. SUFFICES ASSUME u > array.made
                     PROVE  object'[u] = None /\ known'.acked[u] = None /\ u \notin known'.deleting \union known'.gone
        BY <1>7
      <4>2. object[u] = None /\ known.acked[u] = None /\ u \notin known.deleting \union known.gone
        BY <1>1, <4>1 DEF Obj
      <4>3. Deletes(t) => u # m
        BY <1>4, <4>2
      <4> QED
        BY <1>8, <1>10, <4>2, <4>3
    <3>3. CASE ~ Exists(u)'
      BY <1>3, <3>1, <3>2, <3>3 DEF Obj, object
    <3>4. CASE Exists(u)'
      <4>1. Exists(u) /\ object'[u] = object[u] /\ (object[u])' = object[u] /\ u \notin R
        BY <1>8, <1>9, <3>4 DEF object
      <4>2. \A r : IsLarge(u, r)' <=> IsLarge(u, r)
        BY <4>1 DEF IsLarge
      <4>3. object'[u].name # None =>
              /\ object'[u].name \in Names /\ known'.asked[object'[u].name] # None
              /\ IsLarge(u, known.asked[object[u].name])'
        BY <1>1, <1>10, <4>1 DEF Obj, IsLarge
      <4>4. known'.acked[u] # None => Fits(u)' /\ IsLarge(u, known.acked[u])'
        BY <1>1, <1>3, <1>10, <4>1 DEF Obj, IsLarge, Fits
      <4>5. u \in known'.gone => MayStay(u)'
        <5>1. CASE Deletes(t) /\ u = m
          BY <1>1, <1>3, <4>1, <5>1 DEF MayStay
        <5>2. CASE ~ (Deletes(t) /\ u = m)
          <6>1. u \in known'.gone => u \in known.gone
            BY <1>10, <5>2
          <6>2. u \in known.gone => failures > 0
            BY <1>1, <4>1 DEF Obj, MayStay
          <6>3. failures > 0 => failures' > 0
            BY <1>1
          <6> QED
            BY <1>1, <1>3, <6>1, <6>2, <6>3 DEF MayStay
        <5> QED
          BY <5>1, <5>2
      <4> QED
        BY <1>3, <3>1, <3>2, <4>1, <4>3, <4>4, <4>5 DEF Obj, object
    <3> QED
      BY <3>3, <3>4
  <2> QED
    BY <2>1, <2>2
<1>15. ASSUME NEW u \in Ids
       PROVE  SANtricityData(u)'
  <2>1. SUFFICES ASSUME Exists(u)'
                 PROVE  SANtricityData(u)'
    BY DEF SANtricityData
  <2>2. Exists(u) /\ (object[u])' = object[u] /\ u \notin R /\ SANtricityData(u)
    BY <1>1, <1>8, <1>9, <2>1 DEF object
  <2>3. \A n : Young(u, n)' <=> Young(u, n)
    BY <1>10 DEF Young
  <2>4. object[u].kind = "image" => array'.group[object[u].group] = array.group[object[u].group]
    <3>1. object[u].kind = "image" => object[u].group \in Ids
      BY <2>2, SANtricityHasTypes DEF SANtricityData, SANtricityObject
    <3> QED
      BY <1>8, <2>2, <3>1
  <2>5. known'.acked[u] # None => known'.acked[u] = known.acked[u]
    BY <1>10
  <2> QED
    BY <1>7, <1>10, <2>2, <2>3, <2>4, <2>5 DEF SANtricityData, Young
<1>16. ASSUME NEW g \in Ids
       PROVE  GroupData(g)'
  <2>1. SUFFICES ASSUME array'.group[g] # None
                 PROVE  GroupData(g)'
    BY DEF GroupData
  <2>2. g \notin G /\ array'.group[g] = array.group[g] /\ array.group[g] # None /\ GroupData(g)
    BY <1>1, <1>8, <2>1
  <2>3. PICK v : v = array.group[g].volume
    OBVIOUS
  <2>4. v \in Ids /\ Exists(v) /\ object[v].kind = "volume"
    BY <1>1, <2>2, <2>3 DEF GroupData, SANtricityArray, SnapshotGroup
  <2>5. v \notin R
    BY <2>2, <2>3, <2>4
  <2>6. Exists(v)' /\ (object[v])' = object[v]
    BY <1>8, <1>9, <2>4, <2>5 DEF object
  <2>7. (array.group[g].volume)' = v
    BY <2>2, <2>3
  <2> QED
    BY <1>7, <1>10, <2>2, <2>4, <2>6, <2>7 DEF GroupData
<1>17. SANtricityApart'
  BY <1>1, <1>8, <1>9 DEF SANtricityApart
<1>18. known'.yanked # {} => known'.deleting # {}
  BY <1>1, <1>4, <1>10
<1>19. SANtricityWorld'
  BY <1>1, <1>7, <1>10, <1>14, <1>15, <1>16, <1>17, <1>18 DEF SANtricityWorld, SinceInv
<1>20. RoleInv(t)' /\ SANtricityHand(t)' /\ ~ HasMade(t)'
  BY <1>3, FreedRole DEF SANtricityHand, HasMade, Makes, Creates
<1> QED
  BY <1>11, <1>12, <1>19, <1>20, SANtricityKeeps

(* Nothing is removed: it is missing, or an error is taken for that.       *)
LEMMA SANtricityForgets ==
  ASSUME SANtricityInv, Locked', NEW t \in Threads, Deletes(t), Deleted(t),
         UNCHANGED <<array, memory>>, failures' \in {failures, failures + 1},
         ~ Exists(local[t].mine) \/ failures' > 0
  PROVE  SANtricityInv'
<1>1. SANtricityArray /\ KnownInv /\ RoleInv(t) /\ RequestInv(t)
  BY SANtricityKnows
<1>2. known \in KnownObjects
  BY <1>1 DEF KnownInv
<1>3. PICK f, h : f = array.object /\ h = array.group
  OBVIOUS
<1>4. array' = [array EXCEPT !.object = f, !.group = h]
  BY <1>1, <1>3 DEF SANtricityArray
<1>5. /\ [u \in Ids |-> IF u \in {} THEN None ELSE array.object[u]] = f
      /\ [g \in Ids |-> IF g \in {} THEN None ELSE array.group[g]] = h
  BY <1>1, <1>3 DEF SANtricityArray
<1>6. PICK y : y = known.yanked
  OBVIOUS
<1>7. known' = [known EXCEPT !.gone = @ \union {req[t].uid}, !.acked[req[t].uid] = None] /\ Return(t)
  BY DEF Deleted, Deletes
<1>8. known' = [known EXCEPT !.yanked = y, !.gone = @ \union {req[t].uid}, !.acked[req[t].uid] = None]
  BY <1>2, <1>6, <1>7 DEF KnownObjects
<1>9. known.yanked \union {} = y
  BY <1>6
<1>10. SANtricityTaking(t, local[t].mine, {}, {}, {})
  BY <1>4, <1>5, <1>7, <1>8, <1>9 DEF SANtricityTaking
<1> QED
  BY <1>10, SANtricityTakes

LEMMA SANtricityFailKeeps ==
  ASSUME SANtricityInv, Locked', NEW t \in Threads, SANtricityFail(t)
  PROVE  SANtricityInv'
<1>1. /\ SANtricityHand(t) /\ ObjectsInv /\ pc[t] # "idle" /\ failures \in Nat /\ service = "santricity"
      /\ UNCHANGED <<array, memory>> /\ failures' = failures + 1 /\ failures' > 0 /\ pc[t] \in SANtricityPlace
  BY SANtricityKnows DEF SANtricityFail, Fault, SANtricityHand
<1>2. CASE Return(t) /\ UNCHANGED known
  BY <1>1, <1>2, SANtricityReturns
<1>3. CASE pc[t] = "create" /\ Continue(t, "createAgain") /\ UNCHANGED known
  <2>1. /\ Creates(t) /\ local[t].mine = None /\ local[t] \in Memo({}) /\ req[t].op = "createVolume"
    BY <1>1, <1>3 DEF SANtricityHand
  <2>2. /\ Alone(t) /\ pc'[t] = "createAgain" /\ req'[t] = req[t] /\ local'[t] = local[t] /\ service' = service
        /\ Creates(t)' /\ ~ Deletes(t)' /\ ~ Expands(t)'
    BY <1>1, <1>3, <2>1, SANtricityProceeds DEF Continue, Creates, Deletes, Expands, CreateOps, DeleteOps
  <2>3. ~ Makes(t)' /\ ~ HasMade(t)'
    BY <2>1, <2>2 DEF Makes, HasMade
  <2>4. RoleInv(t)' /\ SANtricityHand(t)'
    BY <2>1, <2>2, <2>3 DEF RoleInv, SANtricityHand, SANtricityPlace
  <2> QED
    BY <1>1, <1>3, <2>2, <2>3, <2>4, SANtricityNotes, SANtricityGoesOn
<1>4. CASE pc[t] = "copySource" /\ RollBack(t, "look") /\ UNCHANGED known
  <2>1. Makes(t)
    BY <1>1, <1>4 DEF SANtricityHand
  <2> QED
    BY <1>1, <1>4, <2>1, SANtricityTries, ArrayObjectsAssumption DEF RollBack
<1>5. CASE pc[t] = "look" /\ IsCopy(t) /\ TryAgain(t, "look") /\ UNCHANGED known
  <2>1. Makes(t) /\ local[t] \in Memo({})
    BY <1>1, <1>5 DEF SANtricityHand, IsCopy, Deletes, DeleteOps
  <2>2. PICK k \in Nat : k = local[t].tries
    BY <2>1 DEF Memo
  <2>3. CASE k > 1 /\ Proceed(t, "look", [local[t] EXCEPT !.tries = @ - 1])
    <3>1. k - 1 \in Nat
      BY <2>3
    <3>2. Proceed(t, "look", [local[t] EXCEPT !.tries = k - 1])
      BY <2>2, <2>3
    <3> QED
      BY <1>1, <1>5, <2>1, <3>1, <3>2, SANtricityTries
  <2>4. CASE Return(t)
    BY <1>2, <1>5, <2>4
  <2> QED
    BY <1>5, <2>2, <2>3, <2>4 DEF TryAgain
<1>6. CASE pc[t] = "look" /\ ~ IsCopy(t) /\ Deleted(t)
  <2>1. Deletes(t)
    BY <1>1, <1>6 DEF SANtricityHand
  <2> QED
    BY <1>1, <1>6, <2>1, SANtricityForgets
<1> QED
  BY <1>2, <1>3, <1>4, <1>5, <1>6 DEF SANtricityFail, SANtricityOnError

LEMMA SANtricityDeleteVolumeKeeps ==
  ASSUME SANtricityInv, Locked', NEW t \in Threads, SANtricityDeleteVolume(t)
  PROVE  SANtricityInv'
<1>1. PICK m : m = local[t].mine
  OBVIOUS
<1>2. PICK Y, G : Y = ImagesOf(m) \union ViewsOf(ImagesOf(m)) /\ G = GroupsOf(m)
  OBVIOUS
<1>3. /\ Makes(t) \/ Deletes(t)
      /\ SANtricityHand(t) /\ RoleInv(t) /\ RequestInv(t) /\ SANtricityArray /\ KnownInv
      /\ pc[t] = "look" /\ Return(t) /\ failures' = failures /\ memory' = memory
      /\ \A u \in Ids : SANtricityData(u)
  BY SANtricityKnows DEF SANtricityDeleteVolume, At, SANtricityHand, NoFault
<1>4. m \in Ids
  BY <1>1, <1>3 DEF RoleInv, RequestInv
<1>5. /\ Remove({m} \union Y, G) /\ Yank(t, Y)
  BY <1>1, <1>2 DEF SANtricityDeleteVolume
<1>6. ImagesOf(m) \subseteq Ids /\ Y \subseteq Ids /\ G \subseteq Ids
  BY <1>2 DEF ImagesOf, ViewsOf, GroupsOf
<1>7. ~ Deletes(t) => Y = {} /\ G = {}
  <2>1. SUFFICES ASSUME Makes(t)
                 PROVE  Y = {} /\ G = {}
    BY <1>3
  <2>2. /\ \A u \in Ids : Exists(u) => object[u].base # m
        /\ \A g \in Ids : array.group[g] # None => array.group[g].volume # m
    BY <1>1, <1>3, <2>1 DEF SANtricityHand
  <2>3. ImagesOf(m) = {} /\ G = {}
    BY <1>2, <2>2 DEF ImagesOf, GroupsOf
  <2> QED
    BY <1>2, <2>3 DEF ViewsOf
<1>8. array' = [array EXCEPT !.object = [u \in Ids |-> IF u \in {m} \union Y THEN None ELSE array.object[u]],
                             !.group = [g \in Ids |-> IF g \in G THEN None ELSE array.group[g]]]
  BY <1>5 DEF Remove
<1>9. ASSUME Deletes(t)
      PROVE  known' = [known EXCEPT !.yanked = @ \union Y, !.gone = @ \union {req[t].uid},
                                    !.acked[req[t].uid] = None]
  BY <1>5, <1>9 DEF Yank, Deletes
<1>10. ~ Deletes(t) => known' = known
  BY <1>3, <1>5 DEF Yank, Deletes, Makes, Creates
<1>11. ASSUME NEW u \in {m} \union Y, Exists(u)
       PROVE  \/ u = m
              \/ Deletes(t) /\ u \in Y /\ object[u].kind = "image"
              \/ Deletes(t) /\ u \in Y /\ object[u].kind = "view" /\ object[u].base \in {m} \union Y
  BY <1>2, <1>7, <1>11 DEF ImagesOf, ViewsOf
<1>12. ASSUME NEW u \in Ids \ ({m} \union Y), Exists(u), object[u].kind = "image"
       PROVE  object[u].group \notin G
  <2>1. SUFFICES ASSUME object[u].group \in G
                 PROVE  FALSE
    OBVIOUS
  <2>2. object[u].base = m
    BY <1>2, <1>3, <1>12, <2>1 DEF SANtricityData, GroupsOf
  <2> QED
    BY <1>2, <1>12, <2>2 DEF ImagesOf
<1>13. \A g \in Ids \ G : array.group[g] # None => array.group[g].volume # m
  BY <1>2 DEF GroupsOf
<1>14. SANtricityTaking(t, m, {m} \union Y, G, Y)
  <2>1. {m} \union Y \subseteq Ids /\ m \in {m} \union Y
    BY <1>4, <1>6
  <2> QED
    BY <1>1, <1>3, <1>6, <1>8, <1>9, <1>10, <1>11, <1>12, <1>13, <2>1 DEF SANtricityTaking
<1> QED
  BY <1>14, SANtricityTakes

LEMMA SANtricityFindGroupKeeps ==
  ASSUME SANtricityInv, Locked', NEW t \in Threads, SANtricityFindGroup(t)
  PROVE  SANtricityInv'
<1>1. PICK m : m = local[t].mine
  OBVIOUS
<1>2. /\ SANtricityHand(t) /\ RoleInv(t) /\ RequestInv(t) /\ pc[t] = "look" /\ req[t].op = "deleteSnapshot"
      /\ ObjectsInv /\ service = "santricity"
  BY SANtricityKnows DEF SANtricityFindGroup, At
<1>3. Deletes(t) /\ local[t] \in Memo({}) /\ ~ Makes(t)
  BY <1>2 DEF SANtricityHand, Makes, Creates, CreateOps
<1>4. /\ m \in Ids /\ m = req[t].uid /\ known.acked[m] # None /\ known.acked[m].op = "createSnapshot"
  BY <1>1, <1>2, <1>3 DEF RoleInv, RequestInv, OpOf
<1>5. CASE ~ Exists(m) /\ Deleted(t) /\ NoFault /\ UNCHANGED <<array, memory>>
  BY <1>1, <1>3, <1>5, SANtricityForgets DEF NoFault
<1>6. CASE /\ Exists(m)
           /\ Proceed(t, "removeGroup", [local[t] EXCEPT !.others = {object[m].group}])
           /\ NoFault /\ UNCHANGED <<array, memory, known>>
  <2>1. object[m].kind = "image" /\ object[m].group \in Ids
    <3>1. object[m].kind = "image"
      BY <1>2, <1>4, <1>6, SANtricityKnows DEF Obj, Fits
    <3> QED
      BY <1>4, <1>6, <3>1, SANtricityKnows, SANtricityHasTypes DEF SANtricityData, SANtricityObject
  <2>2. PICK memo : memo = [local[t] EXCEPT !.others = {object[m].group}]
    OBVIOUS
  <2>3. memo \in Memo({}) /\ memo.mine = m /\ memo.others = {object[m].group}
    BY <1>1, <1>3, <2>1, <2>2 DEF Memo
  <2>4. /\ Alone(t) /\ pc'[t] = "removeGroup" /\ req'[t] = req[t] /\ local'[t] = memo /\ service' = service
        /\ Deletes(t)' /\ ~ Creates(t)' /\ ~ Expands(t)'
    BY <1>2, <1>3, <1>6, <2>2, SANtricityProceeds DEF Creates, Deletes, Expands, CreateOps, DeleteOps
  <2>5. ~ Makes(t)' /\ ~ HasMade(t)'
    BY <2>4 DEF Makes, HasMade
  <2>6. RoleInv(t)'
    BY <1>2, <1>3, <1>4, <1>6, <2>3, <2>4, <2>5 DEF RoleInv
  <2>7. object' = object /\ \A u : Exists(u)' <=> Exists(u)
    BY <1>6 DEF object, Exists
  <2>8. SANtricityHand(t)'
    BY <2>3, <2>4, <2>5, <2>7 DEF SANtricityHand, SANtricityPlace
  <2> QED
    BY <1>6, <2>4, <2>5, <2>6, <2>8, SANtricityNotes, SANtricityGoesOn DEF NoFault
<1> QED
  BY <1>1, <1>5, <1>6 DEF SANtricityFindGroup

LEMMA SANtricityRemoveGroupKeeps ==
  ASSUME SANtricityInv, Locked', NEW t \in Threads, SANtricityRemoveGroup(t)
  PROVE  SANtricityInv'
<1>1. PICK m : m = local[t].mine
  OBVIOUS
<1>2. /\ SANtricityHand(t) /\ RoleInv(t) /\ RequestInv(t) /\ pc[t] = "removeGroup"
      /\ Return(t) /\ failures' = failures /\ memory' = memory
      /\ \A u \in Ids : SANtricityData(u)
  BY SANtricityKnows DEF SANtricityRemoveGroup, At, NoFault
<1>3. /\ Deletes(t) /\ local[t] \in Memo({}) /\ m \in Ids /\ m = req[t].uid
      /\ Exists(m) => local[t].others = {object[m].group}
  BY <1>1, <1>2 DEF SANtricityHand, RoleInv, RequestInv
<1>4. PICK g \in local[t].others :
        LET images == ImagesIn(g) IN
        Remove(images, {g}) /\ Yank(t, images \union ViewsOf(images))
  BY DEF SANtricityRemoveGroup
<1>5. PICK R, Y : R = ImagesIn(g) /\ Y = R \union ViewsOf(R)
  OBVIOUS
<1>6. g \in Ids /\ g # None /\ R \subseteq Ids /\ Y \subseteq Ids
  BY <1>3, <1>5, ArrayObjectsAssumption DEF Memo, ImagesIn, ViewsOf
<1>7. Remove(R, {g}) /\ Yank(t, Y)
  BY <1>4, <1>5
<1>8. array' = [array EXCEPT !.object = [u \in Ids |-> IF u \in R THEN None ELSE array.object[u]],
                             !.group = [x \in Ids |-> IF x \in {g} THEN None ELSE array.group[x]]]
  BY <1>7 DEF Remove
<1>9. known' = [known EXCEPT !.yanked = @ \union Y, !.gone = @ \union {req[t].uid},
                             !.acked[req[t].uid] = None]
  BY <1>3, <1>7 DEF Yank, Deletes
<1>10. m \in R \/ ~ Exists(m)
  BY <1>3, <1>5 DEF ImagesIn
<1>11. ASSUME NEW u \in R, Exists(u)
       PROVE  u \in Y /\ object[u].kind = "image"
  BY <1>2, <1>5, <1>6, <1>11 DEF ImagesIn, SANtricityData
<1>12. \A u \in Ids \ R : Exists(u) => object[u].group \notin {g}
  BY <1>5 DEF ImagesIn
<1>13. ASSUME NEW x \in Ids, array.group[x] # None, m \in R
       PROVE  array.group[x].volume # m
  <2>1. object[m].kind = "image"
    BY <1>5, <1>11, <1>13 DEF ImagesIn
  <2>2. GroupData(x)
    BY SANtricityKnows
  <2> QED
    BY <1>13, <2>1, <2>2 DEF GroupData
<1>14. SANtricityTaking(t, m, R, {g}, Y)
  BY <1>1, <1>2, <1>3, <1>6, <1>8, <1>9, <1>10, <1>11, <1>12, <1>13 DEF SANtricityTaking
<1> QED
  BY <1>14, SANtricityTakes

LEMMA SANtricityExpandKeeps ==
  ASSUME SANtricityInv, Locked', NEW t \in Threads, SANtricityExpand(t)
  PROVE  SANtricityInv'
<1>1. PICK m, k : m = local[t].mine /\ k = req[t].size
  OBVIOUS
<1>2. /\ ObjectsInv /\ (\A w \in Ids : Obj(w) /\ SANtricityData(w)) /\ failures \in Nat /\ array.made \in Nat
      /\ array.groups \in Nat /\ service = "santricity" /\ KnownInv /\ memory = <<>>
      /\ SANtricityArray /\ SANtricityApart /\ SinceInv /\ (\A g \in Ids : GroupData(g))
      /\ known.yanked # {} => known.deleting # {}
      /\ RoleInv(t) /\ RequestInv(t) /\ pc[t] = "expand" /\ Expands(t)
  BY SANtricityKnows DEF SANtricityWorld, SANtricityExpand, At, SANtricityHand
<1>3. m = req[t].uid /\ m \in Ids /\ k \in Sizes /\ k \in Nat
  BY <1>1, <1>2, ArrayObjectsAssumption DEF RoleInv, RequestInv
<1>4. CASE Reject(t)
  BY <1>2, <1>4, SANtricityRejects
<1>5. ASSUME Exists(m), Expanded(t), NoFault, memory' = memory,
             NEW o \in SANtricityObject, o.name = object[m].name, o.kind = object[m].kind,
             o.base = object[m].base, o.group = object[m].group,
             o.size \in Nat, o.size >= object[m].size, o.size >= k,
             \/ array' = array /\ o = object[m]
             \/ array' = [array EXCEPT !.object[m] = o]
      PROVE  SANtricityInv'
  <2>1. /\ req'[t] = None /\ pc'[t] = "idle" /\ known'.asked = known.asked /\ service' = service
        /\ known'.acked[m] = [known.acked[m] EXCEPT !.size = k]
        /\ \A u \in Ids : u # m => known'.acked[u] = known.acked[u]
        /\ known'.deleting = known.deleting /\ known'.gone = known.gone
        /\ known'.yanked = known.yanked /\ known'.since = known.since
    BY <1>1, <1>2, <1>3, <1>5, ExpandedTells
  <2>2. object[m] \in SANtricityObject /\ object[m] # None /\ object[m].size \in Nat
    <3>1. object[m] \in SANtricityObject /\ object[m] # None
      BY <1>3, <1>5, SANtricityHasTypes
    <3> QED
      BY <3>1, ArrayObjectsAssumption DEF SANtricityObject
  <2>3. /\ array'.made = array.made /\ array'.groups = array.groups /\ array'.group = array.group
        /\ SANtricityArray' /\ object'[m] = o
        /\ \A u \in Ids : u # m => object'[u] = object[u]
    <3>1. CASE array' = array /\ o = object[m]
      BY <1>2, <3>1 DEF SANtricityArray, object
    <3>2. CASE array' = [array EXCEPT !.object[m] = o]
      <4>1. /\ array'.made = array.made /\ array'.groups = array.groups /\ array'.group = array.group
            /\ array'.object = [array.object EXCEPT ![m] = o]
            /\ [array.object EXCEPT ![m] = o] \in [Ids -> SANtricityObject \union {None}]
        BY <1>2, <1>5, <3>2 DEF SANtricityArray
      <4>2. SANtricityArray'
        BY <1>2, <3>2, <4>1 DEF SANtricityArray
      <4> QED
        BY <1>2, <1>3, <4>1, <4>2 DEF SANtricityArray, object
    <3> QED
      BY <1>5, <3>1, <3>2
  <2>4. o # None
    BY SANtricityAssumption
  <2>5. /\ \A u \in Ids : Exists(u)' <=> Exists(u)
        /\ \A u \in Ids : /\ object'[u].name = object[u].name /\ object'[u].kind = object[u].kind
                          /\ object'[u].base = object[u].base /\ object'[u].group = object[u].group
    BY <1>5, <2>2, <2>3, <2>4, ArrayObjectsAssumption DEF Exists, object
  <2>6. failures' = failures
    BY <1>5 DEF NoFault
  <2>7. Onward
    BY <1>2, <2>1, <2>3, <2>6 DEF Onward
  <2>8. \A u \in Ids : Obj(u)'
    <3>1. \A u \in Ids \ {req[t].uid} : object'[u] = object[u]
      BY <1>3, <2>3
    <3>2. /\ object[req[t].uid] # None /\ object'[req[t].uid] # None
          /\ object'[req[t].uid].name = object[req[t].uid].name
          /\ object'[req[t].uid].kind = object[req[t].uid].kind
          /\ object[req[t].uid].size \in Nat /\ object'[req[t].uid].size \in Nat
          /\ object'[req[t].uid].size >= object[req[t].uid].size
          /\ object'[req[t].uid].size >= req[t].size
      BY <1>1, <1>3, <1>5, <2>2, <2>3, <2>4
    <3> QED
      BY <1>2, <1>5, <2>7, <3>1, <3>2, ExpandedObjs
  <2>9. /\ known.acked[m] # None /\ known.acked[m].op = "createVolume" /\ known'.acked[m].uid = known.acked[m].uid
    <3>1. known.acked[m] # None /\ known.acked[m].op = "createVolume" /\ known.acked[m] \in Request
      BY <1>2, <1>3 DEF RoleInv, OpOf, Expands, KnownInv, Answers
    <3> QED
      BY <2>1, <3>1 DEF Request
  <2>10. object[m].kind # "image"
    BY <1>2, <1>3, <1>5, <2>9 DEF Obj, Fits
  <2>11. ASSUME NEW u \in Ids
         PROVE  SANtricityData(u)'
    <3>1. \A n : Young(u, n)' <=> Young(u, n)
      BY <2>1 DEF Young
    <3>2. SANtricityData(u) /\ (object[u])' = object'[u] /\ (Exists(u)' <=> Exists(u))
      BY <1>2, <2>5 DEF object
    <3>3. /\ object'[u].name = object[u].name /\ object'[u].kind = object[u].kind
          /\ object'[u].base = object[u].base /\ object'[u].group = object[u].group
      BY <2>5
    <3>4. CASE u = m
      BY <2>1, <2>3, <2>10, <3>1, <3>2, <3>3, <3>4 DEF SANtricityData, object
    <3>5. CASE u # m
      <4>1. object'[u] = object[u] /\ known'.acked[u] = known.acked[u]
        BY <2>1, <2>3, <3>5
      <4> QED
        BY <2>1, <2>3, <3>1, <3>2, <4>1 DEF SANtricityData, object, Young
    <3> QED
      BY <3>4, <3>5
  <2>12. ASSUME NEW g \in Ids
         PROVE  GroupData(g)'
    <3>1. SUFFICES ASSUME array.group[g] # None
                   PROVE  GroupData(g)'
      BY <2>3 DEF GroupData
    <3>2. PICK v : v = array.group[g].volume
      OBVIOUS
    <3>3. /\ v \in Ids /\ Exists(v) /\ object[v].kind = "volume"
          /\ g <= array.groups /\ known.since[array.group[g].name] # None
      BY <1>2, <3>1, <3>2 DEF SANtricityArray, SnapshotGroup, GroupData
    <3>4. Exists(v)' /\ (object[v].kind)' = object[v].kind
      BY <2>5, <3>3 DEF object
    <3>5. (array.group[g].volume)' = v
      BY <2>3, <3>2
    <3> QED
      BY <2>1, <2>3, <3>3, <3>4, <3>5 DEF GroupData
  <2>13. SANtricityApart'
    BY <1>2, <2>5 DEF SANtricityApart
  <2>14. SANtricityWorld'
    BY <1>2, <1>5, <2>1, <2>3, <2>6, <2>8, <2>11, <2>12, <2>13 DEF SANtricityWorld, SinceInv
  <2>15. Mild(t)
    <3>1. \A u \in Ids : object'[u] = object[u] \/ Resizes(u)
      BY <1>5, <2>3, <2>4, <2>5 DEF Resizes
    <3>2. \A u \in Ids : known'.acked[u] # None => known.acked[u] # None
      BY <2>1, <2>9
    <3> QED
      BY <1>2, <2>1, <2>3, <3>1, <3>2 DEF Mild
  <2>16. Careful(t)
    BY <1>2, <1>5, ExpandedCareful
  <2>17. RoleInv(t)' /\ SANtricityHand(t)' /\ ~ HasMade(t)'
    BY <2>1, FreedRole DEF SANtricityHand, HasMade, Makes, Creates
  <2> QED
    BY <2>14, <2>15, <2>16, <2>17, SANtricityKeeps
<1>6. CASE Exists(m) /\ object[m].size >= k /\ Expanded(t) /\ NoFault /\ UNCHANGED <<array, memory>>
  <2>1. object[m] \in SANtricityObject
    BY <1>3, <1>6, SANtricityHasTypes
  <2>2. object[m].size \in Nat
    BY <2>1, ArrayObjectsAssumption DEF SANtricityObject
  <2>3. object[m].size >= object[m].size
    BY <2>2
  <2> QED
    BY <1>5, <1>6, <2>1, <2>2, <2>3
<1>7. CASE /\ Exists(m) /\ ~ (object[m].size >= k)
           /\ array' = [array EXCEPT !.object[m].size = k]
           /\ Expanded(t) /\ NoFault /\ UNCHANGED memory
  <2>1. object[m] \in SANtricityObject
    BY <1>3, <1>7, SANtricityHasTypes
  <2>2. PICK o : o = [object[m] EXCEPT !.size = k]
    OBVIOUS
  <2>3. /\ o \in SANtricityObject /\ o.name = object[m].name /\ o.kind = object[m].kind
        /\ o.base = object[m].base /\ o.group = object[m].group /\ o.size = k
    BY <1>3, <2>1, <2>2 DEF SANtricityObject
  <2>4. object[m].size \in Nat
    BY <2>1, ArrayObjectsAssumption DEF SANtricityObject
  <2>5. k >= object[m].size /\ k >= k
    BY <1>3, <1>7, <2>4
  <2>6. array' = [array EXCEPT !.object[m] = o]
    BY <1>7, <2>2 DEF object
  <2> QED
    BY <1>3, <1>5, <1>7, <2>3, <2>5, <2>6
<1> QED
  BY <1>1, <1>4, <1>6, <1>7 DEF SANtricityExpand

LEMMA SANtricityCallKeeps ==
  ASSUME SANtricityInv, NEW t \in Threads, CallObjects(t)
  PROVE  SANtricityInv'
<1>1. /\ ObjectsInv' /\ (\A u \in Ids : Obj(u)') /\ Alone(t) /\ Starts(t) /\ Onward
      /\ UNCHANGED <<service, array, memory, failures>> /\ known'.acked = known.acked
      /\ known'.yanked = known.yanked /\ known'.since = known.since /\ known.deleting \subseteq known'.deleting
  BY SANtricityKnows, CallKeeps
<1>2. object' = object /\ (\A u : Exists(u)' <=> Exists(u)) /\ array' = array
  BY <1>1 DEF Exists, object
<1>3. ASSUME NEW u \in Ids
      PROVE  SANtricityData(u)'
  <2>1. CASE ~ Exists(u)
    BY <1>2, <2>1 DEF SANtricityData
  <2>2. CASE Exists(u)
    <3>1. Obj(u) /\ SANtricityData(u)
      BY SANtricityKnows
    <3>2. object[u].name # None => known'.asked[object[u].name] = known.asked[object[u].name]
      BY <1>1, <2>2, <3>1 DEF Obj, Onward
    <3>3. \A n : Young(u, n)' <=> Young(u, n)
      BY <1>1 DEF Young
    <3>4. known'.deleting = {} => known.deleting = {}
      BY <1>1
    <3> QED
      BY <1>1, <1>2, <2>2, <3>1, <3>2, <3>3, <3>4 DEF SANtricityData, Young
  <2> QED
    BY <2>1, <2>2
<1>4. SANtricityWorld'
  <2>1. /\ SANtricityArray /\ SANtricityApart /\ SinceInv /\ memory = <<>> /\ failures \in Nat
        /\ \A g \in Ids : GroupData(g)
        /\ known.yanked # {} => known.deleting # {}
    BY SANtricityKnows DEF SANtricityWorld
  <2>2. \A g \in Ids : GroupData(g)'
    BY <1>1, <1>2, <2>1 DEF GroupData
  <2>3. SANtricityArray' /\ SANtricityApart' /\ SinceInv'
    BY <1>1, <1>2, <2>1 DEF SANtricityArray, SANtricityApart, SinceInv
  <2>4. known'.yanked # {} => known'.deleting # {}
    BY <1>1, <2>1
  <2> QED
    BY <1>1, <1>3, <2>1, <2>2, <2>3, <2>4 DEF SANtricityWorld
<1>5. SANtricityHand(t)' /\ ~ HasMade(t)'
  <2>1. CASE Creates(t)' /\ pc'[t] = "find" /\ local'[t] = [NoMemo EXCEPT !.mine = None]
    BY <2>1 DEF SANtricityHand, SANtricityPlace, NoMemo, Memo, Makes, HasMade
  <2>2. CASE Deletes(t)' /\ pc'[t] = "look" /\ local'[t] = [NoMemo EXCEPT !.mine = (req'[t]).uid]
    <3>1. (req'[t]).uid \in Ids /\ ~ Creates(t)'
      BY <1>1, <2>2 DEF ObjectsInv, RequestInv, Creates, Deletes, CreateOps, DeleteOps
    <3> QED
      BY <2>2, <3>1 DEF SANtricityHand, SANtricityPlace, NoMemo, Memo, Makes, HasMade
  <2>3. CASE Expands(t)' /\ pc'[t] = "expand" /\ local'[t] = [NoMemo EXCEPT !.mine = (req'[t]).uid]
    <3>1. (req'[t]).uid \in Ids /\ ~ Creates(t)'
      BY <1>1, <2>3 DEF ObjectsInv, RequestInv, Creates, Expands, CreateOps
    <3> QED
      BY <2>3, <3>1 DEF SANtricityHand, SANtricityPlace, NoMemo, Memo, Makes, HasMade
  <2> QED
    BY <1>1, <2>1, <2>2, <2>3 DEF Starts
<1>6. ASSUME NEW w \in Threads, w # t
      PROVE  SANtricityHand(w)' /\ (HasMade(w)' <=> HasMade(w)) /\ local'[w] = local[w]
  <2>1. SANtricityHand(w) /\ pc'[w] = pc[w] /\ req'[w] = req[w] /\ local'[w] = local[w]
    BY <1>1, <1>6 DEF SANtricityInv, Alone
  <2>2. /\ Makes(w)' <=> Makes(w)
        /\ Creates(w)' <=> Creates(w)
        /\ Deletes(w)' <=> Deletes(w)
        /\ Expands(w)' <=> Expands(w)
        /\ IsCopy(w)' <=> IsCopy(w)
        /\ HasMade(w)' <=> HasMade(w)
    BY <2>1 DEF Makes, Creates, Deletes, Expands, IsCopy, HasMade
  <2>3. (Exists(local[w].mine)' <=> Exists(local[w].mine)) /\ (Exists(req[w].uid)' <=> Exists(req[w].uid))
    BY <1>2, <2>1 DEF Exists, object
  <2> QED
    BY <1>1, <1>2, <2>1, <2>2, <2>3 DEF SANtricityHand, Young, object
<1>7. SANtricityMade'
  BY <1>5, <1>6, SANtricityKnows DEF SANtricityMade
<1>8. service' = "santricity"
  BY <1>1, SANtricityKnows
<1> QED
  BY <1>1, <1>4, <1>5, <1>6, <1>7, <1>8 DEF SANtricityInv

LEMMA SANtricityCrashKeeps ==
  ASSUME SANtricityInv, Crash
  PROVE  SANtricityInv'
<1>1. /\ ObjectsInv' /\ (\A u \in Ids : Obj(u)') /\ (\A t \in Threads : pc'[t] = "idle" /\ req'[t] = None)
      /\ memory' = <<>> /\ UNCHANGED <<service, array, known, failures>>
  BY SANtricityKnows, CrashKeepsObjects DEF Crash
<1>2. SANtricityWorld'
  <2>1. object' = object /\ \A u : Exists(u)' <=> Exists(u)
    BY <1>1 DEF object, Exists
  <2>2. \A u \in Ids : SANtricityData(u)'
    BY <1>1, <2>1, SANtricityKnows DEF SANtricityData, Young
  <2>3. \A g \in Ids : GroupData(g)'
    BY <1>1, <2>1, SANtricityKnows DEF GroupData
  <2>4. SANtricityArray' /\ SANtricityApart' /\ SinceInv'
    BY <1>1, <2>1, SANtricityKnows DEF SANtricityArray, SANtricityApart, SinceInv
  <2>5. failures \in Nat /\ (known.yanked # {} => known.deleting # {})
    BY SANtricityKnows DEF SANtricityWorld
  <2> QED
    BY <1>1, <2>2, <2>3, <2>4, <2>5 DEF SANtricityWorld
<1>3. \A t \in Threads : SANtricityHand(t)' /\ ~ HasMade(t)'
  BY <1>1 DEF SANtricityHand, HasMade, Makes, Creates
<1> QED
  BY <1>1, <1>2, <1>3, SANtricityKnows DEF SANtricityInv, SANtricityMade

LEMMA InitSANtricityInv ==
  ASSUME InitSANtricity
  PROVE  SANtricityInv
<1>1. FirstName \in VolumeNames /\ FirstName \in Names /\ FirstId \in Ids /\ SizeOf[FirstName] \in Sizes
  BY FirstOnes, ArrayObjectsAssumption DEF Names
<1>2. PICK o : o = [kind |-> "volume", name |-> FirstName, size |-> SizeOf[FirstName],
                    base |-> None, group |-> None]
  OBVIOUS
<1>3. o \in SANtricityObject /\ o.name = FirstName /\ o.size = SizeOf[FirstName] /\ o.kind = "volume"
      /\ o.base = None /\ o.group = None
  BY <1>1, <1>2 DEF SANtricityObject
<1>4. o # None /\ InitObjects("santricity") /\ memory = <<>>
  BY <1>3, SANtricityAssumption DEF InitSANtricity
<1>5. array = [object |-> First(o), made |-> FirstId, group |-> [g \in Ids |-> None], groups |-> 0]
  BY <1>2 DEF InitSANtricity
<1>6. /\ array.object = First(o) /\ array.made = FirstId /\ array.group = [g \in Ids |-> None]
      /\ First(o) \in [Ids -> SANtricityObject \union {None}]
  BY <1>3, <1>5 DEF First
<1>7. SANtricityArray
  BY <1>1, <1>5, <1>6 DEF SANtricityArray
<1>8. /\ ObjectsInv /\ (\A u \in Ids : Obj(u)) /\ failures = 0 /\ service = "santricity"
      /\ \A t \in Threads : pc[t] = "idle" /\ req[t] = None
      /\ \A u \in Ids : object[u] = IF u = FirstId THEN o ELSE None
      /\ known.since = [n \in SnapshotNames |-> None]
  BY <1>3, <1>4, <1>6, InitObjectsInv DEF ObjectServices
<1>9. /\ \A u \in Ids : SANtricityData(u)
      /\ SANtricityApart /\ SinceInv
      /\ \A g \in Ids : GroupData(g)
  <2>1. /\ \A u \in Ids : SANtricityData(u)
        /\ SANtricityApart
    <3>1. o.name # None
      BY <1>1, <1>3, ArrayObjectsAssumption
    <3> QED
      BY <1>3, <1>4, <1>8, <3>1 DEF SANtricityData, SANtricityApart, Exists
  <2>2. SinceInv
    BY <1>8 DEF SinceInv
  <2>3. \A g \in Ids : GroupData(g)
    BY <1>6 DEF GroupData
  <2> QED
    BY <2>1, <2>2, <2>3
<1>10. known.yanked = {}
  BY <1>4 DEF InitObjects
<1>11. SANtricityWorld
  BY <1>4, <1>7, <1>8, <1>9, <1>10 DEF SANtricityWorld
<1> QED
  BY <1>8, <1>11 DEF SANtricityInv, SANtricityHand, SANtricityMade, HasMade, Makes, Creates

LEMMA SANtricityStep ==
  ASSUME SANtricityInv, SANtricityNext
  PROVE  SANtricityInv'
<1>1. Locked'
  BY SANtricityMove, SANtricityKnows
<1>2. ASSUME NEW t \in Threads,
             \/ SANtricityFind(t) \/ SANtricityCreate(t) \/ SANtricityCopySource(t)
             \/ SANtricityChooseGroup(t) \/ SANtricityCreateImage(t) \/ SANtricityNewest(t)
      PROVE  SANtricityInv'
  BY <1>1, <1>2, SANtricityFindKeeps, SANtricityCreateKeeps, SANtricityCopySourceKeeps,
     SANtricityChooseGroupKeeps, SANtricityCreateImageKeeps, SANtricityNewestKeeps
<1>3. ASSUME NEW t \in Threads,
             \/ SANtricityDeleteVolume(t) \/ SANtricityFindGroup(t) \/ SANtricityRemoveGroup(t)
             \/ SANtricityExpand(t) \/ SANtricityFail(t)
      PROVE  SANtricityInv'
  BY <1>1, <1>3, SANtricityDeleteVolumeKeeps, SANtricityFindGroupKeeps, SANtricityRemoveGroupKeeps,
     SANtricityExpandKeeps, SANtricityFailKeeps
<1> QED
  BY <1>2, <1>3 DEF SANtricityNext

(* What the properties say of an E-Series array.                           *)
LEMMA SANtricityMeans ==
  ASSUME SANtricityInv
  PROVE  TypeOK /\ ReportedStays /\ ReportedAsAsked /\ DeletedIsGone /\ NameOnce
<1>1. /\ ObjectsInv /\ (\A u \in Ids : Obj(u) /\ SANtricityData(u)) /\ service = "santricity"
      /\ SANtricityArray /\ SANtricityApart /\ KnownInv /\ memory = <<>>
      /\ known \in KnownObjects
  BY SANtricityKnows DEF KnownInv
<1>2. TypeOK
  <2>1. \A t \in Threads : pc[t] \in SANtricityPlace
    BY DEF SANtricityInv, SANtricityHand, SANtricityPlace
  <2>2. SANtricityTypeOK
    BY <1>1, <2>1 DEF SANtricityTypeOK, SANtricityArray
  <2>3. ObjectsTypeOK /\ ids_in_use = {LockOf(req[t]) : t \in {x \in Threads : req[x] # None}}
    BY <1>1 DEF ObjectsTypeOK, ObjectsInv, KnownInv, RequestInv, Locked
  <2> QED
    BY <1>1, <2>2, <2>3 DEF TypeOK
<1>3. ReportedStays
  BY <1>1 DEF ReportedStays, Obj, Trusted, Fits
<1>4. ReportedAsAsked
  <2>1. ASSUME NEW u \in Ids, Trusted(u)
        PROVE  SANtricityHasData(u)
    <3>1. Exists(u) /\ known.acked[u] # None /\ Fits(u) /\ SANtricityData(u)
      BY <1>1, <2>1 DEF Obj, Trusted
    <3>2. CASE object[u].kind = "image"
      <4>1. object[u].base = known.acked[u].uid
        BY <3>1, <3>2 DEF SANtricityData
      <4>2. known.deleting = {} => u > known.since[known.acked[u].name]
        BY <3>1, <3>2 DEF SANtricityData, Young
      <4> QED
        BY <3>2, <4>1, <4>2 DEF SANtricityHasData
    <3>3. CASE object[u].kind = "view"
      <4>1. object[u].name = known.acked[u].name /\ object[u].base = known.asked[object[u].name].uid
        BY <1>1, <3>1, <3>3 DEF SANtricityData, Fits
      <4>2. known.acked[u].uid = known.asked[known.acked[u].name].uid
        BY <1>1, <3>1 DEF KnownInv, Answers
      <4> QED
        BY <3>3, <4>1, <4>2 DEF SANtricityHasData
    <3> QED
      BY <3>2, <3>3 DEF SANtricityHasData
  <2> QED
    BY <1>1, <2>1 DEF ReportedAsAsked, Obj, Trusted, IsLarge
<1>5. DeletedIsGone
  <2>1. known.gone \subseteq Ids
    BY <1>1 DEF KnownObjects
  <2>2. \A u \in known.gone : Exists(u) => failures > 0
    BY <1>1, <2>1 DEF Obj, MayStay
  <2> QED
    BY <1>1, <2>2 DEF DeletedIsGone
<1>6. NameOnce
  BY <1>1 DEF NameOnce, SANtricityApart
<1> QED
  BY <1>2, <1>3, <1>4, <1>5, <1>6
=============================================================================
