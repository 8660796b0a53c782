--------------------------- MODULE FlashCopyProofs ---------------------------
(***************************************************************************)
(* Theorems about FlashCopy for every number of worker threads, names and  *)
(* vdisks, and any number of failing commands, retries and restarts.       *)
(***************************************************************************)
EXTENDS FlashCopy, TLAPS

(* A request that is being processed holds its lock, and no two requests   *)
(* hold one lock.                                                          *)
LocksHeld ==
  \A t \in Threads : req[t] # None => LockOf(req[t]) \in ids_in_use

LocksExclusive ==
  \A t, v \in Threads :
    t # v /\ req[t] # None /\ req[v] # None => LockOf(req[t]) # LockOf(req[v])

(* Where a request of each kind can be, and where it has a vdisk of its    *)
(* own.                                                                    *)
PhaseOK(t, p) ==
  /\ p = "idle" <=> req[t] = None
  /\ p \in {"find", "checkSource", "mkvolume"} =>
       req[t].op \in CreateOps /\ mine[t] = None
  /\ p \in {"readBack", "copySource"} => IsCopy(t) /\ mine[t] # None
  /\ p \in {"mkfcmap", "startfcmap"} => req[t].op \in CreateOps /\ mine[t] # None
  /\ p = "undoMap" => req[t].op \in CreateOps /\ (IsCopy(t) => mine[t] # None)
  /\ p = "undoVolume" => req[t].op = "createSnapshot"
  /\ p \in {"look", "rmMaps", "stopMap", "rmMap", "rmvolume"} =>
       mine[t] # None /\ req[t].op # "createSnapshot"
  /\ p \in {"stopMap", "rmMap", "rmvolume"} => req[t].op # "expandVolume"
  /\ p = "expand" => req[t].op = "expandVolume"

PhaseInv == \A t \in Threads : PhaseOK(t, pc[t])

(* A creator's name is on the vdisk it made and on no other, and nobody    *)
(* has been told of that vdisk.                                            *)
CreatorInv ==
  \A t \in Threads :
    req[t] # None /\ req[t].op \in CreateOps =>
      /\ req[t].name \in IF IsCopy(t) THEN VolumeNames ELSE SnapshotNames
      /\ pc[t] # "find" => \A u \in Uids : vdisk[u] = req[t].name <=> u = mine[t]
      /\ mine[t] # None => acked[mine[t]] = None

(* A deletion or an expansion works on an object that was reported as what *)
(* it is asked for.                                                        *)
DeleterInv ==
  \A t \in Threads :
    req[t] # None /\ req[t].op \notin CreateOps =>
      /\ mine[t] # None /\ mine[t] = req[t].uid
      /\ acked[mine[t]] # None
      /\ req[t].op = "deleteSnapshot" <=> acked[mine[t]].op = "createSnapshot"
      /\ req[t].op # "expandVolume" => mine[t] \in deleting

(* What was reported carries the name it was reported for while it exists, *)
(* and vdisks are numbered in the order they are made.                     *)
ObjectInv ==
  \A u \in Uids :
    /\ vdisk[u] # None \/ acked[u] # None => u <= made
    /\ acked[u] # None =>
         /\ acked[u].op \in CreateOps
         /\ acked[u].name \in IF acked[u].op = "createVolume" THEN VolumeNames
                                                            ELSE SnapshotNames
         /\ vdisk[u] # None => acked[u].name = vdisk[u]
    /\ u \in gone => acked[u] # None

Core ==
  /\ LocksHeld /\ LocksExclusive /\ PhaseInv
  /\ CreatorInv /\ DeleterInv /\ ObjectInv
  /\ ReportedExists /\ DeletedVolumeGone

IInv == TypeOK /\ Core

objects == <<vdisk, made, acked, deleting, gone>>

-----------------------------------------------------------------------------
(* The ways in which a thread moves on.                                    *)

LEMMA ReturnKeeps ==
  ASSUME IInv, NEW t \in Threads, pc[t] # "idle", Return(t), UNCHANGED objects
  PROVE  Core'
  <1> USE DEF IInv, TypeOK, Core, Return, Goto, objects
  <1>1. LocksHeld' /\ LocksExclusive'
    BY DEF LocksHeld, LocksExclusive, PhaseInv, PhaseOK
  <1>2. PhaseInv'
    BY DEF PhaseInv, PhaseOK, IsCopy
  <1>3. CreatorInv'
    BY DEF CreatorInv, IsCopy
  <1>4. DeleterInv'
    BY DEF DeleterInv
  <1>5. ObjectInv' /\ ReportedExists' /\ DeletedVolumeGone'
    BY DEF ObjectInv, ReportedExists, DeletedVolumeGone, Exists
  <1>6. QED
    BY <1>1, <1>2, <1>3, <1>4, <1>5

LEMMA ContinueKeeps ==
  ASSUME IInv, NEW t \in Threads, NEW p \in Phase, Goto(t, p),
         UNCHANGED <<ids_in_use, req, mine>>, UNCHANGED objects,
         PhaseOK(t, p), pc[t] = "find" => \A u \in Uids : vdisk[u] # req[t].name
  PROVE  Core'
  <1> USE DEF IInv, TypeOK, Core, Goto, objects
  <1>1. LocksHeld' /\ LocksExclusive'
    BY DEF LocksHeld, LocksExclusive
  <1>2. PhaseInv'
    BY DEF PhaseInv, PhaseOK, IsCopy
  <1>3. CreatorInv'
    BY FlashCopyAssumption DEF CreatorInv, IsCopy, PhaseInv, PhaseOK
  <1>4. DeleterInv'
    BY DEF DeleterInv
  <1>5. ObjectInv' /\ ReportedExists' /\ DeletedVolumeGone'
    BY DEF ObjectInv, ReportedExists, DeletedVolumeGone, Exists
  <1>6. QED
    BY <1>1, <1>2, <1>3, <1>4, <1>5

LEMMA ErrorKeeps ==
  ASSUME IInv, NEW t \in Threads, pc[t] # "idle", OnError(t), UNCHANGED objects
  PROVE  Core'
  <1>1. CASE Return(t)
    BY <1>1, ReturnKeeps
  <1>2. CASE ~ Return(t)
    <2>1. PICK p \in {"undoMap", "look"} :
            Goto(t, p) /\ UNCHANGED <<ids_in_use, req, mine>> /\ PhaseOK(t, p)
                       /\ pc[t] # "find"
      BY <1>2 DEF IInv, Core, PhaseInv, PhaseOK, OnError, RollBack, TryAgain, IsCopy, CreateOps
    <2>2. QED
      BY <2>1, ContinueKeeps DEF Phase
  <1>3. QED
    BY <1>1, <1>2

(* The lock of a create request is its name.                               *)
LEMMA CreatorsDiffer ==
  ASSUME IInv, NEW t \in Threads, NEW v \in Threads, t # v,
         req[t] # None, req[t].op \in CreateOps,
         req[v] # None, req[v].op \in CreateOps
  PROVE  req[t].name # req[v].name
  <1>1. LockOf(req[t]) = <<"name", req[t].name>> /\ LockOf(req[v]) = <<"name", req[v].name>>
    BY DEF LockOf, CreateOps
  <1>2. QED
    BY <1>1 DEF IInv, Core, LocksExclusive

LEMMA ReportKeeps ==
  ASSUME IInv, NEW t \in Threads, NEW u \in Uids, pc[t] # "idle",
         req[t].op \in CreateOps, vdisk[u] = req[t].name, Report(t, u),
         UNCHANGED <<vdisk, made>>
  PROVE  Core'
  <1> USE DEF IInv, TypeOK, Core, Report, Return, Goto, PhaseInv, PhaseOK
  <1>0. req[t] \in Request /\ req[t] # None /\ req[t].name # None
    BY FlashCopyAssumption DEF CreatorInv, Names, Request
  <1>1. LocksHeld' /\ LocksExclusive'
    BY DEF LocksHeld, LocksExclusive
  <1>2. PhaseInv'
    BY DEF IsCopy
  <1>3. CreatorInv'
    BY <1>0, CreatorsDiffer DEF CreatorInv, IsCopy
  <1>4. acked[u] # None => (acked[u].op = "createSnapshot" <=> req[t].op = "createSnapshot")
    BY <1>0, FlashCopyAssumption DEF CreatorInv, ObjectInv, IsCopy, CreateOps
  <1>5. DeleterInv'
    BY <1>0, <1>4 DEF DeleterInv
  <1>6. ObjectInv'
    BY <1>0 DEF ObjectInv, CreatorInv, IsCopy, CreateOps
  <1>7. ReportedExists'
    BY <1>0, FlashCopyAssumption DEF ReportedExists, Exists
  <1>8. DeletedVolumeGone'
    <2> SUFFICES ASSUME NEW x \in gone, (acked[x].op)' = "createVolume"
                 PROVE  vdisk[x] = None
      BY DEF DeletedVolumeGone, Exists
    <2>1. x \in Uids /\ acked[x] # None /\ acked[x].op \in CreateOps
      BY DEF ObjectInv
    <2>2. acked[x].op = "createVolume"
      BY <1>0, <1>4, <2>1 DEF CreateOps
    <2>3. QED
      BY <2>1, <2>2, FlashCopyAssumption DEF DeletedVolumeGone, Exists
  <1>9. QED
    BY <1>1, <1>2, <1>3, <1>5, <1>6, <1>7, <1>8

(* A deletion is reported, of an object that is not there or, if it is no  *)
(* volume, may still be.                                                   *)
LEMMA DeletedKeeps ==
  ASSUME IInv, NEW t \in Threads, pc[t] \in {"look", "rmvolume"}, Deleted(t),
         req[t].op # "expandVolume", UNCHANGED made,
         \/ UNCHANGED vdisk /\ (req[t].op = "deleteSnapshot" \/ vdisk[mine[t]] = None)
         \/ vdisk' = [vdisk EXCEPT ![mine[t]] = None]
  PROVE  Core'
  <1> USE DEF IInv, TypeOK, Core, Deleted, Return, Goto, PhaseInv, PhaseOK
  <1>0. /\ req[t] \in Request /\ req[t] # None /\ mine[t] \in Uids
        /\ IsCopy(t) => acked[mine[t]] = None
        /\ ~ IsCopy(t) => acked[mine[t]] # None /\ mine[t] \in deleting
        /\ \A x \in Uids : vdisk'[x] = vdisk[x] \/ (x = mine[t] /\ vdisk'[x] = None)
    BY DEF CreatorInv, DeleterInv, CreateOps, Request, Ops, IsCopy
  <1>1. LocksHeld' /\ LocksExclusive'
    BY DEF LocksHeld, LocksExclusive
  <1>2. PhaseInv'
    BY DEF IsCopy
  <1>3. ASSUME NEW v \in Threads, v # t, req[v] # None, req[v].op \in CreateOps, pc[v] # "find"
        PROVE  \A x \in Uids : vdisk[x] = req[v].name => x # mine[t]
    <2>1. CASE IsCopy(t)
      BY <1>0, <1>3, <2>1, CreatorsDiffer DEF CreatorInv, IsCopy, CreateOps
    <2>2. CASE ~ IsCopy(t)
      BY <1>0, <1>3, <2>2 DEF CreatorInv
    <2>3. QED
      BY <2>1, <2>2
  <1>4. CreatorInv'
    <2> SUFFICES ASSUME NEW v \in Threads, v # t, req[v] # None, req[v].op \in CreateOps
                 PROVE  /\ req[v].name \in IF IsCopy(v) THEN VolumeNames ELSE SnapshotNames
                        /\ pc[v] # "find" =>
                             \A x \in Uids : vdisk'[x] = req[v].name <=> x = mine[v]
                        /\ mine[v] # None => acked[mine[v]] = None
      BY DEF CreatorInv, IsCopy
    <2>1. req[v].name # None
      BY FlashCopyAssumption DEF CreatorInv, Names
    <2>2. QED
      BY <1>0, <1>3, <2>1 DEF CreatorInv
  <1>5. DeleterInv'
    BY <1>0 DEF DeleterInv
  <1>6. ObjectInv'
    BY <1>0 DEF ObjectInv
  <1>7. ReportedExists'
    BY <1>0, FlashCopyAssumption DEF ReportedExists, Exists
  <1>8. DeletedVolumeGone'
    BY <1>0 DEF DeletedVolumeGone, Exists, DeleterInv, CreateOps
  <1>9. QED
    BY <1>1, <1>2, <1>4, <1>5, <1>6, <1>7, <1>8

-----------------------------------------------------------------------------
(* The actions.                                                            *)

LEMMA CoreInit == Init => Core
  <1> SUFFICES ASSUME Init PROVE Core
    OBVIOUS
  <1> USE DEF Init
  <1>1. PICK n \in VolumeNames :
          /\ vdisk = [u \in Uids |-> IF u = 1 THEN n ELSE None]
          /\ acked = [u \in Uids |-> IF u = 1
                        THEN [op |-> "createVolume", name |-> n, uid |-> None] ELSE None]
    OBVIOUS
  <1>2. LocksHeld /\ LocksExclusive /\ CreatorInv /\ DeleterInv
    BY DEF LocksHeld, LocksExclusive, CreatorInv, DeleterInv
  <1>3. PhaseInv
    BY DEF PhaseInv, PhaseOK
  <1>4. ObjectInv
    BY <1>1, FlashCopyAssumption DEF ObjectInv, CreateOps, Uids
  <1>5. ReportedExists /\ DeletedVolumeGone
    BY <1>1, FlashCopyAssumption DEF ReportedExists, DeletedVolumeGone, Exists, Names
  <1>6. QED
    BY <1>2, <1>3, <1>4, <1>5 DEF Core

LEMMA CallKeeps == ASSUME IInv, NEW t \in Threads, Call(t) PROVE Core'
  <1> USE DEF IInv, TypeOK, Core, Goto
  <1>1. PICK r \in Allowed :
          /\ LockOf(r) \notin ids_in_use
          /\ ids_in_use' = ids_in_use \union {LockOf(r)}
          /\ req' = [req EXCEPT ![t] = r]
          /\ pc' = [pc EXCEPT ![t] = IF r.op \in CreateOps THEN "find" ELSE "look"]
          /\ mine' = [mine EXCEPT ![t] = IF r.op \in CreateOps THEN None ELSE r.uid]
          /\ deleting' = IF r.op \in {"deleteVolume", "deleteSnapshot"}
                           THEN deleting \union {r.uid} ELSE deleting
          /\ UNCHANGED <<vdisk, made, acked, gone>>
    BY DEF Call, array
  <1>2. /\ r \in Request /\ r # None
        /\ r.op = "createVolume" => r.name \in VolumeNames
        /\ r.op = "createSnapshot" => r.name \in SnapshotNames
        /\ r.op \notin CreateOps =>
             /\ r.uid \in Uids /\ acked[r.uid] # None
             /\ r.op = "deleteSnapshot" <=> acked[r.uid].op = "createSnapshot"
    BY FlashCopyAssumption DEF Allowed, Reported, Request, Ops, CreateOps, Names
  <1>3. LocksHeld' /\ LocksExclusive'
    BY <1>1, <1>2 DEF LocksHeld, LocksExclusive
  <1>4. PhaseInv'
    BY <1>1, <1>2, FlashCopyAssumption DEF PhaseInv, PhaseOK, IsCopy, CreateOps, Request, Ops
  <1>5. CreatorInv'
    BY <1>1, <1>2, FlashCopyAssumption DEF CreatorInv, IsCopy, CreateOps
  <1>6. DeleterInv'
    BY <1>1, <1>2, FlashCopyAssumption DEF DeleterInv, CreateOps, Request, Ops
  <1>7. ObjectInv' /\ ReportedExists' /\ DeletedVolumeGone'
    BY <1>1 DEF ObjectInv, ReportedExists, DeletedVolumeGone, Exists
  <1>8. QED
    BY <1>3, <1>4, <1>5, <1>6, <1>7

LEMMA FindKeeps == ASSUME IInv, NEW t \in Threads, Find(t) PROVE Core'
  <1> USE DEF IInv, Core, PhaseInv, PhaseOK
  <1>1. CASE Named(req[t].name) = {} /\ Continue(t, IF IsCopy(t) THEN "mkvolume" ELSE "checkSource")
                 /\ UNCHANGED objects
    <2>1. \A u \in Uids : vdisk[u] # req[t].name
      BY <1>1 DEF Named
    <2>2. QED
      BY <1>1, <2>1, ContinueKeeps DEF Find, Continue, Phase, IsCopy
  <1>2. ASSUME NEW u \in Named(req[t].name), Report(t, u), UNCHANGED <<vdisk, made>>
        PROVE  Core'
    BY <1>2, ReportKeeps DEF Find, Named
  <1>3. CASE Return(t) /\ UNCHANGED objects
    BY <1>3, ReturnKeeps DEF Find
  <1>4. QED
    BY <1>1, <1>2, <1>3 DEF Find, Reject, array, report, objects

LEMMA MakeVolumeKeeps == ASSUME IInv, NEW t \in Threads, MakeVolume(t) PROVE Core'
  <1> USE DEF IInv, TypeOK, Core, Goto, report
  <1>1. CASE Reject(t)
    BY <1>1, ReturnKeeps DEF MakeVolume, Reject, array, objects
  <1>2. CASE /\ made < MaxVdisks
             /\ made' = made + 1
             /\ vdisk' = [vdisk EXCEPT ![made + 1] = req[t].name]
             /\ mine' = [mine EXCEPT ![t] = made + 1]
             /\ pc' = [pc EXCEPT ![t] = IF IsCopy(t) THEN "readBack" ELSE "mkfcmap"]
             /\ UNCHANGED <<ids_in_use, req, acked, deleting, gone>>
    <2> DEFINE u == made + 1
    <2>1. /\ u \in Uids /\ acked[u] = None /\ vdisk[u] = None /\ made \in Nat /\ u # None
          /\ \A x \in Uids : acked[x] # None => x <= made /\ x # u
      BY <1>2, FlashCopyAssumption DEF Uids, ObjectInv
    <2>2. /\ req[t] # None /\ req[t].op \in CreateOps /\ req[t].name # None
          /\ mine[t] = None /\ pc[t] = "mkvolume"
      BY FlashCopyAssumption DEF MakeVolume, PhaseInv, PhaseOK, CreatorInv, Names
    <2>3. LocksHeld' /\ LocksExclusive'
      BY <1>2 DEF LocksHeld, LocksExclusive
    <2>4. PhaseInv'
      BY <1>2, <2>1, <2>2 DEF PhaseInv, PhaseOK, IsCopy
    <2>5. CreatorInv'
      <3> SUFFICES ASSUME NEW v \in Threads, req[v] # None, req[v].op \in CreateOps
                   PROVE  /\ req[v].name \in IF IsCopy(v) THEN VolumeNames ELSE SnapshotNames
                          /\ pc'[v] # "find" =>
                               \A x \in Uids : vdisk'[x] = req[v].name <=> x = mine'[v]
                          /\ mine'[v] # None => acked[mine'[v]] = None
        BY <1>2 DEF CreatorInv, IsCopy
      <3>1. CASE v = t
        BY <1>2, <2>1, <2>2, <3>1, FlashCopyAssumption DEF CreatorInv
      <3>2. CASE v # t
        <4>1. req[v].name # req[t].name /\ req[v].name # None
          BY <2>2, <3>2, CreatorsDiffer, FlashCopyAssumption DEF CreatorInv, Names
        <4>2. QED
          BY <1>2, <2>1, <2>2, <3>2, <4>1 DEF CreatorInv
      <3>3. QED
        BY <3>1, <3>2
    <2>6. DeleterInv'
      BY <1>2, <2>2 DEF DeleterInv
    <2>7. ObjectInv'
      BY <1>2, <2>1 DEF ObjectInv, Uids
    <2>8. ReportedExists' /\ DeletedVolumeGone'
      BY <1>2, <2>1, <2>2 DEF ReportedExists, DeletedVolumeGone, Exists, ObjectInv
    <2>9. QED
      BY <2>3, <2>4, <2>5, <2>6, <2>7, <2>8
  <1>3. QED
    BY <1>1, <1>2 DEF MakeVolume

(* The steps that neither change nor report an object.                     *)
LEMMA QuietKeeps ==
  ASSUME IInv, NEW t \in Threads,
         \/ CheckSource(t) \/ CopySource(t) \/ MakeMap(t) \/ UndoMap(t)
         \/ RemoveMaps(t) \/ StopMap(t) \/ RemoveMap(t) \/ Expand(t) \/ Fail(t)
  PROVE  Core'
  <1> USE DEF IInv, Core, PhaseInv, array, report, objects
  <1>1. CASE CheckSource(t)
    <2>1. CASE Continue(t, "mkvolume") /\ UNCHANGED objects
      BY <1>1, <2>1, ContinueKeeps DEF CheckSource, Continue, Phase, PhaseOK
    <2>2. CASE Reject(t)
      BY <1>1, <2>2, ReturnKeeps DEF CheckSource, Reject
    <2>3. QED
      BY <1>1, <2>1, <2>2 DEF CheckSource
  <1>2. CASE CopySource(t)
    <2>1. CASE Continue(t, "mkfcmap") /\ UNCHANGED objects
      BY <1>2, <2>1, ContinueKeeps DEF CopySource, Continue, Phase, PhaseOK, IsCopy, CreateOps
    <2>2. CASE Refused(t)
      BY <1>2, <2>2, ErrorKeeps DEF CopySource, Refused
    <2>3. QED
      BY <1>2, <2>1, <2>2 DEF CopySource
  <1>3. CASE MakeMap(t)
    <2>1. CASE Continue(t, "startfcmap") /\ UNCHANGED objects
      BY <1>3, <2>1, ContinueKeeps DEF MakeMap, Continue, Phase, PhaseOK
    <2>2. CASE Refused(t)
      BY <1>3, <2>2, ErrorKeeps DEF MakeMap, Refused
    <2>3. QED
      BY <1>3, <2>1, <2>2 DEF MakeMap
  <1>4. CASE UndoMap(t)
    <2>1. CASE IsCopy(t) /\ RollBack(t, "look") /\ UNCHANGED objects
      BY <1>4, <2>1, ContinueKeeps DEF UndoMap, RollBack, Phase, PhaseOK, IsCopy
    <2>2. CASE Return(t) /\ UNCHANGED objects
      BY <1>4, <2>2, ReturnKeeps DEF UndoMap
    <2>3. CASE ~ IsCopy(t) /\ Continue(t, "undoVolume") /\ UNCHANGED objects
      BY <1>4, <2>3, ContinueKeeps DEF UndoMap, Continue, Phase, PhaseOK, IsCopy, CreateOps
    <2>4. CASE Refused(t)
      BY <1>4, <2>4, ErrorKeeps DEF UndoMap, Refused
    <2>5. QED
      BY <1>4, <2>1, <2>2, <2>3, <2>4 DEF UndoMap
  <1>5. CASE RemoveMaps(t)
    <2>1. ASSUME NEW p \in {"rmMaps", AfterMaps(t, plan[t].own)}, Goto(t, p),
                 UNCHANGED <<ids_in_use, req, mine>>, UNCHANGED objects
          PROVE  Core'
      BY <1>5, <2>1, ContinueKeeps DEF RemoveMaps, AfterMaps, Phase, PhaseOK
    <2>2. CASE Refused(t)
      BY <1>5, <2>2, ErrorKeeps DEF RemoveMaps, Refused
    <2>3. QED
      BY <1>5, <2>1, <2>2 DEF RemoveMaps
  <1>6. CASE StopMap(t)
    <2>1. CASE Continue(t, "rmMap") /\ UNCHANGED objects
      BY <1>6, <2>1, ContinueKeeps DEF StopMap, Continue, Phase, PhaseOK
    <2>2. CASE Refused(t)
      BY <1>6, <2>2, ErrorKeeps DEF StopMap, Refused
    <2>3. QED
      BY <1>6, <2>1, <2>2 DEF StopMap
  <1>7. CASE RemoveMap(t)
    <2>1. CASE Continue(t, "rmvolume") /\ UNCHANGED objects
      BY <1>7, <2>1, ContinueKeeps DEF RemoveMap, Continue, Phase, PhaseOK
    <2>2. CASE Refused(t)
      BY <1>7, <2>2, ErrorKeeps DEF RemoveMap, Refused
    <2>3. QED
      BY <1>7, <2>1, <2>2 DEF RemoveMap
  <1>8. CASE Expand(t)
    BY <1>8, ReturnKeeps DEF Expand, Reject
  <1>9. CASE Fail(t)
    BY <1>9, ErrorKeeps DEF Fail
  <1>10. QED
    BY <1>1, <1>2, <1>3, <1>4, <1>5, <1>6, <1>7, <1>8, <1>9

LEMMA ReadBackKeeps ==
  ASSUME IInv, NEW t \in Threads, ReadBack(t) \/ StartMap(t)
  PROVE  Core'
  <1> USE DEF IInv, TypeOK, Core, PhaseInv, array, report, objects
  <1>1. /\ pc[t] \in {"readBack", "startfcmap"}
        /\ mine[t] \in Uids /\ req[t] # None /\ req[t].op \in CreateOps
        /\ vdisk[mine[t]] = req[t].name
    BY FlashCopyAssumption DEF ReadBack, StartMap, PhaseOK, CreatorInv, IsCopy, CreateOps
  <1>2. CASE Report(t, mine[t]) /\ UNCHANGED <<vdisk, made>>
    BY <1>1, <1>2, ReportKeeps
  <1>3. CASE Reject(t)
    BY <1>1, <1>3, ReturnKeeps DEF Reject
  <1>4. CASE Continue(t, "copySource") /\ pc[t] = "readBack" /\ UNCHANGED objects
    BY <1>1, <1>4, ContinueKeeps DEF Continue, Phase, PhaseOK
  <1>5. CASE Refused(t)
    BY <1>1, <1>5, ErrorKeeps DEF Refused
  <1>6. QED
    BY <1>2, <1>3, <1>4, <1>5 DEF ReadBack, StartMap

LEMMA LookKeeps == ASSUME IInv, NEW t \in Threads, Look(t) PROVE Core'
  <1> USE DEF IInv, TypeOK, Core, PhaseInv, array, report, objects
  <1>1. mine[t] \in Uids /\ mine[t] # None /\ pc[t] = "look"
    BY DEF Look, PhaseOK
  <1>2. CASE Refused(t)
    BY <1>1, <1>2, ErrorKeeps DEF Refused
  <1>3. CASE /\ Deleted(t) /\ req[t].op # "expandVolume" /\ UNCHANGED <<vdisk, made>>
             /\ ~ (Exists(mine[t]) /\ (req[t].op = "deleteSnapshot" => fcmap[mine[t]] # None))
    BY <1>1, <1>3, DeletedKeeps DEF Exists
  <1>4. ASSUME NEW p \in {"rmMaps", AfterMaps(t, fcmap[mine[t]] # None)}, Goto(t, p),
               UNCHANGED <<ids_in_use, req, mine>>, UNCHANGED objects
        PROVE  Core'
    <2>1. PhaseOK(t, p) /\ p \in Phase
      BY <1>1, <1>4 DEF AfterMaps, Phase, PhaseOK
    <2>2. QED
      BY <1>1, <1>4, <2>1, ContinueKeeps
  <1>5. QED
    BY <1>2, <1>3, <1>4 DEF Look

LEMMA RemoveVolumeKeeps == ASSUME IInv, NEW t \in Threads, RemoveVolume(t) PROVE Core'
  <1> USE DEF IInv, Core, PhaseInv, array, report, objects
  <1>1. CASE Refused(t)
    BY <1>1, ErrorKeeps DEF RemoveVolume, Refused
  <1>2. CASE Deleted(t) /\ vdisk' = [vdisk EXCEPT ![mine[t]] = None] /\ UNCHANGED made
    BY <1>2, DeletedKeeps DEF RemoveVolume, PhaseOK
  <1>3. QED
    BY <1>1, <1>2 DEF RemoveVolume

LEMMA UndoVolumeKeeps == ASSUME IInv, NEW t \in Threads, UndoVolume(t) PROVE Core'
  <1> USE DEF IInv, TypeOK, Core, PhaseInv, report, objects
  <1>1. CASE Refused(t)
    BY <1>1, ErrorKeeps DEF UndoVolume, Refused, array
  <1>2. CASE /\ vdisk' = [u \in Uids |-> IF u \in Named(req[t].name) THEN None ELSE vdisk[u]]
             /\ Return(t) /\ UNCHANGED <<made, acked, deleting, gone>>
    <2> USE DEF Return, Goto
    <2>1. /\ req[t] # None /\ req[t].op = "createSnapshot" /\ pc[t] = "undoVolume"
          /\ \A x \in Uids : \/ vdisk'[x] = vdisk[x]
                             \/ x = mine[t] /\ acked[x] = None /\ vdisk'[x] = None
          /\ \A x \in Uids : vdisk[x] = req[t].name <=> x = mine[t]
      BY <1>2, FlashCopyAssumption DEF UndoVolume, PhaseOK, CreatorInv, CreateOps, Named
    <2>2. LocksHeld' /\ LocksExclusive'
      BY <1>2, <2>1 DEF LocksHeld, LocksExclusive
    <2>3. PhaseInv'
      BY <1>2 DEF PhaseOK, IsCopy
    <2>4. CreatorInv'
      <3> SUFFICES ASSUME NEW v \in Threads, v # t, req[v] # None, req[v].op \in CreateOps
                   PROVE  /\ req[v].name \in IF IsCopy(v) THEN VolumeNames ELSE SnapshotNames
                          /\ pc[v] # "find" =>
                               \A x \in Uids : vdisk'[x] = req[v].name <=> x = mine[v]
                          /\ mine[v] # None => acked[mine[v]] = None
        BY <1>2 DEF CreatorInv, IsCopy
      <3>1. req[v].name # req[t].name /\ req[v].name # None
        BY <2>1, CreatorsDiffer, FlashCopyAssumption DEF CreatorInv, CreateOps, Names
      <3>2. QED
        BY <2>1, <3>1 DEF CreatorInv
    <2>5. DeleterInv'
      BY <1>2 DEF DeleterInv
    <2>6. ObjectInv'
      BY <1>2, <2>1 DEF ObjectInv
    <2>7. ReportedExists' /\ DeletedVolumeGone'
      BY <1>2, <2>1 DEF ReportedExists, DeletedVolumeGone, Exists
    <2>8. QED
      BY <2>2, <2>3, <2>4, <2>5, <2>6, <2>7
  <1>3. QED
    BY <1>1, <1>2 DEF UndoVolume

LEMMA CrashKeeps == ASSUME IInv, Crash PROVE Core'
  <1> USE DEF IInv, Core, Crash, array, report
  <1>1. LocksHeld' /\ LocksExclusive' /\ CreatorInv' /\ DeleterInv'
    BY DEF LocksHeld, LocksExclusive, CreatorInv, DeleterInv
  <1>2. PhaseInv'
    BY DEF PhaseInv, PhaseOK
  <1>3. ObjectInv' /\ ReportedExists' /\ DeletedVolumeGone'
    BY DEF ObjectInv, ReportedExists, DeletedVolumeGone, Exists
  <1>4. QED
    BY <1>1, <1>2, <1>3

(* A step that leaves everything Core speaks of alone.                     *)
LEMMA StutterKeeps ==
  ASSUME IInv, UNCHANGED <<ids_in_use, pc, req, mine, objects>>
  PROVE  Core'
  BY DEF IInv, Core, objects, LocksHeld, LocksExclusive, PhaseInv, PhaseOK, IsCopy,
         CreatorInv, DeleterInv, ObjectInv, ReportedExists, DeletedVolumeGone, Exists

THEOREM CoreStep == IInv /\ [Next]_vars => Core'
  <1> SUFFICES ASSUME IInv, [Next]_vars PROVE Core'
    OBVIOUS
  <1>1. ASSUME NEW t \in Threads, Call(t) \/ Step(t) \/ Fail(t) PROVE Core'
    BY <1>1, CallKeeps, FindKeeps, MakeVolumeKeeps, ReadBackKeeps, QuietKeeps, LookKeeps,
       RemoveVolumeKeeps, UndoVolumeKeeps DEF Step
  <1>2. ASSUME NEW u \in Uids, FinishCopy(u) PROVE Core'
    BY <1>2, StutterKeeps DEF FinishCopy, local, report, objects
  <1>3. CASE Crash
    BY <1>3, CrashKeeps
  <1>4. CASE UNCHANGED vars
    BY <1>4, StutterKeeps DEF vars, objects
  <1>5. QED
    BY <1>1, <1>2, <1>3, <1>4 DEF Next

-----------------------------------------------------------------------------
(* Types.                                                                  *)

LEMMA ThreadTypes ==
  ASSUME IInv, NEW t \in Threads,
         \/ Return(t)
         \/ \E p \in Phase : Continue(t, p) \/ RollBack(t, p)
         \/ pc[t] # "idle" /\ OnError(t)
  PROVE  /\ ids_in_use' \subseteq ids_in_use
         /\ pc' \in [Threads -> Phase]
         /\ req' \in [Threads -> Request \union {None}]
         /\ mine' \in [Threads -> Uids \union {None}]
         /\ plan' \in [Threads -> Plan]
         /\ tries' \in [Threads -> 0 .. RollbackTries]
  <1> USE FlashCopyAssumption DEF IInv, TypeOK, Goto
  <1>1. CASE Return(t)
    BY <1>1 DEF Return, Phase, Plan, NoPlan
  <1>2. ASSUME NEW p \in Phase, UNCHANGED <<ids_in_use, req, mine, plan>>, Goto(t, p),
               \/ UNCHANGED tries
               \/ tries' = [tries EXCEPT ![t] = RollbackTries]
               \/ tries[t] > 1 /\ tries' = [tries EXCEPT ![t] = @ - 1]
        PROVE  /\ ids_in_use' \subseteq ids_in_use
               /\ pc' \in [Threads -> Phase]
               /\ req' \in [Threads -> Request \union {None}]
               /\ mine' \in [Threads -> Uids \union {None}]
               /\ plan' \in [Threads -> Plan]
               /\ tries' \in [Threads -> 0 .. RollbackTries]
    BY <1>2
  <1>3. CASE \E p \in Phase : Continue(t, p) \/ RollBack(t, p)
    BY <1>2, <1>3 DEF Continue, RollBack
  <1>4. CASE pc[t] # "idle" /\ OnError(t)
    BY <1>1, <1>2, <1>4 DEF OnError, RollBack, TryAgain, Phase
  <1>5. QED
    BY <1>1, <1>3, <1>4

LEMMA TypeStep == IInv /\ [Next]_vars => TypeOK'
  <1> SUFFICES ASSUME IInv, [Next]_vars PROVE TypeOK'
    OBVIOUS
  <1> USE FlashCopyAssumption DEF IInv, TypeOK, array, report, local
  <1>1. ASSUME NEW t \in Threads, Call(t) PROVE TypeOK'
    <2>1. Allowed \subseteq Request
      BY DEF Allowed, Reported, Request, Ops, CreateOps, Names
    <2>2. PICK r \in Allowed :
            /\ ids_in_use' = ids_in_use \union {LockOf(r)}
            /\ req' = [req EXCEPT ![t] = r]
            /\ pc' = [pc EXCEPT ![t] = IF r.op \in CreateOps THEN "find" ELSE "look"]
            /\ mine' = [mine EXCEPT ![t] = IF r.op \in CreateOps THEN None ELSE r.uid]
            /\ deleting' = IF r.op \in {"deleteVolume", "deleteSnapshot"}
                             THEN deleting \union {r.uid} ELSE deleting
      BY <1>1 DEF Call, Goto
    <2>3. r \in Request /\ r.uid \in Uids \union {None}
      BY <2>1, <2>2 DEF Request
    <2>4. r.op \in {"deleteVolume", "deleteSnapshot"} => r.uid \in Uids
      BY <2>2 DEF Allowed, Reported, CreateOps
    <2>5. QED
      BY <1>1, <2>2, <2>3, <2>4 DEF Call, Phase
  <1>2. ASSUME NEW t \in Threads, Step(t) PROVE TypeOK'
    <2> USE DEF Refused, Reject
    <2>1. CASE Find(t)
      BY <1>2, <2>1, ThreadTypes DEF Find, Report, Named, Phase, Core, PhaseInv, PhaseOK
    <2>2. CASE CheckSource(t) \/ CopySource(t) \/ Expand(t) \/ ReadBack(t)
      BY <1>2, <2>2, ThreadTypes
      DEF CheckSource, CopySource, Expand, ReadBack, Report, Phase, Core, PhaseInv, PhaseOK
    <2>3. CASE MakeVolume(t)
      <3>1. CASE Reject(t)
        BY <2>3, <3>1, ThreadTypes
      <3>2. CASE ~ Reject(t)
        <4>1. req[t].name \in Names \union {None} /\ made + 1 \in Uids
          BY <2>3, <3>2 DEF MakeVolume, Core, PhaseInv, PhaseOK, Request, Uids
        <4>2. /\ made' \in 1 .. MaxVdisks
              /\ vdisk' = [vdisk EXCEPT ![made + 1] = req[t].name]
              /\ mine' = [mine EXCEPT ![t] = made + 1]
              /\ pc' \in [Threads -> Phase]
              /\ UNCHANGED <<fcmap, copied, ids_in_use, req, plan, tries, report, failures,
                             crashes>>
          BY <2>3, <3>2, <4>1 DEF MakeVolume, Goto, Phase, Uids
        <4>3. QED
          BY <4>1, <4>2
      <3>3. QED
        BY <3>1, <3>2
    <2>4. CASE MakeMap(t) \/ StartMap(t) \/ StopMap(t) \/ RemoveMap(t)
      <3>1. CASE Refused(t)
        BY <2>4, <3>1, ThreadTypes DEF MakeMap, StartMap, StopMap, RemoveMap
      <3>2. req[t] \in Request /\ mine[t] \in Uids
        BY <2>4 DEF MakeMap, StartMap, StopMap, RemoveMap, Core, PhaseInv, PhaseOK
      <3>3. CASE MakeMap(t) /\ ~ Refused(t)
        <4>1. [source |-> req[t].uid, copy |-> IsCopy(t), status |-> "idle"] \in Mapping
          BY <3>2, <3>3 DEF MakeMap, Exists, Request, Mapping, IsCopy
        <4>2. QED
          BY <3>2, <3>3, <4>1, ThreadTypes DEF MakeMap, Phase
      <3>4. ASSUME NEW c \in {"copying", "stopped"},
                   fcmap' = [fcmap EXCEPT ![mine[t]].status = c] \/ UNCHANGED fcmap,
                   fcmap[mine[t]] # None
            PROVE  fcmap' \in [Uids -> Mapping \union {None}]
        BY <3>2, <3>4 DEF Mapping
      <3>5. CASE StartMap(t) /\ ~ Refused(t)
        BY <3>2, <3>4, <3>5, ThreadTypes DEF StartMap, Report
      <3>6. CASE StopMap(t) /\ ~ Refused(t)
        <4>1. fcmap[mine[t]] \in Mapping
          BY <3>2, <3>6 DEF StopMap
        <4>2. fcmap' = [fcmap EXCEPT ![mine[t]].status = "stopped"] \/ UNCHANGED fcmap
          BY <3>2, <3>6, <4>1 DEF StopMap, Mapping
        <4>3. QED
          BY <3>2, <3>4, <3>6, <4>1, <4>2, ThreadTypes DEF StopMap, Phase
      <3>7. CASE RemoveMap(t) /\ ~ Refused(t)
        BY <3>7, ThreadTypes DEF RemoveMap, Phase
      <3>8. QED
        BY <2>4, <3>1, <3>3, <3>5, <3>6, <3>7
    <2>5. CASE UndoMap(t) \/ UndoVolume(t)
      BY <1>2, <2>5, ThreadTypes DEF UndoMap, UndoVolume, Phase
    <2>6. ASSUME Deleted(t), pc[t] \in {"look", "rmvolume"}, req[t].op # "expandVolume"
          PROVE  gone' \subseteq deleting'
      BY <2>6 DEF Deleted, IsCopy, Core, PhaseInv, PhaseOK, DeleterInv, CreateOps
    <2>7. CASE Look(t)
      <3>1. CASE Refused(t)
        BY <2>7, <3>1, ThreadTypes DEF Look
      <3>2. CASE Deleted(t) /\ req[t].op # "expandVolume" /\ UNCHANGED <<array, failures, crashes>>
        BY <2>6, <2>7, <3>2, ThreadTypes DEF Look, Deleted
      <3>3. ASSUME NEW maps \in SUBSET Uids, NEW own \in BOOLEAN,
                   plan' = [plan EXCEPT ![t] = [maps |-> maps, own |-> own]],
                   NEW p \in Phase, Goto(t, p),
                   UNCHANGED <<array, ids_in_use, req, mine, tries, report, failures, crashes>>
            PROVE  TypeOK'
        BY <3>3 DEF Goto, Plan
      <3>4. MapsFrom(mine[t]) \in SUBSET Uids /\ mine[t] \in Uids
        BY <2>7 DEF MapsFrom, Look, Core, PhaseInv, PhaseOK
      <3>5. QED
        BY <2>7, <3>1, <3>2, <3>3, <3>4 DEF Look, AfterMaps, Phase
    <2>8. CASE RemoveMaps(t)
      <3>1. CASE Refused(t)
        BY <2>8, <3>1, ThreadTypes DEF RemoveMaps
      <3>2. PICK x \in plan[t].maps :
              Refused(t) \/
              /\ fcmap' = [fcmap EXCEPT ![x] = None]
              /\ plan' = [plan EXCEPT ![t].maps = plan[t].maps \ {x}]
              /\ pc'= [pc EXCEPT ![t] = IF plan[t].maps \ {x} # {} THEN "rmMaps"
                                          ELSE AfterMaps(t, plan[t].own)]
              /\ UNCHANGED <<vdisk, copied, made, ids_in_use, req, mine, tries, report,
                             failures, crashes>>
        BY <2>8 DEF RemoveMaps, Goto
      <3>3. plan[t] \in Plan /\ AfterMaps(t, plan[t].own) \in Phase /\ "rmMaps" \in Phase
        BY DEF AfterMaps, Phase
      <3>4. CASE ~ Refused(t)
        <4>1. plan' \in [Threads -> Plan]
          BY <3>2, <3>3, <3>4 DEF Plan
        <4>2. QED
          BY <3>2, <3>3, <3>4, <4>1
      <3>5. QED
        BY <3>1, <3>4
    <2>9. CASE RemoveVolume(t)
      <3>1. CASE Refused(t)
        BY <2>9, <3>1, ThreadTypes DEF RemoveVolume
      <3>2. CASE ~ Refused(t)
        BY <2>6, <2>9, <3>2, ThreadTypes
        DEF RemoveVolume, Deleted, Core, PhaseInv, PhaseOK
      <3>3. QED
        BY <3>1, <3>2
    <2>10. QED
      BY <1>2, <2>1, <2>2, <2>3, <2>4, <2>5, <2>7, <2>8, <2>9 DEF Step
  <1>3. ASSUME NEW t \in Threads, Fail(t) PROVE TypeOK'
    BY <1>3, ThreadTypes DEF Fail
  <1>4. ASSUME NEW u \in Uids, FinishCopy(u) PROVE TypeOK'
    BY <1>4 DEF FinishCopy, Mapping
  <1>5. CASE Crash
    BY <1>5 DEF Crash, Phase, Plan, NoPlan
  <1>6. CASE UNCHANGED vars
    BY <1>6 DEF vars
  <1>7. QED
    BY <1>1, <1>2, <1>3, <1>4, <1>5, <1>6 DEF Next

LEMMA TypeInit == Init => TypeOK
  <1> SUFFICES ASSUME Init PROVE TypeOK
    OBVIOUS
  <1> USE FlashCopyAssumption DEF Init, TypeOK
  <1>1. PICK n \in VolumeNames :
          /\ vdisk = [u \in Uids |-> IF u = 1 THEN n ELSE None]
          /\ acked = [u \in Uids |-> IF u = 1
                        THEN [op |-> "createVolume", name |-> n, uid |-> None] ELSE None]
    OBVIOUS
  <1>2. vdisk \in [Uids -> Names \union {None}]
    BY <1>1 DEF Names
  <1>3. acked \in [Uids -> Request \union {None}]
    BY <1>1 DEF Request, Names, Ops, CreateOps
  <1>4. QED
    BY <1>2, <1>3 DEF Phase, Plan, NoPlan

THEOREM Invariance == Spec => []IInv
  <1>1. Init => IInv
    BY TypeInit, CoreInit DEF IInv
  <1>2. IInv /\ [Next]_vars => IInv'
    BY TypeStep, CoreStep DEF IInv
  <1>3. QED
    BY <1>1, <1>2, PTL DEF Spec

-----------------------------------------------------------------------------
(* The array, the requests and the locks keep their types.                 *)
THEOREM TypeCorrect == Spec => []TypeOK
  BY Invariance, PTL DEF IInv

(* No roll-back, no deletion of another object, no failure and no restart  *)
(* ever removes an object that was reported and not asked to be deleted.   *)
THEOREM ReportedStays == Spec => []ReportedExists
  BY Invariance, PTL DEF IInv, Core

(* A volume whose deletion was answered OK is gone.                        *)
THEOREM DeletedIsGone == Spec => []DeletedVolumeGone
  BY Invariance, PTL DEF IInv, Core

(* No two requests are ever processed under one lock.                      *)
THEOREM RequestsExclusive == Spec => []LocksExclusive
  BY Invariance, PTL DEF IInv, Core

-----------------------------------------------------------------------------
(* A roll-back takes the vdisk it removes from its own request's name: it  *)
(* never removes one that somebody was told of.                            *)
RollBackOwn ==
  \A t \in Threads :
    pc[t] = "undoVolume" \/ (pc[t] = "rmvolume" /\ IsCopy(t)) =>
      \A u \in Uids : vdisk[u] = req[t].name => acked[u] = None

THEOREM RollBackUnreported == Spec => []RollBackOwn
  <1>1. IInv => RollBackOwn
    BY FlashCopyAssumption
    DEF IInv, Core, RollBackOwn, PhaseInv, PhaseOK, CreatorInv, IsCopy, CreateOps
  <1>2. QED
    BY <1>1, Invariance, PTL

-----------------------------------------------------------------------------
(* What is reported has its data, and a failed CreateSnapshot leaves no    *)
(* vdisk behind, as long as fewer commands fail than a roll-back has       *)
(* attempts.  The invariant follows a mapping from mkfcmap to the answer.  *)

(* The ends of a mapping exist and its source was reported; what a vdisk   *)
(* holds it holds from its mapping's source.                               *)
MapOK(u) ==
  /\ fcmap[u] # None =>
       /\ Exists(u) /\ Exists(fcmap[u].source) /\ acked[fcmap[u].source] # None
       /\ copied[u] \in {None, fcmap[u].source}
       /\ fcmap[u].status = "copied" => copied[u] # None
  /\ copied[u] # None => u <= made

Undoing == {"look", "rmMaps", "stopMap", "rmMap", "rmvolume"}

(* The mapping of a creator's vdisk was never started.  One that is still  *)
(* there while the creator rolls back has cost a failure for startfcmap    *)
(* and one for each attempt.                                               *)
CopierOK(t) ==
  /\ req[t] = None => mine[t] = None
  /\ req[t] # None /\ req[t].op \in CreateOps =>
       /\ req[t].uid # None => acked[req[t].uid] # None
       /\ req[t].op = "createSnapshot" \/ pc[t] \in {"copySource", "mkfcmap", "startfcmap"} =>
            req[t].uid # None
       /\ pc[t] \in {"undoMap", "undoVolume"} /\ ~ IsCopy(t) => failures >= RollbackTries - tries[t]
       /\ mine[t] # None =>
            /\ copied[mine[t]] = None
            /\ pc[t] \in {"readBack", "copySource", "mkfcmap", "undoVolume"} => fcmap[mine[t]] = None
            /\ fcmap[mine[t]] # None =>
                 /\ fcmap[mine[t]] = [source |-> req[t].uid, copy |-> IsCopy(t), status |-> "idle"]
                 /\ pc[t] = "undoMap" => failures > RollbackTries - tries[t]
                 /\ pc[t] \in Undoing => failures > RollbackTries

(* What the orchestrator was told of u holds, and what it was not told of  *)
(* is in somebody's hands.                                                 *)
Told(u) ==
  acked[u] # None /\ u \notin deleting =>
    HasData(u) /\ (fcmap[u] # None => fcmap[u].status \in {"copying", "copied"})
Held(u) == \E t \in Threads : mine[t] = u

MapInv == \A u \in Uids : MapOK(u)
CopierInv == \A t \in Threads : CopierOK(t)
DataInv ==
  crashes = 0 /\ failures <= RollbackTries =>
    \A u \in Uids : Told(u) /\ (fcmap[u] # None /\ acked[u] = None => Held(u))
RolledBackInv == failures < RollbackTries => SnapshotRolledBack

CopyInv == MapInv /\ CopierInv /\ DataInv /\ RolledBackInv

(* What a step of thread t may do: to other threads and to what only       *)
(* grows, ...                                                              *)
Aside(t) ==
  \A v \in Threads \ {t} :
    pc'[v] = pc[v] /\ req'[v] = req[v] /\ mine'[v] = mine[v] /\ tries'[v] = tries[v]
Grows ==
  /\ crashes' = crashes /\ failures <= failures' /\ made <= made'
  /\ deleting \subseteq deleting'
  /\ \A u \in Uids : acked[u] # None => acked'[u] # None
(* ... to vdisks and mappings, ...                                         *)
Changes(t) ==
  /\ copied' = copied
  /\ \A u \in Uids : \/ vdisk'[u] = vdisk[u]
                     \/ vdisk'[u] = None /\ ~ IsMapped(u)
                     \/ vdisk'[u] # None /\ mine'[t] = u
  /\ \A u \in Uids : fcmap'[u] # fcmap[u] =>
       /\ fcmap'[u] = None \/ (u = mine[t] /\ MapOK(u)')
       /\ \/ acked[u] = None \/ u \in deleting
          \/ IsDone(fcmap[u]) /\ fcmap'[u] = None
(* ... to its own request, and to what it lets go of.                      *)
LetsGo(t) ==
  \/ mine[t] = None \/ mine'[t] = mine[t]
  \/ acked'[mine[t]] # None
  \/ /\ fcmap'[mine[t]] = None \/ failures' > RollbackTries
     /\ vdisk'[mine[t]] \notin SnapshotNames \/ failures' >= RollbackTries
Sound(t) ==
  /\ Aside(t) /\ Grows /\ Changes(t) /\ CopierOK(t)' /\ LetsGo(t)
  /\ \A u \in Uids : acked'[u] # acked[u] /\ DataInv /\ crashes' = 0 /\ failures' <= RollbackTries =>
       Told(u)'

(* A creator's vdisk is in nobody else's hands.                            *)
LEMMA HandsApart ==
  ASSUME IInv, NEW t \in Threads, NEW v \in Threads, t # v,
         req[t] # None, req[v] # None, req[v].op \in CreateOps, mine[v] # None
  PROVE  mine[t] # mine[v]
  <1> USE DEF IInv, TypeOK, Core
  <1>1. mine[v] \in Uids /\ acked[mine[v]] = None
    BY DEF CreatorInv
  <1>2. CASE req[t].op \notin CreateOps
    BY <1>1, <1>2 DEF DeleterInv
  <1>3. CASE req[t].op \in CreateOps
    <2>1. req[t].name # req[v].name
      BY <1>3, CreatorsDiffer
    <2>2. ASSUME mine[t] = mine[v] PROVE FALSE
      <3>1. pc[t] # "find" /\ pc[v] # "find"
        BY <2>2 DEF PhaseInv, PhaseOK
      <3>2. vdisk[mine[v]] = req[v].name /\ vdisk[mine[v]] = req[t].name
        BY <1>1, <1>3, <2>2, <3>1 DEF CreatorInv
      <3>3. QED
        BY <2>1, <3>2
    <2>3. QED
      BY <2>2
  <1>4. QED
    BY <1>2, <1>3

LEMMA SoundMaps ==
  ASSUME IInv, IInv', MapInv, NEW t \in Threads, Grows, Changes(t)
  PROVE  MapInv'
  <1> SUFFICES ASSUME NEW u \in Uids PROVE MapOK(u)'
    BY DEF MapInv
  <1>1. MapOK(u) /\ made \in Nat /\ made' \in Nat /\ u \in Nat /\ made <= made'
    BY DEF MapInv, Grows, IInv, TypeOK, Uids
  <1>2. CASE fcmap'[u] = None
    BY <1>1, <1>2 DEF MapOK, Changes
  <1>3. CASE fcmap'[u] # None /\ fcmap'[u] # fcmap[u]
    BY <1>3 DEF Changes
  <1>4. CASE fcmap'[u] # None /\ fcmap'[u] = fcmap[u]
    <2>1. fcmap[u].source \in Uids
      BY <1>4 DEF IInv, TypeOK, Mapping
    <2>2. IsMapped(u) /\ IsMapped(fcmap[u].source)
      BY <1>4, <2>1 DEF IsMapped, MapsFrom
    <2>3. /\ vdisk[u] # None /\ vdisk[fcmap[u].source] # None
          /\ acked[fcmap[u].source] # None /\ fcmap[u].source # None
      BY <1>1, <1>4 DEF MapOK, Exists
    <2>4. vdisk'[u] # None /\ vdisk'[fcmap[u].source] # None
      BY <2>1, <2>2, <2>3 DEF Changes
    <2>5. acked'[fcmap[u].source] # None /\ copied'[u] = copied[u]
      BY <2>1, <2>3 DEF Grows, Changes
    <2>6. u # None
      BY FlashCopyAssumption
    <2>7. QED
      BY <1>1, <1>4, <2>3, <2>4, <2>5, <2>6 DEF MapOK, Exists
  <1>5. QED
    BY <1>2, <1>3, <1>4

LEMMA SoundCopiers ==
  ASSUME IInv, IInv', CopierInv, NEW t \in Threads, req[t] # None \/ fcmap' = fcmap,
         Aside(t), Grows, Changes(t), CopierOK(t)'
  PROVE  CopierInv'
  <1> SUFFICES ASSUME NEW v \in Threads, v # t PROVE CopierOK(v)'
    BY DEF CopierInv
  <1>0. CASE req[v] = None \/ req[v].op \notin CreateOps
    BY <1>0 DEF CopierInv, CopierOK, Aside
  <1>1. CASE req[v] # None /\ req[v].op \in CreateOps
    <2>1. /\ pc'[v] = pc[v] /\ req'[v] = req[v] /\ mine'[v] = mine[v] /\ tries'[v] = tries[v]
          /\ CopierOK(v) /\ tries[v] \in 0 .. RollbackTries /\ req[v] \in Request
          /\ failures \in Nat /\ failures' \in Nat /\ failures <= failures'
      BY <1>1, FlashCopyAssumption DEF Aside, CopierInv, Grows, IInv, TypeOK
    <2>2. req[v].uid # None => acked'[req[v].uid] # None
      BY <1>1, <2>1 DEF CopierOK, Grows, Request
    <2>3. ASSUME mine[v] # None
          PROVE  copied'[mine[v]] = copied[mine[v]] /\ fcmap'[mine[v]] \in {None, fcmap[mine[v]]}
      BY <1>1, <2>3, HandsApart DEF Changes, IInv, TypeOK
    <2>4. failures >= RollbackTries - tries[v] => failures' >= RollbackTries - tries[v]
      BY <2>1, FlashCopyAssumption
    <2>5. failures > RollbackTries - tries[v] => failures' > RollbackTries - tries[v]
      BY <2>1, FlashCopyAssumption
    <2>6. failures > RollbackTries => failures' > RollbackTries
      BY <2>1, FlashCopyAssumption
    <2>7. QED
      BY <1>1, <2>1, <2>2, <2>3, <2>4, <2>5, <2>6 DEF CopierOK, IsCopy
  <1>2. QED
    BY <1>0, <1>1

LEMMA SoundHands ==
  ASSUME IInv, NEW t \in Threads, Aside(t), NEW u \in Uids, Held(u),
         mine[t] = u => mine'[t] = u
  PROVE  Held(u)'
  <1>1. PICK v \in Threads : mine[v] = u
    BY DEF Held
  <1>2. mine'[v] = u
    BY <1>1 DEF Aside
  <1>3. QED
    BY <1>2 DEF Held

LEMMA SoundData ==
  ASSUME IInv, IInv', MapInv, DataInv, NEW t \in Threads, Sound(t)
  PROVE  DataInv'
  <1> SUFFICES ASSUME crashes' = 0, failures' <= RollbackTries, NEW u \in Uids
               PROVE  Told(u)' /\ (fcmap'[u] # None /\ acked'[u] = None => Held(u)')
    BY DEF DataInv
  <1>1. /\ Told(u) /\ (fcmap[u] # None /\ acked[u] = None => Held(u))
        /\ MapOK(u) /\ u # None
    <2>1. crashes = 0 /\ failures <= RollbackTries
      BY FlashCopyAssumption DEF Sound, Grows, IInv, TypeOK
    <2>2. QED
      BY <2>1, FlashCopyAssumption DEF DataInv, MapInv
  <1>2. /\ copied'[u] = copied[u] /\ (u \in deleting => u \in deleting')
        /\ acked[u] # None => acked'[u] # None
    BY DEF Sound, Grows, Changes
  <1>3. Told(u)'
    <2>1. CASE acked'[u] # acked[u]
      BY <2>1 DEF Sound
    <2>2. CASE acked'[u] = acked[u] /\ (acked[u] = None \/ u \in deleting)
      BY <1>2, <2>2 DEF Told
    <2>3. CASE acked'[u] = acked[u] /\ acked[u] # None /\ u \notin deleting
      <3>1. HasData(u) /\ (fcmap[u] # None => fcmap[u].status \in {"copying", "copied"})
        BY <1>1, <2>3 DEF Told
      <3>2. fcmap'[u] = fcmap[u] \/ (fcmap'[u] = None /\ fcmap[u] # None /\ IsDone(fcmap[u]))
        BY <2>3, FlashCopyAssumption DEF Sound, Changes, IInv, TypeOK, Mapping
      <3>3. CASE acked[u].uid = None \/ copied[u] = acked[u].uid
        BY <1>2, <2>3, <3>1, <3>2, <3>3 DEF Told, HasData
      <3>4. CASE /\ acked[u].uid # None /\ copied[u] # acked[u].uid
                 /\ fcmap'[u] = None /\ fcmap[u] # None /\ IsDone(fcmap[u])
        <4>1. fcmap[u].status = "copied" /\ fcmap[u].source = acked[u].uid
          BY <3>1, <3>4 DEF IsDone, HasData
        <4>2. QED
          BY <1>1, <3>4, <4>1 DEF MapOK
      <3>5. CASE acked[u].uid # None /\ copied[u] # acked[u].uid /\ fcmap'[u] = fcmap[u]
        <4>1. /\ fcmap[u] # None /\ fcmap[u].source = acked[u].uid
              /\ fcmap[u].status \in {"copying", "copied"} /\ vdisk[acked[u].uid] # None
          BY <3>1, <3>5 DEF HasData, Exists
        <4>2. acked[u].uid \in Uids
          BY <4>1 DEF IInv, TypeOK, Mapping
        <4>3. IsMapped(acked[u].uid)
          BY <4>1 DEF IsMapped, MapsFrom
        <4>4. vdisk'[acked[u].uid] # None
          BY <4>1, <4>2, <4>3 DEF Sound, Changes
        <4>5. HasData(u)'
          BY <2>3, <3>5, <4>1, <4>4 DEF HasData, Exists
        <4>6. QED
          BY <3>1, <3>5, <4>5 DEF Told
      <3>6. QED
        BY <3>2, <3>3, <3>4, <3>5
    <2>4. QED
      BY <2>1, <2>2, <2>3
  <1>4. ASSUME fcmap'[u] # None, acked'[u] = None PROVE Held(u)'
    <2>1. mine[t] = u => mine'[t] = u
      <3>1. ASSUME mine[t] = u, mine'[t] # u PROVE failures' > RollbackTries
        BY <1>1, <1>4, <3>1 DEF Sound, LetsGo
      <3>2. QED
        BY <3>1, FlashCopyAssumption DEF IInv, TypeOK
    <2>2. CASE mine[t] = u
      BY <2>1, <2>2 DEF Held
    <2>3. CASE mine[t] # u
      <3>1. fcmap[u] # None /\ acked[u] = None
        BY <1>2, <1>4, <2>3 DEF Sound, Changes
      <3>2. Held(u)
        BY <1>1, <3>1
      <3>3. QED
        BY <2>1, <3>2, SoundHands DEF Sound
    <2>4. QED
      BY <2>2, <2>3
  <1>5. QED
    BY <1>3, <1>4

LEMMA SoundRolled ==
  ASSUME IInv, IInv', RolledBackInv, NEW t \in Threads, Sound(t)
  PROVE  RolledBackInv'
  <1> SUFFICES ASSUME failures' < RollbackTries, crashes' = 0, NEW u \in Uids,
                      vdisk'[u] \in SnapshotNames, acked'[u] = None
               PROVE  Held(u)'
    BY DEF RolledBackInv, SnapshotRolledBack, Held
  <1>1. vdisk'[u] # None
    BY FlashCopyAssumption DEF Names
  <1>2. CASE mine'[t] = u
    BY <1>2 DEF Held
  <1>3. CASE mine'[t] # u
    <2>1. vdisk'[u] = vdisk[u] /\ acked[u] = None
      BY <1>1, <1>3 DEF Sound, Changes, Grows
    <2>2. failures < RollbackTries /\ crashes = 0
      BY FlashCopyAssumption DEF Sound, Grows, IInv, TypeOK
    <2>3. Held(u)
      BY <2>1, <2>2 DEF RolledBackInv, SnapshotRolledBack, Held
    <2>4. mine[t] # u
      <3>1. ASSUME mine[t] = u PROVE failures' >= RollbackTries
        BY <1>3, <3>1, FlashCopyAssumption DEF Sound, LetsGo
      <3>2. QED
        BY <3>1, FlashCopyAssumption DEF IInv, TypeOK
    <2>5. QED
      BY <2>3, <2>4, SoundHands DEF Sound
  <1>4. QED
    BY <1>2, <1>3

LEMMA SoundKeeps ==
  ASSUME IInv, IInv', CopyInv, NEW t \in Threads, req[t] # None \/ fcmap' = fcmap, Sound(t)
  PROVE  CopyInv'
  <1>1. MapInv'
    BY SoundMaps DEF CopyInv, Sound
  <1>2. DataInv' /\ RolledBackInv'
    BY SoundData, SoundRolled DEF CopyInv
  <1>3. CopierInv'
    BY SoundCopiers DEF CopyInv, Sound
  <1>4. QED
    BY <1>1, <1>2, <1>3 DEF CopyInv

-----------------------------------------------------------------------------
(* The steps are sound.                                                    *)

LEMMA DeleterSound ==
  ASSUME IInv, NEW t \in Threads, req[t] # None, req[t].op \notin CreateOps, Grows,
         \/ req'[t] = req[t]
         \/ req'[t] = None /\ mine'[t] = None
  PROVE  CopierOK(t)' /\ LetsGo(t)
  BY DEF IInv, TypeOK, Core, DeleterInv, CopierOK, LetsGo, Grows

LEMMA ReturnSound ==
  ASSUME IInv, NEW t \in Threads, Return(t)
  PROVE  /\ Aside(t) /\ CopierOK(t)'
         /\ req'[t] = None /\ mine'[t] = None
  BY DEF IInv, TypeOK, Return, Goto, Aside, CopierOK

LEMMA GoesOn ==
  ASSUME IInv, NEW t \in Threads, NEW p, NEW n, Goto(t, p), UNCHANGED <<req, mine>>,
         tries' = [tries EXCEPT ![t] = n]
  PROVE  /\ Aside(t) /\ LetsGo(t)
         /\ req'[t] = req[t] /\ mine'[t] = mine[t] /\ pc'[t] = p /\ tries'[t] = n
  BY DEF IInv, TypeOK, Goto, Aside, LetsGo

LEMMA CreatorFacts ==
  ASSUME IInv, CopierInv, NEW t \in Threads, req[t] # None, req[t].op \in CreateOps
  PROVE  /\ CopierOK(t) /\ PhaseOK(t, pc[t]) /\ req[t] \in Request
         /\ mine[t] # None => mine[t] \in Uids /\ acked[mine[t]] = None /\ vdisk[mine[t]] = req[t].name
         /\ pc[t] # "find" => \A u \in Uids : vdisk[u] = req[t].name <=> u = mine[t]
         /\ IsCopy(t) => req[t].name \notin SnapshotNames
         /\ req[t].name # None
  BY FlashCopyAssumption
  DEF IInv, TypeOK, Core, PhaseInv, PhaseOK, CreatorInv, CopierInv, IsCopy, Names

LEMMA ErrorGoes ==
  ASSUME IInv, NEW t \in Threads, pc[t] # "idle", req[t].op \in CreateOps, OnError(t)
  PROVE  \/ /\ Return(t)
            /\ \/ pc[t] \in {"find", "checkSource", "readBack"} \/ (pc[t] = "mkvolume" /\ IsCopy(t))
               \/ pc[t] \in {"undoMap", "undoVolume"} /\ ~ IsCopy(t) /\ tries[t] <= 1
               \/ pc[t] \in Undoing /\ IsCopy(t)
         \/ /\ UNCHANGED <<req, mine>> /\ Goto(t, "undoMap")
            /\ \/ /\ tries' = [tries EXCEPT ![t] = RollbackTries]
                  /\ pc[t] \in {"mkfcmap", "startfcmap"} \/ (pc[t] = "mkvolume" /\ ~ IsCopy(t))
               \/ /\ tries' = [tries EXCEPT ![t] = tries[t] - 1]
                  /\ pc[t] = "undoMap" \/ (pc[t] = "undoVolume" /\ ~ IsCopy(t))
         \/ /\ UNCHANGED <<req, mine>> /\ Goto(t, "look") /\ IsCopy(t)
            /\ \E n : tries' = [tries EXCEPT ![t] = n]
            /\ \/ pc[t] = "copySource" \/ (pc[t] = "undoMap" /\ tries[t] <= 1) \/ pc[t] \in Undoing
  <1> USE DEF IInv, TypeOK, Core, PhaseInv, PhaseOK, CreateOps, IsCopy
  <1>1. CASE pc[t] \in {"mkvolume", "mkfcmap", "startfcmap", "copySource"}
    BY <1>1 DEF OnError, RollBack
  <1>2. CASE pc[t] \in {"undoMap", "undoVolume"}
    BY <1>2 DEF OnError, RollBack, TryAgain
  <1>3. CASE pc[t] \in Undoing
    BY <1>3 DEF OnError, TryAgain, Undoing
  <1>4. CASE pc[t] \in {"find", "checkSource", "readBack"}
    BY <1>4 DEF OnError
  <1>5. QED
    BY <1>1, <1>2, <1>3, <1>4 DEF Phase, Undoing

LEMMA ErrorSound ==
  ASSUME IInv, CopyInv, NEW t \in Threads, pc[t] # "idle", OnError(t),
         UNCHANGED <<array, report, crashes>>, failures' \in {failures, failures + 1},
         failures' = failures =>
           /\ pc[t] \notin {"undoMap", "undoVolume"}
           /\ pc[t] = "startfcmap" => fcmap[mine[t]] = None
  PROVE  Sound(t)
  <1>1. /\ Grows /\ Changes(t) /\ UNCHANGED <<vdisk, fcmap, copied, acked>>
        /\ req[t] # None /\ failures \in Nat /\ tries[t] \in 0 .. RollbackTries /\ RollbackTries \in Nat
        /\ CopierInv
    BY FlashCopyAssumption
    DEF array, report, Grows, Changes, IInv, TypeOK, Core, PhaseInv, PhaseOK, CopyInv
  <1>2. CASE req[t].op \notin CreateOps
    <2>1. Aside(t) /\ (req'[t] = req[t] \/ (req'[t] = None /\ mine'[t] = None))
      <3>1. CASE Return(t)
        BY <3>1, ReturnSound
      <3>2. CASE ~ Return(t)
        BY <1>2, <3>2 DEF OnError, TryAgain, IsCopy, CreateOps, IInv, Core, PhaseInv, PhaseOK
      <3>3. QED
        BY <3>1, <3>2
    <2>2. QED
      BY <1>1, <1>2, <2>1, DeleterSound DEF Sound
  <1>3. CASE req[t].op \in CreateOps
    <2>1. /\ CopierOK(t) /\ PhaseOK(t, pc[t])
          /\ mine[t] # None => mine[t] \in Uids /\ vdisk[mine[t]] = req[t].name
          /\ IsCopy(t) => req[t].name \notin SnapshotNames
      BY <1>1, <1>3, CreatorFacts
    <2>2. CASE /\ Return(t)
               /\ \/ pc[t] \in {"find", "checkSource", "readBack"} \/ (pc[t] = "mkvolume" /\ IsCopy(t))
                  \/ pc[t] \in {"undoMap", "undoVolume"} /\ ~ IsCopy(t) /\ tries[t] <= 1
                  \/ pc[t] \in Undoing /\ IsCopy(t)
      <3>1. LetsGo(t)
        <4>1. SUFFICES ASSUME mine[t] # None
                       PROVE  /\ fcmap[mine[t]] = None \/ failures' > RollbackTries
                              /\ vdisk[mine[t]] \notin SnapshotNames \/ failures' >= RollbackTries
          BY <1>1 DEF LetsGo
        <4>2. CASE pc[t] \in {"find", "checkSource", "readBack", "mkvolume"}
          BY <1>3, <2>1, <2>2, <4>1, <4>2 DEF CopierOK, PhaseOK, Undoing
        <4>3. CASE pc[t] \in {"undoMap", "undoVolume"} /\ ~ IsCopy(t) /\ tries[t] <= 1
          BY <1>1, <1>3, <2>1, <4>1, <4>3 DEF CopierOK
        <4>4. CASE pc[t] \in Undoing /\ IsCopy(t)
          BY <1>1, <1>3, <2>1, <4>1, <4>4 DEF CopierOK
        <4>5. QED
          BY <2>2, <4>2, <4>3, <4>4
      <3>2. QED
        BY <1>1, <2>2, <3>1, ReturnSound DEF Sound
    <2>3. CASE /\ UNCHANGED <<req, mine>> /\ Goto(t, "undoMap")
               /\ \/ /\ tries' = [tries EXCEPT ![t] = RollbackTries]
                     /\ pc[t] \in {"mkfcmap", "startfcmap"} \/ (pc[t] = "mkvolume" /\ ~ IsCopy(t))
                  \/ /\ tries' = [tries EXCEPT ![t] = tries[t] - 1]
                     /\ pc[t] = "undoMap" \/ (pc[t] = "undoVolume" /\ ~ IsCopy(t))
      <3>1. /\ Aside(t) /\ LetsGo(t) /\ req'[t] = req[t] /\ mine'[t] = mine[t] /\ pc'[t] = "undoMap"
            /\ \/ /\ tries'[t] = RollbackTries
                  /\ pc[t] \in {"mkfcmap", "startfcmap"} \/ (pc[t] = "mkvolume" /\ ~ IsCopy(t))
               \/ /\ tries'[t] = tries[t] - 1 /\ failures' = failures + 1
                  /\ pc[t] = "undoMap" \/ (pc[t] = "undoVolume" /\ ~ IsCopy(t))
        <4>1. /\ Aside(t) /\ LetsGo(t) /\ req'[t] = req[t] /\ mine'[t] = mine[t] /\ pc'[t] = "undoMap"
              /\ \A n : tries' = [tries EXCEPT ![t] = n] => tries'[t] = n
          BY <2>3, GoesOn
        <4>2. pc[t] \in {"undoMap", "undoVolume"} => failures' = failures + 1
          OBVIOUS
        <4>3. QED
          BY <2>3, <4>1, <4>2
      <3>2. ~ IsCopy(t) => failures' >= RollbackTries - tries'[t]
        BY <1>1, <1>3, <2>1, <3>1 DEF CopierOK
      <3>3. mine[t] # None /\ fcmap[mine[t]] # None => failures' > RollbackTries - tries'[t]
        BY <1>1, <1>3, <2>1, <3>1 DEF CopierOK, PhaseOK
      <3>4. CopierOK(t)'
        BY <1>1, <1>3, <2>1, <3>1, <3>2, <3>3 DEF CopierOK, IsCopy, Undoing
      <3>5. QED
        BY <1>1, <3>1, <3>4 DEF Sound
    <2>4. CASE /\ UNCHANGED <<req, mine>> /\ Goto(t, "look") /\ IsCopy(t)
               /\ \E n : tries' = [tries EXCEPT ![t] = n]
               /\ \/ pc[t] = "copySource" \/ (pc[t] = "undoMap" /\ tries[t] <= 1) \/ pc[t] \in Undoing
      <3>1. /\ Aside(t) /\ LetsGo(t) /\ req'[t] = req[t] /\ mine'[t] = mine[t] /\ pc'[t] = "look"
        BY <2>4, GoesOn
      <3>2. mine[t] # None /\ fcmap[mine[t]] # None => failures' > RollbackTries
        BY <1>1, <1>3, <2>1, <2>4 DEF CopierOK, Undoing
      <3>3. CopierOK(t)'
        BY <1>1, <1>3, <2>1, <2>4, <3>1, <3>2 DEF CopierOK, IsCopy, Undoing, CreateOps
      <3>4. QED
        BY <1>1, <3>1, <3>3 DEF Sound
    <2>5. QED
      BY <1>3, <2>2, <2>3, <2>4, ErrorGoes
  <1>4. QED
    BY <1>2, <1>3

LEMMA CallSound ==
  ASSUME IInv, CopierInv, NEW t \in Threads, Call(t)
  PROVE  Sound(t)
  <1> USE DEF IInv, TypeOK, Goto, array
  <1>1. PICK r \in Allowed :
          /\ req' = [req EXCEPT ![t] = r]
          /\ pc' = [pc EXCEPT ![t] = IF r.op \in CreateOps THEN "find" ELSE "look"]
          /\ mine' = [mine EXCEPT ![t] = IF r.op \in CreateOps THEN None ELSE r.uid]
          /\ deleting' = IF r.op \in {"deleteVolume", "deleteSnapshot"}
                           THEN deleting \union {r.uid} ELSE deleting
    BY DEF Call
  <1>2. /\ Grows /\ Changes(t) /\ UNCHANGED <<acked, tries, fcmap, copied>>
    BY <1>1 DEF Call, Grows, Changes
  <1>3. mine[t] = None
    BY DEF CopierInv, CopierOK, Core, PhaseInv, PhaseOK, Call
  <1>4. /\ Aside(t) /\ LetsGo(t)
        /\ req'[t] = r /\ pc'[t] \in {"find", "look"} /\ (r.op \in CreateOps => mine'[t] = None)
    BY <1>1, <1>2, <1>3 DEF Aside, LetsGo
  <1>5. /\ r # None
        /\ r.op \in CreateOps /\ r.uid # None => acked[r.uid] # None
        /\ r.op = "createSnapshot" => r.uid # None
    BY FlashCopyAssumption DEF Allowed, Reported, Request, Ops, CreateOps, Names
  <1>6. CopierOK(t)'
    BY <1>2, <1>4, <1>5 DEF CopierOK
  <1>7. QED
    BY <1>2, <1>4, <1>6 DEF Sound

(* What is reported of a creator's own vdisk.                              *)
LEMMA ReportSound ==
  ASSUME IInv, NEW t \in Threads, NEW u \in Uids, req[t] # None, Report(t, u),
         UNCHANGED <<crashes, failures, made>>
  PROVE  /\ Aside(t) /\ Grows /\ CopierOK(t)' /\ mine'[t] = None
         /\ \A x \in Uids : acked'[x] = IF x = u THEN req[t] ELSE acked[x]
         /\ deleting' = deleting
  BY ReturnSound DEF Report, Grows, IInv, TypeOK

LEMMA FindSound ==
  ASSUME IInv, CopyInv, NEW t \in Threads, Find(t)
  PROVE  Sound(t)
  <1>1. /\ req[t] # None /\ req[t].op \in CreateOps /\ mine[t] = None /\ pc[t] = "find"
        /\ CopierInv /\ LetsGo(t)
    BY DEF Find, IInv, Core, PhaseInv, PhaseOK, CopyInv, LetsGo
  <1>2. CopierOK(t) /\ req[t].name # None
    BY <1>1, CreatorFacts
  <1>3. UNCHANGED <<array, failures, crashes>>
    BY DEF Find, Reject
  <1>4. Changes(t)
    BY <1>3 DEF array, Changes
  <1>5. CASE /\ Continue(t, IF IsCopy(t) THEN "mkvolume" ELSE "checkSource")
             /\ UNCHANGED <<array, report, failures, crashes>>
    <2>1. /\ Aside(t) /\ req'[t] = req[t] /\ mine'[t] = None /\ pc'[t] \in {"mkvolume", "checkSource"}
      BY <1>1, <1>5 DEF Continue, Goto, Aside, IInv, TypeOK
    <2>2. Grows /\ acked' = acked
      BY <1>5 DEF Grows, report, array, IInv, TypeOK
    <2>3. CopierOK(t)'
      BY <1>1, <1>2, <2>1, <2>2 DEF CopierOK, IsCopy
    <2>4. QED
      BY <1>1, <1>4, <2>1, <2>2, <2>3 DEF Sound
  <1>6. CASE Reject(t)
    <2>1. Grows /\ acked' = acked
      BY <1>6 DEF Reject, Grows, report, array, IInv, TypeOK
    <2>2. QED
      BY <1>1, <1>4, <1>6, <2>1, ReturnSound DEF Reject, Sound
  <1>7. ASSUME NEW u \in Named(req[t].name), SourceOf(u) = req[t].uid, Report(t, u)
        PROVE  Sound(t)
    <2>1. u \in Uids /\ vdisk[u] = req[t].name
      BY DEF Named
    <2>2. /\ Aside(t) /\ Grows /\ CopierOK(t)'
          /\ \A x \in Uids : acked'[x] = IF x = u THEN req[t] ELSE acked[x]
          /\ deleting' = deleting
      BY <1>1, <1>3, <1>7, <2>1, ReportSound DEF array
    <2>3. ASSUME DataInv, crashes' = 0, failures' <= RollbackTries PROVE Told(u)'
      <3>1. Told(u) /\ (fcmap[u] # None /\ acked[u] = None => Held(u)) /\ MapOK(u)
        BY <1>3, <2>1, <2>3 DEF DataInv, CopyInv, MapInv
      <3>2. acked[u] = None => ~ Held(u)
        <4>1. SUFFICES ASSUME NEW v \in Threads, mine[v] = u, acked[u] = None PROVE FALSE
          BY DEF Held
        <4>2. v # t /\ req[v] # None
          BY <1>1, <2>1, <4>1, FlashCopyAssumption DEF CopierInv, CopierOK
        <4>3. req[v].op \in CreateOps
          BY <4>1, <4>2 DEF IInv, Core, DeleterInv
        <4>4. vdisk[u] = req[v].name
          BY <1>1, <2>1, <4>1, <4>2, <4>3, CreatorFacts, FlashCopyAssumption
        <4>5. QED
          BY <1>1, <2>1, <4>2, <4>3, <4>4, CreatorsDiffer
      <3>3. /\ acked'[u] = req[t] /\ deleting' = deleting
            /\ UNCHANGED <<fcmap, copied, vdisk>>
        BY <1>3, <2>1, <2>2 DEF array
      <3>4. CASE fcmap[u] = None
        BY <1>7, <3>3, <3>4 DEF Told, HasData, SourceOf
      <3>5. CASE fcmap[u] # None /\ u \notin deleting
        <4>1. fcmap[u].source = req[t].uid /\ Exists(req[t].uid)
          BY <1>7, <3>1, <3>5 DEF SourceOf, MapOK
        <4>2. fcmap[u].status \in {"copying", "copied"}
          BY <3>1, <3>2, <3>5 DEF Told
        <4>3. QED
          BY <3>3, <3>5, <4>1, <4>2 DEF Told, HasData, Exists
      <3>6. QED
        BY <3>3, <3>4, <3>5 DEF Told
    <2>4. QED
      BY <1>1, <1>4, <2>2, <2>3 DEF Sound
  <1>8. QED
    BY Zenon, <1>5, <1>6, <1>7 DEF Find

LEMMA CheckSourceSound ==
  ASSUME IInv, CopyInv, NEW t \in Threads, CheckSource(t)
  PROVE  Sound(t)
  <1>1. /\ req[t] # None /\ req[t].op \in CreateOps /\ mine[t] = None /\ pc[t] = "checkSource"
        /\ CopierInv /\ LetsGo(t)
    BY DEF CheckSource, IInv, Core, PhaseInv, PhaseOK, CopyInv, LetsGo
  <1>2. CopierOK(t)
    BY <1>1, CreatorFacts
  <1>3. Grows /\ Changes(t) /\ acked' = acked
    BY DEF CheckSource, Reject, array, report, Grows, Changes, IInv, TypeOK
  <1>4. CASE Continue(t, "mkvolume")
    <2>1. /\ Aside(t) /\ req'[t] = req[t] /\ mine'[t] = None /\ pc'[t] = "mkvolume"
      BY <1>1, <1>4 DEF Continue, Goto, Aside, IInv, TypeOK
    <2>2. CopierOK(t)'
      BY <1>1, <1>2, <1>3, <2>1 DEF CopierOK, IsCopy
    <2>3. QED
      BY <1>1, <1>3, <2>1, <2>2 DEF Sound
  <1>5. CASE Reject(t)
    BY <1>1, <1>3, <1>5, ReturnSound DEF Reject, Sound
  <1>6. QED
    BY <1>4, <1>5 DEF CheckSource

LEMMA MakeVolumeSound ==
  ASSUME IInv, CopyInv, NEW t \in Threads, MakeVolume(t)
  PROVE  Sound(t)
  <1>1. /\ req[t] # None /\ req[t].op \in CreateOps /\ mine[t] = None /\ pc[t] = "mkvolume"
        /\ CopierInv /\ MapInv /\ LetsGo(t)
    BY DEF MakeVolume, IInv, Core, PhaseInv, PhaseOK, CopyInv, LetsGo
  <1>2. CopierOK(t) /\ req[t].name # None /\ req[t] \in Request
    BY <1>1, CreatorFacts
  <1>3. UNCHANGED <<fcmap, copied, report, failures, crashes>>
    BY DEF MakeVolume, Reject, array
  <1>4. CASE Reject(t)
    <2>1. Grows /\ Changes(t) /\ acked' = acked
      BY <1>4 DEF Reject, array, report, Grows, Changes, IInv, TypeOK
    <2>2. QED
      BY <1>1, <1>4, <2>1, ReturnSound DEF Reject, Sound
  <1>5. CASE /\ made < MaxVdisks /\ made' = made + 1
             /\ vdisk' = [vdisk EXCEPT ![made + 1] = req[t].name]
             /\ mine' = [mine EXCEPT ![t] = made + 1]
             /\ pc' = [pc EXCEPT ![t] = IF IsCopy(t) THEN "readBack" ELSE "mkfcmap"]
             /\ UNCHANGED <<req, tries>>
    <2> DEFINE u == made + 1
    <2>1. made \in Nat /\ u \in Uids /\ failures \in Nat
      BY <1>5, FlashCopyAssumption DEF Uids, IInv, TypeOK
    <2>2. vdisk[u] = None /\ fcmap[u] = None /\ copied[u] = None
      BY <1>1, <2>1 DEF MapInv, MapOK, Exists, IInv, Core, ObjectInv
    <2>3. Grows /\ acked' = acked
      BY <1>3, <1>5, <2>1 DEF Grows, report
    <2>4. /\ Aside(t) /\ req'[t] = req[t] /\ mine'[t] = u /\ pc'[t] \in {"readBack", "mkfcmap"}
          /\ pc'[t] = "mkfcmap" => ~ IsCopy(t)
      BY <1>5 DEF Aside, IInv, TypeOK
    <2>5. \A x \in Uids : vdisk'[x] = vdisk[x] \/ (vdisk'[x] # None /\ mine'[t] = x)
      BY <1>2, <1>5, <2>1, <2>4 DEF IInv, TypeOK
    <2>6. Changes(t)
      BY <1>3, <2>5 DEF Changes
    <2>7. CopierOK(t)'
      BY <1>1, <1>2, <1>3, <2>2, <2>3, <2>4 DEF CopierOK, IsCopy, CreateOps
    <2>8. QED
      BY <1>1, <2>3, <2>4, <2>6, <2>7 DEF Sound
  <1>6. QED
    BY <1>4, <1>5 DEF MakeVolume, Goto

LEMMA ReadBackSound ==
  ASSUME IInv, CopyInv, NEW t \in Threads, ReadBack(t)
  PROVE  Sound(t)
  <1>1. /\ req[t] # None /\ req[t].op \in CreateOps /\ mine[t] # None /\ pc[t] = "readBack"
        /\ CopierInv /\ IsCopy(t)
    BY DEF ReadBack, IInv, Core, PhaseInv, PhaseOK, CopyInv, IsCopy, CreateOps
  <1>2. /\ CopierOK(t) /\ mine[t] \in Uids /\ acked[mine[t]] = None /\ vdisk[mine[t]] # None
    BY <1>1, CreatorFacts
  <1>3. UNCHANGED <<array, failures, crashes>> /\ Changes(t) /\ fcmap[mine[t]] = None
    BY <1>1, <1>2 DEF ReadBack, Reject, array, Changes, CopierOK
  <1>4. CASE req[t].uid # None /\ Continue(t, "copySource") /\ UNCHANGED report
    <2>1. /\ Aside(t) /\ LetsGo(t) /\ req'[t] = req[t] /\ mine'[t] = mine[t] /\ pc'[t] = "copySource"
      BY <1>4 DEF Continue, Goto, Aside, LetsGo, IInv, TypeOK
    <2>2. Grows /\ acked' = acked /\ UNCHANGED <<fcmap, copied>>
      BY <1>3, <1>4 DEF Grows, report, array, IInv, TypeOK
    <2>3. CopierOK(t)'
      BY <1>1, <1>2, <1>3, <1>4, <2>1, <2>2 DEF CopierOK, IsCopy, Undoing
    <2>4. QED
      BY <1>3, <2>1, <2>2, <2>3 DEF Sound
  <1>5. CASE req[t].uid = None /\ Report(t, mine[t])
    <2>1. /\ Aside(t) /\ Grows /\ CopierOK(t)'
          /\ \A x \in Uids : acked'[x] = IF x = mine[t] THEN req[t] ELSE acked[x]
          /\ deleting' = deleting /\ fcmap' = fcmap
      BY <1>1, <1>2, <1>3, <1>5, ReportSound DEF array
    <2>2. ASSUME NEW u \in Uids, u = mine[t] PROVE Told(u)'
      <3>1. acked'[u].uid = None /\ fcmap'[u] = None
        BY <1>3, <1>5, <2>1, <2>2
      <3>2. QED
        BY <3>1 DEF Told, HasData
    <2>3. LetsGo(t)
      BY <1>1, <1>2, <2>1 DEF LetsGo
    <2>4. QED
      BY <1>3, <2>1, <2>2, <2>3 DEF Sound
  <1>6. QED
    BY <1>2, <1>4, <1>5, FlashCopyAssumption DEF ReadBack, Exists

LEMMA CopySourceSound ==
  ASSUME IInv, CopyInv, NEW t \in Threads, CopySource(t)
  PROVE  Sound(t)
  <1>1. /\ req[t] # None /\ req[t].op \in CreateOps /\ mine[t] # None /\ pc[t] = "copySource"
        /\ CopierInv
    BY DEF CopySource, IInv, Core, PhaseInv, PhaseOK, CopyInv, IsCopy, CreateOps
  <1>2. CopierOK(t)
    BY <1>1, CreatorFacts
  <1>3. CASE Continue(t, "mkfcmap") /\ UNCHANGED <<array, report, failures, crashes>>
    <2>1. /\ Aside(t) /\ LetsGo(t) /\ req'[t] = req[t] /\ mine'[t] = mine[t] /\ pc'[t] = "mkfcmap"
      BY <1>3 DEF Continue, Goto, Aside, LetsGo, IInv, TypeOK
    <2>2. Grows /\ Changes(t) /\ acked' = acked /\ UNCHANGED <<fcmap, copied>>
      BY <1>3 DEF Grows, Changes, report, array, IInv, TypeOK
    <2>3. CopierOK(t)'
      BY <1>1, <1>2, <2>1, <2>2 DEF CopierOK, IsCopy, Undoing
    <2>4. QED
      BY <2>1, <2>2, <2>3 DEF Sound
  <1>4. CASE Refused(t)
    BY <1>1, <1>4, ErrorSound DEF Refused
  <1>5. QED
    BY <1>3, <1>4 DEF CopySource

LEMMA MakeMapSound ==
  ASSUME IInv, CopyInv, NEW t \in Threads, MakeMap(t)
  PROVE  Sound(t)
  <1>1. /\ req[t] # None /\ req[t].op \in CreateOps /\ mine[t] # None /\ pc[t] = "mkfcmap"
        /\ CopierInv /\ MapInv
    BY DEF MakeMap, IInv, Core, PhaseInv, PhaseOK, CopyInv
  <1>2. CopierOK(t) /\ mine[t] \in Uids /\ acked[mine[t]] = None /\ req[t] \in Request
    BY <1>1, CreatorFacts
  <1>3. CASE Refused(t)
    BY <1>1, <1>3, ErrorSound DEF Refused
  <1>4. CASE /\ Exists(req[t].uid) /\ Exists(mine[t])
             /\ fcmap' = [fcmap EXCEPT ![mine[t]] =
                            [source |-> req[t].uid, copy |-> IsCopy(t), status |-> "idle"]]
             /\ Continue(t, "startfcmap")
             /\ UNCHANGED <<vdisk, copied, made, report, failures, crashes>>
    <2> DEFINE m == [source |-> req[t].uid, copy |-> IsCopy(t), status |-> "idle"]
    <2>1. /\ Aside(t) /\ LetsGo(t) /\ req'[t] = req[t] /\ mine'[t] = mine[t] /\ pc'[t] = "startfcmap"
      BY <1>4 DEF Continue, Goto, Aside, LetsGo, IInv, TypeOK
    <2>2. Grows /\ UNCHANGED <<acked, copied, vdisk, made, failures>>
      BY <1>4 DEF Grows, report, IInv, TypeOK
    <2>3. /\ fcmap'[mine[t]] = m /\ \A u \in Uids : u # mine[t] => fcmap'[u] = fcmap[u]
      BY <1>2, <1>4 DEF IInv, TypeOK
    <2>4. m.source = req[t].uid /\ m.status = "idle"
      OBVIOUS
    <2>5. copied[mine[t]] = None /\ acked[req[t].uid] # None
      BY <1>1, <1>2 DEF CopierOK
    <2> HIDE DEF m
    <2>6. ASSUME NEW u \in Uids, u = mine[t] PROVE MapOK(u)'
      <3>1. /\ fcmap'[u].source = req[t].uid /\ fcmap'[u].status = "idle" /\ copied'[u] = None
            /\ vdisk'[u] # None /\ u # None
            /\ vdisk'[req[t].uid] # None /\ req[t].uid # None /\ acked'[req[t].uid] # None
        BY <1>4, <2>2, <2>3, <2>4, <2>5, <2>6 DEF Exists
      <3>2. QED
        BY <3>1 DEF MapOK, Exists
    <2>7. Changes(t)
      BY <1>2, <2>2, <2>3, <2>6 DEF Changes
    <2>8. CopierOK(t)'
      BY <1>1, <1>2, <2>1, <2>2, <2>3 DEF CopierOK, IsCopy, Undoing, m
    <2>9. QED
      BY <2>1, <2>2, <2>7, <2>8 DEF Sound
  <1>5. QED
    BY <1>3, <1>4 DEF MakeMap

LEMMA StartMapSound ==
  ASSUME IInv, CopyInv, NEW t \in Threads, StartMap(t)
  PROVE  Sound(t)
  <1>1. /\ req[t] # None /\ req[t].op \in CreateOps /\ mine[t] # None /\ pc[t] = "startfcmap"
        /\ CopierInv /\ MapInv
    BY DEF StartMap, IInv, Core, PhaseInv, PhaseOK, CopyInv
  <1>2. CopierOK(t) /\ mine[t] \in Uids /\ acked[mine[t]] = None /\ req[t] \in Request
    BY <1>1, CreatorFacts
  <1>3. CASE fcmap[mine[t]] = None /\ Refused(t)
    BY <1>1, <1>3, ErrorSound DEF Refused
  <1>4. CASE /\ fcmap[mine[t]] # None
             /\ fcmap' = [fcmap EXCEPT ![mine[t]].status = "copying"]
             /\ Report(t, mine[t])
             /\ UNCHANGED <<vdisk, copied, made, failures, crashes>>
    <2>1. /\ Aside(t) /\ Grows /\ CopierOK(t)'
          /\ \A x \in Uids : acked'[x] = IF x = mine[t] THEN req[t] ELSE acked[x]
          /\ deleting' = deleting
      BY <1>1, <1>2, <1>4, ReportSound
    <2>2. fcmap[mine[t]] = [source |-> req[t].uid, copy |-> IsCopy(t), status |-> "idle"]
      BY <1>1, <1>2, <1>4 DEF CopierOK
    <2>3. /\ fcmap'[mine[t]] = [source |-> req[t].uid, copy |-> IsCopy(t), status |-> "copying"]
          /\ \A u \in Uids : u # mine[t] => fcmap'[u] = fcmap[u]
      BY <1>2, <1>4, <2>2 DEF IInv, TypeOK
    <2>4. /\ Exists(mine[t]) /\ Exists(req[t].uid) /\ acked[req[t].uid] # None
          /\ copied[mine[t]] = None /\ req[t].uid \in Uids
      BY <1>1, <1>2, <1>4, <2>2 DEF MapInv, MapOK, CopierOK, Request
    <2>5. ASSUME NEW u \in Uids, u = mine[t] PROVE MapOK(u)' /\ Told(u)'
      <3>1. /\ fcmap'[u] # None /\ fcmap'[u].source = req[t].uid /\ fcmap'[u].status = "copying"
            /\ copied'[u] = None /\ vdisk'[u] # None /\ u # None
            /\ vdisk'[req[t].uid] # None /\ req[t].uid # None
            /\ acked'[req[t].uid] # None /\ acked'[u] = req[t]
        <4>1. fcmap'[u] # None
          BY <1>4, <2>3, <2>5, FlashCopyAssumption DEF Mapping, IsCopy, IInv, TypeOK
        <4>2. acked'[u] = req[t] /\ acked'[req[t].uid] # None
          BY <1>1, <2>1, <2>4, <2>5
        <4>3. QED
          BY <1>4, <2>3, <2>4, <2>5, <4>1, <4>2 DEF Exists
      <3>2. MapOK(u)'
        BY <3>1 DEF MapOK, Exists
      <3>3. Told(u)'
        BY <3>1 DEF Told, HasData, Exists
      <3>4. QED
        BY <3>2, <3>3
    <2>6. Changes(t)
      BY <1>2, <1>4, <2>3, <2>5 DEF Changes
    <2>7. LetsGo(t)
      BY <1>1, <1>2, <2>1 DEF LetsGo
    <2>8. QED
      BY <2>1, <2>5, <2>6, <2>7 DEF Sound
  <1>5. QED
    BY <1>3, <1>4 DEF StartMap

(* The roll-back's target is the creator's vdisk; the array never refuses  *)
(* to remove it.                                                           *)
LEMMA UndoFacts ==
  ASSUME IInv, CopyInv, NEW t \in Threads, pc[t] \in {"undoMap", "undoVolume"}
  PROVE  /\ req[t] # None /\ req[t].op \in CreateOps /\ CopierOK(t)
         /\ \A u \in Uids : u \in Named(req[t].name) <=> u = mine[t]
         /\ \A u \in Named(req[t].name) :
              /\ u \in Uids /\ acked[u] = None /\ MapsFrom(u) = {}
              /\ fcmap[u] # None => IsDone(fcmap[u])
              /\ pc[t] = "undoVolume" => fcmap[u] = None
  <1>1. req[t] # None /\ req[t].op \in CreateOps /\ CopierInv /\ MapInv
    BY DEF IInv, Core, PhaseInv, PhaseOK, CreateOps, CopyInv
  <1>2. /\ CopierOK(t)
        /\ \A u \in Uids : vdisk[u] = req[t].name <=> u = mine[t]
        /\ mine[t] # None => acked[mine[t]] = None
    BY <1>1, CreatorFacts
  <1>3. ASSUME NEW u \in Named(req[t].name)
        PROVE  /\ u \in Uids /\ acked[u] = None /\ MapsFrom(u) = {}
               /\ fcmap[u] # None => IsDone(fcmap[u])
               /\ pc[t] = "undoVolume" => fcmap[u] = None
    <2>1. u \in Uids /\ u = mine[t] /\ u # None
      BY <1>2, FlashCopyAssumption DEF Named
    <2>2. acked[u] = None
      BY <1>2, <2>1
    <2>3. MapsFrom(u) = {}
      BY <1>1, <2>2 DEF MapsFrom, MapInv, MapOK
    <2>4. fcmap[u] # None => fcmap[u] = [source |-> req[t].uid, copy |-> IsCopy(t), status |-> "idle"]
      BY <1>1, <1>2, <2>1 DEF CopierOK
    <2>5. fcmap[u] # None => fcmap[u].status = "idle"
      BY <2>4
    <2>6. pc[t] = "undoVolume" => fcmap[u] = None
      BY <1>1, <1>2, <2>1 DEF CopierOK
    <2>7. QED
      BY <2>1, <2>2, <2>3, <2>5, <2>6 DEF IsDone
  <1>4. QED
    BY <1>1, <1>2, <1>3 DEF Named

LEMMA UndoMapSound ==
  ASSUME IInv, CopyInv, NEW t \in Threads, UndoMap(t)
  PROVE  Sound(t)
  <1>1. pc[t] = "undoMap"
    BY DEF UndoMap
  <1>2. /\ req[t] # None /\ req[t].op \in CreateOps /\ CopierOK(t)
        /\ \A u \in Uids : u \in Named(req[t].name) <=> u = mine[t]
        /\ \A u \in Named(req[t].name) :
             u \in Uids /\ acked[u] = None /\ (fcmap[u] # None => IsDone(fcmap[u]))
    BY <1>1, UndoFacts
  <1>3. /\ fcmap' = [u \in Uids |-> IF u \in Named(req[t].name) THEN None ELSE fcmap[u]]
        /\ IF IsCopy(t) THEN RollBack(t, "look")
             ELSE IF Named(req[t].name) = {} THEN Return(t) ELSE Continue(t, "undoVolume")
        /\ UNCHANGED <<vdisk, copied, made, report, failures, crashes>>
    BY <1>2 DEF UndoMap
  <1>4. Grows /\ Changes(t) /\ UNCHANGED <<acked, copied>>
    BY <1>2, <1>3 DEF Grows, Changes, report, IInv, TypeOK
  <1>5. mine[t] # None => fcmap'[mine[t]] = None
    BY <1>2, <1>3 DEF IInv, TypeOK
  <1>6. CASE Return(t) /\ Named(req[t].name) = {}
    <2>1. mine[t] = None
      BY <1>2, <1>6 DEF IInv, TypeOK
    <2>2. QED
      BY <1>4, <1>6, <2>1, ReturnSound DEF Sound, LetsGo
  <1>7. CASE IsCopy(t) /\ RollBack(t, "look")
    <2>1. /\ Aside(t) /\ LetsGo(t) /\ req'[t] = req[t] /\ mine'[t] = mine[t] /\ pc'[t] = "look"
      BY <1>7, GoesOn DEF RollBack
    <2>2. CopierOK(t)'
      BY <1>2, <1>4, <1>5, <1>7, <2>1 DEF CopierOK, IsCopy, CreateOps
    <2>3. QED
      BY <1>4, <2>1, <2>2 DEF Sound
  <1>8. CASE ~ IsCopy(t) /\ Continue(t, "undoVolume")
    <2>1. /\ Aside(t) /\ LetsGo(t) /\ req'[t] = req[t] /\ mine'[t] = mine[t]
          /\ pc'[t] = "undoVolume" /\ tries'[t] = tries[t]
      BY <1>8 DEF Continue, Goto, Aside, LetsGo, IInv, TypeOK
    <2>2. failures' >= RollbackTries - tries'[t]
      BY <1>1, <1>2, <1>3, <1>8, <2>1 DEF CopierOK
    <2>3. CopierOK(t)'
      BY <1>2, <1>4, <1>5, <1>8, <2>1, <2>2 DEF CopierOK, IsCopy, CreateOps
    <2>4. QED
      BY <1>4, <2>1, <2>3 DEF Sound
  <1>9. QED
    BY <1>3, <1>6, <1>7, <1>8

LEMMA UndoVolumeSound ==
  ASSUME IInv, CopyInv, NEW t \in Threads, UndoVolume(t)
  PROVE  Sound(t)
  <1>1. pc[t] = "undoVolume"
    BY DEF UndoVolume
  <1>2. /\ req[t] # None /\ req[t].op \in CreateOps /\ CopierOK(t)
        /\ \A u \in Uids : u \in Named(req[t].name) <=> u = mine[t]
        /\ \A u \in Named(req[t].name) : ~ IsMapped(u)
    BY <1>1, UndoFacts DEF IsMapped
  <1>3. /\ vdisk' = [u \in Uids |-> IF u \in Named(req[t].name) THEN None ELSE vdisk[u]]
        /\ Return(t)
        /\ UNCHANGED <<fcmap, copied, made, report, failures, crashes>>
    BY <1>2 DEF UndoVolume
  <1>4. Grows /\ Changes(t) /\ UNCHANGED <<acked, copied>>
    BY <1>2, <1>3 DEF Grows, Changes, report, IInv, TypeOK
  <1>5. LetsGo(t)
    <2>1. CASE mine[t] # None
      <3>1. mine[t] \in Named(req[t].name) /\ mine[t] \in Uids
        BY <1>2, <2>1 DEF IInv, TypeOK
      <3>2. fcmap'[mine[t]] = None /\ vdisk'[mine[t]] = None
        BY <1>2, <1>3, <3>1 DEF IsMapped
      <3>3. QED
        BY <3>2, FlashCopyAssumption DEF LetsGo, Names
    <2>2. CASE mine[t] = None
      BY <2>2 DEF LetsGo
    <2>3. QED
      BY <2>1, <2>2
  <1>6. QED
    BY <1>3, <1>4, <1>5, ReturnSound DEF Sound

(* What the removal of a mapping or a volume takes, nobody was told of or  *)
(* its deletion was asked for.                                             *)
LEMMA RemoverFacts ==
  ASSUME IInv, CopyInv, NEW t \in Threads, pc[t] \in Undoing
  PROVE  /\ req[t] # None /\ mine[t] # None /\ mine[t] \in Uids /\ CopierInv
         /\ req[t].op \in CreateOps =>
              /\ IsCopy(t) /\ CopierOK(t) /\ vdisk[mine[t]] # None
              /\ acked[mine[t]] = None /\ vdisk[mine[t]] \notin SnapshotNames
         /\ pc[t] \in {"stopMap", "rmMap", "rmvolume"} => acked[mine[t]] = None \/ mine[t] \in deleting
  <1>1. req[t] # None /\ mine[t] # None /\ mine[t] \in Uids /\ CopierInv /\ PhaseOK(t, pc[t])
    BY DEF IInv, TypeOK, Core, PhaseInv, PhaseOK, Undoing, CopyInv
  <1>2. CASE req[t].op \in CreateOps
    BY <1>1, <1>2, CreatorFacts DEF PhaseOK, IsCopy, CreateOps, Undoing
  <1>3. CASE req[t].op \notin CreateOps
    BY <1>1, <1>3 DEF PhaseOK, IInv, Core, DeleterInv
  <1>4. QED
    BY <1>1, <1>2, <1>3

LEMMA RemoverGoes ==
  ASSUME IInv, CopyInv, NEW t \in Threads, pc[t] \in Undoing,
         Grows, UNCHANGED <<failures, copied, acked, req, mine, tries>>,
         NEW p \in Undoing \union {"expand"}, Goto(t, p),
         fcmap'[mine[t]] # None /\ req[t].op \in CreateOps => fcmap'[mine[t]] = fcmap[mine[t]]
  PROVE  Aside(t) /\ LetsGo(t) /\ CopierOK(t)'
  <1>1. /\ Aside(t) /\ LetsGo(t) /\ req'[t] = req[t] /\ mine'[t] = mine[t] /\ pc'[t] = p
    BY DEF Goto, Aside, LetsGo, IInv, TypeOK
  <1>2. CASE req[t].op \notin CreateOps
    BY <1>1, <1>2, DeleterSound, RemoverFacts
  <1>3. CASE req[t].op \in CreateOps
    <2>1. IsCopy(t) /\ CopierOK(t) /\ req[t] # None
      BY <1>3, RemoverFacts
    <2>2. QED
      BY <1>1, <1>3, <2>1 DEF CopierOK, IsCopy, Undoing, CreateOps
  <1>4. QED
    BY <1>1, <1>2, <1>3

LEMMA RemoverErrs ==
  ASSUME IInv, CopyInv, NEW t \in Threads, pc[t] \in Undoing, Refused(t)
  PROVE  Sound(t)
  BY ErrorSound DEF Refused, Undoing

(* An object's deletion is reported: whoever had it in hand is done.       *)
LEMMA DeletedSound ==
  ASSUME IInv, CopyInv, NEW t \in Threads, pc[t] \in Undoing, Deleted(t), Grows, Changes(t),
         req[t].op \in CreateOps => fcmap'[mine[t]] = None /\ vdisk'[mine[t]] = None
  PROVE  Sound(t)
  <1>1. /\ Aside(t) /\ CopierOK(t)' /\ req'[t] = None /\ mine'[t] = None /\ acked' = acked
    BY ReturnSound DEF Deleted
  <1>2. LetsGo(t)
    <2>1. CASE req[t].op \in CreateOps
      BY <2>1, FlashCopyAssumption DEF LetsGo, Names
    <2>2. CASE req[t].op \notin CreateOps
      BY <1>1, <2>2, DeleterSound, RemoverFacts
    <2>3. QED
      BY <2>1, <2>2
  <1>3. QED
    BY <1>1, <1>2 DEF Sound

LEMMA LookSound ==
  ASSUME IInv, CopyInv, NEW t \in Threads, Look(t)
  PROVE  Sound(t)
  <1>1. pc[t] = "look" /\ pc[t] \in Undoing
    BY DEF Look, Undoing
  <1>2. UNCHANGED <<array, failures, crashes>>
    BY DEF Look, Refused
  <1>3. Changes(t)
    BY <1>2 DEF array, Changes
  <1>4. CASE Refused(t)
    BY <1>1, <1>4, RemoverErrs
  <1>5. CASE /\ Deleted(t)
             /\ ~ (Exists(mine[t]) /\ (req[t].op = "deleteSnapshot" => fcmap[mine[t]] # None))
    <2>1. req[t].op \notin CreateOps
      BY <1>1, <1>5, RemoverFacts DEF Exists, IsCopy
    <2>2. Grows
      BY <1>2, <1>5 DEF Deleted, Grows, array, IInv, TypeOK
    <2>3. QED
      BY <1>1, <1>3, <1>5, <2>1, <2>2, DeletedSound
  <1>6. ASSUME NEW own \in BOOLEAN, NEW p \in {"rmMaps", AfterMaps(t, own)}, Goto(t, p),
               UNCHANGED <<req, mine, tries, report>>
        PROVE  Sound(t)
    <2>1. p \in Undoing \union {"expand"}
      BY <1>6 DEF AfterMaps, Undoing
    <2>2. Grows /\ UNCHANGED <<failures, copied, acked, fcmap>>
      BY <1>2, <1>6 DEF Grows, array, report, IInv, TypeOK
    <2>3. Aside(t) /\ LetsGo(t) /\ CopierOK(t)'
      BY <1>1, <1>6, <2>1, <2>2, RemoverGoes
    <2>4. QED
      BY <1>3, <2>2, <2>3 DEF Sound
  <1>7. QED
    BY <1>4, <1>5, <1>6 DEF Look

LEMMA RemoveMapsSound ==
  ASSUME IInv, CopyInv, NEW t \in Threads, RemoveMaps(t)
  PROVE  Sound(t)
  <1>1. pc[t] = "rmMaps" /\ pc[t] \in Undoing
    BY DEF RemoveMaps, Undoing
  <1>2. CASE Refused(t)
    BY <1>1, <1>2, RemoverErrs
  <1>3. ASSUME NEW x \in plan[t].maps, NEW p \in {"rmMaps", AfterMaps(t, plan[t].own)},
               fcmap[x] # None, IsDone(fcmap[x]), fcmap' = [fcmap EXCEPT ![x] = None], Goto(t, p),
               UNCHANGED <<vdisk, copied, made, req, mine, tries, report, failures, crashes>>
        PROVE  Sound(t)
    <2>1. p \in Undoing \union {"expand"}
      BY <1>3 DEF AfterMaps, Undoing
    <2>2. Grows /\ UNCHANGED <<failures, copied, acked, vdisk>>
      BY <1>3 DEF Grows, report, IInv, TypeOK
    <2>3. \A u \in Uids : fcmap'[u] = fcmap[u] \/ (u = x /\ fcmap'[u] = None)
      BY <1>3 DEF IInv, TypeOK
    <2>4. Changes(t)
      BY <1>3, <2>2, <2>3 DEF Changes
    <2>5. fcmap'[mine[t]] = None \/ fcmap'[mine[t]] = fcmap[mine[t]]
      BY <1>1, <2>3, RemoverFacts
    <2>6. Aside(t) /\ LetsGo(t) /\ CopierOK(t)'
      BY <1>1, <1>3, <2>1, <2>2, <2>5, RemoverGoes
    <2>7. QED
      BY <2>2, <2>4, <2>6 DEF Sound
  <1>4. QED
    BY <1>2, <1>3 DEF RemoveMaps

LEMMA StopMapSound ==
  ASSUME IInv, CopyInv, NEW t \in Threads, StopMap(t)
  PROVE  Sound(t)
  <1>1. pc[t] = "stopMap" /\ pc[t] \in Undoing
    BY DEF StopMap, Undoing
  <1>2. CASE Refused(t)
    BY <1>1, <1>2, RemoverErrs
  <1>3. CASE /\ fcmap[mine[t]] # None
             /\ fcmap' = [fcmap EXCEPT ![mine[t]].status = IF @ = "copying" THEN "stopped" ELSE @]
             /\ Continue(t, "rmMap")
             /\ UNCHANGED <<vdisk, copied, made, report, failures, crashes>>
    <2>1. /\ mine[t] \in Uids /\ (acked[mine[t]] = None \/ mine[t] \in deleting)
          /\ fcmap[mine[t]] \in Mapping /\ MapOK(mine[t]) /\ mine[t] # None
      BY <1>1, <1>3, RemoverFacts DEF IInv, TypeOK, CopyInv, MapInv
    <2>2. Grows /\ UNCHANGED <<failures, copied, acked, vdisk, req, mine, tries, made>>
      BY <1>3 DEF Grows, report, Continue, IInv, TypeOK
    <2>3. /\ \A u \in Uids : u # mine[t] => fcmap'[u] = fcmap[u]
          /\ fcmap'[mine[t]] = [fcmap[mine[t]] EXCEPT !.status =
                                  IF @ = "copying" THEN "stopped" ELSE @]
      BY <1>3, <2>1 DEF IInv, TypeOK
    <2>4. /\ fcmap'[mine[t]].source = fcmap[mine[t]].source
          /\ fcmap'[mine[t]].status = "copied" => fcmap[mine[t]].status = "copied"
          /\ fcmap[mine[t]].status = "idle" => fcmap'[mine[t]] = fcmap[mine[t]]
      BY <2>1, <2>3 DEF Mapping
    <2>5. ASSUME NEW u \in Uids, u = mine[t] PROVE MapOK(u)'
      BY <1>3, <2>1, <2>2, <2>4, <2>5 DEF MapOK, Exists
    <2>6. Changes(t)
      BY <2>1, <2>2, <2>3, <2>5 DEF Changes
    <2>7. req[t].op \in CreateOps => fcmap'[mine[t]] = fcmap[mine[t]]
      <3>1. SUFFICES ASSUME req[t].op \in CreateOps PROVE fcmap'[mine[t]] = fcmap[mine[t]]
        OBVIOUS
      <3>2. req[t] # None /\ mine[t] # None /\ CopierOK(t)
        BY <1>1, <3>1, RemoverFacts
      <3>3. fcmap[mine[t]] = [source |-> req[t].uid, copy |-> IsCopy(t), status |-> "idle"]
        BY <1>3, <3>1, <3>2 DEF CopierOK
      <3>4. fcmap[mine[t]].status = "idle"
        BY <3>3
      <3>5. QED
        BY <2>4, <3>4
    <2>8. Aside(t) /\ LetsGo(t) /\ CopierOK(t)'
      BY <1>1, <1>3, <2>2, <2>7, RemoverGoes DEF Continue, Undoing
    <2>9. QED
      BY <2>2, <2>6, <2>8 DEF Sound
  <1>4. QED
    BY <1>2, <1>3 DEF StopMap

LEMMA RemoveMapSound ==
  ASSUME IInv, CopyInv, NEW t \in Threads, RemoveMap(t)
  PROVE  Sound(t)
  <1>1. pc[t] = "rmMap" /\ pc[t] \in Undoing
    BY DEF RemoveMap, Undoing
  <1>2. CASE Refused(t)
    BY <1>1, <1>2, RemoverErrs
  <1>3. CASE /\ fcmap' = [fcmap EXCEPT ![mine[t]] = None]
             /\ Continue(t, "rmvolume")
             /\ UNCHANGED <<vdisk, copied, made, report, failures, crashes>>
    <2>1. mine[t] \in Uids /\ (acked[mine[t]] = None \/ mine[t] \in deleting)
      BY <1>1, RemoverFacts
    <2>2. Grows /\ UNCHANGED <<failures, copied, acked, vdisk, req, mine, tries>>
      BY <1>3 DEF Grows, report, Continue, IInv, TypeOK
    <2>3. \A u \in Uids : fcmap'[u] = fcmap[u] \/ (u = mine[t] /\ fcmap'[u] = None)
      BY <1>3 DEF IInv, TypeOK
    <2>4. Changes(t)
      BY <2>1, <2>2, <2>3 DEF Changes
    <2>5. Aside(t) /\ LetsGo(t) /\ CopierOK(t)'
      BY <1>1, <1>3, <2>1, <2>2, <2>3, RemoverGoes DEF Continue, Undoing
    <2>6. QED
      BY <2>2, <2>4, <2>5 DEF Sound
  <1>4. QED
    BY <1>2, <1>3 DEF RemoveMap

LEMMA RemoveVolumeSound ==
  ASSUME IInv, CopyInv, NEW t \in Threads, RemoveVolume(t)
  PROVE  Sound(t)
  <1>1. pc[t] = "rmvolume" /\ pc[t] \in Undoing
    BY DEF RemoveVolume, Undoing
  <1>2. CASE Refused(t)
    BY <1>1, <1>2, RemoverErrs
  <1>3. CASE /\ ~ IsMapped(mine[t]) /\ vdisk' = [vdisk EXCEPT ![mine[t]] = None] /\ Deleted(t)
             /\ UNCHANGED <<fcmap, copied, made, failures, crashes>>
    <2>1. mine[t] \in Uids
      BY <1>1, RemoverFacts
    <2>2. /\ vdisk'[mine[t]] = None /\ fcmap'[mine[t]] = None
          /\ \A u \in Uids : u # mine[t] => vdisk'[u] = vdisk[u]
      BY <1>3, <2>1 DEF IsMapped, IInv, TypeOK
    <2>3. Grows /\ Changes(t)
      BY <1>3, <2>2 DEF Deleted, Grows, Changes, IInv, TypeOK
    <2>4. QED
      BY <1>1, <1>3, <2>2, <2>3, DeletedSound
  <1>4. QED
    BY <1>2, <1>3 DEF RemoveVolume

LEMMA ExpandSound ==
  ASSUME IInv, CopyInv, NEW t \in Threads, Expand(t)
  PROVE  Sound(t)
  <1>1. req[t] # None /\ req[t].op \notin CreateOps
    BY DEF Expand, IInv, Core, PhaseInv, PhaseOK, CreateOps
  <1>2. /\ Return(t) /\ Grows /\ Changes(t) /\ acked' = acked
    BY DEF Expand, Reject, array, report, Grows, Changes, IInv, TypeOK
  <1>3. QED
    BY <1>1, <1>2, ReturnSound, DeleterSound DEF Sound

-----------------------------------------------------------------------------
(* The steps of the array and of the controller's pod.                     *)

LEMMA FinishCopyKeeps ==
  ASSUME IInv, IInv', CopyInv, NEW u \in Uids, FinishCopy(u)
  PROVE  CopyInv'
  <1>1. /\ fcmap[u] # None /\ fcmap[u].status = "copying" /\ fcmap[u] \in Mapping
        /\ fcmap' = [fcmap EXCEPT ![u].status = "copied"]
        /\ copied' = [copied EXCEPT ![u] = fcmap[u].source]
        /\ UNCHANGED <<vdisk, made, pc, req, mine, tries, acked, deleting, failures, crashes>>
    BY DEF FinishCopy, local, report, IInv, TypeOK
  <1>2. /\ \A x \in Uids : x # u => fcmap'[x] = fcmap[x] /\ copied'[x] = copied[x]
        /\ copied'[u] = fcmap[u].source /\ fcmap'[u] # None
        /\ fcmap'[u].source = fcmap[u].source /\ fcmap'[u].status = "copied"
        /\ fcmap[u].source \in Uids /\ fcmap[u].source # None
    <2>1. fcmap'[u] = [fcmap[u] EXCEPT !.status = "copied"] /\ copied'[u] = fcmap[u].source
      BY <1>1 DEF IInv, TypeOK
    <2>2. [fcmap[u] EXCEPT !.status = "copied"] \in Mapping
      BY <1>1 DEF Mapping
    <2>3. \A x \in Uids : x # u => fcmap'[x] = fcmap[x] /\ copied'[x] = copied[x]
      BY <1>1 DEF IInv, TypeOK
    <2>4. /\ [fcmap[u] EXCEPT !.status = "copied"].source = fcmap[u].source
          /\ [fcmap[u] EXCEPT !.status = "copied"].status = "copied"
          /\ fcmap[u].source \in Uids
      BY <1>1 DEF Mapping
    <2>5. QED
      BY <2>1, <2>2, <2>3, <2>4, FlashCopyAssumption
  <1>3. MapOK(u) /\ u <= made
    BY <1>1 DEF CopyInv, MapInv, MapOK, Exists, IInv, Core, ObjectInv
  <1>4. MapInv'
    <2>1. SUFFICES ASSUME NEW x \in Uids PROVE MapOK(x)'
      BY DEF MapInv
    <2>2. CASE x = u
      BY <1>1, <1>2, <1>3, <2>2 DEF MapOK, Exists
    <2>3. CASE x # u
      BY <1>1, <1>2, <2>3 DEF CopyInv, MapInv, MapOK, Exists
    <2>4. QED
      BY <2>2, <2>3
  <1>5. CopierInv'
    <2>1. SUFFICES ASSUME NEW t \in Threads PROVE CopierOK(t)'
      BY DEF CopierInv
    <2>2. CopierOK(t)
      BY DEF CopyInv, CopierInv
    <2>3. req[t] # None /\ req[t].op \in CreateOps /\ mine[t] # None => mine[t] # u
      <3>1. ASSUME req[t] # None, req[t].op \in CreateOps, mine[t] = u, mine[t] # None PROVE FALSE
        <4>1. fcmap[u] = [source |-> req[t].uid, copy |-> IsCopy(t), status |-> "idle"]
          BY <1>1, <2>2, <3>1 DEF CopierOK
        <4>2. fcmap[u].status = "idle"
          BY <4>1
        <4>3. QED
          BY <1>1, <4>2
      <3>2. QED
        BY <3>1
    <2>4. mine[t] \in Uids \union {None}
      BY DEF IInv, TypeOK
    <2>5. QED
      BY <1>1, <1>2, <2>2, <2>3, <2>4 DEF CopierOK, IsCopy
  <1>6. DataInv'
    <2>1. SUFFICES ASSUME crashes = 0, failures <= RollbackTries, NEW x \in Uids
                   PROVE  Told(x)' /\ (fcmap'[x] # None /\ acked[x] = None => Held(x)')
      BY <1>1 DEF DataInv
    <2>2. Told(x) /\ (fcmap[x] # None /\ acked[x] = None => Held(x))
      BY <2>1 DEF CopyInv, DataInv
    <2>3. fcmap'[x] # None /\ acked[x] = None => Held(x)'
      BY <1>1, <1>2, <2>2 DEF Held
    <2>4. CASE x # u
      BY <1>1, <1>2, <2>2, <2>3, <2>4 DEF Told, HasData, Exists
    <2>5. CASE x = u
      <3>1. acked[u] # None /\ u \notin deleting =>
              acked[u].uid = None \/ fcmap[u].source = acked[u].uid
        BY <1>1, <1>3, <2>2, <2>5, FlashCopyAssumption DEF Told, HasData, MapOK
      <3>2. QED
        BY <1>1, <1>2, <2>3, <2>5, <3>1 DEF Told, HasData
    <2>6. QED
      BY <2>4, <2>5
  <1>7. RolledBackInv'
    BY <1>1 DEF CopyInv, RolledBackInv, SnapshotRolledBack
  <1>8. QED
    BY <1>4, <1>5, <1>6, <1>7 DEF CopyInv

LEMMA CopyCrash ==
  ASSUME IInv, CopyInv, Crash
  PROVE  CopyInv'
  <1>1. /\ UNCHANGED <<vdisk, fcmap, copied, made, acked>> /\ crashes' # 0
        /\ \A t \in Threads : req'[t] = None /\ mine'[t] = None
    BY FlashCopyAssumption DEF Crash, array, report, IInv, TypeOK
  <1>2. MapInv'
    BY <1>1 DEF CopyInv, MapInv, MapOK, Exists
  <1>3. CopierInv'
    BY <1>1 DEF CopierInv, CopierOK
  <1>4. DataInv' /\ RolledBackInv'
    BY <1>1 DEF DataInv, RolledBackInv, SnapshotRolledBack
  <1>5. QED
    BY <1>2, <1>3, <1>4 DEF CopyInv

LEMMA CopyStutter ==
  ASSUME CopyInv, UNCHANGED vars
  PROVE  CopyInv'
  <1>1. MapInv'
    BY DEF vars, CopyInv, MapInv, MapOK, Exists
  <1>2. CopierInv'
    BY DEF vars, CopyInv, CopierInv, CopierOK, IsCopy
  <1>3. DataInv'
    BY DEF vars, CopyInv, DataInv, Told, Held, HasData, Exists
  <1>4. RolledBackInv'
    BY DEF vars, CopyInv, RolledBackInv, SnapshotRolledBack
  <1>5. QED
    BY <1>1, <1>2, <1>3, <1>4 DEF CopyInv

LEMMA CopyStep == IInv /\ CopyInv /\ IInv' /\ [Next]_vars => CopyInv'
  <1> SUFFICES ASSUME IInv, CopyInv, IInv', [Next]_vars PROVE CopyInv'
    OBVIOUS
  <1>1. ASSUME NEW t \in Threads, Call(t) PROVE CopyInv'
    <2>1. Sound(t) /\ fcmap' = fcmap
      BY <1>1, CallSound DEF CopyInv, Call, array
    <2>2. QED
      BY <2>1, SoundKeeps
  <1>2. ASSUME NEW t \in Threads, Step(t) \/ Fail(t) PROVE CopyInv'
    <2>1. pc[t] # "idle"
      BY <1>2 DEF Step, Find, CheckSource, MakeVolume, ReadBack, CopySource, MakeMap, StartMap,
                  UndoMap, UndoVolume, Look, RemoveMaps, StopMap, RemoveMap, RemoveVolume, Expand, Fail
    <2>2. req[t] # None
      BY <2>1 DEF IInv, Core, PhaseInv, PhaseOK
    <2>3. Fail(t) => Sound(t)
      <3>1. failures + 1 # failures
        BY FlashCopyAssumption DEF IInv, TypeOK
      <3>2. QED
        BY <2>1, <3>1, ErrorSound DEF Fail
    <2>4. Sound(t)
      BY <1>2, <2>3, FindSound, CheckSourceSound, MakeVolumeSound, ReadBackSound, CopySourceSound,
         MakeMapSound, StartMapSound, UndoMapSound, UndoVolumeSound, LookSound, RemoveMapsSound,
         StopMapSound, RemoveMapSound, RemoveVolumeSound, ExpandSound DEF Step
    <2>5. QED
      BY <2>2, <2>4, SoundKeeps
  <1>3. ASSUME NEW u \in Uids, FinishCopy(u) PROVE CopyInv'
    BY <1>3, FinishCopyKeeps
  <1>4. CASE Crash
    BY <1>4, CopyCrash
  <1>5. CASE UNCHANGED vars
    BY <1>5, CopyStutter
  <1>6. QED
    BY <1>1, <1>2, <1>3, <1>4, <1>5 DEF Next

LEMMA CopyInit == Init => CopyInv
  <1> SUFFICES ASSUME Init PROVE CopyInv
    OBVIOUS
  <1>1. PICK n \in VolumeNames :
          /\ vdisk = [u \in Uids |-> IF u = 1 THEN n ELSE None]
          /\ acked = [u \in Uids |-> IF u = 1
                        THEN [op |-> "createVolume", name |-> n, uid |-> None] ELSE None]
    BY DEF Init
  <1>2. MapInv
    BY DEF Init, MapInv, MapOK
  <1>3. CopierInv
    BY DEF Init, CopierInv, CopierOK
  <1>4. DataInv
    BY <1>1 DEF Init, DataInv, Told, HasData
  <1>5. RolledBackInv
    BY <1>1, FlashCopyAssumption DEF RolledBackInv, SnapshotRolledBack, Names
  <1>6. QED
    BY <1>2, <1>3, <1>4, <1>5 DEF CopyInv

THEOREM CopyInvariance == Spec => []CopyInv
  <1>1. Init => CopyInv
    BY CopyInit
  <1>2. QED
    BY <1>1, Invariance, CopyStep, PTL DEF Spec

-----------------------------------------------------------------------------
(* As long as no more commands failed than a roll-back has attempts and    *)
(* the controller was not restarted, a clone or snapshot that was reported *)
(* has its source's data: the mapping was started, and is only removed     *)
(* once the copy is there.                                                 *)
THEOREM CopiesHaveData == Spec => [](failures <= RollbackTries => ReportedHasData)
  <1>1. CopyInv => (failures <= RollbackTries => ReportedHasData)
    BY DEF CopyInv, DataInv, Told, ReportedHasData
  <1>2. QED
    BY <1>1, CopyInvariance, PTL

(* As long as fewer commands failed than a roll-back has attempts and the  *)
(* controller was not restarted, a CreateSnapshot that fails has removed   *)
(* what it made.                                                           *)
THEOREM FailedSnapshotLeavesNothing == Spec => [](failures < RollbackTries => SnapshotRolledBack)
  <1>1. CopyInv => (failures < RollbackTries => SnapshotRolledBack)
    BY DEF CopyInv, RolledBackInv
  <1>2. QED
    BY <1>1, CopyInvariance, PTL
=============================================================================
