------------------------------ MODULE FlashCopy ------------------------------
(***************************************************************************)
(* Volumes, clones and snapshots on a Spectrum Virtualize array:           *)
(* CreateVolume, DeleteVolume, CreateSnapshot, DeleteSnapshot and          *)
(* ControllerExpandVolume of csi_controller_server.py, under the lock of   *)
(* sync_lock.py, with the FlashCopy commands of array_mediator_svc.py (no  *)
(* partition, no volume group snapshot, no remote copy) and the roll-back  *)
(* of array_mediator_abstract.py.                                          *)
(*                                                                         *)
(* A step of a worker thread is one command that changes the array, or the *)
(* queries it makes between two such commands.  Any of them may fail with  *)
(* a CLI error, without effect, MaxFailures times; the controller's pod    *)
(* may be restarted MaxCrashes times.                                      *)
(***************************************************************************)
EXTENDS Naturals

CONSTANTS
  Threads, None,
  VolumeNames,    \* the provisioner's names, pvc-<uuid>, ...
  SnapshotNames,  \* ... and the snapshotter's, snapshot-<uuid>, never meet
  MaxVdisks,      \* the vdisks the array ever has; vdisk 1 exists at the start
  RollbackTries,  \* the attempts of the retry decorators (5 in the code)
  MaxFailures, MaxCrashes

VARIABLES
  ids_in_use,  \* sync_lock.py: the <<attribute, id>> pairs being processed
  vdisk,       \* the name of each of the array's vdisks, or None, by vdisk_UID
  fcmap,       \* its FlashCopy mappings: [source, copy, status], by target
  copied,      \* the source whose data a vdisk holds independently of a mapping
  made,        \* how many vdisks have been made so far
  pc, req,     \* each thread's place and request
  mine,        \* the vdisk each thread has made or is to remove
  plan,        \* what each thread read before it removes mappings
  tries,       \* the attempts each thread's roll-back has left
  acked,       \* the create request each vdisk was reported for, or None
  deleting,    \* the vdisks whose deletion was ever asked for
  gone,        \* the vdisks reported deleted
  failures, crashes

array == <<vdisk, fcmap, copied, made>>
local == <<pc, req, mine, plan, tries>>
report == <<acked, deleting, gone>>
vars == <<ids_in_use, vdisk, fcmap, copied, made, pc, req, mine, plan, tries,
          acked, deleting, gone, failures, crashes>>

Uids == 1 .. MaxVdisks
Names == VolumeNames \union SnapshotNames
CreateOps == {"createVolume", "createSnapshot"}
Ops == CreateOps \union {"deleteVolume", "deleteSnapshot", "expandVolume"}

(* uid is the source of what is created, or what is deleted or expanded.   *)
Request == [op : Ops, name : Names \union {None}, uid : Uids \union {None}]
Mapping == [source : Uids, copy : BOOLEAN,
            status : {"idle", "copying", "copied", "stopped"}]
Phase == {"idle", "find", "checkSource", "mkvolume", "readBack", "copySource",
          "mkfcmap", "startfcmap", "undoMap", "undoVolume",
          "look", "rmMaps", "stopMap", "rmMap", "rmvolume", "expand"}
Plan == [maps : SUBSET Uids, own : BOOLEAN]
NoPlan == [maps |-> {}, own |-> FALSE]

ASSUME FlashCopyAssumption ==
  /\ VolumeNames \intersect SnapshotNames = {}
  /\ None \notin Names \union Uids \union Request \union Mapping
  /\ MaxVdisks \in Nat \ {0}
  /\ RollbackTries \in Nat \ {0}
  /\ MaxFailures \in Nat /\ MaxCrashes \in Nat

Init ==
  /\ \E n \in VolumeNames :
       /\ vdisk = [u \in Uids |-> IF u = 1 THEN n ELSE None]
       /\ acked = [u \in Uids |-> IF u = 1
                     THEN [op |-> "createVolume", name |-> n, uid |-> None] ELSE None]
  /\ ids_in_use = {}
  /\ fcmap = [u \in Uids |-> None]
  /\ copied = [u \in Uids |-> None]
  /\ made = 1
  /\ pc = [t \in Threads |-> "idle"]
  /\ req = [t \in Threads |-> None]
  /\ mine = [t \in Threads |-> None]
  /\ plan = [t \in Threads |-> NoPlan]
  /\ tries = [t \in Threads |-> 0]
  /\ deleting = {} /\ gone = {}
  /\ failures = 0 /\ crashes = 0

-----------------------------------------------------------------------------
Exists(u) == u # None /\ vdisk[u] # None

Named(n) == {u \in Uids : vdisk[u] = n}

MapsFrom(u) == {x \in Uids : fcmap[x] # None /\ fcmap[x].source = u}

IsMapped(u) == fcmap[u] # None \/ MapsFrom(u) # {}

(* FCMAP_STATUS_DONE is idle_or_copied: it does not tell a mapping that    *)
(* was never started from one that finished.                               *)
IsDone(m) == m.status \in {"idle", "copied"}

(* A mapping is in use unless it is a done copy: _safe_delete_fcmaps.      *)
InUse(m) == ~ IsDone(m) \/ ~ m.copy

Goto(t, to) == pc' = [pc EXCEPT ![t] = to]

(* The decorator csi_method locks the value of one request attribute.      *)
LockOf(r) ==
  CASE r.op \in CreateOps -> <<"name", r.name>>
    [] r.op \in {"deleteVolume", "expandVolume"} -> <<"volume_id", r.uid>>
    [] r.op = "deleteSnapshot" -> <<"snapshot_id", r.uid>>

(* The handler returns or raises: the lock is released, the thread free.   *)
Return(t) ==
  /\ ids_in_use' = ids_in_use \ {LockOf(req[t])}
  /\ Goto(t, "idle")
  /\ req' = [req EXCEPT ![t] = None]
  /\ mine' = [mine EXCEPT ![t] = None]
  /\ plan' = [plan EXCEPT ![t] = NoPlan]
  /\ tries' = [tries EXCEPT ![t] = 0]

Continue(t, to) ==
  /\ Goto(t, to)
  /\ UNCHANGED <<ids_in_use, req, mine, plan, tries>>

(* A roll-back starts with all its attempts.                               *)
RollBack(t, to) ==
  /\ Goto(t, to)
  /\ tries' = [tries EXCEPT ![t] = RollbackTries]
  /\ UNCHANGED <<ids_in_use, req, mine, plan>>

(* An attempt of a roll-back failed: try again, or let it be.              *)
TryAgain(t, to, otherwise) ==
  \/ /\ tries[t] > 1
     /\ tries' = [tries EXCEPT ![t] = @ - 1]
     /\ Goto(t, to)
     /\ UNCHANGED <<ids_in_use, req, mine, plan>>
  \/ tries[t] <= 1 /\ otherwise

IsCopy(t) == req[t].op = "createVolume"

(* What an error of a command leads to, by where it hits.                  *)
OnError(t) ==
  CASE pc[t] \in {"mkvolume", "startfcmap", "mkfcmap"} /\ req[t].op = "createSnapshot" ->
         RollBack(t, "undoMap")
    [] pc[t] \in {"mkfcmap", "startfcmap"} /\ IsCopy(t) -> RollBack(t, "undoMap")
    [] pc[t] = "copySource" -> RollBack(t, "look")
    [] pc[t] = "undoMap" /\ IsCopy(t) -> TryAgain(t, "undoMap", RollBack(t, "look"))
    [] pc[t] \in {"undoMap", "undoVolume"} /\ ~ IsCopy(t) ->
         TryAgain(t, "undoMap", Return(t))
    [] pc[t] \in {"look", "rmMaps", "stopMap", "rmMap", "rmvolume"} /\ IsCopy(t) ->
         TryAgain(t, "look", Return(t))
    [] OTHER -> Return(t)

(* The array refuses a command in its present state.                       *)
Refused(t) ==
  /\ OnError(t)
  /\ UNCHANGED <<array, report, failures, crashes>>

(* A command or query fails for a reason of the array's or the network's.  *)
Fail(t) ==
  /\ pc[t] # "idle"
  /\ failures < MaxFailures
  /\ failures' = failures + 1
  /\ OnError(t)
  /\ UNCHANGED <<array, report, crashes>>

(* The answer is an error, no command having failed.                       *)
Reject(t) ==
  /\ Return(t)
  /\ UNCHANGED <<array, report, failures, crashes>>

(* The object is reported to the orchestrator, which may use it from now.  *)
Report(t, u) ==
  /\ acked' = [acked EXCEPT ![u] = req[t]]
  /\ Return(t)
  /\ UNCHANGED <<deleting, gone>>

-----------------------------------------------------------------------------
(* The orchestrator may create from, delete and expand what was reported.  *)
Reported(op) == {u \in Uids : acked[u] # None /\ acked[u].op = op}

Allowed ==
  LET volumes == Reported("createVolume")
      snapshots == Reported("createSnapshot")
  IN  [op : {"createVolume"}, name : VolumeNames, uid : volumes \union snapshots \union {None}]
        \union [op : {"createSnapshot"}, name : SnapshotNames, uid : volumes]
        \union [op : {"deleteVolume", "expandVolume"}, name : {None}, uid : volumes]
        \union [op : {"deleteSnapshot"}, name : {None}, uid : snapshots]

(* csi_method: a request whose lock is taken is ABORTED; another starts.   *)
Call(t) ==
  /\ pc[t] = "idle"
  /\ \E r \in Allowed :
       /\ LockOf(r) \notin ids_in_use
       /\ ids_in_use' = ids_in_use \union {LockOf(r)}
       /\ req' = [req EXCEPT ![t] = r]
       /\ Goto(t, IF r.op \in CreateOps THEN "find" ELSE "look")
       /\ mine' = [mine EXCEPT ![t] = IF r.op \in CreateOps THEN None ELSE r.uid]
       /\ deleting' = IF r.op \in {"deleteVolume", "deleteSnapshot"}
                        THEN deleting \union {r.uid} ELSE deleting
  /\ UNCHANGED <<array, plan, tries, acked, gone, failures, crashes>>

(* get_volume: the source of an existing volume is that of its mapping.    *)
SourceOf(u) == IF fcmap[u] = None THEN None ELSE fcmap[u].source

(* get_snapshot: a vdisk is a snapshot when it is the target of a mapping  *)
(* that does not copy.                                                     *)
IsSnapshot(u) == fcmap[u] # None /\ ~ fcmap[u].copy

(* Mutant: an object of that name is reported whatever its source.         *)
FindAnySource(t) ==
  /\ pc[t] = "find"
  /\ \/ /\ Named(req[t].name) = {}
        /\ Continue(t, IF IsCopy(t) THEN "mkvolume" ELSE "checkSource")
        /\ UNCHANGED <<array, report, failures, crashes>>
     \/ \E u \in Named(req[t].name) : Report(t, u) /\ UNCHANGED <<array, failures, crashes>>

(* get_volume and get_snapshot: an object of that name is reported again   *)
(* if it has the requested source, and refused if it has not.              *)
Find(t) ==
  /\ pc[t] = "find"
  /\ \/ /\ Named(req[t].name) = {}
        /\ Continue(t, IF IsCopy(t) THEN "mkvolume" ELSE "checkSource")
        /\ UNCHANGED <<array, report, failures, crashes>>
     \/ \E u \in Named(req[t].name) :
          LET same == SourceOf(u) = req[t].uid /\ (IsCopy(t) \/ IsSnapshot(u))
          IN  \/ same /\ Report(t, u) /\ UNCHANGED <<array, failures, crashes>>
              \/ ~ same /\ Reject(t)

(* CreateSnapshot: get_object_by_id and the look-ups of create_snapshot.   *)
CheckSource(t) ==
  /\ pc[t] = "checkSource"
  /\ \/ Exists(req[t].uid) /\ Continue(t, "mkvolume")
        /\ UNCHANGED <<array, report, failures, crashes>>
     \/ ~ Exists(req[t].uid) /\ Reject(t)

(* mkvolume.  A name in use (VolumeAlreadyExists) and a full pool          *)
(* (NotEnoughSpaceInPool) are refused, and are not rolled back.            *)
MakeVolume(t) ==
  /\ pc[t] = "mkvolume"
  /\ \/ /\ Named(req[t].name) = {} /\ made < MaxVdisks
        /\ made' = made + 1
        /\ vdisk' = [vdisk EXCEPT ![made + 1] = req[t].name]
        /\ mine' = [mine EXCEPT ![t] = made + 1]
        /\ Goto(t, IF IsCopy(t) THEN "readBack" ELSE "mkfcmap")
        /\ UNCHANGED <<fcmap, copied, ids_in_use, req, plan, tries, report, failures, crashes>>
     \/ (Named(req[t].name) # {} \/ made = MaxVdisks) /\ Reject(t)

(* create_volume reads back what it made; without a source that is all.    *)
ReadBack(t) ==
  /\ pc[t] = "readBack"
  /\ \/ /\ ~ Exists(mine[t])
        /\ Reject(t)
     \/ /\ Exists(mine[t]) /\ req[t].uid # None
        /\ Continue(t, "copySource")
        /\ UNCHANGED <<array, report, failures, crashes>>
     \/ /\ Exists(mine[t]) /\ req[t].uid = None
        /\ Report(t, mine[t])
        /\ UNCHANGED <<array, failures, crashes>>

(* copy_to_existing_volume_from_source: get_object_by_id of the source; a  *)
(* source that is gone, or is no snapshot any more, is rolled back by      *)
(* deleting the new volume.                                                *)
CopySource(t) ==
  LET src == req[t].uid
      found == Exists(src) /\ (acked[src].op = "createSnapshot" => IsSnapshot(src))
  IN  /\ pc[t] = "copySource"
      /\ \/ found /\ Continue(t, "mkfcmap")
            /\ UNCHANGED <<array, report, failures, crashes>>
         \/ ~ found /\ Refused(t)

(* Mutant: the object is reported before its mapping is started.           *)
MakeMapReports(t) ==
  /\ pc[t] = "mkfcmap"
  /\ Exists(req[t].uid) /\ Exists(mine[t])
  /\ fcmap' = [fcmap EXCEPT ![mine[t]] =
                 [source |-> req[t].uid, copy |-> IsCopy(t), status |-> "idle"]]
  /\ acked' = [acked EXCEPT ![mine[t]] = req[t]]
  /\ Continue(t, "startfcmap")
  /\ UNCHANGED <<vdisk, copied, made, deleting, gone, failures, crashes>>

(* mkfcmap, with copy rate 0 for a snapshot.                               *)
MakeMap(t) ==
  LET can == Exists(req[t].uid) /\ Exists(mine[t])
  IN  /\ pc[t] = "mkfcmap"
      /\ \/ /\ can
            /\ fcmap' = [fcmap EXCEPT ![mine[t]] =
                           [source |-> req[t].uid, copy |-> IsCopy(t), status |-> "idle"]]
            /\ Continue(t, "startfcmap")
            /\ UNCHANGED <<vdisk, copied, made, report, failures, crashes>>
         \/ ~ can /\ Refused(t)

(* startfcmap, after which the new object is reported.                     *)
StartMap(t) ==
  /\ pc[t] = "startfcmap"
  /\ \/ /\ fcmap[mine[t]] # None
        /\ fcmap' = [fcmap EXCEPT ![mine[t]].status = "copying"]
        /\ Report(t, mine[t])
        /\ UNCHANGED <<vdisk, copied, made, failures, crashes>>
     \/ fcmap[mine[t]] = None /\ Refused(t)

-----------------------------------------------------------------------------
(* Mutant: the roll-back of a snapshot ends with the mapping.              *)
UndoMapOnly(t) ==
  LET target == Named(req[t].name)
      can == \A u \in target : fcmap[u] # None => IsDone(fcmap[u])
  IN  /\ pc[t] = "undoMap"
      /\ can
      /\ fcmap' = [u \in Uids |-> IF u \in target THEN None ELSE fcmap[u]]
      /\ IF IsCopy(t) THEN RollBack(t, "look") ELSE Return(t)
      /\ UNCHANGED <<vdisk, copied, made, report, failures, crashes>>

(* The roll-backs look their target up by name, delete its mapping if it   *)
(* has one (FC_id), which the array refuses once it is started, ...        *)
UndoMap(t) ==
  LET target == Named(req[t].name)
      can == \A u \in target : fcmap[u] # None => IsDone(fcmap[u])
  IN  /\ pc[t] = "undoMap"
      /\ \/ /\ can
            /\ fcmap' = [u \in Uids |-> IF u \in target THEN None ELSE fcmap[u]]
            /\ IF IsCopy(t) THEN RollBack(t, "look")
                 ELSE IF target = {} THEN Return(t) ELSE Continue(t, "undoVolume")
            /\ UNCHANGED <<vdisk, copied, made, report, failures, crashes>>
         \/ ~ can /\ Refused(t)

(* ... and delete the snapshot's vdisk.                                    *)
UndoVolume(t) ==
  LET target == Named(req[t].name)
      can == \A u \in target : ~ IsMapped(u)
  IN  /\ pc[t] = "undoVolume"
      /\ \/ /\ can
            /\ vdisk' = [u \in Uids |-> IF u \in target THEN None ELSE vdisk[u]]
            /\ Return(t)
            /\ UNCHANGED <<fcmap, copied, made, report, failures, crashes>>
         \/ ~ can /\ Refused(t)

-----------------------------------------------------------------------------
(* Mutant: the roll-back of CreateVolume reports a deletion.               *)
DeletedAlways(t) ==
  /\ gone' = gone \union {mine[t]}
  /\ Return(t)
  /\ UNCHANGED <<acked, deleting>>

(* DeleteVolume and DeleteSnapshot answer OK: the object is gone.  The     *)
(* roll-back of CreateVolume answers with the error that started it.       *)
Deleted(t) ==
  /\ gone' = IF IsCopy(t) THEN gone ELSE gone \union {mine[t]}
  /\ Return(t)
  /\ UNCHANGED <<acked, deleting>>

(* Where _delete_volume and expand_volume go when no mapping of the        *)
(* object's copies is left to remove.                                      *)
AfterMaps(t, own) ==
  IF req[t].op = "expandVolume" THEN "expand" ELSE IF own THEN "stopMap" ELSE "rmvolume"

(* _delete_volume and expand_volume read the mappings of the object.  One  *)
(* that is not there, or a snapshot without mapping, is ObjectNotFound,    *)
(* which a deletion takes for success.  A mapping in use refuses both.     *)
Look(t) ==
  LET u == mine[t]
      op == req[t].op
      own == fcmap[u] # None
      maps == IF op = "expandVolume" /\ own THEN MapsFrom(u) \union {u} ELSE MapsFrom(u)
      found == Exists(u) /\ (op = "deleteSnapshot" => own)
      used == \E x \in maps : InUse(fcmap[x])
  IN  /\ pc[t] = "look"
      /\ \/ /\ ~ found /\ op # "expandVolume"
            /\ Deleted(t)
            /\ UNCHANGED <<array, failures, crashes>>
         \/ (IF found THEN used ELSE op = "expandVolume") /\ Refused(t)
         \/ /\ found /\ ~ used
            /\ plan' = [plan EXCEPT ![t] = [maps |-> maps, own |-> own]]
            /\ Goto(t, IF maps # {} THEN "rmMaps" ELSE AfterMaps(t, own))
            /\ UNCHANGED <<array, ids_in_use, req, mine, tries, report, failures, crashes>>

(* _safe_delete_fcmaps: rmfcmap without force of each mapping that was     *)
(* done when it was read.                                                  *)
RemoveMaps(t) ==
  /\ pc[t] = "rmMaps"
  /\ \E x \in plan[t].maps :
       LET can == fcmap[x] # None /\ IsDone(fcmap[x])
           rest == plan[t].maps \ {x}
       IN  \/ /\ can
              /\ fcmap' = [fcmap EXCEPT ![x] = None]
              /\ plan' = [plan EXCEPT ![t].maps = rest]
              /\ Goto(t, IF rest # {} THEN "rmMaps" ELSE AfterMaps(t, plan[t].own))
              /\ UNCHANGED <<vdisk, copied, made, ids_in_use, req, mine, tries, report,
                             failures, crashes>>
           \/ ~ can /\ Refused(t)

(* _safe_stop_and_delete_fcmap of the object's own mapping.                *)
StopMap(t) ==
  LET u == mine[t]
  IN  /\ pc[t] = "stopMap"
      /\ \/ /\ fcmap[u] # None
            /\ fcmap' = [fcmap EXCEPT ![u].status = IF @ = "copying" THEN "stopped" ELSE @]
            /\ Continue(t, "rmMap")
            /\ UNCHANGED <<vdisk, copied, made, report, failures, crashes>>
         \/ fcmap[u] = None /\ Refused(t)

RemoveMap(t) ==
  LET u == mine[t]
  IN  /\ pc[t] = "rmMap"
      /\ \/ /\ fcmap[u] # None
            /\ fcmap' = [fcmap EXCEPT ![u] = None]
            /\ Continue(t, "rmvolume")
            /\ UNCHANGED <<vdisk, copied, made, report, failures, crashes>>
         \/ fcmap[u] = None /\ Refused(t)

(* Mutant: an error of rmvolume is swallowed.                              *)
RemoveVolumeIgnoresError(t) ==
  LET u == mine[t]
  IN  /\ pc[t] = "rmvolume"
      /\ vdisk' = [vdisk EXCEPT ![u] = IF IsMapped(u) THEN @ ELSE None]
      /\ Deleted(t)
      /\ UNCHANGED <<fcmap, copied, made, failures, crashes>>

(* rmvolume, which the array refuses while the vdisk is in a mapping.      *)
RemoveVolume(t) ==
  LET u == mine[t]
  IN  /\ pc[t] = "rmvolume"
      /\ \/ /\ ~ IsMapped(u)
            /\ vdisk' = [vdisk EXCEPT ![u] = None]
            /\ Deleted(t)
            /\ UNCHANGED <<fcmap, copied, made, failures, crashes>>
         \/ IsMapped(u) /\ Refused(t)

(* expandvdisksize (sizes are not modelled), refused like rmvolume.        *)
Expand(t) ==
  /\ pc[t] = "expand"
  /\ Reject(t)

-----------------------------------------------------------------------------
(* The array finishes copying a clone.                                     *)
FinishCopy(u) ==
  /\ fcmap[u] # None /\ fcmap[u].copy /\ fcmap[u].status = "copying"
  /\ fcmap' = [fcmap EXCEPT ![u].status = "copied"]
  /\ copied' = [copied EXCEPT ![u] = fcmap[u].source]
  /\ UNCHANGED <<ids_in_use, vdisk, made, local, report, failures, crashes>>

(* The controller's pod is restarted: its threads and its locks are gone.  *)
Crash ==
  /\ crashes < MaxCrashes
  /\ crashes' = crashes + 1
  /\ ids_in_use' = {}
  /\ pc' = [t \in Threads |-> "idle"]
  /\ req' = [t \in Threads |-> None]
  /\ mine' = [t \in Threads |-> None]
  /\ plan' = [t \in Threads |-> NoPlan]
  /\ tries' = [t \in Threads |-> 0]
  /\ UNCHANGED <<array, report, failures>>

Step(t) ==
  \/ Find(t)       \/ CheckSource(t) \/ MakeVolume(t) \/ ReadBack(t)
  \/ CopySource(t) \/ MakeMap(t)     \/ StartMap(t)
  \/ UndoMap(t)    \/ UndoVolume(t)
  \/ Look(t)       \/ RemoveMaps(t)  \/ StopMap(t)    \/ RemoveMap(t)
  \/ RemoveVolume(t) \/ Expand(t)

Next ==
  \/ \E t \in Threads : Call(t) \/ Step(t) \/ Fail(t)
  \/ \E u \in Uids : FinishCopy(u)
  \/ Crash

Spec == Init /\ [][Next]_vars

-----------------------------------------------------------------------------
TypeOK ==
  /\ ids_in_use \subseteq {LockOf(r) : r \in Request}
  /\ vdisk \in [Uids -> Names \union {None}]
  /\ fcmap \in [Uids -> Mapping \union {None}]
  /\ copied \in [Uids -> Uids \union {None}]
  /\ made \in 1 .. MaxVdisks
  /\ pc \in [Threads -> Phase]
  /\ req \in [Threads -> Request \union {None}]
  /\ mine \in [Threads -> Uids \union {None}]
  /\ plan \in [Threads -> Plan]
  /\ tries \in [Threads -> 0 .. RollbackTries]
  /\ acked \in [Uids -> Request \union {None}]
  /\ deleting \subseteq Uids /\ gone \subseteq deleting
  /\ failures \in 0 .. MaxFailures /\ crashes \in 0 .. MaxCrashes

(* What was reported to the orchestrator stays until it asks for its       *)
(* deletion: no roll-back and no deletion of another object removes it.    *)
ReportedExists ==
  \A u \in Uids : acked[u] # None /\ u \notin deleting => Exists(u)

(* What was reported as made from a source has the source's data: the      *)
(* mapping to the source was started and stays while the data depends on   *)
(* it.  A restart of the controller breaks this; see HasDataAfterRestart.  *)
HasData(u) ==
  LET src == acked[u].uid
  IN  \/ src = None
      \/ copied[u] = src
      \/ /\ fcmap[u] # None
         /\ fcmap[u].source = src
         /\ fcmap[u].status \in {"copying", "copied"}
         /\ Exists(src)

ReportedHasData ==
  \A u \in Uids : crashes = 0 /\ acked[u] # None /\ u \notin deleting => HasData(u)

(* A volume reported deleted is gone.                                      *)
DeletedVolumeGone ==
  \A u \in gone : acked[u].op = "createVolume" => ~ Exists(u)

(* CreateSnapshot leaves nothing behind when it fails: a snapshot's vdisk  *)
(* that was never reported is still being worked on.  (Nobody removes what *)
(* a restart leaves behind, unless the request is repeated.)               *)
SnapshotRolledBack ==
  \A u \in Uids :
    crashes = 0 /\ vdisk[u] \in SnapshotNames /\ acked[u] = None =>
      \E t \in Threads : mine[t] = u

-----------------------------------------------------------------------------
(* What the source says of these operations, and the code does not do once *)
(* a restart or an error hits between two commands.                        *)

(* "If volume exists and is a copy of specified object - set context       *)
(* status to OK": a volume reported as a copy is one, and a snapshot       *)
(* reported ready was taken.                                               *)
HasDataAfterRestart ==
  \A u \in Uids : acked[u] # None /\ u \notin deleting => HasData(u)

(* "This function should delete a snapshot in the storage system": a       *)
(* snapshot reported deleted is gone.                                      *)
DeletedSnapshotGone ==
  \A u \in gone : acked[u].op = "createSnapshot" => ~ Exists(u)
=============================================================================
