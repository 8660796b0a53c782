-------------------------- MODULE SnapshotFunction --------------------------
(***************************************************************************)
(* Volumes, clones and snapshots on a Spectrum Virtualize system with the  *)
(* virtual snapshot function (virt_snap_func) of array_mediator_svc.py.    *)
(*                                                                         *)
(* A snapshot is an object of its own.  A volume is made from one through  *)
(* a temporary volume group under the new volume's name: the system makes  *)
(* the group with the volume in it, under a name of its own choice, and    *)
(* the volume is moved out, the group removed and the volume renamed.  A   *)
(* clone of a volume is made from a temporary snapshot under the clone's   *)
(* name.                                                                   *)
(***************************************************************************)
EXTENDS ArrayObjects

(* name is None until the rename; from is what a volume was made from, or  *)
(* a snapshot was taken of; group is the temporary group a volume is in;   *)
(* fcmap says whether it is in a FlashCopy mapping.                        *)
FunctionObject ==
  [name : Names \union {None}, size : Sizes, from : Ids \union {None},
   group : VolumeNames \union {None}, fcmap : BOOLEAN]

ASSUME FunctionAssumption == None \notin FunctionObject

FunctionPlace ==
  {"idle", "find", "snapshot", "create", "readGroup", "leave", "removeGroup", "rename",
   "removeSnapshot", "readBack", "undoVolume", "undoGroup", "look", "remove", "expand", "extend"}

(* The first volume may have a snapshot made without the function.         *)
InitSnapshotFunction ==
  /\ InitObjects("snapshotFunction")
  /\ \E b \in BOOLEAN :
       LET first == [name |-> FirstName, size |-> SizeOf[FirstName], from |-> None,
                     group |-> None, fcmap |-> b]
       IN  array = [object |-> First(first), made |-> FirstId, groups |-> {},
                    temporary |-> [n \in VolumeNames |-> None]]
  /\ memory = <<>>

AtFunction(t, place) == At(t, "snapshotFunction", place)

IsSnapshotOf(u) == Exists(u) /\ object[u].name \in SnapshotNames
IsVolume(u) == Exists(u) /\ ~ IsSnapshotOf(u)

(* get_object_by_id: a snapshot whose volume is gone is not found either,  *)
(* and the volume of a snapshot stands for it in what CreateVolume checks. *)
SourceVolume(r) == IF r.from = "snapshot" /\ IsSnapshotOf(r.uid) THEN object[r.uid].from ELSE r.uid

(* The system gives the next identifier to what it makes.                  *)
NextId == array.made + 1
MakeObject(o) == [array EXCEPT !.made = NextId, !.object[NextId] = o]

Step(t, to) == Continue(t, to) /\ NoFault /\ UNCHANGED <<memory, known>>

-----------------------------------------------------------------------------
(* CreateVolume checks the source, then looks the volume up; the name of   *)
(* one it finds is all that is compared, and its size without a source.    *)
(* CreateSnapshot looks the snapshot up, and then its volume, which must   *)
(* be in no FlashCopy mapping.                                             *)
FunctionFind(t) ==
  /\ AtFunction(t, "find")
  /\ LET r == req[t]
         snapshot == r.op = "createSnapshot"
         source == SourceVolume(r)
         valid == IsCopy(t) => IsVolume(source) /\ object[source].size >= r.size
         supported == CASE snapshot -> IsVolume(r.uid) /\ ~ object[r.uid].fcmap
                        [] IsCopy(t) /\ r.from = "volume" -> ~ object[r.uid].fcmap
                        [] OTHER -> TRUE
         fits(u) == IF snapshot THEN IsVolume(r.uid) ELSE r.uid = None => object[u].size >= r.size
     IN  \/ /\ valid
            /\ \E u \in Named(r.name) :
                 IF fits(u) THEN Report(t, u) /\ NoFault /\ UNCHANGED <<array, memory>>
                   ELSE Reject(t)
         \/ /\ valid /\ Named(r.name) = {} /\ supported
            /\ Step(t, IF snapshot \/ r.from = "volume" THEN "snapshot" ELSE "create")
            /\ UNCHANGED array
         \/ /\ valid => Named(r.name) = {} /\ ~ supported
            /\ Reject(t)

(* _create_cli_volume, with mkvolume.                                      *)
FunctionCreate(t) ==
  /\ AtFunction(t, "create") /\ ~ IsCopy(t)
  /\ IF NextId \in Ids
       THEN /\ array' = MakeObject([name |-> req[t].name, size |-> req[t].size, from |-> None,
                                    group |-> None, fcmap |-> FALSE])
            /\ Proceed(t, "readBack", [local[t] EXCEPT !.mine = NextId])
            /\ NoFault /\ UNCHANGED <<memory, known>>
       ELSE Reject(t)

(* _add_snapshot, for CreateSnapshot: the new snapshot is read back.       *)
AddSnapshot(t) ==
  /\ AtFunction(t, "snapshot") /\ ~ IsCopy(t)
  /\ LET source == req[t].uid IN
     IF NextId \in Ids /\ IsVolume(source) /\ Named(req[t].name) = {}
       THEN /\ array' = MakeObject([name |-> req[t].name, size |-> object[source].size,
                                    from |-> source, group |-> None, fcmap |-> FALSE])
            /\ Proceed(t, "readBack", [local[t] EXCEPT !.mine = NextId])
            /\ NoFault /\ UNCHANGED <<memory, known>>
       ELSE Reject(t)

(* _create_cli_volume_from_volume starts with a snapshot.  One that an     *)
(* earlier attempt has left makes it fail.                                 *)
AddTemporarySnapshot(t) ==
  /\ AtFunction(t, "snapshot") /\ IsCopy(t)
  /\ LET n == req[t].name IN
     IF array.temporary[n] = None /\ IsVolume(req[t].uid)
       THEN /\ array' = [array EXCEPT !.temporary[n] = req[t].uid]
            /\ Step(t, "create")
       ELSE Reject(t)

(* mkvolumegroup makes the group and the volume, and fails when an earlier *)
(* attempt has left the group; nothing is rolled back.                     *)
MakeFromSnapshot(t) ==
  /\ AtFunction(t, "create") /\ IsCopy(t)
  /\ LET n == req[t].name
         source == IF req[t].from = "volume" THEN array.temporary[n] ELSE req[t].uid
     IN  IF NextId \in Ids /\ Exists(source) /\ n \notin array.groups
           THEN /\ array' = [MakeObject([name |-> None, size |-> object[source].size,
                                         from |-> source, group |-> n, fcmap |-> FALSE])
                               EXCEPT !.groups = @ \union {n}]
                /\ Step(t, "readGroup")
           ELSE Reject(t)

(* _get_cli_volume_id_from_volume_group                                    *)
ReadGroupVolume(t) ==
  /\ AtFunction(t, "readGroup")
  /\ \E u \in {x \in Ids : Exists(x) /\ object[x].group = req[t].name} :
       Proceed(t, "leave", [local[t] EXCEPT !.mine = u])
  /\ NoFault /\ UNCHANGED <<array, memory, known>>

(* _fix_creation_side_effects: the volume leaves the group, ...            *)
LeaveTemporaryGroup(t) ==
  /\ AtFunction(t, "leave")
  /\ array' = [array EXCEPT !.object[local[t].mine].group = None]
  /\ Step(t, "removeGroup")

(* ... which is removed, ...                                               *)
RemoveTemporaryGroup(t) ==
  /\ AtFunction(t, "removeGroup")
  /\ array' = [array EXCEPT !.groups = @ \ {req[t].name}]
  /\ Step(t, "rename")

(* ... and the volume gets its name, by which a retry will find it.        *)
RenameVolume(t) ==
  /\ AtFunction(t, "rename")
  /\ IF Named(req[t].name) = {}
       THEN /\ array' = [array EXCEPT !.object[local[t].mine].name = req[t].name]
            /\ Step(t, IF req[t].from = "volume" THEN "removeSnapshot" ELSE "readBack")
       ELSE Step(t, "undoVolume") /\ UNCHANGED array

RemoveTemporarySnapshot(t) ==
  /\ AtFunction(t, "removeSnapshot")
  /\ array' = [array EXCEPT !.temporary[req[t].name] = None]
  /\ Step(t, "readBack")

FunctionReadBack(t) ==
  /\ AtFunction(t, "readBack")
  /\ \/ \E u \in Named(req[t].name) : Report(t, u) /\ NoFault /\ UNCHANGED <<array, memory>>
     \/ Named(req[t].name) = {} /\ Reject(t)

(* _rollback_create_volume_from_snapshot, once: the volume by its id, and  *)
(* the group, which may be gone.                                           *)
UndoFunctionVolume(t) ==
  /\ AtFunction(t, "undoVolume")
  /\ array' = [array EXCEPT !.object[local[t].mine] = None]
  /\ Step(t, "undoGroup")

UndoTemporaryGroup(t) ==
  /\ AtFunction(t, "undoGroup")
  /\ array' = [array EXCEPT !.groups = @ \ {req[t].name}]
  /\ Return(t)
  /\ NoFault /\ UNCHANGED <<memory, known>>

-----------------------------------------------------------------------------
(* An error of a command: only the three side effects are rolled back.  A  *)
(* temporary snapshot or group, and a volume without name, may be left.    *)
FunctionFail(t) ==
  /\ service = "snapshotFunction" /\ pc[t] # "idle"
  /\ Fault
  /\ IF pc[t] \in {"leave", "removeGroup", "rename"} THEN Continue(t, "undoVolume") ELSE Return(t)
  /\ UNCHANGED <<array, memory, known>>

(* delete_volume reads the volume.  With a FlashCopy mapping it is in use. *)
FunctionLook(t) ==
  /\ AtFunction(t, "look")
  /\ LET u == local[t].mine IN
     \/ ~ Exists(u) /\ Deleted(t) /\ NoFault /\ UNCHANGED <<array, memory>>
     \/ Exists(u) /\ object[u].fcmap /\ Reject(t)
     \/ Exists(u) /\ ~ object[u].fcmap /\ Step(t, "remove") /\ UNCHANGED array

(* rmvolume or rmsnapshot.  A volume's snapshots outlive it.               *)
FunctionRemove(t) ==
  /\ AtFunction(t, "remove")
  /\ array' = [array EXCEPT !.object[local[t].mine] = None]
  /\ Deleted(t)
  /\ NoFault /\ UNCHANGED memory

(* ControllerExpandVolume and expand_volume, with _safe_delete_fcmaps.     *)
FunctionExpand(t) ==
  /\ AtFunction(t, "expand")
  /\ LET u == local[t].mine
         isLarge == Exists(u) /\ object[u].size >= req[t].size
         canGrow == Exists(u) /\ ~ isLarge /\ ~ object[u].fcmap
     IN  \/ isLarge /\ Expanded(t) /\ NoFault /\ UNCHANGED <<array, memory>>
         \/ canGrow /\ Step(t, "extend") /\ UNCHANGED array
         \/ ~ isLarge /\ ~ canGrow /\ Reject(t)

FunctionExtend(t) ==
  /\ AtFunction(t, "extend")
  /\ IF Exists(local[t].mine)
       THEN /\ array' = [array EXCEPT !.object[local[t].mine].size = req[t].size]
            /\ Expanded(t) /\ NoFault /\ UNCHANGED memory
       ELSE Reject(t)

SnapshotFunctionNext ==
  \E t \in Threads :
    \/ FunctionFind(t) \/ FunctionCreate(t) \/ AddSnapshot(t) \/ AddTemporarySnapshot(t)
    \/ MakeFromSnapshot(t) \/ ReadGroupVolume(t) \/ LeaveTemporaryGroup(t)
    \/ RemoveTemporaryGroup(t) \/ RenameVolume(t) \/ RemoveTemporarySnapshot(t)
    \/ FunctionReadBack(t) \/ UndoFunctionVolume(t) \/ UndoTemporaryGroup(t)
    \/ FunctionLook(t) \/ FunctionRemove(t) \/ FunctionExpand(t) \/ FunctionExtend(t)
    \/ FunctionFail(t)
-----------------------------------------------------------------------------
SnapshotFunctionTypeOK ==
  /\ array \in [object : [Ids -> FunctionObject \union {None}], made : {0} \union Ids,
                groups : SUBSET VolumeNames, temporary : [VolumeNames -> Ids \union {None}]]
  /\ memory = <<>>
  /\ \A t \in Threads : pc[t] \in FunctionPlace

(* A volume with a name was made from what was asked for, a snapshot taken *)
(* of the requested volume; and a volume that was reported is in no        *)
(* temporary group any more, whose removal another attempt would undo.     *)
FunctionHasData(u) ==
  /\ object[u].from = known.acked[u].uid
  /\ object[u].group = None
=============================================================================
