-------------------------- MODULE PartitionObjects --------------------------
(***************************************************************************)
(* Volumes, clones and snapshots in a storage partition of a Spectrum      *)
(* Virtualize system: the partition functions of array_mediator_svc.py.    *)
(*                                                                         *)
(* A snapshot is a volume like a clone: both are made from a temporary     *)
(* snapshot of the source's volume group, under the new volume's name,     *)
(* which the system discards by itself after five minutes.                 *)
(***************************************************************************)
EXTENDS ArrayObjects

PartitionObject == [name : Names, size : Sizes, source : Ids \union {None}]

ASSUME PartitionAssumption == None \notin PartitionObject

PartitionPlace ==
  {"idle", "find", "create", "snapshot", "clone", "removeSnapshot", "readBack",
   "look", "remove", "expand", "extend"}

(* temporary holds the source of the snapshot there is under a name.       *)
InitPartition ==
  /\ InitObjects("partition")
  /\ LET first == [name |-> FirstName, size |-> SizeOf[FirstName], source |-> None]
     IN  array = [object |-> First(first), made |-> FirstId, temporary |-> [n \in Names |-> None]]
  /\ memory = <<>>

AtPartition(t, place) == At(t, "partition", place)

(* _generate_volume_response and _generate_snapshot_response_with_         *)
(* verification look the source up by its name, which may be gone.         *)
ShownSource(o) == IF Exists(o.source) THEN o.source ELSE None

Goes(t, to) == Continue(t, to) /\ NoFault /\ UNCHANGED <<memory, known>>

MakeVolume(t, size, source) ==
  array' = [array EXCEPT !.made = @ + 1,
              !.object[array.made + 1] = [name |-> req[t].name, size |-> size, source |-> source]]

CanMake(n) == array.made + 1 \in Ids /\ Named(n) = {}

-----------------------------------------------------------------------------
(* CreateVolume reads its source first, then the volume by name, and       *)
(* CreateSnapshot the other way round; what is found must show the source  *)
(* that is asked for.  _partition_create_volume wants a source of the size *)
(* of the clone.                                                           *)
PartitionFind(t) ==
  /\ AtPartition(t, "find")
  /\ LET r == req[t]
         found == Named(r.name)
         noSource == /\ r.uid # None /\ ~ Exists(r.uid)
                     /\ r.op = "createSnapshot" => found = {}
         otherSize == IsCopy(t) /\ object[r.uid].size # r.size
     IN  \/ noSource /\ Reject(t)
         \/ /\ ~ noSource
            /\ \E u \in found :
                 IF Accepts(r, ShownSource(object[u]), object[u].size)
                   THEN Report(t, u) /\ NoFault /\ UNCHANGED <<array, memory>>
                   ELSE Reject(t)
         \/ ~ noSource /\ found = {} /\ otherSize /\ Reject(t)
         \/ /\ ~ noSource /\ found = {} /\ ~ otherSize
            /\ Goes(t, IF r.uid = None THEN "create" ELSE "snapshot")
            /\ UNCHANGED array

(* _create_cli_volume, in the partition's volume group.                    *)
PartitionCreate(t) ==
  /\ AtPartition(t, "create")
  /\ IF CanMake(req[t].name)
       THEN /\ MakeVolume(t, req[t].size, None)
            /\ Goes(t, "readBack")
       ELSE Reject(t)

(* _add_vg_snapshot.  One that an earlier attempt has left makes it fail,  *)
(* until it is discarded.                                                  *)
AddGroupSnapshot(t) ==
  /\ AtPartition(t, "snapshot")
  /\ IF array.temporary[req[t].name] = None
       THEN array' = [array EXCEPT !.temporary[req[t].name] = req[t].uid] /\ Goes(t, "clone")
       ELSE Reject(t)

(* mkvolume from the snapshot.  When it fails the snapshot is removed all  *)
(* the same, and mine stays None.                                          *)
CloneFromSnapshot(t) ==
  /\ AtPartition(t, "clone")
  /\ LET n == req[t].name
         source == array.temporary[n]
         possible == CanMake(n) /\ Exists(source)
     IN  \/ /\ possible
            /\ MakeVolume(t, object[source].size, source)
            /\ Proceed(t, "removeSnapshot", [local[t] EXCEPT !.mine = array.made + 1])
            /\ NoFault /\ UNCHANGED <<memory, known>>
         \/ ~ possible /\ Goes(t, "removeSnapshot") /\ UNCHANGED array

(* rmsnapshot fails for a snapshot that has been discarded.                *)
RemoveGroupSnapshot(t) ==
  /\ AtPartition(t, "removeSnapshot")
  /\ LET isThere == array.temporary[req[t].name] # None
     IN  /\ array' = [array EXCEPT !.temporary[req[t].name] = None]
         /\ IF isThere /\ local[t].mine # None THEN Continue(t, "readBack") ELSE Return(t)
  /\ NoFault /\ UNCHANGED <<memory, known>>

(* The new volume is read back by its name.                                *)
PartitionReadBack(t) ==
  /\ AtPartition(t, "readBack")
  /\ \/ \E u \in Named(req[t].name) : Report(t, u) /\ NoFault /\ UNCHANGED <<array, memory>>
     \/ Named(req[t].name) = {} /\ Reject(t)

(* retentionminutes                                                        *)
DiscardSnapshot ==
  /\ service = "partition"
  /\ \E n \in Names :
       array.temporary[n] # None /\ array' = [array EXCEPT !.temporary[n] = None]
  /\ NoFault
  /\ UNCHANGED <<service, ids_in_use, pc, req, local, memory, known, calls>>

-----------------------------------------------------------------------------
(* Nothing is rolled back but the temporary snapshot.                      *)
PartitionFail(t) ==
  /\ service = "partition" /\ pc[t] # "idle"
  /\ Fault
  /\ IF pc[t] = "clone" THEN Continue(t, "removeSnapshot") ELSE Return(t)
  /\ UNCHANGED <<array, memory, known>>

(* delete_volume and delete_snapshot read the volume for its name.         *)
PartitionLook(t) ==
  /\ AtPartition(t, "look")
  /\ LET u == local[t].mine IN
     \/ ~ Exists(u) /\ Deleted(t) /\ NoFault /\ UNCHANGED <<array, memory>>
     \/ /\ Exists(u)
        /\ Proceed(t, "remove", [local[t] EXCEPT !.read = object[u]])
        /\ NoFault /\ UNCHANGED <<array, memory, known>>

(* rmvolume removes what has that name.                                    *)
PartitionRemove(t) ==
  /\ AtPartition(t, "remove")
  /\ array' = [array EXCEPT !.object =
                 [u \in Ids |-> IF u \in Named(local[t].read.name) THEN None ELSE @[u]]]
  /\ Deleted(t)
  /\ NoFault /\ UNCHANGED memory

(* ControllerExpandVolume and expand_volume                                *)
PartitionExpand(t) ==
  /\ AtPartition(t, "expand")
  /\ LET u == local[t].mine
         isLarge == Exists(u) /\ object[u].size >= req[t].size
     IN  \/ ~ Exists(u) /\ Reject(t)
         \/ isLarge /\ Expanded(t) /\ NoFault /\ UNCHANGED <<array, memory>>
         \/ /\ Exists(u) /\ ~ isLarge
            /\ Proceed(t, "extend", [local[t] EXCEPT !.read = object[u]])
            /\ NoFault /\ UNCHANGED <<array, memory, known>>

(* _change_volume_size gives what has that name the new size.              *)
PartitionExtend(t) ==
  /\ AtPartition(t, "extend")
  /\ \/ \E u \in Named(local[t].read.name) :
          /\ array' = [array EXCEPT !.object[u].size = req[t].size]
          /\ IF u = local[t].mine THEN Expanded(t) ELSE Return(t) /\ UNCHANGED known
          /\ NoFault /\ UNCHANGED memory
     \/ Named(local[t].read.name) = {} /\ Reject(t)

PartitionNext ==
  \/ \E t \in Threads :
       \/ PartitionFind(t) \/ PartitionCreate(t) \/ AddGroupSnapshot(t) \/ CloneFromSnapshot(t)
       \/ RemoveGroupSnapshot(t) \/ PartitionReadBack(t) \/ PartitionLook(t)
       \/ PartitionRemove(t) \/ PartitionExpand(t) \/ PartitionExtend(t) \/ PartitionFail(t)
  \/ DiscardSnapshot
-----------------------------------------------------------------------------
PartitionTypeOK ==
  /\ array \in [object : [Ids -> PartitionObject \union {None}], made : {0} \union Ids,
                temporary : [Names -> Ids \union {None}]]
  /\ memory = <<>>
  /\ \A t \in Threads : pc[t] \in PartitionPlace

(* A clone or snapshot was made from the requested source: the temporary   *)
(* snapshot it was made from was that request's own.                       *)
PartitionHasData(u) == object[u].source = known.acked[u].uid
=============================================================================
