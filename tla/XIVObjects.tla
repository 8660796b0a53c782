----------------------------- MODULE XIVObjects -----------------------------
(***************************************************************************)
(* Volumes, clones and snapshots on an XIV (A9000): array_mediator_xiv.py. *)
(* Objects have one name space, and most commands name what they change:   *)
(* an identifier is looked up for its name first.                          *)
(***************************************************************************)
EXTENDS ArrayObjects

(* master is the volume a snapshot is of, source the copy_master_wwn, the  *)
(* volume or snapshot a volume was last copied from.                       *)
XIVObject == [name : Names, size : Sizes, master : Ids \union {None},
              source : Ids \union {None}]

ASSUME XIVAssumption == None \notin XIVObject

XIVPlace ==
  {"idle", "find", "create", "copySource", "copy", "resize", "look", "remove", "expand", "extend"}

InitXIV ==
  /\ InitObjects("xiv")
  /\ LET first == [name |-> FirstName, size |-> SizeOf[FirstName], master |-> None, source |-> None]
     IN  \E g \in BOOLEAN : array = [object |-> First(first), made |-> FirstId, gen3 |-> g]
  /\ memory = <<>>

PutXIV(u, o) == array' = [array EXCEPT !.object[u] = o]

SnapshotsOf(u) == {x \in Ids : Exists(x) /\ object[x].master = u}

(* A Gen3 array does not tell what a volume was copied from.               *)
XIVSourceOf(o) ==
  CASE o.master # None -> o.master
    [] o.master = None /\ array.gen3 -> None
    [] OTHER -> o.source

(* get_volume and get_snapshot: an object of that name is taken for the    *)
(* requested one or refused.                                               *)
XIVFind(t) ==
  /\ At(t, "xiv", "find")
  /\ \/ /\ Named(req[t].name) = {}
        /\ Continue(t, "create")
        /\ NoFault /\ UNCHANGED <<array, memory, known>>
     \/ \E u \in Named(req[t].name) :
          LET o == object[u] IN
          IF /\ (req[t].op = "createSnapshot") = (o.master # None)
             /\ Accepts(req[t], XIVSourceOf(o), o.size)
            THEN Report(t, u) /\ NoFault /\ UNCHANGED <<array, memory>>
            ELSE Reject(t)

(* vol_create and snapshot_create, one command each.  A name in use, a     *)
(* full pool and a source that is gone are refused.                        *)
XIVCreate(t) ==
  /\ At(t, "xiv", "create")
  /\ LET u == array.made + 1
         snapshot == req[t].op = "createSnapshot"
         possible == /\ Named(req[t].name) = {} /\ u \in Ids
                     /\ snapshot => Exists(req[t].uid)
     IN  \/ /\ possible
            /\ array' = [array EXCEPT !.made = u,
                 !.object[u] = [name |-> req[t].name, source |-> None,
                                size |-> IF snapshot THEN object[req[t].uid].size ELSE req[t].size,
                                master |-> IF snapshot THEN req[t].uid ELSE None]]
            /\ IF IsCopy(t)
                 THEN Proceed(t, "copySource", [local[t] EXCEPT !.mine = u]) /\ UNCHANGED known
                 ELSE Report(t, u)
            /\ NoFault /\ UNCHANGED memory
         \/ ~ possible /\ Reject(t)

(* copy_to_existing_volume looks both names up and formats the new volume. *)
XIVCopySource(t) ==
  /\ At(t, "xiv", "copySource")
  /\ LET source == req[t].uid IN
     CopySource(t,
       Exists(source) /\ (req[t].from = "snapshot" => object[source].master # None),
       /\ Proceed(t, "copy", [local[t] EXCEPT !.read = object[source]])
       /\ NoFault /\ UNCHANGED <<array, memory, known>>,
       "look")

(* vol_copy gives the new volume the size of its source; one that is to be *)
(* larger is resized with another command.                                 *)
XIVCopy(t) ==
  /\ At(t, "xiv", "copy")
  /\ LET read == local[t].read
         new == [object[local[t].mine] EXCEPT !.source = CHOOSE s \in Named(read.name) : TRUE,
                                              !.size = read.size]
     IN  \/ /\ Named(read.name) # {}
            /\ PutXIV(local[t].mine, new)
            /\ IF req[t].size > read.size
                 THEN Continue(t, "resize") /\ UNCHANGED known ELSE Report(t, local[t].mine)
            /\ NoFault /\ UNCHANGED memory
         \/ /\ Named(read.name) = {}
            /\ RollBack(t, "look")
            /\ NoFault /\ UNCHANGED <<array, memory, known>>

XIVResize(t) ==
  /\ At(t, "xiv", "resize")
  /\ PutXIV(local[t].mine, [object[local[t].mine] EXCEPT !.size = req[t].size])
  /\ Report(t, local[t].mine)
  /\ NoFault /\ UNCHANGED memory

-----------------------------------------------------------------------------
XIVOnError(t) ==
  CASE pc[t] \in {"copySource", "copy", "resize"} -> RollBack(t, "look")
    [] pc[t] \in {"look", "remove"} /\ IsCopy(t) -> TryAgain(t, "look")
    [] OTHER -> Return(t)

XIVFail(t) ==
  /\ service = "xiv" /\ pc[t] # "idle"
  /\ Fault
  /\ XIVOnError(t)
  /\ UNCHANGED <<array, memory, known>>

(* A volume would be deleted with its snapshots.                           *)
NeverInUse(t) == FALSE

InUse(t) == req[t].op # "deleteSnapshot" /\ SnapshotsOf(local[t].mine) # {}

(* delete_volume and delete_snapshot look the name up; a volume that has   *)
(* snapshots is not deleted.                                               *)
XIVLook(t) ==
  /\ At(t, "xiv", "look")
  /\ LET u == local[t].mine
     IN  \/ ~ Exists(u) /\ Deleted(t) /\ NoFault /\ UNCHANGED <<array, memory>>
         \/ Exists(u) /\ InUse(t) /\ XIVOnError(t) /\ NoFault /\ UNCHANGED <<array, memory, known>>
         \/ /\ Exists(u) /\ ~ InUse(t)
            /\ Proceed(t, "remove", [local[t] EXCEPT !.read = object[u]])
            /\ NoFault /\ UNCHANGED <<array, memory, known>>

(* An error of the command would count as a deletion.                      *)
XIVRemoveFails(t) ==
  /\ At(t, "xiv", "remove")
  /\ Deleted(t)
  /\ Fault /\ UNCHANGED <<array, memory>>

(* vol_delete, with the snapshots taken meanwhile, and snapshot_delete     *)
(* remove what has that name now.                                          *)
XIVRemove(t) ==
  /\ At(t, "xiv", "remove")
  /\ LET removed == {x \in Ids : \E u \in Named(local[t].read.name) : x \in {u} \union SnapshotsOf(u)}
     IN  array' = [array EXCEPT !.object = [u \in Ids |-> IF u \in removed THEN None ELSE @[u]]]
  /\ Deleted(t)
  /\ NoFault /\ UNCHANGED memory

(* ControllerExpandVolume and expand_volume: the volume is looked up, then *)
(* resized by name, and read once more.                                    *)
XIVExpand(t) ==
  /\ At(t, "xiv", "expand")
  /\ LET u == local[t].mine IN
     \/ ~ Exists(u) /\ Reject(t)
     \/ Exists(u) /\ object[u].size >= req[t].size /\ Expanded(t) /\ NoFault /\ UNCHANGED <<array, memory>>
     \/ /\ Exists(u) /\ object[u].size < req[t].size
        /\ Proceed(t, "extend", [local[t] EXCEPT !.read = object[u]])
        /\ NoFault /\ UNCHANGED <<array, memory, known>>

XIVExtend(t) ==
  /\ At(t, "xiv", "extend")
  /\ \/ \E u \in Named(local[t].read.name) :
          /\ PutXIV(u, [object[u] EXCEPT !.size = req[t].size])
          /\ IF Exists(local[t].mine) THEN Expanded(t) ELSE Return(t) /\ UNCHANGED known
          /\ NoFault /\ UNCHANGED memory
     \/ Named(local[t].read.name) = {} /\ Reject(t)

XIVNext ==
  \E t \in Threads :
    \/ XIVFind(t) \/ XIVCreate(t) \/ XIVCopySource(t) \/ XIVCopy(t) \/ XIVResize(t)
    \/ XIVLook(t) \/ XIVRemove(t) \/ XIVExpand(t) \/ XIVExtend(t) \/ XIVFail(t)
-----------------------------------------------------------------------------
XIVTypeOK ==
  /\ array \in [object : [Ids -> XIVObject \union {None}], made : {0} \union Ids, gen3 : BOOLEAN]
  /\ memory = <<>>
  /\ \A t \in Threads : pc[t] \in XIVPlace

(* A volume created from a source was copied from it, though it may be     *)
(* smaller than asked when a restart came before the resize.               *)
XIVHasData(u) ==
  /\ object[u].master = None => object[u].source = known.acked[u].uid
  /\ object[u].master # None => object[u].master = known.acked[u].uid
=============================================================================
