-------------------------- MODULE SANtricityObjects --------------------------
(***************************************************************************)
(* Volumes and snapshots on an E-Series array: array_mediator_santricity   *)
(* and santricity_rest_client.                                             *)
(*                                                                         *)
(* A snapshot is an image in a snapshot group of its volume.  Only the     *)
(* group has a name, which ends with the last four characters of the name  *)
(* of the snapshot it was made for; here those stand for the whole name.   *)
(* A volume made from a snapshot is a read-only view of its image.  The    *)
(* array numbers volumes, images and views in the order they are made.     *)
(***************************************************************************)
EXTENDS ArrayObjects

(* base is the volume of an image, or the image of a view.                 *)
SANtricityObject == [kind : {"volume", "image", "view"}, name : Names \union {None},
                     size : Sizes, base : Ids \union {None}, group : Ids \union {None}]
SnapshotGroup == [volume : Ids, name : SnapshotNames]

ASSUME SANtricityAssumption == None \notin SANtricityObject \union SnapshotGroup

SANtricityPlace ==
  {"idle", "find", "create", "createAgain", "copySource", "chooseGroup", "createImage",
   "newest", "look", "removeGroup", "expand"}

InitSANtricity ==
  /\ InitObjects("santricity")
  /\ LET first == [kind |-> "volume", name |-> FirstName, size |-> SizeOf[FirstName],
                   base |-> None, group |-> None]
     IN  array = [object |-> First(first), made |-> FirstId,
                  group |-> [g \in Ids |-> None], groups |-> 0]
  /\ memory = <<>>

ImagesOf(v) == {x \in Ids : Exists(x) /\ object[x].kind = "image" /\ object[x].base = v}
ImagesIn(g) == {x \in Ids : Exists(x) /\ object[x].group = g}
ViewsOf(images) == {x \in Ids : Exists(x) /\ object[x].kind = "view" /\ object[x].base \in images}
GroupsOf(v) == {g \in Ids : array.group[g] # None /\ array.group[g].volume = v}

Made == array.made + 1

Add(o) == array' = [array EXCEPT !.made = Made, !.object[Made] = o]

(* The array removes objects and groups with what depends on them.         *)
Remove(objects, groups) ==
  array' = [array EXCEPT !.object = [u \in Ids |-> IF u \in objects THEN None ELSE @[u]],
                         !.group = [g \in Ids |-> IF g \in groups THEN None ELSE @[g]]]

(* A volume is found by its name and shows no source; a snapshot by its    *)
(* volume and the name of its group, of whose images any may come first.   *)
SANtricityFind(t) ==
  /\ At(t, "santricity", "find")
  /\ LET r == req[t]
         found == IF r.op = "createVolume" THEN Named(r.name)
                    ELSE {x \in ImagesOf(r.uid) : array.group[object[x].group].name = r.name}
         since == known.since
     IN  \/ /\ found = {}
            /\ Continue(t, IF r.op = "createVolume" THEN "create" ELSE "chooseGroup")
            /\ known' = IF r.op = "createSnapshot" /\ since[r.name] = None
                          THEN [known EXCEPT !.since[r.name] = array.made] ELSE known
            /\ NoFault /\ UNCHANGED <<array, memory>>
         \/ \E u \in found :
              IF r.op = "createSnapshot" \/ Accepts(r, None, object[u].size)
                THEN Report(t, u) /\ NoFault /\ UNCHANGED <<array, memory>>
                ELSE Reject(t)

(* create_volume: a view of the image if the source is a snapshot, else an *)
(* empty volume, also for a clone of a volume.                             *)
SANtricityCreate(t) ==
  /\ service = "santricity" /\ pc[t] \in {"create", "createAgain"}
  /\ LET r == req[t]
         isView == r.from = "snapshot"
         possible == /\ Made \in Ids /\ Named(r.name) = {}
                     /\ isView => Exists(r.uid)
         new == [kind |-> IF isView THEN "view" ELSE "volume", name |-> r.name,
                 size |-> IF isView THEN object[r.uid].size ELSE r.size,
                 base |-> IF isView THEN r.uid ELSE None, group |-> None]
     IN  \/ /\ possible
            /\ Add(new)
            /\ IF IsCopy(t)
                 THEN Proceed(t, "copySource", [local[t] EXCEPT !.mine = Made]) /\ UNCHANGED known
                 ELSE Report(t, Made)
            /\ NoFault /\ UNCHANGED memory
         \/ ~ possible /\ Reject(t)

(* copy_to_existing_volume does nothing once the source has been seen.     *)
SANtricityCopySource(t) ==
  /\ At(t, "santricity", "copySource")
  /\ CopySource(t, Exists(req[t].uid),
                Report(t, local[t].mine) /\ NoFault /\ UNCHANGED <<array, memory>>, "look")

(* auto_create_snapshot takes a group of the volume with room, or grows    *)
(* one; when all are full to the limit, or there is none, it makes one.    *)
(* How full they are, which this step reads, may be anything.              *)
SANtricityChooseGroup(t) ==
  /\ At(t, "santricity", "chooseGroup")
  /\ LET v == req[t].uid
         isVolume == Exists(v) /\ object[v].kind = "volume"
         g == array.groups + 1
     IN  \/ ~ isVolume /\ Reject(t)
         \/ /\ isVolume
            /\ \E x \in GroupsOf(v) : Proceed(t, "createImage", [local[t] EXCEPT !.others = {x}])
            /\ NoFault /\ UNCHANGED <<array, memory, known>>
         \/ /\ isVolume /\ g \in Ids
            /\ array' = [array EXCEPT !.groups = g,
                                      !.group[g] = [volume |-> v, name |-> req[t].name]]
            /\ Proceed(t, "createImage", [local[t] EXCEPT !.others = {g}])
            /\ NoFault /\ UNCHANGED <<memory, known>>

(* create_image                                                            *)
SANtricityCreateImage(t) ==
  /\ At(t, "santricity", "createImage")
  /\ \E g \in local[t].others :
       LET possible == array.group[g] # None /\ Made \in Ids IN
       \/ /\ possible
          /\ Add([kind |-> "image", name |-> None, size |-> object[array.group[g].volume].size,
                  base |-> array.group[g].volume, group |-> g])
          /\ Proceed(t, "newest", [local[t] EXCEPT !.mine = Made])
          /\ NoFault /\ UNCHANGED <<memory, known>>
       \/ ~ possible /\ Reject(t)

(* create_snapshot reports the newest image of the volume, whose-ever it   *)
(* is, and the one it made when the listing shows none.                    *)
SANtricityNewest(t) ==
  /\ At(t, "santricity", "newest")
  /\ LET v == req[t].uid
         images == IF ImagesOf(v) = {} THEN {local[t].mine} ELSE ImagesOf(v)
     IN  \/ /\ Exists(v)
            /\ \E u \in images : (\A x \in images : x <= u) /\ Report(t, u)
            /\ NoFault /\ UNCHANGED <<array, memory>>
         \/ ~ Exists(v) /\ Reject(t)

-----------------------------------------------------------------------------
(* What an error leads to: a volume is tried once more without RAID level, *)
(* if the class did not ask for one; and whatever goes wrong, a deleted    *)
(* volume, and an image that could not be looked up, count as missing.     *)
SANtricityOnError(t) ==
  CASE pc[t] = "create" /\ req[t].from # "snapshot" ->
         (Continue(t, "createAgain") \/ Return(t)) /\ UNCHANGED known
    [] pc[t] = "copySource" -> RollBack(t, "look") /\ UNCHANGED known
    [] pc[t] = "look" /\ IsCopy(t) -> TryAgain(t, "look") /\ UNCHANGED known
    [] pc[t] = "look" /\ ~ IsCopy(t) -> Deleted(t)
    [] OTHER -> Return(t) /\ UNCHANGED known

SANtricityFail(t) ==
  /\ service = "santricity" /\ pc[t] # "idle"
  /\ Fault
  /\ SANtricityOnError(t)
  /\ UNCHANGED <<array, memory>>

Yank(t, objects) ==
  IF req[t].op \in DeleteOps
    THEN known' = [known EXCEPT !.yanked = @ \union objects, !.gone = @ \union {req[t].uid},
                                !.acked[req[t].uid] = None]
    ELSE known' = known

(* delete_volume removes a volume, with its groups, images and their       *)
(* views, or a view; one that is missing is answered OK.                   *)
SANtricityDeleteVolume(t) ==
  /\ At(t, "santricity", "look") /\ req[t].op # "deleteSnapshot"
  /\ LET v == local[t].mine
         others == ImagesOf(v) \union ViewsOf(ImagesOf(v))
     IN  /\ Remove({v} \union others, GroupsOf(v))
         /\ Yank(t, others)
  /\ Return(t)
  /\ NoFault /\ UNCHANGED memory

(* delete_snapshot looks the image's group up ...                          *)
SANtricityFindGroup(t) ==
  /\ At(t, "santricity", "look") /\ req[t].op = "deleteSnapshot"
  /\ LET u == local[t].mine IN
     \/ ~ Exists(u) /\ Deleted(t) /\ NoFault /\ UNCHANGED <<array, memory>>
     \/ /\ Exists(u)
        /\ Proceed(t, "removeGroup", [local[t] EXCEPT !.others = {object[u].group}])
        /\ NoFault /\ UNCHANGED <<array, memory, known>>

(* ... and deletes the whole group: the other snapshots in it go too, and  *)
(* what was made from any of them is of no use any more.                   *)
SANtricityRemoveGroup(t) ==
  /\ At(t, "santricity", "removeGroup")
  /\ \E g \in local[t].others :
       LET images == ImagesIn(g) IN
       /\ Remove(images, {g})
       /\ Yank(t, images \union ViewsOf(images))
  /\ Return(t)
  /\ NoFault /\ UNCHANGED memory

(* ControllerExpandVolume; a view cannot be expanded.                      *)
SANtricityExpand(t) ==
  /\ At(t, "santricity", "expand")
  /\ LET u == local[t].mine
         isLarge == Exists(u) /\ object[u].size >= req[t].size
         canGrow == Exists(u) /\ ~ isLarge /\ object[u].kind = "volume"
     IN  \/ isLarge /\ Expanded(t) /\ NoFault /\ UNCHANGED <<array, memory>>
         \/ /\ canGrow
            /\ array' = [array EXCEPT !.object[u].size = req[t].size]
            /\ Expanded(t) /\ NoFault /\ UNCHANGED memory
         \/ ~ isLarge /\ ~ canGrow /\ Reject(t)

SANtricityNext ==
  \E t \in Threads :
    \/ SANtricityFind(t) \/ SANtricityCreate(t) \/ SANtricityCopySource(t)
    \/ SANtricityChooseGroup(t) \/ SANtricityCreateImage(t) \/ SANtricityNewest(t)
    \/ SANtricityDeleteVolume(t) \/ SANtricityFindGroup(t) \/ SANtricityRemoveGroup(t)
    \/ SANtricityExpand(t) \/ SANtricityFail(t)
-----------------------------------------------------------------------------
SANtricityTypeOK ==
  /\ array \in [object : [Ids -> SANtricityObject \union {None}], made : {0} \union Ids,
                group : [Ids -> SnapshotGroup \union {None}], groups : {0} \union Ids]
  /\ memory = <<>>
  /\ \A t \in Threads : pc[t] \in SANtricityPlace

(* A snapshot is of the requested volume and was taken after it was first  *)
(* asked for, until any deletion is, which may take the one it stood for;  *)
(* a volume made from a snapshot shows its image.  A clone of a volume is  *)
(* empty: nothing is claimed of it.                                        *)
SANtricityHasData(u) ==
  LET r == known.acked[u]
      isLater == u > known.since[r.name] \/ known.deleting # {}
  IN  CASE object[u].kind = "image" -> object[u].base = r.uid /\ isLater
        [] object[u].kind = "view" -> r.uid \in {None, object[u].base}
        [] OTHER -> TRUE
=============================================================================
