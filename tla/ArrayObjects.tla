---------------------------- MODULE ArrayObjects ----------------------------
(***************************************************************************)
(* Volumes and snapshots, whatever the array: the handlers CreateVolume,   *)
(* DeleteVolume, CreateSnapshot, DeleteSnapshot and ControllerExpandVolume *)
(* of csi_controller_server.py up to the calls of the mediator, the copy   *)
(* with its roll-back of array_mediator_abstract.py, and what the          *)
(* orchestrator knows of the outcome.                                      *)
(***************************************************************************)
EXTENDS ArrayService

CONSTANTS
  VolumeNames,    \* the provisioner's names, pvc-<uuid>, ...
  SnapshotNames,  \* ... and the snapshotter's, snapshot-<uuid>, never meet
  Ids,            \* the identifiers the array can give out, numbers
  Sizes,
  SizeOf,         \* the size each volume is asked for with
  RollbackTries   \* the attempts of the retry decorators (5 and 11 in the code)

Names == VolumeNames \union SnapshotNames
ObjectServices ==
  {"ds8k", "xiv", "santricity", "solidfire", "snapshotFunction", "partition"}
CreateOps == {"createVolume", "createSnapshot"}
DeleteOps == {"deleteVolume", "deleteSnapshot"}
Ops == CreateOps \union DeleteOps \union {"expandVolume"}

(* uid is the source of what is created, and from its type, or what is     *)
(* deleted or expanded.                                                    *)
Request == [op : Ops, name : Names \union {None}, uid : Ids \union {None},
            from : {"volume", "snapshot", None}, size : Sizes \union {None}]

ASSUME ArrayObjectsAssumption ==
  /\ VolumeNames \intersect SnapshotNames = {}
  /\ Ids \subseteq Nat /\ Sizes \subseteq Nat /\ SizeOf \in [VolumeNames -> Sizes]
  /\ VolumeNames # {} /\ Ids # {} /\ RollbackTries \in Nat \ {0}
  /\ None \notin Names /\ None \notin Ids /\ None \notin Sizes
  /\ None \notin {"volume", "snapshot"} /\ None \notin Request

(* mine is the object a thread has made or is to remove, read is how it    *)
(* last saw it, others what else it is about to change.                    *)
NoMemo == [mine |-> None, read |-> None, others |-> {}, tries |-> 0]

object == array.object

Exists(u) == u # None /\ object[u] # None

Named(n) == {u \in Ids : Exists(u) /\ object[u].name = n}

(* asked is the request made under a name, which is always the same; acked *)
(* the request an object was last reported for; deleting holds             *)
(* the objects whose deletion was ever asked for, gone those it was        *)
(* answered OK for, yanked those the array removed with another; since is  *)
(* how many objects there had been when a snapshot was first asked for.    *)
KnownObjects ==
  [asked : [Names -> Request \union {None}],
   acked : [Ids -> Request \union {None}], deleting : SUBSET Ids,
   gone : SUBSET Ids, yanked : SUBSET Ids, since : [SnapshotNames -> Nat \union {None}]]

Asking(op, n, u, from, size) ==
  [op |-> op, name |-> n, uid |-> u, from |-> from, size |-> size]

(* At first there is one volume, which has been reported.                  *)
FirstName == CHOOSE n \in VolumeNames : \A m \in VolumeNames : SizeOf[n] <= SizeOf[m]
FirstId == CHOOSE u \in Ids : \A w \in Ids : u <= w
First(o) == [u \in Ids |-> IF u = FirstId THEN o ELSE None]

InitObjects(type) ==
  /\ InitService(type)
  /\ LET r == Asking("createVolume", FirstName, None, None, SizeOf[FirstName])
     IN  known = [asked |-> [n \in Names |-> IF n = FirstName THEN r ELSE None],
                  acked |-> First(r), deleting |-> {}, gone |-> {}, yanked |-> {},
                  since |-> [n \in SnapshotNames |-> None]]

-----------------------------------------------------------------------------
(* The orchestrator uses what it was told of until it is told it is gone,  *)
(* and asks for one thing under each name.                                 *)
Reported(op) == {u \in Ids : known.acked[u] # None /\ known.acked[u].op = op}

Volumes == Reported("createVolume")
Snapshots == Reported("createSnapshot")

Allowed ==
  {r \in {Asking("createVolume", n, None, None, SizeOf[n]) : n \in VolumeNames}
     \union {Asking("createVolume", n, u, "volume", SizeOf[n]) : n \in VolumeNames, u \in Volumes}
     \union {Asking("createVolume", n, u, "snapshot", SizeOf[n]) : n \in VolumeNames, u \in Snapshots}
     \union {Asking("createSnapshot", n, u, "volume", None) : n \in SnapshotNames, u \in Volumes} :
       known.asked[r.name] \in {None, r}}
    \union {Asking("deleteVolume", None, u, None, None) : u \in Volumes}
    \union {Asking("deleteSnapshot", None, u, None, None) : u \in Snapshots}
    \union {Asking("expandVolume", None, u, None, s) : u \in Volumes, s \in Sizes}

(* The sidecars hold a source back from deletion while something is made   *)
(* from it, and use nothing as a source once its deletion was asked for.   *)
(* A DS8000 refuses what would go wrong: there it is not assumed.          *)
Undisturbed(r) ==
  \/ service = "ds8k"
  \/ /\ r.op \in CreateOps => r.uid \notin known.deleting
     /\ r.op \in DeleteOps =>
          \A t \in Threads : ~ (req[t] # None /\ req[t].op \in CreateOps /\ req[t].uid = r.uid)

(* CreateVolume, CreateSnapshot, DeleteVolume, DeleteSnapshot and          *)
(* ControllerExpandVolume up to the first call of the mediator.            *)
CallObjects(t) ==
  /\ service \in ObjectServices
  /\ \E r \in Allowed :
       /\ Undisturbed(r)
       /\ Enter(t, r, CASE r.op \in CreateOps -> "find"
                        [] r.op \in DeleteOps -> "look"
                        [] OTHER -> "expand",
                [NoMemo EXCEPT !.mine = IF r.op \in CreateOps THEN None ELSE r.uid])
       /\ known' = IF r.op \in DeleteOps
                     THEN [known EXCEPT !.deleting = @ \union {r.uid}]
                   ELSE IF r.op \in CreateOps THEN [known EXCEPT !.asked[r.name] = r] ELSE known

IsCopy(t) == req[t].op = "createVolume" /\ req[t].uid # None

(* CreateVolume takes the volume it finds under the name for its own when  *)
(* it shows the requested source and, without a source, is large enough.   *)
Accepts(r, source, size) ==
  /\ source = r.uid
  /\ r.uid = None => size >= r.size

(* The object is reported to the orchestrator, which may use it from now.  *)
Report(t, u) ==
  /\ known' = [known EXCEPT !.acked[u] = req[t]]
  /\ Return(t)

(* DeleteVolume and DeleteSnapshot answer OK, also when nothing was there. *)
Deleted(t) ==
  /\ known' = IF req[t].op \in DeleteOps
                THEN [known EXCEPT !.gone = @ \union {req[t].uid}, !.acked[req[t].uid] = None]
                ELSE known
  /\ Return(t)

(* ControllerExpandVolume answers OK: the size is promised from now on.    *)
Expanded(t) ==
  /\ known' = IF known.acked[req[t].uid] = None THEN known
                ELSE [known EXCEPT !.acked[req[t].uid].size = req[t].size]
  /\ Return(t)

(* A roll-back starts with all its attempts, and removes a volume with the *)
(* mediator's delete_volume.                                               *)
RollBack(t, to) == Proceed(t, to, [local[t] EXCEPT !.tries = RollbackTries])

(* An attempt of a roll-back failed: try again, or let it be.              *)
TryAgain(t, to) ==
  \/ local[t].tries > 1 /\ Proceed(t, to, [local[t] EXCEPT !.tries = @ - 1])
  \/ local[t].tries <= 1 /\ Return(t)

(* copy_to_existing_volume_from_source: with the source there and of the   *)
(* type its id says, the mediator copies; the new volume is rolled back    *)
(* when it is not.  The code rolls back a missing source twice, and the    *)
(* second finds nothing left.                                              *)
CopySource(t, isThere, next, otherwise) ==
  \/ isThere /\ next
  \/ ~ isThere /\ RollBack(t, otherwise) /\ NoFault /\ UNCHANGED <<array, memory, known>>

ObjectsTypeOK ==
  /\ known \in KnownObjects
  /\ \A t \in Threads : req[t] \in Request \union {None}
=============================================================================
