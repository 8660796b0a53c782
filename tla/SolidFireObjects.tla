-------------------------- MODULE SolidFireObjects --------------------------
(***************************************************************************)
(* Volumes on a SolidFire array: array_mediator_solidfire.py, without      *)
(* SOLIDFIRE_PREFIX.  The array takes names twice.  The identifier of a    *)
(* volume is its NAA identifier, which delete_volume and expand_volume     *)
(* convert with int(): they never reach the array.                         *)
(***************************************************************************)
EXTENDS ArrayObjects

SolidFireVolume == [name : VolumeNames, size : Sizes]

ASSUME SolidFireAssumption == None \notin SolidFireVolume

SolidFirePlace == {"idle", "find", "create", "readBack", "copySource", "look", "expand"}

InitSolidFire ==
  /\ InitObjects("solidfire")
  /\ array = [object |-> First([name |-> FirstName, size |-> SizeOf[FirstName]]), made |-> FirstId]
  /\ memory = <<>>

(* get_volume.  get_snapshot raises ObjectNotFoundError.                   *)
SolidFireFind(t) ==
  /\ At(t, "solidfire", "find")
  /\ IF req[t].op = "createSnapshot" THEN Reject(t)
     ELSE \/ /\ Named(req[t].name) = {}
             /\ Continue(t, "create")
             /\ NoFault /\ UNCHANGED <<array, memory, known>>
          \/ \E u \in Named(req[t].name) :
               IF Accepts(req[t], None, object[u].size)
                 THEN Report(t, u) /\ NoFault /\ UNCHANGED <<array, memory>>
                 ELSE Reject(t)

(* create_volume, in the account csi-admin.                                *)
SolidFireCreate(t) ==
  /\ At(t, "solidfire", "create")
  /\ LET u == array.made + 1 IN
     \/ /\ u \in Ids
        /\ array' = [array EXCEPT !.made = u,
             !.object[u] = [name |-> req[t].name, size |-> req[t].size]]
        /\ Proceed(t, "readBack", [local[t] EXCEPT !.mine = u])
        /\ NoFault /\ UNCHANGED <<memory, known>>
     \/ u \notin Ids /\ Reject(t)

SolidFireReadBack(t) ==
  /\ At(t, "solidfire", "readBack")
  /\ IF IsCopy(t) THEN Continue(t, "copySource") /\ UNCHANGED known
                  ELSE Report(t, local[t].mine)
  /\ NoFault /\ UNCHANGED <<array, memory>>

(* copy_to_existing_volume raises NotImplementedError, with or without the *)
(* source: rolled back.                                                    *)
SolidFireCopySource(t) ==
  /\ At(t, "solidfire", "copySource")
  /\ RollBack(t, "look")
  /\ NoFault /\ UNCHANGED <<array, memory, known>>

(* delete_volume takes the ValueError of int() for a missing volume: the   *)
(* roll-back gives up, and DeleteVolume answers OK.                        *)
SolidFireDelete(t) ==
  /\ At(t, "solidfire", "look")
  /\ IF IsCopy(t) THEN TryAgain(t, "look") /\ UNCHANGED known ELSE Deleted(t)
  /\ NoFault /\ UNCHANGED <<array, memory>>

(* expand_volume turns it into INVALID_ARGUMENT, unless the volume already *)
(* has the size.                                                           *)
SolidFireExpand(t) ==
  /\ At(t, "solidfire", "expand")
  /\ IF Exists(req[t].uid) /\ object[req[t].uid].size >= req[t].size
       THEN Expanded(t) /\ NoFault /\ UNCHANGED <<array, memory>>
       ELSE Reject(t)

(* Whatever goes wrong in get_volume counts as a missing volume.           *)
SolidFireFail(t) ==
  /\ service = "solidfire" /\ pc[t] \notin {"idle", "look"}
  /\ Fault
  /\ CASE pc[t] = "find" /\ req[t].op = "createVolume" -> Continue(t, "create")
       [] pc[t] = "copySource" -> RollBack(t, "look")
       [] OTHER -> Return(t)
  /\ UNCHANGED <<array, memory, known>>

SolidFireNext ==
  \E t \in Threads :
    \/ SolidFireFind(t) \/ SolidFireCreate(t) \/ SolidFireReadBack(t) \/ SolidFireCopySource(t)
    \/ SolidFireDelete(t) \/ SolidFireExpand(t) \/ SolidFireFail(t)
-----------------------------------------------------------------------------
SolidFireTypeOK ==
  /\ array \in [object : [Ids -> SolidFireVolume \union {None}], made : {0} \union Ids]
  /\ memory = <<>>
  /\ \A t \in Threads : pc[t] \in SolidFirePlace
=============================================================================
