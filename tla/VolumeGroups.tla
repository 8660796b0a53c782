---------------------------- MODULE VolumeGroups ----------------------------
(***************************************************************************)
(* Volume groups of a Spectrum Virtualize array, or of a storage partition *)
(* of it: volume_group_server.py and what it calls of                      *)
(* array_mediator_svc.py.  Requests identify a group by its name.          *)
(***************************************************************************)
EXTENDS ArrayService

CONSTANTS GroupNames, GroupVolumes

GroupRequest ==
  [op : {"createGroup"}, name : GroupNames]
  \union [op : {"deleteGroup"}, uid : GroupNames]
  \union [op : {"modifyGroup"}, uid : GroupNames, volumes : SUBSET GroupVolumes]

ASSUME GroupsAssumption == None \notin GroupNames \union GroupRequest

GroupPlace ==
  {"idle", "findGroup", "makeGroup", "readGroup", "removeGroup", "readMembers", "add", "join",
   "leave", "confirm"}

(* What a thread is still to add, next of them, and to remove.             *)
NoMembers == [adding |-> {}, removing |-> {}, next |-> None]

(* In a partition a volume without a group of these is in the group of the *)
(* secret, partition_vg.                                                   *)
Members(g) == {v \in GroupVolumes : array.group[v] = g}

(* wanted holds the volumes ever asked for in a group, members those it    *)
(* was last answered OK for, contested those of them that a request for    *)
(* another group had taken, or might; gone the groups whose deletion was   *)
(* answered OK last.                                                       *)
InitGroups ==
  /\ InitService("groups")
  /\ \E partition \in BOOLEAN :
       array = [groups |-> {}, group |-> [v \in GroupVolumes |-> None], partition |-> partition]
  /\ memory = <<>>
  /\ known = [wanted |-> [g \in GroupNames |-> {}], members |-> [g \in GroupNames |-> None],
              contested |-> [g \in GroupNames |-> {}], gone |-> {}]

GroupOf(r) == IF r.op = "createGroup" THEN r.name ELSE r.uid

(* Whom a request may take its volumes from, though it starts later: in a  *)
(* partition, every other group.                                           *)
Losing(r, g) ==
  IF array.partition /\ r.op = "modifyGroup" /\ g # r.uid THEN r.volumes ELSE {}

CallGroups(t) ==
  /\ service = "groups"
  /\ \E r \in GroupRequest :
       /\ Enter(t, r, CASE r.op = "createGroup" -> "findGroup"
                        [] r.op = "deleteGroup" -> "readGroup"
                        [] OTHER -> "readMembers",
                NoMembers)
       /\ known' = [known EXCEPT !.members[GroupOf(r)] = IF r.op = "createGroup" THEN @ ELSE None,
                                 !.wanted[GroupOf(r)] =
                                   IF r.op = "modifyGroup" THEN @ \union r.volumes ELSE @,
                                 !.contested = [g \in GroupNames |-> @[g] \union Losing(r, g)],
                                 !.gone = @ \ {GroupOf(r)}]

(* CreateVolumeGroup: a group that is there is taken for the requested one *)
(* when it is empty, or refused; neither changes anything.                 *)
FindGroup(t) ==
  /\ At(t, "groups", "findGroup")
  /\ LET isThere == req[t].name \in array.groups
     IN  \/ isThere /\ Reject(t)
         \/ ~ isThere /\ Continue(t, "makeGroup") /\ NoFault /\ UNCHANGED <<array, memory, known>>

MakeGroup(t) ==
  /\ At(t, "groups", "makeGroup")
  /\ array' = [array EXCEPT !.groups = @ \union {req[t].name}]
  /\ Return(t)
  /\ NoFault /\ UNCHANGED <<memory, known>>

(* DeleteVolumeGroup answers OK; the group may be created again meanwhile. *)
GroupDeleted(t) ==
  /\ known' = [known EXCEPT !.gone = @ \union {g \in {req[t].uid} :
                  \A x \in Threads : ~ (req[x] # None /\ req[x].op = "createGroup" /\ req[x].name = g)}]
  /\ Return(t)

(* DeleteVolumeGroup reads the group, and delete_volume_group once more:   *)
(* one that is missing is answered OK.                                     *)
ReadGroup(t) ==
  /\ At(t, "groups", "readGroup")
  /\ LET isThere == req[t].uid \in array.groups
     IN  \/ ~ isThere /\ GroupDeleted(t) /\ NoFault /\ UNCHANGED <<array, memory>>
         \/ isThere /\ Continue(t, "removeGroup") /\ NoFault /\ UNCHANGED <<array, memory, known>>

(* rmvolumegroup, which the array refuses while the group has volumes.     *)
RemoveGroup(t) ==
  /\ At(t, "groups", "removeGroup")
  /\ LET isEmpty == Members(req[t].uid) = {}
     IN  \/ /\ isEmpty
            /\ array' = [array EXCEPT !.groups = @ \ {req[t].uid}]
            /\ GroupDeleted(t)
            /\ NoFault /\ UNCHANGED memory
         \/ ~ isEmpty /\ Reject(t)

-----------------------------------------------------------------------------
(* ModifyVolumeGroupMembership reads the members: what is missing of them  *)
(* is added first, and then what was not asked for is removed.             *)
ReadMembers(t) ==
  /\ At(t, "groups", "readMembers")
  /\ LET members == Members(req[t].uid)
         isThere == req[t].uid \in array.groups
     IN  \/ /\ isThere
            /\ Proceed(t, "add", [NoMembers EXCEPT !.adding = req[t].volumes \ members,
                                            !.removing = members \ req[t].volumes])
            /\ NoFault /\ UNCHANGED <<array, memory, known>>
         \/ ~ isThere /\ Reject(t)

(* A volume in another group would be taken out of it.                     *)
MayAlwaysJoin(t, v) == TRUE

MayJoin(t, v) == array.partition \/ array.group[v] \in {None, req[t].uid}

(* add_volume_to_volume_group reads the next volume: one that is in        *)
(* another group is not taken out of it, but in a partition.               *)
AddNext(t) ==
  /\ At(t, "groups", "add")
  /\ \/ /\ local[t].adding = {}
        /\ Continue(t, "leave")
        /\ NoFault /\ UNCHANGED <<array, memory, known>>
     \/ \E v \in local[t].adding :
          \/ /\ MayJoin(t, v)
             /\ Proceed(t, "join", [local[t] EXCEPT !.next = v])
             /\ NoFault /\ UNCHANGED <<array, memory, known>>
          \/ ~ MayJoin(t, v) /\ Reject(t)

(* Its volume moves into the group, whatever it is in by then.             *)
Join(t) ==
  /\ At(t, "groups", "join")
  /\ \E v \in {local[t].next} :
       IF req[t].uid \in array.groups
         THEN /\ array' = [array EXCEPT !.group[v] = req[t].uid]
              /\ Proceed(t, "add", [local[t] EXCEPT !.adding = @ \ {v}, !.next = None])
              /\ NoFault /\ UNCHANGED <<memory, known>>
         ELSE Reject(t)

(* remove_volume_from_volume_group, whatever group the volume is in; in a  *)
(* partition it moves to that of the secret.                               *)
LeaveNext(t) ==
  /\ At(t, "groups", "leave")
  /\ \/ /\ local[t].removing = {}
        /\ Continue(t, "confirm")
        /\ NoFault /\ UNCHANGED <<array, memory, known>>
     \/ \E v \in local[t].removing :
          /\ array' = [array EXCEPT !.group[v] = None]
          /\ Proceed(t, "leave", [local[t] EXCEPT !.removing = @ \ {v}])
          /\ NoFault /\ UNCHANGED <<memory, known>>

(* What the running requests for other groups may still take, and what one *)
(* of them has taken.                                                      *)
Contested(t) ==
  (UNION {req[x].volumes \union local[x].removing :
            x \in {y \in Threads \ {t} : req[y] # None /\ req[y].op = "modifyGroup"}})
  \union ((UNION {known.wanted[g] : g \in GroupNames \ {req[t].uid}}) \ Members(req[t].uid))

(* The group is read once more, and the answer is OK.                      *)
Confirm(t) ==
  /\ At(t, "groups", "confirm")
  /\ \/ req[t].uid \notin array.groups /\ Reject(t)
     \/ /\ req[t].uid \in array.groups
        /\ known' = [known EXCEPT !.members[req[t].uid] = req[t].volumes,
                                  !.contested[req[t].uid] = Contested(t)]
        /\ Return(t)
        /\ NoFault /\ UNCHANGED <<array, memory>>

GroupsFail(t) ==
  /\ service = "groups" /\ pc[t] # "idle"
  /\ Fault
  /\ Return(t)
  /\ UNCHANGED <<array, memory, known>>

GroupsNext ==
  \E t \in Threads :
    \/ CallGroups(t) \/ FindGroup(t) \/ MakeGroup(t) \/ ReadGroup(t) \/ RemoveGroup(t)
    \/ ReadMembers(t) \/ AddNext(t) \/ Join(t) \/ LeaveNext(t) \/ Confirm(t) \/ GroupsFail(t)
-----------------------------------------------------------------------------
GroupsTypeOK ==
  /\ array \in [groups : SUBSET GroupNames, group : [GroupVolumes -> GroupNames \union {None}],
               partition : BOOLEAN]
  /\ known \in [wanted : [GroupNames -> SUBSET GroupVolumes],
                members : [GroupNames -> (SUBSET GroupVolumes) \union {None}],
                contested : [GroupNames -> SUBSET GroupVolumes], gone : SUBSET GroupNames]
  /\ \A t \in Threads : pc[t] \in GroupPlace /\ req[t] \in GroupRequest \union {None}
=============================================================================
