----------------------------- MODULE Replication -----------------------------
(***************************************************************************)
(* The replication add-on: addons_server.py and what it calls of           *)
(* array_mediator_svc.py, for one volume with a remote copy relationship   *)
(* to a volume of another system ("mirror"), or one volume group with a    *)
(* replication policy ("ear").  Its requests share one lock.  The other    *)
(* system may switch the roles, and the link to it may fail.               *)
(***************************************************************************)
EXTENDS ArrayService

CONSTANT Variants  \* the copy types of a mirror, or the policies of a group

ReplicationRequest == [op : {"enable", "disable", "promote", "demote"}, variant : Variants]

ASSUME ReplicationAssumption ==
  None \notin Variants \union ReplicationRequest \union [disturbed : BOOLEAN]

ReplicationPlace ==
  {"idle", "get", "make", "start", "look", "stop", "remove", "restart", "switch",
   "detach", "attach", "free", "produce"}

(* What is replicated how.  A mirror starts out stopped; stopped with      *)
(* access to its secondary it is idle, without a primary.  The role of a   *)
(* group under a policy is its mode.                                       *)
Mirror == [variant : Variants, state : {"stopped", "running", "idle"},
             role : {"here", "there", None}]
Policy == [variant : Variants, state : {"running"},
           role : {"production", "recovery", "independent"}]
NotReplicated == [variant |-> None, state |-> "stopped", role |-> None]

(* enabled and disabled hold the variants last answered to be so, promoted *)
(* is TRUE from a PromoteVolume answered OK to the next request or change  *)
(* on the other side.                                                      *)
InitReplication ==
  /\ InitService("replication")
  /\ \E type \in {"mirror", "ear"} :
       array = [type |-> type, link |-> TRUE, copy |-> NotReplicated]
  /\ memory = <<>>
  /\ known = [enabled |-> {}, disabled |-> {}, promoted |-> FALSE]

copy == array.copy

PutCopy(c) == array' = [array EXCEPT !.copy = c]

(* disturbed tells a thread whose request the other side interfered with.  *)
CallReplication(t) ==
  /\ service = "replication"
  /\ \E r \in ReplicationRequest :
       /\ Enter(t, r, "get", [disturbed |-> FALSE])
       /\ known' = [enabled |-> IF r.op \in {"enable", "disable"} THEN {} ELSE known.enabled,
                    disabled |-> IF r.op = "enable" THEN {} ELSE known.disabled,
                    promoted |-> FALSE]

Answered(t) ==
  /\ LET r == req[t] IN
     known' = CASE r.op = "enable" -> [known EXCEPT !.enabled = {r.variant}]
                [] r.op = "disable" -> [known EXCEPT !.disabled = @ \union {r.variant}]
                [] r.op = "promote" -> [known EXCEPT !.promoted = ~ local[t].disturbed]
                [] OTHER -> known
  /\ Return(t)

Done(t) == Answered(t) /\ NoFault /\ UNCHANGED <<array, memory>>

GoOn(t, to) == Continue(t, to) /\ NoFault /\ UNCHANGED <<array, memory, known>>

(* With a policy of another name the group would count as replicated.      *)
ReplicatedSomehow(r) == copy.variant # None

(* get_replication: the relationship of the two volumes, or the policy of  *)
(* the group when it is the requested one.                                 *)
Replicated(r) ==
  /\ copy.variant # None
  /\ array.type = "ear" => copy.variant = r.variant

IsPrimary == copy.role \in {"here", "production"}

(* A replication that is there is taken for the requested one, a mirror    *)
(* only with the requested copy type.                                      *)
GetToEnable(t) ==
  /\ At(t, "replication", "get") /\ req[t].op = "enable"
  /\ \/ /\ Replicated(req[t])
        /\ IF array.type = "mirror" /\ copy.variant # req[t].variant THEN Reject(t) ELSE Done(t)
     \/ ~ Replicated(req[t]) /\ GoOn(t, IF array.type = "mirror" THEN "make" ELSE "detach")

(* Nothing to remove is OK; a mirror is removed whatever its copy type.    *)
GetToDisable(t) ==
  /\ At(t, "replication", "get") /\ req[t].op = "disable"
  /\ \/ ~ Replicated(req[t]) /\ Done(t)
     \/ Replicated(req[t]) /\ GoOn(t, IF array.type = "mirror" THEN "stop" ELSE "detach")

(* _ensure_volume_role_for_replication.  A group cannot be demoted, which  *)
(* is answered OK.                                                         *)
GetToSwitch(t) ==
  /\ At(t, "replication", "get") /\ req[t].op \in {"promote", "demote"}
  /\ LET isThere == Replicated(req[t])
         hasRole == IF req[t].op = "promote" THEN IsPrimary
                      ELSE array.type = "ear" \/ copy.role = "there"
     IN  \/ ~ isThere /\ Reject(t)
         \/ isThere /\ hasRole /\ Done(t)
         \/ isThere /\ ~ hasRole /\ GoOn(t, IF array.type = "mirror" THEN "look" ELSE "free")

-----------------------------------------------------------------------------
(* _create_rcrelationship, with this side as master.                       *)
MakeMirror(t) ==
  /\ At(t, "replication", "make")
  /\ IF array.link
       THEN /\ PutCopy([variant |-> req[t].variant, state |-> "stopped", role |-> "here"])
            /\ Continue(t, "start")
            /\ NoFault /\ UNCHANGED <<memory, known>>
       ELSE Reject(t)

(* _start_rcrelationship: an error is logged, and the answer OK.           *)
StartMirror(t) ==
  /\ At(t, "replication", "start")
  /\ array' = [array EXCEPT !.copy.state = IF array.link THEN "running" ELSE @]
  /\ Answered(t)
  /\ NoFault /\ UNCHANGED memory

(* _delete_replication: so are errors of the stop, and of the removal.     *)
StopMirror(t) ==
  /\ At(t, "replication", "stop")
  /\ array' = [array EXCEPT !.copy.state = IF @ = "running" THEN "stopped" ELSE @]
  /\ Continue(t, "remove")
  /\ NoFault /\ UNCHANGED <<memory, known>>

RemoveMirror(t) ==
  /\ At(t, "replication", "remove")
  /\ PutCopy(NotReplicated)
  /\ Answered(t)
  /\ NoFault /\ UNCHANGED memory

(* Where the role is to go: promote_replication_volume to this side,       *)
(* demote_replication_volume to the other.                                 *)
Goal(t) == IF req[t].op = "promote" THEN "here" ELSE "there"
Rival(t) == IF req[t].op = "promote" THEN "there" ELSE "here"

(* Both read the relationship again.  Without a link, a promotion stops it *)
(* with access to the secondary, and an error of that is logged only.      *)
LookAtMirror(t) ==
  /\ At(t, "replication", "look")
  /\ LET access == ~ array.link /\ req[t].op = "promote"
     IN  \/ /\ access
            /\ array' = [array EXCEPT !.copy.state = "idle", !.copy.role = None]
            /\ Answered(t)
            /\ NoFault /\ UNCHANGED memory
         \/ ~ access /\ copy.role = Goal(t) /\ Done(t)
         \/ /\ ~ access /\ copy.role # Goal(t)
            /\ GoOn(t, IF copy.state = "idle" THEN "restart" ELSE "switch")

(* _ensure_endpoint_is_primary starts an idle relationship from the side   *)
(* that is to become the secondary, by force: its data replace the data of *)
(* the other.  An error is logged only.                                    *)
RestartMirror(t) ==
  /\ At(t, "replication", "restart")
  /\ IF array.link THEN array' = [array EXCEPT !.copy.state = "running", !.copy.role = Rival(t)]
                   ELSE UNCHANGED array
  /\ Continue(t, "switch")
  /\ NoFault /\ UNCHANGED <<memory, known>>

(* switchrcrelationship, which the array refuses without a link or primary.*)
SwitchMirror(t) ==
  /\ At(t, "replication", "switch")
  /\ IF array.link /\ copy.state # "idle"
       THEN /\ array' = [array EXCEPT !.copy.role = Goal(t)]
            /\ Answered(t)
            /\ NoFault /\ UNCHANGED memory
       ELSE Reject(t)

-----------------------------------------------------------------------------
(* _create_ear_replication takes the group's policy away, whichever it is, *)
(* and then sets the requested one; _delete_ear_replication takes it away. *)
DetachPolicy(t) ==
  /\ At(t, "replication", "detach")
  /\ PutCopy(NotReplicated)
  /\ IF req[t].op = "enable" THEN Continue(t, "attach") /\ UNCHANGED known ELSE Answered(t)
  /\ NoFault /\ UNCHANGED memory

AttachPolicy(t) ==
  /\ At(t, "replication", "attach")
  /\ PutCopy([variant |-> req[t].variant, state |-> "running", role |-> "production"])
  /\ Answered(t)
  /\ NoFault /\ UNCHANGED memory

(* _promote_ear_replication_volume: a recovery copy becomes independent... *)
FreeGroup(t) ==
  /\ At(t, "replication", "free")
  /\ array' = [array EXCEPT !.copy.role = IF @ = "recovery" THEN "independent" ELSE @]
  /\ Continue(t, "produce")
  /\ NoFault /\ UNCHANGED <<memory, known>>

(* ... and an independent one production; one that is not is left, with OK.*)
ProduceGroup(t) ==
  /\ At(t, "replication", "produce")
  /\ array' = [array EXCEPT !.copy.role = IF @ = "independent" THEN "production" ELSE @]
  /\ Answered(t)
  /\ NoFault /\ UNCHANGED memory

-----------------------------------------------------------------------------
ReplicationFails(t) ==
  /\ service = "replication" /\ pc[t] # "idle"
  /\ Fault
  /\ CASE pc[t] \in {"start", "remove"} -> Answered(t)
       [] pc[t] = "look" -> (Answered(t) \/ (Return(t) /\ UNCHANGED known))
       [] pc[t] = "stop" -> Continue(t, "remove") /\ UNCHANGED known
       [] pc[t] = "restart" -> Continue(t, "switch") /\ UNCHANGED known
       [] OTHER -> Return(t) /\ UNCHANGED known
  /\ UNCHANGED <<array, memory>>

(* The link to the other system fails or returns, or that system takes the *)
(* primary role of a running copy.                                         *)
OtherSide ==
  /\ service = "replication"
  /\ \/ array' = [array EXCEPT !.link = ~ @]
     \/ /\ array.link /\ copy.state = "running"
        /\ array' = [array EXCEPT !.copy.role = IF array.type = "mirror" THEN "there" ELSE "recovery"]
  /\ local' = [t \in Threads |-> IF local[t] = None THEN None ELSE [disturbed |-> TRUE]]
  /\ known' = [known EXCEPT !.promoted = FALSE]
  /\ NoFault
  /\ UNCHANGED <<service, ids_in_use, pc, req, memory, calls>>

ReplicationNext ==
  \/ \E t \in Threads :
       \/ CallReplication(t) \/ GetToEnable(t) \/ GetToDisable(t) \/ GetToSwitch(t)
       \/ MakeMirror(t) \/ StartMirror(t) \/ StopMirror(t) \/ RemoveMirror(t)
       \/ LookAtMirror(t) \/ RestartMirror(t) \/ SwitchMirror(t)
       \/ DetachPolicy(t) \/ AttachPolicy(t) \/ FreeGroup(t) \/ ProduceGroup(t)
       \/ ReplicationFails(t)
  \/ OtherSide
-----------------------------------------------------------------------------
ReplicationTypeOK ==
  /\ array.copy \in (IF array.type = "mirror" THEN Mirror ELSE Policy) \union {NotReplicated}
  /\ known \in [enabled : SUBSET Variants, disabled : SUBSET Variants, promoted : BOOLEAN]
  /\ \A t \in Threads : pc[t] \in ReplicationPlace /\ req[t] \in ReplicationRequest \union {None}
=============================================================================
