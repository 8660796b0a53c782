---------------------------- MODULE ArrayService ----------------------------
(***************************************************************************)
(* What the services of the controller share, whichever array a request is *)
(* for.  The mediator that serves a request is of the class registered for *)
(* the type of its array (storage_agent.py, see Routing); a behaviour here *)
(* is one of a controller in front of one array, service, and the          *)
(* modules that extend this one give the actions of each type.             *)
(*                                                                         *)
(* Every handler runs in a worker thread under the lock of its decorator.  *)
(* A step of a thread is one command that changes the array, or the        *)
(* queries between two such commands.  A step may fail with an error,      *)
(* without effect, and the pod may be restarted; MaxFaults bounds both.    *)
(***************************************************************************)
EXTENDS Naturals, FiniteSets, Functions

CONSTANTS
  Threads, None,
  MaxFaults,  \* a bound on failed commands and restarts, ...
  MaxCalls    \* ... and on requests, for each type of array

VARIABLES
  service,  \* which array this is, and which service of the driver it is for
  ids_in_use,  \* sync_lock.py: the <<attribute, id>> pairs being processed
  pc, req,     \* each thread's place and request
  local,       \* what each thread remembers from one step to the next
  array,       \* the array's own state
  memory,      \* what the pod remembers from one request to the next
  known,       \* what the orchestrator has asked for and been told
  failures, crashes, calls

vars == <<service, ids_in_use, pc, req, local, array, memory, known,
          failures, crashes, calls>>

ASSUME ArrayServiceAssumption == MaxFaults \in Nat /\ Range(MaxCalls) \subseteq Nat

InitService(type) ==
  /\ service = type
  /\ ids_in_use = {}
  /\ pc = [t \in Threads |-> "idle"]
  /\ req = [t \in Threads |-> None]
  /\ local = [t \in Threads |-> None]
  /\ failures = 0 /\ crashes = 0 /\ calls = 0

-----------------------------------------------------------------------------
At(t, type, place) == service = type /\ pc[t] = place

(* The request attribute each handler's decorator locks the value of.  The *)
(* replication handlers of addons_server.py name volume_id, which their    *)
(* requests leave empty: they all share one lock.  The host definer has    *)
(* no locks: there only a thread's own request is in its way.              *)
LockOf(r) ==
  CASE r.op \in {"createVolume", "createSnapshot", "createGroup"} -> <<"name", r.name>>
    [] r.op \in {"deleteVolume", "expandVolume", "publish", "unpublish"} -> <<"volume_id", r.uid>>
    [] r.op = "deleteSnapshot" -> <<"snapshot_id", r.uid>>
    [] r.op \in {"deleteGroup", "modifyGroup"} -> <<"volume_group_id", r.uid>>
    [] r.op \in {"enable", "disable", "promote", "demote"} -> <<"volume_id", "">>
    [] r.op \in {"define", "undefine"} -> <<"thread", r.worker>>

(* Two requests with one lock would run together.                          *)
EnterUnlocked(t, r, place, memo) ==
  /\ pc[t] = "idle"
  /\ calls < MaxCalls[service] /\ calls' = calls + 1
  /\ ids_in_use' = ids_in_use \union {LockOf(r)}
  /\ req' = [req EXCEPT ![t] = r]
  /\ pc' = [pc EXCEPT ![t] = place]
  /\ local' = [local EXCEPT ![t] = memo]
  /\ UNCHANGED <<service, array, memory, failures, crashes>>

(* csi_method: of two requests with one lock the second is ABORTED.        *)
Enter(t, r, place, memo) ==
  /\ pc[t] = "idle"
  /\ LockOf(r) \notin ids_in_use
  /\ calls < MaxCalls[service] /\ calls' = calls + 1
  /\ ids_in_use' = ids_in_use \union {LockOf(r)}
  /\ req' = [req EXCEPT ![t] = r]
  /\ pc' = [pc EXCEPT ![t] = place]
  /\ local' = [local EXCEPT ![t] = memo]
  /\ UNCHANGED <<service, array, memory, failures, crashes>>

(* The thread goes on, remembering memo.                                   *)
Proceed(t, to, memo) ==
  /\ pc' = [pc EXCEPT ![t] = to]
  /\ local' = [local EXCEPT ![t] = memo]
  /\ UNCHANGED <<service, ids_in_use, req, calls>>

Continue(t, to) == Proceed(t, to, local[t])

(* The lock would stay taken.                                              *)
ReturnLocked(t) ==
  /\ pc' = [pc EXCEPT ![t] = "idle"]
  /\ req' = [req EXCEPT ![t] = None]
  /\ local' = [local EXCEPT ![t] = None]
  /\ UNCHANGED <<service, ids_in_use, calls>>

(* The handler returns or raises: the lock is released, the thread free.   *)
Return(t) ==
  /\ ids_in_use' = ids_in_use \ {LockOf(req[t])}
  /\ pc' = [pc EXCEPT ![t] = "idle"]
  /\ req' = [req EXCEPT ![t] = None]
  /\ local' = [local EXCEPT ![t] = None]
  /\ UNCHANGED <<service, calls>>

NoFault == UNCHANGED <<failures, crashes>>

Fault ==
  /\ failures + crashes < MaxFaults
  /\ failures' = failures + 1
  /\ UNCHANGED crashes

(* The answer is an error, and no state but the thread's has changed.      *)
Reject(t) == Return(t) /\ NoFault /\ UNCHANGED <<array, memory, known>>

(* A restart of the pod: the threads, the locks and the memory are lost.   *)
Crash ==
  /\ failures + crashes < MaxFaults
  /\ \E t \in Threads : pc[t] # "idle"
  /\ crashes' = crashes + 1
  /\ ids_in_use' = {}
  /\ pc' = [t \in Threads |-> "idle"]
  /\ req' = [t \in Threads |-> None]
  /\ local' = [t \in Threads |-> None]
  /\ memory' = <<>>
  /\ UNCHANGED <<service, array, known, failures, calls>>

(* Between requests the controller waits.                                  *)
Rest ==
  /\ \A t \in Threads : pc[t] = "idle"
  /\ UNCHANGED vars
=============================================================================
