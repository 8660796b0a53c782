---------------------------- MODULE VolumeMapping ----------------------------
(***************************************************************************)
(* ControllerPublishVolume and ControllerUnpublishVolume of                *)
(* csi_controller_server.py, with map_volume_by_initiators and             *)
(* unmap_volume_by_initiators of array_mediator_abstract.py on a Spectrum  *)
(* Virtualize array whose hosts need LUNs (not NVMe).                      *)
(*                                                                         *)
(* Requests for one volume exclude each other by its lock; requests for    *)
(* different volumes compete for the LUNs of a host.  Meanwhile the host   *)
(* definer may define and delete hosts, and DeleteVolume may delete        *)
(* volumes.  A step of a worker thread is one query or command.            *)
(***************************************************************************)
EXTENDS Naturals, FiniteSets

CONSTANTS
  Threads, None, Volumes, Hosts,
  Wanted,           \* the volumes the orchestrator publishes, each with a host
  Exclusive,        \* the volumes published with a single-node access mode
  MaxLun,           \* MAX_LUN_NUMBER (511)
  LunIncrement,     \* MAX_LUN_NUMBER_INCREMENT (512)
  HostLimit,        \* the highest LUN the array accepts for its hosts
  LunInterval,      \* LUN_INTERVAL (128)
  MaxTries,         \* max_lun_retries (10)
  MaxFailures, MaxUnreadable

Request == {r \in [op : {"publish", "unpublish"}, volume : Volumes, host : Hosts] :
              <<r.volume, r.host>> \in Wanted}

ASSUME MappingAssumption ==
  /\ Wanted \subseteq Volumes \X Hosts /\ Exclusive \subseteq Volumes
  /\ None \notin Hosts \union Nat /\ None \notin Request
  /\ IsFiniteSet(Hosts)
  /\ MaxLun \in Nat /\ LunIncrement \in Nat \ {0} /\ LunInterval \in Nat \ {0}
  /\ HostLimit \in Nat
  /\ \E k \in 0 .. HostLimit : HostLimit = MaxLun + k * LunIncrement
  /\ MaxTries \in Nat \ {0}
  /\ MaxFailures \in Nat /\ MaxUnreadable \in Nat

VARIABLES
  ids_in_use,   \* sync_lock.py: the volume ids being processed
  volumes,      \* the volumes that exist
  hosts,        \* the hosts defined on the array
  lunOf,        \* the LUN by which each volume is mapped to each host, or None
  pc, req,      \* each thread's place and request
  lun,          \* the LUN each thread has chosen
  attempts,     \* the LUNs each thread has lost to another
  rivals,       \* mappings others made to its host meanwhile (up to MaxTries)
  reported,     \* the LUN last reported for each volume and host, or None
  released,     \* the pairs whose unpublishing was last answered OK
  failures, unreadable

array == <<volumes, hosts, lunOf>>
local == <<pc, req, lun, attempts, rivals>>
report == <<reported, released>>
budget == <<failures, unreadable>>
vars == <<ids_in_use, volumes, hosts, lunOf, pc, req, lun, attempts, rivals,
          reported, released, failures, unreadable>>

Phase == {"idle", "readNode", "lookup", "findHost", "choose", "map", "unmap"}
Lun == 0 .. HostLimit + LunIncrement

Init ==
  /\ ids_in_use = {}
  /\ volumes = Volumes
  /\ hosts \in SUBSET Hosts
  /\ lunOf = [v \in Volumes |-> [h \in Hosts |-> None]]
  /\ pc = [t \in Threads |-> "idle"]
  /\ req = [t \in Threads |-> None]
  /\ lun = [t \in Threads |-> None]
  /\ attempts = [t \in Threads |-> 0]
  /\ rivals = [t \in Threads |-> 0]
  /\ reported = [v \in Volumes |-> [h \in Hosts |-> None]]
  /\ released = {}
  /\ failures = 0 /\ unreadable = 0

-----------------------------------------------------------------------------
MappedTo(v) == {h \in Hosts : lunOf[v][h] # None}

UsedLuns(h) == {lunOf[v][h] : v \in Volumes} \ {None}

Goto(t, to) == pc' = [pc EXCEPT ![t] = to]

Continue(t, to) == Goto(t, to) /\ UNCHANGED <<ids_in_use, req, lun, attempts, rivals>>

(* The handler returns: the lock is released, the thread free.             *)
Leave(t) ==
  /\ ids_in_use' = ids_in_use \ {req[t].volume}
  /\ Goto(t, "idle")
  /\ req' = [req EXCEPT ![t] = None]
  /\ lun' = [lun EXCEPT ![t] = None]
  /\ attempts' = [attempts EXCEPT ![t] = 0]

Return(t) == Leave(t) /\ rivals' = [rivals EXCEPT ![t] = 0]

(* The answer is an error.                                                 *)
Reject(t) == Return(t) /\ UNCHANGED <<array, report, budget>>

(* ControllerPublishVolume answers with the LUN.                           *)
Published(t, l) ==
  /\ reported' = [reported EXCEPT ![req[t].volume][req[t].host] = l]
  /\ Leave(t)
  /\ UNCHANGED <<released, budget>>

(* The idempotent case.                                                    *)
AlreadyMapped(t, h) ==
  /\ Published(t, lunOf[req[t].volume][h])
  /\ rivals' = [rivals EXCEPT ![t] = 0]
  /\ UNCHANGED array

(* ControllerUnpublishVolume answers OK.                                   *)
Unpublished(t) ==
  /\ released' = released \union {<<req[t].volume, req[t].host>>}
  /\ Return(t)
  /\ UNCHANGED reported

-----------------------------------------------------------------------------
(* csi_method: a request for a volume whose lock is taken is ABORTED.      *)
Call(t) ==
  /\ pc[t] = "idle"
  /\ \E r \in Request :
       /\ r.volume \notin ids_in_use
       /\ ids_in_use' = ids_in_use \union {r.volume}
       /\ req' = [req EXCEPT ![t] = r]
       /\ reported' = IF r.op = "publish" THEN reported
                        ELSE [reported EXCEPT ![r.volume][r.host] = None]
       /\ released' = IF r.op = "publish" THEN released \ {<<r.volume, r.host>>} ELSE released
  /\ Goto(t, "readNode")
  /\ UNCHANGED <<array, lun, attempts, rivals, budget>>

(* get_node_initiators reads the node's annotation ...                     *)
ReadNode(t) ==
  /\ pc[t] = "readNode"
  /\ Continue(t, IF req[t].op = "publish" THEN "lookup" ELSE "findHost")
  /\ UNCHANGED <<array, report, budget>>

(* ... and on any error, or without annotation, returns no initiators, by  *)
(* which no host is found: HostNotFoundError is an error for a publish and *)
(* OK for an unpublish.                                                    *)
NodeUnreadable(t) ==
  /\ pc[t] = "readNode"
  /\ unreadable < MaxUnreadable
  /\ unreadable' = unreadable + 1
  /\ \/ req[t].op = "publish" /\ Return(t) /\ UNCHANGED report
     \/ req[t].op = "unpublish" /\ Unpublished(t)
  /\ UNCHANGED <<array, failures>>

(* Mutant: a volume with one mapping is mapped once more.                  *)
LookupAllowsOne(t) ==
  LET v == req[t].volume
      h == req[t].host
      m == MappedTo(v)
  IN  /\ pc[t] = "lookup"
      /\ \/ v \in Exclusive /\ Cardinality(m) > 1 /\ Reject(t)
         \/ h \in m /\ AlreadyMapped(t, h)
         \/ /\ h \notin m /\ ~ (v \in Exclusive /\ Cardinality(m) > 1)
            /\ Continue(t, "findHost")
            /\ UNCHANGED <<array, report, budget>>

(* Mutant: the loop takes any mapping of the volume for the host's.        *)
LookupAnyHost(t) ==
  LET v == req[t].volume
      m == MappedTo(v)
  IN  /\ pc[t] = "lookup"
      /\ \/ v \notin volumes /\ Reject(t)
         \/ \E h \in m : AlreadyMapped(t, h)
         \/ v \in volumes /\ m = {} /\ Continue(t, "findHost") /\ UNCHANGED <<array, report, budget>>

(* get_volume_mappings and the loop over them: the idempotent case answers *)
(* with the LUN there is; an exclusive volume mapped to another host, or a *)
(* volume that is gone, is an error.                                       *)
Lookup(t) ==
  LET v == req[t].volume
      h == req[t].host
      m == MappedTo(v)
      refused == v \notin volumes \/ (v \in Exclusive /\ m \notin {{}, {h}})
  IN  /\ pc[t] = "lookup"
      /\ \/ refused /\ Reject(t)
         \/ ~ refused /\ h \in m /\ AlreadyMapped(t, h)
         \/ /\ ~ refused /\ h \notin m
            /\ Continue(t, "findHost")
            /\ UNCHANGED <<array, report, budget>>

(* get_host_by_host_identifiers; an unpublish takes a missing host for     *)
(* done.                                                                   *)
FindHost(t) ==
  LET found == req[t].host \in hosts
  IN  /\ pc[t] = "findHost"
      /\ \/ /\ found
            /\ Continue(t, IF req[t].op = "publish" THEN "choose" ELSE "unmap")
            /\ UNCHANGED <<array, report, budget>>
         \/ ~ found /\ req[t].op = "publish" /\ Reject(t)
         \/ ~ found /\ req[t].op = "unpublish" /\ Unpublished(t) /\ UNCHANGED <<array, budget>>

(* Mutant: one increment too many.                                         *)
LastLunRoundsUp(h) ==
  LET max == CHOOSE m \in UsedLuns(h) \union {0} : \A l \in UsedLuns(h) : l <= m
  IN  IF max <= MaxLun THEN MaxLun
        ELSE MaxLun + ((max - MaxLun + LunIncrement) \div LunIncrement) * LunIncrement

(* _get_used_lun_ids_from_host: LUNs range up to MaxLun and beyond it, in  *)
(* increments, as far as the host is known to go.                          *)
LastLun(h) ==
  LET max == CHOOSE m \in UsedLuns(h) \union {0} : \A l \in UsedLuns(h) : l <= m
  IN  IF max <= MaxLun THEN MaxLun
        ELSE MaxLun + ((max - MaxLun + LunIncrement - 1) \div LunIncrement) * LunIncrement

(* _get_free_lun: one of the first LunInterval free LUNs or, with none     *)
(* free, any LUN of the next increment.                                    *)
FreeLuns(h) ==
  LET free == (0 .. LastLun(h)) \ UsedLuns(h)
      first == {l \in free : Cardinality({k \in free : k < l}) < LunInterval}
  IN  IF free # {} THEN first ELSE LastLun(h) + 1 .. LastLun(h) + LunIncrement

(* map_volume, first half.                                                 *)
Choose(t) ==
  LET h == req[t].host
  IN  /\ pc[t] = "choose"
      /\ \/ /\ h \in hosts
            /\ \E l \in FreeLuns(h) : lun' = [lun EXCEPT ![t] = l]
            /\ Goto(t, "map")
            /\ UNCHANGED <<array, ids_in_use, req, attempts, rivals, report, budget>>
         \/ h \notin hosts /\ Reject(t)

(* mkvdiskhostmap; every other thread that publishes to the host sees one  *)
(* more mapping.                                                           *)
Free(t) ==
  req[t].host \in hosts /\ lun[t] <= HostLimit /\ lun[t] \notin UsedLuns(req[t].host)

MakeMapping(t) ==
  /\ Free(t)
  /\ lunOf' = [lunOf EXCEPT ![req[t].volume][req[t].host] = lun[t]]
  /\ rivals' = [u \in Threads |->
                  IF u = t THEN 0
                  ELSE IF req[u] # None /\ req[u].host = req[t].host /\ rivals[u] < MaxTries
                    THEN rivals[u] + 1 ELSE rivals[u]]
  /\ UNCHANGED <<volumes, hosts>>

(* map_volume, second half.                                                *)
Map(t) ==
  /\ pc[t] = "map"
  /\ MakeMapping(t)
  /\ Published(t, lun[t])

Taken(t) ==
  /\ pc[t] = "map"
  /\ req[t].host \in hosts /\ lun[t] <= HostLimit /\ lun[t] \in UsedLuns(req[t].host)

(* Mutant: the LUN that was lost is tried again.                           *)
RetrySameLun(t) ==
  /\ Taken(t) /\ attempts[t] + 1 < MaxTries
  /\ attempts' = [attempts EXCEPT ![t] = @ + 1]
  /\ UNCHANGED <<pc, ids_in_use, req, lun, rivals, array, report, budget>>

(* Mutant: the retries are not bounded.                                    *)
RetryForEver(t) ==
  /\ Taken(t)
  /\ attempts' = [attempts EXCEPT ![t] = @ + 1]
  /\ Goto(t, "choose")
  /\ UNCHANGED <<ids_in_use, req, lun, rivals, array, report, budget>>

(* A LUN that was taken in the meantime is tried again with another one,   *)
(* MaxTries times in all.                                                  *)
Retry(t) ==
  /\ Taken(t) /\ attempts[t] + 1 < MaxTries
  /\ attempts' = [attempts EXCEPT ![t] = @ + 1]
  /\ Goto(t, "choose")
  /\ UNCHANGED <<ids_in_use, req, lun, rivals, array, report, budget>>

(* The host is gone, the LUN is not valid, or it was the last try.         *)
GiveUp(t) ==
  /\ pc[t] = "map"
  /\ ~ Free(t)
  /\ Taken(t) => attempts[t] + 1 = MaxTries
  /\ Reject(t)

(* rmvdiskhostmap: a mapping, host or volume that is not there is taken    *)
(* for success.                                                            *)
RemoveMapping(t) ==
  /\ lunOf' = [lunOf EXCEPT ![req[t].volume][req[t].host] = None]
  /\ UNCHANGED <<volumes, hosts>>

(* unmap_volume.                                                           *)
Unmap(t) ==
  /\ pc[t] = "unmap"
  /\ RemoveMapping(t)
  /\ Unpublished(t)
  /\ UNCHANGED budget

(* Mutant: an unpublish that fails on the array is answered OK.            *)
FailAnswersOk(t) ==
  /\ pc[t] \notin {"idle", "readNode"}
  /\ failures < MaxFailures
  /\ failures' = failures + 1
  /\ IF req[t].op = "unpublish" THEN Unpublished(t) ELSE Return(t) /\ UNCHANGED report
  /\ UNCHANGED <<array, unreadable>>

(* Any query or command may fail for the array's or the network's reasons, *)
(* or the server may stop in the middle of the request.                    *)
Fail(t) ==
  /\ pc[t] \notin {"idle", "readNode"}
  /\ failures < MaxFailures
  /\ failures' = failures + 1
  /\ Return(t)
  /\ UNCHANGED <<array, report, unreadable>>

(* The array does what it was told, but its answer, or the server, is lost *)
(* before the orchestrator hears of it.                                    *)
LoseAnswer(t) ==
  /\ failures < MaxFailures
  /\ failures' = failures + 1
  /\ \/ pc[t] = "map" /\ MakeMapping(t) /\ Leave(t)
     \/ pc[t] = "unmap" /\ RemoveMapping(t) /\ Return(t)
  /\ UNCHANGED <<report, unreadable>>

-----------------------------------------------------------------------------
(* DeleteVolume, under the same lock; the array refuses while the volume   *)
(* is mapped.                                                              *)
DeleteVolume(v) ==
  /\ v \in volumes \ ids_in_use
  /\ MappedTo(v) = {}
  /\ volumes' = volumes \ {v}
  /\ UNCHANGED <<ids_in_use, hosts, lunOf, local, report, budget>>

(* The host definer defines a host, or deletes one: rmhost without force,  *)
(* which the array refuses while a volume is mapped to it.                 *)
HostDefiner(h) ==
  /\ hosts' = IF h \in hosts THEN hosts \ {h} ELSE hosts \union {h}
  /\ h \in hosts => UsedLuns(h) = {}
  /\ UNCHANGED <<ids_in_use, volumes, lunOf, local, report, budget>>

Step(t) ==
  \/ ReadNode(t) \/ NodeUnreadable(t) \/ Lookup(t) \/ FindHost(t)
  \/ Choose(t)   \/ Map(t)            \/ Retry(t)   \/ GiveUp(t)
  \/ Unmap(t)    \/ Fail(t)           \/ LoseAnswer(t)

Next ==
  \/ \E t \in Threads : Call(t) \/ Step(t)
  \/ \E v \in Volumes : DeleteVolume(v)
  \/ \E h \in Hosts : HostDefiner(h)

Spec == Init /\ [][Next]_vars

-----------------------------------------------------------------------------
TypeOK ==
  /\ ids_in_use \subseteq Volumes
  /\ volumes \subseteq Volumes /\ hosts \subseteq Hosts
  /\ lunOf \in [Volumes -> [Hosts -> 0 .. HostLimit \union {None}]]
  /\ pc \in [Threads -> Phase]
  /\ req \in [Threads -> Request \union {None}]
  /\ lun \in [Threads -> Lun \union {None}]
  /\ attempts \in [Threads -> 0 .. MaxTries - 1]
  /\ rivals \in [Threads -> 0 .. MaxTries]
  /\ reported \in [Volumes -> [Hosts -> 0 .. HostLimit \union {None}]]
  /\ released \subseteq Volumes \X Hosts
  /\ failures \in 0 .. MaxFailures /\ unreadable \in 0 .. MaxUnreadable

(* The node finds the volume under the LUN it was told, until the          *)
(* orchestrator asks to unpublish it, whatever else is published, deleted  *)
(* or lost.                                                                *)
PublishedIsMapped ==
  \A v \in Volumes, h \in Hosts :
    reported[v][h] # None => lunOf[v][h] = reported[v][h] /\ v \in volumes /\ h \in hosts

(* A volume with a single-node access mode is mapped to one host at most:  *)
(* map_volume_by_initiators checks and then maps (with force), and only    *)
(* the lock of the volume keeps others out between the two.                *)
ExclusiveAccess ==
  \A v \in Exclusive : Cardinality(MappedTo(v)) <= 1

(* A publish loses a LUN only to somebody who mapped to the host meanwhile: *)
(* it gives up with LunAlreadyInUse only after MaxTries others succeeded.  *)
LostOnlyToRivals == \A t \in Threads : attempts[t] <= rivals[t]

(* NoAvailableLun is answered only for a host that had no LUN left.        *)
NoAvailableLunMeansFull ==
  [][\A t \in Threads :
       pc[t] = "choose" /\ pc'[t] = "map" /\ lun'[t] > HostLimit =>
         UsedLuns(req[t].host) = 0 .. HostLimit]_vars

(* What was unpublished is unmapped, as long as nodes could be read.       *)
ReleasedIsUnmapped ==
  \A v \in Volumes, h \in Hosts :
    <<v, h>> \in released /\ unreadable = 0 => lunOf[v][h] = None

-----------------------------------------------------------------------------
(* "This function will un-map the volume from the host": what the          *)
(* interface says of unmap_volume, read for ControllerUnpublishVolume's    *)
(* OK, which an unreadable node gets without any command to the array.     *)
UnpublishUnmaps ==
  \A v \in Volumes, h \in Hosts : <<v, h>> \in released => lunOf[v][h] = None
=============================================================================
