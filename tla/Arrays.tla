------------------------------- MODULE Arrays -------------------------------
(***************************************************************************)
(* The services of the controller in front of an array: volumes, clones    *)
(* and snapshots on each type of array (on Spectrum Virtualize by its      *)
(* snapshot function and in a partition, FlashCopy has the third way),     *)
(* publishing on the other types (VolumeMapping has that of Spectrum       *)
(* Virtualize), volume groups, replication and the hosts the host definer  *)
(* asks for, which only Spectrum Virtualize has, and the choice of the     *)
(* array a request is for.  A behaviour is of one of them; they share the  *)
(* request lock, the worker threads, the failures and the restarts.        *)
(***************************************************************************)
EXTENDS DS8KObjects, XIVObjects, SANtricityObjects, SolidFireObjects,
        SnapshotFunction, PartitionObjects, ArrayMappings, VolumeGroups, Replication, ArrayHosts,
        Routing

Init ==
  \/ InitDS8K \/ InitXIV \/ InitSANtricity \/ InitSolidFire
  \/ InitSnapshotFunction \/ InitPartition
  \/ InitMappings \/ InitGroups \/ InitReplication \/ InitHosts
  \/ InitRouting

Next ==
  \/ \E t \in Threads : CallObjects(t)
  \/ DS8KNext \/ XIVNext \/ SANtricityNext \/ SolidFireNext
  \/ SnapshotFunctionNext \/ PartitionNext
  \/ MappingsNext \/ GroupsNext \/ ReplicationNext \/ HostsNext \/ RoutingNext
  \/ Crash \/ Rest

Spec == Init /\ [][Next]_vars

-----------------------------------------------------------------------------
(* Types: what the array, the pod and the orchestrator can hold, by the    *)
(* service.                                                                *)
TypeOK ==
  /\ ids_in_use = {LockOf(req[t]) : t \in {x \in Threads : req[x] # None}}
  /\ CASE service = "ds8k" -> ObjectsTypeOK /\ DS8KTypeOK
       [] service = "xiv" -> ObjectsTypeOK /\ XIVTypeOK
       [] service = "santricity" -> ObjectsTypeOK /\ SANtricityTypeOK
       [] service = "solidfire" -> ObjectsTypeOK /\ SolidFireTypeOK
       [] service = "snapshotFunction" -> ObjectsTypeOK /\ SnapshotFunctionTypeOK
       [] service = "partition" -> ObjectsTypeOK /\ PartitionTypeOK
       [] service = "mappings" -> MappingsTypeOK
       [] service = "groups" -> GroupsTypeOK
       [] service = "replication" -> ReplicationTypeOK
       [] service = "hosts" -> HostsTypeOK
       [] service = "routing" -> RoutingTypeOK

(* The orchestrator has been told of u, never asked for its deletion, and  *)
(* the array has not removed it with another snapshot of its group.        *)
Trusted(u) == known.acked[u] # None /\ u \notin known.deleting \union known.yanked

(* A volume or snapshot that was reported stays, under its name, until its *)
(* deletion is asked for: no roll-back, retry, stale cache entry or reused *)
(* identifier removes it, and no request about another that is sent to its *)
(* array.  An E-Series array (array_mediator_santricity.py) is excepted in *)
(* two cases: deleting a snapshot deletes its whole group, and deleting a  *)
(* volume its snapshots, with the views made from either.                  *)
ReportedStays ==
  /\ service \in ObjectServices =>
       \A u \in Ids : Trusted(u) =>
         Exists(u) /\ object[u].name \in {None, known.acked[u].name}
  /\ service = "routing" => \A id \in known.told \ known.deleting : id.volume \in array.volumes

(* What was reported is what was asked for: without a source, at least the *)
(* requested size; with one, a copy that shows it or holds its data, or a  *)
(* snapshot of the requested volume that was taken after the request.  On  *)
(* an E-Series array it may be the one another request made of the volume; *)
(* and when it was taken is not asked there once any deletion was, after   *)
(* which the newest image of the volume may be an older one.               *)
ReportedAsAsked ==
  service \in ObjectServices =>
    \A u \in Ids : Trusted(u) =>
      /\ known.acked[u].op = "createVolume" /\ known.acked[u].uid = None =>
           object[u].size >= known.acked[u].size
      /\ CASE service = "ds8k" -> DS8KHasData(u)
           [] service = "xiv" -> XIVHasData(u)
           [] service = "santricity" -> SANtricityHasData(u)
           [] service = "snapshotFunction" -> FunctionHasData(u)
           [] service = "partition" -> PartitionHasData(u)
           [] OTHER -> TRUE

(* An object whose deletion was answered OK is gone, from whichever array  *)
(* has it.  Nothing is claimed of SolidFire, whose delete_volume never     *)
(* reaches the array, and of an E-Series array once a command has failed,  *)
(* as any error counts there as a missing object, nor of DS8000 snapshots, *)
(* whose relation may be removed and their volume kept.                    *)
DeletedIsGone ==
  /\ service \in ObjectServices =>
       \/ service = "solidfire"
       \/ service = "santricity" /\ failures > 0
       \/ \A u \in known.gone : Exists(u) => service = "ds8k" /\ object[u].name \in SnapshotNames
  /\ service = "routing" => \A id \in known.gone : id.volume \notin array.volumes

(* Two objects never share a name, so that a retry finds the one it made:  *)
(* the request lock keeps two creations under one name apart.  DS8000 and  *)
(* SolidFire allow it, where it takes an error: a look-up that failed, or  *)
(* a volume that could not be read back, and its stale cache entry.  Nor   *)
(* do two arrays have volumes of one name, as long as the topologies of    *)
(* the systems stay: a retry is sent where its predecessor was.            *)
NameOnce ==
  /\ service \in ObjectServices =>
       \/ service \in {"ds8k", "solidfire"} /\ failures > 0
       \/ \A u, w \in Ids : Exists(u) /\ Exists(w) /\ object[u].name = object[w].name =>
                              u = w \/ object[u].name = None
  /\ service = "routing" /\ ~ known.moved =>
       \A v, w \in array.volumes : v.name = w.name => v = w

-----------------------------------------------------------------------------
(* A volume with a single-node access mode is mapped once, to a host or a  *)
(* cluster: the check of map_volume_by_initiators holds until it maps.     *)
(* SolidFire shows it no mappings, and so does not have it.                *)
ExclusiveIsMappedOnce ==
  service = "mappings" /\ array.type # "solidfire" =>
    \A m, n \in array.mappings : m.volume = n.volume /\ m.volume \in Exclusive => m = n

(* A published volume stays mapped to its host, with the LUN reported to   *)
(* the node, until its unpublishing is asked for (for a cluster, of any of *)
(* its hosts).  After an unpublishing was answered OK the host has no      *)
(* access, until the volume is published again (to any of them).  On       *)
(* SolidFire an error makes the reported LUN 0, or is answered OK.         *)
AccessAsAnswered ==
  service = "mappings" =>
    \/ array.type = "solidfire" /\ failures > 0
    \/ /\ \A p \in known.reported : \E m \in MappingsOf(p[1], p[2]) : m.lun = p[3]
       /\ \A p \in known.released : MappingsOf(p[1], p[2]) = {}

-----------------------------------------------------------------------------
(* A group has the members ModifyVolumeGroupMembership was answered OK for *)
(* last, but for volumes that a request for another group has taken, which *)
(* read them before they joined, or in a partition asked for them later; a *)
(* group deleted with OK is gone.                                          *)
MembersAsAnswered ==
  service = "groups" =>
    /\ \A g \in known.gone : g \notin array.groups
    /\ \A g \in GroupNames : known.members[g] # None =>
         /\ Members(g) \subseteq known.members[g]
         /\ known.members[g] \ Members(g) \subseteq known.contested[g]

(* What the replication add-on answered OK for holds: an enabled volume or *)
(* group is replicated in the requested way, until another is asked for; a *)
(* disabled one is not; a promoted one is primary, or has access while the *)
(* link is down.  The last two only as long as no command has failed: such *)
(* errors are logged and the answer is OK.                                 *)
ReplicatedAsAnswered ==
  service = "replication" =>
    /\ \A x \in known.enabled : copy.variant = x
    /\ \A x \in known.disabled : copy.variant # x \/ failures > 0
    /\ known.promoted => IsPrimary \/ copy.state = "idle" \/ failures > 0

-----------------------------------------------------------------------------
(* What the last of the host definer's calls for a node answered OK holds  *)
(* until the next, unless calls that differ have run together: the host is *)
(* there with a port of the type; and as long as every call was answered   *)
(* OK, it has all of the node's ports of the type, the partition, and the  *)
(* I/O groups.  After undefine_host the host it found is gone.             *)
HostsAsAnswered ==
  service = "hosts" /\ known.answer # None =>
    LET a == known.answer
        s == a.setting
    IN  IF a.op = "undefine"
          THEN IF a.name = None THEN HostsWith(s.ports) = {} ELSE host[a.name] = None
          ELSE /\ host[a.name] # None
               /\ OfType(host[a.name].ports, Requested(s)) # {}
               /\ known.clean /\ crashes = 0 =>
                    /\ OfType(s.ports, Requested(s)) \subseteq host[a.name].ports
                    /\ host[a.name].partition = s.partition
                    /\ s.partition = None => host[a.name].groups = s.groups
-----------------------------------------------------------------------------
(* A request is served by an agent of its own: of the array that has its   *)
(* volume, logged in with the password of the request's secret, though     *)
(* agents are shared and replaced by requests that hold older secrets; and *)
(* of the array's type, unless a connection failed while it was detected,  *)
(* which the driver remembers until it is restarted.                       *)
ServedByItsOwn ==
  service = "routing" =>
    \A t \in Threads : pc[t] \in {"serve", "answer"} =>
      LET l == local[t]
      IN  /\ req[t].uid # None => l.storage = req[t].uid.volume.storage
          /\ l.agent.password = EntryOf(req[t], l.system).password
          /\ failures = 0 => l.agent.type = TypeOfStorage(l.storage)
=============================================================================
