---------------------------- MODULE ArrayMappings ----------------------------
(***************************************************************************)
(* ControllerPublishVolume and ControllerUnpublishVolume, with             *)
(* map_volume_by_initiators and unmap_volume_by_initiators, in front of an *)
(* array of another type than Spectrum Virtualize (VolumeMapping has that  *)
(* one, and the host definer).  The volumes and hosts are there.           *)
(***************************************************************************)
EXTENDS ArrayService

CONSTANTS
  MapVolumes,
  Exclusive,      \* the volumes published with a single-node access mode
  Hosts,
  Clustered,      \* the hosts in a host group of the E-Series array
  Luns,           \* numbers, 0 among them
  MaxLunRetries   \* max_lun_retries (10)

MappingRequest == [op : {"publish", "unpublish"}, uid : MapVolumes, host : Hosts]

ASSUME ArrayMappingsAssumption ==
  /\ Exclusive \subseteq MapVolumes /\ Clustered \subseteq Hosts /\ 0 \in Luns
  /\ MaxLunRetries \in Nat \ {0} /\ None \notin MappingRequest

(* A mapping gives one or more hosts access to a volume, by a LUN.         *)
Mapping == [volume : MapVolumes, hosts : SUBSET Hosts, lun : Luns]
MappingPlace == {"idle", "mappings", "choose", "map", "readLun", "findMapping", "unmap"}
NoMapping == [lun |-> None, tries |-> 0, mapping |-> None]

(* reported holds the published triples no unpublishing was asked for      *)
(* since, released the pairs whose unpublishing was answered OK last; a    *)
(* mapping of a cluster counts for all its hosts when it is removed, and   *)
(* when it is made.                                                        *)
InitMappings ==
  /\ InitService("mappings")
  /\ \E type \in {"ds8k", "xiv", "santricity", "solidfire"} :
       array = [type |-> type, mappings |-> {}]
  /\ memory = <<>>
  /\ known = [reported |-> {}, released |-> {}]

(* SANtricity maps to the cluster of a host that is in one.                *)
Target(h) == IF array.type = "santricity" /\ h \in Clustered THEN Clustered ELSE {h}

MappingsOf(v, h) == {m \in array.mappings : m.volume = v /\ h \in m.hosts}
FreeLuns(hosts) == {l \in Luns : \A m \in array.mappings : m.hosts \intersect hosts # {} => m.lun # l}

CallMappings(t) ==
  /\ service = "mappings"
  /\ \E r \in MappingRequest :
       /\ Enter(t, r, IF r.op = "publish" THEN "mappings"
                        ELSE IF array.type \in {"ds8k", "santricity"} THEN "findMapping"
                        ELSE "unmap",
                NoMapping)
       /\ known' = IF r.op = "publish" THEN [known EXCEPT !.released = @ \ {<<r.uid, r.host>>}]
                     ELSE [known EXCEPT !.reported = {p \in @ : p[1] # r.uid \/ p[2] # r.host}]

Published(t, lun) ==
  /\ known' = [known EXCEPT !.reported = @ \union {<<req[t].uid, req[t].host, lun>>},
                            !.released = @ \ ({req[t].uid} \X Target(req[t].host))]
  /\ Return(t)

Unpublished(t) ==
  /\ known' = [known EXCEPT !.reported = @ \ ({req[t].uid} \X Target(req[t].host) \X Luns),
                            !.released = @ \union {<<req[t].uid, req[t].host>>}]
  /\ Return(t)

-----------------------------------------------------------------------------
(* Only many mappings, and not a single one, would keep others out.        *)
IsTakenByMany(r, shown) == r.uid \in Exclusive /\ Cardinality(shown) > 1

IsTaken(r, shown) ==
  /\ r.uid \in Exclusive
  /\ Cardinality(shown) > 1 \/ (shown # {} /\ r.host \notin shown)

(* get_volume_mappings, on a SolidFire array always empty, and what        *)
(* map_volume_by_initiators concludes: the volume is mapped to the host,   *)
(* or to another while it is exclusive, or is to be mapped.                *)
ReadMappings(t) ==
  /\ At(t, "mappings", "mappings")
  /\ LET v == req[t].uid
         shown == IF array.type = "solidfire" THEN {}
                    ELSE {h \in Hosts : MappingsOf(v, h) # {}}
         isMine == req[t].host \in shown
         isTaken == IsTaken(req[t], shown)
     IN  \/ isTaken /\ Reject(t)
         \/ /\ ~ isTaken /\ isMine
            /\ \E m \in MappingsOf(v, req[t].host) : Published(t, m.lun)
            /\ NoFault /\ UNCHANGED <<array, memory>>
         \/ /\ ~ isTaken /\ ~ isMine
            /\ Continue(t, IF array.type = "xiv" THEN "choose" ELSE "map")
            /\ NoFault /\ UNCHANGED <<array, memory, known>>

(* _get_next_available_lun of the XIV mediator: any one that is free now.  *)
ChooseLun(t) ==
  /\ At(t, "mappings", "choose")
  /\ LET free == FreeLuns({req[t].host})
     IN  \/ free = {} /\ Reject(t)
         \/ \E l \in free :
              /\ Proceed(t, "map", [local[t] EXCEPT !.lun = l, !.tries = @ + 1])
              /\ NoFault /\ UNCHANGED <<array, memory, known>>

MakeMapping(t, lun) ==
  array' = [array EXCEPT !.mappings = @ \union
              {[volume |-> req[t].uid, hosts |-> Target(req[t].host), lun |-> lun]}]

(* map_volume with the LUN chosen, which another volume may have got       *)
(* meanwhile: then with another, max_lun_retries times in all.             *)
MapByLun(t) ==
  /\ At(t, "mappings", "map") /\ array.type = "xiv"
  /\ LET isFree == local[t].lun \in FreeLuns({req[t].host})
     IN  \/ /\ isFree
            /\ MakeMapping(t, local[t].lun) /\ Published(t, local[t].lun)
            /\ NoFault /\ UNCHANGED memory
         \/ /\ ~ isFree /\ local[t].tries < MaxLunRetries
            /\ Continue(t, "choose")
            /\ NoFault /\ UNCHANGED <<array, memory, known>>
         \/ ~ isFree /\ local[t].tries = MaxLunRetries /\ Reject(t)

(* map_volume of the other mediators: the array picks the LUN, and returns *)
(* it but for SolidFire, where a volume may be in the access group before. *)
MapByArray(t) ==
  /\ At(t, "mappings", "map") /\ array.type # "xiv"
  /\ LET mine == MappingsOf(req[t].uid, req[t].host)
         free == FreeLuns(Target(req[t].host))
     IN  \/ /\ mine # {} /\ array.type = "solidfire"
            /\ Continue(t, "readLun")
            /\ NoFault /\ UNCHANGED <<array, memory, known>>
         \/ \E l \in IF mine = {} THEN free ELSE {} :
              /\ MakeMapping(t, l)
              /\ IF array.type = "solidfire" THEN Continue(t, "readLun") /\ UNCHANGED known
                                             ELSE Published(t, l)
              /\ NoFault /\ UNCHANGED memory
         \/ mine = {} /\ free = {} /\ Reject(t)

(* The LUN assignments of the access group.                                *)
ReadLun(t) ==
  /\ At(t, "mappings", "readLun")
  /\ \E m \in MappingsOf(req[t].uid, req[t].host) : Published(t, m.lun)
  /\ NoFault /\ UNCHANGED <<array, memory>>

-----------------------------------------------------------------------------
(* unmap_volume looks the mapping up.  When there is none the answer is OK *)
(* (the DS8000 mediator raises ObjectNotFoundError, which counts as OK).   *)
FindMapping(t) ==
  /\ At(t, "mappings", "findMapping")
  /\ LET mine == MappingsOf(req[t].uid, req[t].host)
     IN  \/ mine = {} /\ Unpublished(t) /\ NoFault /\ UNCHANGED <<array, memory>>
         \/ \E m \in mine : /\ Proceed(t, "unmap", [local[t] EXCEPT !.mapping = m])
                            /\ NoFault /\ UNCHANGED <<array, memory, known>>

(* The volume's mappings to all hosts would go.                            *)
UnmappedEverywhere(t) == {m \in array.mappings : m.volume = req[t].uid}

(* What the command removes: on a DS8000 what has that LUN of the host, on *)
(* an E-Series array the mapping, with all the hosts it is for, and else   *)
(* the mapping of the volume to the host, if there is one.                 *)
Unmapped(t) ==
  CASE array.type = "ds8k" -> {m \in array.mappings : /\ req[t].host \in m.hosts
                                                      /\ m.lun = local[t].mapping.lun}
    [] array.type = "santricity" -> {local[t].mapping}
    [] OTHER -> MappingsOf(req[t].uid, req[t].host)

Unmap(t) ==
  /\ At(t, "mappings", "unmap")
  /\ array' = [array EXCEPT !.mappings = @ \ Unmapped(t)]
  /\ Unpublished(t)
  /\ NoFault /\ UNCHANGED memory

(* Errors of a SolidFire array: a LUN that cannot be read is reported as   *)
(* 0, and a volume that could not be removed as unpublished.               *)
MappingFails(t) ==
  /\ service = "mappings" /\ pc[t] # "idle"
  /\ Fault
  /\ CASE pc[t] = "readLun" -> Published(t, 0)
       [] pc[t] = "unmap" /\ array.type = "solidfire" -> Unpublished(t)
       [] OTHER -> Return(t) /\ UNCHANGED known
  /\ UNCHANGED <<array, memory>>

MappingsNext ==
  \E t \in Threads :
    \/ CallMappings(t) \/ ReadMappings(t) \/ ChooseLun(t) \/ MapByLun(t) \/ MapByArray(t)
    \/ ReadLun(t) \/ FindMapping(t) \/ Unmap(t) \/ MappingFails(t)
-----------------------------------------------------------------------------
MappingsTypeOK ==
  /\ array.mappings \subseteq Mapping
  /\ known.reported \subseteq MapVolumes \X Hosts \X Luns
  /\ known.released \subseteq MapVolumes \X Hosts
  /\ \A t \in Threads : pc[t] \in MappingPlace /\ req[t] \in MappingRequest \union {None}
=============================================================================
