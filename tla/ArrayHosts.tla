----------------------------- MODULE ArrayHosts -----------------------------
(***************************************************************************)
(* The storage manager of the host definer: define_host and undefine_host  *)
(* of host_definer_server.py with the commands of array_mediator_svc.py    *)
(* they send to a Spectrum Virtualize system, for one node.                *)
(*                                                                         *)
(* The watchers call it from their threads and the threads of pending      *)
(* HostDefinitions, and nothing keeps two calls for one node apart: every  *)
(* step below may meet what another call has changed since the last.       *)
(***************************************************************************)
EXTENDS ArrayService

CONSTANTS
  PortType,    \* the connectivity type of each port
  NodePorts,   \* the initiators the node may have, before and after a change
  IoGroups,    \* all I/O groups: FULL_IO_GROUP
  Partition    \* the name of a partition

Ports == DOMAIN PortType
ConnectivityTypes == {"fc", "iscsi", "nvmeofc"}

(* What a request takes from the node's annotation, its labels and the     *)
(* secret; without a label, and a default of the definer, it has no type.  *)
Setting ==
  [ports : NodePorts, type : ConnectivityTypes \union {None}, partition : {Partition, None},
   groups : {IoGroups} \union {{g} : g \in IoGroups}]

(* recorded are the initiators in the HostDefinition.                      *)
HostRequest ==
  [op : {"define", "undefine"}, worker : Threads, setting : Setting, recorded : NodePorts]

ASSUME ArrayHostsAssumption ==
  /\ Range(PortType) \subseteq {"fc", "iscsi", "nvmeofc"}
  /\ NodePorts \subseteq SUBSET DOMAIN PortType
  /\ IoGroups # {} /\ None \notin HostRequest
  /\ None \notin NodePorts /\ None \notin {"node", "other"}

(* node is the name the definer gives the node's host, other one that an   *)
(* administrator has given a host.                                         *)
HostNames == {"node", "other"}
Protocols == {"scsi", "nvme"}
HostRecord ==
  [ports : SUBSET Ports, protocol : Protocols, partition : {Partition, None},
   groups : SUBSET IoGroups]

ProtocolOf(type) == IF type = "nvmeofc" THEN "nvme" ELSE "scsi"
OfType(ports, type) == {p \in ports : PortType[p] = type}

host == array.host
HostsWith(ports) == {h \in HostNames : host[h] # None /\ host[h].ports \intersect ports # {}}

(* NVMe goes before FC, and FC before iSCSI.                               *)
TypeOf(ports) ==
  LET has(type) == OfType(ports, type) # {} IN
  IF has("nvmeofc") THEN "nvmeofc" ELSE IF has("fc") THEN "fc"
    ELSE IF has("iscsi") THEN "iscsi" ELSE None

TypeOfHost(h) == TypeOf(host[h].ports)

(* get_initiators_connectivity_type                                        *)
Requested(s) == IF s.type # None THEN s.type ELSE TypeOf(s.ports)

(* name is the host a call works on; remove and add are the ports, or the  *)
(* I/O groups, it still has to remove and add; good are the ports a        *)
(* partition has accepted; way says which part of the code a failure is    *)
(* met in.                                                                 *)
Ways == {"update", "switch", "recreate", "create"}
HostMemo ==
  [name : HostNames \union {None}, way : Ways, remove : SUBSET (Ports \union IoGroups),
   add : SUBSET (Ports \union IoGroups), good : SUBSET Ports]
NoHostMemo == [name |-> None, way |-> "update", remove |-> {}, add |-> {}, good |-> {}]
HostPlace ==
  {"idle", "findHost", "verifyPartition", "dropHost", "readPorts", "removePorts", "protocol",
   "addPorts", "countPorts", "dropEmpty", "tryPort", "untryPort", "mkhost", "validate",
   "readGroups", "removeGroups", "addGroups", "respond", "findUndefined", "undefine"}

(* An administrator may have made a host with one of the ports.            *)
InitHosts ==
  /\ InitService("hosts")
  /\ \E ports \in {{}} \union {{p} : p \in OfType(Ports, "fc")} :
       LET foreign == [ports |-> ports, protocol |-> "scsi", partition |-> None, groups |-> IoGroups]
       IN  /\ array = [host |-> [h \in HostNames |->
                         IF h = "other" /\ ports # {} THEN foreign ELSE None]]
           /\ \E c \in NodePorts :
                known = [setting |-> [ports |-> c, type |-> "fc", partition |-> None,
                                      groups |-> IoGroups],
                         recorded |-> None, answer |-> None, mixed |-> FALSE, clean |-> ports = {}]
  /\ memory = <<>>

AtHost(t, place) == At(t, "hosts", place)

-----------------------------------------------------------------------------
(* The user changes one thing at a time.                                   *)
NextSettings ==
  {s \in Setting :
     Cardinality({f \in DOMAIN s : s[f] # known.setting[f]}) <= 1}

(* known.mixed says whether calls that differ have run at the same time.   *)
CallHosts(t) ==
  /\ service = "hosts"
  /\ \E op \in {"define", "undefine"}, s \in NextSettings :
       LET r == [op |-> op, worker |-> t, setting |-> s,
                 recorded |-> IF known.recorded = None THEN s.ports ELSE known.recorded]
           others == {u \in Threads : pc[u] # "idle"}
           differs(u) == req[u].op # op \/ req[u].setting # s
       IN  /\ op = "undefine" => s = known.setting
           /\ Enter(t, r, IF op = "define" THEN "findHost" ELSE "findUndefined", NoHostMemo)
           /\ known' = [known EXCEPT !.setting = s, !.answer = None,
                          !.mixed = others # {} /\ (@ \/ (\E u \in others : differs(u)))]

Setup(t) == req[t].setting
Type(t) == Requested(Setup(t))
Wanted(t) == OfType(Setup(t).ports, Type(t))
Mine(t) == local[t].name

(* The HostDefinition gets the node's initiators, whatever the outcome of  *)
(* the call, or is deleted.  The answer counts of the last of the calls    *)
(* that ran together, if they were all the same.                           *)
Outcome(t, ok) ==
  LET last == \A u \in Threads \ {t} : pc[u] = "idle" IN
  known' = [known EXCEPT
    !.recorded = IF req[t].op = "define" THEN Setup(t).ports ELSE IF ok THEN None ELSE @,
    !.answer = IF ok /\ last /\ ~ known.mixed
                 THEN [op |-> req[t].op, setting |-> Setup(t), name |-> Mine(t)] ELSE None,
    !.clean = @ /\ ok /\ ~ known.mixed]

Answer(t, ok) == Outcome(t, ok) /\ Return(t)

(* The call answers an error.                                              *)
Refuse(t) == Answer(t, FALSE) /\ UNCHANGED <<array, memory>> /\ NoFault

Move(t, to, memo) ==
  Proceed(t, to, memo) /\ NoFault /\ UNCHANGED <<memory, known>>

SetHost(h, o) == array' = [array EXCEPT !.host[h] = o]

(* HostNotFoundError, wherever it is raised, makes define_host create the  *)
(* host under the node's own name.                                         *)
Creation(t) ==
  Move(t, IF Setup(t).partition = None THEN "mkhost" ELSE "tryPort",
       [NoHostMemo EXCEPT !.name = "node", !.way = "create", !.add = Wanted(t)])

(* After an exception in an update of ports the host is deleted and made   *)
(* anew: in _change_host_protocol, and for any update in a partition.      *)
Salvages(t) ==
  /\ pc[t] \in {"removePorts", "protocol", "addPorts", "countPorts", "dropEmpty"}
  /\ \/ local[t].way = "switch"
     \/ local[t].way = "update" /\ Setup(t).partition # None

Salvage(t) == Proceed(t, "dropHost", [local[t] EXCEPT !.way = "recreate"]) /\ UNCHANGED known

(* The command fails, for what the array now holds.                        *)
Fails(t) ==
  /\ IF Salvages(t) THEN Salvage(t) ELSE Answer(t, FALSE)
  /\ NoFault /\ UNCHANGED <<array, memory>>

(* A failure of the command itself.  The second look at a host is where    *)
(* its update begins.                                                      *)
HostFail(t) ==
  /\ service = "hosts" /\ pc[t] # "idle"
  /\ Fault
  /\ \/ Salvages(t) /\ Salvage(t)
     \/ pc[t] = "readPorts" /\ Salvage(t)
     \/ ~ Salvages(t) /\ Answer(t, FALSE)
  /\ UNCHANGED <<array, memory>>

(* rmhost.  A host with mapped volumes stays, and whether volumes are      *)
(* mapped is left open.                                                    *)
RemoveHost(t, next) ==
  \/ host[Mine(t)] # None /\ SetHost(Mine(t), None) /\ next
  \/ Fails(t)

-----------------------------------------------------------------------------
(* get_host_by_host_identifiers, with the initiators that were recorded.   *)
(* Of several hosts with the node's ports it finds one, by which ports are *)
(* logged in or which host is listed last, or raises an error.             *)
FindHost(t) ==
  /\ AtHost(t, "findHost")
  /\ LET found == HostsWith(req[t].recorded) IN
     \/ found = {} /\ Creation(t) /\ UNCHANGED array
     \/ \E h \in found :
          Move(t, "verifyPartition", [NoHostMemo EXCEPT !.name = h]) /\ UNCHANGED array
     \/ Cardinality(found) > 1 /\ Refuse(t)

(* A host that is gone when it is read is an error or not found, by what   *)
(* the array answers.                                                      *)
IsGone(t) ==
  /\ host[Mine(t)] = None
  /\ \/ Fails(t)
     \/ (~ Salvages(t) /\ local[t].way # "create") /\ Creation(t) /\ UNCHANGED array

(* A mutated VerifyPartition: a host of another partition is kept.         *)
KeepsPartition(t) ==
  /\ AtHost(t, "verifyPartition")
  /\ IsGone(t) \/ (host[Mine(t)] # None /\ Move(t, "readPorts", local[t]) /\ UNCHANGED array)

(* _update_host_partition: a host of another partition is deleted first.   *)
VerifyPartition(t) ==
  /\ AtHost(t, "verifyPartition")
  /\ \/ IsGone(t)
     \/ /\ host[Mine(t)] # None
        /\ IF host[Mine(t)].partition = Setup(t).partition
             THEN Move(t, "readPorts", local[t])
             ELSE Move(t, "dropHost", [local[t] EXCEPT !.way = "create"])
        /\ UNCHANGED array

(* delete_host, before the host is made anew: under the node's name, or    *)
(* under the one it had.                                                   *)
DropHost(t) ==
  /\ AtHost(t, "dropHost")
  /\ RemoveHost(t, IF local[t].way = "create" THEN Creation(t)
       ELSE Move(t, IF Setup(t).partition = None THEN "mkhost" ELSE "tryPort",
                 [local[t] EXCEPT !.remove = {}, !.add = Wanted(t)]))

(* The host's I/O groups are updated outside partitions only.              *)
AfterPorts(t) == IF Setup(t).partition = None THEN "readGroups" ELSE "respond"

(* Only the ports of a type that was asked for are compared.               *)
AreInitiatorsEqual(t) ==
  IF Setup(t).type = None THEN req[t].recorded = Setup(t).ports
    ELSE OfType(req[t].recorded, Setup(t).type) = Wanted(t)

Has(t) == OfType(host[Mine(t)].ports, TypeOfHost(Mine(t)))

IsProtocolSwitched(t) ==
  LET type == TypeOfHost(Mine(t)) IN type # None /\ ProtocolOf(type) # ProtocolOf(Type(t))

(* The ports are not looked at when the HostDefinition has the node's      *)
(* initiators.                                                             *)
IsPortUpdateNeeded(t) == TypeOfHost(Mine(t)) # Type(t) \/ ~ AreInitiatorsEqual(t)

PortsToRemove(t) == Has(t) \ Wanted(t)
PortsToAdd(t) == Wanted(t) \ Has(t)

(* _update_host_ports: another protocol, or other ports of the protocol.   *)
(* A host that shows no port has no type, which is an error.               *)
ReadPorts(t) ==
  /\ AtHost(t, "readPorts")
  /\ \/ IsGone(t)
     \/ /\ host[Mine(t)] # None
        /\ IF TypeOfHost(Mine(t)) = None
             THEN /\ IF Setup(t).partition # None THEN Salvage(t) ELSE Answer(t, FALSE)
                  /\ NoFault /\ UNCHANGED memory
             ELSE IF IsProtocolSwitched(t)
             THEN Move(t, "removePorts",
                    [local[t] EXCEPT !.way = "switch", !.remove = Has(t), !.add = Wanted(t)])
             ELSE IF IsPortUpdateNeeded(t)
             THEN Move(t, "removePorts",
                    [local[t] EXCEPT !.remove = PortsToRemove(t), !.add = PortsToAdd(t)])
             ELSE Move(t, AfterPorts(t), local[t])
        /\ UNCHANGED array

(* remove_ports_from_host, port by port; one that is not there counts as   *)
(* removed.                                                                *)
RemovePorts(t) ==
  /\ AtHost(t, "removePorts")
  /\ \/ \E p \in local[t].remove :
          IF host[Mine(t)] = None THEN Fails(t)
            ELSE /\ array' = [array EXCEPT !.host[Mine(t)].ports = @ \ {p}]
                 /\ Move(t, "removePorts", [local[t] EXCEPT !.remove = @ \ {p}])
     \/ /\ local[t].remove = {}
        /\ Move(t, IF local[t].way = "switch" THEN "protocol"
                   ELSE IF local[t].add # {} THEN "addPorts" ELSE AfterPorts(t), local[t])
        /\ UNCHANGED array

(* chhost, which the array may refuse for the sake of mapped volumes.      *)
ChangeProtocol(t) ==
  /\ AtHost(t, "protocol")
  /\ \/ /\ host[Mine(t)] # None
        /\ array' = [array EXCEPT !.host[Mine(t)].protocol = ProtocolOf(Type(t))]
        /\ Move(t, "addPorts", local[t])
     \/ Fails(t)

(* add_ports_to_host, port by port; a port that a host has already is      *)
(* passed over.  Without a port of the type there is nothing to begin with.*)
AddPorts(t) ==
  /\ AtHost(t, "addPorts")
  /\ LET takes == /\ host[Mine(t)] # None
                  /\ host[Mine(t)].protocol = ProtocolOf(Type(t))
     IN  \/ Wanted(t) = {} /\ Fails(t)
         \/ \E p \in local[t].add :
              IF ~ takes THEN Fails(t)
                ELSE /\ array' = IF HostsWith({p}) # {} THEN array
                                   ELSE [array EXCEPT !.host[Mine(t)].ports = @ \union {p}]
                     /\ Move(t, "addPorts", [local[t] EXCEPT !.add = @ \ {p}])
         \/ /\ Wanted(t) # {} /\ local[t].add = {}
            /\ Move(t, "countPorts", local[t]) /\ UNCHANGED array

(* _raise_error_when_no_ports_added                                        *)
CountPorts(t) ==
  /\ AtHost(t, "countPorts")
  /\ \/ IsGone(t)
     \/ /\ host[Mine(t)] # None
        /\ Move(t, IF host[Mine(t)].ports = {} THEN "dropEmpty"
                   ELSE IF local[t].way = "create" THEN "respond" ELSE AfterPorts(t), local[t])
        /\ UNCHANGED array

(* The empty host is deleted, and NoPortIsValid raised.                    *)
DropEmpty(t) ==
  /\ AtHost(t, "dropEmpty")
  /\ RemoveHost(t, /\ IF Salvages(t) THEN Salvage(t) ELSE Answer(t, FALSE)
                   /\ NoFault /\ UNCHANGED memory)

-----------------------------------------------------------------------------
NewHost(t, ports) ==
  [ports |-> ports, protocol |-> ProtocolOf(Type(t)), partition |-> Setup(t).partition,
   groups |-> Setup(t).groups]

(* HostAlreadyExists is only caught where the host was not found before.   *)
NameTaken(t) ==
  /\ host[Mine(t)] # None
  /\ IF local[t].way = "create" THEN Move(t, "validate", local[t]) /\ UNCHANGED array
       ELSE Fails(t)

IsFree(p) == HostsWith({p}) = {}

(* create_host in a partition makes and removes a host for each port, to   *)
(* see which are accepted.  I/O groups of the user's choice are refused.   *)
TryPort(t) ==
  /\ AtHost(t, "tryPort")
  /\ LET refused == Wanted(t) = {} \/ Setup(t).groups # IoGroups IN
     \/ refused /\ Fails(t)
     \/ ~ refused /\ local[t].add # {} /\ NameTaken(t)
     \/ /\ ~ refused /\ host[Mine(t)] = None
        /\ \E p \in local[t].add :
             IF IsFree(p)
               THEN /\ SetHost(Mine(t), NewHost(t, {p}))
                    /\ Move(t, "untryPort",
                         [local[t] EXCEPT !.add = @ \ {p}, !.good = @ \union {p}])
               ELSE Move(t, "tryPort", [local[t] EXCEPT !.add = @ \ {p}]) /\ UNCHANGED array
     \/ /\ ~ refused /\ local[t].add = {}
        /\ IF local[t].good = {} THEN Fails(t) ELSE Move(t, "mkhost", local[t]) /\ UNCHANGED array

UntryPort(t) ==
  /\ AtHost(t, "untryPort")
  /\ RemoveHost(t, Move(t, "tryPort", local[t]))

(* create_host makes the host with the first port that is accepted, in a   *)
(* partition with all of them; outside one the others are added.           *)
MakeHost(t) ==
  /\ AtHost(t, "mkhost")
  /\ LET inPartition == Setup(t).partition # None
         tries == IF inPartition THEN local[t].good ELSE local[t].add
         accepted == IF inPartition THEN \A p \in tries : IsFree(p) ELSE \E p \in tries : IsFree(p)
     IN  \/ tries # {} /\ NameTaken(t)
         \/ (tries # {} => host[Mine(t)] = None /\ ~ accepted) /\ Fails(t)
         \/ /\ tries # {} /\ host[Mine(t)] = None /\ accepted
            /\ IF inPartition
                 THEN SetHost(Mine(t), NewHost(t, tries)) /\ Move(t, "respond", local[t])
                 ELSE \E p \in tries :
                        /\ IsFree(p) /\ SetHost(Mine(t), NewHost(t, {p}))
                        /\ Move(t, "addPorts", local[t])

(* _validate_host: the host of that name must have a port of the node.     *)
Validate(t) ==
  /\ AtHost(t, "validate")
  /\ IF Mine(t) \in HostsWith(Setup(t).ports)
       THEN Move(t, "respond", local[t]) /\ UNCHANGED array
       ELSE Fails(t)

-----------------------------------------------------------------------------
GroupsToRemove(t) == host[Mine(t)].groups \ Setup(t).groups
GroupsToAdd(t) == Setup(t).groups \ host[Mine(t)].groups

(* _update_host_io_group: the differences, removed and added in one        *)
(* command each.  Here a host that is gone is found to be missing.         *)
ReadGroups(t) ==
  /\ AtHost(t, "readGroups")
  /\ \/ host[Mine(t)] = None /\ Creation(t)
     \/ /\ host[Mine(t)] # None
        /\ Move(t, "removeGroups",
             [local[t] EXCEPT !.remove = GroupsToRemove(t), !.add = GroupsToAdd(t)])
  /\ UNCHANGED array

RemoveGroups(t) ==
  /\ AtHost(t, "removeGroups")
  /\ \/ local[t].remove = {} /\ Move(t, "addGroups", local[t]) /\ UNCHANGED array
     \/ local[t].remove # {} /\ host[Mine(t)] = None /\ Creation(t) /\ UNCHANGED array
     \/ /\ local[t].remove # {} /\ host[Mine(t)] # None
        /\ array' = [array EXCEPT !.host[Mine(t)].groups = @ \ local[t].remove]
        /\ Move(t, "addGroups", local[t])

AddGroups(t) ==
  /\ AtHost(t, "addGroups")
  /\ \/ local[t].add = {} /\ Move(t, "respond", local[t]) /\ UNCHANGED array
     \/ local[t].add # {} /\ host[Mine(t)] = None /\ Creation(t) /\ UNCHANGED array
     \/ /\ local[t].add # {} /\ host[Mine(t)] # None
        /\ array' = [array EXCEPT !.host[Mine(t)].groups = @ \union local[t].add]
        /\ Move(t, "respond", local[t])

(* _generate_response asks for ports of the type; the rest is reported.    *)
Respond(t) ==
  /\ AtHost(t, "respond")
  /\ IF host[Mine(t)] # None /\ OfType(host[Mine(t)].ports, Type(t)) # {}
       THEN Answer(t, TRUE) /\ NoFault /\ UNCHANGED <<array, memory>>
       ELSE Fails(t)

(* undefine_host: no host to be found is as good as a deleted one.         *)
FindUndefined(t) ==
  /\ AtHost(t, "findUndefined")
  /\ LET found == HostsWith(Setup(t).ports) IN
     \/ found = {} /\ Answer(t, TRUE) /\ NoFault /\ UNCHANGED <<array, memory>>
     \/ \E h \in found :
          Move(t, "undefine", [NoHostMemo EXCEPT !.name = h]) /\ UNCHANGED array
     \/ Cardinality(found) > 1 /\ Refuse(t)

UndefineHost(t) ==
  /\ AtHost(t, "undefine")
  /\ RemoveHost(t, Answer(t, TRUE) /\ NoFault /\ UNCHANGED memory)

HostsNext ==
  \E t \in Threads :
    \/ CallHosts(t) \/ FindHost(t) \/ VerifyPartition(t) \/ DropHost(t) \/ ReadPorts(t)
    \/ RemovePorts(t) \/ ChangeProtocol(t) \/ AddPorts(t) \/ CountPorts(t) \/ DropEmpty(t)
    \/ TryPort(t) \/ UntryPort(t) \/ MakeHost(t) \/ Validate(t) \/ ReadGroups(t)
    \/ RemoveGroups(t) \/ AddGroups(t) \/ Respond(t) \/ FindUndefined(t) \/ UndefineHost(t)
    \/ HostFail(t)
-----------------------------------------------------------------------------
HostAnswer == [op : {"define", "undefine"}, setting : Setting, name : HostNames \union {None}]

HostsTypeOK ==
  /\ array \in [host : [HostNames -> HostRecord \union {None}]]
  /\ memory = <<>>
  /\ known.setting \in Setting /\ known.recorded \in NodePorts \union {None}
  /\ known.answer \in HostAnswer \union {None}
  /\ \A t \in Threads :
       /\ pc[t] \in HostPlace
       /\ req[t] \in HostRequest \union {None} /\ local[t] \in HostMemo \union {None}
=============================================================================
