------------------------------ MODULE Routing ------------------------------
(***************************************************************************)
(* Which array a request reaches, through which mediator: the choice of a  *)
(* system from the secret (servers/utils.py), the identifiers that carry   *)
(* it to later requests, and the table of agents with their array types    *)
(* (storage_agent.py).                                                     *)
(*                                                                         *)
(* A secret is that of one array (its only key is None), or a config with  *)
(* several systems and the topologies each supports.  CreateVolume picks   *)
(* the system by topology; every later request takes it from the volume's  *)
(* identifier, and is modelled by DeleteVolume.                            *)
(***************************************************************************)
EXTENDS ArrayService, Sequences

CONSTANTS
  Storage,      \* arrays
  AddressesOf,  \* the management addresses of each
  TypesAt,      \* the array types whose port an address answers
  SystemOrder,  \* the systems of a config, in the order of the secret
  StorageOf,    \* the array each of them is
  Zones, Passwords,
  RoutedNames,  \* names of volumes
  PoolSystems,  \* the systems for which the class of each volume has a pool
  MaxChanges    \* a bound on what the user changes

(* array_type_to_port: the order in which detect_array_type tries them.    *)
TypeOrder == <<"santricity", "xiv", "ds8k", "solidfire", "svc">>
ArrayTypes == Range(TypeOrder)
Systems == Range(SystemOrder)

Before(seq, x, y) ==
  \E i, j \in DOMAIN seq : i < j /\ seq[i] = x /\ seq[j] = y
EarliestIn(seq, S) == CHOOSE x \in S : \A y \in S \ {x} : Before(seq, x, y)

Offered(s) == UNION {TypesAt[e] : e \in AddressesOf[s]}

(* What detect_array_type finds when no connection fails.                  *)
TypeOfStorage(s) == EarliestIn(TypeOrder, Offered(s))

(* incomplete: the user name, the password or the address is missing.      *)
Entry == [storage : Storage, password : Passwords, zones : SUBSET Zones, complete : BOOLEAN]
Secret == [{None} -> Entry] \union [Systems -> Entry]

RoutedVolume == [name : RoutedNames, storage : Storage]

(* get_volume_id: the array type, the system and the array's identifiers.  *)
RoutedId == [type : ArrayTypes, system : Systems \union {None}, volume : RoutedVolume]

RoutedRequest ==
  [op : {"createVolume", "deleteVolume"}, name : RoutedNames, uid : RoutedId \union {None},
   zone : Zones \union {None}, secret : Secret]

ASSUME RoutingAssumption ==
  /\ \A s \in Storage : AddressesOf[s] # {} /\ \E e \in AddressesOf[s] : TypesAt[e] # {}
  /\ \A s \in Storage : \A e \in AddressesOf[s] : TypesAt[e] \subseteq ArrayTypes
  /\ \A s, w \in Storage : AddressesOf[s] \intersect AddressesOf[w] # {} => s = w
  /\ SystemOrder \in Seq(Systems) /\ Passwords # {}
  /\ StorageOf \in [Systems -> Storage] /\ None \notin Systems
  /\ None \notin RoutedId \union RoutedRequest
  /\ MaxChanges \in Nat

(* system and storage are the request's, type is the type its agent is     *)
(* asked for with, agent the one it got.                                   *)
Agent == [type : ArrayTypes, password : Passwords]
RoutedMemo ==
  [system : Systems \union {None}, storage : Storage \union {None},
   type : ArrayTypes \union {None}, agent : Agent \union {None}]
NoRoute == [system |-> None, storage |-> None, type |-> None, agent |-> None]
RoutingPlace == {"idle", "choose", "getAgent", "serve", "answer"}

TypeKey(e) == <<"type", e>>                  \* array_type_cache
AgentKey(s, system) == <<"agent", s, system>>  \* _array_agents
Kept(key, value) == [k \in DOMAIN memory \union {key} |-> IF k = key THEN value ELSE memory[k]]

(* All passwords are the same at first; which one does not matter, nor     *)
(* which zone is one of the first system.                                  *)
InitRouting ==
  /\ InitService("routing")
  /\ LET p == CHOOSE p \in Passwords : TRUE
         z == CHOOSE z \in Zones : TRUE
     IN  \E secret \in Secret :
       /\ \A k \in DOMAIN secret :
            /\ secret[k].password = p /\ secret[k].complete
            /\ k \in Systems => secret[k].storage = StorageOf[k] /\ secret[k].zones # {}
            /\ k = Head(SystemOrder) => z \in secret[k].zones
            /\ k = None => secret[k].zones = {}
       /\ array = [secret |-> secret, volumes |-> {}, password |-> [s \in Storage |-> p]]
  /\ memory = <<>>
  /\ known = [zone |-> [n \in RoutedNames |-> None], told |-> {}, deleting |-> {}, gone |-> {},
              changes |-> 0, moved |-> FALSE]

-----------------------------------------------------------------------------
(* The user changes a password, of an array or in the secret, the          *)
(* topologies of a system, or leaves an entry of the secret incomplete.    *)
ChangeRouting ==
  /\ service = "routing" /\ known.changes < MaxChanges
  /\ \E k \in DOMAIN array.secret :
       LET e == array.secret[k]
           become(f) == array' = [array EXCEPT !.secret[k] = f]
       IN  /\ \/ \E p \in Passwords \ {e.password} :
                   \/ become([e EXCEPT !.password = p])
                   \/ array' = [array EXCEPT !.password[e.storage] = p]
              \/ k # None /\ \E z \in (SUBSET Zones) \ {{}, e.zones} : become([e EXCEPT !.zones = z])
              \/ become([e EXCEPT !.complete = ~ @])
           /\ known' = [known EXCEPT !.changes = @ + 1,
                !.moved = @ \/ (array'.secret[k].zones # e.zones)]
  /\ UNCHANGED <<service, ids_in_use, pc, req, local, memory, failures, crashes, calls>>

(* A retried creation has the same topology; a deletion is only asked for  *)
(* with an identifier that was answered, and no creation during or after   *)
(* it (the sidecars wait for one to be answered before the other).         *)
CallRouting(t) ==
  /\ service = "routing"
  /\ \/ \E n \in RoutedNames, z \in Zones \union {None} :
          /\ z = None <=> None \in DOMAIN array.secret
          /\ known.zone[n] \in {None, z}
          /\ \A id \in known.deleting : id.volume.name # n
          /\ Enter(t, [op |-> "createVolume", name |-> n, uid |-> None, zone |-> z,
                       secret |-> array.secret], "choose", NoRoute)
          /\ known' = [known EXCEPT !.zone[n] = z]
     \/ \E id \in known.told \ known.gone :
          /\ \A o \in Threads : req[o] # None => req[o].op = "deleteVolume" \/ req[o].name # id.volume.name
          /\ Enter(t, [op |-> "deleteVolume", name |-> id.volume.name, uid |-> id, zone |-> None,
                       secret |-> array.secret], "choose", NoRoute)
          /\ known' = [known EXCEPT !.deleting = @ \union {id}]

RoutingStep(t, to, memo) ==
  Proceed(t, to, memo) /\ UNCHANGED <<array, known>>

-----------------------------------------------------------------------------
(* validate_secrets: every entry counts, whichever is asked for.           *)
IsValid(secret) == \A k \in DOMAIN secret : secret[k].complete

(* get_system_info_for_topologies takes the first system that matches.     *)
Matching(r) == {k \in Systems : k \in DOMAIN r.secret /\ r.zone \in r.secret[k].zones}

(* _get_system_info_from_secrets: the system a request is for.             *)
Choices(r) ==
  IF None \in DOMAIN r.secret THEN {IF r.uid = None THEN None ELSE r.uid.system}
    ELSE IF r.uid # None THEN {r.uid.system} \ {None}
    ELSE IF Matching(r) = {} THEN {} ELSE {EarliestIn(SystemOrder, Matching(r))}

EntryOf(r, system) == r.secret[IF None \in DOMAIN r.secret THEN None ELSE system]

(* detect_array_type: the type kept for one of the addresses, or the first *)
(* whose port is answered.  Connections may fail that would succeed a      *)
(* moment later, and what is found then is kept as well.                   *)
DetectArrayType(t, route) ==
  LET mine == AddressesOf[route.storage]
      cached == {e \in mine : TypeKey(e) \in DOMAIN memory}
      go(type) == RoutingStep(t, "getAgent", [route EXCEPT !.type = type])
  IN  \/ \E e \in cached : go(memory[TypeKey(e)]) /\ NoFault /\ UNCHANGED memory
      \/ /\ cached = {}
         /\ \E missed \in SUBSET {c \in mine \X ArrayTypes : c[2] \in TypesAt[c[1]]} :
              LET seen(e) == {y \in TypesAt[e] : <<e, y>> \notin missed}
                  all == UNION {seen(e) : e \in mine}
              IN  /\ IF missed = {} THEN NoFault ELSE Fault
                  /\ IF all = {} THEN Return(t) /\ UNCHANGED <<array, memory, known>>
                       ELSE \E e \in mine :
                              /\ EarliestIn(TypeOrder, all) \in seen(e)
                              /\ memory' = Kept(TypeKey(e), EarliestIn(TypeOrder, all))
                              /\ go(EarliestIn(TypeOrder, all))

(* A creation also needs a pool for its system (get_volume_parameters),    *)
(* and detects the type of its array, which other requests know.           *)
Choose(t) ==
  /\ At(t, "routing", "choose")
  /\ LET r == req[t]
         suits(k) == r.op = "createVolume" => k \in PoolSystems[r.name]
         good == {k \in Choices(r) : suits(k)}
         route(k) == [NoRoute EXCEPT !.system = k, !.storage = EntryOf(r, k).storage]
     IN  \/ ~ (IsValid(r.secret) /\ good # {}) /\ Reject(t)
         \/ /\ IsValid(r.secret)
            /\ \E k \in good :
                 IF r.op = "createVolume" THEN DetectArrayType(t, route(k))
                   ELSE /\ RoutingStep(t, "getAgent", [route(k) EXCEPT !.type = r.uid.type])
                        /\ NoFault /\ UNCHANGED memory

(* The agent would be taken whatever the password.                         *)
IsCurrentForAnyone(t) ==
  AgentKey(local[t].storage, local[t].system) \in DOMAIN memory

(* The agent in the table has the request's password.                      *)
IsCurrent(t) ==
  LET key == AgentKey(local[t].storage, local[t].system) IN
  /\ key \in DOMAIN memory
  /\ memory[key].password = EntryOf(req[t], local[t].system).password

(* get_agent, under its lock: an agent with another password is dropped,   *)
(* and a new one logs in.  The type is not looked at, and no part of the   *)
(* key: the agent may be one of another type.                              *)
GetAgent(t) ==
  /\ At(t, "routing", "getAgent")
  /\ LET s == local[t].storage
         key == AgentKey(s, local[t].system)
         new == [type |-> local[t].type, password |-> EntryOf(req[t], local[t].system).password]
         mayLogin == new.password = array.password[s] /\ new.type \in Offered(s)
         go(agent) == RoutingStep(t, "serve", [local[t] EXCEPT !.agent = agent])
     IN  IF IsCurrent(t) THEN go(memory[key]) /\ NoFault /\ UNCHANGED memory
         ELSE \/ mayLogin /\ go(new) /\ memory' = Kept(key, new) /\ NoFault
              \/ /\ Return(t) /\ UNCHANGED <<array, known>>
                 /\ memory' = [k \in DOMAIN memory \ {key} |-> memory[k]]
                 /\ IF mayLogin /\ new.type = TypeOfStorage(s) THEN Fault ELSE NoFault

(* The mediator of another type fails in its first command.  DeleteVolume  *)
(* answers OK when the array does not have the volume.                     *)
ServeRequest(t) ==
  /\ At(t, "routing", "serve")
  /\ LET s == local[t].storage
         volume == IF req[t].uid = None THEN [name |-> req[t].name, storage |-> s]
                     ELSE req[t].uid.volume
     IN  \/ local[t].agent.type # TypeOfStorage(s) /\ Reject(t)
         \/ Fault /\ Return(t) /\ UNCHANGED <<array, memory, known>>
         \/ /\ local[t].agent.type = TypeOfStorage(s)
            /\ array' = [array EXCEPT !.volumes =
                 IF req[t].op = "createVolume" THEN @ \union {volume}
                   ELSE IF volume.storage = s THEN @ \ {volume} ELSE @]
            /\ Continue(t, "answer") /\ NoFault /\ UNCHANGED <<memory, known>>

(* generate_csi_create_volume_response                                     *)
AnswerRouted(t) ==
  /\ At(t, "routing", "answer")
  /\ known' = IF req[t].op = "deleteVolume" THEN [known EXCEPT !.gone = @ \union {req[t].uid}]
       ELSE [known EXCEPT !.told = @ \union
              {[type |-> local[t].agent.type, system |-> local[t].system,
                volume |-> [name |-> req[t].name, storage |-> local[t].storage]]}]
  /\ Return(t) /\ NoFault /\ UNCHANGED <<array, memory>>

RoutingNext ==
  \/ ChangeRouting
  \/ \E t \in Threads :
       \/ CallRouting(t) \/ Choose(t) \/ GetAgent(t) \/ ServeRequest(t) \/ AnswerRouted(t)
-----------------------------------------------------------------------------
RoutingTypeOK ==
  /\ array.secret \in Secret /\ array.volumes \subseteq RoutedVolume
  /\ array.password \in [Storage -> Passwords]
  /\ \A k \in DOMAIN memory :
       \/ \E s \in Storage : \E e \in AddressesOf[s] : k = TypeKey(e) /\ memory[k] \in TypesAt[e]
       \/ \E s \in Storage, y \in Systems \union {None} : k = AgentKey(s, y) /\ memory[k] \in Agent
  /\ known.told \subseteq RoutedId /\ known.deleting \subseteq known.told
  /\ known.gone \subseteq known.deleting /\ known.changes \in 0..MaxChanges
  /\ \A t \in Threads :
       /\ pc[t] \in RoutingPlace
       /\ req[t] \in RoutedRequest \union {None} /\ local[t] \in RoutedMemo \union {None}
=============================================================================
