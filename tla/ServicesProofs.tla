--------------------------- MODULE ServicesProofs ---------------------------
(***************************************************************************)
(* Theorems about the services of Arrays that do not make objects:         *)
(* publishing, volume groups, replication, hosts, and the routing of       *)
(* requests, for every number of threads, volumes, hosts and groups, and   *)
(* any number of requests, failures and restarts.                          *)
(***************************************************************************)
EXTENDS ArraysProofs

-----------------------------------------------------------------------------
(* Publishing on the arrays other than Spectrum Virtualize.                *)

MappingMemo ==
  [lun : Luns \union {None}, tries : Nat, mapping : Mapping \union {None}]

(* Every mapping is for a host, or for the cluster it is in, and a host    *)
(* has one mapping for each volume, and for each LUN.                      *)
MappingsAreDistinct ==
  /\ array \in [type : {"ds8k", "xiv", "santricity", "solidfire"}, mappings : SUBSET Mapping]
  /\ \A m \in array.mappings : m.hosts # {} /\ \A h \in m.hosts : m.hosts = Target(h)
  /\ \A m, n \in array.mappings :
       m.hosts \intersect n.hosts # {} /\ (m.lun = n.lun \/ m.volume = n.volume) => m = n

(* What a request has seen of its volume's mappings still holds when it    *)
(* acts, for no other request is at work on its volume.                    *)
MappingSeen(t) ==
  /\ pc[t] \in MappingPlace
  /\ pc[t] # "idle" =>
       /\ req[t] \in MappingRequest /\ local[t] \in MappingMemo
       /\ IF pc[t] \in {"findMapping", "unmap"}
            THEN req[t].op = "unpublish"
            ELSE req[t].op = "publish" /\ <<req[t].uid, req[t].host>> \notin known.released
  /\ pc[t] = "choose" => array.type = "xiv"
  /\ pc[t] = "readLun" => array.type = "solidfire"
  /\ pc[t] \in {"choose", "map"} /\ array.type # "solidfire" =>
       /\ MappingsOf(req[t].uid, req[t].host) = {}
       /\ req[t].uid \in Exclusive => \A m \in array.mappings : m.volume # req[t].uid
  /\ pc[t] = "map" /\ array.type = "xiv" => local[t].lun \in Luns
  /\ pc[t] = "findMapping" => array.type \in {"ds8k", "santricity"}
  /\ pc[t] = "unmap" /\ array.type \in {"ds8k", "santricity"} =>
       local[t].mapping \in MappingsOf(req[t].uid, req[t].host)

MappingsInv ==
  /\ Locked
  /\ MappingsAreDistinct
  /\ known \in [reported : SUBSET (MapVolumes \X Hosts \X Luns),
                released : SUBSET (MapVolumes \X Hosts)]
  /\ failures \in Nat
  /\ \A t \in Threads : MappingSeen(t)
  /\ ExclusiveIsMappedOnce
  /\ AccessAsAnswered

LEMMA MappingLock ==
  ASSUME NEW r \in MappingRequest
  PROVE  LockOf(r) = <<"volume_id", r.uid>> /\ r # None
  BY ArrayMappingsAssumption DEF MappingRequest, LockOf

(* Two requests at work are for different volumes.                         *)
LEMMA VolumesApart ==
  ASSUME MappingsInv, NEW t \in Threads, NEW u \in Threads, t # u,
         pc[t] # "idle", pc[u] # "idle"
  PROVE  req[t].uid # req[u].uid
<1>1. /\ req[t] \in MappingRequest /\ req[u] \in MappingRequest
      /\ req[t] # None /\ req[u] # None /\ LockOf(req[t]) # LockOf(req[u])
  BY DEF MappingsInv, MappingSeen, Locked
<1> QED
  BY <1>1, MappingLock

(* A step that concerns volume v only leaves what requests for others have *)
(* seen.                                                                   *)
LEMMA OthersSee ==
  ASSUME MappingsInv, NEW t \in Threads, Alone(t), NEW v,
         \A u \in Threads \ {t} : pc[u] # "idle" => req[u].uid # v,
         array'.type = array.type,
         \A m : m.volume # v => (m \in array'.mappings <=> m \in array.mappings),
         \A p : p \in known'.released /\ p[1] # v => p \in known.released,
         NEW u \in Threads, u # t
  PROVE  MappingSeen(u)'
<1>1. /\ pc'[u] = pc[u] /\ req'[u] = req[u] /\ local'[u] = local[u]
      /\ MappingSeen(u) /\ (pc[u] # "idle" => req[u].uid # v)
  BY DEF Alone, MappingsInv
<1>2. pc[u] # "idle" => MappingsOf(req[u].uid, req[u].host)' = MappingsOf(req[u].uid, req[u].host)
  BY <1>1 DEF MappingsOf
<1>3. <<req[u].uid, req[u].host>>[1] = req[u].uid
  OBVIOUS
<1> QED
  BY <1>1, <1>2, <1>3 DEF MappingSeen, MappingRequest

LEMMA InitMappingsInv ==
  ASSUME InitMappings
  PROVE  MappingsInv
<1>1. Locked
  BY InitLocked DEF InitMappings
<1>2. /\ \A t \in Threads : pc[t] = "idle"
      /\ failures = 0 /\ known = [reported |-> {}, released |-> {}] /\ array.mappings = {}
      /\ array \in [type : {"ds8k", "xiv", "santricity", "solidfire"}, mappings : SUBSET Mapping]
  BY DEF InitMappings, InitService
<1> QED
  BY <1>1, <1>2 DEF MappingsInv, MappingsAreDistinct, MappingSeen, MappingPlace,
     ExclusiveIsMappedOnce, AccessAsAnswered, MappingsOf

(* A step that changes neither the mappings nor what was answered.         *)
LEMMA QuietStep ==
  ASSUME MappingsInv, NEW t \in Threads, Moves(t), Alone(t), UNCHANGED <<array, known>>,
         failures' \in {failures, failures + 1}, MappingSeen(t)'
  PROVE  MappingsInv'
<1>1. Locked'
  BY MovesKeepLocked DEF MappingsInv
<1>2. MappingsAreDistinct'
  BY DEF MappingsInv, MappingsAreDistinct, Target
<1>3. ASSUME NEW u \in Threads
      PROVE  MappingSeen(u)'
  <2>1. CASE u = t
    BY <2>1
  <2>2. CASE u # t
    <3>1. pc'[u] = pc[u] /\ req'[u] = req[u] /\ local'[u] = local[u] /\ MappingSeen(u)
      BY <2>2 DEF Alone, MappingsInv
    <3> QED
      BY <3>1 DEF MappingSeen, MappingsOf
  <2> QED
    BY <2>1, <2>2
<1>4. ExclusiveIsMappedOnce' /\ AccessAsAnswered'
  BY DEF MappingsInv, ExclusiveIsMappedOnce, AccessAsAnswered, MappingsOf, Moves
<1> QED
  BY <1>1, <1>2, <1>3, <1>4 DEF MappingsInv

(* The volume's mappings to the host in a state a of the array.            *)
MappingsIn(a, v, h) == {m \in a.mappings : m.volume = v /\ h \in m.hosts}

LEMMA TargetIsOne ==
  ASSUME NEW h \in Hosts
  PROVE  /\ h \in Target(h) /\ Target(h) \subseteq Hosts
         /\ \A g \in Target(h) : Target(g) = Target(h)
  BY ArrayMappingsAssumption DEF Target

(* What a new mapping leaves: the mappings there were, and one for the     *)
(* volume and the host or cluster of the request.                          *)
LEMMA MadeMapping ==
  ASSUME MappingsInv, NEW t \in Threads, req[t] \in MappingRequest,
         NEW lun \in FreeLuns(Target(req[t].host)),
         MappingsOf(req[t].uid, req[t].host) = {},
         array.type # "solidfire" /\ req[t].uid \in Exclusive =>
           \A m \in array.mappings : m.volume # req[t].uid,
         UNCHANGED service, MakeMapping(t, lun)
  PROVE  /\ MappingsAreDistinct' /\ ExclusiveIsMappedOnce' /\ array'.type = array.type
         /\ lun \in Luns
         /\ array.mappings \subseteq array'.mappings
         /\ \A m : m \in array'.mappings /\ m \notin array.mappings =>
                     m.volume = req[t].uid /\ m.hosts = Target(req[t].host)
         /\ \E m \in MappingsIn(array', req[t].uid, req[t].host) : m.lun = lun
<1> DEFINE v == req[t].uid
           h == req[t].host
           new == [volume |-> v, hosts |-> Target(h), lun |-> lun]
<1>1. v \in MapVolumes /\ h \in Hosts /\ lun \in Luns
  BY DEF MappingRequest, FreeLuns
<1>2. new \in Mapping
  BY <1>1, TargetIsOne DEF Mapping
<1>3. array' = [array EXCEPT !.mappings = @ \union {new}]
  BY DEF MakeMapping
<1>4. /\ array' \in [type : {"ds8k", "xiv", "santricity", "solidfire"}, mappings : SUBSET Mapping]
      /\ array'.type = array.type /\ array'.mappings = array.mappings \union {new}
  BY <1>2, <1>3 DEF MappingsInv, MappingsAreDistinct
<1>5. \A m \in array.mappings : m.hosts # {} /\ \A g \in m.hosts : m.hosts = Target(g)
  BY DEF MappingsInv, MappingsAreDistinct
<1>6. \A g : Target(g)' = Target(g)
  BY <1>4 DEF Target
<1>7. new.hosts # {} /\ \A g \in new.hosts : new.hosts = Target(g)
  BY <1>1, TargetIsOne
<1>8. ASSUME NEW m \in array.mappings, m.hosts \intersect new.hosts # {}
      PROVE  m.lun # lun /\ m.volume # v
  <2>1. PICK g \in m.hosts : g \in Target(h)
    BY <1>8
  <2>2. m.hosts = Target(h)
    BY <2>1, <1>1, <1>5, TargetIsOne
  <2>3. h \in m.hosts
    BY <2>2, <1>1, TargetIsOne
  <2> QED
    BY <2>1, <2>3, <1>8 DEF FreeLuns, MappingsOf
<1>9. MappingsAreDistinct'
  <2>1. \A m \in array'.mappings : m.hosts # {} /\ \A g \in m.hosts : m.hosts = Target(g)'
    BY <1>4, <1>5, <1>6, <1>7
  <2>2. ASSUME NEW m \in array'.mappings, NEW n \in array'.mappings,
               m.hosts \intersect n.hosts # {}, m.lun = n.lun \/ m.volume = n.volume
        PROVE  m = n
    BY <2>2, <1>4, <1>8 DEF MappingsInv, MappingsAreDistinct
  <2> QED
    BY <1>4, <2>1, <2>2 DEF MappingsAreDistinct
<1>10. ExclusiveIsMappedOnce'
  BY <1>4 DEF MappingsInv, ExclusiveIsMappedOnce
<1>11. new \in MappingsIn(array', v, h)
  BY <1>1, <1>4, TargetIsOne DEF MappingsIn
<1> QED
  BY <1>1, <1>4, <1>9, <1>10, <1>11

LEMMA KnownOfMappings ==
  ASSUME MappingsInv, NEW reported, NEW released,
         known' = [known EXCEPT !.reported = reported, !.released = released]
  PROVE  known' = [reported |-> reported, released |-> released]
  BY DEF MappingsInv

LEMMA PublishedKeeps ==
  ASSUME MappingsInv, service = "mappings", NEW t \in Threads, pc[t] # "idle",
         pc[t] \notin {"findMapping", "unmap"},
         NEW lun \in Luns, Published(t, lun), failures' \in {failures, failures + 1},
         MappingsAreDistinct', ExclusiveIsMappedOnce', array'.type = array.type,
         array.mappings \subseteq array'.mappings,
         \A m : m \in array'.mappings /\ m \notin array.mappings =>
                  m.volume = req[t].uid /\ m.hosts = Target(req[t].host),
         \/ array.type = "solidfire" /\ failures' > 0
         \/ \E m \in MappingsIn(array', req[t].uid, req[t].host) : m.lun = lun
  PROVE  MappingsInv'
<1> DEFINE v == req[t].uid
           h == req[t].host
<1>1. Locked' /\ Alone(t) /\ service' = "mappings" /\ pc'[t] = "idle"
  BY ReturnMoves, MovesKeepLocked DEF MappingsInv, Published, Moves
<1>2. v \in MapVolumes /\ h \in Hosts
  BY DEF MappingsInv, MappingSeen, MappingRequest
<1>3. known' = [reported |-> known.reported \union {<<v, h, lun>>},
                released |-> known.released \ ({v} \X Target(h))]
  BY KnownOfMappings DEF Published
<1>4. /\ known' \in [reported : SUBSET (MapVolumes \X Hosts \X Luns),
                     released : SUBSET (MapVolumes \X Hosts)]
      /\ known'.reported = known.reported \union {<<v, h, lun>>}
      /\ known'.released = known.released \ ({v} \X Target(h))
  BY <1>2, <1>3 DEF MappingsInv
<1>5. ASSUME NEW u \in Threads
      PROVE  MappingSeen(u)'
  <2>1. CASE u = t
    BY <1>1, <2>1 DEF MappingSeen, MappingPlace
  <2>2. CASE u # t
    <3>1. \A x \in Threads \ {t} : pc[x] # "idle" => req[x].uid # v
      BY VolumesApart
    <3>2. \A m : m.volume # v => (m \in array'.mappings <=> m \in array.mappings)
      OBVIOUS
    <3>3. \A p : p \in known'.released /\ p[1] # v => p \in known.released
      BY <1>4
    <3> HIDE DEF v, h
    <3> QED
      BY <1>1, <2>2, <3>1, <3>2, <3>3, OthersSee
  <2> QED
    BY <2>1, <2>2
<1>6. ASSUME ~ (array'.type = "solidfire" /\ failures' > 0), NEW p \in known'.reported
      PROVE  \E m \in MappingsOf(p[1], p[2])' : m.lun = p[3]
  <2>1. CASE p \in known.reported
    BY <1>6, <2>1 DEF MappingsInv, AccessAsAnswered, MappingsOf
  <2>2. CASE p = <<v, h, lun>>
    BY <1>6, <2>2 DEF MappingsIn, MappingsOf
  <2> QED
    BY <1>4, <2>1, <2>2
<1>7. ASSUME ~ (array'.type = "solidfire" /\ failures' > 0), NEW p \in known'.released
      PROVE  MappingsOf(p[1], p[2])' = {}
  <2>1. p \in known.released /\ ~ (p[1] = v /\ p[2] \in Target(h))
    BY <1>4 DEF MappingsInv
  <2>2. MappingsOf(p[1], p[2]) = {}
    BY <1>6, <2>1, <1>7 DEF MappingsInv, AccessAsAnswered
  <2> QED
    BY <2>1, <2>2 DEF MappingsOf
<1>8. AccessAsAnswered'
  BY <1>6, <1>7 DEF AccessAsAnswered
<1>9. failures' \in Nat
  BY DEF MappingsInv
<1> QED
  BY <1>1, <1>4, <1>5, <1>8, <1>9 DEF MappingsInv

LEMMA UnpublishedKeeps ==
  ASSUME MappingsInv, service = "mappings", NEW t \in Threads,
         pc[t] \in {"findMapping", "unmap"}, Unpublished(t),
         failures' \in {failures, failures + 1},
         array' \in [type : {array.type}, mappings : SUBSET array.mappings],
         \A m \in array.mappings : m \notin array'.mappings =>
           m.volume = req[t].uid /\ req[t].host \in m.hosts,
         (array.type = "solidfire" /\ failures' > 0) \/ MappingsIn(array', req[t].uid, req[t].host) = {}
  PROVE  MappingsInv'
<1> DEFINE v == req[t].uid
           h == req[t].host
<1>1. Locked' /\ Alone(t) /\ service' = "mappings" /\ pc'[t] = "idle"
  BY ReturnMoves, MovesKeepLocked DEF MappingsInv, Unpublished, Moves
<1>2. v \in MapVolumes /\ h \in Hosts /\ Target(h) \subseteq Hosts
  BY TargetIsOne DEF MappingsInv, MappingSeen, MappingRequest
<1>3. /\ known' \in [reported : SUBSET (MapVolumes \X Hosts \X Luns),
                     released : SUBSET (MapVolumes \X Hosts)]
      /\ known'.reported = known.reported \ ({v} \X Target(h) \X Luns)
      /\ known'.released = known.released \union {<<v, h>>}
  <2>1. known' = [reported |-> known.reported \ ({v} \X Target(h) \X Luns),
                  released |-> known.released \union {<<v, h>>}]
    BY KnownOfMappings DEF Unpublished
  <2> QED
    BY <1>2, <2>1 DEF MappingsInv
<1>4. \A g : Target(g)' = Target(g)
  BY DEF Target
<1>5. MappingsAreDistinct'
  BY <1>4 DEF MappingsInv, MappingsAreDistinct
<1>6. ASSUME NEW u \in Threads
      PROVE  MappingSeen(u)'
  <2>1. CASE u = t
    BY <1>1, <2>1 DEF MappingSeen, MappingPlace
  <2>2. CASE u # t
    <3>1. \A m : m.volume # v => (m \in array'.mappings <=> m \in array.mappings)
      OBVIOUS
    <3>2. \A p : p \in known'.released /\ p[1] # v => p \in known.released
      BY <1>3
    <3> QED
      BY <1>1, <2>2, <3>1, <3>2, OthersSee, VolumesApart
  <2> QED
    BY <2>1, <2>2
<1>7. ASSUME ~ (array'.type = "solidfire" /\ failures' > 0), NEW p \in known'.reported
      PROVE  \E m \in MappingsOf(p[1], p[2])' : m.lun = p[3]
  <2>1. p \in MapVolumes \X Hosts \X Luns /\ p \in known.reported /\ p \notin {v} \X Target(h) \X Luns
    BY <1>3
  <2>2. ~ (p[1] = v /\ p[2] \in Target(h))
    BY <2>1
  <2>3. PICK m \in MappingsOf(p[1], p[2]) : m.lun = p[3]
    BY <1>7, <2>1 DEF MappingsInv, AccessAsAnswered
  <2>4. m \in array.mappings /\ m.volume = p[1] /\ p[2] \in m.hosts
    BY <2>3 DEF MappingsOf
  <2>5. h \in m.hosts => m.hosts = Target(h)
    BY <2>4 DEF MappingsInv, MappingsAreDistinct
  <2>6. m \in array'.mappings
    BY <2>2, <2>4, <2>5
  <2> QED
    BY <2>3, <2>4, <2>6 DEF MappingsOf
<1>8. ASSUME ~ (array'.type = "solidfire" /\ failures' > 0), NEW p \in known'.released
      PROVE  MappingsOf(p[1], p[2])' = {}
  <2>1. CASE p \in known.released
    <3>1. MappingsOf(p[1], p[2]) = {}
      BY <1>8, <2>1 DEF MappingsInv, AccessAsAnswered
    <3> QED
      BY <3>1 DEF MappingsOf
  <2>2. CASE p = <<v, h>>
    BY <1>8, <2>2 DEF MappingsIn, MappingsOf
  <2> QED
    BY <1>3, <2>1, <2>2
<1>9. ExclusiveIsMappedOnce' /\ AccessAsAnswered' /\ failures' \in Nat
  BY <1>7, <1>8 DEF AccessAsAnswered, ExclusiveIsMappedOnce, MappingsInv
<1> QED
  BY <1>1, <1>3, <1>5, <1>6, <1>9 DEF MappingsInv

LEMMA FreedKeeps ==
  ASSUME MappingsInv, NEW t \in Threads, pc[t] # "idle", Return(t), UNCHANGED <<array, known>>,
         failures' \in {failures, failures + 1}
  PROVE  MappingsInv'
<1>1. MappingSeen(t)'
  BY ReturnMoves DEF MappingsInv, MappingSeen, MappingPlace
<1> QED
  BY <1>1, ReturnMoves, QuietStep DEF MappingsInv

LEMMA RejectKeeps ==
  ASSUME MappingsInv, NEW t \in Threads, pc[t] # "idle", Reject(t)
  PROVE  MappingsInv'
  BY FreedKeeps DEF Reject, NoFault

LEMMA CallMappingsKeeps ==
  ASSUME MappingsInv, service = "mappings", NEW t \in Threads, CallMappings(t)
  PROVE  MappingsInv'
<1>1. PICK r \in MappingRequest :
        /\ Enter(t, r, IF r.op = "publish" THEN "mappings"
                         ELSE IF array.type \in {"ds8k", "santricity"} THEN "findMapping"
                         ELSE "unmap",
                 NoMapping)
        /\ known' = IF r.op = "publish" THEN [known EXCEPT !.released = @ \ {<<r.uid, r.host>>}]
                      ELSE [known EXCEPT !.reported = {p \in @ : p[1] # r.uid \/ p[2] # r.host}]
  BY DEF CallMappings
<1> DEFINE place == IF r.op = "publish" THEN "mappings"
                      ELSE IF array.type \in {"ds8k", "santricity"} THEN "findMapping"
                      ELSE "unmap"
<1>2. place \in MappingPlace \ {"idle"}
  BY DEF MappingPlace
<1>3. /\ Moves(t) /\ Alone(t) /\ pc[t] = "idle"
      /\ pc'[t] = place /\ req'[t] = r /\ local'[t] = NoMapping
      /\ \A u \in Threads : req[u] # None => LockOf(req[u]) # LockOf(r)
      /\ UNCHANGED <<service, array, memory, failures, crashes>>
  <2> HIDE DEF place
  <2> QED
    BY <1>1, <1>2, MappingLock, EnterMoves DEF MappingsInv, place
<1>4. /\ known' \in [reported : SUBSET (MapVolumes \X Hosts \X Luns),
                     released : SUBSET (MapVolumes \X Hosts)]
      /\ known'.reported \subseteq known.reported
      /\ known'.released \subseteq known.released
      /\ r.op = "publish" => <<r.uid, r.host>> \notin known'.released
  BY <1>1 DEF MappingsInv
<1>5. Locked'
  BY <1>3, MovesKeepLocked DEF MappingsInv
<1>6. \A u \in Threads \ {t} : pc[u] # "idle" => req[u].uid # r.uid
  <2> SUFFICES ASSUME NEW u \in Threads, pc[u] # "idle"
               PROVE  req[u].uid # r.uid
    OBVIOUS
  <2>1. req[u] \in MappingRequest /\ req[u] # None
    BY DEF MappingsInv, MappingSeen, Locked
  <2>2. LockOf(req[u]) # LockOf(r)
    BY <1>3, <2>1
  <2> QED
    BY <2>1, <2>2, MappingLock
<1>7. ASSUME NEW u \in Threads
      PROVE  MappingSeen(u)'
  <2>1. CASE u = t
    <3>1. NoMapping \in MappingMemo
      BY DEF NoMapping, MappingMemo
    <3>2. place = "findMapping" => array.type \in {"ds8k", "santricity"}
      OBVIOUS
    <3>3. place = "unmap" => array.type \notin {"ds8k", "santricity"}
      OBVIOUS
    <3>4. IF place \in {"findMapping", "unmap"} THEN r.op = "unpublish" ELSE r.op = "publish"
      <4>1. CASE r.op = "publish"
        BY <4>1
      <4>2. CASE r.op = "unpublish"
        BY <4>2
      <4> QED
        BY <4>1, <4>2 DEF MappingRequest
    <3>5. place \notin {"choose", "readLun", "map"}
      OBVIOUS
    <3> HIDE DEF place
    <3> QED
      BY <1>2, <1>3, <1>4, <2>1, <3>1, <3>2, <3>3, <3>4, <3>5 DEF MappingSeen
  <2>2. CASE u # t
    BY <1>3, <1>4, <1>6, <2>2, OthersSee
  <2> QED
    BY <2>1, <2>2
<1>8. MappingsAreDistinct'
  BY <1>3 DEF MappingsInv, MappingsAreDistinct, Target
<1>9. ExclusiveIsMappedOnce' /\ AccessAsAnswered'
  <2> HIDE DEF place
  <2> QED
    BY <1>3, <1>4 DEF MappingsInv, ExclusiveIsMappedOnce, AccessAsAnswered, MappingsOf
<1> QED
  BY <1>3, <1>4, <1>5, <1>7, <1>8, <1>9 DEF MappingsInv

(* A step that leaves the shared state alone takes its request to another  *)
(* place, from which it has seen what it has to.                           *)
LEMMA SeenInPlace ==
  ASSUME MappingsInv, NEW t \in Threads, pc[t] # "idle", UNCHANGED <<array, memory, known>>,
         failures' = failures, NEW to \in MappingPlace \ {"idle"}, NEW memo \in MappingMemo,
         Proceed(t, to, memo),
         to \in {"findMapping", "unmap"} <=> pc[t] \in {"findMapping", "unmap"},
         to = "choose" => array.type = "xiv", to = "readLun" => array.type = "solidfire",
         to \in {"choose", "map"} /\ array.type # "solidfire" =>
           /\ MappingsOf(req[t].uid, req[t].host) = {}
           /\ req[t].uid \in Exclusive => \A m \in array.mappings : m.volume # req[t].uid,
         to = "map" /\ array.type = "xiv" => memo.lun \in Luns,
         to = "findMapping" => array.type \in {"ds8k", "santricity"},
         to = "unmap" /\ array.type \in {"ds8k", "santricity"} =>
           memo.mapping \in MappingsOf(req[t].uid, req[t].host)
  PROVE  MappingsInv'
<1>1. /\ Moves(t) /\ Alone(t) /\ pc'[t] = to /\ req'[t] = req[t] /\ local'[t] = memo
  BY ProceedMoves DEF MappingsInv
<1>2. MappingSeen(t)
  BY DEF MappingsInv
<1>3. MappingsOf(req[t].uid, req[t].host)' = MappingsOf(req[t].uid, req[t].host)
  BY <1>1 DEF MappingsOf
<1>4. MappingSeen(t)'
  BY <1>1, <1>2, <1>3 DEF MappingSeen
<1> QED
  BY <1>1, <1>4, QuietStep

LEMMA ReadMappingsKeeps ==
  ASSUME MappingsInv, NEW t \in Threads, ReadMappings(t)
  PROVE  MappingsInv'
<1> DEFINE v == req[t].uid
           h == req[t].host
           shown == IF array.type = "solidfire" THEN {}
                      ELSE {g \in Hosts : MappingsOf(v, g) # {}}
           to == IF array.type = "xiv" THEN "choose" ELSE "map"
<1>1. /\ service = "mappings" /\ pc[t] = "mappings" /\ v \in MapVolumes /\ h \in Hosts
      /\ local[t] \in MappingMemo
  BY DEF ReadMappings, At, MappingsInv, MappingSeen, MappingRequest
<1>2. CASE Reject(t)
  BY <1>1, <1>2, RejectKeeps
<1>3. CASE /\ \E m \in MappingsOf(v, h) : Published(t, m.lun)
           /\ NoFault /\ UNCHANGED <<array, memory>>
  <2>1. PICK m \in MappingsOf(v, h) : Published(t, m.lun)
    BY <1>3
  <2>2. m \in MappingsIn(array', v, h) /\ m.lun \in Luns
    BY <1>3, <2>1 DEF MappingsOf, MappingsIn, MappingsInv, MappingsAreDistinct, Mapping
  <2>3. MappingsAreDistinct' /\ ExclusiveIsMappedOnce'
    BY <1>3, <2>1 DEF MappingsInv, MappingsAreDistinct, ExclusiveIsMappedOnce, Target,
       Published, Return
  <2> QED
    BY <1>1, <1>3, <2>1, <2>2, <2>3, PublishedKeeps DEF NoFault
<1>4. CASE /\ ~ IsTaken(req[t], shown) /\ h \notin shown
           /\ Continue(t, to) /\ NoFault /\ UNCHANGED <<array, memory, known>>
  <2>1. array.type # "solidfire" =>
          /\ MappingsOf(v, h) = {}
          /\ v \in Exclusive => \A m \in array.mappings : m.volume # v
    <3> SUFFICES ASSUME array.type # "solidfire"
                 PROVE  /\ MappingsOf(v, h) = {}
                        /\ v \in Exclusive => \A m \in array.mappings : m.volume # v
      OBVIOUS
    <3>1. MappingsOf(v, h) = {}
      BY <1>1, <1>4
    <3>2. ASSUME v \in Exclusive, NEW m \in array.mappings, m.volume = v
          PROVE  FALSE
      <4>1. shown = {}
        BY <1>4, <3>2 DEF IsTaken
      <4>2. PICK g \in m.hosts : g \in Hosts
        BY DEF MappingsInv, MappingsAreDistinct, Mapping
      <4> QED
        BY <3>2, <4>1, <4>2 DEF MappingsOf
    <3> QED
      BY <3>1, <3>2
  <2> QED
    BY <1>1, <1>4, <2>1, SeenInPlace DEF Continue, NoFault, MappingPlace
<1> QED
  BY <1>2, <1>3, <1>4 DEF ReadMappings

LEMMA MemoWithLun ==
  ASSUME NEW m \in MappingMemo, NEW l, NEW n
  PROVE  [m EXCEPT !.lun = l, !.tries = n] = [lun |-> l, tries |-> n, mapping |-> m.mapping]
<1> DEFINE memo == [m EXCEPT !.lun = l]
<1>1. memo = [lun |-> l, tries |-> m.tries, mapping |-> m.mapping]
  BY DEF MappingMemo
<1> HIDE DEF memo
<1>2. [memo EXCEPT !.tries = n] = [lun |-> l, tries |-> n, mapping |-> m.mapping]
  BY <1>1
<1> USE DEF memo
<1> QED
  BY Zenon, <1>2

LEMMA ChooseLunKeeps ==
  ASSUME MappingsInv, NEW t \in Threads, ChooseLun(t)
  PROVE  MappingsInv'
<1>1. pc[t] = "choose" /\ MappingSeen(t) /\ local[t] \in MappingMemo
  BY DEF ChooseLun, At, MappingsInv, MappingSeen
<1>2. CASE Reject(t)
  BY <1>1, <1>2, RejectKeeps
<1>3. CASE \E l \in FreeLuns({req[t].host}) :
             /\ Proceed(t, "map", [local[t] EXCEPT !.lun = l, !.tries = @ + 1])
             /\ NoFault /\ UNCHANGED <<array, memory, known>>
  <2>1. PICK l \in Luns :
             /\ Proceed(t, "map", [local[t] EXCEPT !.lun = l, !.tries = @ + 1])
             /\ NoFault /\ UNCHANGED <<array, memory, known>>
    BY <1>3 DEF FreeLuns
  <2> DEFINE memo == [local[t] EXCEPT !.lun = l, !.tries = @ + 1]
  <2>2. memo = [lun |-> l, tries |-> local[t].tries + 1, mapping |-> local[t].mapping]
    BY <1>1, MemoWithLun
  <2>5. memo \in MappingMemo /\ memo.lun = l
    BY <1>1, <2>2 DEF MappingMemo
  <2> HIDE DEF memo
  <2>3. /\ Proceed(t, "map", memo) /\ failures' = failures
        /\ UNCHANGED <<array, memory, known>>
    BY <2>1 DEF memo, NoFault
  <2>4. array.type = "xiv" /\ MappingsOf(req[t].uid, req[t].host) = {}
        /\ (req[t].uid \in Exclusive => \A m \in array.mappings : m.volume # req[t].uid)
    BY <1>1 DEF MappingSeen
  <2> QED
    BY <1>1, <2>3, <2>4, <2>5, SeenInPlace DEF MappingPlace
<1> QED
  BY <1>2, <1>3 DEF ChooseLun

LEMMA MapByLunKeeps ==
  ASSUME MappingsInv, NEW t \in Threads, MapByLun(t)
  PROVE  MappingsInv'
<1>1. /\ service = "mappings" /\ pc[t] = "map" /\ array.type = "xiv"
      /\ MappingSeen(t) /\ local[t] \in MappingMemo /\ req[t] \in MappingRequest
  BY DEF MapByLun, At, MappingsInv, MappingSeen
<1>2. /\ MappingsOf(req[t].uid, req[t].host) = {}
      /\ req[t].uid \in Exclusive => \A m \in array.mappings : m.volume # req[t].uid
      /\ local[t].lun \in Luns
  BY <1>1 DEF MappingSeen
<1>3. CASE Reject(t)
  BY <1>1, <1>3, RejectKeeps
<1>4. CASE Continue(t, "choose") /\ NoFault /\ UNCHANGED <<array, memory, known>>
  BY <1>1, <1>2, <1>4, SeenInPlace DEF MappingPlace, Continue, NoFault
<1>5. CASE /\ local[t].lun \in FreeLuns({req[t].host})
           /\ MakeMapping(t, local[t].lun) /\ Published(t, local[t].lun)
           /\ NoFault /\ UNCHANGED memory
  <2>1. FreeLuns({req[t].host}) = FreeLuns(Target(req[t].host))
    BY <1>1 DEF Target
  <2>2. service' = service
    BY <1>5 DEF Published, Return
  <2> QED
    BY <1>1, <1>2, <1>5, <2>1, <2>2, MadeMapping, PublishedKeeps DEF NoFault, MappingsIn, MappingsOf
<1> QED
  BY <1>3, <1>4, <1>5 DEF MapByLun

LEMMA MapByArrayKeeps ==
  ASSUME MappingsInv, NEW t \in Threads, MapByArray(t)
  PROVE  MappingsInv'
<1> DEFINE mine == MappingsOf(req[t].uid, req[t].host)
           free == FreeLuns(Target(req[t].host))
<1>1. /\ service = "mappings" /\ pc[t] = "map" /\ array.type # "xiv"
      /\ MappingSeen(t) /\ local[t] \in MappingMemo /\ req[t] \in MappingRequest
  BY DEF MapByArray, At, MappingsInv, MappingSeen
<1>2. CASE Reject(t)
  BY <1>1, <1>2, RejectKeeps
<1>3. CASE /\ array.type = "solidfire" /\ Continue(t, "readLun")
           /\ NoFault /\ UNCHANGED <<array, memory, known>>
  BY <1>1, <1>3, SeenInPlace DEF MappingPlace, Continue, NoFault
<1>4. ASSUME NEW l \in free, mine = {}, MakeMapping(t, l),
             IF array.type = "solidfire" THEN Continue(t, "readLun") /\ UNCHANGED known
                                         ELSE Published(t, l),
             NoFault, UNCHANGED memory
      PROVE  MappingsInv'
  <2>1. array.type # "solidfire" /\ req[t].uid \in Exclusive =>
          \A m \in array.mappings : m.volume # req[t].uid
    BY <1>1 DEF MappingSeen
  <2>2. service' = service
    BY <1>4 DEF Published, Return, Continue, Proceed
  <2>3. /\ MappingsAreDistinct' /\ ExclusiveIsMappedOnce' /\ array'.type = array.type
        /\ l \in Luns
        /\ array.mappings \subseteq array'.mappings
        /\ \A m : m \in array'.mappings /\ m \notin array.mappings =>
                    m.volume = req[t].uid /\ m.hosts = Target(req[t].host)
        /\ \E m \in MappingsIn(array', req[t].uid, req[t].host) : m.lun = l
    BY <1>1, <1>4, <2>1, <2>2, MadeMapping
  <2>4. CASE array.type # "solidfire"
    BY <1>1, <1>4, <2>3, <2>4, PublishedKeeps DEF NoFault
  <2>5. CASE array.type = "solidfire"
    <3>1. /\ Moves(t) /\ Alone(t) /\ pc'[t] = "readLun" /\ req'[t] = req[t] /\ local'[t] = local[t]
          /\ known' = known /\ failures' = failures
      BY <1>1, <1>4, <2>5, ContinueMoves DEF MappingsInv, NoFault
    <3>2. ASSUME NEW u \in Threads
          PROVE  MappingSeen(u)'
      <4>1. CASE u = t
        BY <1>1, <2>3, <2>5, <3>1, <4>1 DEF MappingSeen, MappingPlace
      <4>2. CASE u # t
        <5>1. \A w \in Threads \ {t} : pc[w] # "idle" => req[w].uid # req[t].uid
          BY <1>1, VolumesApart
        <5>2. \A m : m.volume # req[t].uid => (m \in array'.mappings <=> m \in array.mappings)
          BY <2>3
        <5> QED
          BY <2>3, <3>1, <4>2, <5>1, <5>2, OthersSee
      <4> QED
        BY <4>1, <4>2
    <3>3. ASSUME NEW p \in known.reported, \E m \in MappingsOf(p[1], p[2]) : m.lun = p[3]
          PROVE  \E m \in MappingsOf(p[1], p[2])' : m.lun = p[3]
      BY <2>3, <3>3 DEF MappingsOf
    <3>4. ASSUME NEW p \in known.released, MappingsOf(p[1], p[2]) = {}
          PROVE  MappingsOf(p[1], p[2])' = {}
      <4>1. <<req[t].uid, req[t].host>> \notin known.released /\ p \in MapVolumes \X Hosts
        BY <1>1 DEF MappingSeen, MappingsInv
      <4>2. Target(req[t].host) = {req[t].host}
        BY <2>5 DEF Target
      <4> QED
        BY <2>3, <3>4, <4>1, <4>2 DEF MappingsOf
    <3>5. AccessAsAnswered'
      BY <2>3, <3>1, <3>3, <3>4 DEF AccessAsAnswered, MappingsInv, Moves
    <3>6. Locked'
      BY <3>1, MovesKeepLocked DEF MappingsInv
    <3> QED
      BY <2>3, <3>1, <3>2, <3>5, <3>6 DEF MappingsInv
  <2> QED
    BY <2>4, <2>5
<1> QED
  BY <1>2, <1>3, <1>4 DEF MapByArray

LEMMA ReadLunKeeps ==
  ASSUME MappingsInv, NEW t \in Threads, ReadLun(t)
  PROVE  MappingsInv'
<1>1. service = "mappings" /\ pc[t] = "readLun"
  BY DEF ReadLun, At
<1>2. PICK m \in MappingsOf(req[t].uid, req[t].host) : Published(t, m.lun)
  BY DEF ReadLun
<1>3. m \in MappingsIn(array', req[t].uid, req[t].host) /\ m.lun \in Luns
  BY <1>2 DEF ReadLun, MappingsOf, MappingsIn, MappingsInv, MappingsAreDistinct, Mapping
<1>4. MappingsAreDistinct' /\ ExclusiveIsMappedOnce'
  BY <1>2 DEF ReadLun, MappingsInv, MappingsAreDistinct, ExclusiveIsMappedOnce, Target,
     Published, Return
<1> QED
  BY <1>1, <1>2, <1>3, <1>4, PublishedKeeps DEF ReadLun, NoFault

LEMMA FindMappingKeeps ==
  ASSUME MappingsInv, NEW t \in Threads, FindMapping(t)
  PROVE  MappingsInv'
<1> DEFINE mine == MappingsOf(req[t].uid, req[t].host)
<1>1. /\ service = "mappings" /\ pc[t] = "findMapping" /\ local[t] \in MappingMemo
      /\ array \in [type : {array.type}, mappings : SUBSET array.mappings]
  BY DEF FindMapping, At, MappingsInv, MappingSeen, MappingsAreDistinct
<1>2. CASE mine = {} /\ Unpublished(t) /\ NoFault /\ UNCHANGED <<array, memory>>
  BY <1>1, <1>2, UnpublishedKeeps DEF NoFault, MappingsIn, MappingsOf
<1>3. ASSUME NEW m \in mine, Proceed(t, "unmap", [local[t] EXCEPT !.mapping = m]),
             NoFault, UNCHANGED <<array, memory, known>>
      PROVE  MappingsInv'
  <2> DEFINE memo == [local[t] EXCEPT !.mapping = m]
  <2>1. m \in Mapping
    BY DEF MappingsOf, MappingsInv, MappingsAreDistinct
  <2>2. memo \in MappingMemo /\ memo.mapping = m
    BY <1>1, <2>1 DEF MappingMemo
  <2> HIDE DEF memo
  <2>3. Proceed(t, "unmap", memo)
    BY <1>3 DEF memo
  <2> QED
    BY <1>1, <1>3, <2>2, <2>3, SeenInPlace DEF MappingPlace, NoFault
<1> QED
  BY <1>2, <1>3 DEF FindMapping

LEMMA UnmapKeeps ==
  ASSUME MappingsInv, NEW t \in Threads, Unmap(t)
  PROVE  MappingsInv'
<1> DEFINE mine == MappingsOf(req[t].uid, req[t].host)
<1>1. /\ service = "mappings" /\ pc[t] = "unmap" /\ req[t] \in MappingRequest
      /\ MappingSeen(t) /\ MappingsAreDistinct
      /\ Unpublished(t) /\ failures' = failures
      /\ array' = [array EXCEPT !.mappings = @ \ Unmapped(t)]
  BY DEF Unmap, At, MappingsInv, MappingSeen, NoFault
<1>2. /\ array' \in [type : {array.type}, mappings : SUBSET array.mappings]
      /\ array'.mappings = array.mappings \ Unmapped(t)
  BY <1>1 DEF MappingsAreDistinct
<1>3. ASSUME array.type \in {"ds8k", "santricity"}
      PROVE  mine = {local[t].mapping} /\ local[t].mapping \in array.mappings
  <2>1. local[t].mapping \in mine
    BY <1>1, <1>3 DEF MappingSeen
  <2>2. \A m \in mine : m = local[t].mapping
    BY <1>1, <2>1 DEF MappingsOf, MappingsAreDistinct
  <2> QED
    BY <2>1, <2>2 DEF MappingsOf
<1>4. Unmapped(t) = mine
  <2>1. CASE array.type = "ds8k"
    <3>1. \A m \in array.mappings : req[t].host \in m.hosts /\ m.lun = local[t].mapping.lun =>
            m = local[t].mapping
      BY <1>1, <1>3, <2>1 DEF MappingsOf, MappingsAreDistinct
    <3>2. local[t].mapping \in array.mappings /\ req[t].host \in local[t].mapping.hosts
      BY <1>3, <2>1 DEF MappingsOf
    <3> QED
      BY <1>3, <2>1, <3>1, <3>2 DEF Unmapped
  <2>2. CASE array.type = "santricity"
    BY <1>3, <2>2 DEF Unmapped
  <2>3. CASE array.type \notin {"ds8k", "santricity"}
    BY <2>3 DEF Unmapped
  <2> QED
    BY <2>1, <2>2, <2>3
<1>5. /\ \A m \in array.mappings : m \notin array'.mappings =>
           m.volume = req[t].uid /\ req[t].host \in m.hosts
      /\ MappingsIn(array', req[t].uid, req[t].host) = {}
  BY <1>2, <1>4 DEF MappingsOf, MappingsIn
<1> QED
  BY <1>1, <1>2, <1>5, UnpublishedKeeps

LEMMA MappingFailsKeeps ==
  ASSUME MappingsInv, NEW t \in Threads, MappingFails(t)
  PROVE  MappingsInv'
<1>1. /\ service = "mappings" /\ pc[t] # "idle" /\ failures' = failures + 1 /\ failures \in Nat
      /\ UNCHANGED array /\ MappingsAreDistinct
  BY DEF MappingFails, Fault, MappingsInv
<1>2. CASE pc[t] = "readLun" /\ Published(t, 0)
  <2>1. array.type = "solidfire"
    BY <1>2 DEF MappingsInv, MappingSeen
  <2>2. MappingsAreDistinct' /\ ExclusiveIsMappedOnce'
    BY <1>1, <1>2 DEF MappingsInv, MappingsAreDistinct, ExclusiveIsMappedOnce, Target,
       Published, Return
  <2> QED
    BY <1>1, <1>2, <2>1, <2>2, ArrayMappingsAssumption, PublishedKeeps
<1>3. CASE pc[t] = "unmap" /\ array.type = "solidfire" /\ Unpublished(t)
  <2>1. array' \in [type : {array.type}, mappings : SUBSET array.mappings]
    BY <1>1 DEF MappingsAreDistinct
  <2> QED
    BY <1>1, <1>3, <2>1, UnpublishedKeeps
<1>4. CASE Return(t) /\ UNCHANGED known
  BY <1>1, <1>4, FreedKeeps
<1> QED
  BY <1>2, <1>3, <1>4 DEF MappingFails

LEMMA MappingsStep ==
  ASSUME MappingsInv, MappingsNext
  PROVE  MappingsInv'
<1>1. service = "mappings"
  BY DEF MappingsNext, CallMappings, ReadMappings, ChooseLun, MapByLun, MapByArray, ReadLun,
     FindMapping, Unmap, MappingFails, At
<1> QED
  BY <1>1, CallMappingsKeeps, ReadMappingsKeeps, ChooseLunKeeps, MapByLunKeeps, MapByArrayKeeps,
     ReadLunKeeps, FindMappingKeeps, UnmapKeeps, MappingFailsKeeps DEF MappingsNext

LEMMA CrashKeepsMappings ==
  ASSUME MappingsInv, Crash
  PROVE  MappingsInv'
<1>1. Locked'
  BY CrashKeepsLocked DEF MappingsInv
<1>2. UNCHANGED <<service, array, known, failures>> /\ \A t \in Threads : pc'[t] = "idle"
  BY DEF Crash
<1>3. MappingsAreDistinct' /\ ExclusiveIsMappedOnce' /\ AccessAsAnswered'
  BY <1>2 DEF MappingsInv, MappingsAreDistinct, Target, ExclusiveIsMappedOnce,
     AccessAsAnswered, MappingsOf
<1> QED
  BY <1>1, <1>2, <1>3 DEF MappingsInv, MappingSeen, MappingPlace

-----------------------------------------------------------------------------
(* Volume groups.                                                          *)

GroupMemo ==
  [adding : SUBSET GroupVolumes, removing : SUBSET GroupVolumes,
   next : GroupVolumes \union {None}]

GroupsTyped ==
  /\ array \in [groups : SUBSET GroupNames, group : [GroupVolumes -> GroupNames \union {None}],
                partition : BOOLEAN]
  /\ known \in [wanted : [GroupNames -> SUBSET GroupVolumes],
                members : [GroupNames -> (SUBSET GroupVolumes) \union {None}],
                contested : [GroupNames -> SUBSET GroupVolumes], gone : SUBSET GroupNames]

Updating == {"add", "join", "leave", "confirm"}

(* Where a request is, and that its group is not answered for while it is  *)
(* deleted or modified, nor gone while it is created.                      *)
GroupPlaceInv(t) ==
  /\ pc[t] \in GroupPlace
  /\ pc[t] # "idle" => req[t] \in GroupRequest /\ local[t] \in GroupMemo
  /\ pc[t] \in {"findGroup", "makeGroup"} =>
       req[t].op = "createGroup" /\ req[t].name \notin known.gone
  /\ pc[t] \in {"readGroup", "removeGroup"} =>
       req[t].op = "deleteGroup" /\ known.members[req[t].uid] = None
  /\ pc[t] \in Updating \union {"readMembers"} =>
       /\ req[t].op = "modifyGroup" /\ known.members[req[t].uid] = None
       /\ req[t].volumes \subseteq known.wanted[req[t].uid]

(* The group of an update has no volumes but the requested ones and those  *)
(* still to remove; of the requested ones it misses those still to add and *)
(* those another group was asked to have.  What it is to remove it was     *)
(* asked to have once.                                                     *)
UpdateInv(t) ==
  pc[t] \in Updating =>
    /\ local[t].adding \subseteq req[t].volumes
    /\ local[t].removing \subseteq known.wanted[req[t].uid] \ req[t].volumes
    /\ Members(req[t].uid) \subseteq req[t].volumes \union local[t].removing
    /\ \A v \in req[t].volumes :
         \/ v \in Members(req[t].uid) \union local[t].adding
         \/ \E g \in GroupNames \ {req[t].uid} : v \in known.wanted[g]
    /\ pc[t] = "join" => local[t].next \in local[t].adding
    /\ pc[t] \in {"leave", "confirm"} => local[t].adding = {}
    /\ pc[t] = "confirm" => local[t].removing = {}

(* The volumes an update may yet take from other groups.                   *)
Taking(t) ==
  local[t].removing
  \union (IF array.partition THEN req[t].volumes ELSE IF pc[t] = "join" THEN {local[t].next} ELSE {})

(* What an update may take from a group that was answered for is contested.*)
TakeInv(t) ==
  pc[t] \in Updating \union {"readMembers"} =>
    \A g \in GroupNames \ {req[t].uid} :
      known.members[g] # None => Taking(t) \intersect Members(g) \subseteq known.contested[g]

WantedInv == \A g \in GroupNames : Members(g) \subseteq known.wanted[g]

GroupsInv ==
  /\ Locked /\ GroupsTyped /\ WantedInv /\ MembersAsAnswered
  /\ \A t \in Threads : GroupPlaceInv(t) /\ UpdateInv(t) /\ TakeInv(t)

LEMMA GroupLock ==
  ASSUME NEW r \in GroupRequest
  PROVE  /\ r.op \in {"createGroup", "deleteGroup", "modifyGroup"}
         /\ r.op = "createGroup" =>
              LockOf(r) = <<"name", r.name>> /\ r.name \in GroupNames /\ GroupOf(r) = r.name
         /\ r.op # "createGroup" =>
              LockOf(r) = <<"volume_group_id", r.uid>> /\ r.uid \in GroupNames /\ GroupOf(r) = r.uid
         /\ r.op = "modifyGroup" => r.volumes \subseteq GroupVolumes
         /\ r # None
<1>1. /\ r.op \in {"createGroup", "deleteGroup", "modifyGroup"}
      /\ r.op = "createGroup" => r.name \in GroupNames
      /\ r.op # "createGroup" => r.uid \in GroupNames
      /\ r.op = "modifyGroup" => r.volumes \subseteq GroupVolumes
  BY DEF GroupRequest
<1>2. r.op = "createGroup" => LockOf(r) = <<"name", r.name>>
  BY DEF LockOf
<1>3. r.op \in {"deleteGroup", "modifyGroup"} => LockOf(r) = <<"volume_group_id", r.uid>>
  BY DEF LockOf
<1> QED
  BY <1>1, <1>2, <1>3, GroupsAssumption DEF GroupOf

(* Of the requests at work, those that delete or modify are each for a     *)
(* group of its own, and so are those that create.                         *)
LEMMA GroupsApart ==
  ASSUME GroupsInv, NEW t \in Threads, NEW u \in Threads, t # u,
         pc[t] # "idle", pc[u] # "idle"
  PROVE  /\ req[t].op # "createGroup" /\ req[u].op # "createGroup" => req[t].uid # req[u].uid
         /\ req[t].op = "createGroup" /\ req[u].op = "createGroup" => req[t].name # req[u].name
<1>1. /\ req[t] \in GroupRequest /\ req[u] \in GroupRequest
      /\ req[t] # None /\ req[u] # None /\ LockOf(req[t]) # LockOf(req[u])
  BY DEF GroupsInv, GroupPlaceInv, Locked
<1> QED
  BY <1>1, GroupLock

LEMMA InitGroupsInv ==
  ASSUME InitGroups
  PROVE  GroupsInv
<1>1. Locked
  BY InitLocked DEF InitGroups
<1>2. /\ \A t \in Threads : pc[t] = "idle"
      /\ \A g \in GroupNames : Members(g) = {}
      /\ known = [wanted |-> [g \in GroupNames |-> {}], members |-> [g \in GroupNames |-> None],
                  contested |-> [g \in GroupNames |-> {}], gone |-> {}]
  BY GroupsAssumption DEF InitGroups, InitService, Members
<1>3. GroupsTyped
  BY <1>2 DEF InitGroups, GroupsTyped
<1> QED
  BY <1>1, <1>2, <1>3 DEF GroupsInv, WantedInv, MembersAsAnswered, GroupPlaceInv, GroupPlace,
     UpdateInv, TakeInv, Updating

(* A step that changes neither the groups nor what was answered.           *)
LEMMA GroupsQuiet ==
  ASSUME GroupsInv, NEW t \in Threads, Moves(t), Alone(t), UNCHANGED <<array, known>>,
         GroupPlaceInv(t)', UpdateInv(t)', TakeInv(t)'
  PROVE  GroupsInv'
<1>1. Locked'
  BY MovesKeepLocked DEF GroupsInv
<1>2. GroupsTyped' /\ WantedInv' /\ MembersAsAnswered'
  BY DEF GroupsInv, GroupsTyped, WantedInv, MembersAsAnswered, Members, Moves
<1>3. ASSUME NEW u \in Threads, u # t
      PROVE  GroupPlaceInv(u)' /\ UpdateInv(u)' /\ TakeInv(u)'
  <2>1. /\ pc'[u] = pc[u] /\ req'[u] = req[u] /\ local'[u] = local[u]
        /\ GroupPlaceInv(u) /\ UpdateInv(u) /\ TakeInv(u)
    BY <1>3 DEF Alone, GroupsInv
  <2> QED
    BY <2>1 DEF GroupPlaceInv, UpdateInv, TakeInv, Taking, Members
<1> QED
  BY <1>1, <1>2, <1>3 DEF GroupsInv

LEMMA GroupsFreed ==
  ASSUME GroupsInv, NEW t \in Threads, pc[t] # "idle", Return(t), UNCHANGED <<array, known>>
  PROVE  GroupsInv'
<1>1. Moves(t) /\ Alone(t) /\ pc'[t] = "idle"
  BY ReturnMoves DEF GroupsInv
<1>2. GroupPlaceInv(t)' /\ UpdateInv(t)' /\ TakeInv(t)'
  BY <1>1 DEF GroupPlaceInv, UpdateInv, TakeInv, GroupPlace, Updating
<1> QED
  BY <1>1, <1>2, GroupsQuiet

LEMMA GroupsReject ==
  ASSUME GroupsInv, NEW t \in Threads, pc[t] # "idle", Reject(t)
  PROVE  GroupsInv'
  BY GroupsFreed DEF Reject

(* A request of t is answered, or its group made or deleted: no volume     *)
(* moves, and no group is answered for in another way.                     *)
LEMMA GroupsSettled ==
  ASSUME GroupsInv, service = "groups", NEW t \in Threads, pc[t] # "idle", Return(t),
         GroupsTyped', array'.group = array.group, array'.partition = array.partition,
         known'.wanted = known.wanted, known'.members = known.members,
         known'.contested = known.contested,
         known'.gone \intersect array'.groups = {},
         \A u \in Threads \ {t} : pc[u] \in {"findGroup", "makeGroup"} => req[u].name \notin known'.gone
  PROVE  GroupsInv'
<1>1. Moves(t) /\ Alone(t) /\ pc'[t] = "idle" /\ Locked'
  BY ReturnMoves, MovesKeepLocked DEF GroupsInv
<1>2. \A g : Members(g)' = Members(g)
  BY DEF Members
<1>3. WantedInv' /\ MembersAsAnswered'
  BY <1>2 DEF GroupsInv, WantedInv, MembersAsAnswered
<1>4. ASSUME NEW u \in Threads
      PROVE  GroupPlaceInv(u)' /\ UpdateInv(u)' /\ TakeInv(u)'
  <2>1. CASE u = t
    BY <1>1, <2>1 DEF GroupPlaceInv, UpdateInv, TakeInv, GroupPlace, Updating
  <2>2. CASE u # t
    <3>1. /\ pc'[u] = pc[u] /\ req'[u] = req[u] /\ local'[u] = local[u]
          /\ GroupPlaceInv(u) /\ UpdateInv(u) /\ TakeInv(u)
      BY <1>1, <2>2 DEF Alone, GroupsInv
    <3>2. GroupPlaceInv(u)'
      BY <2>2, <3>1 DEF GroupPlaceInv
    <3>3. UpdateInv(u)'
      BY <3>1 DEF UpdateInv, Members
    <3>4. TakeInv(u)'
      BY <3>1 DEF TakeInv, Taking, Members
    <3> QED
      BY <3>2, <3>3, <3>4
  <2> QED
    BY <2>1, <2>2
<1> QED
  BY <1>1, <1>3, <1>4 DEF GroupsInv

LEMMA FindGroupKeeps ==
  ASSUME GroupsInv, NEW t \in Threads, FindGroup(t)
  PROVE  GroupsInv'
<1>1. pc[t] = "findGroup" /\ GroupPlaceInv(t)
  BY DEF FindGroup, At, GroupsInv
<1>2. CASE Reject(t)
  BY <1>1, <1>2, GroupsReject
<1>3. CASE Continue(t, "makeGroup") /\ UNCHANGED <<array, known>>
  <2>1. /\ Moves(t) /\ Alone(t) /\ pc'[t] = "makeGroup" /\ req'[t] = req[t] /\ local'[t] = local[t]
    BY <1>1, <1>3, ContinueMoves DEF GroupsInv
  <2>2. GroupPlaceInv(t)' /\ UpdateInv(t)' /\ TakeInv(t)'
    BY <1>1, <1>3, <2>1 DEF GroupPlaceInv, UpdateInv, TakeInv, GroupPlace, Updating
  <2> QED
    BY <1>3, <2>1, <2>2, GroupsQuiet
<1> QED
  BY <1>2, <1>3 DEF FindGroup

LEMMA MakeGroupKeeps ==
  ASSUME GroupsInv, NEW t \in Threads, MakeGroup(t)
  PROVE  GroupsInv'
<1>1. /\ service = "groups" /\ pc[t] = "makeGroup" /\ GroupPlaceInv(t) /\ Return(t)
      /\ array' = [array EXCEPT !.groups = @ \union {req[t].name}] /\ known' = known
  BY DEF MakeGroup, At, GroupsInv
<1>2. req[t].name \in GroupNames \ known.gone
  BY <1>1, GroupLock DEF GroupPlaceInv
<1>3. GroupsTyped' /\ array'.group = array.group /\ array'.partition = array.partition
      /\ array'.groups = array.groups \union {req[t].name}
  BY <1>1, <1>2 DEF GroupsInv, GroupsTyped
<1>4. known.gone \intersect array.groups = {}
  BY <1>1 DEF GroupsInv, MembersAsAnswered
<1>5. \A u \in Threads \ {t} : pc[u] \in {"findGroup", "makeGroup"} => req[u].name \notin known.gone
  BY DEF GroupsInv, GroupPlaceInv
<1> QED
  BY <1>1, <1>2, <1>3, <1>4, <1>5, GroupsSettled

LEMMA GroupDeletedKeeps ==
  ASSUME GroupsInv, service = "groups", NEW t \in Threads, pc[t] \in {"readGroup", "removeGroup"},
         GroupDeleted(t),
         array' \in [groups : {array.groups \ {req[t].uid}}, group : {array.group},
                     partition : {array.partition}]
  PROVE  GroupsInv'
<1>1. GroupPlaceInv(t) /\ Return(t) /\ req[t].op = "deleteGroup" /\ req[t].uid \in GroupNames
  BY GroupLock DEF GroupsInv, GroupPlaceInv, GroupDeleted
<1> DEFINE settled == {g \in {req[t].uid} : \A x \in Threads :
                         ~ (req[x] # None /\ req[x].op = "createGroup" /\ req[x].name = g)}
<1>2. known' = [known EXCEPT !.gone = @ \union settled]
  BY DEF GroupDeleted
<1>3. settled \subseteq {req[t].uid}
  OBVIOUS
<1>4. ASSUME NEW u \in Threads, pc[u] \in {"findGroup", "makeGroup"}
      PROVE  req[u].name \notin settled \union known.gone
  BY <1>4 DEF GroupsInv, GroupPlaceInv, Locked
<1> HIDE DEF settled
<1>5. /\ GroupsTyped' /\ known'.gone = known.gone \union settled
      /\ known'.wanted = known.wanted /\ known'.members = known.members
      /\ known'.contested = known.contested
  BY <1>1, <1>2, <1>3 DEF GroupsInv, GroupsTyped
<1>6. known.gone \intersect array.groups = {}
  BY DEF GroupsInv, MembersAsAnswered
<1> QED
  BY <1>1, <1>3, <1>4, <1>5, <1>6, GroupsSettled

LEMMA ReadGroupKeeps ==
  ASSUME GroupsInv, NEW t \in Threads, ReadGroup(t)
  PROVE  GroupsInv'
<1>1. service = "groups" /\ pc[t] = "readGroup" /\ GroupPlaceInv(t)
  BY DEF ReadGroup, At, GroupsInv
<1>2. CASE req[t].uid \notin array.groups /\ GroupDeleted(t) /\ UNCHANGED <<array, memory>>
  <2>1. array' \in [groups : {array.groups \ {req[t].uid}}, group : {array.group},
                    partition : {array.partition}]
    BY <1>2 DEF GroupsInv, GroupsTyped
  <2> QED
    BY <1>1, <1>2, <2>1, GroupDeletedKeeps
<1>3. CASE Continue(t, "removeGroup") /\ UNCHANGED <<array, known>>
  <2>1. /\ Moves(t) /\ Alone(t) /\ pc'[t] = "removeGroup" /\ req'[t] = req[t] /\ local'[t] = local[t]
    BY <1>1, <1>3, ContinueMoves DEF GroupsInv
  <2>2. GroupPlaceInv(t)' /\ UpdateInv(t)' /\ TakeInv(t)'
    BY <1>1, <1>3, <2>1 DEF GroupPlaceInv, UpdateInv, TakeInv, GroupPlace, Updating
  <2> QED
    BY <1>3, <2>1, <2>2, GroupsQuiet
<1> QED
  BY <1>2, <1>3 DEF ReadGroup

LEMMA RemoveGroupKeeps ==
  ASSUME GroupsInv, NEW t \in Threads, RemoveGroup(t)
  PROVE  GroupsInv'
<1>1. service = "groups" /\ pc[t] = "removeGroup" /\ GroupPlaceInv(t)
  BY DEF RemoveGroup, At, GroupsInv
<1>2. CASE Reject(t)
  BY <1>1, <1>2, GroupsReject
<1>3. CASE array' = [array EXCEPT !.groups = @ \ {req[t].uid}] /\ GroupDeleted(t)
  <2>1. array' \in [groups : {array.groups \ {req[t].uid}}, group : {array.group},
                    partition : {array.partition}]
    BY <1>3 DEF GroupsInv, GroupsTyped
  <2> QED
    BY <1>1, <1>3, <2>1, GroupDeletedKeeps
<1> QED
  BY <1>2, <1>3 DEF RemoveGroup

LEMMA CallGroupsKeeps ==
  ASSUME GroupsInv, NEW t \in Threads, CallGroups(t)
  PROVE  GroupsInv'
<1>1. service = "groups"
  BY DEF CallGroups
<1>2. PICK r \in GroupRequest :
        /\ Enter(t, r, CASE r.op = "createGroup" -> "findGroup"
                         [] r.op = "deleteGroup" -> "readGroup"
                         [] OTHER -> "readMembers",
                 NoMembers)
        /\ known' = [known EXCEPT !.members[GroupOf(r)] = IF r.op = "createGroup" THEN @ ELSE None,
                                  !.wanted[GroupOf(r)] =
                                    IF r.op = "modifyGroup" THEN @ \union r.volumes ELSE @,
                                  !.contested = [g \in GroupNames |-> @[g] \union Losing(r, g)],
                                  !.gone = @ \ {GroupOf(r)}]
  BY Zenon DEF CallGroups
<1> DEFINE place == CASE r.op = "createGroup" -> "findGroup"
                      [] r.op = "deleteGroup" -> "readGroup"
                      [] OTHER -> "readMembers"
<1>3. /\ place \in {"findGroup", "readGroup", "readMembers"}
      /\ r.op = "createGroup" <=> place = "findGroup"
      /\ r.op = "deleteGroup" <=> place = "readGroup"
  BY <1>2, GroupLock
<1> HIDE DEF place
<1>4. Enter(t, r, place, NoMembers)
  BY <1>2 DEF place
<1>5. /\ Moves(t) /\ Alone(t) /\ pc'[t] = place /\ req'[t] = r /\ local'[t] = NoMembers
      /\ array' = array /\ Locked'
  BY <1>2, <1>3, <1>4, GroupLock, EnterMoves, MovesKeepLocked DEF GroupsInv
<1>6. /\ GroupsTyped' /\ GroupOf(r) \in GroupNames
      /\ known'.gone = known.gone \ {GroupOf(r)}
      /\ \A g \in GroupNames :
           /\ known'.members[g] = IF g = GroupOf(r) /\ r.op # "createGroup" THEN None
                                    ELSE known.members[g]
           /\ known'.wanted[g] = IF g = GroupOf(r) /\ r.op = "modifyGroup"
                                   THEN known.wanted[g] \union r.volumes ELSE known.wanted[g]
           /\ known'.contested[g] = known.contested[g] \union Losing(r, g)
  <2>1. /\ GroupOf(r) \in GroupNames
        /\ r.op = "modifyGroup" => r.volumes \subseteq GroupVolumes
        /\ \A g : Losing(r, g) \subseteq GroupVolumes
    BY <1>2, GroupLock DEF Losing
  <2> DEFINE members == [known.members EXCEPT ![GroupOf(r)] = IF r.op = "createGroup" THEN @ ELSE None]
             wanted == [known.wanted EXCEPT ![GroupOf(r)] =
                          IF r.op = "modifyGroup" THEN @ \union r.volumes ELSE @]
             contested == [g \in GroupNames |-> known.contested[g] \union Losing(r, g)]
             gone == known.gone \ {GroupOf(r)}
  <2>2. /\ known.members \in [GroupNames -> (SUBSET GroupVolumes) \union {None}]
        /\ known.wanted \in [GroupNames -> SUBSET GroupVolumes]
        /\ known.contested \in [GroupNames -> SUBSET GroupVolumes]
        /\ known.gone \in SUBSET GroupNames
        /\ known = [wanted |-> known.wanted, members |-> known.members,
                    contested |-> known.contested, gone |-> known.gone]
    BY DEF GroupsInv, GroupsTyped
  <2>3. /\ members \in [GroupNames -> (SUBSET GroupVolumes) \union {None}]
        /\ wanted \in [GroupNames -> SUBSET GroupVolumes]
        /\ contested \in [GroupNames -> SUBSET GroupVolumes]
        /\ gone \in SUBSET GroupNames
    BY <2>1, <2>2
  <2>4. known' = [wanted |-> wanted, members |-> members, contested |-> contested, gone |-> gone]
    <3>1. known' = [known EXCEPT !.members = members, !.wanted = wanted, !.contested = contested,
                                 !.gone = gone]
      BY <1>2
    <3> HIDE DEF members, wanted, contested, gone
    <3> QED
      BY <2>2, <3>1
  <2>5. /\ known'.wanted = wanted /\ known'.members = members
        /\ known'.contested = contested /\ known'.gone = gone
        /\ known' \in [wanted : [GroupNames -> SUBSET GroupVolumes],
                members : [GroupNames -> (SUBSET GroupVolumes) \union {None}],
                contested : [GroupNames -> SUBSET GroupVolumes], gone : SUBSET GroupNames]
    <3> HIDE DEF members, wanted, contested, gone
    <3> QED
      BY <2>3, <2>4
  <2>6. GroupsTyped'
    BY <1>5, <2>5 DEF GroupsInv, GroupsTyped
  <2>7. ASSUME NEW g \in GroupNames
        PROVE  /\ members[g] = IF g = GroupOf(r) /\ r.op # "createGroup" THEN None
                                 ELSE known.members[g]
               /\ wanted[g] = IF g = GroupOf(r) /\ r.op = "modifyGroup"
                                THEN known.wanted[g] \union r.volumes ELSE known.wanted[g]
               /\ contested[g] = known.contested[g] \union Losing(r, g)
    BY <2>2
  <2> HIDE DEF members, wanted, contested
  <2> QED
    BY <2>1, <2>5, <2>6, <2>7
<1>7. \A g : Members(g)' = Members(g)
  BY <1>5 DEF Members
<1>8. WantedInv' /\ MembersAsAnswered'
  BY <1>1, <1>5, <1>6, <1>7 DEF GroupsInv, WantedInv, MembersAsAnswered
<1>9. GroupPlaceInv(t)'
  BY <1>2, <1>3, <1>5, <1>6, GroupLock DEF GroupPlaceInv, GroupPlace, Updating, GroupMemo, NoMembers
<1>10. UpdateInv(t)'
  BY <1>3, <1>5 DEF UpdateInv, Updating
<1>11. TakeInv(t)'
  <2>1. ASSUME pc'[t] = "readMembers", NEW g \in GroupNames \ {r.uid}
        PROVE  Taking(t)' \subseteq known'.contested[g]
    <3>1. r.op = "modifyGroup" /\ NoMembers.removing = {}
      BY <1>2, <1>3, <1>5, <2>1, GroupLock DEF NoMembers
    <3>2. Taking(t)' = IF array.partition THEN r.volumes ELSE {}
      BY <1>5, <2>1, <3>1 DEF Taking
    <3>3. known'.contested[g] = known.contested[g] \union Losing(r, g)
      BY <1>6
    <3> QED
      BY <3>1, <3>2, <3>3 DEF Losing
  <2> QED
    BY <1>3, <1>5, <2>1 DEF TakeInv, Updating
<1>12. ASSUME NEW u \in Threads, u # t
       PROVE  GroupPlaceInv(u)' /\ UpdateInv(u)' /\ TakeInv(u)'
  <2>1. /\ pc'[u] = pc[u] /\ req'[u] = req[u] /\ local'[u] = local[u]
        /\ GroupPlaceInv(u) /\ UpdateInv(u) /\ TakeInv(u)
        /\ pc[u] # "idle" => req[u] # None /\ LockOf(req[u]) # LockOf(r) /\ req[u] \in GroupRequest
    BY <1>2, <1>4, <1>3, <1>5, <1>12, GroupLock, EnterMoves
       DEF Alone, GroupsInv, Locked, GroupPlaceInv
  <2>2. GroupPlaceInv(u)'
    <3>1. CASE pc[u] \in {"findGroup", "makeGroup"}
      BY <1>6, <2>1, <3>1 DEF GroupPlaceInv, Updating
    <3>2. CASE pc[u] \in {"readGroup", "removeGroup"}
      <4>1. req[u].uid \in GroupNames
        BY <2>1, <3>2, GroupLock DEF GroupPlaceInv
      <4> QED
        BY <1>6, <2>1, <3>2, <4>1 DEF GroupPlaceInv, Updating
    <3>3. CASE pc[u] \in Updating \union {"readMembers"}
      <4>1. /\ req[u].uid \in GroupNames /\ pc[u] # "idle"
            /\ pc[u] \notin {"findGroup", "makeGroup", "readGroup", "removeGroup"}
        BY <2>1, <3>3, GroupLock DEF GroupPlaceInv, Updating
      <4>2. /\ known'.members[req[u].uid] = None
            /\ known.wanted[req[u].uid] \subseteq known'.wanted[req[u].uid]
        BY <1>6, <2>1, <3>3, <4>1 DEF GroupPlaceInv
      <4> QED
        BY <2>1, <3>3, <4>1, <4>2 DEF GroupPlaceInv
    <3>4. CASE pc[u] = "idle"
      BY <2>1, <3>4 DEF GroupPlaceInv, Updating
    <3> QED
      BY <2>1, <3>1, <3>2, <3>3, <3>4 DEF GroupPlaceInv, GroupPlace, Updating
  <2>3. UpdateInv(u)'
    <3>1. CASE pc[u] \in Updating
      <4>1. pc[u] # "idle" /\ req[u].uid \in GroupNames
        BY <2>1, <3>1, GroupLock DEF GroupPlaceInv, Updating
      <4>2. \A g \in GroupNames : known.wanted[g] \subseteq known'.wanted[g]
        BY <1>6
      <4> QED
        BY <1>7, <2>1, <3>1, <4>1, <4>2 DEF UpdateInv
    <3> QED
      BY <2>1, <3>1 DEF UpdateInv
  <2>4. TakeInv(u)'
    <3>1. Taking(u)' = Taking(u)
      BY <1>5, <2>1 DEF Taking
    <3>2. \A g \in GroupNames : known'.members[g] # None => known.members[g] # None
      BY <1>6
    <3> QED
      BY <1>6, <1>7, <2>1, <3>1, <3>2 DEF TakeInv
  <2> QED
    BY <2>2, <2>3, <2>4
<1> QED
  BY <1>5, <1>6, <1>8, <1>9, <1>10, <1>11, <1>12 DEF GroupsInv

LEMMA ReadMembersKeeps ==
  ASSUME GroupsInv, NEW t \in Threads, ReadMembers(t)
  PROVE  GroupsInv'
<1>1. /\ pc[t] = "readMembers" /\ GroupPlaceInv(t) /\ TakeInv(t) /\ WantedInv
      /\ req[t] \in GroupRequest /\ req[t].uid \in GroupNames /\ req[t].volumes \subseteq GroupVolumes
  BY GroupLock DEF ReadMembers, At, GroupsInv, GroupPlaceInv
<1>2. CASE Reject(t)
  BY <1>1, <1>2, GroupsReject
<1> DEFINE memo == [NoMembers EXCEPT !.adding = req[t].volumes \ Members(req[t].uid),
                                     !.removing = Members(req[t].uid) \ req[t].volumes]
<1>3. CASE Proceed(t, "add", memo) /\ UNCHANGED <<array, known>>
  <2>1. /\ memo \in GroupMemo /\ memo.adding = req[t].volumes \ Members(req[t].uid)
        /\ memo.removing = Members(req[t].uid) \ req[t].volumes
    <3>1. Members(req[t].uid) \subseteq GroupVolumes
      BY DEF Members
    <3>2. memo = [adding |-> req[t].volumes \ Members(req[t].uid),
                  removing |-> Members(req[t].uid) \ req[t].volumes, next |-> None]
      <4> DEFINE added == [NoMembers EXCEPT !.adding = req[t].volumes \ Members(req[t].uid)]
      <4>1. added = [adding |-> req[t].volumes \ Members(req[t].uid), removing |-> {}, next |-> None]
        BY DEF NoMembers
      <4>2. memo = [added EXCEPT !.removing = Members(req[t].uid) \ req[t].volumes]
        BY Zenon
      <4> HIDE DEF memo, added
      <4> QED
        BY <4>1, <4>2
    <3> QED
      BY <1>1, <3>1, <3>2 DEF GroupMemo
  <2> HIDE DEF memo
  <2>2. /\ Moves(t) /\ Alone(t) /\ pc'[t] = "add" /\ req'[t] = req[t] /\ local'[t] = memo
        /\ array' = array /\ known' = known
    BY <1>1, <1>3, ProceedMoves DEF GroupsInv
  <2>3. GroupPlaceInv(t)'
    BY <1>1, <2>1, <2>2 DEF GroupPlaceInv, GroupPlace, Updating
  <2>4. UpdateInv(t)'
    BY <1>1, <2>1, <2>2 DEF UpdateInv, WantedInv, Members
  <2>5. TakeInv(t)'
    <3>1. Taking(t)' \subseteq Members(req[t].uid) \union Taking(t)
      BY <1>1, <2>1, <2>2 DEF Taking
    <3>2. \A g \in GroupNames \ {req[t].uid} : Members(req[t].uid) \intersect Members(g) = {}
      BY DEF Members
    <3>3. \A g : Members(g)' = Members(g)
      BY <2>2 DEF Members
    <3> QED
      BY <1>1, <2>2, <3>1, <3>2, <3>3 DEF TakeInv
  <2> QED
    BY <1>3, <2>2, <2>3, <2>4, <2>5, GroupsQuiet
<1> QED
  BY <1>2, <1>3 DEF ReadMembers

LEMMA AddNextKeeps ==
  ASSUME GroupsInv, NEW t \in Threads, AddNext(t)
  PROVE  GroupsInv'
<1>1. /\ pc[t] = "add" /\ GroupPlaceInv(t) /\ UpdateInv(t) /\ TakeInv(t)
      /\ req[t] \in GroupRequest /\ local[t] \in GroupMemo
  BY DEF AddNext, At, GroupsInv, GroupPlaceInv
<1>2. CASE local[t].adding = {} /\ Continue(t, "leave") /\ UNCHANGED <<array, known>>
  <2>1. /\ Moves(t) /\ Alone(t) /\ pc'[t] = "leave" /\ req'[t] = req[t] /\ local'[t] = local[t]
        /\ array' = array /\ known' = known
    BY <1>1, <1>2, ContinueMoves DEF GroupsInv
  <2>2. GroupPlaceInv(t)'
    BY <1>1, <2>1 DEF GroupPlaceInv, GroupPlace, Updating
  <2>3. UpdateInv(t)'
    BY <1>1, <1>2, <2>1 DEF UpdateInv, Updating, Members
  <2>4. TakeInv(t)'
    BY <1>1, <2>1 DEF TakeInv, Updating, Taking, Members
  <2> QED
    BY <1>2, <2>1, <2>2, <2>3, <2>4, GroupsQuiet
<1>3. ASSUME NEW v \in local[t].adding, MayJoin(t, v),
             Proceed(t, "join", [local[t] EXCEPT !.next = v]), UNCHANGED <<array, known>>
      PROVE  GroupsInv'
  <2> DEFINE memo == [local[t] EXCEPT !.next = v]
  <2>1. /\ memo \in GroupMemo /\ memo.adding = local[t].adding
        /\ memo.removing = local[t].removing /\ memo.next = v /\ v \in GroupVolumes
    BY <1>1, <1>3 DEF GroupMemo
  <2> HIDE DEF memo
  <2>2. /\ Moves(t) /\ Alone(t) /\ pc'[t] = "join" /\ req'[t] = req[t] /\ local'[t] = memo
        /\ array' = array /\ known' = known
    BY <1>1, <1>3, ProceedMoves DEF GroupsInv, memo
  <2>3. GroupPlaceInv(t)'
    BY <1>1, <2>1, <2>2 DEF GroupPlaceInv, GroupPlace, Updating
  <2>4. UpdateInv(t)'
    BY <1>1, <1>3, <2>1, <2>2 DEF UpdateInv, Updating, Members
  <2>5. TakeInv(t)'
    <3>1. Taking(t)' \subseteq Taking(t) \union (IF array.partition THEN {} ELSE {v})
      BY <1>1, <2>1, <2>2 DEF Taking
    <3>2. array.partition \/ \A g \in GroupNames \ {req[t].uid} : v \notin Members(g)
      BY <1>3, GroupsAssumption DEF MayJoin, Members
    <3>3. \A g : Members(g)' = Members(g)
      BY <2>2 DEF Members
    <3> QED
      BY <1>1, <2>2, <3>1, <3>2, <3>3 DEF TakeInv, Updating
  <2> QED
    BY <1>3, <2>2, <2>3, <2>4, <2>5, GroupsQuiet
<1>4. CASE Reject(t)
  BY <1>1, <1>4, GroupsReject
<1> QED
  BY <1>2, <1>3, <1>4 DEF AddNext

(* A volume leaves the group it is in for that of t, or for none.          *)
LEMMA VolumeMoves ==
  ASSUME GroupsInv, service = "groups", NEW t \in Threads, pc[t] \in Updating,
         NEW v \in GroupVolumes, NEW to \in {req[t].uid, None},
         array' = [array EXCEPT !.group[v] = to], known' = known, Moves(t), Alone(t),
         \A g \in GroupNames \ {req[t].uid} :
           known.members[g] # None /\ v \in Members(g) => v \in known.contested[g],
         v \in known.wanted[req[t].uid],
         GroupPlaceInv(t)', UpdateInv(t)', TakeInv(t)'
  PROVE  GroupsInv'
<1>1. /\ Locked' /\ GroupPlaceInv(t) /\ req[t] \in GroupRequest /\ req[t].uid \in GroupNames
      /\ req[t].op = "modifyGroup" /\ known.members[req[t].uid] = None
      /\ pc[t] # "idle" /\ service' = "groups"
  BY MovesKeepLocked, GroupLock DEF GroupsInv, GroupPlaceInv, Moves, Updating
<1>2. /\ GroupsTyped' /\ array'.groups = array.groups /\ array'.partition = array.partition
      /\ \A w \in GroupVolumes : array'.group[w] = IF w = v THEN to ELSE array.group[w]
  BY <1>1 DEF GroupsInv, GroupsTyped
<1>3. /\ \A g \in GroupNames : Members(g) \ {v} \subseteq Members(g)'
      /\ \A g \in GroupNames : Members(g)' \subseteq Members(g) \union {v}
      /\ \A g \in GroupNames \ {req[t].uid} : Members(g)' \subseteq Members(g)
  BY <1>2, GroupsAssumption DEF Members
<1>4. WantedInv'
  BY <1>3 DEF GroupsInv, WantedInv
<1>5. MembersAsAnswered'
  BY <1>1, <1>2, <1>3 DEF GroupsInv, MembersAsAnswered
<1>6. ASSUME NEW u \in Threads, u # t
      PROVE  GroupPlaceInv(u)' /\ UpdateInv(u)' /\ TakeInv(u)'
  <2>1. /\ pc'[u] = pc[u] /\ req'[u] = req[u] /\ local'[u] = local[u]
        /\ GroupPlaceInv(u) /\ UpdateInv(u) /\ TakeInv(u)
    BY <1>6 DEF Alone, GroupsInv
  <2>2. GroupPlaceInv(u)'
    BY <2>1 DEF GroupPlaceInv
  <2>3. UpdateInv(u)'
    <3>1. CASE pc[u] \in Updating
      <4>1. /\ pc[u] # "idle" /\ req[u].uid \in GroupNames /\ req[u].op = "modifyGroup"
            /\ req[u].uid # req[t].uid /\ req[u].volumes \subseteq GroupVolumes
        BY <1>1, <1>6, <2>1, <3>1, GroupLock, GroupsApart DEF GroupPlaceInv, Updating
      <4>2. Members(req[u].uid)' \subseteq Members(req[u].uid)
        <5>1. req[u].uid \in GroupNames \ {req[t].uid}
          BY <4>1
        <5> QED
          BY <1>3, <2>1, <5>1
      <4>3. \A w \in req[u].volumes :
              \/ w \in Members(req[u].uid)' \union local[u].adding
              \/ \E g \in GroupNames \ {req[u].uid} : w \in known.wanted[g]
        BY <1>1, <1>3, <2>1, <3>1, <4>1 DEF UpdateInv
      <4> QED
        BY <2>1, <3>1, <4>2, <4>3 DEF UpdateInv
    <3> QED
      BY <2>1, <3>1 DEF UpdateInv
  <2>4. TakeInv(u)'
    <3>1. Taking(u)' = Taking(u)
      BY <1>2, <2>1 DEF Taking
    <3>2. \A g \in GroupNames : known.members[g] # None => Members(g)' \subseteq Members(g)
      BY <1>1, <1>3
    <3> QED
      BY <2>1, <3>1, <3>2 DEF TakeInv
  <2> QED
    BY <2>2, <2>3, <2>4
<1> QED
  BY <1>1, <1>2, <1>4, <1>5, <1>6 DEF GroupsInv

LEMMA JoinKeeps ==
  ASSUME GroupsInv, NEW t \in Threads, Join(t)
  PROVE  GroupsInv'
<1>1. /\ service = "groups" /\ pc[t] = "join" /\ GroupPlaceInv(t) /\ UpdateInv(t) /\ TakeInv(t)
      /\ req[t] \in GroupRequest /\ local[t] \in GroupMemo /\ req[t].uid \in GroupNames
      /\ req[t].volumes \subseteq GroupVolumes
  BY GroupLock DEF Join, At, GroupsInv, GroupPlaceInv, Updating
<1>2. CASE Reject(t)
  BY <1>1, <1>2, GroupsReject
<1> DEFINE v == local[t].next
           memo == [local[t] EXCEPT !.adding = @ \ {v}, !.next = None]
<1>3. CASE array' = [array EXCEPT !.group[v] = req[t].uid] /\ Proceed(t, "add", memo) /\ known' = known
  <2>1. v \in local[t].adding /\ v \in req[t].volumes /\ v \in GroupVolumes
    BY <1>1 DEF UpdateInv, Updating
  <2>2. /\ memo \in GroupMemo /\ memo.adding = local[t].adding \ {v}
        /\ memo.removing = local[t].removing
    BY <1>1 DEF GroupMemo
  <2> HIDE DEF v, memo
  <2>3. /\ Moves(t) /\ Alone(t) /\ pc'[t] = "add" /\ req'[t] = req[t] /\ local'[t] = memo
    BY <1>1, <1>3, ProceedMoves DEF GroupsInv
  <2>4. GroupPlaceInv(t)'
    BY <1>1, <1>3, <2>2, <2>3 DEF GroupPlaceInv, GroupPlace, Updating
  <2>5. /\ array'.partition = array.partition
        /\ Members(req[t].uid)' = Members(req[t].uid) \union {v}
        /\ \A g \in GroupNames \ {req[t].uid} : Members(g)' \subseteq Members(g)
    <3>1. /\ array'.partition = array.partition
          /\ \A w \in GroupVolumes : array'.group[w] = IF w = v THEN req[t].uid ELSE array.group[w]
      BY <1>1, <1>3, <2>1 DEF GroupsInv, GroupsTyped
    <3> QED
      BY <2>1, <2>3, <3>1 DEF Members
  <2>6. UpdateInv(t)'
    BY <1>1, <1>3, <2>1, <2>2, <2>3, <2>5 DEF UpdateInv, Updating
  <2>7. TakeInv(t)'
    <3>1. Taking(t)' \subseteq Taking(t)
      BY <1>1, <2>2, <2>3, <2>5 DEF Taking
    <3> QED
      BY <1>1, <1>3, <2>3, <2>5, <3>1 DEF TakeInv, Updating
  <2>8. v \in Taking(t) /\ v \in known.wanted[req[t].uid]
    BY <1>1, <2>1 DEF Taking, GroupPlaceInv, Updating, v
  <2>9. \A g \in GroupNames \ {req[t].uid} :
          known.members[g] # None /\ v \in Members(g) => v \in known.contested[g]
    BY <1>1, <2>8 DEF TakeInv, Updating
  <2> QED
    BY <1>1, <1>3, <2>1, <2>3, <2>4, <2>6, <2>7, <2>8, <2>9, VolumeMoves DEF Updating
<1> QED
  BY <1>2, <1>3 DEF Join

LEMMA LeaveNextKeeps ==
  ASSUME GroupsInv, NEW t \in Threads, LeaveNext(t)
  PROVE  GroupsInv'
<1>1. /\ service = "groups" /\ pc[t] = "leave" /\ GroupPlaceInv(t) /\ UpdateInv(t) /\ TakeInv(t)
      /\ req[t] \in GroupRequest /\ local[t] \in GroupMemo /\ req[t].uid \in GroupNames
      /\ req[t].volumes \subseteq GroupVolumes
  BY GroupLock DEF LeaveNext, At, GroupsInv, GroupPlaceInv, Updating
<1>2. CASE local[t].removing = {} /\ Continue(t, "confirm") /\ UNCHANGED <<array, known>>
  <2>1. /\ Moves(t) /\ Alone(t) /\ pc'[t] = "confirm" /\ req'[t] = req[t] /\ local'[t] = local[t]
        /\ array' = array /\ known' = known
    BY <1>1, <1>2, ContinueMoves DEF GroupsInv
  <2>2. GroupPlaceInv(t)'
    BY <1>1, <2>1 DEF GroupPlaceInv, GroupPlace, Updating
  <2>3. UpdateInv(t)'
    BY <1>1, <1>2, <2>1 DEF UpdateInv, Updating, Members
  <2>4. TakeInv(t)'
    BY <1>1, <2>1 DEF TakeInv, Updating, Taking, Members
  <2> QED
    BY <1>2, <2>1, <2>2, <2>3, <2>4, GroupsQuiet
<1>3. ASSUME NEW v \in local[t].removing, array' = [array EXCEPT !.group[v] = None],
             Proceed(t, "leave", [local[t] EXCEPT !.removing = @ \ {v}]), known' = known
      PROVE  GroupsInv'
  <2> DEFINE memo == [local[t] EXCEPT !.removing = @ \ {v}]
  <2>1. v \in GroupVolumes /\ v \in known.wanted[req[t].uid] \ req[t].volumes
    BY <1>1, <1>3 DEF UpdateInv, Updating, GroupMemo
  <2>2. /\ memo \in GroupMemo /\ memo.adding = local[t].adding
        /\ memo.removing = local[t].removing \ {v}
    BY <1>1 DEF GroupMemo
  <2>3. Proceed(t, "leave", memo)
    BY <1>3
  <2> HIDE DEF memo
  <2>4. /\ Moves(t) /\ Alone(t) /\ pc'[t] = "leave" /\ req'[t] = req[t] /\ local'[t] = memo
    BY <1>1, <2>3, ProceedMoves DEF GroupsInv
  <2>5. GroupPlaceInv(t)'
    BY <1>1, <1>3, <2>2, <2>4 DEF GroupPlaceInv, GroupPlace, Updating
  <2>6. /\ array'.partition = array.partition
        /\ \A g \in GroupNames : Members(g)' = Members(g) \ {v}
    BY <1>1, <1>3, <2>1, GroupsAssumption DEF GroupsInv, GroupsTyped, Members
  <2>7. UpdateInv(t)'
    BY <1>1, <1>3, <2>1, <2>2, <2>4, <2>6 DEF UpdateInv, Updating
  <2>8. TakeInv(t)'
    <3>1. Taking(t)' \subseteq Taking(t)
      BY <1>1, <2>2, <2>4, <2>6 DEF Taking
    <3> QED
      BY <1>1, <1>3, <2>4, <2>6, <3>1 DEF TakeInv, Updating
  <2>9. \A g \in GroupNames \ {req[t].uid} :
          known.members[g] # None /\ v \in Members(g) => v \in known.contested[g]
    BY <1>1, <1>3 DEF TakeInv, Updating, Taking
  <2> QED
    BY <1>1, <1>3, <2>1, <2>4, <2>5, <2>7, <2>8, <2>9, VolumeMoves DEF Updating
<1> QED
  BY <1>2, <1>3 DEF LeaveNext

LEMMA ConfirmKeeps ==
  ASSUME GroupsInv, NEW t \in Threads, Confirm(t)
  PROVE  GroupsInv'
<1>1. /\ service = "groups" /\ pc[t] = "confirm" /\ GroupPlaceInv(t) /\ UpdateInv(t)
      /\ req[t] \in GroupRequest /\ req[t].uid \in GroupNames /\ req[t].op = "modifyGroup"
      /\ req[t].volumes \subseteq GroupVolumes
  BY GroupLock DEF Confirm, At, GroupsInv, GroupPlaceInv, Updating
<1>2. CASE Reject(t)
  BY <1>1, <1>2, GroupsReject
<1>3. CASE /\ known' = [known EXCEPT !.members[req[t].uid] = req[t].volumes,
                                     !.contested[req[t].uid] = Contested(t)]
           /\ Return(t) /\ UNCHANGED array
  <2>1. Moves(t) /\ Alone(t) /\ pc'[t] = "idle" /\ Locked' /\ service' = "groups"
    BY <1>1, <1>3, ReturnMoves, MovesKeepLocked DEF GroupsInv, Moves
  <2>2. ASSUME NEW u \in Threads, u # t, pc[u] # "idle", req[u].op = "modifyGroup"
        PROVE  /\ req[u] \in GroupRequest /\ req[u].uid \in GroupNames /\ req[u].uid # req[t].uid
               /\ req[u].volumes \union local[u].removing \subseteq Contested(t)
    <3>1. req[u] \in GroupRequest /\ req[u] # None /\ req[u].uid \in GroupNames
      BY <2>2, GroupLock DEF GroupsInv, GroupPlaceInv
    <3> QED
      BY <1>1, <2>2, <3>1, GroupsApart DEF Contested
  <2>3. Contested(t) \subseteq GroupVolumes
    <3>1. ASSUME NEW u \in Threads, req[u] # None, req[u].op = "modifyGroup"
          PROVE  req[u].volumes \union local[u].removing \subseteq GroupVolumes
      BY <3>1, GroupLock DEF GroupsInv, GroupPlaceInv, GroupMemo, Locked
    <3> QED
      <4>1. UNION {known.wanted[g] : g \in GroupNames \ {req[t].uid}} \subseteq GroupVolumes
        BY DEF GroupsInv, GroupsTyped
      <4>2. UNION {req[x].volumes \union local[x].removing :
                     x \in {y \in Threads \ {t} : req[y] # None /\ req[y].op = "modifyGroup"}}
              \subseteq GroupVolumes
        BY <3>1
      <4> QED
        BY <4>1, <4>2, Zenon DEF Contested
  <2> DEFINE contest == Contested(t)
  <2>4. /\ GroupsTyped' /\ known'.gone = known.gone /\ known'.wanted = known.wanted
        /\ \A g \in GroupNames :
             /\ known'.members[g] = IF g = req[t].uid THEN req[t].volumes ELSE known.members[g]
             /\ known'.contested[g] = IF g = req[t].uid THEN contest ELSE known.contested[g]
    <3>1. known' = [known EXCEPT !.members[req[t].uid] = req[t].volumes,
                                 !.contested[req[t].uid] = contest]
      BY <1>3
    <3>2. contest \subseteq GroupVolumes
      BY <2>3
    <3>3. /\ known.members \in [GroupNames -> (SUBSET GroupVolumes) \union {None}]
          /\ known.contested \in [GroupNames -> SUBSET GroupVolumes]
          /\ known = [wanted |-> known.wanted, members |-> known.members,
                      contested |-> known.contested, gone |-> known.gone]
      BY DEF GroupsInv, GroupsTyped
    <3> DEFINE members == [known.members EXCEPT ![req[t].uid] = req[t].volumes]
               contested == [known.contested EXCEPT ![req[t].uid] = contest]
    <3>4. known' = [known EXCEPT !.members = members, !.contested = contested]
      BY <3>1
    <3>5. /\ members \in [GroupNames -> (SUBSET GroupVolumes) \union {None}]
          /\ contested \in [GroupNames -> SUBSET GroupVolumes]
          /\ \A g \in GroupNames :
               /\ members[g] = IF g = req[t].uid THEN req[t].volumes ELSE known.members[g]
               /\ contested[g] = IF g = req[t].uid THEN contest ELSE known.contested[g]
      <4> HIDE DEF contest
      <4> QED
        BY <1>1, <3>2, <3>3
    <3> HIDE DEF contest, members, contested
    <3>6. known' = [wanted |-> known.wanted, members |-> members,
                    contested |-> contested, gone |-> known.gone]
      BY <3>3, <3>4
    <3>7. known' \in [wanted : [GroupNames -> SUBSET GroupVolumes],
                      members : [GroupNames -> (SUBSET GroupVolumes) \union {None}],
                      contested : [GroupNames -> SUBSET GroupVolumes], gone : SUBSET GroupNames]
      BY <3>5, <3>6 DEF GroupsInv, GroupsTyped
    <3>8. GroupsTyped'
      BY <1>3, <3>7 DEF GroupsInv, GroupsTyped
    <3>9. /\ known'.gone = known.gone /\ known'.wanted = known.wanted
          /\ known'.members = members /\ known'.contested = contested
      BY <3>6
    <3> QED
      BY <3>5, <3>8, <3>9
  <2>5. \A g : Members(g)' = Members(g)
    BY <1>3 DEF Members
  <2>6. WantedInv'
    BY <2>4, <2>5 DEF GroupsInv, WantedInv
  <2>7. /\ Members(req[t].uid) \subseteq req[t].volumes
        /\ req[t].volumes \ Members(req[t].uid) \subseteq contest
    <3>1. /\ Members(req[t].uid) \subseteq req[t].volumes
          /\ \A v \in req[t].volumes \ Members(req[t].uid) :
               \E g \in GroupNames \ {req[t].uid} : v \in known.wanted[g]
      BY <1>1 DEF UpdateInv, Updating
    <3>2. (UNION {known.wanted[g] : g \in GroupNames \ {req[t].uid}}) \ Members(req[t].uid)
            \subseteq contest
      BY Zenon DEF Contested
    <3> HIDE DEF contest
    <3> QED
      BY <3>1, <3>2
  <2>8. MembersAsAnswered'
    <3> HIDE DEF contest
    <3> QED
      BY <1>1, <1>3, <2>4, <2>5, <2>7 DEF GroupsInv, MembersAsAnswered
  <2>9. ASSUME NEW u \in Threads
        PROVE  GroupPlaceInv(u)' /\ UpdateInv(u)' /\ TakeInv(u)'
    <3>1. CASE u = t
      BY <2>1, <3>1 DEF GroupPlaceInv, UpdateInv, TakeInv, GroupPlace, Updating
    <3>2. CASE u # t
      <4>1. /\ pc'[u] = pc[u] /\ req'[u] = req[u] /\ local'[u] = local[u]
            /\ GroupPlaceInv(u) /\ UpdateInv(u) /\ TakeInv(u)
            /\ pc[u] # "idle" => req[u] \in GroupRequest
            /\ pc[u] # "idle" /\ req[u].op # "createGroup" =>
                 req[u].uid \in GroupNames /\ req[u].uid # req[t].uid
        BY <1>1, <2>1, <3>2, GroupLock, GroupsApart DEF Alone, GroupsInv, GroupPlaceInv
      <4>2. GroupPlaceInv(u)'
        BY <2>4, <4>1 DEF GroupPlaceInv, Updating
      <4>3. UpdateInv(u)'
        BY <2>4, <2>5, <4>1 DEF UpdateInv
      <4>4. TakeInv(u)'
        <5>1. CASE pc[u] \in Updating \union {"readMembers"}
          <6>1. /\ pc[u] # "idle" /\ req[u].op = "modifyGroup"
                /\ pc[u] = "join" => local[u].next \in req[u].volumes
            BY <4>1, <5>1 DEF GroupPlaceInv, UpdateInv, Updating
          <6>2. Taking(u) \subseteq req[u].volumes \union local[u].removing
            BY <6>1 DEF Taking
          <6>3. Taking(u) \subseteq contest
            BY <2>2, <3>2, <6>1, <6>2
          <6>4. Taking(u)' = Taking(u)
            BY <1>3, <4>1 DEF Taking
          <6> HIDE DEF contest
          <6> QED
            BY <2>4, <2>5, <4>1, <5>1, <6>3, <6>4 DEF TakeInv
        <5> QED
          BY <4>1, <5>1 DEF TakeInv
      <4> QED
        BY <4>2, <4>3, <4>4
    <3> QED
      BY <3>1, <3>2
  <2> QED
    BY <2>1, <2>4, <2>6, <2>8, <2>9 DEF GroupsInv
<1> QED
  BY <1>2, <1>3 DEF Confirm

LEMMA GroupsStep ==
  ASSUME GroupsInv, GroupsNext
  PROVE  GroupsInv'
<1>1. ASSUME NEW t \in Threads, GroupsFail(t)
      PROVE  GroupsInv'
  BY <1>1, GroupsFreed DEF GroupsFail
<1> QED
  BY <1>1, CallGroupsKeeps, FindGroupKeeps, MakeGroupKeeps, ReadGroupKeeps, RemoveGroupKeeps,
     ReadMembersKeeps, AddNextKeeps, JoinKeeps, LeaveNextKeeps, ConfirmKeeps DEF GroupsNext

LEMMA CrashKeepsGroups ==
  ASSUME GroupsInv, Crash
  PROVE  GroupsInv'
<1>1. Locked'
  BY CrashKeepsLocked DEF GroupsInv
<1>2. UNCHANGED <<service, array, known>> /\ \A t \in Threads : pc'[t] = "idle"
  BY DEF Crash
<1>3. GroupsTyped' /\ WantedInv' /\ MembersAsAnswered'
  BY <1>2 DEF GroupsInv, GroupsTyped, WantedInv, MembersAsAnswered, Members
<1> QED
  BY <1>1, <1>2, <1>3 DEF GroupsInv, GroupPlaceInv, UpdateInv, TakeInv, GroupPlace, Updating

-----------------------------------------------------------------------------
(* Replication.                                                            *)

ReplicationTyped ==
  /\ array \in [type : {"mirror", "ear"}, link : BOOLEAN,
                copy : Mirror \union Policy \union {NotReplicated}]
  /\ copy \in (IF array.type = "mirror" THEN Mirror ELSE Policy) \union {NotReplicated}
  /\ known \in [enabled : SUBSET Variants, disabled : SUBSET Variants, promoted : BOOLEAN]
  /\ failures \in Nat

(* The request that is running, and what it has found: nothing that was    *)
(* answered is in its way, and what it works on is replicated, unless the  *)
(* other side interferes in the role the request found.                    *)
Replicating(t) ==
  pc[t] # "idle" =>
    /\ pc[t] \in ReplicationPlace /\ req[t] \in ReplicationRequest /\ local[t] \in [disturbed : BOOLEAN]
    /\ known.promoted = FALSE
    /\ req[t].op \in {"enable", "disable"} => known.enabled = {}
    /\ req[t].op = "enable" => known.disabled = {}
    /\ pc[t] \in {"make", "start"} => req[t].op = "enable" /\ array.type = "mirror"
    /\ pc[t] = "start" => copy.variant = req[t].variant
    /\ pc[t] \in {"stop", "remove"} => req[t].op = "disable" /\ array.type = "mirror"
    /\ pc[t] \in {"look", "restart", "switch"} =>
         req[t].op \in {"promote", "demote"} /\ array.type = "mirror" /\ copy.variant # None
    /\ pc[t] = "detach" => req[t].op \in {"enable", "disable"} /\ array.type = "ear"
    /\ pc[t] = "attach" => req[t].op = "enable" /\ array.type = "ear"
    /\ pc[t] \in {"free", "produce"} =>
         req[t].op = "promote" /\ array.type = "ear" /\ copy.variant # None
    /\ pc[t] = "free" => local[t].disturbed \/ copy.role \in {"recovery", "independent"}
    /\ pc[t] = "produce" => local[t].disturbed \/ copy.role = "independent"

ReplicationInv ==
  /\ Locked /\ ReplicationTyped /\ ReplicatedAsAnswered
  /\ \A t \in Threads : Replicating(t)

LEMMA InitReplicationInv ==
  ASSUME InitReplication
  PROVE  ReplicationInv
<1>1. Locked
  BY InitLocked DEF InitReplication
<1>2. /\ \A t \in Threads : pc[t] = "idle"
      /\ known = [enabled |-> {}, disabled |-> {}, promoted |-> FALSE] /\ failures = 0
      /\ \E type \in {"mirror", "ear"} : array = [type |-> type, link |-> TRUE, copy |-> NotReplicated]
  BY DEF InitReplication, InitService
<1>3. ReplicationTyped
  BY <1>2 DEF ReplicationTyped, copy
<1> QED
  BY <1>1, <1>2, <1>3 DEF ReplicationInv, ReplicatedAsAnswered, Replicating

(* All requests have one lock: at most one thread is at work.              *)
LEMMA OneReplicates ==
  ASSUME ReplicationInv, NEW t \in Threads, NEW u \in Threads, pc[t] # "idle", pc[u] # "idle"
  PROVE  t = u
<1>1. /\ req[t] \in ReplicationRequest /\ req[u] \in ReplicationRequest
      /\ req[t] # None /\ req[u] # None
  BY DEF ReplicationInv, Replicating, Locked
<1>2. /\ req[t].op \in {"enable", "disable", "promote", "demote"}
      /\ req[u].op \in {"enable", "disable", "promote", "demote"}
  BY <1>1 DEF ReplicationRequest
<1>3. LockOf(req[t]) = LockOf(req[u])
  BY Zenon, <1>2 DEF LockOf
<1> QED
  BY <1>1, <1>3 DEF ReplicationInv, Locked

(* A step of the thread at work, after which its own part holds.           *)
LEMMA ReplicatesOn ==
  ASSUME ReplicationInv, NEW t \in Threads, pc[t] # "idle", Moves(t), Alone(t),
         ReplicationTyped', ReplicatedAsAnswered', Replicating(t)'
  PROVE  ReplicationInv'
<1>1. Locked'
  BY MovesKeepLocked DEF ReplicationInv
<1>2. ASSUME NEW u \in Threads, u # t
      PROVE  Replicating(u)'
  BY <1>2, OneReplicates DEF Alone, Replicating
<1> QED
  BY <1>1, <1>2 DEF ReplicationInv

LEMMA ReplicationGoesOn ==
  ASSUME ReplicationInv, service = "replication", NEW t \in Threads, pc[t] # "idle",
         NEW to \in ReplicationPlace \ {"idle"}, Continue(t, to), known' = known,
         ReplicationTyped', failures' \in {failures, failures + 1},
         req[t].op = "enable" \/ copy'.variant = copy.variant
           \/ (req[t].op = "disable" /\ copy'.variant = None),
         Replicating(t)'
  PROVE  ReplicationInv'
<1>1. /\ Moves(t) /\ Alone(t) /\ req'[t] = req[t] /\ Replicating(t) /\ service' = service
  BY ContinueMoves DEF ReplicationInv, Moves
<1>2. ReplicatedAsAnswered'
  BY <1>1, ReplicationAssumption
     DEF ReplicationInv, ReplicatedAsAnswered, ReplicationTyped, Replicating, copy
<1> QED
  BY <1>1, <1>2, ReplicatesOn

LEMMA ReplicationFreed ==
  ASSUME ReplicationInv, service = "replication", NEW t \in Threads, pc[t] # "idle", Return(t),
         UNCHANGED <<array, known>>, failures' \in {failures, failures + 1}
  PROVE  ReplicationInv'
<1>1. Moves(t) /\ Alone(t) /\ pc'[t] = "idle" /\ service' = service
  BY ReturnMoves DEF ReplicationInv, Moves
<1>2. ReplicationTyped' /\ ReplicatedAsAnswered'
  BY <1>1 DEF ReplicationInv, ReplicationTyped, ReplicatedAsAnswered, copy, IsPrimary
<1>3. Replicating(t)'
  BY <1>1 DEF Replicating
<1> QED
  BY <1>1, <1>2, <1>3, ReplicatesOn

LEMMA ReplicationReject ==
  ASSUME ReplicationInv, service = "replication", NEW t \in Threads, pc[t] # "idle", Reject(t)
  PROVE  ReplicationInv'
  BY ReplicationFreed DEF Reject, NoFault

(* What an answer records, and what must hold for it to be right.          *)
LEMMA ReplicationAnswered ==
  ASSUME ReplicationInv, service = "replication", NEW t \in Threads, pc[t] # "idle", Answered(t),
         array' \in [type : {array.type}, link : BOOLEAN,
                     copy : (IF array.type = "mirror" THEN Mirror ELSE Policy) \union {NotReplicated}],
         failures' \in {failures, failures + 1},
         req[t].op = "enable" => copy'.variant = req[t].variant,
         req[t].op = "disable" => copy'.variant \in {None, copy.variant},
         req[t].op = "disable" => copy'.variant # req[t].variant \/ failures' > 0,
         req[t].op \in {"promote", "demote"} => copy'.variant = copy.variant,
         req[t].op = "promote" =>
           local[t].disturbed \/ IsPrimary' \/ copy'.state = "idle" \/ failures' > 0
  PROVE  ReplicationInv'
<1>1. /\ Return(t) /\ Replicating(t) /\ req[t] \in ReplicationRequest
      /\ local[t].disturbed \in BOOLEAN /\ req[t].variant \in Variants
      /\ req[t].op \in {"enable", "disable", "promote", "demote"}
  BY DEF Answered, ReplicationInv, Replicating, ReplicationRequest
<1>2. Moves(t) /\ Alone(t) /\ pc'[t] = "idle" /\ service' = service
  BY <1>1, ReturnMoves DEF ReplicationInv, Moves
<1>3. /\ known' \in [enabled : SUBSET Variants, disabled : SUBSET Variants, promoted : BOOLEAN]
      /\ known'.enabled = IF req[t].op = "enable" THEN {req[t].variant} ELSE known.enabled
      /\ known'.disabled = IF req[t].op = "disable" THEN known.disabled \union {req[t].variant}
                             ELSE known.disabled
      /\ known'.promoted = IF req[t].op = "promote" THEN ~ local[t].disturbed ELSE FALSE
  <2>1. CASE req[t].op = "enable"
    <3>1. known' = [known EXCEPT !.enabled = {req[t].variant}]
      BY <2>1 DEF Answered
    <3> QED
      BY <1>1, <2>1, <3>1 DEF ReplicationInv, ReplicationTyped, Replicating
  <2>2. CASE req[t].op = "disable"
    <3>1. known' = [known EXCEPT !.disabled = @ \union {req[t].variant}]
      BY <2>2 DEF Answered
    <3> QED
      BY <1>1, <2>2, <3>1 DEF ReplicationInv, ReplicationTyped, Replicating
  <2>3. CASE req[t].op = "promote"
    <3>1. known' = [known EXCEPT !.promoted = ~ local[t].disturbed]
      BY <2>3 DEF Answered
    <3> QED
      BY <1>1, <2>3, <3>1 DEF ReplicationInv, ReplicationTyped, Replicating
  <2>4. CASE req[t].op = "demote"
    <3>1. known' = known
      BY <2>4 DEF Answered
    <3> QED
      BY <1>1, <2>4, <3>1 DEF ReplicationInv, ReplicationTyped, Replicating
  <2> QED
    BY <1>1, <2>1, <2>2, <2>3, <2>4
<1>4. ReplicationTyped'
  BY <1>3 DEF ReplicationInv, ReplicationTyped, copy
<1>5. ReplicatedAsAnswered'
  <2>1. \A x \in known'.enabled : copy'.variant = x
    BY <1>1, <1>3 DEF ReplicationInv, ReplicatedAsAnswered, Replicating
  <2>2. \A x \in known'.disabled : copy'.variant # x \/ failures' > 0
    BY <1>1, <1>3, ReplicationAssumption
       DEF ReplicationInv, ReplicatedAsAnswered, ReplicationTyped, Replicating
  <2>3. known'.promoted => IsPrimary' \/ copy'.state = "idle" \/ failures' > 0
    BY <1>1, <1>3
  <2> QED
    BY <2>1, <2>2, <2>3 DEF ReplicatedAsAnswered
<1>6. Replicating(t)'
  BY <1>2 DEF Replicating
<1> QED
  BY <1>2, <1>4, <1>5, <1>6, ReplicatesOn

LEMMA CallReplicationKeeps ==
  ASSUME ReplicationInv, NEW t \in Threads, CallReplication(t)
  PROVE  ReplicationInv'
<1>1. PICK r \in ReplicationRequest :
        /\ Enter(t, r, "get", [disturbed |-> FALSE])
        /\ known' = [enabled |-> IF r.op \in {"enable", "disable"} THEN {} ELSE known.enabled,
                     disabled |-> IF r.op = "enable" THEN {} ELSE known.disabled,
                     promoted |-> FALSE]
  BY DEF CallReplication
<1>2. /\ Moves(t) /\ Alone(t) /\ pc[t] = "idle" /\ service = "replication" /\ Locked'
      /\ pc'[t] = "get" /\ req'[t] = r /\ local'[t] = [disturbed |-> FALSE]
      /\ UNCHANGED <<service, array, failures>>
  <2>1. Locked /\ service = "replication" /\ r # None
    BY ReplicationAssumption DEF ReplicationInv, CallReplication
  <2>2. /\ Moves(t) /\ Alone(t) /\ pc[t] = "idle"
        /\ pc'[t] = "get" /\ req'[t] = r /\ local'[t] = [disturbed |-> FALSE]
        /\ UNCHANGED <<service, array, failures>>
    BY <1>1, <2>1, EnterMoves
  <2> QED
    BY <2>1, <2>2, MovesKeepLocked
<1>3. ReplicationTyped' /\ ReplicatedAsAnswered'
  BY <1>1, <1>2 DEF ReplicationInv, ReplicationTyped, ReplicatedAsAnswered, copy
<1>4. Replicating(t)'
  BY <1>1, <1>2 DEF Replicating, ReplicationPlace
<1>5. ASSUME NEW u \in Threads, u # t
      PROVE  Replicating(u)'
  <2>1. pc'[u] = pc[u] /\ req'[u] = req[u] /\ local'[u] = local[u] /\ Replicating(u)
    BY <1>2, <1>5 DEF Alone, ReplicationInv
  <2> QED
    BY <1>1, <1>2, <2>1 DEF Replicating, copy
<1> QED
  BY <1>2, <1>3, <1>4, <1>5 DEF ReplicationInv

LEMMA ReplicationGetKeeps ==
  ASSUME ReplicationInv, NEW t \in Threads, GetToEnable(t) \/ GetToDisable(t) \/ GetToSwitch(t)
  PROVE  ReplicationInv'
<1>1. /\ service = "replication" /\ pc[t] = "get" /\ Replicating(t) /\ ReplicationTyped
      /\ req[t] \in ReplicationRequest /\ req[t].variant # None
      /\ array.type \in {"mirror", "ear"} /\ failures \in Nat
  BY ReplicationAssumption DEF GetToEnable, GetToDisable, GetToSwitch, At, ReplicationInv,
     Replicating, ReplicationRequest, ReplicationTyped
<1>2. CASE Reject(t)
  BY <1>1, <1>2, ReplicationReject
<1>3. ASSUME NEW to, GoOn(t, to), to \in {"make", "stop", "detach", "look", "free"},
             to \in {"make", "stop", "look"} <=> array.type = "mirror",
             to = "make" => req[t].op = "enable", to = "stop" => req[t].op = "disable",
             to = "detach" => req[t].op \in {"enable", "disable"},
             to \in {"look", "free"} => req[t].op \in {"promote", "demote"} /\ copy.variant # None,
             to = "free" => req[t].op = "promote" /\ ~ IsPrimary
      PROVE  ReplicationInv'
  <2>1. /\ to \in ReplicationPlace \ {"idle"} /\ Continue(t, to) /\ UNCHANGED <<array, known, failures>>
    BY <1>3 DEF GoOn, NoFault, ReplicationPlace
  <2>2. /\ pc'[t] = to /\ req'[t] = req[t] /\ local'[t] = local[t]
    BY <1>1, <2>1, ContinueMoves DEF ReplicationInv
  <2>3. ReplicationTyped'
    BY <1>1, <2>1 DEF ReplicationTyped, copy
  <2>4. to = "free" => copy.role \in {"recovery", "independent"}
    BY <1>1, <1>3 DEF ReplicationTyped, IsPrimary, Policy, NotReplicated
  <2>5. Replicating(t)'
    BY <1>1, <1>3, <2>1, <2>2, <2>4 DEF Replicating, copy
  <2> QED
    BY <1>1, <2>1, <2>3, <2>5, ReplicationGoesOn DEF copy
<1>4. CASE GetToEnable(t) /\ ~ Reject(t)
  <2>1. CASE Replicated(req[t]) /\ Done(t)
    <3>1. copy.variant = req[t].variant
      BY <1>1, <1>4, <2>1 DEF GetToEnable, Replicated
    <3> QED
      BY <1>1, <1>4, <2>1, <3>1, ReplicationAnswered
         DEF Done, NoFault, GetToEnable, ReplicationTyped, copy
  <2>2. CASE GoOn(t, IF array.type = "mirror" THEN "make" ELSE "detach")
    BY <1>1, <1>3, <1>4, <2>2 DEF GetToEnable
  <2> QED
    BY <1>4, <2>1, <2>2 DEF GetToEnable
<1>5. CASE GetToDisable(t)
  <2>1. CASE ~ Replicated(req[t]) /\ Done(t)
    <3>1. copy.variant # req[t].variant
      BY <1>1, <1>5, <2>1 DEF Replicated
    <3> QED
      BY <1>1, <1>5, <2>1, <3>1, ReplicationAnswered
         DEF Done, NoFault, GetToDisable, ReplicationTyped, copy
  <2>2. CASE GoOn(t, IF array.type = "mirror" THEN "stop" ELSE "detach")
    BY <1>1, <1>3, <1>5, <2>2 DEF GetToDisable
  <2> QED
    BY <1>5, <2>1, <2>2 DEF GetToDisable
<1>6. CASE GetToSwitch(t) /\ ~ Reject(t)
  <2> DEFINE hasRole == IF req[t].op = "promote" THEN IsPrimary
                          ELSE array.type = "ear" \/ copy.role = "there"
  <2>1. CASE hasRole /\ Done(t)
    BY <1>1, <1>6, <2>1, ReplicationAnswered
       DEF Done, NoFault, GetToSwitch, ReplicationTyped, copy, IsPrimary
  <2>2. CASE /\ Replicated(req[t]) /\ ~ hasRole
             /\ GoOn(t, IF array.type = "mirror" THEN "look" ELSE "free")
    <3>1. copy.variant # None /\ req[t].op \in {"promote", "demote"}
      BY <1>6, <2>2 DEF Replicated, GetToSwitch
    <3> QED
      BY <1>1, <1>3, <2>2, <3>1
  <2> QED
    BY <1>6, <2>1, <2>2 DEF GetToSwitch
<1> QED
  BY <1>2, <1>4, <1>5, <1>6

LEMMA MirrorMadeKeeps ==
  ASSUME ReplicationInv, NEW t \in Threads, MakeMirror(t) \/ StartMirror(t)
  PROVE  ReplicationInv'
<1>1. /\ service = "replication" /\ pc[t] \in {"make", "start"} /\ Replicating(t)
      /\ ReplicationTyped /\ req[t] \in ReplicationRequest /\ req[t].variant \in Variants
      /\ array.type = "mirror" /\ req[t].op = "enable" /\ failures \in Nat
  BY DEF MakeMirror, StartMirror, At, ReplicationInv, Replicating, ReplicationRequest,
     ReplicationTyped
<1>2. CASE Reject(t)
  BY <1>1, <1>2, ReplicationReject
<1>3. CASE MakeMirror(t) /\ ~ Reject(t)
  <2> DEFINE made == [variant |-> req[t].variant, state |-> "stopped", role |-> "here"]
  <2>1. /\ array' = [array EXCEPT !.copy = made]
        /\ Continue(t, "start") /\ UNCHANGED <<failures, known>>
    BY <1>3 DEF MakeMirror, PutCopy, NoFault
  <2>2. made \in Mirror
    BY <1>1 DEF Mirror
  <2>3. made.variant = req[t].variant
    OBVIOUS
  <2> HIDE DEF made
  <2>4. /\ array' \in [type : {"mirror"}, link : BOOLEAN, copy : Mirror] /\ array'.copy = made
    BY <1>1, <2>1, <2>2 DEF ReplicationTyped
  <2>5. ReplicationTyped'
    BY <1>1, <2>1, <2>4 DEF ReplicationTyped, copy
  <2>6. pc'[t] = "start" /\ req'[t] = req[t] /\ local'[t] = local[t]
    BY <1>1, <2>1, ContinueMoves DEF ReplicationInv
  <2>7. Replicating(t)'
    BY <1>1, <2>1, <2>3, <2>4, <2>6 DEF Replicating, ReplicationPlace, copy
  <2> QED
    BY <1>1, <2>1, <2>5, <2>7, ReplicationGoesOn DEF ReplicationPlace
<1>4. CASE StartMirror(t)
  <2> DEFINE state == IF array.link THEN "running" ELSE copy.state
  <2>1. /\ array' = [array EXCEPT !.copy.state = state]
        /\ pc[t] = "start" /\ Answered(t) /\ UNCHANGED failures
    BY <1>4 DEF StartMirror, At, NoFault, copy
  <2>2. copy \in Mirror /\ copy.variant = req[t].variant /\ state \in {"stopped", "running", "idle"}
    BY <1>1, <2>1, ReplicationAssumption
       DEF Replicating, ReplicationTyped, NotReplicated, Mirror
  <2> HIDE DEF state
  <2>3. /\ array' \in [type : {"mirror"}, link : BOOLEAN, copy : Mirror]
        /\ array'.copy.variant = copy.variant
    BY <1>1, <2>1, <2>2 DEF ReplicationTyped, Mirror, copy
  <2> QED
    BY <1>1, <2>1, <2>2, <2>3, ReplicationAnswered DEF copy
<1> QED
  BY <1>2, <1>3, <1>4

LEMMA MirrorEndsKeeps ==
  ASSUME ReplicationInv, NEW t \in Threads, StopMirror(t) \/ RemoveMirror(t)
  PROVE  ReplicationInv'
<1>1. /\ service = "replication" /\ pc[t] \in {"stop", "remove"} /\ Replicating(t)
      /\ ReplicationTyped /\ req[t] \in ReplicationRequest /\ req[t].variant \in Variants
      /\ array.type = "mirror" /\ req[t].op = "disable" /\ failures \in Nat
  BY DEF StopMirror, RemoveMirror, At, ReplicationInv, Replicating, ReplicationRequest,
     ReplicationTyped
<1>2. CASE StopMirror(t)
  <2> DEFINE state == IF copy.state = "running" THEN "stopped" ELSE copy.state
  <2>1. /\ array' = [array EXCEPT !.copy.state = state]
        /\ Continue(t, "remove") /\ UNCHANGED <<known, failures>>
    BY <1>2 DEF StopMirror, NoFault, copy
  <2>2. /\ copy \in Mirror \union {NotReplicated}
        /\ copy \in Mirror => state \in {"stopped", "idle"}
        /\ copy = NotReplicated => state = "stopped"
    BY <1>1 DEF ReplicationTyped, NotReplicated, Mirror
  <2> HIDE DEF state
  <2>3. /\ array' \in [type : {"mirror"}, link : BOOLEAN, copy : Mirror \union {NotReplicated}]
        /\ array'.copy.variant = copy.variant
    BY <1>1, <2>1, <2>2 DEF ReplicationTyped, Mirror, NotReplicated, copy
  <2>4. ReplicationTyped'
    BY <1>1, <2>1, <2>3 DEF ReplicationTyped, copy
  <2>5. pc'[t] = "remove" /\ req'[t] = req[t] /\ local'[t] = local[t]
    BY <1>1, <2>1, ContinueMoves DEF ReplicationInv
  <2>6. Replicating(t)'
    BY <1>1, <2>1, <2>3, <2>5 DEF Replicating, ReplicationPlace, copy
  <2> QED
    BY <1>1, <2>1, <2>3, <2>4, <2>6, ReplicationGoesOn DEF ReplicationPlace, copy
<1>3. CASE RemoveMirror(t)
  <2>1. array' = [array EXCEPT !.copy = NotReplicated] /\ Answered(t) /\ UNCHANGED failures
    BY <1>3 DEF RemoveMirror, PutCopy, NoFault
  <2>2. /\ array' \in [type : {"mirror"}, link : BOOLEAN, copy : {NotReplicated}]
        /\ array'.copy.variant = None
    BY <1>1, <2>1 DEF ReplicationTyped, NotReplicated
  <2> QED
    BY <1>1, <2>1, <2>2, ReplicationAssumption, ReplicationAnswered DEF copy
<1> QED
  BY <1>2, <1>3

LEMMA MirrorSwitchesKeeps ==
  ASSUME ReplicationInv, NEW t \in Threads,
         LookAtMirror(t) \/ RestartMirror(t) \/ SwitchMirror(t)
  PROVE  ReplicationInv'
<1>1. /\ service = "replication" /\ pc[t] \in {"look", "restart", "switch"} /\ Replicating(t)
      /\ ReplicationTyped /\ req[t].op \in {"promote", "demote"} /\ failures \in Nat
      /\ array.type = "mirror" /\ copy \in Mirror /\ copy.variant # None
  BY DEF LookAtMirror, RestartMirror, SwitchMirror, At, ReplicationInv, Replicating,
     ReplicationTyped, NotReplicated
<1>2. CASE Reject(t)
  BY <1>1, <1>2, ReplicationReject
<1>3. CASE LookAtMirror(t)
  <2>1. CASE /\ array' = [array EXCEPT !.copy.state = "idle", !.copy.role = None]
             /\ Answered(t) /\ UNCHANGED failures
    <3> DEFINE idle == [array EXCEPT !.copy.state = "idle"]
    <3>1. /\ idle \in [type : {"mirror"}, link : BOOLEAN, copy : Mirror]
          /\ idle.copy.state = "idle" /\ idle.copy.variant = copy.variant
      BY <1>1 DEF ReplicationTyped, Mirror, copy
    <3>2. array' = [idle EXCEPT !.copy.role = None]
      BY Zenon, <2>1
    <3> HIDE DEF idle
    <3>3. /\ array' \in [type : {"mirror"}, link : BOOLEAN, copy : Mirror]
          /\ array'.copy.state = "idle" /\ array'.copy.variant = copy.variant
      BY <3>1, <3>2 DEF Mirror
    <3> QED
      BY <1>1, <2>1, <3>3, ReplicationAnswered DEF copy
  <2>2. CASE copy.role = Goal(t) /\ Done(t)
    BY <1>1, <2>2, ReplicationAnswered DEF Done, NoFault, ReplicationTyped, copy, IsPrimary, Goal
  <2>3. CASE GoOn(t, IF copy.state = "idle" THEN "restart" ELSE "switch")
    <3> DEFINE to == IF copy.state = "idle" THEN "restart" ELSE "switch"
    <3>1. /\ to \in {"restart", "switch"} /\ Continue(t, to)
          /\ UNCHANGED <<array, known, failures>>
      BY <2>3 DEF GoOn, NoFault
    <3> HIDE DEF to
    <3>2. pc'[t] = to /\ req'[t] = req[t] /\ local'[t] = local[t]
      BY <1>1, <3>1, ContinueMoves DEF ReplicationInv
    <3>3. ReplicationTyped' /\ copy' = copy
      BY <1>1, <3>1 DEF ReplicationTyped, copy
    <3>4. Replicating(t)'
      BY <1>1, <3>1, <3>2, <3>3 DEF Replicating, ReplicationPlace
    <3> QED
      BY <1>1, <3>1, <3>3, <3>4, ReplicationGoesOn DEF ReplicationPlace
  <2> QED
    BY <1>3, <2>1, <2>2, <2>3 DEF LookAtMirror, NoFault
<1>4. CASE RestartMirror(t)
  <2>1. Continue(t, "switch") /\ UNCHANGED <<known, failures>>
    BY <1>4 DEF RestartMirror, NoFault
  <2>2. /\ array' \in [type : {"mirror"}, link : BOOLEAN, copy : Mirror]
        /\ array'.copy.variant = copy.variant
    <3>1. CASE array' = [array EXCEPT !.copy.state = "running", !.copy.role = Rival(t)]
      <4> DEFINE running == [array EXCEPT !.copy.state = "running"]
      <4>1. /\ running \in [type : {"mirror"}, link : BOOLEAN, copy : Mirror]
            /\ running.copy.variant = copy.variant
        BY <1>1 DEF ReplicationTyped, Mirror, copy
      <4>2. array' = [running EXCEPT !.copy.role = Rival(t)]
        BY Zenon, <3>1
      <4>3. Rival(t) \in {"here", "there"}
        BY DEF Rival
      <4> HIDE DEF running
      <4> QED
        BY <4>1, <4>2, <4>3 DEF Mirror
    <3>2. CASE UNCHANGED array
      BY <1>1, <3>2 DEF ReplicationTyped, copy
    <3> QED
      BY <1>4, <3>1, <3>2 DEF RestartMirror
  <2>3. pc'[t] = "switch" /\ req'[t] = req[t] /\ local'[t] = local[t]
    BY <1>1, <2>1, ContinueMoves DEF ReplicationInv
  <2>4. ReplicationTyped'
    BY <1>1, <2>1, <2>2 DEF ReplicationTyped, copy
  <2>5. Replicating(t)'
    BY <1>1, <2>1, <2>2, <2>3 DEF Replicating, ReplicationPlace, copy
  <2> QED
    BY <1>1, <2>1, <2>2, <2>4, <2>5, ReplicationGoesOn DEF ReplicationPlace, copy
<1>5. CASE SwitchMirror(t) /\ ~ Reject(t)
  <2>1. array' = [array EXCEPT !.copy.role = Goal(t)] /\ Answered(t) /\ UNCHANGED failures
    BY <1>5 DEF SwitchMirror, NoFault
  <2>2. /\ array' \in [type : {"mirror"}, link : BOOLEAN, copy : Mirror]
        /\ array'.copy.variant = copy.variant /\ array'.copy.role = Goal(t)
    <3>1. Goal(t) \in {"here", "there"}
      BY DEF Goal
    <3> QED
      BY <1>1, <2>1, <3>1 DEF ReplicationTyped, Mirror, copy
  <2>3. req[t].op = "promote" => IsPrimary'
    BY <2>2 DEF Goal, IsPrimary, copy
  <2> QED
    BY <1>1, <2>1, <2>2, <2>3, ReplicationAnswered DEF copy
<1> QED
  BY <1>2, <1>3, <1>4, <1>5

LEMMA PolicySetKeeps ==
  ASSUME ReplicationInv, NEW t \in Threads, DetachPolicy(t) \/ AttachPolicy(t)
  PROVE  ReplicationInv'
<1>1. /\ service = "replication" /\ pc[t] \in {"detach", "attach"} /\ Replicating(t)
      /\ ReplicationTyped /\ req[t].variant \in Variants /\ req[t].variant # None
      /\ array.type = "ear" /\ req[t].op \in {"enable", "disable"} /\ failures \in Nat
  BY ReplicationAssumption DEF DetachPolicy, AttachPolicy, At, ReplicationInv, Replicating,
     ReplicationRequest, ReplicationTyped
<1>2. CASE DetachPolicy(t)
  <2>1. array' = [array EXCEPT !.copy = NotReplicated] /\ UNCHANGED failures
    BY <1>2 DEF DetachPolicy, PutCopy, NoFault
  <2>2. /\ array' \in [type : {"ear"}, link : BOOLEAN, copy : {NotReplicated}]
        /\ array'.copy.variant = None
    BY <1>1, <2>1 DEF ReplicationTyped, NotReplicated
  <2>3. CASE req[t].op = "enable" /\ Continue(t, "attach") /\ UNCHANGED known
    <3>1. pc'[t] = "attach" /\ req'[t] = req[t] /\ local'[t] = local[t]
      BY <1>1, <2>3, ContinueMoves DEF ReplicationInv
    <3>2. ReplicationTyped'
      BY <1>1, <2>1, <2>2, <2>3 DEF ReplicationTyped, copy
    <3>3. Replicating(t)'
      BY <1>1, <2>2, <2>3, <3>1 DEF Replicating, ReplicationPlace
    <3> QED
      BY <1>1, <2>1, <2>3, <3>2, <3>3, ReplicationGoesOn DEF ReplicationPlace
  <2>4. CASE req[t].op = "disable" /\ Answered(t)
    BY <1>1, <2>1, <2>2, <2>4, ReplicationAnswered DEF copy
  <2> QED
    BY <1>1, <1>2, <2>3, <2>4 DEF DetachPolicy
<1>3. CASE AttachPolicy(t)
  <2> DEFINE set == [variant |-> req[t].variant, state |-> "running", role |-> "production"]
  <2>1. array' = [array EXCEPT !.copy = set] /\ Answered(t) /\ UNCHANGED failures /\ req[t].op = "enable"
    BY <1>1, <1>3 DEF AttachPolicy, PutCopy, NoFault, Replicating, At
  <2>2. set \in Policy /\ set.variant = req[t].variant
    BY <1>1 DEF Policy
  <2> HIDE DEF set
  <2>3. array' \in [type : {"ear"}, link : BOOLEAN, copy : Policy] /\ array'.copy = set
    BY <1>1, <2>1, <2>2 DEF ReplicationTyped
  <2> QED
    BY <1>1, <2>1, <2>2, <2>3, ReplicationAnswered DEF copy
<1> QED
  BY <1>2, <1>3

LEMMA GroupPromotedKeeps ==
  ASSUME ReplicationInv, NEW t \in Threads, FreeGroup(t) \/ ProduceGroup(t)
  PROVE  ReplicationInv'
<1>1. /\ service = "replication" /\ pc[t] \in {"free", "produce"} /\ Replicating(t)
      /\ ReplicationTyped /\ req[t].op = "promote" /\ failures \in Nat
      /\ array.type = "ear" /\ copy \in Policy /\ copy.variant # None
  BY DEF FreeGroup, ProduceGroup, At, ReplicationInv, Replicating, ReplicationTyped, NotReplicated
<1>2. CASE FreeGroup(t)
  <2> DEFINE role == IF copy.role = "recovery" THEN "independent" ELSE copy.role
  <2>1. /\ array' = [array EXCEPT !.copy.role = role] /\ pc[t] = "free"
        /\ Continue(t, "produce") /\ UNCHANGED <<known, failures>>
    BY <1>2 DEF FreeGroup, At, NoFault, copy
  <2>2. /\ role \in {"production", "independent"}
        /\ local[t].disturbed \/ role = "independent"
    BY <1>1, <2>1 DEF Policy, Replicating
  <2> HIDE DEF role
  <2>3. /\ array' \in [type : {"ear"}, link : BOOLEAN, copy : Policy]
        /\ array'.copy.variant = copy.variant /\ array'.copy.role = role
    BY <1>1, <2>1, <2>2 DEF ReplicationTyped, Policy, copy
  <2>4. pc'[t] = "produce" /\ req'[t] = req[t] /\ local'[t] = local[t]
    BY <1>1, <2>1, ContinueMoves DEF ReplicationInv
  <2>5. ReplicationTyped'
    BY <1>1, <2>1, <2>3 DEF ReplicationTyped, copy
  <2>6. Replicating(t)'
    BY <1>1, <2>1, <2>2, <2>3, <2>4 DEF Replicating, ReplicationPlace, copy
  <2> QED
    BY <1>1, <2>1, <2>3, <2>5, <2>6, ReplicationGoesOn DEF ReplicationPlace, copy
<1>3. CASE ProduceGroup(t)
  <2> DEFINE role == IF copy.role = "independent" THEN "production" ELSE copy.role
  <2>1. /\ array' = [array EXCEPT !.copy.role = role] /\ pc[t] = "produce"
        /\ Answered(t) /\ UNCHANGED failures
    BY <1>3 DEF ProduceGroup, At, NoFault, copy
  <2>2. /\ role \in {"production", "recovery"}
        /\ local[t].disturbed \/ role = "production"
    BY <1>1, <2>1 DEF Policy, Replicating
  <2> HIDE DEF role
  <2>3. /\ array' \in [type : {"ear"}, link : BOOLEAN, copy : Policy]
        /\ array'.copy.variant = copy.variant /\ array'.copy.role = role
    BY <1>1, <2>1, <2>2 DEF ReplicationTyped, Policy, copy
  <2> QED
    BY <1>1, <2>1, <2>2, <2>3, ReplicationAnswered DEF copy, IsPrimary
<1> QED
  BY <1>2, <1>3

LEMMA ReplicationFailsKeeps ==
  ASSUME ReplicationInv, NEW t \in Threads, ReplicationFails(t)
  PROVE  ReplicationInv'
<1>1. /\ service = "replication" /\ pc[t] # "idle" /\ Replicating(t) /\ ReplicationTyped
      /\ failures \in Nat /\ failures' = failures + 1 /\ failures' > 0 /\ array' = array
  BY DEF ReplicationFails, Fault, ReplicationInv, ReplicationTyped
<1>2. CASE pc[t] \in {"start", "remove", "look"} /\ Answered(t)
  BY <1>1, <1>2, ReplicationAnswered DEF ReplicationTyped, Replicating, copy
<1>3. CASE Return(t) /\ UNCHANGED known
  BY <1>1, <1>3, ReplicationFreed
<1>4. ASSUME NEW to, Continue(t, to), UNCHANGED known,
             \/ pc[t] = "stop" /\ to = "remove"
             \/ pc[t] = "restart" /\ to = "switch"
      PROVE  ReplicationInv'
  <2>1. pc'[t] = to /\ req'[t] = req[t] /\ local'[t] = local[t]
    BY <1>1, <1>4, ContinueMoves DEF ReplicationInv
  <2>2. ReplicationTyped' /\ copy' = copy
    BY <1>1, <1>4 DEF ReplicationTyped, copy
  <2>3. Replicating(t)'
    BY <1>1, <1>4, <2>1, <2>2 DEF Replicating, ReplicationPlace
  <2> QED
    BY <1>1, <1>4, <2>2, <2>3, ReplicationGoesOn DEF ReplicationPlace
<1> QED
  BY <1>2, <1>3, <1>4 DEF ReplicationFails

LEMMA OtherSideKeeps ==
  ASSUME ReplicationInv, OtherSide
  PROVE  ReplicationInv'
<1>1. /\ service = "replication" /\ ReplicationTyped /\ Locked
      /\ UNCHANGED <<service, ids_in_use, pc, req, failures>>
      /\ local' = [t \in Threads |-> IF local[t] = None THEN None ELSE [disturbed |-> TRUE]]
      /\ known' = [known EXCEPT !.promoted = FALSE]
  BY DEF OtherSide, NoFault, ReplicationInv
<1>2. /\ array' \in [type : {array.type}, link : BOOLEAN,
                     copy : (IF array.type = "mirror" THEN Mirror ELSE Policy) \union {NotReplicated}]
      /\ array'.copy.variant = copy.variant
  <2>1. CASE array' = [array EXCEPT !.link = ~ @]
    BY <1>1, <2>1 DEF ReplicationTyped, copy
  <2>2. CASE array.type = "mirror" /\ copy.state = "running" /\ array' = [array EXCEPT !.copy.role = "there"]
    BY <1>1, <2>2 DEF ReplicationTyped, Mirror, NotReplicated, copy
  <2>3. CASE array.type = "ear" /\ copy.state = "running" /\ array' = [array EXCEPT !.copy.role = "recovery"]
    BY <1>1, <2>3 DEF ReplicationTyped, Policy, NotReplicated, copy
  <2> QED
    BY <1>1, <2>1, <2>2, <2>3 DEF OtherSide, ReplicationTyped
<1>3. /\ known' \in [enabled : {known.enabled}, disabled : {known.disabled}, promoted : {FALSE}]
      /\ known \in [enabled : SUBSET Variants, disabled : SUBSET Variants, promoted : BOOLEAN]
  BY <1>1 DEF ReplicationTyped
<1>4. Locked'
  <2>1. local' = [t \in Threads |-> local'[t]]
    BY <1>1
  <2> QED
    BY <1>1, <2>1 DEF Locked
<1>5. ReplicationTyped' /\ ReplicatedAsAnswered'
  BY <1>1, <1>2, <1>3 DEF ReplicationInv, ReplicationTyped, ReplicatedAsAnswered, copy
<1>6. ASSUME NEW t \in Threads
      PROVE  Replicating(t)'
  <2>1. pc[t] # "idle" => Replicating(t) /\ local[t] # None
    BY ReplicationAssumption DEF ReplicationInv, Replicating
  <2>2. pc[t] # "idle" => local'[t] = [disturbed |-> TRUE]
    BY <1>1, <2>1
  <2> QED
    BY <1>1, <1>2, <1>3, <2>1, <2>2 DEF Replicating, copy
<1> QED
  BY <1>4, <1>5, <1>6 DEF ReplicationInv

LEMMA ReplicationStep ==
  ASSUME ReplicationInv, ReplicationNext
  PROVE  ReplicationInv'
  BY CallReplicationKeeps, ReplicationGetKeeps, MirrorMadeKeeps, MirrorEndsKeeps,
     MirrorSwitchesKeeps, PolicySetKeeps, GroupPromotedKeeps, ReplicationFailsKeeps,
     OtherSideKeeps DEF ReplicationNext

LEMMA CrashKeepsReplication ==
  ASSUME ReplicationInv, Crash
  PROVE  ReplicationInv'
<1>1. Locked'
  BY CrashKeepsLocked DEF ReplicationInv
<1>2. UNCHANGED <<service, array, known, failures>> /\ \A t \in Threads : pc'[t] = "idle"
  BY DEF Crash
<1> QED
  BY <1>1, <1>2 DEF ReplicationInv, ReplicationTyped, ReplicatedAsAnswered, Replicating, copy,
     IsPrimary

-----------------------------------------------------------------------------
(* The storage manager of the host definer.                                *)

HostArray == [host : [HostNames -> HostRecord \union {None}]]

(* What a call remembers, by its place: the host it works on once it has   *)
(* found one, and whether what it still has to add are ports or groups.    *)
Hosting(t) ==
  /\ pc[t] \in HostPlace
  /\ pc[t] = "idle" => local[t] = None
  /\ pc[t] # "idle" =>
       /\ req[t] \in HostRequest /\ local[t] \in HostMemo
       /\ req[t].op = "undefine" <=> pc[t] \in {"findUndefined", "undefine"}
       /\ IF pc[t] \in {"findHost", "findUndefined"} THEN local[t] = NoHostMemo
            ELSE local[t].name \in HostNames
       /\ pc[t] \in {"removePorts", "protocol", "addPorts", "tryPort", "untryPort", "mkhost"} =>
            local[t].add \subseteq Ports
       /\ pc[t] \in {"removeGroups", "addGroups"} => local[t].add \subseteq IoGroups

HostsKnown ==
  known \in [setting : Setting, recorded : NodePorts \union {None},
             answer : HostAnswer \union {None}, mixed : BOOLEAN, clean : BOOLEAN]

HostsInv ==
  /\ Locked /\ HostsKnown /\ array \in HostArray /\ memory = <<>>
  /\ \A t \in Threads : Hosting(t)

LEMMA HostsInvTyped == HostsInv => HostsTypeOK
  BY DEF HostsInv, HostsTypeOK, HostsKnown, HostArray, Hosting, Locked

LEMMA HostTypes ==
  /\ \A ports, type : OfType(ports, type) \subseteq ports
  /\ \A type : ProtocolOf(type) \in Protocols
  /\ \A s \in Setting : s.ports \subseteq Ports /\ s.groups \subseteq IoGroups
                        /\ s.partition \in {Partition, None}
<1>1. ASSUME NEW s \in Setting
      PROVE  s.ports \subseteq Ports /\ s.groups \subseteq IoGroups
             /\ s.partition \in {Partition, None}
  BY ArrayHostsAssumption DEF Setting, Ports
<1> QED
  BY <1>1 DEF OfType, ProtocolOf, Protocols

LEMMA InitHostsInv ==
  ASSUME InitHosts
  PROVE  HostsInv
<1>1. Locked /\ memory = <<>>
  BY InitLocked DEF InitHosts
<1>2. \A t \in Threads : Hosting(t)
  BY DEF InitHosts, InitService, Hosting, HostPlace
<1>3. PICK ports \in {{}} \union {{p} : p \in OfType(Ports, "fc")} :
        /\ array = [host |-> [h \in HostNames |->
                      IF h = "other" /\ ports # {}
                        THEN [ports |-> ports, protocol |-> "scsi", partition |-> None,
                              groups |-> IoGroups]
                        ELSE None]]
        /\ \E c \in NodePorts :
             known = [setting |-> [ports |-> c, type |-> "fc", partition |-> None,
                                   groups |-> IoGroups],
                      recorded |-> None, answer |-> None, mixed |-> FALSE, clean |-> ports = {}]
  BY Zenon DEF InitHosts
<1>4. ports \subseteq Ports
  BY <1>3, HostTypes
<1>5. array \in HostArray
  <2>1. [ports |-> ports, protocol |-> "scsi", partition |-> None, groups |-> IoGroups]
          \in HostRecord
    BY <1>4 DEF HostRecord, Protocols
  <2> QED
    BY <1>3, <2>1 DEF HostArray
<1>6. HostsKnown
  <2>1. PICK c \in NodePorts :
          known = [setting |-> [ports |-> c, type |-> "fc", partition |-> None,
                                groups |-> IoGroups],
                   recorded |-> None, answer |-> None, mixed |-> FALSE, clean |-> ports = {}]
    BY <1>3
  <2>2. [ports |-> c, type |-> "fc", partition |-> None, groups |-> IoGroups] \in Setting
    BY DEF Setting, ConnectivityTypes
  <2> QED
    BY <2>1, <2>2 DEF HostsKnown
<1> QED
  BY <1>1, <1>2, <1>5, <1>6 DEF HostsInv

(* The others' calls are where they were.                                  *)
LEMMA HostsGoOn ==
  ASSUME HostsInv, NEW t \in Threads, Moves(t), Alone(t), Hosting(t)',
         array' \in HostArray, HostsKnown', memory' = memory
  PROVE  HostsInv'
<1>1. ASSUME NEW u \in Threads \ {t}
      PROVE  Hosting(u)'
  BY <1>1 DEF HostsInv, Hosting, Alone
<1> QED
  BY <1>1, MovesKeepLocked DEF HostsInv

LEMMA HostMoves ==
  ASSUME HostsInv, NEW t \in Threads, pc[t] \notin {"idle", "undefine"}, NEW to, NEW memo,
         Move(t, to, memo), to \in HostPlace \ {"idle", "findHost", "findUndefined"},
         to = "undefine" <=> pc[t] = "findUndefined",
         memo \in HostMemo, memo.name \in HostNames,
         to \in {"removePorts", "protocol", "addPorts", "tryPort", "untryPort", "mkhost"} =>
           memo.add \subseteq Ports,
         to \in {"removeGroups", "addGroups"} => memo.add \subseteq IoGroups,
         array' \in HostArray
  PROVE  HostsInv'
<1>1. /\ Moves(t) /\ Alone(t) /\ UNCHANGED <<known, memory>>
      /\ pc'[t] = to /\ req'[t] = req[t] /\ local'[t] = memo
  BY ProceedMoves DEF Move, HostsInv
<1>2. Hosting(t)'
  BY <1>1 DEF Hosting, HostsInv
<1>3. HostsKnown'
  BY <1>1 DEF HostsInv, HostsKnown
<1> QED
  BY <1>1, <1>2, <1>3, HostsGoOn

LEMMA HostAnswered ==
  ASSUME HostsInv, NEW t \in Threads, pc[t] # "idle", NEW ok \in BOOLEAN, Answer(t, ok),
         array' \in HostArray, memory' = memory
  PROVE  HostsInv'
<1>1. /\ Moves(t) /\ Alone(t)
      /\ pc'[t] = "idle" /\ req'[t] = None /\ local'[t] = None
  BY ReturnMoves DEF Answer, HostsInv
<1>2. Hosting(t)'
  BY <1>1 DEF Hosting, HostPlace
<1>3. /\ req[t] \in HostRequest /\ local[t].name \in HostNames \union {None}
      /\ Setup(t) \in Setting /\ Setup(t).ports \in NodePorts /\ req[t].op \in {"define", "undefine"}
  BY DEF HostsInv, Hosting, HostRequest, HostMemo, Setup, Setting
<1> DEFINE last == \A u \in Threads \ {t} : pc[u] = "idle"
           recorded == IF req[t].op = "define" THEN Setup(t).ports
                         ELSE IF ok THEN None ELSE known.recorded
           answer == IF ok /\ last /\ ~ known.mixed
                       THEN [op |-> req[t].op, setting |-> Setup(t), name |-> Mine(t)] ELSE None
           clean == known.clean /\ ok /\ ~ known.mixed
<1>4. known' = [known EXCEPT !.recorded = recorded, !.answer = answer, !.clean = clean]
  BY Zenon DEF Answer, Outcome, HostsInv, HostsKnown
<1>5. recorded \in NodePorts \union {None} /\ answer \in HostAnswer \union {None}
      /\ clean \in BOOLEAN
  BY <1>3 DEF HostAnswer, Mine, HostsInv, HostsKnown
<1> HIDE DEF last, recorded, answer, clean
<1>6. HostsKnown'
  BY <1>4, <1>5 DEF HostsInv, HostsKnown
<1> QED
  BY <1>1, <1>2, <1>6, HostsGoOn

LEMMA HostSalvaged ==
  ASSUME HostsInv, NEW t \in Threads,
         pc[t] \notin {"idle", "findHost", "findUndefined", "undefine"}, Salvage(t),
         array' \in HostArray, memory' = memory
  PROVE  HostsInv'
<1>1. /\ Moves(t) /\ Alone(t) /\ UNCHANGED known
      /\ pc'[t] = "dropHost" /\ req'[t] = req[t]
      /\ local'[t] = [local[t] EXCEPT !.way = "recreate"]
  BY ProceedMoves DEF Salvage, HostsInv
<1>2. Hosting(t)'
  BY <1>1 DEF Hosting, HostsInv, HostMemo, Ways, HostPlace
<1>3. HostsKnown'
  BY <1>1 DEF HostsInv, HostsKnown
<1> QED
  BY <1>1, <1>2, <1>3, HostsGoOn

LEMMA HostFails ==
  ASSUME HostsInv, NEW t \in Threads, pc[t] \notin {"idle", "findHost", "findUndefined"}, Fails(t)
  PROVE  HostsInv'
  BY HostAnswered, HostSalvaged DEF Fails, Salvages, HostsInv

LEMMA HostCreation ==
  ASSUME HostsInv, NEW t \in Threads, pc[t] \notin {"idle", "findUndefined", "undefine"},
         Creation(t), array' \in HostArray
  PROVE  HostsInv'
<1> DEFINE memo == [NoHostMemo EXCEPT !.name = "node", !.way = "create", !.add = Wanted(t)]
           to == IF Setup(t).partition = None THEN "mkhost" ELSE "tryPort"
<1>1. Wanted(t) \subseteq Ports
  BY HostTypes DEF HostsInv, Hosting, HostRequest, Setup, Wanted
<1>2. memo \in HostMemo /\ memo.name \in HostNames /\ memo.add \subseteq Ports
      /\ to \in {"mkhost", "tryPort"} /\ to \in HostPlace
  BY <1>1 DEF HostMemo, NoHostMemo, HostNames, Ways, HostPlace
<1>3. Move(t, to, memo)
  BY Zenon DEF Creation
<1> HIDE DEF memo, to
<1> QED
  BY <1>2, <1>3, HostMoves

LEMMA IsGoneKeeps ==
  ASSUME HostsInv, NEW t \in Threads,
         pc[t] \notin {"idle", "findHost", "findUndefined", "undefine"}, IsGone(t)
  PROVE  HostsInv'
  BY HostFails, HostCreation DEF IsGone, HostsInv

LEMMA HostGiven ==
  ASSUME HostsInv, NEW h \in HostNames, NEW o \in HostRecord \union {None}, SetHost(h, o)
  PROVE  array' \in HostArray
  BY DEF SetHost, HostsInv, HostArray

(* What a call past its first step has in hand.                            *)
LEMMA HostInHand ==
  ASSUME HostsInv, NEW t \in Threads, pc[t] \notin {"idle", "findHost", "findUndefined"}
  PROVE  /\ Mine(t) \in HostNames /\ local[t] \in HostMemo /\ Setup(t) \in Setting
         /\ Wanted(t) \subseteq Ports /\ Has(t) \subseteq host[Mine(t)].ports
         /\ array \in HostArray /\ host[Mine(t)] \in HostRecord \union {None}
         /\ \A h \in HostRecord : h.ports \subseteq Ports /\ h.groups \subseteq IoGroups
<1>1. /\ req[t] \in HostRequest /\ local[t] \in HostMemo /\ local[t].name \in HostNames
      /\ array \in HostArray
  BY DEF HostsInv, Hosting
<1>2. Setup(t) \in Setting
  BY <1>1 DEF HostRequest, Setup
<1>3. Wanted(t) \subseteq Ports
  BY <1>2, HostTypes DEF Wanted
<1>4. Has(t) \subseteq host[Mine(t)].ports
  BY HostTypes DEF Has
<1>5. host[Mine(t)] \in HostRecord \union {None}
  BY <1>1 DEF HostArray, Mine, host
<1> QED
  BY <1>1, <1>2, <1>3, <1>4, <1>5 DEF Mine, HostRecord

LEMMA CallHostsKeeps ==
  ASSUME HostsInv, NEW t \in Threads, CallHosts(t)
  PROVE  HostsInv'
<1>1. PICK op \in {"define", "undefine"}, s \in NextSettings :
        LET r == [op |-> op, worker |-> t, setting |-> s,
                  recorded |-> IF known.recorded = None THEN s.ports ELSE known.recorded]
            others == {u \in Threads : pc[u] # "idle"}
            differs(u) == req[u].op # op \/ req[u].setting # s
        IN  /\ op = "undefine" => s = known.setting
            /\ Enter(t, r, IF op = "define" THEN "findHost" ELSE "findUndefined", NoHostMemo)
            /\ known' = [known EXCEPT !.setting = s, !.answer = None,
                           !.mixed = others # {} /\ (@ \/ (\E u \in others : differs(u)))]
  BY Zenon DEF CallHosts
<1> DEFINE r == [op |-> op, worker |-> t, setting |-> s,
                 recorded |-> IF known.recorded = None THEN s.ports ELSE known.recorded]
           place == IF op = "define" THEN "findHost" ELSE "findUndefined"
           others == {u \in Threads : pc[u] # "idle"}
           mixed == others # {} /\ (known.mixed \/ (\E u \in others : req[u].op # op \/ req[u].setting # s))
<1>2. s \in Setting /\ s.ports \in NodePorts
  BY DEF NextSettings, Setting
<1>3. /\ r \in HostRequest /\ place \in {"findHost", "findUndefined"} /\ mixed \in BOOLEAN
      /\ r.op = "undefine" <=> place = "findUndefined"
  BY <1>2 DEF HostRequest, HostsInv, HostsKnown
<1>4. Enter(t, r, place, NoHostMemo)
  BY <1>1
<1>5. known' = [known EXCEPT !.setting = s, !.answer = None, !.mixed = mixed]
  BY <1>1 DEF HostsInv, HostsKnown
<1> HIDE DEF r, place, others, mixed
<1>6. r # None
  BY <1>3, ArrayHostsAssumption
<1>7. /\ Moves(t) /\ Alone(t) /\ UNCHANGED <<array, memory>>
      /\ pc'[t] = place /\ req'[t] = r /\ local'[t] = NoHostMemo
  BY <1>3, <1>4, <1>6, EnterMoves DEF HostsInv
<1>8. Hosting(t)'
  BY <1>3, <1>7 DEF Hosting, HostPlace, HostMemo, NoHostMemo, Ways
<1>9. HostsKnown'
  BY <1>2, <1>3, <1>5 DEF HostsInv, HostsKnown
<1>10. array' \in HostArray
  BY <1>7 DEF HostsInv
<1> QED
  BY <1>7, <1>8, <1>9, <1>10, HostsGoOn

LEMMA FindHostKeeps ==
  ASSUME HostsInv, NEW t \in Threads, FindHost(t) \/ FindUndefined(t)
  PROVE  HostsInv'
<1>1. /\ array \in HostArray /\ HostsWith(req[t].recorded) \subseteq HostNames
      /\ HostsWith(Setup(t).ports) \subseteq HostNames
      /\ FindHost(t) => pc[t] = "findHost"
      /\ FindUndefined(t) => pc[t] = "findUndefined"
  BY DEF FindHost, FindUndefined, AtHost, At, HostsInv, HostsWith
<1>2. ASSUME NEW h \in HostNames
      PROVE  [NoHostMemo EXCEPT !.name = h] \in HostMemo /\ [NoHostMemo EXCEPT !.name = h].name = h
  BY DEF HostMemo, NoHostMemo, Ways
<1>3. ASSUME pc[t] = "findHost", NEW h \in HostNames, UNCHANGED array,
             Move(t, "verifyPartition", [NoHostMemo EXCEPT !.name = h])
      PROVE  HostsInv'
  BY <1>1, <1>2, <1>3, HostMoves DEF HostPlace
<1>4. ASSUME pc[t] = "findUndefined", NEW h \in HostNames, UNCHANGED array,
             Move(t, "undefine", [NoHostMemo EXCEPT !.name = h])
      PROVE  HostsInv'
  BY <1>1, <1>2, <1>4, HostMoves DEF HostPlace
<1>5. ASSUME pc[t] = "findHost", Creation(t), UNCHANGED array
      PROVE  HostsInv'
  BY <1>1, <1>5, HostCreation
<1>6. ASSUME pc[t] # "idle", NEW ok \in BOOLEAN, Answer(t, ok), UNCHANGED <<array, memory>>
      PROVE  HostsInv'
  BY <1>1, <1>6, HostAnswered
<1> QED
  BY <1>1, <1>3, <1>4, <1>5, <1>6 DEF FindHost, FindUndefined, Refuse

LEMMA VerifyPartitionKeeps ==
  ASSUME HostsInv, NEW t \in Threads, VerifyPartition(t)
  PROVE  HostsInv'
<1>1. pc[t] = "verifyPartition"
  BY DEF VerifyPartition, AtHost, At
<1>2. ASSUME Move(t, "readPorts", local[t]), UNCHANGED array
      PROVE  HostsInv'
  BY <1>1, <1>2, HostInHand, HostMoves DEF HostPlace, Mine
<1>3. ASSUME Move(t, "dropHost", [local[t] EXCEPT !.way = "create"]), UNCHANGED array
      PROVE  HostsInv'
  <2> DEFINE memo == [local[t] EXCEPT !.way = "create"]
  <2>1. memo \in HostMemo /\ memo.name \in HostNames
    BY <1>1, HostInHand DEF HostMemo, Ways, Mine
  <2>2. array' \in HostArray /\ Move(t, "dropHost", memo)
    BY <1>3 DEF HostsInv
  <2> HIDE DEF memo
  <2> QED
    BY <1>1, <2>1, <2>2, HostMoves DEF HostPlace
<1> QED
  BY <1>1, <1>2, <1>3, IsGoneKeeps DEF VerifyPartition

LEMMA DropHostKeeps ==
  ASSUME HostsInv, NEW t \in Threads, DropHost(t)
  PROVE  HostsInv'
<1>1. pc[t] = "dropHost"
  BY DEF DropHost, AtHost, At
<1> DEFINE to == IF Setup(t).partition = None THEN "mkhost" ELSE "tryPort"
           memo == [local[t] EXCEPT !.remove = {}, !.add = Wanted(t)]
<1>2. \/ Fails(t)
      \/ SetHost(Mine(t), None) /\ (Creation(t) \/ Move(t, to, memo))
  BY DEF DropHost, RemoveHost
<1>3. memo \in HostMemo /\ memo.name \in HostNames /\ memo.add \subseteq Ports
      /\ to \in {"mkhost", "tryPort"} /\ to \in HostPlace
  <2>1. /\ local[t] \in HostMemo /\ local[t].name \in HostNames /\ Wanted(t) \subseteq Ports
    BY <1>1, HostInHand DEF Mine
  <2>2. memo \in HostMemo /\ memo.name = local[t].name /\ memo.add = Wanted(t)
    BY <2>1 DEF HostMemo
  <2>3. to \in {"mkhost", "tryPort"} /\ to \in HostPlace
    BY DEF HostPlace
  <2> QED
    BY <2>1, <2>2, <2>3
<1>4. SetHost(Mine(t), None) => array' \in HostArray
  BY <1>1, HostInHand, HostGiven
<1> HIDE DEF to, memo
<1> QED
  BY <1>1, <1>2, <1>3, <1>4, HostFails, HostCreation, HostMoves

LEMMA ReadPortsKeeps ==
  ASSUME HostsInv, NEW t \in Threads, ReadPorts(t)
  PROVE  HostsInv'
<1>1. pc[t] = "readPorts" /\ array \in HostArray
  BY DEF ReadPorts, AtHost, At, HostsInv
<1> DEFINE switch == [local[t] EXCEPT !.way = "switch", !.remove = Has(t), !.add = Wanted(t)]
           update == [local[t] EXCEPT !.remove = PortsToRemove(t), !.add = PortsToAdd(t)]
<1>2. \/ IsGone(t)
      \/ /\ host[Mine(t)] # None /\ UNCHANGED array
         /\ \/ (Salvage(t) \/ Answer(t, FALSE)) /\ UNCHANGED memory
            \/ Move(t, "removePorts", switch)
            \/ Move(t, "removePorts", update)
            \/ Move(t, AfterPorts(t), local[t])
  BY DEF ReadPorts
<1>3. ASSUME host[Mine(t)] # None
      PROVE  \A memo \in {switch, update} :
               memo \in HostMemo /\ memo.name \in HostNames /\ memo.add \subseteq Ports
  <2>1. Has(t) \subseteq Ports /\ Wanted(t) \subseteq Ports
    BY <1>1, <1>3, HostInHand
  <2>2. PortsToRemove(t) \subseteq Ports /\ PortsToAdd(t) \subseteq Ports
    BY <2>1 DEF PortsToRemove, PortsToAdd
  <2>3. switch \in HostMemo /\ switch.name \in HostNames /\ switch.add \subseteq Ports
    <3>1. local[t] \in HostMemo /\ local[t].name \in HostNames
      BY <1>1, <1>3, HostInHand DEF Mine
    <3>2. switch \in HostMemo /\ switch.name = local[t].name /\ switch.add \subseteq Ports
      BY <2>1, <3>1 DEF HostMemo, Ways
    <3> QED
      BY <3>1, <3>2
  <2>4. update \in HostMemo /\ update.name \in HostNames /\ update.add \subseteq Ports
    BY <1>1, <2>2, HostInHand DEF HostMemo, Mine, Ways
  <2> HIDE DEF switch, update
  <2> QED
    BY <2>3, <2>4
<1>4. AfterPorts(t) \in {"readGroups", "respond"}
  BY DEF AfterPorts
<1> HIDE DEF switch, update
<1>5. ASSUME NEW memo \in {switch, update}, Move(t, "removePorts", memo), UNCHANGED array,
             host[Mine(t)] # None
      PROVE  HostsInv'
  BY <1>1, <1>3, <1>5, HostMoves DEF HostPlace
<1>6. ASSUME Move(t, AfterPorts(t), local[t]), UNCHANGED array
      PROVE  HostsInv'
  BY <1>1, <1>4, <1>6, HostMoves, HostInHand DEF HostPlace, Mine
<1> QED
  BY <1>1, <1>2, <1>5, <1>6, IsGoneKeeps, HostSalvaged, HostAnswered

LEMMA RemovePortsKeeps ==
  ASSUME HostsInv, NEW t \in Threads, RemovePorts(t)
  PROVE  HostsInv'
<1>1. pc[t] = "removePorts" /\ array \in HostArray /\ local[t].add \subseteq Ports
  BY DEF RemovePorts, AtHost, At, HostsInv, Hosting
<1>2. ASSUME NEW p \in local[t].remove, host[Mine(t)] # None,
             array' = [array EXCEPT !.host[Mine(t)].ports = @ \ {p}],
             Move(t, "removePorts", [local[t] EXCEPT !.remove = @ \ {p}])
      PROVE  HostsInv'
  <2> DEFINE memo == [local[t] EXCEPT !.remove = @ \ {p}]
  <2>1. memo \in HostMemo /\ memo.name \in HostNames /\ memo.add \subseteq Ports
    BY <1>1, HostInHand DEF HostMemo, Mine
  <2>2. array' \in HostArray
    BY <1>1, <1>2, HostInHand DEF HostArray, HostRecord, host
  <2> HIDE DEF memo
  <2> QED
    BY <1>1, <1>2, <2>1, <2>2, HostMoves DEF memo, HostPlace
<1>3. ASSUME Move(t, IF local[t].way = "switch" THEN "protocol"
                     ELSE IF local[t].add # {} THEN "addPorts" ELSE AfterPorts(t), local[t]),
             UNCHANGED array
      PROVE  HostsInv'
  <2>1. AfterPorts(t) \in {"readGroups", "respond"}
    BY DEF AfterPorts
  <2> QED
    BY <1>1, <1>3, <2>1, HostInHand, HostMoves DEF HostPlace, Mine
<1> QED
  BY <1>1, <1>2, <1>3, HostFails DEF RemovePorts

LEMMA ChangeProtocolKeeps ==
  ASSUME HostsInv, NEW t \in Threads, ChangeProtocol(t)
  PROVE  HostsInv'
<1>1. pc[t] = "protocol" /\ array \in HostArray /\ local[t].add \subseteq Ports
  BY DEF ChangeProtocol, AtHost, At, HostsInv, Hosting
<1>2. ASSUME host[Mine(t)] # None,
             array' = [array EXCEPT !.host[Mine(t)].protocol = ProtocolOf(Type(t))],
             Move(t, "addPorts", local[t])
      PROVE  HostsInv'
  <2>1. array' \in HostArray
    BY <1>1, <1>2, HostInHand, HostTypes DEF HostArray, HostRecord, host
  <2> QED
    BY <1>1, <1>2, <2>1, HostInHand, HostMoves DEF HostPlace, Mine
<1> QED
  BY <1>1, <1>2, HostFails DEF ChangeProtocol

LEMMA AddPortsKeeps ==
  ASSUME HostsInv, NEW t \in Threads, AddPorts(t)
  PROVE  HostsInv'
<1>1. pc[t] = "addPorts" /\ array \in HostArray /\ local[t].add \subseteq Ports
  BY DEF AddPorts, AtHost, At, HostsInv, Hosting
<1>2. ASSUME NEW p \in local[t].add, host[Mine(t)] # None,
             array' = IF HostsWith({p}) # {} THEN array
                        ELSE [array EXCEPT !.host[Mine(t)].ports = @ \union {p}],
             Move(t, "addPorts", [local[t] EXCEPT !.add = @ \ {p}])
      PROVE  HostsInv'
  <2> DEFINE memo == [local[t] EXCEPT !.add = @ \ {p}]
  <2>1. memo \in HostMemo /\ memo.name \in HostNames /\ memo.add \subseteq Ports
    BY <1>1, HostInHand DEF HostMemo, Mine
  <2>2. [array EXCEPT !.host[Mine(t)].ports = @ \union {p}] \in HostArray
    BY <1>1, <1>2, HostInHand DEF HostArray, HostRecord, host
  <2>3. array' \in HostArray
    BY <1>1, <1>2, <2>2
  <2> HIDE DEF memo
  <2> QED
    BY <1>1, <1>2, <2>1, <2>3, HostMoves DEF memo, HostPlace
<1>3. ASSUME Move(t, "countPorts", local[t]), UNCHANGED array
      PROVE  HostsInv'
  BY <1>1, <1>3, HostInHand, HostMoves DEF HostPlace, Mine
<1> QED
  BY <1>1, <1>2, <1>3, HostFails DEF AddPorts

LEMMA CountPortsKeeps ==
  ASSUME HostsInv, NEW t \in Threads, CountPorts(t)
  PROVE  HostsInv'
<1>1. pc[t] = "countPorts" /\ array \in HostArray
  BY DEF CountPorts, AtHost, At, HostsInv
<1>2. ASSUME NEW to \in {"dropEmpty", "respond", "readGroups"}, Move(t, to, local[t]),
             UNCHANGED array
      PROVE  HostsInv'
  BY <1>1, <1>2, HostInHand, HostMoves DEF HostPlace, Mine
<1> QED
  BY <1>1, <1>2, IsGoneKeeps DEF CountPorts, AfterPorts

(* rmhost, and what follows it.                                            *)
LEMMA RemoveHostKeeps ==
  ASSUME HostsInv, NEW t \in Threads, DropEmpty(t) \/ UntryPort(t) \/ UndefineHost(t)
  PROVE  HostsInv'
<1>1. pc[t] \in {"dropEmpty", "untryPort", "undefine"}
  BY DEF DropEmpty, UntryPort, UndefineHost, AtHost, At
<1>2. SetHost(Mine(t), None) => array' \in HostArray
  BY <1>1, HostInHand, HostGiven
<1>3. \/ Fails(t)
      \/ /\ SetHost(Mine(t), None)
         /\ \/ pc[t] = "dropEmpty" /\ Salvage(t) /\ UNCHANGED memory
            \/ (Answer(t, FALSE) \/ Answer(t, TRUE)) /\ UNCHANGED memory
            \/ pc[t] = "untryPort" /\ Move(t, "tryPort", local[t])
  BY DEF DropEmpty, UntryPort, UndefineHost, RemoveHost, AtHost, At
<1>4. ASSUME pc[t] = "untryPort", Move(t, "tryPort", local[t]), array' \in HostArray
      PROVE  HostsInv'
  <2>1. local[t].add \subseteq Ports
    BY <1>4 DEF HostsInv, Hosting
  <2> QED
    BY <1>4, <2>1, HostInHand, HostMoves DEF HostPlace, Mine
<1> QED
  BY <1>1, <1>2, <1>3, <1>4, HostFails, HostSalvaged, HostAnswered

(* A new host's record.                                                    *)
LEMMA NewHostIs ==
  ASSUME HostsInv, NEW t \in Threads, pc[t] \notin {"idle", "findHost", "findUndefined"},
         NEW ports, ports \subseteq Ports
  PROVE  NewHost(t, ports) \in HostRecord
  BY HostInHand, HostTypes DEF NewHost, HostRecord

LEMMA TryPortKeeps ==
  ASSUME HostsInv, NEW t \in Threads, TryPort(t)
  PROVE  HostsInv'
<1>0. pc[t] = "tryPort"
  BY Zenon DEF TryPort, AtHost, At
<1>1. /\ pc[t] = "tryPort" /\ array \in HostArray /\ local[t].add \subseteq Ports
      /\ local[t] \in HostMemo /\ local[t].name \in HostNames
  BY <1>0 DEF HostsInv, Hosting
<1>2. ASSUME NameTaken(t)
      PROVE  HostsInv'
  BY <1>1, <1>2, HostFails, HostMoves DEF NameTaken, HostPlace
<1>3. ASSUME NEW p \in local[t].add, SetHost(Mine(t), NewHost(t, {p})),
             Move(t, "untryPort", [local[t] EXCEPT !.add = @ \ {p}, !.good = @ \union {p}])
      PROVE  HostsInv'
  <2> DEFINE memo == [local[t] EXCEPT !.add = @ \ {p}, !.good = @ \union {p}]
  <2>1. memo \in HostMemo /\ memo.name \in HostNames /\ memo.add \subseteq Ports
    BY <1>1 DEF HostMemo
  <2>2. array' \in HostArray
    BY <1>1, <1>3, NewHostIs, HostGiven, HostInHand
  <2>3. Move(t, "untryPort", memo) /\ "untryPort" \in HostPlace
    BY <1>3 DEF HostPlace
  <2> HIDE DEF memo
  <2> QED
    BY <1>1, <2>1, <2>2, <2>3, HostMoves
<1>4. ASSUME NEW p \in local[t].add, UNCHANGED array,
             Move(t, "tryPort", [local[t] EXCEPT !.add = @ \ {p}])
      PROVE  HostsInv'
  <2> DEFINE memo == [local[t] EXCEPT !.add = @ \ {p}]
  <2>1. memo \in HostMemo /\ memo.name \in HostNames /\ memo.add \subseteq Ports
    BY <1>1 DEF HostMemo
  <2> HIDE DEF memo
  <2> QED
    BY <1>1, <1>4, <2>1, HostMoves DEF memo, HostPlace
<1>5. ASSUME Move(t, "mkhost", local[t]), UNCHANGED array
      PROVE  HostsInv'
  BY <1>1, <1>5, HostMoves DEF HostPlace
<1>6. \/ Fails(t) \/ NameTaken(t)
      \/ Move(t, "mkhost", local[t]) /\ UNCHANGED array
      \/ \E p \in local[t].add :
           \/ /\ SetHost(Mine(t), NewHost(t, {p}))
              /\ Move(t, "untryPort", [local[t] EXCEPT !.add = @ \ {p}, !.good = @ \union {p}])
           \/ Move(t, "tryPort", [local[t] EXCEPT !.add = @ \ {p}]) /\ UNCHANGED array
  BY Zenon DEF TryPort
<1> QED
  BY Zenon, <1>1, <1>2, <1>3, <1>4, <1>5, <1>6, HostFails

LEMMA MakeHostKeeps ==
  ASSUME HostsInv, NEW t \in Threads, MakeHost(t)
  PROVE  HostsInv'
<1>1. /\ pc[t] = "mkhost" /\ array \in HostArray /\ local[t].add \subseteq Ports
      /\ local[t] \in HostMemo /\ local[t].name \in HostNames /\ local[t].good \subseteq Ports
  BY DEF MakeHost, AtHost, At, HostsInv, Hosting, HostMemo
<1>2. ASSUME NameTaken(t)
      PROVE  HostsInv'
  BY <1>1, <1>2, HostFails, HostMoves DEF NameTaken, HostPlace
<1>3. ASSUME NEW ports, ports \subseteq Ports, SetHost(Mine(t), NewHost(t, ports)),
             NEW to \in {"respond", "addPorts"}, Move(t, to, local[t])
      PROVE  HostsInv'
  <2>1. array' \in HostArray
    BY <1>1, <1>3, NewHostIs, HostGiven, HostInHand
  <2> QED
    BY <1>1, <1>3, <2>1, HostMoves DEF HostPlace
<1>4. \/ NameTaken(t) \/ Fails(t)
      \/ SetHost(Mine(t), NewHost(t, local[t].good)) /\ Move(t, "respond", local[t])
      \/ \E p \in local[t].add :
           SetHost(Mine(t), NewHost(t, {p})) /\ Move(t, "addPorts", local[t])
  BY DEF MakeHost
<1>5. ASSUME NEW p \in local[t].add, SetHost(Mine(t), NewHost(t, {p})),
             Move(t, "addPorts", local[t])
      PROVE  HostsInv'
  <2>1. {p} \subseteq Ports
    BY <1>1, <1>5
  <2> QED
    BY <1>3, <1>5, <2>1
<1> QED
  BY <1>1, <1>2, <1>3, <1>4, <1>5, HostFails

LEMMA ValidateKeeps ==
  ASSUME HostsInv, NEW t \in Threads, Validate(t)
  PROVE  HostsInv'
<1>1. pc[t] = "validate" /\ array \in HostArray
  BY DEF Validate, AtHost, At, HostsInv
<1>2. ASSUME Move(t, "respond", local[t]), UNCHANGED array
      PROVE  HostsInv'
  BY <1>1, <1>2, HostInHand, HostMoves DEF HostPlace, Mine
<1> QED
  BY <1>1, <1>2, HostFails DEF Validate

LEMMA ReadGroupsKeeps ==
  ASSUME HostsInv, NEW t \in Threads, ReadGroups(t)
  PROVE  HostsInv'
<1>1. pc[t] = "readGroups" /\ array \in HostArray
  BY DEF ReadGroups, AtHost, At, HostsInv
<1> DEFINE memo == [local[t] EXCEPT !.remove = GroupsToRemove(t), !.add = GroupsToAdd(t)]
<1>2. UNCHANGED array /\ (Creation(t) \/ (host[Mine(t)] # None /\ Move(t, "removeGroups", memo)))
  BY DEF ReadGroups
<1>3. ASSUME host[Mine(t)] # None
      PROVE  memo \in HostMemo /\ memo.name \in HostNames /\ memo.add \subseteq IoGroups
  <2>1. GroupsToRemove(t) \subseteq IoGroups /\ GroupsToAdd(t) \subseteq IoGroups
    BY <1>1, <1>3, HostInHand, HostTypes DEF GroupsToRemove, GroupsToAdd
  <2> QED
    BY <1>1, <2>1, HostInHand DEF HostMemo, Mine
<1> HIDE DEF memo
<1> QED
  BY <1>1, <1>2, <1>3, HostCreation, HostMoves DEF HostPlace

LEMMA ChangeGroupsKeeps ==
  ASSUME HostsInv, NEW t \in Threads, RemoveGroups(t) \/ AddGroups(t)
  PROVE  HostsInv'
<1>1. /\ pc[t] \in {"removeGroups", "addGroups"} /\ array \in HostArray
      /\ local[t].add \subseteq IoGroups
  BY DEF RemoveGroups, AddGroups, AtHost, At, HostsInv, Hosting
<1>2. \/ Creation(t) /\ UNCHANGED array
      \/ (Move(t, "addGroups", local[t]) \/ Move(t, "respond", local[t])) /\ UNCHANGED array
      \/ /\ host[Mine(t)] # None
         /\ \/ array' = [array EXCEPT !.host[Mine(t)].groups = @ \ local[t].remove]
            \/ array' = [array EXCEPT !.host[Mine(t)].groups = @ \union local[t].add]
         /\ Move(t, "addGroups", local[t]) \/ Move(t, "respond", local[t])
  BY DEF RemoveGroups, AddGroups
<1>3. ASSUME host[Mine(t)] # None,
             \/ array' = [array EXCEPT !.host[Mine(t)].groups = @ \ local[t].remove]
             \/ array' = [array EXCEPT !.host[Mine(t)].groups = @ \union local[t].add]
      PROVE  array' \in HostArray
  BY <1>1, <1>3, HostInHand DEF HostArray, HostRecord, host
<1> QED
  BY <1>1, <1>2, <1>3, HostInHand, HostCreation, HostMoves DEF HostPlace, Mine

LEMMA RespondKeeps ==
  ASSUME HostsInv, NEW t \in Threads, Respond(t)
  PROVE  HostsInv'
<1>1. pc[t] = "respond" /\ array \in HostArray
  BY DEF Respond, AtHost, At, HostsInv
<1> QED
  BY <1>1, HostFails, HostAnswered DEF Respond

LEMMA HostFailKeeps ==
  ASSUME HostsInv, NEW t \in Threads, HostFail(t)
  PROVE  HostsInv'
<1>1. pc[t] # "idle" /\ array' \in HostArray /\ memory' = memory
  BY DEF HostFail, HostsInv
<1>2. \/ Answer(t, FALSE)
      \/ Salvage(t) /\ pc[t] \notin {"findHost", "findUndefined", "undefine"}
  BY DEF HostFail, Salvages
<1> QED
  BY <1>1, <1>2, HostSalvaged, HostAnswered

LEMMA HostsStep ==
  ASSUME HostsInv, HostsNext
  PROVE  HostsInv'
  BY CallHostsKeeps, FindHostKeeps, VerifyPartitionKeeps, DropHostKeeps, ReadPortsKeeps,
     RemovePortsKeeps, ChangeProtocolKeeps, AddPortsKeeps, CountPortsKeeps, RemoveHostKeeps,
     TryPortKeeps, MakeHostKeeps, ValidateKeeps, ReadGroupsKeeps, ChangeGroupsKeeps,
     RespondKeeps, HostFailKeeps DEF HostsNext

LEMMA CrashKeepsHosts ==
  ASSUME HostsInv, Crash
  PROVE  HostsInv'
<1>1. Locked'
  BY CrashKeepsLocked DEF HostsInv
<1>2. UNCHANGED <<array, known>> /\ memory' = <<>>
      /\ \A t \in Threads : pc'[t] = "idle" /\ local'[t] = None
  BY DEF Crash
<1> QED
  BY <1>1, <1>2 DEF HostsInv, HostsKnown, Hosting, HostPlace

-----------------------------------------------------------------------------
(* What the host definer's calls for a node leave behind, as long as every *)
(* call was answered OK and none that differ have run together.            *)

TheHost == array.host["node"]
AimType == Requested(known.setting)
Aim == OfType(known.setting.ports, AimType)

Orderly == known.clean /\ ~ known.mixed /\ crashes = 0

(* The ports of a type that were recorded are those the host has.          *)
Matches(recorded) ==
  LET type == TypeOf(TheHost.ports)
  IN  OfType(recorded, type) # {} /\ OfType(recorded, type) \subseteq TheHost.ports

Settled == known.recorded = known.setting.ports /\ known.recorded # None /\ Matches(known.recorded)

(* No call has yet decided what it has to do about the ports.              *)
AsBefore ==
  /\ known.recorded # None /\ Matches(known.recorded)
  /\ \A t \in Threads : pc[t] # "idle" =>
       pc[t] \in {"findHost", "verifyPartition", "readPorts"} /\ req[t].recorded = known.recorded

Dooms(t) == pc[t] \in {"dropHost", "untryPort", "dropEmpty"}

(* The ports, and the I/O groups, are as asked, or a call is about to      *)
(* make them so.                                                           *)
PortsDone == Aim \subseteq TheHost.ports /\ (Aim = {} => TheHost.ports = {})
PortsDue(t) ==
  /\ pc[t] \in {"removePorts", "protocol", "addPorts"}
  /\ Aim \subseteq TheHost.ports \union local[t].add
  /\ pc[t] = "removePorts" /\ Aim = {} => TheHost.ports \subseteq local[t].remove

GroupsDone == TheHost.groups = known.setting.groups
GroupsDue(t) ==
  \/ pc[t] \in {"removePorts", "protocol", "addPorts", "countPorts"} /\ local[t].way # "create"
  \/ pc[t] = "readGroups"
  \/ /\ pc[t] = "removeGroups"
     /\ TheHost.groups \subseteq known.setting.groups \union local[t].remove
     /\ known.setting.groups \subseteq TheHost.groups \union local[t].add
  \/ /\ pc[t] = "addGroups"
     /\ TheHost.groups \subseteq known.setting.groups
     /\ known.setting.groups \subseteq TheHost.groups \union local[t].add

Becoming ==
  /\ TheHost.partition = known.setting.partition
  /\ PortsDone \/ \E t \in Threads : PortsDue(t)
  /\ known.setting.partition = None => GroupsDone \/ \E t \in Threads : GroupsDue(t)

Uniform == \E type \in ConnectivityTypes : TheHost.ports \subseteq OfType(Ports, type)

(* The calls that run together are all the same.                           *)
SameCalls ==
  \A t, u \in Threads : pc[t] # "idle" /\ pc[u] # "idle" =>
    req[t].setting = known.setting /\ req[t].op = req[u].op

(* What a call has in hand: it works on the node's own host, and neither   *)
(* removes what is asked for nor adds what is not.                         *)
Doing(t) ==
  /\ pc[t] \notin {"idle", "findHost", "findUndefined"} => local[t].name = "node"
  /\ pc[t] # "idle" => local[t].good \subseteq Aim
  /\ pc[t] \in {"verifyPartition", "readPorts"} => local[t].way = "update"
  /\ pc[t] = "readPorts" /\ TheHost # None => TheHost.partition = known.setting.partition
  /\ pc[t] \in {"removePorts", "protocol", "addPorts", "tryPort", "untryPort", "mkhost"} =>
       local[t].add \subseteq Aim
  /\ pc[t] = "removePorts" =>
       /\ local[t].remove \intersect Aim = {}
       /\ TheHost # None =>
            TheHost.ports \subseteq local[t].remove \union OfType(Ports, AimType)
  /\ pc[t] \in {"protocol", "addPorts"} /\ TheHost # None =>
       TheHost.ports \subseteq OfType(Ports, AimType)
  /\ pc[t] \in {"tryPort", "untryPort"} =>
       Aim \subseteq local[t].add \union local[t].good /\ known.setting.partition # None
  /\ pc[t] = "mkhost" =>
       Aim \subseteq IF known.setting.partition = None THEN local[t].add ELSE local[t].good
  /\ pc[t] = "removeGroups" => local[t].remove \intersect known.setting.groups = {}
  /\ pc[t] \in {"removeGroups", "addGroups"} => local[t].add \subseteq known.setting.groups

Defining == \E t \in Threads : pc[t] \notin {"idle", "findUndefined", "undefine"}

OrderlyInv ==
  Orderly =>
    /\ array.host["other"] = None
    /\ SameCalls
    /\ \A t \in Threads : Doing(t)
    /\ TheHost # None =>
         /\ Uniform
         /\ IF Defining THEN AsBefore \/ (\E t \in Threads : Dooms(t)) \/ Becoming ELSE Settled

AllIdle == \A t \in Threads : pc[t] = "idle"
MixedInv == known.clean /\ known.mixed /\ crashes = 0 => ~ AllIdle
AnswerInv == known.answer # None => AllIdle

LEMMA PortHasType ==
  /\ \A p \in Ports : PortType[p] \in ConnectivityTypes
  /\ \A ports, type : \A p \in OfType(ports, type) : p \in ports /\ PortType[p] = type
  BY ArrayHostsAssumption DEF Ports, ConnectivityTypes, Range, OfType

(* Ports of one type have that type.                                       *)
LEMMA TypeOfOneType ==
  ASSUME NEW ports, ports # {}, NEW type \in ConnectivityTypes, ports \subseteq OfType(Ports, type)
  PROVE  TypeOf(ports) = type /\ OfType(ports, type) = ports
         /\ \A other : other # type => OfType(ports, other) = {}
<1>1. \A p \in ports : PortType[p] = type
  BY PortHasType
<1>2. OfType(ports, type) = ports /\ \A other : other # type => OfType(ports, other) = {}
  BY <1>1 DEF OfType
<1>3. TypeOf(ports) = type
  BY <1>2 DEF TypeOf, ConnectivityTypes
<1> QED
  BY <1>2, <1>3

LEMMA NoPortNoType == TypeOf({}) = None
  BY DEF TypeOf, OfType

LEMMA AimIsTyped ==
  ASSUME HostsInv
  PROVE  /\ Aim \subseteq Ports /\ Aim \subseteq OfType(Ports, AimType)
         /\ Aim # {} => AimType \in ConnectivityTypes
<1>1. known.setting.ports \subseteq Ports
  BY HostTypes DEF HostsInv, HostsKnown
<1>2. Aim \subseteq Ports /\ \A p \in Aim : PortType[p] = AimType
  BY <1>1, PortHasType DEF Aim
<1> QED
  BY <1>2, PortHasType DEF OfType

LEMMA AimStays ==
  ASSUME known'.setting = known.setting
  PROVE  Aim' = Aim /\ AimType' = AimType
  BY DEF Aim, AimType

(* Calls that are the same work for the setting asked for last.            *)
LEMMA OrderlyCall ==
  ASSUME HostsInv, OrderlyInv, Orderly, NEW t \in Threads, pc[t] # "idle"
  PROVE  /\ Setup(t) = known.setting /\ Type(t) = AimType /\ Wanted(t) = Aim
         /\ array.host["other"] = None /\ Doing(t)
         /\ pc[t] \notin {"findHost", "findUndefined"} => Mine(t) = "node" /\ host[Mine(t)] = TheHost
         /\ TheHost \in HostRecord \union {None}
         /\ TheHost # None => Uniform
<1>1. Setup(t) = known.setting
  BY DEF OrderlyInv, SameCalls, Setup
<1>2. Type(t) = AimType /\ Wanted(t) = Aim
  BY <1>1 DEF Type, AimType, Wanted, Aim
<1>3. array.host["other"] = None /\ Doing(t) /\ (TheHost # None => Uniform)
  BY DEF OrderlyInv
<1>4. pc[t] \notin {"findHost", "findUndefined"} => Mine(t) = "node" /\ host[Mine(t)] = TheHost
  BY <1>3 DEF Doing, Mine, host, TheHost
<1>5. TheHost \in HostRecord \union {None}
  BY DEF HostsInv, HostArray, TheHost, HostNames
<1> QED
  BY <1>1, <1>2, <1>3, <1>4, <1>5

(* What an orderly call may do to the host: delete it, make it anew as     *)
(* asked, or bring it nearer to what is asked.                             *)
Gentle ==
  \/ TheHost' = None
  \/ /\ TheHost # None /\ TheHost' # None
     /\ TheHost'.partition = TheHost.partition
     /\ TheHost.ports \intersect Aim \subseteq TheHost'.ports
     /\ TheHost'.ports \subseteq TheHost.ports \union Aim
     /\ TheHost.groups \intersect known.setting.groups \subseteq TheHost'.groups
     /\ TheHost'.groups \subseteq TheHost.groups \union known.setting.groups
  \/ /\ TheHost = None /\ TheHost' # None
     /\ TheHost'.partition = known.setting.partition
     /\ TheHost'.ports \subseteq Aim /\ TheHost'.groups = known.setting.groups

LEMMA OthersDoing ==
  ASSUME HostsInv, Gentle, known'.setting = known.setting, NEW u \in Threads, Doing(u),
         pc'[u] = pc[u], local'[u] = local[u]
  PROVE  Doing(u)'
<1>1. Aim' = Aim /\ AimType' = AimType
  BY AimStays
<1>2. Aim \subseteq OfType(Ports, AimType)
  BY AimIsTyped
<1>3. pc[u] = "readPorts" /\ TheHost' # None => TheHost'.partition = known.setting.partition
  BY DEF Gentle, Doing
<1>4. pc[u] = "removePorts" /\ TheHost' # None =>
        TheHost'.ports \subseteq local[u].remove \union OfType(Ports, AimType)
  BY <1>2 DEF Gentle, Doing
<1>5. pc[u] \in {"protocol", "addPorts"} /\ TheHost' # None =>
        TheHost'.ports \subseteq OfType(Ports, AimType)
  BY <1>2 DEF Gentle, Doing
<1>6. OfType(Ports, AimType)' = OfType(Ports, AimType)
  BY <1>1 DEF OfType
<1> QED
  BY <1>1, <1>3, <1>4, <1>5, <1>6 DEF Doing

LEMMA OthersDue ==
  ASSUME Gentle, TheHost # None, TheHost' # None, known'.setting = known.setting
  PROVE  /\ PortsDone => PortsDone'
         /\ GroupsDone => GroupsDone'
         /\ \A u \in Threads : pc'[u] = pc[u] /\ local'[u] = local[u] =>
              (PortsDue(u) => PortsDue(u)') /\ (GroupsDue(u) => GroupsDue(u)')
<1>1. Aim' = Aim
  BY AimStays
<1>2. PortsDone => PortsDone'
  BY <1>1 DEF Gentle, PortsDone
<1>3. GroupsDone => GroupsDone'
  BY DEF Gentle, GroupsDone
<1>4. ASSUME NEW u \in Threads, pc'[u] = pc[u], local'[u] = local[u], PortsDue(u)
      PROVE  PortsDue(u)'
  BY <1>1, <1>4 DEF Gentle, PortsDue
<1>5. ASSUME NEW u \in Threads, pc'[u] = pc[u], local'[u] = local[u], GroupsDue(u)
      PROVE  GroupsDue(u)'
  BY <1>5 DEF Gentle, GroupsDue
<1> QED
  BY <1>2, <1>3, <1>4, <1>5

(* A call goes on: when it has left the host, the host is as asked, or     *)
(* this or another call has still to make it so.                           *)
LEMMA OrderlyMove ==
  ASSUME HostsInv, OrderlyInv, Orderly, NEW t \in Threads, Alone(t),
         pc[t] \notin {"idle", "findUndefined", "undefine"},
         pc'[t] \notin {"idle", "findUndefined", "undefine"}, req'[t] = req[t],
         known' = known, Gentle, array'.host["other"] = None, Doing(t)',
         TheHost' # None =>
           /\ Uniform'
           /\ \/ Dooms(t)'
              \/ TheHost = None /\ Becoming'
              \/ /\ TheHost # None /\ ~ Dooms(t)
                 /\ PortsDue(t) => PortsDue(t)' \/ PortsDone'
                 /\ known.setting.partition = None /\ GroupsDue(t) => GroupsDue(t)' \/ GroupsDone'
                 /\ AsBefore => AsBefore' \/ Becoming'
  PROVE  OrderlyInv'
<1>1. SameCalls'
  BY DEF OrderlyInv, SameCalls, Alone
<1>2. ASSUME NEW u \in Threads
      PROVE  Doing(u)'
  <2>1. CASE u = t
    BY <2>1
  <2>2. CASE u # t
    <3>1. Doing(u) /\ pc'[u] = pc[u] /\ local'[u] = local[u]
      BY <2>2 DEF OrderlyInv, Alone
    <3> QED
      BY <3>1, OthersDoing
  <2> QED
    BY <2>1, <2>2
<1>3. Defining /\ Defining'
  BY DEF Defining
<1>4. ASSUME TheHost' # None, ~ Dooms(t)'
      PROVE  AsBefore' \/ (\E u \in Threads : Dooms(u)') \/ Becoming'
  <2>1. CASE TheHost = None
    BY <1>4, <2>1
  <2>2. CASE TheHost # None
    <3>1. AsBefore \/ (\E u \in Threads \ {t} : Dooms(u)) \/ Becoming
      BY <1>3, <1>4, <2>2 DEF OrderlyInv
    <3>2. CASE AsBefore
      BY <1>4, <2>2, <3>2
    <3>3. CASE \E u \in Threads \ {t} : Dooms(u)
      BY <3>3 DEF Dooms, Alone
    <3>4. CASE Becoming
      <4>1. TheHost'.partition = known.setting.partition
        BY <1>4, <2>2, <3>4 DEF Gentle, Becoming
      <4>2. PortsDone' \/ \E u \in Threads : PortsDue(u)'
        <5>1. CASE PortsDone \/ PortsDue(t)
          BY <1>4, <2>2, <5>1, OthersDue
        <5>2. CASE \E u \in Threads \ {t} : PortsDue(u)
          BY <1>4, <2>2, <5>2, OthersDue DEF Alone
        <5> QED
          BY <3>4, <5>1, <5>2 DEF Becoming
      <4>3. known.setting.partition = None =>
              GroupsDone' \/ \E u \in Threads : GroupsDue(u)'
        <5>1. CASE known.setting.partition = None /\ (GroupsDone \/ GroupsDue(t))
          BY <1>4, <2>2, <5>1, OthersDue
        <5>2. CASE \E u \in Threads \ {t} : GroupsDue(u)
          BY <1>4, <2>2, <5>2, OthersDue DEF Alone
        <5> QED
          BY <3>4, <5>1, <5>2 DEF Becoming
      <4> QED
        BY <4>1, <4>2, <4>3 DEF Becoming
    <3> QED
      BY <3>1, <3>2, <3>3, <3>4
  <2> QED
    BY <2>1, <2>2
<1>5. TheHost' # None => AsBefore' \/ (\E u \in Threads : Dooms(u)') \/ Becoming'
  BY <1>4
<1> QED
  BY <1>1, <1>2, <1>3, <1>5 DEF OrderlyInv

LEMMA SameHostIsGentle ==
  ASSUME HostsInv, array' = array
  PROVE  Gentle /\ TheHost' = TheHost /\ Uniform' = Uniform
         /\ array'.host["other"] = array.host["other"]
<1>1. TheHost' = TheHost
  BY DEF TheHost
<1>2. Uniform' = Uniform
  BY <1>1 DEF Uniform
<1> QED
  BY <1>1, <1>2 DEF Gentle

LEMMA DeletedIsGentle ==
  ASSUME HostsInv, SetHost("node", None)
  PROVE  Gentle /\ TheHost' = None /\ array'.host["other"] = array.host["other"]
  BY DEF HostsInv, HostArray, HostNames, SetHost, TheHost, Gentle

LEMMA RefusedIsOrderly ==
  ASSUME HostsInv, NEW t \in Threads, Answer(t, FALSE)
  PROVE  OrderlyInv'
  BY DEF HostsInv, HostsKnown, Answer, Outcome, OrderlyInv, Orderly

LEMMA SalvagedIsOrderly ==
  ASSUME HostsInv, OrderlyInv, NEW t \in Threads, Salvage(t), crashes' = crashes,
         pc[t] \notin {"idle", "findHost", "findUndefined", "undefine"},
         Orderly => Gentle /\ array'.host["other"] = None /\ (TheHost' # None => Uniform')
  PROVE  OrderlyInv'
<1>1. /\ Alone(t) /\ UNCHANGED known /\ pc'[t] = "dropHost" /\ req'[t] = req[t]
      /\ local'[t] = [local[t] EXCEPT !.way = "recreate"]
  BY ProceedMoves DEF Salvage, HostsInv
<1>2. ASSUME Orderly
      PROVE  OrderlyInv'
  <2>1. Aim' = Aim /\ Doing(t) /\ local[t] \in HostMemo
    BY <1>1, <1>2, AimStays, OrderlyCall DEF HostsInv, Hosting
  <2>2. Doing(t)'
    BY <1>1, <2>1 DEF Doing, HostMemo
  <2>3. Dooms(t)'
    BY <1>1 DEF Dooms
  <2> QED
    BY <1>1, <1>2, <2>2, <2>3, OrderlyMove
<1>3. Orderly' => Orderly
  BY <1>1 DEF Orderly
<1> QED
  BY <1>2, <1>3 DEF OrderlyInv

LEMMA FailedIsOrderly ==
  ASSUME HostsInv, OrderlyInv, NEW t \in Threads,
         pc[t] \notin {"idle", "findHost", "findUndefined"}, Fails(t)
  PROVE  OrderlyInv'
<1>1. ASSUME Orderly
      PROVE  Gentle /\ array'.host["other"] = None /\ (TheHost' # None => Uniform')
  BY <1>1, SameHostIsGentle, OrderlyCall DEF Fails
<1> QED
  BY <1>1, RefusedIsOrderly, SalvagedIsOrderly DEF Fails, Salvages, NoFault

LEMMA CreatedIsOrderly ==
  ASSUME HostsInv, OrderlyInv, NEW t \in Threads, Creation(t),
         pc[t] \notin {"idle", "findUndefined", "undefine"},
         Orderly => Gentle /\ array'.host["other"] = None,
         Orderly /\ TheHost' # None => pc[t] = "findHost" /\ array' = array /\ ~ AsBefore
  PROVE  OrderlyInv'
<1> DEFINE memo == [NoHostMemo EXCEPT !.name = "node", !.way = "create", !.add = Wanted(t)]
           to == IF Setup(t).partition = None THEN "mkhost" ELSE "tryPort"
<1>1. Move(t, to, memo) /\ to \in {"mkhost", "tryPort"}
  BY Zenon DEF Creation
<1>2. memo.name = "node" /\ memo.add = Wanted(t) /\ memo.good = {}
  BY DEF NoHostMemo
<1> HIDE DEF memo
<1>3. /\ Alone(t) /\ UNCHANGED known /\ pc'[t] = to /\ req'[t] = req[t] /\ local'[t] = memo
      /\ crashes' = crashes
  BY <1>1, ProceedMoves DEF Move, NoFault, HostsInv
<1>4. ASSUME Orderly
      PROVE  OrderlyInv'
  <2>1. Aim' = Aim /\ Wanted(t) = Aim /\ Setup(t) = known.setting
    BY <1>3, <1>4, AimStays, OrderlyCall
  <2>2. Doing(t)'
    BY <1>1, <1>2, <1>3, <2>1 DEF Doing
  <2>3. TheHost' # None => TheHost # None /\ Uniform' /\ ~ Dooms(t) /\ ~ PortsDue(t) /\ ~ GroupsDue(t)
    BY <1>4, SameHostIsGentle, OrderlyCall DEF Dooms, PortsDue, GroupsDue
  <2> QED
    BY <1>1, <1>3, <1>4, <2>2, <2>3, OrderlyMove
<1>5. Orderly' => Orderly
  BY <1>3 DEF Orderly
<1> QED
  BY <1>4, <1>5 DEF OrderlyInv

(* The host was gone when it was looked for.                               *)
LEMMA GoneIsOrderly ==
  ASSUME HostsInv, OrderlyInv, NEW t \in Threads,
         pc[t] \notin {"idle", "findHost", "findUndefined", "undefine"},
         \/ IsGone(t)
         \/ host[Mine(t)] = None /\ Creation(t) /\ UNCHANGED array
  PROVE  OrderlyInv'
<1>1. CASE Fails(t)
  BY <1>1, FailedIsOrderly
<1>2. CASE host[Mine(t)] = None /\ Creation(t) /\ UNCHANGED array
  <2>1. Orderly => Gentle /\ array'.host["other"] = None /\ TheHost' = None
    BY <1>2, SameHostIsGentle, OrderlyCall
  <2> QED
    BY <1>2, <2>1, CreatedIsOrderly
<1> QED
  BY <1>1, <1>2 DEF IsGone

(* Only a call that differs from those that run makes known.mixed TRUE.    *)
LEMMA CallIsOrderly ==
  ASSUME HostsInv, OrderlyInv, MixedInv, NEW t \in Threads, CallHosts(t)
  PROVE  OrderlyInv' /\ MixedInv' /\ known'.answer = None
<1>1. PICK op \in {"define", "undefine"}, s \in NextSettings :
        LET r == [op |-> op, worker |-> t, setting |-> s,
                  recorded |-> IF known.recorded = None THEN s.ports ELSE known.recorded]
            others == {u \in Threads : pc[u] # "idle"}
            differs(u) == req[u].op # op \/ req[u].setting # s
        IN  /\ op = "undefine" => s = known.setting
            /\ Enter(t, r, IF op = "define" THEN "findHost" ELSE "findUndefined", NoHostMemo)
            /\ known' = [known EXCEPT !.setting = s, !.answer = None,
                           !.mixed = others # {} /\ (@ \/ (\E u \in others : differs(u)))]
  BY Zenon DEF CallHosts
<1> DEFINE r == [op |-> op, worker |-> t, setting |-> s,
                 recorded |-> IF known.recorded = None THEN s.ports ELSE known.recorded]
           place == IF op = "define" THEN "findHost" ELSE "findUndefined"
           others == {u \in Threads : pc[u] # "idle"}
           mixed == others # {} /\ (known.mixed \/ (\E u \in others : req[u].op # op \/ req[u].setting # s))
<1>2. s \in Setting
  BY DEF NextSettings
<1>3. r \in HostRequest
  BY <1>2 DEF HostRequest, HostsInv, HostsKnown, Setting
<1>4. /\ r.op = op /\ r.setting = s
      /\ r.recorded = IF known.recorded = None THEN s.ports ELSE known.recorded
  OBVIOUS
<1>5. Enter(t, r, place, NoHostMemo) /\ (op = "undefine" => s = known.setting)
  BY <1>1
<1>6. known' = [known EXCEPT !.setting = s, !.answer = None, !.mixed = mixed]
  BY <1>1 DEF HostsInv, HostsKnown
<1> HIDE DEF r
<1>7. /\ Alone(t) /\ pc[t] = "idle" /\ UNCHANGED <<array, crashes>>
      /\ pc'[t] = place /\ req'[t] = r /\ local'[t] = NoHostMemo
  <2>1. r # None /\ place # "idle" /\ Locked
    BY <1>3, ArrayHostsAssumption DEF HostsInv
  <2> HIDE DEF place
  <2> QED
    BY <1>5, <2>1, EnterMoves
<1>8. /\ known'.setting = s /\ known'.answer = None /\ known'.mixed = mixed
      /\ known'.clean = known.clean /\ known'.recorded = known.recorded
  BY <1>6 DEF HostsInv, HostsKnown
<1>9. TheHost' = TheHost /\ Uniform' = Uniform /\ Gentle
      /\ array'.host["other"] = array.host["other"]
  BY <1>7, SameHostIsGentle
<1>10. Matches(known.recorded)' = Matches(known'.recorded) /\ Matches(known'.recorded) = Matches(known.recorded)
  BY <1>8, <1>9 DEF Matches
<1>11. Doing(t)'
  BY <1>7 DEF Doing, NoHostMemo
<1>12. MixedInv'
  BY <1>7 DEF MixedInv, AllIdle
<1>13. ASSUME others = {}, Orderly'
       PROVE  OrderlyInv'
  <2>1. Orderly /\ \A u \in Threads : pc[u] = "idle"
    BY <1>7, <1>8, <1>13 DEF MixedInv, AllIdle, Orderly, HostsInv, HostsKnown
  <2>2. \A u \in Threads : u # t => pc'[u] = "idle"
    BY <1>7, <2>1 DEF Alone
  <2>3. SameCalls'
    BY <1>4, <1>7, <1>8, <2>2 DEF SameCalls
  <2>4. \A u \in Threads : Doing(u)'
    BY <1>11, <2>2 DEF Doing
  <2>5. /\ array'.host["other"] = None
        /\ TheHost' # None => Uniform' /\ Settled
    BY <1>9, <2>1 DEF OrderlyInv, Defining
  <2>6. CASE op = "define"
    <3>1. Settled => AsBefore'
      BY <1>4, <1>7, <1>8, <1>9, <2>2, <2>6 DEF Settled, AsBefore, Matches
    <3>2. Defining'
      BY <1>7, <2>6 DEF Defining
    <3> QED
      BY <2>3, <2>4, <2>5, <3>1, <3>2 DEF OrderlyInv
  <2>7. CASE op = "undefine"
    <3>1. Settled => Settled'
      BY <1>5, <1>8, <1>9, <2>7 DEF Settled, Matches
    <3>2. ~ Defining'
      BY <1>7, <2>2, <2>7 DEF Defining
    <3> QED
      BY <2>3, <2>4, <2>5, <3>1, <3>2 DEF OrderlyInv
  <2> QED
    BY <2>6, <2>7
<1>14. ASSUME others # {}, Orderly'
       PROVE  OrderlyInv'
  <2>1. Orderly /\ \A u \in Threads : pc[u] # "idle" => req[u].op = op /\ req[u].setting = s
    BY <1>7, <1>8, <1>14 DEF Orderly, HostsInv, HostsKnown
  <2>2. PICK v \in Threads : pc[v] # "idle"
    BY <1>14
  <2>3. known.setting = s
    BY <2>1, <2>2 DEF OrderlyInv, SameCalls
  <2>4. SameCalls'
    BY <1>4, <1>7, <1>8, <2>1 DEF SameCalls, Alone
  <2>5. ASSUME NEW u \in Threads, u # t
        PROVE  Doing(u)'
    <3>1. Doing(u) /\ pc'[u] = pc[u] /\ local'[u] = local[u] /\ known'.setting = known.setting
      BY <1>7, <1>8, <2>1, <2>3, <2>5 DEF OrderlyInv, Alone
    <3> QED
      BY <1>9, <3>1, OthersDoing
  <2>6. array'.host["other"] = None /\ (TheHost' # None => Uniform' /\ TheHost # None)
    BY <1>9, <2>1 DEF OrderlyInv
  <2>7. v # t /\ pc'[v] = pc[v] /\ Hosting(v) /\ req[v].op = op
    BY <1>7, <2>1, <2>2 DEF Alone, HostsInv
  <2>8. CASE op = "define"
    <3>1. Defining /\ Defining'
      BY <2>2, <2>7, <2>8 DEF Defining, Hosting
    <3>2. ASSUME TheHost' # None, AsBefore
          PROVE  AsBefore'
      <4>1. r.recorded = known.recorded /\ pc'[t] = "findHost" /\ known.recorded # None
        BY <1>4, <1>7, <2>8, <3>2 DEF AsBefore
      <4> QED
        BY <1>7, <1>8, <1>9, <3>2, <4>1 DEF AsBefore, Matches, Alone
    <3>3. ASSUME NEW u \in Threads, Dooms(u)
          PROVE  Dooms(u)'
      BY <1>7, <3>3 DEF Dooms, Alone
    <3>4. ASSUME TheHost' # None, Becoming
          PROVE  Becoming'
      <4>1. /\ \A u \in Threads : PortsDue(u) => u # t
            /\ \A u \in Threads : GroupsDue(u) => u # t
        BY <1>7 DEF PortsDue, GroupsDue
      <4>2. TheHost # None /\ known'.setting = known.setting
        BY <1>8, <2>3, <2>6, <3>4
      <4>3. PortsDone' \/ \E u \in Threads : PortsDue(u)'
        BY <1>7, <1>9, <3>4, <4>1, <4>2, OthersDue DEF Becoming, Alone
      <4>4. known.setting.partition = None => GroupsDone' \/ \E u \in Threads : GroupsDue(u)'
        BY <1>7, <1>9, <3>4, <4>1, <4>2, OthersDue DEF Becoming, Alone
      <4> QED
        BY <1>9, <3>4, <4>2, <4>3, <4>4 DEF Becoming
    <3>5. TheHost' # None => AsBefore \/ (\E u \in Threads : Dooms(u)) \/ Becoming
      BY <2>1, <2>6, <3>1 DEF OrderlyInv
    <3> QED
      BY <1>11, <2>4, <2>5, <2>6, <3>1, <3>2, <3>3, <3>4, <3>5 DEF OrderlyInv
  <2>9. CASE op = "undefine"
    <3>1. ~ Defining /\ ~ Defining'
      BY <1>7, <2>1, <2>9 DEF Defining, Hosting, HostsInv, Alone
    <3>2. TheHost # None => Settled
      BY <2>1, <3>1 DEF OrderlyInv
    <3>3. Settled => Settled'
      BY <1>8, <1>9, <2>3 DEF Settled, Matches
    <3> QED
      BY <1>11, <2>4, <2>5, <2>6, <3>1, <3>2, <3>3 DEF OrderlyInv
  <2> QED
    BY <2>8, <2>9
<1> QED
  BY <1>8, <1>12, <1>13, <1>14 DEF OrderlyInv

(* A call that only goes on to another place.                              *)
LEMMA MoveFacts ==
  ASSUME HostsInv, NEW t \in Threads, pc[t] # "idle", NEW to, to # "idle", NEW memo,
         Move(t, to, memo)
  PROVE  /\ Alone(t) /\ known' = known /\ crashes' = crashes
         /\ pc'[t] = to /\ req'[t] = req[t] /\ local'[t] = memo
         /\ Orderly' = Orderly /\ Aim' = Aim /\ AimType' = AimType
<1>1. /\ Alone(t) /\ known' = known /\ crashes' = crashes
      /\ pc'[t] = to /\ req'[t] = req[t] /\ local'[t] = memo
  BY ProceedMoves DEF Move, NoFault, HostsInv
<1> QED
  BY <1>1, AimStays DEF Orderly

LEMMA GoesOnOrderly ==
  ASSUME HostsInv, OrderlyInv, NEW t \in Threads, pc[t] \notin {"idle", "findUndefined", "undefine"},
         NEW to, to \notin {"idle", "findUndefined", "undefine"}, NEW memo, Move(t, to, memo),
         array' = array,
         Orderly => Doing(t)',
         Orderly /\ TheHost # None =>
           \/ to \in {"dropHost", "untryPort", "dropEmpty"}
           \/ /\ ~ Dooms(t)
              /\ PortsDue(t) => PortsDue(t)' \/ PortsDone'
              /\ known.setting.partition = None /\ GroupsDue(t) => GroupsDue(t)' \/ GroupsDone'
              /\ AsBefore => AsBefore' \/ Becoming'
  PROVE  OrderlyInv'
<1>1. /\ Alone(t) /\ known' = known /\ pc'[t] = to /\ req'[t] = req[t] /\ Orderly' = Orderly
  BY MoveFacts
<1>2. Gentle /\ TheHost' = TheHost /\ Uniform' = Uniform
      /\ array'.host["other"] = array.host["other"]
  BY SameHostIsGentle
<1>3. ASSUME Orderly
      PROVE  OrderlyInv'
  <2>1. array'.host["other"] = None /\ (TheHost # None => Uniform)
    BY <1>2, <1>3, OrderlyCall
  <2>2. to \in {"dropHost", "untryPort", "dropEmpty"} => Dooms(t)'
    BY <1>1 DEF Dooms
  <2> QED
    BY <1>1, <1>2, <1>3, <2>1, <2>2, OrderlyMove
<1> QED
  BY <1>1, <1>3 DEF OrderlyInv

(* The ports that were recorded lead to the host.                          *)
LEMMA MatchedIsFound ==
  ASSUME HostsInv, NEW recorded, Matches(recorded), TheHost # None
  PROVE  "node" \in HostsWith(recorded)
<1> DEFINE type == TypeOf(TheHost.ports)
<1>1. OfType(recorded, type) # {} /\ OfType(recorded, type) \subseteq TheHost.ports
  BY DEF Matches
<1>2. OfType(recorded, type) \subseteq recorded
  BY HostTypes
<1> HIDE DEF type
<1>3. TheHost.ports \intersect recorded # {}
  BY <1>1, <1>2
<1> QED
  BY <1>3 DEF HostsWith, HostNames, host, TheHost

LEMMA FindHostIsOrderly ==
  ASSUME HostsInv, OrderlyInv, NEW t \in Threads, FindHost(t)
  PROVE  OrderlyInv'
<1>1. pc[t] = "findHost"
  BY DEF FindHost, AtHost, At
<1>2. ASSUME HostsWith(req[t].recorded) = {}, Creation(t), UNCHANGED array
      PROVE  OrderlyInv'
  <2>1. TheHost # None => ~ AsBefore
    BY <1>1, <1>2, MatchedIsFound DEF AsBefore
  <2>2. Orderly => Gentle /\ array'.host["other"] = None /\ TheHost' = TheHost
    BY <1>1, <1>2, SameHostIsGentle, OrderlyCall
  <2> QED
    BY <1>1, <1>2, <2>1, <2>2, CreatedIsOrderly
<1>3. ASSUME NEW h \in HostsWith(req[t].recorded), UNCHANGED array,
             Move(t, "verifyPartition", [NoHostMemo EXCEPT !.name = h])
      PROVE  OrderlyInv'
  <2> DEFINE memo == [NoHostMemo EXCEPT !.name = h]
  <2>1. memo.name = h /\ memo.good = {} /\ memo.way = "update"
    BY DEF NoHostMemo
  <2>2. Orderly => h = "node"
    BY <1>1, OrderlyCall DEF HostsWith, HostNames, host
  <2>3. Move(t, "verifyPartition", memo)
    BY <1>3
  <2> HIDE DEF memo
  <2>4. /\ Alone(t) /\ known' = known /\ pc'[t] = "verifyPartition" /\ req'[t] = req[t]
        /\ local'[t] = memo
    BY <1>1, <2>3, MoveFacts
  <2>5. Orderly => Doing(t)'
    BY <2>1, <2>2, <2>4 DEF Doing
  <2>6. AsBefore => AsBefore'
    <3>1. TheHost' = TheHost
      BY <1>3, SameHostIsGentle
    <3> QED
      BY <1>1, <2>4, <3>1 DEF AsBefore, Matches, Alone
  <2>7. ~ Dooms(t) /\ ~ PortsDue(t) /\ ~ GroupsDue(t)
    BY <1>1 DEF Dooms, PortsDue, GroupsDue
  <2> QED
    BY <1>1, <1>3, <2>3, <2>5, <2>6, <2>7, GoesOnOrderly
<1> QED
  BY <1>2, <1>3, RefusedIsOrderly DEF FindHost, Refuse

LEMMA VerifyPartitionIsOrderly ==
  ASSUME HostsInv, OrderlyInv, NEW t \in Threads, VerifyPartition(t)
  PROVE  OrderlyInv'
<1>1. pc[t] = "verifyPartition" /\ local[t] \in HostMemo
  BY DEF VerifyPartition, AtHost, At, HostsInv, Hosting
<1>2. ASSUME host[Mine(t)].partition = Setup(t).partition, Move(t, "readPorts", local[t]),
             UNCHANGED array
      PROVE  OrderlyInv'
  <2>1. /\ Alone(t) /\ known' = known /\ pc'[t] = "readPorts" /\ req'[t] = req[t]
        /\ local'[t] = local[t] /\ Aim' = Aim
    BY <1>1, <1>2, MoveFacts
  <2>2. TheHost' = TheHost
    BY <1>2, SameHostIsGentle
  <2>3. Orderly => Doing(t)'
    BY <1>1, <1>2, <2>1, <2>2, OrderlyCall DEF Doing
  <2>4. AsBefore => AsBefore'
    BY <1>1, <2>1, <2>2 DEF AsBefore, Matches, Alone
  <2>5. ~ Dooms(t) /\ ~ PortsDue(t) /\ ~ GroupsDue(t)
    BY <1>1 DEF Dooms, PortsDue, GroupsDue
  <2> QED
    BY <1>1, <1>2, <2>3, <2>4, <2>5, GoesOnOrderly
<1>3. ASSUME Move(t, "dropHost", [local[t] EXCEPT !.way = "create"]), UNCHANGED array
      PROVE  OrderlyInv'
  <2> DEFINE memo == [local[t] EXCEPT !.way = "create"]
  <2>1. memo.name = local[t].name /\ memo.good = local[t].good
    BY <1>1 DEF HostMemo
  <2>2. Move(t, "dropHost", memo)
    BY <1>3
  <2> HIDE DEF memo
  <2>3. pc'[t] = "dropHost" /\ local'[t] = memo /\ Aim' = Aim
    BY <1>1, <2>2, MoveFacts
  <2>4. Orderly => Doing(t)'
    BY <1>1, <2>1, <2>3, OrderlyCall DEF Doing
  <2> QED
    BY <1>1, <1>3, <2>2, <2>4, GoesOnOrderly
<1> QED
  BY <1>1, <1>2, <1>3, GoneIsOrderly DEF VerifyPartition

LEMMA DropHostIsOrderly ==
  ASSUME HostsInv, OrderlyInv, NEW t \in Threads, DropHost(t)
  PROVE  OrderlyInv'
<1> DEFINE to == IF Setup(t).partition = None THEN "mkhost" ELSE "tryPort"
           memo == [local[t] EXCEPT !.remove = {}, !.add = Wanted(t)]
<1>1. pc[t] = "dropHost" /\ local[t] \in HostMemo
  BY DEF DropHost, AtHost, At, HostsInv, Hosting
<1>2. \/ Fails(t)
      \/ SetHost(Mine(t), None) /\ (Creation(t) \/ Move(t, to, memo))
  BY DEF DropHost, RemoveHost
<1>3. /\ memo.name = local[t].name /\ memo.add = Wanted(t) /\ memo.good = local[t].good
      /\ to \in {"mkhost", "tryPort"} /\ (to = "mkhost" <=> Setup(t).partition = None)
  BY <1>1 DEF HostMemo
<1> HIDE DEF to, memo
<1>4. Orderly /\ SetHost(Mine(t), None) =>
        Gentle /\ TheHost' = None /\ array'.host["other"] = None
  BY <1>1, OrderlyCall, DeletedIsGentle
<1>5. ASSUME SetHost(Mine(t), None), Move(t, to, memo)
      PROVE  OrderlyInv'
  <2>1. /\ Alone(t) /\ known' = known /\ pc'[t] = to /\ req'[t] = req[t] /\ local'[t] = memo
        /\ Orderly' = Orderly /\ Aim' = Aim
    BY <1>1, <1>3, <1>5, MoveFacts
  <2>2. Orderly => Doing(t)'
    BY <1>1, <1>3, <2>1, OrderlyCall DEF Doing
  <2>3. Orderly => OrderlyInv'
    BY <1>1, <1>3, <1>4, <1>5, <2>1, <2>2, OrderlyMove
  <2> QED
    BY <2>1, <2>3 DEF OrderlyInv
<1>6. ASSUME SetHost(Mine(t), None), Creation(t)
      PROVE  OrderlyInv'
  BY <1>1, <1>4, <1>6, CreatedIsOrderly
<1> QED
  BY <1>1, <1>2, <1>5, <1>6, FailedIsOrderly

(* A host with ports has one type, which is that of all its ports.         *)
LEMMA HostHasOneType ==
  ASSUME HostsInv, OrderlyInv, Orderly, NEW t \in Threads, pc[t] = "readPorts",
         TheHost # None, TypeOfHost(Mine(t)) # None
  PROVE  /\ TypeOfHost(Mine(t)) = TypeOf(TheHost.ports) /\ TypeOf(TheHost.ports) \in ConnectivityTypes
         /\ TheHost.ports # {} /\ Has(t) = TheHost.ports
         /\ TypeOf(TheHost.ports) # AimType => TheHost.ports \intersect Aim = {}
<1>1. host[Mine(t)] = TheHost
  BY OrderlyCall
<1>2. TypeOfHost(Mine(t)) = TypeOf(TheHost.ports)
  BY <1>1 DEF TypeOfHost
<1>3. TheHost.ports # {}
  BY <1>2, NoPortNoType
<1>4. PICK type \in ConnectivityTypes : TheHost.ports \subseteq OfType(Ports, type)
  BY OrderlyCall DEF Uniform
<1>5. TypeOf(TheHost.ports) = type /\ OfType(TheHost.ports, type) = TheHost.ports
  BY <1>3, <1>4, TypeOfOneType
<1>6. Has(t) = TheHost.ports
  BY <1>1, <1>2, <1>5 DEF Has
<1>7. type # AimType => TheHost.ports \intersect Aim = {}
  BY <1>4, AimIsTyped, PortHasType
<1> QED
  BY <1>2, <1>3, <1>4, <1>5, <1>6, <1>7

LEMMA ReadPortsIsOrderly ==
  ASSUME HostsInv, OrderlyInv, NEW t \in Threads, ReadPorts(t)
  PROVE  OrderlyInv'
<1> DEFINE switch == [local[t] EXCEPT !.way = "switch", !.remove = Has(t), !.add = Wanted(t)]
           update == [local[t] EXCEPT !.remove = PortsToRemove(t), !.add = PortsToAdd(t)]
<1>1. pc[t] = "readPorts" /\ local[t] \in HostMemo
  BY DEF ReadPorts, AtHost, At, HostsInv, Hosting
<1>2. \/ IsGone(t)
      \/ /\ host[Mine(t)] # None /\ UNCHANGED array
         /\ \/ Salvage(t) /\ crashes' = crashes
            \/ Answer(t, FALSE)
            \/ /\ TypeOfHost(Mine(t)) # None /\ IsProtocolSwitched(t)
               /\ Move(t, "removePorts", switch)
            \/ TypeOfHost(Mine(t)) # None /\ Move(t, "removePorts", update)
            \/ /\ TypeOfHost(Mine(t)) # None /\ ~ IsPortUpdateNeeded(t)
               /\ Move(t, AfterPorts(t), local[t])
  BY DEF ReadPorts, NoFault
<1>3. /\ switch.way = "switch" /\ switch.remove = Has(t) /\ switch.add = Wanted(t)
      /\ switch.name = local[t].name /\ switch.good = local[t].good
      /\ update.way = local[t].way /\ update.name = local[t].name /\ update.good = local[t].good
      /\ update.remove = Has(t) \ Wanted(t) /\ update.add = Wanted(t) \ Has(t)
  BY <1>1 DEF HostMemo, PortsToRemove, PortsToAdd
<1> HIDE DEF switch, update
<1>4. ~ Dooms(t) /\ ~ PortsDue(t) /\ ~ GroupsDue(t)
  BY <1>1 DEF Dooms, PortsDue, GroupsDue
<1>5. ASSUME UNCHANGED array, Salvage(t), crashes' = crashes
      PROVE  OrderlyInv'
  <2>1. Orderly => Gentle /\ array'.host["other"] = None /\ (TheHost' # None => Uniform')
    BY <1>1, <1>5, SameHostIsGentle, OrderlyCall
  <2> QED
    BY <1>1, <1>5, <2>1, SalvagedIsOrderly
<1>6. ASSUME NEW memo, Move(t, "removePorts", memo), UNCHANGED array,
             host[Mine(t)] # None, TypeOfHost(Mine(t)) # None,
             (memo = switch /\ IsProtocolSwitched(t)) \/ memo = update
      PROVE  OrderlyInv'
  <2>1. /\ Alone(t) /\ known' = known /\ pc'[t] = "removePorts" /\ req'[t] = req[t]
        /\ local'[t] = memo /\ Aim' = Aim /\ AimType' = AimType
    BY <1>1, <1>6, MoveFacts
  <2>2. TheHost' = TheHost
    BY <1>6, SameHostIsGentle
  <2>3. ASSUME Orderly
        PROVE  Doing(t)' /\ Becoming'
    <3>1. /\ TheHost # None /\ Wanted(t) = Aim /\ Type(t) = AimType /\ Doing(t)
          /\ Has(t) = TheHost.ports
      BY <1>1, <1>6, <2>3, OrderlyCall, HostHasOneType
    <3>2. IsProtocolSwitched(t) => TheHost.ports \intersect Aim = {}
      BY <1>1, <1>6, <2>3, <3>1, HostHasOneType DEF IsProtocolSwitched
    <3>3. /\ memo.remove \intersect Aim = {} /\ memo.add \subseteq Aim
          /\ memo.remove \union Aim = TheHost.ports \union Aim
          /\ Aim \subseteq TheHost.ports \union memo.add
          /\ Aim = {} => TheHost.ports \subseteq memo.remove
          /\ memo.way # "create" /\ memo.name = "node" /\ memo.good \subseteq Aim
      BY <1>1, <1>3, <1>6, <3>1, <3>2 DEF Doing
    <3>4. Aim \subseteq OfType(Ports, AimType) /\ OfType(Ports, AimType)' = OfType(Ports, AimType)
      BY <2>1, AimIsTyped DEF OfType
    <3>5. Doing(t)'
      BY <2>1, <2>2, <3>3, <3>4 DEF Doing
    <3>6. PortsDue(t)' /\ GroupsDue(t)'
      BY <2>1, <2>2, <3>3 DEF PortsDue, GroupsDue
    <3>7. TheHost'.partition = known.setting.partition
      BY <1>1, <2>2, <3>1 DEF Doing
    <3> QED
      BY <2>1, <3>5, <3>6, <3>7 DEF Becoming
  <2> QED
    BY <1>1, <1>4, <1>6, <2>3, GoesOnOrderly
<1>7. ASSUME UNCHANGED array, host[Mine(t)] # None, TypeOfHost(Mine(t)) # None,
             ~ IsPortUpdateNeeded(t), Move(t, AfterPorts(t), local[t])
      PROVE  OrderlyInv'
  <2>1. AfterPorts(t) = IF Setup(t).partition = None THEN "readGroups" ELSE "respond"
    BY DEF AfterPorts
  <2>2. /\ Alone(t) /\ known' = known /\ pc'[t] = AfterPorts(t) /\ req'[t] = req[t]
        /\ local'[t] = local[t] /\ Aim' = Aim
    BY <1>1, <1>7, <2>1, MoveFacts
  <2>3. TheHost' = TheHost
    BY <1>7, SameHostIsGentle
  <2>4. Orderly => Doing(t)'
    BY <1>1, <2>1, <2>2, OrderlyCall DEF Doing
  <2>5. ASSUME Orderly, AsBefore
        PROVE  Becoming'
    <3>1. /\ TheHost # None /\ Wanted(t) = Aim /\ Type(t) = AimType /\ Setup(t) = known.setting
          /\ TheHost.partition = known.setting.partition
          /\ TypeOf(TheHost.ports) = AimType
      BY <1>1, <1>7, <2>5, OrderlyCall, HostHasOneType DEF Doing, IsPortUpdateNeeded
    <3>2. AreInitiatorsEqual(t) /\ req[t].recorded = known.recorded
      BY <1>1, <1>7, <2>5 DEF IsPortUpdateNeeded, AsBefore
    <3>3. OfType(req[t].recorded, AimType) = Aim
      BY <3>1, <3>2 DEF AreInitiatorsEqual, Aim, AimType, Requested
    <3>4. Aim # {} /\ Aim \subseteq TheHost.ports
      BY <2>5, <3>1, <3>2, <3>3 DEF AsBefore, Matches
    <3>5. PortsDone'
      BY <2>2, <2>3, <3>4 DEF PortsDone
    <3>6. known.setting.partition = None => GroupsDue(t)'
      BY <2>1, <2>2, <3>1 DEF GroupsDue
    <3> QED
      BY <2>2, <2>3, <3>1, <3>5, <3>6 DEF Becoming
  <2> QED
    BY <1>1, <1>4, <1>7, <2>1, <2>4, <2>5, GoesOnOrderly
<1> QED
  BY <1>1, <1>2, <1>5, <1>6, <1>7, GoneIsOrderly, RefusedIsOrderly

LEMMA RemovePortsIsOrderly ==
  ASSUME HostsInv, OrderlyInv, NEW t \in Threads, RemovePorts(t)
  PROVE  OrderlyInv'
<1>1. pc[t] = "removePorts" /\ local[t] \in HostMemo /\ ~ Dooms(t) /\ ~ AsBefore
  BY DEF RemovePorts, AtHost, At, HostsInv, Hosting, Dooms, AsBefore
<1>2. ASSUME NEW p \in local[t].remove, host[Mine(t)] # None,
             array' = [array EXCEPT !.host[Mine(t)].ports = @ \ {p}],
             Move(t, "removePorts", [local[t] EXCEPT !.remove = @ \ {p}])
      PROVE  OrderlyInv'
  <2> DEFINE memo == [local[t] EXCEPT !.remove = @ \ {p}]
  <2>1. /\ memo.remove = local[t].remove \ {p} /\ memo.add = local[t].add
        /\ memo.way = local[t].way /\ memo.name = local[t].name /\ memo.good = local[t].good
    BY <1>1 DEF HostMemo
  <2>2. Move(t, "removePorts", memo)
    BY <1>2
  <2> HIDE DEF memo
  <2>3. /\ Alone(t) /\ known' = known /\ pc'[t] = "removePorts" /\ req'[t] = req[t]
        /\ local'[t] = memo /\ Aim' = Aim /\ AimType' = AimType /\ Orderly' = Orderly
    BY <1>1, <2>2, MoveFacts
  <2>4. ASSUME Orderly
        PROVE  OrderlyInv'
    <3>1. Mine(t) = "node" /\ TheHost # None /\ Doing(t) /\ TheHost \in HostRecord /\ Uniform
          /\ array.host["other"] = None
      BY <1>1, <1>2, <2>4, OrderlyCall
    <3>2. /\ TheHost' = [TheHost EXCEPT !.ports = @ \ {p}] /\ array'.host["other"] = None
      BY <1>2, <3>1 DEF TheHost, HostsInv, HostArray, HostNames
    <3>3. /\ TheHost' \in HostRecord /\ TheHost'.ports = TheHost.ports \ {p}
          /\ TheHost'.groups = TheHost.groups /\ TheHost'.partition = TheHost.partition
      BY <3>1, <3>2 DEF HostRecord
    <3>4. p \notin Aim
      BY <1>1, <1>2, <3>1 DEF Doing
    <3>5. Gentle /\ Uniform'
      BY <3>1, <3>3, <3>4 DEF Gentle, Uniform
    <3>6. OfType(Ports, AimType)' = OfType(Ports, AimType)
      BY <2>3 DEF OfType
    <3>7. Doing(t)'
      BY <1>1, <2>1, <2>3, <3>1, <3>3, <3>6 DEF Doing
    <3>8. (PortsDue(t) => PortsDue(t)') /\ (GroupsDue(t) => GroupsDue(t)')
      BY <1>1, <2>1, <2>3, <3>3, <3>4 DEF PortsDue, GroupsDue
    <3> QED
      BY <1>1, <2>3, <2>4, <3>1, <3>2, <3>5, <3>7, <3>8, OrderlyMove
  <2> QED
    BY <2>3, <2>4 DEF OrderlyInv
<1> DEFINE to == IF local[t].way = "switch" THEN "protocol"
                   ELSE IF local[t].add # {} THEN "addPorts" ELSE AfterPorts(t)
<1>3. ASSUME local[t].remove = {}, Move(t, to, local[t]), UNCHANGED array
      PROVE  OrderlyInv'
  <2>1. AfterPorts(t) = IF Setup(t).partition = None THEN "readGroups" ELSE "respond"
    BY DEF AfterPorts
  <2>2. /\ to \in {"protocol", "addPorts", "readGroups", "respond"}
        /\ to \notin {"protocol", "addPorts"} => to = AfterPorts(t) /\ local[t].add = {}
    BY <2>1
  <2> HIDE DEF to
  <2>3. /\ Alone(t) /\ known' = known /\ pc'[t] = to /\ req'[t] = req[t]
        /\ local'[t] = local[t] /\ Aim' = Aim /\ AimType' = AimType
    BY <1>1, <1>3, <2>2, MoveFacts
  <2>4. TheHost' = TheHost
    BY <1>3, SameHostIsGentle
  <2>5. ASSUME Orderly
        PROVE  Doing(t)'
    <3>1. Doing(t) /\ OfType(Ports, AimType)' = OfType(Ports, AimType)
      BY <1>1, <2>3, <2>5, OrderlyCall DEF OfType
    <3> QED
      BY <1>1, <1>3, <2>2, <2>3, <2>4, <3>1 DEF Doing
  <2>6. PortsDue(t) => PortsDue(t)' \/ PortsDone'
    BY <1>1, <1>3, <2>2, <2>3, <2>4 DEF PortsDue, PortsDone
  <2>7. Orderly /\ known.setting.partition = None /\ GroupsDue(t) => GroupsDue(t)'
    BY <1>1, <2>1, <2>2, <2>3, OrderlyCall DEF GroupsDue
  <2> QED
    BY <1>1, <1>3, <2>2, <2>5, <2>6, <2>7, GoesOnOrderly
<1> QED
  BY <1>1, <1>2, <1>3, FailedIsOrderly DEF RemovePorts

LEMMA ChangeProtocolIsOrderly ==
  ASSUME HostsInv, OrderlyInv, NEW t \in Threads, ChangeProtocol(t)
  PROVE  OrderlyInv'
<1>1. pc[t] = "protocol" /\ local[t] \in HostMemo /\ ~ Dooms(t) /\ ~ AsBefore
  BY DEF ChangeProtocol, AtHost, At, HostsInv, Hosting, Dooms, AsBefore
<1>2. ASSUME host[Mine(t)] # None,
             array' = [array EXCEPT !.host[Mine(t)].protocol = ProtocolOf(Type(t))],
             Move(t, "addPorts", local[t])
      PROVE  OrderlyInv'
  <2>1. /\ Alone(t) /\ known' = known /\ pc'[t] = "addPorts" /\ req'[t] = req[t]
        /\ local'[t] = local[t] /\ Aim' = Aim /\ AimType' = AimType /\ Orderly' = Orderly
    BY <1>1, <1>2, MoveFacts
  <2>2. ASSUME Orderly
        PROVE  OrderlyInv'
    <3>1. Mine(t) = "node" /\ TheHost # None /\ Doing(t) /\ TheHost \in HostRecord /\ Uniform
          /\ array.host["other"] = None
      BY <1>1, <1>2, <2>2, OrderlyCall
    <3>2. /\ TheHost' = [TheHost EXCEPT !.protocol = ProtocolOf(Type(t))]
          /\ array'.host["other"] = None
      BY <1>2, <3>1 DEF TheHost, HostsInv, HostArray, HostNames
    <3>3. /\ TheHost'.ports = TheHost.ports
          /\ TheHost'.groups = TheHost.groups /\ TheHost'.partition = TheHost.partition
      BY <3>1, <3>2 DEF HostRecord
    <3>4. Gentle /\ Uniform'
      BY <3>1, <3>3 DEF Gentle, Uniform
    <3>5. OfType(Ports, AimType)' = OfType(Ports, AimType)
      BY <2>1 DEF OfType
    <3>6. Doing(t)'
      BY <1>1, <2>1, <3>1, <3>3, <3>5 DEF Doing
    <3>7. (PortsDue(t) => PortsDue(t)') /\ (GroupsDue(t) => GroupsDue(t)')
      BY <1>1, <2>1, <3>3 DEF PortsDue, GroupsDue
    <3> QED
      BY <1>1, <2>1, <2>2, <3>1, <3>2, <3>4, <3>6, <3>7, OrderlyMove
  <2> QED
    BY <2>1, <2>2 DEF OrderlyInv
<1> QED
  BY <1>1, <1>2, FailedIsOrderly DEF ChangeProtocol

LEMMA AddPortsIsOrderly ==
  ASSUME HostsInv, OrderlyInv, NEW t \in Threads, AddPorts(t)
  PROVE  OrderlyInv'
<1>1. pc[t] = "addPorts" /\ local[t] \in HostMemo /\ ~ Dooms(t) /\ ~ AsBefore
  BY DEF AddPorts, AtHost, At, HostsInv, Hosting, Dooms, AsBefore
<1>2. ASSUME NEW p \in local[t].add, host[Mine(t)] # None,
             array' = IF HostsWith({p}) # {} THEN array
                        ELSE [array EXCEPT !.host[Mine(t)].ports = @ \union {p}],
             Move(t, "addPorts", [local[t] EXCEPT !.add = @ \ {p}])
      PROVE  OrderlyInv'
  <2> DEFINE memo == [local[t] EXCEPT !.add = @ \ {p}]
  <2>1. /\ memo.add = local[t].add \ {p} /\ memo.way = local[t].way
        /\ memo.name = local[t].name /\ memo.good = local[t].good
    BY <1>1 DEF HostMemo
  <2>2. Move(t, "addPorts", memo)
    BY <1>2
  <2> HIDE DEF memo
  <2>3. /\ Alone(t) /\ known' = known /\ pc'[t] = "addPorts" /\ req'[t] = req[t]
        /\ local'[t] = memo /\ Aim' = Aim /\ AimType' = AimType /\ Orderly' = Orderly
    BY <1>1, <2>2, MoveFacts
  <2>4. ASSUME Orderly
        PROVE  OrderlyInv'
    <3>1. Mine(t) = "node" /\ TheHost # None /\ Doing(t) /\ TheHost \in HostRecord
          /\ array.host["other"] = None
      BY <1>1, <1>2, <2>4, OrderlyCall
    <3>2. p \in Aim /\ p \in OfType(Ports, AimType) /\ AimType \in ConnectivityTypes
      BY <1>1, <1>2, <3>1, AimIsTyped DEF Doing
    <3>3. /\ array'.host["other"] = None
          /\ TheHost'.ports = TheHost.ports \union {p}
          /\ TheHost'.groups = TheHost.groups /\ TheHost'.partition = TheHost.partition
      <4>1. CASE HostsWith({p}) # {}
        <5>1. "node" \in HostsWith({p})
          BY <3>1, <4>1 DEF HostsWith, HostNames, host
        <5>2. p \in TheHost.ports
          BY <5>1 DEF HostsWith, host, TheHost
        <5> QED
          BY <1>2, <3>1, <4>1, <5>2 DEF TheHost
      <4>2. CASE HostsWith({p}) = {}
        <5>1. /\ TheHost' = [TheHost EXCEPT !.ports = @ \union {p}]
              /\ array'.host["other"] = None
          BY <1>2, <3>1, <4>2 DEF TheHost, HostsInv, HostArray, HostNames
        <5>2. /\ TheHost'.ports = TheHost.ports \union {p}
              /\ TheHost'.groups = TheHost.groups /\ TheHost'.partition = TheHost.partition
              /\ TheHost' \in HostRecord
          BY <3>1, <3>2, <5>1, AimIsTyped DEF HostRecord
        <5> QED
          BY <5>1, <5>2
      <4> QED
        BY <4>1, <4>2
    <3>4. Gentle
      BY <3>1, <3>2, <3>3 DEF Gentle
    <3>5. OfType(Ports, AimType)' = OfType(Ports, AimType)
      BY <2>3 DEF OfType
    <3>6. Uniform'
      <4>1. TheHost'.ports \subseteq OfType(Ports, AimType)
        BY <1>1, <3>1, <3>2, <3>3 DEF Doing
      <4> QED
        BY <3>2, <4>1 DEF Uniform
    <3>7. Doing(t)'
      BY <1>1, <2>1, <2>3, <3>1, <3>2, <3>3, <3>5 DEF Doing
    <3>8. (PortsDue(t) => PortsDue(t)') /\ (GroupsDue(t) => GroupsDue(t)')
      BY <1>1, <2>1, <2>3, <3>3 DEF PortsDue, GroupsDue
    <3> QED
      BY <1>1, <2>3, <2>4, <3>1, <3>3, <3>4, <3>6, <3>7, <3>8, OrderlyMove
  <2> QED
    BY <2>3, <2>4 DEF OrderlyInv
<1>3. ASSUME Wanted(t) # {}, local[t].add = {}, Move(t, "countPorts", local[t]), UNCHANGED array
      PROVE  OrderlyInv'
  <2>1. /\ known' = known /\ pc'[t] = "countPorts" /\ local'[t] = local[t] /\ Aim' = Aim
    BY <1>1, <1>3, MoveFacts
  <2>2. TheHost' = TheHost
    BY <1>3, SameHostIsGentle
  <2>3. Orderly => Doing(t)'
    BY <1>1, <2>1, OrderlyCall DEF Doing
  <2>4. Orderly /\ PortsDue(t) => PortsDone'
    BY <1>1, <1>3, <2>1, <2>2, OrderlyCall DEF PortsDue, PortsDone
  <2>5. GroupsDue(t) => GroupsDue(t)'
    BY <1>1, <2>1, <2>2 DEF GroupsDue
  <2> QED
    BY <1>1, <1>3, <2>3, <2>4, <2>5, GoesOnOrderly
<1> QED
  BY <1>1, <1>2, <1>3, FailedIsOrderly DEF AddPorts

LEMMA CountPortsIsOrderly ==
  ASSUME HostsInv, OrderlyInv, NEW t \in Threads, CountPorts(t)
  PROVE  OrderlyInv'
<1> DEFINE to == IF host[Mine(t)].ports = {} THEN "dropEmpty"
                   ELSE IF local[t].way = "create" THEN "respond" ELSE AfterPorts(t)
<1>1. pc[t] = "countPorts" /\ ~ Dooms(t) /\ ~ AsBefore /\ ~ PortsDue(t)
  BY DEF CountPorts, AtHost, At, Dooms, AsBefore, PortsDue
<1>2. ASSUME Move(t, to, local[t]), UNCHANGED array
      PROVE  OrderlyInv'
  <2>1. AfterPorts(t) = IF Setup(t).partition = None THEN "readGroups" ELSE "respond"
    BY DEF AfterPorts
  <2>2. /\ to \in {"dropEmpty", "respond", "readGroups"}
        /\ to # "dropEmpty" => local[t].way = "create" \/ to = AfterPorts(t)
    BY <2>1
  <2> HIDE DEF to
  <2>3. /\ known' = known /\ pc'[t] = to /\ local'[t] = local[t] /\ Aim' = Aim
    BY <1>1, <1>2, <2>2, MoveFacts
  <2>4. Orderly => Doing(t)'
    BY <1>1, <2>2, <2>3, OrderlyCall DEF Doing
  <2>5. Orderly /\ to # "dropEmpty" /\ known.setting.partition = None /\ GroupsDue(t) =>
          GroupsDue(t)'
    BY <1>1, <2>1, <2>2, <2>3, OrderlyCall DEF GroupsDue
  <2> QED
    BY <1>1, <1>2, <2>2, <2>4, <2>5, GoesOnOrderly
<1> QED
  BY <1>1, <1>2, GoneIsOrderly DEF CountPorts

(* A host the call makes has only ports that are asked for.                *)
LEMMA MadeIsGentle ==
  ASSUME HostsInv, OrderlyInv, Orderly, NEW t \in Threads,
         pc[t] \notin {"idle", "findHost", "findUndefined"}, host[Mine(t)] = None,
         NEW ports, ports \subseteq Aim, ports # {}, SetHost(Mine(t), NewHost(t, ports))
  PROVE  /\ TheHost = None /\ TheHost' = NewHost(t, ports) /\ array'.host["other"] = None
         /\ TheHost'.ports = ports /\ TheHost'.partition = known.setting.partition
         /\ TheHost'.groups = known.setting.groups
         /\ Gentle /\ Uniform'
<1>1. /\ Mine(t) = "node" /\ TheHost = None /\ array.host["other"] = None
      /\ Setup(t) = known.setting
  BY OrderlyCall
<1>2. TheHost' = NewHost(t, ports) /\ array'.host["other"] = None
  BY <1>1 DEF SetHost, HostsInv, HostArray, HostNames, TheHost
<1>3. /\ TheHost'.ports = ports /\ TheHost'.partition = known.setting.partition
      /\ TheHost'.groups = known.setting.groups
  BY <1>1, <1>2 DEF NewHost
<1>4. ports \subseteq OfType(Ports, AimType) /\ AimType \in ConnectivityTypes
  BY AimIsTyped
<1>5. Uniform'
  BY <1>3, <1>4 DEF Uniform
<1> QED
  BY <1>1, <1>2, <1>3, <1>5 DEF Gentle

LEMMA RemovedIsOrderly ==
  ASSUME HostsInv, OrderlyInv, NEW t \in Threads, DropEmpty(t) \/ UntryPort(t)
  PROVE  OrderlyInv'
<1>1. /\ pc[t] \in {"dropEmpty", "untryPort"} /\ local[t] \in HostMemo
      /\ UntryPort(t) => pc[t] = "untryPort"
  BY DEF DropEmpty, UntryPort, AtHost, At, HostsInv, Hosting
<1>2. Orderly /\ SetHost(Mine(t), None) =>
        Gentle /\ TheHost' = None /\ array'.host["other"] = None
  BY <1>1, OrderlyCall, DeletedIsGentle
<1>3. \/ Fails(t)
      \/ /\ SetHost(Mine(t), None)
         /\ \/ Salvage(t) /\ crashes' = crashes
            \/ Answer(t, FALSE)
            \/ pc[t] = "untryPort" /\ Move(t, "tryPort", local[t])
  BY <1>1 DEF DropEmpty, UntryPort, RemoveHost, NoFault
<1>4. ASSUME SetHost(Mine(t), None), pc[t] = "untryPort", Move(t, "tryPort", local[t])
      PROVE  OrderlyInv'
  <2>1. /\ Alone(t) /\ known' = known /\ pc'[t] = "tryPort" /\ req'[t] = req[t]
        /\ local'[t] = local[t] /\ Aim' = Aim /\ Orderly' = Orderly
    BY <1>4, MoveFacts
  <2>2. Orderly => Doing(t)'
    BY <1>4, <2>1, OrderlyCall DEF Doing
  <2>3. Orderly => OrderlyInv'
    BY <1>2, <1>4, <2>1, <2>2, OrderlyMove
  <2> QED
    BY <2>1, <2>3 DEF OrderlyInv
<1> QED
  BY <1>1, <1>2, <1>3, <1>4, FailedIsOrderly, SalvagedIsOrderly, RefusedIsOrderly

(* A call that meets a host of the name it wanted to make.                 *)
LEMMA TakenIsOrderly ==
  ASSUME HostsInv, OrderlyInv, NEW t \in Threads, pc[t] \in {"tryPort", "mkhost", "validate"},
         \/ NameTaken(t)
         \/ Move(t, "respond", local[t]) /\ UNCHANGED array
         \/ Move(t, "validate", local[t]) /\ UNCHANGED array
  PROVE  OrderlyInv'
<1>1. ~ Dooms(t) /\ ~ AsBefore /\ ~ PortsDue(t) /\ ~ GroupsDue(t)
  BY DEF Dooms, AsBefore, PortsDue, GroupsDue
<1>2. ASSUME NEW to \in {"respond", "validate"}, Move(t, to, local[t]), UNCHANGED array
      PROVE  OrderlyInv'
  <2>1. /\ known' = known /\ pc'[t] = to /\ local'[t] = local[t] /\ Aim' = Aim
    BY <1>2, MoveFacts
  <2>2. Orderly => Doing(t)'
    BY <1>2, <2>1, OrderlyCall DEF Doing
  <2> QED
    BY <1>1, <1>2, <2>2, GoesOnOrderly
<1> QED
  BY <1>2, FailedIsOrderly DEF NameTaken

LEMMA TryPortIsOrderly ==
  ASSUME HostsInv, OrderlyInv, NEW t \in Threads, TryPort(t)
  PROVE  OrderlyInv'
<1>0. pc[t] = "tryPort"
  BY Zenon DEF TryPort, AtHost, At
<1>1. local[t] \in HostMemo /\ ~ Dooms(t) /\ ~ AsBefore /\ ~ PortsDue(t) /\ ~ GroupsDue(t)
  BY <1>0 DEF HostsInv, Hosting, Dooms, AsBefore, PortsDue, GroupsDue
<1>2. \/ Fails(t) \/ NameTaken(t)
      \/ local[t].add = {} /\ Move(t, "mkhost", local[t]) /\ UNCHANGED array
      \/ /\ host[Mine(t)] = None
         /\ \E p \in local[t].add :
              \/ /\ SetHost(Mine(t), NewHost(t, {p}))
                 /\ Move(t, "untryPort", [local[t] EXCEPT !.add = @ \ {p}, !.good = @ \union {p}])
              \/ ~ IsFree(p) /\ Move(t, "tryPort", [local[t] EXCEPT !.add = @ \ {p}])
  BY Zenon DEF TryPort
<1>3. ASSUME local[t].add = {}, Move(t, "mkhost", local[t]), UNCHANGED array
      PROVE  OrderlyInv'
  <2>1. /\ known' = known /\ pc'[t] = "mkhost" /\ local'[t] = local[t] /\ Aim' = Aim
    BY <1>0, <1>3, MoveFacts
  <2>2. Orderly => Doing(t)'
    BY <1>0, <1>3, <2>1, OrderlyCall DEF Doing
  <2> QED
    BY <1>0, <1>1, <1>3, <2>2, GoesOnOrderly
<1>4. ASSUME NEW p \in local[t].add, host[Mine(t)] = None, SetHost(Mine(t), NewHost(t, {p})),
             Move(t, "untryPort", [local[t] EXCEPT !.add = @ \ {p}, !.good = @ \union {p}])
      PROVE  OrderlyInv'
  <2> DEFINE memo == [local[t] EXCEPT !.add = @ \ {p}, !.good = @ \union {p}]
  <2>1. /\ memo.add = local[t].add \ {p} /\ memo.good = local[t].good \union {p}
        /\ memo.name = local[t].name
    BY <1>1 DEF HostMemo
  <2>2. Move(t, "untryPort", memo)
    BY <1>4
  <2> HIDE DEF memo
  <2>3. /\ Alone(t) /\ known' = known /\ pc'[t] = "untryPort" /\ req'[t] = req[t]
        /\ local'[t] = memo /\ Aim' = Aim /\ Orderly' = Orderly
    BY <1>0, <2>2, MoveFacts
  <2>4. ASSUME Orderly
        PROVE  OrderlyInv'
    <3>1. p \in Aim /\ Doing(t)
      BY <1>0, <1>4, <2>4, OrderlyCall DEF Doing
    <3>2. Gentle /\ Uniform' /\ array'.host["other"] = None
      BY <1>0, <1>4, <2>4, <3>1, MadeIsGentle
    <3>3. Doing(t)' /\ Dooms(t)'
      BY <1>0, <2>1, <2>3, <3>1 DEF Doing, Dooms
    <3> QED
      BY <1>0, <2>3, <2>4, <3>2, <3>3, OrderlyMove
  <2> QED
    BY <2>3, <2>4 DEF OrderlyInv
<1>5. ASSUME NEW p \in local[t].add, host[Mine(t)] = None, ~ IsFree(p),
             Move(t, "tryPort", [local[t] EXCEPT !.add = @ \ {p}])
      PROVE  OrderlyInv'
  <2>1. Orderly => FALSE
    BY <1>0, <1>5, OrderlyCall DEF IsFree, HostsWith, HostNames, host
  <2>2. Orderly' = Orderly
    BY <1>0, <1>5, MoveFacts
  <2> QED
    BY <2>1, <2>2 DEF OrderlyInv
<1>6. (Fails(t) => OrderlyInv') /\ (NameTaken(t) => OrderlyInv')
  BY <1>0, FailedIsOrderly, TakenIsOrderly
<1> QED
  BY Zenon, <1>2, <1>3, <1>4, <1>5, <1>6

LEMMA MakeHostIsOrderly ==
  ASSUME HostsInv, OrderlyInv, NEW t \in Threads, MakeHost(t)
  PROVE  OrderlyInv'
<1>1. pc[t] = "mkhost" /\ ~ Dooms(t) /\ ~ AsBefore
  BY DEF MakeHost, AtHost, At, Dooms, AsBefore
<1>2. \/ NameTaken(t) \/ Fails(t)
      \/ /\ host[Mine(t)] = None /\ Setup(t).partition # None /\ local[t].good # {}
         /\ SetHost(Mine(t), NewHost(t, local[t].good)) /\ Move(t, "respond", local[t])
      \/ /\ host[Mine(t)] = None /\ Setup(t).partition = None
         /\ \E p \in local[t].add :
              SetHost(Mine(t), NewHost(t, {p})) /\ Move(t, "addPorts", local[t])
  BY DEF MakeHost
<1>3. ASSUME host[Mine(t)] = None, Setup(t).partition # None, local[t].good # {},
             SetHost(Mine(t), NewHost(t, local[t].good)), Move(t, "respond", local[t])
      PROVE  OrderlyInv'
  <2>1. /\ Alone(t) /\ known' = known /\ pc'[t] = "respond" /\ req'[t] = req[t]
        /\ local'[t] = local[t] /\ Aim' = Aim /\ Orderly' = Orderly
    BY <1>1, <1>3, MoveFacts
  <2>2. ASSUME Orderly
        PROVE  OrderlyInv'
    <3>1. Doing(t) /\ Aim \subseteq local[t].good /\ local[t].good \subseteq Aim
      BY <1>1, <1>3, <2>2, OrderlyCall DEF Doing
    <3>2. /\ TheHost = None /\ array'.host["other"] = None /\ Gentle /\ Uniform'
          /\ TheHost'.ports = local[t].good /\ TheHost'.partition = known.setting.partition
          /\ TheHost'.groups = known.setting.groups
      BY <1>1, <1>3, <2>2, <3>1, MadeIsGentle
    <3>3. Becoming'
      BY <2>1, <3>1, <3>2 DEF Becoming, PortsDone, GroupsDone
    <3>4. Doing(t)'
      BY <1>1, <2>1, <3>1 DEF Doing
    <3> QED
      BY <1>1, <2>1, <2>2, <3>2, <3>3, <3>4, OrderlyMove
  <2> QED
    BY <2>1, <2>2 DEF OrderlyInv
<1>4. ASSUME host[Mine(t)] = None, Setup(t).partition = None, NEW p \in local[t].add,
             SetHost(Mine(t), NewHost(t, {p})), Move(t, "addPorts", local[t])
      PROVE  OrderlyInv'
  <2>1. /\ Alone(t) /\ known' = known /\ pc'[t] = "addPorts" /\ req'[t] = req[t]
        /\ local'[t] = local[t] /\ Aim' = Aim /\ AimType' = AimType /\ Orderly' = Orderly
    BY <1>1, <1>4, MoveFacts
  <2>2. ASSUME Orderly
        PROVE  OrderlyInv'
    <3>1. Doing(t) /\ Aim \subseteq local[t].add /\ p \in Aim /\ local[t].add \subseteq Aim
      BY <1>1, <1>4, <2>2, OrderlyCall DEF Doing
    <3>2. /\ TheHost = None /\ array'.host["other"] = None /\ Gentle /\ Uniform'
          /\ TheHost'.ports = {p} /\ TheHost'.partition = known.setting.partition
          /\ TheHost'.groups = known.setting.groups
      BY <1>1, <1>4, <2>2, <3>1, MadeIsGentle
    <3>3. PortsDue(t)' /\ GroupsDone'
      BY <2>1, <3>1, <3>2 DEF PortsDue, GroupsDone
    <3>4. Becoming'
      BY <2>1, <3>2, <3>3 DEF Becoming
    <3>5. {p} \subseteq OfType(Ports, AimType) /\ OfType(Ports, AimType)' = OfType(Ports, AimType)
      BY <2>1, <3>1, AimIsTyped DEF OfType
    <3>6. Doing(t)'
      BY <1>1, <2>1, <3>1, <3>2, <3>5 DEF Doing
    <3> QED
      BY <1>1, <2>1, <2>2, <3>2, <3>4, <3>6, OrderlyMove
  <2> QED
    BY <2>1, <2>2 DEF OrderlyInv
<1> QED
  BY <1>1, <1>2, <1>3, <1>4, FailedIsOrderly, TakenIsOrderly

LEMMA ValidateIsOrderly ==
  ASSUME HostsInv, OrderlyInv, NEW t \in Threads, Validate(t)
  PROVE  OrderlyInv'
<1>1. pc[t] = "validate"
  BY DEF Validate, AtHost, At
<1> QED
  BY <1>1, FailedIsOrderly, TakenIsOrderly DEF Validate

LEMMA ReadGroupsIsOrderly ==
  ASSUME HostsInv, OrderlyInv, NEW t \in Threads, ReadGroups(t)
  PROVE  OrderlyInv'
<1> DEFINE memo == [local[t] EXCEPT !.remove = GroupsToRemove(t), !.add = GroupsToAdd(t)]
<1>1. pc[t] = "readGroups" /\ local[t] \in HostMemo /\ ~ Dooms(t) /\ ~ AsBefore /\ ~ PortsDue(t)
  BY DEF ReadGroups, AtHost, At, HostsInv, Hosting, Dooms, AsBefore, PortsDue
<1>2. UNCHANGED array /\ ((host[Mine(t)] = None /\ Creation(t)) \/ Move(t, "removeGroups", memo))
  BY DEF ReadGroups
<1>3. /\ memo.remove = host[Mine(t)].groups \ Setup(t).groups
      /\ memo.add = Setup(t).groups \ host[Mine(t)].groups
      /\ memo.name = local[t].name /\ memo.good = local[t].good
  BY <1>1 DEF HostMemo, GroupsToRemove, GroupsToAdd
<1> HIDE DEF memo
<1>4. ASSUME Move(t, "removeGroups", memo), UNCHANGED array
      PROVE  OrderlyInv'
  <2>1. /\ known' = known /\ pc'[t] = "removeGroups" /\ local'[t] = memo /\ Aim' = Aim
    BY <1>1, <1>4, MoveFacts
  <2>2. TheHost' = TheHost
    BY <1>4, SameHostIsGentle
  <2>3. Orderly => Doing(t)'
    BY <1>1, <1>3, <2>1, OrderlyCall DEF Doing
  <2>4. Orderly => GroupsDue(t)'
    BY <1>1, <1>3, <2>1, <2>2, OrderlyCall DEF GroupsDue
  <2> QED
    BY <1>1, <1>4, <2>3, <2>4, GoesOnOrderly
<1> QED
  BY <1>1, <1>2, <1>4, GoneIsOrderly

LEMMA ChangeGroupsIsOrderly ==
  ASSUME HostsInv, OrderlyInv, NEW t \in Threads, RemoveGroups(t) \/ AddGroups(t)
  PROVE  OrderlyInv'
<1>1. /\ pc[t] \in {"removeGroups", "addGroups"} /\ local[t] \in HostMemo
      /\ ~ Dooms(t) /\ ~ AsBefore /\ ~ PortsDue(t)
  BY DEF RemoveGroups, AddGroups, AtHost, At, HostsInv, Hosting, Dooms, AsBefore, PortsDue
<1> DEFINE to == IF pc[t] = "removeGroups" THEN "addGroups" ELSE "respond"
           change == IF pc[t] = "removeGroups" THEN local[t].remove ELSE local[t].add
<1>2. \/ host[Mine(t)] = None /\ Creation(t) /\ UNCHANGED array
      \/ change = {} /\ Move(t, to, local[t]) /\ UNCHANGED array
      \/ /\ host[Mine(t)] # None /\ Move(t, to, local[t])
         /\ array' = [array EXCEPT !.host[Mine(t)].groups =
                        IF pc[t] = "removeGroups" THEN @ \ change ELSE @ \union change]
  BY DEF RemoveGroups, AddGroups, AtHost, At
<1>3. ASSUME Move(t, to, local[t])
      PROVE  /\ Alone(t) /\ known' = known /\ pc'[t] = to /\ req'[t] = req[t]
             /\ local'[t] = local[t] /\ Aim' = Aim /\ Orderly' = Orderly
             /\ Orderly => Doing(t)'
  <2>1. /\ Alone(t) /\ known' = known /\ pc'[t] = to /\ req'[t] = req[t]
        /\ local'[t] = local[t] /\ Aim' = Aim /\ Orderly' = Orderly
    BY <1>1, <1>3, MoveFacts
  <2>2. Orderly => Doing(t)'
    BY <1>1, <2>1, OrderlyCall DEF Doing
  <2> QED
    BY <2>1, <2>2
<1>4. ASSUME change = {}, Move(t, to, local[t]), UNCHANGED array
      PROVE  OrderlyInv'
  <2>1. TheHost' = TheHost
    BY <1>4, SameHostIsGentle
  <2>2. GroupsDue(t) => GroupsDue(t)' \/ GroupsDone'
    <3>1. CASE pc[t] = "removeGroups"
      BY <1>3, <1>4, <2>1, <3>1 DEF GroupsDue
    <3>2. CASE pc[t] = "addGroups"
      BY <1>3, <1>4, <2>1, <3>2 DEF GroupsDue, GroupsDone
    <3> QED
      BY <1>1, <3>1, <3>2
  <2> QED
    BY <1>1, <1>3, <1>4, <2>2, GoesOnOrderly
<1>5. ASSUME host[Mine(t)] # None, Move(t, to, local[t]),
             array' = [array EXCEPT !.host[Mine(t)].groups =
                         IF pc[t] = "removeGroups" THEN @ \ change ELSE @ \union change]
      PROVE  OrderlyInv'
  <2>1. ASSUME Orderly
        PROVE  OrderlyInv'
    <3>1. Mine(t) = "node" /\ TheHost # None /\ Doing(t) /\ TheHost \in HostRecord /\ Uniform
          /\ array.host["other"] = None
      BY <1>1, <1>5, <2>1, OrderlyCall
    <3> DEFINE groups == IF pc[t] = "removeGroups" THEN TheHost.groups \ change
                           ELSE TheHost.groups \union change
    <3>2. TheHost' = [TheHost EXCEPT !.groups = groups] /\ array'.host["other"] = None
      BY <1>5, <3>1 DEF TheHost, HostsInv, HostArray, HostNames
    <3>3. /\ TheHost'.groups = groups /\ TheHost'.ports = TheHost.ports
          /\ TheHost'.partition = TheHost.partition
      BY <3>1, <3>2 DEF HostRecord
    <3>4. /\ TheHost.groups \intersect known.setting.groups \subseteq groups
          /\ groups \subseteq TheHost.groups \union known.setting.groups
      BY <1>1, <3>1 DEF Doing
    <3>5. GroupsDue(t) => GroupsDue(t)' \/ GroupsDone'
      <4>1. known' = known /\ local'[t] = local[t] /\ pc'[t] = to
        BY <1>3, <1>5
      <4>2. CASE pc[t] = "removeGroups"
        <5>1. pc'[t] = "addGroups" /\ TheHost'.groups = TheHost.groups \ local[t].remove
          BY <3>3, <4>1, <4>2
        <5>2. local[t].remove \intersect known.setting.groups = {}
          BY <3>1, <4>2 DEF Doing
        <5>3. GroupsDue(t) => /\ TheHost.groups \subseteq known.setting.groups \union local[t].remove
                              /\ known.setting.groups \subseteq TheHost.groups \union local[t].add
          BY <4>2 DEF GroupsDue
        <5> QED
          BY <4>1, <5>1, <5>2, <5>3 DEF GroupsDue
      <4>3. CASE pc[t] = "addGroups"
        <5>1. TheHost'.groups = TheHost.groups \union local[t].add
          BY <3>3, <4>3
        <5>2. local[t].add \subseteq known.setting.groups
          BY <3>1, <4>3 DEF Doing
        <5>3. GroupsDue(t) => /\ TheHost.groups \subseteq known.setting.groups
                              /\ known.setting.groups \subseteq TheHost.groups \union local[t].add
          BY <4>3 DEF GroupsDue
        <5> QED
          BY <4>1, <5>1, <5>2, <5>3 DEF GroupsDone
      <4> QED
        BY <1>1, <4>2, <4>3
    <3> HIDE DEF groups
    <3>6. Gentle /\ Uniform'
      BY <3>1, <3>3, <3>4 DEF Gentle, Uniform
    <3> QED
      BY <1>1, <1>3, <1>5, <2>1, <3>1, <3>2, <3>5, <3>6, OrderlyMove
  <2> QED
    BY <1>3, <1>5, <2>1 DEF OrderlyInv
<1> HIDE DEF to, change
<1> QED
  BY <1>1, <1>2, <1>4, <1>5, GoneIsOrderly

(* An answer of OK.                                                        *)
LEMMA AnswerFacts ==
  ASSUME HostsInv, NEW t \in Threads, pc[t] # "idle", NEW ok \in BOOLEAN, Answer(t, ok)
  PROVE  /\ Alone(t) /\ pc'[t] = "idle" /\ req'[t] = None /\ local'[t] = None
         /\ known'.setting = known.setting /\ known'.mixed = known.mixed
         /\ known'.clean = (known.clean /\ ok /\ ~ known.mixed)
         /\ known'.recorded = IF req[t].op = "define" THEN Setup(t).ports
                                ELSE IF ok THEN None ELSE known.recorded
         /\ known'.answer = IF ok /\ ~ known.mixed /\ (\A u \in Threads \ {t} : pc[u] = "idle")
                              THEN [op |-> req[t].op, setting |-> Setup(t), name |-> Mine(t)]
                              ELSE None
  BY ReturnMoves DEF Answer, Outcome, HostsInv, HostsKnown

LEMMA AnsweredIsOrderly ==
  ASSUME HostsInv, OrderlyInv, NEW t \in Threads, pc[t] # "idle", Answer(t, TRUE),
         crashes' = crashes,
         Orderly => Gentle /\ array'.host["other"] = None,
         Orderly /\ TheHost' # None =>
           /\ Uniform'
           /\ IF Defining' THEN (\E u \in Threads : Dooms(u)') \/ Becoming' ELSE Settled'
  PROVE  OrderlyInv'
<1>1. /\ Alone(t) /\ pc'[t] = "idle" /\ local'[t] = None /\ known'.setting = known.setting
      /\ Orderly' => Orderly
  BY AnswerFacts DEF Orderly
<1>2. ASSUME Orderly
      PROVE  SameCalls' /\ \A u \in Threads : Doing(u)'
  <2>1. SameCalls'
    BY <1>1, <1>2 DEF OrderlyInv, SameCalls, Alone
  <2>2. Doing(t)'
    BY <1>1 DEF Doing
  <2>3. ASSUME NEW u \in Threads, u # t
        PROVE  Doing(u)'
    <3>1. Doing(u) /\ pc'[u] = pc[u] /\ local'[u] = local[u]
      BY <1>1, <1>2, <2>3 DEF OrderlyInv, Alone
    <3> QED
      BY <1>1, <1>2, <3>1, OthersDoing
  <2> QED
    BY <2>1, <2>2, <2>3
<1> QED
  BY <1>1, <1>2 DEF OrderlyInv
(* The node's ports of the type lead to a host that has them all.          *)
LEMMA DoneMatches ==
  ASSUME HostsInv, TheHost \in HostRecord, Uniform, PortsDone, OfType(TheHost.ports, AimType) # {}
  PROVE  Matches(known.setting.ports)
<1>1. PICK type \in ConnectivityTypes : TheHost.ports \subseteq OfType(Ports, type)
  BY DEF Uniform
<1>2. TheHost.ports # {}
  BY HostTypes
<1>3. TypeOf(TheHost.ports) = AimType
  BY <1>1, <1>2, TypeOfOneType
<1>4. Aim # {} /\ Aim \subseteq TheHost.ports
  BY <1>2 DEF PortsDone
<1> QED
  BY <1>3, <1>4 DEF Matches, Aim

LEMMA RespondIsOrderly ==
  ASSUME HostsInv, OrderlyInv, NEW t \in Threads, Respond(t)
  PROVE  OrderlyInv'
<1>1. /\ pc[t] = "respond" /\ ~ AsBefore /\ ~ PortsDue(t) /\ ~ GroupsDue(t) /\ ~ Dooms(t)
      /\ Defining /\ Hosting(t)
  BY DEF Respond, AtHost, At, AsBefore, PortsDue, GroupsDue, Dooms, Defining, HostsInv
<1>2. CASE Fails(t)
  BY <1>1, <1>2, FailedIsOrderly
<1>3. CASE /\ host[Mine(t)] # None /\ OfType(host[Mine(t)].ports, Type(t)) # {}
           /\ Answer(t, TRUE) /\ NoFault /\ UNCHANGED <<array, memory>>
  <2>1. /\ Alone(t) /\ pc'[t] = "idle" /\ known'.setting = known.setting
        /\ known'.recorded = Setup(t).ports
    BY <1>1, <1>3, AnswerFacts DEF Hosting, HostRequest
  <2>2. Gentle /\ TheHost' = TheHost /\ Uniform' = Uniform
        /\ array'.host["other"] = array.host["other"]
    BY <1>3, SameHostIsGentle
  <2>3. ASSUME Orderly
        PROVE  /\ array'.host["other"] = None /\ Uniform'
               /\ IF Defining' THEN (\E u \in Threads : Dooms(u)') \/ Becoming' ELSE Settled'
    <3>1. /\ Setup(t) = known.setting /\ Type(t) = AimType /\ array.host["other"] = None
          /\ TheHost # None /\ TheHost \in HostRecord /\ Uniform
          /\ OfType(TheHost.ports, AimType) # {}
      BY <1>1, <1>3, <2>3, OrderlyCall
    <3>2. (\E u \in Threads \ {t} : Dooms(u)) \/ Becoming
      BY <1>1, <2>3, <3>1 DEF OrderlyInv
    <3>3. CASE Defining'
      <4>1. CASE \E u \in Threads \ {t} : Dooms(u)
        BY <2>1, <2>2, <3>1, <3>3, <4>1 DEF Dooms, Alone
      <4>2. CASE Becoming
        <5>1. PortsDone' \/ \E u \in Threads : PortsDue(u)'
          BY <1>1, <2>1, <2>2, <3>1, <4>2, OthersDue DEF Becoming, Alone
        <5>2. known.setting.partition = None => GroupsDone' \/ \E u \in Threads : GroupsDue(u)'
          BY <1>1, <2>1, <2>2, <3>1, <4>2, OthersDue DEF Becoming, Alone
        <5>3. Becoming'
          BY <2>1, <2>2, <4>2, <5>1, <5>2 DEF Becoming
        <5> QED
          BY <2>2, <3>1, <3>3, <5>3
      <4> QED
        BY <3>2, <4>1, <4>2
    <3>4. CASE ~ Defining'
      <4>1. \A u \in Threads : ~ PortsDue(u) /\ ~ Dooms(u)
        BY <1>1, <2>1, <3>4 DEF Defining, PortsDue, Dooms, Alone
      <4>2. Matches(known.setting.ports)
        BY <3>1, <3>2, <4>1, DoneMatches DEF Becoming
      <4>3. Matches(known.recorded)'
        BY <2>1, <2>2, <3>1, <4>2 DEF Matches
      <4>4. known.setting.ports # None
        BY ArrayHostsAssumption DEF HostsInv, HostsKnown, Setting
      <4>5. Settled'
        BY <2>1, <3>1, <4>3, <4>4 DEF Settled
      <4> QED
        BY <2>2, <3>1, <3>4, <4>5
    <3> QED
      BY <3>3, <3>4
  <2> QED
    BY <1>1, <1>3, <2>2, <2>3, AnsweredIsOrderly DEF NoFault
<1> QED
  BY <1>2, <1>3 DEF Respond

(* What define_host answered OK holds.                                     *)
LEMMA RespondAnswers ==
  ASSUME HostsInv, OrderlyInv, NEW t \in Threads, Respond(t), known'.answer # None
  PROVE  HostsAsAnswered' /\ AllIdle'
<1>1. pc[t] = "respond" /\ Hosting(t)
  BY DEF Respond, AtHost, At, HostsInv
<1>2. ~ Fails(t)
  BY <1>1, AnswerFacts DEF Fails, Salvages
<1>3. /\ host[Mine(t)] # None /\ OfType(host[Mine(t)].ports, Type(t)) # {}
      /\ Answer(t, TRUE) /\ UNCHANGED <<array, crashes>>
  BY <1>2 DEF Respond, NoFault
<1>4. /\ Alone(t) /\ pc'[t] = "idle"
      /\ \A u \in Threads \ {t} : pc[u] = "idle"
      /\ known'.answer = [op |-> req[t].op, setting |-> Setup(t), name |-> Mine(t)]
      /\ known'.clean => known.clean /\ ~ known.mixed
  BY <1>1, <1>3, AnswerFacts
<1>5. known'.answer.op = "define" /\ known'.answer.setting = Setup(t)
      /\ known'.answer.name = Mine(t)
  BY <1>1, <1>4 DEF Hosting, HostRequest
<1>6. AllIdle'
  BY <1>4 DEF AllIdle, Alone
<1>7. ASSUME known'.clean, crashes' = 0
      PROVE  /\ Wanted(t) \subseteq host[Mine(t)].ports
             /\ host[Mine(t)].partition = Setup(t).partition
             /\ Setup(t).partition = None => host[Mine(t)].groups = Setup(t).groups
  <2>1. Orderly
    BY <1>3, <1>4, <1>7 DEF Orderly
  <2>2. /\ Setup(t) = known.setting /\ Wanted(t) = Aim /\ host[Mine(t)] = TheHost
    BY <1>1, <2>1, OrderlyCall
  <2>3. /\ Defining /\ ~ AsBefore
        /\ \A u \in Threads : ~ PortsDue(u) /\ ~ GroupsDue(u) /\ ~ Dooms(u)
    BY <1>1, <1>4 DEF Defining, AsBefore, PortsDue, GroupsDue, Dooms
  <2>4. Becoming
    BY <1>3, <2>1, <2>2, <2>3 DEF OrderlyInv
  <2> QED
    BY <2>2, <2>3, <2>4 DEF Becoming, PortsDone, GroupsDone
<1>8. host' = host
  BY <1>3 DEF host
<1>9. HostsAsAnswered'
  BY <1>3, <1>5, <1>7, <1>8 DEF HostsAsAnswered, Wanted, Type, OfType, Requested
<1> QED
  BY <1>6, <1>9
(* While undefine_host runs, no orderly call defines.                      *)
LEMMA UndefiningAlone ==
  ASSUME HostsInv, OrderlyInv, Orderly, NEW t \in Threads, pc[t] \in {"findUndefined", "undefine"}
  PROVE  ~ Defining /\ (TheHost # None => Settled)
<1>1. \A u \in Threads : pc[u] # "idle" => req[u].op = "undefine"
  <2>1. Hosting(t) /\ SameCalls
    BY DEF HostsInv, OrderlyInv
  <2> QED
    BY <2>1 DEF Hosting, SameCalls
<1>2. ~ Defining
  BY <1>1 DEF HostsInv, Hosting, Defining
<1> QED
  BY <1>2 DEF OrderlyInv

LEMMA FindUndefinedIsOrderly ==
  ASSUME HostsInv, OrderlyInv, NEW t \in Threads, FindUndefined(t)
  PROVE  OrderlyInv'
<1>1. pc[t] = "findUndefined"
  BY DEF FindUndefined, AtHost, At
<1>2. CASE /\ HostsWith(Setup(t).ports) = {} /\ Answer(t, TRUE) /\ NoFault
           /\ UNCHANGED <<array, memory>>
  <2>1. Gentle /\ TheHost' = TheHost /\ array'.host["other"] = array.host["other"]
    BY <1>2, SameHostIsGentle
  <2>2. Orderly => array.host["other"] = None /\ TheHost = None
    <3>1. Orderly /\ TheHost # None =>
            Matches(Setup(t).ports) /\ array.host["other"] = None
      BY <1>1, OrderlyCall, UndefiningAlone DEF Settled
    <3> QED
      BY <1>1, <1>2, <3>1, MatchedIsFound, OrderlyCall
  <2> QED
    BY <1>1, <1>2, <2>1, <2>2, AnsweredIsOrderly DEF NoFault
<1>3. ASSUME NEW h \in HostsWith(Setup(t).ports),
             Move(t, "undefine", [NoHostMemo EXCEPT !.name = h]), UNCHANGED array
      PROVE  OrderlyInv'
  <2> DEFINE memo == [NoHostMemo EXCEPT !.name = h]
  <2>1. Move(t, "undefine", memo)
    BY <1>3
  <2>2. memo.name = h /\ memo.good = {}
    BY DEF NoHostMemo
  <2> HIDE DEF memo
  <2>3. /\ Alone(t) /\ known' = known /\ pc'[t] = "undefine" /\ req'[t] = req[t]
        /\ local'[t] = memo /\ Orderly' = Orderly
    BY <1>1, <2>1, MoveFacts
  <2>4. Gentle /\ TheHost' = TheHost /\ Uniform' = Uniform
        /\ array'.host["other"] = array.host["other"]
    BY <1>3, SameHostIsGentle
  <2>5. ASSUME Orderly
        PROVE  OrderlyInv'
    <3>1. array.host["other"] = None /\ (TheHost # None => Uniform)
      BY <1>1, <2>5, OrderlyCall
    <3>2. h = "node"
      BY <3>1 DEF HostsWith, HostNames, host
    <3>3. SameCalls'
      BY <1>1, <2>3, <2>5 DEF OrderlyInv, SameCalls, Alone
    <3>4. ASSUME NEW u \in Threads
          PROVE  Doing(u)'
      <4>1. CASE u = t
        BY <2>2, <2>3, <3>2, <4>1 DEF Doing
      <4>2. CASE u # t
        <5>1. Doing(u) /\ pc'[u] = pc[u] /\ local'[u] = local[u]
          BY <2>3, <2>5, <4>2 DEF OrderlyInv, Alone
        <5> QED
          BY <2>3, <2>4, <5>1, OthersDoing
      <4> QED
        BY <4>1, <4>2
    <3>5. ~ Defining /\ (TheHost # None => Settled)
      BY <1>1, <2>5, UndefiningAlone
    <3>6. ~ Defining'
      BY <2>3, <3>5 DEF Defining, Alone
    <3>7. Settled => Settled'
      BY <2>3, <2>4 DEF Settled, Matches
    <3> QED
      BY <2>4, <3>1, <3>3, <3>4, <3>5, <3>6, <3>7 DEF OrderlyInv
  <2> QED
    BY <2>3, <2>5 DEF OrderlyInv
<1>4. CASE Refuse(t)
  BY <1>4, RefusedIsOrderly DEF Refuse
<1> QED
  BY <1>2, <1>3, <1>4 DEF FindUndefined

LEMMA UndefineHostIsOrderly ==
  ASSUME HostsInv, OrderlyInv, NEW t \in Threads, UndefineHost(t)
  PROVE  OrderlyInv'
<1>1. pc[t] = "undefine"
  BY DEF UndefineHost, AtHost, At
<1>2. CASE Fails(t)
  BY <1>1, <1>2, FailedIsOrderly
<1>3. CASE SetHost(Mine(t), None) /\ Answer(t, TRUE) /\ NoFault
  <2>1. Orderly => Mine(t) = "node" /\ array.host["other"] = None
    BY <1>1, OrderlyCall
  <2>2. Orderly => Gentle /\ TheHost' = None /\ array'.host["other"] = None
    BY <1>3, <2>1, DeletedIsGentle
  <2> QED
    BY <1>1, <1>3, <2>2, AnsweredIsOrderly DEF NoFault
<1> QED
  BY <1>2, <1>3 DEF UndefineHost, RemoveHost

LEMMA HostFailIsOrderly ==
  ASSUME HostsInv, OrderlyInv, NEW t \in Threads, HostFail(t)
  PROVE  OrderlyInv'
<1>1. crashes' = crashes /\ array' = array /\ pc[t] # "idle"
  BY DEF HostFail, Fault
<1>2. \/ Answer(t, FALSE)
      \/ Salvage(t) /\ pc[t] \notin {"idle", "findHost", "findUndefined", "undefine"}
  BY DEF HostFail, Salvages
<1>3. Orderly => Gentle /\ array'.host["other"] = None /\ (TheHost' # None => Uniform')
  BY <1>1, SameHostIsGentle, OrderlyCall
<1> QED
  BY <1>1, <1>2, <1>3, RefusedIsOrderly, SalvagedIsOrderly

(* What undefine_host answered OK holds.                                   *)
LEMMA UndefineAnswers ==
  ASSUME HostsInv, AnswerInv, NEW t \in Threads, FindUndefined(t) \/ UndefineHost(t),
         known'.answer # None
  PROVE  HostsAsAnswered' /\ AllIdle'
<1>1. pc[t] \in {"findUndefined", "undefine"} /\ Hosting(t) /\ known.answer = None
  BY DEF FindUndefined, UndefineHost, AtHost, At, HostsInv, AnswerInv, AllIdle
<1>2. ~ Answer(t, FALSE) /\ ~ Fails(t) /\ ~ Refuse(t)
  BY <1>1, AnswerFacts DEF Fails, Salvages, Refuse
<1>3. /\ Answer(t, TRUE)
      /\ \/ HostsWith(Setup(t).ports) = {} /\ UNCHANGED array /\ pc[t] = "findUndefined"
         \/ SetHost(Mine(t), None) /\ pc[t] = "undefine"
  <2>1. CASE FindUndefined(t)
    <3>1. ASSUME NEW memo, Move(t, "undefine", memo)
          PROVE  FALSE
      BY <1>1, <3>1 DEF Move
    <3> QED
      BY <1>2, <2>1, <3>1, Zenon DEF FindUndefined, AtHost, At
  <2>2. CASE UndefineHost(t)
    BY <1>2, <2>2 DEF UndefineHost, RemoveHost, AtHost, At
  <2> QED
    BY <2>1, <2>2
<1>4. /\ Alone(t) /\ pc'[t] = "idle"
      /\ \A u \in Threads \ {t} : pc[u] = "idle"
      /\ known'.answer = [op |-> req[t].op, setting |-> Setup(t), name |-> Mine(t)]
  BY <1>1, <1>3, AnswerFacts
<1>5. known'.answer.op = "undefine" /\ known'.answer.setting = Setup(t)
      /\ known'.answer.name = Mine(t)
  BY <1>1, <1>4 DEF Hosting
<1>6. AllIdle'
  BY <1>4 DEF AllIdle, Alone
<1>7. CASE HostsWith(Setup(t).ports) = {} /\ UNCHANGED array /\ pc[t] = "findUndefined"
  <2>1. Mine(t) = None
    BY <1>1, <1>7 DEF Hosting, Mine, NoHostMemo
  <2>2. {h \in HostNames : host'[h] # None /\ host'[h].ports \intersect Setup(t).ports # {}} = {}
    BY <1>7 DEF HostsWith, host
  <2> QED
    BY <1>5, <1>6, <2>1, <2>2 DEF HostsAsAnswered, HostsWith
<1>8. CASE SetHost(Mine(t), None) /\ pc[t] = "undefine"
  <2>1. Mine(t) \in HostNames /\ Mine(t) # None
    BY <1>1, <1>8, ArrayHostsAssumption DEF Hosting, Mine, HostNames
  <2>2. array'.host[Mine(t)] = None
    BY <1>8, <2>1 DEF SetHost, HostsInv, HostArray
  <2> QED
    BY <1>5, <1>6, <2>1, <2>2 DEF HostsAsAnswered, host
<1> QED
  BY <1>3, <1>7, <1>8
(* A step that tells nobody that a call was answered OK.                   *)
Quiet(t) ==
  /\ pc[t] # "idle" /\ crashes' = crashes
  /\ \/ known' = known /\ pc'[t] # "idle"
     \/ Answer(t, FALSE)

LEMMA MoveIsQuiet ==
  ASSUME Locked, NEW t \in Threads, pc[t] # "idle", NEW to, to # "idle", NEW memo,
         Move(t, to, memo)
  PROVE  Quiet(t)
  BY ProceedMoves DEF Move, NoFault, Quiet

LEMMA SalvageIsQuiet ==
  ASSUME Locked, NEW t \in Threads, pc[t] # "idle", Salvage(t), crashes' = crashes
  PROVE  Quiet(t)
<1> DEFINE memo == [local[t] EXCEPT !.way = "recreate"]
<1>1. Proceed(t, "dropHost", memo) /\ known' = known
  BY DEF Salvage
<1> HIDE DEF memo
<1>2. pc'[t] = "dropHost"
  BY <1>1, ProceedMoves
<1> QED
  BY <1>1, <1>2 DEF Quiet

LEMMA ErrorIsQuiet ==
  ASSUME NEW t \in Threads, pc[t] # "idle", Answer(t, FALSE), crashes' = crashes
  PROVE  Quiet(t)
  BY Zenon DEF Quiet

(* Every step of a call is quiet, but for the three that may answer OK.    *)
LEMMA CallsAreQuiet ==
  ASSUME HostsInv, NEW t \in Threads
  PROVE  /\ \/ FindHost(t) \/ VerifyPartition(t) \/ DropHost(t) \/ ReadPorts(t)
            \/ RemovePorts(t) \/ ChangeProtocol(t) \/ AddPorts(t) \/ CountPorts(t)
            \/ DropEmpty(t) \/ TryPort(t) \/ UntryPort(t) \/ MakeHost(t) \/ Validate(t)
            \/ ReadGroups(t) \/ RemoveGroups(t) \/ AddGroups(t) \/ HostFail(t)
            => Quiet(t)
         /\ Respond(t) \/ FindUndefined(t) \/ UndefineHost(t) =>
              \/ Quiet(t)
              \/ pc[t] # "idle" /\ Answer(t, TRUE) /\ crashes' = crashes
<1>0. Locked
  BY DEF HostsInv
<1>1. ASSUME FindHost(t)
      PROVE  Quiet(t)
  BY <1>0, <1>1, MoveIsQuiet, SalvageIsQuiet, ErrorIsQuiet
     DEF FindHost, At, AtHost, NoFault, Refuse, Creation
<1>2. ASSUME VerifyPartition(t)
      PROVE  Quiet(t)
  BY <1>0, <1>2, MoveIsQuiet, SalvageIsQuiet, ErrorIsQuiet
     DEF VerifyPartition, At, AtHost, NoFault, IsGone, Creation, Fails
<1>3. ASSUME DropHost(t)
      PROVE  Quiet(t)
  BY <1>0, <1>3, MoveIsQuiet, SalvageIsQuiet, ErrorIsQuiet
     DEF DropHost, At, AtHost, NoFault, Creation, RemoveHost, Fails
<1>4. ASSUME ReadPorts(t)
      PROVE  Quiet(t)
  BY <1>0, <1>4, MoveIsQuiet, SalvageIsQuiet, ErrorIsQuiet
     DEF ReadPorts, At, AtHost, NoFault, IsGone, AfterPorts, Creation, Fails
<1>5. ASSUME RemovePorts(t)
      PROVE  Quiet(t)
  BY <1>0, <1>5, MoveIsQuiet, SalvageIsQuiet, ErrorIsQuiet
     DEF RemovePorts, At, AtHost, NoFault, Fails, AfterPorts
<1>6. ASSUME ChangeProtocol(t)
      PROVE  Quiet(t)
  BY <1>0, <1>6, MoveIsQuiet, SalvageIsQuiet, ErrorIsQuiet
     DEF ChangeProtocol, At, AtHost, NoFault, Fails
<1>7. ASSUME AddPorts(t)
      PROVE  Quiet(t)
  BY <1>0, <1>7, MoveIsQuiet, SalvageIsQuiet, ErrorIsQuiet
     DEF AddPorts, At, AtHost, NoFault, Fails
<1>8. ASSUME CountPorts(t)
      PROVE  Quiet(t)
  BY <1>0, <1>8, MoveIsQuiet, SalvageIsQuiet, ErrorIsQuiet
     DEF CountPorts, At, AtHost, NoFault, IsGone, AfterPorts, Creation, Fails
<1>9. ASSUME DropEmpty(t)
      PROVE  Quiet(t)
  BY <1>0, <1>9, MoveIsQuiet, SalvageIsQuiet, ErrorIsQuiet
     DEF DropEmpty, At, AtHost, NoFault, RemoveHost, Fails
<1>10. ASSUME TryPort(t)
      PROVE  Quiet(t)
  <2>1. pc[t] = "tryPort"
    BY <1>10, Zenon DEF TryPort, AtHost, At
  <2>2. \/ Fails(t) \/ NameTaken(t)
        \/ \E to \in {"untryPort", "tryPort", "mkhost"} : \E memo : Move(t, to, memo)
    BY <1>10, Zenon DEF TryPort
  <2> QED
    BY <1>0, <2>1, <2>2, MoveIsQuiet, SalvageIsQuiet, ErrorIsQuiet DEF Fails, NameTaken, NoFault
<1>11. ASSUME UntryPort(t)
      PROVE  Quiet(t)
  BY <1>0, <1>11, MoveIsQuiet, SalvageIsQuiet, ErrorIsQuiet
     DEF UntryPort, At, AtHost, NoFault, RemoveHost, Fails
<1>12. ASSUME MakeHost(t)
      PROVE  Quiet(t)
  BY <1>0, <1>12, MoveIsQuiet, SalvageIsQuiet, ErrorIsQuiet
     DEF MakeHost, At, AtHost, NoFault, Fails, NameTaken
<1>13. ASSUME Validate(t)
      PROVE  Quiet(t)
  BY <1>0, <1>13, MoveIsQuiet, SalvageIsQuiet, ErrorIsQuiet
     DEF Validate, At, AtHost, NoFault, Fails
<1>14. ASSUME ReadGroups(t)
      PROVE  Quiet(t)
  BY <1>0, <1>14, MoveIsQuiet, SalvageIsQuiet, ErrorIsQuiet
     DEF ReadGroups, At, AtHost, NoFault, Creation
<1>15. ASSUME RemoveGroups(t)
      PROVE  Quiet(t)
  BY <1>0, <1>15, MoveIsQuiet, SalvageIsQuiet, ErrorIsQuiet
     DEF RemoveGroups, At, AtHost, NoFault, Creation
<1>16. ASSUME AddGroups(t)
      PROVE  Quiet(t)
  BY <1>0, <1>16, MoveIsQuiet, SalvageIsQuiet, ErrorIsQuiet
     DEF AddGroups, At, AtHost, NoFault, Creation
<1>17. ASSUME HostFail(t)
      PROVE  Quiet(t)
  BY <1>0, <1>17, MoveIsQuiet, SalvageIsQuiet, ErrorIsQuiet
     DEF HostFail, Fault
<1>18. ASSUME Respond(t)
      PROVE  Quiet(t) \/ (pc[t] # "idle" /\ Answer(t, TRUE) /\ crashes' = crashes)
  BY <1>0, <1>18, MoveIsQuiet, SalvageIsQuiet, ErrorIsQuiet
     DEF Respond, At, AtHost, NoFault, Fails
<1>19. ASSUME FindUndefined(t)
      PROVE  Quiet(t) \/ (pc[t] # "idle" /\ Answer(t, TRUE) /\ crashes' = crashes)
  BY <1>0, <1>19, MoveIsQuiet, SalvageIsQuiet, ErrorIsQuiet
     DEF FindUndefined, At, AtHost, NoFault, Refuse
<1>20. ASSUME UndefineHost(t)
      PROVE  Quiet(t) \/ (pc[t] # "idle" /\ Answer(t, TRUE) /\ crashes' = crashes)
  BY <1>0, <1>20, MoveIsQuiet, SalvageIsQuiet, ErrorIsQuiet
     DEF UndefineHost, At, AtHost, NoFault, RemoveHost, Fails
<1> QED
  BY <1>1, <1>2, <1>3, <1>4, <1>5, <1>6, <1>7, <1>8, <1>9, <1>10, <1>11, <1>12, <1>13, <1>14,
     <1>15, <1>16, <1>17, <1>18, <1>19, <1>20
LEMMA OrderlyStep ==
  ASSUME HostsInv, OrderlyInv, MixedInv, HostsNext
  PROVE  OrderlyInv'
  BY CallIsOrderly, FindHostIsOrderly, VerifyPartitionIsOrderly, DropHostIsOrderly,
     ReadPortsIsOrderly, RemovePortsIsOrderly, ChangeProtocolIsOrderly, AddPortsIsOrderly,
     CountPortsIsOrderly, RemovedIsOrderly, TryPortIsOrderly, MakeHostIsOrderly, ValidateIsOrderly,
     ReadGroupsIsOrderly, ChangeGroupsIsOrderly, RespondIsOrderly, FindUndefinedIsOrderly,
     UndefineHostIsOrderly, HostFailIsOrderly DEF HostsNext

HostAnswersInv ==
  HostsInv /\ OrderlyInv /\ MixedInv /\ AnswerInv /\ HostsAsAnswered /\ crashes \in Nat

LEMMA InitHostAnswers ==
  ASSUME InitHosts
  PROVE  HostAnswersInv
<1>1. HostsInv
  BY InitHostsInv
<1>2. /\ \A t \in Threads : pc[t] = "idle"
      /\ crashes = 0
  BY DEF InitHosts, InitService
<1>3. /\ known.answer = None /\ ~ known.mixed
      /\ known.clean => TheHost = None /\ array.host["other"] = None
  <2>1. PICK ports \in {{}} \union {{p} : p \in OfType(Ports, "fc")} :
          /\ array = [host |-> [h \in HostNames |->
                        IF h = "other" /\ ports # {}
                          THEN [ports |-> ports, protocol |-> "scsi", partition |-> None,
                                groups |-> IoGroups]
                          ELSE None]]
          /\ \E c \in NodePorts :
               known = [setting |-> [ports |-> c, type |-> "fc", partition |-> None,
                                     groups |-> IoGroups],
                        recorded |-> None, answer |-> None, mixed |-> FALSE, clean |-> ports = {}]
    BY DEF InitHosts
  <2>2. known.answer = None /\ ~ known.mixed /\ (known.clean => ports = {})
    <3>1. PICK c \in NodePorts :
            known = [setting |-> [ports |-> c, type |-> "fc", partition |-> None,
                                  groups |-> IoGroups],
                     recorded |-> None, answer |-> None, mixed |-> FALSE, clean |-> ports = {}]
      BY <2>1
    <3>2. known.answer = None /\ known.mixed = FALSE
      BY <3>1
    <3>3. known.clean = (ports = {})
      BY <3>1, Zenon
    <3> QED
      BY <3>2, <3>3
  <2>3. ports = {} => array.host = [h \in HostNames |-> None]
    BY <2>1
  <2> QED
    BY <2>2, <2>3 DEF TheHost, HostNames
<1>4. OrderlyInv
  BY <1>2, <1>3 DEF OrderlyInv, Orderly, SameCalls, Doing
<1> QED
  BY <1>1, <1>2, <1>3, <1>4 DEF HostAnswersInv, MixedInv, AnswerInv, HostsAsAnswered

LEMMA HostAnswersStep ==
  ASSUME HostAnswersInv, HostsNext
  PROVE  HostAnswersInv'
<1>1. HostsInv' /\ OrderlyInv'
  BY HostsStep, OrderlyStep DEF HostAnswersInv
<1>2. \E t \in Threads :
        \/ CallHosts(t)
        \/ Quiet(t)
        \/ /\ Respond(t) \/ FindUndefined(t) \/ UndefineHost(t)
           /\ pc[t] # "idle" /\ Answer(t, TRUE) /\ crashes' = crashes
  BY CallsAreQuiet DEF HostsNext, HostAnswersInv
<1>3. ASSUME NEW t \in Threads, CallHosts(t)
      PROVE  HostAnswersInv'
  <2>1. known'.answer = None /\ MixedInv'
    BY <1>3, CallIsOrderly DEF HostAnswersInv
  <2>2. crashes' = crashes
    BY <1>3 DEF CallHosts, Enter
  <2> QED
    BY <1>1, <2>1, <2>2 DEF HostAnswersInv, AnswerInv, HostsAsAnswered
<1>4. ASSUME NEW t \in Threads, Quiet(t)
      PROVE  HostAnswersInv'
  <2>1. known.answer = None
    BY <1>4 DEF HostAnswersInv, AnswerInv, AllIdle, Quiet
  <2>2. known'.answer = None
    BY <1>4, <2>1, AnswerFacts DEF HostAnswersInv, Quiet
  <2>3. MixedInv'
    <3>1. CASE pc'[t] # "idle"
      BY <3>1 DEF MixedInv, AllIdle
    <3>2. CASE Answer(t, FALSE)
      BY <1>4, <3>2, AnswerFacts DEF HostAnswersInv, Quiet, MixedInv
    <3> QED
      BY <1>4, <3>1, <3>2 DEF Quiet
  <2> QED
    BY <1>1, <1>4, <2>2, <2>3 DEF HostAnswersInv, AnswerInv, HostsAsAnswered, Quiet
<1>5. ASSUME NEW t \in Threads, Respond(t) \/ FindUndefined(t) \/ UndefineHost(t),
             pc[t] # "idle", Answer(t, TRUE), crashes' = crashes
      PROVE  HostAnswersInv'
  <2>1. known'.answer # None => HostsAsAnswered' /\ AllIdle'
    BY <1>5, RespondAnswers, UndefineAnswers DEF HostAnswersInv
  <2>2. MixedInv'
    BY <1>5, AnswerFacts DEF HostAnswersInv, MixedInv
  <2>3. known'.answer = None => HostsAsAnswered'
    BY DEF HostsAsAnswered
  <2> QED
    BY <1>1, <1>5, <2>1, <2>2, <2>3 DEF HostAnswersInv, AnswerInv
<1> QED
  BY <1>2, <1>3, <1>4, <1>5

(* A restart finds a call under way: no answer is then in force.           *)
LEMMA CrashKeepsHostAnswers ==
  ASSUME HostAnswersInv, Crash
  PROVE  HostAnswersInv'
<1>1. HostsInv' /\ known' = known /\ crashes' = crashes + 1
  BY CrashKeepsHosts DEF HostAnswersInv, Crash
<1>2. known.answer = None
  BY DEF Crash, HostAnswersInv, AnswerInv, AllIdle
<1>3. crashes' \in Nat /\ crashes' # 0
  BY <1>1 DEF HostAnswersInv
<1> QED
  BY <1>1, <1>2, <1>3
     DEF HostAnswersInv, OrderlyInv, Orderly, MixedInv, AnswerInv, HostsAsAnswered

-----------------------------------------------------------------------------
(* The theorems.                                                           *)

(* Each service keeps its invariant, and all of them the request lock.     *)
ServiceInv ==
  /\ Locked
  /\ service \in ObjectServices \union {"mappings", "groups", "replication", "hosts", "routing"}
  /\ service = "mappings" => MappingsInv
  /\ service = "groups" => GroupsInv
  /\ service = "replication" => ReplicationInv
  /\ service = "hosts" => HostAnswersInv
  /\ service = "routing" => RoutingInv

LEMMA InitServiceInv == Init => ServiceInv
<1>1. ASSUME InitDS8K \/ InitXIV \/ InitSANtricity \/ InitSolidFire \/ InitSnapshotFunction
             \/ InitPartition
      PROVE  ServiceInv
  <2>1. PICK type \in ObjectServices : InitService(type)
    BY <1>1 DEF InitDS8K, InitXIV, InitSANtricity, InitSolidFire, InitSnapshotFunction,
       InitPartition, InitObjects, ObjectServices
  <2> QED
    BY <2>1, InitLocked DEF ServiceInv, InitService, ObjectServices
<1>2. /\ InitMappings => service = "mappings"
      /\ InitGroups => service = "groups"
      /\ InitReplication => service = "replication"
      /\ InitHosts => service = "hosts"
      /\ InitRouting => service = "routing"
  <2>1. InitMappings => service = "mappings"
    BY Zenon DEF InitMappings, InitService
  <2>2. InitGroups => service = "groups"
    BY Zenon DEF InitGroups, InitService
  <2>3. InitReplication => service = "replication"
    BY Zenon DEF InitReplication, InitService
  <2>4. InitHosts => service = "hosts"
    BY Zenon DEF InitHosts, InitService
  <2>5. InitRouting => service = "routing"
    BY Zenon DEF InitRouting, InitService
  <2> QED
    BY <2>1, <2>2, <2>3, <2>4, <2>5
<1>3. /\ service = "mappings" /\ MappingsInv => ServiceInv
      /\ service = "groups" /\ GroupsInv => ServiceInv
      /\ service = "replication" /\ ReplicationInv => ServiceInv
      /\ service = "hosts" /\ HostAnswersInv => ServiceInv
      /\ service = "routing" /\ RoutingInv => ServiceInv
  BY DEF ServiceInv, MappingsInv, GroupsInv, ReplicationInv, HostAnswersInv, HostsInv, RoutingInv
<1> QED
  BY <1>1, <1>2, <1>3, InitMappingsInv, InitGroupsInv, InitReplicationInv, InitHostAnswers,
     InitRoutingInv DEF Init

LEMMA StutterKeepsMappings ==
  ASSUME MappingsInv, UNCHANGED vars
  PROVE  MappingsInv'
<1>1. UNCHANGED vars /\ Locked'
  BY StutterKeepsLocked DEF MappingsInv
<1>2. MappingsAreDistinct' /\ ExclusiveIsMappedOnce' /\ AccessAsAnswered'
  BY <1>1 DEF MappingsInv, vars, MappingsAreDistinct, ExclusiveIsMappedOnce, AccessAsAnswered,
     MappingsOf, Target
<1>3. \A t \in Threads : MappingSeen(t)'
  BY <1>1 DEF MappingsInv, vars, MappingSeen, MappingsOf
<1> QED
  BY <1>1, <1>2, <1>3 DEF MappingsInv, vars

LEMMA StutterKeepsGroups ==
  ASSUME GroupsInv, UNCHANGED vars
  PROVE  GroupsInv'
<1>1. UNCHANGED vars /\ Locked'
  BY StutterKeepsLocked DEF GroupsInv
<1>2. GroupsTyped' /\ WantedInv' /\ MembersAsAnswered'
  BY <1>1 DEF GroupsInv, vars, GroupsTyped, WantedInv, MembersAsAnswered, Members
<1>3. \A t \in Threads : GroupPlaceInv(t)' /\ UpdateInv(t)' /\ TakeInv(t)'
  BY <1>1 DEF GroupsInv, vars, GroupPlaceInv, UpdateInv, TakeInv, Members, Taking
<1> QED
  BY <1>1, <1>2, <1>3 DEF GroupsInv

LEMMA StutterKeepsReplication ==
  ASSUME ReplicationInv, UNCHANGED vars
  PROVE  ReplicationInv'
<1>1. UNCHANGED vars /\ Locked'
  BY StutterKeepsLocked DEF ReplicationInv
<1>2. ReplicationTyped' /\ ReplicatedAsAnswered'
  BY <1>1 DEF ReplicationInv, vars, ReplicationTyped, ReplicatedAsAnswered, copy, IsPrimary
<1>3. \A t \in Threads : Replicating(t)'
  BY <1>1 DEF ReplicationInv, vars, Replicating, copy, IsPrimary
<1> QED
  BY <1>1, <1>2, <1>3 DEF ReplicationInv

LEMMA StutterKeepsHosts ==
  ASSUME HostsInv, UNCHANGED vars
  PROVE  HostsInv'
<1>1. UNCHANGED vars /\ Locked'
  BY StutterKeepsLocked DEF HostsInv
<1> QED
  BY <1>1 DEF HostsInv, vars, HostsKnown, Hosting

LEMMA StutterKeepsHostAnswers ==
  ASSUME HostAnswersInv, UNCHANGED vars
  PROVE  HostAnswersInv'
<1>1. HostsInv' /\ UNCHANGED <<service, pc, req, local, array, known, crashes>>
  BY StutterKeepsHosts DEF HostAnswersInv, vars
<1>2. AnswerInv' /\ MixedInv' /\ HostsAsAnswered'
  BY <1>1 DEF HostAnswersInv, AnswerInv, MixedInv, AllIdle, HostsAsAnswered, HostsWith, host
<1>3. TheHost' = TheHost /\ Aim' = Aim /\ AimType' = AimType
  BY <1>1 DEF TheHost, Aim, AimType
<1>4. /\ Uniform' = Uniform /\ SameCalls' = SameCalls /\ Defining' = Defining
      /\ Settled' = Settled /\ AsBefore' = AsBefore /\ Orderly' = Orderly
  BY <1>1, <1>3 DEF Uniform, SameCalls, Defining, Settled, AsBefore, Matches, Orderly
<1>5. /\ PortsDone' = PortsDone /\ GroupsDone' = GroupsDone
      /\ \A t \in Threads :
           /\ Doing(t) => Doing(t)'
           /\ PortsDue(t) => PortsDue(t)'
           /\ GroupsDue(t) => GroupsDue(t)'
           /\ Dooms(t) => Dooms(t)'
  BY <1>1, <1>3 DEF PortsDone, GroupsDone, Doing, PortsDue, GroupsDue, Dooms
<1>6. Becoming => Becoming'
  BY <1>1, <1>3, <1>5 DEF Becoming
<1>7. OrderlyInv'
  BY <1>1, <1>3, <1>4, <1>5, <1>6 DEF HostAnswersInv, OrderlyInv
<1> QED
  BY <1>1, <1>2, <1>7 DEF HostAnswersInv

LEMMA ServiceStep == ServiceInv /\ [Next]_vars => ServiceInv'
<1> SUFFICES ASSUME ServiceInv, [Next]_vars
             PROVE  ServiceInv'
  OBVIOUS
<1>1. Locked
  BY DEF ServiceInv
<1>2. ASSUME (\E t \in Threads : CallObjects(t)) \/ DS8KNext \/ XIVNext \/ SANtricityNext
             \/ SolidFireNext \/ SnapshotFunctionNext \/ PartitionNext
      PROVE  ServiceInv'
  <2>1. service \in ObjectServices /\ service' = service /\ Locked'
    BY <1>1, <1>2, CallObjectsMove, DS8KMove, XIVMove, SANtricityMove, SolidFireMove,
       FunctionMove, PartitionMove DEF ObjectServices
  <2> QED
    BY <2>1 DEF ServiceInv, ObjectServices
<1>3. ASSUME MappingsNext
      PROVE  ServiceInv'
  <2>1. service = "mappings" /\ service' = service /\ Locked'
    BY <1>1, <1>3, MappingsMove
  <2>2. MappingsInv'
    BY <1>3, <2>1, MappingsStep DEF ServiceInv
  <2> QED
    BY <2>1, <2>2 DEF ServiceInv
<1>4. ASSUME GroupsNext
      PROVE  ServiceInv'
  <2>1. service = "groups" /\ service' = service /\ Locked'
    BY <1>1, <1>4, GroupsMove
  <2>2. GroupsInv'
    BY <1>4, <2>1, GroupsStep DEF ServiceInv
  <2> QED
    BY <2>1, <2>2 DEF ServiceInv
<1>5. ASSUME ReplicationNext
      PROVE  ServiceInv'
  <2>1. service = "replication" /\ service' = service /\ Locked'
    BY <1>1, <1>5, ReplicationMove
  <2>2. ReplicationInv'
    BY <1>5, <2>1, ReplicationStep DEF ServiceInv
  <2> QED
    BY <2>1, <2>2 DEF ServiceInv
<1>6. ASSUME HostsNext
      PROVE  ServiceInv'
  <2>1. service = "hosts"
    BY ZenonT(60), <1>6 DEF HostsNext, CallHosts, FindHost, VerifyPartition, DropHost, ReadPorts, RemovePorts,
       ChangeProtocol, AddPorts, CountPorts, DropEmpty, TryPort, UntryPort, MakeHost, Validate,
       ReadGroups, RemoveGroups, AddGroups, Respond, FindUndefined, UndefineHost, HostFail,
       AtHost, At
  <2>2. HostAnswersInv
    BY <2>1 DEF ServiceInv
  <2>3. service' = service
    BY <1>6, <2>2, HostsMove DEF HostAnswersInv, HostsInv, HostsKnown
  <2>4. HostAnswersInv'
    BY <1>6, <2>2, HostAnswersStep
  <2> QED
    BY <2>1, <2>3, <2>4 DEF ServiceInv, HostAnswersInv, HostsInv
<1>7. ASSUME RoutingNext
      PROVE  ServiceInv'
  <2>1. service = "routing"
    BY Zenon, <1>7 DEF RoutingNext, ChangeRouting, CallRouting, Choose, GetAgent, ServeRequest,
       AnswerRouted, At
  <2>2. RoutingInv
    BY <2>1 DEF ServiceInv
  <2>3. service' = service
    BY <1>7, <2>2, RoutingMove DEF RoutingInv, RoutingTyped
  <2>4. RoutingInv'
    BY <1>7, <2>2, RoutingStepKeeps
  <2> QED
    BY <2>1, <2>3, <2>4 DEF ServiceInv, RoutingInv
<1>8. ASSUME Crash
      PROVE  ServiceInv'
  <2>1. service' = service
    BY <1>8 DEF Crash
  <2> QED
    BY <1>8, <2>1, CrashKeepsLocked, CrashKeepsMappings, CrashKeepsGroups, CrashKeepsReplication,
       CrashKeepsHostAnswers, CrashKeepsRouting DEF ServiceInv
<1>9. ASSUME UNCHANGED vars
      PROVE  ServiceInv'
  <2>1. service' = service
    BY <1>9 DEF vars
  <2> QED
    BY <1>9, <2>1, StutterKeepsLocked, StutterKeepsMappings, StutterKeepsGroups,
       StutterKeepsReplication, StutterKeepsHostAnswers, StutterKeepsRouting DEF ServiceInv
<1> QED
  BY <1>2, <1>3, <1>4, <1>5, <1>6, <1>7, <1>8, <1>9 DEF Next, Rest

THEOREM Invariance == Spec => []ServiceInv
  BY InitServiceInv, ServiceStep, PTL DEF Spec

LEMMA ServicesTyped ==
  ASSUME ServiceInv, service \in {"mappings", "groups", "replication", "hosts"}
  PROVE  TypeOK
<1>1. /\ Locked /\ ids_in_use = {LockOf(req[t]) : t \in {x \in Threads : req[x] # None}}
      /\ \A t \in Threads : pc[t] = "idle" => req[t] = None
  BY DEF ServiceInv, Locked
<1>2. service = "mappings" => MappingsTypeOK
  BY <1>1 DEF ServiceInv, MappingsInv, MappingsAreDistinct, MappingSeen, MappingsTypeOK
<1>3. service = "groups" => GroupsTypeOK
  BY <1>1 DEF ServiceInv, GroupsInv, GroupsTyped, GroupPlaceInv, GroupsTypeOK
<1>4. service = "replication" => ReplicationTypeOK
  BY <1>1 DEF ServiceInv, ReplicationInv, ReplicationTyped, Replicating, ReplicationTypeOK,
     ReplicationPlace, copy
<1>5. service = "hosts" => HostsTypeOK
  BY HostsInvTyped DEF ServiceInv, HostAnswersInv
<1> QED
  BY <1>1, <1>2, <1>3, <1>4, <1>5 DEF TypeOK

(* The other services keep their types: mappings, groups, the relation,    *)
(* hosts, and what requests remember.                                      *)
THEOREM ServicesAreTyped ==
  Spec => [](service \notin ObjectServices \union {"routing"} => TypeOK)
<1>1. ServiceInv => (service \notin ObjectServices \union {"routing"} => TypeOK)
  <2>1. ServiceInv /\ service \notin ObjectServices \union {"routing"} =>
          service \in {"mappings", "groups", "replication", "hosts"}
    BY DEF ServiceInv
  <2> QED
    BY <2>1, ServicesTyped
<1> QED
  BY <1>1, Invariance, PTL

(* The request lock, for every service: two requests with one lock never   *)
(* run together, and the locks taken are those of the requests in hand     *)
(* (csi_method, sync_lock.py), through every failure and restart.          *)
THEOREM RequestsAreLocked == Spec => []Locked
<1>1. ServiceInv => Locked
  BY DEF ServiceInv
<1> QED
  BY <1>1, Invariance, PTL

(* A volume with a single-node access mode is never mapped twice, however  *)
(* many hosts ask for it at once (map_volume_by_initiators), but on        *)
(* SolidFire, which shows no mappings to check.                            *)
THEOREM MappedOnce == Spec => []ExclusiveIsMappedOnce
<1>1. ServiceInv => ExclusiveIsMappedOnce
  BY DEF ServiceInv, MappingsInv, ExclusiveIsMappedOnce
<1> QED
  BY <1>1, Invariance, PTL

(* What ControllerPublishVolume and ControllerUnpublishVolume answered     *)
(* holds on the array: a published volume is mapped with the reported LUN, *)
(* an unpublished one is not, unless a command failed on SolidFire.        *)
THEOREM AccessIsAsAnswered == Spec => []AccessAsAnswered
<1>1. ServiceInv => AccessAsAnswered
  BY DEF ServiceInv, MappingsInv, AccessAsAnswered
<1> QED
  BY <1>1, Invariance, PTL

(* A volume group has the members ModifyVolumeGroupMembership reported,    *)
(* but for those a request for another group was after meanwhile.          *)
THEOREM GroupsAreAsAnswered == Spec => []MembersAsAnswered
<1>1. ServiceInv => MembersAsAnswered
  BY DEF ServiceInv, GroupsInv, MembersAsAnswered
<1> QED
  BY <1>1, Invariance, PTL

(* The replication the add-on reported holds, until another is asked for:  *)
(* what was enabled whatever fails, what was disabled or promoted as long  *)
(* as no command failed.                                                   *)
THEOREM ReplicationIsAsAnswered == Spec => []ReplicatedAsAnswered
<1>1. ServiceInv => ReplicatedAsAnswered
  BY DEF ServiceInv, ReplicationInv, ReplicatedAsAnswered
<1> QED
  BY <1>1, Invariance, PTL

(* What define_host and undefine_host answered OK holds on the array: the  *)
(* host is there with a port of the type; as long as every call was        *)
(* answered OK, and none that differ ran together, it has all the node's   *)
(* ports of the type, the partition and the I/O groups that were asked     *)
(* for, and none of them is lost to a call that runs along.                *)
THEOREM HostIsAsAnswered == Spec => []HostsAsAnswered
<1>1. ServiceInv => HostsAsAnswered
  BY DEF ServiceInv, HostAnswersInv, HostsAsAnswered
<1> QED
  BY <1>1, Invariance, PTL

(* An agent serves a request of the array that has its volume, with the    *)
(* request's own password, however agents are shared and replaced.         *)
THEOREM ServedByOwnArray == Spec => []ServedByItsOwn
<1>1. ServiceInv => ServedByItsOwn
  BY RoutingServes DEF ServiceInv, ServedByItsOwn
<1> QED
  BY <1>1, Invariance, PTL
=============================================================================
