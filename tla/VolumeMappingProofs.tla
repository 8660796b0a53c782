------------------------- MODULE VolumeMappingProofs -------------------------
(***************************************************************************)
(* Theorems about VolumeMapping for every number of workers, volumes and   *)
(* hosts, every range of LUNs, and any number of failing commands and lost *)
(* answers.                                                                *)
(***************************************************************************)
EXTENDS VolumeMapping, FiniteSetTheorems, TLAPS

-----------------------------------------------------------------------------
(* The LUNs that are offered.                                              *)

(* A bounded set of naturals has a greatest element.                       *)
LEMMA GreatestElement ==
  ASSUME NEW n \in Nat, NEW S, S \subseteq 0 .. n, S # {}
  PROVE  \E m \in S : \A l \in S : l <= m
  <1> DEFINE Above(l) == {k \in 0 .. n : l < k}
             T == {Above(l) : l \in S}
  <1>1. T \subseteq FiniteSubsetsOf(0 .. n) /\ T # {}
    <2>1. FiniteSubsetsOf(0 .. n) = SUBSET (0 .. n)
      <3>1. IsFiniteSet(0 .. n)
        BY FS_Interval
      <3>2. QED
        BY <3>1, FS_FiniteSubsetsOfFinite
    <2>2. T \subseteq SUBSET (0 .. n) /\ T # {}
      OBVIOUS
    <2>3. QED
      BY <2>1, <2>2
  <1>2. PICK x \in T : \A y \in T : ~ (<<y, x>> \in StrictSubsetOrdering(0 .. n))
    <2> HIDE DEF T
    <2>1. QED
      BY <1>1, FS_StrictSubsetOrderingWellFounded, WFMin
  <1>3. PICK m \in S : x = Above(m)
    OBVIOUS
  <1>4. ASSUME NEW l \in S, m < l PROVE FALSE
    <2>1. Above(l) \in T
      OBVIOUS
    <2>2. Above(l) \subseteq Above(m) /\ l \in Above(m) /\ l \notin Above(l)
      BY <1>4
    <2>3. Above(l) \in SUBSET (0 .. n) /\ Above(m) \in SUBSET (0 .. n) /\ Above(l) # Above(m)
      BY <2>2
    <2>4. <<Above(l), Above(m)>> \in StrictSubsetOrdering(0 .. n)
      <3> HIDE DEF Above
      <3>1. QED
        BY <2>2, <2>3 DEF StrictSubsetOrdering
    <2>5. QED
      BY <1>2, <1>3, <2>1, <2>4
  <1>5. QED
    BY <1>4

LEMMA DivisionBound ==
  ASSUME NEW a \in Nat, NEW d \in Nat \ {0}, NEW k \in Nat, a <= k * d
  PROVE  /\ (a + d - 1) \div d \in 0 .. k
         /\ ((a + d - 1) \div d) * d >= a
  <1> DEFINE b == a + d - 1
             q == b \div d
             r == b % d
  <1>1. b \in Nat /\ q \in Int /\ r \in 0 .. d - 1 /\ b = d * q + r
    OBVIOUS
  <1>2. q >= 0 /\ q * d >= a
    OBVIOUS
  <1>3. ASSUME q > k PROVE FALSE
    <2>1. q = k + 1 + (q - k - 1) /\ q - k - 1 \in Nat
      BY <1>1, <1>3
    <2>2. q * d = k * d + d + (q - k - 1) * d /\ (q - k - 1) * d \in Nat
      BY <1>1, <2>1
    <2>3. QED
      BY <1>1, <2>2
  <1>4. QED
    BY <1>1, <1>2, <1>3

LEMMA LastLunBounds ==
  ASSUME TypeOK, NEW h \in Hosts
  PROVE  /\ LastLun(h) \in 0 .. HostLimit
         /\ \A l \in UsedLuns(h) : l <= LastLun(h)
         /\ LastLun(h) < HostLimit => LastLun(h) + LunIncrement <= HostLimit
  <1> DEFINE max == CHOOSE m \in UsedLuns(h) \union {0} : \A l \in UsedLuns(h) : l <= m
             j == (max - MaxLun + LunIncrement - 1) \div LunIncrement
  <1>1. UsedLuns(h) \subseteq 0 .. HostLimit
    BY MappingAssumption DEF TypeOK, UsedLuns
  <1>2. max \in 0 .. HostLimit /\ \A l \in UsedLuns(h) : l <= max
    <2>1. UsedLuns(h) \union {0} \subseteq 0 .. HostLimit
      BY <1>1, MappingAssumption
    <2>2. \E m \in UsedLuns(h) \union {0} : \A l \in UsedLuns(h) \union {0} : l <= m
      BY <2>1, GreatestElement, MappingAssumption
    <2>3. QED
      BY <2>1, <2>2
  <1>3. LastLun(h) = IF max <= MaxLun THEN MaxLun ELSE MaxLun + j * LunIncrement
    BY DEF LastLun
  <1>4. PICK k \in 0 .. HostLimit : HostLimit = MaxLun + k * LunIncrement
    BY MappingAssumption
  <1> HIDE DEF max
  <1>5. CASE max <= MaxLun
    <2>1. LastLun(h) = MaxLun
      BY <1>3, <1>5
    <2>2. k = 0 \/ k * LunIncrement >= LunIncrement
      BY <1>4, MappingAssumption
    <2>3. k * LunIncrement \in Nat
      BY <1>4, MappingAssumption
    <2>4. QED
      BY <1>1, <1>2, <1>4, <1>5, <2>1, <2>2, <2>3, MappingAssumption
  <1>6. CASE max > MaxLun
    <2>1. /\ max - MaxLun \in Nat /\ max - MaxLun <= k * LunIncrement
          /\ LunIncrement \in Nat \ {0} /\ k \in Nat
      BY <1>2, <1>4, <1>6, MappingAssumption
    <2>2. j \in 0 .. k /\ j * LunIncrement >= max - MaxLun
      BY <2>1, DivisionBound
    <2> HIDE DEF j
    <2>3. j * LunIncrement \in Nat /\ (k - j) * LunIncrement \in Nat
          /\ k * LunIncrement = j * LunIncrement + (k - j) * LunIncrement
      BY <1>4, <2>2, MappingAssumption
    <2>4. j = k \/ (k - j) * LunIncrement >= LunIncrement
      BY <1>4, <2>2, MappingAssumption
    <2>5. LastLun(h) = MaxLun + j * LunIncrement
      BY <1>2, <1>3, <1>6, MappingAssumption
    <2>6. QED
      BY <1>1, <1>2, <1>4, <2>2, <2>3, <2>4, <2>5, MappingAssumption
  <1>7. QED
    BY <1>2, <1>5, <1>6, MappingAssumption

(* A LUN that is offered is free, and one beyond the limit of the array is *)
(* offered only when no other is free.                                     *)
LEMMA FreeLunsAreFree ==
  ASSUME TypeOK, NEW h \in Hosts, NEW l \in FreeLuns(h)
  PROVE  /\ l \in Lun /\ l \notin UsedLuns(h)
         /\ l > HostLimit => UsedLuns(h) = 0 .. HostLimit
  <1> DEFINE free == (0 .. LastLun(h)) \ UsedLuns(h)
  <1>1. /\ LastLun(h) \in 0 .. HostLimit
        /\ \A k \in UsedLuns(h) : k <= LastLun(h)
        /\ LastLun(h) < HostLimit => LastLun(h) + LunIncrement <= HostLimit
    BY LastLunBounds
  <1>2. UsedLuns(h) \subseteq 0 .. HostLimit
    BY MappingAssumption DEF TypeOK, UsedLuns
  <1>3. CASE free # {}
    <2>1. l \in free
      BY <1>3 DEF FreeLuns
    <2>2. QED
      BY <1>1, <2>1, MappingAssumption DEF Lun
  <1>4. CASE free = {}
    <2>1. l \in LastLun(h) + 1 .. LastLun(h) + LunIncrement
      BY <1>4 DEF FreeLuns
    <2>2. 0 .. LastLun(h) \subseteq UsedLuns(h)
      BY <1>4
    <2>3. l \in Lun /\ l \notin UsedLuns(h)
      BY <1>1, <2>1, MappingAssumption DEF Lun
    <2>4. l > HostLimit => LastLun(h) = HostLimit
      BY <1>1, <2>1, MappingAssumption
    <2>5. QED
      BY <1>2, <2>2, <2>3, <2>4
  <1>5. QED
    BY <1>3, <1>4

-----------------------------------------------------------------------------
(* The invariant.                                                          *)

(* A request that is being processed holds the lock of its volume, alone.  *)
LocksHeld ==
  \A t \in Threads : req[t] # None => req[t].volume \in ids_in_use

LocksExclusive ==
  \A t, u \in Threads :
    t # u /\ req[t] # None /\ req[u] # None => req[t].volume # req[u].volume

(* Where a request of each kind can be.                                    *)
PlaceInv ==
  \A t \in Threads :
    /\ pc[t] = "idle" <=> req[t] = None
    /\ pc[t] \in {"lookup", "choose", "map"} => req[t].op = "publish"
    /\ pc[t] = "unmap" => req[t].op = "unpublish"
    /\ pc[t] = "map" => lun[t] # None

(* The array maps volumes that exist to hosts that exist.                  *)
MappedExists ==
  \A v \in Volumes, h \in Hosts : lunOf[v][h] # None => v \in volumes /\ h \in hosts

(* What Lookup has found stays so as long as the lock is held: the volume  *)
(* is not mapped to the host and, if it is exclusive, to no host.          *)
PastLookup ==
  \A t \in Threads :
    pc[t] \in {"findHost", "choose", "map"} /\ req[t].op = "publish" =>
      /\ req[t].volume \in volumes
      /\ lunOf[req[t].volume][req[t].host] = None
      /\ req[t].volume \in Exclusive => \A h \in Hosts : lunOf[req[t].volume][h] = None

OneHost ==
  \A v \in Exclusive : \A g, h \in Hosts :
    lunOf[v][g] # None /\ lunOf[v][h] # None => g = h

(* What was reported of a volume and a host is forgotten while a request   *)
(* is about to make it false.                                              *)
ForgottenInv ==
  \A t \in Threads :
    req[t] # None =>
      /\ req[t].op = "unpublish" => reported[req[t].volume][req[t].host] = None
      /\ req[t].op = "publish" => <<req[t].volume, req[t].host>> \notin released

(* The LUN that a thread has chosen and finds taken was taken by a rival   *)
(* that it has not yet counted as an attempt.                              *)
LostToRival ==
  \A t \in Threads :
    pc[t] = "map" /\ lun[t] \in UsedLuns(req[t].host) => attempts[t] < rivals[t]

Core ==
  /\ LocksHeld /\ LocksExclusive /\ PlaceInv /\ MappedExists /\ PastLookup
  /\ OneHost /\ ForgottenInv /\ LostToRival
  /\ PublishedIsMapped /\ LostOnlyToRivals /\ ReleasedIsUnmapped

IInv == TypeOK /\ Core

-----------------------------------------------------------------------------
(* Type correctness.                                                       *)

LEMMA TypeInit == Init => TypeOK
  BY MappingAssumption DEF Init, TypeOK, Phase, Request

LEMMA LeaveKeepsTypes ==
  ASSUME TypeOK, NEW t \in Threads, Leave(t)
  PROVE  /\ ids_in_use' \subseteq Volumes
         /\ pc' \in [Threads -> Phase]
         /\ req' \in [Threads -> Request \union {None}]
         /\ lun' \in [Threads -> Lun \union {None}]
         /\ attempts' \in [Threads -> 0 .. MaxTries - 1]
  BY MappingAssumption DEF TypeOK, Leave, Goto, Phase

LEMMA MakeMappingKeepsTypes ==
  ASSUME TypeOK, NEW t \in Threads, req[t] # None, lun[t] # None, MakeMapping(t)
  PROVE  /\ lunOf' \in [Volumes -> [Hosts -> 0 .. HostLimit \union {None}]]
         /\ volumes' \subseteq Volumes /\ hosts' \subseteq Hosts
         /\ rivals' \in [Threads -> 0 .. MaxTries]
  <1> USE DEF TypeOK, MakeMapping
  <1>1. req[t].volume \in Volumes /\ req[t].host \in Hosts /\ lun[t] \in 0 .. HostLimit
    <2>1. req[t] \in Request /\ lun[t] \in Lun
      OBVIOUS
    <2>2. lun[t] <= HostLimit
      BY DEF Free
    <2>3. QED
      BY <2>1, <2>2, MappingAssumption DEF Request, Lun
  <1>2. lunOf' \in [Volumes -> [Hosts -> 0 .. HostLimit \union {None}]]
    BY <1>1
  <1>3. rivals' \in [Threads -> 0 .. MaxTries]
    BY MappingAssumption
  <1>4. QED
    BY <1>2, <1>3

LEMMA TypeNext == IInv /\ [Next]_vars => TypeOK'
  <1> SUFFICES ASSUME IInv, [Next]_vars PROVE TypeOK'
    OBVIOUS
  <1> USE DEF IInv, TypeOK, array, local, report, budget, Goto, Reject, Return
  <1>1. ASSUME NEW t \in Threads, Call(t) PROVE TypeOK'
    <2>1. PICK r \in Request :
            /\ ids_in_use' = ids_in_use \union {r.volume}
            /\ req' = [req EXCEPT ![t] = r]
            /\ reported' = IF r.op = "publish" THEN reported
                             ELSE [reported EXCEPT ![r.volume][r.host] = None]
            /\ released' = IF r.op = "publish" THEN released \ {<<r.volume, r.host>>}
                                               ELSE released
      BY <1>1 DEF Call
    <2>2. r.volume \in Volumes /\ r.host \in Hosts
      BY DEF Request
    <2>3. req' \in [Threads -> Request \union {None}] /\ ids_in_use' \subseteq Volumes
      BY <2>1, <2>2
    <2>4. reported' \in [Volumes -> [Hosts -> 0 .. HostLimit \union {None}]]
          /\ released' \subseteq Volumes \X Hosts
      BY <2>1, <2>2
    <2>5. QED
      BY <1>1, <2>3, <2>4 DEF Call, Phase
  <1>2. ASSUME NEW t \in Threads, pc[t] # "idle"
        PROVE  req[t] \in Request /\ req[t].volume \in Volumes /\ req[t].host \in Hosts
    BY <1>2 DEF Core, PlaceInv, Request
  <1>3. ASSUME NEW t \in Threads, ReadNode(t) \/ Lookup(t) \/ FindHost(t)
        PROVE  TypeOK'
    <2>1. req[t] \in Request /\ req[t].volume \in Volumes /\ req[t].host \in Hosts
      BY <1>2, <1>3 DEF ReadNode, Lookup, FindHost
    <2>2. ASSUME NEW p \in Phase, Continue(t, p), UNCHANGED <<array, report, budget>>
          PROVE  TypeOK'
      BY <2>2 DEF Continue
    <2>3. CASE Reject(t)
      BY <2>3, LeaveKeepsTypes, MappingAssumption
    <2>4. CASE AlreadyMapped(t, req[t].host)
      BY <2>1, <2>4, LeaveKeepsTypes, MappingAssumption DEF AlreadyMapped, Published
    <2>5. CASE Unpublished(t) /\ UNCHANGED <<array, budget>>
      BY <2>1, <2>5, LeaveKeepsTypes, MappingAssumption DEF Unpublished
    <2>6. QED
      BY <1>3, <2>2, <2>3, <2>4, <2>5 DEF ReadNode, Lookup, FindHost, Phase
  <1>4. ASSUME NEW t \in Threads, NodeUnreadable(t) PROVE TypeOK'
    <2>1. req[t].volume \in Volumes /\ req[t].host \in Hosts
      BY <1>2, <1>4 DEF NodeUnreadable
    <2>2. Leave(t) /\ rivals' = [rivals EXCEPT ![t] = 0] /\ UNCHANGED reported
          /\ released' \subseteq Volumes \X Hosts
      BY <1>4, <2>1 DEF NodeUnreadable, Unpublished
    <2>3. QED
      BY <1>4, <2>2, LeaveKeepsTypes, MappingAssumption DEF NodeUnreadable
  <1>5. ASSUME NEW t \in Threads, Choose(t) PROVE TypeOK'
    <2>1. CASE Reject(t)
      BY <2>1, LeaveKeepsTypes, MappingAssumption
    <2>2. ASSUME NEW l \in FreeLuns(req[t].host), lun' = [lun EXCEPT ![t] = l], Goto(t, "map"),
                 UNCHANGED <<array, ids_in_use, req, attempts, rivals, report, budget>>
          PROVE  TypeOK'
      <3>1. l \in Lun
        BY <1>2, <1>5, FreeLunsAreFree DEF Choose
      <3>2. QED
        BY <2>2, <3>1 DEF Phase
    <2>3. QED
      BY <1>5, <2>1, <2>2 DEF Choose
  <1>6. ASSUME NEW t \in Threads, Map(t) \/ Unmap(t) \/ LoseAnswer(t) PROVE TypeOK'
    <2>1. req[t] \in Request /\ req[t].volume \in Volumes /\ req[t].host \in Hosts
          /\ req[t] # None
      BY <1>2, <1>6, MappingAssumption DEF Map, Unmap, LoseAnswer, Core, PlaceInv
    <2>2. CASE Map(t)
      <3>1. lun[t] # None /\ lun[t] \in 0 .. HostLimit
        BY <2>2, MappingAssumption DEF Map, MakeMapping, Free, Core, PlaceInv, Lun
      <3>2. reported' \in [Volumes -> [Hosts -> 0 .. HostLimit \union {None}]]
        BY <2>1, <2>2, <3>1 DEF Map, Published
      <3>3. QED
        BY <2>1, <2>2, <3>1, <3>2, LeaveKeepsTypes, MakeMappingKeepsTypes DEF Map, Published
    <2>3. CASE Unmap(t)
      BY <2>1, <2>3, LeaveKeepsTypes, MappingAssumption DEF Unmap, RemoveMapping, Unpublished
    <2>4. CASE pc[t] = "map" /\ MakeMapping(t) /\ Leave(t) /\ LoseAnswer(t)
      <3>1. lun[t] # None
        BY <2>4 DEF Core, PlaceInv
      <3>2. QED
        BY <2>1, <2>4, <3>1, LeaveKeepsTypes, MakeMappingKeepsTypes, MappingAssumption
        DEF LoseAnswer
    <2>5. CASE pc[t] = "unmap" /\ RemoveMapping(t) /\ Return(t) /\ LoseAnswer(t)
      BY <2>1, <2>5, LeaveKeepsTypes, MappingAssumption DEF LoseAnswer, RemoveMapping
    <2>6. QED
      BY <1>6, <2>2, <2>3, <2>4, <2>5 DEF LoseAnswer
  <1>7. ASSUME NEW t \in Threads, Retry(t) PROVE TypeOK'
    BY <1>7, MappingAssumption DEF Retry, Phase
  <1>8. ASSUME NEW t \in Threads, GiveUp(t) \/ Fail(t) PROVE TypeOK'
    BY <1>8, LeaveKeepsTypes, MappingAssumption DEF GiveUp, Fail
  <1>9. ASSUME NEW v \in Volumes, DeleteVolume(v) PROVE TypeOK'
    BY <1>9 DEF DeleteVolume
  <1>10. ASSUME NEW h \in Hosts, HostDefiner(h) PROVE TypeOK'
    BY <1>10 DEF HostDefiner
  <1>11. CASE UNCHANGED vars
    BY <1>11 DEF vars
  <1>12. QED
    BY <1>1, <1>3, <1>4, <1>5, <1>6, <1>7, <1>8, <1>9, <1>10, <1>11 DEF Next, Step

-----------------------------------------------------------------------------
(* The ways in which a thread moves on without changing the array.         *)

LEMMA RequestParts ==
  ASSUME IInv, NEW t \in Threads, req[t] # None
  PROVE  req[t].volume \in Volumes /\ req[t].host \in Hosts
         /\ req[t].op \in {"publish", "unpublish"}
  BY DEF IInv, TypeOK, Request

LEMMA LeaveKeepsLocks ==
  ASSUME IInv, NEW t \in Threads, pc[t] # "idle", Leave(t)
  PROVE  LocksHeld' /\ LocksExclusive' /\ PlaceInv'
  <1> USE DEF IInv, TypeOK, Core, Leave, Goto
  <1>1. LocksHeld' /\ LocksExclusive'
    BY DEF LocksHeld, LocksExclusive, PlaceInv
  <1>2. PlaceInv'
    BY DEF PlaceInv
  <1>3. QED
    BY <1>1, <1>2

(* A request that ends with an error, or an unpublish that ends well.      *)
LEMMA ReturnKeeps ==
  ASSUME IInv, NEW t \in Threads, pc[t] # "idle", Return(t),
         UNCHANGED <<array, reported>>, unreadable' = 0 => unreadable = 0,
         \/ UNCHANGED released
         \/ /\ released' = released \union {<<req[t].volume, req[t].host>>}
            /\ unreadable' = 0 => lunOf[req[t].volume][req[t].host] = None
  PROVE  Core'
  <1> USE DEF IInv, TypeOK, Core, Return, Leave, Goto, array
  <1>1. LocksHeld' /\ LocksExclusive' /\ PlaceInv'
    BY LeaveKeepsLocks
  <1>2. MappedExists' /\ OneHost' /\ PublishedIsMapped'
    BY DEF MappedExists, OneHost, PublishedIsMapped
  <1>3. PastLookup'
    BY DEF PastLookup
  <1>4. ForgottenInv'
    BY DEF ForgottenInv, LocksExclusive, PlaceInv
  <1>5. LostToRival'
    BY DEF LostToRival, UsedLuns
  <1>6. LostOnlyToRivals'
    BY DEF LostOnlyToRivals
  <1>7. ReleasedIsUnmapped'
    BY DEF ReleasedIsUnmapped
  <1>8. QED
    BY <1>1, <1>2, <1>3, <1>4, <1>5, <1>6, <1>7

LEMMA ContinueKeeps ==
  ASSUME IInv, NEW t \in Threads, NEW p \in {"lookup", "findHost", "choose", "unmap"},
         pc[t] # "idle", Goto(t, p),
         UNCHANGED <<ids_in_use, req, array, report, unreadable>>,
         \A u \in Threads : pc'[u] = "map" => UNCHANGED <<lun[u], attempts[u], rivals[u]>>,
         LostOnlyToRivals',
         p \in {"lookup", "choose"} => req[t].op = "publish",
         p = "unmap" => req[t].op = "unpublish",
         p \in {"findHost", "choose"} /\ req[t].op = "publish" =>
           /\ req[t].volume \in volumes
           /\ lunOf[req[t].volume][req[t].host] = None
           /\ req[t].volume \in Exclusive => \A h \in Hosts : lunOf[req[t].volume][h] = None
  PROVE  Core'
  <1> USE DEF IInv, TypeOK, Core, Goto, array, report
  <1>1. LocksHeld' /\ LocksExclusive' /\ ForgottenInv'
    BY DEF LocksHeld, LocksExclusive, ForgottenInv
  <1>2. PlaceInv'
    BY DEF PlaceInv
  <1>3. MappedExists' /\ OneHost' /\ PublishedIsMapped' /\ ReleasedIsUnmapped'
    BY DEF MappedExists, OneHost, PublishedIsMapped, ReleasedIsUnmapped
  <1>4. PastLookup'
    BY DEF PastLookup
  <1>5. LostToRival'
    BY DEF LostToRival, UsedLuns
  <1>6. QED
    BY <1>1, <1>2, <1>3, <1>4, <1>5

-----------------------------------------------------------------------------
(* The answers and commands that change what is mapped or reported.        *)

LEMMA AlreadyMappedKeeps ==
  ASSUME IInv, NEW t \in Threads, pc[t] = "lookup", req[t].volume \in volumes,
         lunOf[req[t].volume][req[t].host] # None, AlreadyMapped(t, req[t].host)
  PROVE  Core'
  <1> USE DEF IInv, TypeOK, Core, AlreadyMapped, Published, Leave, Goto, array, budget
  <1>0. req[t] # None /\ req[t].volume \in Volumes /\ req[t].host \in Hosts
    BY RequestParts DEF PlaceInv
  <1>1. LocksHeld' /\ LocksExclusive' /\ PlaceInv'
    BY LeaveKeepsLocks
  <1>2. MappedExists' /\ OneHost'
    BY DEF MappedExists, OneHost
  <1>3. PublishedIsMapped'
    BY <1>0 DEF PublishedIsMapped, MappedExists
  <1>4. PastLookup'
    BY DEF PastLookup
  <1>5. ForgottenInv'
    <2> SUFFICES ASSUME NEW u \in Threads, u # t, req[u] # None
                 PROVE  /\ req[u].op = "unpublish" =>
                             reported'[req[u].volume][req[u].host] = None
                        /\ req[u].op = "publish" =>
                             <<req[u].volume, req[u].host>> \notin released
      BY DEF ForgottenInv
    <2>1. req[u].volume # req[t].volume /\ req[u].volume \in Volumes /\ req[u].host \in Hosts
      BY <1>0, RequestParts DEF LocksExclusive
    <2>2. QED
      BY <1>0, <2>1 DEF ForgottenInv
  <1>6. LostToRival' /\ LostOnlyToRivals'
    BY DEF LostToRival, UsedLuns, LostOnlyToRivals
  <1>7. ReleasedIsUnmapped'
    BY DEF ReleasedIsUnmapped
  <1>8. QED
    BY <1>1, <1>2, <1>3, <1>4, <1>5, <1>6, <1>7

LEMMA MadeMapping ==
  ASSUME IInv, NEW t \in Threads, pc[t] = "map", MakeMapping(t), Leave(t),
         UNCHANGED <<released, unreadable>>,
         \/ UNCHANGED reported
         \/ reported' = [reported EXCEPT ![req[t].volume][req[t].host] = lun[t]]
  PROVE  Core'
  <1> DEFINE v == req[t].volume
             h == req[t].host
  <1> USE DEF IInv, TypeOK, Core, Leave, Goto
  <1>0. /\ req[t] # None /\ v \in Volumes /\ h \in Hosts /\ req[t].op = "publish"
        /\ lun[t] # None /\ h \in hosts /\ v \in volumes
        /\ lunOf[v][h] = None
        /\ v \in Exclusive => \A g \in Hosts : lunOf[v][g] = None
        /\ <<v, h>> \notin released
    BY RequestParts DEF PlaceInv, PastLookup, MakeMapping, Free, ForgottenInv
  <1>1. /\ UNCHANGED <<volumes, hosts>>
        /\ lunOf'[v][h] = lun[t]
        /\ \A x \in Volumes, g \in Hosts : x # v \/ g # h => lunOf'[x][g] = lunOf[x][g]
    BY <1>0 DEF MakeMapping
  <1>2. /\ reported'[v][h] \in {reported[v][h], lun[t]}
        /\ \A x \in Volumes, g \in Hosts : x # v \/ g # h => reported'[x][g] = reported[x][g]
    BY <1>0
  <1>3. LocksHeld' /\ LocksExclusive' /\ PlaceInv'
    BY <1>0, LeaveKeepsLocks
  <1>4. MappedExists'
    <2> HIDE DEF IInv, TypeOK, Core, Leave, Goto, v, h
    <2>1. MappedExists
      BY DEF IInv, Core
    <2>2. ASSUME NEW x \in Volumes, NEW g \in Hosts, lunOf'[x][g] # None
          PROVE  x \in volumes /\ g \in hosts
      BY <1>0, <1>1, <2>1, <2>2 DEF MappedExists
    <2>3. QED
      BY <1>1, <2>2 DEF MappedExists
  <1>5. OneHost'
    BY <1>0, <1>1, MappingAssumption DEF OneHost
  <1>6. PublishedIsMapped'
    BY <1>0, <1>1, <1>2 DEF PublishedIsMapped
  <1>7. ASSUME NEW u \in Threads, u # t, req[u] # None
        PROVE  /\ req'[u] = req[u] /\ pc'[u] = pc[u] /\ lun'[u] = lun[u]
               /\ attempts'[u] = attempts[u]
               /\ req[u].volume # v /\ req[u].volume \in Volumes /\ req[u].host \in Hosts
    BY <1>0, <1>7, RequestParts DEF LocksExclusive
  <1>8. req'[t] = None /\ pc'[t] = "idle" /\ attempts'[t] = 0
    OBVIOUS
  <1>9. PastLookup'
    <2> SUFFICES ASSUME NEW u \in Threads, u # t, pc[u] \in {"findHost", "choose", "map"},
                        req[u].op = "publish"
                 PROVE  /\ req[u].volume \in volumes
                        /\ lunOf'[req[u].volume][req[u].host] = None
                        /\ req[u].volume \in Exclusive =>
                             \A g \in Hosts : lunOf'[req[u].volume][g] = None
      BY <1>1, <1>8 DEF PastLookup
    <2>1. req[u] # None
      BY DEF PlaceInv
    <2>2. QED
      BY <1>1, <1>7, <2>1 DEF PastLookup
  <1>10. ForgottenInv'
    BY <1>2, <1>7, <1>8 DEF ForgottenInv
  <1>11. ASSUME NEW u \in Threads, u # t, pc[u] = "map", lun[u] \in UsedLuns(req[u].host)'
         PROVE  attempts[u] < rivals'[u]
    <2>1. /\ req[u] # None /\ req[u].host \in Hosts /\ lun[u] # None
          /\ attempts[u] \in 0 .. MaxTries - 1 /\ rivals[u] \in 0 .. MaxTries
          /\ attempts[u] <= rivals[u]
      BY <1>7, <1>11 DEF PlaceInv, LostOnlyToRivals
    <2>2. rivals'[u] = IF req[u].host = h /\ rivals[u] < MaxTries
                         THEN rivals[u] + 1 ELSE rivals[u]
      BY <1>11, <2>1 DEF MakeMapping
    <2>3. CASE req[u].host = h
      BY <2>1, <2>2, <2>3, MappingAssumption
    <2>4. CASE req[u].host # h
      <3>1. lun[u] \in UsedLuns(req[u].host)
        BY <1>1, <1>11, <2>1, <2>4 DEF UsedLuns
      <3>2. QED
        BY <1>11, <2>2, <2>4, <3>1 DEF LostToRival
    <2>5. QED
      BY <2>3, <2>4
  <1>12. LostToRival'
    BY <1>7, <1>8, <1>11 DEF LostToRival, PlaceInv
  <1>13. LostOnlyToRivals'
    <2> SUFFICES ASSUME NEW u \in Threads PROVE attempts'[u] <= rivals'[u]
      BY DEF LostOnlyToRivals
    <2>1. rivals'[u] \in 0 .. MaxTries /\ (u # t => rivals'[u] >= rivals[u])
      BY MappingAssumption DEF MakeMapping
    <2>2. CASE u = t
      BY <1>8, <2>1, <2>2, MappingAssumption
    <2>3. CASE u # t
      BY <2>1, <2>3, MappingAssumption DEF LostOnlyToRivals
    <2>4. QED
      BY <2>2, <2>3
  <1>14. ReleasedIsUnmapped'
    <2> SUFFICES ASSUME NEW x \in Volumes, NEW g \in Hosts, <<x, g>> \in released,
                        unreadable = 0
                 PROVE  lunOf'[x][g] = None
      BY DEF ReleasedIsUnmapped
    <2>1. x # v \/ g # h
      BY <1>0
    <2>2. QED
      BY <1>1, <2>1 DEF ReleasedIsUnmapped
  <1>15. QED
    BY <1>3, <1>4, <1>5, <1>6, <1>9, <1>10, <1>12, <1>13, <1>14

LEMMA RemovedMapping ==
  ASSUME IInv, NEW t \in Threads, pc[t] = "unmap", RemoveMapping(t), Return(t),
         UNCHANGED <<reported, unreadable>>,
         \/ UNCHANGED released
         \/ released' = released \union {<<req[t].volume, req[t].host>>}
  PROVE  Core'
  <1> DEFINE v == req[t].volume
             h == req[t].host
  <1> USE DEF IInv, TypeOK, Core, Return, Leave, Goto
  <1>0. /\ req[t] # None /\ v \in Volumes /\ h \in Hosts /\ req[t].op = "unpublish"
        /\ reported[v][h] = None
    BY RequestParts DEF PlaceInv, ForgottenInv
  <1>1. /\ UNCHANGED <<volumes, hosts>>
        /\ lunOf'[v][h] = None
        /\ \A x \in Volumes, g \in Hosts : x # v \/ g # h => lunOf'[x][g] = lunOf[x][g]
    BY <1>0 DEF RemoveMapping
  <1>2. LocksHeld' /\ LocksExclusive' /\ PlaceInv'
    BY <1>0, LeaveKeepsLocks
  <1>3. MappedExists' /\ OneHost'
    <2>1. \A x \in Volumes, g \in Hosts : lunOf'[x][g] # None => lunOf[x][g] # None
      BY <1>1
    <2>2. QED
      BY <1>1, <2>1, MappingAssumption DEF MappedExists, OneHost
  <1>4. PublishedIsMapped'
    BY <1>0, <1>1 DEF PublishedIsMapped
  <1>5. PastLookup'
    <2> SUFFICES ASSUME NEW u \in Threads, u # t, pc[u] \in {"findHost", "choose", "map"},
                        req[u].op = "publish"
                 PROVE  /\ req[u].volume \in volumes
                        /\ lunOf'[req[u].volume][req[u].host] = None
                        /\ req[u].volume \in Exclusive =>
                             \A g \in Hosts : lunOf'[req[u].volume][g] = None
      BY <1>1 DEF PastLookup
    <2>1. req[u].volume \in Volumes /\ req[u].host \in Hosts
      BY RequestParts DEF PlaceInv
    <2>2. /\ req[u].volume \in volumes
          /\ lunOf[req[u].volume][req[u].host] = None
          /\ req[u].volume \in Exclusive => \A g \in Hosts : lunOf[req[u].volume][g] = None
      BY DEF PastLookup
    <2> HIDE DEF IInv, TypeOK, Core, Return, Leave, Goto
    <2>3. QED
      BY <1>1, <2>1, <2>2
  <1>6. ForgottenInv'
    BY <1>0 DEF ForgottenInv, LocksExclusive
  <1>7. \A g \in Hosts : UsedLuns(g)' \subseteq UsedLuns(g)
    <2> HIDE DEF IInv, TypeOK, Core, Return, Leave, Goto, v, h
    <2>1. \A x \in Volumes, g \in Hosts : lunOf'[x][g] \in {lunOf[x][g], None}
      BY <1>0, <1>1
    <2>2. QED
      BY <2>1 DEF UsedLuns
  <1>8. LostToRival'
    <2> SUFFICES ASSUME NEW u \in Threads, u # t, pc[u] = "map",
                        lun[u] \in UsedLuns(req[u].host)'
                 PROVE  attempts[u] < rivals[u]
      BY DEF LostToRival
    <2>1. req[u].host \in Hosts
      BY RequestParts DEF PlaceInv
    <2>2. QED
      BY <1>7, <2>1 DEF LostToRival
  <1>9. LostOnlyToRivals'
    BY DEF LostOnlyToRivals
  <1>10. ReleasedIsUnmapped'
    <2>1. ReleasedIsUnmapped /\ unreadable' = unreadable
          /\ released' \subseteq released \union {<<v, h>>}
      OBVIOUS
    <2> HIDE DEF IInv, TypeOK, Core, Return, Leave, Goto, v, h
    <2> SUFFICES ASSUME NEW x \in Volumes, NEW g \in Hosts, <<x, g>> \in released',
                        unreadable = 0
                 PROVE  lunOf'[x][g] = None
      BY <2>1 DEF ReleasedIsUnmapped
    <2>2. CASE x = v /\ g = h
      BY <1>1, <2>2
    <2>3. CASE x # v \/ g # h
      BY <1>0, <1>1, <2>1, <2>3 DEF ReleasedIsUnmapped
    <2>4. QED
      BY <2>2, <2>3
  <1>11. QED
    BY <1>2, <1>3, <1>4, <1>5, <1>6, <1>8, <1>9, <1>10

-----------------------------------------------------------------------------
(* The actions.                                                            *)

LEMMA CoreInit == Init => Core
  <1> SUFFICES ASSUME Init PROVE Core
    OBVIOUS
  <1> USE DEF Init
  <1>1. LocksHeld /\ LocksExclusive /\ PlaceInv /\ PastLookup /\ ForgottenInv
    BY DEF LocksHeld, LocksExclusive, PlaceInv, PastLookup, ForgottenInv
  <1>2. MappedExists /\ OneHost /\ PublishedIsMapped /\ ReleasedIsUnmapped
    BY MappingAssumption DEF MappedExists, OneHost, PublishedIsMapped, ReleasedIsUnmapped
  <1>3. LostToRival /\ LostOnlyToRivals
    BY DEF LostToRival, LostOnlyToRivals
  <1>4. QED
    BY <1>1, <1>2, <1>3 DEF Core

LEMMA CallKeeps == ASSUME IInv, NEW t \in Threads, Call(t) PROVE Core'
  <1> USE DEF IInv, TypeOK, Core, Goto, array, budget
  <1>1. PICK r \in Request :
          /\ r.volume \notin ids_in_use
          /\ ids_in_use' = ids_in_use \union {r.volume}
          /\ req' = [req EXCEPT ![t] = r]
          /\ reported' = IF r.op = "publish" THEN reported
                           ELSE [reported EXCEPT ![r.volume][r.host] = None]
          /\ released' = IF r.op = "publish" THEN released \ {<<r.volume, r.host>>} ELSE released
    BY DEF Call
  <1>2. r.volume \in Volumes /\ r.host \in Hosts /\ r.op \in {"publish", "unpublish"}
    BY DEF Request
  <1>3. /\ \A v \in Volumes, h \in Hosts : reported'[v][h] \in {reported[v][h], None}
        /\ released' \subseteq released
    BY <1>1, <1>2
  <1>4. LocksHeld' /\ LocksExclusive'
    BY <1>1 DEF LocksHeld, LocksExclusive
  <1>5. PlaceInv'
    <2>1. r # None
      BY MappingAssumption
    <2>2. QED
      BY <1>1, <2>1 DEF Call, PlaceInv
  <1>6. MappedExists' /\ OneHost' /\ ReleasedIsUnmapped'
    BY <1>3 DEF Call, MappedExists, OneHost, ReleasedIsUnmapped
  <1>7. PublishedIsMapped'
    BY <1>3 DEF Call, PublishedIsMapped
  <1>8. PastLookup' /\ LostToRival' /\ LostOnlyToRivals'
    BY <1>1 DEF Call, PastLookup, LostToRival, LostOnlyToRivals, UsedLuns
  <1>9. ForgottenInv'
    BY <1>1, <1>2, <1>3, RequestParts DEF ForgottenInv
  <1>10. QED
    BY <1>4, <1>5, <1>6, <1>7, <1>8, <1>9

(* ReadNode, Lookup and FindHost, which only find out.                     *)
LEMMA QueryKeeps ==
  ASSUME IInv, NEW t \in Threads,
         ReadNode(t) \/ NodeUnreadable(t) \/ Lookup(t) \/ FindHost(t)
  PROVE  Core'
  <1> USE DEF array, report, budget
  <1>1. req[t] # None /\ req[t].volume \in Volumes /\ req[t].host \in Hosts
        /\ req[t].op \in {"publish", "unpublish"} /\ pc[t] # "idle"
    BY RequestParts DEF IInv, Core, PlaceInv, ReadNode, NodeUnreadable, Lookup, FindHost
  <1>2. LostOnlyToRivals
    BY DEF IInv, Core
  <1>3. CASE ReadNode(t)
    BY <1>1, <1>2, <1>3, ContinueKeeps DEF ReadNode, Continue, LostOnlyToRivals
  <1>4. CASE NodeUnreadable(t)
    <2>1. unreadable \in Nat /\ unreadable' = unreadable + 1
      BY <1>4, MappingAssumption DEF NodeUnreadable, IInv, TypeOK
    <2>2. QED
      BY <1>1, <1>4, <2>1, ReturnKeeps DEF NodeUnreadable, Unpublished
  <1>5. CASE Lookup(t)
    <2>1. CASE Reject(t)
      BY <1>1, <2>1, ReturnKeeps DEF Reject
    <2>2. CASE /\ req[t].volume \in volumes /\ req[t].host \in MappedTo(req[t].volume)
               /\ AlreadyMapped(t, req[t].host)
      BY <1>5, <2>2, AlreadyMappedKeeps DEF Lookup, MappedTo
    <2>3. CASE /\ req[t].volume \in volumes /\ req[t].host \notin MappedTo(req[t].volume)
               /\ req[t].volume \in Exclusive =>
                    MappedTo(req[t].volume) \in {{}, {req[t].host}}
               /\ Continue(t, "findHost")
               /\ UNCHANGED <<array, report, budget>>
      <3>1. /\ lunOf[req[t].volume][req[t].host] = None
            /\ req[t].volume \in Exclusive => \A h \in Hosts : lunOf[req[t].volume][h] = None
        BY <1>1, <2>3 DEF MappedTo
      <3>2. QED
        BY <1>1, <1>2, <2>3, <3>1, ContinueKeeps DEF Continue, LostOnlyToRivals
    <2>4. QED
      BY <1>5, <2>1, <2>2, <2>3 DEF Lookup
  <1>6. CASE FindHost(t)
    <2>1. CASE /\ Continue(t, IF req[t].op = "publish" THEN "choose" ELSE "unmap")
               /\ UNCHANGED <<array, report, budget>>
      <3>1. req[t].op = "publish" =>
              /\ req[t].volume \in volumes
              /\ lunOf[req[t].volume][req[t].host] = None
              /\ req[t].volume \in Exclusive => \A h \in Hosts : lunOf[req[t].volume][h] = None
        BY <1>6 DEF FindHost, IInv, Core, PastLookup
      <3>2. QED
        BY <1>1, <1>2, <2>1, <3>1, ContinueKeeps DEF Continue, LostOnlyToRivals
    <2>2. CASE Reject(t)
      BY <1>1, <2>2, ReturnKeeps DEF Reject
    <2>3. CASE req[t].host \notin hosts /\ Unpublished(t) /\ UNCHANGED <<array, budget>>
      <3>1. lunOf[req[t].volume][req[t].host] = None
        BY <1>1, <2>3 DEF IInv, Core, MappedExists
      <3>2. QED
        BY <1>1, <2>3, <3>1, ReturnKeeps DEF Unpublished
    <2>4. QED
      BY <1>6, <2>1, <2>2, <2>3 DEF FindHost
  <1>7. QED
    BY <1>3, <1>4, <1>5, <1>6

LEMMA ChooseKeeps == ASSUME IInv, NEW t \in Threads, Choose(t) PROVE Core'
  <1> USE DEF array, report, budget
  <1>1. /\ req[t] # None /\ req[t].volume \in Volumes /\ req[t].host \in Hosts
        /\ req[t].op = "publish" /\ pc[t] = "choose"
    BY RequestParts DEF IInv, Core, PlaceInv, Choose
  <1>2. CASE Reject(t)
    BY <1>1, <1>2, ReturnKeeps DEF Reject
  <1>3. ASSUME NEW l \in FreeLuns(req[t].host), lun' = [lun EXCEPT ![t] = l], Goto(t, "map"),
               UNCHANGED <<array, ids_in_use, req, attempts, rivals, report, budget>>
        PROVE  Core'
    <2> USE DEF IInv, TypeOK, Core, Goto
    <2>1. l # None /\ l \notin UsedLuns(req[t].host)
      BY <1>1, FreeLunsAreFree, MappingAssumption DEF Lun
    <2>2. LocksHeld' /\ LocksExclusive' /\ ForgottenInv'
      BY <1>3 DEF LocksHeld, LocksExclusive, ForgottenInv
    <2>3. PlaceInv'
      BY <1>1, <1>3, <2>1 DEF PlaceInv
    <2>4. MappedExists' /\ OneHost' /\ PublishedIsMapped' /\ ReleasedIsUnmapped'
      BY <1>3 DEF MappedExists, OneHost, PublishedIsMapped, ReleasedIsUnmapped
    <2>5. PastLookup'
      BY <1>1, <1>3 DEF PastLookup
    <2>6. LostToRival' /\ LostOnlyToRivals'
      BY <1>1, <1>3, <2>1 DEF LostToRival, LostOnlyToRivals, UsedLuns
    <2>7. QED
      BY <2>2, <2>3, <2>4, <2>5, <2>6
  <1>4. QED
    BY <1>2, <1>3 DEF Choose

LEMMA RetryKeeps == ASSUME IInv, NEW t \in Threads, Retry(t) PROVE Core'
  <1> USE DEF IInv, TypeOK, Core, Retry, Taken, array, report, budget
  <1>1. req[t].op = "publish" /\ attempts[t] < rivals[t]
    BY DEF PlaceInv, LostToRival
  <1>2. LostOnlyToRivals'
    BY <1>1, MappingAssumption DEF LostOnlyToRivals
  <1>3. \A u \in Threads : pc'[u] = "map" => UNCHANGED <<lun[u], attempts[u], rivals[u]>>
    BY DEF Goto
  <1>4. /\ req[t].volume \in volumes
        /\ lunOf[req[t].volume][req[t].host] = None
        /\ req[t].volume \in Exclusive => \A h \in Hosts : lunOf[req[t].volume][h] = None
    BY <1>1 DEF PastLookup
  <1>5. QED
    BY <1>1, <1>2, <1>3, <1>4, ContinueKeeps

LEMMA DeleteVolumeKeeps == ASSUME IInv, NEW v \in Volumes, DeleteVolume(v) PROVE Core'
  <1> USE DEF IInv, TypeOK, Core, DeleteVolume, local, report, budget
  <1>1. \A h \in Hosts : lunOf[v][h] = None
    BY DEF MappedTo
  <1>2. LocksHeld' /\ LocksExclusive' /\ PlaceInv' /\ ForgottenInv'
    BY DEF LocksHeld, LocksExclusive, PlaceInv, ForgottenInv
  <1>3. MappedExists' /\ OneHost' /\ ReleasedIsUnmapped'
    BY <1>1 DEF MappedExists, OneHost, ReleasedIsUnmapped
  <1>4. PublishedIsMapped'
    BY <1>1 DEF PublishedIsMapped
  <1>5. PastLookup'
    BY DEF PastLookup, LocksHeld, PlaceInv
  <1>6. LostToRival' /\ LostOnlyToRivals'
    BY DEF LostToRival, LostOnlyToRivals, UsedLuns
  <1>7. QED
    BY <1>2, <1>3, <1>4, <1>5, <1>6

LEMMA HostDefinerKeeps == ASSUME IInv, NEW h \in Hosts, HostDefiner(h) PROVE Core'
  <1> USE DEF IInv, TypeOK, Core, HostDefiner, local, report, budget
  <1>1. /\ \A g \in hosts : g # h => g \in hosts'
        /\ h \in hosts => \A v \in Volumes : lunOf[v][h] = None
    BY DEF UsedLuns
  <1>2. LocksHeld' /\ LocksExclusive' /\ PlaceInv' /\ ForgottenInv'
    BY DEF LocksHeld, LocksExclusive, PlaceInv, ForgottenInv
  <1>3. MappedExists' /\ OneHost' /\ ReleasedIsUnmapped'
    BY <1>1 DEF MappedExists, OneHost, ReleasedIsUnmapped
  <1>4. PublishedIsMapped'
    BY <1>1 DEF PublishedIsMapped
  <1>5. PastLookup'
    BY DEF PastLookup
  <1>6. LostToRival' /\ LostOnlyToRivals'
    BY DEF LostToRival, LostOnlyToRivals, UsedLuns
  <1>7. QED
    BY <1>2, <1>3, <1>4, <1>5, <1>6

LEMMA CoreNext == IInv /\ [Next]_vars => Core'
  <1> SUFFICES ASSUME IInv, [Next]_vars PROVE Core'
    OBVIOUS
  <1> USE DEF array, report, budget
  <1>1. ASSUME NEW t \in Threads, Map(t) PROVE Core'
    BY <1>1, MadeMapping DEF Map, Published
  <1>2. ASSUME NEW t \in Threads, Unmap(t) PROVE Core'
    BY <1>2, RemovedMapping DEF Unmap, Unpublished
  <1>3. ASSUME NEW t \in Threads, GiveUp(t) \/ Fail(t) PROVE Core'
    BY <1>3, ReturnKeeps DEF GiveUp, Fail, Reject
  <1>4. ASSUME NEW t \in Threads, LoseAnswer(t) PROVE Core'
    BY <1>4, MadeMapping, RemovedMapping DEF LoseAnswer
  <1>5. CASE UNCHANGED vars
    BY <1>5 DEF vars, IInv, Core, LocksHeld, LocksExclusive, PlaceInv, MappedExists, PastLookup,
                OneHost, ForgottenInv, LostToRival, UsedLuns, PublishedIsMapped,
                LostOnlyToRivals, ReleasedIsUnmapped
  <1>6. QED
    BY <1>1, <1>2, <1>3, <1>4, <1>5, CallKeeps, QueryKeeps, ChooseKeeps, RetryKeeps,
       DeleteVolumeKeeps, HostDefinerKeeps DEF Next, Step

-----------------------------------------------------------------------------
(* The theorems.                                                           *)

LEMMA Invariant == Spec => []IInv
  <1>1. Init => IInv
    BY TypeInit, CoreInit DEF IInv
  <1>2. IInv /\ [Next]_vars => IInv'
    BY TypeNext, CoreNext DEF IInv
  <1>3. QED
    BY <1>1, <1>2, PTL DEF Spec

(* Every variable keeps its type; in particular map_volume never maps a    *)
(* volume by a LUN beyond what the array accepts, and never tries more     *)
(* than MaxTries times.                                                    *)
THEOREM TypeCorrect == Spec => []TypeOK
  <1>1. IInv => TypeOK
    BY DEF IInv
  <1>2. QED
    BY <1>1, Invariant, PTL

(* What ControllerPublishVolume has answered remains true until the        *)
(* orchestrator asks to unpublish the volume, whatever fails.              *)
THEOREM PublishedStaysMapped == Spec => []PublishedIsMapped
  <1>1. IInv => PublishedIsMapped
    BY DEF IInv, Core
  <1>2. QED
    BY <1>1, Invariant, PTL

(* The check and the mapping of map_volume_by_initiators are two steps,    *)
(* yet no volume with exclusive access is ever mapped to two hosts.        *)
THEOREM ExclusiveAccessIsKept == Spec => []ExclusiveAccess
  <1>1. IInv => ExclusiveAccess
    <2> SUFFICES ASSUME IInv, NEW v \in Exclusive
                 PROVE  Cardinality(MappedTo(v)) <= 1
      BY DEF ExclusiveAccess
    <2>1. CASE MappedTo(v) = {}
      BY <2>1, FS_EmptySet
    <2>2. ASSUME NEW h \in MappedTo(v) PROVE Cardinality(MappedTo(v)) <= 1
      <3>1. MappedTo(v) = {h}
        <4>1. \A g \in MappedTo(v) : g = h
          BY <2>2, MappingAssumption DEF MappedTo, IInv, Core, OneHost
        <4>2. QED
          BY <4>1
      <3>2. Cardinality(MappedTo(v)) = 1
        BY <3>1, FS_Singleton
      <3>3. QED
        BY <3>2
    <2>3. QED
      BY <2>1, <2>2
  <1>2. QED
    BY <1>1, Invariant, PTL

(* A publish that gives up for want of a LUN nobody else holds has seen as *)
(* many others succeed on its host as it has tried.                        *)
THEOREM LunsAreLostToRivals == Spec => []LostOnlyToRivals
  <1>1. IInv => LostOnlyToRivals
    BY DEF IInv, Core
  <1>2. QED
    BY <1>1, Invariant, PTL

(* ControllerUnpublishVolume answers OK only when the volume is unmapped,  *)
(* as long as every node could be read.                                    *)
THEOREM UnpublishedIsUnmapped == Spec => []ReleasedIsUnmapped
  <1>1. IInv => ReleasedIsUnmapped
    BY DEF IInv, Core
  <1>2. QED
    BY <1>1, Invariant, PTL

(* _get_free_lun offers a LUN beyond the limit only for a host whose LUNs  *)
(* are all in use.                                                         *)
THEOREM NoAvailableLunWhenFull == Spec => NoAvailableLunMeansFull
  <1>1. IInv /\ [Next]_vars =>
          [\A t \in Threads :
             pc[t] = "choose" /\ pc'[t] = "map" /\ lun'[t] > HostLimit =>
               UsedLuns(req[t].host) = 0 .. HostLimit]_vars
    <2> SUFFICES ASSUME IInv, Next, NEW t \in Threads,
                        pc[t] = "choose", pc'[t] = "map", lun'[t] > HostLimit
                 PROVE  UsedLuns(req[t].host) = 0 .. HostLimit
      OBVIOUS
    <2> USE DEF IInv, TypeOK, Goto, local
    <2>1. PICK u \in Threads : Call(u) \/ Step(u)
      BY DEF Next, DeleteVolume, HostDefiner
    <2>2. u = t
      <3>1. CASE u # t /\ Choose(u)
        BY <3>1 DEF Choose, Reject, Return, Leave
      <3>2. CASE u # t /\ (Call(u) \/ ReadNode(u) \/ NodeUnreadable(u) \/ Lookup(u) \/ FindHost(u))
        BY <3>2 DEF Call, ReadNode, NodeUnreadable, Lookup, FindHost, Continue, Reject, Return,
                    Leave, AlreadyMapped, Published, Unpublished
      <3>3. CASE u # t /\ (Map(u) \/ Retry(u) \/ GiveUp(u) \/ Unmap(u) \/ Fail(u) \/ LoseAnswer(u))
        BY <3>3 DEF Map, Retry, GiveUp, Unmap, Fail, LoseAnswer, Reject, Return, Leave, Published,
                    Unpublished
      <3>4. QED
        BY <2>1, <3>1, <3>2, <3>3 DEF Step
    <2>3. Choose(t)
      BY <2>1, <2>2 DEF Step, Call, ReadNode, NodeUnreadable, Lookup, FindHost, Map, Retry, Taken,
                        GiveUp, Unmap, Fail, LoseAnswer, Return, Leave
    <2>4. req[t].host \in Hosts /\ lun'[t] \in FreeLuns(req[t].host)
      BY <2>3, RequestParts DEF Choose, Core, PlaceInv, Reject, Return, Leave
    <2>5. QED
      BY <2>4, FreeLunsAreFree
  <1>2. QED
    BY <1>1, Invariant, PTL DEF Spec, NoAvailableLunMeansFull

=============================================================================
