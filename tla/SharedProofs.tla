----------------------------- MODULE SharedProofs -----------------------------
(***************************************************************************)
(* Theorems about the two objects that the threads of a process share,     *)
(* whatever they work on: the request lock of the node (NodeSyncLock), for *)
(* every set of goroutines, volumes and LUNs, every token count and both   *)
(* settings of SCSI cleaning, and the controller's pool of connections     *)
(* (ConnectionPool), for every number of worker threads and connections    *)
(* and every positive max_size, with and without login failures and        *)
(* timeouts.                                                               *)
(***************************************************************************)
EXTENDS NodeSyncLock, ConnectionPool, FiniteSetTheorems, SequenceTheorems, TLAPS

-----------------------------------------------------------------------------
(* The request lock of the node.                                           *)

(* The phases that give a LUN back are entered only by a thread that took  *)
(* one.                                                                    *)
LunPhases == \A t \in Threads : pc[t] \in {"undoLun", "removeLun"} => LocksLun(t)

(* The inductive invariant.  Exclusion needs OwnedKeysPresent (a key not   *)
(* in the map has no owner), and that needs exclusion in turn (a thread    *)
(* deletes only its own keys).                                             *)
KeysInv ==
  /\ TypeOK
  /\ LunPhases
  /\ MutualExclusion
  /\ LunExclusion
  /\ OwnedKeysPresent

IInv == KeysInv /\ TokenAccounting

-----------------------------------------------------------------------------
(* The lock's state has its type and the exclusion invariants hold at      *)
(* start.                                                                  *)
LEMMA KeysInit == Init => KeysInv
  BY LockAssumption
  DEF Init, KeysInv, TypeOK, Phase, Request, NoRequest, LunPhases,
      MutualExclusion, LunExclusion, OwnedKeysPresent, OwnsVolume, OwnsLun

(* Every step keeps the keys with their owners.                            *)
LEMMA KeysStep == KeysInv /\ [Next]_vars => KeysInv'
  <1> SUFFICES ASSUME KeysInv, [Next]_vars PROVE KeysInv'
    OBVIOUS
  <1> USE LockAssumption
      DEF KeysInv, TypeOK, Phase, Request, NoRequest, LunPhases, LocksLun,
          MutualExclusion, LunExclusion, OwnedKeysPresent, OwnsVolume, OwnsLun,
          Goto, Return
  <1>1. ASSUME NEW t \in Threads, Call(t) PROVE KeysInv'
    BY <1>1 DEF Call
  <1>2. ASSUME NEW t \in Threads, AddLunLock(t) PROVE KeysInv'
    BY <1>2 DEF AddLunLock
  <1>3. ASSUME NEW t \in Threads, AddVolumeLock(t) PROVE KeysInv'
    BY <1>3 DEF AddVolumeLock
  <1>4. ASSUME NEW t \in Threads, PutToken(t) PROVE KeysInv'
    BY <1>4 DEF PutToken
  <1>5. ASSUME NEW t \in Threads, TokenTimeout(t) PROVE KeysInv'
    BY <1>5 DEF TokenTimeout
  <1>6. ASSUME NEW t \in Threads, UndoLunLock(t) PROVE KeysInv'
    BY <1>6 DEF UndoLunLock
  <1>7. ASSUME NEW t \in Threads, Finish(t) PROVE KeysInv'
    BY <1>7 DEF Finish
  <1>8. ASSUME NEW t \in Threads, RemoveLunLock(t) PROVE KeysInv'
    BY <1>8 DEF RemoveLunLock
  <1>9. ASSUME NEW t \in Threads, TakeToken(t) PROVE KeysInv'
    BY <1>9 DEF TakeToken
  <1>10. ASSUME NEW t \in Threads, RemoveVolumeLock(t) PROVE KeysInv'
    BY <1>10 DEF RemoveVolumeLock
  <1>11. CASE UNCHANGED vars
    BY <1>11 DEF vars
  <1>12. QED
    BY <1>1, <1>2, <1>3, <1>4, <1>5, <1>6, <1>7, <1>8, <1>9, <1>10, <1>11
    DEF Next, Step

-----------------------------------------------------------------------------
(* The owners of tokens are finitely many, and their number moves by one   *)
(* with each send and each receive.                                        *)
LEMMA OwnersFinite == IsFiniteSet(TokenOwners) /\ Cardinality(TokenOwners) \in Nat
  <1>1. TokenOwners \subseteq Threads
    BY DEF TokenOwners
  <1>2. QED
    BY <1>1, LockAssumption, FS_Subset, FS_CardinalityType

LEMMA TokenStep ==
  TypeOK /\ TokenAccounting /\ [Next]_vars => TokenAccounting'
  <1> SUFFICES ASSUME TypeOK, TokenAccounting, [Next]_vars PROVE TokenAccounting'
    OBVIOUS
  <1> USE DEF TypeOK, TokenAccounting
  <1>1. ASSUME NEW t \in Threads, PutToken(t) PROVE TokenAccounting'
    <2>1. t \notin TokenOwners /\ TokenOwners' = TokenOwners \union {t}
      BY <1>1 DEF PutToken, Goto, TokenOwners, OwnsToken
    <2>2. Cardinality(TokenOwners') = Cardinality(TokenOwners) + 1
      BY <2>1, OwnersFinite, FS_AddElement
    <2>3. QED
      BY <1>1, <2>2 DEF PutToken
  <1>2. ASSUME NEW t \in Threads, TakeToken(t) PROVE TokenAccounting'
    <2>1. t \in TokenOwners /\ TokenOwners' = TokenOwners \ {t}
      BY <1>2 DEF TakeToken, Goto, TokenOwners, OwnsToken
    <2>2. Cardinality(TokenOwners') = Cardinality(TokenOwners) - 1
      BY <2>1, OwnersFinite, FS_RemoveElement
    <2>3. QED
      BY <1>2, <2>2 DEF TakeToken
  <1>3. ASSUME NEW t \in Threads,
               \/ Call(t)         \/ AddLunLock(t)  \/ AddVolumeLock(t)
               \/ TokenTimeout(t) \/ UndoLunLock(t) \/ Finish(t)
               \/ RemoveLunLock(t) \/ RemoveVolumeLock(t)
        PROVE TokenAccounting'
    <2>1. TokenOwners' = TokenOwners /\ tokens' = tokens
      BY <1>3
      DEF Call, AddLunLock, AddVolumeLock, TokenTimeout, UndoLunLock, Finish,
          RemoveLunLock, RemoveVolumeLock, Goto, Return, TokenOwners, OwnsToken
    <2>2. QED
      BY <2>1
  <1>4. CASE UNCHANGED vars
    BY <1>4 DEF vars, TokenOwners, OwnsToken
  <1>5. QED
    BY <1>1, <1>2, <1>3, <1>4 DEF Next, Step

LEMMA TokenInit == Init => TokenAccounting
  <1> SUFFICES ASSUME Init PROVE TokenAccounting
    OBVIOUS
  <1>1. TokenOwners = {}
    BY DEF Init, TokenOwners, OwnsToken
  <1>2. QED
    BY <1>1, FS_EmptySet DEF Init, TokenAccounting

-----------------------------------------------------------------------------
(* IInv holds in every reachable state; the theorems below are its parts.  *)
THEOREM Invariance == Spec => []IInv
  <1>1. Init => IInv
    BY KeysInit, TokenInit DEF IInv
  <1>2. IInv /\ [Next]_vars => IInv'
    BY KeysStep, TokenStep DEF IInv, KeysInv
  <1>3. QED
    BY <1>1, <1>2, PTL DEF Spec

(* Type correctness of the lock's state.                                   *)
THEOREM TypeCorrect == Spec => []TypeOK
  <1>1. IInv => TypeOK
    BY DEF IInv, KeysInv
  <1>2. QED
    BY <1>1, Invariance, PTL

(* No two requests work on one volume at a time, from the store of the id  *)
(* in the map to its deletion.                                             *)
THEOREM VolumesExclusive == Spec => []MutualExclusion
  <1>1. IInv => MutualExclusion
    BY DEF IInv, KeysInv
  <1>2. QED
    BY <1>1, Invariance, PTL

(* No two stage requests work on one LUN at a time when cleaning is on.    *)
THEOREM LunsExclusive == Spec => []LunExclusion
  <1>1. IInv => LunExclusion
    BY DEF IInv, KeysInv
  <1>2. QED
    BY <1>1, Invariance, PTL

(* The channel holds exactly one token per running handler ...             *)
THEOREM TokensCounted == Spec => []TokenAccounting
  <1>1. IInv => TokenAccounting
    BY DEF IInv
  <1>2. QED
    BY <1>1, Invariance, PTL

(* ... so the receive with which RemoveVolumeLock begins never blocks.     *)
ReceiveReady == \A t \in Threads : pc[t] = "takeToken" => tokens > 0

THEOREM ReleaseNeverBlocks == Spec => []ReceiveReady
  <1>1. IInv => ReceiveReady
    <2> SUFFICES ASSUME IInv, NEW t \in Threads, pc[t] = "takeToken"
                 PROVE tokens > 0
      BY DEF ReceiveReady
    <2>1. t \in TokenOwners
      BY DEF TokenOwners, OwnsToken
    <2>2. Cardinality(TokenOwners) # 0
      BY <2>1, OwnersFinite, FS_EmptySet
    <2>3. QED
      BY <2>2, OwnersFinite DEF IInv, TokenAccounting
  <1>2. QED
    BY <1>1, Invariance, PTL

-----------------------------------------------------------------------------
(* A key's owner: the thread that will delete it.                          *)
Owner(t, k) == \/ OwnsVolume(t) /\ req[t].volume = k
               \/ OwnsLun(t) /\ req[t].lun = k

(* A step of t leaves what every other thread owns with its owner.         *)
LEMMA OthersKeep ==
  ASSUME TypeOK, NEW t \in Threads, NEW u \in Threads \ {t}, NEW k,
         Owner(u, k), Call(t) \/ Step(t)
  PROVE  Owner(u, k)'
  BY DEF TypeOK, Owner, OwnsVolume, OwnsLun, LocksLun, Step, Call, AddLunLock,
         AddVolumeLock, PutToken, TokenTimeout, UndoLunLock, Finish,
         RemoveLunLock, TakeToken, RemoveVolumeLock, Goto, Return

(* A step of t adds only keys t then owns, and a key t owned is either     *)
(* still owned by t or no longer in the map.                               *)
LEMMA OwnKeysFollow ==
  ASSUME KeysInv, NEW t \in Threads, NEW k \in syncMap',
         Call(t) \/ Step(t), k \notin syncMap \/ Owner(t, k)
  PROVE  Owner(t, k)'
  <1> USE LockAssumption
      DEF KeysInv, TypeOK, Request, NoRequest, Owner, OwnsVolume, OwnsLun,
          LocksLun, LunPhases, Goto, Return
  <1>1. CASE Call(t)        BY <1>1 DEF Call
  <1>2. CASE AddLunLock(t)  BY <1>2 DEF AddLunLock
  <1>3. CASE AddVolumeLock(t)  BY <1>3 DEF AddVolumeLock
  <1>4. CASE PutToken(t) \/ TokenTimeout(t)
    BY <1>4 DEF PutToken, TokenTimeout
  <1>5. CASE UndoLunLock(t) \/ Finish(t)
    BY <1>5 DEF UndoLunLock, Finish
  <1>6. CASE RemoveLunLock(t) \/ TakeToken(t) \/ RemoveVolumeLock(t)
    BY <1>6 DEF RemoveLunLock, TakeToken, RemoveVolumeLock
  <1>7. QED
    BY <1>1, <1>2, <1>3, <1>4, <1>5, <1>6 DEF Step

(* No error path leaves a key behind: a key in the map is always owned by  *)
(* a thread that is going to delete it.                                    *)
THEOREM NoKeyOrphaned == Spec => []NoOrphanKey
  <1>1. Init => NoOrphanKey
    BY DEF Init, NoOrphanKey
  <1>2. KeysInv /\ NoOrphanKey /\ [Next]_vars => NoOrphanKey'
    <2> SUFFICES ASSUME KeysInv, NoOrphanKey, [Next]_vars, NEW k \in syncMap'
                 PROVE \E u \in Threads : Owner(u, k)'
      BY DEF NoOrphanKey, Owner, OwnsVolume, OwnsLun, LocksLun
    <2>1. ASSUME NEW t \in Threads, Call(t) \/ Step(t)
          PROVE \E u \in Threads : Owner(u, k)'
      <3>1. CASE k \notin syncMap \/ Owner(t, k)
        BY <2>1, <3>1, OwnKeysFollow
      <3>2. CASE k \in syncMap /\ ~ Owner(t, k)
        <4>1. PICK u \in Threads : Owner(u, k)
          BY <3>2 DEF NoOrphanKey, Owner
        <4>2. u \in Threads \ {t}
          BY <3>2, <4>1
        <4>3. Owner(u, k)'
          BY <2>1, <4>1, <4>2, OthersKeep DEF KeysInv
        <4>4. QED
          BY <4>3
      <3>3. QED
        BY <3>1, <3>2
    <2>2. CASE UNCHANGED vars
      BY <2>2 DEF vars, NoOrphanKey, Owner, OwnsVolume, OwnsLun, LocksLun
    <2>3. QED
      BY <2>1, <2>2 DEF Next
  <1>3. IInv => KeysInv
    BY DEF IInv
  <1>4. QED
    BY <1>1, <1>2, <1>3, Invariance, PTL DEF Spec

-----------------------------------------------------------------------------
(* The threads NodeLockPromise calls granted are those in a handler.       *)
LEMMA GrantedAreLocked ==
  ASSUME TypeOK
  PROVE  Promise!Granted = {t \in Threads : pc[t] = "locked"}
  BY LockAssumption DEF TypeOK, Promise!Granted, Request, NoRequest

(* The lock implements its promise: entering a handler is a grant that     *)
(* conflicts with no other and exceeds no bound, leaving it a release, and *)
(* every other step of the lock is invisible.                              *)
THEOREM LockImplementsPromise == Spec => ImplementsPromise
  <1> DEFINE g == [t \in Threads |-> IF pc[t] = "locked" THEN req[t] ELSE None]
  <1>1. Init => Promise!Init
    BY DEF Init, Promise!Init
  <1>2. IInv /\ [Next]_vars => [Promise!Next]_g
    <2> SUFFICES ASSUME IInv, [Next]_vars PROVE [Promise!Next]_g
      OBVIOUS
    <2> USE DEF IInv, KeysInv
    <2>1. ASSUME NEW t \in Threads, PutToken(t), NEW r \in Request, r = req[t]
          PROVE  Promise!Grant(t, r)
      <3>1. g[t] = None /\ g' = [g EXCEPT ![t] = r]
        BY <2>1 DEF PutToken, Goto, TypeOK
      <3>2. ASSUME NEW u \in Promise!Granted
            PROVE ~ Promise!Conflict(r, g[u])
        <4>1. u \in Threads /\ pc[u] = "locked"
          BY <3>2, GrantedAreLocked
        <4>2. g[u] = req[u] /\ u # t /\ pc[t] = "awaitToken"
          BY <4>1, <2>1 DEF PutToken
        <4>3. req[t] \in Request /\ req[u] \in Request
          BY <4>1, <4>2 DEF TypeOK
        <4>4. req[t].volume # req[u].volume
          BY <4>1, <4>2 DEF MutualExclusion, OwnsVolume
        <4>5. CleanScsiDevice /\ req[t].lun \in Luns => req[t].lun # req[u].lun
          BY <4>1, <4>2, <4>3, LockAssumption
          DEF LunExclusion, OwnsLun, LocksLun, NoRequest, Request
        <4>6. QED
          BY <2>1, <4>2, <4>4, <4>5 DEF Promise!Conflict
      <3>3. Cardinality(Promise!Granted) < MaxInvocations
        <4>1. Promise!Granted \subseteq TokenOwners
          BY GrantedAreLocked DEF TokenOwners, OwnsToken
        <4>2. Cardinality(Promise!Granted) <= Cardinality(TokenOwners)
          BY <4>1, OwnersFinite, FS_Subset
        <4>3. Cardinality(Promise!Granted) \in Nat
          BY <4>1, OwnersFinite, FS_Subset, FS_CardinalityType
        <4>4. QED
          BY <2>1, <4>2, <4>3, OwnersFinite, LockAssumption
          DEF PutToken, TokenAccounting
      <3>4. QED
        BY <3>1, <3>2, <3>3 DEF Promise!Grant, Cardinality, Promise!Cardinality
    <2>2. ASSUME NEW t \in Threads, Finish(t) PROVE Promise!Release(t)
      <3>1. g[t] = req[t] /\ req[t] \in Request
        BY <2>2 DEF Finish, TypeOK
      <3>2. g[t] # None
        BY <3>1, LockAssumption DEF Request
      <3>3. g' = [g EXCEPT ![t] = None]
        BY <2>2 DEF Finish, Goto, TypeOK, LocksLun
      <3>4. QED
        BY <3>2, <3>3 DEF Promise!Release
    <2>3. ASSUME NEW t \in Threads,
                 \/ Call(t)         \/ AddLunLock(t)  \/ AddVolumeLock(t)
                 \/ TokenTimeout(t) \/ UndoLunLock(t) \/ RemoveLunLock(t)
                 \/ TakeToken(t)    \/ RemoveVolumeLock(t)
          PROVE g' = g
      BY <2>3
      DEF Call, AddLunLock, AddVolumeLock, TokenTimeout, UndoLunLock,
          RemoveLunLock, TakeToken, RemoveVolumeLock, Goto, Return, TypeOK
    <2>4. CASE UNCHANGED vars
      BY <2>4 DEF vars
    <2>5. ASSUME NEW t \in Threads PROVE pc[t] = "awaitToken" => req[t] \in Request
      BY <2>5 DEF TypeOK
    <2>6. QED
      <3>1. ASSUME NEW t \in Threads, PutToken(t) PROVE Promise!Next
        <4>1. PICK r \in Request : r = req[t]
          BY <2>5, <3>1 DEF PutToken
        <4>2. Promise!Grant(t, r)
          BY <2>1, <3>1, <4>1
        <4>3. QED
          BY <4>2 DEF Promise!Next, Promise!Request, Request
      <3>2. ASSUME NEW t \in Threads, Finish(t) PROVE Promise!Next
        BY <2>2, <3>2 DEF Promise!Next
      <3>3. QED
        BY <2>3, <2>4, <3>1, <3>2 DEF Next, Step
  <1>3. QED
    BY <1>1, <1>2, Invariance, PTL DEF Spec, ImplementsPromise, Promise!Spec

-----------------------------------------------------------------------------
(* The connection pool.                                                    *)

Distinct(s) == \A i, j \in 1 .. Len(s) : i # j => s[i] # s[j]

(* What taking the head of a queue and adding to its end do to what is in  *)
(* it.                                                                     *)
LEMMA TakeHead ==
  ASSUME NEW S, NEW s \in Seq(S), s # <<>>
  PROVE  /\ Head(s) \in S /\ Tail(s) \in Seq(S)
         /\ Len(Tail(s)) = Len(s) - 1 /\ Len(s) \in Nat \ {0}
         /\ Range(s) = Range(Tail(s)) \union {Head(s)}
         /\ Distinct(s) => Distinct(Tail(s)) /\ Head(s) \notin Range(Tail(s))
  <1>1. /\ Head(s) \in S /\ Tail(s) \in Seq(S)
        /\ Len(Tail(s)) = Len(s) - 1 /\ Len(s) \in Nat \ {0}
        /\ \A i \in 1 .. Len(Tail(s)) : Tail(s)[i] = s[i + 1]
    BY HeadTailProperties, EmptySeq, LenProperties
  <1>2. Head(s) = s[1]
    OBVIOUS
  <1>3. DOMAIN s = 1 .. Len(s) /\ DOMAIN Tail(s) = 1 .. Len(s) - 1
    BY <1>1, LenProperties
  <1>4. Range(s) = Range(Tail(s)) \union {Head(s)}
    <2>1. ASSUME NEW x \in Range(s) PROVE x \in Range(Tail(s)) \union {Head(s)}
      <3>1. PICK i \in 1 .. Len(s) : x = s[i]
        BY <2>1, <1>3 DEF Range
      <3>2. CASE i = 1
        BY <3>1, <3>2, <1>2
      <3>3. CASE i # 1
        <4>1. i - 1 \in 1 .. Len(s) - 1 /\ Tail(s)[i - 1] = s[(i - 1) + 1]
          BY <3>3, <1>1
        <4>2. Tail(s)[i - 1] \in Range(Tail(s))
          BY <4>1, <1>3 DEF Range
        <4>3. QED
          BY <4>1, <4>2, <3>1
      <3>4. QED
        BY <3>2, <3>3
    <2>2. ASSUME NEW x \in Range(Tail(s)) \union {Head(s)} PROVE x \in Range(s)
      BY <1>1, <1>2, <1>3 DEF Range
    <2>3. QED
      BY <2>1, <2>2
  <1>5. Distinct(s) => Distinct(Tail(s)) /\ Head(s) \notin Range(Tail(s))
    BY <1>1, <1>2, <1>3 DEF Distinct, Range
  <1>6. QED
    BY <1>1, <1>4, <1>5

LEMMA AddLast ==
  ASSUME NEW S, NEW s \in Seq(S), NEW e \in S
  PROVE  /\ Append(s, e) \in Seq(S)
         /\ Len(Append(s, e)) = Len(s) + 1 /\ Len(s) \in Nat
         /\ Range(Append(s, e)) = Range(s) \union {e}
         /\ Distinct(s) /\ e \notin Range(s) => Distinct(Append(s, e))
  <1>1. /\ Append(s, e) \in Seq(S)
        /\ Len(Append(s, e)) = Len(s) + 1 /\ Len(s) \in Nat
        /\ \A i \in 1 .. Len(s) : Append(s, e)[i] = s[i]
        /\ Append(s, e)[Len(s) + 1] = e
    BY AppendProperties, LenProperties
  <1>2. DOMAIN s = 1 .. Len(s) /\ DOMAIN Append(s, e) = 1 .. Len(s) + 1
    BY <1>1, LenProperties
  <1>3. Range(Append(s, e)) = Range(s) \union {e}
    BY <1>1, <1>2 DEF Range
  <1>4. Distinct(s) /\ e \notin Range(s) => Distinct(Append(s, e))
    BY <1>1, <1>2 DEF Distinct, Range
  <1>5. QED
    BY <1>1, <1>3, <1>4

-----------------------------------------------------------------------------
(* A connection found dead stays dead while it is on its way out: create() *)
(* makes a new one.                                                        *)
DeadStaysDead ==
  \A t \in Workers : at[t] \in {"drop", "disconnectDead"} => item[t] \notin active

(* Where the connections are.                                              *)
PlacesInv ==
  /\ PoolTypeOK
  /\ OnePlace
  /\ NoLostSession
  /\ DeadStaysDead

PoolIInv ==
  /\ PlacesInv
  /\ CountExact
  /\ PutNeverDiscards

LEMMA PlacesInit == PoolInit => PlacesInv
  <1> SUFFICES ASSUME PoolInit PROVE PlacesInv
    OBVIOUS
  <1>1. PICK c \in Conns : channel = <<c>> /\ active = {c}
    BY DEF PoolInit
  <1>2. Range(channel) = {c}
    BY <1>1 DEF Range
  <1>3. QED
    BY <1>1, <1>2
    DEF PoolInit, PlacesInv, PoolTypeOK, Place, HasItem, OnePlace, NoLostSession,
        DeadStaysDead

(* The count is at least one while a thread is counted.                    *)
LEMMA CountedFinite == IsFiniteSet(Counted) /\ Cardinality(Counted) \in Nat
  <1>1. Counted \subseteq Workers
    BY DEF Counted
  <1>2. QED
    BY <1>1, PoolAssumption, FS_Subset, FS_CardinalityType

LEMMA CountPositive ==
  ASSUME PoolTypeOK, CountExact, NEW t \in Counted
  PROVE  current_size \in Nat \ {0}
  <1>1. Cardinality(Counted) # 0
    BY CountedFinite, FS_EmptySet
  <1>2. Len(channel) \in Nat
    BY LenProperties DEF PoolTypeOK
  <1>3. QED
    BY <1>1, <1>2, CountedFinite DEF CountExact, PoolTypeOK

LEMMA PlacesStep == PlacesInv /\ CountExact /\ [PoolNext]_poolVars => PlacesInv'
  <1> SUFFICES ASSUME PlacesInv, CountExact, [PoolNext]_poolVars PROVE PlacesInv'
    OBVIOUS
  <1> USE PoolAssumption
      DEF PlacesInv, PoolTypeOK, Place, HasItem, OnePlace, NoLostSession,
          DeadStaysDead, InHand, MoveTo, Hold
  <1>1. ASSUME NEW t \in Workers,
               Get(t) \/ Reserve(t) \/ WaitTimeout(t) \/ Close(t) \/ Inspect(t)
        PROVE PlacesInv'
    BY <1>1 DEF Get, Reserve, WaitTimeout, Close, Inspect
  <1>2. ASSUME NEW t \in Workers, Poll(t) \/ WaitDone(t) PROVE PlacesInv'
    <2>1. CASE channel # <<>>
      <3>1. /\ Head(channel) \in Conns /\ Tail(channel) \in Seq(Conns)
            /\ Range(channel) = Range(Tail(channel)) \union {Head(channel)}
            /\ Distinct(Tail(channel)) /\ Head(channel) \notin Range(Tail(channel))
        BY <2>1, TakeHead DEF Distinct
      <3>2. channel' = Tail(channel) /\ item' = [item EXCEPT ![t] = Head(channel)]
            /\ active' = active /\ current_size' = current_size /\ life' = life
        BY <1>2, <2>1 DEF Poll, WaitDone
      <3>3. \/ at[t] = "poll" /\ at' = [at EXCEPT ![t] = "inspect"]
            \/ at[t] = "waiting" /\ at' = [at EXCEPT ![t] = "using"]
        BY <1>2, <2>1 DEF Poll, WaitDone
      <3>4. item[t] = NoConn
        BY <3>3
      <3>5. PoolTypeOK'
        BY <3>1, <3>2, <3>3
      <3>6. OnePlace' /\ DeadStaysDead'
        BY <3>1, <3>2, <3>3, <3>4 DEF Distinct
      <3>7. NoLostSession'
        <4>1. InHand' = InHand \union {Head(channel)}
          BY <3>1, <3>2, <3>4
        <4>2. QED
          BY <3>1, <3>2, <4>1
      <3>8. QED
        BY <3>5, <3>6, <3>7
    <2>2. CASE channel = <<>>
      BY <1>2, <2>2 DEF Poll, WaitDone
    <2>3. QED
      BY <2>1, <2>2
  <1>3. ASSUME NEW t \in Workers, DropDead(t) \/ CreateFailed(t) \/ Put(t)
        PROVE PlacesInv'
    <2>1. t \in Counted
      BY <1>3 DEF DropDead, CreateFailed, Put, Counted
    <2>2. current_size - 1 \in Nat
      BY <2>1, CountPositive
    <2>3. QED
      BY <1>3, <2>2 DEF DropDead, CreateFailed, Put
  <1>4. ASSUME NEW t \in Workers, Disconnect(t) \/ CloseOne(t) PROVE PlacesInv'
    <2>1. /\ channel' = channel /\ active' = active \ {item[t]}
          /\ item' = [item EXCEPT ![t] = NoConn]
          /\ \E p \in {"poll", "idle"} : at' = [at EXCEPT ![t] = p]
          /\ HasItem(t) /\ life' = life
      BY <1>4 DEF Disconnect, CloseOne
    <2>2. current_size' \in Nat
      <3>1. CASE Disconnect(t)
        BY <3>1 DEF Disconnect
      <3>2. CASE CloseOne(t)
        <4>1. t \in Counted
          BY <3>2 DEF CloseOne, Counted
        <4>2. QED
          BY <3>2, <4>1, CountPositive DEF CloseOne
      <3>3. QED
        BY <1>4, <3>1, <3>2
    <2>3. PoolTypeOK' /\ OnePlace' /\ DeadStaysDead'
      BY <2>1, <2>2
    <2>4. NoLostSession'
      <3>1. InHand' = InHand \ {item[t]}
        BY <2>1
      <3>2. QED
        BY <2>1, <3>1
    <2>5. QED
      BY <2>3, <2>4
  <1>5. ASSUME NEW t \in Workers, Create(t) PROVE PlacesInv'
    <2>1. PICK c \in Conns \ (Range(channel) \union InHand) :
            item' = [item EXCEPT ![t] = c] /\ active' = active \union {c}
      BY <1>5 DEF Create
    <2>2. /\ at' = [at EXCEPT ![t] = "using"] /\ at[t] = "creating"
          /\ UNCHANGED <<channel, current_size, life>>
      BY <1>5 DEF Create
    <2>3. item[t] = NoConn /\ \A u \in Workers : item[u] # c
      BY <2>1, <2>2
    <2>4. PoolTypeOK' /\ OnePlace' /\ DeadStaysDead'
      BY <2>1, <2>2, <2>3
    <2>5. NoLostSession'
      <3>1. InHand' = InHand \union {c}
        BY <2>1, <2>3
      <3>2. QED
        BY <2>1, <2>2, <3>1
    <2>6. QED
      BY <2>4, <2>5
  <1>6. ASSUME NEW t \in Workers, PutBack(t) PROVE PlacesInv'
    <2>1. item[t] \in Conns /\ item[t] \notin Range(channel)
      BY <1>6 DEF PutBack
    <2>2. /\ Append(channel, item[t]) \in Seq(Conns)
          /\ Range(Append(channel, item[t])) = Range(channel) \union {item[t]}
          /\ Distinct(Append(channel, item[t]))
      BY <2>1, AddLast DEF Distinct
    <2>3. CASE Len(channel) >= MaxSize
      BY <1>6, <2>3 DEF PutBack
    <2>4. CASE ~ (Len(channel) >= MaxSize)
      <3>1. /\ channel' = Append(channel, item[t])
            /\ item' = [item EXCEPT ![t] = NoConn]
            /\ at' = [at EXCEPT ![t] = "idle"]
            /\ UNCHANGED <<current_size, active, life>>
        BY <1>6, <2>4 DEF PutBack
      <3>2. PoolTypeOK' /\ OnePlace' /\ DeadStaysDead'
        BY <2>1, <2>2, <3>1 DEF Distinct
      <3>3. NoLostSession'
        <4>1. InHand' = InHand \ {item[t]}
          BY <1>6, <2>1, <3>1 DEF PutBack
        <4>2. QED
          BY <2>2, <3>1, <4>1
      <3>4. QED
        BY <3>2, <3>3
    <2>5. QED
      BY <2>3, <2>4
  <1>7. ASSUME NEW c \in Conns, Die(c) PROVE PlacesInv'
    BY <1>7 DEF Die
  <1>8. CASE Retire
    BY <1>8 DEF Retire
  <1>9. CASE UNCHANGED poolVars
    BY <1>9 DEF poolVars
  <1>10. QED
    BY <1>1, <1>2, <1>3, <1>4, <1>5, <1>6, <1>7, <1>8, <1>9 DEF PoolNext, WorkerStep

-----------------------------------------------------------------------------
(* Entering and leaving the counted phases moves the number of counted     *)
(* threads by one.                                                         *)
LEMMA EnterCounted ==
  ASSUME NEW t \in Workers, t \notin Counted, Counted' = Counted \union {t}
  PROVE  Cardinality(Counted') = Cardinality(Counted) + 1
  BY CountedFinite, FS_AddElement

LEMMA LeaveCounted ==
  ASSUME NEW t \in Workers, t \in Counted, Counted' = Counted \ {t}
  PROVE  Cardinality(Counted') = Cardinality(Counted) - 1
  BY CountedFinite, FS_RemoveElement

LEMMA CountInit == PoolInit => CountExact /\ PutNeverDiscards
  <1> SUFFICES ASSUME PoolInit PROVE CountExact /\ PutNeverDiscards
    OBVIOUS
  <1>1. Counted = {} /\ Cardinality(Counted) = 0
    BY FS_EmptySet DEF PoolInit, Counted
  <1>2. Len(channel) = 1
    BY DEF PoolInit
  <1>3. QED
    BY <1>1, <1>2, PoolAssumption DEF PoolInit, CountExact, PutNeverDiscards

(* Every step keeps the count exact: a connection moves between queue and  *)
(* hand, or the count moves with it.                                       *)
LEMMA CountStep == PoolIInv /\ [PoolNext]_poolVars => CountExact' /\ PutNeverDiscards'
  <1> SUFFICES ASSUME PoolIInv, [PoolNext]_poolVars PROVE CountExact' /\ PutNeverDiscards'
    OBVIOUS
  <1> USE DEF PoolIInv, PlacesInv, CountExact
  <1>1. Len(channel) \in Nat /\ current_size \in Nat /\ MaxSize \in Nat
    BY LenProperties, PoolAssumption DEF PoolTypeOK
  <1>2. ASSUME NEW t \in Workers, Poll(t) \/ WaitDone(t)
        PROVE CountExact' /\ PutNeverDiscards'
    <2>1. CASE channel # <<>>
      <3>1. Len(Tail(channel)) = Len(channel) - 1
        BY <2>1, TakeHead DEF PoolTypeOK
      <3>2. t \notin Counted /\ Counted' = Counted \union {t}
        BY <1>2, <2>1 DEF Poll, WaitDone, MoveTo, Counted, PoolTypeOK
      <3>3. channel' = Tail(channel) /\ current_size' = current_size
            /\ PutNeverDiscards'
        BY <1>2, <2>1 DEF Poll, WaitDone, MoveTo, PoolTypeOK, PutNeverDiscards
      <3>4. Cardinality(Counted') = Cardinality(Counted) + 1
        BY <3>2, EnterCounted
      <3>5. Len(channel') = Len(channel) - 1
        BY <3>1, <3>3
      <3>6. current_size' = current_size /\ PutNeverDiscards'
        BY <3>3
      <3>7. QED
        BY <1>1, <3>4, <3>5, <3>6, CountedFinite
    <2>2. CASE channel = <<>>
      <3>1. Counted' = Counted
        BY <1>2, <2>2 DEF Poll, WaitDone, MoveTo, Counted, PoolTypeOK
      <3>2. QED
        BY <1>2, <2>2, <3>1 DEF Poll, WaitDone, MoveTo, PoolTypeOK, PutNeverDiscards
    <2>3. QED
      BY <2>1, <2>2
  <1>3. ASSUME NEW t \in Workers, Reserve(t)
        PROVE CountExact' /\ PutNeverDiscards'
    <2>1. CASE current_size < MaxSize
      <3>1. t \notin Counted /\ Counted' = Counted \union {t}
        BY <1>1, <1>3, <2>1 DEF Reserve, MoveTo, Counted, PoolTypeOK
      <3>2. channel' = channel /\ current_size' = current_size + 1
            /\ PutNeverDiscards'
        BY <1>1, <1>3, <2>1 DEF Reserve, MoveTo, PoolTypeOK, PutNeverDiscards
      <3>3. Cardinality(Counted') = Cardinality(Counted) + 1
        BY <3>1, EnterCounted
      <3>4. QED
        BY <1>1, <2>1, <3>2, <3>3, CountedFinite
    <2>2. CASE ~ (current_size < MaxSize)
      <3>1. Counted' = Counted
        BY <1>1, <1>3, <2>2 DEF Reserve, MoveTo, Counted, PoolTypeOK
      <3>2. QED
        BY <1>1, <1>3, <2>2, <3>1 DEF Reserve, MoveTo, PoolTypeOK, PutNeverDiscards
    <2>3. QED
      BY <2>1, <2>2
  <1>4. ASSUME NEW t \in Workers, DropDead(t) \/ CreateFailed(t) \/ CloseOne(t)
        PROVE CountExact' /\ PutNeverDiscards'
    <2>1. t \in Counted /\ Counted' = Counted \ {t}
      BY <1>4 DEF DropDead, CreateFailed, CloseOne, MoveTo, Counted, PoolTypeOK
    <2>2. channel' = channel /\ current_size' = current_size - 1
          /\ PutNeverDiscards'
      BY <1>4
      DEF DropDead, CreateFailed, CloseOne, MoveTo, PoolTypeOK, PutNeverDiscards
    <2>3. Cardinality(Counted') = Cardinality(Counted) - 1
      BY <2>1, LeaveCounted
    <2>4. QED
      BY <1>1, <2>2, <2>3, CountedFinite
  <1>5. ASSUME NEW t \in Workers, PutBack(t)
        PROVE CountExact' /\ PutNeverDiscards'
    <2>1. t \in Counted
      BY <1>5 DEF PutBack, Counted
    <2>2. Cardinality(Counted) # 0
      BY <2>1, CountedFinite, FS_EmptySet
    <2>3. ~ (Len(channel) >= MaxSize)
      BY <1>1, <2>2, CountedFinite
    <2>4. Counted' = Counted \ {t} /\ PutNeverDiscards'
      BY <1>5, <2>3 DEF PutBack, MoveTo, Counted, PoolTypeOK, PutNeverDiscards
    <2>5. item[t] \in Conns
      BY <1>5 DEF PutBack, PoolTypeOK, HasItem
    <2>6. Len(channel') = Len(channel) + 1 /\ current_size' = current_size
      BY <1>5, <2>3, <2>5, AddLast DEF PutBack, PoolTypeOK
    <2>7. Cardinality(Counted') = Cardinality(Counted) - 1
      BY <2>1, <2>4, LeaveCounted
    <2>8. QED
      BY <1>1, <2>4, <2>6, <2>7, CountedFinite
  <1>6. ASSUME NEW t \in Workers,
               \/ Get(t) \/ Inspect(t) \/ Create(t) \/ Put(t)
               \/ Disconnect(t) \/ WaitTimeout(t) \/ Close(t)
        PROVE CountExact' /\ PutNeverDiscards'
    <2>1. Counted' = Counted /\ channel' = channel /\ current_size' = current_size
      BY <1>1, <1>6
      DEF Get, Inspect, Create, Put, Disconnect, WaitTimeout, Close, MoveTo,
          Counted, PoolTypeOK
    <2>2. PutNeverDiscards'
      BY <1>1, <1>6
      DEF Get, Inspect, Create, Put, Disconnect, WaitTimeout, Close, MoveTo,
          PoolTypeOK, PutNeverDiscards
    <2>3. QED
      BY <2>1, <2>2
  <1>7. ASSUME UNCHANGED <<at, channel, current_size>>
        PROVE CountExact' /\ PutNeverDiscards'
    BY <1>7 DEF Counted, PutNeverDiscards
  <1>8. QED
    BY <1>2, <1>3, <1>4, <1>5, <1>6, <1>7 DEF PoolNext, WorkerStep, Retire, Die, poolVars

-----------------------------------------------------------------------------
(* PoolIInv holds in every reachable state.                                *)
THEOREM PoolInvariance == PoolSpec => []PoolIInv
  <1>1. PoolInit => PoolIInv
    BY PlacesInit, CountInit DEF PoolIInv
  <1>2. PoolIInv /\ [PoolNext]_poolVars => PoolIInv'
    BY PlacesStep, CountStep DEF PoolIInv
  <1>3. QED
    BY <1>1, <1>2, PTL DEF PoolSpec

(* Every variable keeps to its type: a thread has a connection in hand     *)
(* exactly where the code does.                                            *)
THEOREM PoolTypeCorrect == PoolSpec => []PoolTypeOK
  <1>1. PoolIInv => PoolTypeOK
    BY DEF PoolIInv, PlacesInv
  <1>2. QED
    BY <1>1, PoolInvariance, PTL

(* The pool's count is the number of connections it keeps, has handed out  *)
(* or is opening, and never exceeds max_size.                              *)
THEOREM CountIsExact == PoolSpec => []CountExact
  <1>1. PoolIInv => CountExact
    BY DEF PoolIInv
  <1>2. QED
    BY <1>1, PoolInvariance, PTL

(* put() never throws a connection away.                                   *)
THEOREM PutKeepsConnections == PoolSpec => []PutNeverDiscards
  <1>1. PoolIInv => PutNeverDiscards
    BY DEF PoolIInv
  <1>2. QED
    BY <1>1, PoolInvariance, PTL

(* No two threads ever share a connection, and none is handed out while it *)
(* is in the queue.                                                        *)
THEOREM ConnectionsExclusive == PoolSpec => []OnePlace
  <1>1. PoolIInv => OnePlace
    BY DEF PoolIInv, PlacesInv
  <1>2. QED
    BY <1>1, PoolInvariance, PTL

(* The sessions the array honours never exceed max_size, although a dead   *)
(* connection leaves the count before it is closed.                        *)
THEOREM SessionLimit == PoolSpec => []SessionsBounded
  <1>1. ASSUME PoolIInv PROVE SessionsBounded
    <2> USE <1>1 DEF PoolIInv, PlacesInv
    <2> DEFINE Held == {item[t] : t \in Counted}
               n == Len(channel)
    <2>1. n \in Nat /\ channel \in [1 .. n -> Conns] /\ DOMAIN channel = 1 .. n
      BY LenProperties DEF PoolTypeOK
    <2>2. IsFiniteSet(Range(channel)) /\ Cardinality(Range(channel)) <= n
          /\ Cardinality(Range(channel)) \in Nat
      <3>1. channel \in Surjection(1 .. n, Range(channel))
        BY <2>1 DEF Surjection, Range
      <3>2. IsFiniteSet(1 .. n) /\ Cardinality(1 .. n) = n
        BY <2>1, FS_Interval
      <3>3. QED
        BY <3>1, <3>2, FS_Surjection, FS_CardinalityType
    <2>3. IsFiniteSet(Held) /\ Cardinality(Held) <= Cardinality(Counted)
          /\ Cardinality(Held) \in Nat
      <3>1. [t \in Counted |-> item[t]] \in Surjection(Counted, Held)
        BY DEF Surjection
      <3>2. QED
        BY <3>1, CountedFinite, FS_Surjection, FS_CardinalityType
    <2>4. active \subseteq Range(channel) \union Held
      BY DEF NoLostSession, InHand, PutNeverDiscards, DeadStaysDead, PoolTypeOK,
             HasItem, Counted, Place
    <2>5. /\ IsFiniteSet(Range(channel) \union Held)
          /\ Cardinality(Range(channel) \union Held)
               <= Cardinality(Range(channel)) + Cardinality(Held)
          /\ Cardinality(Range(channel) \union Held) \in Nat
      <3>1. Cardinality(Range(channel) \intersect Held) \in Nat
        BY <2>2, FS_Intersection, FS_CardinalityType
      <3>2. /\ IsFiniteSet(Range(channel) \union Held)
            /\ Cardinality(Range(channel) \union Held)
                 = Cardinality(Range(channel)) + Cardinality(Held)
                     - Cardinality(Range(channel) \intersect Held)
        BY <2>2, <2>3, FS_Union
      <3>3. Cardinality(Range(channel) \union Held) \in Nat
        BY <3>2, FS_CardinalityType
      <3>4. QED
        BY <2>2, <2>3, <3>1, <3>2, <3>3
    <2>6. Cardinality(active) <= Cardinality(Range(channel) \union Held)
          /\ Cardinality(active) \in Nat
      BY <2>4, <2>5, FS_Subset, FS_CardinalityType
    <2>7. QED
      BY <2>1, <2>2, <2>3, <2>5, <2>6, CountedFinite, PoolAssumption
      DEF SessionsBounded, CountExact, PoolTypeOK
  <1>2. QED
    BY <1>1, PoolInvariance, PTL
===============================================================================
