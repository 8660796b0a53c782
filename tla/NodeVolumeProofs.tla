-------------------------- MODULE NodeVolumeProofs --------------------------
(***************************************************************************)
(* Theorems about NodeVolume for every number of handlers, volumes, LUNs,  *)
(* pods and file systems, and any number of failures, restarts and forced  *)
(* detaches, from the promise of the request lock.                         *)
(***************************************************************************)
EXTENDS NodeVolume, TLAPS

-----------------------------------------------------------------------------
(* The inductive invariant.                                                *)

(* A handler at work has been granted its volume, which no other has.      *)
LocksHeld ==
  \A t \in Threads :
    /\ pc[t] = "idle" <=> req[t] = None
    /\ req[t] = None => granted[t] = None
    /\ req[t] # None => granted[t] = [volume |-> req[t].volume, lun |-> req[t].lun]

LocksExclusive ==
  \A t, u \in Threads :
    t # u /\ req[t] # None /\ req[u] # None => req[t].volume # req[u].volume

(* Which handler is where.                                                 *)
PlaceInv ==
  \A t \in Threads :
    /\ pc[t] \in {"rescan", "probe", "format", "mount"} => req[t].op = "stage"
    /\ pc[t] \in {"unmountStaging", "slaves", "flush", "remove"} => req[t].op = "unstage"
    /\ pc[t] \in {"find", "refind"} => req[t].op \in {"stage", "unstage"}
    /\ pc[t] \in {"check", "bind"} => req[t].op = "publish"
    /\ pc[t] \in {"exists", "unmount", "removeTarget"} => req[t].op = "unpublish"
    /\ req[t] # None => (req[t].op = "stage" => req[t].lun \in Luns)

(* What the orchestrator knows while a request is out: nothing is          *)
(* published that is not staged, and a volume is not unstaged under a pod. *)
OrchestratorInv ==
  /\ \A v \in Volumes, p \in Pods : published[v][p] # "no" => staged[v] = "yes"
  /\ \A t \in Threads :
       req[t] # None =>
         /\ req[t].op \in {"stage", "unstage"} => staged[req[t].volume] = "maybe"
         /\ req[t].op \in {"publish", "unpublish"} =>
              published[req[t].volume][req[t].pod] = "maybe"
  /\ torn => forced # {}

(* What a handler has found out about its target path still holds.         *)
TargetInv ==
  \A t \in Threads :
    /\ pc[t] \in {"bind", "removeTarget"} => target[req[t].volume][req[t].pod] = 0
    /\ pc[t] = "unmount" =>
         \/ target[req[t].volume][req[t].pod] = 0 /\ note[t] \in {0, 1}
         \/ target[req[t].volume][req[t].pod] = 1 /\ note[t] = 0

(* What has data or is mounted has a file system; what mkfs and mount are  *)
(* told to use is one.                                                     *)
DiskInv ==
  /\ \A v \in Volumes : data[v] => disk[v] # Blank
  /\ \A v, w \in Volumes : staging[v] = w => disk[w] # Blank
  /\ \A t \in Threads : pc[t] \in {"format", "mount"} => note[t] \in FsTypes

LunsDistinct ==
  \A v, w \in Volumes : lunOf[v] # None /\ lunOf[v] = lunOf[w] => v = w

(* The volume's map reaches the volume.                                    *)
IsBehind(v) == lunOf[v] # None /\ dm[v] = lunOf[v] /\ sd[lunOf[v]] # None

(* Unless the volume is detached under it, a handler that has found the    *)
(* volume's map works on that volume to its end: the device it formats is  *)
(* blank, and what it removes is the device of the volume's LUN.           *)
Found(t) ==
  /\ req[t] # None => (req[t].op = "stage" => lunOf[req[t].volume] # None)
  /\ pc[t] \in {"probe", "format", "mount", "slaves"} => IsBehind(req[t].volume)
  /\ pc[t] = "format" => disk[req[t].volume] = Blank
  /\ pc[t] \in {"flush", "remove"} => note[t] \in Luns /\ note[t] = lunOf[req[t].volume]

FoundInv == torn \/ \A t \in Threads : Found(t)

UnstagingInv ==
  \A t \in Threads :
    pc[t] \in {"find", "refind", "slaves", "flush", "remove"} /\ req[t].op = "unstage" =>
      staging[req[t].volume] = None

StagedInv ==
  torn \/ \A v \in Volumes \ forced :
            staged[v] = "yes" => staging[v] = v /\ IsBehind(v)

(* As long as no volume was detached by force, no device and no map is of  *)
(* another volume than its LUN, a LUN is scanned for the volume that has   *)
(* it, and a map that a second look misses has no device either.           *)
DeviceInv ==
  forced = {} =>
    /\ \A v \in Volumes, l \in Luns : sd[l] = v => lunOf[v] = l
    /\ \A v \in Volumes, l \in Luns : dm[v] = l => sd[l] = v
    /\ \A t \in Threads :
         req[t] # None => (req[t].op = "stage" => lunOf[req[t].volume] = req[t].lun)
    /\ \A t \in Threads :
         pc[t] = "refind" => \A l \in Luns : sd[l] = req[t].volume => dm[req[t].volume] # None

Core ==
  /\ LocksHeld /\ LocksExclusive /\ PlaceInv /\ OrchestratorInv
  /\ TargetInv /\ DiskInv /\ LunsDistinct /\ FoundInv /\ UnstagingInv
  /\ StagedInv /\ DeviceInv
  /\ StagesItsOwn /\ PublishedIsMounted /\ UnstagedLeavesNothing

IInv == TypeOK /\ Core

-----------------------------------------------------------------------------
(* What the operators of the model return.                                 *)

LEMMA ReachedIs ==
  ASSUME TypeOK, LunsDistinct, NEW l \in Luns
  PROVE  /\ Reached(l) \in Volumes \union {None}
         /\ \A v \in Volumes : Reached(l) = v <=> lunOf[v] = l
  <1>1. CASE \E v \in Volumes : lunOf[v] = l
    <2>1. PICK v \in Volumes : lunOf[v] = l
      BY <1>1
    <2>2. \A w \in Volumes : lunOf[w] = l => w = v
      BY <2>1, NodeAssumption DEF LunsDistinct
    <2>3. (CHOOSE w \in Volumes : lunOf[w] = l) = v
      BY <2>1, <2>2
    <2>4. QED
      BY <1>1, <2>1, <2>2, <2>3 DEF Reached
  <1>2. CASE ~ \E v \in Volumes : lunOf[v] = l
    BY <1>2, NodeAssumption DEF Reached
  <1>3. QED
    BY <1>1, <1>2

LEMMA BehindIs ==
  ASSUME TypeOK, LunsDistinct, NEW v \in Volumes
  PROVE  /\ Behind(v) \in Volumes \union {None}
         /\ Behind(v) = v <=> IsBehind(v)
  <1>1. CASE dm[v] = None \/ sd[dm[v]] = None
    BY <1>1, NodeAssumption DEF Behind, IsBehind, TypeOK
  <1>2. CASE ~ (dm[v] = None \/ sd[dm[v]] = None)
    <2>1. dm[v] \in Luns /\ Behind(v) = Reached(dm[v])
      BY <1>2 DEF Behind, TypeOK
    <2>2. QED
      BY <1>2, <2>1, ReachedIs, NodeAssumption DEF IsBehind, TypeOK
  <1>3. QED
    BY <1>1, <1>2

LEMMA BuiltIs ==
  ASSUME TypeOK, NEW v \in Volumes
  PROVE  /\ Built(v) \in Luns \union {None}
         /\ dm[v] # None => Built(v) = dm[v]
         /\ dm[v] = None /\ Built(v) # None => sd[Built(v)] = v
         /\ dm[v] = None /\ Built(v) = None =>
              \A l \in Luns : sd[l] = v => \E w \in Volumes : dm[w] = l
  <1> DEFINE mine == {l \in Luns : sd[l] = v /\ \A w \in Volumes : dm[w] # l}
  <1>1. Built(v) = IF dm[v] = None /\ mine # {} THEN CHOOSE l \in mine : TRUE ELSE dm[v]
    BY DEF Built
  <1>2. mine # {} => (CHOOSE l \in mine : TRUE) \in mine
    OBVIOUS
  <1>3. CASE dm[v] = None /\ mine # {}
    <2>1. Built(v) \in mine
      BY <1>1, <1>2, <1>3
    <2>2. QED
      BY <1>3, <2>1, NodeAssumption
  <1>4. CASE ~ (dm[v] = None /\ mine # {})
    <2>1. Built(v) = dm[v]
      BY <1>1, <1>4
    <2>2. QED
      BY <1>4, <2>1 DEF TypeOK
  <1>5. QED
    BY <1>3, <1>4

(* The handler at work has a request; no other thread is touched by its    *)
(* steps, and it either goes on or is done and forgets everything.         *)
LEMMA RequestParts ==
  ASSUME TypeOK, LocksHeld, NEW t \in Threads, pc[t] # "idle"
  PROVE  /\ req[t] # None /\ req[t] \in Request
         /\ req[t].op \in Op /\ req[t].volume \in Volumes /\ req[t].pod \in Pods
         /\ req[t].lun \in Luns \union {NoLun}
  BY DEF TypeOK, LocksHeld, Request

GoesOn(t) ==
  /\ req'[t] = req[t] /\ granted'[t] = granted[t]
  /\ pc'[t] # "idle" /\ UNCHANGED known

IsDone(t) ==
  /\ req'[t] = None /\ granted'[t] = None /\ pc'[t] = "idle" /\ note'[t] = None

LEMMA ThreadStep ==
  ASSUME TypeOK, NEW t \in Threads, Step(t)
  PROVE  /\ pc[t] # "idle"
         /\ \A u \in Threads : u # t => /\ pc'[u] = pc[u] /\ req'[u] = req[u]
                                        /\ note'[u] = note[u] /\ granted'[u] = granted[u]
         /\ GoesOn(t) \/ IsDone(t)
  <1> USE DEF TypeOK, Goto, Continue, Finish, Refuse, Lock!Release, GoesOn, IsDone, known
  <1>1. ASSUME Refuse(t) \/ Answer(t)
        PROVE  /\ \A u \in Threads : u # t => /\ pc'[u] = pc[u] /\ req'[u] = req[u]
                                              /\ note'[u] = note[u] /\ granted'[u] = granted[u]
               /\ IsDone(t)
    BY <1>1 DEF Answer
  <1>2. CASE Rescan(t) \/ Find(t) \/ Reload(t) \/ Format(t) \/ UnmountStaging(t)
    BY <1>2 DEF Rescan, Find, Reload, Format, UnmountStaging
  <1>3. CASE NotFound(t) \/ Probe(t) \/ Mount(t) \/ Slaves(t) \/ Flush(t) \/ Remove(t)
    <2> HIDE DEF Refuse
    <2>1. QED
      BY <1>1, <1>3 DEF NotFound, Probe, Mount, Slaves, Flush, Remove
  <1>4. CASE Check(t) \/ Bind(t) \/ Exists(t) \/ Unmount(t) \/ RemoveTarget(t) \/ Fail(t)
    <2> HIDE DEF Refuse
    <2>1. QED
      BY <1>1, <1>4 DEF Check, Bind, Exists, Unmount, RemoveTarget, Fail
  <1>5. QED
    BY <1>2, <1>3, <1>4 DEF Step

(* A call takes the lock of its volume, so no other request is for it.     *)
LEMMA CallStep ==
  ASSUME TypeOK, LocksHeld, NEW t \in Threads, Call(t)
  PROVE  \E r \in Request :
           /\ May(r) /\ req[t] = None /\ pc[t] = "idle"
           /\ \A u \in Threads : req[u] # None => req[u].volume # r.volume
           /\ req' = [req EXCEPT ![t] = r]
           /\ pc' = [pc EXCEPT ![t] = First(r.op)]
           /\ granted' = [granted EXCEPT ![t] = [volume |-> r.volume, lun |-> r.lun]]
           /\ staged' = IF r.op \in {"stage", "unstage"}
                          THEN [staged EXCEPT ![r.volume] = "maybe"] ELSE staged
           /\ published' = IF r.op \in {"publish", "unpublish"}
                             THEN [published EXCEPT ![r.volume][r.pod] = "maybe"] ELSE published
           /\ UNCHANGED <<array, devices, mounts, note, budget>>
  <1>1. PICK r \in Request :
          May(r) /\ Lock!Grant(t, [volume |-> r.volume, lun |-> r.lun]) /\ Begin(t, r)
    BY DEF Call
  <1>2. r.volume \in Volumes /\ r.lun \in Luns \union {NoLun}
    BY DEF Request
  <1>3. [volume |-> r.volume, lun |-> r.lun] \in Lock!Request
    BY <1>2 DEF Lock!Request
  <1>4. granted[t] = None /\ req[t] = None /\ pc[t] = "idle"
    <2>1. granted[t] = None
      BY <1>1 DEF Lock!Grant
    <2>2. ASSUME req[t] # None PROVE granted[t] \in Lock!Request
      <3>1. req[t].volume \in Volumes /\ req[t].lun \in Luns \union {NoLun}
        BY <2>2, RequestParts DEF LocksHeld
      <3>2. granted[t] = [volume |-> req[t].volume, lun |-> req[t].lun]
        BY <2>2 DEF LocksHeld
      <3>3. QED
        BY <3>1, <3>2 DEF Lock!Request
    <2>3. QED
      BY <2>1, <2>2, NodeAssumption DEF LocksHeld
  <1>5. ASSUME NEW u \in Threads, req[u] # None PROVE req[u].volume # r.volume
    <2>1. granted[u] = [volume |-> req[u].volume, lun |-> req[u].lun]
      BY <1>5 DEF LocksHeld
    <2>2. granted[u] \in Lock!Request
      <3>1. req[u] \in Request
        BY <1>5 DEF TypeOK
      <3>2. QED
        BY <2>1, <3>1 DEF Lock!Request, Request
    <2>3. u \in Lock!Granted
      BY <2>2, NodeAssumption DEF Lock!Granted
    <2>4. granted[u].volume # r.volume
      BY <1>1, <2>3 DEF Lock!Grant, Lock!Conflict
    <2>5. QED
      BY <2>1, <2>4
  <1>6. granted' = [granted EXCEPT ![t] = [volume |-> r.volume, lun |-> r.lun]]
    BY <1>1 DEF Lock!Grant
  <1>7. QED
    BY <1>1, <1>4, <1>5, <1>6 DEF Begin, Goto

-----------------------------------------------------------------------------
(* Type correctness.                                                       *)

LEMMA TypeInit == Init => TypeOK
  <1> SUFFICES ASSUME Init PROVE TypeOK
    OBVIOUS
  <1>1. data \in [Volumes -> BOOLEAN] /\ torn \in BOOLEAN
    BY Zenon DEF Init
  <1>2. failures \in 0 .. MaxFailures
    BY NodeAssumption DEF Init
  <1>3. QED
    BY <1>1, <1>2, NodeAssumption DEF Init, TypeOK, Phase

(* A handler that stops.                                                   *)
LEMMA StopKeepsTypes ==
  ASSUME TypeOK, LocksHeld, NEW t \in Threads, pc[t] # "idle", Refuse(t) \/ Answer(t)
  PROVE  /\ granted' \in [Threads -> Lock!Request \union {None}]
         /\ staged' \in [Volumes -> {"no", "maybe", "yes"}]
         /\ published' \in [Volumes -> [Pods -> {"no", "maybe", "yes"}]]
         /\ pc' \in [Threads -> Phase]
         /\ req' \in [Threads -> Request \union {None}]
         /\ note' \in [Threads -> FsTypes \union Luns \union {None, 0, 1}]
  <1>1. req[t].volume \in Volumes /\ req[t].pod \in Pods
    BY RequestParts
  <1>2. Finish(t)
    BY DEF Refuse, Answer
  <1>3. /\ granted' \in [Threads -> Lock!Request \union {None}]
        /\ pc' \in [Threads -> Phase]
        /\ req' \in [Threads -> Request \union {None}]
        /\ note' \in [Threads -> FsTypes \union Luns \union {None, 0, 1}]
    BY <1>2 DEF Finish, Goto, Lock!Release, TypeOK, Phase
  <1>4. staged' \in [Volumes -> {"no", "maybe", "yes"}]
    BY <1>1 DEF Refuse, Answer, known, TypeOK
  <1>5. published' \in [Volumes -> [Pods -> {"no", "maybe", "yes"}]]
    <2>1. ASSUME NEW x \in {"no", "yes"}
          PROVE  [published EXCEPT ![req[t].volume][req[t].pod] = x]
                   \in [Volumes -> [Pods -> {"no", "maybe", "yes"}]]
      BY <1>1 DEF TypeOK
    <2>2. QED
      BY <2>1 DEF Refuse, Answer, known, TypeOK
  <1>6. QED
    BY <1>3, <1>4, <1>5

(* A handler that goes on.                                                 *)
LEMMA ContinueKeepsTypes ==
  ASSUME TypeOK, NEW t \in Threads, NEW p \in Phase, Goto(t, p),
         UNCHANGED <<granted, req, known>>
  PROVE  /\ granted' \in [Threads -> Lock!Request \union {None}]
         /\ staged' \in [Volumes -> {"no", "maybe", "yes"}]
         /\ published' \in [Volumes -> [Pods -> {"no", "maybe", "yes"}]]
         /\ pc' \in [Threads -> Phase]
         /\ req' \in [Threads -> Request \union {None}]
  BY DEF TypeOK, Goto, known

LEMMA FsToMountIsFs ==
  ASSUME TypeOK, NEW v \in Volumes, NEW w \in Volumes
  PROVE  FsToMount(FsOf[v], disk[w]) \in FsTypes
  BY NodeAssumption DEF FsToMount, TypeOK

LEMMA StageStepTypes ==
  ASSUME TypeOK, LocksHeld, PlaceInv, DiskInv, LunsDistinct, NEW t \in Threads,
         \/ Rescan(t) \/ Find(t) \/ Reload(t) \/ NotFound(t) \/ Probe(t) \/ Format(t) \/ Mount(t)
  PROVE  TypeOK'
  <1>1. pc[t] # "idle"
    BY DEF Rescan, Find, Reload, NotFound, Probe, Format, Mount
  <1>2. /\ req[t].volume \in Volumes
        /\ \A v \in Volumes : Behind(v) \in Volumes \union {None} /\ Built(v) \in Luns \union {None}
    BY <1>1, RequestParts, BehindIs, BuiltIs
  <1>3. {"find", "refind", "probe", "slaves", "format", "mount"} \subseteq Phase
    BY DEF Phase
  <1> USE DEF TypeOK, array, devices, mounts, budget
  <1>4. CASE Rescan(t)
    <2>1. req[t].lun \in Luns /\ Reached(req[t].lun) \in Volumes \union {None}
      BY <1>1, <1>4, RequestParts, ReachedIs DEF PlaceInv, Rescan
    <2>2. QED
      BY <1>3, <1>4, <2>1, ContinueKeepsTypes DEF Rescan, Continue
  <1>5. CASE Find(t) \/ Reload(t)
    BY <1>2, <1>3, <1>5, ContinueKeepsTypes DEF Find, Reload, Continue
  <1>6. CASE NotFound(t)
    BY <1>1, <1>6, StopKeepsTypes DEF NotFound
  <1>7. CASE Probe(t)
    <2>1. CASE Refuse(t) \/ Answer(t)
      BY <1>1, <1>7, <2>1, StopKeepsTypes DEF Probe
    <2>2. CASE ~ (Refuse(t) \/ Answer(t))
      <3>1. Behind(req[t].volume) \in Volumes
        BY <1>2, <1>7, <2>2 DEF Probe
      <3>2. FsToMount(FsOf[req[t].volume], disk[Behind(req[t].volume)]) \in FsTypes
        BY <1>2, <3>1, FsToMountIsFs
      <3>3. note' \in [Threads -> FsTypes \union Luns \union {None, 0, 1}]
        BY <1>7, <2>2, <3>2 DEF Probe
      <3>4. QED
        BY <1>3, <1>7, <2>2, <3>3, ContinueKeepsTypes DEF Probe
    <2>3. QED
      BY <2>1, <2>2
  <1>8. CASE Format(t)
    <2>1. note[t] \in FsTypes
      BY <1>8 DEF Format, DiskInv
    <2>2. QED
      BY <1>2, <1>3, <1>8, <2>1, ContinueKeepsTypes DEF Format, Continue, MakeFs
  <1>9. CASE Mount(t)
    <2>1. note[t] \in FsTypes
      BY <1>9 DEF Mount, DiskInv
    <2>2. data' \in [Volumes -> BOOLEAN]
      BY <1>9, Zenon DEF Mount, MakeFs
    <2>3. disk' \in [Volumes -> FsTypes \union {Blank}] /\ UNCHANGED lunOf
      BY <1>9, <2>1 DEF Mount, MakeFs
    <2>4. staging' \in [Volumes -> Volumes \union {None}]
      BY <1>2, <1>9 DEF Mount
    <2>5. QED
      BY <1>1, <1>9, <2>2, <2>3, <2>4, StopKeepsTypes DEF Mount
  <1>10. QED
    BY <1>4, <1>5, <1>6, <1>7, <1>8, <1>9

(* A target path set.                                                      *)
TargetSet(v, p, x) ==
  /\ target' \in [Volumes -> [Pods -> {None, 0, 1}]]
  /\ target'[v][p] = x
  /\ \A w \in Volumes, q \in Pods : <<w, q>> # <<v, p>> => target'[w][q] = target[w][q]

LEMMA TargetIsSet ==
  ASSUME TypeOK, NEW v \in Volumes, NEW p \in Pods, NEW x \in {None, 0, 1},
         target' = [target EXCEPT ![v][p] = x]
  PROVE  TargetSet(v, p, x)
  <1>1. target \in [Volumes -> [Pods -> {None, 0, 1}]]
    BY DEF TypeOK
  <1>2. target' = [target EXCEPT ![v] = [target[v] EXCEPT ![p] = x]]
    OBVIOUS
  <1>3. target[v] \in [Pods -> {None, 0, 1}]
    BY <1>1
  <1>4. [target[v] EXCEPT ![p] = x] \in [Pods -> {None, 0, 1}]
    BY <1>3
  <1>5. QED
    BY <1>1, <1>2, <1>3, <1>4 DEF TargetSet

LEMMA OtherStepTypes ==
  ASSUME TypeOK, LocksHeld, TargetInv, NEW t \in Threads,
         \/ UnmountStaging(t) \/ Slaves(t) \/ Flush(t) \/ Remove(t)
         \/ Check(t) \/ Bind(t) \/ Exists(t) \/ Unmount(t) \/ RemoveTarget(t) \/ Fail(t)
  PROVE  TypeOK'
  <1>1. pc[t] # "idle"
    BY DEF UnmountStaging, Slaves, Flush, Remove, Check, Bind, Exists, Unmount, RemoveTarget, Fail
  <1> DEFINE v == req[t].volume
             p == req[t].pod
  <1>2. v \in Volumes /\ p \in Pods
    BY <1>1, RequestParts
  <1>3. {"find", "flush", "remove", "bind", "unmount", "removeTarget"} \subseteq Phase
    BY DEF Phase
  <1> USE DEF TypeOK, array, devices, mounts, budget
  <1>4. CASE UnmountStaging(t)
    BY <1>2, <1>3, <1>4, ContinueKeepsTypes DEF UnmountStaging, Continue
  <1>5. CASE Slaves(t) \/ Flush(t)
    BY <1>1, <1>2, <1>3, <1>5, StopKeepsTypes, ContinueKeepsTypes DEF Slaves, Flush, Continue
  <1>6. CASE Remove(t)
    BY <1>1, <1>2, <1>6, StopKeepsTypes DEF Remove
  <1>7. CASE Check(t)
    <2>1. CASE (Refuse(t) \/ Answer(t)) /\ UNCHANGED target
      BY <1>1, <1>7, <2>1, StopKeepsTypes DEF Check
    <2>2. CASE target' = [target EXCEPT ![v][p] = 0] /\ Continue(t, "bind")
      <3>1. target' \in [Volumes -> [Pods -> {None, 0, 1}]]
        BY <1>2, <2>2, TargetIsSet DEF TargetSet
      <3>2. UNCHANGED <<array, devices, staging, budget>>
        BY <1>7 DEF Check
      <3> HIDE DEF v, p
      <3>3. QED
        BY <1>3, <2>2, <3>1, <3>2, ContinueKeepsTypes DEF Continue
    <2>3. QED
      BY <1>7, <2>1, <2>2 DEF Check
  <1>8. CASE Exists(t)
    <2>1. CASE Answer(t)
      BY <1>1, <1>8, <2>1, StopKeepsTypes DEF Exists
    <2>2. CASE ~ Answer(t)
      <3>1. note' = [note EXCEPT ![t] = 0] /\ Goto(t, "unmount") /\ UNCHANGED <<granted, req, known>>
            /\ UNCHANGED <<array, devices, mounts, budget>>
        BY <1>8, <2>2 DEF Exists
      <3>2. note' \in [Threads -> FsTypes \union Luns \union {None, 0, 1}]
        BY <3>1
      <3>3. QED
        BY <1>3, <3>1, <3>2, ContinueKeepsTypes
    <2>3. QED
      BY <2>1, <2>2
  <1>9. CASE Bind(t)
    <2>1. target[v][p] = 0
      BY <1>9 DEF Bind, TargetInv
    <2>2. target' = [target EXCEPT ![v][p] = 1]
      BY <1>9, <2>1 DEF Bind
    <2>3. target' \in [Volumes -> [Pods -> {None, 0, 1}]]
      BY <1>2, <2>2, TargetIsSet DEF TargetSet
    <2>4. Answer(t) /\ UNCHANGED <<array, devices, staging, budget>>
      BY <1>9 DEF Bind
    <2> HIDE DEF v, p
    <2>5. QED
      BY <1>1, <2>3, <2>4, StopKeepsTypes
  <1>10. CASE Unmount(t)
    <2>1. (target[v][p] = 1 /\ note[t] = 0) \/ target[v][p] = 0
      BY <1>10 DEF Unmount, TargetInv
    <2>2. UNCHANGED <<granted, req, known, array, devices, staging, budget>>
      BY <1>10 DEF Unmount, Continue
    <2>3. CASE target[v][p] = 1 /\ note[t] = 0
      <3>1. target' = [target EXCEPT ![v][p] = 0] /\ note' = [note EXCEPT ![t] = 1] /\ pc' = pc
        BY <1>10, <2>3 DEF Unmount
      <3>2. target' \in [Volumes -> [Pods -> {None, 0, 1}]]
        BY <1>2, <3>1, TargetIsSet DEF TargetSet
      <3>3. note' \in [Threads -> FsTypes \union Luns \union {None, 0, 1}]
        BY <3>1
      <3> HIDE DEF v, p
      <3>4. QED
        BY <2>2, <3>1, <3>2, <3>3 DEF known
    <2>4. CASE target[v][p] = 0
      <3>1. Continue(t, "removeTarget") /\ UNCHANGED target
        BY <1>10, <2>4 DEF Unmount
      <3>2. QED
        BY <1>3, <2>2, <3>1, ContinueKeepsTypes DEF Continue
    <2>5. QED
      BY <2>1, <2>3, <2>4
  <1>11. CASE RemoveTarget(t)
    <2>1. target[v][p] = 0
      BY <1>11 DEF RemoveTarget, TargetInv
    <2>2. /\ target' = [target EXCEPT ![v][p] = None] /\ Answer(t) /\ UNCHANGED data
          /\ UNCHANGED <<lunOf, disk, devices, staging, budget>>
      BY <1>11, <2>1 DEF RemoveTarget
    <2>3. target' \in [Volumes -> [Pods -> {None, 0, 1}]]
      BY <1>2, <2>2, TargetIsSet DEF TargetSet
    <2> HIDE DEF v, p
    <2>4. QED
      BY <1>1, <2>2, <2>3, StopKeepsTypes
  <1>12. CASE Fail(t)
    BY <1>1, <1>2, <1>12, StopKeepsTypes, NodeAssumption DEF Fail
  <1>13. QED
    BY <1>4, <1>5, <1>6, <1>7, <1>8, <1>9, <1>10, <1>11, <1>12

LEMMA CallTypes ==
  ASSUME TypeOK, LocksHeld, NEW t \in Threads, Call(t)
  PROVE  TypeOK'
  <1>1. PICK r \in Request :
          /\ req' = [req EXCEPT ![t] = r]
          /\ pc' = [pc EXCEPT ![t] = First(r.op)]
          /\ granted' = [granted EXCEPT ![t] = [volume |-> r.volume, lun |-> r.lun]]
          /\ staged' = IF r.op \in {"stage", "unstage"}
                         THEN [staged EXCEPT ![r.volume] = "maybe"] ELSE staged
          /\ published' = IF r.op \in {"publish", "unpublish"}
                            THEN [published EXCEPT ![r.volume][r.pod] = "maybe"] ELSE published
          /\ UNCHANGED <<array, devices, mounts, note, budget>>
    BY CallStep
  <1>2. r.op \in Op /\ r.volume \in Volumes /\ r.pod \in Pods /\ r.lun \in Luns \union {NoLun}
    BY DEF Request
  <1>3. First(r.op) \in Phase
    BY <1>2 DEF First, Phase, Op
  <1>4. [volume |-> r.volume, lun |-> r.lun] \in Lock!Request
    BY <1>2 DEF Lock!Request
  <1>5. granted' \in [Threads -> Lock!Request \union {None}]
    BY <1>1, <1>4 DEF TypeOK
  <1>6. staged' \in [Volumes -> {"no", "maybe", "yes"}]
    BY <1>1, <1>2 DEF TypeOK
  <1>7. published' \in [Volumes -> [Pods -> {"no", "maybe", "yes"}]]
    <2>1. [published EXCEPT ![r.volume][r.pod] = "maybe"]
            \in [Volumes -> [Pods -> {"no", "maybe", "yes"}]]
      BY <1>2 DEF TypeOK
    <2>2. QED
      BY <1>1, <2>1 DEF TypeOK
  <1>8. pc' \in [Threads -> Phase] /\ req' \in [Threads -> Request \union {None}]
    BY <1>1, <1>3 DEF TypeOK
  <1>9. UNCHANGED <<array, devices, mounts, note, budget>>
    BY <1>1
  <1>10. QED
    BY <1>5, <1>6, <1>7, <1>8, <1>9 DEF TypeOK, array, devices, mounts, budget

LEMMA WorldTypes ==
  ASSUME TypeOK, LunsDistinct,
         \/ \E v \in Volumes : Write(v) \/ Attach(v) \/ Detach(v)
         \/ Multipathd \/ Crash
  PROVE  TypeOK'
  <1> USE DEF TypeOK, array, devices, mounts, known, budget
  <1>1. ASSUME NEW v \in Volumes, Write(v) PROVE TypeOK'
    <2>1. data' \in [Volumes -> BOOLEAN]
      BY <1>1, Zenon DEF Write
    <2>2. QED
      BY <1>1, <2>1 DEF Write
  <1>2. ASSUME NEW v \in Volumes, Attach(v) PROVE TypeOK'
    BY <1>2 DEF Attach
  <1>3. ASSUME NEW v \in Volumes, Detach(v) PROVE TypeOK'
    <2>1. torn' \in BOOLEAN
      BY <1>3, Zenon DEF Detach
    <2>2. forced' \subseteq Volumes /\ lunOf' \in [Volumes -> Luns \union {None}]
      BY <1>3 DEF Detach
    <2>3. QED
      BY <1>3, <2>1, <2>2 DEF Detach
  <1>4. CASE Multipathd
    <2>1. dm' \in [Volumes -> Luns \union {None}]
      <3>1. CASE dm' = [v \in Volumes |-> Built(v)]
        BY <3>1, BuiltIs
      <3>2. CASE dm' # [v \in Volumes |-> Built(v)]
        BY <1>4, <3>2 DEF Multipathd
      <3>3. QED
        BY <3>1, <3>2
    <2>2. sd' \in [Luns -> Volumes \union {None}]
      <3>1. CASE UNCHANGED sd
        BY <3>1
      <3>2. CASE \E l \in Luns : sd' = [sd EXCEPT ![l] = Reached(l)]
        <4>1. PICK l \in Luns : sd' = [sd EXCEPT ![l] = Reached(l)]
          BY <3>2
        <4>2. Reached(l) \in Volumes \union {None}
          BY ReachedIs
        <4>3. QED
          BY <4>1, <4>2
      <3>3. QED
        BY Zenon, <1>4, <3>1, <3>2 DEF Multipathd
    <2>3. QED
      BY <1>4, <2>1, <2>2 DEF Multipathd
  <1>5. CASE Crash
    <2>1. failures' \in 0 .. MaxFailures
      BY <1>5, NodeAssumption DEF Crash
    <2>2. QED
      BY <1>5, <2>1 DEF Crash, Phase
  <1>6. QED
    BY <1>1, <1>2, <1>3, <1>4, <1>5

LEMMA TypeNext ==
  ASSUME IInv, [Next]_vars
  PROVE  TypeOK'
  <1> USE DEF IInv, Core
  <1>1. ASSUME NEW t \in Threads, Call(t) PROVE TypeOK'
    BY <1>1, CallTypes
  <1>2. ASSUME NEW t \in Threads, Step(t) PROVE TypeOK'
    BY <1>2, StageStepTypes, OtherStepTypes DEF Step
  <1>3. CASE \/ \E v \in Volumes : Write(v) \/ Attach(v) \/ Detach(v)
             \/ Multipathd \/ Crash
    BY <1>3, WorldTypes
  <1>4. CASE UNCHANGED vars
    BY <1>4 DEF vars, TypeOK
  <1>5. QED
    BY <1>1, <1>2, <1>3, <1>4 DEF Next

-----------------------------------------------------------------------------
(* What a handler's step leaves alone.                                     *)

LEMMA StepFrame ==
  ASSUME TypeOK, NEW t \in Threads, Step(t)
  PROVE  /\ UNCHANGED <<lunOf, forced, torn>>
         /\ \A w \in Volumes : w # req[t].volume =>
              /\ staging'[w] = staging[w] /\ target'[w] = target[w]
              /\ staged'[w] = staged[w] /\ published'[w] = published[w]
         /\ UNCHANGED known \/ Answer(t)
         /\ Rescan(t) \/ Reload(t) \/ Flush(t) \/ Remove(t) \/ UNCHANGED devices
         /\ Mount(t) \/ UnmountStaging(t) \/ UNCHANGED staging
         /\ Check(t) \/ Bind(t) \/ Unmount(t) \/ RemoveTarget(t) \/ UNCHANGED target
         /\ Format(t) \/ Mount(t) \/ RemoveTarget(t) \/ UNCHANGED array
  <1> USE DEF array, devices, mounts, budget
  <1>1. UNCHANGED <<lunOf, forced, torn>>
    BY DEF Step, Rescan, Find, Reload, NotFound, Probe, Format, MakeFs, Mount, UnmountStaging,
           Slaves, Flush, Remove, Check, Bind, Exists, Unmount, RemoveTarget, Fail
  <1>2. Rescan(t) \/ Reload(t) \/ Flush(t) \/ Remove(t) \/ UNCHANGED devices
    BY DEF Step, Find, NotFound, Probe, Format, Mount, UnmountStaging,
           Slaves, Check, Bind, Exists, Unmount, RemoveTarget, Fail
  <1>3. Mount(t) \/ UnmountStaging(t) \/ UNCHANGED staging
    BY DEF Step, Rescan, Find, Reload, NotFound, Probe, Format,
           Slaves, Flush, Remove, Check, Bind, Exists, Unmount, RemoveTarget, Fail
  <1>4. Check(t) \/ Bind(t) \/ Unmount(t) \/ RemoveTarget(t) \/ UNCHANGED target
    BY DEF Step, Rescan, Find, Reload, NotFound, Probe, Format, Mount, UnmountStaging,
           Slaves, Flush, Remove, Exists, Fail
  <1>5. Format(t) \/ Mount(t) \/ RemoveTarget(t) \/ UNCHANGED array
    BY DEF Step, Rescan, Find, Reload, NotFound, Probe, UnmountStaging,
           Slaves, Flush, Remove, Check, Bind, Exists, Unmount, Fail
  <1>6. UNCHANGED known \/ Answer(t)
    BY DEF Step, Rescan, Find, Reload, NotFound, Probe, Format, Mount, UnmountStaging,
           Slaves, Flush, Remove, Check, Bind, Exists, Unmount, RemoveTarget, Fail,
           Refuse, Continue
  <1>7. ASSUME NEW w \in Volumes, w # req[t].volume
        PROVE  staging'[w] = staging[w] /\ target'[w] = target[w]
    BY <1>3, <1>4, <1>7 DEF TypeOK, Mount, UnmountStaging, Check, Bind, Unmount, RemoveTarget
  <1>8. ASSUME NEW w \in Volumes, w # req[t].volume
        PROVE  staged'[w] = staged[w] /\ published'[w] = published[w]
    BY <1>6, <1>8 DEF TypeOK, Answer, known
  <1>9. QED
    BY <1>1, <1>2, <1>3, <1>4, <1>5, <1>6, <1>7, <1>8

(* What the answer to a request tells the orchestrator.                    *)
LEMMA AnswerTells ==
  ASSUME TypeOK, LocksHeld, NEW t \in Threads, pc[t] # "idle", Answer(t)
  PROVE  /\ IsDone(t)
         /\ staged'[req[t].volume] # staged[req[t].volume] =>
              /\ req[t].op \in {"stage", "unstage"}
              /\ staged'[req[t].volume] = IF req[t].op = "stage" THEN "yes" ELSE "no"
         /\ published'[req[t].volume] # published[req[t].volume] =>
              /\ req[t].op \in {"publish", "unpublish"}
              /\ published'[req[t].volume][req[t].pod] =
                   IF req[t].op = "publish" THEN "yes" ELSE "no"
         /\ \A p \in Pods : p # req[t].pod =>
              published'[req[t].volume][p] = published[req[t].volume][p]
  <1>1. req[t].volume \in Volumes /\ req[t].pod \in Pods
    BY RequestParts
  <1>2. IsDone(t)
    BY DEF Answer, Finish, Goto, Lock!Release, IsDone, TypeOK
  <1> DEFINE v == req[t].volume
             p == req[t].pod
             o == req[t].op
  <1>3. \/ UNCHANGED known
        \/ /\ o \in {"stage", "unstage"}
           /\ staged' = [staged EXCEPT ![v] = IF o = "stage" THEN "yes" ELSE "no"]
           /\ UNCHANGED published
        \/ /\ o \in {"publish", "unpublish"}
           /\ published' = [published EXCEPT ![v][p] = IF o = "publish" THEN "yes" ELSE "no"]
           /\ UNCHANGED staged
    BY DEF Answer
  <1>4. v \in Volumes /\ p \in Pods
    BY <1>1
  <1> HIDE DEF v, p, o
  <1>5. /\ staged'[v] # staged[v] =>
             o \in {"stage", "unstage"} /\ staged'[v] = IF o = "stage" THEN "yes" ELSE "no"
        /\ published'[v] # published[v] =>
             o \in {"publish", "unpublish"} /\ published'[v][p] = IF o = "publish" THEN "yes" ELSE "no"
        /\ \A q \in Pods : q # p => published'[v][q] = published[v][q]
    BY <1>3, <1>4 DEF TypeOK, known
  <1>6. QED
    BY <1>2, <1>5 DEF v, p, o

LEMMA LocksNext ==
  ASSUME IInv, [Next]_vars
  PROVE  LocksHeld' /\ LocksExclusive'
  <1> USE DEF IInv, Core
  <1>1. ASSUME NEW t \in Threads, Call(t) PROVE LocksHeld' /\ LocksExclusive'
    <2>1. PICK r \in Request :
            /\ req[t] = None /\ pc[t] = "idle"
            /\ \A u \in Threads : req[u] # None => req[u].volume # r.volume
            /\ req' = [req EXCEPT ![t] = r]
            /\ pc' = [pc EXCEPT ![t] = First(r.op)]
            /\ granted' = [granted EXCEPT ![t] = [volume |-> r.volume, lun |-> r.lun]]
      BY <1>1, CallStep
    <2>2. First(r.op) # "idle" /\ r # None
      BY NodeAssumption DEF First, Request, Op
    <2>3. LocksHeld'
      BY <2>1, <2>2 DEF LocksHeld, TypeOK
    <2>4. LocksExclusive'
      BY <2>1 DEF LocksExclusive, TypeOK
    <2>5. QED
      BY <2>3, <2>4
  <1>2. ASSUME NEW t \in Threads, Step(t) PROVE LocksHeld' /\ LocksExclusive'
    BY <1>2, ThreadStep DEF LocksHeld, LocksExclusive, GoesOn, IsDone
  <1>3. CASE Crash
    BY <1>3 DEF Crash, LocksHeld, LocksExclusive
  <1>4. ASSUME UNCHANGED <<granted, pc, req>> PROVE LocksHeld' /\ LocksExclusive'
    BY <1>4 DEF LocksHeld, LocksExclusive
  <1>5. CASE (\E v \in Volumes : Write(v) \/ Attach(v) \/ Detach(v)) \/ Multipathd \/ UNCHANGED vars
    BY <1>4, <1>5 DEF Write, Attach, Detach, Multipathd, vars
  <1>6. QED
    BY <1>1, <1>2, <1>3, <1>5 DEF Next

LEMMA PlaceNext ==
  ASSUME IInv, [Next]_vars
  PROVE  PlaceInv'
  <1> USE DEF IInv, Core
  <1>1. ASSUME NEW t \in Threads, Call(t) PROVE PlaceInv'
    <2>1. PICK r \in Request :
            May(r) /\ req' = [req EXCEPT ![t] = r] /\ pc' = [pc EXCEPT ![t] = First(r.op)]
      BY <1>1, CallStep
    <2>2. r.op \in Op /\ r.volume \in Volumes
      BY DEF Request
    <2>3. r.op = "stage" => r.lun \in Luns
      BY <2>1, <2>2 DEF May, TypeOK
    <2>4. QED
      BY <2>1, <2>2, <2>3 DEF PlaceInv, First, Op, TypeOK
  <1>2. ASSUME NEW t \in Threads, Step(t) PROVE PlaceInv'
    <2>1. \A u \in Threads : u # t => pc'[u] = pc[u] /\ req'[u] = req[u]
      BY <1>2, ThreadStep
    <2>2. CASE IsDone(t)
      BY <2>1, <2>2 DEF PlaceInv, IsDone
    <2>3. CASE GoesOn(t)
      <3>1. \/ pc[t] = "rescan" /\ pc'[t] = "find"
            \/ pc[t] \in {"find", "refind"} /\ pc'[t] = IF req[t].op = "stage" THEN "probe" ELSE "slaves"
            \/ pc[t] \in {"find", "refind"} /\ pc'[t] = "refind"
            \/ pc[t] = "probe" /\ pc'[t] \in {"format", "mount"}
            \/ pc[t] = "format" /\ pc'[t] = "mount"
            \/ pc[t] = "unmountStaging" /\ pc'[t] = "find"
            \/ pc[t] = "slaves" /\ pc'[t] = "flush"
            \/ pc[t] = "flush" /\ pc'[t] = "remove"
            \/ pc[t] = "check" /\ pc'[t] = "bind"
            \/ pc[t] = "exists" /\ pc'[t] = "unmount"
            \/ pc[t] = "unmount" /\ pc'[t] \in {"unmount", "removeTarget"}
        <4>1. ~ Refuse(t) /\ ~ Answer(t)
          BY <2>3 DEF GoesOn, Refuse, Answer, Finish, Goto, TypeOK
        <4>2. CASE Rescan(t) \/ Find(t) \/ Reload(t) \/ NotFound(t) \/ Probe(t) \/ Format(t)
                     \/ Mount(t) \/ UnmountStaging(t)
          BY <4>1, <4>2
             DEF TypeOK, Continue, Goto, Rescan, Find, Reload, NotFound, Probe, Format, Mount,
                 UnmountStaging
        <4>3. CASE Slaves(t) \/ Flush(t) \/ Remove(t) \/ Check(t) \/ Bind(t) \/ Exists(t)
                     \/ Unmount(t) \/ RemoveTarget(t) \/ Fail(t)
          BY <4>1, <4>3
             DEF TypeOK, Continue, Goto, Slaves, Flush, Remove, Check, Bind, Exists, Unmount,
                 RemoveTarget, Fail
        <4>4. QED
          BY <1>2, <4>2, <4>3 DEF Step
      <3>2. req'[t] = req[t] /\ req[t] # None
        BY <1>2, <2>3, ThreadStep DEF GoesOn, LocksHeld
      <3>3. PlaceInv!(t)'
        BY <3>1, <3>2 DEF PlaceInv
      <3>4. QED
        BY <2>1, <3>3 DEF PlaceInv
    <2>4. QED
      BY <1>2, <2>2, <2>3, ThreadStep
  <1>3. CASE Crash
    BY <1>3 DEF Crash, PlaceInv
  <1>4. CASE (\E v \in Volumes : Write(v) \/ Attach(v) \/ Detach(v)) \/ Multipathd \/ UNCHANGED vars
    BY <1>4 DEF Write, Attach, Detach, Multipathd, vars, PlaceInv
  <1>5. QED
    BY <1>1, <1>2, <1>3, <1>4 DEF Next

LEMMA OrchestratorNext ==
  ASSUME IInv, [Next]_vars
  PROVE  OrchestratorInv'
  <1> USE DEF IInv, Core
  <1>1. ASSUME NEW t \in Threads, Call(t) PROVE OrchestratorInv'
    <2>1. PICK r \in Request :
            /\ May(r) /\ req[t] = None
            /\ \A u \in Threads : req[u] # None => req[u].volume # r.volume
            /\ req' = [req EXCEPT ![t] = r]
            /\ staged' = IF r.op \in {"stage", "unstage"}
                           THEN [staged EXCEPT ![r.volume] = "maybe"] ELSE staged
            /\ published' = IF r.op \in {"publish", "unpublish"}
                              THEN [published EXCEPT ![r.volume][r.pod] = "maybe"] ELSE published
            /\ UNCHANGED budget
      BY <1>1, CallStep
    <2>2. r.op \in Op /\ r.volume \in Volumes /\ r.pod \in Pods
      BY DEF Request
    <2>3. torn' => forced' # {}
      BY <2>1 DEF budget, OrchestratorInv
    <2>4. CASE r.op \in {"stage", "unstage"}
      <3>1. staged' = [staged EXCEPT ![r.volume] = "maybe"] /\ published' = published
        BY <2>1, <2>4
      <3>2. \A q \in Pods : published[r.volume][q] = "no"
        BY <2>1, <2>2, <2>4 DEF May, OrchestratorInv
      <3>3. QED
        BY <2>1, <2>2, <2>3, <2>4, <3>1, <3>2 DEF OrchestratorInv, TypeOK
    <2>5. CASE r.op \in {"publish", "unpublish"}
      <3>1. staged' = staged /\ published' = [published EXCEPT ![r.volume][r.pod] = "maybe"]
        BY <2>1, <2>5
      <3>2. staged[r.volume] = "yes"
        BY <2>1, <2>2, <2>5 DEF May, OrchestratorInv
      <3>3. /\ published'[r.volume][r.pod] = "maybe"
            /\ \A w \in Volumes, q \in Pods : <<w, q>> # <<r.volume, r.pod>> =>
                 published'[w][q] = published[w][q]
            /\ \A w \in Volumes : w # r.volume => published'[w] = published[w]
        BY <2>2, <3>1 DEF TypeOK
      <3>4. \A w \in Volumes, q \in Pods : published'[w][q] # "no" => staged'[w] = "yes"
        BY <3>1, <3>2, <3>3 DEF OrchestratorInv
      <3>5. \A u \in Threads : u # t => req'[u] = req[u]
        BY <2>1 DEF TypeOK
      <3>6. req'[t] = r
        BY <2>1 DEF TypeOK
      <3>7. \A u \in Threads : u # t /\ req[u] # None => req[u].volume \in Volumes /\ req[u].pod \in Pods
        BY RequestParts DEF LocksHeld
      <3>8. QED
        BY <2>1, <2>3, <2>5, <3>1, <3>3, <3>4, <3>5, <3>6, <3>7 DEF OrchestratorInv
    <2>6. QED
      BY <2>2, <2>4, <2>5 DEF Op
  <1>2. ASSUME NEW t \in Threads, Step(t) PROVE OrchestratorInv'
    <2>1. pc[t] # "idle" /\ \A u \in Threads : u # t => req'[u] = req[u]
      BY <1>2, ThreadStep
    <2>2. /\ UNCHANGED <<forced, torn>>
          /\ \A w \in Volumes : w # req[t].volume => staged'[w] = staged[w] /\ published'[w] = published[w]
          /\ UNCHANGED known \/ Answer(t)
      BY <1>2, StepFrame
    <2>3. CASE UNCHANGED known
      BY <1>2, <2>1, <2>2, <2>3, ThreadStep DEF OrchestratorInv, GoesOn, IsDone, known
    <2>4. CASE Answer(t)
      <3> DEFINE v == req[t].volume
      <3>1. req[t] # None /\ v \in Volumes
        BY <2>1, RequestParts
      <3>2. req'[t] = None
        BY <2>1, <2>4, AnswerTells DEF IsDone
      <3>3. \A u \in Threads : u # t /\ req[u] # None => req[u].volume \in Volumes \ {v}
        BY <2>1, <3>1, RequestParts DEF LocksExclusive, LocksHeld
      <3>4. \A q \in Pods : published'[v][q] # "no" => staged'[v] = "yes"
        <4>1. /\ staged'[v] # staged[v] => req[t].op \in {"stage", "unstage"}
              /\ published'[v] # published[v] => req[t].op \in {"publish", "unpublish"}
              /\ \A q \in Pods : q # req[t].pod => published'[v][q] = published[v][q]
          BY <2>1, <2>4, AnswerTells
        <4>2. CASE req[t].op \in {"stage", "unstage"}
          BY <3>1, <4>1, <4>2 DEF OrchestratorInv
        <4>3. CASE req[t].op \in {"publish", "unpublish"}
          <5>1. staged'[v] = "yes"
            BY <2>1, <3>1, <4>1, <4>3, RequestParts DEF OrchestratorInv
          <5>2. QED
            BY <5>1
        <4>4. QED
          BY <2>1, <4>2, <4>3, RequestParts DEF Op
      <3> HIDE DEF v
      <3>5. \A w \in Volumes, q \in Pods : published'[w][q] # "no" => staged'[w] = "yes"
        BY <2>2, <3>4 DEF v, OrchestratorInv
      <3>6. QED
        BY <2>1, <2>2, <3>2, <3>3, <3>5 DEF v, OrchestratorInv
    <2>5. QED
      BY <2>2, <2>3, <2>4
  <1>3. CASE Crash
    BY <1>3 DEF Crash, OrchestratorInv, known
  <1>4. ASSUME NEW v \in Volumes, Detach(v) PROVE OrchestratorInv'
    BY <1>4 DEF Detach, OrchestratorInv, known
  <1>5. CASE (\E v \in Volumes : Write(v) \/ Attach(v)) \/ Multipathd \/ UNCHANGED vars
    BY <1>5 DEF Write, Attach, Multipathd, vars, OrchestratorInv, known, budget
  <1>6. QED
    BY <1>1, <1>2, <1>3, <1>4, <1>5 DEF Next

-----------------------------------------------------------------------------
(* Target paths.                                                           *)

(* What a handler's step does to its own target path, and what the         *)
(* orchestrator is told of it.                                             *)
LEMMA TargetStep ==
  ASSUME IInv, NEW t \in Threads, Step(t), NEW p \in Pods
  PROVE  LET v == req[t].volume
         IN  \/ target'[v][p] = target[v][p] /\ published'[v][p] = published[v][p]
             \/ /\ p = req[t].pod
                /\ published'[v][p] = "yes" => req[t].op = "publish" /\ target'[v][p] = 1
                /\ published'[v][p] = "no" => req[t].op = "unpublish" /\ target'[v][p] = None
  <1> USE DEF IInv, Core
  <1> DEFINE v == req[t].volume
             q == req[t].pod
  <1>1. pc[t] # "idle" /\ v \in Volumes /\ q \in Pods /\ req[t] # None /\ req[t].op \in Op
    BY ThreadStep, RequestParts
  <1>2. UNCHANGED target \/ \E x \in {None, 0, 1} : target' = [target EXCEPT ![v][q] = x]
    <2>1. CASE Check(t)
      BY <2>1 DEF Check
    <2>2. CASE Bind(t)
      <3>1. target[v][q] = 0
        BY <2>2 DEF Bind, TargetInv
      <3>2. target' = [target EXCEPT ![v][q] = 1]
        BY <2>2, <3>1 DEF Bind
      <3>3. QED
        BY <3>2
    <2>3. CASE Unmount(t)
      BY <2>3 DEF Unmount, TargetInv
    <2>4. CASE RemoveTarget(t)
      BY <2>4 DEF RemoveTarget
    <2>5. QED
      BY <2>1, <2>2, <2>3, <2>4, StepFrame
  <1>3. p # q => target'[v][p] = target[v][p]
    BY <1>1, <1>2, TargetIsSet DEF TargetSet
  <1>4. UNCHANGED known \/ Answer(t)
    BY StepFrame
  <1>5. p # q => published'[v][p] = published[v][p]
    BY <1>1, <1>4, AnswerTells DEF known
  <1>6. CASE UNCHANGED known
    <2>1. req[t].op \in {"publish", "unpublish"} => published'[v][q] = "maybe"
      BY <1>1, <1>6 DEF known, OrchestratorInv
    <2>2. req[t].op \notin {"publish", "unpublish"} => UNCHANGED target
      <3>1. req[t].op \notin {"publish", "unpublish"} =>
              ~ (Check(t) \/ Bind(t) \/ Unmount(t) \/ RemoveTarget(t))
        BY DEF PlaceInv, Check, Bind, Unmount, RemoveTarget
      <3>2. QED
        BY <3>1, StepFrame
    <2>3. QED
      BY <1>3, <1>6, <2>1, <2>2 DEF known
  <1>7. CASE Answer(t) /\ ~ UNCHANGED known
    <2>1. CASE req[t].op \in {"stage", "unstage"}
      <3>1. ~ (Check(t) \/ Bind(t) \/ Unmount(t) \/ RemoveTarget(t))
        BY <2>1 DEF PlaceInv, Check, Bind, Unmount, RemoveTarget
      <3>2. UNCHANGED target
        BY <3>1, StepFrame
      <3>3. published'[v] = published[v]
        BY <1>1, <1>7, <2>1, AnswerTells
      <3>4. QED
        BY <3>2, <3>3
    <2>2. CASE req[t].op = "publish"
      <3>1. Check(t) \/ Bind(t)
        BY <1>7, <2>2 DEF PlaceInv, Step, Rescan, Find, Reload, NotFound, Probe, Format, Mount,
             UnmountStaging, Slaves, Flush, Remove, Exists, Unmount, RemoveTarget, Fail, Continue, Refuse
      <3>2. target'[v][q] = 1
        <4>1. CASE Check(t)
          <5>1. ~ Refuse(t) /\ ~ Continue(t, "bind")
            BY <1>7 DEF Refuse, Continue
          <5>2. target[v][q] \notin {None, 0} /\ UNCHANGED target
            BY <4>1, <5>1 DEF Check
          <5>3. QED
            BY <1>1, <5>2 DEF TypeOK
        <4>2. CASE Bind(t)
          <5>1. target[v][q] = 0
            BY <4>2 DEF Bind, TargetInv
          <5>2. target' = [target EXCEPT ![v][q] = 1]
            BY <4>2, <5>1 DEF Bind
          <5>3. QED
            BY <1>1, <5>2, TargetIsSet DEF TargetSet
        <4>3. QED
          BY <3>1, <4>1, <4>2
      <3>3. published'[v][q] = "yes" \/ published'[v] = published[v]
        BY <1>1, <1>7, <2>2, AnswerTells
      <3>4. published[v][q] = "maybe"
        BY <1>1, <2>2 DEF OrchestratorInv
      <3>5. QED
        BY <1>3, <1>5, <2>2, <3>2, <3>3, <3>4
    <2>3. CASE req[t].op = "unpublish"
      <3>1. Exists(t) \/ RemoveTarget(t)
        BY <1>7, <2>3 DEF PlaceInv, Step, Rescan, Find, Reload, NotFound, Probe, Format, Mount,
             UnmountStaging, Slaves, Flush, Remove, Check, Bind, Unmount, Fail, Continue, Refuse
      <3>2. target'[v][q] = None
        <4>1. CASE Exists(t)
          BY <1>7, <4>1 DEF Exists, mounts
        <4>2. CASE RemoveTarget(t)
          <5>1. target' = [target EXCEPT ![v][q] = None]
            BY <4>2 DEF RemoveTarget, TargetInv
          <5>2. QED
            BY <1>1, <5>1, TargetIsSet DEF TargetSet
        <4>3. QED
          BY <3>1, <4>1, <4>2
      <3>3. published'[v][q] = "no" \/ published'[v] = published[v]
        BY <1>1, <1>7, <2>3, AnswerTells
      <3>4. published[v][q] = "maybe"
        BY <1>1, <2>3 DEF OrchestratorInv
      <3>5. QED
        BY <1>3, <1>5, <2>3, <3>2, <3>3, <3>4
    <2>4. QED
      BY <1>1, <2>1, <2>2, <2>3 DEF Op
  <1>8. QED
    BY <1>4, <1>6, <1>7

LEMMA PublishedNext ==
  ASSUME IInv, [Next]_vars
  PROVE  PublishedIsMounted'
  <1> USE DEF IInv, Core
  <1>1. ASSUME NEW t \in Threads, Call(t) PROVE PublishedIsMounted'
    <2>1. PICK r \in Request :
            /\ published' = IF r.op \in {"publish", "unpublish"}
                              THEN [published EXCEPT ![r.volume][r.pod] = "maybe"] ELSE published
            /\ UNCHANGED mounts
      BY <1>1, CallStep
    <2>2. r.volume \in Volumes /\ r.pod \in Pods
      BY DEF Request
    <2>3. \A v \in Volumes, p \in Pods : published'[v][p] \in {published[v][p], "maybe"}
      BY <2>1, <2>2 DEF TypeOK
    <2>4. target' = target
      BY <2>1 DEF mounts
    <2>5. QED
      BY <2>3, <2>4 DEF PublishedIsMounted
  <1>2. ASSUME NEW t \in Threads, Step(t) PROVE PublishedIsMounted'
    <2>1. SUFFICES ASSUME NEW v \in Volumes, NEW p \in Pods
                   PROVE  /\ published'[v][p] = "yes" => target'[v][p] = 1
                          /\ published'[v][p] = "no" => target'[v][p] = None
      BY DEF PublishedIsMounted
    <2>2. CASE v # req[t].volume
      BY <1>2, <2>2, StepFrame DEF PublishedIsMounted
    <2>3. CASE v = req[t].volume
      BY <1>2, <2>3, TargetStep DEF PublishedIsMounted
    <2>4. QED
      BY <2>2, <2>3
  <1>3. CASE \/ \E v \in Volumes : Write(v) \/ Attach(v) \/ Detach(v)
             \/ Multipathd \/ Crash \/ UNCHANGED vars
    BY <1>3 DEF Write, Attach, Detach, Multipathd, Crash, vars, mounts, known, PublishedIsMounted
  <1>4. QED
    BY <1>1, <1>2, <1>3 DEF Next

LEMMA TargetNext ==
  ASSUME IInv, [Next]_vars
  PROVE  TargetInv'
  <1> USE DEF IInv, Core
  <1>1. ASSUME NEW t \in Threads, Call(t) PROVE TargetInv'
    <2>1. PICK r \in Request :
            /\ May(r) /\ req' = [req EXCEPT ![t] = r] /\ pc' = [pc EXCEPT ![t] = First(r.op)]
            /\ UNCHANGED <<mounts, note>>
      BY <1>1, CallStep
    <2>2. First(r.op) \notin {"bind", "removeTarget", "unmount"}
      BY DEF First, Request, Op
    <2>3. UNCHANGED <<target, note>>
      BY <2>1 DEF mounts
    <2>4. /\ pc'[t] = First(r.op)
          /\ \A u \in Threads : u # t => pc'[u] = pc[u] /\ req'[u] = req[u]
      BY <2>1 DEF TypeOK
    <2>5. QED
      BY <2>2, <2>3, <2>4 DEF TargetInv
  <1>2. ASSUME NEW t \in Threads, Step(t) PROVE TargetInv'
    <2>1. /\ pc[t] # "idle"
          /\ \A u \in Threads : u # t => pc'[u] = pc[u] /\ req'[u] = req[u] /\ note'[u] = note[u]
          /\ GoesOn(t) \/ IsDone(t)
      BY <1>2, ThreadStep
    <2>2. ASSUME NEW u \in Threads, u # t PROVE TargetInv!(u)'
      <3>1. CASE req[u] = None
        BY <2>1, <2>2, <3>1 DEF LocksHeld
      <3>2. CASE req[u] # None
        <4>1. req[u].volume \in Volumes /\ req[u].volume # req[t].volume
          BY <2>1, <2>2, <3>2, RequestParts DEF LocksHeld, LocksExclusive
        <4>2. target'[req[u].volume] = target[req[u].volume]
          BY <1>2, <4>1, StepFrame
        <4>3. QED
          BY <2>1, <2>2, <4>2 DEF TargetInv
      <3>3. QED
        BY <3>1, <3>2
    <2>3. TargetInv!(t)'
      <3> DEFINE v == req[t].volume
                 p == req[t].pod
      <3>1. v \in Volumes /\ p \in Pods
        BY <2>1, RequestParts
      <3>2. CASE IsDone(t)
        BY <3>2 DEF IsDone
      <3>3. CASE GoesOn(t) /\ pc'[t] \in {"bind", "unmount", "removeTarget"}
        <4>1. ~ Refuse(t) /\ ~ Answer(t)
          BY <3>3 DEF GoesOn, Refuse, Answer, Finish, Goto, TypeOK
        <4>2. Check(t) \/ Exists(t) \/ Unmount(t)
          BY <1>2, <3>3, <4>1
             DEF TypeOK, Continue, Goto, Step, Rescan, Find, Reload, NotFound, Probe, Format, Mount,
                 UnmountStaging, Slaves, Flush, Remove, Bind, RemoveTarget, Fail
        <4>3. CASE Check(t)
          <5>1. target' = [target EXCEPT ![v][p] = 0] /\ pc'[t] = "bind"
            BY <4>1, <4>3 DEF Check, Continue, Goto, TypeOK
          <5>2. target'[v][p] = 0
            BY <3>1, <5>1, TargetIsSet DEF TargetSet
          <5>3. QED
            BY <3>3, <5>1, <5>2 DEF GoesOn
        <4>4. CASE Exists(t)
          <5>1. target'[v][p] \in {0, 1} /\ note'[t] = 0 /\ pc'[t] = "unmount"
            BY <3>1, <4>1, <4>4 DEF Exists, Goto, mounts, TypeOK
          <5>2. QED
            BY <3>3, <5>1 DEF GoesOn
        <4>5. CASE Unmount(t)
          <5>1. CASE target[v][p] = 1 /\ note[t] = 0
            <6>1. target' = [target EXCEPT ![v][p] = 0] /\ note'[t] = 1 /\ pc'[t] = "unmount"
              BY <4>5, <5>1 DEF Unmount, TypeOK
            <6>2. target'[v][p] = 0
              BY <3>1, <6>1, TargetIsSet DEF TargetSet
            <6>3. QED
              BY <3>3, <6>1, <6>2 DEF GoesOn
          <5>2. CASE target[v][p] = 0
            <6>1. target'[v][p] = 0 /\ pc'[t] = "removeTarget"
              BY <4>5, <5>2 DEF Unmount, Continue, Goto, TypeOK
            <6>2. QED
              BY <3>3, <6>1 DEF GoesOn
          <5>3. QED
            BY <4>5, <5>1, <5>2 DEF Unmount, TargetInv
        <4>6. QED
          BY <4>2, <4>3, <4>4, <4>5
      <3>4. QED
        BY <2>1, <3>2, <3>3
    <2>4. QED
      BY <2>2, <2>3 DEF TargetInv
  <1>3. CASE \/ \E v \in Volumes : Write(v) \/ Attach(v) \/ Detach(v)
             \/ Multipathd \/ Crash \/ UNCHANGED vars
    BY <1>3 DEF Write, Attach, Detach, Multipathd, Crash, vars, mounts, TargetInv
  <1>4. QED
    BY <1>1, <1>2, <1>3 DEF Next

-----------------------------------------------------------------------------
(* File systems.                                                           *)

(* A handler's step leaves the volumes alone, or makes a file system on    *)
(* what is behind its volume's map, which is blank when the volume was not *)
(* detached under a handler.                                               *)
LEMMA DiskStep ==
  ASSUME IInv, NEW t \in Threads, Step(t)
  PROVE  \/ disk' = disk /\ data' = data
         \/ \E w \in Volumes, fs \in FsTypes :
              /\ pc[t] \in {"format", "mount"}
              /\ w = Behind(req[t].volume)
              /\ torn \/ disk[w] = Blank
              /\ disk' = [disk EXCEPT ![w] = fs] /\ data' = [data EXCEPT ![w] = FALSE]
  <1> USE DEF IInv, Core
  <1>1. pc[t] # "idle" /\ req[t].volume \in Volumes
    BY ThreadStep, RequestParts
  <1> DEFINE w == Behind(req[t].volume)
  <1>2. w \in Volumes \union {None}
    BY <1>1, BehindIs
  <1>3. pc[t] \in {"format", "mount"} => note[t] \in FsTypes
    BY DEF DiskInv
  <1>4. CASE Format(t)
    <2>1. pc[t] = "format"
      BY <1>4 DEF Format
    <2>2. torn \/ disk[w] = Blank
      BY <1>1, <2>1, BehindIs DEF FoundInv, Found
    <2>3. CASE w # None /\ MakeFs(w, note[t])
      BY <1>2, <1>3, <2>1, <2>2, <2>3 DEF MakeFs
    <2>4. CASE UNCHANGED array
      BY <2>4 DEF array
    <2>5. QED
      BY <1>4, <2>3, <2>4 DEF Format
  <1>5. CASE Mount(t)
    <2>1. CASE UNCHANGED array
      BY <2>1 DEF array
    <2>2. CASE w # None /\ disk[w] = Blank /\ MakeFs(w, note[t])
      <3>1. pc[t] = "mount"
        BY <1>5 DEF Mount
      <3>2. QED
        BY <1>2, <1>3, <2>2, <3>1 DEF MakeFs
    <2>3. QED
      BY <1>5, <2>1, <2>2 DEF Mount
  <1>6. CASE RemoveTarget(t)
    BY <1>6 DEF RemoveTarget, TargetInv
  <1>7. QED
    BY <1>4, <1>5, <1>6, StepFrame DEF array

(* What a handler's step mounts at its staging path is what is behind the  *)
(* volume's map, with a file system.                                       *)
LEMMA StagingStep ==
  ASSUME IInv, NEW t \in Threads, Step(t)
  PROVE  LET v == req[t].volume
         IN  \/ staging' = staging
             \/ UnmountStaging(t) /\ staging' = [staging EXCEPT ![v] = None]
             \/ /\ Mount(t) /\ Answer(t)
                /\ Behind(v) \in Volumes /\ staging' = [staging EXCEPT ![v] = Behind(v)]
                /\ disk'[Behind(v)] # Blank
  <1> USE DEF IInv, Core
  <1>1. pc[t] # "idle" /\ req[t].volume \in Volumes
    BY ThreadStep, RequestParts
  <1> DEFINE v == req[t].volume
  <1>2. CASE Mount(t)
    <2>1. note[t] \in FsTypes /\ note[t] # Blank
      BY <1>2, NodeAssumption DEF Mount, DiskInv
    <2>2. CASE Behind(v) # None /\ disk[Behind(v)] \in {Blank, note[t]}
      <3>1. Behind(v) \in Volumes
        BY <1>1, <2>2, BehindIs
      <3>2. staging' = [staging EXCEPT ![v] = Behind(v)] /\ Answer(t)
        BY <1>2, <2>2 DEF Mount
      <3>3. disk'[Behind(v)] = note[t]
        BY <1>2, <2>2, <3>1 DEF Mount, MakeFs, array, TypeOK
      <3>4. QED
        BY <1>2, <2>1, <3>1, <3>2, <3>3
    <2>3. CASE ~ (Behind(v) # None /\ disk[Behind(v)] \in {Blank, note[t]})
      BY <1>2, <2>3 DEF Mount
    <2>4. QED
      BY <2>2, <2>3
  <1>3. CASE UnmountStaging(t)
    BY <1>3 DEF UnmountStaging
  <1>4. QED
    BY <1>2, <1>3, StepFrame

LEMMA DiskNext ==
  ASSUME IInv, [Next]_vars
  PROVE  DiskInv'
  <1> USE DEF IInv, Core
  <1>1. ASSUME NEW t \in Threads, Call(t) PROVE DiskInv'
    <2>1. PICK r \in Request :
            May(r) /\ pc' = [pc EXCEPT ![t] = First(r.op)] /\ UNCHANGED <<array, mounts, note>>
      BY <1>1, CallStep
    <2>2. First(r.op) \notin {"format", "mount"}
      BY DEF First, Request, Op
    <2>3. UNCHANGED <<disk, data, staging, note>>
      BY <2>1 DEF array, mounts
    <2>4. pc'[t] = First(r.op) /\ \A u \in Threads : u # t => pc'[u] = pc[u]
      BY <2>1 DEF TypeOK
    <2>5. QED
      BY <2>2, <2>3, <2>4 DEF DiskInv
  <1>2. ASSUME NEW t \in Threads, Step(t) PROVE DiskInv'
    <2>1. /\ pc[t] # "idle"
          /\ \A u \in Threads : u # t => pc'[u] = pc[u] /\ note'[u] = note[u]
          /\ GoesOn(t) \/ IsDone(t)
      BY <1>2, ThreadStep
    <2>2. \A v \in Volumes : disk'[v] # Blank \/ (disk'[v] = disk[v] /\ data'[v] = data[v])
      <3>1. CASE disk' = disk /\ data' = data
        BY <3>1
      <3>2. CASE \E w \in Volumes, fs \in FsTypes :
                   disk' = [disk EXCEPT ![w] = fs] /\ data' = [data EXCEPT ![w] = FALSE]
        <4>1. PICK w \in Volumes, fs \in FsTypes :
                disk' = [disk EXCEPT ![w] = fs] /\ data' = [data EXCEPT ![w] = FALSE]
          BY <3>2
        <4>2. fs # Blank
          BY NodeAssumption
        <4>3. disk'[w] = fs
          BY <4>1 DEF TypeOK
        <4>4. \A v \in Volumes : v # w => disk'[v] = disk[v]
          BY <4>1 DEF TypeOK
        <4>5. \A v \in Volumes : v # w => data'[v] = data[v]
          BY <4>1, Zenon DEF TypeOK
        <4>6. QED
          BY <4>2, <4>3, <4>4, <4>5, Zenon
      <3>3. QED
        BY <1>2, <3>1, <3>2, DiskStep
    <2>3. \A v \in Volumes : disk[v] # Blank => disk'[v] # Blank
      BY <2>2
    <2>4. \A v \in Volumes : data'[v] => disk'[v] # Blank
      BY <2>2 DEF DiskInv
    <2>5. ASSUME NEW v \in Volumes, NEW w \in Volumes, staging'[v] = w
          PROVE  disk'[w] # Blank
      <3>1. \/ staging[v] = w
            \/ disk'[w] # Blank
        <4>1. CASE staging' = staging
          BY <2>5, <4>1
        <4>2. CASE \E x : staging' = [staging EXCEPT ![x] = None]
          <5>1. staging'[v] \in {staging[v], None}
            BY <4>2 DEF TypeOK
          <5>2. QED
            BY <2>5, <5>1, NodeAssumption
        <4>3. CASE \E x : \E y \in Volumes :
                     staging' = [staging EXCEPT ![x] = y] /\ disk'[y] # Blank
          <5>1. PICK x : \E y \in Volumes :
                     staging' = [staging EXCEPT ![x] = y] /\ disk'[y] # Blank
            BY <4>3
          <5>2. PICK y \in Volumes : staging' = [staging EXCEPT ![x] = y] /\ disk'[y] # Blank
            BY <5>1
          <5>3. staging'[v] \in {staging[v], y}
            BY <5>2 DEF TypeOK
          <5>4. QED
            BY <2>5, <5>2, <5>3
        <4>4. QED
          BY Zenon, <1>2, <4>1, <4>2, <4>3, StagingStep
      <3>2. QED
        BY <2>3, <3>1 DEF DiskInv
    <2>6. ASSUME pc'[t] \in {"format", "mount"} PROVE note'[t] \in FsTypes
      <3>1. ~ Refuse(t) /\ ~ Answer(t)
        BY <2>6 DEF Refuse, Answer, Finish, Goto, TypeOK
      <3>2. Probe(t) \/ Format(t)
        <4>1. Find(t) => pc'[t] \in {"probe", "slaves"}
          BY DEF Find, Continue, Goto, TypeOK
        <4>2. QED
          BY <1>2, <2>6, <3>1, <4>1
             DEF TypeOK, Continue, Goto, Step, Rescan, Reload, NotFound, Mount,
                 UnmountStaging, Slaves, Flush, Remove, Check, Bind, Exists, Unmount, RemoveTarget, Fail
      <3>3. CASE Probe(t)
        <4> DEFINE v == req[t].volume
                   fs == FsToMount(FsOf[v], disk[Behind(v)])
        <4>1. Behind(v) # None /\ note' = [note EXCEPT ![t] = fs]
          BY <3>1, <3>3 DEF Probe
        <4>2. v \in Volumes /\ Behind(v) \in Volumes
          BY <2>1, <4>1, RequestParts, BehindIs
        <4>3. fs \in FsTypes
          BY <4>2, FsToMountIsFs
        <4> HIDE DEF fs
        <4>4. QED
          BY <4>1, <4>3 DEF TypeOK
      <3>4. CASE Format(t)
        BY <3>4 DEF Format, Continue, DiskInv
      <3>5. QED
        BY <3>2, <3>3, <3>4
    <2>7. QED
      BY <2>1, <2>4, <2>5, <2>6 DEF DiskInv
  <1>3. ASSUME NEW v \in Volumes, Write(v) PROVE DiskInv'
    <2>1. \A w \in Volumes : w # v => data'[w] = data[w]
      BY <1>3 DEF Write, TypeOK
    <2>2. disk[v] # Blank
      BY <1>3 DEF Write, DiskInv
    <2>3. QED
      BY <1>3, <2>1, <2>2 DEF Write, DiskInv, mounts
  <1>4. CASE Crash
    BY <1>4 DEF Crash, DiskInv, array, mounts
  <1>5. CASE (\E v \in Volumes : Attach(v) \/ Detach(v)) \/ Multipathd \/ UNCHANGED vars
    BY <1>5 DEF Attach, Detach, Multipathd, vars, DiskInv, array, mounts
  <1>6. QED
    BY <1>1, <1>2, <1>3, <1>4, <1>5 DEF Next

LEMMA LunsNext ==
  ASSUME IInv, [Next]_vars
  PROVE  LunsDistinct'
  <1> USE DEF IInv, Core
  <1>1. ASSUME NEW v \in Volumes, Attach(v) PROVE LunsDistinct'
    <2>1. PICK l \in Luns : Reached(l) = None /\ lunOf' = [lunOf EXCEPT ![v] = l]
      BY <1>1 DEF Attach
    <2>2. \A w \in Volumes : lunOf[w] # l
      <3>1. None \notin Volumes
        BY NodeAssumption
      <3>2. QED
        BY <2>1, <3>1, ReachedIs
    <2>3. QED
      BY <2>1, <2>2 DEF LunsDistinct, TypeOK
  <1>2. ASSUME NEW v \in Volumes, Detach(v) PROVE LunsDistinct'
    BY <1>2 DEF Detach, LunsDistinct, TypeOK
  <1>3. ASSUME lunOf' = lunOf PROVE LunsDistinct'
    BY <1>3 DEF LunsDistinct
  <1>4. ASSUME NEW t \in Threads, Call(t) PROVE lunOf' = lunOf
    BY <1>4, CallStep DEF array
  <1>5. ASSUME NEW t \in Threads, Step(t) PROVE lunOf' = lunOf
    BY <1>5, StepFrame
  <1>6. CASE (\E v \in Volumes : Write(v)) \/ Multipathd \/ Crash \/ UNCHANGED vars
    BY <1>3, <1>6 DEF Write, Multipathd, Crash, vars, array
  <1>7. QED
    BY <1>1, <1>2, <1>3, <1>4, <1>5, <1>6 DEF Next

(* The step that loses data needs a torn request.                          *)
LEMMA DataNext ==
  ASSUME IInv, [Next]_vars
  PROVE  \A v \in Volumes : data[v] /\ ~ data'[v] => torn
  <1> USE DEF IInv, Core
  <1>1. ASSUME NEW t \in Threads, Step(t), NEW v \in Volumes, data[v], ~ data'[v]
        PROVE  torn
    <2>1. disk[v] # Blank
      BY <1>1 DEF DiskInv
    <2>2. PICK w \in Volumes : (torn \/ disk[w] = Blank) /\ data' = [data EXCEPT ![w] = FALSE]
      BY <1>1, DiskStep
    <2>3. w = v
      BY <1>1, <2>2 DEF TypeOK
    <2>4. QED
      BY <2>1, <2>2, <2>3
  <1>2. ASSUME NEW t \in Threads, Call(t) PROVE data' = data
    BY <1>2, CallStep DEF array
  <1>3. ASSUME NEW v \in Volumes, Write(v), NEW w \in Volumes, data[w] PROVE data'[w]
    BY <1>3, Zenon DEF Write, TypeOK
  <1>4. CASE (\E v \in Volumes : Attach(v) \/ Detach(v)) \/ Multipathd \/ Crash \/ UNCHANGED vars
    BY <1>4 DEF Attach, Detach, Multipathd, Crash, vars, array
  <1>5. QED
    BY <1>1, <1>2, <1>3, <1>4 DEF Next

-----------------------------------------------------------------------------
(* Devices and maps.                                                       *)

(* A map that reaches its volume is left alone by the work on any other    *)
(* volume, and by its own volume's handlers until they flush it.           *)
LEMMA BehindStep ==
  ASSUME IInv, ~ torn, NEW t \in Threads, Step(t), NEW v \in Volumes, IsBehind(v),
         v = req[t].volume => pc[t] \notin {"flush", "remove"}
  PROVE  IsBehind(v)'
  <1> USE DEF IInv, Core
  <1>1. pc[t] # "idle" /\ req[t].volume \in Volumes
    BY ThreadStep, RequestParts
  <1>2. lunOf' = lunOf /\ lunOf[v] \in Luns /\ dm[v] = lunOf[v] /\ sd[lunOf[v]] # None
    BY StepFrame DEF IsBehind, TypeOK
  <1>3. CASE Rescan(t)
    <2>1. dm' = dm /\ sd'[lunOf[v]] = sd[lunOf[v]]
      BY <1>2, <1>3 DEF Rescan, TypeOK
    <2>2. QED
      BY <1>2, <2>1 DEF IsBehind, TypeOK
  <1>4. CASE Reload(t)
    <2>1. sd' = sd /\ dm'[v] = Built(v)
      BY <1>4 DEF Reload
    <2>2. Built(v) = dm[v]
      BY <1>2, BuiltIs, NodeAssumption
    <2>3. QED
      BY <1>2, <2>1, <2>2 DEF IsBehind, TypeOK
  <1>5. CASE Flush(t)
    <2>1. sd' = sd /\ dm'[v] = dm[v]
      BY <1>1, <1>5 DEF Flush, TypeOK
    <2>2. QED
      BY <1>2, <2>1 DEF IsBehind, TypeOK
  <1>6. CASE Remove(t)
    <2>1. note[t] \in Luns /\ note[t] = lunOf[req[t].volume]
      BY <1>6 DEF Remove, FoundInv, Found
    <2>2. v # req[t].volume
      BY <1>6 DEF Remove
    <2>3. note[t] # lunOf[v]
      BY <1>1, <2>1, <2>2, NodeAssumption DEF LunsDistinct
    <2>4. dm'[v] = dm[v] /\ sd'[lunOf[v]] = sd[lunOf[v]]
      BY <1>2, <1>6, <2>3 DEF Remove, TypeOK
    <2>5. QED
      BY <1>2, <2>4 DEF IsBehind, TypeOK
  <1>7. CASE UNCHANGED devices
    BY <1>2, <1>7 DEF IsBehind, devices
  <1>8. QED
    BY <1>3, <1>4, <1>5, <1>6, <1>7, StepFrame

LEMMA BehindWorld ==
  ASSUME IInv, NEW v \in Volumes, IsBehind(v),
         \/ \E t \in Threads : Call(t)
         \/ \E w \in Volumes : Write(w) \/ Attach(w) \/ (Detach(w) /\ w # v)
         \/ Multipathd \/ Crash \/ UNCHANGED vars
  PROVE  IsBehind(v)'
  <1> USE DEF IInv, Core
  <1>1. lunOf[v] \in Luns /\ dm[v] = lunOf[v] /\ sd[lunOf[v]] # None /\ lunOf[v] # None
    BY DEF IsBehind, TypeOK
  <1>2. ASSUME lunOf'[v] = lunOf[v], UNCHANGED devices PROVE IsBehind(v)'
    BY <1>2 DEF IsBehind, devices
  <1>3. ASSUME NEW t \in Threads, Call(t) PROVE IsBehind(v)'
    BY <1>2, <1>3, CallStep DEF array
  <1>4. ASSUME NEW w \in Volumes, Write(w) \/ Attach(w) \/ (Detach(w) /\ w # v) PROVE IsBehind(v)'
    <2>1. lunOf'[v] = lunOf[v] /\ UNCHANGED devices
      BY <1>1, <1>4 DEF Write, Attach, Detach, TypeOK
    <2>2. QED
      BY <1>2, <2>1
  <1>5. CASE Multipathd
    <2>1. CASE dm' = [w \in Volumes |-> Built(w)] /\ UNCHANGED sd
      <3>1. dm'[v] = dm[v]
        BY <1>1, <2>1, BuiltIs
      <3>2. QED
        BY <1>1, <1>5, <2>1, <3>1 DEF Multipathd, array, IsBehind
    <2>2. CASE ~ (dm' = [w \in Volumes |-> Built(w)] /\ UNCHANGED sd)
      <3>1. PICK l \in Luns :
              /\ Reached(l) # None
              /\ sd' = [sd EXCEPT ![l] = Reached(l)]
              /\ dm' = [w \in Volumes |->
                          IF w = Reached(l) THEN l ELSE IF dm[w] = l THEN None ELSE dm[w]]
        BY <1>5, <2>2 DEF Multipathd
      <3>2. v = Reached(l) <=> lunOf[v] = l
        BY ReachedIs
      <3>3. dm'[v] = lunOf[v] /\ sd'[lunOf[v]] # None
        BY <1>1, <3>1, <3>2 DEF TypeOK
      <3>4. QED
        BY <1>1, <1>5, <3>3 DEF Multipathd, array, IsBehind
    <2>3. QED
      BY <2>1, <2>2
  <1>6. CASE Crash \/ UNCHANGED vars
    BY <1>2, <1>6 DEF Crash, vars, array, devices
  <1>7. QED
    BY <1>3, <1>4, <1>5, <1>6

(* A volume is detached in order only when no handler works on it.         *)
LEMMA DetachStep ==
  ASSUME IInv, NEW v \in Volumes, Detach(v), ~ torn', NEW t \in Threads, req[t] # None
  PROVE  req[t].volume # v
  <1> USE DEF IInv, Core
  <1>1. CASE staged[v] = "no"
    <2>1. req[t].op \in Op /\ req[t].volume \in Volumes /\ req[t].pod \in Pods
      BY RequestParts DEF LocksHeld
    <2>2. QED
      BY <1>1, <2>1 DEF OrchestratorInv, Op
  <1>2. CASE staged[v] # "no"
    BY <1>2 DEF Detach
  <1>3. QED
    BY <1>1, <1>2

LEMMA FoundNext ==
  ASSUME IInv, [Next]_vars
  PROVE  FoundInv'
  <1> USE DEF IInv, Core
  <1>1. torn => torn'
    <2>1. ASSUME NEW t \in Threads, Call(t) \/ Step(t) PROVE torn' = torn
      BY <2>1, CallStep, StepFrame DEF budget
    <2>2. QED
      BY <2>1 DEF Next, Write, Attach, Detach, Multipathd, Crash, vars, budget
  <1>2. SUFFICES ASSUME ~ torn', ~ torn, NEW u \in Threads PROVE Found(u)'
    BY <1>1 DEF FoundInv
  <1>3. Found(u)
    BY <1>2 DEF FoundInv
  <1>4. req[u] # None => req[u].volume \in Volumes /\ req[u] \in Request
    BY RequestParts DEF LocksHeld
  <1>5. pc[u] \in {"probe", "format", "mount", "slaves", "flush", "remove"} => req[u] # None
    BY DEF LocksHeld
  (* A thread that does not move, and whose volume keeps its LUN, its map   *)
  (* and, if it is being formatted, its emptiness.                          *)
  <1>6. ASSUME UNCHANGED <<pc[u], req[u], note[u]>>,
               req[u] # None => lunOf'[req[u].volume] = lunOf[req[u].volume],
               req[u] # None /\ IsBehind(req[u].volume) => IsBehind(req[u].volume)',
               req[u] # None => disk'[req[u].volume] = disk[req[u].volume]
        PROVE  Found(u)'
    BY <1>3, <1>5, <1>6 DEF Found, IsBehind
  <1>7. ASSUME NEW t \in Threads, Call(t) PROVE Found(u)'
    <2>1. PICK r \in Request :
            /\ May(r) /\ req' = [req EXCEPT ![t] = r] /\ pc' = [pc EXCEPT ![t] = First(r.op)]
            /\ UNCHANGED <<array, note>>
      BY <1>7, CallStep
    <2>2. UNCHANGED <<lunOf, disk, note>>
      BY <2>1 DEF array
    <2>3. CASE u = t
      <3>1. req'[t] = r /\ pc'[t] = First(r.op)
        BY <2>1 DEF TypeOK
      <3>2. r.op = "stage" => lunOf[r.volume] # None
        BY <2>1 DEF May
      <3>3. pc'[t] \notin {"probe", "format", "mount", "slaves", "flush", "remove"}
        BY <3>1 DEF First, Request, Op
      <3>4. QED
        BY <2>2, <2>3, <3>1, <3>2, <3>3 DEF Found
    <2>4. CASE u # t
      <3>1. pc'[u] = pc[u] /\ req'[u] = req[u]
        BY <2>1, <2>4 DEF TypeOK
      <3>2. req[u] # None /\ IsBehind(req[u].volume) => IsBehind(req[u].volume)'
        <4>1. ASSUME NEW v \in Volumes, IsBehind(v) PROVE IsBehind(v)'
          BY <1>7, <4>1, BehindWorld
        <4>2. QED
          BY <1>4, <3>1, <4>1 DEF IsBehind
      <3>3. QED
        BY <1>6, <2>2, <3>1, <3>2
    <2>5. QED
      BY <2>3, <2>4
  <1>8. ASSUME NEW t \in Threads, Step(t) PROVE Found(u)'
    <2>1. /\ pc[t] # "idle" /\ req[t] # None /\ req[t].volume \in Volumes
          /\ u # t => pc'[u] = pc[u] /\ req'[u] = req[u] /\ note'[u] = note[u]
          /\ GoesOn(t) \/ IsDone(t)
      BY <1>8, ThreadStep, RequestParts
    <2>2. lunOf' = lunOf
      BY <1>8, StepFrame
    <2>3. CASE u # t
      <3>1. CASE req[u] = None
        BY <1>6, <2>1, <2>3, <3>1
      <3>2. CASE req[u] # None
        <4>1. req[u].volume # req[t].volume
          BY <2>1, <2>3, <3>2 DEF LocksExclusive
        <4>2. disk'[req[u].volume] = disk[req[u].volume]
          <5>1. pc[t] \in {"format", "mount"} => Behind(req[t].volume) = req[t].volume
            BY <1>2, <2>1, BehindIs DEF FoundInv, Found
          <5>2. QED
            BY <1>4, <1>8, <3>2, <4>1, <5>1, DiskStep DEF TypeOK
        <4>3. IsBehind(req[u].volume) => IsBehind(req[u].volume)'
          <5>1. ASSUME NEW v \in Volumes, v # req[t].volume, IsBehind(v) PROVE IsBehind(v)'
            BY <1>2, <1>8, <5>1, BehindStep
          <5>2. QED
            BY <1>4, <2>1, <2>3, <3>2, <4>1, <5>1 DEF IsBehind
        <4>4. QED
          BY <1>6, <2>1, <2>2, <2>3, <4>2, <4>3
      <3>3. QED
        BY <3>1, <3>2
    <2>4. CASE u = t /\ IsDone(t)
      BY <2>4 DEF Found, IsDone
    <2>5. CASE u = t /\ GoesOn(t)
      <3> DEFINE v == req[t].volume
      <3>1. req'[t] = req[t] /\ v \in Volumes
        BY <2>1, <2>5 DEF GoesOn
      <3>2. req[t].op = "stage" => lunOf'[v] # None
        BY <1>3, <2>1, <2>2, <2>5 DEF Found
      <3>3. ~ Refuse(t) /\ ~ Answer(t)
        BY <2>5 DEF GoesOn, Refuse, Answer, Finish, Goto, TypeOK
      <3>4. IsBehind(v) /\ pc[t] \notin {"flush", "remove"} => IsBehind(v)'
        BY <1>2, <1>8, <3>1, BehindStep
      <3>5. CASE pc[t] \in {"rescan", "unmountStaging", "check", "exists", "unmount"} \/ Reload(t)
        <4>1. pc'[t] \notin {"probe", "format", "mount", "slaves", "flush", "remove"}
          BY <1>8, <3>3, <3>5
             DEF TypeOK, Continue, Goto, Step, Rescan, Find, Reload, NotFound, Probe, Format, Mount,
                 UnmountStaging, Slaves, Flush, Remove, Check, Bind, Exists, Unmount, RemoveTarget, Fail
        <4>2. QED
          BY <2>5, <3>1, <3>2, <4>1 DEF Found
      <3>6. CASE Find(t)
        <4>1. pc'[t] \in {"probe", "slaves"} /\ Behind(v) = v /\ pc[t] \notin {"flush", "remove"}
          BY <3>6 DEF Find, Continue, Goto, TypeOK
        <4>2. IsBehind(v)'
          BY <3>1, <3>4, <4>1, BehindIs
        <4>3. QED
          BY <2>5, <3>1, <3>2, <4>1, <4>2 DEF Found, IsBehind
      <3>7. CASE Probe(t)
        <4>1. IsBehind(v) /\ Behind(v) = v
          BY <1>3, <2>5, <3>1, <3>7, BehindIs DEF Found, Probe
        <4>2. pc'[t] = IF disk[v] = Blank THEN "format" ELSE "mount"
          BY <3>3, <3>7, <4>1 DEF Probe, Goto, TypeOK
        <4>3. disk' = disk
          BY <3>7 DEF Probe, array
        <4>4. IsBehind(v)'
          BY <3>4, <3>7, <4>1 DEF Probe
        <4>5. QED
          BY <2>5, <3>1, <3>2, <4>2, <4>3, <4>4 DEF Found, IsBehind
      <3>8. CASE Format(t)
        <4>1. IsBehind(v) /\ pc'[t] = "mount" /\ pc[t] = "format"
          BY <1>3, <2>5, <3>8 DEF Found, Format, Continue, Goto, TypeOK
        <4>2. IsBehind(v)'
          BY <3>4, <4>1
        <4>3. QED
          BY <2>5, <3>1, <3>2, <4>1, <4>2 DEF Found, IsBehind
      <3>9. CASE Slaves(t)
        <4>1. IsBehind(v)
          BY <1>3, <2>5, <3>9 DEF Found, Slaves
        <4>2. pc'[t] = "flush" /\ note'[t] = dm[v]
          BY <3>3, <3>9 DEF Slaves, Goto, TypeOK
        <4>3. note'[t] \in Luns /\ note'[t] = lunOf'[v]
          BY <2>2, <3>1, <4>1, <4>2 DEF IsBehind, TypeOK
        <4>4. QED
          BY <2>5, <3>1, <3>2, <4>2, <4>3 DEF Found
      <3>10. CASE Flush(t)
        <4>1. pc'[t] = "remove" /\ note'[t] = note[t] /\ pc[t] = "flush"
          BY <3>3, <3>10 DEF Flush, Continue, Goto, TypeOK
        <4>2. QED
          BY <1>3, <2>2, <2>5, <3>1, <3>2, <4>1 DEF Found
      <3>11. QED
        BY <1>8, <3>3, <3>5, <3>6, <3>7, <3>8, <3>9, <3>10
           DEF Step, Rescan, NotFound, Mount, UnmountStaging, Remove, Check, Bind, Exists,
               Unmount, RemoveTarget, Fail
    <2>6. QED
      BY <2>1, <2>3, <2>4, <2>5
  <1>9. ASSUME NEW w \in Volumes, Write(w) \/ Attach(w) \/ Detach(w) PROVE Found(u)'
    <2>1. UNCHANGED <<pc, req, note, disk>>
      BY <1>9 DEF Write, Attach, Detach
    <2>2. CASE req[u] = None
      BY <1>6, <2>1, <2>2
    <2>3. CASE req[u] # None
      <3>1. Detach(w) => w # req[u].volume
        BY <1>2, <2>3, DetachStep
      <3>2. IsBehind(req[u].volume) => IsBehind(req[u].volume)'
        <4>1. ASSUME NEW v \in Volumes, Detach(w) => w # v, IsBehind(v) PROVE IsBehind(v)'
          BY <1>9, <4>1, BehindWorld
        <4>2. QED
          BY <1>4, <2>1, <2>3, <3>1, <4>1 DEF IsBehind
      <3>3. CASE Attach(w) /\ w = req[u].volume
        <4>1. lunOf[w] = None
          BY <3>3 DEF Attach
        <4>2. ~ IsBehind(w) /\ req[u].op # "stage" /\ pc[u] \notin {"flush", "remove"}
          BY <1>3, <2>3, <3>3, <4>1, NodeAssumption DEF Found, IsBehind
        <4>3. QED
          BY <1>3, <2>1, <3>3, <4>2 DEF Found
      <3>4. CASE ~ (Attach(w) /\ w = req[u].volume)
        <4>1. lunOf'[req[u].volume] = lunOf[req[u].volume]
          BY <1>4, <1>9, <2>3, <3>1, <3>4 DEF Write, Attach, Detach, TypeOK
        <4>2. QED
          BY <1>6, <2>1, <3>2, <4>1
      <3>5. QED
        BY <3>3, <3>4
    <2>4. QED
      BY <2>2, <2>3
  <1>10. CASE Multipathd \/ UNCHANGED vars
    <2>1. UNCHANGED <<pc, req, note, disk, lunOf>>
      BY <1>10 DEF Multipathd, vars, array
    <2>2. ASSUME NEW v \in Volumes, IsBehind(v) PROVE IsBehind(v)'
      BY <1>10, <2>2, BehindWorld
    <2>3. req[u] # None /\ IsBehind(req[u].volume) => IsBehind(req[u].volume)'
      BY <1>4, <2>1, <2>2 DEF IsBehind
    <2>4. QED
      BY <1>6, <2>1, <2>3
  <1>11. CASE Crash
    BY <1>11 DEF Crash, Found
  <1>12. QED
    BY <1>7, <1>8, <1>9, <1>10, <1>11 DEF Next

-----------------------------------------------------------------------------
(* Staging paths.                                                          *)

LEMMA StagesItsOwnNext ==
  ASSUME IInv, [Next]_vars
  PROVE  StagesItsOwn'
  <1> USE DEF IInv, Core
  <1>1. ASSUME NEW t \in Threads, Step(t) PROVE StagesItsOwn'
    <2>1. req[t].volume \in Volumes /\ torn' = torn
      BY <1>1, ThreadStep, RequestParts, StepFrame
    <2>2. SUFFICES ASSUME ~ torn, NEW w \in Volumes PROVE staging'[w] \in {None, w}
      BY <2>1 DEF StagesItsOwn
    <2>3. CASE Mount(t)
      <3>1. Behind(req[t].volume) = req[t].volume
        BY <2>1, <2>2, <2>3, BehindIs DEF Mount, FoundInv, Found
      <3>2. QED
        <4>1. \/ staging' = staging
              \/ \E y \in {None, req[t].volume} :
                    staging' = [staging EXCEPT ![req[t].volume] = y]
          BY Zenon, <1>1, <3>1, StagingStep
        <4>2. QED
          BY <2>1, <2>2, <4>1 DEF StagesItsOwn, TypeOK
    <2>4. CASE ~ Mount(t)
      BY <1>1, <2>1, <2>2, <2>4, StagingStep DEF StagesItsOwn, TypeOK
    <2>5. QED
      BY <2>3, <2>4
  <1>2. ASSUME NEW t \in Threads, Call(t) PROVE StagesItsOwn'
    BY <1>2, CallStep DEF StagesItsOwn, mounts, budget
  <1>3. CASE \/ \E v \in Volumes : Write(v) \/ Attach(v) \/ Detach(v)
             \/ Multipathd \/ Crash \/ UNCHANGED vars
    BY <1>3 DEF Write, Attach, Detach, Multipathd, Crash, vars, mounts, budget, StagesItsOwn
  <1>4. QED
    BY <1>1, <1>2, <1>3 DEF Next

LEMMA UnstagingNext ==
  ASSUME IInv, [Next]_vars
  PROVE  UnstagingInv'
  <1> USE DEF IInv, Core
  <1>1. ASSUME NEW t \in Threads, Step(t) PROVE UnstagingInv'
    <2>1. /\ pc[t] # "idle" /\ req[t] # None /\ req[t].volume \in Volumes
          /\ \A u \in Threads : u # t => pc'[u] = pc[u] /\ req'[u] = req[u]
          /\ GoesOn(t) \/ IsDone(t)
      BY <1>1, ThreadStep, RequestParts
    <2>2. ASSUME NEW u \in Threads, u # t PROVE UnstagingInv!(u)'
      <3>1. CASE req[u] = None
        BY <2>1, <2>2, <3>1 DEF LocksHeld
      <3>2. CASE req[u] # None
        <4>1. req[u].volume # req[t].volume /\ req[u].volume \in Volumes
          BY <2>1, <2>2, <3>2, RequestParts DEF LocksExclusive, LocksHeld
        <4>2. staging'[req[u].volume] = staging[req[u].volume]
          BY <1>1, <4>1, StepFrame
        <4>3. QED
          BY <2>1, <2>2, <4>2 DEF UnstagingInv
      <3>3. QED
        BY <3>1, <3>2
    <2>3. UnstagingInv!(t)'
      <3>1. CASE IsDone(t)
        BY <3>1 DEF IsDone
      <3>2. CASE GoesOn(t)
        <4>1. SUFFICES ASSUME pc'[t] \in {"find", "refind", "slaves", "flush", "remove"},
                              req[t].op = "unstage"
                       PROVE  staging'[req[t].volume] = None
          BY <3>2 DEF GoesOn
        <4>2. ~ Refuse(t) /\ ~ Answer(t)
          BY <3>2 DEF GoesOn, Refuse, Answer, Finish, Goto, TypeOK
        <4>3. Rescan(t) => req[t].op = "stage"
          BY DEF Rescan, PlaceInv
        <4>4. UnmountStaging(t) \/ pc[t] \in {"find", "refind", "slaves", "flush"}
          BY <1>1, <4>1, <4>2, <4>3
             DEF TypeOK, Continue, Goto, Step, Rescan, Find, Reload, NotFound, Probe, Format, Mount,
                 Slaves, Flush, Remove, Check, Bind, Exists, Unmount, RemoveTarget, Fail
        <4>5. CASE UnmountStaging(t)
          BY <2>1, <4>5 DEF UnmountStaging, TypeOK
        <4>6. CASE pc[t] \in {"find", "refind", "slaves", "flush"}
          <5>1. staging[req[t].volume] = None
            BY <4>1, <4>6 DEF UnstagingInv
          <5>2. ~ Mount(t)
            BY <4>6 DEF Mount
          <5>3. QED
            BY <1>1, <2>1, <5>1, <5>2, StagingStep DEF TypeOK
        <4>7. QED
          BY <4>4, <4>5, <4>6
      <3>3. QED
        BY <2>1, <3>1, <3>2
    <2>4. QED
      BY <2>2, <2>3 DEF UnstagingInv
  <1>2. ASSUME NEW t \in Threads, Call(t) PROVE UnstagingInv'
    <2>1. PICK r \in Request :
            /\ req' = [req EXCEPT ![t] = r] /\ pc' = [pc EXCEPT ![t] = First(r.op)]
            /\ UNCHANGED mounts
      BY <1>2, CallStep
    <2>2. First(r.op) \notin {"find", "refind", "slaves", "flush", "remove"}
      BY DEF First, Request, Op
    <2>3. pc'[t] = First(r.op) /\ \A u \in Threads : u # t => pc'[u] = pc[u] /\ req'[u] = req[u]
      BY <2>1 DEF TypeOK
    <2>4. staging' = staging
      BY <2>1 DEF mounts
    <2>5. QED
      BY <2>2, <2>3, <2>4 DEF UnstagingInv
  <1>3. CASE \/ \E v \in Volumes : Write(v) \/ Attach(v) \/ Detach(v)
             \/ Multipathd \/ Crash \/ UNCHANGED vars
    BY <1>3 DEF Write, Attach, Detach, Multipathd, Crash, vars, mounts, UnstagingInv
  <1>4. QED
    BY <1>1, <1>2, <1>3 DEF Next

LEMMA StagedNext ==
  ASSUME IInv, [Next]_vars
  PROVE  StagedInv'
  <1> USE DEF IInv, Core
  <1>1. ASSUME NEW t \in Threads, Step(t) PROVE StagedInv'
    <2>1. /\ pc[t] # "idle" /\ req[t] # None /\ req[t].volume \in Volumes /\ req[t].op \in Op
          /\ req[t].pod \in Pods
      BY <1>1, ThreadStep, RequestParts
    <2>2. torn' = torn /\ forced' = forced
      BY <1>1, StepFrame
    <2>3. SUFFICES ASSUME ~ torn, NEW v \in Volumes \ forced, staged'[v] = "yes"
                   PROVE  staging'[v] = v /\ IsBehind(v)'
      BY <2>2 DEF StagedInv
    <2>4. CASE v # req[t].volume
      <3>1. staged'[v] = staged[v] /\ staging'[v] = staging[v]
        BY <1>1, <2>4, StepFrame
      <3>2. staging[v] = v /\ IsBehind(v)
        BY <2>3, <3>1 DEF StagedInv
      <3>3. QED
        BY <1>1, <2>3, <2>4, <3>1, <3>2, BehindStep
    <2>5. CASE v = req[t].volume /\ req[t].op \in {"publish", "unpublish"}
      <3>1. pc[t] \notin {"mount", "unmountStaging", "flush", "remove"}
        BY <2>5 DEF PlaceInv
      <3>2. staging' = staging
        BY <1>1, <3>1, StepFrame DEF Mount, UnmountStaging
      <3>3. staged'[v] = staged[v]
        BY <1>1, <2>1, <2>5, StepFrame, AnswerTells DEF known
      <3>4. staging[v] = v /\ IsBehind(v)
        BY <2>3, <3>3 DEF StagedInv
      <3>5. QED
        BY <1>1, <2>3, <3>1, <3>2, <3>4, BehindStep
    <2>6. CASE v = req[t].volume /\ req[t].op \in {"stage", "unstage"}
      <3>1. staged[v] = "maybe"
        BY <2>1, <2>6 DEF OrchestratorInv
      <3>2. Answer(t) /\ req[t].op = "stage"
        BY <1>1, <2>1, <2>3, <2>6, <3>1, StepFrame, AnswerTells DEF known
      <3>3. Probe(t) \/ Mount(t)
        <4>1. ~ UNCHANGED known
          BY <2>3, <3>1 DEF known
        <4>2. QED
          BY <1>1, <3>2, <4>1 DEF PlaceInv, Step, Rescan, Find, Reload, NotFound, Format,
             UnmountStaging, Slaves, Flush, Remove, Check, Bind, Exists, Unmount, RemoveTarget,
             Fail, Continue, Refuse
      <3>4. pc[t] \in {"probe", "mount"}
        BY <3>3 DEF Probe, Mount
      <3>5. IsBehind(v) /\ Behind(v) = v
        BY <2>3, <2>6, <3>4, BehindIs DEF FoundInv, Found
      <3>6. IsBehind(v)'
        BY <1>1, <2>3, <3>4, <3>5, BehindStep
      <3>7. staging'[v] = v
        <4>1. ~ UNCHANGED known
          BY <2>3, <3>1 DEF known
        <4>2. CASE Probe(t)
          <5>1. ~ Refuse(t)
            BY <4>1 DEF Refuse
          <5>2. staging[v] # None /\ staging' = staging
            BY <2>6, <4>1, <4>2, <5>1 DEF Probe, mounts
          <5>3. QED
            BY <2>3, <5>2 DEF StagesItsOwn
        <4>3. CASE Mount(t)
          <5>1. ~ Refuse(t)
            BY <4>1 DEF Refuse
          <5>2. staging' = [staging EXCEPT ![v] = v]
            BY <2>6, <3>5, <4>3, <5>1 DEF Mount
          <5>3. QED
            BY <5>2 DEF TypeOK
        <4>4. QED
          BY <3>3, <4>2, <4>3
      <3>8. QED
        BY <3>6, <3>7
    <2>7. QED
      BY <2>1, <2>4, <2>5, <2>6 DEF Op
  <1>2. ASSUME NEW t \in Threads, Call(t) PROVE StagedInv'
    <2>1. PICK r \in Request :
            /\ staged' = IF r.op \in {"stage", "unstage"}
                           THEN [staged EXCEPT ![r.volume] = "maybe"] ELSE staged
            /\ UNCHANGED <<mounts, budget>>
      BY <1>2, CallStep
    <2>2. \A v \in Volumes : staged'[v] = "yes" => staged[v] = "yes"
      BY <2>1 DEF TypeOK
    <2>3. ASSUME NEW v \in Volumes, IsBehind(v) PROVE IsBehind(v)'
      BY <1>2, <2>3, BehindWorld
    <2>4. UNCHANGED <<staging, torn, forced>>
      BY <2>1 DEF mounts, budget
    <2>5. QED
      BY <2>2, <2>3, <2>4 DEF StagedInv
  <1>3. ASSUME NEW w \in Volumes, Detach(w) PROVE StagedInv'
    <2>1. ASSUME NEW v \in Volumes, v # w, IsBehind(v) PROVE IsBehind(v)'
      BY <1>3, <2>1, BehindWorld
    <2>2. UNCHANGED <<staged, staging>> /\ forced \subseteq forced'
      BY <1>3 DEF Detach, known, mounts
    <2>3. torn => torn'
      BY <1>3, Zenon DEF Detach
    <2>4. staged[w] = "yes" => w \in forced'
      BY <1>3 DEF Detach
    <2>5. QED
      BY <2>1, <2>2, <2>3, <2>4 DEF StagedInv
  <1>4. CASE \/ \E v \in Volumes : Write(v) \/ Attach(v)
             \/ Multipathd \/ Crash \/ UNCHANGED vars
    <2>1. ASSUME NEW v \in Volumes, IsBehind(v) PROVE IsBehind(v)'
      BY <1>4, <2>1, BehindWorld
    <2>2. UNCHANGED <<staged, staging, torn, forced>>
      BY <1>4 DEF Write, Attach, Multipathd, Crash, vars, known, mounts, budget
    <2>3. QED
      BY <2>1, <2>2 DEF StagedInv
  <1>5. QED
    BY <1>1, <1>2, <1>3, <1>4 DEF Next

-----------------------------------------------------------------------------
(* While no volume was detached by force.                                  *)

(* What a handler's step does to the devices.                              *)
LEMMA DeviceStep ==
  ASSUME IInv, forced = {}, NEW t \in Threads, Step(t)
  PROVE  LET v == req[t].volume
         IN  \/ UNCHANGED devices
             \/ /\ pc[t] = "rescan" /\ pc'[t] = "find" /\ dm' = dm
                /\ \E l \in Luns : lunOf[v] = l /\ sd[l] = None /\ sd' = [sd EXCEPT ![l] = v]
             \/ /\ pc[t] = "find" /\ pc'[t] = "refind" /\ sd' = sd
                /\ dm' = [w \in Volumes |-> Built(w)]
             \/ pc[t] = "flush" /\ sd' = sd /\ dm' = [dm EXCEPT ![v] = None]
             \/ /\ pc[t] = "remove"
                /\ \E l \in Luns :
                     /\ lunOf[v] = l /\ sd' = [sd EXCEPT ![l] = None]
                     /\ dm' = [w \in Volumes |-> IF dm[w] = l THEN None ELSE dm[w]]
  <1> USE DEF IInv, Core
  <1> DEFINE v == req[t].volume
  <1>1. ~ torn
    BY DEF OrchestratorInv
  <1>2. pc[t] # "idle" /\ req[t] # None /\ v \in Volumes
    BY ThreadStep, RequestParts
  <1>3. CASE Rescan(t)
    <2> DEFINE l == req[t].lun
    <2>1. l \in Luns /\ req[t].op = "stage"
      BY <1>2, <1>3 DEF Rescan, PlaceInv
    <2>2. lunOf[v] = l
      BY <1>2, <2>1 DEF DeviceInv
    <2>3. Reached(l) = v
      BY <1>2, <2>1, <2>2, ReachedIs
    <2>4. pc'[t] = "find" /\ dm' = dm /\ pc[t] = "rescan"
      BY <1>3 DEF Rescan, Continue, Goto, TypeOK
    <2>5. sd' = IF sd[l] = None THEN [sd EXCEPT ![l] = v] ELSE sd
      BY <1>3, <2>3 DEF Rescan
    <2> HIDE DEF l, v
    <2>6. QED
      BY <2>1, <2>2, <2>4, <2>5 DEF devices, v
  <1>4. CASE Reload(t)
    BY <1>4 DEF Reload, Continue, Goto, TypeOK
  <1>5. CASE Flush(t)
    BY <1>5 DEF Flush, devices
  <1>6. CASE Remove(t)
    <2>1. note[t] \in Luns /\ note[t] = lunOf[v]
      BY <1>1, <1>6 DEF Remove, FoundInv, Found
    <2>2. QED
      BY <1>6, <2>1 DEF Remove
  <1>7. QED
    BY <1>3, <1>4, <1>5, <1>6, StepFrame

(* Maps are built of devices of their volume; one is missing only when     *)
(* there is no device either.                                              *)
LEMMA BuiltFromDevices ==
  ASSUME IInv, forced = {}, NEW v \in Volumes
  PROVE  /\ \A l \in Luns : Built(v) = l => sd[l] = v
         /\ Built(v) = None => \A l \in Luns : sd[l] # v
         /\ (\A l \in Luns : sd[l] # v) => Built(v) = dm[v]
  <1> USE DEF IInv, Core
  <1>1. \A l \in Luns : Built(v) = l => sd[l] = v
    BY BuiltIs, NodeAssumption DEF DeviceInv
  <1>2. ASSUME Built(v) = None, NEW l \in Luns, sd[l] = v PROVE FALSE
    <2>1. dm[v] = None
      BY <1>2, BuiltIs
    <2>2. PICK w \in Volumes : dm[w] = l
      BY <1>2, <2>1, BuiltIs
    <2>3. sd[l] = w
      BY <2>2 DEF DeviceInv
    <2>4. QED
      BY <1>2, <2>1, <2>2, <2>3, NodeAssumption
  <1>3. ASSUME \A l \in Luns : sd[l] # v PROVE Built(v) = dm[v]
    BY <1>1, <1>3, BuiltIs
  <1>4. QED
    BY <1>1, <1>2, <1>3

(* A LUN then never reaches another volume than its device was found for.  *)
LEMMA MultipathdBuilds ==
  ASSUME IInv, forced = {}, Multipathd
  PROVE  dm' = [v \in Volumes |-> Built(v)] /\ UNCHANGED <<sd, lunOf>>
  <1> USE DEF IInv, Core
  <1>1. ASSUME NEW l \in Luns, sd[l] # None PROVE Reached(l) = sd[l]
    <2>1. sd[l] \in Volumes
      BY <1>1 DEF TypeOK
    <2>2. lunOf[sd[l]] = l
      BY <2>1 DEF DeviceInv
    <2>3. QED
      BY <2>1, <2>2, ReachedIs
  <1>2. QED
    BY <1>1 DEF Multipathd, array

LEMMA DeviceNext ==
  ASSUME IInv, [Next]_vars
  PROVE  DeviceInv'
  <1> USE DEF IInv, Core
  <1>1. ASSUME NEW t \in Threads, Step(t) PROVE DeviceInv'
    <2>1. forced' = forced /\ lunOf' = lunOf
      BY <1>1, StepFrame
    <2>2. SUFFICES ASSUME forced = {} PROVE DeviceInv'
      BY <2>1 DEF DeviceInv
    <2> DEFINE m == req[t].volume
    <2>3. /\ req[t] # None /\ m \in Volumes
          /\ \A u \in Threads : u # t => pc'[u] = pc[u] /\ req'[u] = req[u]
          /\ GoesOn(t) \/ IsDone(t)
      BY <1>1, ThreadStep, RequestParts
    <2>4. /\ \A v \in Volumes, l \in Luns : sd[l] = v => lunOf[v] = l
          /\ \A v \in Volumes, l \in Luns : dm[v] = l => sd[l] = v
      BY <2>2 DEF DeviceInv
    <2>5. \A v \in Volumes, l \in Luns : sd'[l] = v => lunOf'[v] = l
      <3>1. \A l \in Luns : sd'[l] \in {sd[l], None} \/ (sd'[l] = m /\ lunOf[m] = l)
        <4>1. \/ sd' = sd
              \/ \E l \in Luns : lunOf[m] = l /\ sd' = [sd EXCEPT ![l] = m]
              \/ \E l \in Luns : sd' = [sd EXCEPT ![l] = None]
          BY <1>1, <2>2, DeviceStep DEF devices
        <4> HIDE DEF m
        <4>2. CASE \E l \in Luns : lunOf[m] = l /\ sd' = [sd EXCEPT ![l] = m]
          <5>1. PICK k \in Luns : lunOf[m] = k /\ sd' = [sd EXCEPT ![k] = m]
            BY <4>2
          <5>2. sd'[k] = m /\ \A l \in Luns : l # k => sd'[l] = sd[l]
            BY <5>1 DEF TypeOK
          <5>3. QED
            BY <5>1, <5>2
        <4>3. CASE \E l \in Luns : sd' = [sd EXCEPT ![l] = None]
          BY <4>3 DEF TypeOK
        <4>4. QED
          BY <4>1, <4>2, <4>3
      <3>2. QED
        BY <2>1, <2>4, <3>1, NodeAssumption
    <2>6. \A v \in Volumes, l \in Luns : dm'[v] = l => sd'[l] = v
      <3>1. CASE UNCHANGED devices
        BY <2>4, <3>1 DEF devices
      <3>2. CASE dm' = dm /\ \E l \in Luns : sd[l] = None /\ sd' = [sd EXCEPT ![l] = m]
        BY <2>4, <3>2, NodeAssumption DEF TypeOK
      <3>3. CASE sd' = sd /\ dm' = [w \in Volumes |-> Built(w)]
        BY <2>2, <3>3, BuiltFromDevices
      <3>4. CASE sd' = sd /\ dm' = [dm EXCEPT ![m] = None]
        BY <2>4, <3>4, NodeAssumption DEF TypeOK
      <3>5. CASE \E l \in Luns :
                   /\ sd' = [sd EXCEPT ![l] = None]
                   /\ dm' = [w \in Volumes |-> IF dm[w] = l THEN None ELSE dm[w]]
        BY <2>4, <3>5, NodeAssumption DEF TypeOK
      <3>6. QED
        BY <1>1, <2>2, <3>1, <3>2, <3>3, <3>4, <3>5, DeviceStep
    <2>7. \A u \in Threads :
            req'[u] # None => (req'[u].op = "stage" => lunOf'[req'[u].volume] = req'[u].lun)
      BY <2>1, <2>2, <2>3 DEF DeviceInv, GoesOn, IsDone
    <2>8. ASSUME NEW u \in Threads, pc'[u] = "refind", NEW l \in Luns, sd'[l] = req'[u].volume
          PROVE  dm'[req'[u].volume] # None
      <3> DEFINE v == req'[u].volume
      <3>1. req'[u] = req[u] /\ req[u] # None /\ v \in Volumes /\ (u # t => pc[u] = "refind" /\ v # m)
        <4>1. req'[u] = req[u] /\ (u # t => pc[u] = "refind")
          BY <2>3, <2>8 DEF IsDone, GoesOn
        <4>2. req[u] # None
          BY <2>3, <2>8, <4>1 DEF LocksHeld
        <4>3. QED
          BY <2>3, <4>1, <4>2, RequestParts DEF LocksHeld, LocksExclusive
      <3> HIDE DEF v
      <3>2. CASE dm' = [w \in Volumes |-> Built(w)] /\ sd' = sd
        BY <2>2, <2>8, <3>1, <3>2, BuiltFromDevices DEF v
      <3>3. CASE u = t /\ ~ (dm' = [w \in Volumes |-> Built(w)] /\ sd' = sd)
        <4>1. ~ Refuse(t) /\ ~ Answer(t)
          BY <2>8, <3>3 DEF Refuse, Answer, Finish, Goto, TypeOK
        <4>2. Reload(t)
          <5>1. Find(t) => pc'[t] \in {"probe", "slaves"}
            BY DEF Find, Continue, Goto, TypeOK
          <5>2. QED
            BY <1>1, <2>8, <3>3, <4>1, <5>1
               DEF TypeOK, Continue, Goto, Step, Rescan, NotFound, Probe, Format, Mount,
                 UnmountStaging, Slaves, Flush, Remove, Check, Bind, Exists, Unmount, RemoveTarget, Fail
        <4>3. QED
          BY <3>3, <4>2 DEF Reload
      <3>4. CASE u # t
        <4>1. sd[l] = v => dm[v] # None
          BY <2>2, <2>8, <3>1, <3>4 DEF DeviceInv, v
        <4>2. sd'[l] = v
          BY <2>8 DEF v
        <4> HIDE DEF m
        <4>3. sd[l] = v
          <5>1. sd'[l] \in {sd[l], None, m}
            BY <1>1, <2>2, DeviceStep DEF devices, TypeOK, m
          <5>2. QED
            BY <3>1, <3>4, <4>2, <5>1, NodeAssumption
        <4>4. dm'[v] = dm[v] \/ dm'[v] = Built(v) \/ \E k \in Luns : lunOf[m] = k /\ dm[v] = k
          <5>1. \/ dm' = dm
                \/ dm' = [w \in Volumes |-> Built(w)]
                \/ dm' = [dm EXCEPT ![m] = None]
                \/ \E k \in Luns :
                     /\ lunOf[m] = k
                     /\ dm' = [w \in Volumes |-> IF dm[w] = k THEN None ELSE dm[w]]
            BY <1>1, <2>2, DeviceStep DEF devices, m
          <5>2. QED
            BY <3>1, <3>4, <5>1 DEF TypeOK
        <4>5. ASSUME NEW k \in Luns, lunOf[m] = k, dm[v] = k PROVE FALSE
          <5>1. lunOf[v] = k
            BY <2>4, <3>1, <4>5
          <5>2. QED
            BY <2>3, <3>1, <3>4, <4>5, <5>1, NodeAssumption DEF LunsDistinct, m
        <4>6. Built(v) # None
          BY <2>2, <3>1, <4>3, BuiltFromDevices
        <4>7. QED
          BY <4>1, <4>3, <4>4, <4>5, <4>6 DEF v
      <3>5. QED
        BY <3>2, <3>3, <3>4
    <2>9. QED
      BY <2>5, <2>6, <2>7, <2>8 DEF DeviceInv
  <1>2. ASSUME NEW t \in Threads, Call(t) PROVE DeviceInv'
    <2>1. PICK r \in Request :
            /\ May(r) /\ req' = [req EXCEPT ![t] = r] /\ pc' = [pc EXCEPT ![t] = First(r.op)]
            /\ UNCHANGED <<array, devices, budget>>
      BY <1>2, CallStep
    <2>2. First(r.op) # "refind"
      BY DEF First, Request, Op
    <2>3. UNCHANGED <<lunOf, sd, dm, forced>>
      BY <2>1 DEF array, devices, budget
    <2>4. /\ pc'[t] = First(r.op) /\ req'[t] = r
          /\ \A u \in Threads : u # t => pc'[u] = pc[u] /\ req'[u] = req[u]
      BY <2>1 DEF TypeOK
    <2>5. r.op = "stage" => lunOf[r.volume] = r.lun
      BY <2>1 DEF May
    <2>6. QED
      BY <2>2, <2>3, <2>4, <2>5 DEF DeviceInv
  <1>3. ASSUME NEW v \in Volumes, Attach(v) PROVE DeviceInv'
    <2>1. /\ lunOf[v] = None /\ UNCHANGED <<sd, dm, pc, req, forced>>
          /\ \A w \in Volumes : w # v => lunOf'[w] = lunOf[w]
      BY <1>3 DEF Attach, TypeOK, devices, budget
    <2>2. ASSUME forced = {}, NEW l \in Luns PROVE sd[l] # v
      BY <2>1, <2>2, NodeAssumption DEF DeviceInv
    <2>3. ASSUME forced = {}, NEW u \in Threads, req[u] # None, req[u].op = "stage"
          PROVE  req[u].volume # v /\ req[u].volume \in Volumes
      <3>1. req[u].volume \in Volumes
        BY <2>3, RequestParts DEF LocksHeld
      <3>2. lunOf[req[u].volume] = req[u].lun
        BY <2>3 DEF DeviceInv
      <3>3. req[u].lun # None
        BY <2>3, NodeAssumption DEF PlaceInv
      <3>4. QED
        BY <2>1, <3>1, <3>2, <3>3
    <2>4. QED
      BY <2>1, <2>2, <2>3 DEF DeviceInv
  <1>4. ASSUME NEW v \in Volumes, Detach(v) PROVE DeviceInv'
    <2>1. SUFFICES ASSUME forced' = {} PROVE DeviceInv'
      BY DEF DeviceInv
    <2>2. staged[v] = "no" /\ UNCHANGED <<forced, torn>>
      BY <1>4, <2>1 DEF Detach
    <2>3. ~ torn'
      BY <2>1, <2>2 DEF OrchestratorInv
    <2>4. /\ UNCHANGED <<sd, dm, pc, req>>
          /\ \A w \in Volumes : w # v => lunOf'[w] = lunOf[w]
      BY <1>4 DEF Detach, TypeOK, devices
    <2>5. \A l \in Luns : sd[l] # v
      BY <2>1, <2>2 DEF UnstagedLeavesNothing
    <2>6. \A u \in Threads : req[u] # None => req[u].volume # v /\ req[u].volume \in Volumes
      BY <1>4, <2>3, DetachStep, RequestParts DEF LocksHeld
    <2>7. QED
      BY <2>1, <2>2, <2>4, <2>5, <2>6 DEF DeviceInv
  <1>5. CASE Multipathd
    <2>1. SUFFICES ASSUME forced = {} PROVE DeviceInv'
      BY <1>5 DEF Multipathd, DeviceInv, budget
    <2>2. /\ dm' = [v \in Volumes |-> Built(v)]
          /\ UNCHANGED <<sd, lunOf, pc, req, forced>>
      BY <1>5, <2>1, MultipathdBuilds DEF Multipathd, budget
    <2>3. \A u \in Threads : pc[u] = "refind" => req[u].volume \in Volumes
      BY RequestParts
    <2>4. QED
      BY <2>1, <2>2, <2>3, BuiltFromDevices DEF DeviceInv
  <1>6. CASE Crash
    BY <1>6 DEF Crash, DeviceInv, array, devices
  <1>7. CASE (\E v \in Volumes : Write(v)) \/ UNCHANGED vars
    BY <1>7 DEF Write, vars, DeviceInv, devices, budget
  <1>8. QED
    BY <1>1, <1>2, <1>3, <1>4, <1>5, <1>6, <1>7 DEF Next

LEMMA UnstagedNext ==
  ASSUME IInv, [Next]_vars
  PROVE  UnstagedLeavesNothing'
  <1> USE DEF IInv, Core
  <1>1. ASSUME NEW t \in Threads, Step(t) PROVE UnstagedLeavesNothing'
    <2> DEFINE m == req[t].volume
    <2>1. /\ pc[t] # "idle" /\ req[t] # None /\ m \in Volumes
          /\ req[t].op \in Op /\ req[t].pod \in Pods
      BY <1>1, ThreadStep, RequestParts
    <2>2. forced' = forced
      BY <1>1, StepFrame
    <2>3. SUFFICES ASSUME NEW v \in Volumes, staged'[v] = "no"
                   PROVE  /\ staging'[v] = None
                          /\ forced = {} => dm'[v] = None /\ \A l \in Luns : sd'[l] # v
      BY <2>2 DEF UnstagedLeavesNothing
    <2>4. CASE v # m
      <3>1. staged[v] = "no" /\ staging'[v] = staging[v]
        BY <1>1, <2>3, <2>4, StepFrame
      <3>2. staging'[v] = None
        BY <3>1 DEF UnstagedLeavesNothing
      <3>3. ASSUME forced = {} PROVE dm'[v] = None /\ \A l \in Luns : sd'[l] # v
        <4>1. dm[v] = None /\ \A l \in Luns : sd[l] # v
          BY <3>1, <3>3 DEF UnstagedLeavesNothing
        <4>2. Built(v) = None
          BY <3>3, <4>1, BuiltFromDevices
        <4> HIDE DEF m
        <4>3. \A l \in Luns : sd'[l] \in {sd[l], None, m}
          BY <1>1, <3>3, DeviceStep DEF devices, TypeOK, m
        <4>4. dm'[v] \in {dm[v], None, Built(v)}
          <5>1. CASE dm' = dm
            BY <5>1
          <5>2. CASE dm' = [w \in Volumes |-> Built(w)]
            BY <5>2
          <5>3. CASE \E x : dm' = [dm EXCEPT ![x] = None]
            BY <5>3 DEF TypeOK
          <5>4. CASE \E l : dm' = [w \in Volumes |-> IF dm[w] = l THEN None ELSE dm[w]]
            BY <5>4
          <5>5. QED
            BY Zenon, <1>1, <3>3, <5>1, <5>2, <5>3, <5>4, DeviceStep DEF devices
        <4>5. QED
          BY <2>4, <4>1, <4>2, <4>3, <4>4, NodeAssumption
      <3>4. QED
        BY <3>2, <3>3
    <2>5. CASE v = m
      <3>1. Answer(t) /\ req[t].op = "unstage" /\ ~ UNCHANGED known
        <4>1. staged[v] # "no"
          BY <2>1, <2>5 DEF OrchestratorInv, Op
        <4>2. QED
          BY <1>1, <2>1, <2>3, <2>5, <4>1, StepFrame, AnswerTells DEF known
      <3>2. NotFound(t) \/ Remove(t)
        BY <1>1, <3>1 DEF PlaceInv, Step, Rescan, Find, Reload, Probe, Format, Mount,
           UnmountStaging, Slaves, Flush, Check, Bind, Exists, Unmount, RemoveTarget,
           Fail, Continue, Refuse
      <3>3. staging'[v] = None
        BY <2>5, <3>1, <3>2 DEF NotFound, Remove, mounts, UnstagingInv
      <3>4. ASSUME forced = {} PROVE dm'[v] = None /\ \A l \in Luns : sd'[l] # v
        <4>1. \A w \in Volumes, l \in Luns : (sd[l] = w => lunOf[w] = l) /\ (dm[w] = l => sd[l] = w)
          BY <3>4 DEF DeviceInv
        <4>2. CASE NotFound(t)
          <5>1. ~ Refuse(t)
            BY <3>1 DEF Refuse
          <5>2. pc[t] = "refind" /\ Behind(v) # v /\ UNCHANGED <<sd, dm>>
            BY <2>5, <4>2, <5>1 DEF NotFound, devices
          <5>3. dm[v] = None
            <6>1. ~ IsBehind(v)
              BY <5>2, BehindIs
            <6>2. ASSUME dm[v] # None PROVE FALSE
              <7>1. dm[v] \in Luns /\ sd[dm[v]] = v /\ lunOf[v] = dm[v]
                BY <4>1, <6>2 DEF TypeOK
              <7>2. QED
                BY <6>1, <6>2, <7>1, NodeAssumption DEF IsBehind
            <6>3. QED
              BY <6>2
          <5>4. \A l \in Luns : sd[l] # v
            BY <2>5, <3>4, <5>2, <5>3 DEF DeviceInv
          <5>5. QED
            BY <5>2, <5>3, <5>4
        <4>3. CASE Remove(t)
          <5>1. ~ torn
            BY <3>4 DEF OrchestratorInv
          <5>2. note[t] \in Luns /\ note[t] = lunOf[v]
            BY <2>5, <4>3, <5>1 DEF Remove, FoundInv, Found
          <5>3. /\ sd' = [sd EXCEPT ![note[t]] = None]
                /\ dm' = [w \in Volumes |-> IF dm[w] = note[t] THEN None ELSE dm[w]]
            BY <4>3 DEF Remove
          <5>4. \A l \in Luns : sd'[l] # v
            BY <4>1, <5>2, <5>3, NodeAssumption DEF TypeOK
          <5>5. dm'[v] = None
            <6>1. dm[v] \in Luns => dm[v] = note[t]
              BY <4>1, <5>2
            <6>2. QED
              BY <5>3, <6>1 DEF TypeOK
          <5>6. QED
            BY <5>4, <5>5
        <4>4. QED
          BY <3>2, <4>2, <4>3
      <3>5. QED
        BY <3>3, <3>4
    <2>6. QED
      BY <2>4, <2>5
  <1>2. ASSUME NEW t \in Threads, Call(t) PROVE UnstagedLeavesNothing'
    <2>1. PICK r \in Request :
            /\ staged' = IF r.op \in {"stage", "unstage"}
                           THEN [staged EXCEPT ![r.volume] = "maybe"] ELSE staged
            /\ UNCHANGED <<devices, mounts, budget>>
      BY <1>2, CallStep
    <2>2. \A v \in Volumes : staged'[v] = "no" => staged[v] = "no"
      BY <2>1 DEF TypeOK
    <2>3. UNCHANGED <<sd, dm, staging, forced>>
      BY <2>1 DEF devices, mounts, budget
    <2>4. QED
      BY <2>2, <2>3 DEF UnstagedLeavesNothing
  <1>3. CASE Multipathd
    <2>1. UNCHANGED <<staging, staged, forced>>
      BY <1>3 DEF Multipathd, mounts, known, budget
    <2>2. ASSUME forced = {}, NEW v \in Volumes, staged[v] = "no"
          PROVE  dm'[v] = None /\ \A l \in Luns : sd'[l] # v
      <3>1. dm[v] = None /\ \A l \in Luns : sd[l] # v
        BY <2>2 DEF UnstagedLeavesNothing
      <3>2. Built(v) = dm[v]
        BY <2>2, <3>1, BuiltFromDevices
      <3>3. QED
        BY <1>3, <2>2, <3>1, <3>2, MultipathdBuilds
    <2>3. QED
      BY <2>1, <2>2 DEF UnstagedLeavesNothing
  <1>4. CASE (\E v \in Volumes : Write(v) \/ Attach(v) \/ Detach(v)) \/ Crash \/ UNCHANGED vars
    <2>1. UNCHANGED <<sd, dm, staging, staged>> /\ (forced' = {} => forced = {})
      BY <1>4 DEF Write, Attach, Detach, Crash, vars, devices, mounts, known, budget
    <2>2. QED
      BY <2>1 DEF UnstagedLeavesNothing
  <1>5. QED
    BY <1>1, <1>2, <1>3, <1>4 DEF Next

-----------------------------------------------------------------------------
(* The theorems.                                                           *)

LEMMA IInvInit == Init => IInv
  <1> SUFFICES ASSUME Init PROVE IInv
    OBVIOUS
  <1>1. TypeOK
    BY TypeInit
  <1>2. LocksHeld /\ LocksExclusive /\ PlaceInv /\ TargetInv
    BY DEF Init, LocksHeld, LocksExclusive, PlaceInv, TargetInv
  <1>3. OrchestratorInv /\ PublishedIsMounted /\ UnstagedLeavesNothing
    BY NodeAssumption DEF Init, OrchestratorInv, PublishedIsMounted, UnstagedLeavesNothing
  <1>4. DiskInv
    BY NodeAssumption DEF Init, DiskInv
  <1>5. LunsDistinct /\ UnstagingInv /\ StagesItsOwn /\ StagedInv
    BY DEF Init, LunsDistinct, UnstagingInv, StagesItsOwn, StagedInv
  <1>6. FoundInv
    BY DEF Init, FoundInv, Found
  <1>7. DeviceInv
    BY NodeAssumption DEF Init, DeviceInv
  <1>8. QED
    BY <1>1, <1>2, <1>3, <1>4, <1>5, <1>6, <1>7 DEF IInv, Core

LEMMA IInvNext == IInv /\ [Next]_vars => IInv'
  <1> SUFFICES ASSUME IInv, [Next]_vars PROVE IInv'
    OBVIOUS
  <1>1. QED
    BY TypeNext, LocksNext, PlaceNext, OrchestratorNext, TargetNext, PublishedNext, DiskNext,
       LunsNext, FoundNext, UnstagingNext, StagedNext, DeviceNext, StagesItsOwnNext, UnstagedNext
       DEF IInv, Core

THEOREM Invariance == Spec => []IInv
  BY IInvInit, IInvNext, PTL DEF Spec

(* Every variable keeps to its type; with it, no target path is ever       *)
(* mounted twice over.                                                     *)
THEOREM TypeCorrect == Spec => []TypeOK
  <1>1. IInv => TypeOK
    BY DEF IInv
  <1>2. QED
    BY <1>1, Invariance, PTL

(* A staging path never carries another volume: the map whose LUN was      *)
(* verified stays the volume's until its handler is done.                  *)
THEOREM StagesOwnVolume == Spec => []StagesItsOwn
  <1>1. IInv => StagesItsOwn
    BY DEF IInv, Core
  <1>2. QED
    BY <1>1, Invariance, PTL

(* The mount, the map and the device of a volume reported as staged stay   *)
(* through any work on other volumes.                                      *)
THEOREM StagedVolumeStays == Spec => []StagedStays
  <1>1. IInv => StagedStays
    <2> SUFFICES ASSUME IInv, ~ torn, NEW v \in Volumes \ forced, staged[v] = "yes"
                 PROVE  staging[v] = v /\ Behind(v) = v
      BY DEF StagedStays
    <2>1. staging[v] = v /\ IsBehind(v)
      BY DEF IInv, Core, StagedInv
    <2>2. QED
      BY <2>1, BehindIs DEF IInv, Core
  <1>2. QED
    BY <1>1, Invariance, PTL

(* A target reported as published is mounted once, one reported as         *)
(* unpublished is gone, whatever failed or crashed on the way.             *)
THEOREM PublishedTargetIsMounted == Spec => []PublishedIsMounted
  <1>1. IInv => PublishedIsMounted
    BY DEF IInv, Core
  <1>2. QED
    BY <1>1, Invariance, PTL

(* An unstaged volume left no mount and, without forced detaches, neither  *)
(* map nor device.                                                         *)
THEOREM UnstagedIsClean == Spec => []UnstagedLeavesNothing
  <1>1. IInv => UnstagedLeavesNothing
    BY DEF IInv, Core
  <1>2. QED
    BY <1>1, Invariance, PTL

(* No step of the node service loses what was written to a volume, unless  *)
(* a volume was detached under a request for it.                           *)
THEOREM NoDataLost == Spec => DataKept
  <1>1. IInv /\ [Next]_vars => [\A v \in Volumes : data[v] /\ ~ data'[v] => torn]_vars
    BY DataNext
  <1>2. QED
    BY <1>1, Invariance, PTL DEF Spec, DataKept
=============================================================================
