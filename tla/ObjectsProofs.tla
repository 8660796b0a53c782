---------------------------- MODULE ObjectsProofs ----------------------------
(***************************************************************************)
(* Theorems about the volumes and snapshots of Arrays, for every number of *)
(* threads, names, identifiers, requests, failures and restarts: those of  *)
(* Spectrum Virtualize with the snapshot function, of DS8000 and of the    *)
(* requests that are routed, and, with those of ArraysProofs, of all.      *)
(***************************************************************************)
EXTENDS ArraysProofs

-----------------------------------------------------------------------------
(* Spectrum Virtualize with the snapshot function.                         *)

(* Until it gets its name, what a thread has made from a source belongs to *)
(* the thread's temporary group or to none, and nothing else is in the     *)
(* group.                                                                  *)
FunctionHand(t) ==
  pc[t] # "idle" =>
    /\ pc[t] \in FunctionPlace /\ local[t] \in Memo({})
    /\ pc[t] \in {"find", "snapshot", "create", "readGroup"} => Creates(t) /\ local[t].mine = None
    /\ pc[t] \in {"leave", "removeGroup", "rename", "removeSnapshot", "readBack", "undoVolume", "undoGroup"} =>
         Makes(t)
    /\ pc[t] \in {"readGroup", "leave", "removeGroup", "rename", "removeSnapshot", "undoVolume", "undoGroup"} =>
         IsCopy(t)
    /\ pc[t] \in {"look", "remove"} => Deletes(t)
    /\ pc[t] \in {"expand", "extend"} => Expands(t)
    /\ pc[t] = "snapshot" /\ ~ IsCopy(t) => req[t].op = "createSnapshot"
    /\ pc[t] = "create" => req[t].op = "createVolume"
    /\ pc[t] = "create" /\ ~ IsCopy(t) => Named(req[t].name) = {}
    /\ Makes(t) => local[t].mine <= array.made
    /\ pc[t] \in {"leave", "removeGroup", "rename", "undoVolume"} =>
         /\ Exists(local[t].mine)
         /\ object[local[t].mine].name = None /\ object[local[t].mine].from = req[t].uid
    /\ pc[t] \in {"removeSnapshot", "readBack"} =>
         Exists(local[t].mine) /\ object[local[t].mine].name = req[t].name
    /\ pc[t] = "leave" => object[local[t].mine].group = req[t].name
    /\ pc[t] \in {"removeGroup", "rename"} => object[local[t].mine].group = None
    /\ pc[t] \in {"removeGroup", "rename", "undoVolume", "undoGroup"} =>
         \A u \in Ids : Exists(u) /\ object[u].group = req[t].name => u = local[t].mine
    /\ pc[t] = "undoVolume" => object[local[t].mine].group \in {None, req[t].name}
    /\ pc[t] = "undoGroup" => ~ Exists(local[t].mine)
    /\ pc[t] = "extend" /\ Exists(local[t].mine) => object[local[t].mine].size < req[t].size

FunctionArray ==
  array \in [object : [Ids -> FunctionObject \union {None}], made : {0} \union Ids,
             groups : SUBSET VolumeNames, temporary : [VolumeNames -> Ids \union {None}]]

FunctionData(u) ==
  Exists(u) =>
    /\ object[u].name # None =>
         object[u].from = known.asked[object[u].name].uid /\ object[u].group = None
    /\ object[u].group # None =>
         /\ object[u].group \in array.groups /\ known.asked[object[u].group] # None
         /\ object[u].from = known.asked[object[u].group].uid
         /\ u \notin known.deleting

(* No two objects have a name or a group in common.                        *)
FunctionApart ==
  \A u, w \in Ids : Exists(u) /\ Exists(w) =>
    /\ object[u].name = object[w].name /\ object[u].name # None => u = w
    /\ object[u].group = object[w].group /\ object[u].group # None => u = w

FunctionTemporary ==
  \A n \in VolumeNames : array.temporary[n] # None =>
    known.asked[n] # None /\ array.temporary[n] = known.asked[n].uid

FunctionWorld ==
  /\ FunctionArray
  /\ memory = <<>> /\ failures \in Nat
  /\ \A u \in Ids : Obj(u) /\ FunctionData(u)
  /\ FunctionApart /\ FunctionTemporary

MadeApart ==
  \A t, w \in Threads : t # w /\ Makes(t) /\ Makes(w) => local[t].mine # local[w].mine

FunctionInv ==
  /\ service = "snapshotFunction" /\ ObjectsInv /\ FunctionWorld /\ MadeApart
  /\ \A t \in Threads : FunctionHand(t)

LEMMA FunctionKnows ==
  ASSUME FunctionInv
  PROVE  /\ ObjectsInv /\ Locked /\ KnownInv /\ (\A u \in Ids : Obj(u) /\ FunctionData(u))
         /\ failures \in Nat /\ array.made \in Nat /\ service = "snapshotFunction" /\ FunctionWorld
         /\ memory = <<>> /\ FunctionArray /\ FunctionApart /\ FunctionTemporary /\ MadeApart
         /\ \A t \in Threads : FunctionHand(t) /\ RoleInv(t) /\ RequestInv(t) /\ SourceInv(t)
<1>1. /\ ObjectsInv /\ FunctionWorld /\ service = "snapshotFunction" /\ MadeApart
      /\ \A t \in Threads : FunctionHand(t)
  BY DEF FunctionInv
<1>2. FunctionArray
  BY <1>1 DEF FunctionWorld
<1>3. array.made \in Nat
  <2>1. array.made = 0 \/ array.made \in Ids
    BY <1>2 DEF FunctionArray
  <2>2. \A u \in Ids : u \in Nat
    BY ArrayObjectsAssumption
  <2> QED
    BY <2>1, <2>2
<1>4. Locked /\ KnownInv /\ \A t \in Threads : RoleInv(t) /\ RequestInv(t) /\ SourceInv(t)
  BY <1>1 DEF ObjectsInv
<1>5. /\ (\A u \in Ids : Obj(u) /\ FunctionData(u)) /\ failures \in Nat /\ memory = <<>>
      /\ FunctionApart /\ FunctionTemporary
  BY <1>1 DEF FunctionWorld
<1> QED
  BY <1>1, <1>2, <1>3, <1>4, <1>5

(* A step of t changes one object, which nobody else has in hand, and      *)
(* gives it no name or group but its own request's.                        *)
FunctionTouches(t, m) ==
  /\ \A u \in Ids \ {m} : object'[u] = object[u]
  /\ \A w \in Threads \ {t} : InHand(w) => local[w].mine # m
  /\ object'[m] # None =>
       /\ \/ Exists(m) /\ object'[m].name = object[m].name
          \/ object'[m].name = None
          \/ Creates(t) /\ object'[m].name = req[t].name
       /\ \/ Exists(m) /\ object'[m].group = object[m].group
          \/ object'[m].group = None
          \/ Creates(t) /\ object'[m].group = req[t].name

LEMMA FunctionOthers ==
  ASSUME FunctionInv, NEW t \in Threads, NEW w \in Threads, w # t,
         pc'[w] = pc[w], req'[w] = req[w], local'[w] = local[w],
         array'.made \in Nat, array.made <= array'.made,
         object' = object \/ \E m \in Ids : FunctionTouches(t, m)
  PROVE  FunctionHand(w)'
<1>1. FunctionHand(w) /\ RoleInv(w) /\ RequestInv(w) /\ array.made \in Nat /\ ObjectsInv
  BY FunctionKnows
<1>2. InHand(w) => local[w].mine \in Ids
  BY <1>1 DEF RoleInv, RequestInv, InHand
<1>3. /\ Makes(w)' <=> Makes(w)
      /\ Creates(w)' <=> Creates(w)
      /\ Deletes(w)' <=> Deletes(w)
      /\ Expands(w)' <=> Expands(w)
      /\ IsCopy(w)' <=> IsCopy(w)
  BY DEF Makes, Creates, Deletes, Expands, IsCopy
<1>4. Makes(w) /\ pc[w] # "idle" => local[w].mine <= array'.made
  <2>1. \A u \in Ids : u \in Nat
    BY ArrayObjectsAssumption
  <2>2. Makes(w) /\ pc[w] # "idle" => local[w].mine <= array.made
    BY <1>1 DEF FunctionHand
  <2> QED
    BY <1>1, <1>2, <2>1, <2>2 DEF InHand
<1>5. Creates(w) => req[w].name # None /\ \A x \in Threads : x # w /\ Creates(x) => req[x].name # req[w].name
  BY <1>1, MakersDiffer, ArrayObjectsAssumption DEF RequestInv
<1>6. InHand(w) => object'[local[w].mine] = object[local[w].mine]
  BY <1>2 DEF FunctionTouches
<1>7. ASSUME NEW u \in Ids, Creates(w), object'[u] # None
      PROVE  /\ object'[u].name = req[w].name => Exists(u) /\ object[u].name = req[w].name
             /\ object'[u].group = req[w].name => Exists(u) /\ object[u].group = req[w].name
  <2>1. u # None
    BY ArrayObjectsAssumption
  <2>2. CASE object'[u] = object[u]
    BY <1>7, <2>1, <2>2 DEF Exists
  <2>3. CASE FunctionTouches(t, u)
    BY <1>5, <1>7, <2>3 DEF FunctionTouches
  <2> QED
    BY <2>2, <2>3 DEF FunctionTouches
<1>8. Creates(w) /\ Named(req[w].name) = {} => Named(req[w].name)' = {}
  BY <1>7 DEF Named, Exists, object
<1>9. ASSUME Creates(w), \A u \in Ids : Exists(u) /\ object[u].group = req[w].name => u = local[w].mine
      PROVE  \A u \in Ids : Exists(u)' /\ object'[u].group = req[w].name => u = local[w].mine
  BY <1>7, <1>9 DEF Exists, object
<1>10. InHand(w) =>
         /\ Exists(local[w].mine)' <=> Exists(local[w].mine)
         /\ (object[local[w].mine])' = object[local[w].mine]
  BY <1>6 DEF Exists, object
<1>11. CASE pc[w] = "idle"
  BY <1>11 DEF FunctionHand
<1>12. CASE pc[w] # "idle" /\ ~ InHand(w)
  <2>1. pc[w] \in {"find", "snapshot", "create", "readGroup"} /\ Creates(w)
    BY <1>1, <1>12 DEF FunctionHand, InHand, FunctionPlace
  <2> QED
    BY <1>1, <1>3, <1>8, <1>12, <2>1 DEF FunctionHand, InHand
<1>13. CASE pc[w] # "idle" /\ InHand(w) /\ ~ Creates(w)
  <2>1. pc[w] \in {"look", "remove", "expand", "extend"} /\ ~ Makes(w)
    BY <1>1, <1>13 DEF FunctionHand, Makes, FunctionPlace
  <2> QED
    BY <1>1, <1>3, <1>10, <1>13, <2>1 DEF FunctionHand
<1>14. CASE pc[w] # "idle" /\ Makes(w)
  <2>1. /\ Creates(w) /\ InHand(w) /\ ~ Deletes(w) /\ ~ Expands(w)
        /\ pc[w] \notin {"find", "snapshot", "create", "readGroup"}
    BY <1>1, <1>14 DEF FunctionHand, Makes, InHand, Creates, Deletes, Expands, CreateOps, DeleteOps
  <2>2. pc[w] \in {"removeGroup", "rename", "undoVolume", "undoGroup"} =>
          \A u \in Ids : Exists(u)' /\ object'[u].group = req[w].name => u = local[w].mine
    BY <1>1, <1>9, <1>14, <2>1 DEF FunctionHand
  <2> QED
    BY <1>1, <1>3, <1>4, <1>10, <1>14, <2>1, <2>2 DEF FunctionHand, object
<1>15. CASE pc[w] # "idle" /\ Creates(w) /\ ~ Makes(w)
  BY <1>1, <1>12, <1>15 DEF InHand, Creates, Deletes, Expands, CreateOps, DeleteOps
<1> QED
  BY <1>11, <1>12, <1>13, <1>14, <1>15 DEF InHand

LEMMA FunctionKeeps ==
  ASSUME FunctionInv, Locked', NEW t \in Threads, Careful(t), RoleInv(t)', FunctionHand(t)', FunctionWorld',
         array.made <= array'.made, array'.made \in Nat,
         Makes(t)' => \A w \in Threads \ {t} : Makes(w) => local[w].mine # local'[t].mine,
         object' = object \/ \E m \in Ids : FunctionTouches(t, m)
  PROVE  FunctionInv'
<1>1. ObjectsInv' /\ Alone(t) /\ service' = "snapshotFunction"
  BY CarefulKeeps DEF FunctionInv, Careful
<1>2. \A w \in Threads \ {t} : pc'[w] = pc[w] /\ req'[w] = req[w] /\ local'[w] = local[w]
  BY <1>1 DEF Alone
<1>3. \A w \in Threads \ {t} : FunctionHand(w)'
  BY <1>2, FunctionOthers
<1>4. MadeApart'
  <2>1. MadeApart
    BY DEF FunctionInv
  <2>2. \A w \in Threads \ {t} : Makes(w)' <=> Makes(w)
    BY <1>2 DEF Makes, Creates
  <2> QED
    BY <1>2, <2>1, <2>2 DEF MadeApart
<1> QED
  BY <1>1, <1>3, <1>4 DEF FunctionInv

(* A step that leaves the objects as they are; its own groups and          *)
(* temporary snapshot are the thread's to change.                          *)
LEMMA FunctionGoesOn ==
  ASSUME FunctionInv, Locked', NEW t \in Threads, Alone(t), UNCHANGED <<memory, known, service>>, FunctionArray',
         object' = object, array'.made = array.made, FunctionTemporary',
         \A u \in Ids : Exists(u) /\ object[u].group # None => object[u].group \in array'.groups,
         failures' \in {failures, failures + 1},
         Makes(t)' => \A w \in Threads \ {t} : Makes(w) => local[w].mine # local'[t].mine,
         \/ req'[t] = None /\ pc'[t] = "idle"
         \/ req'[t] = req[t] /\ RoleInv(t)' /\ FunctionHand(t)'
  PROVE  FunctionInv'
<1>1. Careful(t)
  BY FunctionKnows, SilentCareful
<1>2. /\ failures \in Nat /\ array.made \in Nat /\ service = "snapshotFunction" /\ memory = <<>>
      /\ (\A u \in Ids : Obj(u) /\ FunctionData(u)) /\ FunctionApart /\ known' = known
  BY FunctionKnows
<1>3. Onward
  BY <1>2 DEF Onward
<1>4. \A u \in Ids : Obj(u)'
  BY <1>2, <1>3, ObjKept DEF Untouched
<1>5. RoleInv(t)' /\ FunctionHand(t)'
  BY FreedRole DEF FunctionHand
<1>6. \A u : Exists(u)' <=> Exists(u)
  BY DEF Exists, object
<1>7. \A u \in Ids : FunctionData(u)'
  BY <1>2, <1>6 DEF FunctionData, object
<1>8. FunctionWorld'
  BY <1>2, <1>4, <1>6, <1>7 DEF FunctionWorld, FunctionApart, object
<1> QED
  BY <1>1, <1>2, <1>5, <1>8, FunctionKeeps

LEMMA FunctionReturns ==
  ASSUME FunctionInv, Locked', NEW t \in Threads, pc[t] # "idle", Return(t),
         UNCHANGED <<array, memory, known>>, failures' \in {failures, failures + 1}
  PROVE  FunctionInv'
<1>1. /\ Alone(t) /\ req'[t] = None /\ pc'[t] = "idle" /\ service' = service /\ ~ Makes(t)'
  BY FunctionKnows, ReturnMoves DEF Return, Makes, Creates
<1>2. FunctionArray' /\ object' = object /\ FunctionTemporary'
  BY FunctionKnows DEF FunctionArray, object, FunctionTemporary
<1>3. \A u \in Ids : Exists(u) /\ object[u].group # None => object[u].group \in array'.groups
  BY FunctionKnows DEF FunctionData
<1> QED
  BY <1>1, <1>2, <1>3, FunctionGoesOn

LEMMA FunctionHasTypes ==
  ASSUME FunctionInv, NEW u \in Ids, Exists(u)
  PROVE  object[u] \in FunctionObject /\ object[u] # None /\ u \in Nat /\ u <= array.made
<1>1. FunctionArray /\ Obj(u) /\ array.made \in Nat /\ service = "snapshotFunction"
  BY FunctionKnows
<1>2. object[u] \in FunctionObject /\ object[u] # None
  BY <1>1 DEF FunctionArray, object, Exists
<1>3. u \in Nat
  BY ArrayObjectsAssumption
<1>4. ~ (u > array.made)
  BY <1>1, <1>2 DEF Obj
<1> QED
  BY <1>1, <1>2, <1>3, <1>4

(* What another thread has made has not the name of this thread's request. *)
LEMMA FunctionNotMade ==
  ASSUME FunctionInv, NEW t \in Threads, Creates(t), NEW w \in Threads, w # t, Makes(w),
         NEW u \in Ids, Exists(u),
         object[u].name = req[t].name \/ object[u].group = req[t].name
  PROVE  local[w].mine # u
<1>1. ObjectsInv /\ FunctionHand(w) /\ pc[w] # "idle" /\ Creates(w) /\ RequestInv(t) /\ FunctionData(u)
  BY FunctionKnows DEF Makes, Creates, ObjectsInv, Locked
<1>2. req[t].name # None /\ req[t].name # req[w].name
  BY <1>1, MakersDiffer, ArrayObjectsAssumption DEF RequestInv
<1>3. SUFFICES ASSUME local[w].mine = u
               PROVE  FALSE
  OBVIOUS
<1>4. pc[w] \in {"leave", "removeGroup", "rename", "removeSnapshot", "readBack", "undoVolume", "undoGroup"}
  <2>1. local[w].mine # None /\ ~ Deletes(w) /\ ~ Expands(w)
    BY <1>1 DEF Makes, Creates, Deletes, Expands, CreateOps, DeleteOps
  <2> QED
    BY <1>1, <2>1 DEF FunctionHand, FunctionPlace
<1>5. pc[w] # "undoGroup"
  BY <1>1, <1>3 DEF FunctionHand
<1>6. CASE pc[w] \in {"removeSnapshot", "readBack"}
  <2>1. object[u].name = req[w].name /\ req[w].name # None
    BY <1>1, <1>3, <1>6, FunctionKnows, ArrayObjectsAssumption DEF FunctionHand, RequestInv
  <2>2. object[u].group = None
    BY <1>1, <2>1 DEF FunctionData
  <2> QED
    BY <1>2, <2>1, <2>2
<1>7. CASE pc[w] \in {"leave", "removeGroup", "rename", "undoVolume"}
  <2>1. object[u].name = None
    BY <1>1, <1>3, <1>7 DEF FunctionHand
  <2>2. object[u].group = req[t].name
    BY <1>2, <2>1
  <2>3. CASE pc[w] \in {"leave", "removeGroup", "rename"}
    BY <1>1, <1>2, <1>3, <2>2, <2>3 DEF FunctionHand
  <2>4. CASE pc[w] = "undoVolume"
    (* It has left the group, or is in that of its own request.            *)
    BY <1>1, <1>2, <1>3, <2>2, <2>4 DEF FunctionHand
  <2> QED
    BY <1>7, <2>3, <2>4
<1> QED
  BY <1>4, <1>5, <1>6, <1>7

LEMMA FunctionReports ==
  ASSUME FunctionInv, Locked', NEW t \in Threads, Creates(t), NEW u \in Named(req[t].name), Report(t, u),
         NoFault, UNCHANGED <<array, memory>>
  PROVE  FunctionInv'
<1>1. /\ ObjectsInv /\ (\A w \in Ids : Obj(w) /\ FunctionData(w)) /\ failures \in Nat /\ array.made \in Nat
      /\ service = "snapshotFunction" /\ KnownInv /\ memory = <<>>
      /\ FunctionArray /\ FunctionApart /\ FunctionTemporary
  BY FunctionKnows
<1>2. known.asked[req[t].name] = req[t] /\ req[t].name \in Names /\ req[t].name # None
  BY <1>1, CreatorAsks, ArrayObjectsAssumption
<1>3. u \in Ids /\ Exists(u) /\ object[u].name = req[t].name
  BY DEF Named
<1>4. object[u] # None /\ u \in Nat /\ u <= array.made
  BY <1>3, FunctionHasTypes
<1>5. \A w \in Threads \ {t} : Makes(w) => local[w].mine # u
  BY <1>3, FunctionNotMade
<1>6. known.acked[u] = None \/ known.acked[u].op = req[t].op
  BY <1>1, <1>2, <1>3 DEF Obj, Fits, KnownInv, Answers
<1>7. Careful(t)
  BY <1>1, <1>3, <1>5, <1>6, ReportCareful
<1>8. /\ req'[t] = None /\ pc'[t] = "idle" /\ known'.asked = known.asked /\ service' = service
      /\ known'.acked[u] = req[t] /\ known'.gone = known.gone /\ known'.deleting = known.deleting
      /\ \A w \in Ids : w # u => known'.acked[w] = known.acked[w]
  BY <1>1, <1>3, ReportTells
<1>9. object' = object /\ array' = array /\ failures' = failures
  BY DEF object, NoFault
<1>10. Onward
  BY <1>1, <1>8, <1>9 DEF Onward
<1>11. ASSUME NEW w \in Ids
       PROVE  Obj(w)'
  <2>1. CASE w = u
    <3>1. ASSUME NEW q, q = req[t]
          PROVE  IsLarge(u, q)'
      <4>1. IsLarge(u, q)
        BY <1>1, <1>2, <1>3, <3>1 DEF Obj
      <4> QED
        BY <1>9, <4>1 DEF IsLarge
    <3>2. u \notin known.gone
      BY <1>1, <1>3 DEF Obj, MayStay
    <3> QED
      BY <1>1, <1>3, <1>4, <1>9, <2>1, <3>1, <3>2, ReportedObj
  <2>2. CASE w # u
    <3>1. Untouched(w)
      BY <1>1, <1>3, <1>9, <2>2, ReportTells DEF Untouched
    <3> QED
      BY <1>1, <1>10, <3>1, ObjKept
  <2> QED
    BY <2>1, <2>2
<1>12. FunctionWorld'
  <2>1. \A w : Exists(w)' <=> Exists(w)
    BY <1>9 DEF Exists
  <2>2. \A w \in Ids : FunctionData(w)'
    BY <1>1, <1>8, <1>9, <2>1 DEF FunctionData
  <2>3. FunctionArray' /\ FunctionApart' /\ FunctionTemporary'
    BY <1>1, <1>8, <1>9, <2>1 DEF FunctionArray, FunctionApart, FunctionTemporary
  <2> QED
    BY <1>1, <1>9, <1>11, <2>2, <2>3 DEF FunctionWorld
<1>13. RoleInv(t)' /\ FunctionHand(t)' /\ ~ Makes(t)'
  BY <1>8, FreedRole DEF FunctionHand, Makes, Creates
<1> QED
  BY <1>1, <1>7, <1>9, <1>12, <1>13, FunctionKeeps

(* A creator goes on, and what it has made stays in its hand.              *)
LEMMA FunctionGoes ==
  ASSUME FunctionInv, NEW t \in Threads, Creates(t), pc[t] # "idle", NEW to \in FunctionPlace \ {"idle"},
         Continue(t, to), known' = known
  PROVE  /\ Alone(t) /\ pc'[t] = to /\ req'[t] = req[t] /\ local'[t] = local[t] /\ service' = service
         /\ Creates(t)' /\ ~ Deletes(t)' /\ ~ Expands(t)'
         /\ IsCopy(t)' <=> IsCopy(t)
         /\ Makes(t)' <=> Makes(t)
         /\ RoleInv(t)' /\ Careful(t)
         /\ Makes(t)' => \A w \in Threads \ {t} : Makes(w) => local[w].mine # local'[t].mine
<1>1. ObjectsInv /\ Locked /\ RoleInv(t) /\ MadeApart /\ pc[t] \in FunctionPlace
  BY FunctionKnows DEF FunctionHand
<1>2. Alone(t) /\ pc'[t] = to /\ req'[t] = req[t] /\ local'[t] = local[t] /\ service' = service
  BY <1>1, ContinueMoves DEF Continue, Proceed
<1>3. /\ Creates(t)' /\ ~ Deletes(t)' /\ ~ Expands(t)'
      /\ IsCopy(t)' <=> IsCopy(t)
      /\ Makes(t)' <=> Makes(t)
  BY <1>1, <1>2 DEF Creates, Deletes, Expands, CreateOps, DeleteOps, IsCopy, Makes, FunctionPlace
<1>4. RoleInv(t)'
  BY <1>1, <1>2, <1>3 DEF RoleInv
<1>5. Careful(t)
  BY <1>1, <1>2, SilentCareful
<1>6. Makes(t)' => \A w \in Threads \ {t} : Makes(w) => local[w].mine # local'[t].mine
  BY <1>1, <1>2, <1>3 DEF MadeApart
<1> QED
  BY <1>2, <1>3, <1>4, <1>5, <1>6

(* A step of a creator that changes no object.                             *)
LEMMA FunctionSteps ==
  ASSUME FunctionInv, Locked', NEW t \in Threads, Creates(t), pc[t] # "idle", NEW to \in FunctionPlace \ {"idle"},
         Continue(t, to), UNCHANGED <<memory, known>>, failures' \in {failures, failures + 1},
         FunctionArray', array'.object = array.object, array'.made = array.made, FunctionTemporary',
         \A u \in Ids : Exists(u) /\ object[u].group # None => object[u].group \in array'.groups,
         \/ /\ to \in {"snapshot", "create"} /\ local[t].mine = None
            /\ \/ IsCopy(t)
               \/ to = "snapshot" /\ req[t].op = "createSnapshot"
               \/ to = "create" /\ req[t].op = "createVolume" /\ Named(req[t].name) = {}
         \/ pc[t] = "removeGroup" /\ to = "rename"
         \/ pc[t] = "removeSnapshot" /\ to = "readBack"
         \/ pc[t] \in {"leave", "removeGroup", "rename"} /\ to = "undoVolume"
  PROVE  FunctionInv'
<1>1. FunctionHand(t) /\ FunctionApart
  BY FunctionKnows
<1>2. /\ Alone(t) /\ pc'[t] = to /\ req'[t] = req[t] /\ local'[t] = local[t] /\ service' = service
      /\ Creates(t)' /\ ~ Deletes(t)' /\ ~ Expands(t)'
      /\ IsCopy(t)' <=> IsCopy(t)
      /\ Makes(t)' <=> Makes(t)
      /\ RoleInv(t)'
      /\ Makes(t)' => \A w \in Threads \ {t} : Makes(w) => local[w].mine # local'[t].mine
  BY FunctionGoes
<1>3. object' = object /\ (\A u : Exists(u)' <=> Exists(u)) /\ \A n : Named(n)' = Named(n)
  BY DEF object, Exists, Named
<1>4. FunctionHand(t)'
  <2>1. CASE /\ to \in {"snapshot", "create"} /\ local[t].mine = None
             /\ \/ IsCopy(t)
                \/ to = "snapshot" /\ req[t].op = "createSnapshot"
                \/ to = "create" /\ req[t].op = "createVolume" /\ Named(req[t].name) = {}
    <3>1. ~ Makes(t) /\ (to = "create" => req[t].op = "createVolume")
      BY <2>1 DEF Makes, IsCopy
    <3> QED
      BY <1>1, <1>2, <1>3, <2>1, <3>1 DEF FunctionHand, FunctionPlace
  <2>2. CASE pc[t] = "removeGroup" /\ to = "rename"
    BY <1>1, <1>2, <1>3, <2>2 DEF FunctionHand, FunctionPlace
  <2>3. CASE pc[t] = "removeSnapshot" /\ to = "readBack"
    BY <1>1, <1>2, <1>3, <2>3 DEF FunctionHand, FunctionPlace
  <2>4. CASE pc[t] \in {"leave", "removeGroup", "rename"} /\ to = "undoVolume"
    <3>1. local[t].mine \in Ids /\ req[t].name # None
      BY <1>1, <2>4, FunctionKnows, ArrayObjectsAssumption DEF FunctionHand, RoleInv, RequestInv
    <3>2. \A u \in Ids : Exists(u) /\ object[u].group = req[t].name => u = local[t].mine
      BY <1>1, <2>4, <3>1 DEF FunctionHand, FunctionApart
    <3> QED
      BY <1>1, <1>2, <1>3, <2>4, <3>2 DEF FunctionHand, FunctionPlace
  <2> QED
    BY <2>1, <2>2, <2>3, <2>4
<1> QED
  BY <1>2, <1>3, <1>4, FunctionGoesOn

(* The array is as it was.                                                 *)
LEMMA FunctionStays ==
  ASSUME FunctionInv, UNCHANGED <<array, known>>
  PROVE  /\ FunctionArray' /\ array'.object = array.object /\ object' = object /\ array'.made = array.made
         /\ FunctionTemporary'
         /\ \A u \in Ids : Exists(u) /\ object[u].group # None => object[u].group \in array'.groups
<1>1. FunctionArray /\ FunctionTemporary /\ \A u \in Ids : FunctionData(u)
  BY FunctionKnows
<1> QED
  BY <1>1 DEF FunctionArray, FunctionTemporary, FunctionData, object

LEMMA FunctionFindKeeps ==
  ASSUME FunctionInv, Locked', NEW t \in Threads, FunctionFind(t)
  PROVE  FunctionInv'
<1>1. pc[t] = "find" /\ Creates(t) /\ local[t].mine = None
  BY FunctionKnows DEF FunctionFind, AtFunction, At, FunctionHand
<1>2. CASE Reject(t)
  BY <1>1, <1>2, FunctionReturns DEF Reject, NoFault
<1>3. ASSUME NEW u \in Named(req[t].name), Report(t, u), NoFault, UNCHANGED <<array, memory>>
      PROVE  FunctionInv'
  BY <1>1, <1>3, FunctionReports
<1>4. ASSUME Named(req[t].name) = {}, UNCHANGED array,
             NEW to, to = IF req[t].op = "createSnapshot" \/ req[t].from = "volume" THEN "snapshot" ELSE "create",
             Step(t, to)
      PROVE  FunctionInv'
  <2>1. Continue(t, to) /\ UNCHANGED <<array, memory, known, failures>>
    BY <1>4 DEF Step, NoFault
  <2>2. to \in FunctionPlace \ {"idle"}
    BY <1>4 DEF FunctionPlace
  <2>4. /\ to \in {"snapshot", "create"}
        /\ \/ IsCopy(t)
           \/ to = "snapshot" /\ req[t].op = "createSnapshot"
           \/ to = "create" /\ req[t].op = "createVolume" /\ Named(req[t].name) = {}
    <3>1. Asks(req[t].name, req[t]) /\ req[t].op \in CreateOps
      BY <1>1, FunctionKnows, CreatorAsks
    <3>2. req[t].op = "createVolume" => (req[t].uid = None <=> req[t].from = None)
      BY <3>1 DEF Asks
    <3>3. req[t].op \in {"createVolume", "createSnapshot"} /\ "volume" # None
      BY <3>1, ArrayObjectsAssumption DEF CreateOps
    <3> QED
      BY <1>4, <3>2, <3>3 DEF IsCopy
  <2>3. /\ FunctionArray' /\ array'.object = array.object /\ array'.made = array.made
        /\ FunctionTemporary'
        /\ \A u \in Ids : Exists(u) /\ object[u].group # None => object[u].group \in array'.groups
    BY <2>1, FunctionStays
  <2> QED
    BY <1>1, <2>1, <2>2, <2>3, <2>4, FunctionSteps
<1> QED
  BY <1>2, <1>3, <1>4 DEF FunctionFind

(* A new object, which is told of under its name, or in a new group.       *)
LEMMA FunctionNew ==
  ASSUME FunctionInv, Locked', NEW t \in Threads, Creates(t), UNCHANGED <<memory, known, failures>>,
         NEW u \in Ids, u = array.made + 1, NEW o \in FunctionObject,
         array'.made = u, array'.object = [array.object EXCEPT ![u] = o],
         array'.temporary = array.temporary, FunctionArray', array.groups \subseteq array'.groups,
         \/ o.name = None
         \/ o.name = req[t].name /\ Named(req[t].name) = {} /\ o.group = None,
         o.from = req[t].uid,
         \/ o.group = None
         \/ o.group = req[t].name /\ req[t].name \in array'.groups /\ req[t].name \notin array.groups,
         req[t].op = "createVolume" /\ req[t].uid = None => o.size >= req[t].size,
         Careful(t), RoleInv(t)', local'[t].mine \in {None, u},
         object'[u] = o /\ Exists(u)' /\ (\A w \in Ids \ {u} : object'[w] = object[w]) => FunctionHand(t)'
  PROVE  FunctionInv'
<1>1. /\ ObjectsInv /\ (\A w \in Ids : Obj(w) /\ FunctionData(w)) /\ failures \in Nat /\ array.made \in Nat
      /\ service = "snapshotFunction" /\ KnownInv /\ memory = <<>>
      /\ FunctionArray /\ FunctionApart /\ FunctionTemporary
      /\ \A w \in Threads : FunctionHand(w) /\ RoleInv(w) /\ RequestInv(w)
  BY FunctionKnows
<1>2. known.asked[req[t].name] = req[t] /\ req[t].name \in Names /\ req[t].name # None /\ req[t] # None
  BY <1>1, CreatorAsks, ArrayObjectsAssumption
<1>3. u \in Nat /\ u > array.made /\ u # None /\ o # None /\ array.made <= array'.made
  BY <1>1, ArrayObjectsAssumption, FunctionAssumption
<1>4. object[u] = None /\ known.acked[u] = None /\ u \notin known.gone \union known.deleting
  BY <1>1, <1>3 DEF Obj
<1>5. object'[u] = o /\ \A w \in Ids \ {u} : object'[w] = object[w]
  BY <1>1 DEF FunctionArray, object
<1>6. Exists(u)' /\ ~ Exists(u) /\ \A w \in Ids : w # u => (Exists(w)' <=> Exists(w))
  BY <1>3, <1>4, <1>5 DEF Exists, object
<1>7. service' = service /\ Onward
  BY <1>1, <1>3 DEF Careful, Onward
<1>8. ASSUME NEW w \in Ids
      PROVE  Obj(w)'
  <2>1. CASE w # u
    BY <1>1, <1>5, <1>7, <2>1, ObjKept DEF Untouched
  <2>2. CASE w = u
    <3>1. ASSUME NEW q, q = req[t]
          PROVE  IsLarge(u, q)'
      BY <1>5, <3>1 DEF IsLarge, object
    <3> QED
      BY <1>1, <1>3, <1>4, <1>5, <1>7, <2>2, <3>1, NewObj
  <2> QED
    BY <2>1, <2>2
<1>9. ASSUME NEW w \in Ids
      PROVE  FunctionData(w)'
  <2>1. CASE w # u
    <3>1. FunctionData(w) /\ (object[w])' = object[w] /\ (Exists(w)' <=> Exists(w))
      BY <1>1, <1>5, <1>6, <2>1 DEF object
    <3> QED
      BY <3>1 DEF FunctionData
  <2>2. CASE w = u
    <3>1. (object[u])' = o
      BY <1>5 DEF object
    <3> QED
      BY <1>2, <1>4, <2>2, <3>1 DEF FunctionData
  <2> QED
    BY <2>1, <2>2
<1>10. FunctionApart'
  <2>1. \A w \in Ids : Exists(w) /\ o.name # None => object[w].name # o.name
    BY DEF Named
  <2>2. \A w \in Ids : Exists(w) /\ o.group # None => object[w].group # o.group
    BY <1>1 DEF FunctionData
  <2>3. ASSUME NEW v \in Ids, NEW w \in Ids, Exists(v)', Exists(w)'
        PROVE  /\ object'[v].name = object'[w].name /\ object'[v].name # None => v = w
               /\ object'[v].group = object'[w].group /\ object'[v].group # None => v = w
    <3>1. CASE v # u /\ w # u
      BY <1>1, <1>5, <1>6, <2>3, <3>1 DEF FunctionApart
    <3>2. CASE v = u /\ w # u
      BY <1>5, <1>6, <2>1, <2>2, <2>3, <3>2
    <3>3. CASE v # u /\ w = u
      BY <1>5, <1>6, <2>1, <2>2, <2>3, <3>3
    <3> QED
      BY <3>1, <3>2, <3>3
  <2> QED
    BY <2>3 DEF FunctionApart, object
<1>11. FunctionWorld'
  BY <1>1, <1>8, <1>9, <1>10 DEF FunctionWorld, FunctionTemporary
<1>12. \A w \in Threads \ {t} : InHand(w) => local[w].mine # u
  <2>1. SUFFICES ASSUME NEW w \in Threads \ {t}, InHand(w), local[w].mine = u
                 PROVE  FALSE
    OBVIOUS
  <2>2. CASE Makes(w)
    <3>1. pc[w] # "idle"
      BY <1>1, <2>2 DEF Makes, Creates, ObjectsInv, Locked
    <3>2. u <= array.made
      BY <1>1, <2>1, <2>2, <3>1 DEF FunctionHand
    <3> QED
      BY <1>1, <1>3, <3>2
  <2>3. CASE Deletes(w) \/ Expands(w)
    BY <1>1, <1>4, <2>1, <2>3 DEF RoleInv
  <2> QED
    BY <2>1, <2>2, <2>3 DEF InHand
<1>13. FunctionTouches(t, u)
  BY <1>5, <1>12 DEF FunctionTouches
<1>14. Makes(t)' => \A w \in Threads \ {t} : Makes(w) => local[w].mine # local'[t].mine
  <2>1. Makes(t)' => local'[t].mine # None
    BY DEF Makes
  <2> QED
    BY <1>12, <2>1 DEF InHand
<1> QED
  BY <1>3, <1>5, <1>6, <1>11, <1>13, <1>14, FunctionKeeps

(* A creator has got an object that nobody knows.                          *)
LEMMA FunctionTakes ==
  ASSUME FunctionInv, NEW t \in Threads, Creates(t), pc[t] # "idle",
         NEW to \in FunctionPlace \ {"idle"}, NEW u \in Ids,
         Proceed(t, to, [local[t] EXCEPT !.mine = u]), known' = known,
         known.acked[u] = None, u \notin known.deleting
  PROVE  /\ Alone(t) /\ pc'[t] = to /\ req'[t] = req[t] /\ service' = service
         /\ local'[t] \in Memo({}) /\ local'[t].mine = u
         /\ Creates(t)' /\ ~ Deletes(t)' /\ ~ Expands(t)' /\ Makes(t)'
         /\ IsCopy(t)' <=> IsCopy(t)
         /\ RoleInv(t)' /\ Careful(t)
<1>1. ObjectsInv /\ Locked /\ local[t] \in Memo({})
  BY FunctionKnows DEF FunctionHand
<1> DEFINE memo == [local[t] EXCEPT !.mine = u]
<1>2. memo \in Memo({}) /\ memo.mine = u /\ Proceed(t, to, memo)
  BY <1>1 DEF Memo
<1> HIDE DEF memo
<1>3. Alone(t) /\ pc'[t] = to /\ req'[t] = req[t] /\ local'[t] = memo /\ service' = service
  BY <1>1, <1>2, ProceedMoves DEF Proceed
<1>4. /\ Creates(t)' /\ ~ Deletes(t)' /\ ~ Expands(t)' /\ Makes(t)'
      /\ IsCopy(t)' <=> IsCopy(t)
  BY <1>2, <1>3, ArrayObjectsAssumption DEF Creates, Deletes, Expands, CreateOps, DeleteOps, IsCopy, Makes, FunctionPlace
<1>5. RoleInv(t)'
  BY <1>2, <1>3, <1>4 DEF RoleInv
<1>6. Careful(t)
  BY <1>1, <1>3, SilentCareful
<1> QED
  BY <1>2, <1>3, <1>4, <1>5, <1>6

(* A new volume or snapshot that has its name at once.                     *)
LEMMA FunctionNames ==
  ASSUME FunctionInv, Locked', NEW t \in Threads, Creates(t), pc[t] # "idle", ~ IsCopy(t),
         NextId \in Ids, NEW s \in Sizes,
         array' = MakeObject([name |-> req[t].name, size |-> s, from |-> req[t].uid,
                              group |-> None, fcmap |-> FALSE]),
         Proceed(t, "readBack", [local[t] EXCEPT !.mine = NextId]),
         NoFault, UNCHANGED <<memory, known>>, Named(req[t].name) = {},
         req[t].op = "createVolume" => s = req[t].size
  PROVE  FunctionInv'
<1>1. FunctionArray /\ array.made \in Nat /\ (\A w \in Ids : Obj(w)) /\ service = "snapshotFunction"
  BY FunctionKnows
<1>2. req[t].name \in Names /\ req[t].uid \in Ids \union {None} /\ req[t].name # None
  BY FunctionKnows, CreatorAsks, ArrayObjectsAssumption DEF Request
<1> DEFINE new == [name |-> req[t].name, size |-> s, from |-> req[t].uid, group |-> None, fcmap |-> FALSE]
<1>15. /\ new \in FunctionObject
       /\ new.name = req[t].name /\ new.size = s /\ new.from = req[t].uid /\ new.group = None
  BY <1>2 DEF FunctionObject
<1>3. PICK o \in FunctionObject :
        /\ o = new /\ o.name = req[t].name /\ o.size = s /\ o.from = req[t].uid /\ o.group = None
  BY <1>15
<1>4. PICK u \in Ids : u = NextId
  OBVIOUS
<1>5. u \in Nat /\ u > array.made /\ u = array.made + 1
  BY <1>1, <1>4, ArrayObjectsAssumption DEF NextId
<1>6. known.acked[u] = None /\ u \notin known.deleting
  BY <1>1, <1>5 DEF Obj
<1>7. array' = [array EXCEPT !.made = u, !.object[u] = o]
  BY <1>3, <1>4 DEF MakeObject
<1> HIDE DEF new
<1>8. /\ array'.made = u /\ array'.object = [array.object EXCEPT ![u] = o]
      /\ array'.temporary = array.temporary /\ array'.groups = array.groups /\ FunctionArray'
  <2>1. array.object \in [Ids -> FunctionObject \union {None}]
    BY <1>1 DEF FunctionArray
  <2>2. [array.object EXCEPT ![u] = o] \in [Ids -> FunctionObject \union {None}]
    BY <2>1
  <2> QED
    BY <1>1, <1>7, <2>2 DEF FunctionArray
<1>9. "readBack" \in FunctionPlace \ {"idle"}
  BY DEF FunctionPlace
<1>10. Proceed(t, "readBack", [local[t] EXCEPT !.mine = u])
  BY <1>4
<1>11. /\ pc'[t] = "readBack" /\ req'[t] = req[t] /\ local'[t] \in Memo({}) /\ local'[t].mine = u
       /\ Creates(t)' /\ ~ Deletes(t)' /\ ~ Expands(t)' /\ Makes(t)'
       /\ IsCopy(t)' <=> IsCopy(t)
       /\ RoleInv(t)' /\ Careful(t)
  BY <1>6, <1>9, <1>10, FunctionTakes
<1>12. ASSUME object'[u] = o, Exists(u)'
       PROVE  FunctionHand(t)'
  <2>1. (object[u])' = o /\ u <= array'.made
    BY <1>5, <1>8, <1>12 DEF object
  <2> QED
    BY <1>3, <1>11, <1>12, <2>1 DEF FunctionHand, FunctionPlace
<1>13. req[t].op = "createVolume" /\ req[t].uid = None => o.size >= req[t].size
  BY <1>3, ArrayObjectsAssumption
<1>14. UNCHANGED <<memory, known, failures>> /\ array.groups \subseteq array'.groups
  BY <1>8 DEF NoFault
<1>16. o.name = req[t].name /\ Named(req[t].name) = {} /\ o.group = None /\ o.from = req[t].uid
  BY <1>3
<1>17. Careful(t) /\ RoleInv(t)' /\ local'[t].mine \in {None, u}
  BY <1>11
<1> QED
  BY <1>5, <1>8, <1>12, <1>13, <1>14, <1>16, <1>17, FunctionNew

LEMMA FunctionCreateKeeps ==
  ASSUME FunctionInv, Locked', NEW t \in Threads, FunctionCreate(t)
  PROVE  FunctionInv'
<1>1. /\ pc[t] = "create" /\ Creates(t) /\ ~ IsCopy(t) /\ Named(req[t].name) = {}
      /\ req[t].op = "createVolume"
  BY FunctionKnows DEF FunctionCreate, AtFunction, At, FunctionHand
<1>2. CASE Reject(t)
  BY <1>1, <1>2, FunctionReturns DEF Reject, NoFault
<1>3. CASE /\ NextId \in Ids
           /\ array' = MakeObject([name |-> req[t].name, size |-> req[t].size, from |-> None,
                                   group |-> None, fcmap |-> FALSE])
           /\ Proceed(t, "readBack", [local[t] EXCEPT !.mine = NextId])
           /\ NoFault /\ UNCHANGED <<memory, known>>
  <2>1. req[t].uid = None /\ req[t].size \in Sizes
    BY <1>1, FunctionKnows, CreatorAsks DEF IsCopy
  <2> QED
    BY <1>1, <1>3, <2>1, FunctionNames
<1> QED
  BY <1>2, <1>3 DEF FunctionCreate

LEMMA AddSnapshotKeeps ==
  ASSUME FunctionInv, Locked', NEW t \in Threads, AddSnapshot(t)
  PROVE  FunctionInv'
<1>1. /\ pc[t] = "snapshot" /\ Creates(t) /\ ~ IsCopy(t) /\ req[t].op = "createSnapshot"
  BY FunctionKnows DEF AddSnapshot, AtFunction, At, FunctionHand
<1>2. CASE Reject(t)
  BY <1>1, <1>2, FunctionReturns DEF Reject, NoFault
<1>3. CASE /\ NextId \in Ids /\ IsVolume(req[t].uid) /\ Named(req[t].name) = {}
           /\ array' = MakeObject([name |-> req[t].name, size |-> object[req[t].uid].size,
                                   from |-> req[t].uid, group |-> None, fcmap |-> FALSE])
           /\ Proceed(t, "readBack", [local[t] EXCEPT !.mine = NextId])
           /\ NoFault /\ UNCHANGED <<memory, known>>
  <2>1. req[t].uid \in Ids /\ Exists(req[t].uid)
    BY <1>1, <1>3, FunctionKnows, CreatorAsks DEF IsVolume
  <2>2. object[req[t].uid].size \in Sizes
    BY <2>1, FunctionHasTypes DEF FunctionObject
  <2> QED
    BY <1>1, <1>3, <2>2, FunctionNames
<1> QED
  BY <1>2, <1>3 DEF AddSnapshot

LEMMA AddTemporarySnapshotKeeps ==
  ASSUME FunctionInv, Locked', NEW t \in Threads, AddTemporarySnapshot(t)
  PROVE  FunctionInv'
<1>1. /\ pc[t] = "snapshot" /\ Creates(t) /\ IsCopy(t) /\ local[t].mine = None
      /\ FunctionArray /\ FunctionTemporary /\ \A u \in Ids : FunctionData(u)
  BY FunctionKnows DEF AddTemporarySnapshot, AtFunction, At, FunctionHand
<1>2. /\ known.asked[req[t].name] = req[t] /\ req[t] # None /\ req[t].name \in VolumeNames
      /\ req[t].uid \in Ids
  BY <1>1, FunctionKnows, CreatorAsks DEF IsCopy, Request
<1>3. CASE Reject(t)
  BY <1>1, <1>3, FunctionReturns DEF Reject, NoFault
<1>4. CASE array' = [array EXCEPT !.temporary[req[t].name] = req[t].uid] /\ Step(t, "create")
  <2>1. Continue(t, "create") /\ UNCHANGED <<memory, known, failures>>
    BY <1>4 DEF Step, NoFault
  <2>2. /\ array'.object = array.object /\ array'.made = array.made /\ array'.groups = array.groups
        /\ array'.temporary = [array.temporary EXCEPT ![req[t].name] = req[t].uid] /\ FunctionArray'
    BY <1>1, <1>2, <1>4 DEF FunctionArray
  <2>3. FunctionTemporary'
    BY <1>1, <1>2, <2>1, <2>2 DEF FunctionTemporary, FunctionArray
  <2>4. \A u \in Ids : Exists(u) /\ object[u].group # None => object[u].group \in array'.groups
    BY <1>1, <2>2 DEF FunctionData
  <2>5. "create" \in FunctionPlace \ {"idle"}
    BY DEF FunctionPlace
  <2> QED
    BY <1>1, <2>1, <2>2, <2>3, <2>4, <2>5, FunctionSteps
<1> QED
  BY <1>3, <1>4 DEF AddTemporarySnapshot

LEMMA MakeFromSnapshotKeeps ==
  ASSUME FunctionInv, Locked', NEW t \in Threads, MakeFromSnapshot(t)
  PROVE  FunctionInv'
<1>1. /\ pc[t] = "create" /\ Creates(t) /\ IsCopy(t) /\ local[t].mine = None /\ local[t] \in Memo({})
      /\ FunctionArray /\ FunctionTemporary /\ array.made \in Nat
  BY FunctionKnows DEF MakeFromSnapshot, AtFunction, At, FunctionHand
<1>2. /\ known.asked[req[t].name] = req[t] /\ req[t] # None /\ req[t].name \in VolumeNames
      /\ req[t].uid \in Ids
  BY <1>1, FunctionKnows, CreatorAsks DEF IsCopy, Request
<1>3. PICK source : source = IF req[t].from = "volume" THEN array.temporary[req[t].name] ELSE req[t].uid
  OBVIOUS
<1>4. CASE Reject(t)
  BY <1>1, <1>4, FunctionReturns DEF Reject, NoFault
<1>5. CASE /\ NextId \in Ids /\ Exists(source) /\ req[t].name \notin array.groups
           /\ array' = [MakeObject([name |-> None, size |-> object[source].size,
                                    from |-> source, group |-> req[t].name, fcmap |-> FALSE])
                          EXCEPT !.groups = @ \union {req[t].name}]
           /\ Step(t, "readGroup")
  <2>1. source = req[t].uid
    BY <1>1, <1>2, <1>3, <1>5 DEF FunctionTemporary, Exists
  <2>2. object[source].size \in Sizes
    BY <1>2, <1>5, <2>1, FunctionHasTypes DEF FunctionObject
  <2> DEFINE new == [name |-> None, size |-> object[source].size,
                     from |-> source, group |-> req[t].name, fcmap |-> FALSE]
  <2>3. new \in FunctionObject /\ new.name = None /\ new.from = req[t].uid /\ new.group = req[t].name
    BY <1>2, <2>1, <2>2 DEF FunctionObject
  <2>4. PICK o \in FunctionObject :
          o = new /\ o.name = None /\ o.from = req[t].uid /\ o.group = req[t].name
    BY <2>3
  <2>5. PICK u \in Ids : u = NextId
    BY <1>5
  <2>6. u = array.made + 1
    BY <2>5 DEF NextId
  <2>7. array' = [[array EXCEPT !.made = u, !.object[u] = o] EXCEPT !.groups = @ \union {req[t].name}]
    BY <1>5, <2>4, <2>5 DEF MakeObject
  <2> HIDE DEF new
  <2>8. /\ array'.made = u /\ array'.object = [array.object EXCEPT ![u] = o]
        /\ array'.temporary = array.temporary /\ array'.groups = array.groups \union {req[t].name}
        /\ FunctionArray'
    <3>1. array.object \in [Ids -> FunctionObject \union {None}]
      BY <1>1 DEF FunctionArray
    <3>2. [array.object EXCEPT ![u] = o] \in [Ids -> FunctionObject \union {None}]
      BY <3>1
    <3> QED
      BY <1>1, <1>2, <2>7, <3>2 DEF FunctionArray
  <2>9. Continue(t, "readGroup") /\ UNCHANGED <<memory, known, failures>>
    BY <1>5 DEF Step, NoFault
  <2>10. "readGroup" \in FunctionPlace \ {"idle"}
    BY DEF FunctionPlace
  <2>11. /\ pc'[t] = "readGroup" /\ req'[t] = req[t] /\ local'[t] = local[t]
         /\ Creates(t)' /\ ~ Deletes(t)' /\ ~ Expands(t)'
         /\ IsCopy(t)' <=> IsCopy(t)
         /\ Makes(t)' <=> Makes(t)
         /\ RoleInv(t)' /\ Careful(t)
    BY <1>1, <2>9, <2>10, FunctionGoes
  <2>12. FunctionHand(t)'
    BY <1>1, <2>11 DEF FunctionHand, FunctionPlace, Makes
  <2>13. /\ req[t].op = "createVolume" /\ req[t].uid = None => o.size >= req[t].size
         /\ array.groups \subseteq array'.groups /\ req[t].name \in array'.groups
         /\ local'[t].mine \in {None, u}
    BY <1>1, <2>8, <2>11 DEF IsCopy
  <2> QED
    BY <1>1, <1>5, <2>4, <2>6, <2>8, <2>9, <2>11, <2>12, <2>13, FunctionNew
<1> QED
  BY <1>3, <1>4, <1>5 DEF MakeFromSnapshot

LEMMA ReadGroupVolumeKeeps ==
  ASSUME FunctionInv, Locked', NEW t \in Threads, ReadGroupVolume(t)
  PROVE  FunctionInv'
<1>1. /\ pc[t] = "readGroup" /\ Creates(t) /\ IsCopy(t)
      /\ ObjectsInv /\ KnownInv /\ FunctionApart /\ service = "snapshotFunction"
      /\ \A u \in Ids : Obj(u) /\ FunctionData(u)
  BY FunctionKnows DEF ReadGroupVolume, AtFunction, At, FunctionHand
<1>2. /\ known.asked[req[t].name] = req[t] /\ req[t].name # None
  BY <1>1, CreatorAsks, ArrayObjectsAssumption
<1>3. PICK u \in Ids : /\ Exists(u) /\ object[u].group = req[t].name
                       /\ Proceed(t, "leave", [local[t] EXCEPT !.mine = u])
                       /\ NoFault /\ UNCHANGED <<array, memory, known>>
  BY DEF ReadGroupVolume
<1>4. object[u].name = None /\ object[u].from = req[t].uid /\ u \notin known.deleting
  BY <1>1, <1>2, <1>3 DEF FunctionData
<1>5. known.acked[u] = None
  BY <1>1, <1>3, <1>4, ArrayObjectsAssumption DEF Obj, Fits, KnownInv, Answers
<1>6. "leave" \in FunctionPlace \ {"idle"}
  BY DEF FunctionPlace
<1>7. /\ Alone(t) /\ pc'[t] = "leave" /\ req'[t] = req[t] /\ service' = service
      /\ local'[t] \in Memo({}) /\ local'[t].mine = u
      /\ Creates(t)' /\ ~ Deletes(t)' /\ ~ Expands(t)' /\ Makes(t)'
      /\ IsCopy(t)' <=> IsCopy(t)
      /\ RoleInv(t)'
  BY <1>1, <1>3, <1>4, <1>5, <1>6, FunctionTakes
<1>8. \A w \in Threads \ {t} : Makes(w) => local[w].mine # local'[t].mine
  BY <1>1, <1>3, <1>7, FunctionNotMade
<1>9. /\ FunctionArray' /\ object' = object /\ array'.made = array.made /\ FunctionTemporary'
      /\ \A x \in Ids : Exists(x) /\ object[x].group # None => object[x].group \in array'.groups
  BY <1>3, FunctionStays
<1>10. FunctionHand(t)'
  <2>1. Exists(u)' /\ (object[u])' = object[u] /\ u <= array'.made
    BY <1>3, <1>9, FunctionHasTypes DEF Exists, object
  <2> QED
    BY <1>1, <1>3, <1>4, <1>7, <2>1 DEF FunctionHand, FunctionPlace
<1> QED
  BY <1>3, <1>7, <1>8, <1>9, <1>10, FunctionGoesOn DEF NoFault

(* The volume leaves the group, or gets its name.                          *)
LEMMA FunctionSets ==
  ASSUME FunctionInv, Locked', NEW t \in Threads, pc[t] # "idle", Makes(t), IsCopy(t),
         NEW m, m = local[t].mine, Exists(m), NEW o \in FunctionObject,
         array' = [array EXCEPT !.object[m] = o], UNCHANGED <<memory, known, failures>>,
         \/ o.name = None
         \/ o.name = req[t].name /\ Named(req[t].name) = {},
         o.from = req[t].uid, o.group = None,
         NEW to \in FunctionPlace \ {"idle"}, Continue(t, to),
         object'[m] = o /\ Exists(m)' /\ (\A w \in Ids \ {m} : object'[w] = object[w]) => FunctionHand(t)'
  PROVE  FunctionInv'
<1>1. /\ ObjectsInv /\ (\A w \in Ids : Obj(w) /\ FunctionData(w)) /\ failures \in Nat /\ array.made \in Nat
      /\ service = "snapshotFunction" /\ KnownInv /\ memory = <<>> /\ RoleInv(t) /\ MadeApart
      /\ FunctionArray /\ FunctionApart /\ FunctionTemporary /\ Creates(t)
  BY FunctionKnows DEF Makes
<1>2. m \in Ids /\ known.acked[m] = None /\ m \notin known.gone
  BY <1>1 DEF RoleInv, Obj, MayStay
<1>3. known.asked[req[t].name] = req[t] /\ req[t].name \in Names /\ req[t].name # None /\ req[t] # None
  BY <1>1, CreatorAsks, ArrayObjectsAssumption
<1>4. o # None /\ m # None /\ m \in Nat /\ m <= array.made
  BY <1>2, FunctionAssumption, FunctionHasTypes, ArrayObjectsAssumption
<1>5. /\ array'.made = array.made /\ array'.object = [array.object EXCEPT ![m] = o]
      /\ array'.temporary = array.temporary /\ array'.groups = array.groups /\ FunctionArray'
  <2>1. array.object \in [Ids -> FunctionObject \union {None}]
    BY <1>1 DEF FunctionArray
  <2>2. [array.object EXCEPT ![m] = o] \in [Ids -> FunctionObject \union {None}]
    BY <1>2, <2>1
  <2> QED
    BY <1>1, <2>2 DEF FunctionArray
<1>6. object'[m] = o /\ \A w \in Ids \ {m} : object'[w] = object[w]
  BY <1>1, <1>2, <1>5 DEF FunctionArray, object
<1>7. Exists(m)' /\ \A w \in Ids : w # m => (Exists(w)' <=> Exists(w))
  BY <1>4, <1>6 DEF Exists, object
<1>8. /\ Careful(t) /\ RoleInv(t)' /\ service' = service
      /\ Makes(t)' => \A w \in Threads \ {t} : Makes(w) => local[w].mine # local'[t].mine
  BY <1>1, FunctionGoes
<1>9. Onward
  BY <1>1, <1>5, <1>8 DEF Onward
<1>10. ASSUME NEW w \in Ids
       PROVE  Obj(w)'
  <2>1. CASE w # m
    BY <1>1, <1>6, <1>9, <2>1, ObjKept DEF Untouched
  <2>2. CASE w = m
    <3>1. ASSUME NEW q, q = req[t]
          PROVE  IsLarge(m, q)'
      BY <3>1 DEF IsLarge, IsCopy
    <3>2. m <= array'.made /\ array'.made \in Nat
      BY <1>1, <1>4, <1>5
    <3> QED
      BY <1>1, <1>2, <1>4, <1>6, <1>8, <2>2, <3>1, <3>2, NewObj
  <2> QED
    BY <2>1, <2>2
<1>11. ASSUME NEW w \in Ids
       PROVE  FunctionData(w)'
  <2>1. CASE w # m
    <3>1. FunctionData(w) /\ (object[w])' = object[w] /\ (Exists(w)' <=> Exists(w))
      BY <1>1, <1>6, <1>7, <2>1 DEF object
    <3> QED
      BY <1>5, <3>1 DEF FunctionData
  <2>2. CASE w = m
    <3>1. (object[m])' = o
      BY <1>6 DEF object
    <3> QED
      BY <1>3, <2>2, <3>1 DEF FunctionData
  <2> QED
    BY <2>1, <2>2
<1>12. FunctionApart'
  <2>1. \A w \in Ids : Exists(w) /\ o.name # None => object[w].name # o.name
    BY DEF Named
  <2>2. ASSUME NEW v \in Ids, NEW w \in Ids, Exists(v)', Exists(w)'
        PROVE  /\ object'[v].name = object'[w].name /\ object'[v].name # None => v = w
               /\ object'[v].group = object'[w].group /\ object'[v].group # None => v = w
    <3>1. CASE v # m /\ w # m
      BY <1>1, <1>6, <1>7, <2>2, <3>1 DEF FunctionApart
    <3>2. CASE v = m /\ w # m
      BY <1>6, <1>7, <2>1, <2>2, <3>2
    <3>3. CASE v # m /\ w = m
      BY <1>6, <1>7, <2>1, <2>2, <3>3
    <3> QED
      BY <3>1, <3>2, <3>3
  <2> QED
    BY <2>2 DEF FunctionApart, object
<1>13. FunctionWorld'
  BY <1>1, <1>5, <1>10, <1>11, <1>12 DEF FunctionWorld, FunctionTemporary
<1>14. \A w \in Threads \ {t} : InHand(w) => local[w].mine # m
  BY <1>1, HandsDiffer DEF InHand, MadeApart
<1>15. FunctionTouches(t, m)
  BY <1>1, <1>6, <1>14 DEF FunctionTouches
<1> QED
  BY <1>1, <1>2, <1>5, <1>6, <1>7, <1>8, <1>13, <1>15, FunctionKeeps

LEMMA LeaveTemporaryGroupKeeps ==
  ASSUME FunctionInv, Locked', NEW t \in Threads, LeaveTemporaryGroup(t)
  PROVE  FunctionInv'
<1>1. PICK m : m = local[t].mine
  OBVIOUS
<1>2. /\ pc[t] = "leave" /\ Makes(t) /\ IsCopy(t) /\ Exists(m) /\ local[t] \in Memo({})
      /\ object[m].name = None /\ object[m].from = req[t].uid /\ object[m].group = req[t].name
      /\ RoleInv(t) /\ FunctionArray /\ FunctionApart /\ m <= array.made
  BY <1>1, FunctionKnows DEF LeaveTemporaryGroup, AtFunction, At, FunctionHand
<1>3. m \in Ids /\ object[m] \in FunctionObject /\ Creates(t)
  BY <1>1, <1>2, FunctionHasTypes DEF RoleInv, Makes
<1> DEFINE new == [object[m] EXCEPT !.group = None]
<1>4. new \in FunctionObject /\ new.name = None /\ new.from = req[t].uid /\ new.group = None
  BY <1>2, <1>3 DEF FunctionObject
<1>5. PICK o \in FunctionObject : o = new /\ o.name = None /\ o.from = req[t].uid /\ o.group = None
  BY <1>4
<1>6. array' = [array EXCEPT !.object[m] = o] /\ Step(t, "removeGroup")
  BY <1>1, <1>2, <1>3, <1>5 DEF LeaveTemporaryGroup, FunctionArray, object
<1> HIDE DEF new
<1>7. Continue(t, "removeGroup") /\ UNCHANGED <<memory, known, failures>> /\ array'.made = array.made
  BY <1>2, <1>6 DEF Step, NoFault, FunctionArray
<1>8. "removeGroup" \in FunctionPlace \ {"idle"}
  BY DEF FunctionPlace
<1>9. /\ pc'[t] = "removeGroup" /\ req'[t] = req[t] /\ local'[t] = local[t]
      /\ Creates(t)' /\ ~ Deletes(t)' /\ ~ Expands(t)'
      /\ IsCopy(t)' <=> IsCopy(t)
      /\ Makes(t)' <=> Makes(t)
  BY <1>2, <1>3, <1>7, <1>8, FunctionGoes
<1>10. ASSUME object'[m] = o, Exists(m)', \A w \in Ids \ {m} : object'[w] = object[w]
       PROVE  FunctionHand(t)'
  <2>1. (object[m])' = o /\ req[t].name # None
    BY <1>3, <1>10, FunctionKnows, ArrayObjectsAssumption DEF object, RequestInv
  <2>2. \A u \in Ids : Exists(u)' /\ object'[u].group = req[t].name => u = m
    <3>1. \A u \in Ids \ {m} : Exists(u)' => Exists(u)
      BY <1>10 DEF Exists, object
    <3> QED
      BY <1>2, <1>3, <1>10, <2>1, <3>1 DEF FunctionApart
  <2> QED
    BY <1>1, <1>2, <1>5, <1>7, <1>9, <1>10, <2>1, <2>2 DEF FunctionHand, FunctionPlace, object
<1> QED
  BY <1>1, <1>2, <1>5, <1>6, <1>7, <1>8, <1>10, FunctionSets

LEMMA RemoveTemporaryGroupKeeps ==
  ASSUME FunctionInv, Locked', NEW t \in Threads, RemoveTemporaryGroup(t)
  PROVE  FunctionInv'
<1>1. /\ pc[t] = "removeGroup" /\ Creates(t) /\ FunctionHand(t) /\ FunctionArray /\ FunctionTemporary
      /\ \A u \in Ids : FunctionData(u)
  BY FunctionKnows DEF RemoveTemporaryGroup, AtFunction, At, FunctionHand, Makes
<1>2. /\ array' = [array EXCEPT !.groups = @ \ {req[t].name}]
      /\ Continue(t, "rename") /\ UNCHANGED <<memory, known, failures>>
  BY DEF RemoveTemporaryGroup, Step, NoFault
<1>3. /\ array'.object = array.object /\ array'.made = array.made /\ array'.temporary = array.temporary
      /\ array'.groups = array.groups \ {req[t].name} /\ FunctionArray'
  BY <1>1, <1>2 DEF FunctionArray
<1>4. \A u \in Ids : Exists(u) /\ object[u].group # None => object[u].group \in array'.groups
  <2>1. \A u \in Ids : Exists(u) => object[u].group # req[t].name
    BY <1>1, FunctionKnows, ArrayObjectsAssumption DEF FunctionHand, RequestInv
  <2> QED
    BY <1>1, <1>3, <2>1 DEF FunctionData
<1>5. FunctionTemporary' /\ "rename" \in FunctionPlace \ {"idle"}
  BY <1>1, <1>2, <1>3 DEF FunctionTemporary, FunctionPlace
<1> QED
  BY <1>1, <1>2, <1>3, <1>4, <1>5, FunctionSteps

LEMMA RenameVolumeKeeps ==
  ASSUME FunctionInv, Locked', NEW t \in Threads, RenameVolume(t)
  PROVE  FunctionInv'
<1>1. PICK m : m = local[t].mine
  OBVIOUS
<1>2. /\ pc[t] = "rename" /\ Makes(t) /\ IsCopy(t) /\ Exists(m) /\ local[t] \in Memo({})
      /\ object[m].name = None /\ object[m].from = req[t].uid /\ object[m].group = None
      /\ RoleInv(t) /\ FunctionArray /\ m <= array.made
  BY <1>1, FunctionKnows DEF RenameVolume, AtFunction, At, FunctionHand
<1>3. m \in Ids /\ object[m] \in FunctionObject /\ Creates(t) /\ req[t].name \in Names
  BY <1>1, <1>2, FunctionHasTypes, FunctionKnows DEF RoleInv, Makes, RequestInv
<1>4. CASE Step(t, "undoVolume") /\ UNCHANGED array
  <2>1. Continue(t, "undoVolume") /\ UNCHANGED <<array, memory, known, failures>>
    BY <1>4 DEF Step, NoFault
  <2>2. "undoVolume" \in FunctionPlace \ {"idle"}
    BY DEF FunctionPlace
  <2>3. /\ FunctionArray' /\ array'.object = array.object /\ array'.made = array.made
        /\ FunctionTemporary'
        /\ \A u \in Ids : Exists(u) /\ object[u].group # None => object[u].group \in array'.groups
    BY <2>1, FunctionStays
  <2> QED
    BY <1>2, <1>3, <2>1, <2>2, <2>3, FunctionSteps
<1>5. CASE /\ Named(req[t].name) = {}
           /\ array' = [array EXCEPT !.object[local[t].mine].name = req[t].name]
           /\ Step(t, IF req[t].from = "volume" THEN "removeSnapshot" ELSE "readBack")
  <2> DEFINE new == [object[m] EXCEPT !.name = req[t].name]
  <2>1. new \in FunctionObject /\ new.name = req[t].name /\ new.from = req[t].uid /\ new.group = None
    BY <1>2, <1>3 DEF FunctionObject
  <2>2. PICK o \in FunctionObject : o = new /\ o.name = req[t].name /\ o.from = req[t].uid /\ o.group = None
    BY <2>1
  <2>3. array' = [array EXCEPT !.object[m] = o]
    BY <1>1, <1>2, <1>3, <1>5, <2>2 DEF FunctionArray, object
  <2> HIDE DEF new
  <2>4. PICK to : to = IF req[t].from = "volume" THEN "removeSnapshot" ELSE "readBack"
    OBVIOUS
  <2>5. to \in FunctionPlace \ {"idle"} /\ to \in {"removeSnapshot", "readBack"}
    BY <2>4 DEF FunctionPlace
  <2>6. Continue(t, to) /\ UNCHANGED <<memory, known, failures>> /\ array'.made = array.made
    BY <1>2, <1>5, <2>3, <2>4 DEF Step, NoFault, FunctionArray
  <2>7. /\ pc'[t] = to /\ req'[t] = req[t] /\ local'[t] = local[t]
        /\ Creates(t)' /\ ~ Deletes(t)' /\ ~ Expands(t)'
        /\ IsCopy(t)' <=> IsCopy(t)
        /\ Makes(t)' <=> Makes(t)
    BY <1>2, <1>3, <2>5, <2>6, FunctionGoes
  <2>8. ASSUME object'[m] = o, Exists(m)'
        PROVE  FunctionHand(t)'
    <3>1. (object[m])' = o
      BY <2>8 DEF object
    <3> QED
      BY <1>1, <1>2, <2>2, <2>5, <2>6, <2>7, <2>8, <3>1 DEF FunctionHand, FunctionPlace
  <2> QED
    BY <1>1, <1>2, <1>5, <2>2, <2>3, <2>5, <2>6, <2>8, FunctionSets
<1> QED
  BY <1>4, <1>5 DEF RenameVolume

LEMMA RemoveTemporarySnapshotKeeps ==
  ASSUME FunctionInv, Locked', NEW t \in Threads, RemoveTemporarySnapshot(t)
  PROVE  FunctionInv'
<1>1. /\ pc[t] = "removeSnapshot" /\ Creates(t) /\ FunctionArray /\ FunctionTemporary
      /\ \A u \in Ids : FunctionData(u)
  BY FunctionKnows DEF RemoveTemporarySnapshot, AtFunction, At, FunctionHand, Makes
<1>2. /\ array' = [array EXCEPT !.temporary[req[t].name] = None]
      /\ Continue(t, "readBack") /\ UNCHANGED <<memory, known, failures>>
  BY DEF RemoveTemporarySnapshot, Step, NoFault
<1>3. /\ array'.object = array.object /\ array'.made = array.made /\ array'.groups = array.groups
      /\ array'.temporary = [array.temporary EXCEPT ![req[t].name] = None] /\ FunctionArray'
  BY <1>1, <1>2 DEF FunctionArray
<1>4. \A u \in Ids : Exists(u) /\ object[u].group # None => object[u].group \in array'.groups
  BY <1>1, <1>3 DEF FunctionData
<1>5. FunctionTemporary' /\ "readBack" \in FunctionPlace \ {"idle"}
  BY <1>1, <1>2, <1>3 DEF FunctionTemporary, FunctionPlace, FunctionArray
<1> QED
  BY <1>1, <1>2, <1>3, <1>4, <1>5, FunctionSteps

LEMMA FunctionReadBackKeeps ==
  ASSUME FunctionInv, Locked', NEW t \in Threads, FunctionReadBack(t)
  PROVE  FunctionInv'
<1>1. pc[t] = "readBack" /\ Creates(t)
  BY FunctionKnows DEF FunctionReadBack, AtFunction, At, FunctionHand, Makes
<1>2. CASE Reject(t)
  BY <1>1, <1>2, FunctionReturns DEF Reject, NoFault
<1>3. ASSUME NEW u \in Named(req[t].name), Report(t, u), NoFault, UNCHANGED <<array, memory>>
      PROVE  FunctionInv'
  BY <1>1, <1>3, FunctionReports
<1> QED
  BY <1>2, <1>3 DEF FunctionReadBack

(* The array without one of its objects.                                   *)
LEMMA FunctionLess ==
  ASSUME FunctionInv, NEW m \in Ids, array' = [array EXCEPT !.object[m] = None],
         known'.asked = known.asked, known'.deleting = known.deleting
  PROVE  /\ FunctionArray' /\ FunctionApart' /\ FunctionTemporary' /\ array'.made = array.made
         /\ \A u \in Ids : FunctionData(u)'
         /\ object'[m] = None /\ ~ Exists(m)'
         /\ \A u \in Ids \ {m} : object'[u] = object[u] /\ (Exists(u)' <=> Exists(u))
<1>1. FunctionArray /\ FunctionApart /\ FunctionTemporary /\ \A u \in Ids : FunctionData(u)
  BY FunctionKnows
<1>2. /\ array'.made = array.made /\ array'.object = [array.object EXCEPT ![m] = None]
      /\ array'.temporary = array.temporary /\ array'.groups = array.groups /\ FunctionArray'
  BY <1>1 DEF FunctionArray
<1>3. object'[m] = None /\ \A w \in Ids \ {m} : object'[w] = object[w]
  BY <1>1, <1>2 DEF FunctionArray, object
<1>4. ~ Exists(m)' /\ \A w \in Ids \ {m} : Exists(w)' <=> Exists(w)
  BY <1>3 DEF Exists, object
<1>5. ASSUME NEW u \in Ids
      PROVE  FunctionData(u)'
  <2>1. CASE u = m
    BY <1>4, <2>1 DEF FunctionData
  <2>2. CASE u # m
    <3>1. FunctionData(u) /\ (object[u])' = object[u] /\ (Exists(u)' <=> Exists(u))
      BY <1>1, <1>3, <1>4, <2>2 DEF object
    <3> QED
      BY <1>2, <3>1 DEF FunctionData
  <2> QED
    BY <2>1, <2>2
<1>6. FunctionApart'
  BY <1>1, <1>3, <1>4 DEF FunctionApart, object
<1>7. FunctionTemporary'
  BY <1>1, <1>2 DEF FunctionTemporary
<1> QED
  BY <1>2, <1>3, <1>4, <1>5, <1>6, <1>7

LEMMA UndoFunctionVolumeKeeps ==
  ASSUME FunctionInv, Locked', NEW t \in Threads, UndoFunctionVolume(t)
  PROVE  FunctionInv'
<1>1. PICK m : m = local[t].mine
  OBVIOUS
<1>2. /\ pc[t] = "undoVolume" /\ Makes(t) /\ IsCopy(t) /\ local[t] \in Memo({})
      /\ RoleInv(t) /\ m <= array.made /\ Creates(t)
      /\ \A u \in Ids : Exists(u) /\ object[u].group = req[t].name => u = m
  BY <1>1, FunctionKnows DEF UndoFunctionVolume, AtFunction, At, FunctionHand, Makes
<1>3. m \in Ids /\ known.acked[m] = None
  BY <1>1, <1>2 DEF RoleInv
<1>4. /\ array' = [array EXCEPT !.object[m] = None]
      /\ Continue(t, "undoGroup") /\ UNCHANGED <<memory, known, failures>>
  BY <1>1 DEF UndoFunctionVolume, Step, NoFault
<1>5. /\ FunctionArray' /\ FunctionApart' /\ FunctionTemporary' /\ array'.made = array.made
      /\ \A u \in Ids : FunctionData(u)'
      /\ object'[m] = None /\ ~ Exists(m)'
      /\ \A u \in Ids \ {m} : object'[u] = object[u] /\ (Exists(u)' <=> Exists(u))
  BY <1>3, <1>4, FunctionLess
<1>6. "undoGroup" \in FunctionPlace \ {"idle"}
  BY DEF FunctionPlace
<1>7. /\ pc'[t] = "undoGroup" /\ req'[t] = req[t] /\ local'[t] = local[t] /\ service' = service
      /\ Creates(t)' /\ ~ Deletes(t)' /\ ~ Expands(t)'
      /\ IsCopy(t)' <=> IsCopy(t)
      /\ Makes(t)' <=> Makes(t)
      /\ RoleInv(t)' /\ Careful(t)
      /\ Makes(t)' => \A w \in Threads \ {t} : Makes(w) => local[w].mine # local'[t].mine
  BY <1>2, <1>4, <1>6, FunctionGoes
<1>8. /\ failures \in Nat /\ array.made \in Nat /\ service = "snapshotFunction" /\ memory = <<>>
      /\ (\A u \in Ids : Obj(u)) /\ ObjectsInv /\ MadeApart
  BY FunctionKnows
<1>9. Onward
  BY <1>4, <1>5, <1>7, <1>8 DEF Onward
<1>10. ASSUME NEW u \in Ids
       PROVE  Obj(u)'
  <2>1. CASE u # m
    BY <1>4, <1>5, <1>8, <1>9, <2>1, ObjKept DEF Untouched
  <2>2. CASE u = m
    <3>1. ~ Trusted(m)' /\ (object[m])' = None /\ known' = known /\ array'.made = array.made
      BY <1>3, <1>4, <1>5 DEF Trusted, object
    <3> QED
      BY <1>3, <1>5, <1>7, <1>8, <2>2, <3>1 DEF Obj
  <2> QED
    BY <2>1, <2>2
<1>11. FunctionWorld'
  BY <1>4, <1>5, <1>8, <1>10 DEF FunctionWorld
<1>12. FunctionHand(t)'
  <2>1. \A u \in Ids : Exists(u)' /\ object'[u].group = req[t].name => u = m
    BY <1>2, <1>5
  <2> QED
    BY <1>1, <1>2, <1>5, <1>7, <2>1 DEF FunctionHand, FunctionPlace, object
<1>13. \A w \in Threads \ {t} : InHand(w) => local[w].mine # m
  BY <1>1, <1>2, <1>8, HandsDiffer DEF InHand, MadeApart
<1>14. FunctionTouches(t, m)
  BY <1>5, <1>13 DEF FunctionTouches
<1> QED
  BY <1>3, <1>5, <1>7, <1>8, <1>11, <1>12, <1>14, FunctionKeeps

LEMMA UndoTemporaryGroupKeeps ==
  ASSUME FunctionInv, Locked', NEW t \in Threads, UndoTemporaryGroup(t)
  PROVE  FunctionInv'
<1>1. /\ pc[t] = "undoGroup" /\ Creates(t) /\ FunctionHand(t) /\ FunctionArray /\ FunctionTemporary
      /\ \A u \in Ids : FunctionData(u)
  BY FunctionKnows DEF UndoTemporaryGroup, AtFunction, At, FunctionHand, Makes
<1>2. /\ array' = [array EXCEPT !.groups = @ \ {req[t].name}]
      /\ Return(t) /\ UNCHANGED <<memory, known, failures>>
  BY DEF UndoTemporaryGroup, NoFault
<1>3. /\ array'.object = array.object /\ array'.made = array.made /\ array'.temporary = array.temporary
      /\ array'.groups = array.groups \ {req[t].name} /\ FunctionArray'
  BY <1>1, <1>2 DEF FunctionArray
<1>4. \A u \in Ids : Exists(u) /\ object[u].group # None => object[u].group \in array'.groups
  <2>1. \A u \in Ids : Exists(u) => object[u].group # req[t].name
    BY <1>1 DEF FunctionHand
  <2> QED
    BY <1>1, <1>3, <2>1 DEF FunctionData
<1>5. FunctionTemporary' /\ object' = object
  BY <1>1, <1>2, <1>3 DEF FunctionTemporary, object
<1>6. /\ Alone(t) /\ req'[t] = None /\ pc'[t] = "idle" /\ service' = service /\ ~ Makes(t)'
  BY <1>1, <1>2, FunctionKnows, ReturnMoves DEF Return, Makes, Creates
<1> QED
  BY <1>2, <1>3, <1>4, <1>5, <1>6, FunctionGoesOn

LEMMA FunctionFailKeeps ==
  ASSUME FunctionInv, Locked', NEW t \in Threads, FunctionFail(t)
  PROVE  FunctionInv'
<1>1. pc[t] # "idle" /\ failures' = failures + 1 /\ UNCHANGED <<array, memory, known>>
  BY DEF FunctionFail, Fault
<1>2. CASE Return(t)
  BY <1>1, <1>2, FunctionReturns
<1>3. CASE pc[t] \in {"leave", "removeGroup", "rename"} /\ Continue(t, "undoVolume")
  <2>1. "undoVolume" \in FunctionPlace \ {"idle"} /\ Creates(t)
    BY <1>3, FunctionKnows DEF FunctionPlace, FunctionHand, Makes
  <2>2. /\ FunctionArray' /\ array'.object = array.object /\ array'.made = array.made
        /\ FunctionTemporary'
        /\ \A u \in Ids : Exists(u) /\ object[u].group # None => object[u].group \in array'.groups
    BY <1>1, FunctionStays
  <2> QED
    BY <1>1, <1>3, <2>1, <2>2, FunctionSteps
<1> QED
  BY <1>2, <1>3 DEF FunctionFail

(* A handler that deletes or expands goes on.                              *)
LEMMA FunctionLooks ==
  ASSUME FunctionInv, Locked', NEW t \in Threads, Step(t, IF Deletes(t) THEN "remove" ELSE "extend"),
         UNCHANGED array,
         \/ pc[t] = "look"
         \/ pc[t] = "expand" /\ (Exists(local[t].mine) => object[local[t].mine].size < req[t].size)
  PROVE  FunctionInv'
<1>1. PICK to : to = IF Deletes(t) THEN "remove" ELSE "extend"
  OBVIOUS
<1>2. Continue(t, to) /\ UNCHANGED <<array, memory, known, failures>> /\ to # "idle"
  BY <1>1 DEF Step, NoFault
<1>3. Locked /\ RoleInv(t) /\ FunctionHand(t) /\ (Deletes(t) \/ Expands(t)) /\ ~ Creates(t) /\ local[t] \in Memo({})
  BY FunctionKnows DEF FunctionHand, Creates, Deletes, Expands, CreateOps, DeleteOps
<1>4. Alone(t) /\ pc'[t] = to /\ req'[t] = req[t] /\ local'[t] = local[t] /\ service' = service
  BY <1>2, <1>3, ContinueMoves DEF Continue, Proceed
<1>5. /\ Deletes(t)' <=> Deletes(t)
      /\ Expands(t)' <=> Expands(t)
      /\ ~ Creates(t)' /\ ~ Makes(t)'
  BY <1>3, <1>4 DEF Deletes, Expands, Creates, Makes
<1>6. RoleInv(t)'
  BY <1>2, <1>3, <1>4, <1>5 DEF RoleInv
<1>7. /\ FunctionArray' /\ object' = object /\ array'.made = array.made /\ FunctionTemporary'
      /\ \A x \in Ids : Exists(x) /\ object[x].group # None => object[x].group \in array'.groups
  BY <1>2, FunctionStays
<1>8. FunctionHand(t)'
  <2>1. /\ (object[local[t].mine])' = object[local[t].mine]
        /\ Exists(local[t].mine)' <=> Exists(local[t].mine)
    BY <1>4, <1>7 DEF object, Exists
  <2>2. to = "extend" => pc[t] = "expand" /\ Expands(t)
    BY <1>1, <1>3 DEF FunctionHand
  <2>3. to = "remove" => Deletes(t)
    BY <1>1
  <2> QED
    BY <1>1, <1>3, <1>4, <1>5, <2>1, <2>2, <2>3 DEF FunctionHand, FunctionPlace
<1> QED
  BY <1>2, <1>4, <1>5, <1>6, <1>7, <1>8, FunctionGoesOn

LEMMA FunctionDeletes ==
  ASSUME FunctionInv, Locked', NEW t \in Threads, Deletes(t), Deleted(t), NEW m, m = req[t].uid,
         array' = [array EXCEPT !.object[m] = None], UNCHANGED <<memory, failures>>
  PROVE  FunctionInv'
<1>1. /\ failures \in Nat /\ array.made \in Nat /\ service = "snapshotFunction" /\ memory = <<>>
      /\ (\A u \in Ids : Obj(u)) /\ ObjectsInv /\ RoleInv(t) /\ RequestInv(t) /\ req[t] # None
  BY FunctionKnows DEF Deletes
<1>2. m \in Ids /\ m \in known.deleting /\ local[t].mine = m
  BY <1>1 DEF RequestInv, RoleInv
<1>3. /\ req'[t] = None /\ pc'[t] = "idle" /\ known'.asked = known.asked /\ service' = service
      /\ known'.deleting = known.deleting
  BY <1>1, DeletedTells
<1>4. /\ FunctionArray' /\ FunctionApart' /\ FunctionTemporary' /\ array'.made = array.made
      /\ \A u \in Ids : FunctionData(u)'
      /\ object'[m] = None /\ ~ Exists(m)'
      /\ \A u \in Ids \ {m} : object'[u] = object[u] /\ (Exists(u)' <=> Exists(u))
  BY <1>2, <1>3, FunctionLess
<1>5. Onward
  BY <1>1, <1>3, <1>4 DEF Onward
<1>6. \A u \in Ids : Obj(u)'
  BY <1>1, <1>2, <1>4, <1>5, DeletedObjs DEF Trusted
<1>7. FunctionWorld'
  BY <1>1, <1>4, <1>6 DEF FunctionWorld
<1>8. RoleInv(t)' /\ FunctionHand(t)' /\ Careful(t) /\ ~ Makes(t)'
  BY <1>1, <1>3, FreedRole, DeletedCareful DEF FunctionHand, Makes, Creates
<1>9. \A w \in Threads \ {t} : InHand(w) => local[w].mine # m
  BY <1>1, <1>2, HandsDiffer DEF InHand
<1>10. FunctionTouches(t, m)
  BY <1>4, <1>9 DEF FunctionTouches
<1> QED
  BY <1>1, <1>2, <1>4, <1>7, <1>8, <1>10, FunctionKeeps

LEMMA FunctionLookKeeps ==
  ASSUME FunctionInv, Locked', NEW t \in Threads, FunctionLook(t)
  PROVE  FunctionInv'
<1>1. PICK m : m = req[t].uid
  OBVIOUS
<1>2. /\ pc[t] = "look" /\ Deletes(t) /\ RoleInv(t) /\ RequestInv(t) /\ FunctionArray
  BY FunctionKnows DEF FunctionLook, AtFunction, At, FunctionHand
<1>3. m \in Ids /\ local[t].mine = m
  BY <1>1, <1>2 DEF RoleInv, RequestInv
<1>4. CASE Reject(t)
  BY <1>2, <1>4, FunctionReturns DEF Reject, NoFault
<1>5. CASE ~ Exists(m) /\ Deleted(t) /\ NoFault /\ UNCHANGED <<array, memory>>
  <2>1. array.object[m] = None
    BY <1>3, <1>5, ArrayObjectsAssumption DEF Exists, object
  <2>2. array' = [array EXCEPT !.object[m] = None]
    BY <1>2, <1>3, <1>5, <2>1 DEF FunctionArray
  <2>3. Deleted(t) /\ Deletes(t) /\ UNCHANGED <<memory, failures>> /\ m = req[t].uid
    BY <1>1, <1>2, <1>5 DEF NoFault
  <2> QED
    BY <2>2, <2>3, FunctionDeletes
<1>6. CASE Step(t, "remove") /\ UNCHANGED array
  BY <1>2, <1>6, FunctionLooks
<1> QED
  BY <1>3, <1>4, <1>5, <1>6 DEF FunctionLook

LEMMA FunctionRemoveKeeps ==
  ASSUME FunctionInv, Locked', NEW t \in Threads, FunctionRemove(t)
  PROVE  FunctionInv'
<1>1. pc[t] = "remove" /\ Deletes(t) /\ RoleInv(t)
  BY FunctionKnows DEF FunctionRemove, AtFunction, At, FunctionHand
<1>2. local[t].mine = req[t].uid
  BY <1>1 DEF RoleInv
<1>3. array' = [array EXCEPT !.object[req[t].uid] = None] /\ Deleted(t) /\ NoFault /\ UNCHANGED memory
  BY <1>2 DEF FunctionRemove
<1> QED
  BY <1>1, <1>3, FunctionDeletes DEF NoFault

LEMMA FunctionExpands ==
  ASSUME FunctionInv, Locked', NEW t \in Threads, Expands(t), Expanded(t),
         UNCHANGED <<memory, failures>>, NEW m, m = req[t].uid, Exists(m),
         \/ array' = array /\ object[m].size >= req[t].size
         \/ array' = [array EXCEPT !.object[m].size = req[t].size] /\ object[m].size < req[t].size
  PROVE  FunctionInv'
<1>1. /\ ObjectsInv /\ (\A u \in Ids : Obj(u) /\ FunctionData(u)) /\ failures \in Nat /\ array.made \in Nat
      /\ service = "snapshotFunction" /\ memory = <<>> /\ RoleInv(t) /\ RequestInv(t)
      /\ FunctionArray /\ FunctionApart /\ FunctionTemporary
  BY FunctionKnows
<1>2. req[t].size \in Sizes /\ req[t].size \in Nat /\ local[t].mine = m /\ m \in Ids
  BY <1>1, ArrayObjectsAssumption DEF RequestInv, RoleInv
<1>3. /\ req'[t] = None /\ pc'[t] = "idle" /\ known'.asked = known.asked /\ service' = service
      /\ known'.deleting = known.deleting
  BY <1>1, ExpandedTells
<1>4. object[m] \in FunctionObject /\ object[m] # None /\ object[m].size \in Nat
  BY <1>2, FunctionHasTypes, ArrayObjectsAssumption DEF FunctionObject
<1>5. /\ array'.made = array.made /\ FunctionArray'
      /\ array'.temporary = array.temporary /\ array'.groups = array.groups
      /\ object'[m].name = object[m].name /\ object'[m].from = object[m].from
      /\ object'[m].group = object[m].group
      /\ object'[m].size \in Nat /\ object'[m].size >= object[m].size /\ object'[m].size >= req[t].size
      /\ object'[m] \in FunctionObject
      /\ \A u \in Ids : u # m => object'[u] = object[u]
  <2>1. CASE array' = array /\ object[m].size >= req[t].size
    <3>1. object' = object /\ FunctionArray'
      BY <1>1, <2>1 DEF object, FunctionArray
    <3> QED
      BY <1>1, <1>4, <2>1, <3>1
  <2>2. CASE array' = [array EXCEPT !.object[m].size = req[t].size] /\ object[m].size < req[t].size
    <3> DEFINE o == [object[m] EXCEPT !.size = req[t].size]
    <3>1. /\ o \in FunctionObject /\ o.name = object[m].name /\ o.from = object[m].from
          /\ o.size = req[t].size /\ o.group = object[m].group
      BY <1>2, <1>4 DEF FunctionObject
    <3>2. array' = [array EXCEPT !.object[m] = o]
      BY <1>1, <1>2, <2>2 DEF FunctionArray, object
    <3> HIDE DEF o
    <3>3. [array.object EXCEPT ![m] = o] \in [Ids -> FunctionObject \union {None}]
      BY <1>1, <3>1 DEF FunctionArray
    <3>4. /\ array'.made = array.made /\ array'.object = [array.object EXCEPT ![m] = o]
          /\ array'.temporary = array.temporary /\ array'.groups = array.groups /\ FunctionArray'
      BY <1>1, <3>2, <3>3 DEF FunctionArray
    <3>5. object'[m] = o /\ \A u \in Ids : u # m => object'[u] = object[u]
      BY <1>1, <1>2, <3>4 DEF FunctionArray, object
    <3> QED
      BY <1>2, <1>4, <2>2, <3>1, <3>4, <3>5
  <2> QED
    BY <2>1, <2>2
<1>6. object'[m] # None
  BY <1>5, FunctionAssumption
<1>7. Onward
  BY <1>1, <1>3, <1>5 DEF Onward
<1>8. \A u \in Ids : Obj(u)'
  BY <1>1, <1>4, <1>5, <1>6, <1>7, ExpandedObjs
<1>9. /\ \A u \in Ids : Exists(u)' <=> Exists(u)
      /\ \A u \in Ids : object'[u].name = object[u].name /\ object'[u].from = object[u].from
                        /\ object'[u].group = object[u].group
  BY <1>2, <1>4, <1>5, <1>6, ArrayObjectsAssumption DEF Exists, object
<1>10. ASSUME NEW u \in Ids
       PROVE  FunctionData(u)'
  <2>1. /\ FunctionData(u) /\ (Exists(u)' <=> Exists(u))
        /\ (object[u])'.name = object[u].name /\ (object[u])'.from = object[u].from
        /\ (object[u])'.group = object[u].group
    BY <1>1, <1>9 DEF object
  <2> QED
    BY <1>3, <1>5, <2>1 DEF FunctionData
<1>11. FunctionApart'
  BY <1>1, <1>9 DEF FunctionApart, object
<1>12. FunctionWorld'
  BY <1>1, <1>3, <1>5, <1>8, <1>10, <1>11 DEF FunctionWorld, FunctionTemporary
<1>13. \A w \in Threads \ {t} : InHand(w) => local[w].mine # m
  BY <1>1, <1>2, HandsDiffer DEF InHand
<1>14. FunctionTouches(t, m)
  BY <1>5, <1>13 DEF FunctionTouches
<1>15. RoleInv(t)' /\ FunctionHand(t)' /\ Careful(t) /\ ~ Makes(t)'
  BY <1>1, <1>3, FreedRole, ExpandedCareful DEF FunctionHand, Makes, Creates
<1> QED
  BY <1>1, <1>2, <1>5, <1>12, <1>14, <1>15, FunctionKeeps

LEMMA FunctionExpandKeeps ==
  ASSUME FunctionInv, Locked', NEW t \in Threads, FunctionExpand(t)
  PROVE  FunctionInv'
<1>1. PICK m : m = req[t].uid
  OBVIOUS
<1>2. /\ pc[t] = "expand" /\ Expands(t) /\ ~ Deletes(t) /\ RoleInv(t) /\ RequestInv(t)
  BY FunctionKnows DEF FunctionExpand, AtFunction, At, FunctionHand, Expands, Deletes, DeleteOps
<1>3. m \in Ids /\ local[t].mine = m /\ req[t].size \in Nat
  BY <1>1, <1>2, ArrayObjectsAssumption DEF RoleInv, RequestInv
<1>4. CASE Reject(t)
  BY <1>2, <1>4, FunctionReturns DEF Reject, NoFault
<1>5. CASE Exists(m) /\ object[m].size >= req[t].size /\ Expanded(t) /\ NoFault /\ UNCHANGED <<array, memory>>
  BY <1>1, <1>2, <1>5, FunctionExpands DEF NoFault
<1>6. CASE Exists(m) /\ ~ (object[m].size >= req[t].size) /\ Step(t, "extend") /\ UNCHANGED array
  <2>1. object[m].size \in Nat
    BY <1>3, <1>6, FunctionHasTypes, ArrayObjectsAssumption DEF FunctionObject
  <2>2. object[m].size < req[t].size
    BY <1>3, <1>6, <2>1
  <2> QED
    BY <1>2, <1>3, <1>6, <2>2, FunctionLooks
<1> QED
  BY <1>3, <1>4, <1>5, <1>6 DEF FunctionExpand

LEMMA FunctionExtendKeeps ==
  ASSUME FunctionInv, Locked', NEW t \in Threads, FunctionExtend(t)
  PROVE  FunctionInv'
<1>1. PICK m : m = req[t].uid
  OBVIOUS
<1>2. /\ pc[t] = "extend" /\ Expands(t) /\ FunctionHand(t) /\ RoleInv(t)
  BY FunctionKnows DEF FunctionExtend, AtFunction, At, FunctionHand
<1>3. local[t].mine = m /\ (Exists(m) => object[m].size < req[t].size)
  BY <1>1, <1>2 DEF RoleInv, FunctionHand
<1>4. CASE Reject(t)
  BY <1>2, <1>4, FunctionReturns DEF Reject, NoFault
<1>5. CASE /\ Exists(m) /\ array' = [array EXCEPT !.object[m].size = req[t].size]
           /\ Expanded(t) /\ NoFault /\ UNCHANGED memory
  BY <1>1, <1>2, <1>3, <1>5, FunctionExpands DEF NoFault
<1> QED
  BY <1>3, <1>4, <1>5 DEF FunctionExtend

LEMMA FunctionCallKeeps ==
  ASSUME FunctionInv, NEW t \in Threads, CallObjects(t)
  PROVE  FunctionInv'
<1>1. /\ ObjectsInv' /\ (\A u \in Ids : Obj(u)') /\ Alone(t) /\ Starts(t) /\ Onward
      /\ UNCHANGED <<service, array, memory, failures>> /\ known'.acked = known.acked
      /\ \A u \in known'.deleting : u \in known.deleting \/ known.acked[u] # None
  BY FunctionKnows, CallKeeps
<1>2. /\ object' = object /\ (\A u : Exists(u)' <=> Exists(u)) /\ (\A n : Named(n)' = Named(n))
      /\ array' = array
  BY <1>1 DEF Exists, Named, object
<1>3. ASSUME NEW u \in Ids
      PROVE  FunctionData(u)'
  <2>1. CASE ~ Exists(u)
    BY <1>2, <2>1 DEF FunctionData
  <2>2. CASE Exists(u)
    <3>1. Obj(u) /\ FunctionData(u) /\ KnownInv /\ service = "snapshotFunction"
      BY FunctionKnows
    <3>2. object[u].name # None => known'.asked[object[u].name] = known.asked[object[u].name]
      BY <1>1, <2>2, <3>1 DEF Obj, Onward
    <3>3. object[u].group # None => object[u].group \in Names
      BY <2>2, FunctionHasTypes DEF FunctionObject, Names
    <3>4. object[u].group # None => known'.asked[object[u].group] = known.asked[object[u].group]
      BY <1>1, <2>2, <3>1, <3>3 DEF FunctionData, Onward
    <3>5. known.acked[u] # None => object[u].name # None
      BY <2>2, <3>1, ArrayObjectsAssumption DEF Obj, Fits, KnownInv, Answers
    <3>6. object[u].group # None => u \notin known'.deleting
      BY <1>1, <2>2, <3>1, <3>5 DEF FunctionData
    <3> QED
      BY <1>2, <2>2, <3>1, <3>2, <3>4, <3>6 DEF FunctionData
  <2> QED
    BY <2>1, <2>2
<1>4. FunctionTemporary'
  <2>1. FunctionTemporary /\ \A n \in VolumeNames : n \in Names
    BY FunctionKnows DEF Names
  <2> QED
    BY <1>1, <1>2, <2>1 DEF FunctionTemporary, Onward
<1>5. FunctionWorld'
  <2>1. FunctionArray /\ FunctionApart /\ memory = <<>> /\ failures \in Nat
    BY FunctionKnows
  <2> QED
    BY <1>1, <1>2, <1>3, <1>4, <2>1 DEF FunctionWorld, FunctionArray, FunctionApart
<1>6. FunctionHand(t)' /\ ~ Makes(t)'
  <2>1. CASE Creates(t)' /\ pc'[t] = "find" /\ local'[t] = [NoMemo EXCEPT !.mine = None]
    BY <2>1 DEF FunctionHand, FunctionPlace, NoMemo, Memo, Makes
  <2>2. CASE Deletes(t)' /\ pc'[t] = "look" /\ local'[t] = [NoMemo EXCEPT !.mine = (req'[t]).uid]
    <3>1. (req'[t]).uid \in Ids /\ ~ Creates(t)'
      BY <1>1, <2>2 DEF ObjectsInv, RequestInv, Creates, Deletes, CreateOps, DeleteOps
    <3> QED
      BY <2>2, <3>1 DEF FunctionHand, FunctionPlace, NoMemo, Memo, Makes
  <2>3. CASE Expands(t)' /\ pc'[t] = "expand" /\ local'[t] = [NoMemo EXCEPT !.mine = (req'[t]).uid]
    <3>1. (req'[t]).uid \in Ids /\ ~ Creates(t)'
      BY <1>1, <2>3 DEF ObjectsInv, RequestInv, Creates, Expands, CreateOps
    <3> QED
      BY <2>3, <3>1 DEF FunctionHand, FunctionPlace, NoMemo, Memo, Makes
  <2> QED
    BY <1>1, <2>1, <2>2, <2>3 DEF Starts
<1>7. ASSUME NEW w \in Threads, w # t
      PROVE  FunctionHand(w)' /\ (Makes(w)' <=> Makes(w)) /\ local'[w] = local[w]
  <2>1. FunctionHand(w) /\ pc'[w] = pc[w] /\ req'[w] = req[w] /\ local'[w] = local[w]
    BY <1>1, <1>7 DEF FunctionInv, Alone
  <2>2. /\ Makes(w)' <=> Makes(w)
        /\ Creates(w)' <=> Creates(w)
        /\ Deletes(w)' <=> Deletes(w)
        /\ Expands(w)' <=> Expands(w)
        /\ IsCopy(w)' <=> IsCopy(w)
    BY <2>1 DEF Makes, Creates, Deletes, Expands, IsCopy
  <2> QED
    BY <1>2, <2>1, <2>2 DEF FunctionHand
<1>8. MadeApart'
  BY <1>6, <1>7, FunctionKnows DEF MadeApart
<1> QED
  BY <1>1, <1>5, <1>6, <1>7, <1>8 DEF FunctionInv

LEMMA FunctionCrashKeeps ==
  ASSUME FunctionInv, Crash
  PROVE  FunctionInv'
<1>1. /\ ObjectsInv' /\ (\A u \in Ids : Obj(u)') /\ (\A t \in Threads : pc'[t] = "idle" /\ req'[t] = None)
      /\ memory' = <<>> /\ UNCHANGED <<service, array, known, failures>>
  BY FunctionKnows, CrashKeepsObjects DEF Crash
<1>2. FunctionWorld'
  <2>1. object' = object /\ \A u : Exists(u)' <=> Exists(u)
    BY <1>1 DEF object, Exists
  <2>2. \A u \in Ids : FunctionData(u)'
    BY <1>1, <2>1, FunctionKnows DEF FunctionData
  <2>3. FunctionArray' /\ FunctionApart' /\ FunctionTemporary'
    BY <1>1, <2>1, FunctionKnows DEF FunctionArray, FunctionApart, FunctionTemporary
  <2>4. failures \in Nat
    BY FunctionKnows
  <2> QED
    BY <1>1, <2>2, <2>3, <2>4 DEF FunctionWorld
<1>3. \A t \in Threads : FunctionHand(t)' /\ ~ Makes(t)'
  BY <1>1 DEF FunctionHand, Makes, Creates
<1> QED
  BY <1>1, <1>2, <1>3 DEF FunctionInv, MadeApart

LEMMA InitFunctionInv ==
  ASSUME InitSnapshotFunction
  PROVE  FunctionInv
<1>1. FirstName \in VolumeNames /\ FirstName \in Names /\ FirstId \in Ids /\ SizeOf[FirstName] \in Sizes
  BY FirstOnes, ArrayObjectsAssumption DEF Names
<1>2. PICK b \in BOOLEAN :
        array = [object |-> First([name |-> FirstName, size |-> SizeOf[FirstName], from |-> None,
                                   group |-> None, fcmap |-> b]),
                 made |-> FirstId, groups |-> {}, temporary |-> [n \in VolumeNames |-> None]]
  BY DEF InitSnapshotFunction
<1> DEFINE o == [name |-> FirstName, size |-> SizeOf[FirstName], from |-> None, group |-> None, fcmap |-> b]
<1>3. o \in FunctionObject
  BY <1>1 DEF FunctionObject
<1>4. /\ o # None /\ o.name = FirstName /\ o.size = SizeOf[FirstName] /\ o.from = None /\ o.group = None
      /\ InitObjects("snapshotFunction") /\ memory = <<>>
  BY <1>3, FunctionAssumption DEF InitSnapshotFunction
<1>5. array = [object |-> First(o), made |-> FirstId, groups |-> {}, temporary |-> [n \in VolumeNames |-> None]]
  BY <1>2
<1> HIDE DEF o
<1>6. /\ array.object = First(o) /\ array.made = FirstId
      /\ First(o) \in [Ids -> FunctionObject \union {None}]
  BY <1>3, <1>5 DEF First
<1>7. FunctionArray /\ FunctionTemporary
  BY <1>1, <1>5, <1>6 DEF FunctionArray, FunctionTemporary
<1>8. /\ ObjectsInv /\ (\A u \in Ids : Obj(u)) /\ failures = 0 /\ service = "snapshotFunction"
      /\ \A t \in Threads : pc[t] = "idle" /\ req[t] = None
      /\ \A u \in Ids : object[u] = IF u = FirstId THEN o ELSE None
      /\ known.asked[FirstName].uid = None
  BY <1>4, <1>6, InitObjectsInv DEF ObjectServices
<1>9. (\A u \in Ids : FunctionData(u)) /\ FunctionApart
  BY <1>4, <1>8 DEF FunctionData, FunctionApart, Exists
<1>10. FunctionWorld
  BY <1>4, <1>7, <1>8, <1>9 DEF FunctionWorld
<1> QED
  BY <1>8, <1>10 DEF FunctionInv, FunctionHand, MadeApart, Makes, Creates

LEMMA FunctionStep ==
  ASSUME FunctionInv, SnapshotFunctionNext
  PROVE  FunctionInv'
<1>1. Locked'
  BY FunctionMove, FunctionKnows
<1>2. ASSUME NEW t \in Threads,
             \/ FunctionFind(t) \/ FunctionCreate(t) \/ AddSnapshot(t) \/ AddTemporarySnapshot(t)
             \/ MakeFromSnapshot(t) \/ ReadGroupVolume(t)
      PROVE  FunctionInv'
  BY <1>1, <1>2, FunctionFindKeeps, FunctionCreateKeeps, AddSnapshotKeeps, AddTemporarySnapshotKeeps,
     MakeFromSnapshotKeeps, ReadGroupVolumeKeeps
<1>3. ASSUME NEW t \in Threads,
             \/ LeaveTemporaryGroup(t) \/ RemoveTemporaryGroup(t) \/ RenameVolume(t)
             \/ RemoveTemporarySnapshot(t) \/ FunctionReadBack(t)
             \/ UndoFunctionVolume(t) \/ UndoTemporaryGroup(t)
      PROVE  FunctionInv'
  BY <1>1, <1>3, LeaveTemporaryGroupKeeps, RemoveTemporaryGroupKeeps, RenameVolumeKeeps,
     RemoveTemporarySnapshotKeeps, FunctionReadBackKeeps, UndoFunctionVolumeKeeps, UndoTemporaryGroupKeeps
<1>4. ASSUME NEW t \in Threads,
             \/ FunctionLook(t) \/ FunctionRemove(t) \/ FunctionExpand(t) \/ FunctionExtend(t)
             \/ FunctionFail(t)
      PROVE  FunctionInv'
  BY <1>1, <1>4, FunctionLookKeeps, FunctionRemoveKeeps, FunctionExpandKeeps, FunctionExtendKeeps,
     FunctionFailKeeps
<1> QED
  BY <1>2, <1>3, <1>4 DEF SnapshotFunctionNext

(* What the properties say of a system with the snapshot function.         *)
LEMMA FunctionMeans ==
  ASSUME FunctionInv
  PROVE  TypeOK /\ ReportedStays /\ ReportedAsAsked /\ DeletedIsGone /\ NameOnce
<1>1. /\ ObjectsInv /\ (\A u \in Ids : Obj(u) /\ FunctionData(u)) /\ service = "snapshotFunction"
      /\ FunctionArray /\ FunctionApart /\ KnownInv /\ memory = <<>>
  BY FunctionKnows
<1>2. TypeOK
  <2>1. \A t \in Threads : pc[t] \in FunctionPlace
    BY DEF FunctionInv, FunctionHand, FunctionPlace
  <2>2. SnapshotFunctionTypeOK
    BY <1>1, <2>1 DEF SnapshotFunctionTypeOK, FunctionArray
  <2>3. ObjectsTypeOK /\ ids_in_use = {LockOf(req[t]) : t \in {x \in Threads : req[x] # None}}
    BY <1>1 DEF ObjectsTypeOK, ObjectsInv, KnownInv, RequestInv, Locked
  <2> QED
    BY <1>1, <2>2, <2>3 DEF TypeOK
<1>3. ReportedStays
  BY <1>1 DEF ReportedStays, Obj, Trusted, Fits
<1>4. ReportedAsAsked
  <2>1. ASSUME NEW u \in Ids, Trusted(u)
        PROVE  FunctionHasData(u)
    <3>1. Exists(u) /\ known.acked[u] # None /\ object[u].name = known.acked[u].name
      BY <1>1, <2>1 DEF Obj, Trusted, Fits
    <3>2. /\ known.acked[u].uid = known.asked[object[u].name].uid
          /\ object[u].name # None
      BY <1>1, <3>1, ArrayObjectsAssumption DEF KnownInv, Answers
    <3> QED
      BY <1>1, <3>1, <3>2 DEF FunctionData, FunctionHasData
  <2> QED
    BY <1>1, <2>1 DEF ReportedAsAsked, Obj, Trusted, IsLarge
<1>5. DeletedIsGone
  <2>1. known.gone \subseteq Ids
    BY <1>1 DEF KnownInv, KnownObjects
  <2>2. \A u \in known.gone : ~ Exists(u)
    BY <1>1, <2>1 DEF Obj, MayStay
  <2> QED
    BY <1>1, <2>2 DEF DeletedIsGone
<1>6. NameOnce
  BY <1>1 DEF NameOnce, FunctionApart
<1> QED
  BY <1>2, <1>3, <1>4, <1>5, <1>6

-----------------------------------------------------------------------------
(* DS8000.                                                                 *)

Holds(t) == Makes(t) \/ pc[t] = "toggle"

(* A new volume that was in no relation yet.                               *)
Fresh(t) == pc[t] \in {"readBack", "copySource", "flashcopy"}

(* A thread that has made something the cache may not know of.             *)
Making(t) == pc[t] = "readBack" \/ (pc[t] \in {"flashcopy", "verify", "undo"} /\ ~ IsCopy(t))

Shows(u, s) == s \in {None, SourceOf(object[u]), object[u].data}

(* What a thread has made stays until it removes it itself; what it found  *)
(* under its name may only be deleted.  Relations to be removed are safe   *)
(* to remove, and stay so.                                                 *)
DS8KHand(t) ==
  pc[t] # "idle" =>
    /\ pc[t] \in DS8KPlace /\ local[t] \in Memo(DS8KObject)
    /\ pc[t] \in {"find", "create"} => Creates(t) /\ local[t].mine = None
    /\ pc[t] \in {"readBack", "copySource", "flashcopy", "verify", "undo"} =>
         Makes(t) /\ Exists(local[t].mine)
    /\ pc[t] = "copySource" => IsCopy(t)
    /\ pc[t] \in {"flashcopy", "verify", "undo"} => req[t].uid # None
    /\ Fresh(t) => object[local[t].mine].rel = None /\ object[local[t].mine].data = None
    /\ pc[t] \in {"look", "deleteVolume", "forget"} => (Makes(t) /\ IsCopy(t)) \/ Deletes(t)
    /\ pc[t] = "deleteCopies" => (Makes(t) /\ IsCopy(t)) \/ Deletes(t) \/ Expands(t)
    /\ pc[t] \in {"expand", "extend"} => Expands(t)
    /\ pc[t] = "create" /\ failures = 0 => Named(req[t].name) = {}
    /\ Makes(t) /\ Exists(local[t].mine) => object[local[t].mine].name = req[t].name
    /\ pc[t] = "verify" => Shows(local[t].mine, req[t].uid)
    /\ pc[t] = "toggle" =>
         /\ Creates(t) /\ local[t].mine \in Ids
         /\ local[t].read \in DS8KObject /\ local[t].read.name = req[t].name
         /\ Exists(local[t].mine) \/ local[t].mine \in known.deleting
         /\ Exists(local[t].mine) =>
              /\ object[local[t].mine].name = req[t].name
              /\ object[local[t].mine].size >= local[t].read.size
              /\ local[t].mine \in known.deleting \/ Shows(local[t].mine, SourceOf(local[t].read))
         /\ known.acked[local[t].mine] # None => known.acked[local[t].mine].op = req[t].op
         /\ failures = 0 => Named(req[t].name) \subseteq {local[t].mine}
    /\ pc[t] = "deleteCopies" =>
         \A x \in local[t].others :
           /\ Exists(x) /\ object[x].rel # None
           /\ \/ x # local[t].mine /\ object[x].rel.source = local[t].mine
              \/ x = local[t].mine /\ Expands(t)
           => IsSafe(x)
    /\ pc[t] = "forget" => ~ Exists(local[t].mine)
    /\ Expands(t) /\ pc[t] \in {"deleteCopies", "extend"} /\ Exists(local[t].mine) =>
         object[local[t].mine].size < req[t].size

DS8KData(u) ==
  Exists(u) =>
    /\ object[u].rel # None =>
         IF object[u].rel.synced THEN object[u].rel.copy /\ object[u].data = object[u].rel.source
           ELSE object[u].data = None
    /\ known.acked[u] # None /\ u \notin known.deleting => Shows(u, known.acked[u].uid)

(* Without failures names are unique, and the cache has what there is.     *)
DS8KApart ==
  failures = 0 =>
    \A u, w \in Ids : Exists(u) /\ Exists(w) /\ object[u].name = object[w].name => u = w

CacheRight ==
  failures = 0 =>
    \A n \in DOMAIN memory :
      \/ Named(n) \subseteq {memory[n]}
      \/ \E t \in Threads : Making(t) /\ req[t].name = n

DS8KArray == array \in [object : [Ids -> DS8KObject \union {None}]]

DS8KMemory == DOMAIN memory \subseteq Names /\ \A n \in DOMAIN memory : memory[n] \in Ids

DS8KWorld ==
  /\ DS8KArray /\ DS8KMemory /\ failures \in Nat
  /\ \A u \in Ids : Obj(u) /\ DS8KData(u)
  /\ DS8KApart

DS8KMade ==
  \A t, w \in Threads : t # w =>
    /\ Holds(t) /\ Holds(w) => local[t].mine # local[w].mine
    /\ Fresh(t) /\ pc[w] # "idle" => local[t].mine \notin local[w].others

DS8KInv ==
  /\ service = "ds8k" /\ ObjectsInv /\ DS8KWorld /\ CacheRight /\ DS8KMade
  /\ \A t \in Threads : DS8KHand(t)

LEMMA DS8KKnows ==
  ASSUME DS8KInv
  PROVE  /\ ObjectsInv /\ Locked /\ KnownInv /\ (\A u \in Ids : Obj(u) /\ DS8KData(u))
         /\ failures \in Nat /\ service = "ds8k" /\ DS8KWorld /\ known \in KnownObjects
         /\ DS8KArray /\ DS8KMemory /\ DS8KApart /\ CacheRight /\ DS8KMade
         /\ \A t \in Threads : DS8KHand(t) /\ RoleInv(t) /\ RequestInv(t) /\ (req[t] # None <=> pc[t] # "idle")
  BY DEF DS8KInv, DS8KWorld, ObjectsInv, KnownInv, Locked

LEMMA DS8KHasTypes ==
  ASSUME DS8KInv, NEW u \in Ids, Exists(u)
  PROVE  /\ object[u] \in DS8KObject /\ object[u] # None /\ object[u].name \in Names
         /\ object[u].size \in Sizes /\ object[u].size \in Nat
         /\ object[u].rel # None => object[u].rel \in Relation
<1>1. DS8KArray
  BY DS8KKnows
<1>2. object[u] \in DS8KObject /\ object[u] # None
  BY <1>1 DEF DS8KArray, object, Exists
<1>3. object[u].size \in Sizes /\ object[u].name \in Names /\ object[u].rel \in Relation \union {None}
  BY <1>2 DEF DS8KObject
<1> QED
  BY <1>2, <1>3, ArrayObjectsAssumption

(* What happens to an object while a thread waits: nothing, it is made or  *)
(* removed, or its size or relation changes, but not in a way that the     *)
(* thread would notice.                                                    *)
Own(w, u) == Holds(w) /\ u = local[w].mine
Doomed(w, u) == pc[w] = "toggle" /\ u \in known'.deleting

ComesUp(w, u) ==
  u \in Free /\ object'[u] # None /\ (Creates(w) => object'[u].name # req[w].name)

GoesAway(w, u) == object'[u] = None /\ Exists(u) /\ (Own(w, u) => Doomed(w, u))

Same(u) ==
  /\ Exists(u) /\ object'[u] # None /\ object'[u].name = object[u].name
  /\ object'[u].size \in Nat /\ object'[u].size >= object[u].size

Alters(w, u) ==
  /\ Same(u)
  /\ u = local[w].mine /\ Expands(w) => object'[u].size = object[u].size
  /\ \/ object'[u].rel = object[u].rel /\ object'[u].data = object[u].data
     \/ /\ object'[u].rel = None /\ object'[u].data = object[u].data
        /\ object[u].rel # None
        /\ Own(w, u) => Doomed(w, u) \/ IsSafe(u)
     \/ ~ Own(w, u) /\ u \notin local[w].others
     \/ /\ object[u].rel # None /\ object[u].rel.copy /\ ~ object[u].rel.synced
        /\ object'[u].rel # None /\ object'[u].rel.source = object[u].rel.source
        /\ object'[u].rel.copy /\ object'[u].rel.synced /\ object'[u].data = object[u].rel.source

Waits(w) ==
  /\ pc'[w] = pc[w] /\ req'[w] = req[w] /\ local'[w] = local[w]
  /\ failures' \in {failures, failures + 1}
  /\ \A u \in Ids : object'[u] = object[u] \/ ComesUp(w, u) \/ GoesAway(w, u) \/ Alters(w, u)
  /\ \A u \in known.deleting : u \in known'.deleting \/ u \in Free
  /\ pc[w] = "toggle" /\ known'.acked[local[w].mine] # None => known'.acked[local[w].mine].op = req[w].op

LEMMA ShowsKept ==
  ASSUME DS8KInv, NEW w \in Threads, NEW u \in Ids, Exists(u), object'[u] # None, NEW s, Shows(u, s),
         object'[u] = object[u] \/ Alters(w, u), Own(w, u)
  PROVE  Doomed(w, u) \/ Shows(u, s)'
<1>1. DS8KData(u) /\ object[u].rel \in Relation \union {None}
  BY DS8KKnows, DS8KHasTypes DEF DS8KObject
<1>2. (object[u])' = object'[u]
  BY DEF object
<1>3. CASE object'[u] = object[u]
  BY <1>2, <1>3 DEF Shows, SourceOf
<1>4. CASE object'[u].rel = object[u].rel /\ object'[u].data = object[u].data
  BY <1>2, <1>4 DEF Shows, SourceOf
<1>5. CASE /\ object'[u].rel = None /\ object'[u].data = object[u].data
           /\ object[u].rel # None /\ IsSafe(u)
  BY <1>1, <1>2, <1>5 DEF Shows, SourceOf, DS8KData, IsSafe
<1>6. CASE /\ object[u].rel # None /\ object[u].rel.copy /\ ~ object[u].rel.synced
           /\ object'[u].rel # None /\ object'[u].rel.source = object[u].rel.source
           /\ object'[u].rel.copy /\ object'[u].rel.synced /\ object'[u].data = object[u].rel.source
  BY <1>1, <1>2, <1>6 DEF Shows, SourceOf, DS8KData
<1> QED
  BY <1>3, <1>4, <1>5, <1>6 DEF Alters

LEMMA NamedLess ==
  ASSUME DS8KInv, NEW w \in Threads, Waits(w), Creates(w)
  PROVE  Named(req[w].name)' \subseteq Named(req[w].name)
<1>1. PICK n : n = req[w].name
  OBVIOUS
<1>2. ASSUME NEW u \in Ids, Exists(u)', object'[u].name = n
      PROVE  Exists(u) /\ object[u].name = n
  <2>1. object'[u] # None
    BY <1>2 DEF Exists, object
  <2>2. u # None
    BY ArrayObjectsAssumption
  <2> QED
    BY <1>1, <1>2, <2>1, <2>2 DEF Waits, ComesUp, GoesAway, Alters, Same, Exists, object
<1>3. req'[w].name = n
  BY <1>1 DEF Waits
<1> QED
  BY <1>1, <1>2, <1>3 DEF Named, object

LEMMA DS8KWaits ==
  ASSUME DS8KInv, NEW w \in Threads, Waits(w)
  PROVE  DS8KHand(w)'
<1>1. PICK m, n : m = local[w].mine /\ n = req[w].name
  OBVIOUS
<1>2. /\ pc'[w] = pc[w] /\ req'[w] = req[w] /\ local'[w] = local[w] /\ failures' \in {failures, failures + 1}
      /\ DS8KHand(w) /\ RoleInv(w) /\ RequestInv(w) /\ failures \in Nat
      /\ failures' = 0 => failures = 0
  BY DS8KKnows DEF Waits
<1>3. /\ Makes(w)' <=> Makes(w)
      /\ Creates(w)' <=> Creates(w)
      /\ Deletes(w)' <=> Deletes(w)
      /\ Expands(w)' <=> Expands(w)
      /\ IsCopy(w)' <=> IsCopy(w)
      /\ Fresh(w)' <=> Fresh(w)
  BY <1>2 DEF Makes, Creates, Deletes, Expands, IsCopy, Fresh
<1>4. /\ Creates(w) => Named(n)' \subseteq Named(n)
      /\ (local[w].mine)' = m /\ (req[w].name)' = n /\ (Exists(local[w].mine))' = Exists(m)'
      /\ (object[local[w].mine])' = object'[m]
  BY <1>1, <1>2, NamedLess DEF Exists, object
<1>5. CASE pc[w] = "idle"
  BY <1>2, <1>5 DEF DS8KHand
<1>6. ASSUME NEW u \in Ids
      PROVE  /\ object'[u] = object[u] \/ ComesUp(w, u) \/ GoesAway(w, u) \/ Alters(w, u)
             /\ u # None
             /\ Exists(u)' <=> object'[u] # None
             /\ Exists(u) <=> object[u] # None
             /\ u \in Free /\ pc[w] # "idle" => u # m /\ u \notin local[w].others /\ ~ Exists(u)
             /\ (object[u])' = object'[u]
  BY <1>1, ArrayObjectsAssumption DEF Waits, Exists, object, Free
<1>7. ASSUME pc[w] # "idle", m \in Ids, Exists(m)'
      PROVE  /\ Exists(m) /\ object'[m].name = object[m].name
             /\ object'[m] = object[m] \/ Alters(w, m)
             /\ Expands(w) => object'[m].size = object[m].size
  BY <1>1, <1>6, <1>7 DEF GoesAway, ComesUp, Alters, Same
<1>8. CASE pc[w] \in {"find", "create"}
  <2>1. ~ Makes(w) /\ ~ Expands(w) /\ ~ Deletes(w)
    BY <1>2, <1>8 DEF DS8KHand, Makes, Expands, Creates, Deletes, CreateOps, DeleteOps
  <2> QED
    BY <1>1, <1>2, <1>3, <1>4, <1>8, <2>1 DEF DS8KHand, DS8KPlace, Fresh
<1>9. CASE pc[w] = "toggle"
  <2>1. /\ Creates(w) /\ m \in Ids /\ local[w] \in Memo(DS8KObject) /\ Own(w, m)
        /\ local[w].read \in DS8KObject /\ local[w].read.name = n
        /\ Exists(m) \/ m \in known.deleting
        /\ Exists(m) =>
             /\ object[m].name = n
             /\ object[m].size >= local[w].read.size
             /\ m \in known.deleting \/ Shows(m, SourceOf(local[w].read))
        /\ failures = 0 => Named(n) \subseteq {m}
    BY <1>1, <1>2, <1>9 DEF DS8KHand, Own, Holds
  <2>2. m \in known.deleting => m \in known'.deleting
    BY <1>6, <1>9, <2>1 DEF Waits
  <2>3. Exists(m)' \/ m \in known'.deleting
    <3>1. CASE Exists(m)
      <4>1. ~ ComesUp(w, m)
        BY <1>6, <1>9, <2>1, <3>1 DEF ComesUp
      <4>2. GoesAway(w, m) => m \in known'.deleting
        BY <2>1 DEF GoesAway, Doomed
      <4>3. object'[m] = object[m] \/ Alters(w, m) => Exists(m)'
        BY <1>6, <2>1, <3>1 DEF Alters, Same
      <4> QED
        BY <1>6, <2>1, <4>1, <4>2, <4>3
    <3> QED
      BY <2>1, <2>2, <3>1
  <2>4. ASSUME Exists(m)'
        PROVE  /\ object'[m].name = n
               /\ object'[m].size >= local[w].read.size
               /\ m \in known'.deleting \/ Shows(m, SourceOf(local[w].read))'
    <3>1. Exists(m) /\ object'[m].name = n /\ object'[m] # None /\ (object'[m] = object[m] \/ Alters(w, m))
      BY <1>6, <1>7, <1>9, <2>1, <2>4
    <3>2. object[m].size \in Nat /\ local[w].read.size \in Nat
      <4>1. local[w].read.size \in Sizes
        BY <2>1 DEF DS8KObject
      <4> QED
        BY <2>1, <3>1, <4>1, DS8KHasTypes, ArrayObjectsAssumption
    <3>3. object'[m].size >= local[w].read.size
      BY <2>1, <3>1, <3>2 DEF Alters, Same
    <3>4. PICK s : s = SourceOf(local[w].read)
      OBVIOUS
    <3>5. m \notin known'.deleting => Shows(m, s)'
      BY <2>1, <2>2, <3>1, <3>4, ShowsKept DEF Doomed
    <3>6. SourceOf(local[w].read)' = s
      BY <1>2, <3>4 DEF SourceOf
    <3> QED
      BY <3>1, <3>3, <3>5, <3>6 DEF Shows
  <2>5. known'.acked[m] # None => known'.acked[m].op = req[w].op
    BY <1>1, <1>9 DEF Waits
  <2>6. failures' = 0 => Named(n)' \subseteq {m}
    BY <1>2, <1>4, <2>1
  <2>7. ~ Makes(w) /\ ~ Expands(w) /\ ~ Deletes(w)
    BY <1>9, <2>1 DEF Makes, Expands, Creates, Deletes, CreateOps, DeleteOps
  <2> QED
    BY <1>1, <1>2, <1>3, <1>4, <1>9, <2>1, <2>3, <2>4, <2>5, <2>6, <2>7 DEF DS8KHand, DS8KPlace, Fresh, Shows, SourceOf
<1>10. CASE pc[w] \in {"readBack", "copySource", "flashcopy", "verify", "undo"}
  <2>1. /\ Makes(w) /\ Creates(w) /\ m \in Ids /\ Exists(m) /\ local[w] \in Memo(DS8KObject) /\ Own(w, m)
        /\ object[m].name = n /\ ~ Doomed(w, m) /\ ~ Expands(w) /\ ~ Deletes(w)
    BY <1>1, <1>2, <1>10
       DEF DS8KHand, Own, Holds, RoleInv, Makes, Doomed, Expands, Deletes, Creates, CreateOps, DeleteOps
  <2>2. Exists(m)' /\ object'[m] # None /\ (object'[m] = object[m] \/ Alters(w, m)) /\ object'[m].name = n
    <3>1. ~ ComesUp(w, m) /\ ~ GoesAway(w, m)
      BY <1>6, <1>10, <2>1 DEF ComesUp, GoesAway
    <3>2. object'[m] = object[m] \/ Alters(w, m)
      BY <1>6, <2>1, <3>1
    <3>3. Exists(m)' /\ object'[m] # None
      BY <1>6, <2>1, <3>2 DEF Alters, Same
    <3> QED
      BY <1>7, <1>10, <2>1, <3>2, <3>3
  <2>3. Fresh(w) => object'[m].rel = None /\ object'[m].data = None
    BY <1>1, <1>2, <1>10, <2>1, <2>2 DEF DS8KHand, Alters
  <2>4. pc[w] = "verify" => Shows(m, req[w].uid)'
    <3>1. PICK s : s = req[w].uid
      OBVIOUS
    <3>2. pc[w] = "verify" => Shows(m, s)
      BY <1>1, <1>2, <3>1 DEF DS8KHand
    <3>3. pc[w] = "verify" => Shows(m, s)'
      BY <2>1, <2>2, <3>2, ShowsKept
    <3> QED
      BY <1>2, <3>1, <3>3 DEF Shows
  <2> QED
    BY <1>1, <1>2, <1>3, <1>4, <1>10, <2>1, <2>2, <2>3, <2>4 DEF DS8KHand, DS8KPlace, Shows
<1>11. CASE pc[w] \in {"look", "deleteCopies", "deleteVolume", "forget", "expand", "extend"}
  <2>1. /\ m \in Ids /\ local[w] \in Memo(DS8KObject) /\ local[w].others \subseteq Ids
        /\ Makes(w) \/ Deletes(w) \/ Expands(w)
    BY <1>1, <1>2, <1>11 DEF DS8KHand, RoleInv, RequestInv, Memo
  <2>2. Makes(w) /\ Exists(m)' => object'[m].name = n
    BY <1>1, <1>2, <1>7, <1>11, <2>1 DEF DS8KHand
  <2>3. pc[w] = "forget" => ~ Exists(m)'
    BY <1>1, <1>2, <1>7, <1>11, <2>1 DEF DS8KHand
  <2>4. Expands(w) /\ pc[w] \in {"deleteCopies", "extend"} /\ Exists(m)' => object'[m].size < req[w].size
    BY <1>1, <1>2, <1>7, <1>11, <2>1 DEF DS8KHand
  <2>5. ASSUME pc[w] = "deleteCopies", NEW x \in local[w].others, Exists(x)', object'[x].rel # None,
               \/ x # m /\ object'[x].rel.source = m
               \/ x = m /\ Expands(w)
        PROVE  object'[x].rel.copy /\ object'[x].rel.synced
    <3>1. x \in Ids /\ x \notin Free
      BY <1>6, <1>11, <2>1, <2>5
    <3>2. CASE object'[x] = object[x]
      BY <1>1, <1>2, <1>6, <2>5, <3>1, <3>2 DEF DS8KHand, IsSafe
    <3>3. CASE Alters(w, x)
      <4>1. CASE object'[x].rel = object[x].rel
        BY <1>1, <1>2, <1>6, <2>5, <3>1, <3>3, <4>1 DEF DS8KHand, IsSafe, Alters, Same
      <4> QED
        BY <2>5, <3>3, <4>1 DEF Alters
    <3> QED
      BY <1>6, <2>5, <3>1, <3>2, <3>3 DEF ComesUp, GoesAway
  <2>6. pc[w] = "deleteCopies" =>
          \A x \in local[w].others :
            /\ Exists(x)' /\ (object[x].rel)' # None
            /\ \/ x # m /\ (object[x].rel.source)' = m
               \/ x = m /\ Expands(w)
            => IsSafe(x)'
    BY <2>5 DEF IsSafe, object
  <2>7. pc'[w] # "idle" /\ ~ Fresh(w)'
    BY <1>2, <1>11 DEF Fresh
  <2>8. /\ pc[w] \in {"look", "deleteVolume", "forget"} => (Makes(w) /\ IsCopy(w)) \/ Deletes(w)
        /\ pc[w] = "deleteCopies" => (Makes(w) /\ IsCopy(w)) \/ Deletes(w) \/ Expands(w)
        /\ pc[w] \in {"expand", "extend"} => Expands(w)
    BY <1>2, <1>11 DEF DS8KHand
  <2> QED
    BY <1>1, <1>2, <1>3, <1>4, <1>11, <2>1, <2>2, <2>3, <2>4, <2>6, <2>7, <2>8 DEF DS8KHand, DS8KPlace
<1>12. pc[w] \in DS8KPlace
  BY <1>2 DEF DS8KHand, DS8KPlace
<1> QED
  BY <1>5, <1>8, <1>9, <1>10, <1>11, <1>12 DEF DS8KPlace

-----------------------------------------------------------------------------
(* A step of t changes objects in one of these ways.                       *)
BringsUp(t, u) ==
  /\ pc[t] = "create" /\ Creates(t) /\ u \in Free /\ u = local'[t].mine
  /\ object'[u] # None /\ object'[u].name = req[t].name
  /\ object'[u].rel = None /\ object'[u].data = None

TakesDown(t, u) == Exists(u) /\ object'[u] = None /\ u = local[t].mine /\ (Makes(t) \/ Deletes(t))

Modifies(t, u) ==
  /\ Same(u)
  /\ object'[u].size # object[u].size => u = local[t].mine /\ (Makes(t) \/ Expands(t))
  /\ \/ object'[u].rel = object[u].rel /\ object'[u].data = object[u].data
     \/ /\ object'[u].rel = None /\ object'[u].data = object[u].data /\ object[u].rel # None
        /\ IsSafe(u) \/ (u = local[t].mine /\ (Makes(t) \/ Deletes(t)))
     \/ /\ u = local[t].mine /\ Fresh(t) /\ object'[u].rel \in Relation
        /\ ~ object'[u].rel.synced /\ object'[u].data = None

DS8KSteps(t) ==
  /\ Careful(t) /\ failures' \in {failures, failures + 1}
  /\ \A u \in Ids : object'[u] = object[u] \/ BringsUp(t, u) \/ TakesDown(t, u) \/ Modifies(t, u)
  /\ \A u \in known.deleting : u \in known'.deleting \/ u \in Free
  /\ \A u \in Ids : Creates(t) /\ known'.acked[u] # known.acked[u] => Holds(t) /\ u = local[t].mine

LEMMA HeldApart ==
  ASSUME DS8KInv, NEW t \in Threads, NEW w \in Threads, t # w, NEW u \in Ids, u = local[t].mine,
         Makes(t) \/ Deletes(t), Own(w, u)
  PROVE  /\ Deletes(t) /\ pc[w] = "toggle" /\ req[t].uid = u
<1>1. ObjectsInv /\ DS8KMade /\ RoleInv(t)
  BY DS8KKnows
<1>2. ~ Makes(t)
  BY <1>1 DEF DS8KMade, Holds, Own
<1>3. Makes(w) => FALSE
  BY <1>1, <1>2, HandsDiffer DEF Own
<1> QED
  BY <1>1, <1>2, <1>3 DEF Own, Holds, RoleInv

LEMMA DS8KOthers ==
  ASSUME DS8KInv, NEW t \in Threads, DS8KSteps(t), NEW w \in Threads, w # t
  PROVE  DS8KHand(w)'
<1>1. /\ pc'[w] = pc[w] /\ req'[w] = req[w] /\ local'[w] = local[w]
      /\ DS8KHand(w) /\ DS8KHand(t) /\ RoleInv(t) /\ RoleInv(w) /\ RequestInv(w) /\ RequestInv(t)
      /\ ObjectsInv /\ DS8KMade
      /\ \A x \in Threads : Deletes(x) => req[x].uid \in known'.deleting
  BY DS8KKnows DEF DS8KSteps, Careful, Alone
<1>2. CASE pc[w] = "idle"
  BY <1>1, <1>2 DEF DS8KHand
<1>3. CASE pc[w] # "idle"
  <2>1. ASSUME NEW u \in Ids, BringsUp(t, u)
        PROVE  ComesUp(w, u)
    BY <1>1, <2>1, MakersDiffer DEF BringsUp, ComesUp
  <2>2. ASSUME NEW u \in Ids, Own(w, u), u = local[t].mine, Makes(t) \/ Deletes(t)
        PROVE  Doomed(w, u)
    BY <1>1, <2>2, HeldApart DEF Doomed
  <2>3. ASSUME NEW u \in Ids, TakesDown(t, u)
        PROVE  GoesAway(w, u)
    BY <2>2, <2>3 DEF TakesDown, GoesAway
  <2>4. ASSUME NEW u \in Ids, Modifies(t, u)
        PROVE  Alters(w, u)
    <3>1. u = local[w].mine /\ Expands(w) => object'[u].size = object[u].size
      BY <1>1, <2>4, HandsDiffer DEF Modifies
    <3>2. Same(u)
      BY <2>4 DEF Modifies
    <3>3. CASE object'[u].rel = object[u].rel /\ object'[u].data = object[u].data
      BY <3>1, <3>2, <3>3 DEF Alters
    <3>4. CASE /\ object'[u].rel = None /\ object'[u].data = object[u].data /\ object[u].rel # None
               /\ IsSafe(u) \/ (u = local[t].mine /\ (Makes(t) \/ Deletes(t)))
      BY <2>2, <3>1, <3>2, <3>4 DEF Alters
    <3>5. CASE u = local[t].mine /\ Fresh(t)
      <4>1. Holds(t)
        BY <1>1, <3>5 DEF DS8KHand, Fresh, Holds
      <4>2. ~ Own(w, u) /\ u \notin local[w].others
        BY <1>1, <1>3, <3>5, <4>1 DEF DS8KMade, Own
      <4> QED
        BY <3>1, <3>2, <4>2 DEF Alters
    <3> QED
      BY <2>4, <3>3, <3>4, <3>5 DEF Modifies
  <2>5. \A u \in Ids : object'[u] = object[u] \/ ComesUp(w, u) \/ GoesAway(w, u) \/ Alters(w, u)
    BY <2>1, <2>3, <2>4 DEF DS8KSteps
  <2>6. ASSUME pc[w] = "toggle", known'.acked[local[w].mine] # None
        PROVE  known'.acked[local[w].mine].op = req[w].op
    <3>1. PICK m : m = local[w].mine
      OBVIOUS
    <3>2. /\ m \in Ids /\ Own(w, m) /\ Tells(t, m)
          /\ known.acked[m] # None => known.acked[m].op = req[w].op /\ known.acked[m] \in Request
      BY <1>1, <2>6, <3>1 DEF DS8KHand, Own, Holds, DS8KSteps, Careful, ObjectsInv, KnownInv, Answers
    <3>3. ~ (Holds(t) /\ m = local[t].mine)
      BY <1>1, <3>2 DEF DS8KMade, Own
    <3>4. Creates(t) => known'.acked[m] = known.acked[m]
      BY <3>2, <3>3 DEF DS8KSteps
    <3>5. CASE Expands(t) /\ m = req[t].uid /\ known'.acked[m] = [known.acked[m] EXCEPT !.size = req[t].size]
      <4>1. known.acked[m] # None
        BY <1>1, <3>5 DEF RoleInv
      <4>2. known'.acked[m].op = known.acked[m].op
        BY <3>2, <3>5, <4>1 DEF Request
      <4> QED
        BY <3>1, <3>2, <4>1, <4>2
    <3> QED
      BY <2>6, <3>1, <3>2, <3>4, <3>5 DEF Tells
  <2>7. Waits(w)
    BY <1>1, <2>5, <2>6 DEF Waits, DS8KSteps
  <2> QED
    BY <2>7, DS8KWaits
<1> QED
  BY <1>2, <1>3

(* What t takes into its hand is nobody's.                                 *)
DS8KTakes(t) ==
  /\ Holds(t)' =>
       \/ Holds(t) /\ local'[t].mine = local[t].mine
       \/ local'[t].mine \in Free
       \/ Creates(t) /\ local'[t].mine \in Ids /\ Exists(local'[t].mine)
            /\ object[local'[t].mine].name = req[t].name
  /\ Fresh(t)' =>
       (Fresh(t) /\ local'[t].mine = local[t].mine) \/ local'[t].mine \in Free
  /\ pc'[t] # "idle" =>
       \A x \in local'[t].others :
         (pc[t] # "idle" /\ x \in local[t].others) \/ (x \in Ids /\ Exists(x) /\ object[x].rel # None)

LEMMA NamesApart ==
  ASSUME DS8KInv, NEW t \in Threads, NEW w \in Threads, t # w, Creates(t), NEW u \in Ids, Exists(u),
         object[u].name = req[t].name
  PROVE  ~ Own(w, u)
<1>1. ObjectsInv /\ DS8KHand(w)
  BY DS8KKnows
<1>2. pc[w] # "idle" \/ ~ Own(w, u)
  BY <1>1 DEF Own, Holds, Makes, Creates, ObjectsInv, Locked
<1>3. Own(w, u) => Creates(w) /\ object[u].name = req[w].name
  BY <1>1, <1>2 DEF Own, Holds, Makes, DS8KHand
<1> QED
  BY <1>1, <1>3, MakersDiffer

LEMMA DS8KMadeKept ==
  ASSUME DS8KInv, NEW t \in Threads, Alone(t), DS8KTakes(t)
  PROVE  DS8KMade'
<1>1. DS8KMade /\ ObjectsInv /\ (\A x \in Threads : DS8KHand(x) /\ (req[x] # None <=> pc[x] # "idle"))
  BY DS8KKnows
<1>2. ASSUME NEW w \in Threads, w # t
      PROVE  /\ pc'[w] = pc[w] /\ req'[w] = req[w] /\ local'[w] = local[w]
             /\ Holds(w)' <=> Holds(w)
             /\ Fresh(w)' <=> Fresh(w)
             /\ Holds(w) => pc[w] # "idle"
             /\ Fresh(w) => local[w].mine \in Ids /\ object[local[w].mine].rel = None /\ Holds(w)
  BY <1>1, <1>2 DEF Alone, Holds, Fresh, Makes, Creates, DS8KHand, ObjectsInv, RoleInv
<1>3. ASSUME NEW w \in Threads, w # t, Holds(t)', Holds(w)'
      PROVE  local'[t].mine # local'[w].mine
  <2>1. CASE Holds(t) /\ local'[t].mine = local[t].mine
    BY <1>1, <1>2, <1>3, <2>1 DEF DS8KMade
  <2>2. CASE local'[t].mine \in Free
    BY <1>2, <1>3, <2>2 DEF Free
  <2>3. CASE /\ Creates(t) /\ local'[t].mine \in Ids /\ Exists(local'[t].mine)
             /\ object[local'[t].mine].name = req[t].name
    BY <1>2, <1>3, <2>3, NamesApart DEF Own
  <2> QED
    BY <1>3, <2>1, <2>2, <2>3 DEF DS8KTakes
<1>4. ASSUME NEW w \in Threads, w # t, Fresh(t)', pc'[w] # "idle"
      PROVE  local'[t].mine \notin local'[w].others
  <2>1. CASE Fresh(t) /\ local'[t].mine = local[t].mine
    BY <1>1, <1>2, <1>4, <2>1 DEF DS8KMade
  <2>2. CASE local'[t].mine \in Free
    BY <1>2, <1>4, <2>2 DEF Free
  <2> QED
    BY <1>4, <2>1, <2>2 DEF DS8KTakes
<1>5. ASSUME NEW w \in Threads, w # t, Fresh(w)', pc'[t] # "idle"
      PROVE  local'[w].mine \notin local'[t].others
  BY <1>1, <1>2, <1>5 DEF DS8KMade, DS8KTakes
<1>6. ASSUME NEW v \in Threads, NEW w \in Threads, v # w
      PROVE  /\ Holds(v)' /\ Holds(w)' => local'[v].mine # local'[w].mine
             /\ Fresh(v)' /\ pc'[w] # "idle" => local'[v].mine \notin local'[w].others
  <2>1. CASE v = t
    BY <1>3, <1>4, <1>6, <2>1
  <2>2. CASE w = t
    BY <1>3, <1>5, <1>6, <2>2
  <2>3. CASE v # t /\ w # t
    BY <1>1, <1>2, <1>6, <2>3 DEF DS8KMade
  <2> QED
    BY <2>1, <2>2, <2>3
<1> QED
  BY <1>6 DEF DS8KMade

LEMMA DS8KApartKept ==
  ASSUME DS8KInv, NEW t \in Threads, DS8KSteps(t)
  PROVE  DS8KApart'
<1>1. DS8KApart /\ DS8KHand(t) /\ failures \in Nat
  BY DS8KKnows
<1>2. SUFFICES ASSUME failures' = 0
               PROVE  \A u, w \in Ids : Exists(u)' /\ Exists(w)' /\ object'[u].name = object'[w].name => u = w
  BY DEF DS8KApart, object
<1>3. failures = 0
  BY <1>1, <1>2 DEF DS8KSteps
<1>4. ASSUME NEW u \in Ids, Exists(u)'
      PROVE  (Exists(u) /\ object'[u].name = object[u].name) \/ BringsUp(t, u)
  BY <1>4 DEF DS8KSteps, TakesDown, Modifies, Same, Exists, object
<1>5. ASSUME NEW u \in Ids, BringsUp(t, u)
      PROVE  /\ u = local'[t].mine /\ object'[u].name = req[t].name
             /\ \A x \in Ids : Exists(x) => object[x].name # req[t].name
  <2>1. Named(req[t].name) = {}
    BY <1>1, <1>3, <1>5 DEF BringsUp, DS8KHand
  <2> QED
    BY <1>5, <2>1 DEF BringsUp, Named
<1> QED
  BY <1>1, <1>3, <1>4, <1>5 DEF DS8KApart

(* The cache stays right.                                                  *)
OwnCache(t) ==
  failures' = 0 =>
    \A n \in DOMAIN memory' :
      \/ /\ n \in DOMAIN memory /\ memory'[n] = memory[n]
         /\ ~ (Making(t) /\ req[t].name = n) /\ Named(n)' \subseteq Named(n)
      \/ Making(t)' /\ req'[t].name = n
      \/ Named(n)' \subseteq {memory'[n]}

LEMMA DS8KCacheKept ==
  ASSUME DS8KInv, NEW t \in Threads, DS8KSteps(t), OwnCache(t)
  PROVE  CacheRight'
<1>1. CacheRight /\ failures \in Nat
  BY DS8KKnows
<1>2. SUFFICES ASSUME failures' = 0, NEW n \in DOMAIN memory'
               PROVE  \/ Named(n)' \subseteq {memory'[n]}
                      \/ \E w \in Threads : Making(w)' /\ req'[w].name = n
  BY DEF CacheRight, Named, object
<1>3. failures = 0
  BY <1>1, <1>2 DEF DS8KSteps
<1>4. ASSUME NEW w \in Threads, w # t, Making(w)
      PROVE  Making(w)' /\ req'[w] = req[w]
  BY <1>4 DEF DS8KSteps, Careful, Alone, Making, IsCopy
<1>5. CASE /\ n \in DOMAIN memory /\ memory'[n] = memory[n]
           /\ ~ (Making(t) /\ req[t].name = n) /\ Named(n)' \subseteq Named(n)
  <2>1. CASE Named(n) \subseteq {memory[n]}
    BY <1>5, <2>1
  <2>2. CASE \E w \in Threads : Making(w) /\ req[w].name = n
    BY <1>4, <1>5, <2>2
  <2> QED
    BY <1>1, <1>3, <1>5, <2>1, <2>2 DEF CacheRight
<1> QED
  BY <1>2, <1>5 DEF OwnCache

LEMMA DS8KDataKept ==
  ASSUME DS8KInv, NEW t \in Threads, DS8KSteps(t), NEW u \in Ids, NEW q, q = req[t],
         known'.acked[u] # None /\ u \notin known'.deleting /\ Exists(u)' =>
           \/ known.acked[u] # None /\ known'.acked[u].uid = known.acked[u].uid
           \/ known'.acked[u] = q /\ Shows(u, q.uid)'
  PROVE  DS8KData(u)'
<1>1. /\ DS8KData(u) /\ DS8KHand(t) /\ RoleInv(t) /\ RequestInv(t)
      /\ Exists(u) => object[u].rel \in Relation \union {None}
  BY DS8KKnows, DS8KHasTypes DEF DS8KObject
<1>2. (object[u])' = object'[u] /\ (Exists(u)' <=> object'[u] # None) /\ (Exists(u) <=> object[u] # None)
  BY ArrayObjectsAssumption DEF object, Exists
<1>3. SUFFICES ASSUME Exists(u)'
               PROVE  /\ object'[u].rel # None =>
                           IF object'[u].rel.synced
                             THEN object'[u].rel.copy /\ object'[u].data = object'[u].rel.source
                             ELSE object'[u].data = None
                      /\ known'.acked[u] # None /\ u \notin known'.deleting => Shows(u, known.acked[u].uid)'
  BY <1>2 DEF DS8KData, Shows, SourceOf
<1>4. Exists(u) /\ u \notin known'.deleting => u \notin known.deleting
  BY <1>2 DEF DS8KSteps, Free
<1>5. ASSUME Exists(u), NEW s, Shows(u, s), object'[u].data = object[u].data,
             \/ object'[u].rel = object[u].rel
             \/ object'[u].rel = None /\ object[u].rel # None /\ IsSafe(u)
      PROVE  Shows(u, s)'
  BY <1>1, <1>2, <1>5 DEF Shows, SourceOf, DS8KData, IsSafe
<1>6. ASSUME Exists(u), known'.acked[u] # None, u \notin known'.deleting, object'[u].data = object[u].data,
             \/ object'[u].rel = object[u].rel
             \/ object'[u].rel = None /\ object[u].rel # None /\ IsSafe(u)
      PROVE  Shows(u, known.acked[u].uid)'
  <2>1. CASE known'.acked[u] = q /\ Shows(u, q.uid)'
    BY <2>1 DEF Shows
  <2>2. CASE known.acked[u] # None /\ known'.acked[u].uid = known.acked[u].uid
    <3>1. PICK s : s = known.acked[u].uid
      OBVIOUS
    <3>2. Shows(u, s)
      BY <1>1, <1>4, <1>6, <2>2, <3>1 DEF DS8KData
    <3>3. Shows(u, s)'
      BY <1>5, <1>6, <3>2
    <3> QED
      BY <2>2, <3>1, <3>3 DEF Shows
  <2> QED
    BY <1>3, <1>6, <2>1, <2>2
<1>7. CASE object'[u] = object[u]
  BY <1>1, <1>2, <1>3, <1>6, <1>7 DEF DS8KData
<1>8. CASE BringsUp(t, u)
  <2>1. known.acked[u] = None /\ object'[u].rel = None
    BY <1>8 DEF BringsUp, Free
  <2>2. known'.acked[u] # None /\ u \notin known'.deleting => known'.acked[u] = q /\ Shows(u, q.uid)'
    BY <1>3, <2>1
  <2> QED
    BY <2>1, <2>2 DEF Shows
<1>9. CASE Modifies(t, u)
  <2>1. Exists(u)
    BY <1>9 DEF Modifies, Same
  <2>2. CASE object'[u].rel = object[u].rel /\ object'[u].data = object[u].data
    BY <1>1, <1>6, <2>1, <2>2 DEF DS8KData
  <2>3. CASE /\ object'[u].rel = None /\ object'[u].data = object[u].data /\ object[u].rel # None
             /\ IsSafe(u)
    BY <1>6, <2>1, <2>3
  <2>4. ASSUME u = local[t].mine, Makes(t) \/ Deletes(t), known'.acked[u] # None, u \notin known'.deleting
        PROVE  known'.acked[u] = q /\ Shows(u, q.uid)'
    BY <1>1, <1>3, <1>4, <2>1, <2>4 DEF RoleInv, RequestInv
  <2>5. CASE /\ object'[u].rel = None /\ u = local[t].mine /\ (Makes(t) \/ Deletes(t))
    BY <2>4, <2>5 DEF Shows
  <2>6. CASE /\ u = local[t].mine /\ Fresh(t) /\ ~ object'[u].rel.synced /\ object'[u].data = None
    <3>1. Makes(t)
      BY <1>1, <2>6 DEF Fresh, DS8KHand
    <3> QED
      BY <2>4, <2>6, <3>1 DEF Shows
  <2> QED
    BY <1>9, <2>2, <2>3, <2>5, <2>6 DEF Modifies
<1> QED
  BY <1>2, <1>3, <1>7, <1>8, <1>9 DEF DS8KSteps, TakesDown

LEMMA DS8KObjsKept ==
  ASSUME DS8KInv, NEW t \in Threads, DS8KSteps(t), known' = known, \A u \in Ids : ~ BringsUp(t, u)
  PROVE  \A u \in Ids : Obj(u)'
<1>1. /\ RoleInv(t) /\ RequestInv(t) /\ failures \in Nat /\ service = "ds8k" /\ service' = service
      /\ failures' \in {failures, failures + 1} /\ ObjectsInv /\ ObjectsInv
      /\ \A u \in Ids : Obj(u)
  BY DS8KKnows DEF DS8KSteps, Careful
<1>2. Onward
  BY <1>1 DEF Onward
<1>3. SUFFICES ASSUME NEW u \in Ids
               PROVE  Obj(u)'
  OBVIOUS
<1>4. CASE object'[u] = object[u]
  <2>1. Untouched(u)
    BY <1>4 DEF Untouched
  <2> QED
    BY <1>1, <1>2, <2>1, ObjKept
<1>5. (object[u])' = object'[u] /\ (Exists(u)' <=> object'[u] # None) /\ (Exists(u) <=> object[u] # None)
  BY ArrayObjectsAssumption DEF object, Exists
<1>6. CASE TakesDown(t, u)
  <2>1. ~ Trusted(u)
    BY <1>1, <1>6 DEF TakesDown, RoleInv, RequestInv, Trusted
  <2> QED
    BY <1>1, <1>5, <1>6, <2>1 DEF Obj, TakesDown, Trusted
<1>7. CASE Modifies(t, u)
  <2>1. /\ Exists(u) /\ object'[u] # None /\ object'[u].name = object[u].name
        /\ object'[u].size >= object[u].size /\ object'[u].size \in Nat
        /\ object[u].size \in Nat /\ object[u].name \in Names
    BY <1>7, DS8KHasTypes DEF Modifies, Same
  <2>2. ASSUME NEW a, a \in Request, a.op = "createVolume" => a.size \in Sizes, IsLarge(u, a)
        PROVE  IsLarge(u, a)'
    <3>1. a.op = "createVolume" => a.size \in Nat
      BY <2>2, ArrayObjectsAssumption
    <3> QED
      BY <1>5, <2>1, <2>2, <3>1 DEF IsLarge
  <2>3. known.acked[u] # None => Fits(u)' /\ IsLarge(u, known.acked[u])'
    <3>1. PICK a : a = known.acked[u]
      OBVIOUS
    <3>2. a # None => Answers(a) /\ Fits(u) /\ IsLarge(u, a)
      BY <1>1, <2>1, <3>1 DEF ObjectsInv, KnownInv, Obj
    <3>3. a # None => IsLarge(u, a)'
      BY <2>2, <3>2 DEF Answers
    <3>4. a # None => Fits(u)'
      BY <1>1, <1>5, <2>1, <3>1, <3>2 DEF Fits
    <3> QED
      BY <3>1, <3>3, <3>4 DEF IsLarge
  <2>4. u \in known.gone => MayStay(u)'
    BY <1>1, <1>5, <2>1 DEF Obj, MayStay
  <2>5. /\ object'[u].name \in Names /\ known.asked[object'[u].name] # None
        /\ IsLarge(u, known.asked[object[u].name])'
    <3>1. PICK n, a : n = object[u].name /\ a = known.asked[n]
      OBVIOUS
    <3>2. a # None /\ IsLarge(u, a) /\ n \in Names /\ n # None
      BY <1>1, <2>1, <3>1, ArrayObjectsAssumption DEF Obj
    <3>3. Asks(n, a)
      BY <1>1, <3>1, <3>2 DEF ObjectsInv, KnownInv
    <3>4. IsLarge(u, a)'
      BY <2>2, <3>2, <3>3 DEF Asks
    <3> QED
      BY <1>5, <2>1, <3>1, <3>2, <3>4 DEF IsLarge
  <2> QED
    BY <1>1, <1>5, <2>1, <2>3, <2>4, <2>5 DEF Obj, Trusted, IsLarge
<1> QED
  BY <1>4, <1>6, <1>7 DEF DS8KSteps

LEMMA DS8KKeeps ==
  ASSUME DS8KInv, Locked', NEW t \in Threads, DS8KSteps(t), DS8KTakes(t), OwnCache(t),
         DS8KHand(t)', RoleInv(t)', DS8KArray', DS8KMemory', \A u \in Ids : Obj(u)' /\ DS8KData(u)'
  PROVE  DS8KInv'
<1>1. ObjectsInv' /\ service' = "ds8k" /\ failures' \in Nat /\ Alone(t)
  BY CarefulKeeps, DS8KKnows DEF DS8KSteps, Careful
<1>2. DS8KApart' /\ DS8KMade' /\ CacheRight'
  BY <1>1, DS8KApartKept, DS8KMadeKept, DS8KCacheKept
<1>3. \A w \in Threads : DS8KHand(w)'
  BY DS8KOthers
<1> QED
  BY <1>1, <1>2, <1>3 DEF DS8KInv, DS8KWorld

-----------------------------------------------------------------------------
(* Steps that tell the orchestrator nothing.                               *)
DS8KSilent(t) ==
  /\ Alone(t) /\ service' = service /\ known' = known /\ memory' = memory /\ DS8KArray'
  /\ failures' \in {failures, failures + 1}
  /\ \A u \in Ids : object'[u] = object[u] \/ TakesDown(t, u) \/ Modifies(t, u)

LEMMA NoneBroughtUp ==
  ASSUME NEW t \in Threads, NEW n,
         \A u \in Ids : object'[u] = object[u] \/ TakesDown(t, u) \/ Modifies(t, u)
  PROVE  Named(n)' \subseteq Named(n)
<1>1. ASSUME NEW u \in Ids, Exists(u)', object'[u].name = n
      PROVE  Exists(u) /\ object[u].name = n
  BY <1>1, ArrayObjectsAssumption DEF TakesDown, Modifies, Same, Exists, object
<1> QED
  BY <1>1 DEF Named, object

LEMMA DS8KSilentSteps ==
  ASSUME DS8KInv, NEW t \in Threads, DS8KSilent(t), req'[t] \in {req[t], None}
  PROVE  /\ DS8KSteps(t) /\ DS8KMemory'
         /\ \A u \in Ids : ~ BringsUp(t, u) /\ Obj(u)' /\ DS8KData(u)'
<1>1. ObjectsInv /\ DS8KMemory
  BY DS8KKnows
<1>2. Careful(t)
  BY <1>1, SilentCareful DEF DS8KSilent
<1>3. DS8KSteps(t)
  BY <1>2 DEF DS8KSilent, DS8KSteps
<1>4. \A u \in Ids : ~ BringsUp(t, u)
  BY ArrayObjectsAssumption DEF DS8KSilent, TakesDown, Modifies, Same, BringsUp, Free, Exists
<1>5. \A u \in Ids : Obj(u)'
  BY <1>3, <1>4, DS8KObjsKept DEF DS8KSilent
<1>6. PICK q : q = req[t]
  OBVIOUS
<1>7. \A u \in Ids : known'.acked[u] # None => known.acked[u] # None /\ known'.acked[u].uid = known.acked[u].uid
  BY DEF DS8KSilent
<1>8. \A u \in Ids : DS8KData(u)'
  BY <1>3, <1>6, <1>7, DS8KDataKept
<1> QED
  BY <1>1, <1>3, <1>4, <1>5, <1>8 DEF DS8KSilent, DS8KMemory

LEMMA DS8KGoesOn ==
  ASSUME DS8KInv, Locked', NEW t \in Threads, DS8KSilent(t), pc[t] # "idle",
         req'[t] = req[t], local'[t].mine = local[t].mine,
         Holds(t)' => Holds(t), Fresh(t)' => Fresh(t), Makes(t)' => Makes(t),
         Making(t) /\ failures' = 0 => Making(t)',
         \A x \in local'[t].others :
           x \in local[t].others \/ (x \in Ids /\ Exists(x) /\ object[x].rel # None),
         DS8KHand(t)'
  PROVE  DS8KInv'
<1>1. /\ DS8KSteps(t) /\ DS8KMemory' /\ DS8KArray'
      /\ \A u \in Ids : Obj(u)' /\ DS8KData(u)'
  BY DS8KSilentSteps DEF DS8KSilent
<1>2. DS8KTakes(t)
  BY DEF DS8KTakes
<1>3. RoleInv(t)'
  <2>1. RoleInv(t) /\ known' = known
    BY DS8KKnows DEF DS8KSilent
  <2> QED
    BY <2>1 DEF RoleInv, Deletes, Expands
<1>4. OwnCache(t)
  <2>1. memory' = memory /\ \A n : Named(n)' \subseteq Named(n)
    BY NoneBroughtUp DEF DS8KSilent
  <2> QED
    BY <2>1 DEF OwnCache
<1> QED
  BY <1>1, <1>2, <1>3, <1>4, DS8KKeeps

LEMMA DS8KReturns ==
  ASSUME DS8KInv, Locked', NEW t \in Threads, DS8KSilent(t), pc'[t] = "idle", req'[t] = None,
         NEW q, q = req[t], Making(t) /\ failures' = 0 => Named(q.name)' = {}
  PROVE  DS8KInv'
<1>1. /\ DS8KSteps(t) /\ DS8KMemory' /\ DS8KArray'
      /\ \A u \in Ids : Obj(u)' /\ DS8KData(u)'
  BY DS8KSilentSteps DEF DS8KSilent
<1>2. DS8KTakes(t) /\ DS8KHand(t)'
  BY DEF DS8KTakes, DS8KHand, Holds, Fresh, Makes, Creates
<1>3. RoleInv(t)'
  BY FreedRole
<1>4. OwnCache(t)
  <2>1. memory' = memory /\ \A n : Named(n)' \subseteq Named(n)
    BY NoneBroughtUp DEF DS8KSilent
  <2>2. ASSUME failures' = 0, NEW n \in DOMAIN memory', Making(t), req[t].name = n
        PROVE  Named(n)' \subseteq {memory'[n]}
    BY <2>2
  <2> QED
    BY <2>1, <2>2 DEF OwnCache
<1> QED
  BY <1>1, <1>2, <1>3, <1>4, DS8KKeeps

LEMMA DS8KNotes ==
  ASSUME DS8KInv, NEW t \in Threads, Alone(t), UNCHANGED <<service, array, memory, known>>,
         failures' \in {failures, failures + 1}
  PROVE  DS8KSilent(t)
<1>1. DS8KArray
  BY DS8KKnows
<1> QED
  BY <1>1 DEF DS8KSilent, DS8KArray, object

LEMMA DS8KRejects ==
  ASSUME DS8KInv, Locked', NEW t \in Threads, pc[t] # "idle", Return(t),
         UNCHANGED <<array, memory, known>>, failures' \in {failures, failures + 1},
         Making(t) => failures' # 0
  PROVE  DS8KInv'
<1>1. Alone(t) /\ pc'[t] = "idle" /\ req'[t] = None /\ service' = service
  BY ReturnMoves, DS8KKnows DEF Return
<1>2. DS8KSilent(t)
  BY <1>1, DS8KNotes
<1>3. PICK q : q = req[t]
  OBVIOUS
<1> QED
  BY <1>1, <1>2, <1>3, DS8KReturns

(* A place a thread goes to, with what it has in hand unchanged.           *)
LEMMA DS8KProceeds ==
  ASSUME DS8KInv, NEW t \in Threads, pc[t] # "idle", NEW to, to # "idle", NEW memo, Proceed(t, to, memo)
  PROVE  /\ Alone(t) /\ pc'[t] = to /\ req'[t] = req[t] /\ local'[t] = memo /\ service' = service
         /\ Creates(t)' <=> Creates(t)
         /\ Deletes(t)' <=> Deletes(t)
         /\ Expands(t)' <=> Expands(t)
         /\ IsCopy(t)' <=> IsCopy(t)
         /\ Makes(t)' <=> Creates(t) /\ memo.mine # None /\ to \notin {"toggle", "newest"}
         /\ Creates(t) => ~ Deletes(t) /\ ~ Expands(t)
         /\ Deletes(t) => ~ Expands(t)
<1>1. Alone(t) /\ pc'[t] = to /\ req'[t] = req[t] /\ local'[t] = memo /\ service' = service
  BY ProceedMoves, DS8KKnows DEF Proceed
<1> QED
  BY <1>1 DEF Creates, Deletes, Expands, IsCopy, Makes, CreateOps, DeleteOps

LEMMA NamedOnce ==
  ASSUME DS8KInv, failures = 0, NEW u \in Ids, Exists(u), NEW n, object[u].name = n
  PROVE  Named(n) = {u}
  BY DS8KKnows DEF DS8KApart, Named

LEMMA NameFree ==
  ASSUME DS8KInv, failures = 0, NEW t \in Threads, pc[t] = "find", NEW n, n = req[t].name,
         (Cached(n) # None /\ ~ Exists(Cached(n))) \/ Found(n) = {}
  PROVE  Named(n) = {}
<1>1. /\ DS8KHand(t) /\ CacheRight /\ ObjectsInv /\ (\A w \in Threads : DS8KHand(w))
  BY DS8KKnows
<1>2. Creates(t)
  BY <1>1 DEF DS8KHand
<1>3. CASE Cached(n) # None /\ ~ Exists(Cached(n))
  <2>1. n \in DOMAIN memory /\ memory[n] = Cached(n)
    BY <1>3 DEF Cached
  <2>2. ASSUME NEW w \in Threads, Making(w), req[w].name = n
        PROVE  FALSE
    <3>1. Creates(w) /\ w # t
      BY <1>1, <2>2 DEF Making, DS8KHand, Makes
    <3> QED
      BY <1>1, <1>2, <2>2, <3>1, MakersDiffer
  <2>3. Named(n) \subseteq {memory[n]}
    BY <1>1, <2>1, <2>2 DEF CacheRight
  <2> QED
    BY <1>3, <2>1, <2>3 DEF Named
<1>4. CASE ~ (Cached(n) # None /\ ~ Exists(Cached(n))) /\ Found(n) = {}
  BY <1>4 DEF Found
<1> QED
  BY <1>3, <1>4

DS8KTakesUp(t, u) ==
  /\ Proceed(t, "toggle", [local[t] EXCEPT !.mine = u, !.read = object[u]])
  /\ NoFault /\ UNCHANGED <<array, memory, known>>

LEMMA DS8KFindKeeps ==
  ASSUME DS8KInv, Locked', NEW t \in Threads, DS8KFind(t)
  PROVE  DS8KInv'
<1>1. /\ pc[t] = "find" /\ DS8KHand(t) /\ ObjectsInv /\ DS8KMemory /\ DS8KArray /\ failures \in Nat
      /\ \A u \in Ids : Obj(u)
  <2>1. pc[t] = "find"
    BY Zenon DEF DS8KFind, At
  <2> QED
    BY <2>1, DS8KKnows
<1>2. Creates(t) /\ local[t].mine = None /\ local[t] \in Memo(DS8KObject)
  BY <1>1 DEF DS8KHand
<1>3. PICK n : n = req[t].name
  OBVIOUS
<1>4. n \in Names /\ n # None /\ known.asked[n] = req[t] /\ req[t] # None
  BY <1>1, <1>2, <1>3, CreatorAsks, ArrayObjectsAssumption
<1>5. CASE /\ (Cached(n) # None /\ ~ Exists(Cached(n))) \/ Found(n) = {}
           /\ Continue(t, "create") /\ NoFault /\ UNCHANGED <<array, memory, known>>
  <2>1. /\ Alone(t) /\ pc'[t] = "create" /\ req'[t] = req[t] /\ local'[t] = local[t] /\ service' = service
        /\ Creates(t)' /\ ~ Makes(t)' /\ ~ Expands(t)'
    BY <1>1, <1>2, <1>5, DS8KProceeds DEF Continue
  <2>2. DS8KSilent(t)
    BY <1>5, <2>1, DS8KNotes DEF NoFault
  <2>3. failures' = 0 => Named(n)' = {}
    BY <1>1, <1>3, <1>5, NameFree DEF NoFault, Named, Exists, object
  <2>4. (Named(req[t].name))' = Named(n)'
    BY <1>3, <2>1 DEF Named, object
  <2>5. DS8KHand(t)'
    BY <1>2, <2>1, <2>3, <2>4 DEF DS8KHand, DS8KPlace, Fresh
  <2>6. ~ Holds(t)' /\ ~ Fresh(t)' /\ ~ Making(t)
    BY <1>1, <2>1 DEF Holds, Fresh, Making
  <2> QED
    BY <1>1, <2>1, <2>2, <2>5, <2>6, DS8KGoesOn
<1>6. ASSUME NEW u \in Found(n), DS8KTakesUp(t, u)
      PROVE  DS8KInv'
  <2>0. /\ Proceed(t, "toggle", [local[t] EXCEPT !.mine = u, !.read = object[u]])
        /\ NoFault /\ UNCHANGED <<array, memory, known>>
    BY <1>6, Zenon DEF DS8KTakesUp
  <2>1. u \in Ids /\ Exists(u) /\ object[u].name = n
    <3>1. CASE Exists(Cached(n)) /\ object[Cached(n)].name = n
      <4>1. u = Cached(n)
        BY <3>1 DEF Found
      <4>2. n \in DOMAIN memory
        BY <3>1 DEF Cached, Exists
      <4> QED
        BY <1>1, <3>1, <4>1, <4>2 DEF DS8KMemory, Cached
    <3>2. CASE ~ (Exists(Cached(n)) /\ object[Cached(n)].name = n)
      BY <3>2 DEF Found, Named
    <3> QED
      BY <3>1, <3>2
  <2>2. PICK o : o = object[u]
    OBVIOUS
  <2>3. /\ o \in DS8KObject /\ o.name = n /\ o.size \in Nat
    BY <2>1, <2>2, DS8KHasTypes
  <2>4. PICK memo : memo = [local[t] EXCEPT !.mine = u, !.read = object[u]]
    OBVIOUS
  <2>5. /\ memo \in Memo(DS8KObject) /\ memo.mine = u /\ memo.read = o /\ memo.others = local[t].others
    BY <1>2, <2>1, <2>2, <2>3, <2>4 DEF Memo
  <2>6. /\ Alone(t) /\ pc'[t] = "toggle" /\ req'[t] = req[t] /\ local'[t] = memo /\ service' = service
        /\ Creates(t)' /\ ~ Makes(t)' /\ ~ Expands(t)'
    BY <1>1, <1>2, <2>0, <2>4, DS8KProceeds
  <2>7. DS8KSilent(t)
    BY <2>0, <2>6, DS8KNotes DEF NoFault
  <2>8. known.acked[u] # None => known.acked[u].op = req[t].op
    <3>1. known.acked[u] # None => known.acked[u].name = n /\ Answers(known.acked[u])
      BY <1>1, <2>1, DS8KKnows DEF Obj, Fits, ObjectsInv, KnownInv
    <3> QED
      BY <1>4, <3>1 DEF Answers
  <2>9. failures = 0 => Named(n) = {u}
    BY <2>1, NamedOnce
  <2>10. /\ (object[u])' = o /\ Exists(u)' /\ Named(n)' = Named(n) /\ SourceOf(o)' = SourceOf(o)
         /\ known'.acked[u] # None => known'.acked[u].op = req[t].op
         /\ known'.deleting = known.deleting /\ failures' = failures
    BY <2>0, <2>1, <2>2, <2>8 DEF NoFault, object, Exists, Named, SourceOf
  <2>11. Shows(u, SourceOf(o))'
    BY <2>10 DEF Shows, SourceOf
  <2>12. /\ (Exists(local[t].mine))' = Exists(u)' /\ (object[local[t].mine])' = (object[u])'
         /\ (Named(req[t].name))' = Named(n)' /\ (SourceOf(local[t].read))' = SourceOf(o)'
         /\ (Shows(local[t].mine, SourceOf(local[t].read)))' = Shows(u, SourceOf(o))'
    BY <1>3, <2>5, <2>6 DEF Exists, object, Named, SourceOf, Shows
  <2>13. o.size >= o.size /\ ~ Fresh(t)' /\ pc'[t] \in DS8KPlace
    BY <2>3, <2>6 DEF Fresh, DS8KPlace
  <2>14. DS8KHand(t)'
    BY <1>3, <2>1, <2>3, <2>5, <2>6, <2>9, <2>10, <2>11, <2>12, <2>13 DEF DS8KHand
  <2>15. DS8KTakes(t)
    BY <1>1, <1>2, <1>3, <2>1, <2>5, <2>6, <2>13 DEF DS8KTakes
  <2>16. RoleInv(t)'
    BY <2>6 DEF RoleInv, Deletes, Expands, Creates, DeleteOps, CreateOps
  <2>17. OwnCache(t)
    <3>1. ~ Making(t)
      BY <1>1 DEF Making
    <3>2. \A m : Named(m)' \subseteq Named(m)
      BY <2>7, NoneBroughtUp DEF DS8KSilent
    <3> QED
      BY <2>0, <3>1, <3>2 DEF OwnCache
  <2>18. DS8KSteps(t) /\ DS8KMemory' /\ DS8KArray' /\ (\A x \in Ids : Obj(x)' /\ DS8KData(x)')
    BY <2>6, <2>7, DS8KSilentSteps DEF DS8KSilent
  <2> QED
    BY <2>14, <2>15, <2>16, <2>17, <2>18, DS8KKeeps
<1>7. CASE Reject(t)
  <2>1. ~ Making(t)
    BY <1>1 DEF Making
  <2> QED
    BY <1>1, <1>7, <2>1, DS8KRejects DEF Reject, NoFault
<1>8. PICK S : S = IF Cached(n) # None /\ ~ Exists(Cached(n)) THEN {} ELSE Found(n)
  OBVIOUS
<1>9. \/ /\ (Cached(n) # None /\ ~ Exists(Cached(n))) \/ Found(n) = {}
         /\ Continue(t, "create") /\ NoFault /\ UNCHANGED <<array, memory, known>>
      \/ \E u \in S : DS8KTakesUp(t, u)
      \/ Reject(t)
  BY <1>3, <1>8, Zenon DEF DS8KFind, DS8KTakesUp
<1>10. S \subseteq Found(n)
  BY <1>8
<1> QED
  BY <1>5, <1>6, <1>7, <1>9, <1>10

LEMMA DS8KToggleKeeps ==
  ASSUME DS8KInv, Locked', NEW t \in Threads, DS8KToggle(t)
  PROVE  DS8KInv'
<1>1. /\ pc[t] = "toggle" /\ DS8KHand(t) /\ ObjectsInv /\ DS8KMemory /\ DS8KArray /\ failures \in Nat
      /\ \A u \in Ids : Obj(u)
  BY DS8KKnows DEF DS8KToggle, At
<1>2. PICK m, o, n, q : m = local[t].mine /\ o = local[t].read /\ n = req[t].name /\ q = req[t]
  OBVIOUS
<1>3. /\ Creates(t) /\ m \in Ids /\ o \in DS8KObject /\ o.name = n
      /\ Exists(m) \/ m \in known.deleting
      /\ Exists(m) =>
           /\ object[m].name = n
           /\ object[m].size >= o.size
           /\ m \in known.deleting \/ Shows(m, SourceOf(o))
      /\ known.acked[m] # None => known.acked[m].op = q.op
      /\ failures = 0 => Named(n) \subseteq {m}
  BY <1>1, <1>2 DEF DS8KHand
<1>4. /\ n \in Names /\ known.asked[n] = q /\ q # None /\ q \in Request /\ q.op \in CreateOps
      /\ q.op = "createVolume" => q.size \in Sizes
      /\ q.op = "createSnapshot" => q.uid \in Ids
  BY <1>1, <1>2, <1>3, CreatorAsks
<1>5. /\ memory' = IF Cached(n) = None THEN Remember(n, m) ELSE Forgotten(n)
      /\ array' = array /\ failures' = failures
      /\ \/ Accepts(q, SourceOf(o), o.size) /\ Report(t, m)
         \/ Return(t) /\ known' = known
  BY <1>2, <1>3 DEF DS8KToggle, NoFault
<1>6. DS8KMemory'
  BY <1>1, <1>3, <1>4, <1>5 DEF DS8KMemory, Remember, Forgotten, Restrict
<1>7. /\ Alone(t) /\ pc'[t] = "idle" /\ req'[t] = None /\ service' = service
  BY <1>1, <1>5, ReturnMoves, ReportTells, <1>3 DEF Return, ObjectsInv
<1>8. DS8KTakes(t) /\ DS8KHand(t)'
  BY <1>7 DEF DS8KTakes, DS8KHand, Holds, Fresh, Makes, Creates
<1>9. RoleInv(t)'
  BY <1>7, FreedRole
<1>10. (\A x : Named(x)' = Named(x)) /\ object' = object
  BY <1>5 DEF Named, Exists, object
<1>11. OwnCache(t)
  <2>1. ~ Making(t)
    BY <1>1 DEF Making
  <2>2. ASSUME NEW x \in DOMAIN memory', failures = 0
        PROVE  (x \in DOMAIN memory /\ memory'[x] = memory[x]) \/ Named(x)' \subseteq {memory'[x]}
    BY <1>3, <1>5, <1>10, <2>2 DEF Remember, Forgotten, Restrict
  <2> QED
    BY <1>5, <1>10, <2>1, <2>2 DEF OwnCache
<1>12. DS8KArray'
  BY <1>1, <1>5 DEF DS8KArray
<1>13. CASE Return(t) /\ known' = known
  <2>1. Careful(t)
    BY <1>1, <1>7, <1>13, SilentCareful
  <2>2. DS8KSteps(t) /\ \A u \in Ids : ~ BringsUp(t, u)
    BY <1>1, <1>5, <1>10, <1>13, <2>1 DEF DS8KSteps, BringsUp
  <2>3. \A u \in Ids : Obj(u)'
    BY <1>13, <2>2, DS8KObjsKept
  <2>4. \A u \in Ids : DS8KData(u)'
    BY <1>2, <1>13, <2>2, DS8KDataKept
  <2> QED
    BY <1>6, <1>8, <1>9, <1>11, <1>12, <2>2, <2>3, <2>4, DS8KKeeps
<1>14. CASE Accepts(q, SourceOf(o), o.size) /\ Report(t, m)
  <2>1. /\ known'.acked[m] = q /\ (\A w \in Ids : w # m => known'.acked[w] = known.acked[w])
        /\ known'.deleting = known.deleting /\ known'.gone = known.gone /\ known'.yanked = known.yanked
        /\ known'.asked = known.asked
    BY <1>1, <1>2, <1>3, <1>14, ReportTells
  <2>2. Holds(t)
    BY <1>1 DEF Holds
  <2>3. \A w \in Threads \ {t} : Makes(w) => local[w].mine # m
    BY <1>2, <2>2, DS8KKnows DEF DS8KMade, Holds
  <2>4. Careful(t)
    BY <1>1, <1>2, <1>3, <1>14, <2>3, ReportCareful
  <2>5. DS8KSteps(t)
    BY <1>1, <1>2, <1>5, <1>10, <2>1, <2>2, <2>4 DEF DS8KSteps
  <2>6. Onward
    BY <1>1, <1>5, <1>7, <2>1, OnwardSteps, DS8KKnows
  <2>7. /\ Exists(m)' <=> Exists(m)
        /\ (object[m])' = object[m]
        /\ m # None
    BY <1>3, <1>10, ArrayObjectsAssumption DEF Exists, object
  <2>8. IsLarge(m, q)' \/ ~ Exists(m)
    <3>1. ASSUME q.op = "createVolume", q.uid = None, Exists(m)
          PROVE  object[m].size >= q.size
      <4>1. q.size \in Nat /\ object[m].size \in Nat
        BY <1>3, <1>4, <3>1, DS8KHasTypes, ArrayObjectsAssumption
      <4>2. o.size \in Nat
        BY <1>3, ArrayObjectsAssumption DEF DS8KObject
      <4> QED
        BY <1>3, <1>14, <3>1, <4>1, <4>2 DEF Accepts
    <3> QED
      BY <2>7, <3>1 DEF IsLarge
  <2>9. ASSUME Exists(m)
        PROVE  Obj(m)'
    <3>1. m \in known.gone => MayStay(m)'
      BY <1>1, <1>3, <1>7, <2>7, <2>9, DS8KKnows DEF Obj, MayStay
    <3>2. object'[m] # None /\ object'[m].name = req[t].name
      BY <1>2, <1>3, <2>7, <2>9 DEF Exists, object
    <3> QED
      BY <1>1, <1>2, <1>3, <1>14, <2>8, <2>9, <3>1, <3>2, ReportedObj, DS8KKnows
  <2>10. ASSUME ~ Exists(m)
         PROVE  Obj(m)'
    BY <1>3, <1>7, <2>1, <2>7, <2>10, DS8KKnows DEF Obj, Trusted
  <2>11. ASSUME NEW u \in Ids, u # m
         PROVE  Obj(u)'
    <3>1. Untouched(u)
      BY <1>10, <2>1, <2>11 DEF Untouched
    <3> QED
      BY <1>1, <2>6, <3>1, ObjKept
  <2>12. ASSUME NEW u \in Ids
         PROVE  DS8KData(u)'
    <3>1. CASE u = m
      <4>1. u \notin known'.deleting /\ Exists(u)' => Shows(u, q.uid)'
        BY <1>3, <1>14, <2>1, <2>7, <3>1 DEF Accepts, Shows, SourceOf
      <4> QED
        BY <1>2, <2>1, <2>5, <3>1, <4>1, DS8KDataKept
    <3>2. CASE u # m
      <4>1. known'.acked[u] = known.acked[u]
        BY <2>1, <3>2
      <4> QED
        BY <1>2, <2>5, <4>1, DS8KDataKept
    <3> QED
      BY <3>1, <3>2
  <2> QED
    BY <1>6, <1>8, <1>9, <1>11, <1>12, <2>5, <2>9, <2>10, <2>11, <2>12, DS8KKeeps
<1> QED
  BY <1>5, <1>13, <1>14

LEMMA FreeOne ==
  ASSUME Free # {}, NEW u, u = CHOOSE x \in Free : \A y \in Free : x <= y
  PROVE  u \in Free
<1>1. Free \subseteq Nat
  BY ArrayObjectsAssumption DEF Free
<1>2. \E m \in Free : \A k \in Free : m <= k
  BY <1>1, LeastNumber
<1> QED
  BY <1>2

LEMMA DS8KCreateKeeps ==
  ASSUME DS8KInv, Locked', NEW t \in Threads, DS8KCreate(t)
  PROVE  DS8KInv'
<1>1. /\ pc[t] = "create" /\ DS8KHand(t) /\ ObjectsInv /\ DS8KMemory /\ DS8KArray /\ failures \in Nat
      /\ known \in KnownObjects /\ \A x \in Ids : Obj(x)
  <2>1. pc[t] = "create"
    BY DEF DS8KCreate, At
  <2> QED
    BY <2>1, DS8KKnows
<1>2. PICK n, q : n = req[t].name /\ q = req[t]
  OBVIOUS
<1>3. Creates(t) /\ local[t].mine = None /\ local[t] \in Memo(DS8KObject)
  BY <1>1 DEF DS8KHand
<1>4. /\ n \in Names /\ known.asked[n] = q /\ q # None /\ q \in Request /\ q.op \in CreateOps /\ q.name = n
      /\ q.op = "createVolume" => q.size \in Sizes
      /\ q.op = "createSnapshot" => q.uid \in Ids
  BY <1>1, <1>2, <1>3, CreatorAsks
<1>5. CASE Reject(t)
  <2>1. ~ Making(t)
    BY <1>1 DEF Making
  <2> QED
    BY <1>1, <1>5, <2>1, DS8KRejects DEF Reject, NoFault
<1>6. CASE ~ Reject(t)
  <2>1. PICK z, u :
          /\ z = (IF q.op = "createSnapshot" THEN object[q.uid].size ELSE q.size)
          /\ u = (CHOOSE x \in Free : \A y \in Free : x <= y)
    OBVIOUS
  <2>2. PICK o : o = [name |-> n, size |-> z, rel |-> None, data |-> None]
    OBVIOUS
  <2>3. /\ q.op = "createSnapshot" => Exists(q.uid)
        /\ Free # {} /\ Put(u, o)
        /\ known' = [known EXCEPT !.deleting = @ \ {u}, !.gone = @ \ {u}]
        /\ Proceed(t, "readBack", [local[t] EXCEPT !.mine = u])
        /\ NoFault /\ memory' = memory
    BY <1>2, <1>6, <2>1, <2>2 DEF DS8KCreate
  <2>4. u \in Free /\ u \in Ids /\ u # None /\ object[u] = None /\ known.acked[u] = None
    BY <2>1, <2>3, FreeOne, ArrayObjectsAssumption DEF Free
  <2>5. z \in Sizes /\ z \in Nat
    <3>1. CASE q.op = "createSnapshot"
      BY <1>4, <2>1, <2>3, <3>1, DS8KHasTypes, ArrayObjectsAssumption
    <3>2. CASE q.op # "createSnapshot"
      BY <1>4, <2>1, <3>2, ArrayObjectsAssumption DEF CreateOps
    <3> QED
      BY <3>1, <3>2
  <2>6. o \in DS8KObject /\ o.name = n /\ o.size = z /\ o.rel = None /\ o.data = None
    BY <1>4, <2>2, <2>5 DEF DS8KObject
  <2>7. o # None
    BY <2>6, DS8KAssumption
  <2>8. /\ array'.object = [array.object EXCEPT ![u] = o]
        /\ array' \in [object : [Ids -> DS8KObject \union {None}]]
    <3>1. [array.object EXCEPT ![u] = o] \in [Ids -> DS8KObject \union {None}]
      BY <1>1, <2>6 DEF DS8KArray
    <3> QED
      BY <1>1, <2>3, <3>1 DEF DS8KArray, Put
  <2>9. object'[u] = o /\ \A x \in Ids : x # u => object'[x] = object[x]
    BY <1>1, <2>4, <2>8 DEF DS8KArray, object
  <2>10. PICK memo : memo = [local[t] EXCEPT !.mine = u]
    OBVIOUS
  <2>11. memo \in Memo(DS8KObject) /\ memo.mine = u /\ memo.others = local[t].others
    BY <1>3, <2>4, <2>10 DEF Memo
  <2>12. /\ Alone(t) /\ pc'[t] = "readBack" /\ req'[t] = q /\ local'[t] = memo /\ service' = service
         /\ Creates(t)' /\ Makes(t)' /\ ~ Deletes(t)' /\ ~ Expands(t)' /\ failures' = failures
    <3>1. Proceed(t, "readBack", memo) /\ failures' = failures
      BY <2>3, <2>10 DEF NoFault
    <3> HIDE <2>3, <2>10
    <3>2. /\ Alone(t) /\ pc'[t] = "readBack" /\ req'[t] = req[t] /\ local'[t] = memo /\ service' = service
          /\ Creates(t)' /\ ~ Deletes(t) /\ ~ Expands(t)
          /\ Deletes(t)' <=> Deletes(t)
          /\ Expands(t)' <=> Expands(t)
          /\ Makes(t)' <=> Creates(t) /\ memo.mine # None /\ "readBack" \notin {"toggle", "newest"}
      BY <1>1, <1>3, <3>1, DS8KProceeds
    <3> QED
      BY <1>2, <1>3, <2>4, <2>11, <3>1, <3>2
  <2>13. /\ known' \in KnownObjects /\ known'.asked = known.asked /\ known'.acked = known.acked
         /\ known'.deleting = known.deleting \ {u} /\ known'.gone = known.gone \ {u}
         /\ known'.yanked = known.yanked
    BY <1>1, <2>3 DEF KnownObjects
  <2>14. ASSUME NEW w \in Threads, Deletes(w)
         PROVE  req[w].uid \in known'.deleting
    <3>1. req[w].uid \in known.deleting /\ pc[w] # "idle"
      BY <1>1, <2>14, DS8KKnows DEF RequestInv, Deletes
    <3> QED
      BY <2>4, <2>13, <3>1 DEF Free
  <2>15. Careful(t)
    BY <1>2, <2>12, <2>13, <2>14 DEF Careful, Tells
  <2>16. BringsUp(t, u)
    BY <1>1, <1>2, <1>3, <2>4, <2>6, <2>7, <2>9, <2>11, <2>12 DEF BringsUp
  <2>17. DS8KSteps(t)
    BY <2>4, <2>9, <2>12, <2>13, <2>15, <2>16 DEF DS8KSteps
  <2>18. DS8KTakes(t)
    BY <1>1, <2>4, <2>11, <2>12 DEF DS8KTakes
  <2>19. OwnCache(t)
    <3>1. Making(t)' /\ req'[t].name = n /\ ~ Making(t)
      BY <1>1, <1>2, <2>12 DEF Making
    <3>2. ASSUME NEW m, m # n
          PROVE  Named(m)' \subseteq Named(m)
      <4>1. ASSUME NEW x \in Ids, Exists(x)', object'[x].name = m
            PROVE  Exists(x) /\ object[x].name = m
        BY <2>6, <2>9, <3>2, <4>1 DEF Exists, object
      <4> QED
        BY <4>1 DEF Named, object
    <3> QED
      BY <2>3, <3>1, <3>2 DEF OwnCache
  <2>20. /\ (Exists(local[t].mine))' /\ (object[local[t].mine])' = o /\ (req[t].name)' = n
         /\ (local[t].mine)' = u
    BY <1>2, <2>4, <2>7, <2>9, <2>11, <2>12 DEF Exists, object
  <2>21. DS8KHand(t)'
    BY <2>6, <2>11, <2>12, <2>20 DEF DS8KHand, DS8KPlace, Fresh
  <2>22. RoleInv(t)'
    BY <2>4, <2>11, <2>12, <2>13 DEF RoleInv
  <2>23. DS8KArray' /\ DS8KMemory'
    BY <1>1, <2>3, <2>8 DEF DS8KArray, DS8KMemory
  <2>24. /\ Exists(u)' /\ (object[u])' = o /\ (known.acked[u])' = None /\ service = "ds8k"
         /\ u \notin known'.gone /\ u \notin known'.deleting /\ ~ Trusted(u)'
    BY <2>4, <2>7, <2>9, <2>13, DS8KKnows DEF Exists, object, Trusted
  <2>25. Obj(u)'
    <3>1. q.op = "createVolume" => z >= q.size
      BY <1>4, <2>1, <2>5, ArrayObjectsAssumption
    <3>2. IsLarge(u, q)'
      BY <2>6, <2>24, <3>1 DEF IsLarge
    <3> QED
      BY <1>4, <2>6, <2>12, <2>13, <2>24, <3>2 DEF Obj, IsLarge
  <2>26. Onward
    BY <1>1, <2>12, <2>13, <2>24 DEF Onward
  <2>27. ASSUME NEW x \in Ids, x # u
         PROVE  Obj(x)'
    <3>1. Untouched(x)
      BY <2>9, <2>13, <2>27 DEF Untouched
    <3> QED
      BY <1>1, <2>26, <3>1, ObjKept
  <2>28. \A x \in Ids : DS8KData(x)'
    BY <1>2, <2>13, <2>17, DS8KDataKept
  <2> QED
    BY <2>17, <2>18, <2>19, <2>21, <2>22, <2>23, <2>25, <2>27, <2>28, DS8KKeeps
<1> QED
  BY <1>5, <1>6

(* What a thread has made is the one object of its name, so that the cache *)
(* may hold it.                                                            *)
LEMMA RememberRight ==
  ASSUME DS8KInv, NEW t \in Threads, Makes(t), NEW n, n = req[t].name, NEW m \in Ids, m = local[t].mine,
         Exists(m), object[m].name = n, n \in Names, array' = array, memory' = Remember(n, m),
         failures' = failures
  PROVE  DS8KMemory' /\ OwnCache(t)
<1>1. DS8KMemory
  BY DS8KKnows
<1>2. DS8KMemory'
  BY <1>1 DEF DS8KMemory, Remember
<1>3. \A x : Named(x)' = Named(x)
  BY DEF Named, Exists, object
<1>4. failures = 0 => Named(n) = {m}
  BY NamedOnce
<1>5. ASSUME NEW x \in DOMAIN memory', failures' = 0
      PROVE  \/ /\ x \in DOMAIN memory /\ memory'[x] = memory[x]
                /\ ~ (Making(t) /\ req[t].name = x) /\ Named(x)' \subseteq Named(x)
             \/ Named(x)' \subseteq {memory'[x]}
  BY <1>3, <1>4, <1>5 DEF Remember
<1> QED
  BY <1>2, <1>5 DEF OwnCache

LEMMA DS8KReports ==
  ASSUME DS8KInv, Locked', NEW t \in Threads, Makes(t), NEW m \in Ids, m = local[t].mine,
         pc[t] # "idle", Exists(m), Report(t, m), array' = array, failures' = failures,
         Shows(m, req[t].uid), DS8KMemory', OwnCache(t)
  PROVE  DS8KInv'
<1>1. /\ DS8KHand(t) /\ ObjectsInv /\ DS8KArray /\ failures \in Nat /\ service = "ds8k" /\ Creates(t)
      /\ \A u \in Ids : Obj(u)
  BY DS8KKnows DEF Makes
<1>2. PICK n, q : n = req[t].name /\ q = req[t]
  OBVIOUS
<1>3. /\ n \in Names /\ known.asked[n] = q /\ q # None /\ object[m].name = n /\ n # None
  BY <1>1, <1>2, CreatorAsks, ArrayObjectsAssumption DEF DS8KHand
<1>4. /\ known'.acked[m] = q /\ (\A w \in Ids : w # m => known'.acked[w] = known.acked[w])
      /\ known'.deleting = known.deleting /\ known'.gone = known.gone /\ known'.yanked = known.yanked
      /\ known'.asked = known.asked
      /\ Alone(t) /\ req'[t] = None /\ pc'[t] = "idle" /\ service' = service
  BY <1>1, <1>2, ReportTells
<1>5. DS8KTakes(t) /\ DS8KHand(t)'
  BY <1>4 DEF DS8KTakes, DS8KHand, Holds, Fresh, Makes, Creates
<1>6. RoleInv(t)'
  BY <1>4, FreedRole
<1>7. object' = object /\ DS8KArray' /\ m # None
  BY <1>1, ArrayObjectsAssumption DEF object, DS8KArray
<1>8. Holds(t) /\ known.acked[m] = None
  BY DS8KKnows DEF Holds, RoleInv
<1>9. \A w \in Threads \ {t} : Makes(w) => local[w].mine # m
  BY <1>8, DS8KKnows DEF DS8KMade, Holds
<1>10. Careful(t)
  BY <1>1, <1>2, <1>8, <1>9, ReportCareful
<1>11. DS8KSteps(t)
  BY <1>1, <1>2, <1>4, <1>7, <1>8, <1>10 DEF DS8KSteps
<1>12. Onward
  BY <1>1, <1>4 DEF Onward
<1>13. /\ Exists(m)' /\ (object[m])' = object[m] /\ object'[m] # None /\ object'[m].name = req[t].name
  BY <1>2, <1>3, <1>7 DEF Exists
<1>14. Obj(m)'
  <2>1. IsLarge(m, q)'
    BY <1>1, <1>2, <1>3, <1>13 DEF Obj, IsLarge
  <2>2. m \in known.gone => MayStay(m)'
    BY <1>1, <1>4, <1>13 DEF Obj, MayStay
  <2> QED
    BY <1>1, <1>2, <1>13, <2>1, <2>2, ReportedObj
<1>15. ASSUME NEW u \in Ids, u # m
       PROVE  Obj(u)'
  <2>1. Untouched(u)
    BY <1>4, <1>7, <1>15 DEF Untouched
  <2> QED
    BY <1>1, <1>12, <2>1, ObjKept
<1>16. ASSUME NEW u \in Ids
       PROVE  DS8KData(u)'
  <2>1. CASE u = m
    <3>1. Shows(m, q.uid)'
      BY <1>2, <1>7 DEF Shows, SourceOf
    <3> QED
      BY <1>2, <1>4, <1>11, <2>1, <3>1, DS8KDataKept
  <2>2. CASE u # m
    <3>1. known'.acked[u] = known.acked[u]
      BY <1>4, <2>2
    <3> QED
      BY <1>2, <1>11, <3>1, DS8KDataKept
  <2> QED
    BY <2>1, <2>2
<1> QED
  BY <1>5, <1>6, <1>7, <1>11, <1>14, <1>15, <1>16, DS8KKeeps

LEMMA DS8KReadBackKeeps ==
  ASSUME DS8KInv, Locked', NEW t \in Threads, DS8KReadBack(t)
  PROVE  DS8KInv'
<1>1. /\ pc[t] = "readBack" /\ DS8KHand(t) /\ ObjectsInv /\ DS8KArray /\ DS8KMemory /\ failures \in Nat
      /\ RoleInv(t)
  <2>1. pc[t] = "readBack"
    BY DEF DS8KReadBack, At
  <2> QED
    BY <2>1, DS8KKnows
<1>2. PICK n, q, m : n = req[t].name /\ q = req[t] /\ m = local[t].mine
  OBVIOUS
<1>3. /\ Makes(t) /\ Creates(t) /\ Exists(m) /\ m \in Ids /\ object[m].name = n
      /\ object[m].rel = None /\ object[m].data = None /\ local[t] \in Memo(DS8KObject) /\ m # None
  BY <1>1, <1>2, ArrayObjectsAssumption DEF DS8KHand, Makes, Fresh, RoleInv
<1>4. /\ n \in Names /\ q # None /\ q.op \in CreateOps
      /\ q.op = "createSnapshot" => q.uid \in Ids /\ q.uid # None
  BY <1>1, <1>2, <1>3, CreatorAsks, ArrayObjectsAssumption
<1>5. array' = array /\ failures' = failures
  BY DEF DS8KReadBack, NoFault
<1>6. CASE q.op = "createSnapshot"
  <2>1. Continue(t, "flashcopy") /\ known' = known /\ memory' = memory
    <3>1. req[t].op = "createSnapshot"
      BY <1>2, <1>6
    <3>2. memory' = memory
      BY <3>1 DEF DS8KReadBack
    <3>3. ~ IsCopy(t)
      BY <3>1 DEF IsCopy
    <3>4. Continue(t, "flashcopy") /\ known' = known
      BY <3>1, <3>3 DEF DS8KReadBack
    <3> QED
      BY <3>2, <3>4
  <2>2. /\ Alone(t) /\ pc'[t] = "flashcopy" /\ req'[t] = req[t] /\ local'[t] = local[t] /\ service' = service
        /\ Creates(t)' /\ Makes(t)' /\ ~ Deletes(t)' /\ ~ Expands(t)'
    BY <1>1, <1>2, <1>3, <2>1, DS8KProceeds DEF Continue
  <2>3. DS8KSilent(t)
    BY <1>5, <2>1, <2>2, DS8KNotes
  <2>4. /\ (Exists(local[t].mine))' /\ (object[local[t].mine])' = object[m] /\ (req[t].name)' = n
    BY <1>2, <1>3, <1>5, <2>2 DEF Exists, object
  <2>5. DS8KHand(t)'
    BY <1>2, <1>3, <1>4, <1>6, <2>2, <2>4 DEF DS8KHand, DS8KPlace, Fresh
  <2>6. Holds(t) /\ Fresh(t) /\ Making(t)'
    BY <1>1, <1>2, <1>3, <1>6, <2>2 DEF Holds, Fresh, Making, IsCopy
  <2> QED
    BY <1>1, <1>3, <2>2, <2>3, <2>5, <2>6, DS8KGoesOn
<1>7. CASE q.op # "createSnapshot"
  <2>1. q.op = "createVolume" /\ memory' = Remember(n, m)
    BY <1>2, <1>4, <1>7 DEF DS8KReadBack, CreateOps
  <2>2. DS8KMemory' /\ OwnCache(t)
    BY <1>2, <1>3, <1>4, <1>5, <2>1, RememberRight
  <2>3. CASE IsCopy(t)
    <3>1. Continue(t, "copySource") /\ known' = known
      BY <1>2, <1>7, <2>3 DEF DS8KReadBack
    <3>2. /\ Alone(t) /\ pc'[t] = "copySource" /\ req'[t] = req[t] /\ local'[t] = local[t] /\ service' = service
          /\ Creates(t)' /\ Makes(t)' /\ ~ Deletes(t)' /\ ~ Expands(t)' /\ IsCopy(t)'
      BY <1>1, <1>2, <1>3, <2>3, <3>1, DS8KProceeds DEF Continue
    <3>3. /\ (Exists(local[t].mine))' /\ (object[local[t].mine])' = object[m] /\ (req[t].name)' = n
      BY <1>2, <1>3, <1>5, <3>2 DEF Exists, object
    <3>4. DS8KHand(t)'
      BY <1>2, <1>3, <3>2, <3>3 DEF DS8KHand, DS8KPlace, Fresh
    <3>5. DS8KTakes(t)
      BY <1>1, <1>3, <3>2 DEF DS8KTakes, Holds, Fresh
    <3>6. Careful(t)
      BY <1>1, <3>1, <3>2, SilentCareful
    <3>7. DS8KSteps(t) /\ \A u \in Ids : ~ BringsUp(t, u)
      BY <1>1, <1>5, <3>1, <3>6 DEF DS8KSteps, BringsUp, object
    <3>8. RoleInv(t)' /\ DS8KArray'
      BY <1>1, <1>3, <1>5, <3>1, <3>2 DEF RoleInv, DS8KArray
    <3>9. \A u \in Ids : Obj(u)' /\ DS8KData(u)'
      BY <1>2, <3>1, <3>7, DS8KObjsKept, DS8KDataKept
    <3> QED
      BY <2>2, <3>4, <3>5, <3>7, <3>8, <3>9, DS8KKeeps
  <2>4. CASE ~ IsCopy(t)
    <3>1. Report(t, m) /\ q.uid = None
      BY <1>2, <1>7, <2>1, <2>4 DEF DS8KReadBack, IsCopy
    <3>2. Shows(m, req[t].uid)
      BY <1>2, <3>1 DEF Shows
    <3> QED
      BY <1>1, <1>2, <1>3, <1>5, <2>2, <3>1, <3>2, DS8KReports
  <2> QED
    BY <2>3, <2>4
<1> QED
  BY <1>6, <1>7

(* Roll-backs.                                                             *)
LEMMA DS8KRollsBack ==
  ASSUME DS8KInv, Locked', NEW t \in Threads, pc[t] \in {"copySource", "flashcopy", "verify"},
         IsCopy(t), RollBack(t, "look"), DS8KSilent(t)
  PROVE  DS8KInv'
<1>1. /\ DS8KHand(t) /\ ObjectsInv /\ RoleInv(t)
  BY DS8KKnows
<1>2. PICK m, n : m = local[t].mine /\ n = req[t].name
  OBVIOUS
<1>3. /\ Makes(t) /\ Creates(t) /\ Exists(m) /\ m \in Ids /\ object[m].name = n
      /\ local[t] \in Memo(DS8KObject) /\ m # None
  BY <1>1, <1>2, ArrayObjectsAssumption DEF DS8KHand, Makes, Fresh, RoleInv
<1>4. PICK memo : memo = [local[t] EXCEPT !.tries = RollbackTries]
  OBVIOUS
<1>5. memo \in Memo(DS8KObject) /\ memo.mine = m /\ memo.others = local[t].others
  BY <1>2, <1>3, <1>4, ArrayObjectsAssumption DEF Memo
<1>6. Proceed(t, "look", memo)
  BY <1>4 DEF RollBack
<1>7. /\ Alone(t) /\ pc'[t] = "look" /\ req'[t] = req[t] /\ local'[t] = memo /\ service' = service
      /\ Creates(t)' /\ Makes(t)' /\ ~ Deletes(t)' /\ ~ Expands(t)' /\ IsCopy(t)'
  <2> HIDE <1>4
  <2> QED
    BY <1>3, <1>5, <1>6, DS8KProceeds
<1>8. object'[m] # None => object'[m].name = n
  BY <1>3 DEF DS8KSilent, TakesDown, Modifies, Same
<1>9. /\ (Exists(local[t].mine))' <=> object'[m] # None
      /\ (object[local[t].mine])' = object'[m] /\ (req[t].name)' = n
  BY <1>2, <1>3, <1>5, <1>7 DEF Exists, object
<1>10. DS8KHand(t)'
  BY <1>5, <1>7, <1>8, <1>9 DEF DS8KHand, DS8KPlace, Fresh
<1>11. Holds(t) /\ ~ Fresh(t)' /\ ~ Making(t)
  BY <1>3, <1>7 DEF Holds, Fresh, Making
<1> QED
  BY <1>2, <1>3, <1>5, <1>7, <1>10, <1>11, DS8KGoesOn

LEMMA DS8KErrs ==
  ASSUME DS8KInv, Locked', NEW t \in Threads, pc[t] \notin {"idle", "toggle", "forget"}, DS8KOnError(t),
         UNCHANGED <<array, memory, known>>, failures' \in {failures, failures + 1},
         Making(t) => failures' # 0
  PROVE  DS8KInv'
<1>1. /\ DS8KHand(t) /\ ObjectsInv /\ RoleInv(t)
  BY DS8KKnows
<1>2. CASE Return(t)
  BY <1>2, DS8KRejects
<1>3. CASE pc[t] \in {"copySource", "flashcopy", "verify"} /\ IsCopy(t) /\ RollBack(t, "look")
  <2>1. Alone(t) /\ service' = service
    <3>1. PICK memo : memo = [local[t] EXCEPT !.tries = RollbackTries]
      OBVIOUS
    <3>2. Proceed(t, "look", memo)
      BY <1>3, <3>1 DEF RollBack
    <3> HIDE <3>1
    <3> QED
      BY <3>2, DS8KProceeds
  <2>2. DS8KSilent(t)
    BY <2>1, DS8KNotes
  <2> QED
    BY <1>3, <2>2, DS8KRollsBack
<1>4. CASE \/ pc[t] \in {"look", "deleteCopies", "deleteVolume"} /\ IsCopy(t) /\ TryAgain(t, "look")
           \/ pc[t] = "undo" /\ TryAgain(t, "undo")
  <2>1. PICK to : to = IF pc[t] = "undo" THEN "undo" ELSE "look"
    OBVIOUS
  <2>2. TryAgain(t, to) /\ to \in {"undo", "look"}
    BY <1>4, <2>1
  <2>3. SUFFICES ASSUME ~ Return(t)
                 PROVE  DS8KInv'
    BY <1>2
  <2>4. PICK memo : memo = [local[t] EXCEPT !.tries = @ - 1]
    OBVIOUS
  <2>5. Proceed(t, to, memo) /\ local[t].tries > 1
    BY <2>2, <2>3, <2>4 DEF TryAgain
  <2>6. local[t] \in Memo(DS8KObject)
    BY <1>1, <1>4 DEF DS8KHand
  <2>7. memo \in Memo(DS8KObject) /\ memo.mine = local[t].mine /\ memo.others = local[t].others
    BY <2>4, <2>5, <2>6 DEF Memo
  <2>8. /\ Alone(t) /\ pc'[t] = to /\ req'[t] = req[t] /\ local'[t] = memo /\ service' = service
        /\ Creates(t)' <=> Creates(t)
        /\ Deletes(t)' <=> Deletes(t)
        /\ Expands(t)' <=> Expands(t)
        /\ IsCopy(t)' <=> IsCopy(t)
        /\ Makes(t)' <=> Creates(t) /\ memo.mine # None
        /\ Makes(t)' <=> Makes(t)
    <3> HIDE <2>1, <2>4
    <3>1. /\ Alone(t) /\ pc'[t] = to /\ req'[t] = req[t] /\ local'[t] = memo /\ service' = service
          /\ Creates(t)' <=> Creates(t)
          /\ Deletes(t)' <=> Deletes(t)
          /\ Expands(t)' <=> Expands(t)
          /\ IsCopy(t)' <=> IsCopy(t)
          /\ Makes(t)' <=> Creates(t) /\ memo.mine # None /\ to \notin {"toggle", "newest"}
      BY <2>2, <2>5, DS8KProceeds
    <3> QED
      BY <1>4, <2>2, <2>7, <3>1 DEF Makes
  <2>9. DS8KSilent(t)
    BY <2>8, DS8KNotes
  <2>10. PICK m, n : m = local[t].mine /\ n = req[t].name
    OBVIOUS
  <2>11. /\ (Exists(local[t].mine))' <=> Exists(m)
         /\ (object[local[t].mine])' = object[m] /\ (req[t].name)' = n
    BY <2>7, <2>8, <2>10 DEF Exists, object
  <2>12. Makes(t) /\ Creates(t) /\ ~ Expands(t) /\ ~ Deletes(t)
    BY <1>1, <1>4 DEF DS8KHand, Makes, Creates, Deletes, IsCopy, Expands, CreateOps, DeleteOps
  <2>13. CASE to = "look"
    <3>1. IsCopy(t)
      BY <1>4, <2>1, <2>13
    <3>2. Exists(m) => object[m].name = n
      BY <1>1, <1>4, <2>10, <2>12 DEF DS8KHand
    <3>3. DS8KHand(t)'
      BY <2>6, <2>7, <2>8, <2>11, <2>12, <2>13, <3>1, <3>2 DEF DS8KHand, DS8KPlace, Fresh
    <3>4. Holds(t) /\ ~ Fresh(t)' /\ ~ Making(t)
      BY <1>4, <2>8, <2>12, <2>13, <3>1 DEF Holds, Fresh, Making
    <3> QED
      BY <2>7, <2>8, <2>9, <3>3, <3>4, DS8KGoesOn
  <2>14. CASE to = "undo"
    <3>1. pc[t] = "undo"
      BY <2>1, <2>14
    <3>2. Exists(m) /\ object[m].name = n /\ req[t].uid # None
      BY <1>1, <2>10, <2>12, <3>1 DEF DS8KHand
    <3>3. DS8KHand(t)'
      BY <2>6, <2>7, <2>8, <2>11, <2>12, <2>14, <3>2 DEF DS8KHand, DS8KPlace, Fresh
    <3>4. Holds(t) /\ ~ Fresh(t)' /\ (Making(t) => Making(t)')
      BY <2>8, <2>12, <2>14, <3>1 DEF Holds, Fresh, Making, IsCopy
    <3> QED
      BY <2>7, <2>8, <2>9, <3>3, <3>4, DS8KGoesOn
  <2> QED
    BY <2>2, <2>13, <2>14
<1> QED
  BY <1>2, <1>3, <1>4 DEF DS8KOnError

LEMMA DS8KFailKeeps ==
  ASSUME DS8KInv, Locked', NEW t \in Threads, DS8KFail(t)
  PROVE  DS8KInv'
<1>1. failures \in Nat
  BY DS8KKnows
<1>2. failures' = failures + 1
  BY DEF DS8KFail, Fault
<1>3. failures' # 0
  BY <1>1, <1>2
<1> QED
  BY <1>2, <1>3, DS8KErrs DEF DS8KFail

LEMMA DS8KRefused ==
  ASSUME DS8KInv, Locked', NEW t \in Threads, pc[t] \in {"look", "deleteCopies", "deleteVolume"}, Refused(t)
  PROVE  DS8KInv'
<1>1. ~ Making(t) /\ pc[t] \notin {"idle", "toggle", "forget"}
  BY DEF Making
<1> QED
  BY <1>1, DS8KErrs DEF Refused, NoFault

LEMMA DS8KPuts ==
  ASSUME DS8KInv, NEW m \in Ids, NEW o \in DS8KObject \union {None}, Put(m, o)
  PROVE  /\ DS8KArray' /\ object'[m] = o /\ (\A u \in Ids : u # m => object'[u] = object[u])
         /\ (object[m])' = o
         /\ Exists(m)' <=> o # None
<1>1. DS8KArray /\ m # None
  BY DS8KKnows, ArrayObjectsAssumption
<1>2. [array.object EXCEPT ![m] = o] \in [Ids -> DS8KObject \union {None}]
  BY <1>1 DEF DS8KArray
<1>3. array'.object = [array.object EXCEPT ![m] = o] /\ DS8KArray'
  BY <1>1, <1>2 DEF DS8KArray, Put
<1> QED
  BY <1>1, <1>3 DEF DS8KArray, object, Exists

(* An own object changes, while the thread goes on or returns.             *)
LEMMA DS8KOwnPut ==
  ASSUME DS8KInv, NEW t \in Threads, NEW m \in Ids, NEW o \in DS8KObject \union {None}, Put(m, o),
         Alone(t), service' = service, known' = known, memory' = memory,
         failures' \in {failures, failures + 1},
         object'[m] = o => TakesDown(t, m) \/ Modifies(t, m) \/ o = object[m]
  PROVE  DS8KSilent(t)
<1>1. DS8KArray' /\ object'[m] = o /\ (\A u \in Ids : u # m => object'[u] = object[u])
  BY DS8KPuts
<1> QED
  BY <1>1 DEF DS8KSilent

LEMMA DS8KCopySourceKeeps ==
  ASSUME DS8KInv, Locked', NEW t \in Threads, DS8KCopySource(t)
  PROVE  DS8KInv'
<1>1. /\ pc[t] = "copySource" /\ DS8KHand(t) /\ ObjectsInv /\ DS8KArray /\ failures \in Nat
      /\ RoleInv(t)
  <2>1. pc[t] = "copySource"
    BY DEF DS8KCopySource, At
  <2> QED
    BY <2>1, DS8KKnows
<1>2. PICK n, q, m : n = req[t].name /\ q = req[t] /\ m = local[t].mine
  OBVIOUS
<1>3. /\ Makes(t) /\ Creates(t) /\ Exists(m) /\ m \in Ids /\ object[m].name = n /\ IsCopy(t)
      /\ object[m].rel = None /\ object[m].data = None /\ local[t] \in Memo(DS8KObject) /\ m # None
  BY <1>1, <1>2, ArrayObjectsAssumption DEF DS8KHand, Makes, Fresh, RoleInv
<1>4. /\ object[m] \in DS8KObject /\ object[m] # None /\ object[m].size \in Sizes /\ object[m].size \in Nat
  BY <1>3, DS8KHasTypes
<1>5. PICK z : z = object[q.uid].size
  OBVIOUS
<1>6. PICK o : o = [object[m] EXCEPT !.size = IF @ < z THEN z ELSE @]
  OBVIOUS
<1>7. CASE /\ IsThere(q) /\ Put(m, o) /\ Continue(t, "flashcopy") /\ NoFault /\ UNCHANGED <<memory, known>>
  <2>1. q.uid \in Ids
    <3>1. RequestInv(t) /\ q.uid # None /\ req[t] # None
      BY <1>2, <1>3, DS8KKnows DEF IsCopy, Creates
    <3> QED
      BY <1>2, <3>1 DEF RequestInv, Request
  <2>2. z \in Sizes /\ z \in Nat
    BY <1>5, <1>7, <2>1, DS8KHasTypes DEF IsThere
  <2>3. /\ o \in DS8KObject /\ o.name = n /\ o.rel = None /\ o.data = None
        /\ o.size \in Nat /\ o.size >= object[m].size
    BY <1>3, <1>4, <1>6, <2>2 DEF DS8KObject
  <2>4. o # None
    BY <2>3, DS8KAssumption
  <2>5. object'[m] = o /\ (object[m])' = o /\ Exists(m)'
    BY <1>3, <1>7, <2>3, <2>4, DS8KPuts
  <2>6. Modifies(t, m)
    BY <1>2, <1>3, <2>3, <2>4, <2>5 DEF Modifies, Same
  <2>7. /\ Alone(t) /\ pc'[t] = "flashcopy" /\ req'[t] = req[t] /\ local'[t] = local[t] /\ service' = service
        /\ Creates(t)' /\ Makes(t)' /\ ~ Deletes(t)' /\ ~ Expands(t)' /\ IsCopy(t)'
    BY <1>1, <1>2, <1>3, <1>7, DS8KProceeds DEF Continue
  <2>8. DS8KSilent(t)
    BY <1>3, <1>7, <2>3, <2>6, <2>7, DS8KOwnPut DEF NoFault
  <2>9. /\ (Exists(local[t].mine))' /\ (object[local[t].mine])' = o /\ (req[t].name)' = n
    BY <1>2, <2>5, <2>7 DEF Exists, object
  <2>10. DS8KHand(t)'
    BY <1>2, <1>3, <2>3, <2>7, <2>9 DEF DS8KHand, DS8KPlace, Fresh, IsCopy
  <2>11. Holds(t) /\ Fresh(t) /\ ~ Making(t)
    BY <1>1, <1>3 DEF Holds, Fresh, Making
  <2> QED
    BY <1>1, <1>3, <2>7, <2>8, <2>10, <2>11, DS8KGoesOn
<1>8. CASE RollBack(t, "look") /\ NoFault /\ UNCHANGED <<array, memory, known>>
  <2>1. Alone(t) /\ service' = service
    <3>1. PICK memo : memo = [local[t] EXCEPT !.tries = RollbackTries]
      OBVIOUS
    <3>2. Proceed(t, "look", memo)
      BY <1>8, <3>1 DEF RollBack
    <3> HIDE <3>1, <1>6
    <3> QED
      BY <1>1, <3>2, DS8KProceeds
  <2>2. DS8KSilent(t)
    BY <1>8, <2>1, DS8KNotes DEF NoFault
  <2> QED
    BY <1>1, <1>3, <1>8, <2>2, DS8KRollsBack
<1> QED
  BY <1>2, <1>5, <1>6, <1>7, <1>8, Zenon DEF DS8KCopySource, CopySource

LEMMA DS8KFlashcopyKeeps ==
  ASSUME DS8KInv, Locked', NEW t \in Threads, DS8KFlashcopy(t)
  PROVE  DS8KInv'
<1>1. /\ pc[t] = "flashcopy" /\ DS8KHand(t) /\ ObjectsInv /\ DS8KArray /\ failures \in Nat
      /\ RoleInv(t)
  <2>1. pc[t] = "flashcopy"
    BY DEF DS8KFlashcopy, At
  <2> QED
    BY <2>1, DS8KKnows
<1>2. PICK n, q, m : n = req[t].name /\ q = req[t] /\ m = local[t].mine
  OBVIOUS
<1>3. /\ Makes(t) /\ Creates(t) /\ Exists(m) /\ m \in Ids /\ object[m].name = n /\ q.uid # None
      /\ object[m].rel = None /\ object[m].data = None /\ local[t] \in Memo(DS8KObject) /\ m # None
  BY <1>1, <1>2, ArrayObjectsAssumption DEF DS8KHand, Makes, Fresh, RoleInv
<1>4. /\ object[m] \in DS8KObject /\ object[m] # None /\ object[m].size \in Nat
  BY <1>3, DS8KHasTypes
<1>5. PICK r : r = [source |-> q.uid, copy |-> IsCopy(t), synced |-> FALSE]
  OBVIOUS
<1>6. PICK o : o = [object[m] EXCEPT !.rel = r]
  OBVIOUS
<1>7. CASE /\ Put(m, o) /\ Continue(t, "verify") /\ NoFault /\ UNCHANGED <<memory, known>>
  <2>1. q.uid \in Ids
    <3>1. RequestInv(t) /\ q.uid # None /\ req[t] # None
      BY <1>2, <1>3, DS8KKnows DEF IsCopy, Creates
    <3> QED
      BY <1>2, <3>1 DEF RequestInv, Request
  <2>2. r \in Relation /\ r.source = q.uid /\ ~ r.synced
    <3>1. IsCopy(t) \in BOOLEAN
      BY DEF IsCopy
    <3> QED
      BY <1>5, <2>1, <3>1 DEF Relation
  <2>3. r # None
    BY <2>2, DS8KAssumption
  <2>4. /\ o \in DS8KObject /\ o.name = n /\ o.rel = r /\ o.data = None
        /\ o.size \in Nat /\ o.size = object[m].size
    BY <1>3, <1>4, <1>6, <2>2 DEF DS8KObject
  <2>5. o # None
    BY <2>4, DS8KAssumption
  <2>6. object'[m] = o /\ (object[m])' = o /\ Exists(m)'
    BY <1>3, <1>7, <2>4, <2>5, DS8KPuts
  <2>7. Modifies(t, m)
    BY <1>1, <1>2, <1>3, <1>4, <2>2, <2>4, <2>5, <2>6 DEF Modifies, Same, Fresh
  <2>8. /\ Alone(t) /\ pc'[t] = "verify" /\ req'[t] = req[t] /\ local'[t] = local[t] /\ service' = service
        /\ Creates(t)' /\ Makes(t)' /\ ~ Deletes(t)' /\ ~ Expands(t)'
        /\ IsCopy(t)' <=> IsCopy(t)
    BY <1>1, <1>2, <1>3, <1>7, DS8KProceeds DEF Continue
  <2>9. DS8KSilent(t)
    BY <1>3, <1>7, <2>4, <2>7, <2>8, DS8KOwnPut DEF NoFault
  <2>10. /\ (Exists(local[t].mine))' /\ (object[local[t].mine])' = o /\ (req[t].name)' = n
    BY <1>2, <2>6, <2>8 DEF Exists, object
  <2>11. (Shows(local[t].mine, req[t].uid))'
    BY <1>2, <2>2, <2>3, <2>4, <2>8, <2>10 DEF Shows, SourceOf
  <2>12. DS8KHand(t)'
    BY <1>2, <1>3, <2>4, <2>8, <2>10, <2>11 DEF DS8KHand, DS8KPlace, Fresh
  <2>13. Holds(t) /\ ~ Fresh(t)' /\ (Making(t) => Making(t)')
    BY <1>1, <1>3, <2>8 DEF Holds, Fresh, Making
  <2> QED
    BY <1>1, <1>3, <2>8, <2>9, <2>12, <2>13, DS8KGoesOn
<1>8. CASE RollBack(t, IF IsCopy(t) THEN "look" ELSE "undo") /\ NoFault /\ UNCHANGED <<array, memory, known>>
  <2>1. PICK to : to = IF IsCopy(t) THEN "look" ELSE "undo"
    OBVIOUS
  <2>2. PICK memo : memo = [local[t] EXCEPT !.tries = RollbackTries]
    OBVIOUS
  <2>3. Proceed(t, to, memo)
    BY <1>8, <2>1, <2>2 DEF RollBack
  <2>4. to \in {"look", "undo"}
    BY <2>1
  <2>5. memo \in Memo(DS8KObject) /\ memo.mine = m /\ memo.others = local[t].others
    BY <1>2, <1>3, <2>2, ArrayObjectsAssumption DEF Memo
  <2>6. /\ Alone(t) /\ pc'[t] = to /\ req'[t] = req[t] /\ local'[t] = memo /\ service' = service
        /\ Creates(t)' /\ Makes(t)' /\ ~ Deletes(t)' /\ ~ Expands(t)'
        /\ IsCopy(t)' <=> IsCopy(t)
    <3> HIDE <2>1, <2>2
    <3>1. to # "idle" /\ to \notin {"toggle", "newest"}
      BY <2>4
    <3> QED
      BY <1>1, <1>3, <2>3, <2>5, <3>1, DS8KProceeds
  <2>7. DS8KSilent(t)
    BY <1>8, <2>6, DS8KNotes DEF NoFault
  <2>8. CASE IsCopy(t)
    BY <1>1, <1>8, <2>7, <2>8, DS8KRollsBack
  <2>9. CASE ~ IsCopy(t)
    <3>1. pc'[t] = "undo"
      BY <2>1, <2>6, <2>9
    <3>2. /\ (Exists(local[t].mine))' /\ (object[local[t].mine])' = object[m] /\ (req[t].name)' = n
      BY <1>2, <1>3, <1>8, <2>5, <2>6 DEF Exists, object
    <3>3. DS8KHand(t)'
      BY <1>2, <1>3, <2>5, <2>6, <3>1, <3>2 DEF DS8KHand, DS8KPlace, Fresh
    <3>4. Holds(t) /\ ~ Fresh(t)' /\ (Making(t) => Making(t)')
      BY <1>1, <1>3, <2>6, <2>9, <3>1 DEF Holds, Fresh, Making
    <3> QED
      BY <1>1, <1>2, <1>3, <2>5, <2>6, <2>7, <3>3, <3>4, DS8KGoesOn
  <2> QED
    BY <2>8, <2>9
<1> QED
  BY <1>2, <1>5, <1>6, <1>7, <1>8, Zenon DEF DS8KFlashcopy

LEMMA DS8KVerifyKeeps ==
  ASSUME DS8KInv, Locked', NEW t \in Threads, DS8KVerify(t)
  PROVE  DS8KInv'
<1>1. /\ pc[t] = "verify" /\ DS8KHand(t) /\ ObjectsInv /\ DS8KMemory /\ failures \in Nat
      /\ RoleInv(t)
  <2>1. pc[t] = "verify"
    BY DEF DS8KVerify, At
  <2> QED
    BY <2>1, DS8KKnows
<1>2. PICK n, m : n = req[t].name /\ m = local[t].mine
  OBVIOUS
<1>3. /\ Makes(t) /\ Creates(t) /\ Exists(m) /\ m \in Ids /\ object[m].name = n /\ n \in Names
      /\ Shows(m, req[t].uid)
  BY <1>1, <1>2, CreatorAsks DEF DS8KHand, Makes, RoleInv
<1>4. /\ array' = array /\ failures' = failures /\ Report(t, m)
      /\ memory' = IF IsCopy(t) THEN memory ELSE Remember(n, m)
  BY <1>2 DEF DS8KVerify, NoFault
<1>5. DS8KMemory' /\ OwnCache(t)
  <2>1. CASE IsCopy(t)
    <3>1. ~ Making(t) /\ memory' = memory /\ \A x : Named(x)' = Named(x)
      BY <1>1, <1>4, <2>1 DEF Making, Named, Exists, object
    <3> QED
      BY <1>1, <3>1 DEF OwnCache, DS8KMemory
  <2>2. CASE ~ IsCopy(t)
    BY <1>2, <1>3, <1>4, <2>2, RememberRight
  <2> QED
    BY <2>1, <2>2
<1> QED
  BY <1>1, <1>2, <1>3, <1>4, <1>5, DS8KReports

LEMMA DS8KInvalidKeeps ==
  ASSUME DS8KInv, Locked', NEW t \in Threads, DS8KInvalid(t)
  PROVE  DS8KInv'
<1>1. /\ pc[t] = "verify" /\ DS8KHand(t) /\ ObjectsInv /\ DS8KMemory /\ failures \in Nat
      /\ RoleInv(t)
  <2>1. pc[t] = "verify"
    BY DEF DS8KInvalid, At
  <2> QED
    BY <2>1, DS8KKnows
<1>2. PICK n, m, q : n = req[t].name /\ m = local[t].mine /\ q = req[t]
  OBVIOUS
<1>3. /\ Makes(t) /\ Creates(t) /\ Exists(m) /\ m \in Ids /\ object[m].name = n
  BY <1>1, <1>2 DEF DS8KHand, Makes, RoleInv
<1>4. /\ object[m] \in DS8KObject /\ object[m] # None /\ object[m].size \in Nat
  BY <1>3, DS8KHasTypes
<1>5. PICK o : o = [object[m] EXCEPT !.rel = None]
  OBVIOUS
<1>6. /\ o \in DS8KObject /\ o.name = n /\ o.rel = None /\ o.data = object[m].data
      /\ o.size \in Nat /\ o.size = object[m].size
  BY <1>3, <1>4, <1>5 DEF DS8KObject
<1>7. o # None
  BY <1>6, DS8KAssumption
<1>8. /\ Put(m, o) /\ failures' = failures + 1 /\ memory' = memory /\ known' = known
      /\ IF IsCopy(t) THEN RollBack(t, "look") ELSE Return(t)
  BY <1>2, <1>5, Zenon DEF DS8KInvalid, Fault
<1>9. Alone(t) /\ service' = service
  <2>1. CASE Return(t)
    BY <1>1, <2>1, ReturnMoves DEF ObjectsInv, Return
  <2>2. CASE RollBack(t, "look")
    <3>1. PICK memo : memo = [local[t] EXCEPT !.tries = RollbackTries]
      OBVIOUS
    <3>2. Proceed(t, "look", memo)
      BY <2>2, <3>1 DEF RollBack
    <3> HIDE <3>1, <1>5
    <3> QED
      BY <1>1, <3>2, DS8KProceeds
  <2> QED
    BY <1>8, <2>1, <2>2
<1>10. object'[m] = o
  BY <1>3, <1>6, <1>8, DS8KPuts
<1>11. Modifies(t, m)
  BY <1>2, <1>3, <1>4, <1>6, <1>7, <1>10 DEF Modifies, Same
<1>12. DS8KSilent(t)
  BY <1>3, <1>6, <1>8, <1>9, <1>11, DS8KOwnPut
<1>13. CASE IsCopy(t)
  BY <1>1, <1>8, <1>12, <1>13, DS8KRollsBack
<1>14. CASE ~ IsCopy(t)
  <2>1. pc'[t] = "idle" /\ req'[t] = None /\ failures' # 0
    BY <1>1, <1>8, <1>14, ReturnMoves DEF ObjectsInv
  <2> QED
    BY <1>2, <1>12, <2>1, DS8KReturns
<1> QED
  BY <1>13, <1>14

LEMMA DS8KUndoKeeps ==
  ASSUME DS8KInv, Locked', NEW t \in Threads, DS8KUndo(t)
  PROVE  DS8KInv'
<1>1. /\ pc[t] = "undo" /\ DS8KHand(t) /\ ObjectsInv /\ DS8KMemory /\ failures \in Nat
      /\ RoleInv(t)
  <2>1. pc[t] = "undo"
    BY DEF DS8KUndo, At
  <2> QED
    BY <2>1, DS8KKnows
<1>2. PICK n, m, q : n = req[t].name /\ m = local[t].mine /\ q = req[t]
  OBVIOUS
<1>3. /\ Makes(t) /\ Creates(t) /\ Exists(m) /\ m \in Ids /\ object[m].name = n
  BY <1>1, <1>2 DEF DS8KHand, Makes, RoleInv
<1>4. Put(m, None) /\ failures' = failures /\ memory' = memory /\ known' = known /\ Return(t)
  BY <1>2 DEF DS8KUndo, NoFault
<1>5. Alone(t) /\ service' = service /\ pc'[t] = "idle" /\ req'[t] = None
  BY <1>1, <1>4, ReturnMoves DEF ObjectsInv, Return
<1>6. object'[m] = None /\ (\A u \in Ids : u # m => object'[u] = object[u])
  BY <1>3, <1>4, DS8KPuts
<1>7. TakesDown(t, m)
  BY <1>2, <1>3, <1>6 DEF TakesDown
<1>8. DS8KSilent(t)
  BY <1>3, <1>4, <1>5, <1>7, DS8KOwnPut
<1>9. failures' = 0 => Named(n)' = {}
  <2>1. ASSUME failures = 0, NEW u \in Ids, Exists(u)', object'[u].name = n
        PROVE  FALSE
    <3>1. u # m /\ object'[u] = object[u] /\ Exists(u)
      BY <1>6, <2>1 DEF Exists, object
    <3>2. u \in Named(n)
      BY <2>1, <3>1 DEF Named
    <3> QED
      BY <1>3, <2>1, <3>1, <3>2, NamedOnce
  <2> QED
    BY <1>4, <2>1 DEF Named, object
<1> QED
  BY <1>2, <1>5, <1>8, <1>9, DS8KReturns

(* Deletions.                                                              *)
LEMMA DS8KDeletes ==
  ASSUME DS8KInv, Locked', NEW t \in Threads, pc[t] # "idle", Deleted(t), array' = array,
         failures' = failures, ~ Making(t), NEW x, memory' = memory \/ memory' = Forgotten(x),
         Deletes(t) => object[req[t].uid] = None \/ MayStay(req[t].uid)
  PROVE  DS8KInv'
<1>1. /\ ObjectsInv /\ DS8KArray /\ DS8KMemory /\ failures \in Nat /\ service = "ds8k" /\ req[t] # None
      /\ \A u \in Ids : Obj(u)
  BY DS8KKnows
<1>2. /\ \A w \in Ids : known'.acked[w] = IF Deletes(t) /\ w = req[t].uid THEN None ELSE known.acked[w]
      /\ ~ Deletes(t) => known' = known
      /\ known'.asked = known.asked /\ known'.deleting = known.deleting
      /\ Alone(t) /\ req'[t] = None /\ pc'[t] = "idle" /\ service' = service
  BY <1>1, DeletedTells
<1>3. Careful(t)
  BY <1>1, DeletedCareful
<1>4. object' = object /\ DS8KArray'
  BY <1>1 DEF object, DS8KArray
<1>5. Creates(t) => ~ Deletes(t)
  BY DEF Creates, Deletes, CreateOps, DeleteOps
<1>6. DS8KSteps(t)
  BY <1>1, <1>2, <1>3, <1>4, <1>5 DEF DS8KSteps
<1>7. DS8KTakes(t) /\ DS8KHand(t)'
  BY <1>2 DEF DS8KTakes, DS8KHand, Holds, Fresh, Makes, Creates
<1>8. RoleInv(t)'
  BY <1>2, FreedRole
<1>9. DS8KMemory' /\ DOMAIN memory' \subseteq DOMAIN memory /\ \A n \in DOMAIN memory' : memory'[n] = memory[n]
  BY <1>1 DEF DS8KMemory, Forgotten, Restrict
<1>10. OwnCache(t)
  <2>1. \A n : Named(n)' \subseteq Named(n)
    BY <1>4 DEF Named, Exists
  <2> QED
    BY <1>9, <2>1 DEF OwnCache
<1>11. \A u \in Ids : Obj(u)'
  <2>1. Onward
    BY <1>1, <1>2 DEF Onward
  <2>2. Deletes(t) => object'[req[t].uid] = None \/ MayStay(req[t].uid)
    BY <1>4
  <2>3. \A u \in Ids : object'[u] = object[u] \/ (object'[u] = None /\ ~ Trusted(u))
    BY <1>4
  <2> QED
    BY <1>1, <2>1, <2>2, <2>3, DeletedObjs
<1>12. PICK q : q = req[t]
  OBVIOUS
<1>13. ASSUME NEW u \in Ids
       PROVE  DS8KData(u)'
  <2>1. known'.acked[u] # None => known.acked[u] # None /\ known'.acked[u].uid = known.acked[u].uid
    BY <1>2
  <2> QED
    BY <1>6, <1>12, <2>1, DS8KDataKept
<1> QED
  BY <1>4, <1>6, <1>7, <1>8, <1>9, <1>10, <1>11, <1>13, DS8KKeeps

LEMMA DS8KLookKeeps ==
  ASSUME DS8KInv, Locked', NEW t \in Threads, DS8KLook(t)
  PROVE  DS8KInv'
<1>1. /\ pc[t] = "look" /\ DS8KHand(t) /\ ObjectsInv /\ DS8KArray /\ RoleInv(t) /\ RequestInv(t)
      /\ service = "ds8k" /\ req[t] # None
      /\ \A u \in Ids : Obj(u)
  <2>1. pc[t] = "look"
    BY DEF DS8KLook, At
  <2> QED
    BY <2>1, DS8KKnows
<1>2. PICK n, m : n = req[t].name /\ m = local[t].mine
  OBVIOUS
<1>3. /\ (Makes(t) /\ IsCopy(t)) \/ Deletes(t)
      /\ local[t] \in Memo(DS8KObject) /\ m \in Ids /\ m # None /\ ~ Making(t) /\ ~ Expands(t)
      /\ Makes(t) /\ Exists(m) => object[m].name = n
      /\ Deletes(t) => m = req[t].uid
  <2>1. (Makes(t) /\ IsCopy(t)) \/ Deletes(t)
    BY <1>1 DEF DS8KHand
  <2> QED
    BY <1>1, <1>2, <2>1, ArrayObjectsAssumption
       DEF DS8KHand, RoleInv, RequestInv, Making, Makes, Creates, Deletes, Expands, CreateOps, DeleteOps
<1>4. PICK isGone \in BOOLEAN :
        isGone <=> (Exists(m) => req[t].op = "deleteSnapshot" /\ ~ IsSnapshot(object[m]))
  OBVIOUS
<1>9. PICK all : all = CopiesOf(m) \union (IF object[m].rel = None THEN {} ELSE {m})
  OBVIOUS
<1>5. PICK memo : memo = [local[t] EXCEPT !.read = object[m], !.others = all]
  BY Zenon
<1>6. CASE isGone /\ Deleted(t) /\ NoFault /\ UNCHANGED <<array, memory>>
  <2>1. ASSUME Deletes(t), object[m] # None
        PROVE  MayStay(m)
    <3>1. Exists(m) /\ req[t].op = "deleteSnapshot"
      BY <1>3, <1>4, <1>6, <2>1 DEF Exists
    <3>2. known.acked[m] # None /\ known.acked[m].op = "createSnapshot"
      BY <1>1, <1>3, <2>1, <3>1 DEF RoleInv, OpOf
    <3>3. Answers(known.acked[m]) /\ object[m].name = known.acked[m].name
      BY <1>1, <1>3, <3>1, <3>2 DEF ObjectsInv, KnownInv, Obj, Fits
    <3>4. PICK a : a = known.asked[object[m].name]
      OBVIOUS
    <3>5. object[m].name \in Names /\ a # None /\ a.op = "createSnapshot"
      BY <3>2, <3>3, <3>4 DEF Answers
    <3>6. Asks(object[m].name, a)
      BY <1>1, <3>4, <3>5 DEF ObjectsInv, KnownInv
    <3> QED
      BY <1>1, <3>5, <3>6 DEF Asks, MayStay
  <2>2. Deletes(t) => object[req[t].uid] = None \/ MayStay(req[t].uid)
    BY <1>3, <2>1
  <2>3. array' = array /\ memory' = memory /\ failures' = failures
    BY <1>6 DEF NoFault
  <2> QED
    BY <1>1, <1>3, <1>6, <2>2, <2>3, DS8KDeletes
<1>7. CASE /\ ~ isGone /\ \A x \in CopiesOf(m) : IsSafe(x)
           /\ Proceed(t, "deleteCopies", memo) /\ NoFault /\ UNCHANGED <<array, memory, known>>
  <2>1. Exists(m) /\ object[m] \in DS8KObject
    BY <1>3, <1>4, <1>7, DS8KHasTypes
  <2>2. all \subseteq Ids /\ (\A x \in all : Exists(x) /\ object[x].rel # None)
    BY <1>3, <1>9, <2>1 DEF CopiesOf
  <2>3. \A x \in all : x # m => IsSafe(x)
    BY <1>7, <1>9
  <2>4. memo \in Memo(DS8KObject) /\ memo.mine = m /\ memo.others = all
    BY <1>2, <1>3, <1>5, <2>1, <2>2 DEF Memo
  <2>5. /\ Alone(t) /\ pc'[t] = "deleteCopies" /\ req'[t] = req[t] /\ local'[t] = memo /\ service' = service
        /\ Creates(t)' <=> Creates(t)
        /\ Deletes(t)' <=> Deletes(t)
        /\ Expands(t)' <=> Expands(t)
        /\ IsCopy(t)' <=> IsCopy(t)
        /\ Makes(t)' <=> Makes(t)
    <3> HIDE <1>5
    <3>1. Makes(t) <=> Creates(t) /\ m # None
      BY <1>1, <1>2 DEF Makes
    <3> QED
      BY <1>1, <1>7, <2>4, <3>1, DS8KProceeds
  <2>6. DS8KSilent(t)
    BY <1>7, <2>5, DS8KNotes DEF NoFault
  <2>7. /\ (Exists(local[t].mine))' /\ (object[local[t].mine])' = object[m] /\ (req[t].name)' = n
        /\ \A x : IsSafe(x)' <=> IsSafe(x)
    BY <1>2, <1>7, <2>1, <2>4, <2>5 DEF Exists, object, IsSafe
  <2>8. DS8KHand(t)'
    <3>1. (local[t].mine)' = m /\ local'[t].others = all /\ ~ Expands(t)'
      BY <1>3, <2>4, <2>5
    <3>2. \A x \in local'[t].others :
            /\ Exists(x)' /\ (object[x])'.rel # None
            /\ \/ x # m /\ (object[x])'.rel.source = m
               \/ x = m /\ Expands(t)'
            => IsSafe(x)'
      BY <2>3, <2>7, <3>1
    <3>3. pc'[t] \in DS8KPlace /\ ~ Fresh(t)' /\ local'[t] \in Memo(DS8KObject)
      BY <2>4, <2>5 DEF DS8KPlace, Fresh
    <3>4. (Makes(t)' /\ IsCopy(t)') \/ Deletes(t)'
      BY <1>3, <2>5
    <3>5. Makes(t)' /\ (Exists(local[t].mine))' => (object[local[t].mine])'.name = n
      BY <1>3, <2>1, <2>5, <2>7
    <3> QED
      BY <2>5, <2>7, <3>1, <3>2, <3>3, <3>4, <3>5 DEF DS8KHand
  <2>9. (Holds(t)' => Holds(t)) /\ ~ Fresh(t)'
    BY <1>1, <2>5 DEF Holds, Fresh
  <2> QED
    BY <1>1, <1>2, <1>3, <2>2, <2>4, <2>5, <2>6, <2>8, <2>9, DS8KGoesOn
<1>8. CASE Refused(t)
  BY <1>1, <1>8, DS8KRefused
<1> QED
  BY <1>2, <1>4, <1>5, <1>6, <1>7, <1>8, <1>9, Zenon DEF DS8KLook

LEMMA DS8KDeleteCopiesKeeps ==
  ASSUME DS8KInv, Locked', NEW t \in Threads, DS8KDeleteCopies(t)
  PROVE  DS8KInv'
<1>1. /\ pc[t] = "deleteCopies" /\ DS8KHand(t) /\ ObjectsInv /\ DS8KArray /\ RoleInv(t) /\ RequestInv(t)
      /\ service = "ds8k" /\ req[t] # None /\ failures \in Nat
  <2>1. pc[t] = "deleteCopies"
    BY DEF DS8KDeleteCopies, At
  <2> QED
    BY <2>1, DS8KKnows
<1>2. PICK n, m, s, others : n = req[t].name /\ m = local[t].mine /\ s = req[t].size /\ others = local[t].others
  OBVIOUS
<1>3. /\ (Makes(t) /\ IsCopy(t)) \/ Deletes(t) \/ Expands(t)
      /\ local[t] \in Memo(DS8KObject) /\ m \in Ids /\ m # None /\ ~ Making(t) /\ others \subseteq Ids
      /\ Makes(t) /\ Exists(m) => object[m].name = n
      /\ Deletes(t) \/ Expands(t) => ~ Makes(t)
      /\ Expands(t) <=> req[t].op = "expandVolume"
      /\ Expands(t) /\ Exists(m) => object[m].size < s
      /\ \A x \in others :
           /\ Exists(x) /\ object[x].rel # None
           /\ \/ x # m /\ object[x].rel.source = m
              \/ x = m /\ Expands(t)
           => IsSafe(x)
  <2>1. (Makes(t) /\ IsCopy(t)) \/ Deletes(t) \/ Expands(t)
    BY <1>1 DEF DS8KHand
  <2>2. local[t] \in Memo(DS8KObject)
    BY <1>1 DEF DS8KHand
  <2>3. m \in Ids /\ m # None /\ others \subseteq Ids
    BY <1>1, <1>2, <2>1, <2>2, ArrayObjectsAssumption DEF RoleInv, RequestInv, Memo
  <2>4. /\ ~ Making(t)
        /\ Deletes(t) \/ Expands(t) => ~ Makes(t)
        /\ Expands(t) <=> req[t].op = "expandVolume"
    BY <1>1 DEF Making, Makes, Creates, Deletes, Expands, CreateOps, DeleteOps
  <2> QED
    BY <1>1, <1>2, <2>1, <2>2, <2>3, <2>4 DEF DS8KHand
<1>4. PICK to : to = IF req[t].op = "expandVolume" THEN "extend" ELSE "deleteVolume"
  OBVIOUS
<1>5. CASE others = {} /\ Continue(t, to) /\ NoFault /\ UNCHANGED <<array, memory, known>>
  <2>1. /\ Alone(t) /\ pc'[t] = to /\ req'[t] = req[t] /\ local'[t] = local[t] /\ service' = service
        /\ Creates(t)' <=> Creates(t)
        /\ Deletes(t)' <=> Deletes(t)
        /\ Expands(t)' <=> Expands(t)
        /\ IsCopy(t)' <=> IsCopy(t)
        /\ Makes(t)' <=> Makes(t)
    <3>1. (Makes(t) <=> Creates(t) /\ m # None) /\ to # "idle" /\ to \notin {"toggle", "newest"}
      BY <1>1, <1>2, <1>4 DEF Makes
    <3> HIDE <1>4
    <3>2. Proceed(t, to, local[t])
      BY <1>5 DEF Continue
    <3> QED
      BY <1>1, <1>2, <3>1, <3>2, DS8KProceeds
  <2>2. DS8KSilent(t)
    BY <1>5, <2>1, DS8KNotes DEF NoFault
  <2>3. /\ (Exists(local[t].mine))' <=> Exists(m)
        /\ (object[local[t].mine])' = object[m] /\ (req[t].name)' = n /\ (req[t].size)' = s
    BY <1>2, <1>5, <2>1 DEF Exists, object
  <2>4. DS8KHand(t)'
    BY <1>2, <1>3, <1>4, <2>1, <2>3 DEF DS8KHand, DS8KPlace, Fresh
  <2>5. (Holds(t)' => Holds(t)) /\ ~ Fresh(t)'
    BY <1>1, <1>4, <2>1 DEF Holds, Fresh
  <2> QED
    BY <1>1, <1>2, <1>3, <2>1, <2>2, <2>4, <2>5, DS8KGoesOn
<1>6. ASSUME NEW x \in others, Exists(x), object[x].rel # None, x = m \/ object[x].rel.source = m,
             NEW o, o = [object[x] EXCEPT !.rel = None], Put(x, o),
             NEW memo, memo = [local[t] EXCEPT !.others = @ \ {x}], Proceed(t, "deleteCopies", memo),
             NoFault, UNCHANGED <<memory, known>>
      PROVE  DS8KInv'
  <2>1. x \in Ids /\ object[x] \in DS8KObject /\ object[x] # None /\ object[x].size \in Nat
    BY <1>3, <1>6, DS8KHasTypes
  <2>2. /\ o \in DS8KObject /\ o.name = object[x].name /\ o.rel = None /\ o.data = object[x].data
        /\ o.size \in Nat /\ o.size = object[x].size
    BY <1>6, <2>1 DEF DS8KObject
  <2>3. o # None
    BY <2>2, DS8KAssumption
  <2>4. /\ object'[x] = o /\ (\A u \in Ids : u # x => object'[u] = object[u])
        /\ DS8KArray'
    BY <1>6, <2>1, <2>2, DS8KPuts
  <2>5. Modifies(t, x)
    <3>1. IsSafe(x) \/ (x = m /\ (Makes(t) \/ Deletes(t)))
      BY <1>3, <1>6
    <3>2. Same(x)
      BY <1>6, <2>1, <2>2, <2>3, <2>4 DEF Same
    <3>3. object'[x].size = object[x].size /\ object'[x].rel = None /\ object'[x].data = object[x].data
      BY <2>2, <2>4
    <3> QED
      BY <1>2, <1>6, <3>1, <3>2, <3>3 DEF Modifies
  <2>6. memo \in Memo(DS8KObject) /\ memo.mine = m /\ memo.others = others \ {x}
    BY <1>2, <1>3, <1>6 DEF Memo
  <2>7. /\ Alone(t) /\ pc'[t] = "deleteCopies" /\ req'[t] = req[t] /\ local'[t] = memo /\ service' = service
        /\ Creates(t)' <=> Creates(t)
        /\ Deletes(t)' <=> Deletes(t)
        /\ Expands(t)' <=> Expands(t)
        /\ IsCopy(t)' <=> IsCopy(t)
        /\ Makes(t)' <=> Makes(t)
    <3>1. Makes(t) <=> Creates(t) /\ m # None
      BY <1>1, <1>2 DEF Makes
    <3>2. Proceed(t, "deleteCopies", memo)
      BY <1>6
    <3> HIDE <1>6
    <3> QED
      BY <1>1, <2>6, <3>1, <3>2, DS8KProceeds
  <2>8. DS8KSilent(t)
    BY <1>6, <2>1, <2>2, <2>5, <2>7, DS8KOwnPut DEF NoFault
  <2>9. /\ \A u \in Ids : Exists(u)' <=> Exists(u)
        /\ \A u \in Ids : u # x => (object[u])' = object[u]
        /\ (object[x])' = o
    BY <1>6, <2>1, <2>3, <2>4 DEF Exists, object
  <2>10. /\ Exists(m)' <=> Exists(m)
         /\ Exists(m) => (object[m])'.name = object[m].name /\ (object[m])'.size = object[m].size
    BY <1>3, <2>2, <2>9
  <2>11. /\ (Exists(local[t].mine))' <=> Exists(m)'
         /\ (object[local[t].mine])' = (object[m])' /\ (req[t].name)' = n /\ (req[t].size)' = s
         /\ (local[t].mine)' = m
    BY <1>2, <2>6, <2>7 DEF Exists, object
  <2>12. ASSUME NEW y \in others \ {x}, Exists(y)', (object[y])'.rel # None,
                \/ y # m /\ (object[y])'.rel.source = m
                \/ y = m /\ Expands(t)
         PROVE  IsSafe(y)'
    <3>1. y \in Ids /\ (object[y])' = object[y] /\ Exists(y)
      BY <1>3, <2>9, <2>12
    <3>2. IsSafe(y)
      BY <1>3, <2>12, <3>1
    <3> QED
      BY <3>1, <3>2 DEF IsSafe
  <2>13. \A y \in local'[t].others :
           /\ Exists(y)' /\ (object[y])'.rel # None
           /\ \/ y # m /\ (object[y])'.rel.source = m
              \/ y = m /\ Expands(t)'
           => IsSafe(y)'
    BY <2>6, <2>7, <2>12
  <2>14. DS8KHand(t)'
    BY <1>2, <1>3, <2>6, <2>7, <2>10, <2>11, <2>13 DEF DS8KHand, DS8KPlace, Fresh
  <2>15. (Holds(t)' => Holds(t)) /\ ~ Fresh(t)'
    BY <1>1, <2>7 DEF Holds, Fresh
  <2> QED
    BY <1>1, <1>2, <1>3, <2>6, <2>7, <2>8, <2>14, <2>15, DS8KGoesOn
<1>7. CASE Refused(t)
  BY <1>1, <1>7, DS8KRefused
<1>8. SUFFICES ASSUME ~ Refused(t), ~ (others = {} /\ Continue(t, to) /\ NoFault /\ UNCHANGED <<array, memory, known>>)
               PROVE  DS8KInv'
  BY <1>5, <1>7
<1>9. PICK x \in others :
        /\ Exists(x) /\ object[x].rel # None /\ (x = m \/ object[x].rel.source = m)
        /\ Put(x, [object[x] EXCEPT !.rel = None])
        /\ Proceed(t, "deleteCopies", [local[t] EXCEPT !.others = @ \ {x}])
        /\ NoFault /\ UNCHANGED <<memory, known>>
  BY <1>2, <1>4, <1>8, Zenon DEF DS8KDeleteCopies
<1> QED
  BY <1>6, <1>9, Zenon

LEMMA DS8KDeleteVolumeKeeps ==
  ASSUME DS8KInv, Locked', NEW t \in Threads, DS8KDeleteVolume(t)
  PROVE  DS8KInv'
<1>1. /\ pc[t] = "deleteVolume" /\ DS8KHand(t) /\ ObjectsInv /\ DS8KArray /\ RoleInv(t) /\ RequestInv(t)
      /\ service = "ds8k" /\ req[t] # None /\ failures \in Nat
  <2>1. pc[t] = "deleteVolume"
    BY DEF DS8KDeleteVolume, At
  <2> QED
    BY <2>1, DS8KKnows
<1>2. PICK n, m : n = req[t].name /\ m = local[t].mine
  OBVIOUS
<1>3. /\ (Makes(t) /\ IsCopy(t)) \/ Deletes(t)
      /\ local[t] \in Memo(DS8KObject) /\ m \in Ids /\ m # None /\ ~ Making(t) /\ ~ Expands(t)
      /\ Deletes(t) => m = req[t].uid
  <2>1. (Makes(t) /\ IsCopy(t)) \/ Deletes(t)
    BY <1>1 DEF DS8KHand
  <2> QED
    BY <1>1, <1>2, <2>1, ArrayObjectsAssumption
       DEF DS8KHand, RoleInv, RequestInv, Making, Makes, Creates, Deletes, Expands, CreateOps, DeleteOps
<1>4. CASE ~ Exists(m) /\ Deleted(t) /\ NoFault /\ UNCHANGED <<array, memory>>
  <2>1. Deletes(t) => object[req[t].uid] = None \/ MayStay(req[t].uid)
    BY <1>3, <1>4 DEF Exists
  <2>2. array' = array /\ memory' = memory /\ failures' = failures
    BY <1>4 DEF NoFault
  <2> QED
    BY <1>1, <1>3, <1>4, <2>1, <2>2, DS8KDeletes
<1>5. CASE Refused(t)
  BY <1>1, <1>5, DS8KRefused
<1>6. CASE Exists(m) /\ Put(m, None) /\ Continue(t, "forget") /\ NoFault /\ UNCHANGED <<memory, known>>
  <2>1. /\ Alone(t) /\ pc'[t] = "forget" /\ req'[t] = req[t] /\ local'[t] = local[t] /\ service' = service
        /\ Creates(t)' <=> Creates(t)
        /\ Deletes(t)' <=> Deletes(t)
        /\ Expands(t)' <=> Expands(t)
        /\ IsCopy(t)' <=> IsCopy(t)
        /\ Makes(t)' <=> Makes(t)
    <3>1. Makes(t) <=> Creates(t) /\ m # None
      BY <1>1, <1>2 DEF Makes
    <3> QED
      BY <1>1, <1>2, <1>6, <3>1, DS8KProceeds DEF Continue
  <2>2. object'[m] = None /\ ~ Exists(m)'
    BY <1>3, <1>6, DS8KPuts
  <2>3. TakesDown(t, m)
    BY <1>2, <1>3, <1>6, <2>2 DEF TakesDown
  <2>4. DS8KSilent(t)
    BY <1>3, <1>6, <2>1, <2>3, DS8KOwnPut DEF NoFault
  <2>5. (Exists(local[t].mine))' <=> Exists(m)'
    BY <1>2, <2>1 DEF Exists, object
  <2>6. DS8KHand(t)'
    BY <1>3, <2>1, <2>2, <2>5 DEF DS8KHand, DS8KPlace, Fresh
  <2>7. (Holds(t)' => Holds(t)) /\ ~ Fresh(t)'
    BY <1>1, <2>1 DEF Holds, Fresh
  <2> QED
    BY <1>1, <1>3, <2>1, <2>4, <2>6, <2>7, DS8KGoesOn
<1> QED
  BY <1>2, <1>4, <1>5, <1>6 DEF DS8KDeleteVolume

LEMMA DS8KForgetKeeps ==
  ASSUME DS8KInv, Locked', NEW t \in Threads, DS8KForget(t)
  PROVE  DS8KInv'
<1>1. /\ pc[t] = "forget" /\ DS8KHand(t) /\ RoleInv(t)
  <2>1. pc[t] = "forget"
    BY DEF DS8KForget, At
  <2> QED
    BY <2>1, DS8KKnows
<1>2. ~ Exists(local[t].mine) /\ ~ Making(t)
  BY <1>1 DEF DS8KHand, Making
<1>3. Deletes(t) => object[req[t].uid] = None
  <2>1. Deletes(t) => req[t].uid # None
    BY ArrayObjectsAssumption, DS8KKnows DEF RequestInv
  <2> QED
    BY <1>1, <1>2, <2>1 DEF RoleInv, Exists
<1>4. PICK x : memory' = Forgotten(x)
  BY DEF DS8KForget
<1>5. Deleted(t) /\ array' = array /\ failures' = failures
  BY DEF DS8KForget, NoFault
<1> QED
  BY <1>1, <1>2, <1>3, <1>4, <1>5, DS8KDeletes

(* Expansions.                                                             *)
LEMMA DS8KExpands ==
  ASSUME DS8KInv, Locked', NEW t \in Threads, pc[t] \in {"expand", "extend"}, Expands(t), Expanded(t),
         memory' = memory, failures' = failures, DS8KArray',
         NEW m, m = req[t].uid, Exists(m), \A u \in Ids : u # m => object'[u] = object[u],
         NEW o, o \in DS8KObject, object'[m] = o, o.name = object[m].name, o.rel = object[m].rel,
         o.data = object[m].data, o.size >= object[m].size, o.size >= req[t].size
  PROVE  DS8KInv'
<1>1. /\ ObjectsInv /\ DS8KArray /\ DS8KMemory /\ failures \in Nat /\ service = "ds8k" /\ req[t] # None
      /\ RoleInv(t) /\ RequestInv(t) /\ known \in KnownObjects
      /\ \A u \in Ids : Obj(u)
  BY DS8KKnows
<1>2. m \in Ids /\ m = local[t].mine /\ known.acked[m] # None
  BY <1>1 DEF RoleInv, RequestInv
<1>3. PICK z : z = req[t].size
  OBVIOUS
<1>4. /\ known'.acked[m] = [known.acked[m] EXCEPT !.size = z]
      /\ \A w \in Ids : w # m => known'.acked[w] = known.acked[w]
      /\ known'.asked = known.asked /\ known'.deleting = known.deleting
      /\ known'.gone = known.gone /\ known'.yanked = known.yanked
      /\ Alone(t) /\ req'[t] = None /\ pc'[t] = "idle" /\ service' = service
  BY <1>1, <1>3, ExpandedTells
<1>5. Careful(t)
  BY <1>1, ExpandedCareful
<1>6. /\ object[m] # None /\ o # None /\ o.size \in Nat /\ object[m].size \in Nat
  BY <1>2, DS8KHasTypes, DS8KAssumption, ArrayObjectsAssumption DEF DS8KObject
<1>7. Modifies(t, m)
  BY <1>2, <1>6 DEF Modifies, Same
<1>8. ~ Creates(t) /\ ~ Making(t)
  BY DEF Creates, Expands, CreateOps, Making
<1>9. DS8KSteps(t) /\ \A u \in Ids : ~ BringsUp(t, u)
  BY <1>4, <1>5, <1>7, <1>8 DEF DS8KSteps, BringsUp
<1>10. DS8KTakes(t) /\ DS8KHand(t)'
  BY <1>4 DEF DS8KTakes, DS8KHand, Holds, Fresh, Makes, Creates
<1>11. RoleInv(t)'
  BY <1>4, FreedRole
<1>12. OwnCache(t) /\ DS8KMemory'
  <2>1. \A u \in Ids : object'[u] = object[u] \/ TakesDown(t, u) \/ Modifies(t, u)
    BY <1>7
  <2>2. \A n : Named(n)' \subseteq Named(n)
    BY <2>1, NoneBroughtUp
  <2> QED
    BY <1>1, <1>8, <2>2 DEF OwnCache, DS8KMemory
<1>13. \A u \in Ids : Obj(u)'
  <2>1. Onward
    BY <1>1, <1>4 DEF Onward
  <2>2. \A u \in Ids \ {req[t].uid} : object'[u] = object[u]
    OBVIOUS
  <2> QED
    BY <1>1, <1>6, <2>1, <2>2, ExpandedObjs
<1>14. PICK q : q = req[t]
  OBVIOUS
<1>15. ASSUME NEW u \in Ids
       PROVE  DS8KData(u)'
  <2>1. known.acked[m] \in Request
    BY <1>1, <1>2 DEF ObjectsInv, KnownInv, Answers
  <2>2. known'.acked[m].uid = known.acked[m].uid
    BY <1>4, <2>1 DEF Request
  <2>3. known'.acked[u] # None => known.acked[u] # None /\ known'.acked[u].uid = known.acked[u].uid
    BY <1>2, <1>4, <2>2
  <2> QED
    BY <1>9, <1>14, <2>3, DS8KDataKept
<1> QED
  BY <1>9, <1>10, <1>11, <1>12, <1>13, <1>15, DS8KKeeps

LEMMA DS8KExpandKeeps ==
  ASSUME DS8KInv, Locked', NEW t \in Threads, DS8KExpand(t)
  PROVE  DS8KInv'
<1>1. /\ pc[t] = "expand" /\ DS8KHand(t) /\ ObjectsInv /\ DS8KArray /\ RoleInv(t) /\ RequestInv(t)
      /\ service = "ds8k" /\ req[t] # None /\ failures \in Nat
  <2>1. pc[t] = "expand"
    BY DEF DS8KExpand, At
  <2> QED
    BY <2>1, DS8KKnows
<1>2. PICK m, s : m = local[t].mine /\ s = req[t].size
  OBVIOUS
<1>3. /\ Expands(t) /\ local[t] \in Memo(DS8KObject) /\ m \in Ids /\ m # None /\ ~ Making(t) /\ ~ Makes(t)
      /\ m = req[t].uid /\ s \in Sizes /\ s \in Nat /\ ~ Creates(t)
  <2>1. Expands(t) /\ local[t] \in Memo(DS8KObject)
    BY <1>1 DEF DS8KHand
  <2>2. m = req[t].uid /\ m \in Ids /\ s \in Sizes
    BY <1>1, <1>2, <2>1 DEF RoleInv, RequestInv
  <2> QED
    BY <1>1, <2>1, <2>2, ArrayObjectsAssumption DEF Making, Makes, Creates, Expands, CreateOps
<1>4. PICK all : all = CopiesOf(m) \union (IF object[m].rel = None THEN {} ELSE {m})
  OBVIOUS
<1>5. PICK memo : memo = [local[t] EXCEPT !.others = all]
  BY Zenon
<1>6. CASE Reject(t)
  BY <1>1, <1>3, <1>6, DS8KRejects DEF Reject, NoFault
<1>7. CASE Exists(m) /\ object[m].size >= s /\ Expanded(t) /\ NoFault /\ UNCHANGED <<array, memory>>
  <2>1. /\ object[m] \in DS8KObject /\ object[m].size \in Nat /\ object' = object /\ DS8KArray'
        /\ memory' = memory /\ failures' = failures
    BY <1>1, <1>3, <1>7, DS8KHasTypes DEF object, DS8KArray, NoFault
  <2>2. object[m].size >= object[m].size
    BY <2>1
  <2> QED
    BY <1>1, <1>2, <1>3, <1>7, <2>1, <2>2, DS8KExpands
<1>8. CASE /\ Exists(m) /\ object[m].size < s /\ \A x \in all : IsSafe(x)
           /\ Proceed(t, "deleteCopies", memo) /\ NoFault /\ UNCHANGED <<array, memory, known>>
  <2>1. all \subseteq Ids /\ (\A x \in all : Exists(x) /\ object[x].rel # None)
    BY <1>3, <1>4, <1>8 DEF CopiesOf
  <2>2. memo \in Memo(DS8KObject) /\ memo.mine = m /\ memo.others = all
    BY <1>2, <1>3, <1>5, <2>1 DEF Memo
  <2>3. /\ Alone(t) /\ pc'[t] = "deleteCopies" /\ req'[t] = req[t] /\ local'[t] = memo /\ service' = service
        /\ Expands(t)' /\ ~ Makes(t)' /\ ~ Deletes(t)'
    <3>1. ~ Deletes(t)
      BY <1>3 DEF Expands, Deletes, DeleteOps
    <3> HIDE <1>5, <1>4
    <3>2. Proceed(t, "deleteCopies", memo)
      BY <1>8
    <3> QED
      BY <1>1, <1>3, <3>1, <3>2, DS8KProceeds
  <2>4. DS8KSilent(t)
    BY <1>8, <2>3, DS8KNotes DEF NoFault
  <2>5. /\ (Exists(local[t].mine))' /\ (object[local[t].mine])' = object[m]
        /\ (req[t].size)' = s /\ (local[t].mine)' = m /\ local'[t].others = all
        /\ \A x : IsSafe(x)' <=> IsSafe(x)
    BY <1>2, <1>8, <2>2, <2>3 DEF Exists, object, IsSafe
  <2>6. \A x \in local'[t].others : IsSafe(x)'
    BY <1>8, <2>5
  <2>7. pc'[t] \in DS8KPlace /\ ~ Fresh(t)' /\ local'[t] \in Memo(DS8KObject) /\ ~ Holds(t)'
    BY <2>2, <2>3 DEF DS8KPlace, Fresh, Holds
  <2>8. DS8KHand(t)'
    BY <1>8, <2>3, <2>5, <2>6, <2>7 DEF DS8KHand
  <2> QED
    BY <1>1, <1>2, <1>3, <2>1, <2>2, <2>3, <2>4, <2>7, <2>8, DS8KGoesOn
<1> QED
  BY <1>2, <1>4, <1>5, <1>6, <1>7, <1>8, Zenon DEF DS8KExpand

LEMMA DS8KExtendKeeps ==
  ASSUME DS8KInv, Locked', NEW t \in Threads, DS8KExtend(t)
  PROVE  DS8KInv'
<1>1. /\ pc[t] = "extend" /\ DS8KHand(t) /\ ObjectsInv /\ DS8KArray /\ RoleInv(t) /\ RequestInv(t)
      /\ service = "ds8k" /\ req[t] # None /\ failures \in Nat
  <2>1. pc[t] = "extend"
    BY DEF DS8KExtend, At
  <2> QED
    BY <2>1, DS8KKnows
<1>2. PICK m, s : m = local[t].mine /\ s = req[t].size
  OBVIOUS
<1>3. Expands(t) /\ m = req[t].uid /\ m \in Ids /\ s \in Sizes /\ s \in Nat /\ ~ Making(t)
  <2>1. Expands(t)
    BY <1>1 DEF DS8KHand
  <2> QED
    BY <1>1, <1>2, <2>1, ArrayObjectsAssumption DEF RoleInv, RequestInv, Making
<1>4. CASE Reject(t)
  BY <1>1, <1>3, <1>4, DS8KRejects DEF Reject, NoFault
<1>5. PICK o : o = [object[m] EXCEPT !.size = s]
  OBVIOUS
<1>6. CASE Exists(m) /\ Put(m, o) /\ Expanded(t) /\ NoFault /\ memory' = memory
  <2>1. object[m] \in DS8KObject /\ object[m].size \in Nat /\ object[m].size < s
    BY <1>1, <1>2, <1>3, <1>6, DS8KHasTypes DEF DS8KHand
  <2>2. /\ o \in DS8KObject /\ o.name = object[m].name /\ o.rel = object[m].rel /\ o.data = object[m].data
        /\ o.size = s /\ s >= object[m].size /\ s >= s
    BY <1>3, <1>5, <2>1 DEF DS8KObject
  <2>3. DS8KArray' /\ object'[m] = o /\ (\A u \in Ids : u # m => object'[u] = object[u]) /\ failures' = failures
    BY <1>3, <1>6, <2>2, DS8KPuts DEF NoFault
  <2> QED
    BY <1>1, <1>2, <1>3, <1>6, <2>2, <2>3, DS8KExpands
<1> QED
  BY <1>2, <1>4, <1>5, <1>6, Zenon DEF DS8KExtend

(* The array finishes a copy: a thread that waits does not notice.         *)
LEMMA FinishCopyKeeps ==
  ASSUME DS8KInv, FinishCopy
  PROVE  DS8KInv'
<1>1. PICK u \in Ids :
        /\ Exists(u) /\ object[u].rel # None /\ object[u].rel.copy /\ ~ object[u].rel.synced
        /\ Put(u, [object[u] EXCEPT !.rel.synced = TRUE, !.data = object[u].rel.source])
  BY Zenon DEF FinishCopy
<1>2. PICK o : o = [object[u] EXCEPT !.rel.synced = TRUE, !.data = object[u].rel.source]
  OBVIOUS
<1>3. /\ UNCHANGED <<service, ids_in_use, pc, req, local, memory, known, failures>>
      /\ Put(u, o)
  BY <1>1, <1>2, Zenon DEF FinishCopy, NoFault
<1>4. /\ object[u] \in DS8KObject /\ object[u].rel \in Relation /\ object[u].size \in Nat
      /\ DS8KData(u) /\ ObjectsInv /\ failures \in Nat
  BY <1>1, DS8KHasTypes, DS8KKnows
<1>5. PICK r : r = object[u].rel
  OBVIOUS
<1>6. PICK r2 : r2 = [r EXCEPT !.synced = TRUE]
  OBVIOUS
<1>7. r2 \in Relation /\ r2.synced /\ r2.copy /\ r2.source = r.source /\ r.source \in Ids /\ r2 # None
  <2>1. r2 \in Relation /\ r2.synced /\ r2.copy /\ r2.source = r.source /\ r.source \in Ids
    BY <1>1, <1>4, <1>5, <1>6 DEF Relation
  <2> QED
    BY <2>1, DS8KAssumption
<1>8. /\ o \in DS8KObject /\ o.rel = r2 /\ o.data = r.source
      /\ o.name = object[u].name /\ o.size = object[u].size
  <2>1. o = [object[u] EXCEPT !.rel = r2, !.data = r.source]
    BY <1>2, <1>4, <1>5, <1>6 DEF DS8KObject
  <2> HIDE <1>2
  <2> QED
    BY <1>4, <1>7, <2>1 DEF DS8KObject
<1> HIDE <1>2, <1>6
<1>9. o # None
  BY <1>8, DS8KAssumption
<1>10. DS8KArray' /\ object'[u] = o /\ (\A x \in Ids : x # u => object'[x] = object[x])
  BY <1>3, <1>8, DS8KPuts
<1>11. /\ (object[u])' = o
       /\ \A x \in Ids : (Exists(x)' <=> Exists(x)) /\ (x # u => (object[x])' = object[x])
       /\ \A x \in Ids : Exists(x) => (object[x])'.name = object[x].name
  BY <1>1, <1>8, <1>9, <1>10, ArrayObjectsAssumption DEF Exists, object
<1>12. ASSUME NEW w \in Threads
       PROVE  DS8KHand(w)'
  <2>1. Same(u)
    BY <1>1, <1>4, <1>8, <1>9, <1>10 DEF Same
  <2>2. Alters(w, u)
    BY <1>1, <1>5, <1>7, <1>8, <1>10, <2>1 DEF Alters
  <2>3. pc[w] = "toggle" /\ known'.acked[local[w].mine] # None => known'.acked[local[w].mine].op = req[w].op
    BY <1>3, DS8KKnows DEF DS8KHand
  <2>4. Waits(w)
    BY <1>3, <1>10, <2>2, <2>3 DEF Waits
  <2> QED
    BY <2>4, DS8KWaits
<1>13. ObjectsInv'
  BY <1>3, <1>4, QuietKeepsObjects
<1>14. ASSUME NEW x \in Ids
       PROVE  Obj(x)' /\ DS8KData(x)'
  <2>1. Obj(x) /\ DS8KData(x) /\ Onward /\ service = "ds8k"
    BY <1>3, <1>4, DS8KKnows DEF Onward
  <2>2. CASE x # u
    <3>1. Untouched(x)
      BY <1>3, <1>10, <2>2 DEF Untouched
    <3>2. DS8KData(x)'
      BY <1>3, <1>11, <2>1, <2>2 DEF DS8KData, Shows, SourceOf
    <3> QED
      BY <2>1, <3>1, <3>2, ObjKept
  <2>3. CASE x = u
    <3>1. Obj(x)'
      BY <1>3, <1>8, <1>11, <2>1, <2>3 DEF Obj, Trusted, Fits, MayStay, IsLarge
    <3>2. object[u].data = None
      BY <1>1, <1>4 DEF DS8KData
    <3>3. known.acked[u] # None /\ u \notin known.deleting => known.acked[u].uid \in {None, r.source}
      BY <1>1, <1>4, <1>5, <3>2 DEF DS8KData, Shows, SourceOf
    <3>4. (known.acked[u].uid)' = known.acked[u].uid
      BY <1>3
    <3>5. DS8KData(u)'
      BY <1>3, <1>7, <1>8, <1>11, <3>3, <3>4 DEF DS8KData, Shows, SourceOf
    <3> QED
      BY <2>3, <3>1, <3>5
  <2> QED
    BY <2>2, <2>3
<1>15. DS8KApart' /\ DS8KMemory'
  BY <1>3, <1>11, DS8KKnows DEF DS8KApart, DS8KMemory
<1>16. CacheRight'
  <2>1. \A n : Named(n)' = Named(n)
    BY <1>11 DEF Named
  <2>2. \A w \in Threads : Making(w)' <=> Making(w)
    BY <1>3 DEF Making, IsCopy
  <2> QED
    BY <1>3, <2>1, <2>2, DS8KKnows DEF CacheRight
<1>17. DS8KMade'
  BY <1>3, DS8KKnows DEF DS8KMade, Holds, Fresh, Makes, Creates
<1> QED
  BY <1>3, <1>4, <1>10, <1>12, <1>13, <1>14, <1>15, <1>16, <1>17, DS8KKnows DEF DS8KInv, DS8KWorld

LEMMA DS8KCallKeeps ==
  ASSUME DS8KInv, NEW t \in Threads, CallObjects(t)
  PROVE  DS8KInv'
<1>1. /\ ObjectsInv' /\ (\A u \in Ids : Obj(u)') /\ Alone(t) /\ Starts(t)
      /\ UNCHANGED <<service, array, memory, failures>> /\ known'.acked = known.acked
      /\ known.deleting \subseteq known'.deleting
  BY DS8KKnows, CallKeeps
<1>2. object' = object /\ (\A u : Exists(u)' <=> Exists(u)) /\ (\A n : Named(n)' = Named(n))
  BY <1>1 DEF Exists, object, Named
<1>3. ASSUME NEW w \in Threads, w # t
      PROVE  DS8KHand(w)' /\ (Making(w)' <=> Making(w)) /\ req'[w] = req[w]
  <2>1. pc'[w] = pc[w] /\ req'[w] = req[w] /\ local'[w] = local[w]
    BY <1>1, <1>3 DEF Alone
  <2>2. pc[w] = "toggle" /\ known'.acked[local[w].mine] # None => known'.acked[local[w].mine].op = req[w].op
    BY <1>1, DS8KKnows DEF DS8KHand
  <2>3. Waits(w)
    BY <1>1, <1>2, <2>1, <2>2 DEF Waits
  <2> QED
    BY <2>1, <2>3, DS8KWaits DEF Making, IsCopy
<1>4. DS8KHand(t)' /\ ~ Holds(t)' /\ ~ Fresh(t)' /\ local'[t].others = {}
  <2>1. CASE Creates(t)' /\ pc'[t] = "find" /\ local'[t] = [NoMemo EXCEPT !.mine = None]
    <3>1. local'[t].mine = None /\ local'[t] \in Memo(DS8KObject) /\ local'[t].others = {}
      BY <2>1 DEF NoMemo, Memo
    <3>2. ~ Makes(t)' /\ ~ Expands(t)'
      BY <2>1, <3>1 DEF Makes, Creates, Expands, CreateOps
    <3> QED
      BY <2>1, <3>1, <3>2 DEF DS8KHand, DS8KPlace, Holds, Fresh
  <2>2. CASE /\ Deletes(t)' \/ Expands(t)'
             /\ pc'[t] = IF Deletes(t)' THEN "look" ELSE "expand"
             /\ local'[t] = [NoMemo EXCEPT !.mine = (req'[t]).uid]
    <3>1. (req'[t]).uid \in Ids
      BY <1>1, <2>2 DEF ObjectsInv, RequestInv, Deletes, Expands
    <3>2. local'[t] \in Memo(DS8KObject) /\ local'[t].others = {}
      BY <2>2, <3>1 DEF NoMemo, Memo
    <3>3. ~ Makes(t)' /\ ~ Creates(t)'
      BY <2>2 DEF Makes, Creates, Deletes, Expands, CreateOps, DeleteOps
    <3> QED
      BY <2>2, <3>2, <3>3 DEF DS8KHand, DS8KPlace, Holds, Fresh
  <2>3. Expands(t)' => ~ Deletes(t)'
    BY DEF Expands, Deletes, DeleteOps
  <2> QED
    BY <1>1, <2>1, <2>2, <2>3 DEF Starts
<1>5. DS8KMade'
  <2>1. DS8KTakes(t)
    BY <1>4 DEF DS8KTakes
  <2> QED
    BY <1>1, <2>1, DS8KMadeKept
<1>6. \A u \in Ids : DS8KData(u)'
  BY <1>1, <1>2, DS8KKnows DEF DS8KData, Shows, SourceOf
<1>7. DS8KArray' /\ DS8KMemory' /\ DS8KApart'
  BY <1>1, <1>2, DS8KKnows DEF DS8KArray, DS8KMemory, DS8KApart
<1>8. CacheRight'
  <2>1. ~ Making(t)
    BY <1>1 DEF Starts, Making
  <2> QED
    BY <1>1, <1>2, <1>3, <2>1, DS8KKnows DEF CacheRight
<1> QED
  BY <1>1, <1>3, <1>4, <1>5, <1>6, <1>7, <1>8, DS8KKnows DEF DS8KInv, DS8KWorld

LEMMA DS8KCrashKeeps ==
  ASSUME DS8KInv, Crash
  PROVE  DS8KInv'
<1>1. /\ ObjectsInv' /\ (\A u \in Ids : Obj(u)') /\ (\A t \in Threads : pc'[t] = "idle" /\ req'[t] = None)
      /\ memory' = <<>> /\ UNCHANGED <<service, array, known, failures>>
  BY DS8KKnows, CrashKeepsObjects DEF Crash
<1>2. object' = object /\ \A u : Exists(u)' <=> Exists(u)
  BY <1>1 DEF object, Exists
<1>3. \A u \in Ids : DS8KData(u)'
  BY <1>1, <1>2, DS8KKnows DEF DS8KData, Shows, SourceOf
<1>4. DS8KArray' /\ DS8KApart' /\ failures' \in Nat
  BY <1>1, <1>2, DS8KKnows DEF DS8KArray, DS8KApart
<1>5. DOMAIN memory' = {}
  BY <1>1
<1>6. DS8KMemory' /\ CacheRight'
  BY <1>5 DEF DS8KMemory, CacheRight
<1>7. DS8KMade'
  BY <1>1 DEF DS8KMade, Holds, Fresh, Makes, Creates
<1>8. \A t \in Threads : DS8KHand(t)'
  BY <1>1 DEF DS8KHand
<1> QED
  BY <1>1, <1>3, <1>4, <1>6, <1>7, <1>8, DS8KKnows DEF DS8KInv, DS8KWorld

LEMMA InitDS8KInv ==
  ASSUME InitDS8K
  PROVE  DS8KInv
<1>1. FirstName \in VolumeNames /\ FirstName \in Names /\ FirstId \in Ids /\ SizeOf[FirstName] \in Sizes
  BY FirstOnes, ArrayObjectsAssumption DEF Names
<1>2. PICK o : o = [name |-> FirstName, size |-> SizeOf[FirstName], rel |-> None, data |-> None]
  OBVIOUS
<1>3. o \in DS8KObject /\ o.name = FirstName /\ o.size = SizeOf[FirstName] /\ o.rel = None /\ o.data = None
  BY <1>1, <1>2 DEF DS8KObject
<1>4. o # None /\ InitObjects("ds8k") /\ memory = [n \in {FirstName} |-> FirstId]
  BY <1>3, DS8KAssumption DEF InitDS8K
<1>5. array = [object |-> First(o)]
  BY <1>2 DEF InitDS8K
<1>6. array.object = First(o) /\ First(o) \in [Ids -> DS8KObject \union {None}]
  BY <1>3, <1>5 DEF First
<1>7. DS8KArray
  BY <1>5, <1>6 DEF DS8KArray
<1>8. /\ ObjectsInv /\ (\A u \in Ids : Obj(u)) /\ failures = 0 /\ service = "ds8k"
      /\ \A t \in Threads : pc[t] = "idle" /\ req[t] = None
      /\ \A u \in Ids : object[u] = IF u = FirstId THEN o ELSE None
      /\ known.acked[FirstId].uid = None
  BY <1>3, <1>4, <1>6, InitObjectsInv DEF ObjectServices
<1>9. /\ \A u \in Ids : DS8KData(u)
      /\ DS8KApart
  BY <1>3, <1>8 DEF DS8KData, DS8KApart, Exists, Shows
<1>10. DS8KMemory /\ CacheRight
  <2>1. DOMAIN memory = {FirstName} /\ memory[FirstName] = FirstId
    BY <1>4
  <2>2. Named(FirstName) \subseteq {FirstId}
    BY <1>8 DEF Named, Exists
  <2> QED
    BY <1>1, <2>1, <2>2 DEF DS8KMemory, CacheRight
<1>11. DS8KMade /\ \A t \in Threads : DS8KHand(t)
  BY <1>8 DEF DS8KMade, DS8KHand, Holds, Fresh, Makes, Creates
<1> QED
  BY <1>7, <1>8, <1>9, <1>10, <1>11 DEF DS8KInv, DS8KWorld

LEMMA DS8KStep ==
  ASSUME DS8KInv, DS8KNext
  PROVE  DS8KInv'
<1>1. Locked'
  BY DS8KMove, DS8KKnows
<1>2. ASSUME NEW t \in Threads,
             \/ DS8KFind(t) \/ DS8KToggle(t) \/ DS8KCreate(t) \/ DS8KReadBack(t)
             \/ DS8KCopySource(t) \/ DS8KFlashcopy(t) \/ DS8KVerify(t) \/ DS8KInvalid(t)
      PROVE  DS8KInv'
  BY <1>1, <1>2, DS8KFindKeeps, DS8KToggleKeeps, DS8KCreateKeeps, DS8KReadBackKeeps,
     DS8KCopySourceKeeps, DS8KFlashcopyKeeps, DS8KVerifyKeeps, DS8KInvalidKeeps
<1>3. ASSUME NEW t \in Threads,
             \/ DS8KUndo(t) \/ DS8KLook(t) \/ DS8KDeleteCopies(t) \/ DS8KDeleteVolume(t)
             \/ DS8KForget(t) \/ DS8KExpand(t) \/ DS8KExtend(t) \/ DS8KFail(t)
      PROVE  DS8KInv'
  BY <1>1, <1>3, DS8KUndoKeeps, DS8KLookKeeps, DS8KDeleteCopiesKeeps, DS8KDeleteVolumeKeeps,
     DS8KForgetKeeps, DS8KExpandKeeps, DS8KExtendKeeps, DS8KFailKeeps
<1> QED
  BY <1>2, <1>3, FinishCopyKeeps DEF DS8KNext

(* What the properties say of a DS8000.                                    *)
LEMMA DS8KMeans ==
  ASSUME DS8KInv
  PROVE  TypeOK /\ ReportedStays /\ ReportedAsAsked /\ DeletedIsGone /\ NameOnce
<1>1. /\ ObjectsInv /\ (\A u \in Ids : Obj(u) /\ DS8KData(u)) /\ service = "ds8k"
      /\ DS8KArray /\ DS8KMemory /\ DS8KApart /\ KnownInv /\ known \in KnownObjects /\ failures \in Nat
  BY DS8KKnows
<1>2. TypeOK
  <2>1. \A t \in Threads : pc[t] \in DS8KPlace
    BY DEF DS8KInv, DS8KHand, DS8KPlace
  <2>2. DS8KTypeOK
    BY <1>1, <2>1 DEF DS8KTypeOK, DS8KArray, DS8KMemory
  <2>3. ObjectsTypeOK /\ ids_in_use = {LockOf(req[t]) : t \in {x \in Threads : req[x] # None}}
    BY <1>1 DEF ObjectsTypeOK, ObjectsInv, KnownInv, RequestInv, Locked
  <2> QED
    BY <1>1, <2>2, <2>3 DEF TypeOK
<1>3. ReportedStays
  BY <1>1 DEF ReportedStays, Obj, Trusted, Fits
<1>4. ReportedAsAsked
  <2>1. \A u \in Ids : Trusted(u) => DS8KHasData(u)
    BY <1>1 DEF Obj, Trusted, DS8KData, DS8KHasData, Shows
  <2> QED
    BY <1>1, <2>1 DEF ReportedAsAsked, Obj, Trusted, IsLarge
<1>5. DeletedIsGone
  <2>1. known.gone \subseteq Ids
    BY <1>1 DEF KnownObjects
  <2>2. \A u \in known.gone : Exists(u) => service = "ds8k" /\ object[u].name \in SnapshotNames
    BY <1>1, <2>1 DEF Obj, MayStay
  <2> QED
    BY <1>1, <2>2 DEF DeletedIsGone
<1>6. NameOnce
  <2>1. failures > 0 \/ failures = 0
    BY <1>1
  <2> QED
    BY <1>1, <2>1 DEF NameOnce, DS8KApart
<1> QED
  BY <1>2, <1>3, <1>4, <1>5, <1>6

-----------------------------------------------------------------------------
(* The volumes of the requests that are routed.                            *)

(* The system that has a zone first, and the array a name's volume is on.  *)
Site(secret, z) ==
  IF None \in DOMAIN secret THEN None
    ELSE EarliestIn(SystemOrder, {k \in Systems : k \in DOMAIN secret /\ z \in secret[k].zones})

HomeOf(n) == StorageIn(array.secret, Site(array.secret, known.zone[n]))

SameZones(s, w) == \A k \in DOMAIN s : s[k].zones = w[k].zones

VolumeFor(t) == [name |-> req[t].name, storage |-> local[t].storage]

(* A creation is for a name none is deleted under, in the name's zone, and *)
(* has made its volume when it is to answer; a deletion then has removed   *)
(* its volume; an agent that served has its array's type.                  *)
Settles(t) ==
  IF pc[t] = "idle" THEN local[t] = None
  ELSE
    /\ req[t].op = "createVolume" =>
         /\ req[t].zone = known.zone[req[t].name]
         /\ None \in DOMAIN array.secret \/ req[t].zone # None
         /\ ~ known.moved => SameZones(req[t].secret, array.secret)
         /\ \A d \in known.deleting : d.volume.name # req[t].name
         /\ pc[t] \in {"getAgent", "serve", "answer"} => local[t].system = Site(req[t].secret, req[t].zone)
         /\ pc[t] = "answer" => VolumeFor(t) \in array.volumes
    /\ req[t].op = "deleteVolume" =>
         /\ req[t].uid \in known.deleting
         /\ pc[t] = "answer" => req[t].uid.volume \notin array.volumes
    /\ pc[t] = "answer" => local[t].agent.type = TypeOfStorage(local[t].storage)

(* What was told is exact, and is there unless its volume's deletion was   *)
(* asked for.                                                              *)
ToldThere ==
  \A id \in known.told :
    /\ id.type = TypeOfStorage(id.volume.storage)
    /\ None \in DOMAIN array.secret => id.system = None
    /\ (\A d \in known.deleting : d.volume # id.volume) => id.volume \in array.volumes

GoneAway == \A id \in known.gone : id.volume \notin array.volumes

(* While the topologies stay, a volume is where its name's zone leads.     *)
AtHome ==
  \A v \in array.volumes :
    /\ None \in DOMAIN array.secret \/ known.zone[v.name] # None
    /\ ~ known.moved =>
         /\ v.storage = HomeOf(v.name)
         /\ IsSystem(array.secret, Site(array.secret, known.zone[v.name]))

TableTyped ==
  \A k \in DOMAIN memory :
    \/ \E s \in Storage : \E e \in AddressesOf[s] : k = TypeKey(e) /\ memory[k] \in TypesAt[e]
    \/ \E s \in Storage, y \in Systems \union {None} : k = AgentKey(s, y) /\ memory[k] \in Agent

RoutedWorld ==
  /\ known.deleting \subseteq known.told /\ known.gone \subseteq known.deleting
  /\ known.changes <= MaxChanges
  /\ \A k \in Systems : k \in DOMAIN array.secret => array.secret[k].storage = StorageOf[k]
  /\ ToldThere /\ GoneAway /\ AtHome

VolumesInv ==
  /\ RoutingInv /\ RoutedWorld /\ TableTyped
  /\ \A t \in Threads : Settles(t)

LEMMA SameSites ==
  ASSUME NEW s, NEW w, SameArrays(s, w), SameZones(s, w)
  PROVE  \A z : Site(s, z) = Site(w, z)
<1>1. DOMAIN s = DOMAIN w /\ \A k \in DOMAIN s : s[k].zones = w[k].zones
  BY DEF SameArrays, SameZones
<1>2. ASSUME NEW z
      PROVE  {k \in Systems : k \in DOMAIN s /\ z \in s[k].zones}
               = {k \in Systems : k \in DOMAIN w /\ z \in w[k].zones}
  BY <1>1
<1> QED
  BY <1>1, <1>2 DEF Site

LEMMA VolumesKnow ==
  ASSUME VolumesInv
  PROVE  /\ RoutingInv /\ RoutingTyped /\ Locked /\ RoutedWorld /\ TableTyped /\ ToldThere /\ GoneAway /\ AtHome
         /\ ToldInv /\ MemoryInv /\ failures \in Nat /\ array.secret \in Secret
         /\ \A t \in Threads : Settles(t) /\ Routed(t) /\ (pc[t] = "idle" <=> req[t] = None)
  BY DEF VolumesInv, RoutedWorld, RoutingInv, RoutingTyped, Locked

(* A step that leaves the array and what is known.                         *)
LEMMA VolumesGoOn ==
  ASSUME VolumesInv, RoutingInv', NEW t \in Threads, Alone(t), UNCHANGED <<array, known>>,
         TableTyped', Settles(t)'
  PROVE  VolumesInv'
<1>1. RoutedWorld'
  BY VolumesKnow DEF RoutedWorld, ToldThere, GoneAway, AtHome, HomeOf
<1>2. ASSUME NEW u \in Threads, u # t
      PROVE  Settles(u)'
  <2>1. pc'[u] = pc[u] /\ req'[u] = req[u] /\ local'[u] = local[u] /\ Settles(u)
    BY <1>2, VolumesKnow DEF Alone
  <2> QED
    BY <2>1 DEF Settles, VolumeFor
<1> QED
  BY <1>1, <1>2 DEF VolumesInv

LEMMA VolumesFreed ==
  ASSUME VolumesInv, RoutingInv', NEW t \in Threads, pc[t] # "idle", Return(t), UNCHANGED <<array, known>>,
         TableTyped'
  PROVE  VolumesInv'
<1>1. Alone(t) /\ pc'[t] = "idle" /\ local'[t] = None
  BY ReturnMoves, VolumesKnow
<1>2. Settles(t)'
  BY <1>1 DEF Settles
<1> QED
  BY <1>1, <1>2, VolumesGoOn

LEMMA TableStays ==
  ASSUME TableTyped, memory' = memory
  PROVE  TableTyped'
  BY DEF TableTyped

LEMMA TypeTabled ==
  ASSUME TableTyped, NEW s \in Storage, NEW e \in AddressesOf[s], NEW y \in TypesAt[e],
         memory' = Kept(TypeKey(e), y)
  PROVE  TableTyped'
<1>1. /\ DOMAIN memory' = {TypeKey(e)} \union DOMAIN memory
      /\ \A k \in DOMAIN memory' : memory'[k] = IF k = TypeKey(e) THEN y ELSE memory[k]
  BY DEF Kept
<1> QED
  BY <1>1 DEF TableTyped

LEMMA AgentTabled ==
  ASSUME TableTyped, NEW s \in Storage, NEW y \in Systems \union {None}, NEW agent \in Agent,
         memory' = Kept(AgentKey(s, y), agent)
  PROVE  TableTyped'
<1>1. /\ DOMAIN memory' = {AgentKey(s, y)} \union DOMAIN memory
      /\ \A k \in DOMAIN memory' : memory'[k] = IF k = AgentKey(s, y) THEN agent ELSE memory[k]
  BY DEF Kept
<1> QED
  BY <1>1 DEF TableTyped

LEMMA AgentUntabled ==
  ASSUME TableTyped, NEW key, memory' = [k \in DOMAIN memory \ {key} |-> memory[k]]
  PROVE  TableTyped'
<1>1. /\ DOMAIN memory' = DOMAIN memory \ {key}
      /\ \A k \in DOMAIN memory' : memory'[k] = memory[k]
  OBVIOUS
<1> QED
  BY <1>1 DEF TableTyped

(* A creation that is on its way is on its way to its name's home.         *)
LEMMA VolumesProceed ==
  ASSUME VolumesInv, RoutingInv', NEW t \in Threads, pc[t] # "idle", NEW to \in {"getAgent", "serve"},
         NEW memo, RoutingStep(t, to, memo), TableTyped',
         req[t].op = "createVolume" => memo.system = Site(req[t].secret, req[t].zone)
  PROVE  VolumesInv'
<1>1. Alone(t) /\ pc'[t] = to /\ req'[t] = req[t] /\ local'[t] = memo /\ UNCHANGED <<array, known>>
  BY ProceedMoves, VolumesKnow DEF RoutingStep
<1>2. Settles(t)'
  <2>1. Settles(t)
    BY VolumesKnow
  <2> QED
    BY <1>1, <2>1 DEF Settles
<1> QED
  BY <1>1, <1>2, VolumesGoOn

LEMMA ChooseSettles ==
  ASSUME VolumesInv, NEW t \in Threads, Choose(t)
  PROVE  VolumesInv'
<1>1. pc[t] = "choose"
  BY Zenon DEF Choose, At
<1>2. /\ RoutingInv' /\ TableTyped /\ Routed(t) /\ req[t] \in RoutedRequest
      /\ req[t].op \in {"createVolume", "deleteVolume"}
      /\ req[t].op = "createVolume" => req[t].uid = None
  <2>1. RoutingInv' /\ TableTyped /\ Routed(t)
    BY ChooseKeeps, VolumesKnow
  <2> QED
    BY <1>1, <2>1 DEF Routed, RoutedRequest
<1> DEFINE route(k) == RouteFor(req[t], k)
<1>3. ASSUME NEW k \in Choices(req[t]), NEW y, RoutingStep(t, "getAgent", [route(k) EXCEPT !.type = y]),
             TableTyped'
      PROVE  VolumesInv'
  <2> DEFINE memo == [route(k) EXCEPT !.type = y]
  <2>1. memo.system = k
    <3> DEFINE r == route(k)
    <3>1. r = [system |-> k, storage |-> EntryOf(req[t], k).storage, type |-> None, agent |-> None]
      BY RouteIs
    <3>2. memo = [r EXCEPT !.type = y]
      OBVIOUS
    <3> HIDE DEF r, memo
    <3> QED
      BY <3>1, <3>2
  <2>2. req[t].op = "createVolume" => k = Site(req[t].secret, req[t].zone)
    BY <1>2, <1>3 DEF Choices, Matching, Site
  <2>3. RoutingStep(t, "getAgent", memo)
    BY <1>3
  <2> HIDE DEF memo, route
  <2> QED
    BY <1>1, <1>2, <1>3, <2>1, <2>2, <2>3, VolumesProceed
<1>4. ASSUME NEW k \in Choices(req[t]), DetectArrayType(t, route(k)), req[t].op = "createVolume"
      PROVE  VolumesInv'
  <2> DEFINE s == EntryOf(req[t], k).storage
             mine == AddressesOf[s]
             cached == {e \in mine : TypeKey(e) \in DOMAIN memory}
  <2>1. AddressesOf[route(k).storage] = mine
    BY RouteIs
  <2>2. s \in Storage
    BY <1>1, <1>4, ChoiceIsSystem, VolumesKnow
  <2> HIDE DEF route, s
  <2>3. \/ \E e \in cached :
             /\ RoutingStep(t, "getAgent", [route(k) EXCEPT !.type = memory[TypeKey(e)]])
             /\ UNCHANGED memory
        \/ \E missed \in SUBSET {c \in mine \X ArrayTypes : c[2] \in TypesAt[c[1]]} :
             LET seen(e) == {y \in TypesAt[e] : <<e, y>> \notin missed}
                 all == UNION {seen(e) : e \in mine}
             IN  /\ IF missed = {} THEN NoFault ELSE Fault
                 /\ IF all = {} THEN Return(t) /\ UNCHANGED <<array, memory, known>>
                      ELSE \E e \in mine :
                             /\ EarliestIn(TypeOrder, all) \in seen(e)
                             /\ memory' = Kept(TypeKey(e), EarliestIn(TypeOrder, all))
                             /\ RoutingStep(t, "getAgent",
                                  [route(k) EXCEPT !.type = EarliestIn(TypeOrder, all)])
    <3> HIDE DEF mine
    <3> QED
      BY ZenonT(60), <1>4, <2>1 DEF DetectArrayType
  <2>4. ASSUME NEW e \in mine, RoutingStep(t, "getAgent", [route(k) EXCEPT !.type = memory[TypeKey(e)]]),
               UNCHANGED memory
        PROVE  VolumesInv'
    BY <1>2, <1>3, <1>4, <2>4, TableStays
  <2>5. ASSUME Return(t) /\ UNCHANGED <<array, memory, known>>
        PROVE  VolumesInv'
    BY <1>1, <1>2, <2>5, TableStays, VolumesFreed
  <2>6. ASSUME NEW e \in mine, NEW y \in TypesAt[e], memory' = Kept(TypeKey(e), y),
               RoutingStep(t, "getAgent", [route(k) EXCEPT !.type = y])
        PROVE  VolumesInv'
    BY <1>2, <1>3, <1>4, <2>2, <2>6, TypeTabled
  <2>7. \/ \E e \in mine : /\ RoutingStep(t, "getAgent", [route(k) EXCEPT !.type = memory[TypeKey(e)]])
                           /\ UNCHANGED memory
        \/ Return(t) /\ UNCHANGED <<array, memory, known>>
        \/ \E e \in mine : \E y \in TypesAt[e] :
             memory' = Kept(TypeKey(e), y) /\ RoutingStep(t, "getAgent", [route(k) EXCEPT !.type = y])
    <3> HIDE DEF mine
    <3> QED
      BY <2>3, ZenonT(60)
  <2> HIDE DEF mine
  <2> QED
    BY <2>4, <2>5, <2>6, <2>7, Zenon
<1>5. \/ Reject(t)
      \/ \E k \in Choices(req[t]) :
           IF req[t].op = "createVolume" THEN DetectArrayType(t, route(k))
             ELSE /\ RoutingStep(t, "getAgent", [route(k) EXCEPT !.type = req[t].uid.type])
                  /\ NoFault /\ UNCHANGED memory
  BY Zenon DEF Choose, RouteFor
<1>6. CASE Reject(t)
  BY <1>1, <1>2, <1>6, TableStays, VolumesFreed DEF Reject
<1> HIDE DEF route
<1>7. ASSUME NEW k \in Choices(req[t]), req[t].op # "createVolume",
             RoutingStep(t, "getAgent", [route(k) EXCEPT !.type = req[t].uid.type]), UNCHANGED memory
      PROVE  VolumesInv'
  BY <1>2, <1>3, <1>7, TableStays
<1> QED
  BY <1>4, <1>5, <1>6, <1>7, Zenon

LEMMA GetAgentSettles ==
  ASSUME VolumesInv, NEW t \in Threads, GetAgent(t)
  PROVE  VolumesInv'
<1> DEFINE s == local[t].storage
           k == local[t].system
           key == AgentKey(s, k)
           new == [type |-> local[t].type, password |-> EntryOf(req[t], k).password]
<1>1. pc[t] = "getAgent"
  BY Zenon DEF GetAgent, At
<1>2. /\ RoutingInv' /\ TableTyped /\ Settles(t) /\ local[t] \in RoutedMemo /\ req[t].secret \in Secret
      /\ IsSystem(req[t].secret, k) /\ s = StorageIn(req[t].secret, k) /\ local[t].type \in ArrayTypes
  <2>1. RoutingInv' /\ TableTyped /\ Routed(t) /\ Settles(t)
    BY GetAgentKeeps, VolumesKnow
  <2> QED
    BY <1>1, <2>1 DEF Routed, RoutedRequest
<1>3. s \in Storage /\ k \in Systems \union {None} /\ new \in Agent
  <2>1. EntryOf(req[t], k) \in Entry /\ s \in Storage
    BY <1>2, SystemHasEntry DEF EntryOf
  <2> QED
    BY <1>2, <2>1 DEF Entry, Agent, IsSystem
<1>4. ASSUME NEW agent, RoutingStep(t, "serve", [local[t] EXCEPT !.agent = agent]), TableTyped'
      PROVE  VolumesInv'
  <2> DEFINE memo == [local[t] EXCEPT !.agent = agent]
  <2>1. memo.system = k /\ RoutingStep(t, "serve", memo)
    BY <1>2, <1>4 DEF RoutedMemo
  <2>2. req[t].op = "createVolume" => k = Site(req[t].secret, req[t].zone)
    BY <1>1, <1>2 DEF Settles
  <2> HIDE DEF memo
  <2> QED
    BY <1>1, <1>2, <1>4, <2>1, <2>2, VolumesProceed
<1> HIDE DEF new
<1>5. CASE RoutingStep(t, "serve", [local[t] EXCEPT !.agent = memory[key]]) /\ UNCHANGED memory
  BY <1>2, <1>4, <1>5, TableStays
<1>6. CASE RoutingStep(t, "serve", [local[t] EXCEPT !.agent = new]) /\ memory' = Kept(key, new)
  BY <1>2, <1>3, <1>4, <1>6, AgentTabled
<1>7. CASE /\ Return(t) /\ UNCHANGED <<array, known>>
           /\ memory' = [j \in DOMAIN memory \ {key} |-> memory[j]]
  BY <1>1, <1>2, <1>7, AgentUntabled, VolumesFreed
<1> QED
  BY Zenon, <1>5, <1>6, <1>7 DEF GetAgent, new

(* What a request makes or removes, and those that run beside it.          *)
LEMMA OthersSettle ==
  ASSUME VolumesInv, RoutingInv', NEW t \in Threads, pc[t] = "serve", Continue(t, "answer"),
         UNCHANGED <<memory, known>>, array'.secret = array.secret,
         Settles(t)', RoutedWorld',
         \A u \in Threads \ {t} : pc[u] = "answer" =>
           /\ req[u].op = "createVolume" /\ VolumeFor(u) \in array.volumes => VolumeFor(u) \in array'.volumes
           /\ req[u].op = "deleteVolume" /\ req[u].uid.volume \notin array.volumes =>
                req[u].uid.volume \notin array'.volumes
  PROVE  VolumesInv'
<1>1. Alone(t)
  BY ContinueMoves, VolumesKnow
<1>2. TableTyped'
  BY TableStays, VolumesKnow
<1>3. ASSUME NEW u \in Threads, u # t
      PROVE  Settles(u)'
  <2>1. pc'[u] = pc[u] /\ req'[u] = req[u] /\ local'[u] = local[u] /\ Settles(u)
    BY <1>1, <1>3, VolumesKnow DEF Alone
  <2> QED
    BY <1>3, <2>1 DEF Settles, VolumeFor
<1> QED
  BY <1>2, <1>3 DEF VolumesInv

LEMMA ServeRequestSettles ==
  ASSUME VolumesInv, NEW t \in Threads, ServeRequest(t)
  PROVE  VolumesInv'
<1>1. pc[t] = "serve"
  BY Zenon DEF ServeRequest, At
<1>2. /\ RoutingInv' /\ TableTyped /\ Routed(t) /\ Settles(t) /\ array.secret \in Secret /\ Locked
      /\ req[t].secret \in Secret /\ req[t].op \in {"createVolume", "deleteVolume"}
      /\ IsSystem(req[t].secret, local[t].system)
      /\ SameArrays(req[t].secret, array.secret)
      /\ local[t].storage = StorageIn(req[t].secret, local[t].system)
  <2>1. RoutingInv' /\ TableTyped /\ Routed(t) /\ Settles(t) /\ array.secret \in Secret /\ Locked
    BY ServeRequestKeeps, VolumesKnow
  <2> QED
    BY <1>1, <2>1 DEF Routed, RoutedRequest
<1> DEFINE s == local[t].storage
           volume == IF req[t].uid = None THEN [name |-> req[t].name, storage |-> s]
                       ELSE req[t].uid.volume
           volumes == IF req[t].op = "createVolume" THEN array.volumes \union {volume}
                        ELSE IF volume.storage = s THEN array.volumes \ {volume} ELSE array.volumes
<1>3. CASE Reject(t)
  BY <1>1, <1>2, <1>3, TableStays, VolumesFreed DEF Reject
<1>4. CASE Fault /\ Return(t) /\ UNCHANGED <<array, memory, known>>
  BY <1>1, <1>2, <1>4, TableStays, VolumesFreed
<1>5. ASSUME s \in Storage, local[t].agent.type = TypeOfStorage(s),
             array' = [array EXCEPT !.volumes = volumes],
             Continue(t, "answer"), UNCHANGED <<memory, known>>
      PROVE  VolumesInv'
  <2>1. /\ array'.volumes = volumes /\ array'.secret = array.secret
    BY <1>5, VolumesKnow DEF RoutingTyped
  <2>2. /\ pc'[t] = "answer" /\ req'[t] = req[t] /\ local'[t] = local[t] /\ known' = known
    BY <1>1, <1>2, <1>5, ContinueMoves
  <2>3. CASE req[t].op = "createVolume"
    <3>1. volume = VolumeFor(t) /\ volumes = array.volumes \union {VolumeFor(t)}
      BY <1>1, <1>2, <2>3 DEF Routed, VolumeFor
    <3>2. \A d \in known.deleting : d.volume # VolumeFor(t)
      BY <1>1, <1>2, <2>3 DEF Settles, VolumeFor
    <3>3. Settles(t)'
      BY <1>1, <1>2, <1>5, <2>1, <2>2, <2>3, <3>1 DEF Settles, VolumeFor
    <3>4. ToldThere' /\ GoneAway'
      BY <2>1, <2>2, <3>1, <3>2, VolumesKnow DEF ToldThere, GoneAway, RoutedWorld
    <3>5. /\ VolumeFor(t).name = req[t].name /\ VolumeFor(t).storage = s
          /\ req[t].zone = known.zone[req[t].name]
          /\ None \in DOMAIN array.secret \/ req[t].zone # None
          /\ local[t].system = Site(req[t].secret, req[t].zone)
          /\ ~ known.moved => SameZones(req[t].secret, array.secret)
      BY <1>1, <1>2, <2>3 DEF Settles, VolumeFor
    <3>6. ASSUME ~ known.moved
          PROVE  s = HomeOf(req[t].name) /\ IsSystem(array.secret, Site(array.secret, known.zone[req[t].name]))
      <4>1. Site(req[t].secret, req[t].zone) = Site(array.secret, req[t].zone)
        BY <1>2, <3>5, <3>6, SameSites
      <4> QED
        BY <1>2, <3>5, <4>1, SystemHasEntry DEF HomeOf
    <3>7. AtHome'
      BY <2>1, <2>2, <3>1, <3>5, <3>6, VolumesKnow DEF AtHome, HomeOf
    <3>8. RoutedWorld'
      BY <2>1, <2>2, <3>4, <3>7, VolumesKnow DEF RoutedWorld
    <3>9. ASSUME NEW u \in Threads \ {t}, pc[u] = "answer", req[u].op = "deleteVolume"
          PROVE  req[u].uid \in known.deleting
      BY <3>9, VolumesKnow DEF Settles
    <3> QED
      BY <1>1, <1>2, <1>5, <2>1, <3>1, <3>2, <3>3, <3>8, <3>9, OthersSettle
  <2>4. CASE req[t].op = "deleteVolume"
    <3>1. req[t].uid \in known.deleting /\ req[t].uid # None
      <4>1. req[t].uid \in known.deleting /\ req[t].uid \in known.told
        BY <1>1, <1>2, <2>4 DEF Routed, Settles
      <4> QED
        BY <4>1, RoutingAssumption, VolumesKnow DEF RoutingTyped
    <3>2. volume = req[t].uid.volume /\ volumes = array.volumes \ {req[t].uid.volume}
      BY <1>1, <1>2, <2>4, <3>1 DEF Routed
    <3>3. Settles(t)'
      BY <1>1, <1>2, <1>5, <2>1, <2>2, <2>4, <3>1, <3>2 DEF Settles, VolumeFor
    <3>4. ToldThere' /\ GoneAway'
      BY <2>1, <2>2, <3>1, <3>2, VolumesKnow DEF ToldThere, GoneAway, RoutedWorld
    <3>5. AtHome'
      BY <2>1, <2>2, <3>2, VolumesKnow DEF AtHome, HomeOf
    <3>6. RoutedWorld'
      BY <2>1, <2>2, <3>4, <3>5, VolumesKnow DEF RoutedWorld
    <3>7. ASSUME NEW u \in Threads \ {t}, pc[u] = "answer", req[u].op = "createVolume"
          PROVE  VolumeFor(u) # req[t].uid.volume
      <4>1. \A d \in known.deleting : d.volume.name # req[u].name
        BY <3>7, VolumesKnow DEF Settles
      <4> QED
        BY <3>1, <4>1 DEF VolumeFor
    <3> QED
      BY <1>1, <1>2, <1>5, <2>1, <3>2, <3>3, <3>6, <3>7, OthersSettle
  <2> QED
    BY <1>2, <2>3, <2>4
<1>6. s \in Storage
  BY <1>2, SystemHasEntry
<1> HIDE DEF volumes
<1>7. \/ Reject(t)
      \/ Fault /\ Return(t) /\ UNCHANGED <<array, memory, known>>
      \/ /\ local[t].agent.type = TypeOfStorage(s)
         /\ array' = [array EXCEPT !.volumes = volumes]
         /\ Continue(t, "answer") /\ UNCHANGED <<memory, known>>
  BY Zenon DEF ServeRequest, volumes
<1> QED
  BY <1>3, <1>4, <1>5, <1>6, <1>7

LEMMA AnswerSettles ==
  ASSUME VolumesInv, NEW t \in Threads, AnswerRouted(t)
  PROVE  VolumesInv'
<1>1. pc[t] = "answer" /\ Return(t) /\ UNCHANGED <<array, memory>>
  BY DEF AnswerRouted, At
<1>2. /\ RoutingInv' /\ TableTyped /\ Routed(t) /\ Settles(t) /\ Locked
      /\ req[t].op \in {"createVolume", "deleteVolume"} /\ SameArrays(req[t].secret, array.secret)
  <2>1. RoutingInv' /\ TableTyped /\ Routed(t) /\ Settles(t) /\ Locked
    BY AnswerRoutedKeeps, VolumesKnow
  <2> QED
    BY <1>1, <2>1 DEF Routed, RoutedRequest
<1>3. Alone(t) /\ pc'[t] = "idle" /\ local'[t] = None
  BY <1>1, <1>2, ReturnMoves
<1> DEFINE id == [type |-> local[t].agent.type, system |-> local[t].system,
                  volume |-> [name |-> req[t].name, storage |-> local[t].storage]]
<1>4. \/ /\ req[t].op = "deleteVolume" /\ known'.told = known.told
         /\ known'.gone = known.gone \union {req[t].uid}
      \/ /\ req[t].op = "createVolume" /\ known'.told = known.told \union {id}
         /\ known'.gone = known.gone
  BY <1>2, VolumesKnow DEF AnswerRouted, RoutingTyped
<1>5. /\ known'.zone = known.zone /\ known'.deleting = known.deleting
      /\ known'.changes = known.changes /\ known'.moved = known.moved
  BY VolumesKnow DEF AnswerRouted, RoutingTyped
<1>6. id.volume = VolumeFor(t) /\ id.type = local[t].agent.type /\ id.system = local[t].system
  BY DEF VolumeFor
<1> HIDE DEF id
<1>7. ASSUME req[t].op = "createVolume"
      PROVE  /\ id.type = TypeOfStorage(id.volume.storage)
             /\ None \in DOMAIN array.secret => id.system = None
             /\ id.volume \in array.volumes
  <2>1. /\ local[t].agent.type = TypeOfStorage(local[t].storage)
        /\ local[t].system = Site(req[t].secret, req[t].zone) /\ VolumeFor(t) \in array.volumes
    BY <1>1, <1>2, <1>7 DEF Settles
  <2>2. DOMAIN req[t].secret = DOMAIN array.secret
    BY <1>2 DEF SameArrays
  <2> QED
    BY <1>6, <2>1, <2>2 DEF Site, VolumeFor
<1>8. ToldThere'
  BY <1>1, <1>4, <1>5, <1>7, VolumesKnow DEF ToldThere
<1>9. GoneAway' /\ known'.gone \subseteq known'.deleting
  <2>1. req[t].op = "deleteVolume" => req[t].uid \in known.deleting /\ req[t].uid.volume \notin array.volumes
    BY <1>1, <1>2 DEF Settles
  <2> QED
    BY <1>1, <1>4, <1>5, <2>1, VolumesKnow DEF GoneAway, RoutedWorld
<1>10. AtHome'
  BY <1>1, <1>5, VolumesKnow DEF AtHome, HomeOf
<1>11. known'.deleting \subseteq known'.told
  BY <1>4, <1>5, VolumesKnow DEF RoutedWorld
<1>12. RoutedWorld'
  BY <1>1, <1>5, <1>8, <1>9, <1>10, <1>11, VolumesKnow DEF RoutedWorld
<1>13. ASSUME NEW u \in Threads
       PROVE  Settles(u)'
  <2>1. CASE u = t
    BY <1>3, <2>1 DEF Settles
  <2>2. CASE u # t
    <3>1. pc'[u] = pc[u] /\ req'[u] = req[u] /\ local'[u] = local[u] /\ Settles(u)
      BY <1>3, <2>2, VolumesKnow DEF Alone
    <3> QED
      BY <1>1, <1>5, <3>1 DEF Settles, VolumeFor
  <2> QED
    BY <2>1, <2>2
<1> QED
  BY <1>1, <1>2, <1>12, <1>13, TableStays DEF VolumesInv

LEMMA CallRoutingSettles ==
  ASSUME VolumesInv, NEW t \in Threads, CallRouting(t)
  PROVE  VolumesInv'
<1>1. /\ RoutingInv' /\ Locked /\ TableTyped /\ RoutingTyped /\ RoutedWorld
      /\ \A u \in Threads : Settles(u) /\ (pc[u] = "idle" <=> req[u] = None)
  BY CallRoutingKeeps, VolumesKnow
<1>2. ASSUME NEW r \in RoutedRequest, Enter(t, r, "choose", NoRoute), RoutedWorld',
             r.op = "createVolume" =>
               /\ r.secret = array.secret /\ r.zone = known'.zone[r.name]
               /\ None \in DOMAIN array.secret \/ r.zone # None
               /\ \A d \in known'.deleting : d.volume.name # r.name,
             r.op = "deleteVolume" => r.uid \in known'.deleting,
             known'.moved = known.moved, known.deleting \subseteq known'.deleting,
             \A u \in Threads \ {t} : pc[u] # "idle" /\ req[u].op = "createVolume" =>
               /\ known'.zone[req[u].name] = known.zone[req[u].name]
               /\ \A d \in known'.deleting \ known.deleting : d.volume.name # req[u].name
      PROVE  VolumesInv'
  <2>1. r # None
    BY RoutingAssumption
  <2>2. /\ Alone(t) /\ pc'[t] = "choose" /\ req'[t] = r
        /\ UNCHANGED <<array, memory>>
    <3>1. Locked /\ Enter(t, r, "choose", NoRoute)
      BY <1>1, <1>2
    <3> QED
      BY <2>1, <3>1, EnterMoves
  <2>3. Settles(t)'
    BY <1>2, <2>2 DEF Settles, SameZones
  <2>4. ASSUME NEW u \in Threads, u # t
        PROVE  Settles(u)'
    <3>1. pc'[u] = pc[u] /\ req'[u] = req[u] /\ local'[u] = local[u] /\ Settles(u)
      BY <1>1, <2>2, <2>4 DEF Alone
    <3>2. CASE pc[u] = "idle"
      BY <3>1, <3>2 DEF Settles
    <3>3. CASE pc[u] # "idle"
      BY <1>2, <2>2, <2>4, <3>1, <3>3 DEF Settles, VolumeFor
    <3> QED
      BY <3>2, <3>3
  <2> QED
    BY <1>1, <1>2, <2>2, <2>3, <2>4, TableStays DEF VolumesInv
<1>3. ASSUME NEW n \in RoutedNames, NEW z \in Zones \union {None},
             z = None <=> None \in DOMAIN array.secret,
             known.zone[n] \in {None, z},
             \A id \in known.deleting : id.volume.name # n,
             Enter(t, [op |-> "createVolume", name |-> n, uid |-> None, zone |-> z,
                       secret |-> array.secret], "choose", NoRoute),
             known' = [known EXCEPT !.zone[n] = z]
      PROVE  VolumesInv'
  <2> DEFINE r == [op |-> "createVolume", name |-> n, uid |-> None, zone |-> z, secret |-> array.secret]
  <2>1. r \in RoutedRequest
    BY <1>1 DEF RoutedRequest, RoutingTyped
  <2>2. array' = array
    BY <1>3 DEF Enter
  <2>3. /\ known'.zone = [known.zone EXCEPT ![n] = z] /\ known'.told = known.told
        /\ known'.deleting = known.deleting /\ known'.gone = known.gone
        /\ known'.changes = known.changes /\ known'.moved = known.moved
    BY <1>1, <1>3 DEF RoutingTyped
  <2>4. known'.zone[n] = z /\ \A m \in RoutedNames : m = n \/ known'.zone[m] = known.zone[m]
    BY <1>1, <2>3 DEF RoutingTyped
  <2>5. \A m \in RoutedNames : known.zone[m] # None \/ None \in DOMAIN array.secret =>
                                 known'.zone[m] = known.zone[m]
    BY <1>3, <2>4
  <2>6. ASSUME NEW v \in array.volumes
        PROVE  known'.zone[v.name] = known.zone[v.name]
    <3>1. v.name \in RoutedNames
      BY <1>1 DEF RoutingTyped, RoutedVolume
    <3>2. None \in DOMAIN array.secret \/ known.zone[v.name] # None
      BY <1>1 DEF RoutedWorld, AtHome
    <3> QED
      BY <2>5, <3>1, <3>2
  <2>7. AtHome'
    BY <1>1, <2>2, <2>3, <2>6 DEF AtHome, HomeOf, RoutedWorld
  <2>8. RoutedWorld'
    BY <1>1, <2>2, <2>3, <2>7 DEF RoutedWorld, ToldThere, GoneAway
  <2>9. ASSUME NEW u \in Threads \ {t}, pc[u] # "idle", req[u].op = "createVolume"
        PROVE  known'.zone[req[u].name] = known.zone[req[u].name]
    <3>1. Routed(u) /\ Settles(u)
      BY VolumesKnow
    <3>2. req[u].name \in RoutedNames
      BY <2>9, <3>1 DEF Routed, RoutedRequest
    <3>3. None \in DOMAIN array.secret \/ known.zone[req[u].name] # None
      BY <2>9, <3>1 DEF Settles
    <3> QED
      BY <2>5, <3>2, <3>3
  <2>10. r.op = "createVolume" /\ r.name = n /\ r.zone = z /\ r.secret = array.secret
    OBVIOUS
  <2>11. Enter(t, r, "choose", NoRoute)
    BY <1>3
  <2> HIDE DEF r
  <2> QED
    BY <1>2, <1>3, <2>1, <2>3, <2>4, <2>8, <2>9, <2>10, <2>11
<1>4. ASSUME NEW id \in known.told \ known.gone,
             \A o \in Threads : req[o] # None => req[o].op = "deleteVolume" \/ req[o].name # id.volume.name,
             Enter(t, [op |-> "deleteVolume", name |-> id.volume.name, uid |-> id, zone |-> None,
                       secret |-> array.secret], "choose", NoRoute),
             known' = [known EXCEPT !.deleting = @ \union {id}]
      PROVE  VolumesInv'
  <2> DEFINE r == [op |-> "deleteVolume", name |-> id.volume.name, uid |-> id, zone |-> None,
                   secret |-> array.secret]
  <2>1. r \in RoutedRequest
    <3>1. id \in RoutedId /\ id.volume.name \in RoutedNames
      BY <1>1 DEF RoutingTyped, RoutedId, RoutedVolume
    <3> QED
      BY <1>1, <3>1 DEF RoutedRequest, RoutingTyped
  <2>2. array' = array
    BY <1>4 DEF Enter
  <2>3. /\ known'.zone = known.zone /\ known'.told = known.told
        /\ known'.deleting = known.deleting \union {id} /\ known'.gone = known.gone
        /\ known'.changes = known.changes /\ known'.moved = known.moved
    BY <1>1, <1>4 DEF RoutingTyped
  <2>4. AtHome' /\ GoneAway' /\ ToldThere'
    BY <1>1, <2>2, <2>3 DEF AtHome, HomeOf, RoutedWorld, ToldThere, GoneAway
  <2>5. RoutedWorld'
    BY <1>1, <1>4, <2>2, <2>3, <2>4 DEF RoutedWorld
  <2>6. ASSUME NEW u \in Threads \ {t}, pc[u] # "idle", req[u].op = "createVolume"
        PROVE  id.volume.name # req[u].name
    BY <1>1, <1>4, <2>6
  <2>7. r.op = "deleteVolume" /\ r.uid = id
    OBVIOUS
  <2>8. Enter(t, r, "choose", NoRoute)
    BY <1>4
  <2> HIDE DEF r
  <2> QED
    BY <1>2, <2>1, <2>3, <2>5, <2>6, <2>7, <2>8
<1> QED
  BY <1>3, <1>4, Zenon DEF CallRouting

(* A change of the user's leaves the systems' arrays, and says so when it  *)
(* changes a topology.                                                     *)
LEMMA ChangeIs ==
  ASSUME RoutingTyped, ChangeRouting
  PROVE  /\ UNCHANGED <<service, ids_in_use, pc, req, local, memory, failures>>
         /\ array'.volumes = array.volumes
         /\ SameArrays(array.secret, array'.secret)
         /\ known.changes < MaxChanges /\ known'.changes = known.changes + 1
         /\ known'.zone = known.zone /\ known'.told = known.told
         /\ known'.deleting = known.deleting /\ known'.gone = known.gone
         /\ ~ known'.moved => ~ known.moved /\ SameZones(array.secret, array'.secret)
<1>1. PICK k \in DOMAIN array.secret :
        /\ \/ \E f : array' = [array EXCEPT !.secret[k] = f] /\ f.storage = array.secret[k].storage
           \/ \E s, p : array' = [array EXCEPT !.password[s] = p]
        /\ known' = [known EXCEPT !.changes = @ + 1,
             !.moved = @ \/ (array'.secret[k].zones # array.secret[k].zones)]
  <2>1. PICK k \in DOMAIN array.secret :
          LET e == array.secret[k]
              become(f) == array' = [array EXCEPT !.secret[k] = f]
          IN  /\ \/ \E p \in Passwords \ {e.password} :
                      \/ become([e EXCEPT !.password = p])
                      \/ array' = [array EXCEPT !.password[e.storage] = p]
                 \/ k # None /\ \E z \in (SUBSET Zones) \ {{}, e.zones} : become([e EXCEPT !.zones = z])
                 \/ become([e EXCEPT !.complete = ~ @])
              /\ known' = [known EXCEPT !.changes = @ + 1,
                   !.moved = @ \/ (array'.secret[k].zones # e.zones)]
    BY Zenon DEF ChangeRouting
  <2> DEFINE e == array.secret[k]
  <2>2. e \in Entry
    BY DEF RoutingTyped, Secret
  <2>3. /\ \A p : [e EXCEPT !.password = p].storage = e.storage
        /\ \A z : [e EXCEPT !.zones = z].storage = e.storage
        /\ [e EXCEPT !.complete = ~ @].storage = e.storage
    BY <2>2 DEF Entry
  <2>4. \/ \E p : array' = [array EXCEPT !.secret[k] = [e EXCEPT !.password = p]]
        \/ \E p : array' = [array EXCEPT !.password[e.storage] = p]
        \/ \E z : array' = [array EXCEPT !.secret[k] = [e EXCEPT !.zones = z]]
        \/ array' = [array EXCEPT !.secret[k] = [e EXCEPT !.complete = ~ @]]
    BY <2>1
  <2>5. known' = [known EXCEPT !.changes = @ + 1,
                    !.moved = @ \/ (array'.secret[k].zones # e.zones)]
    BY <2>1
  <2> HIDE DEF e
  <2>6. \/ \E f : array' = [array EXCEPT !.secret[k] = f] /\ f.storage = e.storage
        \/ \E s, p : array' = [array EXCEPT !.password[s] = p]
    <3>1. ASSUME NEW f, array' = [array EXCEPT !.secret[k] = f], f.storage = e.storage
          PROVE  \E g : array' = [array EXCEPT !.secret[k] = g] /\ g.storage = e.storage
      BY <3>1
    <3> QED
      BY <2>3, <2>4, <3>1
  <2> USE DEF e
  <2> QED
    BY Zenon, <2>5, <2>6
<1>2. /\ array'.volumes = array.volumes /\ DOMAIN array'.secret = DOMAIN array.secret
      /\ array'.secret[k].storage = array.secret[k].storage
      /\ \A j \in DOMAIN array.secret : j = k \/ array'.secret[j] = array.secret[j]
  <2>1. ASSUME NEW f, array' = [array EXCEPT !.secret[k] = f], f.storage = array.secret[k].storage
        PROVE  /\ array'.volumes = array.volumes /\ DOMAIN array'.secret = DOMAIN array.secret
               /\ array'.secret[k].storage = array.secret[k].storage
               /\ \A j \in DOMAIN array.secret : j = k \/ array'.secret[j] = array.secret[j]
    <3> DEFINE secret == [array.secret EXCEPT ![k] = f]
    <3>1. /\ DOMAIN secret = DOMAIN array.secret /\ secret[k] = f
          /\ \A j \in DOMAIN array.secret : j = k \/ secret[j] = array.secret[j]
      OBVIOUS
    <3>2. array' = [array EXCEPT !.secret = secret]
      BY <2>1
    <3> HIDE DEF secret
    <3>3. array'.volumes = array.volumes /\ array'.secret = secret
      BY <3>2 DEF RoutingTyped
    <3> QED
      BY <2>1, <3>1, <3>3
  <2>2. ASSUME NEW s, NEW p, array' = [array EXCEPT !.password[s] = p]
        PROVE  array'.volumes = array.volumes /\ array'.secret = array.secret
    BY <2>2 DEF RoutingTyped
  <2> QED
    BY <1>1, <2>1, <2>2
<1> DEFINE moved == known.moved \/ (array'.secret[k].zones # array.secret[k].zones)
<1>3. /\ known'.changes = known.changes + 1 /\ known'.moved = moved
      /\ known'.zone = known.zone /\ known'.told = known.told
      /\ known'.deleting = known.deleting /\ known'.gone = known.gone
  <2> DEFINE changed == [known EXCEPT !.changes = @ + 1]
  <2>1. changed \in [zone : {known.zone}, told : {known.told}, deleting : {known.deleting},
                     gone : {known.gone}, changes : {known.changes + 1}, moved : {known.moved}]
    BY DEF RoutingTyped
  <2>2. known' = [changed EXCEPT !.moved = moved]
    BY Zenon, <1>1
  <2> HIDE DEF moved, changed
  <2> QED
    BY <2>1, <2>2
<1>4. SameArrays(array.secret, array'.secret)
  BY <1>2 DEF SameArrays
<1>5. ~ known'.moved => ~ known.moved /\ SameZones(array.secret, array'.secret)
  BY <1>2, <1>3 DEF SameZones
<1>6. known.changes < MaxChanges /\ UNCHANGED <<service, ids_in_use, pc, req, local, memory, failures>>
  BY DEF ChangeRouting
<1> QED
  BY <1>2, <1>3, <1>4, <1>5, <1>6

LEMMA ChangeSettles ==
  ASSUME VolumesInv, ChangeRouting
  PROVE  VolumesInv'
<1>1. /\ RoutingInv' /\ RoutingTyped /\ RoutedWorld /\ TableTyped
      /\ \A u \in Threads : Settles(u) /\ Routed(u)
      /\ array.secret \in Secret
  BY ChangeRoutingKeeps, VolumesKnow
<1>2. /\ UNCHANGED <<pc, req, local, memory>>
      /\ array'.volumes = array.volumes
      /\ SameArrays(array.secret, array'.secret)
      /\ known'.changes = known.changes + 1 /\ known.changes < MaxChanges
      /\ known'.zone = known.zone /\ known'.told = known.told
      /\ known'.deleting = known.deleting /\ known'.gone = known.gone
      /\ ~ known'.moved => ~ known.moved /\ SameZones(array.secret, array'.secret)
  BY <1>1, ChangeIs
<1>3. /\ DOMAIN array'.secret = DOMAIN array.secret
      /\ \A k \in DOMAIN array.secret : array'.secret[k].storage = array.secret[k].storage
  BY <1>2 DEF SameArrays
<1>4. ASSUME NEW v \in array.volumes, ~ known'.moved
      PROVE  /\ v.storage = StorageIn(array'.secret, Site(array'.secret, known.zone[v.name]))
             /\ IsSystem(array'.secret, Site(array'.secret, known.zone[v.name]))
  <2> DEFINE y == Site(array.secret, known.zone[v.name])
  <2>1. v.storage = StorageIn(array.secret, y) /\ IsSystem(array.secret, y)
    BY <1>1, <1>2, <1>4 DEF RoutedWorld, AtHome, HomeOf
  <2>2. Site(array'.secret, known.zone[v.name]) = y
    BY <1>2, <1>4, SameSites
  <2> HIDE DEF y
  <2>3. StorageIn(array'.secret, y) = StorageIn(array.secret, y) /\ IsSystem(array'.secret, y)
    BY <1>1, <1>2, <2>1, SystemHasEntry
  <2> QED
    BY <2>1, <2>2, <2>3
<1>5. AtHome'
  BY <1>1, <1>2, <1>3, <1>4 DEF AtHome, HomeOf, RoutedWorld
<1>6. ToldThere' /\ GoneAway'
  BY <1>1, <1>2, <1>3 DEF ToldThere, GoneAway, RoutedWorld
<1>7. \A k \in Systems : k \in DOMAIN array'.secret => array'.secret[k].storage = StorageOf[k]
  BY <1>1, <1>3 DEF RoutedWorld
<1>8. known'.changes <= MaxChanges
  BY <1>1, <1>2, RoutingAssumption DEF RoutingTyped
<1>9. RoutedWorld'
  BY <1>1, <1>2, <1>5, <1>6, <1>7, <1>8 DEF RoutedWorld
<1>10. ASSUME NEW u \in Threads
       PROVE  Settles(u)'
  <2>1. CASE pc[u] = "idle"
    BY <1>1, <1>2, <2>1 DEF Settles
  <2>2. CASE pc[u] # "idle"
    <3>1. Settles(u) /\ SameArrays(req[u].secret, array.secret)
      BY <1>1, <2>2 DEF Routed
    <3>2. ~ known.moved /\ SameZones(req[u].secret, array.secret) /\ ~ known'.moved =>
            SameZones(req[u].secret, array'.secret)
      BY <1>2, <3>1 DEF SameArrays, SameZones
    <3> QED
      BY <1>2, <1>3, <2>2, <3>1, <3>2 DEF Settles, VolumeFor
  <2> QED
    BY <2>1, <2>2
<1> QED
  BY <1>1, <1>2, <1>9, <1>10, TableStays DEF VolumesInv

LEMMA CrashSettles ==
  ASSUME VolumesInv, Crash
  PROVE  VolumesInv'
<1>1. RoutingInv' /\ RoutedWorld
  BY CrashKeepsRouting, VolumesKnow
<1>2. /\ UNCHANGED <<array, known>> /\ DOMAIN memory' = {}
      /\ \A t \in Threads : pc'[t] = "idle" /\ local'[t] = None
  BY DEF Crash
<1>3. RoutedWorld'
  BY <1>1, <1>2 DEF RoutedWorld, ToldThere, GoneAway, AtHome, HomeOf
<1> QED
  BY <1>1, <1>2, <1>3 DEF VolumesInv, TableTyped, Settles

LEMMA InitVolumesInv ==
  ASSUME InitRouting
  PROVE  VolumesInv
<1>1. RoutingInv
  BY InitRoutingInv
<1>2. /\ memory = <<>> /\ \A t \in Threads : pc[t] = "idle" /\ local[t] = None
      /\ known = [zone |-> [n \in RoutedNames |-> None], told |-> {}, deleting |-> {}, gone |-> {},
                  changes |-> 0, moved |-> FALSE]
  BY DEF InitRouting, InitService
<1>3. /\ array.volumes = {}
      /\ \A k \in Systems : k \in DOMAIN array.secret => array.secret[k].storage = StorageOf[k]
  <2>1. PICK secret \in Secret :
          /\ \A k \in DOMAIN secret : k \in Systems => secret[k].storage = StorageOf[k]
          /\ \E password : array = [secret |-> secret, volumes |-> {}, password |-> password]
    BY DEF InitRouting
  <2> QED
    BY <2>1
<1>4. DOMAIN memory = {}
  BY <1>2
<1>5. RoutedWorld
  BY <1>2, <1>3, RoutingAssumption DEF RoutedWorld, ToldThere, GoneAway, AtHome
<1> QED
  BY <1>1, <1>2, <1>4, <1>5 DEF VolumesInv, TableTyped, Settles

LEMMA VolumesStep ==
  ASSUME VolumesInv, RoutingNext
  PROVE  VolumesInv'
  BY ChangeSettles, CallRoutingSettles, ChooseSettles, GetAgentSettles, ServeRequestSettles,
     AnswerSettles DEF RoutingNext

(* The systems of a config are different arrays.                           *)
SystemsApart == \A j, k \in Systems : StorageOf[j] = StorageOf[k] => j = k

LEMMA ToldOnce ==
  ASSUME VolumesInv, SystemsApart, NEW id \in known.told, NEW d \in known.told, d.volume = id.volume
  PROVE  d = id
<1>1. /\ RoutingTyped /\ ToldInv /\ ToldThere /\ array.secret \in Secret
      /\ \A k \in Systems : k \in DOMAIN array.secret => array.secret[k].storage = StorageOf[k]
  BY VolumesKnow DEF RoutedWorld
<1>2. d.type = id.type
  BY <1>1 DEF ToldThere
<1>3. d.system = id.system
  <2>1. CASE None \in DOMAIN array.secret
    BY <1>1, <2>1 DEF ToldThere
  <2>2. CASE None \notin DOMAIN array.secret
    <3>1. /\ id.system \in Systems /\ d.system \in Systems
          /\ array.secret[id.system].storage = array.secret[d.system].storage
      BY <1>1, <2>2 DEF ToldInv, IsSystem, StorageIn
    <3>2. DOMAIN array.secret = Systems
      BY <1>1, <2>2 DEF Secret
    <3> QED
      BY <1>1, <3>1, <3>2 DEF SystemsApart
  <2> QED
    BY <2>1, <2>2
<1>4. id \in RoutedId /\ d \in RoutedId
  BY <1>1 DEF RoutingTyped
<1> QED
  BY <1>2, <1>3, <1>4 DEF RoutedId

LEMMA VolumesMean ==
  ASSUME VolumesInv, service = "routing"
  PROVE  /\ TypeOK /\ ReportedAsAsked /\ DeletedIsGone /\ NameOnce
         /\ SystemsApart => ReportedStays
<1>1. /\ RoutingTyped /\ Locked /\ RoutedWorld /\ TableTyped /\ array.secret \in Secret
      /\ \A t \in Threads : Settles(t) /\ Routed(t) /\ (pc[t] = "idle" <=> req[t] = None)
  BY VolumesKnow
<1>2. service \notin ObjectServices
  BY DEF ObjectServices
<1>3. TypeOK
  <2>1. ASSUME NEW t \in Threads
        PROVE  /\ pc[t] \in RoutingPlace
               /\ req[t] \in RoutedRequest \union {None} /\ local[t] \in RoutedMemo \union {None}
    BY <1>1 DEF Routed, Settles, RoutingPlace
  <2>2. RoutingTypeOK
    BY <1>1, <2>1 DEF RoutingTypeOK, RoutingTyped, RoutedWorld, TableTyped
  <2>3. ids_in_use = {LockOf(req[t]) : t \in {x \in Threads : req[x] # None}}
    BY <1>1 DEF Locked
  <2> QED
    BY <2>2, <2>3 DEF TypeOK
<1>4. DeletedIsGone
  BY <1>1, <1>2 DEF DeletedIsGone, RoutedWorld, GoneAway
<1>5. NameOnce
  <2>1. ASSUME ~ known.moved, NEW v \in array.volumes, NEW w \in array.volumes, v.name = w.name
        PROVE  v = w
    <3>1. v.storage = w.storage
      BY <1>1, <2>1 DEF RoutedWorld, AtHome
    <3> QED
      BY <1>1, <2>1, <3>1 DEF RoutingTyped, RoutedVolume
  <2> QED
    BY <1>2, <2>1 DEF NameOnce
<1>6. SystemsApart => ReportedStays
  <2>1. ASSUME SystemsApart, NEW id \in known.told \ known.deleting
        PROVE  id.volume \in array.volumes
    <3>1. \A d \in known.deleting : d.volume # id.volume
      BY <1>1, <2>1, ToldOnce DEF RoutedWorld
    <3> QED
      BY <1>1, <2>1, <3>1 DEF RoutedWorld, ToldThere
  <2> QED
    BY <1>2, <2>1 DEF ReportedStays
<1>7. ReportedAsAsked
  BY <1>2 DEF ReportedAsAsked
<1> QED
  BY <1>3, <1>4, <1>5, <1>6, <1>7

-----------------------------------------------------------------------------
(* Every service, and what nothing changes.                                *)

LEMMA StutterKeepsSolidFire ==
  ASSUME SolidFireInv, UNCHANGED vars
  PROVE  SolidFireInv'
<1>1. /\ UNCHANGED <<service, pc, req, local, array, memory, known, failures>> /\ ObjectsInv'
      /\ \A u \in Ids : Obj(u)'
  BY StutterKeepsObjects DEF SolidFireInv, SolidFireWorld, vars
<1>2. SolidFireWorld'
  BY <1>1 DEF SolidFireInv, SolidFireWorld, Exists, object
<1>3. ASSUME NEW t \in Threads
      PROVE  SolidFireHand(t)'
  BY <1>1 DEF SolidFireInv, SolidFireHand, Creates, Deletes, Expands, IsCopy, IsLarge, Named, Exists, object
<1> QED
  BY <1>1, <1>2, <1>3 DEF SolidFireInv

LEMMA StutterKeepsPartition ==
  ASSUME PartitionInv, UNCHANGED vars
  PROVE  PartitionInv'
<1>1. /\ UNCHANGED <<service, pc, req, local, array, memory, known, failures>> /\ ObjectsInv'
      /\ \A u \in Ids : Obj(u)'
  BY StutterKeepsObjects DEF PartitionInv, PartitionWorld, vars
<1>2. PartitionWorld'
  BY <1>1 DEF PartitionInv, PartitionWorld, Exists, object
<1>3. ASSUME NEW t \in Threads
      PROVE  PartitionHand(t)'
  BY <1>1 DEF PartitionInv, PartitionHand, Creates, Deletes, Expands, Makes, Exists, object
<1> QED
  BY <1>1, <1>2, <1>3 DEF PartitionInv

LEMMA StutterKeepsXIV ==
  ASSUME XIVInv, UNCHANGED vars
  PROVE  XIVInv'
<1>1. /\ UNCHANGED <<service, pc, req, local, array, memory, known, failures>> /\ ObjectsInv'
      /\ \A u \in Ids : Obj(u)'
  BY StutterKeepsObjects DEF XIVInv, XIVWorld, vars
<1>2. ASSUME NEW u \in Ids
      PROVE  XIVData(u)'
  BY <1>1 DEF XIVInv, XIVWorld, XIVData, Exists, object
<1>3. XIVWorld'
  BY <1>1, <1>2 DEF XIVInv, XIVWorld, XIVArray, Exists, object
<1>4. ASSUME NEW t \in Threads
      PROVE  XIVHand(t)'
  BY <1>1 DEF XIVInv, XIVHand, Creates, Deletes, Expands, Makes, IsCopy, SnapshotsOf, Exists, object
<1> QED
  BY <1>1, <1>3, <1>4 DEF XIVInv

LEMMA StutterKeepsFunction ==
  ASSUME FunctionInv, UNCHANGED vars
  PROVE  FunctionInv'
<1>1. /\ UNCHANGED <<service, pc, req, local, array, memory, known, failures>> /\ ObjectsInv'
      /\ \A u \in Ids : Obj(u)'
  BY StutterKeepsObjects DEF FunctionInv, FunctionWorld, vars
<1>2. FunctionApart' /\ FunctionTemporary' /\ MadeApart'
  BY <1>1 DEF FunctionInv, FunctionWorld, FunctionApart, FunctionTemporary, MadeApart, Makes, Creates,
     Exists, object
<1>3. FunctionWorld'
  BY <1>1, <1>2 DEF FunctionInv, FunctionWorld, FunctionArray, FunctionData, Exists, object
<1>4. ASSUME NEW t \in Threads
      PROVE  FunctionHand(t)'
  BY <1>1 DEF FunctionInv, FunctionHand, Creates, Deletes, Expands, Makes, IsCopy, Named, Exists, object
<1> QED
  BY <1>1, <1>2, <1>3, <1>4 DEF FunctionInv

LEMMA StutterKeepsSANtricity ==
  ASSUME SANtricityInv, UNCHANGED vars
  PROVE  SANtricityInv'
<1>1. /\ UNCHANGED <<service, pc, req, local, array, memory, known, failures>> /\ ObjectsInv'
      /\ \A u \in Ids : Obj(u)'
  BY StutterKeepsObjects DEF SANtricityInv, SANtricityWorld, vars
<1>2. SANtricityApart' /\ SinceInv' /\ SANtricityMade'
  BY <1>1 DEF SANtricityInv, SANtricityWorld, SANtricityApart, SinceInv, SANtricityMade, HasMade, Makes,
     Creates, Exists, object
<1>3. ASSUME NEW u \in Ids
      PROVE  SANtricityData(u)' /\ GroupData(u)'
  <2>1. SANtricityData(u) /\ GroupData(u)
    BY DEF SANtricityInv, SANtricityWorld
  <2>2. SANtricityData(u)'
    BY <1>1, <2>1 DEF SANtricityData, Young, Exists, object
  <2>3. GroupData(u)'
    BY <1>1, <2>1 DEF GroupData, Exists, object
  <2> QED
    BY <2>2, <2>3
<1>4. SANtricityWorld'
  BY <1>1, <1>2, <1>3 DEF SANtricityInv, SANtricityWorld, SANtricityArray
<1>5. ASSUME NEW t \in Threads
      PROVE  SANtricityHand(t)'
  BY <1>1 DEF SANtricityInv, SANtricityHand, Creates, Deletes, Expands, Makes, IsCopy, Young, Exists, object
<1> QED
  BY <1>1, <1>2, <1>4, <1>5 DEF SANtricityInv

LEMMA StutterKeepsDS8K ==
  ASSUME DS8KInv, UNCHANGED vars
  PROVE  DS8KInv'
<1>1. /\ UNCHANGED <<service, pc, req, local, array, memory, known, failures>> /\ ObjectsInv'
      /\ \A u \in Ids : Obj(u)'
  BY StutterKeepsObjects DEF DS8KInv, DS8KWorld, vars
<1>2. DS8KApart' /\ CacheRight' /\ DS8KMade'
  BY <1>1 DEF DS8KInv, DS8KWorld, DS8KApart, CacheRight, DS8KMade, Holds, Fresh, Making, Makes, Creates,
     IsCopy, Named, Exists, object
<1>3. ASSUME NEW u \in Ids
      PROVE  DS8KData(u)'
  BY <1>1 DEF DS8KInv, DS8KWorld, DS8KData, Shows, Exists, object
<1>4. DS8KWorld'
  BY <1>1, <1>2, <1>3 DEF DS8KInv, DS8KWorld, DS8KArray, DS8KMemory
<1>5. ASSUME NEW t \in Threads
      PROVE  DS8KHand(t)'
  <2>1. DS8KHand(t)
    BY DEF DS8KInv
  <2>2. /\ object' = object /\ (Creates(t)' <=> Creates(t)) /\ (Deletes(t)' <=> Deletes(t))
        /\ (Expands(t)' <=> Expands(t)) /\ (Makes(t)' <=> Makes(t)) /\ (IsCopy(t)' <=> IsCopy(t))
    BY <1>1 DEF Creates, Deletes, Expands, Makes, IsCopy, object
  <2>3. /\ \A u : Exists(u)' <=> Exists(u)
        /\ \A n : Named(n)' = Named(n)
    BY <1>1, <2>2 DEF Exists, Named
  <2>4. /\ Fresh(t)' <=> Fresh(t)
        /\ \A u : IsSafe(u)' <=> IsSafe(u)
        /\ \A u, s : Shows(u, s)' <=> Shows(u, s)
    BY <1>1, <2>2 DEF Fresh, IsSafe, Shows
  <2> QED
    BY <1>1, <2>1, <2>2, <2>3, <2>4 DEF DS8KHand
<1> QED
  BY <1>1, <1>2, <1>4, <1>5 DEF DS8KInv

LEMMA StutterKeepsVolumes ==
  ASSUME VolumesInv, UNCHANGED vars
  PROVE  VolumesInv'
<1>1. UNCHANGED <<pc, req, local, array, memory, known>> /\ RoutingInv'
  BY StutterKeepsRouting DEF VolumesInv, vars
<1>2. RoutedWorld' /\ TableTyped'
  BY <1>1 DEF VolumesInv, RoutedWorld, TableTyped, ToldThere, GoneAway, AtHome, HomeOf
<1>3. ASSUME NEW t \in Threads
      PROVE  Settles(t)'
  BY <1>1 DEF VolumesInv, Settles, VolumeFor
<1> QED
  BY <1>1, <1>2, <1>3 DEF VolumesInv

(* What each service keeps of the volumes and snapshots it answers for.    *)
AnsweredInv ==
  /\ service \in ObjectServices \union {"mappings", "groups", "replication", "hosts", "routing"}
  /\ service \in {"mappings", "groups", "replication"} => Locked
  /\ service = "ds8k" => DS8KInv
  /\ service = "xiv" => XIVInv
  /\ service = "santricity" => SANtricityInv
  /\ service = "solidfire" => SolidFireInv
  /\ service = "snapshotFunction" => FunctionInv
  /\ service = "partition" => PartitionInv
  /\ service = "routing" => VolumesInv

LEMMA InitAnsweredInv == Init => AnsweredInv
<1> SUFFICES ASSUME Init
             PROVE  AnsweredInv
  OBVIOUS
<1>1. ASSUME InitMappings \/ InitGroups \/ InitReplication
      PROVE  service \in {"mappings", "groups", "replication"} /\ Locked
  <2>1. InitService("mappings") \/ InitService("groups") \/ InitService("replication")
    BY Zenon, <1>1 DEF InitMappings, InitGroups, InitReplication
  <2>2. service \in {"mappings", "groups", "replication"}
    BY <2>1 DEF InitService
  <2> QED
    BY <2>1, <2>2, InitLocked
<1>2. InitHosts => service = "hosts"
  BY Zenon DEF InitHosts, InitService
<1>3. /\ InitDS8K => service = "ds8k" /\ DS8KInv
      /\ InitXIV => service = "xiv" /\ XIVInv
      /\ InitSANtricity => service = "santricity" /\ SANtricityInv
      /\ InitSolidFire => service = "solidfire" /\ SolidFireInv
      /\ InitSnapshotFunction => service = "snapshotFunction" /\ FunctionInv
      /\ InitPartition => service = "partition" /\ PartitionInv
  BY InitDS8KInv, InitXIVInv, InitSANtricityInv, InitSolidFireInv, InitFunctionInv, InitPartitionInv
     DEF DS8KInv, XIVInv, SANtricityInv, SolidFireInv, FunctionInv, PartitionInv
<1>4. InitRouting => service = "routing" /\ VolumesInv
  <2>1. InitRouting => service = "routing"
    BY Zenon DEF InitRouting, InitService
  <2> QED
    BY <2>1, InitVolumesInv
<1>5. \/ InitDS8K \/ InitXIV \/ InitSANtricity \/ InitSolidFire \/ InitSnapshotFunction \/ InitPartition
      \/ InitMappings \/ InitGroups \/ InitReplication \/ InitHosts \/ InitRouting
  BY Zenon DEF Init
<1> QED
  BY <1>1, <1>2, <1>3, <1>4, <1>5 DEF AnsweredInv, ObjectServices

LEMMA OwnServices ==
  /\ DS8KInv => service = "ds8k" /\ Locked
  /\ XIVInv => service = "xiv" /\ Locked
  /\ SANtricityInv => service = "santricity" /\ Locked
  /\ SolidFireInv => service = "solidfire" /\ Locked
  /\ FunctionInv => service = "snapshotFunction" /\ Locked
  /\ PartitionInv => service = "partition" /\ Locked
  BY DEF DS8KInv, XIVInv, SANtricityInv, SolidFireInv, FunctionInv, PartitionInv, ObjectsInv

(* The steps of a service for volumes and snapshots are of that service.    *)
LEMMA ObjectsStay ==
  /\ DS8KNext => service = "ds8k"
  /\ XIVNext => service = "xiv"
  /\ SANtricityNext => service = "santricity"
  /\ SolidFireNext => service = "solidfire"
  /\ SnapshotFunctionNext => service = "snapshotFunction"
  /\ PartitionNext => service = "partition"
<1>1. DS8KNext => service = "ds8k"
  BY Zenon DEF DS8KNext, DS8KFind, DS8KToggle, DS8KCreate, DS8KReadBack, DS8KCopySource,
     DS8KFlashcopy, DS8KVerify, DS8KInvalid, DS8KUndo, DS8KLook, DS8KDeleteCopies,
     DS8KDeleteVolume, DS8KForget, DS8KExpand, DS8KExtend, DS8KFail, FinishCopy, At
<1>2. XIVNext => service = "xiv"
  BY Zenon DEF XIVNext, XIVFind, XIVCreate, XIVCopySource, XIVCopy, XIVResize, XIVLook, XIVRemove,
     XIVExpand, XIVExtend, XIVFail, At
<1>3. SANtricityNext => service = "santricity"
  BY Zenon DEF SANtricityNext, SANtricityFind, SANtricityCreate, SANtricityCopySource,
     SANtricityChooseGroup, SANtricityCreateImage, SANtricityNewest, SANtricityDeleteVolume,
     SANtricityFindGroup, SANtricityRemoveGroup, SANtricityExpand, SANtricityFail, At
<1>4. SolidFireNext => service = "solidfire"
  BY Zenon DEF SolidFireNext, SolidFireFind, SolidFireCreate, SolidFireReadBack,
     SolidFireCopySource, SolidFireDelete, SolidFireExpand, SolidFireFail, At
<1>5. SnapshotFunctionNext => service = "snapshotFunction"
  BY Zenon DEF SnapshotFunctionNext, FunctionFind, FunctionCreate, AddSnapshot,
     AddTemporarySnapshot, MakeFromSnapshot, ReadGroupVolume, LeaveTemporaryGroup,
     RemoveTemporaryGroup, RenameVolume, RemoveTemporarySnapshot, FunctionReadBack,
     UndoFunctionVolume, UndoTemporaryGroup, FunctionLook, FunctionRemove, FunctionExpand,
     FunctionExtend, FunctionFail, AtFunction, At
<1>6. PartitionNext => service = "partition"
  BY Zenon DEF PartitionNext, PartitionFind, PartitionCreate, AddGroupSnapshot, CloneFromSnapshot,
     RemoveGroupSnapshot, PartitionReadBack, PartitionLook, PartitionRemove, PartitionExpand,
     PartitionExtend, PartitionFail, DiscardSnapshot, AtPartition, At
<1> QED
  BY <1>1, <1>2, <1>3, <1>4, <1>5, <1>6

LEMMA AnsweredStep == AnsweredInv /\ [Next]_vars => AnsweredInv'
<1> SUFFICES ASSUME AnsweredInv, [Next]_vars
             PROVE  AnsweredInv'
  OBVIOUS
<1>1. service # "hosts" => Locked
  BY OwnServices DEF AnsweredInv, ObjectServices, VolumesInv, RoutingInv
<1>2. /\ service \in ObjectServices \union {"mappings", "groups", "replication", "hosts", "routing"}
      /\ service \in {"mappings", "groups", "replication"} => Locked
      /\ service = "ds8k" => DS8KInv
      /\ service = "xiv" => XIVInv
      /\ service = "santricity" => SANtricityInv
      /\ service = "solidfire" => SolidFireInv
      /\ service = "snapshotFunction" => FunctionInv
      /\ service = "partition" => PartitionInv
      /\ service = "routing" => VolumesInv
  BY DEF AnsweredInv
<1>3. ASSUME service' = service,
             service \in {"mappings", "groups", "replication"} => Locked',
             service = "ds8k" => DS8KInv',
             service = "xiv" => XIVInv',
             service = "santricity" => SANtricityInv',
             service = "solidfire" => SolidFireInv',
             service = "snapshotFunction" => FunctionInv',
             service = "partition" => PartitionInv',
             service = "routing" => VolumesInv'
      PROVE  AnsweredInv'
  BY <1>2, <1>3 DEF AnsweredInv
<1>4. ASSUME NEW t \in Threads, CallObjects(t)
      PROVE  AnsweredInv'
  <2>1. service \in ObjectServices
    BY <1>4 DEF CallObjects
  <2>2. service \notin {"mappings", "groups", "replication", "hosts", "routing"} /\ service' = service
    BY <1>1, <1>4, <2>1, CallObjectsMove DEF ObjectServices
  <2> QED
    BY <1>2, <1>3, <1>4, <2>1, <2>2, DS8KCallKeeps, XIVCallKeeps, SANtricityCallKeeps,
       SolidFireCallKeeps, FunctionCallKeeps, PartitionCallKeeps
<1>5. ASSUME DS8KNext
      PROVE  AnsweredInv'
  <2>1. service = "ds8k"
    BY <1>5, ObjectsStay
  <2>2. service' = service
    BY <1>1, <1>5, <2>1, DS8KMove
  <2> QED
    BY <1>2, <1>3, <1>5, <2>1, <2>2, DS8KStep
<1>6. ASSUME XIVNext
      PROVE  AnsweredInv'
  <2>1. service = "xiv"
    BY <1>6, ObjectsStay
  <2>2. service' = service
    BY <1>1, <1>6, <2>1, XIVMove
  <2> QED
    BY <1>2, <1>3, <1>6, <2>1, <2>2, XIVStep
<1>7. ASSUME SANtricityNext
      PROVE  AnsweredInv'
  <2>1. service = "santricity"
    BY <1>7, ObjectsStay
  <2>2. service' = service
    BY <1>1, <1>7, <2>1, SANtricityMove
  <2> QED
    BY <1>2, <1>3, <1>7, <2>1, <2>2, SANtricityStep
<1>8. ASSUME SolidFireNext
      PROVE  AnsweredInv'
  <2>1. service = "solidfire"
    BY <1>8, ObjectsStay
  <2>2. service' = service
    BY <1>1, <1>8, <2>1, SolidFireMove
  <2> QED
    BY <1>2, <1>3, <1>8, <2>1, <2>2, SolidFireStep
<1>9. ASSUME SnapshotFunctionNext
      PROVE  AnsweredInv'
  <2>1. service = "snapshotFunction"
    BY <1>9, ObjectsStay
  <2>2. service' = service
    BY <1>1, <1>9, <2>1, FunctionMove
  <2> QED
    BY <1>2, <1>3, <1>9, <2>1, <2>2, FunctionStep
<1>10. ASSUME PartitionNext
       PROVE  AnsweredInv'
  <2>1. service = "partition"
    BY <1>10, ObjectsStay
  <2>2. service' = service
    BY <1>1, <1>10, <2>1, PartitionMove
  <2> QED
    BY <1>2, <1>3, <1>10, <2>1, <2>2, PartitionStep
<1>11. ASSUME MappingsNext \/ GroupsNext \/ ReplicationNext \/ HostsNext
       PROVE  AnsweredInv'
  <2>1. /\ service \in {"mappings", "groups", "replication", "hosts"} /\ service' = service
        /\ service # "hosts" => Locked'
    BY <1>1, <1>11, OthersStay
  <2> QED
    BY <1>3, <2>1
<1>12. ASSUME RoutingNext
       PROVE  AnsweredInv'
  <2>1. service = "routing"
    BY Zenon, <1>12 DEF RoutingNext, ChangeRouting, CallRouting, Choose, GetAgent, ServeRequest,
       AnswerRouted, At
  <2>2. service' = service
    BY <1>2, <1>12, <2>1, VolumesKnow, RoutingMove DEF RoutingTyped
  <2> QED
    BY <1>2, <1>3, <1>12, <2>1, <2>2, VolumesStep
<1>13. ASSUME Crash
       PROVE  AnsweredInv'
  <2>1. service' = service
    BY <1>13 DEF Crash
  <2> QED
    BY <1>2, <1>3, <1>13, <2>1, CrashKeepsLocked, DS8KCrashKeeps, XIVCrashKeeps, SANtricityCrashKeeps,
       SolidFireCrashKeeps, FunctionCrashKeeps, PartitionCrashKeeps, CrashSettles
<1>14. ASSUME UNCHANGED vars
       PROVE  AnsweredInv'
  <2>1. service' = service
    BY <1>14 DEF vars
  <2> QED
    BY <1>2, <1>3, <1>14, <2>1, StutterKeepsLocked, StutterKeepsDS8K, StutterKeepsXIV, StutterKeepsSANtricity,
       StutterKeepsSolidFire, StutterKeepsFunction, StutterKeepsPartition, StutterKeepsVolumes
<1> QED
  BY <1>4, <1>5, <1>6, <1>7, <1>8, <1>9, <1>10, <1>11, <1>12, <1>13, <1>14 DEF Next, Rest

LEMMA AnsweredMeans ==
  ASSUME AnsweredInv
  PROVE  /\ service \in ObjectServices \union {"routing"} => TypeOK
         /\ ReportedAsAsked /\ DeletedIsGone /\ NameOnce
         /\ service # "routing" \/ SystemsApart => ReportedStays
<1>1. CASE service \in ObjectServices
  BY <1>1, DS8KMeans, XIVMeans, SANtricityMeans, SolidFireMeans, FunctionMeans, PartitionMeans
     DEF AnsweredInv, ObjectServices
<1>2. CASE service \in {"mappings", "groups", "replication", "hosts"}
  <2>1. service \notin ObjectServices /\ service # "routing"
    BY <1>2 DEF ObjectServices
  <2>2. ReportedAsAsked /\ DeletedIsGone /\ NameOnce /\ ReportedStays
    BY <2>1 DEF ReportedAsAsked, DeletedIsGone, NameOnce, ReportedStays
  <2> QED
    BY <2>1, <2>2
<1>3. CASE service = "routing"
  BY <1>3, VolumesMean DEF AnsweredInv
<1> QED
  BY <1>1, <1>2, <1>3 DEF AnsweredInv

THEOREM AnswersInvariance == Spec => []AnsweredInv
  BY InitAnsweredInv, AnsweredStep, PTL DEF Spec

(* The objects of every array keep their types, and so does what requests  *)
(* remember, and what the driver's caches and tables hold.                 *)
THEOREM ObjectsAreTyped == Spec => [](service \in ObjectServices \union {"routing"} => TypeOK)
<1>1. AnsweredInv => (service \in ObjectServices \union {"routing"} => TypeOK)
  BY AnsweredMeans
<1> QED
  BY <1>1, AnswersInvariance, PTL

(* A volume or snapshot that CreateVolume or CreateSnapshot reported is    *)
(* there, under its name, until its deletion is asked for, or on E-Series  *)
(* that of a snapshot of its group: no roll-back, retry, stale cache entry *)
(* or restart removes it, and no request that is routed to its array for   *)
(* another.  The systems of a config must be different arrays, which the   *)
(* docs take for granted (creating_secret_topology_aware.md).              *)
THEOREM ReportedObjectsStay == ASSUME SystemsApart PROVE Spec => []ReportedStays
<1>1. AnsweredInv => ReportedStays
  BY AnsweredMeans
<1> QED
  BY <1>1, AnswersInvariance, PTL

(* For objects behind one array no such condition is needed.               *)
THEOREM ReportedObjectsStayOnAnArray == Spec => [](service # "routing" => ReportedStays)
<1>1. AnsweredInv => (service # "routing" => ReportedStays)
  BY AnsweredMeans
<1> QED
  BY <1>1, AnswersInvariance, PTL

(* What was reported is what was asked for, in size, source and data, on   *)
(* every type of array and with any number of failures and restarts.       *)
THEOREM ReportedObjectsAreAsAsked == Spec => []ReportedAsAsked
<1>1. AnsweredInv => ReportedAsAsked
  BY AnsweredMeans
<1> QED
  BY <1>1, AnswersInvariance, PTL

(* What DeleteVolume or DeleteSnapshot was answered OK for is gone, but    *)
(* for the cases that the property names.                                  *)
THEOREM DeletedObjectsAreGone == Spec => []DeletedIsGone
<1>1. AnsweredInv => DeletedIsGone
  BY AnsweredMeans
<1> QED
  BY <1>1, AnswersInvariance, PTL

(* No two objects of an array share a name, but on DS8000 and SolidFire    *)
(* after a command failed, nor do volumes of two arrays while the          *)
(* topologies stay: a retry finds what its predecessor has made.           *)
THEOREM NamesAreTakenOnce == Spec => []NameOnce
<1>1. AnsweredInv => NameOnce
  BY AnsweredMeans
<1> QED
  BY <1>1, AnswersInvariance, PTL
==============================================================================
