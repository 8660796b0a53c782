----------------------------- MODULE DS8KObjects -----------------------------
(***************************************************************************)
(* Volumes, clones and snapshots on a DS8000: array_mediator_ds8k.py with  *)
(* the cache of ds8k_volume_cache.py, which outlives the mediators and     *)
(* maps names to identifiers.                                              *)
(*                                                                         *)
(* A clone is the target of a FlashCopy relation with background copy, a   *)
(* snapshot of one without.  The array shows at most one relation with a   *)
(* volume as target, and refuses to delete a volume in a relation.         *)
(***************************************************************************)
EXTENDS ArrayObjects

(* rel is the relation with the volume as target; a relation is synced     *)
(* when no track is left to copy, and data is what was copied by then.     *)
Relation == [source : Ids, copy : BOOLEAN, synced : BOOLEAN]
DS8KObject == [name : Names, size : Sizes, rel : Relation \union {None},
               data : Ids \union {None}]

ASSUME DS8KAssumption == None \notin DS8KObject \union Relation

DS8KPlace ==
  {"idle", "find", "toggle", "create", "readBack", "copySource", "flashcopy", "verify",
   "undo", "look", "deleteCopies", "deleteVolume", "forget", "expand", "extend"}

InitDS8K ==
  /\ InitObjects("ds8k")
  /\ LET first == [name |-> FirstName, size |-> SizeOf[FirstName], rel |-> None, data |-> None]
     IN  array = [object |-> First(first)]
  /\ memory = [n \in {FirstName} |-> FirstId]

Put(u, o) == array' = [array EXCEPT !.object[u] = o]

-----------------------------------------------------------------------------
CopiesOf(u) == {x \in Ids : Exists(x) /\ object[x].rel # None /\ object[x].rel.source = u}

InRelation(u) == object[u].rel # None \/ CopiesOf(u) # {}

(* _get_source_id                                                          *)
SourceOf(o) == IF o.rel = None THEN None ELSE o.rel.source

(* is_snapshot                                                             *)
IsSnapshot(o) == o.rel # None /\ ~ o.rel.copy

(* get_object_by_id takes a snapshot for a snapshot only.                  *)
IsThere(r) == Exists(r.uid) /\ (r.from = "snapshot" => IsSnapshot(object[r.uid]))

(* A snapshot would be cut off from its source.                            *)
IsSafeUncopied(x) == object[x].rel.copy => object[x].rel.synced

(* _ensure_flashcopy_safe_to_delete: no relation of a snapshot, and no     *)
(* track left to copy.                                                     *)
IsSafe(x) == object[x].rel.copy /\ object[x].rel.synced

Cached(n) == IF n \in DOMAIN memory THEN memory[n] ELSE None
Remember(n, u) == [m \in DOMAIN memory \union {n} |-> IF m = n THEN u ELSE memory[m]]
Forgotten(n) == Restrict(memory, DOMAIN memory \ {n})

(* _get_api_volume_with_cache: the cached volume when it has that name,    *)
(* or else what the listing of the pool shows under it.                    *)
Found(n) == IF Exists(Cached(n)) /\ object[Cached(n)].name = n THEN {Cached(n)} ELSE Named(n)

(* get_volume and get_snapshot.  A cached volume that is gone raises       *)
(* ObjectNotFoundError: CreateVolume takes it for a new name, and          *)
(* CreateSnapshot fails.  Without a pool in its parameters, CreateSnapshot *)
(* also fails when the source is gone.                                     *)
DS8KFind(t) ==
  /\ At(t, "ds8k", "find")
  /\ LET n == req[t].name
         stale == Cached(n) # None /\ ~ Exists(Cached(n))
         snapshot == req[t].op = "createSnapshot"
     IN  \/ /\ IF stale THEN ~ snapshot ELSE Found(n) = {}
            /\ Continue(t, "create")
            /\ NoFault /\ UNCHANGED <<array, memory, known>>
         \/ \E u \in IF stale THEN {} ELSE Found(n) :
              /\ snapshot => IsSnapshot(object[u])
              /\ Proceed(t, "toggle", [local[t] EXCEPT !.mine = u, !.read = object[u]])
              /\ NoFault /\ UNCHANGED <<array, memory, known>>
         \/ /\ snapshot
            /\ \/ stale
               \/ ~ Exists(req[t].uid)
               \/ \E u \in Found(n) : ~ IsSnapshot(object[u])
            /\ Reject(t)

(* add_or_delete: a get adds the name to the cache, or removes it when it  *)
(* is there.  Then the verdict on what was read.                           *)
DS8KToggle(t) ==
  /\ At(t, "ds8k", "toggle")
  /\ LET o == local[t].read
     IN  /\ memory' = IF Cached(o.name) = None THEN Remember(o.name, local[t].mine)
                        ELSE Forgotten(o.name)
         /\ IF Accepts(req[t], SourceOf(o), o.size)
              THEN Report(t, local[t].mine) ELSE Return(t) /\ UNCHANGED known
  /\ NoFault /\ UNCHANGED array

(* The identifiers the array may give out.  It gives one again once its    *)
(* volume is gone; here, only when nothing in the cluster or in a request  *)
(* refers to the old volume any more.                                      *)
Free ==
  {u \in Ids : /\ object[u] = None
               /\ known.acked[u] = None
               /\ \A t \in Threads : pc[t] # "idle" =>
                    req[t].uid # u /\ local[t].mine # u /\ u \notin local[t].others}

(* create_volume and _create_similar_volume up to the API's create_volume. *)
(* A full pool is answered with an error, and a snapshot needs its source. *)
DS8KCreate(t) ==
  /\ At(t, "ds8k", "create")
  /\ LET snapshot == req[t].op = "createSnapshot"
         size == IF snapshot THEN object[req[t].uid].size ELSE req[t].size
         hasSource == snapshot => Exists(req[t].uid)
         u == CHOOSE x \in Free : \A y \in Free : x <= y
     IN  \/ /\ hasSource /\ Free # {}
            /\ Put(u, [name |-> req[t].name, size |-> size, rel |-> None, data |-> None])
            /\ known' = [known EXCEPT !.deleting = @ \ {u}, !.gone = @ \ {u}]
            /\ Proceed(t, "readBack", [local[t] EXCEPT !.mine = u])
            /\ NoFault /\ UNCHANGED memory
         \/ ~ (hasSource /\ Free # {}) /\ Reject(t)

(* _create_api_volume reads the new volume back, and fails without undoing *)
(* anything when it cannot; create_volume then caches it.                  *)
DS8KReadBack(t) ==
  /\ At(t, "ds8k", "readBack")
  /\ memory' = IF req[t].op = "createVolume" THEN Remember(req[t].name, local[t].mine) ELSE memory
  /\ CASE req[t].op = "createSnapshot" -> Continue(t, "flashcopy") /\ UNCHANGED known
       [] IsCopy(t) -> Continue(t, "copySource") /\ UNCHANGED known
       [] OTHER -> Report(t, local[t].mine)
  /\ NoFault /\ UNCHANGED array

(* copy_to_existing_volume: a volume smaller than its source is extended.  *)
DS8KCopySource(t) ==
  /\ At(t, "ds8k", "copySource")
  /\ CopySource(t, IsThere(req[t]),
       /\ Put(local[t].mine,
              [object[local[t].mine] EXCEPT
                 !.size = IF @ < object[req[t].uid].size THEN object[req[t].uid].size ELSE @])
       /\ Continue(t, "flashcopy")
       /\ NoFault /\ UNCHANGED <<memory, known>>,
       "look")

(* _create_flashcopy.  The array refuses a source that is gone; a clone is *)
(* rolled back as a volume, a snapshot by _delete_target_volume_if_exist.  *)
DS8KFlashcopy(t) ==
  /\ At(t, "ds8k", "flashcopy")
  /\ LET source == req[t].uid IN
     \/ /\ Exists(source)
        /\ Put(local[t].mine, [object[local[t].mine] EXCEPT
                 !.rel = [source |-> source, copy |-> IsCopy(t), synced |-> FALSE]])
        /\ Continue(t, "verify")
        /\ NoFault /\ UNCHANGED <<memory, known>>
     \/ /\ ~ Exists(source)
        /\ RollBack(t, IF IsCopy(t) THEN "look" ELSE "undo")
        /\ NoFault /\ UNCHANGED <<array, memory, known>>

(* The relation's state is read: when it is valid the volume is read back, *)
(* create_snapshot caches it, and it is reported.                          *)
DS8KVerify(t) ==
  /\ At(t, "ds8k", "verify")
  /\ memory' = IF IsCopy(t) THEN memory ELSE Remember(req[t].name, local[t].mine)
  /\ Report(t, local[t].mine)
  /\ NoFault /\ UNCHANGED array

(* When it is not valid the relation is deleted and a ValueError raised:   *)
(* a clone is rolled back, and a snapshot's volume stays.                  *)
DS8KInvalid(t) ==
  /\ At(t, "ds8k", "verify")
  /\ Fault
  /\ Put(local[t].mine, [object[local[t].mine] EXCEPT !.rel = None])
  /\ IF IsCopy(t) THEN RollBack(t, "look") ELSE Return(t)
  /\ UNCHANGED <<memory, known>>

(* _delete_target_volume_if_exist, of a snapshot without relation.         *)
DS8KUndo(t) ==
  /\ At(t, "ds8k", "undo")
  /\ Put(local[t].mine, None)
  /\ Return(t)
  /\ NoFault /\ UNCHANGED <<memory, known>>

-----------------------------------------------------------------------------
(* What an error of a command leads to, by where it hits.                  *)
DS8KOnError(t) ==
  CASE pc[t] \in {"copySource", "flashcopy", "verify"} /\ IsCopy(t) -> RollBack(t, "look")
    [] pc[t] \in {"look", "deleteCopies", "deleteVolume"} /\ IsCopy(t) -> TryAgain(t, "look")
    [] pc[t] = "undo" -> TryAgain(t, "undo")
    [] OTHER -> Return(t)

Refused(t) == DS8KOnError(t) /\ NoFault /\ UNCHANGED <<array, memory, known>>

DS8KFail(t) ==
  /\ service = "ds8k" /\ pc[t] \notin {"idle", "toggle", "forget"}
  /\ Fault
  /\ DS8KOnError(t)
  /\ UNCHANGED <<array, memory, known>>

(* _delete_object reads the volume.  A volume that is gone, and for        *)
(* DeleteSnapshot one that is no snapshot, is answered OK; one with copies *)
(* that are not safe to cut off is not deleted.                            *)
DS8KLook(t) ==
  /\ At(t, "ds8k", "look")
  /\ LET u == local[t].mine
         isGone == Exists(u) => req[t].op = "deleteSnapshot" /\ ~ IsSnapshot(object[u])
     IN  \/ isGone /\ Deleted(t) /\ NoFault /\ UNCHANGED <<array, memory>>
         \/ /\ ~ isGone /\ \A x \in CopiesOf(u) : IsSafe(x)
            /\ Proceed(t, "deleteCopies",
                 [local[t] EXCEPT !.read = object[u],
                    !.others = CopiesOf(u) \union (IF object[u].rel = None THEN {} ELSE {u})])
            /\ NoFault /\ UNCHANGED <<array, memory, known>>
         \/ ~ isGone /\ \E x \in CopiesOf(u) : ~ IsSafe(x) /\ Refused(t)

(* _safe_delete_flashcopies, as source first, then as target: a relation   *)
(* that went meanwhile is an error.                                        *)
DS8KDeleteCopies(t) ==
  /\ At(t, "ds8k", "deleteCopies")
  /\ LET u == local[t].mine
         others == local[t].others
         isHere(x) == /\ Exists(x) /\ object[x].rel # None
                      /\ x = u \/ object[x].rel.source = u
     IN  \/ /\ others = {}
            /\ Continue(t, IF req[t].op = "expandVolume" THEN "extend" ELSE "deleteVolume")
            /\ NoFault /\ UNCHANGED <<array, memory, known>>
         \/ \E x \in others :
              /\ x = u => others = {u}
              /\ \/ /\ isHere(x)
                    /\ Put(x, [object[x] EXCEPT !.rel = None])
                    /\ Proceed(t, "deleteCopies", [local[t] EXCEPT !.others = @ \ {x}])
                    /\ NoFault /\ UNCHANGED <<memory, known>>
                 \/ ~ isHere(x) /\ Refused(t)

(* _delete_volume                                                          *)
DS8KDeleteVolume(t) ==
  /\ At(t, "ds8k", "deleteVolume")
  /\ LET u == local[t].mine IN
     \/ ~ Exists(u) /\ Deleted(t) /\ NoFault /\ UNCHANGED <<array, memory>>
     \/ Exists(u) /\ InRelation(u) /\ Refused(t)
     \/ /\ Exists(u) /\ ~ InRelation(u)
        /\ Put(u, None)
        /\ Continue(t, "forget")
        /\ NoFault /\ UNCHANGED <<memory, known>>

(* The name is removed from the cache, whatever identifier it has there.   *)
DS8KForget(t) ==
  /\ At(t, "ds8k", "forget")
  /\ memory' = Forgotten(local[t].read.name)
  /\ Deleted(t)
  /\ NoFault /\ UNCHANGED array

(* ControllerExpandVolume reads the volume; expand_volume cuts off all its *)
(* relations, its own included, unless one is not safe to.                 *)
DS8KExpand(t) ==
  /\ At(t, "ds8k", "expand")
  /\ LET u == local[t].mine
         all == CopiesOf(u) \union (IF object[u].rel = None THEN {} ELSE {u})
     IN  \/ ~ Exists(u) /\ Reject(t)
         \/ /\ Exists(u) /\ object[u].size >= req[t].size
            /\ Expanded(t) /\ NoFault /\ UNCHANGED <<array, memory>>
         \/ /\ Exists(u) /\ object[u].size < req[t].size /\ \A x \in all : IsSafe(x)
            /\ Proceed(t, "deleteCopies", [local[t] EXCEPT !.others = all])
            /\ NoFault /\ UNCHANGED <<array, memory, known>>
         \/ Exists(u) /\ object[u].size < req[t].size /\ \E x \in all : ~ IsSafe(x) /\ Reject(t)

(* _extend_volume, and the volume is read once more.                       *)
DS8KExtend(t) ==
  /\ At(t, "ds8k", "extend")
  /\ LET u == local[t].mine IN
     \/ ~ Exists(u) /\ Reject(t)
     \/ /\ Exists(u)
        /\ Put(u, [object[u] EXCEPT !.size = req[t].size])
        /\ Expanded(t)
        /\ NoFault /\ UNCHANGED memory

(* The array copies in the background, then nothing is out of sync.        *)
FinishCopy ==
  /\ service = "ds8k"
  /\ \E u \in Ids :
       /\ Exists(u) /\ object[u].rel # None /\ object[u].rel.copy /\ ~ object[u].rel.synced
       /\ Put(u, [object[u] EXCEPT !.rel.synced = TRUE, !.data = object[u].rel.source])
  /\ NoFault
  /\ UNCHANGED <<service, ids_in_use, pc, req, local, memory, known, calls>>

DS8KNext ==
  \/ \E t \in Threads :
       \/ DS8KFind(t) \/ DS8KToggle(t) \/ DS8KCreate(t) \/ DS8KReadBack(t)
       \/ DS8KCopySource(t) \/ DS8KFlashcopy(t) \/ DS8KVerify(t) \/ DS8KInvalid(t)
       \/ DS8KUndo(t) \/ DS8KLook(t) \/ DS8KDeleteCopies(t) \/ DS8KDeleteVolume(t)
       \/ DS8KForget(t) \/ DS8KExpand(t) \/ DS8KExtend(t) \/ DS8KFail(t)
  \/ FinishCopy
-----------------------------------------------------------------------------
DS8KTypeOK ==
  /\ array \in [object : [Ids -> DS8KObject \union {None}]]
  /\ DOMAIN memory \subseteq Names
  /\ \A t \in Threads : pc[t] \in DS8KPlace

(* A volume created from a source shows the relation, or holds the data.   *)
DS8KHasData(u) ==
  /\ known.acked[u].uid \in {None, SourceOf(object[u]), object[u].data}
=============================================================================
