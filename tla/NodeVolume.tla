----------------------------- MODULE NodeVolume -----------------------------
(***************************************************************************)
(* The node service of node.go on one node with SCSI volumes:              *)
(* NodeStageVolume, NodePublishVolume, NodeUnpublishVolume and             *)
(* NodeUnstageVolume on file system volumes, with GetMpathDevice,          *)
(* FlushMultipathDevice and RemovePhysicalDevice of device_connectivity.   *)
(*                                                                         *)
(* The request lock is the one NodeLockPromise specifies.  Around the      *)
(* service run the array, which decides what a LUN reaches, the kernel and *)
(* multipathd, which remember what it reached when they looked, and the    *)
(* orchestrator, which calls in order but may detach a volume by force.    *)
(***************************************************************************)
EXTENDS Naturals, FiniteSets

CONSTANTS
  Threads, None, NoLun, MaxInvocations, CleanScsiDevice,
  Volumes, Luns,
  EndsWith,         \* <<k, l>>: the LUN k, written out, ends with l (11 with 1)
  Pods,             \* the target paths of a volume
  FsTypes, DefaultFs,
  Blank,            \* no file system: on a disk, or asked for
  FsOf,             \* the file system each volume's class asks for
  MaxForced,        \* volumes the orchestrator detaches by force
  MaxFailures       \* commands that fail and restarts of the plugin

VARIABLES
  granted,      \* the volume and LUN each thread has locked
  lunOf,        \* array: the LUN by which the node reaches each volume
  disk, data,   \* array: the file system on each volume, whether pods wrote
  sd,           \* kernel: the volume each LUN's device was discovered as
  dm,           \* multipathd: the LUN behind each volume's map
  staging,      \* the volume mounted at each staging path
  target,       \* each target path: how often mounted, or None for no path
  staged, published,   \* what the orchestrator knows: "no", "maybe", "yes"
  pc, req,      \* each thread's place and request
  note,         \* what it found: a file system, a LUN, a number of unmounts
  forced,       \* the volumes detached by force
  torn,         \* a volume was detached by force under a request for it
  failures

Lock == INSTANCE NodeLockPromise

array == <<lunOf, disk, data>>
devices == <<sd, dm>>
mounts == <<staging, target>>
known == <<staged, published>>
budget == <<forced, torn, failures>>
vars == <<granted, lunOf, disk, data, sd, dm, staging, target, staged, published,
          pc, req, note, forced, torn, failures>>

Op == {"stage", "unstage", "publish", "unpublish"}
Request == [op : Op, volume : Volumes, lun : Luns \union {NoLun}, pod : Pods]
ASSUME NodeAssumption ==
  /\ None \notin Volumes \union Luns \union FsTypes \union Request \union {0, 1}
  /\ None \notin Lock!Request /\ NoLun \notin Luns
  /\ {<<l, l>> : l \in Luns} \subseteq EndsWith
  /\ DefaultFs \in FsTypes /\ Blank \notin FsTypes
  /\ FsOf \in [Volumes -> FsTypes \union {Blank}]
  /\ MaxForced \in Nat /\ MaxFailures \in Nat

Phase == {"idle", "rescan", "find", "refind", "probe", "format", "mount",
          "unmountStaging", "slaves", "flush", "remove",
          "check", "bind", "exists", "unmount", "removeTarget"}

Init ==
  /\ granted = [t \in Threads |-> None]
  /\ lunOf = [v \in Volumes |-> None]
  /\ disk \in [Volumes -> FsTypes \union {Blank}]
  /\ data = [v \in Volumes |-> disk[v] # Blank]
  /\ sd = [l \in Luns |-> None]
  /\ dm = [v \in Volumes |-> None]
  /\ staging = [v \in Volumes |-> None]
  /\ target = [v \in Volumes |-> [p \in Pods |-> None]]
  /\ staged = [v \in Volumes |-> "no"]
  /\ published = [v \in Volumes |-> [p \in Pods |-> "no"]]
  /\ pc = [t \in Threads |-> "idle"]
  /\ req = [t \in Threads |-> None]
  /\ note = [t \in Threads |-> None]
  /\ forced = {} /\ torn = FALSE /\ failures = 0

-----------------------------------------------------------------------------
(* What a LUN reaches now, and what I/O to a volume's map reaches.         *)
Reached(l) ==
  IF \E v \in Volumes : lunOf[v] = l THEN CHOOSE v \in Volumes : lunOf[v] = l ELSE None

Behind(v) ==
  IF dm[v] = None \/ sd[dm[v]] = None THEN None ELSE Reached(dm[v])

Goto(t, to) == pc' = [pc EXCEPT ![t] = to]

Continue(t, to) ==
  Goto(t, to) /\ UNCHANGED <<granted, req, note, known>>

Finish(t) ==
  /\ Lock!Release(t)
  /\ Goto(t, "idle")
  /\ req' = [req EXCEPT ![t] = None]
  /\ note' = [note EXCEPT ![t] = None]

(* The handler returns an error.                                           *)
Refuse(t) == Finish(t) /\ UNCHANGED known

(* The handler returns OK; the orchestrator may have stopped waiting.      *)
Answer(t) ==
  LET v == req[t].volume
      p == req[t].pod
  IN  /\ Finish(t)
      /\ \/ UNCHANGED known
         \/ /\ req[t].op \in {"stage", "unstage"}
            /\ staged' = [staged EXCEPT ![v] = IF req[t].op = "stage" THEN "yes" ELSE "no"]
            /\ UNCHANGED published
         \/ /\ req[t].op \in {"publish", "unpublish"}
            /\ published' = [published EXCEPT ![v][p] = IF req[t].op = "publish" THEN "yes" ELSE "no"]
            /\ UNCHANGED staged

-----------------------------------------------------------------------------
(* The orchestrator stages what is attached, publishes what is staged,     *)
(* unstages what has no pod left.  A handler starts by taking the lock.    *)
May(r) ==
  LET v == r.volume
      p == r.pod
  IN  \/ r.op = "stage" /\ lunOf[v] # None /\ r.lun = lunOf[v] /\ staged[v] # "yes"
      \/ r.op = "publish" /\ r.lun = NoLun /\ staged[v] = "yes" /\ published[v][p] # "yes"
      \/ r.op = "unpublish" /\ r.lun = NoLun /\ published[v][p] # "no"
      \/ /\ r.op = "unstage" /\ r.lun = NoLun /\ staged[v] # "no"
         /\ \A q \in Pods : published[v][q] = "no"

First(op) ==
  CASE op = "stage" -> "rescan" [] op = "unstage" -> "unmountStaging"
    [] op = "publish" -> "check" [] op = "unpublish" -> "exists"

Begin(t, r) ==
  /\ req' = [req EXCEPT ![t] = r]
  /\ Goto(t, First(r.op))
  /\ staged' = IF r.op \in {"stage", "unstage"} THEN [staged EXCEPT ![r.volume] = "maybe"] ELSE staged
  /\ published' = IF r.op \in {"publish", "unpublish"}
                    THEN [published EXCEPT ![r.volume][r.pod] = "maybe"] ELSE published
  /\ UNCHANGED <<array, devices, mounts, note, budget>>

(* Mutant: the lock is taken whoever holds it.                             *)
CallUnlocked(t) ==
  \E r \in Request :
    /\ May(r) /\ granted[t] = None
    /\ granted' = [granted EXCEPT ![t] = [volume |-> r.volume, lun |-> r.lun]]
    /\ Begin(t, r)

(* A call that finds the lock taken is aborted without effect.             *)
Call(t) ==
  \E r \in Request :
    May(r) /\ Lock!Grant(t, [volume |-> r.volume, lun |-> r.lun]) /\ Begin(t, r)

-----------------------------------------------------------------------------
(* RescanDevices scans for the LUN of the request only; a block device     *)
(* that is there already is left as it was discovered.  RemoveGhostDevice, *)
(* before and after, deletes only devices that are no block devices, and   *)
(* of those the model knows nothing.                                       *)
Rescan(t) ==
  LET l == req[t].lun
  IN  /\ pc[t] = "rescan"
      /\ sd' = IF sd[l] = None THEN [sd EXCEPT ![l] = Reached(l)] ELSE sd
      /\ Continue(t, "find")
      /\ UNCHANGED <<array, dm, mounts, budget>>

(* A map is built for every device that is in none.                        *)
Built(v) ==
  LET mine == {l \in Luns : sd[l] = v /\ \A w \in Volumes : dm[w] # l}
  IN  IF dm[v] = None /\ mine # {} THEN CHOOSE l \in mine : TRUE ELSE dm[v]

(* Mutant: the map is not asked for the volume behind it.                  *)
FindUnverified(t) ==
  /\ pc[t] \in {"find", "refind"}
  /\ IF dm[req[t].volume] # None
       THEN Continue(t, IF req[t].op = "stage" THEN "probe" ELSE "slaves") /\ UNCHANGED dm
       ELSE Continue(t, "refind") /\ dm' = [v \in Volumes |-> Built(v)]
  /\ UNCHANGED <<array, sd, mounts, budget>>

(* GetMpathDevice: the map named after the volume, if sg_inq says that it  *)
(* reaches the volume.                                                     *)
Find(t) ==
  /\ pc[t] \in {"find", "refind"}
  /\ Behind(req[t].volume) = req[t].volume
  /\ Continue(t, IF req[t].op = "stage" THEN "probe" ELSE "slaves")
  /\ UNCHANGED <<array, devices, mounts, budget>>

(* If not, ReloadMultipath and a second look.                              *)
Reload(t) ==
  /\ pc[t] = "find"
  /\ Behind(req[t].volume) # req[t].volume
  /\ dm' = [v \in Volumes |-> Built(v)]
  /\ Continue(t, "refind")
  /\ UNCHANGED <<array, sd, mounts, budget>>

(* The second look failed too.  No map, or (GetWwnByScsiInq) a map whose   *)
(* LUN names no volume, is MultipathDeviceNotFoundForVolumeError, for      *)
(* NodeUnstageVolume the sign that there is nothing to do; a LUN that is   *)
(* gone may also make sg_inq fail, and a map that reaches another volume   *)
(* is always an error.                                                     *)
NotFound(t) ==
  LET v == req[t].volume
  IN  /\ pc[t] = "refind"
      /\ Behind(v) # v
      /\ \/ Refuse(t) /\ (req[t].op = "unstage" => dm[v] # None)
         \/ req[t].op = "unstage" /\ Behind(v) = None /\ Answer(t)
      /\ UNCHANGED <<array, devices, mounts, budget>>

-----------------------------------------------------------------------------
(* resolveFsTypeForMount.                                                  *)
FsToMount(requested, existing) ==
  IF requested # Blank THEN requested ELSE IF existing # Blank THEN existing ELSE DefaultFs

(* Mutant: a volume with another file system than requested is formatted.  *)
ProbeTakesOtherForBlank(t) ==
  LET v == req[t].volume
      existing == disk[Behind(v)]
  IN  /\ pc[t] = "probe"
      /\ Behind(v) # None
      /\ IF staging[v] # None THEN Answer(t)
           ELSE /\ note' = [note EXCEPT ![t] = FsToMount(FsOf[v], existing)]
                /\ Goto(t, IF existing # note'[t] THEN "format" ELSE "mount")
                /\ UNCHANGED <<granted, req, known>>
      /\ UNCHANGED <<array, devices, mounts, budget>>

(* ValidateLun, which compares the text of the LUNs from the end, then     *)
(* GetDiskFormat, and what the handler makes of it.                        *)
Probe(t) ==
  LET v == req[t].volume
      existing == disk[Behind(v)]
      fs == FsToMount(FsOf[v], existing)
      readable == Behind(v) # None /\ <<dm[v], req[t].lun>> \in EndsWith
      other == readable /\ existing \notin {Blank, fs}
  IN  /\ pc[t] = "probe"
      /\ \/ (~ readable \/ other) /\ Refuse(t)
         \/ readable /\ ~ other /\ staging[v] # None /\ Answer(t)
         \/ /\ readable /\ ~ other /\ staging[v] = None
            /\ note' = [note EXCEPT ![t] = fs]
            /\ Goto(t, IF existing = Blank THEN "format" ELSE "mount")
            /\ UNCHANGED <<granted, req, known>>
      /\ UNCHANGED <<array, devices, mounts, budget>>

MakeFs(w, fs) ==
  /\ disk' = [disk EXCEPT ![w] = fs]
  /\ data' = [data EXCEPT ![w] = FALSE]
  /\ UNCHANGED lunOf

(* FormatDevice: whether mkfs did it or not, the handler goes on.          *)
Format(t) ==
  LET w == Behind(req[t].volume)
  IN  /\ pc[t] = "format"
      /\ \/ w # None /\ MakeFs(w, note[t])
         \/ UNCHANGED array
      /\ Continue(t, "mount")
      /\ UNCHANGED <<devices, mounts, budget>>

(* FormatAndMount of the mount library formats a blank device, mounts a    *)
(* formatted one and refuses what has another file system.                 *)
Mount(t) ==
  LET v == req[t].volume
      w == Behind(v)
      fs == note[t]
  IN  /\ pc[t] = "mount"
      /\ \/ /\ w # None /\ disk[w] \in {Blank, fs}
            /\ IF disk[w] = Blank THEN MakeFs(w, fs) ELSE UNCHANGED array
            /\ staging' = [staging EXCEPT ![v] = w]
            /\ Answer(t)
         \/ (w # None => disk[w] \notin {Blank, fs}) /\ Refuse(t) /\ UNCHANGED <<array, staging>>
      /\ UNCHANGED <<devices, target, budget>>

-----------------------------------------------------------------------------
UnmountStaging(t) ==
  /\ pc[t] = "unmountStaging"
  /\ staging' = [staging EXCEPT ![req[t].volume] = None]
  /\ Continue(t, "find")
  /\ UNCHANGED <<array, devices, target, budget>>

(* GetSysDevicesFromMpath.                                                 *)
Slaves(t) ==
  LET v == req[t].volume
  IN  /\ pc[t] = "slaves"
      /\ \/ dm[v] = None /\ Refuse(t)
         \/ /\ dm[v] # None
            /\ note' = [note EXCEPT ![t] = dm[v]]
            /\ Goto(t, "flush")
            /\ UNCHANGED <<granted, req, known>>
      /\ UNCHANGED <<array, devices, mounts, budget>>

InUse(v) == staging[v] # None \/ \E p \in Pods : target[v][p] \notin {None, 0}

(* FlushMultipathDevice: multipath -f refuses a map that is in use; when   *)
(* the map is gone, the flush of its buffers fails, unless it went between *)
(* the two commands.                                                       *)
Flush(t) ==
  LET v == req[t].volume
  IN  /\ pc[t] = "flush"
      /\ \/ (dm[v] # None => InUse(v)) /\ Refuse(t) /\ UNCHANGED dm
         \/ ~ InUse(v) /\ Continue(t, "remove") /\ dm' = [dm EXCEPT ![v] = None]
      /\ UNCHANGED <<array, sd, mounts, budget>>

(* Mutant: the devices are left to the kernel.                             *)
RemoveNothing(t) ==
  /\ pc[t] = "remove"
  /\ Answer(t)
  /\ UNCHANGED <<array, devices, mounts, budget>>

(* RemovePhysicalDevice deletes the devices that were the map's, and fails *)
(* to flush one that is gone; a map without device goes with it.           *)
Remove(t) ==
  LET l == note[t]
  IN  /\ pc[t] = "remove"
      /\ sd' = [sd EXCEPT ![l] = None]
      /\ dm' = [v \in Volumes |-> IF dm[v] = l THEN None ELSE dm[v]]
      /\ IF sd[l] = None THEN Refuse(t) ELSE Answer(t)
      /\ UNCHANGED <<array, mounts, budget>>

-----------------------------------------------------------------------------
(* Mutant: a target path that is mounted is mounted once more.             *)
CheckForgetsMount(t) ==
  /\ pc[t] = "check"
  /\ IF staging[req[t].volume] = None THEN Refuse(t) ELSE Continue(t, "bind")
  /\ target' = [target EXCEPT ![req[t].volume][req[t].pod] = IF @ = None THEN 0 ELSE @]
  /\ UNCHANGED <<array, devices, staging, budget>>

(* Mutant: a target path that exists is taken for a mounted one.           *)
CheckPathOnly(t) ==
  LET v == req[t].volume
      p == req[t].pod
  IN  /\ pc[t] = "check"
      /\ IF target[v][p] # None THEN Answer(t) /\ UNCHANGED target
           ELSE /\ target' = [target EXCEPT ![v][p] = 0]
                /\ Continue(t, "bind")
      /\ UNCHANGED <<array, devices, staging, budget>>

(* NodePublishVolume: the staging path must be mounted, the target path is *)
(* made if need be.                                                        *)
Check(t) ==
  LET v == req[t].volume
      p == req[t].pod
      mounted == target[v][p] \notin {None, 0}
  IN  /\ pc[t] = "check"
      /\ \/ staging[v] = None /\ Refuse(t) /\ UNCHANGED target
         \/ staging[v] # None /\ mounted /\ Answer(t) /\ UNCHANGED target
         \/ /\ staging[v] # None /\ ~ mounted
            /\ target' = [target EXCEPT ![v][p] = 0]
            /\ Continue(t, "bind")
      /\ UNCHANGED <<array, devices, staging, budget>>

(* publishFileSystemVolume.                                                *)
Bind(t) ==
  /\ pc[t] = "bind"
  /\ target' = [target EXCEPT ![req[t].volume][req[t].pod] = @ + 1]
  /\ Answer(t)
  /\ UNCHANGED <<array, devices, staging, budget>>

-----------------------------------------------------------------------------
(* NodeUnpublishVolume.                                                    *)
Exists(t) ==
  /\ pc[t] = "exists"
  /\ \/ target[req[t].volume][req[t].pod] = None /\ Answer(t)
     \/ /\ target[req[t].volume][req[t].pod] # None
        /\ note' = [note EXCEPT ![t] = 0]
        /\ Goto(t, "unmount")
        /\ UNCHANGED <<granted, req, known>>
  /\ UNCHANGED <<array, devices, mounts, budget>>

(* At most three times round: unmount what is mounted.                     *)
Unmount(t) ==
  LET v == req[t].volume
      p == req[t].pod
  IN  /\ pc[t] = "unmount"
      /\ IF target[v][p] > 0 /\ note[t] < 3
           THEN /\ target' = [target EXCEPT ![v][p] = @ - 1]
                /\ note' = [note EXCEPT ![t] = @ + 1]
                /\ UNCHANGED <<pc, granted, req, known>>
           ELSE Continue(t, "removeTarget") /\ UNCHANGED target
      /\ UNCHANGED <<array, devices, staging, budget>>

(* RemoveFileOrDirectory is os.RemoveAll: under a mount it deletes what is *)
(* on the volume, and then fails to remove the mount point.                *)
RemoveTarget(t) ==
  LET v == req[t].volume
      p == req[t].pod
  IN  /\ pc[t] = "removeTarget"
      /\ IF target[v][p] = 0
           THEN target' = [target EXCEPT ![v][p] = None] /\ Answer(t) /\ UNCHANGED data
           ELSE data' = [data EXCEPT ![v] = FALSE] /\ Refuse(t) /\ UNCHANGED target
      /\ UNCHANGED <<lunOf, disk, devices, staging, budget>>

-----------------------------------------------------------------------------
(* Any command may fail, without effect: the handler returns an error.     *)
Fail(t) ==
  /\ pc[t] \notin {"idle", "format"}
  /\ failures < MaxFailures
  /\ failures' = failures + 1
  /\ Refuse(t)
  /\ UNCHANGED <<array, devices, mounts, forced, torn>>

(* The plugin stops and comes back: its locks are in memory.               *)
Crash ==
  /\ failures < MaxFailures
  /\ failures' = failures + 1
  /\ granted' = [t \in Threads |-> None]
  /\ pc' = [t \in Threads |-> "idle"]
  /\ req' = [t \in Threads |-> None]
  /\ note' = [t \in Threads |-> None]
  /\ UNCHANGED <<array, devices, mounts, known, forced, torn>>

(* A pod writes to its volume.                                             *)
Write(v) ==
  /\ staging[v] = v /\ Behind(v) = v
  /\ \E p \in Pods : published[v][p] = "yes" /\ target[v][p] \notin {None, 0}
  /\ data' = [data EXCEPT ![v] = TRUE]
  /\ UNCHANGED <<granted, lunOf, disk, devices, mounts, known, pc, req, note, budget>>

(* ControllerPublishVolume gives the volume a free LUN of the node.        *)
Attach(v) ==
  /\ lunOf[v] = None
  /\ \E l \in Luns : Reached(l) = None /\ lunOf' = [lunOf EXCEPT ![v] = l]
  /\ UNCHANGED <<granted, disk, data, devices, mounts, known, pc, req, note, budget>>

(* ControllerUnpublishVolume, when the volume is known to be unstaged or,  *)
(* the node seeming dead, by force.                                        *)
Detach(v) ==
  /\ lunOf[v] # None
  /\ \/ staged[v] = "no" /\ UNCHANGED <<forced, torn>>
     \/ /\ staged[v] # "no"
        /\ Cardinality(forced) < MaxForced
        /\ forced' = forced \union {v}
        /\ torn' = (torn \/ \E t \in Threads : req[t] # None /\ req[t].volume = v)
  /\ lunOf' = [lunOf EXCEPT ![v] = None]
  /\ UNCHANGED <<granted, disk, data, devices, mounts, known, pc, req, note, failures>>

(* multipathd builds maps of its own accord, and may notice that a LUN     *)
(* reaches another volume than it did.                                     *)
Multipathd ==
  /\ \/ dm' = [v \in Volumes |-> Built(v)] /\ UNCHANGED sd
     \/ \E l \in Luns :
          /\ sd[l] # None /\ Reached(l) \notin {None, sd[l]}
          /\ sd' = [sd EXCEPT ![l] = Reached(l)]
          /\ dm' = [v \in Volumes |->
                      IF v = Reached(l) THEN l ELSE IF dm[v] = l THEN None ELSE dm[v]]
  /\ UNCHANGED <<granted, array, mounts, known, pc, req, note, budget>>

Step(t) ==
  \/ Rescan(t) \/ Find(t) \/ Reload(t) \/ NotFound(t) \/ Probe(t) \/ Format(t) \/ Mount(t)
  \/ UnmountStaging(t) \/ Slaves(t) \/ Flush(t) \/ Remove(t)
  \/ Check(t) \/ Bind(t) \/ Exists(t) \/ Unmount(t) \/ RemoveTarget(t) \/ Fail(t)

Next ==
  \/ \E t \in Threads : Call(t) \/ Step(t)
  \/ \E v \in Volumes : Write(v) \/ Attach(v) \/ Detach(v)
  \/ Multipathd \/ Crash

Spec == Init /\ [][Next]_vars

-----------------------------------------------------------------------------
TypeOK ==
  /\ granted \in [Threads -> Lock!Request \union {None}]
  /\ lunOf \in [Volumes -> Luns \union {None}]
  /\ disk \in [Volumes -> FsTypes \union {Blank}] /\ data \in [Volumes -> BOOLEAN]
  /\ sd \in [Luns -> Volumes \union {None}] /\ dm \in [Volumes -> Luns \union {None}]
  /\ staging \in [Volumes -> Volumes \union {None}]
  /\ target \in [Volumes -> [Pods -> {None, 0, 1}]]
  /\ staged \in [Volumes -> {"no", "maybe", "yes"}]
  /\ published \in [Volumes -> [Pods -> {"no", "maybe", "yes"}]]
  /\ pc \in [Threads -> Phase]
  /\ req \in [Threads -> Request \union {None}]
  /\ note \in [Threads -> FsTypes \union Luns \union {None, 0, 1}]
  /\ forced \subseteq Volumes /\ torn \in BOOLEAN
  /\ failures \in 0 .. MaxFailures

(* Nothing the node does loses what was written to a volume, neither mkfs  *)
(* nor the recursive removal of a target path, unless a volume is detached *)
(* under the very request that works on it: the checks of GetMpathDevice   *)
(* are long past when mkfs runs.                                           *)
DataKept ==
  [][\A v \in Volumes : data[v] /\ ~ data'[v] => torn]_vars

(* What is mounted at a volume's staging path is that volume, however its  *)
(* LUN was used before.                                                    *)
StagesItsOwn ==
  torn \/ \A v \in Volumes : staging[v] \in {None, v}

(* While a volume is reported staged, no work on another volume takes its  *)
(* mount, its map or its device away.                                      *)
StagedStays ==
  torn \/ \A v \in Volumes \ forced :
            staged[v] = "yes" => staging[v] = v /\ Behind(v) = v

(* A target reported as published is mounted, once, until somebody asks to *)
(* unpublish it; one reported as unpublished is gone.                      *)
PublishedIsMounted ==
  \A v \in Volumes, p \in Pods :
    /\ published[v][p] = "yes" => target[v][p] = 1
    /\ published[v][p] = "no" => target[v][p] = None

(* A volume reported as unstaged has left no mount on the node and, as     *)
(* long as none was detached by force, no map and no device for the LUN's  *)
(* next user.                                                              *)
UnstagedLeavesNothing ==
  \A v \in Volumes :
    staged[v] = "no" =>
      /\ staging[v] = None
      /\ forced = {} => dm[v] = None /\ \A l \in Luns : sd[l] # v
=============================================================================
