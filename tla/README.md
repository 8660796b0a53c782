# A formal model of the IBM block storage CSI driver

This directory holds TLA+ specifications of the driver in `src/`, the TLC
configurations that check them on small instances, and theorems about them with
proofs checked by TLAPS. Paths below are relative to the repository; `svc`
stands for `controllers/array_action/array_mediator_svc.py` and `csi` for
`controllers/servers/csi/csi_controller_server.py`.

1. [The system](#1-the-system)
2. [What is modelled](#2-what-is-modelled)
3. [The runs](#3-the-runs)
4. [The proofs](#4-the-proofs)
5. [Where the code and its documentation disagree](#5-where-the-code-and-its-documentation-disagree)
6. [What is not modelled](#6-what-is-not-modelled)
7. [The plan](#7-the-plan)

## 1. The system

The driver lets Kubernetes create, delete, snapshot, clone, expand, attach and
mount block volumes on IBM (and, in this fork, NetApp) arrays. It is three
programs.

* **The controller** (Python, `controllers/servers/csi`, `controllers/array_action`)
  is a gRPC server with a pool of worker threads. Each request is one call of a
  handler, under a lock of its own, that asks the *storage agent* of the array for
  a *mediator* (a logged-in connection) and sends it queries and commands.
* **The node plugin** (Go, `node/`) runs on every worker node: it discovers the
  devices of a volume, stages a file system on it and binds it into pods.
* **The host definer** (Python, `controllers/servers/host_definer`) watches the
  cluster and defines every node as a host on every array it may use.

The orchestrator (kubelet, the external provisioner, attacher and snapshotter)
retries every call until it is answered OK, after timeouts too, so any prefix of a
handler may have run when the next call comes, and after a restart the handler
before it is simply gone. There is no journal: what is on the array or on the
node is all the driver ever knows of its own past. That is what makes this code
hard, far more than any of its single calls.

| Component | State it keeps | Operations | What makes it hard | What makes it correct |
|---|---|---|---|---|
| CSI controller service, volumes and snapshots (`csi`) | none; the array's vdisks and mappings are its state | CreateVolume, DeleteVolume, CreateSnapshot, DeleteSnapshot, ControllerExpandVolume | sequences of commands that fail or stop anywhere and are repeated; creations lock a name and the rest an id | what was reported exists, and has the data it was asked for; what was reported deleted is gone |
| CSI controller service, publishing (`csi`, `array_mediator_abstract.py`) | none; the array's host mappings | ControllerPublishVolume, ControllerUnpublishVolume, ValidateVolumeCapabilities | check-then-act on mappings and LUNs, shared with other volumes' requests | what was published is mapped under the LUN reported; single-node volumes reach one host |
| Controller request lock (`controllers/servers/csi/sync_lock.py`) | a set of (attribute, id) pairs | add, remove, by the decorator `csi_method` | one lock per attribute, so names and ids exclude nothing of each other | no two requests under one key, none leaked |
| Array mediators (`svc`, DS8000, SANtricity, SolidFire, XIV) | a connection; DS8000 a cache of volume ids | the array's commands | partial failures, swallowed errors, stale ids | see the services that use them |
| Connection pool (`array_connection_pool.py`) | a queue, a count, locks | get, put, close | threads that wait for connections others lose or fail to open | never more sessions than the array allows, none shared or lost, nobody waits in vain |
| Storage agent (`storage_agent.py`, `servers/utils.py`) | the table of agents, by user and endpoints; the types of arrays it has detected | get_agent, get_mediator, detect_array_type; the choice of a system from the secret | passwords and secrets that change under requests in flight, arrays that answer like others | a request works on the array that has its object, with the credentials it brought |
| Host definer (`servers/host_definer`) | NODES, MANAGED_SECRETS (shared by threads), HostDefinition objects in the cluster, hosts on the arrays | five watchers, retries; define_host, undefine_host with ports, protocols, partitions and I/O groups | shared dictionaries without locks, retries in threads of their own, swallowed API errors | every node has its host while it should, one HostDefinition per node and secret |
| Volume groups, replication (`volume_group_server.py`, `addons_server.py`) | the array's groups and relations | create, delete, modify; enable, promote, demote | multi-step changes without roll-back | the membership that was asked for |
| Node service (`node/pkg/driver/node.go`, `node_utils.go`, `mount`) | mounts, target paths | NodeStageVolume, NodeUnstageVolume, NodePublishVolume, NodeUnpublishVolume, NodeExpandVolume | interrupted and repeated calls; devices that change under a request | no data lost, no volume in another's place |
| Node request lock (`node/pkg/driver/sync_lock.go`) | a map of volumes and LUNs, a channel of tokens | AddVolumeAndLunLock, RemoveVolumeAndLunLock | three resources taken one after the other, with a timeout in between | exclusion, nothing leaked, every call ends |
| Device connectivity (`device_connectivity/`) | the kernel's SCSI devices, multipath maps, NVMe controllers | rescan, find, flush, remove | what udev and multipathd do meanwhile; stale maps | a device is used only when it proves to be the volume |

`PROJECT.json` lists every component, modelled or not, and every hazard of this
code at its line; the hazards are what the properties below are for.

## 2. What is modelled

| Module | Code | Composes |
|---|---|---|
| `NodeLockPromise` | what callers of `sync_lock.go` rely on: a held volume or LUN is held once | |
| `NodeSyncLock` | `node/pkg/driver/sync_lock.go`, every access to the map and the channel | implements `NodeLockPromise` |
| `ConnectionPool` | `array_connection_pool.py` and its user, `StorageAgent.get_mediator` | |
| `FlashCopy` | `csi` create, delete, snapshot, expand; FlashCopy commands of `svc`; `sync_lock.py` | |
| `VolumeMapping` | `csi` publish, unpublish; mapping and LUN allocation of `svc`; `sync_lock.py` | |
| `HostDefiner` | `servers/host_definer`: the start, the watchers, their threads; `define_host`, `undefine_host` | |
| `NodeVolume` | `node.go` stage, publish, unpublish, unstage; `device_connectivity_helper_scsigeneric.go`; the mounter | `Lock == INSTANCE NodeLockPromise` |
| `ArrayService` | what every service of the controller shares: worker threads, the request lock, failures, restarts | |
| `ArrayObjects` | `csi` create, delete, snapshot, expand on any array; the roll-back of `array_mediator_abstract.py` | `ArrayService` |
| `DS8KObjects` | volumes and snapshots of `array_mediator_ds8k.py`, and `ds8k_volume_cache.py` | `ArrayObjects` |
| `XIVObjects` | those of `array_mediator_xiv.py` | `ArrayObjects` |
| `SANtricityObjects` | those of `array_mediator_santricity.py` | `ArrayObjects` |
| `SolidFireObjects` | those of `array_mediator_solidfire.py` | `ArrayObjects` |
| `SnapshotFunction` | those of `svc` with the snapshot function of volume groups (`virt_snap_func`) | `ArrayObjects` |
| `PartitionObjects` | those of `svc` in a partition | `ArrayObjects` |
| `ArrayMappings` | `csi` publish, unpublish on DS8000, XIV, E-Series and SolidFire | `ArrayService` |
| `VolumeGroups` | `volume_group_server.py`; volume groups of `svc` | `ArrayService` |
| `Replication` | `addons_server.py`; remote copy and replication policies of `svc` | `ArrayService` |
| `ArrayHosts` | `host_definer_server.py`; hosts, ports, partitions and I/O groups of `svc` | `ArrayService` |
| `Routing` | `storage_agent.py`; systems, topologies and ids of `servers/utils.py` | `ArrayService` |
| `Arrays` | the controller: a behaviour is one of the services above | all of them |

`XProofs` holds the theorems about `X`, `MCX` its TLC instance. Those about the two
shared resources `NodeSyncLock` and `ConnectionPool` are in `SharedProofs`. Those about
`Arrays` are in three: `ArraysProofs` has the lemmas on what all services share, on
routing and on the volumes and snapshots of SolidFire, E-Series, XIV and a partition;
`ServicesProofs`, which extends it, the theorems of publishing, groups, replication,
hosts and agents; and `ObjectsProofs`, which extends it too, those of volumes and
snapshots, with the lemmas on the other two types of arrays. A definition
marked *Mutant* is a plausible bug, kept beside the definition it would replace
to show that a property notices it; no specification uses it.

**NodeSyncLock.** Each thread is a gRPC handler. `AddLunLock`, `AddVolumeLock`
and `PutToken` are the steps of `AddVolumeAndLunLock`, `TokenTimeout` and
`UndoLunLock` its error paths; `RemoveLunLock`, `TakeToken` and
`RemoveVolumeLock` those of the release. `locked` is the handler at work. A map
access is atomic (it is a `sync.Map`), the check and the insertion are one
`LoadOrStore`, and the channel is a count of tokens up to `MaxInvocations`.

**NodeLockPromise.** Which requests hold a volume and a LUN, and that a hold
starts only when nobody else holds either; the abstract specification that
`NodeSyncLock` implements, and the lock `NodeVolume` takes, so that the node
service is checked against the promise and not against the lock's steps.

**ConnectionPool.** Each step is one access to the shared queue or the shared
count, or one call on a connection: `Poll`, `Inspect`, `DropDead`, `Disconnect`,
`Reserve`, `Create`, `CreateFailed`, waiting, `Put`, `PutBack`, and the destructor
as `Close` and `CloseOne`. `Die` is the array dropping a session. All callers of
`get` wait without a timeout; the workers in `TimedWorkers` model what the
method offers and nobody uses, so that `WaitTimeout` is checked as well.

**FlashCopy.** The array is a function from vdisk ids to names and a function
from targets to FlashCopy mappings; `copied` says what data a vdisk has on its
own, `acked` and `gone` what the orchestrator was told. A request runs through
`Find`, `CheckSource` (the retried CreateVolume), `MakeVolume`, `ReadBack`,
`CopySource`, `MakeMap`, `StartMap` and the roll-backs `UndoMap`, `UndoVolume`,
or through `Look`, `RemoveMaps`, `StopMap`, `RemoveMap`, `RemoveVolume` for
deletion, and `Expand`. `Fail` makes the command at hand fail without effect,
with what the code then does; `Crash` restarts the controller: every request and
lock is lost, the array stays. Volume names and snapshot names are different
sets because the provisioner prefixes them (`pvc-`, `snapshot-`). A command the
array is asked for out of place (`stopfcmap` on a mapping that is not running) is
taken to do nothing; `rmvolume` and `expandvdisksize` are refused while the vdisk
has mappings.

**VolumeMapping.** `lunOf[v][h]` is the array's host map. A publish reads the
node (`ReadNode`, `NodeUnreadable`), the mappings (`Lookup`), the host
(`FindHost`), chooses a LUN (`Choose`, with `LastLun` and `FreeLuns` as the code
computes them) and makes the mapping (`Map`); LUNs taken meanwhile lead to
`Retry` and finally to `GiveUp`. `HostDefiner` creates hosts and removes them
while they have no mapping, which is what `rmhost` without force allows, and
`DeleteVolume` takes volumes away. `Fail` is a command that fails or a server
that stops; in `LoseAnswer` the command has its effect and the answer is lost.
`Wanted` bounds which volumes are published where.

**HostDefiner.** The cluster is `driver` (what the CSINodes list), `pods`,
`initiators` (the nodes' annotations), `labelled`, `classes` and the
HostDefinitions `hd`; the array is `host`, the ports of each node's host; the
definer's memory is `nodes` (NODES), `count` (MANAGED_SECRETS) and `unmanaged`.
`AddInitialNodes`, `AddInitialClasses`, `AddInitialDeletions` and `StartWatchers`
are the start, `CsiNodeModified`, `NodeModified`, `IoGroupModified`,
`SecretModified`, `ClassAdded` and `ClassDeleted` the watchers' handlers. Each
runs the loop of `_create_definition` (`PickDefine`, `Define`, `Record`, `Write`,
`Status`), which reads NODES before, in and after the call of the array. A thread
started for a changed CSINode takes `Decide` and defines anew (`PickChanged`) or
undefines (`PickUndefine`, `Undefine`, `Forget`, `RemoveLabel`, `Pop`). A write of
a HostDefinition that is pending starts a thread (`WriteSeen`) that runs `Try`,
`Define` and `Patch` or `Undefine`, `Settle`, and in the end `GiveUp`. The
HostDefinition watcher itself has no state and is part of the write it sees; how
late it sees it is how late the new thread takes its first step. `Break` is an
exception that nothing catches: a watcher's thread is then gone. An entry of
NODES that disappears, or a dict whose size changes, has that effect. `Define` is
the whole of `define_host`: `Defined` says what it ends with when no command fails,
and `LeftByDefine` what a failure on the way leaves. A host that is found may be
given other ports, or be deleted and created anew (for its partition or protocol,
which the module leaves open, or because ports could not be changed); when all ports
are refused (`Refusable`), or the creation fails, it is gone and the answer is an
error. The history variable `lost` remembers the pairs whose host went that way.

**NodeVolume.** The kernel and the node are part of the state: which volume is
mapped under which LUN, the SCSI devices, the multipath maps and the device
behind each, the file system and the data of each volume, what is mounted at
staging and target paths. A stage is `Call`, `Rescan`, `Find` (the map by the
volume's WWN and the check of SCSI inquiry against it, with `Reload` and
`NotFound`), `Probe`, `Format`, `Mount`; an unstage `UnmountStaging`, `Slaves`,
`Flush`, `Remove`; publish and unpublish `Check`, `Bind`, `Exists`, `Unmount`,
`RemoveTarget`. `Write` is a pod at work, `Attach` and `Detach` are the
controller, where a detach by force (`MaxForced`) ignores what the node still
uses, `Multipathd` is the daemon that builds maps from new devices, `Fail` a
command that fails, `Crash` a restart of the plugin, after which mounts and
devices are as they were and requests and locks are gone. A map has one path; the
array is one, so a LUN names one volume at a time. `EndsWith`
says which LUNs end like others when written out (11 like 1), for `ValidateLun`
compares text. `torn` marks volumes detached
by force under a request of their own: nothing the node does could then be right,
and the properties leave those volumes out (without that exclusion TLC finds the
counterexamples at once).

**ArrayService, ArrayObjects, Arrays.** A request enters with `Enter` under the
lock of its decorator (`LockOf`), a thread's place is `pc`, what it remembers
`local`; `array` is the array's own state, `memory` what the pod keeps between
requests, `known` what the orchestrator asked for and was told. A step is one
command that changes the array, or the queries between two such commands. A
command may fail without effect, and `Crash` drops threads, locks and `memory`.
`ArrayObjects` has the handlers of `csi` up to the mediator: `CallObjects`,
`Accepts` (a creation that meets an object of its name), `Report`, `Deleted`,
`Expanded`, and the copy with its roll-back (`CopySource`, `RollBack`,
`TryAgain`). The types of array add the rest under places of their own, so that
each has its sequence of commands, its leftovers and its look-ups. `Arrays` puts
the services side by side: a behaviour is one of them, as a controller in front
of one array.

*The orchestrator.* A name stands for one fixed request, as the sidecars derive it
from the claim's UID; `Undisturbed` says that nobody deletes the source of a copy
that is being made, which the finalizers of the provisioner and the snapshotter
see to (DS8000 does not need it). An object whose deletion was asked for is never
used again.

**DS8KObjects.** `memory` is the volume cache: a get by name (`DS8KFind`) adds or
drops an entry as the code toggles it, and a stale one raises
`ObjectNotFoundError`. Identifiers are reused after a deletion. Copies and
snapshots are FlashCopy relations.

**XIVObjects.** A copy formats the target, copies and resizes it (`XIVCopy`,
`XIVResize`); deletion and expansion look the name up first (`XIVLook`). Gen3
does not show the source of a volume.

**SANtricityObjects.** A snapshot is an image in a group that may be shared; the
newest image is taken for the one just made, a deletion takes the group away, and
a clone of a volume is a blank volume.

**SolidFireObjects.** Names may repeat; deletion and expansion do not reach the
array, and a look-up that fails counts as a missing volume.

**SnapshotFunction.** A volume is made from a snapshot through a temporary volume
group (`MakeFromSnapshot`, `ReadGroupVolume`, `LeaveTemporaryGroup`,
`RemoveTemporaryGroup`, `RenameVolume`), a clone from a temporary snapshot
(`AddTemporarySnapshot`, `RemoveTemporarySnapshot`); each prefix of that is left
by a failure whose undoing fails too, or by a restart.

**PartitionObjects.** A snapshot is a volume like a clone, made from a temporary
snapshot of the volume's group, which the system discards after five minutes
(`DiscardSnapshot`).

**ArrayMappings.** `ReadMappings` and `IsTaken` are the check of
`map_volume_by_initiators`, then XIV chooses a LUN of its own (`ChooseLun`,
`MapByLun`), the others leave it to the array. E-Series maps to the cluster of the
host (`Target`). SolidFire reports no mappings, so it enforces no exclusive access.

**VolumeGroups.** `ReadMembers` reads the membership, then `AddNext` and `Join`
add one volume after the other and `LeaveNext` removes one after the other.
In a partition `MayJoin` asks nothing, so a request takes volumes from other groups.
`known.contested` are volumes another request was after at the same time.

**Replication.** `GetToEnable`, `GetToDisable` and `GetToSwitch` are the handlers
with their look at what there is; the mirror steps follow the relationship's
states, the others detach, attach, free and produce a group under a policy. The
commands whose errors are only logged go on whether the link works or not.
`OtherSide` is the other system switching roles, and the link.

**ArrayHosts.** One node whose ports and settings (connectivity type, partition,
I/O groups) a user changes. A definition finds a host by the initiators recorded
for the node (`FindHost`), or creates one (`NewHost`, in a partition after trying
each port on a host of its own: `TryPort`, `UntryPort`); it moves ports one by one
(`RemovePorts`, `AddPorts`), switches the protocol, recreates the host in another
partition, and adjusts the I/O groups. There is no lock: two calls for the node
interleave at every command. `rmhost` and `chhost` refused because of mapped
volumes are among the failures.

**Routing.** `Choose` picks a system of the secret by topology for CreateVolume,
by the system in the identifier for every other request; `DetectArrayType` probes
the ports and remembers the answer, `GetAgent` takes the agent from the table or
replaces it when the password differs, `ServeRequest` is the request at work.
DeleteVolume stands for every request that carries an identifier.
`ChangeRouting` is a user who changes the topologies in the secret or the
password of an array.


## 3. The runs

All bounds are constants named in the `.cfg` files. A run marked *violation*
checks one property that the repository's own words promise and the code does
not keep (section 5).

| Run | Instance | What it shows |
|---|---|---|
| `node_lock` | 3 threads, 3 volumes, 2 LUNs, 2 tokens | no key without an owner on any error path (`NoOrphanKey`); every call returns (`RequestsReturn`); the lock implements the promise of exclusion per volume and per LUN (`ImplementsPromise`) |
| `pool` | 3 threads, one of them timed, 4 connections, pool of 2 | no connection is in two places (`OnePlace`); a thread that waits without a timeout goes on, or the pool gets an idle connection or room (`WaiterIsOffered`); the destructor ends (`CloseEnds`) |
| `pool_stranded` | the same without timeouts | violation of `WaitsOnlyWhileFull` |
| `flashcopy` | 2 threads, 3 names, 3 vdisks, 1 failure, 1 restart | what is reported exists until its deletion is asked for (`ReportedExists`), has its data unless a restart came in between (`ReportedHasData`), deleted volumes are gone (`DeletedVolumeGone`), a failed CreateSnapshot leaves nothing (`SnapshotRolledBack`) |
| `flashcopy_unstarted` | no failure, 1 restart | violation of `HasDataAfterRestart` |
| `flashcopy_delete` | 1 failure, no restart | violation of `DeletedSnapshotGone` |
| `mapping` | 2 threads, 3 volumes, 2 hosts, 2 LUNs | `PublishedIsMapped`, `ExclusiveAccess`, `LostOnlyToRivals` (a publish gives up on LUNs only after as many others got theirs), `NoAvailableLunMeansFull`, `ReleasedIsUnmapped` |
| `mapping_unreadable` | the same | violation of `UnpublishUnmaps` |
| `host_definer` | 1 node, 1 secret, 2 ports, 2 names, 3 threads, 2 tries; 2 changes, 1 failure or refusal of ports, 1 lost event or restart | a node whose deletion is forbidden keeps its HostDefinitions, and its host but for a definition that fails to make it anew (`AvoidsDeletion`); a HostDefinition of such a node that is Ready has a host, or had one that a definition deleted since (`ReadyHasHost`); no step leaves a pending one without a thread that tries it, but for a missed event or a pair that has another, Ready one (`PendingIsTried`) |
| `host_definer_ready` | 2 threads, no refusal, lost event or restart | violation of `ReadyIsDefined` |
| `node_volume` | 2 threads, 2 volumes, 2 LUNs, 1 pod, 1 forced detach, 1 failure or restart | data once written is never lost (`DataKept`), a volume's staging path shows that volume (`StagesItsOwn`), a staged volume keeps its device (`StagedStays`), a published one is mounted (`PublishedIsMounted`), an unstaged one leaves no map or device (`UnstagedLeavesNothing`) |
| `arrays` | 2 threads, 1 failure or restart; 3 identifiers, 2 volume names with sizes 1 and 2, 2 snapshot names; 4 requests for objects, mappings and replication, 5 for groups, 2 for hosts, 3 for routing | what was reported stays and is what was asked for (`ReportedStays`, `ReportedAsAsked`), what was reported deleted is gone (`DeletedIsGone`), names are not made twice (`NameOnce`); `ExclusiveIsMappedOnce`, `AccessAsAnswered` for publishing; `MembersAsAnswered`, `ReplicatedAsAnswered`, `HostsAsAnswered` for what the other services answered OK; `ServedByItsOwn`: the right array, type and password. Each states the exceptions the mediators make |

*Why the bounds are enough.* Two threads give every interleaving of two
requests; three are used where a third changes something (a waiter, an owner and
a thief of the lock or the pool). Three vdisks are a source, its copy and the
copy's copy, the longest chain that behaves differently from the next. Two LUNs
with a host limit of 1 make the host full, and `MaxTries = 3` lets a publish lose
twice and still win. One failure is enough to reach every error path, and one
restart every leftover; two of each only combine leftovers of different requests.
`SnapshotRolledBack` holds because fewer commands fail than the roll-back has
tries, which is what the retry decorator promises and no more. `mapping` has one
node that cannot be read, once, and `ReleasedIsUnmapped` speaks of the states
before that. In `host_definer` the actors compete for one pair of a node and a
secret, as nothing is shared between pairs but NODES, whose size the single node
changes too; a deregistration and a registration with other ports are two changes,
the least that makes retries, watchers and undefinitions meet. One failure is a
definition that stops half way, loses its answer or is refused some or all of its
ports. The three threads are two retries of two HostDefinitions of the pair and one
started for a CSINode. A lost event and a restart are alternatives
(`LostOrRestarted`): both together were checked once (2.8 million states, without
error). Where no thread is free to be started, the write that would start it waits.

In `arrays` a first request, its retry and two others are the most that one
object's story needs: a source, a copy, a deletion and whoever meets them; a group
needs a fifth, as membership takes two requests to lose. Two calls for one node
are all that meet on its hosts (with three the run takes too long for every day;
it was checked once, 3.2 million states, without error). Three requests in
`Routing` are one that makes a volume and two that look for it. Three identifiers
are a source, a copy and a leftover, sizes 1 and 2 one that fits and one that does
not, three hosts a cluster of two and one apart, ports `f1`, `f2`, `i1`, `n1` and
two sets of them a change of ports and a change of protocol at once. Routing has a
DS8000 that answers on the port of Spectrum Virtualize as well and a Spectrum
Virtualize system with two addresses, two zones and one change of the secret.
Threads, snapshot names and the hosts of the cluster are interchangeable in all
modules, which the symmetry says. The requests are bounded for each service in
`MaxCalls`, `MaxFaults` bounds failures and restarts together.

*Fairness.* `FairSpec` gives every thread weak fairness on its own steps: a
handler that can run does run, which is what goroutines and Python threads do.
In `NodeSyncLock` a handler also ends its work, as every command it runs is
bounded by a timeout (`executer.go`); in `ConnectionPool` a thread that uses a
connection puts it back or drops it, because `get_mediator` is a context manager.
Nothing is assumed of the orchestrator (calls may never come), of the array
(connections may die) or of the order in which waiters are served. The other
modules state safety only: a failing array may keep any of their requests from
ever succeeding, and what is left to the orchestrator's retries is not a promise
of this code.

Some theorems state more than the runs check: `MutualExclusion`, `LunExclusion`,
`OwnedKeysPresent` and `TokenAccounting` of the node's lock, and `CountExact`,
`SessionsBounded` and `PutKeepsConnections` of the pool are proved for every
instance (section 4).

Deadlock is not checked in `pool`: a retired pool that was closed has no further
step, and a stranded waiter is a finding of its own; nor in `host_definer`, where
the cluster stops changing. All other passing runs check it.

## 4. The proofs

The theorems hold for every value of the constants that satisfies the module's
named `ASSUME`, in particular any number of threads.

**SharedProofs: the node's lock.** `TypeCorrect`, `VolumesExclusive`, `LunsExclusive`,
`NoKeyOrphaned`, `TokensCounted`, `ReleaseNeverBlocks` and
`LockImplementsPromise`. The inductive invariant joins the type, the exclusion,
the two directions between keys in the map and their owners, and the count of
tokens: exclusion alone is not inductive, as a key could be removed by a thread
that does not own it, and the count needs that every token has one owner. Each
step changes the set of token owners by at most one element, which is where
`Cardinality` is used. The refinement maps a thread to the volume and the LUN it
owns, and every step to a grant, a release or a stutter.

**SharedProofs: the pool.** `PoolTypeCorrect`, `CountIsExact`,
`PutKeepsConnections`, `ConnectionsExclusive`, `SessionLimit`. The count is compared with the idle
connections, those in hand and the places reserved by a running login; `put`
never discards because a full queue would contradict that count. The invariant
adds that idle and held connections are disjoint and that the queue has no
duplicates, from which the session limit follows.

**FlashCopyProofs.** `TypeCorrect`, `ReportedStays`, `DeletedIsGone`,
`RequestsExclusive`, `RollBackUnreported`, `CopiesHaveData`,
`FailedSnapshotLeavesNothing`. The difficulty is that a roll-back and
a deletion name vdisks, that creations lock names and deletions ids, and that a
restart drops all locks. The invariant says that a creator past its lookup is the
only owner of its name, that the vdisk it made was never reported, that a
deletion works on one that was, and that a reported vdisk keeps its name. So a
roll-back meets no reported vdisk, whatever fails and however often. After a
restart the creator is gone and its vdisk is found by name, or it is nobody's.

`CopiesHaveData` and `FailedSnapshotLeavesNothing` need more: `CopyInv` follows a
copy from `mkfcmap` to the answer. `MapInv` says which mappings there are and in
which state at each place of a request, `CopierInv` what a request has made so far,
`DataInv` that a copy without a mapping has its data unless a restart came between,
`RolledBackInv` that what nobody works on was reported or is left over from a
restart. The two theorems bound the failures by the tries of the roll-back,
`failures <= RollbackTries` and `failures < RollbackTries`, because a roll-back that
has used its tries gives up and leaves a vdisk with an idle mapping, which a retry
then reports. The bounds are sharp: with one failure more TLC finds each property
violated, without any restart.

**VolumeMappingProofs.** `TypeCorrect`, `PublishedStaysMapped`,
`ExclusiveAccessIsKept`, `LunsAreLostToRivals`, `UnpublishedIsUnmapped`,
`NoAvailableLunWhenFull`. The lookup and the mapping of a publish are several
steps apart, so exclusive access is not inductive: the invariant adds that a
request past its lookup still knows the mappings of its volume, which the lock
of the volume preserves, and that a request about to make an answer false has
withdrawn it. For the retries it adds that a chosen LUN that is taken was taken
by a rival not yet counted; that rests on `FreeLunsAreFree`, the lemma about
`_get_free_lun`. Its arithmetic needs that the highest LUN of an array is
`MAX_LUN_NUMBER` plus whole increments, which the assumption says. The greatest
used LUN exists because the order of the subsets of a finite set is well-founded.

**NodeVolumeProofs.** `TypeCorrect`, `StagesOwnVolume`, `StagedVolumeStays`,
`PublishedTargetIsMounted`, `UnstagedIsClean`, `NoDataLost`. A stage and an unstage
find the volume's map and only then probe, format, mount or remove, with the
kernel, the daemon, other volumes' handlers and the controller's detaches in
between, so none of these properties is inductive. The invariant starts from the
promise of the request lock (`LocksHeld`, `LocksExclusive`) and says, of a handler
past its look-up, that the map still reaches its volume and that what it formats
is blank (`FoundInv`); of a staged volume, that its map does (`StagedInv`); and, as
long as nothing was detached by force, that no device or map outlives the LUN it was
made for (`DeviceInv`), which is what an unstage needs to leave nothing. What the
orchestrator may know while a request is out (`OrchestratorInv`) keeps a volume
from being unstaged under a pod. `torn` is the exception of section 2.

**HostDefinerProofs.** `TypeCorrect`, `ReadyHostExists`, `LabelledAreKept`,
`PendingHasThread`. The watchers' threads share NODES, the HostDefinitions and the
array without a lock and act on what they read earlier. The invariant says what
each has in hand at each place (`PlaceInv`), that a HostDefinition a thread has
named never becomes another pair's (`NameInv`), that no thread that undefines has a
node that must be kept (`SafeInv`), which the order of reading and acting gives,
and that one that has defined such a node without an error has left a host, which
only another definition can have deleted since (`DefinedInv`). That a definition
which leaves no host always answers an error is a lemma of its own (`DefinedIs`): it
is why a phase Ready is never written for a host that was lost in the same
definition, and why the exception of `ReadyHasHost` is no wider than `lost`.
`AvoidsDeletion` and `PendingIsTried` are action properties from the
same invariant. The second was first stated of states, as "a pending HostDefinition
has a thread"; larger instances refuted that, and it now names the two ways a step
of the code loses the thread.

**ArraysProofs and ServicesProofs.** The services that `Arrays` puts side by side share
the request lock and the form of a step, so the proof has a common part: `Locked` says
that the locks taken are those of the requests in hand and no two are the same, `Moves`
what any step does to them, and `RequestsAreLocked` follows for all services.
`ServicesAreTyped` is the type of everything but volumes and snapshots. `ServiceInv`
then has an invariant for each of five services.

* `MappedOnce`, `AccessIsAsAnswered`: a request that has looked at the mappings of its
  volume still knows them when it maps (`MappingSeen`), which the volume's lock
  preserves; a mapping is of a host or of its cluster.
* `GroupsAreAsAnswered`: what a request has read of a group, what it still has to add
  or remove, and that every volume it may lose was wanted by another (`UpdateInv`,
  `TakeInv`, `WantedInv`).
* `ReplicationIsAsAnswered`: where a handler is, the relation is in a state that the
  handler has seen or made, though the other side and the link change it.
* `HostIsAsAnswered`: there is no lock, and two calls for the node meet at every
  command. While every call was answered OK and those that ran together were the
  same (`Orderly`), each thread's work in hand neither removes what is asked for nor
  adds what is not (`Doing`); the host has ports of one type (`Uniform`); and while a
  call runs, either nobody has decided anything yet and the recorded ports still lead
  to the host (`AsBefore`), or a thread will delete it (`Dooms`), or the host is as
  asked but for what some thread has still to do (`Becoming`: `PortsDue`,
  `GroupsDue`). Between calls the recorded ports lead to it (`Settled`). Every command
  is `Gentle`: it deletes the host, makes it as asked or brings it nearer, so it
  disturbs no other thread's part. The last thread to answer finds nothing due.
* `ServedByOwnArray`: the identifiers that were reported name systems of the array
  that has the volume (`ToldInv`), the types and agents that are remembered are of
  their array (`MemoryInv`), and a request keeps to the system it has chosen from its
  own, maybe older, secret (`Routed`).

**ArraysProofs and ObjectsProofs.** `ObjectsAreTyped`, `ReportedObjectsStay`,
`ReportedObjectsStayOnAnArray`, `ReportedObjectsAreAsAsked`, `DeletedObjectsAreGone`,
`NamesAreTakenOnce`: the properties of the services for volumes and snapshots, for any
number of threads, names, identifiers, requests, failures and restarts. The services
share one part, `ObjectsInv`: what the orchestrator was told answers what it asked
(`KnownInv`), a request in hand is one it has made (`RequestInv`), what a thread has
made was told to nobody and what it deletes or expands was told (`RoleInv`), and a
source stays while something is made from it (`SourceInv`). As the locks keep two
creations under one name and two requests for one object apart, what one thread has
in hand no other deletes (`HandsDiffer`, `MakersDiffer`), and `Obj` says of each
object that what was reported is there as asked and what was reported deleted is not.
No array's properties follow from that alone; each adds what its mediator leaves behind:

* `SolidFireInv` has little to add, as nothing is ever removed there.
* `PartitionInv`: a name is taken once and by what was asked for under it, and a
  temporary snapshot has the source of the request of its name, so that a retry that
  finds one clones the right volume.
* `XIVInv`: a snapshot goes with its volume, so none may be left when a volume is
  removed (`XIVHand` at `remove`), and the source in a volume's data is the one asked
  for (`XIVData`).
* `FunctionInv`: while a volume is made in its temporary group, that group has no
  other (`FunctionApart`), the one it has is from the request's source
  (`FunctionData`), and the undoing of a failure meets only that.
* `SANtricityInv`: the newest image of the groups a request has read is younger than
  the request, and so is any image that stands for its name (`Young`, `SinceInv`); it is
  in somebody's hand at most once before it is reported (`SANtricityMade`), and it is gone only
  if it or another of its group was deleted.
* `DS8KInv`: what a request is to remove the relations of stays safe to remove
  (`IsSafe` in `DS8KHand`), a relation that is finished shows its data (`DS8KData`),
  and as long as nothing failed the cache has the object of each name in it unless
  its creator is still at work (`CacheRight`), which is what makes names unique there.
* `VolumesInv`, for `Routing`: a creation is on its way to the system its name's zone
  leads to (`Settles`, `AtHome`), so a retry meets the array of its predecessor as
  long as the topologies stay; an identifier that was answered says the type and the
  system exactly (`ToldThere`), and its volume goes only when its own deletion is
  served.

Each of these was checked by TLC before it was proved: together, as `AnsweredInv`, on
the instance of `arrays` (1.3 million states), `DS8KInv` with three failures or
restarts (564 thousand) and `VolumesInv` with two of them and two changes of the secret
(5.3 million).

`ObjectsAreTyped` and `ServicesAreTyped` together give `TypeOK` for every service.

`ReportedObjectsStay` has a hypothesis, `SystemsApart`: no two systems of a config are
the same array. The code does not check it, and the documentation uses an entry of the
secret to identify a storage system
(`docs/content/configuration/creating_secret_topology_aware.md:12`). Without it, and
with topologies that change between a CreateVolume and its retry, one volume is
answered under two identifiers, and the deletion of the one takes the other's volume:
TLC finds that when both systems of the instance are one array. It concerns only
`Routing`; `ReportedObjectsStayOnAnArray` is the theorem for all other services,
without hypothesis.

The assumptions on the constants say that `None` is no other value, that orders and
bounds have their types, that there are volume names and identifiers, and what a
setting or a request is made of. The bounds on
requests, events, failures and restarts are constants too: the theorems hold for
every value of them.

Only model-checked:

* liveness (`RequestsReturn`, `WaiterIsOffered`, `CloseEnds`): liveness under
  fairness is out of this prover's reach;
* whether the runs of section 5 are violated: those refute a property, on an instance.

Every other property of a passing run is stated by a theorem.

## 5. Where the code and its documentation disagree

* `pool_stranded`: when a login fails, `get` lowers the count and raises, but a
  thread that waits on the queue because the pool was full is not woken. With no
  other thread it waits for ever on a pool with room
  (`array_connection_pool.py:102`).
* `flashcopy_unstarted`: a restart between `mkfcmap` and `startfcmap` leaves an
  idle mapping. The retry takes it for the copy, because `idle_or_copied` does not
  tell the two apart, and answers OK for a volume without data (`csi:170`,
  `svc:426`).
* `flashcopy_delete`: `_delete_volume` removes the mapping before the vdisk. If
  `rmvolume` then fails, the retry no longer recognises the snapshot and answers
  OK, so the vdisk is left for ever (`svc:1089`).
* `mapping_unreadable`: a node that cannot be read has no initiators; the unpublish
  finds no host for them, takes that for done and leaves the volume mapped
  (`controllers/servers/utils.py:347`).
* `host_definer_ready`: a definition that fails after the first port is recorded
  with all initiators of the node. The retry compares those with the node's, finds
  nothing to change and reports Ready for a host without the other ports
  (`storage_manager/host_definer_server.py:279`).

Observed while reading, without a property:

* A HostDefinition or CSINode that changes between two watches is not seen, as
  each watch starts from the version of a fresh list that is not looked at
  (`host_definition_watcher.py:19`, `csi_node_watcher.py:22`): a pending one then
  waits for its next change or a restart.
* The CSINode watcher reads the node of every event without catching a missing one
  (`controllers/servers/utils.py:117`), so an event of a node that is gone ends its
  thread.
* After its last try the retry loop sets the phase to Error even if that try
  succeeded (`host_definition_watcher.py:56`); `GiveUp` models it.
* A definition may delete a host whatever the label or `allowDelete` says, which
  `docs/content/configuration/configuring_hostdefiner.md:84` explains as "whether the
  host definer is allowed to delete host definitions on the storage system": it
  deletes the host it found for another partition (`host_definer_server.py:100`), when
  ports in a partition (131) or the protocol (155) cannot be changed, and when the
  array refused every new port (`svc:2255`), and may fail to create it anew. The
  array refuses to remove a host with mapped volumes, so one in use stays.
  `AvoidsDeletion` and `ReadyHasHost` state this exception, and no other.
* The label that blocks deletion is
  `hostdefiner.santricity.block.csi.ibm.com/do-not-delete-definition`
  (`host_definer/settings.py:115`), while
  `docs/content/using/using_hostdefinition_labels.md:15` names
  `hostdefiner.block.csi.ibm.com/avoid-deletion`, which has no effect.
* When a volume cannot be read back after `mkvolume` (`svc:915`) nothing is
  rolled back, and a CreateVolume with a source then answers ALREADY_EXISTS for ever.

What the models of `Arrays` showed, where the code makes no promise that a run
could refute (the properties state these as exceptions, or stop short of them):

* *Retries that can never succeed.* On XIV a restart before `vol_copy`, with the
  snapshot function a temporary group or snapshot that was not removed, on a DS8000
  a plain volume left by a `ValueError` or a restart, in a partition a source that is gone:
  the retry answers ALREADY_EXISTS or an error until somebody cleans up. XIV Gen3
  and E-Series show no source of a copy, so a retried clone always answers so.
* *Answers that are too good.* A restart between XIV's copy and resize leaves a
  volume that is too small and reported OK. The snapshot function compares only the
  name when CreateVolume is retried, and `get_snapshot` returns the requested volume
  as the source, so a snapshot of another volume is not noticed. On a DS8000 a
  snapshot whose relation is removed and whose volume is not is answered OK when
  its deletion is retried. On SolidFire deletion and expansion never reach the array
  (`int()` of the NAA identifier raises).
* *Duplicates.* A failed look-up counts as a missing volume on SolidFire; on a
  DS8000 a stale cache entry makes the name look free.
* *E-Series.* Two snapshots of one volume at a time may get each other's image, or
  one image for two names; deleting one deletes its group, deleting a volume its
  snapshots and what shows them; any failure of a deletion is answered OK;
  `santricity/README.md:23` advertises clones, and a clone of a volume is blank;
  unpublishing one host of a cluster takes the access of the others.
* *Volume groups.* The check whether a volume is in another group and the move into
  this one are two commands, under locks that do not exclude each other: a volume
  may be taken from the group it was just reported in.
* *Replication.* All requests share one lock, as they leave `volume_id` empty.
  Errors of starting, stopping and removing are logged and answered OK. Promoting
  an idle mirror restarts it from the other side by force.
* *Hosts.* A host whose ports were removed and not yet replaced when the call
  stopped is not found again, and its name is taken: later definitions fail until
  somebody repairs it. Two protocol switches at once may delete the host the first
  was answered for; in a partition, a creation may take the other's trial host for
  the real one. `HostsAsAnswered` leaves out calls that differ and run together.
* *Routing.* The type of an array that missed one probe is remembered until the
  restart; an agent's key has no type; a request with an old password drops the good
  agent and fails at its own login, which happens under the one lock of the table.
  One incomplete system in a secret refuses every request that brings it, and a
  secret that changes its form loses the volumes made before. `Routing` keeps the
  form of the secret.
* `array_connection_manager.py` is dead code; the registry of mediators is in
  `storage_agent.py`.

## 6. What is not modelled

* REST and SSH transports, parsing, logging, deployment, generated code and
  telemetry (plugin registration): no state of their own. The SANtricity client
  library is vendored; only its choice of a snapshot group is modelled.
* The arrays' and the kernel's insides: the models have the part of them the code
  can observe, read from how the code uses them.
* In `NodeVolume`: several paths per map, several arrays, raw block volumes,
  NVMe, expansion, and a reboot of the node. `RemoveGhostDevice` touches only
  devices that are not block devices and is outside. A call that finds its lock
  taken is aborted without effect and is left out. A map whose inquiry page has
  no identifier is treated as missing, so an unstage may answer OK and leave it,
  only after a forced detach.
* In `HostDefiner`: secrets with topology, whose nodes the definer moves between
  systems (a node that changes its zone keeps its old host), secrets that are gone,
  failed calls of the cluster's API, lost events of nodes, secrets and storage
  classes, and the unlocked update of a secret's count by two watchers. A
  definition is one step there; its commands are in `ArrayHosts`, which has one
  node and takes the recorded initiators to be the node's after every call.
* In `VolumeMapping` and `ArrayMappings`: NVMe hosts, which have no LUN, and ports
  that move from one host to another. The target ports are looked up before the
  mapping; their absence is an error without effect.
* In `SnapshotFunction`, `PartitionObjects` and `FlashCopy`: HyperSwap volumes, and
  an expansion's rounding.
* In `SANtricityObjects`: names that end alike, and how many images a group holds.
  In `SolidFireObjects`: a prefix of names. ResyncVolume and
  ValidateVolumeCapabilities change nothing; the latter uses its mediator after it
  was returned to the pool (`csi:324`), for an attribute it has already read.
* The system a clone is made on follows the topology of the request, not its
  source, in `Routing` as in the code; copies across systems are left out, as the
  sources of one volume are on one array in the other modules.
* Names whose conversions lose information (the SANtricity suffix) are a hazard
  without a property.

## 7. The plan

Done in this order, the most important behaviour first: the node's lock and its
promise, the connection pool, volumes and snapshots, mapping, the node service,
the host definer's watchers, then the services in front of each type of array.
Next:

1. Topology in `HostDefiner`, raw block volumes and NodeExpandVolume in
   `NodeVolume`, as far as their runs stay within minutes.
