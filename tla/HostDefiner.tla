----------------------------- MODULE HostDefiner -----------------------------
(***************************************************************************)
(* The host definer: the watchers of CSINodes, Nodes, Secrets, storage     *)
(* classes and HostDefinitions (servers/host_definer/watcher), which share *)
(* NODES and MANAGED_SECRETS without a lock, the threads they start, and   *)
(* define_host and undefine_host of host_definer_server.py on an array     *)
(* with hosts found by their ports.  Secrets without topology: each node   *)
(* is managed on each of them.                                             *)
(*                                                                         *)
(* A step of a thread is one call of the array, one write of an object of  *)
(* the cluster with the reads before it, or one access to NODES.  The      *)
(* cluster's API is taken to work; an operation of the array may fail half *)
(* way, lose its answer or be refused some ports (MaxFailures).  Whether a *)
(* host has the protocol and partition asked for is left open.  The        *)
(* cluster changes MaxEvents times; an event may fall between two watches  *)
(* (MaxMissed).                                                            *)
(***************************************************************************)
EXTENDS Naturals, FiniteSets, Sequences

CONSTANTS
  Nodes, Secrets, Ports, None,
  HdIds,       \* names of HostDefinitions; random, so a known one is not drawn
  Workers,     \* the threads that watchers start (as many run at once)
  Tries,       \* HOST_DEFINITION_PENDING_RETRIES
  MaxClasses,  \* storage classes that may refer to a secret
  Refusable,   \* ports an array may refuse: not valid, or assigned elsewhere
  MaxEvents, MaxFailures, MaxMissed, MaxRestarts

VARIABLES
  dynamic,   \* DYNAMIC_NODE_LABELING
  protected, \* the nodes with the do-not-delete label (all: ALLOW_DELETE off)
  driver,    \* the nodes whose CSINode lists the driver
  pods,      \* the nodes where the driver's pod runs, or is to run again
  initiators, \* the ports in each node's annotation
  labelled,  \* the nodes with the manage-node label
  classes,   \* how many storage classes refer to each secret
  queue,     \* the CSINode events that are not handled yet
  hd,        \* the HostDefinitions of the cluster, or None
  host,      \* the ports of each node's host on each secret's array, or None
  lost,      \* history: the pairs whose host a definition deleted, and none has made since
  nodes,     \* NODES: the initiators the definer knows of each node, or None
  count,     \* MANAGED_SECRETS: managed_storage_classes of each, or None
  unmanaged, \* unmanaged_csi_nodes_with_driver
  pc, job,   \* each thread's place, and the loop it is in
  info,      \* the HostDefinitionInfo a thread works on, with the last answer
  events, failures, missed, restarts

config == <<dynamic, protected>>
cluster == <<driver, pods, initiators, classes, queue>>
shared == <<nodes, count, unmanaged>>
local == <<pc, job, info>>
budget == <<events, failures, missed, restarts>>
vars == <<dynamic, protected, driver, pods, initiators, labelled, classes, queue, hd, host, lost,
          nodes, count, unmanaged, pc, job, info, events, failures, missed, restarts>>

Watchers == {"csiNode", "node", "secret", "storageClass"}
Threads == Watchers \union Workers \union {"main"}
Initiators == (SUBSET Ports) \ {{}}

Pending == {"PendingCreation", "PendingDeletion"}
Phases == Pending \union {"", "Ready", "Error"}
HostDefinition == [node : Nodes, secret : Secrets, initiators : Initiators, phase : Phases]

(* A thread that retries has the HostDefinition as the event showed it and *)
(* the tries left; one that defines or undefines looks the name up later.  *)
Info == [name : HdIds \union {None}, node : Nodes, secret : Secrets,
         initiators : Initiators, phase : Phases, tries : 0 .. Tries, err : BOOLEAN]

(* A loop over pairs of a node and a secret.  One over NODES knows its     *)
(* size; one that handles a changed CSINode, the event's initiators.       *)
Job == [kind : {"define", "changed", "undefine", "deletion"},
        todo : SUBSET (Nodes \X Secrets), nodes : SUBSET Nodes,
        size : 0 .. Cardinality(Nodes) \union {None},
        seen : {None} \union Initiators, driver : BOOLEAN]

ASSUME HostDefinerAssumption ==
  /\ IsFiniteSet(Nodes)
  /\ Workers \intersect (Watchers \union {"main"}) = {}
  /\ None \notin HdIds \union HostDefinition \union Info \union Job \union Nat
  /\ Refusable \subseteq Ports /\ \A S \in SUBSET Ports : S # None
  /\ Tries \in Nat \ {0} /\ MaxClasses \in Nat \ {0} /\ MaxEvents \in Nat
  /\ MaxFailures \in Nat /\ MaxMissed \in Nat /\ MaxRestarts \in Nat

Phase == {"idle", "dead", "addNodes", "addClasses", "addDeletions", "startWatchers", "started",
          "decide", "pick", "define", "record", "write", "status", "undefine", "forget",
          "unlabel", "pop", "try", "patch", "settle"}

Init ==
  /\ dynamic \in BOOLEAN /\ protected \in SUBSET Nodes
  /\ pods \in SUBSET Nodes /\ driver = pods
  /\ initiators \in [Nodes -> Initiators]
  /\ labelled = IF dynamic THEN {} ELSE pods
  /\ classes = [s \in Secrets |-> 1]
  /\ queue = <<>>
  /\ hd = [h \in HdIds |-> None]
  /\ host = [p \in Nodes \X Secrets |-> None] /\ lost = {}
  /\ nodes = [n \in Nodes |-> None]
  /\ count = [s \in Secrets |-> None]
  /\ unmanaged = {}
  /\ pc = [t \in Threads |-> IF t = "main" THEN "addNodes" ELSE "idle"]
  /\ job = [t \in Threads |-> None]
  /\ info = [t \in Threads |-> None]
  /\ events = 0 /\ failures = 0 /\ missed = 0 /\ restarts = 0

-----------------------------------------------------------------------------
CanBeDefined(n) == dynamic \/ n \in labelled
CanBeUndefined(n) == n \in labelled /\ n \notin protected

Managed == {n \in Nodes : nodes[n] # None}
ManagedSecrets == {s \in Secrets : count[s] # None}

PairOf(d) == <<d.node, d.secret>>
Matching(p) == {h \in HdIds : hd[h] # None /\ PairOf(hd[h]) = p}

(* _get_matching_host_definition_info: names are random, so any may come   *)
(* first.                                                                  *)
Lookup(p) == IF Matching(p) = {} THEN {None} ELSE Matching(p)

(* The initiators that the definition of a pair starts from.               *)
KnownInitiators(h, n) == IF h = None THEN nodes[n] ELSE hd[h].initiators

NewInfo(p, i) == [name |-> None, node |-> p[1], secret |-> p[2], initiators |-> i,
                  phase |-> "", tries |-> 0, err |-> FALSE]

Loop(kind, ps, ns) ==
  [kind |-> kind, todo |-> ps, nodes |-> ns, size |-> None, seen |-> None, driver |-> FALSE]

(* _define_host_on_all_storages                                            *)
DefineOnAll(n) == Loop("define", {n} \X Secrets, {n})

(* _define_nodes: iterates over NODES.                                     *)
DefineNodes(s) ==
  [Loop("define", Managed \X {s}, Managed) EXCEPT !.size = Cardinality(Managed)]

Retrying(t) == job[t] = None

-----------------------------------------------------------------------------
Goto(t, to) == pc' = [pc EXCEPT ![t] = to]

(* The thread ends; a watcher waits for its next event.                    *)
Finish(t) ==
  /\ Goto(t, IF t = "main" THEN "startWatchers" ELSE "idle")
  /\ job' = [job EXCEPT ![t] = None]
  /\ info' = [info EXCEPT ![t] = None]

(* An exception nothing catches: the thread is gone for good.              *)
Break(t) ==
  /\ Goto(t, IF t \in Workers THEN "idle" ELSE "dead")
  /\ job' = [job EXCEPT ![t] = None]
  /\ info' = [info EXCEPT ![t] = None]

Start(t, j) == Goto(t, "pick") /\ job' = [job EXCEPT ![t] = j] /\ UNCHANGED info

Continue(t, to) == Goto(t, to) /\ UNCHANGED <<job, info>>

Answer(t, to, e) ==
  Goto(t, to) /\ info' = [info EXCEPT ![t].err = e] /\ UNCHANGED job

RetryOf(h, d) == [name |-> h, node |-> d.node, secret |-> d.secret, initiators |-> d.initiators,
                  phase |-> d.phase, tries |-> Tries, err |-> FALSE]

(* Thread t goes on with i after a write that leaves HostDefinition h as   *)
(* d.  watch_host_definitions_resources starts a thread for each event of  *)
(* a pending one, unless the event falls between two watches.  Before the  *)
(* watchers start nobody watches.                                          *)
WriteSeen(t, to, i, h, d) ==
  /\ UNCHANGED job
  /\ \/ /\ d.phase \in Pending /\ pc["main"] = "started"
        /\ \E w \in Workers \ {t} :
             /\ pc[w] = "idle"
             /\ pc' = [pc EXCEPT ![t] = to, ![w] = "try"]
             /\ info' = [info EXCEPT ![t] = i, ![w] = RetryOf(h, d)]
        /\ UNCHANGED missed
     \/ /\ d.phase \in Pending /\ pc["main"] = "started"
        /\ missed < MaxMissed /\ missed' = missed + 1
        /\ Goto(t, to) /\ info' = [info EXCEPT ![t] = i]
     \/ /\ d.phase \notin Pending \/ pc["main"] # "started"
        /\ Goto(t, to) /\ info' = [info EXCEPT ![t] = i]
        /\ UNCHANGED missed

WriteUnseen(t, to, i) ==
  Goto(t, to) /\ info' = [info EXCEPT ![t] = i] /\ UNCHANGED <<job, missed>>

-----------------------------------------------------------------------------
(* define_host: D are the initiators of the HostDefinition, C those of the *)
(* node, H the ports of the host of the node's name.  A host found by D is *)
(* given the ports C, if C and D differ.  If none is found one is created; *)
(* should its name be taken, that host must share a port with C.           *)
Found(H, D) == H # None /\ H \intersect D # {}

(* A host that no port could be added to is deleted, or never made         *)
(* (_raise_error_when_no_ports_added, NoPortIsValid).                      *)
Made(S) == [host |-> IF S = {} THEN None ELSE S, err |-> S = {}]

(* What a definition may end with whose ports R the array refuses and      *)
(* whose other commands succeed.  A host found is deleted and created anew *)
(* for its partition, or for its protocol, or because a host of a          *)
(* partition could not be given its ports.                                 *)
Defined(H, D, C, R) ==
  IF H = None THEN {Made(C \ R)}
  ELSE IF Found(H, D)
    THEN {Made(C \ R),
          IF C = D THEN [host |-> H, err |-> FALSE] ELSE Made((H \intersect C) \union (C \ R))}
  ELSE {[host |-> H, err |-> H \intersect C = {}]}

(* What a failure on the way may leave.  Of a host found ports, or all of  *)
(* them, are removed, then ports are added; or it is deleted, and created  *)
(* with one port first.                                                    *)
LeftByDefine(H, D, C) ==
  IF H = None THEN {None} \union ((SUBSET C) \ {{}})
  ELSE IF Found(H, D) THEN {None} \union (SUBSET H) \union (SUBSET C)
  ELSE {H}

(* NODES' initiators, or those of the HostDefinition if it has none.       *)
Current(t) == IF nodes[info[t].node] # None THEN nodes[info[t].node] ELSE info[t].initiators

CallArray(t, p, h, e, to) ==
  /\ host' = [host EXCEPT ![p] = h]
  /\ Answer(t, to, e)

Define(t) ==
  LET p == PairOf(info[t])
      D == info[t].initiators
      C == Current(t)
      to == IF Retrying(t) THEN "patch" ELSE "record"
  IN  /\ pc[t] = "define"
      /\ \/ /\ \E r \in Defined(host[p], D, C, {}) : CallArray(t, p, r.host, r.err, to)
            /\ UNCHANGED failures
         \/ /\ failures < MaxFailures /\ failures' = failures + 1
            /\ \/ \E R \in SUBSET (C \intersect Refusable) \ {{}} :
                    \E r \in Defined(host[p], D, C, R) : CallArray(t, p, r.host, r.err, to)
               \/ \E h \in LeftByDefine(host[p], D, C) : CallArray(t, p, h, TRUE, to)
      /\ lost' = IF host'[p] # None THEN lost \ {p}
                 ELSE IF host[p] # None THEN lost \union {p}
                 ELSE lost
      /\ UNCHANGED <<config, cluster, labelled, hd, shared, events, missed, restarts>>

(* undefine_host: a host that C does not find needs no deletion.           *)
Undefine(t) ==
  LET p == PairOf(info[t])
      found == Found(host[p], Current(t))
      to == IF Retrying(t) THEN "settle" ELSE "forget"
  IN  /\ pc[t] = "undefine"
      /\ \/ /\ CallArray(t, p, IF found THEN None ELSE host[p], FALSE, to)
            /\ UNCHANGED failures
         \/ /\ failures < MaxFailures /\ failures' = failures + 1
            /\ \E h \in IF found THEN {None, host[p]} ELSE {host[p]} : CallArray(t, p, h, TRUE, to)
      /\ UNCHANGED <<config, cluster, labelled, hd, lost, shared, events, missed, restarts>>

-----------------------------------------------------------------------------
(* _create_definition, for each pair of a loop: the initiators of the      *)
(* HostDefinition the pair has, or NODES'.                                 *)
Due(t) ==
  {p \in job[t].todo : IF job[t].size = None THEN count[p[2]] \notin {None, 0}
                          ELSE p[1] \in Managed}

(* A dict that changes its size under an iteration raises RuntimeError,    *)
(* and an entry that is gone KeyError.                                     *)
SizeChanged(t) == job[t].size # None /\ Cardinality(Managed) # job[t].size

PickDefine(t) ==
  /\ pc[t] = "pick" /\ job[t].kind = "define" /\ ~SizeChanged(t)
  /\ \E p \in Due(t) :
       IF p[1] \in Managed
         THEN \E h \in Lookup(p) :
                /\ info' = [info EXCEPT ![t] = NewInfo(p, KnownInitiators(h, p[1]))]
                /\ job' = [job EXCEPT ![t].todo = @ \ {p}]
                /\ Goto(t, "define")
         ELSE Break(t)
  /\ UNCHANGED <<config, cluster, labelled, hd, host, lost, shared, budget>>

(* _create_definitions_when_csi_node_changed                               *)
PickChanged(t) ==
  /\ pc[t] = "pick" /\ job[t].kind = "changed"
  /\ \E p \in job[t].todo : \E h \in Lookup(p) :
       /\ job' = [job EXCEPT ![t].todo = @ \ {p}]
       /\ IF h # None /\ job[t].driver /\ KnownInitiators(h, p[1]) # job[t].seen
            THEN /\ nodes' = [nodes EXCEPT ![p[1]] = job[t].seen]
                 /\ info' = [info EXCEPT ![t] = NewInfo(p, hd[h].initiators)]
                 /\ Goto(t, "define")
            ELSE UNCHANGED <<nodes, info, pc>>
  /\ UNCHANGED <<config, cluster, labelled, hd, host, lost, count, unmanaged, budget>>

(* _undefine_hosts, and _delete_host_definitions of a node whose pod was   *)
(* deleted while the host definer was down.                                *)
PickUndefine(t) ==
  /\ pc[t] = "pick" /\ job[t].kind \in {"undefine", "deletion"}
  /\ \E p \in job[t].todo :
       IF job[t].kind = "undefine" /\ p[1] \notin Managed
         THEN Break(t)
         ELSE /\ \E i \in IF job[t].kind = "undefine" THEN {nodes[p[1]]}
                            ELSE {hd[h].initiators : h \in Matching(p)} :
                   info' = [info EXCEPT ![t] = NewInfo(p, i)]
              /\ job' = [job EXCEPT ![t].todo = @ \ {p}]
              /\ Goto(t, "undefine")
  /\ UNCHANGED <<config, cluster, labelled, hd, host, lost, shared, budget>>

LoopEnds(t) ==
  /\ pc[t] = "pick"
  /\ IF job[t].kind = "define"
       THEN /\ SizeChanged(t) \/ Due(t) = {}
            /\ IF SizeChanged(t) THEN Break(t)
               ELSE IF t = "main" THEN Continue(t, "addDeletions")
               ELSE Finish(t)
       ELSE /\ job[t].todo = {}
            /\ IF job[t].kind = "changed" THEN Finish(t) ELSE Continue(t, "unlabel")
  /\ UNCHANGED <<config, cluster, labelled, hd, host, lost, shared, budget>>

(* _create_host_definition_if_not_exist reads NODES and looks up the       *)
(* HostDefinition ...                                                      *)
Record(t) ==
  LET n == info[t].node
  IN  /\ pc[t] = "record"
      /\ IF n \notin Managed
           THEN Break(t)
           ELSE \E h \in Lookup(PairOf(info[t])) :
                  /\ info' = [info EXCEPT ![t].name = h, ![t].initiators = nodes[n]]
                  /\ Goto(t, "write")
                  /\ UNCHANGED job
      /\ UNCHANGED <<config, cluster, labelled, hd, host, lost, shared, budget>>

Names(u, h) == info[u] # None /\ info[u].name = h

(* ... and patches or creates it, whether the host was defined or not.  A  *)
(* patch that changes nothing is no event; the host's details in it may    *)
(* change though the initiators do not.                                    *)
Write(t) ==
  LET h == info[t].name
      i == info[t].initiators
  IN  /\ pc[t] = "write"
      /\ IF h = None
           THEN \E new \in {k \in HdIds : hd[k] = None /\ \A u \in Threads : ~Names(u, k)} :
                  /\ hd' = [hd EXCEPT ![new] = [node |-> info[t].node, secret |-> info[t].secret,
                                                initiators |-> i, phase |-> ""]]
                  /\ WriteUnseen(t, "status", [info[t] EXCEPT !.name = new])
         ELSE IF hd[h] = None
           THEN WriteUnseen(t, "status", info[t]) /\ UNCHANGED hd
         ELSE /\ hd' = [hd EXCEPT ![h].initiators = i]
              /\ \/ WriteSeen(t, "status", info[t], h, hd'[h])
                 \/ hd' = hd /\ WriteUnseen(t, "status", info[t])
      /\ UNCHANGED <<config, cluster, labelled, host, lost, shared, events, failures, restarts>>

(* _set_host_definition_status, as thread t goes on.                       *)
SetPhase(t, to, i, h, phase) ==
  IF h = None \/ hd[h] = None
    THEN WriteUnseen(t, to, i) /\ UNCHANGED hd
  ELSE IF hd[h].phase = phase
    THEN WriteUnseen(t, to, i) /\ UNCHANGED hd
  ELSE /\ hd' = [hd EXCEPT ![h].phase = phase]
       /\ WriteSeen(t, to, i, h, hd'[h])

(* _delete_host_definition: the patch that removes the finalizer is an     *)
(* event too.                                                              *)
DeleteHd(t, to, i, h) ==
  IF hd[h] = None
    THEN WriteUnseen(t, to, i) /\ UNCHANGED hd
    ELSE /\ hd' = [hd EXCEPT ![h] = None]
         /\ WriteSeen(t, to, i, h, hd[h])

(* Mutant: the phase is Ready whatever the array answered.                 *)
StatusIgnoresError(t) ==
  /\ pc[t] = "status"
  /\ SetPhase(t, "pick", None, info[t].name, "Ready")
  /\ UNCHANGED <<config, cluster, labelled, host, lost, shared, events, failures, restarts>>

(* _set_status_to_host_definition_after_definition                         *)
Status(t) ==
  /\ pc[t] = "status"
  /\ SetPhase(t, "pick", None, info[t].name,
              IF info[t].err THEN "PendingCreation" ELSE "Ready")
  /\ UNCHANGED <<config, cluster, labelled, host, lost, shared, events, failures, restarts>>

(* _handle_k8s_host_definition_after_undefine_action_if_exist              *)
Forget(t) ==
  /\ pc[t] = "forget"
  /\ \E h \in Lookup(PairOf(info[t])) :
       IF h # None /\ ~info[t].err
         THEN DeleteHd(t, "pick", None, h)
         ELSE SetPhase(t, "pick", None, h, "PendingDeletion")
  /\ UNCHANGED <<config, cluster, labelled, host, lost, shared, events, failures, restarts>>

(* _remove_manage_node_label                                               *)
RemoveLabel(t) ==
  LET ns == IF Retrying(t) THEN {info[t].node} ELSE job[t].nodes
  IN  /\ pc[t] = "unlabel"
      /\ labelled' = {n \in labelled : n \in ns => ~dynamic \/ n \in driver
                                                  \/ \E h \in HdIds : hd[h] # None /\ hd[h].node = n}
      /\ IF Retrying(t) THEN Continue(t, "try")
         ELSE IF t = "main" THEN Finish(t)
         ELSE Continue(t, "pop")
      /\ UNCHANGED <<config, cluster, hd, host, lost, shared, budget>>

(* NODES.pop(node_name, None)                                              *)
Pop(t) ==
  /\ pc[t] = "pop"
  /\ nodes' = [n \in Nodes |-> IF n \in job[t].nodes THEN None ELSE nodes[n]]
  /\ Finish(t)
  /\ UNCHANGED <<config, cluster, labelled, hd, host, lost, count, unmanaged, budget>>

-----------------------------------------------------------------------------
(* Mutant: the do-not-delete label is not looked at.                       *)
DecideIgnoresLabel(t) ==
  LET ns == job[t].nodes
      ps == ns \X ManagedSecrets
  IN  /\ pc[t] = "decide"
      /\ IF ns \subseteq pods THEN Start(t, [job[t] EXCEPT !.todo = ps])
                              ELSE Start(t, Loop("undefine", ps, ns))
      /\ UNCHANGED <<config, cluster, labelled, hd, host, lost, shared, budget>>

(* _undefine_host_when_node_pod_is_deleted, once the daemon set is up to   *)
(* date.                                                                   *)
Decide(t) ==
  LET ns == job[t].nodes
      ps == ns \X ManagedSecrets
  IN  /\ pc[t] = "decide"
      /\ IF ns \subseteq pods
           THEN Start(t, [job[t] EXCEPT !.todo = ps])
         ELSE IF ns \intersect protected = {}
           THEN Start(t, Loop("undefine", ps, ns))
         ELSE Continue(t, "pop")
      /\ UNCHANGED <<config, cluster, labelled, hd, host, lost, shared, budget>>

(* _define_host_using_exponential_backoff: the first try is always made.   *)
NotPending(i) ==
  \E h \in Lookup(PairOf(i)) : h # None => hd[h].phase = "Ready"

StillPending(i) ==
  \E h \in Lookup(PairOf(i)) : h # None /\ hd[h].phase # "Ready"

MayHandle(i) == i.phase = "PendingDeletion" => CanBeUndefined(i.node)

(* Mutant: while retries >= 0.                                             *)
TryOnceMore(t) ==
  /\ pc[t] = "try"
  /\ info' = [info EXCEPT ![t].tries = @ - 1, ![t].err = FALSE]
  /\ Goto(t, IF ~MayHandle(info[t]) THEN "settle"
             ELSE IF info[t].phase = "PendingCreation" THEN "define"
             ELSE "undefine")
  /\ UNCHANGED <<config, cluster, labelled, hd, host, lost, shared, job, budget>>

Try(t) ==
  LET i == info[t]
  IN  /\ pc[t] = "try" /\ i.tries > 0
      /\ \/ /\ NotPending(i) /\ i.tries # Tries
            /\ Finish(t)
         \/ /\ StillPending(i) \/ i.tries = Tries
            /\ info' = [info EXCEPT ![t].tries = i.tries - 1, ![t].err = FALSE]
            /\ Goto(t, IF ~MayHandle(i) THEN "settle"
                       ELSE IF i.phase = "PendingCreation" THEN "define"
                       ELSE "undefine")
            /\ UNCHANGED job
      /\ UNCHANGED <<config, cluster, labelled, hd, host, lost, shared, budget>>

(* Mutant: the loop ends and leaves the phase.                             *)
GiveUpSilently(t) ==
  /\ pc[t] = "try" /\ info[t].tries = 0
  /\ Finish(t)
  /\ UNCHANGED <<config, cluster, labelled, hd, host, lost, shared, budget>>

(* _set_host_definition_phase_to_error, even if the last try succeeded.    *)
GiveUp(t) ==
  /\ pc[t] = "try" /\ info[t].tries = 0
  /\ SetPhase(t, "idle", None, info[t].name, "Error")
  /\ UNCHANGED <<config, cluster, labelled, host, lost, shared, events, failures, restarts>>

(* _update_host_definition_from_storage_response: a pending HostDefinition *)
(* whose details change is an event of a pending one.                      *)
Patch(t) ==
  LET h == info[t].name
  IN  /\ pc[t] = "patch"
      /\ UNCHANGED hd
      /\ \/ WriteUnseen(t, "settle", info[t])
         \/ hd[h] # None /\ hd[h].phase \in Pending /\ WriteSeen(t, "settle", info[t], h, hd[h])
      /\ UNCHANGED <<config, cluster, labelled, host, lost, shared, events, failures, restarts>>

(* _handle_message_from_storage                                            *)
Settle(t) ==
  LET i == info[t]
  IN  /\ pc[t] = "settle"
      /\ IF i.err \/ ~MayHandle(i)
           THEN WriteUnseen(t, "try", i) /\ UNCHANGED hd
         ELSE IF i.phase = "PendingCreation"
           THEN SetPhase(t, "try", i, i.name, "Ready")
         ELSE DeleteHd(t, "unlabel", i, i.name)
      /\ UNCHANGED <<config, cluster, labelled, host, lost, shared, events, failures, restarts>>

-----------------------------------------------------------------------------
(* add_initial_csi_nodes                                                   *)
AddInitialNodes ==
  LET ns == {n \in driver : CanBeDefined(n)}
  IN  /\ pc["main"] = "addNodes"
      /\ labelled' = labelled \union ns
      /\ nodes' = [n \in Nodes |-> IF n \in ns THEN initiators[n] ELSE None]
      /\ Continue("main", "addClasses")
      /\ UNCHANGED <<config, cluster, hd, host, lost, count, unmanaged, budget>>

(* add_initial_storage_classes                                             *)
AddInitialClasses ==
  /\ pc["main"] = "addClasses"
  /\ count' = [s \in Secrets |-> IF classes[s] = 0 THEN None ELSE classes[s]]
  /\ Start("main", Loop("define", Managed \X {s \in Secrets : classes[s] > 0}, Managed))
  /\ UNCHANGED <<config, cluster, labelled, hd, host, lost, nodes, unmanaged, budget>>

(* add_initial_nodes                                                       *)
AddInitialDeletions ==
  LET defined(n) == \E h \in HdIds : hd[h] # None /\ hd[h].node = n
      gone == {n \in Nodes \ driver : CanBeUndefined(n) /\ defined(n)}
  IN  /\ pc["main"] = "addDeletions"
      /\ unmanaged' = {n \in driver : ~CanBeDefined(n)}
      /\ Start("main", Loop("deletion", {p \in gone \X Secrets : Matching(p) # {}}, gone))
      /\ UNCHANGED <<config, cluster, labelled, hd, host, lost, nodes, count, budget>>

(* _start_watchers: of CSINodes only later events are seen; of             *)
(* HostDefinitions, watched from version '', the state of each.            *)
StartWatchers ==
  /\ pc["main"] = "startWatchers"
  /\ queue' = <<>>
  /\ LET waiting == {h \in HdIds : hd[h] # None /\ hd[h].phase \in Pending}
     IN  \E w \in [waiting -> Workers] :
           /\ \A h, k \in waiting : w[h] = w[k] => h = k
           /\ pc' = [t \in Threads |-> IF t = "main" THEN "started"
                                       ELSE IF \E h \in waiting : w[h] = t THEN "try"
                                       ELSE pc[t]]
           /\ info' = [t \in Threads |->
                         IF \E h \in waiting : w[h] = t
                           THEN LET h == CHOOSE h \in waiting : w[h] = t IN RetryOf(h, hd[h])
                           ELSE info[t]]
  /\ UNCHANGED <<config, driver, pods, initiators, labelled, classes, hd, host, lost, shared, job, budget>>

(* The host definer's pod is replaced: what it had in memory is gone.      *)
Restart ==
  /\ restarts < MaxRestarts /\ restarts' = restarts + 1
  /\ pc' = [t \in Threads |-> IF t = "main" THEN "addNodes" ELSE "idle"]
  /\ job' = [t \in Threads |-> None] /\ info' = [t \in Threads |-> None]
  /\ nodes' = [n \in Nodes |-> None]
  /\ count' = [s \in Secrets |-> None]
  /\ unmanaged' = {}
  /\ UNCHANGED <<config, cluster, labelled, hd, host, lost, events, failures, missed>>

-----------------------------------------------------------------------------
(* The cluster changes.  The kubelet registers the driver on a node, which *)
(* may have new ports since, ...                                           *)
Happens == events < MaxEvents /\ events' = events + 1

Tell(n, d) == queue' = Append(queue, [node |-> n, driver |-> d])

Register(n) ==
  /\ Happens /\ n \notin driver
  /\ driver' = driver \union {n} /\ pods' = pods \union {n}
  /\ initiators' \in {[initiators EXCEPT ![n] = i] : i \in Initiators}
  /\ Tell(n, TRUE)
  /\ UNCHANGED <<config, labelled, classes, hd, host, lost, shared, local, failures, missed, restarts>>

(* ... and removes it when the pod restarts, or is not to run there.       *)
Deregister(n) ==
  /\ Happens /\ n \in driver
  /\ driver' = driver \ {n} /\ pods' \in {pods, pods \ {n}}
  /\ Tell(n, FALSE)
  /\ UNCHANGED <<config, initiators, labelled, classes, hd, host, lost, shared, local,
                 failures, missed, restarts>>

(* Without dynamic labelling the user chooses the nodes.                   *)
Relabel(n) ==
  /\ Happens /\ ~dynamic
  /\ labelled' = IF n \in labelled THEN labelled \ {n} ELSE labelled \union {n}
  /\ UNCHANGED <<config, cluster, hd, host, lost, shared, local, failures, missed, restarts>>

(* watch_csi_nodes_resources: an event falls between two watches ...       *)
MissCsiNode ==
  /\ queue # <<>> /\ missed < MaxMissed
  /\ queue' = Tail(queue) /\ missed' = missed + 1
  /\ UNCHANGED <<config, driver, pods, initiators, labelled, classes, hd, host, lost, shared, local,
                 events, failures, restarts>>

(* ... or is handled, with the annotation as it is now: a new node is      *)
(* added and defined on all storages, of a managed one a thread decides.   *)
CsiNodeModified ==
  LET n == Head(queue).node
      d == Head(queue).driver
      new == d /\ CanBeDefined(n) /\ n \notin Managed
  IN  /\ pc["csiNode"] = "idle" /\ pc["main"] = "started" /\ queue # <<>>
      /\ queue' = Tail(queue)
      /\ IF new
           THEN /\ labelled' = labelled \union {n}
                /\ nodes' = [nodes EXCEPT ![n] = initiators[n]]
                /\ Start("csiNode", DefineOnAll(n))
           ELSE /\ IF n \in Managed /\ n \in labelled
                     THEN \E w \in Workers :
                            /\ pc[w] = "idle"
                            /\ Goto(w, "decide")
                            /\ job' = [job EXCEPT ![w] =
                                 [Loop("changed", {}, {n}) EXCEPT !.seen = initiators[n], !.driver = d]]
                            /\ UNCHANGED info
                     ELSE UNCHANGED local
                /\ UNCHANGED <<labelled, nodes>>
      /\ UNCHANGED <<config, driver, pods, initiators, classes, hd, host, lost, count, unmanaged, budget>>

(* watch_nodes_resources: nodes are modified all the time.  One that got   *)
(* the label is added and defined.                                         *)
NodeModified(n) ==
  /\ pc["node"] = "idle" /\ pc["main"] = "started" /\ n \in driver
  /\ IF ~CanBeDefined(n)
       THEN /\ n \notin unmanaged
            /\ unmanaged' = unmanaged \union {n}
            /\ UNCHANGED <<nodes, local>>
       ELSE /\ ~dynamic /\ n \in unmanaged \ Managed
            /\ nodes' = [nodes EXCEPT ![n] = initiators[n]]
            /\ unmanaged' = unmanaged \ {n}
            /\ Start("node", DefineOnAll(n))
  /\ UNCHANGED <<config, cluster, labelled, hd, host, lost, count, budget>>

(* A label changes the node's I/O groups.                                  *)
IoGroupModified(n) ==
  /\ Happens /\ pc["node"] = "idle" /\ pc["main"] = "started" /\ n \in Managed
  /\ Start("node", DefineOnAll(n))
  /\ UNCHANGED <<config, cluster, labelled, hd, host, lost, shared, failures, missed, restarts>>

(* watch_secret_resources                                                  *)
SecretModified(s) ==
  /\ Happens /\ pc["secret"] = "idle" /\ pc["main"] = "started"
  /\ count[s] \notin {None, 0}
  /\ Start("secret", DefineNodes(s))
  /\ UNCHANGED <<config, cluster, labelled, hd, host, lost, shared, failures, missed, restarts>>

(* watch_storage_class_resources                                           *)
ClassAdded(s) ==
  LET new == count[s] \in {None, 0}
  IN  /\ Happens /\ pc["storageClass"] = "idle" /\ pc["main"] = "started"
      /\ classes[s] < MaxClasses
      /\ classes' = [classes EXCEPT ![s] = @ + 1]
      /\ count' = [count EXCEPT ![s] = IF new THEN 1 ELSE @ + 1]
      /\ IF new THEN Start("storageClass", DefineNodes(s)) ELSE UNCHANGED local
      /\ UNCHANGED <<config, driver, pods, initiators, labelled, queue, hd, host, lost, nodes, unmanaged,
                     failures, missed, restarts>>

ClassDeleted(s) ==
  /\ Happens /\ pc["storageClass"] = "idle" /\ pc["main"] = "started"
  /\ classes[s] > 0
  /\ classes' = [classes EXCEPT ![s] = @ - 1]
  /\ count' = [count EXCEPT ![s] = @ - 1]
  /\ UNCHANGED <<config, driver, pods, initiators, labelled, queue, hd, host, lost, nodes, unmanaged, local,
                 failures, missed, restarts>>

Define_(t) == PickDefine(t) \/ Define(t) \/ Record(t) \/ Write(t) \/ Status(t) \/ PickChanged(t)
Undefine_(t) == Decide(t) \/ PickUndefine(t) \/ Undefine(t) \/ Forget(t) \/ RemoveLabel(t) \/ Pop(t)
Retry(t) == Try(t) \/ GiveUp(t) \/ Patch(t) \/ Settle(t)

Next ==
  \/ AddInitialNodes \/ AddInitialClasses \/ AddInitialDeletions \/ StartWatchers \/ Restart
  \/ \E n \in Nodes : Register(n) \/ Deregister(n) \/ Relabel(n) \/ NodeModified(n) \/ IoGroupModified(n)
  \/ \E s \in Secrets : SecretModified(s) \/ ClassAdded(s) \/ ClassDeleted(s)
  \/ MissCsiNode \/ CsiNodeModified
  \/ \E t \in Threads : Define_(t) \/ LoopEnds(t) \/ Undefine_(t)
  \/ \E t \in Workers : Retry(t)

Spec == Init /\ [][Next]_vars

-----------------------------------------------------------------------------
(* Each variable has its type.                                             *)
TypeOK ==
  /\ dynamic \in BOOLEAN /\ protected \subseteq Nodes
  /\ driver \subseteq Nodes /\ pods \subseteq Nodes /\ labelled \subseteq Nodes
  /\ initiators \in [Nodes -> Initiators]
  /\ classes \in [Secrets -> 0 .. MaxClasses]
  /\ queue \in Seq([node : Nodes, driver : BOOLEAN])
  /\ hd \in [HdIds -> {None} \union HostDefinition]
  /\ host \in [Nodes \X Secrets -> {None} \union SUBSET Ports]
  /\ lost \subseteq Nodes \X Secrets
  /\ nodes \in [Nodes -> {None} \union Initiators]
  /\ count \in [Secrets -> 0 .. MaxClasses \union {None}]
  /\ unmanaged \subseteq Nodes
  /\ pc \in [Threads -> Phase]
  /\ job \in [Threads -> {None} \union Job]
  /\ info \in [Threads -> {None} \union Info]
  /\ events \in 0 .. MaxEvents /\ failures \in 0 .. MaxFailures
  /\ missed \in 0 .. MaxMissed /\ restarts \in 0 .. MaxRestarts

(* _is_node_has_forbid_deletion_label: a node with that label keeps its    *)
(* definitions.  No step, of the watchers, of a retry, or of a start that  *)
(* finds the pod gone, deletes its HostDefinitions, and none undefines its *)
(* host: the host goes only in a definition that found it, could not make  *)
(* it anew, and holds the error.                                           *)
FailsToDefine(p) ==
  \E t \in Threads : pc[t] = "define" /\ PairOf(info[t]) = p /\ info'[t].err

AvoidsDeletion ==
  [][/\ \A p \in Nodes \X Secrets :
          p[1] \in protected /\ host[p] # None => host'[p] # None \/ FailsToDefine(p)
     /\ \A h \in HdIds :
          hd[h] # None => (hd[h].node \in protected => hd'[h] # None)]_vars

(* A HostDefinition in phase Ready of such a node has a host on the array, *)
(* whichever threads defined it, retried it or patched it meanwhile, or it *)
(* had one, which a later definition deleted and none has made again.      *)
HasHost(p) == host[p] # None \/ p \in lost

ReadyHasHost ==
  \A h \in HdIds :
    hd[h] # None => (hd[h].phase = "Ready" /\ hd[h].node \in protected => HasHost(PairOf(hd[h])))

(* _define_host_using_exponential_backoff: once the watchers have started, *)
(* each pending HostDefinition has a thread that tries it, and a step      *)
(* leaves it without one only if an event is missed, or if another         *)
(* HostDefinition of its pair was Ready, which the thread took for its own.*)
Untried(h) ==
  /\ hd[h] # None /\ hd[h].phase \in Pending
  /\ \A w \in Workers : ~ (Retrying(w) /\ Names(w, h))

PendingIsTried ==
  [][pc'["main"] = "started" =>
       \A h \in HdIds :
         Untried(h)' =>
           \/ pc["main"] = "started" /\ Untried(h)
           \/ missed' > missed
           \/ \E k \in HdIds \ {h} :
                hd[k] # None /\ PairOf(hd[k]) = PairOf(hd'[h]) /\ hd[k].phase = "Ready"]_vars

(* docs/content/using/using_hostdefinition.md:18, Ready: "Host definition  *)
(* is created and is working as expected".  When nothing is under way the  *)
(* host has the ports that its HostDefinition records.                     *)
ReadyIsDefined ==
  (\A t \in Threads : pc[t] \in {"idle", "started"}) /\ queue = <<>> =>
    \A h \in HdIds :
      hd[h] # None => (hd[h].phase = "Ready" => host[PairOf(hd[h])] = hd[h].initiators)

=============================================================================
