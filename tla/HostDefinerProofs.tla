-------------------------- MODULE HostDefinerProofs --------------------------
(***************************************************************************)
(* Theorems about HostDefiner for every number of nodes, ports, arrays and *)
(* threads, and any number of events, failures, missed events and restarts.*)
(***************************************************************************)
EXTENDS HostDefiner, FiniteSetTheorems, SequenceTheorems, TLAPS

-----------------------------------------------------------------------------
(* The inductive invariant.                                                *)

(* What a thread has in hand at each place.  A retry names a HostDefinition*)
(* that was pending.                                                       *)
PlaceInv(t) ==
  /\ pc[t] \in {"idle", "dead", "started", "addNodes", "addClasses", "startWatchers"} =>
       job[t] = None /\ info[t] = None
  /\ pc[t] \in {"decide", "pick", "record", "write", "status", "forget", "pop"} => job[t] # None
  /\ pc[t] = "decide" => job[t].kind = "changed"
  /\ pc[t] \in {"define", "record", "write", "status", "undefine", "forget",
                "try", "patch", "settle"} => info[t] # None
  /\ pc[t] \in {"try", "patch", "settle"} => job[t] = None
  /\ pc[t] = "unlabel" /\ job[t] = None => info[t] # None
  /\ job[t] = None /\ info[t] # None => info[t].phase \in Pending /\ info[t].name # None

(* A HostDefinition that a thread has named is of the pair it works on: no *)
(* name in use is drawn again, and no HostDefinition changes its pair.     *)
NameInv(t) ==
  info[t] # None /\ info[t].name # None =>
    (hd[info[t].name] # None => PairOf(hd[info[t].name]) = PairOf(info[t]))

(* A node that must not be undefined is in no loop that undefines, and no  *)
(* thread that undefines works on it.                                      *)
SafeInv(t) ==
  /\ job[t] # None => (job[t].kind \in {"undefine", "deletion"} =>
                         \A p \in job[t].todo : p[1] \notin protected)
  /\ pc[t] \in {"undefine", "forget"} => info[t].node \notin protected

(* A thread that has defined such a node without error has left a host,    *)
(* which only another definition can have deleted since.                   *)
DefinedInv(t) ==
  /\ pc[t] \in {"record", "write", "status", "patch"} =>
       (~ info[t].err /\ info[t].node \in protected => HasHost(PairOf(info[t])))
  /\ pc[t] = "settle" =>
       (~ info[t].err /\ info[t].phase = "PendingCreation" /\ info[t].node \in protected =>
          HasHost(PairOf(info[t])))

ThreadInv(t) == PlaceInv(t) /\ NameInv(t) /\ SafeInv(t) /\ DefinedInv(t)

(* Nothing else runs until the watchers are started.                       *)
QuietInv ==
  pc["main"] # "started" => \A t \in Threads \ {"main"} : pc[t] = "idle"

(* MANAGED_SECRETS counts the storage classes of each secret.              *)
CountInv ==
  pc["main"] \notin {"addNodes", "addClasses"} =>
    \A s \in Secrets : count[s] = classes[s] \/ (count[s] = None /\ classes[s] = 0)

IInv ==
  /\ TypeOK /\ QuietInv /\ CountInv /\ ReadyHasHost
  /\ \A t \in Threads : ThreadInv(t)

-----------------------------------------------------------------------------
(* What a step of a thread may do.                                         *)

Same(u) == pc'[u] = pc[u] /\ job'[u] = job[u] /\ info'[u] = info[u]

(* An idle thread is started for HostDefinition h as the event shows it.   *)
Woken(u, h, d) ==
  /\ pc[u] = "idle" /\ pc["main"] = "started" /\ u # "main"
  /\ pc'[u] = "try" /\ job'[u] = job[u] /\ info'[u] = RetryOf(h, d)
  /\ h \in HdIds /\ d \in HostDefinition /\ d.phase \in Pending
  /\ hd'[h] # None => PairOf(hd'[h]) = PairOf(d)

OthersInv(t) ==
  \A u \in Threads \ {t} : Same(u) \/ \E h \in HdIds, d \in HostDefinition : Woken(u, h, d)

ThreadTypes ==
  /\ pc \in [Threads -> Phase]
  /\ job \in [Threads -> {None} \union Job]
  /\ info \in [Threads -> {None} \union Info]

(* HostDefinitions keep their pair, a new one has a name nobody knows.     *)
PairsKept ==
  \A h \in HdIds :
    /\ hd[h] # None /\ hd'[h] # None => PairOf(hd'[h]) = PairOf(hd[h])
    /\ hd[h] = None /\ hd'[h] # None => \A u \in Threads : ~ Names(u, h)

(* What has the do-not-delete label is not deleted, but for a host by a    *)
(* definition that fails, which is remembered until there is one again.    *)
Kept ==
  /\ \A p \in Nodes \X Secrets : p[1] \in protected =>
       /\ host[p] # None => host'[p] # None \/ FailsToDefine(p)
       /\ HasHost(p) => HasHost(p)'
  /\ \A h \in HdIds : hd[h] # None => (hd[h].node \in protected => hd'[h] # None)

(* The steps of the threads, as far as the invariant goes: where thread t  *)
(* goes, with what in hand, and what becomes of the others.                *)
Working == {"addDeletions", "decide", "pick", "define", "record", "write", "status", "undefine",
            "forget", "unlabel", "pop", "try", "patch", "settle"}

StepInv(t) ==
  /\ pc[t] \in Working /\ pc'[t] \notin {"addNodes", "addClasses", "started"}
  /\ t # "main" => pc'[t] # "started"
  /\ TypeOK' /\ ThreadInv(t)' /\ OthersInv(t)
  /\ PairsKept /\ Kept /\ ReadyHasHost'
  /\ UNCHANGED <<config, classes, count>>

-----------------------------------------------------------------------------
(* What the operators of the model return.                                 *)

LEMMA InfoParts ==
  ASSUME NEW i \in Info
  PROVE  /\ i # None /\ i.name \in HdIds \union {None} /\ i.node \in Nodes /\ i.secret \in Secrets
         /\ i.initiators \in Initiators /\ i.phase \in Phases /\ i.tries \in 0 .. Tries
         /\ i.err \in BOOLEAN /\ PairOf(i) \in Nodes \X Secrets /\ PairOf(i)[1] = i.node
  BY HostDefinerAssumption DEF Info, PairOf

LEMMA DefinitionParts ==
  ASSUME NEW d \in HostDefinition
  PROVE  /\ d # None /\ d.node \in Nodes /\ d.secret \in Secrets
         /\ d.initiators \in Initiators /\ d.phase \in Phases
         /\ PairOf(d) \in Nodes \X Secrets /\ PairOf(d)[1] = d.node
  BY HostDefinerAssumption DEF HostDefinition, PairOf

LEMMA JobParts ==
  ASSUME NEW j \in Job
  PROVE  /\ j # None /\ j.kind \in {"define", "changed", "undefine", "deletion"}
         /\ j.todo \subseteq Nodes \X Secrets /\ j.nodes \subseteq Nodes
         /\ j.size \in 0 .. Cardinality(Nodes) \union {None}
         /\ j.seen \in {None} \union Initiators /\ j.driver \in BOOLEAN
  BY HostDefinerAssumption DEF Job

LEMMA RetryIs ==
  ASSUME NEW h \in HdIds, NEW d \in HostDefinition
  PROVE  /\ RetryOf(h, d) \in Info
         /\ RetryOf(h, d).name = h /\ RetryOf(h, d).phase = d.phase
         /\ PairOf(RetryOf(h, d)) = PairOf(d)
  <1>1. Tries \in 0 .. Tries
    BY HostDefinerAssumption
  <1>2. d.node \in Nodes /\ d.secret \in Secrets /\ d.initiators \in Initiators /\ d.phase \in Phases
    BY DefinitionParts
  <1>3. QED
    BY <1>1, <1>2 DEF RetryOf, Info, PairOf

LEMMA NewInfoIs ==
  ASSUME NEW p \in Nodes \X Secrets, NEW i \in Initiators
  PROVE  /\ NewInfo(p, i) \in Info
         /\ NewInfo(p, i).name = None /\ PairOf(NewInfo(p, i)) = p /\ NewInfo(p, i).node = p[1]
  <1>1. p = <<p[1], p[2]>> /\ p[1] \in Nodes /\ p[2] \in Secrets
    OBVIOUS
  <1>2. 0 \in 0 .. Tries /\ "" \in Phases
    BY HostDefinerAssumption DEF Phases
  <1>3. QED
    BY <1>1, <1>2 DEF NewInfo, Info, PairOf

LEMMA LoopIs ==
  ASSUME NEW k \in {"define", "changed", "undefine", "deletion"},
         NEW ps \in SUBSET (Nodes \X Secrets), NEW ns \in SUBSET Nodes
  PROVE  Loop(k, ps, ns) \in Job /\ Loop(k, ps, ns).kind = k /\ Loop(k, ps, ns).todo = ps
  BY DEF Loop, Job

LEMMA LookupIs ==
  ASSUME TypeOK, NEW p \in Nodes \X Secrets, NEW h \in Lookup(p)
  PROVE  /\ h \in HdIds \union {None}
         /\ h # None => h \in HdIds /\ hd[h] \in HostDefinition /\ PairOf(hd[h]) = p
  BY DEF Lookup, Matching, TypeOK

(* A thread that changes a HostDefinition, and those it wakes.             *)
LEMMA WriteIs ==
  ASSUME TypeOK, NEW t \in Threads, NEW to \in Phase, NEW i \in {None} \union Info,
         NEW h, NEW d,
         \/ WriteUnseen(t, to, i)
         \/ /\ WriteSeen(t, to, i, h, d) /\ h \in HdIds /\ d \in HostDefinition
            /\ hd'[h] # None => PairOf(hd'[h]) = PairOf(d)
  PROVE  /\ ThreadTypes' /\ OthersInv(t)
         /\ pc'[t] = to /\ job'[t] = job[t] /\ info'[t] = i
         /\ missed' \in 0 .. MaxMissed
  <1>1. job' = job /\ missed' \in 0 .. MaxMissed
    BY HostDefinerAssumption DEF WriteSeen, WriteUnseen, TypeOK
  <1>2. CASE pc' = [pc EXCEPT ![t] = to] /\ info' = [info EXCEPT ![t] = i]
    BY <1>1, <1>2 DEF TypeOK, ThreadTypes, OthersInv, Same
  <1>3. CASE /\ WriteSeen(t, to, i, h, d) /\ h \in HdIds /\ d \in HostDefinition
             /\ hd'[h] # None => PairOf(hd'[h]) = PairOf(d)
             /\ ~ (pc' = [pc EXCEPT ![t] = to] /\ info' = [info EXCEPT ![t] = i])
    <2>1. PICK w \in Workers \ {t} :
            /\ d.phase \in Pending /\ pc["main"] = "started" /\ pc[w] = "idle"
            /\ pc' = [pc EXCEPT ![t] = to, ![w] = "try"]
            /\ info' = [info EXCEPT ![t] = i, ![w] = RetryOf(h, d)]
      BY <1>3 DEF WriteSeen, Goto
    <2>2. RetryOf(h, d) \in Info /\ "try" \in Phase /\ w \in Threads /\ w # "main"
      BY <1>3, <2>1, RetryIs, HostDefinerAssumption DEF Phase, Threads
    <2>3. ThreadTypes'
      BY <1>1, <2>1, <2>2 DEF TypeOK, ThreadTypes
    <2>4. Woken(w, h, d)
      BY <1>1, <1>3, <2>1, <2>2 DEF Woken, TypeOK
    <2>5. \A u \in Threads \ {t, w} : Same(u)
      BY <1>1, <2>1 DEF Same, TypeOK
    <2>6. pc'[t] = to /\ info'[t] = i
      BY <2>1 DEF TypeOK
    <2>7. QED
      BY <1>1, <1>3, <2>3, <2>4, <2>5, <2>6 DEF OthersInv
  <1>4. QED
    BY <1>1, <1>2, <1>3 DEF WriteSeen, WriteUnseen, Goto

-----------------------------------------------------------------------------
(* Steps that change neither HostDefinitions nor hosts.                    *)

WorldTypes ==
  /\ dynamic \in BOOLEAN /\ protected \subseteq Nodes
  /\ driver \subseteq Nodes /\ pods \subseteq Nodes /\ labelled \subseteq Nodes
  /\ initiators \in [Nodes -> Initiators]
  /\ classes \in [Secrets -> 0 .. MaxClasses]
  /\ queue \in Seq([node : Nodes, driver : BOOLEAN])
  /\ hd \in [HdIds -> {None} \union HostDefinition]
  /\ host \in [Nodes \X Secrets -> {None} \union SUBSET Ports]
  /\ lost \subseteq Nodes \X Secrets
  /\ nodes \in [Nodes -> {None} \union Initiators]
  /\ count \in [Secrets -> 0 .. MaxClasses \union {None}]
  /\ unmanaged \subseteq Nodes
  /\ events \in 0 .. MaxEvents /\ failures \in 0 .. MaxFailures
  /\ missed \in 0 .. MaxMissed /\ restarts \in 0 .. MaxRestarts

LEMMA TypesAre == (TypeOK <=> WorldTypes /\ ThreadTypes) /\ (TypeOK' <=> WorldTypes' /\ ThreadTypes')
  BY DEF TypeOK, WorldTypes, ThreadTypes

LEMMA LocalIs ==
  ASSUME IInv, NEW t \in Threads, NEW to \in Phase, NEW j \in {None} \union Job,
         NEW i \in {None} \union Info,
         pc' = [pc EXCEPT ![t] = to], job' = [job EXCEPT ![t] = j], info' = [info EXCEPT ![t] = i]
  PROVE  /\ ThreadTypes' /\ OthersInv(t) /\ \A u \in Threads \ {t} : Same(u)
         /\ pc'[t] = to /\ job'[t] = j /\ info'[t] = i
  BY DEF IInv, TypeOK, ThreadTypes, OthersInv, Same

LEMMA NothingWritten ==
  ASSUME IInv, UNCHANGED <<protected, hd, host, lost>>
  PROVE  PairsKept /\ Kept /\ ReadyHasHost'
  BY DEF IInv, PairsKept, Kept, ReadyHasHost, HasHost

LEMMA StopIs ==
  ASSUME IInv, NEW t \in Threads, Finish(t) \/ Break(t)
  PROVE  /\ ThreadTypes' /\ OthersInv(t) /\ ThreadInv(t)'
         /\ pc'[t] \in {"startWatchers", "idle", "dead"}
  <1>1. PICK to \in {"startWatchers", "idle", "dead"} :
          /\ pc' = [pc EXCEPT ![t] = to] /\ job' = [job EXCEPT ![t] = None]
          /\ info' = [info EXCEPT ![t] = None]
    BY DEF Finish, Break, Goto
  <1>2. to \in Phase
    BY DEF Phase
  <1>3. /\ ThreadTypes' /\ OthersInv(t)
        /\ pc'[t] = to /\ job'[t] = None /\ info'[t] = None
    BY <1>1, <1>2, LocalIs
  <1>4. ThreadInv(t)'
    BY <1>3 DEF ThreadInv, PlaceInv, NameInv, SafeInv, DefinedInv
  <1>5. QED
    BY <1>3, <1>4

LEMMA PickStep ==
  ASSUME IInv, NEW t \in Threads, PickDefine(t) \/ PickChanged(t) \/ PickUndefine(t)
  PROVE  StepInv(t)
  <1>1. pc[t] = "pick" /\ job[t] # None /\ job[t] \in Job /\ TypeOK /\ ThreadInv(t)
    BY DEF IInv, ThreadInv, PlaceInv, PickDefine, PickChanged, PickUndefine, TypeOK
  <1>2. UNCHANGED <<config, cluster, labelled, hd, host, lost, count, unmanaged, budget>>
    BY DEF PickDefine, PickChanged, PickUndefine, shared
  <1>3. PairsKept /\ Kept /\ ReadyHasHost'
    BY <1>2, NothingWritten DEF config
  <1>4. job[t].todo \subseteq Nodes \X Secrets
    BY <1>1, JobParts
  (* A step that takes p off the loop.                                     *)
  <1>5. ASSUME NEW p \in job[t].todo, NEW to \in {"pick", "define", "undefine"},
               NEW i \in {None} \union Info,
               pc' = [pc EXCEPT ![t] = to], job' = [job EXCEPT ![t].todo = @ \ {p}],
               info' = [info EXCEPT ![t] = i],
               to # "pick" => i # None /\ i.node = p[1],
               i = info[t] \/ (i \in Info /\ i.name = None),
               to = "undefine" => job[t].kind \in {"undefine", "deletion"}
        PROVE  ThreadTypes' /\ OthersInv(t) /\ ThreadInv(t)' /\ pc'[t] = to
    <2> DEFINE j == [job[t] EXCEPT !.todo = @ \ {p}]
    <2>1. job' = [job EXCEPT ![t] = j]
      BY <1>5
    <2>2. j \in Job /\ j.kind = job[t].kind /\ j.todo \subseteq job[t].todo /\ j # None
      BY <1>1, HostDefinerAssumption DEF Job
    <2> HIDE DEF j
    <2>3. to \in Phase
      BY <1>5 DEF Phase
    <2>4. /\ ThreadTypes' /\ OthersInv(t)
          /\ pc'[t] = to /\ job'[t] = j /\ info'[t] = i
      <3>1. pc' = [pc EXCEPT ![t] = to] /\ info' = [info EXCEPT ![t] = i]
        BY <1>5
      <3>2. QED
        BY <2>1, <2>2, <2>3, <3>1, LocalIs
    <2>5. UNCHANGED <<hd, host, lost, protected>>
      BY <1>2 DEF config
    <2>6. PlaceInv(t)'
      BY <1>5, <2>2, <2>4 DEF PlaceInv
    <2>7. NameInv(t)'
      <3>1. CASE i = info[t]
        BY <1>1, <2>4, <2>5, <3>1 DEF ThreadInv, NameInv
      <3>2. CASE i \in Info /\ i.name = None
        BY <2>4, <3>2 DEF NameInv
      <3>3. QED
        BY <1>5, <3>1, <3>2
    <2>8. SafeInv(t)'
      <3>1. j.kind \in {"undefine", "deletion"} => \A q \in j.todo : q[1] \notin protected
        BY <1>1, <2>2 DEF ThreadInv, SafeInv
      <3>2. to = "undefine" => i.node \notin protected
        BY <1>1, <1>5 DEF ThreadInv, SafeInv
      <3>3. to \notin {"undefine", "forget"} \/ i.node \notin protected
        BY <1>5, <3>2
      <3>4. QED
        BY <2>4, <2>5, <3>1, <3>3 DEF SafeInv
    <2>9. DefinedInv(t)'
      BY <1>5, <2>4 DEF DefinedInv
    <2>10. QED
      BY <2>4, <2>6, <2>7, <2>8, <2>9 DEF ThreadInv
  <1>6. CASE PickDefine(t)
    <2>1. PICK p \in Due(t) :
            IF p[1] \in Managed
              THEN \E h \in Lookup(p) :
                     /\ info' = [info EXCEPT ![t] = NewInfo(p, KnownInitiators(h, p[1]))]
                     /\ job' = [job EXCEPT ![t].todo = @ \ {p}]
                     /\ Goto(t, "define")
              ELSE Break(t)
      BY <1>6 DEF PickDefine
    <2>2. p \in job[t].todo /\ p \in Nodes \X Secrets
      BY <1>4 DEF Due
    <2>3. ThreadTypes' /\ OthersInv(t) /\ ThreadInv(t)' /\ pc'[t] \in {"define", "idle", "dead", "startWatchers"}
      <3>1. CASE p[1] \in Managed
        <4>1. PICK h \in Lookup(p) :
                /\ info' = [info EXCEPT ![t] = NewInfo(p, KnownInitiators(h, p[1]))]
                /\ job' = [job EXCEPT ![t].todo = @ \ {p}]
                /\ pc' = [pc EXCEPT ![t] = "define"]
          BY <2>1, <3>1 DEF Goto
        <4>2. KnownInitiators(h, p[1]) \in Initiators
          BY <1>1, <2>2, <3>1, LookupIs, DefinitionParts DEF KnownInitiators, Managed, TypeOK
        <4>3. /\ NewInfo(p, KnownInitiators(h, p[1])) \in Info
              /\ NewInfo(p, KnownInitiators(h, p[1])).name = None
              /\ NewInfo(p, KnownInitiators(h, p[1])).node = p[1]
              /\ NewInfo(p, KnownInitiators(h, p[1])) # None
          BY <2>2, <4>2, NewInfoIs, InfoParts
        <4>4. QED
          BY <1>5, <2>2, <4>1, <4>3
      <3>2. CASE p[1] \notin Managed
        BY <2>1, <3>2, StopIs
      <3>3. QED
        BY <3>1, <3>2
    <2>4. WorldTypes'
      BY <1>1, <1>2, <1>6, TypesAre DEF PickDefine, WorldTypes, config, cluster, shared, budget
    <2>5. QED
      BY <1>1, <1>2, <1>3, <2>3, <2>4, TypesAre DEF StepInv, Working, cluster
  <1>7. CASE PickChanged(t)
    <2> DEFINE Takes(p, h) ==
                 /\ job' = [job EXCEPT ![t].todo = @ \ {p}]
                 /\ IF h # None /\ job[t].driver /\ KnownInitiators(h, p[1]) # job[t].seen
                      THEN /\ nodes' = [nodes EXCEPT ![p[1]] = job[t].seen]
                           /\ info' = [info EXCEPT ![t] = NewInfo(p, hd[h].initiators)]
                           /\ Goto(t, "define")
                      ELSE UNCHANGED <<nodes, info, pc>>
    <2>a. PICK p \in job[t].todo : \E h \in Lookup(p) : Takes(p, h)
      BY <1>7 DEF PickChanged
    <2>1. PICK h \in Lookup(p) : Takes(p, h)
      BY <2>a
    <2>2. p \in Nodes \X Secrets /\ p[1] \in Nodes
      BY <1>4
    <2>3. CASE UNCHANGED <<nodes, info, pc>>
      <3>1. /\ pc' = [pc EXCEPT ![t] = "pick"] /\ info' = [info EXCEPT ![t] = info[t]]
            /\ info[t] \in {None} \union Info
        BY <1>1, <2>3 DEF TypeOK
      <3>2. ThreadTypes' /\ OthersInv(t) /\ ThreadInv(t)' /\ pc'[t] = "pick"
        BY <1>5, <2>1, <3>1
      <3>3. WorldTypes'
        BY <1>1, <1>2, <2>3, TypesAre DEF WorldTypes, config, cluster, budget
      <3>4. QED
        BY <1>1, <1>2, <1>3, <3>2, <3>3, TypesAre DEF StepInv, Working, cluster
    <2>4. CASE /\ h # None
               /\ nodes' = [nodes EXCEPT ![p[1]] = job[t].seen]
               /\ info' = [info EXCEPT ![t] = NewInfo(p, hd[h].initiators)]
               /\ Goto(t, "define")
      <3>1. hd[h].initiators \in Initiators
        BY <1>1, <2>2, <2>4, LookupIs, DefinitionParts
      <3>2. /\ NewInfo(p, hd[h].initiators) \in Info /\ NewInfo(p, hd[h].initiators).name = None
            /\ NewInfo(p, hd[h].initiators).node = p[1] /\ NewInfo(p, hd[h].initiators) # None
        BY <2>2, <3>1, NewInfoIs, InfoParts
      <3>3. ThreadTypes' /\ OthersInv(t) /\ ThreadInv(t)' /\ pc'[t] = "define"
        BY <1>5, <2>1, <2>4, <3>2 DEF Goto
      <3>4. nodes' \in [Nodes -> {None} \union Initiators]
        BY <1>1, <2>4, JobParts DEF TypeOK
      <3>5. WorldTypes'
        BY <1>1, <1>2, <3>4, TypesAre DEF WorldTypes, config, cluster, budget
      <3>6. QED
        BY <1>1, <1>2, <1>3, <3>3, <3>5, TypesAre DEF StepInv, Working, cluster
    <2>5. QED
      BY <2>1, <2>3, <2>4
  <1>8. CASE PickUndefine(t)
    <2>1. PICK p \in job[t].todo :
            IF job[t].kind = "undefine" /\ p[1] \notin Managed
              THEN Break(t)
              ELSE /\ \E i \in IF job[t].kind = "undefine" THEN {nodes[p[1]]}
                                 ELSE {hd[h].initiators : h \in Matching(p)} :
                        info' = [info EXCEPT ![t] = NewInfo(p, i)]
                   /\ job' = [job EXCEPT ![t].todo = @ \ {p}]
                   /\ Goto(t, "undefine")
      BY <1>8 DEF PickUndefine
    <2>2. p \in Nodes \X Secrets /\ job[t].kind \in {"undefine", "deletion"}
      BY <1>4, <1>8 DEF PickUndefine
    <2>3. ThreadTypes' /\ OthersInv(t) /\ ThreadInv(t)' /\ pc'[t] \in {"undefine", "idle", "dead", "startWatchers"}
      <3>1. CASE Break(t)
        BY <3>1, StopIs
      <3>2. CASE ~ (job[t].kind = "undefine" /\ p[1] \notin Managed)
        <4>1. PICK i \in IF job[t].kind = "undefine" THEN {nodes[p[1]]}
                           ELSE {hd[h].initiators : h \in Matching(p)} :
                /\ info' = [info EXCEPT ![t] = NewInfo(p, i)]
                /\ job' = [job EXCEPT ![t].todo = @ \ {p}]
                /\ pc' = [pc EXCEPT ![t] = "undefine"]
          BY <2>1, <3>2 DEF Goto
        <4>2. i \in Initiators
          <5>1. CASE job[t].kind = "undefine"
            BY <1>1, <2>2, <3>2, <4>1, <5>1 DEF Managed, TypeOK
          <5>2. CASE job[t].kind # "undefine"
            <6>1. PICK h \in Matching(p) : i = hd[h].initiators
              BY <4>1, <5>2
            <6>2. hd[h] \in HostDefinition
              BY <1>1 DEF Matching, TypeOK
            <6>3. QED
              BY <6>1, <6>2, DefinitionParts
          <5>3. QED
            BY <5>1, <5>2
        <4>3. /\ NewInfo(p, i) \in Info /\ NewInfo(p, i).name = None
              /\ NewInfo(p, i).node = p[1] /\ NewInfo(p, i) # None
          BY <2>2, <4>2, NewInfoIs, InfoParts
        <4>4. QED
          BY <1>5, <2>2, <4>1, <4>3
      <3>3. QED
        BY <2>1, <3>1, <3>2
    <2>4. WorldTypes'
      BY <1>1, <1>2, <1>8, TypesAre DEF PickUndefine, WorldTypes, config, cluster, shared, budget
    <2>5. QED
      BY <1>1, <1>2, <1>3, <2>3, <2>4, TypesAre DEF StepInv, Working, cluster
  <1>9. QED
    BY <1>6, <1>7, <1>8

(* What is left to show of a step that writes nothing that lasts.          *)
LEMMA LocalStep ==
  ASSUME IInv, NEW t \in Threads, pc[t] \in Working,
         UNCHANGED <<config, cluster, hd, host, lost, count, unmanaged, budget>>,
         labelled' \subseteq Nodes, nodes' \in [Nodes -> {None} \union Initiators],
         ThreadTypes', OthersInv(t), ThreadInv(t)', pc'[t] \notin {"addNodes", "addClasses", "started"}
  PROVE  StepInv(t)
  <1>1. PairsKept /\ Kept /\ ReadyHasHost'
    BY NothingWritten DEF config
  <1>2. WorldTypes'
    BY TypesAre DEF IInv, WorldTypes, config, cluster, budget
  <1>3. QED
    BY <1>1, <1>2, TypesAre DEF StepInv, cluster

(* A thread that goes on with what it has in hand.                         *)
LEMMA ContinueIs ==
  ASSUME IInv, NEW t \in Threads, NEW to \in Phase, Continue(t, to), UNCHANGED <<hd, host, lost, protected>>
  PROVE  /\ ThreadTypes' /\ OthersInv(t) /\ NameInv(t)'
         /\ pc'[t] = to /\ job'[t] = job[t] /\ info'[t] = info[t]
  <1>1. TypeOK /\ NameInv(t)
    BY DEF IInv, ThreadInv
  <1>2. /\ pc' = [pc EXCEPT ![t] = to] /\ job' = [job EXCEPT ![t] = job[t]]
        /\ info' = [info EXCEPT ![t] = info[t]]
        /\ job[t] \in {None} \union Job /\ info[t] \in {None} \union Info
    BY <1>1 DEF Continue, Goto, TypeOK
  <1>3. /\ ThreadTypes' /\ OthersInv(t)
        /\ pc'[t] = to /\ job'[t] = job[t] /\ info'[t] = info[t]
    BY <1>2, LocalIs
  <1>4. QED
    BY <1>1, <1>3 DEF NameInv

LEMMA LoopEndsStep ==
  ASSUME IInv, NEW t \in Threads, LoopEnds(t)
  PROVE  StepInv(t)
  <1>1. /\ pc[t] = "pick" /\ job[t] # None /\ TypeOK
        /\ PlaceInv(t) /\ SafeInv(t)
    BY DEF IInv, ThreadInv, PlaceInv, LoopEnds
  <1>2. UNCHANGED <<config, cluster, labelled, hd, host, lost, nodes, count, unmanaged, budget>>
    BY DEF LoopEnds, shared
  <1>3. /\ ThreadTypes' /\ OthersInv(t) /\ ThreadInv(t)'
        /\ pc'[t] \notin {"addNodes", "addClasses", "started"}
    <2>1. CASE Finish(t) \/ Break(t)
      BY <2>1, StopIs
    <2>2. CASE Continue(t, "addDeletions") \/ Continue(t, "unlabel")
      <3>1. PICK to \in {"addDeletions", "unlabel"} : Continue(t, to)
        BY <2>2
      <3>2. to \in Phase
        BY DEF Phase
      <3>3. /\ ThreadTypes' /\ OthersInv(t) /\ NameInv(t)'
            /\ pc'[t] = to /\ job'[t] = job[t] /\ info'[t] = info[t] /\ protected' = protected
        BY <1>2, <3>1, <3>2, ContinueIs DEF config
      <3>4. PlaceInv(t)' /\ SafeInv(t)' /\ DefinedInv(t)'
        BY <1>1, <3>3 DEF PlaceInv, SafeInv, DefinedInv
      <3>5. QED
        BY <3>3, <3>4 DEF ThreadInv
    <2>3. QED
      BY <2>1, <2>2 DEF LoopEnds
  <1>4. labelled' \subseteq Nodes /\ nodes' \in [Nodes -> {None} \union Initiators]
    BY <1>1, <1>2 DEF TypeOK
  <1>5. QED
    BY <1>1, <1>2, <1>3, <1>4, LocalStep DEF Working

LEMMA RecordStep ==
  ASSUME IInv, NEW t \in Threads, Record(t)
  PROVE  StepInv(t)
  <1>1. /\ pc[t] = "record" /\ job[t] # None /\ info[t] # None /\ TypeOK
        /\ info[t] \in Info /\ job[t] \in Job
        /\ PlaceInv(t) /\ SafeInv(t) /\ DefinedInv(t)
    BY DEF IInv, ThreadInv, PlaceInv, Record, TypeOK
  <1>2. UNCHANGED <<config, cluster, labelled, hd, host, lost, nodes, count, unmanaged, budget>>
    BY DEF Record, shared
  <1>3. /\ ThreadTypes' /\ OthersInv(t) /\ ThreadInv(t)'
        /\ pc'[t] \notin {"addNodes", "addClasses", "started"}
    <2>1. CASE Break(t)
      BY <2>1, StopIs
    <2>2. CASE info[t].node \in Managed
      <3>1. PICK h \in Lookup(PairOf(info[t])) :
              /\ info' = [info EXCEPT ![t].name = h, ![t].initiators = nodes[info[t].node]]
              /\ Goto(t, "write") /\ UNCHANGED job
        BY <2>2 DEF Record
      <3> DEFINE i == [info[t] EXCEPT !.name = h, !.initiators = nodes[info[t].node]]
      <3>2. nodes[info[t].node] \in Initiators
        BY <1>1, <2>2, InfoParts DEF Managed, TypeOK
      <3>3. PairOf(info[t]) \in Nodes \X Secrets
        BY <1>1, InfoParts
      <3>4. /\ h \in HdIds \union {None}
            /\ h # None => h \in HdIds /\ PairOf(hd[h]) = PairOf(info[t])
        BY <1>1, <3>1, <3>3, LookupIs
      <3>5. /\ i \in Info /\ i.name = h /\ i.node = info[t].node /\ i.secret = info[t].secret
            /\ i.err = info[t].err /\ i.phase = info[t].phase /\ PairOf(i) = PairOf(info[t])
        BY <1>1, <3>2, <3>4 DEF Info, PairOf
      <3>6. info' = [info EXCEPT ![t] = i]
        BY <1>1, <3>1 DEF TypeOK
      <3> HIDE DEF i
      <3>7. /\ pc' = [pc EXCEPT ![t] = "write"] /\ job' = [job EXCEPT ![t] = job[t]]
            /\ "write" \in Phase
        BY <1>1, <3>1 DEF Goto, TypeOK, Phase
      <3>8. /\ ThreadTypes' /\ OthersInv(t)
            /\ pc'[t] = "write" /\ job'[t] = job[t] /\ info'[t] = i
        <4>1. i \in {None} \union Info /\ job[t] \in {None} \union Job
          BY <1>1, <3>5
        <4>2. QED
          BY <3>6, <3>7, <4>1, LocalIs
      <3>9. i # None
        BY <3>5, InfoParts
      <3>10. PlaceInv(t)'
        BY <1>1, <3>8, <3>9 DEF PlaceInv
      <3>11. NameInv(t)'
        BY <1>2, <3>4, <3>5, <3>8 DEF NameInv
      <3>12. SafeInv(t)' /\ DefinedInv(t)'
        BY <1>1, <1>2, <3>5, <3>8 DEF SafeInv, DefinedInv, config, HasHost
      <3>13. QED
        BY <3>8, <3>10, <3>11, <3>12 DEF ThreadInv
    <2>3. QED
      BY <2>1, <2>2 DEF Record
  <1>4. labelled' \subseteq Nodes /\ nodes' \in [Nodes -> {None} \union Initiators]
    BY <1>1, <1>2 DEF TypeOK
  <1>5. QED
    BY <1>1, <1>2, <1>3, <1>4, LocalStep DEF Working

LEMMA UnlabelStep ==
  ASSUME IInv, NEW t \in Threads, RemoveLabel(t)
  PROVE  StepInv(t)
  <1>1. /\ pc[t] = "unlabel" /\ TypeOK /\ PlaceInv(t) /\ SafeInv(t)
    BY DEF IInv, ThreadInv, RemoveLabel
  <1>2. /\ UNCHANGED <<config, cluster, hd, host, lost, nodes, count, unmanaged, budget>>
        /\ labelled' \subseteq labelled
    BY DEF RemoveLabel, shared
  <1>3. /\ ThreadTypes' /\ OthersInv(t) /\ ThreadInv(t)'
        /\ pc'[t] \notin {"addNodes", "addClasses", "started"}
    <2>1. CASE Finish(t)
      BY <2>1, StopIs
    <2>2. CASE (job[t] = None /\ Continue(t, "try")) \/ (job[t] # None /\ Continue(t, "pop"))
      <3>1. PICK to \in {"try", "pop"} : Continue(t, to) /\ (to = "try" <=> job[t] = None)
        BY <2>2
      <3>2. to \in Phase
        BY DEF Phase
      <3>3. /\ ThreadTypes' /\ OthersInv(t) /\ NameInv(t)'
            /\ pc'[t] = to /\ job'[t] = job[t] /\ info'[t] = info[t] /\ protected' = protected
        BY <1>2, <3>1, <3>2, ContinueIs DEF config
      <3>4. PlaceInv(t)' /\ SafeInv(t)' /\ DefinedInv(t)'
        BY <1>1, <3>1, <3>3 DEF PlaceInv, SafeInv, DefinedInv
      <3>5. QED
        BY <3>3, <3>4 DEF ThreadInv
    <2>3. QED
      BY <2>1, <2>2 DEF RemoveLabel, Retrying
  <1>4. labelled' \subseteq Nodes /\ nodes' \in [Nodes -> {None} \union Initiators]
    BY <1>1, <1>2 DEF TypeOK
  <1>5. QED
    BY <1>1, <1>2, <1>3, <1>4, LocalStep DEF Working

LEMMA PopStep ==
  ASSUME IInv, NEW t \in Threads, Pop(t)
  PROVE  StepInv(t)
  <1>1. pc[t] = "pop" /\ TypeOK
    BY DEF IInv, Pop
  <1>2. UNCHANGED <<config, cluster, labelled, hd, host, lost, count, unmanaged, budget>>
    BY DEF Pop
  <1>3. /\ ThreadTypes' /\ OthersInv(t) /\ ThreadInv(t)'
        /\ pc'[t] \notin {"addNodes", "addClasses", "started"}
    BY StopIs DEF Pop
  <1>4. labelled' \subseteq Nodes /\ nodes' \in [Nodes -> {None} \union Initiators]
    BY <1>1, <1>2 DEF TypeOK, Pop
  <1>5. QED
    BY <1>1, <1>2, <1>3, <1>4, LocalStep DEF Working

(* A thread that starts a loop.                                            *)
LEMMA StartIs ==
  ASSUME IInv, NEW t \in Threads, NEW j \in Job, Start(t, j), UNCHANGED <<hd, host, lost, protected>>,
         j.kind \in {"undefine", "deletion"} => \A p \in j.todo : p[1] \notin protected
  PROVE  /\ ThreadTypes' /\ OthersInv(t) /\ ThreadInv(t)' /\ \A u \in Threads \ {t} : Same(u)
         /\ pc'[t] = "pick" /\ job'[t] = j /\ info'[t] = info[t]
  <1>1. TypeOK /\ NameInv(t)
    BY DEF IInv, ThreadInv
  <1>2. /\ pc' = [pc EXCEPT ![t] = "pick"] /\ job' = [job EXCEPT ![t] = j]
        /\ info' = [info EXCEPT ![t] = info[t]]
        /\ "pick" \in Phase /\ info[t] \in {None} \union Info
    BY <1>1 DEF Start, Goto, TypeOK, Phase
  <1>3. /\ ThreadTypes' /\ OthersInv(t) /\ \A u \in Threads \ {t} : Same(u)
        /\ pc'[t] = "pick" /\ job'[t] = j /\ info'[t] = info[t]
    BY <1>2, LocalIs
  <1>4. j # None
    BY HostDefinerAssumption
  <1>5. PlaceInv(t)' /\ SafeInv(t)' /\ DefinedInv(t)'
    BY <1>3, <1>4 DEF PlaceInv, SafeInv, DefinedInv
  <1>6. NameInv(t)'
    BY <1>1, <1>3 DEF NameInv
  <1>7. QED
    BY <1>3, <1>5, <1>6 DEF ThreadInv

LEMMA DecideStep ==
  ASSUME IInv, NEW t \in Threads, Decide(t)
  PROVE  StepInv(t)
  <1>1. /\ pc[t] = "decide" /\ TypeOK /\ PlaceInv(t) /\ SafeInv(t)
        /\ job[t] # None /\ job[t] \in Job /\ job[t].kind = "changed"
    BY DEF IInv, ThreadInv, PlaceInv, Decide, TypeOK
  <1>2. /\ UNCHANGED <<config, cluster, labelled, hd, host, lost, nodes, count, unmanaged, budget>>
        /\ UNCHANGED <<hd, host, lost, protected>>
    BY DEF Decide, shared, config
  <1> DEFINE ns == job[t].nodes
             ps == ns \X ManagedSecrets
  <1>3. ns \in SUBSET Nodes /\ ps \in SUBSET (Nodes \X Secrets)
    BY <1>1, JobParts DEF ManagedSecrets
  <1>4. /\ ThreadTypes' /\ OthersInv(t) /\ ThreadInv(t)'
        /\ pc'[t] \notin {"addNodes", "addClasses", "started"}
    <2>1. CASE Start(t, [job[t] EXCEPT !.todo = ps])
      <3> DEFINE j == [job[t] EXCEPT !.todo = ps]
      <3>1. j \in Job /\ j.kind = "changed"
        BY <1>1, <1>3 DEF Job
      <3>2. Start(t, j)
        BY <2>1
      <3> HIDE DEF j
      <3>3. QED
        BY <1>2, <3>1, <3>2, StartIs
    <2>2. CASE ns \intersect protected = {} /\ Start(t, Loop("undefine", ps, ns))
      <3> DEFINE j == Loop("undefine", ps, ns)
      <3>1. j \in Job /\ j.todo = ps
        BY <1>3, LoopIs
      <3>2. \A p \in ps : p[1] \notin protected
        BY <2>2
      <3>3. Start(t, j)
        BY <2>2
      <3> HIDE DEF j, ps
      <3>4. QED
        BY <1>2, <3>1, <3>2, <3>3, StartIs
    <2>3. CASE Continue(t, "pop")
      <3>1. "pop" \in Phase
        BY DEF Phase
      <3>2. /\ ThreadTypes' /\ OthersInv(t) /\ NameInv(t)'
            /\ pc'[t] = "pop" /\ job'[t] = job[t] /\ info'[t] = info[t] /\ protected' = protected
        BY <1>2, <2>3, <3>1, ContinueIs
      <3>3. PlaceInv(t)' /\ SafeInv(t)' /\ DefinedInv(t)'
        BY <1>1, <3>2 DEF PlaceInv, SafeInv, DefinedInv
      <3>4. QED
        BY <3>2, <3>3 DEF ThreadInv
    <2>4. QED
      BY <2>1, <2>2, <2>3 DEF Decide
  <1>5. labelled' \subseteq Nodes /\ nodes' \in [Nodes -> {None} \union Initiators]
    BY <1>1, <1>2 DEF TypeOK
  <1>6. QED
    BY <1>1, <1>2, <1>4, <1>5, LocalStep DEF Working

LEMMA TryStep ==
  ASSUME IInv, NEW t \in Workers, Try(t)
  PROVE  StepInv(t)
  <1>0. t \in Threads
    BY DEF Threads
  <1>1. /\ pc[t] = "try" /\ TypeOK /\ PlaceInv(t) /\ NameInv(t)
        /\ job[t] = None /\ info[t] # None /\ info[t] \in Info /\ info[t].phase \in Pending
        /\ info[t].name # None
    BY <1>0 DEF IInv, ThreadInv, PlaceInv, Try, TypeOK
  <1>2. /\ UNCHANGED <<config, cluster, labelled, hd, host, lost, nodes, count, unmanaged, budget>>
        /\ UNCHANGED <<hd, host, lost, protected>>
    BY DEF Try, shared, config
  <1>3. /\ ThreadTypes' /\ OthersInv(t) /\ ThreadInv(t)'
        /\ pc'[t] \notin {"addNodes", "addClasses", "started"}
    <2>1. CASE Finish(t)
      BY <1>0, <2>1, StopIs
    <2>2. CASE /\ info' = [info EXCEPT ![t].tries = info[t].tries - 1, ![t].err = FALSE]
               /\ Goto(t, IF ~MayHandle(info[t]) THEN "settle"
                          ELSE IF info[t].phase = "PendingCreation" THEN "define"
                          ELSE "undefine")
               /\ UNCHANGED job
      <3> DEFINE i == [info[t] EXCEPT !.tries = info[t].tries - 1, !.err = FALSE]
                 to == IF ~MayHandle(info[t]) THEN "settle"
                       ELSE IF info[t].phase = "PendingCreation" THEN "define"
                       ELSE "undefine"
      <3>1. info[t].tries - 1 \in 0 .. Tries
        BY <1>1, InfoParts, HostDefinerAssumption DEF Try
      <3>2. /\ i \in Info /\ i.name = info[t].name /\ i.node = info[t].node /\ i.phase = info[t].phase
            /\ PairOf(i) = PairOf(info[t])
        BY <1>1, <3>1 DEF Info, PairOf
      <3>3. info' = [info EXCEPT ![t] = i] /\ pc' = [pc EXCEPT ![t] = to] /\ job' = [job EXCEPT ![t] = None]
        BY <1>0, <1>1, <2>2 DEF Goto, TypeOK
      <3>4. /\ to \in {"settle", "define", "undefine"} /\ to \in Phase
            /\ to = "settle" => info[t].phase # "PendingCreation"
            /\ to = "undefine" => info[t].node \notin protected
        BY <1>1 DEF Phase, Pending, MayHandle, CanBeUndefined
      <3> HIDE DEF i, to
      <3>5. /\ ThreadTypes' /\ OthersInv(t)
            /\ pc'[t] = to /\ job'[t] = None /\ info'[t] = i
        BY <1>0, <3>2, <3>3, <3>4, LocalIs
      <3>6. i # None
        BY <3>2, InfoParts
      <3>7. PlaceInv(t)'
        BY <1>1, <3>2, <3>4, <3>5, <3>6 DEF PlaceInv
      <3>8. NameInv(t)'
        BY <1>1, <1>2, <3>2, <3>5 DEF NameInv
      <3>9. SafeInv(t)' /\ DefinedInv(t)'
        BY <1>2, <3>2, <3>4, <3>5 DEF SafeInv, DefinedInv
      <3>10. QED
        BY <3>4, <3>5, <3>7, <3>8, <3>9 DEF ThreadInv
    <2>3. QED
      BY <2>1, <2>2 DEF Try
  <1>4. labelled' \subseteq Nodes /\ nodes' \in [Nodes -> {None} \union Initiators]
    BY <1>1, <1>2 DEF TypeOK
  <1>5. QED
    BY <1>0, <1>1, <1>2, <1>3, <1>4, LocalStep DEF Working

-----------------------------------------------------------------------------
(* The array's operations.                                                 *)
LEMMA ArrayStep ==
  ASSUME IInv, NEW t \in Threads, NEW h \in {None} \union SUBSET Ports, NEW e \in BOOLEAN,
         NEW to \in {"patch", "record", "settle", "forget"},
         pc[t] \in {"define", "undefine"}, CallArray(t, PairOf(info[t]), h, e, to),
         to \in {"patch", "settle"} <=> job[t] = None,
         to \in {"settle", "forget"} => info[t].node \notin protected,
         info[t].node \in protected =>
           /\ pc[t] = "define"
           /\ h # None \/ (e /\ (HasHost(PairOf(info[t])) => PairOf(info[t]) \in lost')),
         lost' \subseteq Nodes \X Secrets,
         \A q \in lost : q # PairOf(info[t]) => q \in lost',
         failures' \in 0 .. MaxFailures,
         UNCHANGED <<config, cluster, labelled, hd, shared, events, missed, restarts>>
  PROVE  StepInv(t)
  <1>1. /\ TypeOK /\ PlaceInv(t) /\ NameInv(t) /\ SafeInv(t)
        /\ info[t] # None /\ info[t] \in Info
    BY DEF IInv, ThreadInv, PlaceInv, TypeOK
  <1> DEFINE p == PairOf(info[t])
             i == [info[t] EXCEPT !.err = e]
  <1>2. p \in Nodes \X Secrets /\ p[1] = info[t].node
    BY <1>1, InfoParts
  <1>3. host' = [host EXCEPT ![p] = h] /\ UNCHANGED <<protected, hd>>
    BY DEF CallArray, config
  <1>4. /\ i \in Info /\ i.name = info[t].name /\ i.node = info[t].node /\ i.phase = info[t].phase
        /\ PairOf(i) = p /\ i.err = e
    BY <1>1 DEF Info, PairOf
  <1>5. /\ pc' = [pc EXCEPT ![t] = to] /\ job' = [job EXCEPT ![t] = job[t]]
        /\ info' = [info EXCEPT ![t] = i]
        /\ to \in Phase /\ job[t] \in {None} \union Job
    BY <1>1 DEF CallArray, Answer, Goto, TypeOK, Phase
  <1>6. i # None
    BY <1>4, InfoParts
  <1>7. host' \in [Nodes \X Secrets -> {None} \union SUBSET Ports] /\ host'[p] = h
    BY <1>1, <1>2, <1>3 DEF TypeOK
  <1>8. \A q \in Nodes \X Secrets : q[1] \in protected /\ HasHost(q) => HasHost(q)'
    <2>1. SUFFICES ASSUME NEW q \in Nodes \X Secrets, q[1] \in protected, HasHost(q)
                   PROVE  HasHost(q)'
      OBVIOUS
    <2>2. CASE q = p
      BY <1>2, <1>7, <2>1, <2>2 DEF HasHost
    <2>3. CASE q # p
      BY <1>1, <1>3, <2>1, <2>3 DEF TypeOK, HasHost
    <2>4. QED
      BY <2>2, <2>3
  <1> HIDE DEF i, p
  <1>9. /\ ThreadTypes' /\ OthersInv(t)
        /\ pc'[t] = to /\ job'[t] = job[t] /\ info'[t] = i
    <2>1. i \in {None} \union Info
      BY <1>4
    <2>2. to \in Phase /\ job[t] \in {None} \union Job
      BY <1>5
    <2>3. QED
      BY Zenon, <1>5, <2>1, <2>2, LocalIs
  <1>10. PairsKept /\ Kept
    <2>1. ASSUME NEW q \in Nodes \X Secrets, q[1] \in protected, host[q] # None
          PROVE  host'[q] # None \/ FailsToDefine(q)
      <3>1. CASE q # p
        BY <1>1, <1>3, <2>1, <3>1 DEF TypeOK
      <3>2. CASE q = p /\ h = None
        <4>1. pc[t] = "define" /\ e
          BY <1>2, <2>1, <3>2
        <4>2. PairOf(info[t]) = q /\ info'[t].err
          BY <1>4, <1>9, <3>2, <4>1 DEF p
        <4>3. QED
          BY <4>1, <4>2 DEF FailsToDefine
      <3>3. QED
        BY <1>7, <3>1, <3>2
    <2>2. QED
      BY <1>3, <1>8, <2>1 DEF PairsKept, Kept
  <1>11. ReadyHasHost'
    <2>1. SUFFICES ASSUME NEW d \in HdIds, hd[d] # None, hd[d].phase = "Ready", hd[d].node \in protected
                   PROVE  host'[PairOf(hd[d])] # None \/ PairOf(hd[d]) \in lost'
      BY <1>3 DEF ReadyHasHost, HasHost
    <2>2. hd[d] \in HostDefinition
      BY <1>1, <2>1 DEF TypeOK
    <2>3. PairOf(hd[d]) \in Nodes \X Secrets /\ PairOf(hd[d])[1] = hd[d].node
      BY <2>2, DefinitionParts
    <2>4. HasHost(PairOf(hd[d]))
      BY <2>1 DEF IInv, ReadyHasHost
    <2>5. QED
      BY <1>8, <2>1, <2>3, <2>4 DEF HasHost
  <1>12. TypeOK'
    <2>1. WorldTypes'
      BY <1>1, <1>7, TypesAre DEF WorldTypes, config, cluster, shared
    <2>2. QED
      BY <1>9, <2>1, TypesAre
  <1>13. PlaceInv(t)'
    BY <1>1, <1>4, <1>6, <1>9 DEF PlaceInv
  <1>14. NameInv(t)'
    BY <1>1, <1>3, <1>4, <1>9 DEF NameInv, p
  <1>15. SafeInv(t)'
    BY <1>1, <1>3, <1>4, <1>9 DEF SafeInv
  <1>16. DefinedInv(t)'
    <2>1. ~ e /\ info[t].node \in protected => h # None
      OBVIOUS
    <2>2. QED
      BY <1>3, <1>4, <1>7, <1>9, <2>1 DEF DefinedInv, HasHost
  <1>17. QED
    BY <1>1, <1>9, <1>10, <1>11, <1>12, <1>13, <1>14, <1>15, <1>16
       DEF StepInv, ThreadInv, Working, cluster, shared

LEMMA CurrentIs ==
  ASSUME TypeOK, NEW t \in Threads, info[t] # None
  PROVE  Current(t) \in Initiators
  <1>1. info[t] \in Info
    BY DEF TypeOK
  <1>2. info[t].node \in Nodes /\ info[t].initiators \in Initiators
    BY <1>1, InfoParts
  <1>3. QED
    BY <1>2 DEF Current, TypeOK

(* A definition that leaves no host answers an error.                      *)
LEMMA DefinedIs ==
  ASSUME NEW H \in {None} \union SUBSET Ports, NEW D, NEW C \in SUBSET Ports, NEW R,
         NEW r \in Defined(H, D, C, R)
  PROVE  /\ r.host \in {None} \union SUBSET Ports /\ r.err \in BOOLEAN
         /\ r.host # None \/ r.err
  <1>1. ASSUME NEW S \in SUBSET Ports
        PROVE  /\ Made(S).host \in {None} \union SUBSET Ports /\ Made(S).err \in BOOLEAN
               /\ Made(S).host # None \/ Made(S).err
    BY <1>1, HostDefinerAssumption DEF Made
  <1>2. CASE H = None
    <2>1. C \ R \in SUBSET Ports /\ r = Made(C \ R)
      BY <1>2 DEF Defined
    <2>2. QED
      BY <1>1, <2>1
  <1>3. CASE H # None
    <2>1. H \in SUBSET Ports
      BY <1>3
    <2>2. \/ \E S \in SUBSET Ports : r = Made(S)
          \/ \E b \in BOOLEAN : r = [host |-> H, err |-> b]
      <3>1. C \ R \in SUBSET Ports /\ (H \intersect C) \union (C \ R) \in SUBSET Ports
        OBVIOUS
      <3>2. \/ r = Made(C \ R) \/ r = Made((H \intersect C) \union (C \ R))
            \/ r = [host |-> H, err |-> FALSE] \/ r = [host |-> H, err |-> H \intersect C = {}]
        BY <1>3 DEF Defined
      <3>3. QED
        BY <3>1, <3>2
    <2>3. QED
      BY <1>1, <1>3, <2>1, <2>2
  <1>4. QED
    BY <1>2, <1>3

LEMMA LeftIs ==
  ASSUME NEW H \in {None} \union SUBSET Ports, NEW D, NEW C \in SUBSET Ports,
         NEW h \in LeftByDefine(H, D, C)
  PROVE  h \in {None} \union SUBSET Ports
  <1>1. CASE H = None
    BY <1>1 DEF LeftByDefine
  <1>2. CASE H \in SUBSET Ports /\ H # None
    <2>1. CASE Found(H, D)
      <3>1. LeftByDefine(H, D, C) = {None} \union (SUBSET H) \union (SUBSET C)
        BY <1>2, <2>1 DEF LeftByDefine
      <3>2. h = None \/ h \in SUBSET H \/ h \in SUBSET C
        BY <3>1
      <3>3. QED
        BY <1>2, <3>2
    <2>2. CASE ~ Found(H, D)
      BY <1>2, <2>2 DEF LeftByDefine
    <2>3. QED
      BY <2>1, <2>2
  <1>3. QED
    BY <1>1, <1>2

(* Where a definition goes on, and with what.                              *)
LEMMA DefineIs ==
  ASSUME IInv, NEW t \in Threads, Define(t)
  PROVE  /\ pc[t] = "define" /\ info[t] # None /\ info[t] \in Info
         /\ PairOf(info[t]) \in Nodes \X Secrets
         /\ \E h \in {None} \union SUBSET Ports, e \in BOOLEAN :
              /\ CallArray(t, PairOf(info[t]), h, e, IF Retrying(t) THEN "patch" ELSE "record")
              /\ h # None \/ e
  <1> DEFINE H == host[PairOf(info[t])]
             D == info[t].initiators
             C == Current(t)
             Goes(h, e) ==
               CallArray(t, PairOf(info[t]), h, e, IF Retrying(t) THEN "patch" ELSE "record")
  <1>1. pc[t] = "define" /\ TypeOK /\ info[t] # None /\ info[t] \in Info
    BY DEF IInv, ThreadInv, PlaceInv, Define, TypeOK
  <1>2. PairOf(info[t]) \in Nodes \X Secrets /\ H \in {None} \union SUBSET Ports
    BY <1>1, InfoParts DEF TypeOK
  <1>3. C \in SUBSET Ports
    BY <1>1, CurrentIs DEF Initiators
  <1>4. \/ \E R \in SUBSET C : \E r \in Defined(H, D, C, R) : Goes(r.host, r.err)
        \/ \E h \in LeftByDefine(H, D, C) : Goes(h, TRUE)
    BY DEF Define
  <1> HIDE DEF H, D, C, Goes
  <1>5. \E h \in {None} \union SUBSET Ports, e \in BOOLEAN : Goes(h, e) /\ (h # None \/ e)
    <2>1. CASE \E R \in SUBSET C : \E r \in Defined(H, D, C, R) : Goes(r.host, r.err)
      <3>1. PICK R \in SUBSET C : \E r \in Defined(H, D, C, R) : Goes(r.host, r.err)
        BY <2>1
      <3>2. PICK r \in Defined(H, D, C, R) : Goes(r.host, r.err)
        BY <3>1
      <3>3. r.host \in {None} \union SUBSET Ports /\ r.err \in BOOLEAN /\ (r.host # None \/ r.err)
        BY <1>2, <1>3, DefinedIs
      <3>4. QED
        BY <3>2, <3>3
    <2>2. CASE \E h \in LeftByDefine(H, D, C) : Goes(h, TRUE)
      BY <1>2, <1>3, <2>2, LeftIs
    <2>3. QED
      BY <1>4, <2>1, <2>2
  <1>6. QED
    BY <1>1, <1>2, <1>5 DEF Goes

LEMMA DefineStep ==
  ASSUME IInv, NEW t \in Threads, Define(t)
  PROVE  StepInv(t)
  <1> DEFINE p == PairOf(info[t])
             to == IF Retrying(t) THEN "patch" ELSE "record"
  <1>1. TypeOK /\ pc[t] = "define" /\ p \in Nodes \X Secrets
    BY DefineIs DEF IInv
  <1>2. UNCHANGED <<config, cluster, labelled, hd, shared, events, missed, restarts>>
    BY DEF Define
  <1>3. failures' \in 0 .. MaxFailures
    <2>1. failures' = failures \/ (failures < MaxFailures /\ failures' = failures + 1)
      BY DEF Define
    <2>2. QED
      BY <1>1, <2>1, HostDefinerAssumption DEF TypeOK
  <1>4. to \in {"patch", "record"} /\ (to \in {"patch", "settle"} <=> job[t] = None)
    BY DEF Retrying
  <1>5. PICK h \in {None} \union SUBSET Ports, e \in BOOLEAN : CallArray(t, p, h, e, to) /\ (h # None \/ e)
    BY DefineIs
  <1>6. /\ lost' \subseteq Nodes \X Secrets /\ (\A q \in lost : q # p => q \in lost')
        /\ h # None \/ (HasHost(p) => p \in lost')
    <2>1. host'[p] = h
      BY <1>1, <1>5 DEF CallArray, TypeOK
    <2>2. lost' = IF h # None THEN lost \ {p} ELSE IF host[p] # None THEN lost \union {p} ELSE lost
      BY <2>1 DEF Define
    <2>3. QED
      BY <1>1, <2>2 DEF TypeOK, HasHost
  <1> HIDE DEF to
  <1>7. QED
    BY <1>1, <1>2, <1>3, <1>4, <1>5, <1>6, ArrayStep

LEMMA UndefineStep ==
  ASSUME IInv, NEW t \in Threads, Undefine(t)
  PROVE  StepInv(t)
  <1> DEFINE p == PairOf(info[t])
             to == IF Retrying(t) THEN "settle" ELSE "forget"
  <1>1. /\ pc[t] = "undefine" /\ TypeOK /\ info[t] # None /\ info[t] \in Info
        /\ info[t].node \notin protected
    BY DEF IInv, ThreadInv, PlaceInv, SafeInv, Undefine, TypeOK
  <1>2. UNCHANGED <<config, cluster, labelled, hd, shared, events, missed, restarts>>
    BY DEF Undefine
  <1>3. p \in Nodes \X Secrets /\ host[p] \in {None} \union SUBSET Ports
    BY <1>1, InfoParts DEF TypeOK
  <1>4. failures' \in 0 .. MaxFailures
    <2>1. failures' = failures \/ (failures < MaxFailures /\ failures' = failures + 1)
      BY DEF Undefine
    <2>2. QED
      BY <1>1, <2>1, HostDefinerAssumption DEF TypeOK
  <1>5. to \in {"settle", "forget"} /\ (to \in {"patch", "settle"} <=> job[t] = None)
    BY DEF Retrying
  <1>6. PICK h \in {None} \union SUBSET Ports, e \in BOOLEAN : CallArray(t, p, h, e, to)
    BY <1>3 DEF Undefine
  <1>7. lost' \subseteq Nodes \X Secrets /\ \A q \in lost : q \in lost'
    BY <1>1 DEF Undefine, TypeOK
  <1> HIDE DEF to
  <1>8. QED
    BY <1>1, <1>2, <1>4, <1>5, <1>6, <1>7, ArrayStep

-----------------------------------------------------------------------------
(* Steps that change a HostDefinition.                                     *)
LEMMA ClusterStep ==
  ASSUME IInv, NEW t \in Threads, pc[t] \in Working,
         UNCHANGED <<config, cluster, labelled, host, lost, shared, events, failures, restarts>>,
         missed' \in 0 .. MaxMissed, hd' \in [HdIds -> {None} \union HostDefinition],
         PairsKept, Kept, ReadyHasHost',
         ThreadTypes', OthersInv(t), ThreadInv(t)',
         pc'[t] \notin {"addNodes", "addClasses", "started"}
  PROVE  StepInv(t)
  <1>1. WorldTypes'
    BY TypesAre DEF IInv, WorldTypes, config, cluster, shared
  <1>2. QED
    BY <1>1, TypesAre DEF StepInv, cluster, shared

(* A HostDefinition that changes keeps its pair.                           *)
LEMMA ChangedIs ==
  ASSUME IInv, UNCHANGED <<protected, host, lost>>, NEW h \in HdIds, hd[h] # None,
         NEW d \in {None} \union HostDefinition, hd' = [hd EXCEPT ![h] = d],
         d # None => /\ PairOf(d) = PairOf(hd[h])
                     /\ d.phase = "Ready" =>
                          hd[h].phase = "Ready" \/ (hd[h].node \in protected => HasHost(PairOf(hd[h]))),
         d = None => hd[h].node \notin protected
  PROVE  /\ hd' \in [HdIds -> {None} \union HostDefinition] /\ hd'[h] = d
         /\ PairsKept /\ Kept /\ ReadyHasHost'
         /\ \A k \in HdIds : hd'[k] # None => hd[k] # None /\ PairOf(hd'[k]) = PairOf(hd[k])
  <1>1. TypeOK
    BY DEF IInv
  <1>2. /\ hd' \in [HdIds -> {None} \union HostDefinition] /\ hd'[h] = d
        /\ \A k \in HdIds \ {h} : hd'[k] = hd[k]
    BY <1>1 DEF TypeOK
  <1>3. \A k \in HdIds : hd'[k] # None => hd[k] # None /\ PairOf(hd'[k]) = PairOf(hd[k])
    BY <1>2
  <1>4. PairsKept
    BY <1>3 DEF PairsKept
  <1>5. Kept
    BY <1>2 DEF Kept, HasHost
  <1>6. ReadyHasHost'
    <2>1. SUFFICES ASSUME NEW k \in HdIds, hd'[k] # None, hd'[k].phase = "Ready", hd'[k].node \in protected
                   PROVE  host[PairOf(hd'[k])] # None \/ PairOf(hd'[k]) \in lost
      BY DEF ReadyHasHost, HasHost
    <2>2. CASE k = h
      <3>1. d # None /\ d = hd'[h] /\ d \in HostDefinition /\ hd[h] \in HostDefinition
        BY <1>1, <1>2, <2>1, <2>2 DEF TypeOK
      <3>2. d.node = hd[h].node
        BY <3>1, DefinitionParts
      <3>3. hd[h].phase = "Ready" => host[PairOf(hd[h])] # None \/ PairOf(hd[h]) \in lost
        BY <2>1, <2>2, <3>1, <3>2 DEF IInv, ReadyHasHost, HasHost
      <3>4. QED
        BY <2>1, <2>2, <3>1, <3>2, <3>3 DEF HasHost
    <2>3. CASE k # h
      BY <1>2, <2>1, <2>3 DEF IInv, ReadyHasHost, HasHost
    <2>4. QED
      BY <2>2, <2>3
  <1>7. QED
    BY <1>2, <1>3, <1>4, <1>5, <1>6

LEMMA UnchangedHd ==
  ASSUME IInv, UNCHANGED <<protected, host, lost, hd>>
  PROVE  /\ hd' \in [HdIds -> {None} \union HostDefinition]
         /\ PairsKept /\ Kept /\ ReadyHasHost'
         /\ \A k \in HdIds : hd'[k] # None => hd[k] # None /\ PairOf(hd'[k]) = PairOf(hd[k])
  <1>1. TypeOK
    BY DEF IInv
  <1>2. QED
    BY <1>1, NothingWritten DEF TypeOK

LEMMA SetPhaseIs ==
  ASSUME IInv, UNCHANGED <<protected, host, lost>>, NEW t \in Threads, NEW to \in Phase,
         NEW i \in {None} \union Info, NEW h \in HdIds \union {None}, NEW phase \in Phases,
         SetPhase(t, to, i, h, phase),
         phase = "Ready" /\ h # None =>
           (hd[h] # None => (hd[h].node \in protected => HasHost(PairOf(hd[h]))))
  PROVE  /\ hd' \in [HdIds -> {None} \union HostDefinition] /\ missed' \in 0 .. MaxMissed
         /\ PairsKept /\ Kept /\ ReadyHasHost'
         /\ \A k \in HdIds : hd'[k] # None => hd[k] # None /\ PairOf(hd'[k]) = PairOf(hd[k])
         /\ ThreadTypes' /\ OthersInv(t)
         /\ pc'[t] = to /\ job'[t] = job[t] /\ info'[t] = i
  <1>1. TypeOK
    BY DEF IInv
  <1>2. CASE WriteUnseen(t, to, i) /\ UNCHANGED hd
    <2>1. /\ ThreadTypes' /\ OthersInv(t) /\ missed' \in 0 .. MaxMissed
          /\ pc'[t] = to /\ job'[t] = job[t] /\ info'[t] = i
      BY <1>1, <1>2, WriteIs
    <2>2. QED
      BY <1>2, <2>1, UnchangedHd
  <1>3. CASE /\ h # None /\ hd[h] # None /\ hd' = [hd EXCEPT ![h].phase = phase]
             /\ WriteSeen(t, to, i, h, hd'[h])
    <2> DEFINE d == [hd[h] EXCEPT !.phase = phase]
    <2>1. h \in HdIds /\ hd[h] \in HostDefinition /\ hd' = [hd EXCEPT ![h] = d]
      BY <1>1, <1>3 DEF TypeOK
    <2>2. d \in HostDefinition /\ d.phase = phase /\ PairOf(d) = PairOf(hd[h])
      BY <2>1 DEF HostDefinition, PairOf
    <2>3. d # None
      BY <2>2, DefinitionParts
    <2> HIDE DEF d
    <2>4. /\ hd' \in [HdIds -> {None} \union HostDefinition] /\ hd'[h] = d
          /\ PairsKept /\ Kept /\ ReadyHasHost'
          /\ \A k \in HdIds : hd'[k] # None => hd[k] # None /\ PairOf(hd'[k]) = PairOf(hd[k])
      BY <1>3, <2>1, <2>2, <2>3, ChangedIs
    <2>5. /\ ThreadTypes' /\ OthersInv(t) /\ missed' \in 0 .. MaxMissed
          /\ pc'[t] = to /\ job'[t] = job[t] /\ info'[t] = i
      <3>1. WriteSeen(t, to, i, h, d) /\ PairOf(hd'[h]) = PairOf(d)
        BY <1>3, <2>4
      <3>2. QED
        BY <1>1, <2>1, <2>2, <3>1, WriteIs
    <2>6. QED
      BY <2>4, <2>5
  <1>4. QED
    BY <1>2, <1>3 DEF SetPhase

LEMMA DeleteHdIs ==
  ASSUME IInv, UNCHANGED <<protected, host, lost>>, NEW t \in Threads, NEW to \in Phase,
         NEW i \in {None} \union Info, NEW h \in HdIds,
         DeleteHd(t, to, i, h), hd[h] # None => hd[h].node \notin protected
  PROVE  /\ hd' \in [HdIds -> {None} \union HostDefinition] /\ missed' \in 0 .. MaxMissed
         /\ PairsKept /\ Kept /\ ReadyHasHost'
         /\ \A k \in HdIds : hd'[k] # None => hd[k] # None /\ PairOf(hd'[k]) = PairOf(hd[k])
         /\ ThreadTypes' /\ OthersInv(t)
         /\ pc'[t] = to /\ job'[t] = job[t] /\ info'[t] = i
  <1>1. TypeOK
    BY DEF IInv
  <1>2. CASE WriteUnseen(t, to, i) /\ UNCHANGED hd
    <2>1. /\ ThreadTypes' /\ OthersInv(t) /\ missed' \in 0 .. MaxMissed
          /\ pc'[t] = to /\ job'[t] = job[t] /\ info'[t] = i
      BY <1>1, <1>2, WriteIs
    <2>2. QED
      BY <1>2, <2>1, UnchangedHd
  <1>3. CASE hd[h] # None /\ hd' = [hd EXCEPT ![h] = None] /\ WriteSeen(t, to, i, h, hd[h])
    <2>1. hd[h] \in HostDefinition
      BY <1>1, <1>3 DEF TypeOK
    <2>2. /\ hd' \in [HdIds -> {None} \union HostDefinition] /\ hd'[h] = None
          /\ PairsKept /\ Kept /\ ReadyHasHost'
          /\ \A k \in HdIds : hd'[k] # None => hd[k] # None /\ PairOf(hd'[k]) = PairOf(hd[k])
      BY <1>3, ChangedIs
    <2>3. /\ ThreadTypes' /\ OthersInv(t) /\ missed' \in 0 .. MaxMissed
          /\ pc'[t] = to /\ job'[t] = job[t] /\ info'[t] = i
      BY <1>1, <1>3, <2>1, <2>2, WriteIs
    <2>4. QED
      BY <2>2, <2>3
  <1>4. QED
    BY <1>2, <1>3 DEF DeleteHd

(* The HostDefinition a thread has named, while it is there, is of the     *)
(* thread's node.                                                          *)
LEMMA NamedIs ==
  ASSUME IInv, NEW t \in Threads, info[t] # None
  PROVE  /\ info[t] \in Info /\ info[t].name \in HdIds \union {None}
         /\ info[t].name # None /\ hd[info[t].name] # None =>
              /\ hd[info[t].name] \in HostDefinition
              /\ PairOf(hd[info[t].name]) = PairOf(info[t])
              /\ hd[info[t].name].node = info[t].node
  <1>1. TypeOK /\ NameInv(t) /\ info[t] \in Info
    BY DEF IInv, ThreadInv, TypeOK
  <1>2. info[t].name \in HdIds \union {None}
    BY <1>1, InfoParts
  <1>3. ASSUME info[t].name # None, hd[info[t].name] # None
        PROVE  /\ hd[info[t].name] \in HostDefinition
               /\ PairOf(hd[info[t].name]) = PairOf(info[t])
               /\ hd[info[t].name].node = info[t].node
    <2>1. hd[info[t].name] \in HostDefinition
      BY <1>1, <1>2, <1>3 DEF TypeOK
    <2>2. PairOf(hd[info[t].name]) = PairOf(info[t])
      BY <1>1, <1>3 DEF NameInv
    <2>3. QED
      BY <1>1, <2>1, <2>2, DefinitionParts, InfoParts
  <1>4. QED
    BY <1>1, <1>2, <1>3

LEMMA StatusStep ==
  ASSUME IInv, NEW t \in Threads, Status(t)
  PROVE  StepInv(t)
  <1> DEFINE phase == IF info[t].err THEN "PendingCreation" ELSE "Ready"
  <1>1. /\ pc[t] = "status" /\ job[t] # None /\ info[t] # None /\ SafeInv(t) /\ DefinedInv(t)
    BY DEF IInv, ThreadInv, PlaceInv, Status
  <1>2. UNCHANGED <<config, cluster, labelled, host, lost, shared, events, failures, restarts>>
    BY DEF Status
  <1>3. /\ info[t].name \in HdIds \union {None} /\ phase \in Phases /\ "pick" \in Phase
        /\ SetPhase(t, "pick", None, info[t].name, phase) /\ UNCHANGED <<protected, host, lost>>
    BY <1>1, <1>2, NamedIs DEF Status, Phases, Pending, Phase, config
  <1>4. phase = "Ready" /\ info[t].name # None =>
          (hd[info[t].name] # None =>
             (hd[info[t].name].node \in protected => HasHost(PairOf(hd[info[t].name]))))
    BY <1>1, NamedIs DEF DefinedInv
  <1> HIDE DEF phase
  <1>5. /\ hd' \in [HdIds -> {None} \union HostDefinition] /\ missed' \in 0 .. MaxMissed
        /\ PairsKept /\ Kept /\ ReadyHasHost'
        /\ ThreadTypes' /\ OthersInv(t)
        /\ pc'[t] = "pick" /\ job'[t] = job[t] /\ info'[t] = None
    BY <1>3, <1>4, SetPhaseIs
  <1>6. ThreadInv(t)'
    BY <1>1, <1>3, <1>5 DEF ThreadInv, PlaceInv, NameInv, SafeInv, DefinedInv
  <1>7. QED
    BY <1>1, <1>2, <1>5, <1>6, ClusterStep DEF Working

LEMMA ForgetStep ==
  ASSUME IInv, NEW t \in Threads, Forget(t)
  PROVE  StepInv(t)
  <1>1. /\ pc[t] = "forget" /\ job[t] # None /\ info[t] # None /\ TypeOK
        /\ info[t] \in Info /\ SafeInv(t) /\ info[t].node \notin protected
    BY DEF IInv, ThreadInv, PlaceInv, SafeInv, Forget, TypeOK
  <1>2. UNCHANGED <<config, cluster, labelled, host, lost, shared, events, failures, restarts>>
    BY DEF Forget
  <1>3. UNCHANGED <<protected, host, lost>> /\ "pick" \in Phase /\ "PendingDeletion" \in Phases
    BY <1>2 DEF config, Phase, Phases, Pending
  <1>4. PICK h \in Lookup(PairOf(info[t])) :
          IF h # None /\ ~info[t].err
            THEN DeleteHd(t, "pick", None, h)
            ELSE SetPhase(t, "pick", None, h, "PendingDeletion")
    BY DEF Forget
  <1>5. /\ h \in HdIds \union {None}
        /\ h # None => h \in HdIds /\ hd[h].node = info[t].node
    BY <1>1, InfoParts, LookupIs, DefinitionParts
  <1>6. /\ hd' \in [HdIds -> {None} \union HostDefinition] /\ missed' \in 0 .. MaxMissed
        /\ PairsKept /\ Kept /\ ReadyHasHost'
        /\ ThreadTypes' /\ OthersInv(t)
        /\ pc'[t] = "pick" /\ job'[t] = job[t] /\ info'[t] = None
    <2>1. CASE h # None /\ DeleteHd(t, "pick", None, h)
      <3>1. h \in HdIds /\ (hd[h] # None => hd[h].node \notin protected)
        BY <1>1, <1>5, <2>1
      <3>2. QED
        BY <1>3, <2>1, <3>1, DeleteHdIs
    <2>2. CASE SetPhase(t, "pick", None, h, "PendingDeletion")
      BY <1>3, <1>5, <2>2, SetPhaseIs
    <2>3. QED
      BY <1>4, <2>1, <2>2
  <1>7. ThreadInv(t)'
    BY <1>1, <1>3, <1>6 DEF ThreadInv, PlaceInv, NameInv, SafeInv, DefinedInv
  <1>8. QED
    BY <1>1, <1>2, <1>6, <1>7, ClusterStep DEF Working

LEMMA GiveUpStep ==
  ASSUME IInv, NEW t \in Workers, GiveUp(t)
  PROVE  StepInv(t)
  <1>1. /\ t \in Threads /\ pc[t] = "try" /\ job[t] = None /\ info[t] # None
    BY DEF IInv, ThreadInv, PlaceInv, GiveUp, Threads
  <1>2. UNCHANGED <<config, cluster, labelled, host, lost, shared, events, failures, restarts>>
    BY DEF GiveUp
  <1>3. /\ info[t].name \in HdIds \union {None} /\ "Error" \in Phases /\ "idle" \in Phase
        /\ SetPhase(t, "idle", None, info[t].name, "Error") /\ UNCHANGED <<protected, host, lost>>
    BY <1>1, <1>2, NamedIs DEF GiveUp, Phases, Phase, config
  <1>4. /\ hd' \in [HdIds -> {None} \union HostDefinition] /\ missed' \in 0 .. MaxMissed
        /\ PairsKept /\ Kept /\ ReadyHasHost'
        /\ ThreadTypes' /\ OthersInv(t)
        /\ pc'[t] = "idle" /\ job'[t] = job[t] /\ info'[t] = None
    BY <1>1, <1>3, SetPhaseIs
  <1>5. ThreadInv(t)'
    BY <1>1, <1>4 DEF ThreadInv, PlaceInv, NameInv, SafeInv, DefinedInv
  <1>6. QED
    BY <1>1, <1>2, <1>4, <1>5, ClusterStep DEF Working

LEMMA PatchStep ==
  ASSUME IInv, NEW t \in Workers, Patch(t)
  PROVE  StepInv(t)
  <1>1. /\ t \in Threads /\ pc[t] = "patch" /\ job[t] = None /\ info[t] # None /\ info[t] \in Info
        /\ PlaceInv(t) /\ NameInv(t) /\ DefinedInv(t) /\ TypeOK
    BY DEF IInv, ThreadInv, PlaceInv, Patch, Threads, TypeOK
  <1>2. UNCHANGED <<config, cluster, labelled, hd, host, lost, shared, events, failures, restarts>>
    BY DEF Patch
  <1>3. UNCHANGED <<protected, host, lost, hd>> /\ "settle" \in Phase
    BY <1>2 DEF config, Phase
  <1>4. /\ hd' \in [HdIds -> {None} \union HostDefinition]
        /\ PairsKept /\ Kept /\ ReadyHasHost'
    BY <1>3, UnchangedHd
  <1>5. /\ ThreadTypes' /\ OthersInv(t) /\ missed' \in 0 .. MaxMissed
        /\ pc'[t] = "settle" /\ job'[t] = job[t] /\ info'[t] = info[t]
    <2> DEFINE h == info[t].name
    <2>1. CASE WriteUnseen(t, "settle", info[t])
      BY <1>1, <1>3, <2>1, WriteIs
    <2>2. CASE hd[h] # None /\ WriteSeen(t, "settle", info[t], h, hd[h])
      <3>1. h \in HdIds /\ hd[h] \in HostDefinition
        BY <1>1, <2>2, NamedIs DEF PlaceInv
      <3>2. hd'[h] # None => PairOf(hd'[h]) = PairOf(hd[h])
        BY <1>3
      <3> HIDE DEF h
      <3>3. QED
        BY <1>1, <1>3, <2>2, <3>1, <3>2, WriteIs
    <2>3. QED
      BY <2>1, <2>2 DEF Patch
  <1>6. ThreadInv(t)'
    <2>1. PlaceInv(t)' /\ SafeInv(t)'
      BY <1>1, <1>5 DEF PlaceInv, SafeInv
    <2>2. NameInv(t)'
      BY <1>1, <1>3, <1>5 DEF NameInv
    <2>3. DefinedInv(t)'
      BY <1>1, <1>3, <1>5 DEF DefinedInv, HasHost
    <2>4. QED
      BY <2>1, <2>2, <2>3 DEF ThreadInv
  <1>7. QED
    BY <1>1, <1>2, <1>4, <1>5, <1>6, ClusterStep DEF Working

LEMMA SettleStep ==
  ASSUME IInv, NEW t \in Workers, Settle(t)
  PROVE  StepInv(t)
  <1> DEFINE i == info[t]
  <1>1. /\ t \in Threads /\ pc[t] = "settle" /\ job[t] = None /\ i # None /\ i \in Info
        /\ PlaceInv(t) /\ NameInv(t) /\ DefinedInv(t) /\ TypeOK
        /\ i.phase \in Pending /\ i.name # None
    BY DEF IInv, ThreadInv, PlaceInv, Settle, Threads, TypeOK
  <1>2. UNCHANGED <<config, cluster, labelled, host, lost, shared, events, failures, restarts>>
    BY DEF Settle
  <1>3. /\ UNCHANGED <<protected, host, lost>> /\ "try" \in Phase /\ "unlabel" \in Phase /\ "Ready" \in Phases
        /\ i.name \in HdIds
    BY <1>1, <1>2, InfoParts DEF config, Phase, Phases
  <1>4. /\ hd' \in [HdIds -> {None} \union HostDefinition] /\ missed' \in 0 .. MaxMissed
        /\ PairsKept /\ Kept /\ ReadyHasHost'
        /\ \A k \in HdIds : hd'[k] # None => hd[k] # None /\ PairOf(hd'[k]) = PairOf(hd[k])
        /\ ThreadTypes' /\ OthersInv(t)
        /\ pc'[t] \in {"try", "unlabel"} /\ job'[t] = job[t] /\ info'[t] = i
    <2>1. CASE WriteUnseen(t, "try", i) /\ UNCHANGED hd
      <3>1. /\ hd' \in [HdIds -> {None} \union HostDefinition]
            /\ PairsKept /\ Kept /\ ReadyHasHost'
            /\ \A k \in HdIds : hd'[k] # None => hd[k] # None /\ PairOf(hd'[k]) = PairOf(hd[k])
        BY <1>3, <2>1, UnchangedHd
      <3>2. /\ ThreadTypes' /\ OthersInv(t) /\ missed' \in 0 .. MaxMissed
            /\ pc'[t] = "try" /\ job'[t] = job[t] /\ info'[t] = i
        BY <1>1, <1>3, <2>1, WriteIs
      <3>3. QED
        BY <3>1, <3>2
    <2>2. CASE /\ ~ i.err /\ i.phase = "PendingCreation"
               /\ SetPhase(t, "try", i, i.name, "Ready")
      <3>1. hd[i.name] # None => (hd[i.name].node \in protected => HasHost(PairOf(hd[i.name])))
        BY <1>1, <2>2, NamedIs DEF DefinedInv
      <3> HIDE DEF i
      <3>2. QED
        BY <1>1, <1>3, <2>2, <3>1, SetPhaseIs
    <2>3. CASE /\ MayHandle(i) /\ i.phase # "PendingCreation"
               /\ DeleteHd(t, "unlabel", i, i.name)
      <3>1. i.node \notin protected
        BY <1>1, <2>3 DEF MayHandle, CanBeUndefined, Pending
      <3>2. hd[i.name] # None => hd[i.name].node \notin protected
        BY <1>1, <3>1, NamedIs
      <3> HIDE DEF i
      <3>3. QED
        BY <1>1, <1>3, <2>3, <3>2, DeleteHdIs
    <2>4. QED
      BY <2>1, <2>2, <2>3 DEF Settle
  <1>5. ThreadInv(t)'
    <2>1. PlaceInv(t)' /\ SafeInv(t)' /\ DefinedInv(t)'
      BY <1>1, <1>4 DEF PlaceInv, SafeInv, DefinedInv
    <2>2. NameInv(t)'
      BY <1>1, <1>3, <1>4 DEF NameInv
    <2>3. QED
      BY <2>1, <2>2 DEF ThreadInv
  <1>6. QED
    BY <1>1, <1>2, <1>4, <1>5, ClusterStep DEF Working

LEMMA WriteStep ==
  ASSUME IInv, NEW t \in Threads, Write(t)
  PROVE  StepInv(t)
  <1> DEFINE h == info[t].name
             i == info[t].initiators
  <1>1. /\ pc[t] = "write" /\ job[t] # None /\ info[t] # None /\ info[t] \in Info /\ TypeOK
        /\ PlaceInv(t) /\ NameInv(t) /\ SafeInv(t) /\ DefinedInv(t)
    BY DEF IInv, ThreadInv, PlaceInv, Write, TypeOK
  <1>2. UNCHANGED <<config, cluster, labelled, host, lost, shared, events, failures, restarts>>
    BY DEF Write
  <1>3. UNCHANGED <<protected, host, lost>> /\ "status" \in Phase
    BY <1>2 DEF config, Phase
  <1>4. h \in HdIds \union {None} /\ i \in Initiators
    BY <1>1, InfoParts
  <1>5. PICK x \in Info :
          /\ x # None /\ x.node = info[t].node /\ x.err = info[t].err /\ x.phase = info[t].phase
          /\ PairOf(x) = PairOf(info[t])
          /\ hd' \in [HdIds -> {None} \union HostDefinition] /\ missed' \in 0 .. MaxMissed
          /\ PairsKept /\ Kept /\ ReadyHasHost'
          /\ x.name # None /\ hd'[x.name] # None => PairOf(hd'[x.name]) = PairOf(x)
          /\ ThreadTypes' /\ OthersInv(t)
          /\ pc'[t] = "status" /\ job'[t] = job[t] /\ info'[t] = x
    <2>1. CASE h = None
      <3>1. PICK new \in HdIds :
              /\ hd[new] = None /\ \A u \in Threads : ~Names(u, new)
              /\ hd' = [hd EXCEPT ![new] = [node |-> info[t].node, secret |-> info[t].secret,
                                            initiators |-> i, phase |-> ""]]
              /\ WriteUnseen(t, "status", [info[t] EXCEPT !.name = new])
        BY <2>1 DEF Write
      <3> DEFINE d == [node |-> info[t].node, secret |-> info[t].secret, initiators |-> i, phase |-> ""]
                 x == [info[t] EXCEPT !.name = new]
      <3>2. d \in HostDefinition /\ d.phase = "" /\ PairOf(d) = PairOf(info[t])
        BY <1>1, InfoParts DEF HostDefinition, PairOf, Phases
      <3>3. d # None
        BY <3>2, DefinitionParts
      <3>4. hd' = [hd EXCEPT ![new] = d]
        BY <3>1
      <3>5. /\ x \in Info /\ x.name = new /\ x.node = info[t].node /\ x.err = info[t].err
            /\ x.phase = info[t].phase /\ PairOf(x) = PairOf(info[t])
        BY <1>1 DEF Info, PairOf
      <3>6. x # None
        BY <3>5, InfoParts
      <3>7. WriteUnseen(t, "status", x)
        BY <3>1
      <3> HIDE DEF d, x, i, h
      <3>8. /\ hd' \in [HdIds -> {None} \union HostDefinition] /\ hd'[new] = d
            /\ \A k \in HdIds \ {new} : hd'[k] = hd[k]
        BY <1>1, <3>2, <3>4 DEF TypeOK
      <3>9. /\ ThreadTypes' /\ OthersInv(t) /\ missed' \in 0 .. MaxMissed
            /\ pc'[t] = "status" /\ job'[t] = job[t] /\ info'[t] = x
        BY <1>1, <1>3, <3>5, <3>7, WriteIs
      <3>10. PairsKept
        BY <3>1, <3>8 DEF PairsKept
      <3>11. Kept
        BY <1>3, <3>1, <3>8 DEF Kept, HasHost
      <3>12. ReadyHasHost'
        BY <1>3, <3>2, <3>8 DEF IInv, ReadyHasHost, HasHost
      <3>13. QED
        BY <3>2, <3>5, <3>6, <3>8, <3>9, <3>10, <3>11, <3>12
    <2>2. CASE h # None /\ hd[h] = None /\ WriteUnseen(t, "status", info[t]) /\ UNCHANGED hd
      <3>1. /\ ThreadTypes' /\ OthersInv(t) /\ missed' \in 0 .. MaxMissed
            /\ pc'[t] = "status" /\ job'[t] = job[t] /\ info'[t] = info[t]
        BY <1>1, <1>3, <2>2, WriteIs
      <3>2. /\ hd' \in [HdIds -> {None} \union HostDefinition]
            /\ PairsKept /\ Kept /\ ReadyHasHost'
        BY <1>3, <2>2, UnchangedHd
      <3>3. QED
        BY <1>1, <2>2, <3>1, <3>2
    <2>3. CASE /\ h # None /\ hd[h] # None /\ hd' = [hd EXCEPT ![h].initiators = i]
               /\ WriteSeen(t, "status", info[t], h, hd'[h]) \/ WriteUnseen(t, "status", info[t])
      <3> DEFINE d == [hd[h] EXCEPT !.initiators = i]
      <3>1. /\ h \in HdIds /\ hd[h] \in HostDefinition
            /\ PairOf(hd[h]) = PairOf(info[t]) /\ hd[h].node = info[t].node
        BY <1>1, <2>3, NamedIs
      <3>2. d \in HostDefinition /\ d.phase = hd[h].phase /\ PairOf(d) = PairOf(hd[h])
        BY <1>4, <3>1 DEF HostDefinition, PairOf
      <3>3. d # None
        BY <3>2, DefinitionParts
      <3>4. hd' = [hd EXCEPT ![h] = d]
        BY <1>1, <2>3, <3>1 DEF TypeOK
      <3> HIDE DEF d, i
      <3>5. /\ hd' \in [HdIds -> {None} \union HostDefinition] /\ hd'[h] = d
            /\ PairsKept /\ Kept /\ ReadyHasHost'
        BY <1>3, <2>3, <3>1, <3>2, <3>3, <3>4, ChangedIs
      <3>6. /\ WriteSeen(t, "status", info[t], h, d) \/ WriteUnseen(t, "status", info[t])
            /\ PairOf(hd'[h]) = PairOf(d)
        BY <2>3, <3>5
      <3>7. /\ ThreadTypes' /\ OthersInv(t) /\ missed' \in 0 .. MaxMissed
            /\ pc'[t] = "status" /\ job'[t] = job[t] /\ info'[t] = info[t]
        BY <1>1, <1>3, <3>1, <3>2, <3>6, WriteIs
      <3>8. PairOf(hd'[h]) = PairOf(info[t])
        BY <3>1, <3>2, <3>5
      <3>9. QED
        BY <1>1, <3>5, <3>7, <3>8
    <2>4. QED
      BY <2>1, <2>2, <2>3 DEF Write
  <1>6. ThreadInv(t)'
    <2>1. PlaceInv(t)' /\ SafeInv(t)'
      BY <1>1, <1>3, <1>5 DEF PlaceInv, SafeInv
    <2>2. NameInv(t)'
      BY <1>5 DEF NameInv
    <2>3. DefinedInv(t)'
      BY <1>1, <1>3, <1>5 DEF DefinedInv, HasHost
    <2>4. QED
      BY <2>1, <2>2, <2>3 DEF ThreadInv
  <1>7. QED
    BY <1>1, <1>2, <1>5, <1>6, ClusterStep DEF Working

-----------------------------------------------------------------------------
(* The other threads keep what they rely on.                               *)
LEMMA OtherThread ==
  ASSUME IInv, NEW t \in Threads, StepInv(t), NEW u \in Threads, u # t
  PROVE  ThreadInv(u)'
  <1>1. ThreadInv(u) /\ TypeOK /\ TypeOK'
    BY DEF IInv, StepInv
  <1>2. CASE Same(u)
    <2>1. PlaceInv(u)'
      BY <1>1, <1>2 DEF ThreadInv, PlaceInv, Same
    <2>2. NameInv(u)'
      <3>1. SUFFICES ASSUME info[u] # None, info[u].name # None, hd'[info[u].name] # None
                     PROVE  PairOf(hd'[info[u].name]) = PairOf(info[u])
        BY <1>2 DEF NameInv, Same
      <3>2. info[u] \in Info /\ info[u].name \in HdIds
        BY <1>1, <3>1, InfoParts DEF TypeOK
      <3>3. Names(u, info[u].name)
        BY <3>1 DEF Names
      <3>4. hd[info[u].name] # None
        BY <3>1, <3>2, <3>3 DEF StepInv, PairsKept
      <3>5. PairOf(hd'[info[u].name]) = PairOf(hd[info[u].name])
        BY <3>1, <3>2, <3>4 DEF StepInv, PairsKept
      <3>6. QED
        BY <1>1, <3>1, <3>4, <3>5 DEF ThreadInv, NameInv
    <2>3. SafeInv(u)'
      BY <1>1, <1>2 DEF ThreadInv, SafeInv, Same, StepInv, config
    <2>4. DefinedInv(u)'
      <3>1. protected' = protected
        BY DEF StepInv, config
      <3>2. info[u] # None /\ info[u].node \in protected /\ HasHost(PairOf(info[u]))
              => host'[PairOf(info[u])] # None \/ PairOf(info[u]) \in lost'
        <4>1. SUFFICES ASSUME info[u] # None, info[u].node \in protected, HasHost(PairOf(info[u]))
                       PROVE  host'[PairOf(info[u])] # None \/ PairOf(info[u]) \in lost'
          OBVIOUS
        <4>2. PairOf(info[u]) \in Nodes \X Secrets /\ PairOf(info[u])[1] = info[u].node
          BY <1>1, <4>1, InfoParts DEF TypeOK
        <4>3. QED
          BY <4>1, <4>2 DEF StepInv, Kept, HasHost
      <3>3. pc[u] \in {"record", "write", "status", "patch", "settle"} => info[u] # None
        BY <1>1 DEF ThreadInv, PlaceInv
      <3>4. QED
        BY <1>1, <1>2, <3>1, <3>2, <3>3 DEF ThreadInv, DefinedInv, Same, HasHost
    <2>5. QED
      BY <2>1, <2>2, <2>3, <2>4 DEF ThreadInv
  <1>3. CASE \E h \in HdIds, d \in HostDefinition : Woken(u, h, d)
    <2>1. PICK h \in HdIds, d \in HostDefinition : Woken(u, h, d)
      BY <1>3
    <2> DEFINE i == RetryOf(h, d)
    <2>2. /\ i \in Info /\ i.name = h /\ i.phase \in Pending /\ PairOf(i) = PairOf(d)
      BY <2>1, RetryIs DEF Woken
    <2>3. i # None /\ i.name # None
      BY <2>2, InfoParts, HostDefinerAssumption
    <2>4. /\ pc'[u] = "try" /\ info'[u] = i /\ job'[u] = None
          /\ hd'[h] # None => PairOf(hd'[h]) = PairOf(d)
      BY <1>1, <2>1 DEF Woken, ThreadInv, PlaceInv
    <2> HIDE DEF i
    <2>5. QED
      BY <2>2, <2>3, <2>4 DEF ThreadInv, PlaceInv, NameInv, SafeInv, DefinedInv
  <1>4. QED
    BY <1>2, <1>3 DEF StepInv, OthersInv

LEMMA StepKeeps ==
  ASSUME IInv, NEW t \in Threads, StepInv(t)
  PROVE  IInv'
  <1>1. \A u \in Threads : ThreadInv(u)'
    BY OtherThread DEF StepInv
  <1>2. "main" \in Threads /\ \A u \in Threads \ {t} : Same(u) \/ (pc[u] = "idle" /\ u # "main" /\ pc["main"] = "started" /\ pc'[u] = "try")
    BY DEF StepInv, OthersInv, Woken, Threads
  <1>3. /\ pc["main"] = "started" <=> pc'["main"] = "started"
        /\ pc'["main"] \notin {"addNodes", "addClasses"} => pc["main"] \notin {"addNodes", "addClasses"}
    BY <1>2 DEF StepInv, Same, Working
  <1>4. QuietInv'
    <2>1. SUFFICES ASSUME pc'["main"] # "started", NEW u \in Threads \ {"main"}
                   PROVE  pc'[u] = "idle"
      BY DEF QuietInv
    <2>2. pc[u] = "idle"
      BY <1>3, <2>1 DEF IInv, QuietInv
    <2>3. u # t
      BY <2>2 DEF StepInv, Working
    <2>4. QED
      BY <1>2, <1>3, <2>1, <2>2, <2>3 DEF Same
  <1>5. CountInv'
    BY <1>3 DEF IInv, CountInv, StepInv
  <1>6. QED
    BY <1>1, <1>4, <1>5 DEF IInv, StepInv

-----------------------------------------------------------------------------
(* The start of the definer, and the events of the cluster.                *)
LEMMA EventKeeps ==
  ASSUME IInv, UNCHANGED <<protected, hd, host, lost>>, WorldTypes', ThreadTypes', CountInv', QuietInv',
         \A u \in Threads : Same(u) \/ ThreadInv(u)'
  PROVE  IInv'
  <1>1. TypeOK'
    BY TypesAre
  <1>2. ReadyHasHost'
    BY NothingWritten
  <1>3. ASSUME NEW u \in Threads, Same(u)
        PROVE  ThreadInv(u)'
    <2>1. ThreadInv(u)
      BY DEF IInv
    <2>2. QED
      BY <1>3, <2>1 DEF Same, ThreadInv, PlaceInv, NameInv, SafeInv, DefinedInv, HasHost
  <1>4. QED
    BY <1>1, <1>2, <1>3 DEF IInv

LEMMA MainIs == "main" \in Threads /\ "main" \notin Workers /\ "main" \notin Watchers
  BY HostDefinerAssumption DEF Threads, Watchers

LEMMA InitKeeps == Init => IInv
  <1> SUFFICES ASSUME Init
               PROVE  IInv
    OBVIOUS
  <1>1. TypeOK
    <2>1. <<>> \in Seq([node : Nodes, driver : BOOLEAN]) /\ 0 \in 0 .. MaxEvents /\ 0 \in 0 .. MaxFailures
          /\ 0 \in 0 .. MaxMissed /\ 0 \in 0 .. MaxRestarts
      BY HostDefinerAssumption
    <2>2. 1 \in 0 .. MaxClasses
      BY HostDefinerAssumption
    <2>3. pc \in [Threads -> Phase]
      BY DEF Init, Phase
    <2>4. QED
      BY <2>1, <2>2, <2>3 DEF Init, TypeOK
  <1>2. \A t \in Threads : pc[t] \in {"addNodes", "idle"} /\ job[t] = None /\ info[t] = None
    BY DEF Init
  <1>3. \A t \in Threads : ThreadInv(t)
    BY <1>2 DEF ThreadInv, PlaceInv, NameInv, SafeInv, DefinedInv
  <1>4. QuietInv /\ CountInv
    BY MainIs DEF Init, QuietInv, CountInv
  <1>5. ReadyHasHost
    BY DEF Init, ReadyHasHost
  <1>6. QED
    BY <1>1, <1>3, <1>4, <1>5 DEF IInv

LEMMA AddInitialNodesKeeps ==
  ASSUME IInv, AddInitialNodes
  PROVE  IInv'
  <1>1. /\ TypeOK /\ pc["main"] = "addNodes" /\ "main" \in Threads
        /\ job["main"] = None /\ info["main"] = None
    BY MainIs DEF IInv, ThreadInv, PlaceInv, AddInitialNodes
  <1>2. UNCHANGED <<config, cluster, hd, host, lost, count, unmanaged, budget, protected, job, info>>
    BY DEF AddInitialNodes, Continue, config
  <1>3. pc' = [pc EXCEPT !["main"] = "addClasses"]
    BY DEF AddInitialNodes, Continue, Goto
  <1>4. labelled' \subseteq Nodes /\ nodes' \in [Nodes -> {None} \union Initiators]
    BY <1>1 DEF AddInitialNodes, TypeOK
  <1>5. WorldTypes'
    BY <1>1, <1>2, <1>4, TypesAre DEF WorldTypes, config, cluster, budget
  <1>6. ThreadTypes' /\ pc'["main"] = "addClasses" /\ \A u \in Threads \ {"main"} : Same(u)
    BY <1>1, <1>2, <1>3 DEF TypeOK, ThreadTypes, Same, Phase
  <1>7. ThreadInv("main")'
    BY <1>1, <1>2, <1>6 DEF ThreadInv, PlaceInv, NameInv, SafeInv, DefinedInv
  <1>8. QuietInv' /\ CountInv'
    BY <1>1, <1>6 DEF IInv, QuietInv, CountInv, Same
  <1>9. QED
    BY <1>2, <1>5, <1>6, <1>7, <1>8, EventKeeps

(* The main thread starts a loop.                                          *)
LEMMA MainStarts ==
  ASSUME IInv, pc["main"] # "started", NEW j \in Job, Start("main", j), UNCHANGED <<protected, hd, host, lost>>,
         j.kind \in {"undefine", "deletion"} => \A p \in j.todo : p[1] \notin protected,
         WorldTypes', \A s \in Secrets : count'[s] = classes'[s] \/ (count'[s] = None /\ classes'[s] = 0)
  PROVE  IInv'
  <1>1. /\ ThreadTypes' /\ ThreadInv("main")' /\ pc'["main"] = "pick"
        /\ \A u \in Threads \ {"main"} : Same(u)
    BY MainIs, StartIs
  <1>2. QuietInv' /\ CountInv'
    BY <1>1 DEF IInv, QuietInv, CountInv, Same
  <1>3. QED
    BY <1>1, <1>2, EventKeeps

LEMMA AddInitialClassesKeeps ==
  ASSUME IInv, AddInitialClasses
  PROVE  IInv'
  <1> DEFINE ps == Managed \X {s \in Secrets : classes[s] > 0}
  <1>1. TypeOK /\ pc["main"] = "addClasses"
    BY DEF IInv, AddInitialClasses
  <1>2. UNCHANGED <<config, cluster, labelled, hd, host, lost, nodes, unmanaged, budget, protected, classes>>
    BY DEF AddInitialClasses, config, cluster
  <1>3. count' = [s \in Secrets |-> IF classes[s] = 0 THEN None ELSE classes[s]]
    BY DEF AddInitialClasses
  <1>4. count' \in [Secrets -> 0 .. MaxClasses \union {None}]
    BY <1>1, <1>3 DEF TypeOK
  <1>5. WorldTypes'
    BY <1>1, <1>2, <1>4, TypesAre DEF WorldTypes, config, cluster, budget
  <1>6. \A s \in Secrets : count'[s] = classes'[s] \/ (count'[s] = None /\ classes'[s] = 0)
    BY <1>2, <1>3
  <1>7. ps \in SUBSET (Nodes \X Secrets) /\ Managed \in SUBSET Nodes
    BY DEF Managed
  <1>8. Loop("define", ps, Managed) \in Job /\ Loop("define", ps, Managed).kind = "define"
    BY <1>7, LoopIs
  <1>9. Start("main", Loop("define", ps, Managed))
    BY DEF AddInitialClasses
  <1> HIDE DEF ps
  <1>10. QED
    BY <1>1, <1>2, <1>5, <1>6, <1>8, <1>9, MainStarts

LEMMA AddInitialDeletionsKeeps ==
  ASSUME IInv, AddInitialDeletions
  PROVE  IInv'
  <1>1. TypeOK /\ pc["main"] = "addDeletions"
    BY DEF IInv, AddInitialDeletions
  <1>2. UNCHANGED <<config, cluster, labelled, hd, host, lost, nodes, count, budget, protected, classes>>
    BY DEF AddInitialDeletions, config, cluster
  <1>3. unmanaged' \subseteq Nodes
    BY <1>1 DEF AddInitialDeletions, TypeOK
  <1>4. WorldTypes'
    BY <1>1, <1>2, <1>3, TypesAre DEF WorldTypes, config, cluster, budget
  <1>5. \A s \in Secrets : count'[s] = classes'[s] \/ (count'[s] = None /\ classes'[s] = 0)
    BY <1>1, <1>2 DEF IInv, CountInv
  <1>6. PICK gone \in SUBSET Nodes :
          /\ \A n \in gone : n \notin protected
          /\ Start("main", Loop("deletion", {p \in gone \X Secrets : Matching(p) # {}}, gone))
    BY DEF AddInitialDeletions, CanBeUndefined
  <1> DEFINE ps == {p \in gone \X Secrets : Matching(p) # {}}
             j == Loop("deletion", ps, gone)
  <1>7. ps \in SUBSET (Nodes \X Secrets) /\ \A p \in ps : p[1] \notin protected
    BY <1>6
  <1>8. Start("main", j)
    BY <1>6
  <1> HIDE DEF ps
  <1>9. j \in Job /\ j.todo = ps
    BY <1>6, <1>7, LoopIs
  <1> HIDE DEF j
  <1>10. QED
    BY <1>1, <1>2, <1>4, <1>5, <1>7, <1>8, <1>9, MainStarts

LEMMA RestartKeeps ==
  ASSUME IInv, Restart
  PROVE  IInv'
  <1>1. TypeOK
    BY DEF IInv
  <1>2. UNCHANGED <<config, cluster, labelled, hd, host, lost, events, failures, missed, protected>>
    BY DEF Restart, config
  <1>3. restarts' \in 0 .. MaxRestarts
    BY <1>1, HostDefinerAssumption DEF Restart, TypeOK
  <1>4. /\ nodes' \in [Nodes -> {None} \union Initiators] /\ unmanaged' \subseteq Nodes
        /\ count' \in [Secrets -> 0 .. MaxClasses \union {None}]
    BY DEF Restart
  <1>5. WorldTypes'
    BY <1>1, <1>2, <1>3, <1>4, TypesAre DEF WorldTypes, config, cluster
  <1>6. ThreadTypes'
    BY DEF Restart, ThreadTypes, Phase
  <1>7. \A t \in Threads : pc'[t] \in {"addNodes", "idle"} /\ job'[t] = None /\ info'[t] = None
    BY DEF Restart
  <1>8. \A t \in Threads : ThreadInv(t)'
    BY <1>7 DEF ThreadInv, PlaceInv, NameInv, SafeInv, DefinedInv
  <1>9. QuietInv' /\ CountInv'
    BY MainIs DEF Restart, QuietInv, CountInv
  <1>10. QED
    BY <1>2, <1>5, <1>6, <1>8, <1>9, EventKeeps

LEMMA StartWatchersKeeps ==
  ASSUME IInv, StartWatchers
  PROVE  IInv'
  <1>1. TypeOK /\ pc["main"] = "startWatchers"
    BY DEF IInv, StartWatchers
  <1>2. UNCHANGED <<config, driver, pods, initiators, labelled, classes, hd, host, lost, shared, job, budget, protected>>
    BY DEF StartWatchers, config
  <1>3. queue' \in Seq([node : Nodes, driver : BOOLEAN])
    BY DEF StartWatchers
  <1>4. WorldTypes'
    BY <1>1, <1>2, <1>3, TypesAre DEF WorldTypes, config, shared, budget
  <1> DEFINE waiting == {h \in HdIds : hd[h] # None /\ hd[h].phase \in Pending}
  <1>5. PICK w \in [waiting -> Workers] :
           /\ pc' = [t \in Threads |-> IF t = "main" THEN "started"
                                       ELSE IF \E h \in waiting : w[h] = t THEN "try"
                                       ELSE pc[t]]
           /\ info' = [t \in Threads |->
                         IF \E h \in waiting : w[h] = t
                           THEN LET h == CHOOSE h \in waiting : w[h] = t IN RetryOf(h, hd[h])
                           ELSE info[t]]
    BY DEF StartWatchers
  <1>6. \A t \in Threads :
          \/ /\ t = "main" /\ pc'[t] = "started" /\ info'[t] = info[t]
          \/ /\ t # "main" /\ pc'[t] = "try" /\ \E h \in waiting : info'[t] = RetryOf(h, hd[h])
          \/ t # "main" /\ pc'[t] = pc[t] /\ info'[t] = info[t]
    <2>1. TAKE t \in Threads
    <2>2. CASE t = "main"
      <3>1. ~ \E h \in waiting : w[h] = t
        BY <1>5, <2>2, MainIs
      <3>2. QED
        BY <1>5, <2>2, <3>1
    <2>3. CASE t # "main" /\ \E h \in waiting : w[h] = t
      <3> DEFINE h == CHOOSE h \in waiting : w[h] = t
      <3>1. h \in waiting
        BY <2>3
      <3>2. info'[t] = RetryOf(h, hd[h]) /\ pc'[t] = "try"
        BY <1>5, <2>3
      <3>3. QED
        BY <2>3, <3>1, <3>2
    <2>4. CASE t # "main" /\ ~ \E h \in waiting : w[h] = t
      BY <1>5, <2>4
    <2>5. QED
      BY <2>2, <2>3, <2>4
  <1>7. \A h \in waiting : hd[h] \in HostDefinition /\ RetryOf(h, hd[h]) \in Info
    BY <1>1, RetryIs DEF TypeOK
  <1>8. ThreadTypes'
    <2>1. pc' \in [Threads -> Phase]
      BY <1>1, <1>5 DEF TypeOK, Phase
    <2>2. info' \in [Threads -> {None} \union Info]
      <3>1. \A t \in Threads : info'[t] \in {None} \union Info
        BY <1>1, <1>6, <1>7 DEF TypeOK
      <3>2. QED
        BY <1>5, <3>1
    <2>3. QED
      BY <1>1, <1>2, <2>1, <2>2 DEF TypeOK, ThreadTypes
  <1>9. \A t \in Threads : Same(t) \/ ThreadInv(t)'
    <2>1. TAKE t \in Threads
    <2>2. ThreadInv(t) /\ job'[t] = job[t]
      BY <1>2 DEF IInv
    <2>3. CASE t = "main" /\ pc'[t] = "started" /\ info'[t] = info[t]
      <3>1. job'[t] = None /\ info'[t] = None
        BY <1>1, <2>2, <2>3 DEF ThreadInv, PlaceInv
      <3>2. QED
        BY <2>3, <3>1 DEF ThreadInv, PlaceInv, NameInv, SafeInv, DefinedInv
    <2>4. CASE t # "main" /\ pc'[t] = "try" /\ \E h \in waiting : info'[t] = RetryOf(h, hd[h])
      <3>1. PICK h \in waiting : info'[t] = RetryOf(h, hd[h])
        BY <2>4
      <3>2. job'[t] = None
        BY <1>1, <2>2, <2>4 DEF IInv, QuietInv, ThreadInv, PlaceInv
      <3>3. /\ info'[t] # None /\ info'[t].name = h /\ h # None /\ info'[t].phase \in Pending
            /\ PairOf(info'[t]) = PairOf(hd[h])
        BY <1>7, <3>1, RetryIs, InfoParts, HostDefinerAssumption
      <3>4. PlaceInv(t)'
        BY <2>4, <3>2, <3>3 DEF PlaceInv
      <3>5. NameInv(t)' /\ SafeInv(t)' /\ DefinedInv(t)'
        BY <1>2, <2>4, <3>2, <3>3 DEF NameInv, SafeInv, DefinedInv
      <3>6. QED
        BY <3>4, <3>5 DEF ThreadInv
    <2>5. CASE pc'[t] = pc[t] /\ info'[t] = info[t]
      BY <2>2, <2>5 DEF Same
    <2>6. QED
      BY <1>6, <2>3, <2>4, <2>5
  <1>10. QuietInv'
    BY <1>6, MainIs DEF QuietInv
  <1>11. CountInv'
    BY <1>1, <1>2 DEF IInv, CountInv, shared
  <1>12. QED
    BY <1>2, <1>4, <1>8, <1>9, <1>10, <1>11, EventKeeps

(* An event of which no thread takes notice yet.                           *)
LEMMA UnnoticedKeeps ==
  ASSUME IInv, UNCHANGED <<config, hd, host, lost, local, classes, count>>, WorldTypes'
  PROVE  IInv'
  <1>1. ThreadTypes' /\ \A t \in Threads : Same(t)
    BY TypesAre DEF IInv, ThreadTypes, Same, local
  <1>2. QuietInv' /\ CountInv'
    BY DEF IInv, QuietInv, CountInv, local
  <1>3. QED
    BY <1>1, <1>2, EventKeeps DEF config

LEMMA ClusterKeeps ==
  ASSUME IInv,
         MissCsiNode \/ \E n \in Nodes : Register(n) \/ Deregister(n) \/ Relabel(n)
  PROVE  IInv'
  <1>1. TypeOK
    BY DEF IInv
  <1>2. UNCHANGED <<config, hd, host, lost, local, shared, classes, failures, restarts>>
    BY DEF MissCsiNode, Register, Deregister, Relabel, cluster
  <1>3. missed' \in 0 .. MaxMissed /\ events' \in 0 .. MaxEvents
    <2>1. /\ missed' = missed \/ (missed < MaxMissed /\ missed' = missed + 1)
          /\ events' = events \/ (events < MaxEvents /\ events' = events + 1)
      BY DEF MissCsiNode, Register, Deregister, Relabel, Happens
    <2>2. QED
      BY <1>1, <2>1, HostDefinerAssumption DEF TypeOK
  <1>4. /\ driver' \subseteq Nodes /\ pods' \subseteq Nodes /\ labelled' \subseteq Nodes
    BY <1>1 DEF MissCsiNode, Register, Deregister, Relabel, cluster, TypeOK
  <1>5. initiators' \in [Nodes -> Initiators]
    BY <1>1 DEF MissCsiNode, Register, Deregister, Relabel, cluster, TypeOK
  <1>6. queue' \in Seq([node : Nodes, driver : BOOLEAN])
    <2> DEFINE Event == [node : Nodes, driver : BOOLEAN]
    <2>1. queue \in Seq(Event)
      BY <1>1 DEF TypeOK
    <2>2. CASE MissCsiNode
      BY <2>1, <2>2 DEF MissCsiNode
    <2>3. CASE \E n \in Nodes : Register(n) \/ Deregister(n)
      <3>1. PICK e \in Event : queue' = Append(queue, e)
        BY <2>3 DEF Register, Deregister, Tell
      <3>2. QED
        BY <2>1, <3>1
    <2>4. CASE \E n \in Nodes : Relabel(n)
      BY <2>1, <2>4 DEF Relabel, cluster
    <2>5. QED
      BY <2>2, <2>3, <2>4
  <1>7. WorldTypes'
    BY <1>1, <1>2, <1>3, <1>4, <1>5, <1>6, TypesAre DEF WorldTypes, config, shared
  <1>8. QED
    BY <1>2, <1>7, UnnoticedKeeps DEF shared

(* A watcher that notices an event and starts a loop.                      *)
LEMMA WatcherStarts ==
  ASSUME IInv, pc["main"] = "started", NEW t \in Watchers, NEW j \in Job, Start(t, j),
         j.kind = "define", UNCHANGED <<protected, hd, host, lost>>,
         WorldTypes', \A s \in Secrets : count'[s] = classes'[s] \/ (count'[s] = None /\ classes'[s] = 0)
  PROVE  IInv'
  <1>1. t \in Threads /\ t # "main"
    BY MainIs DEF Threads
  <1>2. /\ ThreadTypes' /\ ThreadInv(t)' /\ pc'[t] = "pick"
        /\ \A u \in Threads \ {t} : Same(u)
    BY <1>1, StartIs
  <1>3. QuietInv' /\ CountInv'
    BY <1>1, <1>2, MainIs DEF QuietInv, CountInv, Same
  <1>4. QED
    BY <1>2, <1>3, EventKeeps

LEMMA DefineLoops ==
  ASSUME TypeOK
  PROVE  /\ \A n \in Nodes : DefineOnAll(n) \in Job /\ DefineOnAll(n).kind = "define"
         /\ \A s \in Secrets : DefineNodes(s) \in Job /\ DefineNodes(s).kind = "define"
  <1>1. ASSUME NEW n \in Nodes
        PROVE  DefineOnAll(n) \in Job /\ DefineOnAll(n).kind = "define"
    <2>1. {n} \X Secrets \in SUBSET (Nodes \X Secrets) /\ {n} \in SUBSET Nodes
      OBVIOUS
    <2>2. QED
      BY <2>1, LoopIs DEF DefineOnAll
  <1>2. ASSUME NEW s \in Secrets
        PROVE  DefineNodes(s) \in Job /\ DefineNodes(s).kind = "define"
    <2> DEFINE j == Loop("define", Managed \X {s}, Managed)
               c == Cardinality(Managed)
    <2>1. Managed \in SUBSET Nodes /\ Managed \X {s} \in SUBSET (Nodes \X Secrets)
      BY DEF Managed
    <2>2. j \in Job /\ j.kind = "define"
      BY <2>1, LoopIs
    <2>3. c \in 0 .. Cardinality(Nodes)
      <3>1. IsFiniteSet(Nodes)
        BY HostDefinerAssumption
      <3>2. IsFiniteSet(Managed) /\ Cardinality(Managed) <= Cardinality(Nodes)
        BY <2>1, <3>1, FS_Subset
      <3>3. Cardinality(Managed) \in Nat /\ Cardinality(Nodes) \in Nat
        BY <3>1, <3>2, FS_CardinalityType
      <3>4. QED
        BY <3>2, <3>3
    <2> HIDE DEF j, c
    <2>4. [j EXCEPT !.size = c] \in Job /\ [j EXCEPT !.size = c].kind = "define"
      BY <2>2, <2>3 DEF Job
    <2>5. QED
      BY <2>4 DEF DefineNodes, j, c
  <1>3. QED
    BY <1>1, <1>2

LEMMA CsiNodeModifiedKeeps ==
  ASSUME IInv, CsiNodeModified
  PROVE  IInv'
  <1> DEFINE n == Head(queue).node
             d == Head(queue).driver
  <1>1. TypeOK /\ pc["csiNode"] = "idle" /\ pc["main"] = "started" /\ queue # <<>>
    BY DEF IInv, CsiNodeModified
  <1>2. UNCHANGED <<config, driver, pods, initiators, classes, hd, host, lost, count, unmanaged, budget, protected>>
    BY DEF CsiNodeModified, config
  <1>3. n \in Nodes /\ d \in BOOLEAN /\ queue' \in Seq([node : Nodes, driver : BOOLEAN])
    <2> DEFINE Event == [node : Nodes, driver : BOOLEAN]
    <2>1. queue \in Seq(Event)
      BY <1>1 DEF TypeOK
    <2>2. Head(queue) \in Event /\ Tail(queue) \in Seq(Event)
      <3> HIDE DEF Event
      <3>1. QED
        BY <1>1, <2>1, HeadTailProperties
    <2>3. queue' = Tail(queue)
      BY DEF CsiNodeModified
    <2>4. QED
      BY <2>2, <2>3
  <1>4. \A s \in Secrets : count'[s] = classes'[s] \/ (count'[s] = None /\ classes'[s] = 0)
    BY <1>1, <1>2 DEF IInv, CountInv
  <1>5. CASE /\ labelled' = labelled \union {n}
             /\ nodes' = [nodes EXCEPT ![n] = initiators[n]]
             /\ Start("csiNode", DefineOnAll(n))
    <2>1. labelled' \subseteq Nodes /\ nodes' \in [Nodes -> {None} \union Initiators]
      BY <1>1, <1>3, <1>5 DEF TypeOK
    <2>2. WorldTypes'
      BY <1>1, <1>2, <1>3, <2>1, TypesAre DEF WorldTypes, config, budget
    <2>3. DefineOnAll(n) \in Job /\ DefineOnAll(n).kind = "define" /\ "csiNode" \in Watchers
      BY <1>1, <1>3, DefineLoops DEF Watchers
    <2>4. QED
      BY <1>1, <1>2, <1>4, <1>5, <2>2, <2>3, WatcherStarts
  <1>6. CASE UNCHANGED <<labelled, nodes>> /\
             \E w \in Workers :
               /\ pc[w] = "idle"
               /\ Goto(w, "decide")
               /\ job' = [job EXCEPT ![w] =
                            [Loop("changed", {}, {n}) EXCEPT !.seen = initiators[n], !.driver = d]]
               /\ UNCHANGED info
    <2> DEFINE j == [Loop("changed", {}, {n}) EXCEPT !.seen = initiators[n], !.driver = d]
    <2>1. PICK w \in Workers :
            /\ pc[w] = "idle"
            /\ pc' = [pc EXCEPT ![w] = "decide"] /\ job' = [job EXCEPT ![w] = j]
            /\ UNCHANGED info
      BY <1>6 DEF Goto
    <2>2. j \in Job /\ j.kind = "changed"
      <3>1. Loop("changed", {}, {n}) \in Job /\ Loop("changed", {}, {n}).kind = "changed"
        BY <1>3, LoopIs
      <3>2. initiators[n] \in Initiators
        BY <1>1, <1>3 DEF TypeOK
      <3>3. QED
        BY <1>3, <3>1, <3>2 DEF Job
    <2> HIDE DEF j
    <2>3. w \in Threads /\ w # "main" /\ "decide" \in Phase
      BY MainIs DEF Threads, Phase
    <2>4. info[w] = None
      BY <2>1, <2>3 DEF IInv, ThreadInv, PlaceInv
    <2>5. info' = [info EXCEPT ![w] = None]
      BY <1>1, <2>1, <2>3, <2>4 DEF TypeOK
    <2>6. /\ ThreadTypes' /\ \A u \in Threads \ {w} : Same(u)
          /\ pc'[w] = "decide" /\ job'[w] = j /\ info'[w] = None
      <3>1. j \in {None} \union Job /\ None \in {None} \union Info
        BY <2>2
      <3>2. pc' = [pc EXCEPT ![w] = "decide"] /\ job' = [job EXCEPT ![w] = j]
        BY <2>1
      <3>3. QED
        BY Zenon, <2>3, <2>5, <3>1, <3>2, LocalIs
    <2>7. j # None
      BY <2>2, JobParts
    <2>8. ThreadInv(w)'
      BY <2>2, <2>6, <2>7 DEF ThreadInv, PlaceInv, NameInv, SafeInv, DefinedInv
    <2>9. QuietInv' /\ CountInv'
      BY <1>1, <1>4, <2>3, <2>6, MainIs DEF QuietInv, CountInv, Same
    <2>10. WorldTypes'
      BY <1>1, <1>2, <1>3, <1>6, TypesAre DEF WorldTypes, config, budget
    <2>11. QED
      BY <1>2, <2>6, <2>8, <2>9, <2>10, EventKeeps
  <1>7. CASE UNCHANGED <<labelled, nodes, local>>
    <2>1. WorldTypes'
      BY <1>1, <1>2, <1>3, <1>7, TypesAre DEF WorldTypes, config, budget
    <2>2. QED
      BY <1>2, <1>7, <2>1, UnnoticedKeeps
  <1>8. QED
    BY <1>5, <1>6, <1>7 DEF CsiNodeModified

LEMMA NodeModifiedKeeps ==
  ASSUME IInv, NEW n \in Nodes, NodeModified(n)
  PROVE  IInv'
  <1>1. TypeOK /\ pc["main"] = "started"
    BY DEF IInv, NodeModified
  <1>2. UNCHANGED <<config, cluster, labelled, hd, host, lost, count, budget, protected, classes>>
    BY DEF NodeModified, config, cluster
  <1>3. \A s \in Secrets : count'[s] = classes'[s] \/ (count'[s] = None /\ classes'[s] = 0)
    BY <1>1, <1>2 DEF IInv, CountInv
  <1>4. unmanaged' \subseteq Nodes /\ nodes' \in [Nodes -> {None} \union Initiators]
    BY <1>1 DEF NodeModified, TypeOK
  <1>5. WorldTypes'
    BY <1>1, <1>2, <1>4, TypesAre DEF WorldTypes, config, cluster, budget
  <1>6. CASE UNCHANGED local
    BY <1>2, <1>5, <1>6, UnnoticedKeeps
  <1>7. CASE Start("node", DefineOnAll(n))
    <2>1. DefineOnAll(n) \in Job /\ DefineOnAll(n).kind = "define" /\ "node" \in Watchers
      BY <1>1, DefineLoops DEF Watchers
    <2>2. QED
      BY <1>1, <1>2, <1>3, <1>5, <1>7, <2>1, WatcherStarts
  <1>8. QED
    BY <1>6, <1>7 DEF NodeModified

LEMMA HappensIs ==
  ASSUME TypeOK, Happens
  PROVE  events' \in 0 .. MaxEvents
  BY HostDefinerAssumption DEF Happens, TypeOK

LEMMA ModifiedKeeps ==
  ASSUME IInv,
         (\E n \in Nodes : IoGroupModified(n)) \/ (\E s \in Secrets : SecretModified(s))
  PROVE  IInv'
  <1>1. TypeOK /\ pc["main"] = "started"
    BY DEF IInv, IoGroupModified, SecretModified
  <1>2. UNCHANGED <<config, cluster, labelled, hd, host, lost, shared, failures, missed, restarts, protected>>
    BY DEF IoGroupModified, SecretModified, config
  <1>3. \A s \in Secrets : count'[s] = classes'[s] \/ (count'[s] = None /\ classes'[s] = 0)
    BY <1>1, <1>2 DEF IInv, CountInv, cluster, shared
  <1>4. events' \in 0 .. MaxEvents
    BY <1>1, HappensIs DEF IoGroupModified, SecretModified
  <1>5. WorldTypes'
    BY <1>1, <1>2, <1>4, TypesAre DEF WorldTypes, config, cluster, shared
  <1>6. PICK t \in Watchers, j \in Job : Start(t, j) /\ j.kind = "define"
    BY <1>1, DefineLoops DEF IoGroupModified, SecretModified, Watchers
  <1>7. QED
    BY <1>1, <1>2, <1>3, <1>5, <1>6, WatcherStarts

LEMMA ClassAddedKeeps ==
  ASSUME IInv, NEW s \in Secrets, ClassAdded(s)
  PROVE  IInv'
  <1>1. /\ TypeOK /\ pc["main"] = "started" /\ classes[s] < MaxClasses
        /\ \A q \in Secrets : count[q] = classes[q] \/ (count[q] = None /\ classes[q] = 0)
    BY DEF IInv, CountInv, ClassAdded
  <1>2. /\ UNCHANGED <<config, driver, pods, initiators, labelled, queue, hd, host, lost, nodes, unmanaged,
                       failures, missed, restarts, protected>>
        /\ classes' = [classes EXCEPT ![s] = classes[s] + 1]
        /\ count' = [count EXCEPT ![s] = IF count[s] \in {None, 0} THEN 1 ELSE count[s] + 1]
    BY DEF ClassAdded, config
  <1>3. events' \in 0 .. MaxEvents
    BY <1>1, HappensIs DEF ClassAdded
  <1>4. classes[s] \in 0 .. MaxClasses /\ classes[s] # None
    BY <1>1, HostDefinerAssumption DEF TypeOK
  <1>5. (IF count[s] \in {None, 0} THEN 1 ELSE count[s] + 1) = classes[s] + 1
    BY <1>1, <1>4
  <1>6. classes[s] + 1 \in 0 .. MaxClasses
    BY <1>1, <1>4, HostDefinerAssumption
  <1>7. /\ classes' \in [Secrets -> 0 .. MaxClasses]
        /\ count' \in [Secrets -> 0 .. MaxClasses \union {None}]
        /\ \A q \in Secrets : count'[q] = classes'[q] \/ (count'[q] = None /\ classes'[q] = 0)
    BY <1>1, <1>2, <1>5, <1>6 DEF TypeOK
  <1>8. WorldTypes'
    BY <1>1, <1>2, <1>3, <1>7, TypesAre DEF WorldTypes, config
  <1>9. CASE Start("storageClass", DefineNodes(s))
    <2>1. DefineNodes(s) \in Job /\ DefineNodes(s).kind = "define" /\ "storageClass" \in Watchers
      BY <1>1, DefineLoops DEF Watchers
    <2>2. QED
      BY <1>1, <1>2, <1>7, <1>8, <1>9, <2>1, WatcherStarts
  <1>10. CASE UNCHANGED local
    <2>1. ThreadTypes' /\ \A t \in Threads : Same(t)
      BY <1>1, <1>10 DEF TypeOK, ThreadTypes, Same, local
    <2>2. QuietInv' /\ CountInv'
      BY <1>1, <1>7, <1>10 DEF QuietInv, CountInv, local
    <2>3. QED
      BY <1>2, <1>8, <2>1, <2>2, EventKeeps
  <1>11. QED
    BY <1>9, <1>10 DEF ClassAdded

LEMMA ClassDeletedKeeps ==
  ASSUME IInv, NEW s \in Secrets, ClassDeleted(s)
  PROVE  IInv'
  <1>1. /\ TypeOK /\ pc["main"] = "started" /\ classes[s] > 0
        /\ \A q \in Secrets : count[q] = classes[q] \/ (count[q] = None /\ classes[q] = 0)
    BY DEF IInv, CountInv, ClassDeleted
  <1>2. /\ UNCHANGED <<config, driver, pods, initiators, labelled, queue, hd, host, lost, nodes, unmanaged, local,
                       failures, missed, restarts, protected>>
        /\ classes' = [classes EXCEPT ![s] = classes[s] - 1]
        /\ count' = [count EXCEPT ![s] = count[s] - 1]
    BY DEF ClassDeleted, config
  <1>3. events' \in 0 .. MaxEvents
    BY <1>1, HappensIs DEF ClassDeleted
  <1>4. classes[s] \in 0 .. MaxClasses /\ count[s] = classes[s]
    BY <1>1, HostDefinerAssumption DEF TypeOK
  <1>5. classes[s] - 1 \in 0 .. MaxClasses
    BY <1>1, <1>4, HostDefinerAssumption
  <1>6. /\ classes' \in [Secrets -> 0 .. MaxClasses]
        /\ count' \in [Secrets -> 0 .. MaxClasses \union {None}]
        /\ \A q \in Secrets : count'[q] = classes'[q] \/ (count'[q] = None /\ classes'[q] = 0)
    BY <1>1, <1>2, <1>4, <1>5 DEF TypeOK
  <1>7. WorldTypes'
    BY <1>1, <1>2, <1>3, <1>6, TypesAre DEF WorldTypes, config
  <1>8. ThreadTypes' /\ \A t \in Threads : Same(t)
    BY <1>1, <1>2 DEF TypeOK, ThreadTypes, Same, local
  <1>9. QuietInv' /\ CountInv'
    BY <1>1, <1>2, <1>6 DEF QuietInv, CountInv, local
  <1>10. QED
    BY <1>2, <1>7, <1>8, <1>9, EventKeeps

-----------------------------------------------------------------------------
(* Every step of a thread is one of the steps above.                       *)
LEMMA ThreadStep ==
  ASSUME IInv,
         \/ \E t \in Threads : Define_(t) \/ LoopEnds(t) \/ Undefine_(t)
         \/ \E t \in Workers : Retry(t)
  PROVE  \E t \in Threads : StepInv(t)
  <1>1. ASSUME NEW t \in Threads, Define_(t) \/ LoopEnds(t) \/ Undefine_(t)
        PROVE  StepInv(t)
    BY <1>1, PickStep, DefineStep, RecordStep, WriteStep, StatusStep, LoopEndsStep, DecideStep,
       UndefineStep, ForgetStep, UnlabelStep, PopStep
       DEF Define_, Undefine_
  <1>2. ASSUME NEW t \in Workers, Retry(t)
        PROVE  t \in Threads /\ StepInv(t)
    BY <1>2, TryStep, GiveUpStep, PatchStep, SettleStep DEF Retry, Threads
  <1>3. QED
    BY <1>1, <1>2

LEMMA StutterKeeps ==
  ASSUME IInv, UNCHANGED vars
  PROVE  IInv'
  <1>1. WorldTypes' /\ ThreadTypes'
    BY TypesAre DEF IInv, vars, WorldTypes, ThreadTypes
  <1>2. UNCHANGED <<config, hd, host, lost, local, classes, count>>
    BY DEF vars, config, local
  <1>3. QED
    BY <1>1, <1>2, UnnoticedKeeps

LEMMA NextKeeps == IInv /\ [Next]_vars => IInv'
  <1> SUFFICES ASSUME IInv, [Next]_vars
               PROVE  IInv'
    OBVIOUS
  <1>1. CASE AddInitialNodes \/ AddInitialClasses \/ AddInitialDeletions \/ StartWatchers \/ Restart
    BY <1>1, AddInitialNodesKeeps, AddInitialClassesKeeps, AddInitialDeletionsKeeps, StartWatchersKeeps,
       RestartKeeps
  <1>2. CASE MissCsiNode \/ \E n \in Nodes : Register(n) \/ Deregister(n) \/ Relabel(n)
    BY <1>2, ClusterKeeps
  <1>3. CASE CsiNodeModified \/ \E n \in Nodes : NodeModified(n)
    BY <1>3, CsiNodeModifiedKeeps, NodeModifiedKeeps
  <1>4. CASE (\E n \in Nodes : IoGroupModified(n)) \/ (\E s \in Secrets : SecretModified(s))
    BY <1>4, ModifiedKeeps
  <1>5. CASE \E s \in Secrets : ClassAdded(s) \/ ClassDeleted(s)
    BY <1>5, ClassAddedKeeps, ClassDeletedKeeps
  <1>6. CASE \/ \E t \in Threads : Define_(t) \/ LoopEnds(t) \/ Undefine_(t)
             \/ \E t \in Workers : Retry(t)
    BY <1>6, ThreadStep, StepKeeps
  <1>7. CASE UNCHANGED vars
    BY <1>7, StutterKeeps
  <1>8. QED
    BY <1>1, <1>2, <1>3, <1>4, <1>5, <1>6, <1>7 DEF Next

-----------------------------------------------------------------------------
(* The inductive invariant holds in every reachable state.                 *)
THEOREM Invariance == Spec => []IInv
  <1>1. QED
    BY InitKeeps, NextKeeps, PTL DEF Spec

(* Each variable of the host definer has its type.                         *)
THEOREM TypeCorrect == Spec => []TypeOK
  <1>1. IInv => TypeOK
    BY DEF IInv
  <1>2. QED
    BY <1>1, Invariance, PTL

(* A HostDefinition in phase Ready of a node that must keep its            *)
(* definitions has a host on the array, or had one that a definition has   *)
(* deleted since: no thread sets the phase by the answer of another pair's *)
(* definition, nor by one that left no host.                               *)
THEOREM ReadyHostExists == Spec => []ReadyHasHost
  <1>1. IInv => ReadyHasHost
    BY DEF IInv
  <1>2. QED
    BY <1>1, Invariance, PTL

LEMMA NextAvoids == IInv /\ [Next]_vars => Kept
  <1> SUFFICES ASSUME IInv, [Next]_vars
               PROVE  Kept
    OBVIOUS
  <1>1. CASE UNCHANGED <<hd, host, lost>>
    BY <1>1 DEF Kept, HasHost
  <1>2. CASE ~ UNCHANGED <<hd, host, lost>>
    <2>1. \/ \E t \in Threads : Define_(t) \/ LoopEnds(t) \/ Undefine_(t)
          \/ \E t \in Workers : Retry(t)
      <3>1. ~ (AddInitialNodes \/ AddInitialClasses \/ AddInitialDeletions \/ StartWatchers \/ Restart)
        BY <1>2 DEF AddInitialNodes, AddInitialClasses, AddInitialDeletions, StartWatchers, Restart
      <3>2. ~ (MissCsiNode \/ \E n \in Nodes : Register(n) \/ Deregister(n) \/ Relabel(n))
        BY <1>2 DEF MissCsiNode, Register, Deregister, Relabel
      <3>3. ~ (CsiNodeModified \/ \E n \in Nodes : NodeModified(n) \/ IoGroupModified(n))
        BY <1>2 DEF CsiNodeModified, NodeModified, IoGroupModified
      <3>4. ~ \E s \in Secrets : SecretModified(s) \/ ClassAdded(s) \/ ClassDeleted(s)
        BY <1>2 DEF SecretModified, ClassAdded, ClassDeleted
      <3>5. ~ UNCHANGED vars
        BY <1>2 DEF vars
      <3>6. QED
        BY <3>1, <3>2, <3>3, <3>4, <3>5 DEF Next
    <2>2. QED
      BY <2>1, ThreadStep DEF StepInv
  <1>3. QED
    BY <1>1, <1>2

(* No step deletes a HostDefinition of a node that has the do-not-delete   *)
(* label, and its host is deleted by no undefinition: where it goes, a     *)
(* thread was at a definition of this very pair and holds an error.        *)
THEOREM LabelledAreKept == Spec => AvoidsDeletion
  <1>1. IInv /\ [Next]_vars =>
          [/\ \A p \in Nodes \X Secrets :
                p[1] \in protected /\ host[p] # None => host'[p] # None \/ FailsToDefine(p)
           /\ \A h \in HdIds :
                hd[h] # None => (hd[h].node \in protected => hd'[h] # None)]_vars
    BY NextAvoids DEF Kept
  <1>2. QED
    BY <1>1, Invariance, PTL DEF Spec, AvoidsDeletion

-----------------------------------------------------------------------------
(* Who tries the pending HostDefinitions.                                  *)
RetriesHd(w, h) == Retrying(w) /\ Names(w, h)

(* A step leaves HostDefinition h without a thread only as PendingIsTried  *)
(* allows.                                                                 *)
LeftAlone(h) ==
  \/ pc["main"] = "started" /\ Untried(h)
  \/ missed' > missed
  \/ \E k \in HdIds \ {h} :
       hd[k] # None /\ PairOf(hd[k]) = PairOf(hd'[h]) /\ hd[k].phase = "Ready"

StepTries == pc'["main"] = "started" => \A h \in HdIds : Untried(h)' => LeftAlone(h)

(* No other thread than t stops to try a HostDefinition.                   *)
LEMMA OthersTry ==
  ASSUME IInv, NEW t \in Threads, OthersInv(t), NEW w \in Workers, w # t, NEW h \in HdIds, RetriesHd(w, h)
  PROVE  RetriesHd(w, h)'
  <1>1. w \in Threads /\ PlaceInv(w) /\ info[w] # None
    BY DEF IInv, ThreadInv, Threads, RetriesHd, Names
  <1>2. Same(w)
    BY <1>1 DEF OthersInv, Woken, PlaceInv
  <1>3. QED
    BY <1>2 DEF Same, RetriesHd, Retrying, Names

(* A HostDefinition the step does not change, which thread t still tries   *)
(* if it did.                                                              *)
LEMMA StillTried ==
  ASSUME IInv, NEW t \in Threads, OthersInv(t), NEW h \in HdIds, hd'[h] = hd[h], Untried(h)',
         t \in Workers /\ RetriesHd(t, h) => RetriesHd(t, h)'
  PROVE  Untried(h)
  <1>1. \A w \in Workers : ~ RetriesHd(w, h)'
    BY DEF Untried, RetriesHd
  <1>2. \A w \in Workers : ~ RetriesHd(w, h)
    BY <1>1, OthersTry
  <1>3. QED
    BY <1>2 DEF Untried, RetriesHd

(* The event of a pending HostDefinition starts a thread, or is missed.    *)
LEMMA SeenIsTried ==
  ASSUME IInv, pc["main"] = "started", NEW t \in Threads, NEW to, NEW i, NEW h \in HdIds,
         NEW d \in HostDefinition, WriteSeen(t, to, i, h, d), d.phase \in Pending, Untried(h)'
  PROVE  missed' > missed
  <1>1. TypeOK /\ job' = job
    BY DEF IInv, WriteSeen
  <1>2. \A w \in Workers : ~ RetriesHd(w, h)'
    BY DEF Untried, RetriesHd
  <1>3. ASSUME NEW w \in Workers \ {t}, pc[w] = "idle",
               info' = [info EXCEPT ![t] = i, ![w] = RetryOf(h, d)]
        PROVE  RetriesHd(w, h)'
    <2>1. w \in Threads /\ job[w] = None
      BY <1>3 DEF IInv, ThreadInv, PlaceInv, Threads
    <2>2. info'[w] = RetryOf(h, d) /\ job'[w] = None
      BY <1>1, <1>3, <2>1 DEF TypeOK
    <2>3. RetryOf(h, d).name = h
      BY DEF RetryOf
    <2>4. info'[w] # None
      BY <2>2, RetryIs, InfoParts
    <2>5. QED
      BY <2>2, <2>3, <2>4 DEF RetriesHd, Retrying, Names
  <1>4. missed' = missed + 1
    BY <1>2, <1>3 DEF WriteSeen
  <1>5. QED
    BY <1>1, <1>4, HostDefinerAssumption DEF TypeOK

LEMMA SetPhaseTries ==
  ASSUME IInv, pc["main"] = "started", NEW t \in Threads, NEW to \in Phase, NEW i \in {None} \union Info,
         NEW k \in HdIds \union {None}, NEW phase \in Phases, SetPhase(t, to, i, k, phase),
         OthersInv(t), job'[t] = job[t], info'[t] = i,
         job[t] = None => i = info[t] \/ (k = info[t].name /\ k # None /\ phase \notin Pending)
  PROVE  \A h \in HdIds : Untried(h)' => LeftAlone(h)
  <1>1. SUFFICES ASSUME NEW h \in HdIds, Untried(h)'
                 PROVE  LeftAlone(h)
    OBVIOUS
  <1>2. TypeOK
    BY DEF IInv
  <1>3. CASE hd'[h] = hd[h]
    <2>1. RetriesHd(t, h) => RetriesHd(t, h)'
      <3>1. SUFFICES ASSUME job[t] = None, info[t] # None, info[t].name = h
                     PROVE  RetriesHd(t, h)'
        BY DEF RetriesHd, Retrying, Names
      <3>2. CASE i = info[t]
        BY <3>1, <3>2 DEF RetriesHd, Retrying, Names
      <3>3. CASE k = h /\ phase \notin Pending
        <4>1. hd[h] # None /\ hd[h].phase \in Pending
          BY <1>1, <1>3 DEF Untried
        <4>2. /\ hd' = [hd EXCEPT ![h].phase = phase] /\ hd[h] \in HostDefinition
          BY <1>2, <3>3, <4>1, HostDefinerAssumption DEF SetPhase, TypeOK
        <4>3. hd'[h].phase = phase
          BY <1>2, <4>2 DEF TypeOK, HostDefinition
        <4>4. QED
          BY <1>3, <3>3, <4>1, <4>3
      <3>4. QED
        BY <3>1, <3>2, <3>3
    <2>2. QED
      BY <1>1, <1>3, <2>1, StillTried DEF LeftAlone
  <1>4. CASE hd'[h] # hd[h]
    <2>1. k # None /\ hd[k] # None /\ hd' = [hd EXCEPT ![k].phase = phase] /\ WriteSeen(t, to, i, k, hd'[k])
      BY <1>4 DEF SetPhase
    <2>2. k = h
      BY <1>2, <1>4, <2>1 DEF TypeOK
    <2>3. hd[h] \in HostDefinition /\ hd'[h] = [hd[h] EXCEPT !.phase = phase]
      BY <1>2, <2>1, <2>2 DEF TypeOK
    <2>4. hd'[h] \in HostDefinition
      BY <2>3 DEF HostDefinition
    <2>5. hd'[h].phase \in Pending
      BY <1>1 DEF Untried
    <2>6. missed' > missed
      BY <1>1, <2>1, <2>2, <2>4, <2>5, SeenIsTried
    <2>7. QED
      BY <2>6 DEF LeftAlone
  <1>5. QED
    BY <1>3, <1>4

LEMMA DeleteHdTries ==
  ASSUME IInv, pc["main"] = "started", NEW t \in Threads, NEW to \in Phase, NEW i \in {None} \union Info,
         NEW k \in HdIds, DeleteHd(t, to, i, k),
         OthersInv(t), job'[t] = job[t], info'[t] = i,
         job[t] = None => i = info[t]
  PROVE  \A h \in HdIds : Untried(h)' => LeftAlone(h)
  <1>1. SUFFICES ASSUME NEW h \in HdIds, Untried(h)'
                 PROVE  LeftAlone(h)
    OBVIOUS
  <1>2. hd'[h] # None
    BY <1>1 DEF Untried
  <1>3. hd'[h] = hd[h]
    BY <1>2 DEF DeleteHd, IInv, TypeOK
  <1>4. RetriesHd(t, h) => RetriesHd(t, h)'
    BY DEF RetriesHd, Retrying, Names
  <1>5. QED
    BY <1>1, <1>3, <1>4, StillTried DEF LeftAlone

(* A step that changes no HostDefinition and whose thread, if it retries   *)
(* one, goes on with it.                                                   *)
LEMMA KeepsTrying ==
  ASSUME IInv, pc["main"] = "started", NEW t \in Threads, OthersInv(t), UNCHANGED hd,
         job[t] = None /\ info[t] # None =>
           job'[t] = None /\ info'[t] # None /\ info'[t].name = info[t].name
  PROVE  \A h \in HdIds : Untried(h)' => LeftAlone(h)
  <1>1. SUFFICES ASSUME NEW h \in HdIds, Untried(h)'
                 PROVE  LeftAlone(h)
    OBVIOUS
  <1>2. RetriesHd(t, h) => RetriesHd(t, h)'
    BY DEF RetriesHd, Retrying, Names
  <1>3. QED
    BY <1>1, <1>2, StillTried DEF LeftAlone

LEMMA LocalTries ==
  ASSUME IInv, pc["main"] = "started", NEW t \in Threads,
         \/ PickDefine(t) \/ PickChanged(t) \/ PickUndefine(t) \/ LoopEnds(t) \/ Record(t)
         \/ Define(t) \/ Undefine(t) \/ Decide(t) \/ RemoveLabel(t) \/ Pop(t)
  PROVE  \A h \in HdIds : Untried(h)' => LeftAlone(h)
  <1>1. TypeOK /\ PlaceInv(t)
    BY DEF IInv, ThreadInv
  <1>2. UNCHANGED hd /\ OthersInv(t)
    <2>1. StepInv(t)
      BY PickStep, LoopEndsStep, RecordStep, DefineStep, UndefineStep, DecideStep, UnlabelStep, PopStep
    <2>2. UNCHANGED hd
      BY DEF PickDefine, PickChanged, PickUndefine, LoopEnds, Record, Define, Undefine, Decide,
             RemoveLabel, Pop
    <2>3. QED
      BY <2>1, <2>2 DEF StepInv
  <1>3. CASE job[t] # None
    BY <1>2, <1>3, KeepsTrying
  <1>4. CASE RemoveLabel(t) /\ job[t] = None
    <2>1. UNCHANGED <<job, info>>
      BY <1>4 DEF RemoveLabel, Continue, Retrying
    <2>2. QED
      BY <1>2, <2>1, KeepsTrying
  <1>5. CASE Define(t) \/ Undefine(t)
    <2>1. PICK e \in BOOLEAN : info' = [info EXCEPT ![t].err = e] /\ UNCHANGED job
      <3>1. CASE Define(t)
        <4>1. PICK h \in {None} \union SUBSET Ports, e \in BOOLEAN :
                CallArray(t, PairOf(info[t]), h, e, IF Retrying(t) THEN "patch" ELSE "record")
          BY <3>1, DefineIs
        <4>2. QED
          BY <4>1 DEF CallArray, Answer
      <3>2. CASE Undefine(t)
        BY <3>2 DEF Undefine, CallArray, Answer
      <3>3. QED
        BY <1>5, <3>1, <3>2
    <2>2. info[t] # None /\ info[t] \in Info
      BY <1>1, <1>5 DEF PlaceInv, Define, Undefine, TypeOK
    <2>3. info'[t] = [info[t] EXCEPT !.err = e] /\ job'[t] = job[t]
      BY <1>1, <2>1 DEF TypeOK
    <2>4. [info[t] EXCEPT !.err = e] \in Info /\ [info[t] EXCEPT !.err = e].name = info[t].name
      BY <2>2 DEF Info
    <2>5. info'[t] # None /\ info'[t].name = info[t].name
      BY <2>3, <2>4, InfoParts
    <2>6. QED
      BY <1>2, <2>3, <2>5, KeepsTrying
  <1>6. job[t] # None \/ RemoveLabel(t) \/ Define(t) \/ Undefine(t)
    BY <1>1 DEF PlaceInv, PickDefine, PickChanged, PickUndefine, LoopEnds, Record, Decide, Pop
  <1>7. QED
    BY <1>3, <1>4, <1>5, <1>6

(* A thread that stops before its tries are used up took another           *)
(* HostDefinition of the pair, which is Ready, for its own.                *)
LEMMA TryTries ==
  ASSUME IInv, pc["main"] = "started", NEW t \in Workers, Try(t)
  PROVE  \A h \in HdIds : Untried(h)' => LeftAlone(h)
  <1>1. /\ t \in Threads /\ TypeOK /\ UNCHANGED hd /\ OthersInv(t)
        /\ job[t] = None /\ info[t] # None /\ info[t] \in Info
    BY TryStep DEF IInv, ThreadInv, PlaceInv, Try, Threads, StepInv, TypeOK
  <1>2. CASE NotPending(info[t])
    <2>1. SUFFICES ASSUME NEW h \in HdIds, Untried(h)'
                   PROVE  LeftAlone(h)
      OBVIOUS
    <2>2. CASE ~ RetriesHd(t, h)
      BY <1>1, <2>1, <2>2, StillTried DEF LeftAlone
    <2>3. CASE RetriesHd(t, h)
      <3>1. hd[h] # None /\ hd[h].phase \in Pending /\ info[t].name = h /\ hd' = hd
        BY <1>1, <2>1, <2>3 DEF Untried, RetriesHd, Names
      <3>2. PairOf(hd[h]) = PairOf(info[t])
        BY <1>1, <3>1, NamedIs, HostDefinerAssumption
      <3>3. PairOf(info[t]) \in Nodes \X Secrets
        BY <1>1, InfoParts
      <3>4. PICK k \in Lookup(PairOf(info[t])) : k # None => hd[k].phase = "Ready"
        BY <1>2 DEF NotPending
      <3>5. h \in Matching(PairOf(info[t]))
        BY <3>1, <3>2 DEF Matching
      <3>6. k \in Matching(PairOf(info[t])) /\ k # None
        BY <3>4, <3>5, HostDefinerAssumption DEF Lookup, Matching
      <3>7. k \in HdIds \ {h} /\ hd[k] # None /\ PairOf(hd[k]) = PairOf(hd'[h]) /\ hd[k].phase = "Ready"
        BY <3>1, <3>2, <3>4, <3>6 DEF Matching, Pending
      <3>8. QED
        BY <3>7 DEF LeftAlone
    <2>4. QED
      BY <2>2, <2>3
  <1>3. CASE /\ info' = [info EXCEPT ![t].tries = info[t].tries - 1, ![t].err = FALSE]
             /\ UNCHANGED job
    <2> DEFINE i == [info[t] EXCEPT !.tries = info[t].tries - 1, !.err = FALSE]
    <2>1. info'[t] = i /\ job'[t] = None
      BY <1>1, <1>3 DEF TypeOK
    <2>2. i.name = info[t].name
      BY <1>1 DEF Info
    <2>3. i # None
      <3>1. info[t].tries > 0 /\ info[t].tries \in 0 .. Tries
        BY <1>1, InfoParts DEF Try
      <3>2. info[t].tries - 1 \in 0 .. Tries
        BY <3>1, HostDefinerAssumption
      <3>3. i \in Info
        BY <1>1, <3>2 DEF Info
      <3>4. QED
        BY <3>3, InfoParts
    <2> HIDE DEF i
    <2>4. QED
      BY <1>1, <2>1, <2>2, <2>3, KeepsTrying
  <1>4. QED
    BY <1>2, <1>3 DEF Try

LEMMA WriteTries ==
  ASSUME IInv, pc["main"] = "started", NEW t \in Threads, Write(t)
  PROVE  \A h \in HdIds : Untried(h)' => LeftAlone(h)
  <1>1. SUFFICES ASSUME NEW h \in HdIds, Untried(h)'
                 PROVE  LeftAlone(h)
    OBVIOUS
  <1>2. /\ TypeOK /\ OthersInv(t) /\ job[t] # None /\ info[t] # None
        /\ info[t].name \in HdIds \union {None}
        /\ hd' \in [HdIds -> {None} \union HostDefinition]
    BY WriteStep, NamedIs, TypesAre DEF IInv, ThreadInv, PlaceInv, Write, StepInv, WorldTypes
  <1>3. hd'[h] # None /\ hd'[h].phase \in Pending /\ hd'[h] \in HostDefinition
    BY <1>1, <1>2 DEF Untried
  <1>4. CASE hd'[h] = hd[h]
    BY <1>1, <1>2, <1>4, StillTried DEF LeftAlone, RetriesHd, Retrying
  <1>5. CASE hd'[h] # hd[h]
    <2>1. CASE info[t].name = None
      <3>1. PICK new \in HdIds :
              hd' = [hd EXCEPT ![new] = [node |-> info[t].node, secret |-> info[t].secret,
                                         initiators |-> info[t].initiators, phase |-> ""]]
        BY <2>1 DEF Write
      <3>2. hd'[h].phase = ""
        BY <1>2, <1>5, <3>1 DEF TypeOK
      <3>3. QED
        BY <1>3, <3>2 DEF Pending
    <2>2. CASE info[t].name # None
      <3> DEFINE k == info[t].name
      <3>1. /\ hd' = [hd EXCEPT ![k].initiators = info[t].initiators]
            /\ WriteSeen(t, "status", info[t], k, hd'[k])
        BY <1>5, <2>2 DEF Write
      <3>2. k = h
        BY <1>2, <1>5, <3>1 DEF TypeOK
      <3>3. missed' > missed
        BY <1>1, <1>3, <3>1, <3>2, SeenIsTried
      <3>4. QED
        BY <3>3 DEF LeftAlone
    <2>3. QED
      BY <2>1, <2>2
  <1>6. QED
    BY <1>4, <1>5

(* A thread that changes a HostDefinition goes on with i.                  *)
LEMMA WriterGoesOn ==
  ASSUME IInv, NEW t \in Threads, NEW to, NEW i, NEW k, NEW phase,
         SetPhase(t, to, i, k, phase) \/ DeleteHd(t, to, i, k)
  PROVE  job'[t] = job[t] /\ info'[t] = i
  <1>1. TypeOK
    BY DEF IInv
  <1>2. CASE WriteUnseen(t, to, i)
    BY <1>1, <1>2 DEF WriteUnseen, TypeOK
  <1>3. CASE \E h, d : WriteSeen(t, to, i, h, d)
    <2>1. PICK h, d : WriteSeen(t, to, i, h, d)
      BY <1>3
    <2>2. QED
      BY <1>1, <2>1 DEF WriteSeen, TypeOK
  <1>4. QED
    BY <1>2, <1>3 DEF SetPhase, DeleteHd

LEMMA StatusTries ==
  ASSUME IInv, pc["main"] = "started", NEW t \in Threads, Status(t)
  PROVE  \A h \in HdIds : Untried(h)' => LeftAlone(h)
  <1> DEFINE phase == IF info[t].err THEN "PendingCreation" ELSE "Ready"
  <1>1. /\ OthersInv(t) /\ job[t] # None /\ info[t] # None
        /\ info[t].name \in HdIds \union {None}
        /\ UNCHANGED <<protected, host, lost>>
    BY StatusStep, NamedIs DEF IInv, ThreadInv, PlaceInv, Status, StepInv, config
  <1>2. /\ phase \in Phases /\ "pick" \in Phase
        /\ SetPhase(t, "pick", None, info[t].name, phase)
    BY DEF Status, Phases, Pending, Phase
  <1> HIDE DEF phase
  <1>3. job'[t] = job[t] /\ info'[t] = None
    BY <1>2, WriterGoesOn
  <1>4. QED
    BY <1>1, <1>2, <1>3, SetPhaseTries

LEMMA ForgetTries ==
  ASSUME IInv, pc["main"] = "started", NEW t \in Threads, Forget(t)
  PROVE  \A h \in HdIds : Untried(h)' => LeftAlone(h)
  <1>1. /\ TypeOK /\ OthersInv(t) /\ job[t] # None /\ info[t] # None /\ info[t] \in Info
    BY ForgetStep DEF IInv, ThreadInv, PlaceInv, Forget, StepInv, TypeOK
  <1>2. "pick" \in Phase /\ "PendingDeletion" \in Phases
    BY DEF Phase, Phases, Pending
  <1>3. PICK k \in Lookup(PairOf(info[t])) :
          \/ k # None /\ DeleteHd(t, "pick", None, k)
          \/ SetPhase(t, "pick", None, k, "PendingDeletion")
    BY DEF Forget
  <1>4. k \in HdIds \union {None}
    BY <1>1, InfoParts, LookupIs
  <1>5. job'[t] = job[t] /\ info'[t] = None
    BY <1>3, WriterGoesOn
  <1>6. CASE k # None /\ DeleteHd(t, "pick", None, k)
    BY <1>1, <1>2, <1>4, <1>5, <1>6, DeleteHdTries
  <1>7. CASE SetPhase(t, "pick", None, k, "PendingDeletion")
    BY <1>1, <1>2, <1>4, <1>5, <1>7, SetPhaseTries
  <1>8. QED
    BY <1>3, <1>6, <1>7

LEMMA RetryTries ==
  ASSUME IInv, pc["main"] = "started", NEW t \in Workers, GiveUp(t) \/ Patch(t) \/ Settle(t)
  PROVE  \A h \in HdIds : Untried(h)' => LeftAlone(h)
  <1> DEFINE i == info[t]
  <1>1. /\ t \in Threads /\ OthersInv(t) /\ TypeOK
        /\ job[t] = None /\ i # None /\ i \in Info /\ i.name # None /\ i.name \in HdIds
    <2>1. t \in Threads /\ TypeOK /\ PlaceInv(t)
      BY DEF IInv, ThreadInv, Threads
    <2>2. job[t] = None /\ i # None /\ i.name # None
      BY <2>1 DEF PlaceInv, GiveUp, Patch, Settle
    <2>3. OthersInv(t)
      BY GiveUpStep, PatchStep, SettleStep DEF StepInv
    <2>4. QED
      BY <2>1, <2>2, <2>3, NamedIs
  <1>2. /\ {"idle", "settle", "try", "unlabel"} \subseteq Phase
        /\ "Error" \in Phases /\ "Ready" \in Phases /\ "Error" \notin Pending
    BY DEF Phase, Phases, Pending
  <1> HIDE DEF i
  <1>3. CASE GiveUp(t)
    <2>1. SetPhase(t, "idle", None, i.name, "Error")
      BY <1>3 DEF GiveUp, i
    <2>2. job'[t] = job[t] /\ info'[t] = None
      BY <1>1, <2>1, WriterGoesOn
    <2>3. QED
      BY <1>1, <1>2, <2>1, <2>2, SetPhaseTries DEF i
  <1>4. CASE UNCHANGED hd /\ (WriteUnseen(t, "settle", i) \/ WriteUnseen(t, "try", i)
                              \/ \E h, d : WriteSeen(t, "settle", i, h, d))
    <2>1. job'[t] = job[t] /\ info'[t] = i
      BY <1>1, <1>4 DEF WriteUnseen, WriteSeen, TypeOK
    <2>2. QED
      BY <1>1, <1>4, <2>1, KeepsTrying DEF i
  <1>5. CASE SetPhase(t, "try", i, i.name, "Ready")
    <2>1. job'[t] = job[t] /\ info'[t] = i
      BY <1>1, <1>5, WriterGoesOn
    <2>2. QED
      BY <1>1, <1>2, <1>5, <2>1, SetPhaseTries DEF i
  <1>6. CASE DeleteHd(t, "unlabel", i, i.name)
    <2>1. job'[t] = job[t] /\ info'[t] = i
      BY <1>1, <1>6, WriterGoesOn
    <2>2. QED
      BY <1>1, <1>2, <1>6, <2>1, DeleteHdTries DEF i
  <1>7. QED
    BY <1>3, <1>4, <1>5, <1>6 DEF Patch, Settle, i

(* The watchers and the cluster leave the threads that retry alone.        *)
LEMMA EventTries ==
  ASSUME IInv, pc["main"] = "started", UNCHANGED hd,
         \A w \in Workers : info[w] # None => job'[w] = job[w] /\ info'[w] = info[w]
  PROVE  \A h \in HdIds : Untried(h)' => LeftAlone(h)
  <1>1. \A h \in HdIds, w \in Workers : RetriesHd(w, h) => RetriesHd(w, h)'
    BY DEF RetriesHd, Retrying, Names
  <1>2. QED
    BY <1>1 DEF Untried, LeftAlone, RetriesHd

(* Each event of a pending HostDefinition of the first list starts a       *)
(* thread of its own.                                                      *)
LEMMA StartTries ==
  ASSUME IInv, StartWatchers, NEW h \in HdIds
  PROVE  ~ Untried(h)'
  <1> DEFINE waiting == {k \in HdIds : hd[k] # None /\ hd[k].phase \in Pending}
  <1>1. PICK w \in [waiting -> Workers] :
          /\ \A k, l \in waiting : w[k] = w[l] => k = l
          /\ info' = [t \in Threads |->
                        IF \E k \in waiting : w[k] = t
                          THEN LET k == CHOOSE k \in waiting : w[k] = t IN RetryOf(k, hd[k])
                          ELSE info[t]]
    BY DEF StartWatchers
  <1>2. UNCHANGED <<hd, job>> /\ TypeOK /\ pc["main"] = "startWatchers"
    BY DEF StartWatchers, IInv
  <1>3. SUFFICES ASSUME h \in waiting
                 PROVE  \E t \in Workers : RetriesHd(t, h)'
    BY <1>2 DEF Untried, RetriesHd
  <1> DEFINE t == w[h]
             k == CHOOSE k \in waiting : w[k] = t
  <1>4. t \in Workers /\ t \in Threads /\ t # "main"
    BY <1>3, MainIs DEF Threads
  <1>5. k = h
    BY <1>1, <1>3
  <1>6. info'[t] = RetryOf(h, hd[h])
    BY <1>1, <1>3, <1>4, <1>5
  <1>7. hd[h] \in HostDefinition
    BY <1>2, <1>3 DEF TypeOK
  <1>8. job'[t] = None
    BY <1>2, <1>4 DEF IInv, QuietInv, ThreadInv, PlaceInv
  <1>9. RetryOf(h, hd[h]) \in Info /\ RetryOf(h, hd[h]).name = h
    BY <1>7, RetryIs
  <1>10. info'[t] # None /\ info'[t].name = h
    BY <1>6, <1>9, InfoParts
  <1> HIDE DEF t
  <1>11. RetriesHd(t, h)'
    BY <1>8, <1>10 DEF RetriesHd, Retrying, Names
  <1>12. QED
    BY <1>4, <1>11

LEMMA NextTries == IInv /\ [Next]_vars => StepTries \/ UNCHANGED vars
  <1> SUFFICES ASSUME IInv, Next, pc'["main"] = "started"
               PROVE  \A h \in HdIds : Untried(h)' => LeftAlone(h)
    BY DEF StepTries
  <1>1. CASE StartWatchers
    BY <1>1, StartTries
  <1>2. CASE AddInitialNodes \/ AddInitialClasses \/ AddInitialDeletions \/ Restart
    <2>1. pc \in [Threads -> Phase] /\ "main" \in Threads
      BY MainIs DEF IInv, TypeOK
    <2>2. pc'["main"] \in {"addClasses", "pick", "addNodes"}
      BY <1>2, <2>1 DEF AddInitialNodes, AddInitialClasses, AddInitialDeletions, Restart, Continue, Start, Goto
    <2>3. QED
      BY <2>2
  <1>3. CASE MissCsiNode \/ (\E n \in Nodes : Register(n) \/ Deregister(n) \/ Relabel(n))
             \/ (\E s \in Secrets : ClassDeleted(s))
    <2>1. UNCHANGED <<hd, pc, job, info>>
      BY <1>3 DEF MissCsiNode, Register, Deregister, Relabel, ClassDeleted, local
    <2>2. pc["main"] = "started"
      BY <2>1
    <2>3. QED
      BY <2>1, <2>2, EventTries
  <1>4. CASE CsiNodeModified \/ (\E n \in Nodes : NodeModified(n) \/ IoGroupModified(n))
             \/ (\E s \in Secrets : SecretModified(s) \/ ClassAdded(s))
    <2>1. pc["main"] = "started" /\ UNCHANGED hd
      BY <1>4 DEF CsiNodeModified, NodeModified, IoGroupModified, SecretModified, ClassAdded
    <2>2. \/ UNCHANGED local
          \/ \E t \in Watchers : \E j : Start(t, j)
          \/ \E w \in Workers : \E j : pc[w] = "idle" /\ job' = [job EXCEPT ![w] = j] /\ UNCHANGED info
      <3>1. CASE CsiNodeModified
        BY <3>1 DEF CsiNodeModified, Watchers
      <3>2. CASE \E n \in Nodes : NodeModified(n) \/ IoGroupModified(n)
        BY <3>2 DEF NodeModified, IoGroupModified, Watchers
      <3>3. CASE \E s \in Secrets : SecretModified(s) \/ ClassAdded(s)
        BY <3>3 DEF SecretModified, ClassAdded, Watchers
      <3>4. QED
        BY <1>4, <3>1, <3>2, <3>3
    <2>3. \A w \in Workers : info[w] # None => job'[w] = job[w] /\ info'[w] = info[w]
      <3>1. SUFFICES ASSUME NEW w \in Workers, info[w] # None
                     PROVE  job'[w] = job[w] /\ info'[w] = info[w]
        OBVIOUS
      <3>2. w \in Threads /\ w \notin Watchers /\ TypeOK /\ pc[w] # "idle"
        BY <3>1, HostDefinerAssumption DEF Threads, IInv, ThreadInv, PlaceInv
      <3>3. QED
        BY <2>2, <3>2 DEF Start, local, TypeOK
    <2>4. QED
      BY <2>1, <2>3, EventTries
  <1>5. CASE \/ \E t \in Threads : Define_(t) \/ LoopEnds(t) \/ Undefine_(t)
             \/ \E t \in Workers : Retry(t)
    <2>1. PICK t \in Threads : StepInv(t)
      BY <1>5, ThreadStep
    <2>2. pc["main"] = "started"
      <3>1. "main" # t
        BY <2>1 DEF StepInv
      <3>2. Same("main")
        BY <2>1, <3>1, MainIs DEF StepInv, OthersInv, Woken
      <3>3. QED
        BY <3>2 DEF Same
    <2>3. QED
      BY <1>5, <2>2, LocalTries, WriteTries, StatusTries, ForgetTries, TryTries, RetryTries
         DEF Define_, Undefine_, Retry
  <1>6. QED
    BY <1>1, <1>2, <1>3, <1>4, <1>5 DEF Next

(* Once the watchers run, a step leaves a pending HostDefinition without a *)
(* thread that tries it only if an event is missed, or if the thread took  *)
(* another HostDefinition of the pair, which is Ready, for its own.        *)
THEOREM PendingHasThread == Spec => PendingIsTried
  <1>1. IInv /\ [Next]_vars =>
          [pc'["main"] = "started" =>
             \A h \in HdIds :
               Untried(h)' =>
                 \/ pc["main"] = "started" /\ Untried(h)
                 \/ missed' > missed
                 \/ \E k \in HdIds \ {h} :
                      hd[k] # None /\ PairOf(hd[k]) = PairOf(hd'[h]) /\ hd[k].phase = "Ready"]_vars
    BY NextTries DEF StepTries, LeftAlone
  <1>2. QED
    BY <1>1, Invariance, PTL DEF Spec, PendingIsTried
=============================================================================
