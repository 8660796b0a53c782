--------------------------- MODULE ConnectionPool ---------------------------
(***************************************************************************)
(* controllers/array_action/array_connection_pool.py, with the get_mediator *)
(* of storage_agent.py that uses it: the pool of logged-in mediators (here *)
(* connections) that the controller's worker threads share for one storage *)
(* array.  The pool keeps the idle connections in a FIFO queue and a count *)
(* of all it has handed out, keeps idle or is opening.                     *)
(*                                                                         *)
(* A step of a thread is one access to the queue, one critical section of  *)
(* the pool's lock, or one call to the array.  An array may drop a         *)
(* connection at any time; the pool can see that only by is_active().      *)
(***************************************************************************)
EXTENDS Naturals, Sequences, FiniteSets, Functions

CONSTANTS
  Workers,        \* the worker threads of the gRPC server
  Conns,          \* identities of connections; one is reused once it is gone
  NoConn,
  MaxSize,        \* ConnectionPool.max_size
  CreateMayFail,  \* whether a login to the array can fail
  TimedWorkers    \* the threads that call get_mediator with a timeout: no
                  \* handler does so today

(* Every mediator class allows at least two connections and                *)
(* CSI_CONTROLLER_SERVER_WORKERS is 10, so max_size is positive.           *)
ASSUME PoolAssumption ==
  /\ IsFiniteSet(Workers)
  /\ NoConn \notin Conns
  /\ MaxSize \in Nat \ {0}
  /\ CreateMayFail \in BOOLEAN
  /\ TimedWorkers \subseteq Workers

VARIABLES
  channel,       \* the queue of idle connections
  current_size,  \* the pool's count
  active,        \* the connections whose session the array still honours
  at,            \* where each thread is
  item,          \* the connection each thread has in hand
  life           \* open: in the agent cache; retired: dropped from it but
                 \* still referenced; closing, closed: __del__ runs, has run

poolVars == <<channel, current_size, active, at, item, life>>

Place == {"idle", "poll", "inspect", "drop", "disconnectDead", "reserve",
          "creating", "waiting", "using", "putBack", "putDisconnect"}

MoveTo(t, to) == at' = [at EXCEPT ![t] = to]

Hold(t, c) == item' = [item EXCEPT ![t] = c]

InHand == {item[t] : t \in Workers} \ {NoConn}

(* The constructor opens min_size = 1 connection and puts it in the queue; *)
(* an agent whose first login fails is never cached.                       *)
PoolInit ==
  /\ \E c \in Conns : channel = <<c>> /\ active = {c}
  /\ current_size = 1
  /\ at = [t \in Workers |-> "idle"]
  /\ item = [t \in Workers |-> NoConn]
  /\ life = "open"

-----------------------------------------------------------------------------
(* get(): a request takes the cached agent and asks its pool for a         *)
(* connection.                                                             *)
Get(t) ==
  /\ at[t] = "idle"
  /\ life = "open"
  /\ MoveTo(t, "poll")
  /\ UNCHANGED <<channel, current_size, active, item, life>>

(* get(): the non-blocking channel.get that starts each round of the loop. *)
Poll(t) ==
  /\ at[t] = "poll"
  /\ \/ /\ channel # <<>>
        /\ Hold(t, Head(channel))
        /\ channel' = Tail(channel)
        /\ MoveTo(t, "inspect")
     \/ /\ channel = <<>>
        /\ MoveTo(t, "reserve")
        /\ UNCHANGED <<item, channel>>
  /\ UNCHANGED <<current_size, active, life>>

(* get(): item.is_active().                                                *)
Inspect(t) ==
  /\ at[t] = "inspect"
  /\ MoveTo(t, IF item[t] \in active THEN "using" ELSE "drop")
  /\ UNCHANGED <<channel, current_size, active, item, life>>

(* Mutant: a dead item stays in the count.                                 *)
DropDeadUncounted(t) ==
  /\ at[t] = "drop"
  /\ MoveTo(t, "disconnectDead")
  /\ UNCHANGED <<channel, current_size, active, item, life>>

(* get(): a dead item leaves the count before it is disconnected.          *)
DropDead(t) ==
  /\ at[t] = "drop"
  /\ current_size' = current_size - 1
  /\ MoveTo(t, "disconnectDead")
  /\ UNCHANGED <<channel, active, item, life>>

(* disconnect() of the item in hand, in get() for a dead one and in put()  *)
(* for one the pool has no room for; a failure is logged and ignored.      *)
Disconnect(t) ==
  /\ at[t] \in {"disconnectDead", "putDisconnect"}
  /\ active' = active \ {item[t]}
  /\ Hold(t, NoConn)
  /\ MoveTo(t, IF at[t] = "disconnectDead" THEN "poll" ELSE "idle")
  /\ UNCHANGED <<channel, current_size, life>>

(* get(): under the lock, reserve a place for a new connection or find the *)
(* pool full.                                                              *)
Reserve(t) ==
  /\ at[t] = "reserve"
  /\ \/ /\ current_size >= MaxSize
        /\ MoveTo(t, "waiting")
        /\ UNCHANGED current_size
     \/ /\ current_size < MaxSize
        /\ current_size' = current_size + 1
        /\ MoveTo(t, "creating")
  /\ UNCHANGED <<channel, active, item, life>>

(* get(): create() logs in to the array ...                                *)
Create(t) ==
  /\ at[t] = "creating"
  /\ \E c \in Conns \ (Range(channel) \union InHand) :
       /\ Hold(t, c)
       /\ active' = active \union {c}
  /\ MoveTo(t, "using")
  /\ UNCHANGED <<channel, current_size, life>>

(* ... or raises: the place is given up, and so is the request.  In        *)
(* __del__ the exception ends the destructor.                              *)
CreateFailed(t) ==
  /\ at[t] = "creating"
  /\ CreateMayFail
  /\ current_size' = current_size - 1
  /\ MoveTo(t, "idle")
  /\ life' = IF life = "closing" THEN "closed" ELSE life
  /\ UNCHANGED <<channel, active, item>>

(* Mutant: the waiter reads the head of the queue and leaves it there.     *)
WaitDonePeeks(t) ==
  /\ at[t] = "waiting"
  /\ channel # <<>>
  /\ Hold(t, Head(channel))
  /\ MoveTo(t, "using")
  /\ UNCHANGED <<channel, current_size, active, life>>

(* get(): the blocking channel.get of a full pool returns what it is given. *)
WaitDone(t) ==
  /\ at[t] = "waiting"
  /\ channel # <<>>
  /\ Hold(t, Head(channel))
  /\ channel' = Tail(channel)
  /\ MoveTo(t, "using")
  /\ UNCHANGED <<current_size, active, life>>

(* get(): the wait timed out; get_mediator raises NoConnectionAvailable.   *)
WaitTimeout(t) ==
  /\ at[t] = "waiting"
  /\ t \in TimedWorkers
  /\ channel = <<>>
  /\ MoveTo(t, "idle")
  /\ UNCHANGED <<channel, current_size, active, item, life>>

(* Mutant: put() counts the item off although it keeps it.                 *)
PutCountsOff(t) ==
  /\ at[t] = "using"
  /\ life # "closing"
  /\ current_size' = current_size - 1
  /\ MoveTo(t, "putBack")
  /\ UNCHANGED <<channel, active, item, life>>

(* put(): the handler is done (or failed): under the lock, discard the     *)
(* item if the pool holds more than it may.                                *)
Put(t) ==
  LET discard == current_size > MaxSize
  IN  /\ at[t] = "using"
      /\ life # "closing"
      /\ current_size' = IF discard THEN current_size - 1 ELSE current_size
      /\ MoveTo(t, IF discard THEN "putDisconnect" ELSE "putBack")
      /\ UNCHANGED <<channel, active, item, life>>

(* Mutant: the handler goes on using the mediator it gave back.            *)
PutBackKeepsItem(t) ==
  /\ at[t] = "putBack"
  /\ channel' = Append(channel, item[t])
  /\ MoveTo(t, "idle")
  /\ UNCHANGED <<current_size, active, item, life>>

(* put(): the non-blocking channel.put; Full discards the item.            *)
PutBack(t) ==
  LET full == Len(channel) >= MaxSize
  IN  /\ at[t] = "putBack"
      /\ channel' = IF full THEN channel ELSE Append(channel, item[t])
      /\ Hold(t, IF full THEN item[t] ELSE NoConn)
      /\ MoveTo(t, IF full THEN "putDisconnect" ELSE "idle")
      /\ UNCHANGED <<current_size, active, life>>

-----------------------------------------------------------------------------
(* get_agent drops the agent from its cache (the password changed) ...     *)
Retire ==
  /\ life = "open"
  /\ life' = "retired"
  /\ UNCHANGED <<channel, current_size, active, at, item>>

(* ... and the thread that drops the last reference runs __del__: while    *)
(* the count is positive it get()s a connection, ...                       *)
Close(t) ==
  /\ life \in {"retired", "closing"}
  /\ \A u \in Workers : at[u] = "idle"
  /\ \/ /\ current_size > 0
        /\ life' = "closing"
        /\ MoveTo(t, "poll")
     \/ /\ current_size = 0
        /\ life' = "closed"
        /\ UNCHANGED at
  /\ UNCHANGED <<channel, current_size, active, item>>

(* Mutant: the destructor disconnects without counting off.                *)
CloseOneUncounted(t) ==
  /\ at[t] = "using"
  /\ life = "closing"
  /\ active' = active \ {item[t]}
  /\ Hold(t, NoConn)
  /\ MoveTo(t, "idle")
  /\ UNCHANGED <<channel, current_size, life>>

(* ... disconnects it and counts it off.                                   *)
CloseOne(t) ==
  /\ at[t] = "using"
  /\ life = "closing"
  /\ active' = active \ {item[t]}
  /\ current_size' = current_size - 1
  /\ Hold(t, NoConn)
  /\ MoveTo(t, "idle")
  /\ UNCHANGED <<channel, life>>

(* The array or the network drops a session.                               *)
Die(c) ==
  /\ c \in active
  /\ active' = active \ {c}
  /\ UNCHANGED <<channel, current_size, at, item, life>>

WorkerStep(t) ==
  \/ Poll(t)     \/ Inspect(t) \/ DropDead(t)     \/ Disconnect(t)
  \/ Reserve(t)  \/ Create(t)  \/ CreateFailed(t)
  \/ WaitDone(t) \/ WaitTimeout(t)
  \/ Put(t)      \/ PutBack(t) \/ Close(t)        \/ CloseOne(t)

PoolNext ==
  \/ \E t \in Workers : Get(t) \/ WorkerStep(t)
  \/ Retire
  \/ \E c \in Conns : Die(c)

(* Workers are scheduled, calls to the array return and handlers end;      *)
(* nobody has to make a request, change a password or drop a session.      *)
PoolFairness == \A t \in Workers : WF_poolVars(WorkerStep(t))

PoolSpec == PoolInit /\ [][PoolNext]_poolVars

FairPoolSpec == PoolSpec /\ PoolFairness

-----------------------------------------------------------------------------
(* The threads whose connection, present or to come, the count includes.   *)
Counted ==
  {t \in Workers :
     at[t] \in {"inspect", "drop", "creating", "using", "putBack"}}

HasItem(t) ==
  at[t] \in {"inspect", "drop", "disconnectDead", "using", "putBack",
             "putDisconnect"}

PoolTypeOK ==
  /\ channel \in Seq(Conns)
  /\ current_size \in Nat
  /\ active \subseteq Conns
  /\ at \in [Workers -> Place]
  /\ item \in [Workers -> Conns \union {NoConn}]
  /\ \A t \in Workers : item[t] # NoConn <=> HasItem(t)
  /\ life \in {"open", "retired", "closing", "closed"}

(* The count is exact whatever the interleaving of the lock-free queue     *)
(* operations with the locked updates, and the limit holds.                *)
CountExact ==
  /\ current_size = Len(channel) + Cardinality(Counted)
  /\ current_size <= MaxSize

(* put() never has to throw a connection away: neither the shrunk-pool     *)
(* branch nor the Full branch is ever taken.                               *)
PutNeverDiscards == \A t \in Workers : at[t] # "putDisconnect"

(* A connection is in one place: in the queue once, or in one hand.        *)
OnePlace ==
  /\ \A i, j \in 1 .. Len(channel) : i # j => channel[i] # channel[j]
  /\ \A t \in Workers : HasItem(t) => item[t] \notin Range(channel)
  /\ \A t, u \in Workers : t # u /\ HasItem(t) /\ HasItem(u) => item[t] # item[u]

(* The array's session limit: a dead connection leaves the count before it *)
(* is closed, yet the live sessions never exceed the limit.                *)
SessionsBounded == Cardinality(active) <= MaxSize

(* Nothing that is still logged in is lost to the pool.                    *)
NoLostSession == active \subseteq Range(channel) \union InHand

(* A thread that waits without a timeout is not forgotten while the pool   *)
(* is full: it goes on, or a connection is offered to it.                  *)
WaiterIsOffered ==
  \A t \in Workers \ TimedWorkers :
    at[t] = "waiting" ~>
      at[t] # "waiting" \/ channel # <<>> \/ current_size < MaxSize

(* Dropping a retired pool ends, and does not block on its own queue.      *)
CloseEnds == life = "retired" /\ (\A t \in Workers : at[t] = "idle") ~> life = "closed"

-----------------------------------------------------------------------------
(* What the source says of get(), and the code does not do.                *)

(* "If current_size is full, waiting for an available one": a thread does  *)
(* not wait for ever on a pool that has room.                              *)
WaitsOnlyWhileFull ==
  \A t \in Workers \ TimedWorkers :
    at[t] = "waiting" /\ current_size < MaxSize ~>
      at[t] # "waiting" \/ current_size >= MaxSize
=============================================================================
