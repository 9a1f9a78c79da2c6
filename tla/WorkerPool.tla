----------------------------- MODULE WorkerPool -----------------------------
(***************************************************************************)
(* The multi-worker pipeline: dpi::WorkerPool (src/pipeline/worker_pool.cpp)*)
(* and the dpi::WorkerThread objects it owns (worker_thread.cpp).          *)
(*                                                                         *)
(* Client threads call start(), dispatch() and stop(); main.cpp is one     *)
(* client that does so in sequence, the atomics of the class allow more.   *)
(* Each worker owns a queue, used through the interface that ClosableFifo  *)
(* specifies and BoundedQueue implements: a push or a pop is one step, and *)
(* waiting is its not being enabled.  What a worker does with one packet   *)
(* touches only worker-local state, so it is one step too.                 *)
(*                                                                         *)
(* accepted and handled are history variables: the packets each worker's   *)
(* queue took, and those the worker has finished with, in order.           *)
(***************************************************************************)
EXTENDS Naturals, Sequences, FiniteSets

CONSTANTS
  Clients,     \* threads that use the pool
  NumWorkers,  \* workers_.size()
  Capacity,    \* the capacity of each worker queue
  Packets,     \* the packets of the capture, each dispatched at most once
  NoPacket,    \* an empty PacketRecord
  Keys,        \* canonical flow keys
  NoKey,       \* extract_flow_key returned false
  KeyOf,       \* KeyOf[p]: what FlowRouter::extract_flow_key makes of p
  Hash,        \* FlowKeyHasher
  Tracked      \* packets the parser accepts and the flow table tracks

ASSUME PoolAssumption ==
  /\ NumWorkers \in Nat \ {0}   \* the constructor makes at least one
  /\ Capacity \in Nat \ {0}
  /\ NoPacket \notin Packets
  /\ NoKey \notin Keys
  /\ KeyOf \in [Packets -> Keys \cup {NoKey}]
  /\ Hash \in [Keys -> Nat]
  /\ Tracked \subseteq {p \in Packets : KeyOf[p] \in Keys}

VARIABLES
  running,     \* WorkerPool::running_
  unroutable,  \* unroutable_count_
  at,          \* at[c]: where client c is in its call
  cursor,      \* cursor[c]: the worker c's loop over workers_ has reached
  cargo,       \* cargo[c]: the record c's dispatch() is moving
  started,     \* started[w]: WorkerThread::running_
  thread,      \* thread[w]: thread_, and where run() is
  queue,       \* queue[w]: the worker's BoundedQueue, and
  closed,      \*   its shutdown flag
  job,         \* job[w]: the local variable of run()
  processed,   \* stats_.packets_processed
  malformed,   \* stats_.malformed_packets
  flows,       \* flows[w]: the keys in the worker's flow table
  reported,    \* reported[w]: the flows counted when run() returned
  fresh,       \* packets the reader has yet to deliver
  accepted,    \* history: packets the queue of w took
  handled      \* history: packets worker w has finished with

clientVars == <<at, cursor, cargo>>
workerVars == <<started, thread, job, processed, malformed, flows, reported>>
vars == <<running, unroutable, clientVars, workerVars, queue, closed,
          fresh, accepted, handled>>

Workers == 0 .. NumWorkers - 1

Init ==
  /\ running = FALSE
  /\ unroutable = 0
  /\ at = [c \in Clients |-> "idle"]
  /\ cursor = [c \in Clients |-> 0]
  /\ cargo = [c \in Clients |-> NoPacket]
  /\ started = [w \in Workers |-> FALSE]
  /\ thread = [w \in Workers |-> "none"]
  /\ queue = [w \in Workers |-> << >>]
  /\ closed = [w \in Workers |-> FALSE]
  /\ job = [w \in Workers |-> NoPacket]
  /\ processed = [w \in Workers |-> 0]
  /\ malformed = [w \in Workers |-> 0]
  /\ flows = [w \in Workers |-> {}]
  /\ reported = [w \in Workers |-> {}]
  /\ fresh = Packets
  /\ accepted = [w \in Workers |-> << >>]
  /\ handled = [w \in Workers |-> << >>]

In(c, phases) == at[c] \in phases

(* The pool has no lock for its life cycle: a start() racing another       *)
(* start() or stop() would race on the std::thread objects.  The callers   *)
(* keep them apart; stop() may race stop(), the exchange lets one in.      *)
NobodyStarting == \A c \in Clients : ~In(c, {"starting"})
NobodyStopping == \A c \in Clients : ~In(c, {"requesting", "joining"})

-----------------------------------------------------------------------------
(* The worker a packet is routed to: unroutable ones go to worker 0.       *)
RoutedInTurn(p) == Cardinality(fresh) % NumWorkers   \* fault: whatever its flow

TargetWorker(p) == IF KeyOf[p] = NoKey THEN 0 ELSE Hash[KeyOf[p]] % NumWorkers

-----------------------------------------------------------------------------
(* Plausible faults of the operations below; each must break a property.   *)

StartAllButLast(c) ==          \* off by one
  LET w == cursor[c]
      last == w + 2 >= NumWorkers IN
  /\ In(c, {"starting"})
  /\ started' = [started EXCEPT ![w] = TRUE]
  /\ thread' = IF started[w] THEN thread ELSE [thread EXCEPT ![w] = "pop"]
  /\ cursor' = [cursor EXCEPT ![c] = IF last THEN 0 ELSE w + 1]
  /\ at' = IF last THEN [at EXCEPT ![c] = "idle"] ELSE at
  /\ UNCHANGED <<running, unroutable, cargo, queue, closed, job, processed, malformed,
                 flows, reported, fresh, accepted, handled>>

StopCallNoExchange(c) ==       \* running_ is left set
  /\ In(c, {"idle"}) /\ NobodyStarting /\ running
  /\ at' = [at EXCEPT ![c] = "requesting"]
  /\ UNCHANGED <<running, unroutable, cursor, cargo, workerVars, queue, closed, fresh,
                 accepted, handled>>

RequestStopFlagOnly(c) ==      \* the queue is not shut down
  LET last == cursor[c] + 1 = NumWorkers IN
  /\ In(c, {"requesting"})
  /\ cursor' = [cursor EXCEPT ![c] = IF last THEN 0 ELSE @ + 1]
  /\ at' = IF last THEN [at EXCEPT ![c] = "joining"] ELSE at
  /\ UNCHANGED <<running, unroutable, cargo, workerVars, queue, closed, fresh, accepted, handled>>

RequestStopDropping(c) ==      \* the shutdown also clears the queue
  LET w == cursor[c]
      last == w + 1 = NumWorkers IN
  /\ In(c, {"requesting"})
  /\ closed' = [closed EXCEPT ![w] = TRUE]
  /\ queue' = [queue EXCEPT ![w] = << >>]
  /\ cursor' = [cursor EXCEPT ![c] = IF last THEN 0 ELSE w + 1]
  /\ at' = IF last THEN [at EXCEPT ![c] = "joining"] ELSE at
  /\ UNCHANGED <<running, unroutable, cargo, workerVars, fresh, accepted, handled>>

PushBlind(c) ==                \* neither capacity nor shutdown is looked at
  LET w == TargetWorker(cargo[c]) IN
  /\ In(c, {"pushing"})
  /\ queue' = [queue EXCEPT ![w] = Append(@, cargo[c])]
  /\ accepted' = [accepted EXCEPT ![w] = Append(@, cargo[c])]
  /\ at' = [at EXCEPT ![c] = "idle"]
  /\ cargo' = [cargo EXCEPT ![c] = NoPacket]
  /\ UNCHANGED <<running, unroutable, cursor, workerVars, closed, fresh, handled>>

ExitRunEarly(w) ==             \* the queue is not drained
  /\ thread[w] = "pop" /\ closed[w]
  /\ reported' = [reported EXCEPT ![w] = flows[w]]
  /\ thread' = [thread EXCEPT ![w] = "exited"]
  /\ UNCHANGED <<running, unroutable, clientVars, started, queue, closed, job, processed,
                 malformed, flows, fresh, accepted, handled>>

-----------------------------------------------------------------------------
(* start()                                                                 *)

StartCall(c) ==
  /\ In(c, {"idle"}) /\ NobodyStarting /\ NobodyStopping
  /\ ~running
  /\ running' = TRUE
  /\ at' = [at EXCEPT ![c] = "starting"]
  /\ UNCHANGED <<unroutable, cursor, cargo, workerVars, queue, closed, fresh, accepted, handled>>

(* WorkerThread::start(): the thread runs from here on.                    *)
StartWorker(c) ==
  LET w == cursor[c]
      last == w + 1 = NumWorkers IN
  /\ In(c, {"starting"})
  /\ started' = [started EXCEPT ![w] = TRUE]
  /\ thread' = IF started[w] THEN thread ELSE [thread EXCEPT ![w] = "pop"]
  /\ cursor' = [cursor EXCEPT ![c] = IF last THEN 0 ELSE w + 1]
  /\ at' = IF last THEN [at EXCEPT ![c] = "idle"] ELSE at
  /\ UNCHANGED <<running, unroutable, cargo, queue, closed, job, processed, malformed,
                 flows, reported, fresh, accepted, handled>>

-----------------------------------------------------------------------------
(* dispatch(record)                                                        *)

(* The running_ check and the routing; the packet is now on its way to     *)
(* the queue of its worker.                                                *)
DispatchCall(c, p) ==
  /\ In(c, {"idle"})
  /\ p \in fresh
  /\ running
  /\ fresh' = fresh \ {p}
  /\ unroutable' = IF KeyOf[p] = NoKey THEN unroutable + 1 ELSE unroutable
  /\ cargo' = [cargo EXCEPT ![c] = p]
  /\ at' = [at EXCEPT ![c] = "pushing"]
  /\ UNCHANGED <<running, cursor, workerVars, queue, closed, accepted, handled>>

(* dispatch() on a stopped pool returns false, and the record is gone.     *)
DispatchRejected(c, p) ==
  /\ In(c, {"idle"})
  /\ p \in fresh
  /\ ~running
  /\ fresh' = fresh \ {p}
  /\ UNCHANGED <<running, unroutable, clientVars, workerVars, queue, closed, accepted, handled>>

PushAccepted(c) ==
  LET w == TargetWorker(cargo[c]) IN
  /\ In(c, {"pushing"})
  /\ ~closed[w]
  /\ Len(queue[w]) < Capacity
  /\ queue' = [queue EXCEPT ![w] = Append(@, cargo[c])]
  /\ accepted' = [accepted EXCEPT ![w] = Append(@, cargo[c])]
  /\ at' = [at EXCEPT ![c] = "idle"]
  /\ cargo' = [cargo EXCEPT ![c] = NoPacket]
  /\ UNCHANGED <<running, unroutable, cursor, workerVars, closed, fresh, handled>>

PushRefused(c) ==
  /\ In(c, {"pushing"})
  /\ closed[TargetWorker(cargo[c])]
  /\ at' = [at EXCEPT ![c] = "idle"]
  /\ cargo' = [cargo EXCEPT ![c] = NoPacket]
  /\ UNCHANGED <<running, unroutable, cursor, workerVars, queue, closed,
                 fresh, accepted, handled>>

-----------------------------------------------------------------------------
(* stop(): first every queue is shut down, then every thread is joined.    *)

StopCall(c) ==
  /\ In(c, {"idle"}) /\ NobodyStarting
  /\ running
  /\ running' = FALSE
  /\ at' = [at EXCEPT ![c] = "requesting"]
  /\ UNCHANGED <<unroutable, cursor, cargo, workerVars, queue, closed, fresh, accepted, handled>>

RequestStop(c) ==
  LET w == cursor[c]
      last == w + 1 = NumWorkers IN
  /\ In(c, {"requesting"})
  /\ closed' = [closed EXCEPT ![w] = TRUE]
  /\ cursor' = [cursor EXCEPT ![c] = IF last THEN 0 ELSE w + 1]
  /\ at' = IF last THEN [at EXCEPT ![c] = "joining"] ELSE at
  /\ UNCHANGED <<running, unroutable, cargo, workerVars, queue, fresh, accepted, handled>>

(* WorkerThread::join() waits for run() to return; a worker that never had *)
(* a thread is not joinable.                                               *)
JoinWorker(c) ==
  LET w == cursor[c]
      last == w + 1 = NumWorkers IN
  /\ In(c, {"joining"})
  /\ thread[w] \in {"exited", "none"}
  /\ thread' = [thread EXCEPT ![w] = "none"]
  /\ started' = [started EXCEPT ![w] = FALSE]
  /\ cursor' = [cursor EXCEPT ![c] = IF last THEN 0 ELSE w + 1]
  /\ at' = IF last THEN [at EXCEPT ![c] = "idle"] ELSE at
  /\ UNCHANGED <<running, unroutable, cargo, queue, closed, job, processed, malformed,
                 flows, reported, fresh, accepted, handled>>

-----------------------------------------------------------------------------
(* WorkerThread::run()                                                     *)

PopJob(w) ==
  /\ thread[w] = "pop"
  /\ queue[w] # << >>
  /\ job' = [job EXCEPT ![w] = Head(queue[w])]
  /\ queue' = [queue EXCEPT ![w] = Tail(@)]
  /\ thread' = [thread EXCEPT ![w] = "work"]
  /\ UNCHANGED <<running, unroutable, clientVars, started, closed, processed, malformed,
                 flows, reported, fresh, accepted, handled>>

HandleJob(w) ==
  /\ thread[w] = "work"
  /\ IF job[w] \in Tracked
     THEN /\ processed' = [processed EXCEPT ![w] = @ + 1]
          /\ flows' = [flows EXCEPT ![w] = @ \cup {KeyOf[job[w]]}]
          /\ UNCHANGED malformed
     ELSE /\ malformed' = [malformed EXCEPT ![w] = @ + 1]
          /\ UNCHANGED <<processed, flows>>
  /\ thread' = [thread EXCEPT ![w] = "pop"]
  /\ handled' = [handled EXCEPT ![w] = Append(@, job[w])]
  /\ UNCHANGED <<running, unroutable, clientVars, started, queue, closed, job,
                 reported, fresh, accepted>>

(* pop() returned false: the flow table is counted and run() returns.      *)
ExitRun(w) ==
  /\ thread[w] = "pop"
  /\ queue[w] = << >>
  /\ closed[w]
  /\ reported' = [reported EXCEPT ![w] = flows[w]]
  /\ thread' = [thread EXCEPT ![w] = "exited"]
  /\ UNCHANGED <<running, unroutable, clientVars, started, queue, closed, job, processed,
                 malformed, flows, fresh, accepted, handled>>

ClientStep(c) ==
  \/ StartWorker(c) \/ PushAccepted(c) \/ PushRefused(c)
  \/ RequestStop(c) \/ JoinWorker(c)

WorkerStep(w) == PopJob(w) \/ HandleJob(w) \/ ExitRun(w)

Next ==
  \/ \E c \in Clients :
       \/ StartCall(c)
       \/ StopCall(c)
       \/ \E p \in Packets : DispatchCall(c, p) \/ DispatchRejected(c, p)
       \/ ClientStep(c)
  \/ \E w \in Workers : WorkerStep(w)

(* Threads that can run are scheduled; nobody has to make another call.    *)
Fairness ==
  /\ \A c \in Clients : WF_vars(ClientStep(c))
  /\ \A w \in Workers : WF_vars(WorkerStep(w))

Spec == Init /\ [][Next]_vars /\ Fairness

-----------------------------------------------------------------------------
(* Properties.                                                             *)

(* Type invariant; no queue exceeds its capacity.                          *)
TypeOK ==
  /\ running \in BOOLEAN
  /\ unroutable \in Nat
  /\ at \in [Clients -> {"idle", "starting", "pushing", "requesting", "joining"}]
  /\ cursor \in [Clients -> Workers]
  /\ cargo \in [Clients -> Packets \cup {NoPacket}]
  /\ \A c \in Clients : In(c, {"pushing"}) => cargo[c] \in Packets
  /\ started \in [Workers -> BOOLEAN]
  /\ thread \in [Workers -> {"none", "pop", "work", "exited"}]
  /\ queue \in [Workers -> Seq(Packets)]
  /\ \A w \in Workers : Len(queue[w]) <= Capacity
  /\ closed \in [Workers -> BOOLEAN]
  /\ job \in [Workers -> Packets \cup {NoPacket}]
  /\ \A w \in Workers : thread[w] = "work" => job[w] \in Packets
  /\ processed \in [Workers -> Nat]
  /\ malformed \in [Workers -> Nat]
  /\ flows \in [Workers -> SUBSET Keys]
  /\ reported \in [Workers -> SUBSET Keys]
  /\ fresh \in SUBSET Packets
  /\ accepted \in [Workers -> Seq(Packets)]
  /\ handled \in [Workers -> Seq(Packets)]

InHand(w) == IF thread[w] = "work" THEN <<job[w]>> ELSE << >>

(* Every packet a queue took is, at every moment and across stops and      *)
(* restarts, in exactly one place, and the order of each worker's packets  *)
(* is the order they were accepted in: nothing is lost, duplicated or      *)
(* reordered inside the pipeline (docs/ARCHITECTURE.md, Stage 6).          *)
NothingLostOrReordered ==
  \A w \in Workers : accepted[w] = handled[w] \o InHand(w) \o queue[w]

Stopped == ~running /\ NobodyStarting /\ NobodyStopping

(* When stop() has returned the pool is drained, whatever dispatches raced *)
(* it: no thread, no queued packet, every accepted packet counted exactly  *)
(* once, and each worker's final report covers its whole flow table        *)
(* (worker_pool.cpp:35-44, worker_thread.cpp:104-111).                     *)
DrainedWhenStopped ==
  Stopped => \A w \in Workers :
    /\ thread[w] = "none" /\ queue[w] = << >>
    /\ processed[w] + malformed[w] = Len(accepted[w])
    /\ reported[w] = flows[w]

(* A flow lives in the table of one worker only, so its packets are        *)
(* inspected in order by one thread (worker_pool.cpp:51-61).               *)
FlowsPinned ==
  \A v, w \in Workers : v # w => flows[v] \cap flows[w] = {}

(* The life cycle seen by all threads at once: one client at most is       *)
(* inside start() or stop(); which workers have a thread follows from how  *)
(* far it has got; a packet can be in the queue of a worker without thread *)
(* only while start() is on its way to it; a dispatch still pushing after  *)
(* the stop finds the queues shut down; run() returns only with its queue  *)
(* shut down and empty and its flow table counted.                         *)
OneInLifecycle ==
  \A c, d \in Clients :
    In(c, {"starting", "requesting", "joining"})
      /\ In(d, {"starting", "requesting", "joining"}) => c = d

ClientCoherent(c) ==
  /\ In(c, {"starting"}) => running
  /\ In(c, {"requesting", "joining"}) => ~running
  /\ In(c, {"pushing"}) => \/ running
                           \/ \E d \in Clients : In(d, {"requesting"})
                           \/ \A w \in Workers : closed[w]
  /\ \A w \in Workers :
       /\ In(c, {"starting"}) => (thread[w] = "none" <=> w >= cursor[c])
       /\ In(c, {"requesting"}) => thread[w] # "none" /\ (w < cursor[c] => closed[w])
       /\ In(c, {"joining"}) => closed[w] /\ (thread[w] = "none" <=> w < cursor[c])
       /\ In(c, {"idle", "pushing"}) => cursor[c] = 0

WorkerCoherent(w) ==
  /\ thread[w] = "none" <=> ~started[w]
  /\ NobodyStarting /\ NobodyStopping => (thread[w] = "none" <=> ~running)
  /\ thread[w] = "none" /\ (closed[w] \/ ~running) => queue[w] = << >>
  /\ thread[w] = "exited" => closed[w] /\ queue[w] = << >>
  /\ thread[w] \in {"none", "exited"} => reported[w] = flows[w]

LifecycleCoherent ==
  /\ OneInLifecycle
  /\ \A c \in Clients : ClientCoherent(c)
  /\ \A w \in Workers : WorkerCoherent(w)

(* Each worker queue is driven as the closable FIFO that BoundedQueue is   *)
(* proved to implement: clients are its producers, the worker its only     *)
(* consumer.                                                               *)
Queue(w) == INSTANCE ClosableFifo WITH
  Producers <- Clients, Consumers <- {w}, Items <- Packets, NoItem <- NoPacket,
  contents <- queue[w],
  closed   <- closed[w],
  offer    <- [c \in Clients |-> IF at[c] = "pushing" /\ TargetWorker(cargo[c]) = w
                                 THEN cargo[c] ELSE NoPacket],
  request  <- [x \in {w} |-> thread[x] = "pop"],
  received <- [x \in {w} |-> job[x]]

QueuesUsedAsFifos ==
  /\ \A w \in Workers : Queue(w)!FifoInit
  /\ [][\A w \in Workers : [Queue(w)!FifoNext]_(Queue(w)!fifoVars)]_vars

(* stop() returns, also when clients are blocked on full queues and        *)
(* workers have a backlog: shutdown, drain and join cannot deadlock        *)
(* (worker_pool.cpp:35-44).                                                *)
StopReturns ==
  \A c \in Clients : In(c, {"requesting", "joining"}) ~> In(c, {"idle"})

(* A dispatch that met a full queue returns in the end, by a free slot or  *)
(* by the shutdown.                                                        *)
DispatchReturns ==
  \A c \in Clients : In(c, {"pushing"}) ~> In(c, {"idle"})

(* Every packet dispatch() returned true for is inspected, also one that   *)
(* was accepted before the worker's thread existed or while the pool was   *)
(* being stopped.                                                          *)
AcceptedGetsHandled ==
  \A w \in Workers : \A n \in 1 .. Cardinality(Packets) :
    (Len(accepted[w]) >= n) ~> (Len(handled[w]) >= n)

(* worker_pool.h:42: dispatch returns "True if enqueued successfully,      *)
(* false if pool is stopped".  After stop() and a second start() the pool  *)
(* is running again but its queues stay shut down (nothing resets          *)
(* shutdown_), so every dispatch returns false and the packet is gone.     *)
RefusedOnlyWhenStopped ==
  [][\A c \in Clients : PushRefused(c) => ~running]_vars
=============================================================================
