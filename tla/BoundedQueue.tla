---------------------------- MODULE BoundedQueue ----------------------------
(***************************************************************************)
(* dpi::BoundedQueue<T> (include/dpi/pipeline/bounded_queue.h): a mutex, a *)
(* std::queue, a shutdown flag and two condition variables, shared by any  *)
(* number of producers, consumers and threads that shut it down.           *)
(*                                                                         *)
(* Each critical section of the code is one action.  A call is at "push"   *)
(* or "pop" while it owns or contends for the mutex with its predicate     *)
(* still to be evaluated (first entry, or after a wake-up), and "blocked"  *)
(* while it sits in the wait set of its condition variable: not_full_ for  *)
(* a producer, not_empty_ for a consumer.  notify_one and notify_all move  *)
(* waiters from "blocked" back to "push" or "pop"; so does a spurious      *)
(* wake-up.  shutdown() notifies only after it has released the mutex, so  *)
(* its two notify_all calls are steps of their own.                        *)
(***************************************************************************)
EXTENDS Naturals, Sequences, FiniteSets

CONSTANTS
  Producers,          \* threads that call push
  Consumers,          \* threads that call pop
  Closers,            \* threads that call shutdown
  Items,              \* what is queued
  NoItem,             \* the content of a variable of type T before it is assigned
  RequestedCapacity   \* the constructor's argument

ASSUME QueueAssumption ==
  /\ IsFiniteSet(Producers) /\ IsFiniteSet(Consumers)
  /\ Producers \cap Consumers = {}
  /\ Producers \cap Closers = {}
  /\ Consumers \cap Closers = {}
  /\ NoItem \notin Items
  /\ RequestedCapacity \in Nat

VARIABLES
  queue,     \* queue_
  shutdown,  \* shutdown_
  pc,        \* where each thread is in its call
  item,      \* item[p]: the parameter of p's push
  got        \* got[c]: the out parameter of c's pop

vars == <<queue, shutdown, pc, item, got>>

Threads == Producers \cup Consumers \cup Closers

capacity == IF RequestedCapacity > 0 THEN RequestedCapacity ELSE 1024

Init ==
  /\ queue = << >>
  /\ shutdown = FALSE
  /\ pc = [t \in Threads |-> "idle"]
  /\ item = [p \in Producers |-> NoItem]
  /\ got = [c \in Consumers |-> NoItem]

-----------------------------------------------------------------------------
(* Condition variables.                                                    *)

BlockedIn(S) == {t \in S : pc[t] = "blocked"}

(* Plausible faults of the operations below; each must break a property.   *)
ReturnSilently(caller, S, at) == pc' = [pc EXCEPT ![caller] = "idle"]

PushUnchecked(p) ==            \* the predicate is not evaluated again
  /\ pc[p] = "push" /\ ~shutdown
  /\ queue' = Append(queue, item[p])
  /\ pc' = [pc EXCEPT ![p] = "idle"]
  /\ UNCHANGED <<shutdown, item, got>>

PopAbandoning(c) ==            \* the shutdown is tested before the queue
  /\ pc[c] = "pop" /\ shutdown
  /\ pc' = [pc EXCEPT ![c] = "idle"]
  /\ UNCHANGED <<queue, shutdown, item, got>>

NotifyOneNotEmpty(k) ==        \* notify_one for notify_all
  /\ pc[k] = "notify_not_empty"
  /\ \E t \in Consumers :
       pc' = [pc EXCEPT ![k] = "notify_not_full",
                        ![t] = IF @ = "blocked" THEN "pop" ELSE @]
  /\ UNCHANGED <<queue, shutdown, item, got>>

(* The caller returns, and notify_one() wakes one waiter of S if there is  *)
(* any: it contends for the mutex again, at `at`.                          *)
ReturnNotifyingOne(caller, S, at) ==
  \/ /\ BlockedIn(S) = {}
     /\ pc' = [pc EXCEPT ![caller] = "idle"]
  \/ \E t \in BlockedIn(S) : pc' = [pc EXCEPT ![caller] = "idle", ![t] = at]

-----------------------------------------------------------------------------
(* push(item)                                                              *)

PushCall(p, i) ==
  /\ pc[p] = "idle"
  /\ pc' = [pc EXCEPT ![p] = "push"]
  /\ item' = [item EXCEPT ![p] = i]
  /\ UNCHANGED <<queue, shutdown, got>>

PushWait(p) ==
  /\ pc[p] = "push"
  /\ ~shutdown
  /\ Len(queue) >= capacity
  /\ pc' = [pc EXCEPT ![p] = "blocked"]
  /\ UNCHANGED <<queue, shutdown, item, got>>

PushRefused(p) ==
  /\ pc[p] = "push"
  /\ shutdown
  /\ pc' = [pc EXCEPT ![p] = "idle"]
  /\ UNCHANGED <<queue, shutdown, item, got>>

PushAccepted(p) ==
  /\ pc[p] = "push"
  /\ ~shutdown
  /\ Len(queue) < capacity
  /\ queue' = Append(queue, item[p])
  /\ ReturnNotifyingOne(p, Consumers, "pop")
  /\ UNCHANGED <<shutdown, item, got>>

Push(p) == PushWait(p) \/ PushRefused(p) \/ PushAccepted(p)

-----------------------------------------------------------------------------
(* pop(item)                                                               *)

PopCall(c) ==
  /\ pc[c] = "idle"
  /\ pc' = [pc EXCEPT ![c] = "pop"]
  /\ UNCHANGED <<queue, shutdown, item, got>>

PopWait(c) ==
  /\ pc[c] = "pop"
  /\ queue = << >>
  /\ ~shutdown
  /\ pc' = [pc EXCEPT ![c] = "blocked"]
  /\ UNCHANGED <<queue, shutdown, item, got>>

PopTaken(c) ==
  /\ pc[c] = "pop"
  /\ queue # << >>
  /\ got' = [got EXCEPT ![c] = Head(queue)]
  /\ queue' = Tail(queue)
  /\ ReturnNotifyingOne(c, Producers, "push")
  /\ UNCHANGED <<shutdown, item>>

PopFinished(c) ==
  /\ pc[c] = "pop"
  /\ queue = << >>
  /\ shutdown
  /\ pc' = [pc EXCEPT ![c] = "idle"]
  /\ UNCHANGED <<queue, shutdown, item, got>>

Pop(c) == PopWait(c) \/ PopTaken(c) \/ PopFinished(c)

-----------------------------------------------------------------------------
(* shutdown(), also called by the destructor.  A second call finds the     *)
(* flag set and returns at once.                                           *)

Shutdown(k) ==
  /\ pc[k] = "idle"
  /\ ~shutdown
  /\ shutdown' = TRUE
  /\ pc' = [pc EXCEPT ![k] = "notify_not_empty"]
  /\ UNCHANGED <<queue, item, got>>

NotifyNotEmpty(k) ==
  /\ pc[k] = "notify_not_empty"
  /\ pc' = [t \in Threads |->
              IF t = k THEN "notify_not_full"
              ELSE IF t \in BlockedIn(Consumers) THEN "pop" ELSE pc[t]]
  /\ UNCHANGED <<queue, shutdown, item, got>>

NotifyNotFull(k) ==
  /\ pc[k] = "notify_not_full"
  /\ pc' = [t \in Threads |->
              IF t = k THEN "idle"
              ELSE IF t \in BlockedIn(Producers) THEN "push" ELSE pc[t]]
  /\ UNCHANGED <<queue, shutdown, item, got>>

Notify(k) == NotifyNotEmpty(k) \/ NotifyNotFull(k)

-----------------------------------------------------------------------------
(* std::condition_variable::wait may return without a notification.        *)
SpuriousWakeup(t) ==
  /\ pc[t] = "blocked"
  /\ pc' = [pc EXCEPT ![t] = IF t \in Producers THEN "push" ELSE "pop"]
  /\ UNCHANGED <<queue, shutdown, item, got>>

Next ==
  \/ \E p \in Producers, i \in Items : PushCall(p, i)
  \/ \E p \in Producers : Push(p)
  \/ \E c \in Consumers : PopCall(c)
  \/ \E c \in Consumers : Pop(c)
  \/ \E k \in Closers : Shutdown(k) \/ Notify(k)
  \/ \E t \in Producers \cup Consumers : SpuriousWakeup(t)

(* A runnable thread is scheduled and obtains the mutex at last.  Nobody   *)
(* has to call, and no spurious wake-up is promised.                       *)
Fairness ==
  /\ \A p \in Producers : WF_vars(Push(p))
  /\ \A c \in Consumers : WF_vars(Pop(c))
  /\ \A k \in Closers : WF_vars(Notify(k))

Spec == Init /\ [][Next]_vars /\ Fairness

-----------------------------------------------------------------------------
(* Properties.                                                             *)

(* Type invariant; the queue never exceeds its capacity, so a producer     *)
(* feels backpressure (bounded_queue.h:36-38).                             *)
TypeOK ==
  /\ queue \in Seq(Items)
  /\ Len(queue) <= capacity
  /\ shutdown \in BOOLEAN
  /\ pc \in [Threads -> {"idle", "push", "pop", "blocked",
                         "notify_not_empty", "notify_not_full"}]
  /\ \A p \in Producers : pc[p] \in {"idle", "push", "blocked"}
  /\ \A c \in Consumers : pc[c] \in {"idle", "pop", "blocked"}
  /\ \A k \in Closers : pc[k] \in {"idle", "notify_not_empty", "notify_not_full"}
  /\ item \in [Producers -> Items \cup {NoItem}]
  /\ \A p \in Producers : pc[p] # "idle" => item[p] \in Items
  /\ got \in [Consumers -> Items \cup {NoItem}]

AwakePops == {c \in Consumers : pc[c] = "pop"}
AwakePushes == {p \in Producers : pc[p] = "push"}

(* notify_one() never loses a wake-up: while a consumer sleeps in pop,     *)
(* every queued item has an awake consumer of its own that will look at    *)
(* the queue, however notifications, new calls and spurious wake-ups       *)
(* interleave; and after shutdown a sleeping consumer is owed the          *)
(* notify_all that a closer has yet to issue.                              *)
NoSleepingConsumerForgotten ==
  BlockedIn(Consumers) # {} =>
    IF shutdown THEN \E k \in Closers : pc[k] = "notify_not_empty"
                ELSE Len(queue) <= Cardinality(AwakePops)

(* The same for producers that sleep on a full queue: every free slot has  *)
(* an awake producer, or the shutdown's second notify_all is on its way.   *)
NoSleepingProducerForgotten ==
  BlockedIn(Producers) # {} =>
    IF shutdown THEN \E k \in Closers : pc[k] \in {"notify_not_empty", "notify_not_full"}
                ELSE capacity <= Len(queue) + Cardinality(AwakePushes)

(* Refinement: seen from its callers the queue is a closable FIFO.         *)
Fifo == INSTANCE ClosableFifo WITH
  Capacity <- capacity,
  contents <- queue,
  closed   <- shutdown,
  offer    <- [p \in Producers |-> IF pc[p] = "idle" THEN NoItem ELSE item[p]],
  request  <- [c \in Consumers |-> pc[c] # "idle"],
  received <- got

(* BoundedQueue implements ClosableFifo: items come out once, in the order *)
(* they went in, no accepted item is dropped by the shutdown, a push fails *)
(* only after it, a pop only when everything is drained; and some caller   *)
(* always makes progress when the queue lets it.                           *)
ImplementsClosableFifo == Fifo!FifoSpec

(* shutdown() wakes "all blocked producers and consumers"                  *)
(* (bounded_queue.h:72): every call pending at the shutdown returns, even  *)
(* those that were asleep when the flag was set.                           *)
ShutdownReleasesEveryCall ==
  \A t \in Producers \cup Consumers :
    (shutdown /\ pc[t] # "idle") ~> (pc[t] = "idle")
=============================================================================
