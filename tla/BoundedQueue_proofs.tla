------------------------ MODULE BoundedQueue_proofs ------------------------
(***************************************************************************)
(* Proofs about BoundedQueue for every number of producers, consumers and  *)
(* closers, every set of items and every capacity:                         *)
(*   - type correctness and the capacity bound,                            *)
(*   - no sleeping consumer or producer is ever forgotten,                 *)
(*   - every step implements a step (or a stutter) of ClosableFifo.        *)
(* The two wake-up invariants are inductive together with TypeOK.          *)
(***************************************************************************)
EXTENDS BoundedQueue, FiniteSetTheorems, TLAPS

(* The capacity is at least one, whatever the constructor is given         *)
(* (bounded_queue.h:19).                                                   *)
LEMMA CapacityPositive == capacity \in Nat \ {0}
  BY QueueAssumption DEF capacity

(* Consumers' and producers' states do not move, and neither do the sets   *)
(* the invariants count.                                                   *)
LEMMA ConsumersUndisturbed ==
  ASSUME \A c \in Consumers : pc'[c] = pc[c]
  PROVE  BlockedIn(Consumers)' = BlockedIn(Consumers) /\ AwakePops' = AwakePops
  BY DEF BlockedIn, AwakePops

(* The same for a step that leaves every producer where it is.             *)
LEMMA ProducersUndisturbed ==
  ASSUME \A p \in Producers : pc'[p] = pc[p]
  PROVE  BlockedIn(Producers)' = BlockedIn(Producers) /\ AwakePushes' = AwakePushes
  BY DEF BlockedIn, AwakePushes

(* The sets the invariants count are finite.                               *)
LEMMA AwakeFinite ==
  /\ IsFiniteSet(AwakePops) /\ Cardinality(AwakePops) \in Nat
  /\ IsFiniteSet(AwakePushes) /\ Cardinality(AwakePushes) \in Nat
<1>1. AwakePops \in SUBSET Consumers /\ AwakePushes \in SUBSET Producers
  BY DEF AwakePops, AwakePushes
<1>2. IsFiniteSet(AwakePops) /\ IsFiniteSet(AwakePushes)
  BY <1>1, FS_Subset, QueueAssumption
<1> QED
  BY <1>2, FS_CardinalityType

-----------------------------------------------------------------------------
(* The constructed queue is well typed.                                    *)
LEMMA InitTypeOK == Init => TypeOK
<1> SUFFICES ASSUME Init PROVE TypeOK
  OBVIOUS
<1>1. queue \in Seq(Items) /\ Len(queue) = 0
  BY DEF Init
<1>2. /\ pc \in [Threads -> {"idle"}]
      /\ item \in [Producers -> Items \cup {NoItem}]
      /\ got \in [Consumers -> Items \cup {NoItem}]
      /\ shutdown = FALSE
  BY DEF Init
<1>3. /\ \A t \in Threads : pc[t] = "idle"
      /\ pc \in [Threads -> {"idle", "push", "pop", "blocked",
                             "notify_not_empty", "notify_not_full"}]
  BY <1>2
<1>4. Len(queue) <= capacity
  BY <1>1, CapacityPositive
<1> QED
  BY <1>1, <1>2, <1>3, <1>4 DEF TypeOK, Threads

(* Every step keeps the types; a push appends only below the capacity.     *)
LEMMA NextTypeOK == TypeOK /\ [Next]_vars => TypeOK'
<1> SUFFICES ASSUME TypeOK, [Next]_vars PROVE TypeOK'
  OBVIOUS
<1> USE CapacityPositive, QueueAssumption DEF TypeOK, Threads
<1>1. ASSUME NEW p \in Producers, NEW i \in Items, PushCall(p, i) PROVE TypeOK'
  BY <1>1 DEF PushCall
<1>2. ASSUME NEW p \in Producers, PushWait(p) PROVE TypeOK'
  BY <1>2 DEF PushWait
<1>3. ASSUME NEW p \in Producers, PushRefused(p) PROVE TypeOK'
  BY <1>3 DEF PushRefused
<1>4. ASSUME NEW p \in Producers, PushAccepted(p) PROVE TypeOK'
  <2>1. /\ queue' \in Seq(Items) /\ Len(queue') <= capacity
        /\ UNCHANGED <<shutdown, item, got>> /\ pc[p] = "push"
    BY <1>4 DEF PushAccepted
  <2>2. CASE pc' = [pc EXCEPT ![p] = "idle"]
    BY <2>1, <2>2
  <2>3. ASSUME NEW t \in BlockedIn(Consumers), pc' = [pc EXCEPT ![p] = "idle", ![t] = "pop"]
        PROVE  TypeOK'
    BY <2>1, <2>3 DEF BlockedIn
  <2> QED
    BY <1>4, <2>2, <2>3 DEF PushAccepted, ReturnNotifyingOne
<1>5. ASSUME NEW c \in Consumers, PopCall(c) PROVE TypeOK'
  BY <1>5 DEF PopCall
<1>6. ASSUME NEW c \in Consumers, PopWait(c) PROVE TypeOK'
  BY <1>6 DEF PopWait
<1>7. ASSUME NEW c \in Consumers, PopTaken(c) PROVE TypeOK'
  <2>1. /\ queue' \in Seq(Items) /\ Len(queue') <= capacity
        /\ got' \in [Consumers -> Items \cup {NoItem}]
        /\ UNCHANGED <<shutdown, item>> /\ pc[c] = "pop"
    BY <1>7 DEF PopTaken
  <2>2. CASE pc' = [pc EXCEPT ![c] = "idle"]
    BY <2>1, <2>2
  <2>3. ASSUME NEW t \in BlockedIn(Producers), pc' = [pc EXCEPT ![c] = "idle", ![t] = "push"]
        PROVE  TypeOK'
    BY <2>1, <2>3 DEF BlockedIn
  <2> QED
    BY <1>7, <2>2, <2>3 DEF PopTaken, ReturnNotifyingOne
<1>8. ASSUME NEW c \in Consumers, PopFinished(c) PROVE TypeOK'
  BY <1>8 DEF PopFinished
<1>9. ASSUME NEW k \in Closers, Shutdown(k) PROVE TypeOK'
  BY <1>9 DEF Shutdown
<1>10. ASSUME NEW k \in Closers, NotifyNotEmpty(k) PROVE TypeOK'
  BY <1>10 DEF NotifyNotEmpty, BlockedIn
<1>11. ASSUME NEW k \in Closers, NotifyNotFull(k) PROVE TypeOK'
  BY <1>11 DEF NotifyNotFull, BlockedIn
<1>12. ASSUME NEW t \in Producers \cup Consumers, SpuriousWakeup(t) PROVE TypeOK'
  BY <1>12 DEF SpuriousWakeup
<1>13. CASE UNCHANGED vars
  BY <1>13 DEF vars
<1> QED
  BY <1>1, <1>2, <1>3, <1>4, <1>5, <1>6, <1>7, <1>8, <1>9, <1>10, <1>11, <1>12, <1>13
  DEF Next, Push, Pop, Notify

(* Type correctness and the capacity bound (bounded_queue.h:34-69).        *)
THEOREM TypeCorrectness == Spec => []TypeOK
  BY InitTypeOK, NextTypeOK, PTL DEF Spec

-----------------------------------------------------------------------------
(* Wake-ups of consumers.                                                  *)

(* A consumer that leaves or joins the awake ones changes their number by  *)
(* one; the library counts it.                                             *)
LEMMA AwakePopsGrow ==
  ASSUME NEW c, c \notin AwakePops, AwakePops' = AwakePops \cup {c}
  PROVE  Cardinality(AwakePops') = Cardinality(AwakePops) + 1
  BY AwakeFinite, FS_AddElement

(* A consumer that leaves pop is one awake consumer less.                  *)
LEMMA AwakePopsShrink ==
  ASSUME NEW c \in AwakePops, AwakePops' = AwakePops \ {c}
  PROVE  Cardinality(AwakePops') = Cardinality(AwakePops) - 1
  BY AwakeFinite, FS_RemoveElement

(* A producer that enters push is one awake producer more.                 *)
LEMMA AwakePushesGrow ==
  ASSUME NEW p, p \notin AwakePushes, AwakePushes' = AwakePushes \cup {p}
  PROVE  Cardinality(AwakePushes') = Cardinality(AwakePushes) + 1
  BY AwakeFinite, FS_AddElement

(* A producer that leaves push is one awake producer less.                 *)
LEMMA AwakePushesShrink ==
  ASSUME NEW p \in AwakePushes, AwakePushes' = AwakePushes \ {p}
  PROVE  Cardinality(AwakePushes') = Cardinality(AwakePushes) - 1
  BY AwakeFinite, FS_RemoveElement

(* Every step keeps each sleeping consumer covered: one case per action.   *)
LEMMA ConsumerWakeupStep ==
  TypeOK /\ NoSleepingConsumerForgotten /\ [Next]_vars => NoSleepingConsumerForgotten'
<1> SUFFICES ASSUME TypeOK, NoSleepingConsumerForgotten, [Next]_vars
             PROVE  NoSleepingConsumerForgotten'
  OBVIOUS
<1> USE QueueAssumption
(* Steps that move neither the consumers' pc, nor the queue, nor a closer. *)
<1>0. ASSUME \A c \in Consumers : pc'[c] = pc[c],
             \A k \in Closers : pc'[k] = pc[k],
             UNCHANGED <<queue, shutdown>>
      PROVE  NoSleepingConsumerForgotten'
  BY <1>0, ConsumersUndisturbed DEF NoSleepingConsumerForgotten
<1>1. ASSUME NEW p \in Producers, NEW i \in Items, PushCall(p, i)
      PROVE  NoSleepingConsumerForgotten'
  BY <1>1, <1>0 DEF PushCall, TypeOK, Threads
<1>2. ASSUME NEW p \in Producers, PushWait(p)
      PROVE  NoSleepingConsumerForgotten'
  BY <1>2, <1>0 DEF PushWait, TypeOK, Threads
<1>3. ASSUME NEW p \in Producers, PushRefused(p)
      PROVE  NoSleepingConsumerForgotten'
  BY <1>3, <1>0 DEF PushRefused, TypeOK, Threads
<1>4. ASSUME NEW p \in Producers, PushAccepted(p)
      PROVE  NoSleepingConsumerForgotten'
  <2>1. /\ ~shutdown /\ shutdown' = shutdown
        /\ Len(queue') = Len(queue) + 1 /\ Len(queue) \in Nat
    BY <1>4 DEF PushAccepted, TypeOK
  <2>2. CASE BlockedIn(Consumers) = {} /\ pc' = [pc EXCEPT ![p] = "idle"]
    <3>1. \A c \in Consumers : pc'[c] = pc[c]
      BY <2>2 DEF TypeOK, Threads
    <3> QED
      BY <3>1, <2>2, ConsumersUndisturbed DEF NoSleepingConsumerForgotten
  <2>3. ASSUME NEW t \in BlockedIn(Consumers), pc' = [pc EXCEPT ![p] = "idle", ![t] = "pop"]
        PROVE  NoSleepingConsumerForgotten'
    <3>1. AwakePops' = AwakePops \cup {t} /\ t \notin AwakePops
      BY <2>3 DEF AwakePops, BlockedIn, TypeOK, Threads
    <3>2. Cardinality(AwakePops') = Cardinality(AwakePops) + 1
      BY <3>1, AwakePopsGrow
    <3>3. Len(queue) <= Cardinality(AwakePops)
      BY <2>1, <2>3 DEF NoSleepingConsumerForgotten
    <3> QED
      BY <2>1, <3>2, <3>3, AwakeFinite DEF NoSleepingConsumerForgotten
  <2> QED
    BY <1>4, <2>2, <2>3 DEF PushAccepted, ReturnNotifyingOne
<1>5. ASSUME NEW c \in Consumers, PopCall(c)
      PROVE  NoSleepingConsumerForgotten'
  <2>1. /\ AwakePops' = AwakePops \cup {c} /\ c \notin AwakePops
        /\ BlockedIn(Consumers)' = BlockedIn(Consumers)
        /\ \A k \in Closers : pc'[k] = pc[k]
        /\ UNCHANGED <<queue, shutdown>> /\ Len(queue) \in Nat
    BY <1>5 DEF PopCall, AwakePops, BlockedIn, TypeOK, Threads
  <2>2. Cardinality(AwakePops') = Cardinality(AwakePops) + 1
    BY <2>1, AwakePopsGrow
  <2> QED
    BY <2>1, <2>2, AwakeFinite DEF NoSleepingConsumerForgotten
<1>6. ASSUME NEW c \in Consumers, PopWait(c)
      PROVE  NoSleepingConsumerForgotten'
  <2>1. ~shutdown' /\ Len(queue') = 0
    BY <1>6 DEF PopWait
  <2>2. AwakePops' \in SUBSET Consumers
    BY DEF AwakePops
  <2>3. Cardinality(AwakePops') \in Nat
    BY <2>2, FS_Subset, FS_CardinalityType
  <2> QED
    BY <2>1, <2>3 DEF NoSleepingConsumerForgotten
<1>7. ASSUME NEW c \in Consumers, PopTaken(c)
      PROVE  NoSleepingConsumerForgotten'
  <2>1. /\ Len(queue') = Len(queue) - 1 /\ Len(queue) \in Nat
        /\ shutdown' = shutdown /\ c \in AwakePops
    BY <1>7 DEF PopTaken, TypeOK, AwakePops
  <2>2. /\ AwakePops' = AwakePops \ {c}
        /\ BlockedIn(Consumers)' = BlockedIn(Consumers)
        /\ \A k \in Closers : pc'[k] = pc[k]
    <3>1. CASE pc' = [pc EXCEPT ![c] = "idle"]
      BY <1>7, <3>1 DEF PopTaken, AwakePops, BlockedIn, TypeOK, Threads
    <3>2. ASSUME NEW t \in BlockedIn(Producers), pc' = [pc EXCEPT ![c] = "idle", ![t] = "push"]
          PROVE  AwakePops' = AwakePops \ {c}
      BY <1>7, <3>2 DEF PopTaken, AwakePops, BlockedIn, TypeOK, Threads
    <3>3. ASSUME NEW t \in BlockedIn(Producers), pc' = [pc EXCEPT ![c] = "idle", ![t] = "push"]
          PROVE  BlockedIn(Consumers)' = BlockedIn(Consumers)
                 /\ \A k \in Closers : pc'[k] = pc[k]
      BY <1>7, <3>3 DEF PopTaken, BlockedIn, TypeOK, Threads
    <3> QED
      BY <1>7, <3>1, <3>2, <3>3 DEF PopTaken, ReturnNotifyingOne
  <2>3. Cardinality(AwakePops') = Cardinality(AwakePops) - 1
    BY <2>1, <2>2, AwakePopsShrink
  <2> QED
    BY <2>1, <2>2, <2>3, AwakeFinite DEF NoSleepingConsumerForgotten
<1>8. ASSUME NEW c \in Consumers, PopFinished(c)
      PROVE  NoSleepingConsumerForgotten'
  BY <1>8 DEF PopFinished, NoSleepingConsumerForgotten, BlockedIn, TypeOK, Threads
<1>9. ASSUME NEW k \in Closers, Shutdown(k)
      PROVE  NoSleepingConsumerForgotten'
  BY <1>9 DEF Shutdown, NoSleepingConsumerForgotten, TypeOK, Threads
<1>10. ASSUME NEW k \in Closers, NotifyNotEmpty(k)
       PROVE  NoSleepingConsumerForgotten'
  BY <1>10 DEF NotifyNotEmpty, NoSleepingConsumerForgotten, BlockedIn, TypeOK, Threads
<1>11. ASSUME NEW k \in Closers, NotifyNotFull(k)
       PROVE  NoSleepingConsumerForgotten'
  <2>1. /\ \A c \in Consumers : pc'[c] = pc[c]
        /\ \A j \in Closers : pc[j] = "notify_not_empty" => pc'[j] = "notify_not_empty"
        /\ UNCHANGED <<queue, shutdown>>
    BY <1>11 DEF NotifyNotFull, BlockedIn, TypeOK, Threads
  <2> QED
    BY <2>1, ConsumersUndisturbed DEF NoSleepingConsumerForgotten
<1>12. ASSUME NEW t \in Producers, SpuriousWakeup(t)
       PROVE  NoSleepingConsumerForgotten'
  BY <1>12, <1>0 DEF SpuriousWakeup, TypeOK, Threads
<1>13. ASSUME NEW t \in Consumers, SpuriousWakeup(t)
       PROVE  NoSleepingConsumerForgotten'
  <2>1. /\ AwakePops' = AwakePops \cup {t} /\ t \notin AwakePops
        /\ BlockedIn(Consumers)' \subseteq BlockedIn(Consumers)
        /\ \A k \in Closers : pc'[k] = pc[k]
        /\ UNCHANGED <<queue, shutdown>> /\ Len(queue) \in Nat
    BY <1>13 DEF SpuriousWakeup, AwakePops, BlockedIn, TypeOK, Threads
  <2>2. Cardinality(AwakePops') = Cardinality(AwakePops) + 1
    BY <2>1, AwakePopsGrow
  <2> QED
    BY <2>1, <2>2, AwakeFinite DEF NoSleepingConsumerForgotten
<1>14. CASE UNCHANGED vars
  BY <1>14, <1>0 DEF vars
<1> QED
  BY <1>1, <1>2, <1>3, <1>4, <1>5, <1>6, <1>7, <1>8, <1>9, <1>10, <1>11, <1>12, <1>13, <1>14
  DEF Next, Push, Pop, Notify

-----------------------------------------------------------------------------
(* Wake-ups of producers: the mirror image, with free slots for items.     *)
LEMMA ProducerWakeupStep ==
  TypeOK /\ NoSleepingProducerForgotten /\ [Next]_vars => NoSleepingProducerForgotten'
<1> SUFFICES ASSUME TypeOK, NoSleepingProducerForgotten, [Next]_vars
             PROVE  NoSleepingProducerForgotten'
  OBVIOUS
<1> USE QueueAssumption, CapacityPositive
<1>0. ASSUME \A p \in Producers : pc'[p] = pc[p],
             \A k \in Closers : pc'[k] = pc[k],
             UNCHANGED <<queue, shutdown>>
      PROVE  NoSleepingProducerForgotten'
  BY <1>0, ProducersUndisturbed DEF NoSleepingProducerForgotten, capacity
<1>1. ASSUME NEW p \in Producers, NEW i \in Items, PushCall(p, i)
      PROVE  NoSleepingProducerForgotten'
  <2>1. /\ AwakePushes' = AwakePushes \cup {p} /\ p \notin AwakePushes
        /\ BlockedIn(Producers)' = BlockedIn(Producers)
        /\ \A k \in Closers : pc'[k] = pc[k]
        /\ UNCHANGED <<queue, shutdown>> /\ Len(queue) \in Nat
    BY <1>1 DEF PushCall, AwakePushes, BlockedIn, TypeOK, Threads
  <2>2. Cardinality(AwakePushes') = Cardinality(AwakePushes) + 1
    BY <2>1, AwakePushesGrow
  <2> QED
    BY <2>1, <2>2, AwakeFinite DEF NoSleepingProducerForgotten
<1>2. ASSUME NEW p \in Producers, PushWait(p)
      PROVE  NoSleepingProducerForgotten'
  <2>1. ~shutdown' /\ Len(queue') >= capacity /\ Len(queue') \in Nat
    BY <1>2 DEF PushWait, TypeOK
  <2>2. AwakePushes' \in SUBSET Producers
    BY DEF AwakePushes
  <2>3. Cardinality(AwakePushes') \in Nat
    BY <2>2, FS_Subset, FS_CardinalityType
  <2> QED
    BY <2>1, <2>3 DEF NoSleepingProducerForgotten
<1>3. ASSUME NEW p \in Producers, PushRefused(p)
      PROVE  NoSleepingProducerForgotten'
  BY <1>3 DEF PushRefused, NoSleepingProducerForgotten, BlockedIn, TypeOK, Threads
<1>4. ASSUME NEW p \in Producers, PushAccepted(p)
      PROVE  NoSleepingProducerForgotten'
  <2>1. /\ Len(queue') = Len(queue) + 1 /\ Len(queue) \in Nat
        /\ shutdown' = shutdown /\ p \in AwakePushes
    BY <1>4 DEF PushAccepted, TypeOK, AwakePushes
  <2>2. /\ AwakePushes' = AwakePushes \ {p}
        /\ BlockedIn(Producers)' = BlockedIn(Producers)
        /\ \A k \in Closers : pc'[k] = pc[k]
    <3>1. CASE pc' = [pc EXCEPT ![p] = "idle"]
      BY <1>4, <3>1 DEF PushAccepted, AwakePushes, BlockedIn, TypeOK, Threads
    <3>2. ASSUME NEW t \in BlockedIn(Consumers), pc' = [pc EXCEPT ![p] = "idle", ![t] = "pop"]
          PROVE  AwakePushes' = AwakePushes \ {p}
      BY <1>4, <3>2 DEF PushAccepted, AwakePushes, BlockedIn, TypeOK, Threads
    <3>3. ASSUME NEW t \in BlockedIn(Consumers), pc' = [pc EXCEPT ![p] = "idle", ![t] = "pop"]
          PROVE  BlockedIn(Producers)' = BlockedIn(Producers)
                 /\ \A k \in Closers : pc'[k] = pc[k]
      BY <1>4, <3>3 DEF PushAccepted, BlockedIn, TypeOK, Threads
    <3> QED
      BY <1>4, <3>1, <3>2, <3>3 DEF PushAccepted, ReturnNotifyingOne
  <2>3. Cardinality(AwakePushes') = Cardinality(AwakePushes) - 1
    BY <2>1, <2>2, AwakePushesShrink
  <2> QED
    BY <2>1, <2>2, <2>3, AwakeFinite DEF NoSleepingProducerForgotten
<1>5. ASSUME NEW c \in Consumers, PopCall(c)
      PROVE  NoSleepingProducerForgotten'
  BY <1>5, <1>0 DEF PopCall, TypeOK, Threads
<1>6. ASSUME NEW c \in Consumers, PopWait(c)
      PROVE  NoSleepingProducerForgotten'
  BY <1>6, <1>0 DEF PopWait, TypeOK, Threads
<1>7. ASSUME NEW c \in Consumers, PopTaken(c)
      PROVE  NoSleepingProducerForgotten'
  <2>1. /\ shutdown' = shutdown /\ Len(queue') = Len(queue) - 1
        /\ Len(queue) \in Nat \ {0}
    BY <1>7 DEF PopTaken, TypeOK
  <2>2. CASE BlockedIn(Producers) = {} /\ pc' = [pc EXCEPT ![c] = "idle"]
    <3>1. \A p \in Producers : pc'[p] = pc[p]
      BY <2>2 DEF TypeOK, Threads
    <3> QED
      BY <3>1, <2>2, ProducersUndisturbed DEF NoSleepingProducerForgotten
  <2>3. ASSUME NEW t \in BlockedIn(Producers), pc' = [pc EXCEPT ![c] = "idle", ![t] = "push"]
        PROVE  NoSleepingProducerForgotten'
    <3>1. /\ AwakePushes' = AwakePushes \cup {t} /\ t \notin AwakePushes
          /\ \A k \in Closers : pc'[k] = pc[k]
      BY <2>3 DEF AwakePushes, BlockedIn, TypeOK, Threads
    <3>2. Cardinality(AwakePushes') = Cardinality(AwakePushes) + 1
      BY <3>1, AwakePushesGrow
    <3>3. CASE shutdown
      BY <2>1, <2>3, <3>1, <3>3 DEF NoSleepingProducerForgotten
    <3>4. CASE ~shutdown
      <4>1. capacity <= Len(queue) + Cardinality(AwakePushes)
        BY <2>3, <3>4 DEF NoSleepingProducerForgotten
      <4> QED
        BY <2>1, <3>2, <3>4, <4>1, AwakeFinite DEF NoSleepingProducerForgotten
    <3> QED
      BY <3>3, <3>4
  <2> QED
    BY <1>7, <2>2, <2>3 DEF PopTaken, ReturnNotifyingOne
<1>8. ASSUME NEW c \in Consumers, PopFinished(c)
      PROVE  NoSleepingProducerForgotten'
  BY <1>8, <1>0 DEF PopFinished, TypeOK, Threads
<1>9. ASSUME NEW k \in Closers, Shutdown(k)
      PROVE  NoSleepingProducerForgotten'
  BY <1>9 DEF Shutdown, NoSleepingProducerForgotten, TypeOK, Threads
<1>10. ASSUME NEW k \in Closers, NotifyNotEmpty(k)
       PROVE  NoSleepingProducerForgotten'
  <2>1. /\ \A p \in Producers : pc'[p] = pc[p]
        /\ pc'[k] = "notify_not_full"
        /\ \A j \in Closers : j # k => pc'[j] = pc[j]
        /\ UNCHANGED <<queue, shutdown>>
    BY <1>10 DEF NotifyNotEmpty, BlockedIn, TypeOK, Threads
  <2> QED
    BY <2>1, ProducersUndisturbed DEF NoSleepingProducerForgotten
<1>11. ASSUME NEW k \in Closers, NotifyNotFull(k)
       PROVE  NoSleepingProducerForgotten'
  BY <1>11 DEF NotifyNotFull, NoSleepingProducerForgotten, BlockedIn, TypeOK, Threads
<1>12. ASSUME NEW t \in Consumers, SpuriousWakeup(t)
       PROVE  NoSleepingProducerForgotten'
  BY <1>12, <1>0 DEF SpuriousWakeup, TypeOK, Threads
<1>13. ASSUME NEW t \in Producers, SpuriousWakeup(t)
       PROVE  NoSleepingProducerForgotten'
  <2>1. /\ AwakePushes' = AwakePushes \cup {t} /\ t \notin AwakePushes
        /\ BlockedIn(Producers)' \subseteq BlockedIn(Producers)
        /\ \A k \in Closers : pc'[k] = pc[k]
        /\ UNCHANGED <<queue, shutdown>> /\ Len(queue) \in Nat
    BY <1>13 DEF SpuriousWakeup, AwakePushes, BlockedIn, TypeOK, Threads
  <2>2. Cardinality(AwakePushes') = Cardinality(AwakePushes) + 1
    BY <2>1, AwakePushesGrow
  <2> QED
    BY <2>1, <2>2, AwakeFinite DEF NoSleepingProducerForgotten
<1>14. CASE UNCHANGED vars
  BY <1>14, <1>0 DEF vars
<1> QED
  BY <1>1, <1>2, <1>3, <1>4, <1>5, <1>6, <1>7, <1>8, <1>9, <1>10, <1>11, <1>12, <1>13, <1>14
  DEF Next, Push, Pop, Notify

(* notify_one() under the mutex and notify_all() after it are enough: no   *)
(* interleaving of calls, wake-ups and shutdowns forgets a sleeping        *)
(* consumer (bounded_queue.h:45, 82).                                      *)
THEOREM ConsumersAlwaysWoken == Spec => []NoSleepingConsumerForgotten
<1>1. Init => NoSleepingConsumerForgotten
  BY DEF Init, NoSleepingConsumerForgotten, BlockedIn, Threads
<1> QED
  BY <1>1, ConsumerWakeupStep, TypeCorrectness, PTL DEF Spec

(* ... nor a producer asleep on a full queue (bounded_queue.h:63, 83).     *)
THEOREM ProducersAlwaysWoken == Spec => []NoSleepingProducerForgotten
<1>1. Init => NoSleepingProducerForgotten
  BY DEF Init, NoSleepingProducerForgotten, BlockedIn, Threads
<1> QED
  BY <1>1, ProducerWakeupStep, TypeCorrectness, PTL DEF Spec

-----------------------------------------------------------------------------
(* Refinement: each critical section is one step of the closable FIFO, or  *)
(* a stutter when it only moves a thread in or out of a wait set.          *)

(* The initial queue is an empty, open FIFO.                               *)
LEMMA FifoInitRefined == Init => Fifo!FifoInit
  BY DEF Init, Fifo!FifoInit, Threads

(* Every step of the queue is a step of the FIFO or none.                  *)
LEMMA FifoStepRefined == TypeOK /\ [Next]_vars => [Fifo!FifoNext]_(Fifo!fifoVars)
<1> SUFFICES ASSUME TypeOK, [Next]_vars PROVE [Fifo!FifoNext]_(Fifo!fifoVars)
  OBVIOUS
<1> DEFINE offer == [p \in Producers |-> IF pc[p] = "idle" THEN NoItem ELSE item[p]]
           request == [c \in Consumers |-> pc[c] # "idle"]
<1> USE QueueAssumption DEF TypeOK, Threads
<1>0. ASSUME UNCHANGED <<queue, shutdown, got, offer, request>>
      PROVE  UNCHANGED Fifo!fifoVars
  BY <1>0 DEF Fifo!fifoVars
<1>1. ASSUME NEW p \in Producers, NEW i \in Items, PushCall(p, i)
      PROVE  Fifo!FifoNext
  <2>1. offer[p] = NoItem /\ offer' = [offer EXCEPT ![p] = i]
    BY <1>1 DEF PushCall
  <2>2. request' = request
    BY <1>1 DEF PushCall
  <2>3. Fifo!Offer(p, i)
    BY <1>1, <2>1, <2>2 DEF PushCall, Fifo!Offer
  <2> QED
    BY <2>3 DEF Fifo!FifoNext
<1>2. ASSUME NEW p \in Producers, PushWait(p)
      PROVE  UNCHANGED Fifo!fifoVars
  <2>1. offer' = offer /\ request' = request
    BY <1>2 DEF PushWait
  <2> QED
    BY <1>2, <2>1, <1>0 DEF PushWait
<1>3. ASSUME NEW p \in Producers, PushRefused(p)
      PROVE  Fifo!FifoNext
  <2>1. offer[p] # NoItem /\ offer' = [offer EXCEPT ![p] = NoItem]
    BY <1>3 DEF PushRefused
  <2>2. request' = request
    BY <1>3 DEF PushRefused
  <2>3. Fifo!Refuse(p)
    BY <1>3, <2>1, <2>2 DEF PushRefused, Fifo!Refuse
  <2> QED
    BY <2>3 DEF Fifo!FifoNext
<1>4. ASSUME NEW p \in Producers, PushAccepted(p)
      PROVE  Fifo!FifoNext
  <2> DEFINE OnlyCallReturned ==
        /\ pc'[p] = "idle"
        /\ \A q \in Producers : q # p => pc'[q] = pc[q]
        /\ \A c \in Consumers : (pc'[c] = "idle") = (pc[c] = "idle")
  <2>1. OnlyCallReturned
    <3>1. CASE pc' = [pc EXCEPT ![p] = "idle"]
      BY <3>1
    <3>2. ASSUME NEW t \in BlockedIn(Consumers), pc' = [pc EXCEPT ![p] = "idle", ![t] = "pop"]
          PROVE  OnlyCallReturned
      BY <3>2 DEF BlockedIn
    <3> QED
      BY <1>4, <3>1, <3>2 DEF PushAccepted, ReturnNotifyingOne
  <2>2. /\ offer[p] # NoItem /\ offer[p] = item[p]
        /\ offer' = [offer EXCEPT ![p] = NoItem]
    BY <1>4, <2>1 DEF PushAccepted
  <2>3. request' = request
    BY <2>1
  <2>4. Fifo!Accept(p)
    BY <1>4, <2>2, <2>3 DEF PushAccepted, Fifo!Accept
  <2> QED
    BY <2>4 DEF Fifo!FifoNext
<1>5. ASSUME NEW c \in Consumers, PopCall(c)
      PROVE  Fifo!FifoNext
  <2>1. ~request[c] /\ request' = [request EXCEPT ![c] = TRUE]
    BY <1>5 DEF PopCall
  <2>2. offer' = offer
    BY <1>5 DEF PopCall
  <2>3. Fifo!Request(c)
    BY <1>5, <2>1, <2>2 DEF PopCall, Fifo!Request
  <2> QED
    BY <2>3 DEF Fifo!FifoNext
<1>6. ASSUME NEW c \in Consumers, PopWait(c)
      PROVE  UNCHANGED Fifo!fifoVars
  <2>1. offer' = offer /\ request' = request
    BY <1>6 DEF PopWait
  <2> QED
    BY <1>6, <2>1, <1>0 DEF PopWait
<1>7. ASSUME NEW c \in Consumers, PopTaken(c)
      PROVE  Fifo!FifoNext
  <2> DEFINE OnlyCallReturned ==
        /\ pc'[c] = "idle"
        /\ \A d \in Consumers : d # c => pc'[d] = pc[d]
        /\ \A p \in Producers : (pc'[p] = "idle") = (pc[p] = "idle")
  <2>1. OnlyCallReturned
    <3>1. CASE pc' = [pc EXCEPT ![c] = "idle"]
      BY <3>1
    <3>2. ASSUME NEW t \in BlockedIn(Producers), pc' = [pc EXCEPT ![c] = "idle", ![t] = "push"]
          PROVE  OnlyCallReturned
      BY <3>2 DEF BlockedIn
    <3> QED
      BY <1>7, <3>1, <3>2 DEF PopTaken, ReturnNotifyingOne
  <2>2. request[c] /\ request' = [request EXCEPT ![c] = FALSE]
    BY <1>7, <2>1 DEF PopTaken
  <2>3. offer' = offer
    BY <1>7, <2>1 DEF PopTaken
  <2>4. Fifo!Deliver(c)
    BY <1>7, <2>2, <2>3 DEF PopTaken, Fifo!Deliver
  <2> QED
    BY <2>4 DEF Fifo!FifoNext
<1>8. ASSUME NEW c \in Consumers, PopFinished(c)
      PROVE  Fifo!FifoNext
  <2>1. request[c] /\ request' = [request EXCEPT ![c] = FALSE]
    BY <1>8 DEF PopFinished
  <2>2. offer' = offer
    BY <1>8 DEF PopFinished
  <2>3. Fifo!Finish(c)
    BY <1>8, <2>1, <2>2 DEF PopFinished, Fifo!Finish
  <2> QED
    BY <2>3 DEF Fifo!FifoNext
<1>9. ASSUME NEW k \in Closers, Shutdown(k)
      PROVE  Fifo!FifoNext
  <2>1. offer' = offer /\ request' = request
    BY <1>9 DEF Shutdown
  <2>2. Fifo!Close
    BY <1>9, <2>1 DEF Shutdown, Fifo!Close
  <2> QED
    BY <2>2 DEF Fifo!FifoNext
<1>10. ASSUME NEW k \in Closers, Notify(k)
       PROVE  UNCHANGED Fifo!fifoVars
  <2>1. /\ \A p \in Producers : (pc'[p] = "idle") = (pc[p] = "idle")
        /\ \A c \in Consumers : (pc'[c] = "idle") = (pc[c] = "idle")
        /\ UNCHANGED <<queue, shutdown, item, got>>
    BY <1>10 DEF Notify, NotifyNotEmpty, NotifyNotFull, BlockedIn
  <2>2. offer' = offer /\ request' = request
    BY <2>1
  <2> QED
    BY <2>1, <2>2, <1>0
<1>11. ASSUME NEW t \in Producers \cup Consumers, SpuriousWakeup(t)
       PROVE  UNCHANGED Fifo!fifoVars
  <2>1. offer' = offer /\ request' = request
    BY <1>11 DEF SpuriousWakeup
  <2> QED
    BY <1>11, <2>1, <1>0 DEF SpuriousWakeup
<1>12. CASE UNCHANGED vars
  <2>1. offer' = offer /\ request' = request
    BY <1>12 DEF vars
  <2> QED
    BY <1>12, <2>1, <1>0 DEF vars
<1> QED
  BY <1>1, <1>2, <1>3, <1>4, <1>5, <1>6, <1>7, <1>8, <1>9, <1>10, <1>11, <1>12
  DEF Next, Push, Pop

(* BoundedQueue implements the closable FIFO, for every number of threads  *)
(* and every capacity (the safety half of ImplementsClosableFifo): items   *)
(* come out once, in order, and a shutdown drops none (bounded_queue.h:    *)
(* 34-84).                                                                 *)
THEOREM ImplementsFifo == Spec => Fifo!FifoSafety
  BY FifoInitRefined, FifoStepRefined, TypeCorrectness, PTL
  DEF Spec, Fifo!FifoSafety
=============================================================================
