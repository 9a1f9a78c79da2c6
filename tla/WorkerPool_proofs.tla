------------------------- MODULE WorkerPool_proofs -------------------------
(***************************************************************************)
(* Proofs about WorkerPool for every number of clients and workers, every  *)
(* queue capacity, every capture and every hash function.                  *)
(*                                                                         *)
(* LifecycleCoherent is the strengthening everything rests on: with TypeOK *)
(* it is inductive, and together with the history invariant (nothing lost) *)
(* and the counters (Counted) it yields DrainedWhenStopped.                *)
(***************************************************************************)
EXTENDS WorkerPool, SequenceTheorems, TLAPS

(* The worker indices start at 0.                                          *)
LEMMA WorkersNat == Workers \subseteq Nat /\ 0 \in Workers
  BY PoolAssumption DEF Workers

(* The loops over workers_ stay inside it.                                 *)
LEMMA NextWorker == \A w \in Workers : w + 1 # NumWorkers => w + 1 \in Workers
  BY PoolAssumption DEF Workers

(* The routing always names a worker (worker_pool.cpp:54-61).              *)
LEMMA TargetIsWorker == \A p \in Packets : TargetWorker(p) \in Workers
<1> SUFFICES ASSUME NEW p \in Packets PROVE TargetWorker(p) \in Workers
  OBVIOUS
<1>1. CASE KeyOf[p] = NoKey
  BY <1>1, WorkersNat DEF TargetWorker
<1>2. CASE KeyOf[p] # NoKey
  <2>1. Hash[KeyOf[p]] \in Nat
    BY <1>2, PoolAssumption
  <2> QED
    BY <1>2, <2>1, PoolAssumption DEF TargetWorker, Workers
<1> QED
  BY <1>1, <1>2

-----------------------------------------------------------------------------
(* The constructed pool is well typed.                                     *)
LEMMA InitTypeOK == Init => TypeOK
<1> SUFFICES ASSUME Init PROVE TypeOK
  OBVIOUS
<1> USE DEF Init
<1>1. /\ running \in BOOLEAN /\ unroutable \in Nat
      /\ at \in [Clients -> {"idle", "starting", "pushing", "requesting", "joining"}]
      /\ cursor \in [Clients -> Workers]
      /\ cargo \in [Clients -> Packets \cup {NoPacket}]
      /\ \A c \in Clients : at[c] = "idle"
  BY WorkersNat
<1>2. /\ started \in [Workers -> BOOLEAN]
      /\ thread \in [Workers -> {"none", "pop", "work", "exited"}]
      /\ closed \in [Workers -> BOOLEAN]
      /\ job \in [Workers -> Packets \cup {NoPacket}]
      /\ \A w \in Workers : thread[w] = "none"
  OBVIOUS
<1>3. /\ processed \in [Workers -> Nat] /\ malformed \in [Workers -> Nat]
      /\ flows \in [Workers -> SUBSET Keys] /\ reported \in [Workers -> SUBSET Keys]
      /\ fresh \in SUBSET Packets
  OBVIOUS
<1>4. << >> \in Seq(Packets) /\ Len(<< >>) = 0
  OBVIOUS
<1>5. /\ queue \in [Workers -> Seq(Packets)]
      /\ accepted \in [Workers -> Seq(Packets)]
      /\ handled \in [Workers -> Seq(Packets)]
      /\ \A w \in Workers : Len(queue[w]) = 0
  BY <1>4
<1>6. \A w \in Workers : Len(queue[w]) <= Capacity
  BY <1>5, PoolAssumption
<1> QED
  BY <1>1, <1>2, <1>3, <1>5, <1>6 DEF TypeOK, In

(* Every step keeps the types, and no queue grows past its capacity.       *)
LEMMA NextTypeOK == TypeOK /\ [Next]_vars => TypeOK'
<1> SUFFICES ASSUME TypeOK, [Next]_vars PROVE TypeOK'
  OBVIOUS
<1> USE PoolAssumption, WorkersNat DEF TypeOK, In, clientVars, workerVars
<1>1. ASSUME NEW c \in Clients, StartCall(c) PROVE TypeOK'
  BY <1>1 DEF StartCall
<1>2. ASSUME NEW c \in Clients, StopCall(c) PROVE TypeOK'
  BY <1>2 DEF StopCall
<1>3. ASSUME NEW c \in Clients, NEW p \in Packets, DispatchCall(c, p) PROVE TypeOK'
  <2>1. unroutable' \in Nat /\ fresh' \in SUBSET Packets
    BY <1>3 DEF DispatchCall
  <2>2. /\ at' \in [Clients -> {"idle", "starting", "pushing", "requesting", "joining"}]
        /\ cargo' \in [Clients -> Packets \cup {NoPacket}]
        /\ \A d \in Clients : at'[d] \in {"pushing"} => cargo'[d] \in Packets
    BY <1>3 DEF DispatchCall
  <2> QED
    BY <1>3, <2>1, <2>2 DEF DispatchCall
<1>4. ASSUME NEW c \in Clients, NEW p \in Packets, DispatchRejected(c, p) PROVE TypeOK'
  BY <1>4 DEF DispatchRejected
<1>5. ASSUME NEW c \in Clients, StartWorker(c) PROVE TypeOK'
  <2>1. cursor[c] \in Workers /\ (cursor[c] + 1 # NumWorkers => cursor[c] + 1 \in Workers)
    BY NextWorker
  <2> QED
    BY <1>5, <2>1 DEF StartWorker
<1>6. ASSUME NEW c \in Clients, PushAccepted(c) PROVE TypeOK'
  <2> DEFINE w == TargetWorker(cargo[c])
  <2>1. cargo[c] \in Packets /\ w \in Workers
    BY <1>6, TargetIsWorker DEF PushAccepted
  <2> HIDE DEF w
  <2>2. /\ queue' = [queue EXCEPT ![w] = Append(@, cargo[c])]
        /\ accepted' = [accepted EXCEPT ![w] = Append(@, cargo[c])]
        /\ Len(queue[w]) < Capacity
        /\ at' = [at EXCEPT ![c] = "idle"] /\ cargo' = [cargo EXCEPT ![c] = NoPacket]
    BY <1>6 DEF PushAccepted, w
  <2>3. /\ queue' \in [Workers -> Seq(Packets)] /\ accepted' \in [Workers -> Seq(Packets)]
        /\ \A v \in Workers : Len(queue'[v]) <= Capacity
    BY <2>1, <2>2
  <2>4. /\ at' \in [Clients -> {"idle", "starting", "pushing", "requesting", "joining"}]
        /\ cargo' \in [Clients -> Packets \cup {NoPacket}]
        /\ \A d \in Clients : at'[d] \in {"pushing"} => cargo'[d] \in Packets
    BY <2>2
  <2> QED
    BY <1>6, <2>3, <2>4 DEF PushAccepted
<1>7. ASSUME NEW c \in Clients, PushRefused(c) PROVE TypeOK'
  BY <1>7 DEF PushRefused
<1>8. ASSUME NEW c \in Clients, RequestStop(c) PROVE TypeOK'
  <2>1. cursor[c] \in Workers /\ (cursor[c] + 1 # NumWorkers => cursor[c] + 1 \in Workers)
    BY NextWorker
  <2> QED
    BY <1>8, <2>1 DEF RequestStop
<1>9. ASSUME NEW c \in Clients, JoinWorker(c) PROVE TypeOK'
  <2>1. cursor[c] \in Workers /\ (cursor[c] + 1 # NumWorkers => cursor[c] + 1 \in Workers)
    BY NextWorker
  <2> QED
    BY <1>9, <2>1 DEF JoinWorker
<1>10. ASSUME NEW w \in Workers, PopJob(w) PROVE TypeOK'
  <2>1. Head(queue[w]) \in Packets /\ Tail(queue[w]) \in Seq(Packets)
        /\ Len(Tail(queue[w])) <= Capacity
    BY <1>10 DEF PopJob
  <2> QED
    BY <1>10, <2>1 DEF PopJob
<1>11. ASSUME NEW w \in Workers, HandleJob(w) PROVE TypeOK'
  <2>1. job[w] \in Packets /\ Append(handled[w], job[w]) \in Seq(Packets)
    BY <1>11 DEF HandleJob
  <2>2. job[w] \in Tracked => KeyOf[job[w]] \in Keys
    BY <2>1
  <2>3. /\ processed' \in [Workers -> Nat] /\ malformed' \in [Workers -> Nat]
        /\ flows' \in [Workers -> SUBSET Keys]
    <3>1. CASE job[w] \in Tracked
      <4>1. /\ processed' = [processed EXCEPT ![w] = @ + 1]
            /\ flows' = [flows EXCEPT ![w] = @ \cup {KeyOf[job[w]]}]
            /\ malformed' = malformed
        BY <1>11, <3>1 DEF HandleJob
      <4>2. flows[w] \cup {KeyOf[job[w]]} \in SUBSET Keys
        BY <2>2, <3>1
      <4> QED
        BY <4>1, <4>2
    <3>2. CASE job[w] \notin Tracked
      <4>1. /\ malformed' = [malformed EXCEPT ![w] = @ + 1]
            /\ flows' = flows /\ processed' = processed
        BY <1>11, <3>2 DEF HandleJob
      <4> QED
        BY <4>1
    <3> QED
      BY <3>1, <3>2
  <2>4. handled' \in [Workers -> Seq(Packets)]
    BY <1>11, <2>1 DEF HandleJob
  <2> QED
    BY <1>11, <2>3, <2>4 DEF HandleJob
<1>12. ASSUME NEW w \in Workers, ExitRun(w) PROVE TypeOK'
  BY <1>12 DEF ExitRun
<1>13. CASE UNCHANGED vars
  BY <1>13 DEF vars
<1> QED
  BY <1>1, <1>2, <1>3, <1>4, <1>5, <1>6, <1>7, <1>8, <1>9, <1>10, <1>11, <1>12, <1>13
  DEF Next, ClientStep, WorkerStep

(* Type correctness, with the bound on every worker queue.                 *)
THEOREM TypeCorrectness == Spec => []TypeOK
  BY InitTypeOK, NextTypeOK, PTL DEF Spec

-----------------------------------------------------------------------------
(* LifecycleCoherent is inductive relative to TypeOK.  Under each action,  *)
(* the first step says what it does point by point; the other three check  *)
(* the conjuncts of LifecycleCoherent against it.                          *)
LEMMA LifecycleStep ==
  TypeOK /\ LifecycleCoherent /\ [Next]_vars => LifecycleCoherent'
<1> SUFFICES ASSUME TypeOK, LifecycleCoherent, [Next]_vars PROVE LifecycleCoherent'
  OBVIOUS
<1>0. /\ at \in [Clients -> {"idle", "starting", "pushing", "requesting", "joining"}]
      /\ cursor \in [Clients -> Workers]
      /\ \A c \in Clients : cursor[c] \in Nat
      /\ thread \in [Workers -> {"none", "pop", "work", "exited"}]
      /\ started \in [Workers -> BOOLEAN]
      /\ Workers = 0 .. NumWorkers - 1 /\ NumWorkers \in Nat \ {0}
  BY WorkersNat, PoolAssumption DEF TypeOK, Workers
<1>00. OneInLifecycle /\ (\A c \in Clients : ClientCoherent(c))
       /\ (\A w \in Workers : WorkerCoherent(w))
  BY DEF LifecycleCoherent
<1>1. ASSUME NEW c \in Clients, StartCall(c) PROVE LifecycleCoherent'
  <2>1. /\ ~running /\ running' /\ NobodyStarting /\ NobodyStopping
        /\ at[c] = "idle" /\ at'[c] = "starting"
        /\ \A d \in Clients : d # c => at'[d] = at[d]
        /\ UNCHANGED <<cursor, started, thread, queue, closed, flows, reported>>
    BY <1>1 DEF StartCall, TypeOK, In, clientVars, workerVars
  <2>2. OneInLifecycle'
    BY <2>1, <1>00 DEF OneInLifecycle, In, NobodyStarting, NobodyStopping
  <2>3. ASSUME NEW d \in Clients PROVE ClientCoherent(d)'
    BY <2>1, <1>0, <1>00 DEF OneInLifecycle, ClientCoherent, WorkerCoherent, In, NobodyStarting, NobodyStopping
  <2>4. ASSUME NEW v \in Workers PROVE WorkerCoherent(v)'
    BY <2>1, <1>0, <1>00 DEF OneInLifecycle, ClientCoherent, WorkerCoherent, In, NobodyStarting, NobodyStopping
  <2> QED
    BY <2>2, <2>3, <2>4, <1>0 DEF LifecycleCoherent
<1>2. ASSUME NEW c \in Clients, StopCall(c) PROVE LifecycleCoherent'
  <2>1. /\ running /\ ~running' /\ NobodyStarting
        /\ at[c] = "idle" /\ at'[c] = "requesting"
        /\ \A d \in Clients : d # c => at'[d] = at[d]
        /\ UNCHANGED <<cursor, started, thread, queue, closed, flows, reported>>
    BY <1>2 DEF StopCall, TypeOK, In, clientVars, workerVars
  <2>1b. NobodyStopping
    BY <2>1, <1>00 DEF ClientCoherent, In, NobodyStopping
  <2>2. OneInLifecycle'
    BY <2>1, <2>1b, <1>00 DEF OneInLifecycle, In, NobodyStarting, NobodyStopping
  <2>3. ASSUME NEW d \in Clients PROVE ClientCoherent(d)'
    BY <2>1, <1>0, <1>00 DEF OneInLifecycle, ClientCoherent, WorkerCoherent, In, NobodyStarting, NobodyStopping
  <2>4. ASSUME NEW v \in Workers PROVE WorkerCoherent(v)'
    BY <2>1, <1>0, <1>00 DEF OneInLifecycle, ClientCoherent, WorkerCoherent, In, NobodyStarting, NobodyStopping
  <2> QED
    BY <2>2, <2>3, <2>4, <1>0 DEF LifecycleCoherent
<1>3. ASSUME NEW c \in Clients, NEW p \in Packets, DispatchCall(c, p) PROVE LifecycleCoherent'
  <2>1. /\ running /\ running' = running
        /\ at[c] = "idle" /\ at'[c] = "pushing"
        /\ \A d \in Clients : d # c => at'[d] = at[d]
        /\ UNCHANGED <<cursor, started, thread, queue, closed, flows, reported>>
    BY <1>3 DEF DispatchCall, TypeOK, In, clientVars, workerVars
  <2>1b. NobodyStopping
    BY <2>1, <1>00 DEF ClientCoherent, In, NobodyStopping
  <2>2. OneInLifecycle'
    BY <2>1, <1>00 DEF OneInLifecycle, In, NobodyStarting, NobodyStopping
  <2>3. ASSUME NEW d \in Clients PROVE ClientCoherent(d)'
    <3>1. CASE d = c
      BY <3>1, <2>1, <2>1b, <1>0, <1>00 DEF ClientCoherent, In
    <3>2. CASE d # c
      BY <3>2, <2>1, <2>1b, <1>0, <1>00 DEF ClientCoherent, In, NobodyStopping
    <3> QED
      BY <3>1, <3>2
  <2>4. ASSUME NEW v \in Workers PROVE WorkerCoherent(v)'
    BY <2>1, <1>0, <1>00 DEF OneInLifecycle, ClientCoherent, WorkerCoherent, In, NobodyStarting, NobodyStopping
  <2> QED
    BY <2>2, <2>3, <2>4, <1>0 DEF LifecycleCoherent
<1>4. ASSUME NEW c \in Clients, NEW p \in Packets, DispatchRejected(c, p) PROVE LifecycleCoherent'
  <2>1. UNCHANGED <<running, at, cursor, started, thread, queue, closed, flows, reported>>
    BY <1>4 DEF DispatchRejected, TypeOK, In, clientVars, workerVars
  <2>2. OneInLifecycle'
    BY <2>1, <1>00 DEF OneInLifecycle, In, NobodyStarting, NobodyStopping
  <2>3. ASSUME NEW d \in Clients PROVE ClientCoherent(d)'
    BY <2>1, <1>0, <1>00 DEF OneInLifecycle, ClientCoherent, WorkerCoherent, In, NobodyStarting, NobodyStopping
  <2>4. ASSUME NEW v \in Workers PROVE WorkerCoherent(v)'
    BY <2>1, <1>0, <1>00 DEF OneInLifecycle, ClientCoherent, WorkerCoherent, In, NobodyStarting, NobodyStopping
  <2> QED
    BY <2>2, <2>3, <2>4, <1>0 DEF LifecycleCoherent
<1>5. ASSUME NEW c \in Clients, StartWorker(c) PROVE LifecycleCoherent'
  <2>0. /\ at[c] = "starting" /\ cursor[c] \in Workers
        /\ thread[cursor[c]] = "none" /\ ~started[cursor[c]] /\ running
    BY <1>5, <1>0, <1>00 DEF StartWorker, ClientCoherent, WorkerCoherent, In
  <2>1. /\ started'[cursor[c]] /\ thread'[cursor[c]] = "pop"
        /\ \A v \in Workers : v # cursor[c] => started'[v] = started[v] /\ thread'[v] = thread[v]
        /\ cursor[c] + 1 = NumWorkers => at'[c] = "idle" /\ cursor'[c] = 0
        /\ cursor[c] + 1 # NumWorkers => at'[c] = "starting" /\ cursor'[c] = cursor[c] + 1
        /\ \A d \in Clients : d # c => at'[d] = at[d] /\ cursor'[d] = cursor[d]
        /\ UNCHANGED <<running, queue, closed, flows, reported>>
    BY <1>5, <1>0, <2>0 DEF StartWorker, TypeOK, In, clientVars, workerVars
  <2>1a. \A d \in Clients : d # c => at[d] \in {"idle", "pushing"}
    BY <2>0, <1>0, <1>00 DEF OneInLifecycle, In
  <2>2. OneInLifecycle'
    BY <2>0, <2>1, <1>00 DEF OneInLifecycle, In, NobodyStarting, NobodyStopping
  <2>3. ASSUME NEW d \in Clients PROVE ClientCoherent(d)'
    <3>1. CASE d = c
      <4>1. CASE cursor[c] + 1 = NumWorkers
        BY <4>1, <3>1, <2>0, <2>1, <1>0 DEF ClientCoherent, In
      <4>2. CASE cursor[c] + 1 # NumWorkers
        <5>1. ASSUME NEW w \in Workers PROVE thread'[w] = "none" <=> w >= cursor'[c]
          BY <4>2, <2>0, <2>1, <1>0, <1>00 DEF ClientCoherent, In
        <5> QED
          BY <5>1, <4>2, <3>1, <2>0, <2>1, <1>0 DEF ClientCoherent, In
      <4> QED
        BY <4>1, <4>2
    <3>2. CASE d # c
      BY <3>2, <2>0, <2>1, <2>1a, <1>0, <1>00 DEF ClientCoherent, In
    <3> QED
      BY <3>1, <3>2
  <2>4. ASSUME NEW v \in Workers PROVE WorkerCoherent(v)'
    <3>1. (thread[v] = "none" <=> ~started[v])' /\ (thread'[v] = "none" => v > cursor[c] /\ thread[v] = "none")
      BY <2>0, <2>1, <1>0, <1>00 DEF ClientCoherent, WorkerCoherent, In
    <3>2. (NobodyStarting /\ NobodyStopping => (thread[v] = "none" <=> ~running))'
      <4>1. CASE cursor[c] + 1 = NumWorkers
        BY <4>1, <3>1, <2>0, <2>1, <1>0
      <4>2. CASE cursor[c] + 1 # NumWorkers
        BY <4>2, <2>0, <2>1 DEF NobodyStarting, In
      <4> QED
        BY <4>1, <4>2
    <3> QED
      BY <3>1, <3>2, <2>0, <2>1, <1>0, <1>00 DEF WorkerCoherent
  <2> QED
    BY <2>2, <2>3, <2>4, <1>0 DEF LifecycleCoherent
<1>6. ASSUME NEW c \in Clients, PushAccepted(c) PROVE LifecycleCoherent'
  <2>1. /\ at[c] = "pushing" /\ at'[c] = "idle"
        /\ \A d \in Clients : d # c => at'[d] = at[d]
        /\ ~closed[TargetWorker(cargo[c])]
        /\ TargetWorker(cargo[c]) \in Workers
        /\ \A v \in Workers : v # TargetWorker(cargo[c]) => queue'[v] = queue[v]
        /\ UNCHANGED <<running, cursor, started, thread, closed, flows, reported>>
    BY <1>6, TargetIsWorker DEF PushAccepted, TypeOK, In, clientVars, workerVars
  <2>2. OneInLifecycle'
    BY <2>1, <1>00 DEF OneInLifecycle, In, NobodyStarting, NobodyStopping
  <2>3. ASSUME NEW d \in Clients PROVE ClientCoherent(d)'
    BY <2>1, <1>0, <1>00, ZenonT(60) DEF OneInLifecycle, ClientCoherent, WorkerCoherent, In, NobodyStarting, NobodyStopping
  <2>4. ASSUME NEW v \in Workers PROVE WorkerCoherent(v)'
    BY <2>1, <1>0, <1>00, ZenonT(60) DEF OneInLifecycle, ClientCoherent, WorkerCoherent, In, NobodyStarting, NobodyStopping
  <2> QED
    BY <2>2, <2>3, <2>4, <1>0 DEF LifecycleCoherent
<1>7. ASSUME NEW c \in Clients, PushRefused(c) PROVE LifecycleCoherent'
  <2>1. /\ at[c] = "pushing" /\ at'[c] = "idle"
        /\ \A d \in Clients : d # c => at'[d] = at[d]
        /\ UNCHANGED <<running, cursor, started, thread, queue, closed, flows, reported>>
    BY <1>7 DEF PushRefused, TypeOK, In, clientVars, workerVars
  <2>2. OneInLifecycle'
    BY <2>1, <1>00 DEF OneInLifecycle, In, NobodyStarting, NobodyStopping
  <2>3. ASSUME NEW d \in Clients PROVE ClientCoherent(d)'
    BY <2>1, <1>0, <1>00 DEF OneInLifecycle, ClientCoherent, WorkerCoherent, In, NobodyStarting, NobodyStopping
  <2>4. ASSUME NEW v \in Workers PROVE WorkerCoherent(v)'
    BY <2>1, <1>0, <1>00 DEF OneInLifecycle, ClientCoherent, WorkerCoherent, In, NobodyStarting, NobodyStopping
  <2> QED
    BY <2>2, <2>3, <2>4, <1>0 DEF LifecycleCoherent
<1>8. ASSUME NEW c \in Clients, RequestStop(c) PROVE LifecycleCoherent'
  <2>1. /\ at[c] = "requesting" /\ cursor[c] \in Workers
        /\ closed'[cursor[c]]
        /\ \A v \in Workers : v # cursor[c] => closed'[v] = closed[v]
        /\ cursor[c] + 1 = NumWorkers => at'[c] = "joining" /\ cursor'[c] = 0
        /\ cursor[c] + 1 # NumWorkers => at'[c] = "requesting" /\ cursor'[c] = cursor[c] + 1
        /\ \A d \in Clients : d # c => at'[d] = at[d] /\ cursor'[d] = cursor[d]
        /\ UNCHANGED <<running, started, thread, queue, flows, reported>>
    BY <1>8 DEF RequestStop, TypeOK, In, clientVars, workerVars
  <2>1a. \A d \in Clients : d # c => at[d] \in {"idle", "pushing"}
    BY <2>1, <1>0, <1>00 DEF OneInLifecycle, In
  <2>1b. cursor[c] + 1 = NumWorkers => \A v \in Workers : closed'[v]
    BY <2>1, <1>0, <1>00 DEF ClientCoherent, In
  <2>1c. ~running /\ \A v \in Workers : closed[v] => closed'[v]
    BY <2>1, <1>0, <1>00 DEF ClientCoherent, In
  <2>2. OneInLifecycle'
    BY <2>1, <1>00 DEF OneInLifecycle, In, NobodyStarting, NobodyStopping
  <2>3. ASSUME NEW d \in Clients PROVE ClientCoherent(d)'
    <3>1. CASE d = c
      <4>1. CASE cursor[c] + 1 = NumWorkers
        <5>1. ASSUME NEW v \in Workers PROVE closed'[v] /\ thread'[v] # "none" /\ ~(v < cursor'[c])
          BY <4>1, <2>1, <2>1b, <1>0, <1>00 DEF ClientCoherent, In
        <5> QED
          BY <5>1, <4>1, <3>1, <2>1, <2>1c, <1>0 DEF ClientCoherent, In
      <4>2. CASE cursor[c] + 1 # NumWorkers
        <5>1. ASSUME NEW v \in Workers
              PROVE thread'[v] # "none" /\ (v < cursor'[c] => closed'[v])
          BY <4>2, <2>1, <2>1c, <1>0, <1>00 DEF ClientCoherent, In
        <5> QED
          BY <5>1, <4>2, <3>1, <2>1, <2>1c, <1>0 DEF ClientCoherent, In
      <4> QED
        BY <4>1, <4>2
    <3>2. CASE d # c
      <4>1. (In(d, {"pushing"}) => \/ running
                                   \/ \E e \in Clients : In(e, {"requesting"})
                                   \/ \A w \in Workers : closed[w])'
        BY <2>1, <2>1b DEF In
      <4> QED
        BY <4>1, <3>2, <2>1, <2>1a, <1>0, <1>00 DEF ClientCoherent, In
    <3> QED
      BY <3>1, <3>2
  <2>4. ASSUME NEW v \in Workers PROVE WorkerCoherent(v)'
    BY <2>1, <1>0, <1>00 DEF OneInLifecycle, ClientCoherent, WorkerCoherent, In, NobodyStarting, NobodyStopping
  <2> QED
    BY <2>2, <2>3, <2>4, <1>0 DEF LifecycleCoherent
<1>9. ASSUME NEW c \in Clients, JoinWorker(c) PROVE LifecycleCoherent'
  <2>1. /\ at[c] = "joining" /\ cursor[c] \in Workers
        /\ thread[cursor[c]] \in {"exited", "none"}
        /\ thread'[cursor[c]] = "none" /\ ~started'[cursor[c]]
        /\ \A v \in Workers : v # cursor[c] => started'[v] = started[v] /\ thread'[v] = thread[v]
        /\ cursor[c] + 1 = NumWorkers => at'[c] = "idle" /\ cursor'[c] = 0
        /\ cursor[c] + 1 # NumWorkers => at'[c] = "joining" /\ cursor'[c] = cursor[c] + 1
        /\ \A d \in Clients : d # c => at'[d] = at[d] /\ cursor'[d] = cursor[d]
        /\ UNCHANGED <<running, queue, closed, flows, reported>>
    BY <1>9 DEF JoinWorker, TypeOK, In, clientVars, workerVars
  <2>1a. \A d \in Clients : d # c => at[d] \in {"idle", "pushing"}
    BY <2>1, <1>0, <1>00 DEF OneInLifecycle, In
  <2>1b. ~running /\ \A v \in Workers : closed'[v]
    BY <2>1, <1>0, <1>00 DEF ClientCoherent, In
  <2>2. OneInLifecycle'
    BY <2>1, <1>00 DEF OneInLifecycle, In, NobodyStarting, NobodyStopping
  <2>3. ASSUME NEW d \in Clients PROVE ClientCoherent(d)'
    <3>1. CASE d = c
      <4>1. CASE cursor[c] + 1 = NumWorkers
        BY <4>1, <3>1, <2>1, <2>1b, <1>0 DEF ClientCoherent, In
      <4>2. CASE cursor[c] + 1 # NumWorkers
        <5>1. ASSUME NEW v \in Workers PROVE thread'[v] = "none" <=> v < cursor'[c]
          BY <4>2, <2>1, <1>0, <1>00 DEF ClientCoherent, In
        <5> QED
          BY <5>1, <4>2, <3>1, <2>1, <2>1b, <1>0 DEF ClientCoherent, In
      <4> QED
        BY <4>1, <4>2
    <3>2. CASE d # c
      BY <3>2, <2>1, <2>1a, <2>1b, <1>0, <1>00 DEF ClientCoherent, In
    <3> QED
      BY <3>1, <3>2
  <2>4. ASSUME NEW v \in Workers PROVE WorkerCoherent(v)'
    BY <2>1, <1>0, <1>00 DEF OneInLifecycle, ClientCoherent, WorkerCoherent, In, NobodyStarting, NobodyStopping
  <2> QED
    BY <2>2, <2>3, <2>4, <1>0 DEF LifecycleCoherent
<1>10. ASSUME NEW w \in Workers, PopJob(w) PROVE LifecycleCoherent'
  <2>1. /\ thread[w] = "pop" /\ thread'[w] = "work" /\ queue[w] # << >>
        /\ \A v \in Workers : v # w => thread'[v] = thread[v] /\ queue'[v] = queue[v]
        /\ UNCHANGED <<running, at, cursor, started, closed, flows, reported>>
    BY <1>10 DEF PopJob, TypeOK, In, clientVars, workerVars
  <2>2. OneInLifecycle'
    BY <2>1, <1>00 DEF OneInLifecycle, In, NobodyStarting, NobodyStopping
  <2>3. ASSUME NEW d \in Clients PROVE ClientCoherent(d)'
    BY <2>1, <1>0, <1>00 DEF OneInLifecycle, ClientCoherent, WorkerCoherent, In, NobodyStarting, NobodyStopping
  <2>4. ASSUME NEW v \in Workers PROVE WorkerCoherent(v)'
    BY <2>1, <1>0, <1>00 DEF OneInLifecycle, ClientCoherent, WorkerCoherent, In, NobodyStarting, NobodyStopping
  <2> QED
    BY <2>2, <2>3, <2>4, <1>0 DEF LifecycleCoherent
<1>11. ASSUME NEW w \in Workers, HandleJob(w) PROVE LifecycleCoherent'
  <2>1. /\ thread[w] = "work" /\ thread'[w] = "pop"
        /\ \A v \in Workers : v # w => thread'[v] = thread[v] /\ flows'[v] = flows[v]
        /\ UNCHANGED <<running, at, cursor, started, queue, closed, reported>>
    BY <1>11 DEF HandleJob, TypeOK, In, clientVars, workerVars
  <2>2. OneInLifecycle'
    BY <2>1, <1>00 DEF OneInLifecycle, In, NobodyStarting, NobodyStopping
  <2>3. ASSUME NEW d \in Clients PROVE ClientCoherent(d)'
    BY <2>1, <1>0, <1>00 DEF OneInLifecycle, ClientCoherent, WorkerCoherent, In, NobodyStarting, NobodyStopping
  <2>4. ASSUME NEW v \in Workers PROVE WorkerCoherent(v)'
    BY <2>1, <1>0, <1>00 DEF OneInLifecycle, ClientCoherent, WorkerCoherent, In, NobodyStarting, NobodyStopping
  <2> QED
    BY <2>2, <2>3, <2>4, <1>0 DEF LifecycleCoherent
<1>12. ASSUME NEW w \in Workers, ExitRun(w) PROVE LifecycleCoherent'
  <2>1. /\ thread[w] = "pop" /\ thread'[w] = "exited" /\ queue[w] = << >> /\ closed[w]
        /\ reported'[w] = flows[w]
        /\ \A v \in Workers : v # w => thread'[v] = thread[v] /\ reported'[v] = reported[v]
        /\ UNCHANGED <<running, at, cursor, started, queue, closed, flows>>
    BY <1>12 DEF ExitRun, TypeOK, In, clientVars, workerVars
  <2>2. OneInLifecycle'
    BY <2>1, <1>00 DEF OneInLifecycle, In, NobodyStarting, NobodyStopping
  <2>3. ASSUME NEW d \in Clients PROVE ClientCoherent(d)'
    BY <2>1, <1>0, <1>00 DEF OneInLifecycle, ClientCoherent, WorkerCoherent, In, NobodyStarting, NobodyStopping
  <2>4. ASSUME NEW v \in Workers PROVE WorkerCoherent(v)'
    BY <2>1, <1>0, <1>00 DEF OneInLifecycle, ClientCoherent, WorkerCoherent, In, NobodyStarting, NobodyStopping
  <2> QED
    BY <2>2, <2>3, <2>4, <1>0 DEF LifecycleCoherent
<1>13. CASE UNCHANGED vars
  BY <1>13, <1>00 DEF vars, clientVars, workerVars, LifecycleCoherent, OneInLifecycle,
     ClientCoherent, WorkerCoherent, In, NobodyStarting, NobodyStopping
<1> QED
  BY <1>1, <1>2, <1>3, <1>4, <1>5, <1>6, <1>7, <1>8, <1>9, <1>10, <1>11, <1>12, <1>13
  DEF Next, ClientStep, WorkerStep

(* The constructed pool is stopped and coherent.                           *)
LEMMA InitLifecycle == Init => LifecycleCoherent
<1> SUFFICES ASSUME Init PROVE LifecycleCoherent
  OBVIOUS
<1>1. /\ ~running
      /\ \A c \in Clients : at[c] = "idle" /\ cursor[c] = 0
      /\ \A w \in Workers : /\ thread[w] = "none" /\ ~started[w] /\ queue[w] = << >>
                            /\ reported[w] = flows[w]
  BY DEF Init
<1> QED
  BY <1>1 DEF LifecycleCoherent, OneInLifecycle, ClientCoherent, WorkerCoherent, In,
     NobodyStarting, NobodyStopping

(* The life cycle of clients and workers stays coherent.                   *)
THEOREM Lifecycle == Spec => []LifecycleCoherent
<1>1. Init => TypeOK /\ LifecycleCoherent
  BY InitTypeOK, InitLifecycle
<1>2. TypeOK /\ LifecycleCoherent /\ [Next]_vars => (TypeOK /\ LifecycleCoherent)'
  BY NextTypeOK, LifecycleStep
<1> QED
  BY <1>1, <1>2, PTL DEF Spec

-----------------------------------------------------------------------------
(* A packet moves along the pipeline: into the queue at its end, from its  *)
(* head into the hand of the worker, and from there to the handled ones.   *)
LEMMA EnterQueue ==
  ASSUME NEW h \in Seq(Packets), NEW i \in Seq(Packets), NEW q \in Seq(Packets),
         NEW p \in Packets
  PROVE  h \o i \o Append(q, p) = Append(h \o i \o q, p)
<1>1. h \o i \in Seq(Packets)
  BY ConcatProperties
<1>2. (h \o i) \o q \in Seq(Packets) /\ <<p>> \in Seq(Packets)
  BY <1>1, ConcatProperties
<1>3. Append(q, p) = q \o <<p>>
  BY AppendIsConcat
<1>4. Append((h \o i) \o q, p) = ((h \o i) \o q) \o <<p>>
  BY <1>2, AppendIsConcat
<1>5. ((h \o i) \o q) \o <<p>> = (h \o i) \o (q \o <<p>>)
  BY <1>1, <1>2, ConcatAssociative
<1> QED
  BY <1>3, <1>4, <1>5

(* A pop moves the head of a queue into the hand of its worker.            *)
LEMMA TakeFromQueue ==
  ASSUME NEW h \in Seq(Packets), NEW q \in Seq(Packets), q # << >>
  PROVE  h \o << >> \o q = h \o <<Head(q)>> \o Tail(q)
<1>1. Head(q) \in Packets /\ Tail(q) \in Seq(Packets) /\ <<Head(q)>> \in Seq(Packets)
  BY HeadTailProperties
<1>2. q = <<Head(q)>> \o Tail(q)
  <2>1. /\ Len(<<Head(q)>> \o Tail(q)) = Len(q)
        /\ <<Head(q)>> \o Tail(q) \in Seq(Packets)
    BY <1>1, ConcatProperties, HeadTailProperties, LenProperties
  <2>2. \A n \in 1 .. Len(q) : q[n] = (<<Head(q)>> \o Tail(q))[n]
    BY <1>1, HeadTailProperties, LenProperties
  <2> QED
    BY <2>1, <2>2, SeqEqual
<1>3. (h \o <<Head(q)>>) \o Tail(q) = h \o (<<Head(q)>> \o Tail(q))
  BY <1>1, ConcatAssociative
<1>4. h \o << >> = h
  BY ConcatEmptySeq
<1> QED
  BY <1>2, <1>3, <1>4

(* Finishing a job moves it from the hand to the history.                  *)
LEMMA FinishInHand ==
  ASSUME NEW h \in Seq(Packets), NEW q \in Seq(Packets), NEW p \in Packets
  PROVE  h \o <<p>> \o q = Append(h, p) \o << >> \o q
<1>1. Append(h, p) = h \o <<p>> /\ Append(h, p) \in Seq(Packets)
  BY AppendIsConcat, AppendProperties
<1>2. Append(h, p) \o << >> = Append(h, p)
  BY <1>1, ConcatEmptySeq
<1> QED
  BY <1>1, <1>2

(* Only three actions move a packet; what is queued, in hand and handled   *)
(* stays the same sequence under each.                                     *)
LEMMA NothingLostStep ==
  TypeOK /\ LifecycleCoherent /\ NothingLostOrReordered /\ [Next]_vars
    => NothingLostOrReordered'
<1> SUFFICES ASSUME TypeOK, LifecycleCoherent, NothingLostOrReordered, [Next]_vars,
                    NEW v \in Workers
             PROVE  (accepted[v] = handled[v] \o InHand(v) \o queue[v])'
  BY DEF NothingLostOrReordered
<1>0. /\ accepted[v] = handled[v] \o InHand(v) \o queue[v]
      /\ handled[v] \in Seq(Packets) /\ queue[v] \in Seq(Packets)
      /\ InHand(v) \in Seq(Packets)
      /\ thread[v] = "work" => job[v] \in Packets
  BY DEF NothingLostOrReordered, TypeOK, InHand
<1>1. ASSUME UNCHANGED <<accepted[v], handled[v], queue[v], job[v]>>,
             thread'[v] = "work" <=> thread[v] = "work"
      PROVE  (accepted[v] = handled[v] \o InHand(v) \o queue[v])'
  BY <1>0, <1>1 DEF InHand
<1>2. ASSUME NEW c \in Clients, StartCall(c) \/ StopCall(c) \/ PushRefused(c) \/ RequestStop(c)
      PROVE  (accepted[v] = handled[v] \o InHand(v) \o queue[v])'
  BY <1>1, <1>2 DEF StartCall, StopCall, PushRefused, RequestStop, clientVars, workerVars
<1>3. ASSUME NEW c \in Clients, NEW p \in Packets, DispatchCall(c, p) \/ DispatchRejected(c, p)
      PROVE  (accepted[v] = handled[v] \o InHand(v) \o queue[v])'
  BY <1>1, <1>3 DEF DispatchCall, DispatchRejected, clientVars, workerVars
<1>4. ASSUME NEW c \in Clients, StartWorker(c)
      PROVE  (accepted[v] = handled[v] \o InHand(v) \o queue[v])'
  <2>1. cursor[c] \in Workers /\ (started[cursor[c]] \/ thread[cursor[c]] = "none")
    BY <1>4 DEF TypeOK, LifecycleCoherent, WorkerCoherent
  <2>2. thread'[v] = "work" <=> thread[v] = "work"
    BY <1>4, <2>1 DEF StartWorker, TypeOK
  <2> QED
    BY <1>1, <1>4, <2>2 DEF StartWorker
<1>5. ASSUME NEW c \in Clients, JoinWorker(c)
      PROVE  (accepted[v] = handled[v] \o InHand(v) \o queue[v])'
  <2>1. thread'[v] = "work" <=> thread[v] = "work"
    BY <1>5 DEF JoinWorker, TypeOK
  <2> QED
    BY <1>1, <1>5, <2>1 DEF JoinWorker
<1>6. ASSUME NEW c \in Clients, PushAccepted(c)
      PROVE  (accepted[v] = handled[v] \o InHand(v) \o queue[v])'
  <2> DEFINE w == TargetWorker(cargo[c])
  <2>1. cargo[c] \in Packets /\ w \in Workers
    BY <1>6, TargetIsWorker DEF PushAccepted, TypeOK, In
  <2>2. /\ queue' = [queue EXCEPT ![w] = Append(@, cargo[c])]
        /\ accepted' = [accepted EXCEPT ![w] = Append(@, cargo[c])]
        /\ UNCHANGED <<handled, job, thread>>
    BY <1>6 DEF PushAccepted, workerVars
  <2> HIDE DEF w
  <2>3. CASE v # w
    BY <1>1, <2>2, <2>3, <2>1 DEF TypeOK
  <2>4. CASE v = w
    <3>1. queue'[v] = Append(queue[v], cargo[c]) /\ accepted'[v] = Append(accepted[v], cargo[c])
      BY <2>1, <2>2, <2>4 DEF TypeOK
    <3>2. handled'[v] = handled[v] /\ InHand(v)' = InHand(v)
      BY <2>2 DEF InHand
    <3>3. handled[v] \o InHand(v) \o Append(queue[v], cargo[c])
            = Append(handled[v] \o InHand(v) \o queue[v], cargo[c])
      BY <1>0, <2>1, EnterQueue
    <3> QED
      BY <3>1, <3>2, <3>3, <1>0
  <2> QED
    BY <2>3, <2>4
<1>7. ASSUME NEW w \in Workers, PopJob(w)
      PROVE  (accepted[v] = handled[v] \o InHand(v) \o queue[v])'
  <2>1. CASE v # w
    BY <1>1, <1>7, <2>1 DEF PopJob, TypeOK
  <2>2. CASE v = w
    <3>1. /\ InHand(v) = << >> /\ InHand(v)' = <<Head(queue[v])>>
          /\ queue[v] # << >> /\ queue'[v] = Tail(queue[v])
          /\ accepted'[v] = accepted[v] /\ handled'[v] = handled[v]
      BY <1>7, <2>2 DEF PopJob, TypeOK, InHand
    <3> QED
      BY <3>1, <1>0, TakeFromQueue
  <2> QED
    BY <2>1, <2>2
<1>8. ASSUME NEW w \in Workers, HandleJob(w)
      PROVE  (accepted[v] = handled[v] \o InHand(v) \o queue[v])'
  <2>1. CASE v # w
    BY <1>1, <1>8, <2>1 DEF HandleJob, TypeOK
  <2>2. CASE v = w
    <3>1. /\ job[v] \in Packets
          /\ InHand(v) = <<job[v]>> /\ InHand(v)' = << >>
          /\ handled'[v] = Append(handled[v], job[v])
          /\ accepted'[v] = accepted[v] /\ queue'[v] = queue[v]
      BY <1>8, <2>2 DEF HandleJob, TypeOK, InHand
    <3>2. handled[v] \o <<job[v]>> \o queue[v]
            = Append(handled[v], job[v]) \o << >> \o queue[v]
      BY <1>0, <3>1, FinishInHand
    <3> QED
      BY <3>1, <3>2, <1>0
  <2> QED
    BY <2>1, <2>2
<1>9. ASSUME NEW w \in Workers, ExitRun(w)
      PROVE  (accepted[v] = handled[v] \o InHand(v) \o queue[v])'
  <2>1. thread'[v] = "work" <=> thread[v] = "work"
    BY <1>9 DEF ExitRun, TypeOK
  <2> QED
    BY <1>1, <1>9, <2>1 DEF ExitRun
<1>10. CASE UNCHANGED vars
  BY <1>1, <1>10 DEF vars, workerVars
<1> QED
  BY <1>2, <1>3, <1>4, <1>5, <1>6, <1>7, <1>8, <1>9, <1>10 DEF Next, ClientStep, WorkerStep

(* No accepted packet is ever lost, duplicated or overtaken, whatever      *)
(* starts, stops and dispatches interleave.                                *)
THEOREM NothingLost == Spec => []NothingLostOrReordered
<1>1. Init => NothingLostOrReordered
  BY DEF Init, NothingLostOrReordered, InHand
<1>2. Spec => []TypeOK /\ []LifecycleCoherent
  BY TypeCorrectness, Lifecycle
<1> QED
  BY <1>1, <1>2, NothingLostStep, PTL DEF Spec

-----------------------------------------------------------------------------
(* A worker counts each packet it has finished with exactly once.          *)
Counted == \A w \in Workers : processed[w] + malformed[w] = Len(handled[w])

(* Every step counts what it finishes, once.                               *)
LEMMA CountedStep == TypeOK /\ Counted /\ [Next]_vars => Counted'
<1> SUFFICES ASSUME TypeOK, Counted, [Next]_vars, NEW v \in Workers
             PROVE  (processed[v] + malformed[v] = Len(handled[v]))'
  BY DEF Counted
<1>1. ASSUME NEW w \in Workers, HandleJob(w)
      PROVE  (processed[v] + malformed[v] = Len(handled[v]))'
  <2>1. CASE v # w
    BY <1>1, <2>1 DEF HandleJob, TypeOK, Counted
  <2>2. CASE v = w
    <3>1. Len(handled'[v]) = Len(handled[v]) + 1
      BY <1>1, <2>2 DEF HandleJob, TypeOK
    <3>2. processed'[v] + malformed'[v] = processed[v] + malformed[v] + 1
      BY <1>1, <2>2 DEF HandleJob, TypeOK
    <3> QED
      BY <3>1, <3>2 DEF Counted
  <2> QED
    BY <2>1, <2>2
<1>2. CASE UNCHANGED <<processed, malformed, handled>>
  BY <1>2 DEF Counted
<1> QED
  BY <1>1, <1>2 DEF Next, ClientStep, WorkerStep, StartCall, StopCall, DispatchCall,
     DispatchRejected, StartWorker, PushAccepted, PushRefused, RequestStop, JoinWorker,
     PopJob, ExitRun, vars, workerVars

(* When stop() has returned nothing is left in the pipeline and the final  *)
(* statistics account for every accepted packet.                           *)
LEMMA DrainedFromInvariants ==
  TypeOK /\ LifecycleCoherent /\ NothingLostOrReordered /\ Counted => DrainedWhenStopped
<1> SUFFICES ASSUME TypeOK, LifecycleCoherent, NothingLostOrReordered, Counted, Stopped,
                    NEW w \in Workers
             PROVE  /\ thread[w] = "none" /\ queue[w] = << >>
                    /\ processed[w] + malformed[w] = Len(accepted[w])
                    /\ reported[w] = flows[w]
  BY DEF DrainedWhenStopped
<1>1. thread[w] = "none" /\ queue[w] = << >> /\ reported[w] = flows[w]
  BY DEF LifecycleCoherent, WorkerCoherent, Stopped
<1>2. handled[w] \in Seq(Packets) /\ accepted[w] = handled[w] \o << >> \o << >>
  BY <1>1 DEF NothingLostOrReordered, InHand, TypeOK
<1>3. accepted[w] = handled[w]
  BY <1>2, ConcatEmptySeq
<1> QED
  BY <1>1, <1>3 DEF Counted

(* stop() leaves nothing behind (worker_pool.cpp:35-44).                   *)
THEOREM Drained == Spec => []DrainedWhenStopped
<1>1. Init => Counted
  BY DEF Init, Counted
<1>2. Spec => []TypeOK /\ []LifecycleCoherent /\ []NothingLostOrReordered
  BY TypeCorrectness, Lifecycle, NothingLost
<1> QED
  BY <1>1, <1>2, CountedStep, DrainedFromInvariants, PTL DEF Spec

-----------------------------------------------------------------------------
(* What a worker has queued, in hand or in its flow table hashes to it.    *)
OnlyOwnFlows(w) ==
  /\ \A n \in 1 .. Len(queue[w]) : TargetWorker(queue[w][n]) = w
  /\ thread[w] = "work" => TargetWorker(job[w]) = w
  /\ \A k \in flows[w] : Hash[k] % NumWorkers = w

RoutedHome == \A w \in Workers : OnlyOwnFlows(w)

(* Every step keeps the packets of a flow with its worker.                 *)
LEMMA RoutedHomeStep ==
  TypeOK /\ LifecycleCoherent /\ RoutedHome /\ [Next]_vars => RoutedHome'
<1> SUFFICES ASSUME TypeOK, LifecycleCoherent, RoutedHome, [Next]_vars, NEW v \in Workers
             PROVE  OnlyOwnFlows(v)'
  BY DEF RoutedHome
<1>0. OnlyOwnFlows(v)
  BY DEF RoutedHome
<1>1. ASSUME UNCHANGED <<queue[v], job[v], flows[v]>>, thread'[v] = "work" => thread[v] = "work"
      PROVE  OnlyOwnFlows(v)'
  BY <1>0, <1>1 DEF OnlyOwnFlows
<1>2. ASSUME NEW c \in Clients, StartCall(c) \/ StopCall(c) \/ PushRefused(c) \/ RequestStop(c)
      PROVE  OnlyOwnFlows(v)'
  BY <1>1, <1>2 DEF StartCall, StopCall, PushRefused, RequestStop, clientVars, workerVars
<1>3. ASSUME NEW c \in Clients, NEW p \in Packets, DispatchCall(c, p) \/ DispatchRejected(c, p)
      PROVE  OnlyOwnFlows(v)'
  BY <1>1, <1>3 DEF DispatchCall, DispatchRejected, clientVars, workerVars
<1>4. ASSUME NEW c \in Clients, StartWorker(c) PROVE OnlyOwnFlows(v)'
  <2>1. thread'[v] = "work" => thread[v] = "work"
    BY <1>4 DEF StartWorker, TypeOK
  <2> QED
    BY <1>1, <1>4, <2>1 DEF StartWorker
<1>5. ASSUME NEW c \in Clients, JoinWorker(c) PROVE OnlyOwnFlows(v)'
  <2>1. thread'[v] = "work" => thread[v] = "work"
    BY <1>5 DEF JoinWorker, TypeOK
  <2> QED
    BY <1>1, <1>5, <2>1 DEF JoinWorker
<1>6. ASSUME NEW c \in Clients, PushAccepted(c) PROVE OnlyOwnFlows(v)'
  <2> DEFINE w == TargetWorker(cargo[c])
  <2>1. cargo[c] \in Packets /\ w \in Workers
    BY <1>6, TargetIsWorker DEF PushAccepted, TypeOK, In
  <2>2. queue' = [queue EXCEPT ![w] = Append(@, cargo[c])] /\ UNCHANGED <<job, thread, flows>>
    BY <1>6 DEF PushAccepted, workerVars
  <2>3. CASE v # w
    BY <1>1, <2>1, <2>2, <2>3 DEF TypeOK
  <2>4. CASE v = w
    <3>1. queue[v] \in Seq(Packets) /\ queue'[v] = Append(queue[v], cargo[c])
      BY <2>1, <2>2, <2>4 DEF TypeOK
    <3>2. \A n \in 1 .. Len(queue'[v]) : TargetWorker(queue'[v][n]) = v
      <4> HIDE DEF w
      <4>1. TargetWorker(cargo[c]) = v
        BY <2>4 DEF w
      <4>2. ASSUME NEW n \in 1 .. Len(queue'[v])
            PROVE  queue'[v][n] = cargo[c] \/ (n \in 1 .. Len(queue[v]) /\ queue'[v][n] = queue[v][n])
        BY <3>1, <2>1
      <4> QED
        BY <4>1, <4>2, <1>0 DEF OnlyOwnFlows
    <3> QED
      BY <3>2, <2>2, <1>0 DEF OnlyOwnFlows
  <2> QED
    BY <2>3, <2>4
<1>7. ASSUME NEW w \in Workers, PopJob(w) PROVE OnlyOwnFlows(v)'
  <2>1. CASE v # w
    BY <1>1, <1>7, <2>1 DEF PopJob, TypeOK
  <2>2. CASE v = w
    <3>1. /\ queue[v] \in Seq(Packets) /\ queue[v] # << >>
          /\ queue'[v] = Tail(queue[v]) /\ job'[v] = queue[v][1] /\ flows'[v] = flows[v]
      BY <1>7, <2>2 DEF PopJob, TypeOK
    <3>2. /\ 1 \in 1 .. Len(queue[v])
          /\ \A n \in 1 .. Len(queue'[v]) :
               n + 1 \in 1 .. Len(queue[v]) /\ queue'[v][n] = queue[v][n + 1]
      BY <3>1
    <3> QED
      BY <3>1, <3>2, <1>0 DEF OnlyOwnFlows
  <2> QED
    BY <2>1, <2>2
<1>8. ASSUME NEW w \in Workers, HandleJob(w) PROVE OnlyOwnFlows(v)'
  <2>1. CASE v # w
    BY <1>1, <1>8, <2>1 DEF HandleJob, TypeOK
  <2>2. CASE v = w
    <3>1. TargetWorker(job[v]) = v /\ queue'[v] = queue[v] /\ thread'[v] = "pop"
      BY <1>0, <1>8, <2>2 DEF HandleJob, TypeOK, OnlyOwnFlows
    <3>2. \A k \in flows'[v] : Hash[k] % NumWorkers = v
      <4>1. CASE job[v] \notin Tracked
        BY <4>1, <1>0, <1>8, <2>2 DEF HandleJob, OnlyOwnFlows
      <4>2. CASE job[v] \in Tracked
        <5>1. KeyOf[job[v]] \in Keys /\ KeyOf[job[v]] # NoKey
          BY <4>2, PoolAssumption
        <5>2. flows'[v] = flows[v] \cup {KeyOf[job[v]]}
          BY <4>2, <1>8, <2>2 DEF HandleJob, TypeOK
        <5> QED
          BY <5>1, <5>2, <3>1, <1>0 DEF OnlyOwnFlows, TargetWorker
      <4> QED
        BY <4>1, <4>2
    <3> QED
      BY <3>1, <3>2, <1>0 DEF OnlyOwnFlows
  <2> QED
    BY <2>1, <2>2
<1>9. ASSUME NEW w \in Workers, ExitRun(w) PROVE OnlyOwnFlows(v)'
  <2>1. thread'[v] = "work" => thread[v] = "work"
    BY <1>9 DEF ExitRun, TypeOK
  <2> QED
    BY <1>1, <1>9, <2>1 DEF ExitRun
<1>10. CASE UNCHANGED vars
  BY <1>1, <1>10 DEF vars, workerVars
<1> QED
  BY <1>2, <1>3, <1>4, <1>5, <1>6, <1>7, <1>8, <1>9, <1>10 DEF Next, ClientStep, WorkerStep

(* No flow is ever tracked by two workers.                                 *)
THEOREM Pinned == Spec => []FlowsPinned
<1>1. Init => RoutedHome
  BY DEF Init, RoutedHome, OnlyOwnFlows
<1>2. RoutedHome => FlowsPinned
  BY DEF RoutedHome, OnlyOwnFlows, FlowsPinned
<1>3. Spec => []TypeOK /\ []LifecycleCoherent
  BY TypeCorrectness, Lifecycle
<1> QED
  BY <1>1, <1>2, <1>3, RoutedHomeStep, PTL DEF Spec

-----------------------------------------------------------------------------
(* What the queue of worker w sees of the threads that use it.             *)
Offered(w) == [c \in Clients |-> IF at[c] = "pushing" /\ TargetWorker(cargo[c]) = w
                                 THEN cargo[c] ELSE NoPacket]
Requested(w) == [x \in {w} |-> thread[x] = "pop"]
Received(w) == [x \in {w} |-> job[x]]

QueueUnchanged(w) ==
  UNCHANGED <<queue[w], closed[w], Offered(w), Requested(w), Received(w)>>

(* A client that is not pushing to w, before or after, offers w nothing.   *)
LEMMA OffersKept ==
  ASSUME TypeOK, NEW w \in Workers, NEW c \in Clients, NEW x, NEW y,
         at[c] = "pushing" => TargetWorker(cargo[c]) # w,
         x # "pushing" \/ TargetWorker(y) # w,
         at' = [at EXCEPT ![c] = x], cargo' = [cargo EXCEPT ![c] = y]
  PROVE  Offered(w)' = Offered(w)
<1>1. ASSUME NEW d \in Clients
      PROVE  Offered(w)'[d] = Offered(w)[d]
  <2>1. CASE d = c
    BY <2>1 DEF Offered, TypeOK
  <2>2. CASE d # c
    BY <2>2 DEF Offered, TypeOK
  <2> QED
    BY <2>1, <2>2
<1>2. QED
  BY <1>1 DEF Offered

(* The end of a push takes the client's offer away and no other.           *)
LEMMA OfferWithdrawn ==
  ASSUME TypeOK, NEW w \in Workers, NEW c \in Clients,
         at[c] = "pushing", w = TargetWorker(cargo[c]),
         at' = [at EXCEPT ![c] = "idle"], cargo' = [cargo EXCEPT ![c] = NoPacket]
  PROVE  /\ Offered(w)[c] = cargo[c] /\ cargo[c] # NoPacket
         /\ Offered(w)' = [Offered(w) EXCEPT ![c] = NoPacket]
<1>1. cargo[c] \in Packets
  BY DEF TypeOK, In
<1>2. Offered(w)[c] = cargo[c] /\ cargo[c] # NoPacket
  BY <1>1, PoolAssumption DEF Offered
<1>3. ASSUME NEW d \in Clients
      PROVE  Offered(w)'[d] = [Offered(w) EXCEPT ![c] = NoPacket][d]
  <2>1. CASE d = c
    BY <2>1 DEF Offered, TypeOK
  <2>2. CASE d # c
    BY <2>2 DEF Offered, TypeOK
  <2> QED
    BY <2>1, <2>2
<1>4. Offered(w)' = [Offered(w) EXCEPT ![c] = NoPacket]
  BY <1>3 DEF Offered
<1> QED
  BY <1>2, <1>4

(* A step of the threads that leaves w's queue alone stutters there.       *)
LEMMA QueueStutter ==
  ASSUME NEW w \in Workers, QueueUnchanged(w)
  PROVE  [Queue(w)!FifoNext]_(Queue(w)!fifoVars)
  BY DEF QueueUnchanged, Offered, Requested, Received, Queue!fifoVars

(* Every step of the pool is, for every worker's queue, a step of the      *)
(* closable FIFO or no step at all.                                        *)
LEMMA QueueStep ==
  ASSUME TypeOK, LifecycleCoherent, [Next]_vars, NEW w \in Workers
  PROVE  [Queue(w)!FifoNext]_(Queue(w)!fifoVars)
<1> USE DEF QueueUnchanged, Requested, Received
<1>1. ASSUME NEW c \in Clients, StartCall(c) \/ StopCall(c)
      PROVE  QueueUnchanged(w)
  <2>1. PICK x \in {"starting", "requesting"} :
          at[c] = "idle" /\ at' = [at EXCEPT ![c] = x] /\ UNCHANGED cargo
    BY <1>1 DEF StartCall, StopCall, In, clientVars
  <2>2. cargo' = [cargo EXCEPT ![c] = cargo[c]]
    BY <2>1 DEF TypeOK
  <2>3. Offered(w)' = Offered(w)
    BY <2>1, <2>2, OffersKept
  <2> QED
    BY <1>1, <2>3 DEF StartCall, StopCall, workerVars
<1>2. ASSUME NEW c \in Clients, NEW p \in Packets, DispatchCall(c, p)
      PROVE  [Queue(w)!FifoNext]_(Queue(w)!fifoVars)
  <2>1. UNCHANGED <<queue[w], closed[w], Requested(w), Received(w)>>
    BY <1>2 DEF DispatchCall, workerVars
  <2>2. CASE TargetWorker(p) # w
    <3>1. Offered(w)' = Offered(w)
      BY <1>2, <2>2, OffersKept DEF DispatchCall, In
    <3> QED
      BY <2>1, <3>1, QueueStutter
  <2>3. CASE TargetWorker(p) = w
    <3>1. Offered(w)[c] = NoPacket
      BY <1>2 DEF DispatchCall, In, Offered
    <3>2. Offered(w)' = [Offered(w) EXCEPT ![c] = p]
      <4>1. ASSUME NEW d \in Clients
            PROVE  Offered(w)'[d] = [Offered(w) EXCEPT ![c] = p][d]
        <5>1. CASE d = c
          BY <5>1, <1>2, <2>3 DEF DispatchCall, Offered, TypeOK
        <5>2. CASE d # c
          BY <5>2, <1>2 DEF DispatchCall, Offered, TypeOK
        <5> QED
          BY <5>1, <5>2
      <4> QED
        BY <4>1 DEF Offered
    <3>3. Queue(w)!Offer(c, p)
      BY <2>1, <3>1, <3>2 DEF Queue!Offer, Offered
    <3> QED
      BY <3>3 DEF Queue!FifoNext
  <2> QED
    BY <2>2, <2>3
<1>3. ASSUME NEW c \in Clients, NEW p \in Packets, DispatchRejected(c, p)
      PROVE  QueueUnchanged(w)
  BY <1>3 DEF DispatchRejected, clientVars, workerVars, Offered
<1>4. ASSUME NEW c \in Clients, StartWorker(c)
      PROVE  [Queue(w)!FifoNext]_(Queue(w)!fifoVars)
  <2>1. /\ at[c] = "starting" /\ UNCHANGED <<queue, closed, job, cargo>>
        /\ at' = [at EXCEPT ![c] = "idle"] \/ UNCHANGED at
    BY <1>4 DEF StartWorker, In
  <2>2. Offered(w)' = Offered(w)
    BY <2>1 DEF Offered, TypeOK
  <2>3. CASE thread'[w] = thread[w]
    BY <2>1, <2>2, <2>3, QueueStutter
  <2>4. CASE thread'[w] # thread[w]
    <3>1. w = cursor[c] /\ ~started[w] /\ thread'[w] = "pop"
      BY <1>4, <2>4 DEF StartWorker, TypeOK
    <3>2. thread[w] = "none"
      BY <3>1 DEF LifecycleCoherent, WorkerCoherent
    <3>3. Queue(w)!Request(w)
      BY <2>1, <2>2, <3>1, <3>2 DEF Queue!Request, Offered
    <3> QED
      BY <3>3 DEF Queue!FifoNext
  <2> QED
    BY <2>3, <2>4
<1>5. ASSUME NEW c \in Clients, PushAccepted(c)
      PROVE  [Queue(w)!FifoNext]_(Queue(w)!fifoVars)
  <2>1. /\ at[c] = "pushing" /\ UNCHANGED <<closed, job, thread>>
        /\ at' = [at EXCEPT ![c] = "idle"] /\ cargo' = [cargo EXCEPT ![c] = NoPacket]
        /\ TargetWorker(cargo[c]) \in Workers
    BY <1>5, TargetIsWorker DEF PushAccepted, In, workerVars, TypeOK
  <2>2. CASE TargetWorker(cargo[c]) # w
    <3>1. Offered(w)' = Offered(w)
      BY <2>1, <2>2, OffersKept
    <3>2. queue'[w] = queue[w]
      BY <1>5, <2>2 DEF PushAccepted, TypeOK
    <3> QED
      BY <2>1, <3>1, <3>2, QueueStutter
  <2>3. CASE TargetWorker(cargo[c]) = w
    <3>1. /\ Offered(w)[c] = cargo[c] /\ cargo[c] # NoPacket
          /\ Offered(w)' = [Offered(w) EXCEPT ![c] = NoPacket]
      BY <2>1, <2>3, OfferWithdrawn
    <3>2. /\ ~closed[w] /\ Len(queue[w]) < Capacity
          /\ queue'[w] = Append(queue[w], cargo[c])
      BY <1>5, <2>3 DEF PushAccepted, TypeOK
    <3>3. Queue(w)!Accept(c)
      BY <2>1, <3>1, <3>2 DEF Queue!Accept, Offered
    <3> QED
      BY <3>3 DEF Queue!FifoNext
  <2> QED
    BY <2>2, <2>3
<1>6. ASSUME NEW c \in Clients, PushRefused(c)
      PROVE  [Queue(w)!FifoNext]_(Queue(w)!fifoVars)
  <2>1. /\ at[c] = "pushing" /\ UNCHANGED <<queue, closed, job, thread>>
        /\ at' = [at EXCEPT ![c] = "idle"] /\ cargo' = [cargo EXCEPT ![c] = NoPacket]
        /\ closed[TargetWorker(cargo[c])]
    BY <1>6 DEF PushRefused, In, workerVars
  <2>2. CASE TargetWorker(cargo[c]) # w
    <3>1. Offered(w)' = Offered(w)
      BY <2>1, <2>2, OffersKept
    <3> QED
      BY <2>1, <3>1, QueueStutter
  <2>3. CASE TargetWorker(cargo[c]) = w
    <3>1. /\ Offered(w)[c] = cargo[c] /\ cargo[c] # NoPacket
          /\ Offered(w)' = [Offered(w) EXCEPT ![c] = NoPacket]
      BY <2>1, <2>3, OfferWithdrawn
    <3>2. Queue(w)!Refuse(c)
      BY <2>1, <2>3, <3>1 DEF Queue!Refuse, Offered
    <3> QED
      BY <3>2 DEF Queue!FifoNext
  <2> QED
    BY <2>2, <2>3
<1>7. ASSUME NEW c \in Clients, RequestStop(c)
      PROVE  [Queue(w)!FifoNext]_(Queue(w)!fifoVars)
  <2>1. /\ at[c] = "requesting" /\ UNCHANGED <<queue, job, thread, cargo>>
        /\ at' = [at EXCEPT ![c] = "joining"] \/ UNCHANGED at
        /\ closed' = [closed EXCEPT ![cursor[c]] = TRUE]
    BY <1>7 DEF RequestStop, In, workerVars
  <2>2. Offered(w)' = Offered(w)
    BY <2>1 DEF Offered, TypeOK
  <2>3. CASE closed'[w] = closed[w]
    BY <2>1, <2>2, <2>3, QueueStutter
  <2>4. CASE closed'[w] = TRUE
    <3>1. Queue(w)!Close
      BY <2>1, <2>2, <2>4 DEF Queue!Close, Offered
    <3> QED
      BY <3>1 DEF Queue!FifoNext
  <2> QED
    BY <2>1, <2>3, <2>4 DEF TypeOK
<1>8. ASSUME NEW c \in Clients, JoinWorker(c)
      PROVE  QueueUnchanged(w)
  <2>1. /\ at[c] = "joining" /\ UNCHANGED <<queue, closed, job, cargo>>
        /\ at' = [at EXCEPT ![c] = "idle"] \/ UNCHANGED at
        /\ thread[cursor[c]] # "pop" /\ thread' = [thread EXCEPT ![cursor[c]] = "none"]
    BY <1>8 DEF JoinWorker, In
  <2>2. Offered(w)' = Offered(w)
    BY <2>1 DEF Offered, TypeOK
  <2> QED
    BY <2>1, <2>2 DEF TypeOK
<1>9. ASSUME NEW v \in Workers, WorkerStep(v), v # w
      PROVE  QueueUnchanged(w)
  BY <1>9, SMTT(30) DEF WorkerStep, PopJob, HandleJob, ExitRun, TypeOK, clientVars, Offered
<1>10. ASSUME PopJob(w)
       PROVE  Queue(w)!Deliver(w)
  BY <1>10 DEF PopJob, Queue!Deliver, TypeOK, clientVars
<1>11. ASSUME HandleJob(w)
       PROVE  Queue(w)!Request(w)
  BY <1>11 DEF HandleJob, Queue!Request, TypeOK, clientVars
<1>12. ASSUME ExitRun(w)
       PROVE  Queue(w)!Finish(w)
  BY <1>12 DEF ExitRun, Queue!Finish, TypeOK, clientVars
<1>13. ASSUME WorkerStep(w)
       PROVE  Queue(w)!FifoNext
  BY <1>10, <1>11, <1>12, <1>13 DEF WorkerStep, Queue!FifoNext
<1>14. ASSUME UNCHANGED vars
       PROVE  QueueUnchanged(w)
  BY <1>14 DEF vars, clientVars, workerVars, Offered
<1> HIDE DEF QueueUnchanged, Requested, Received
<1> QED
  BY <1>1, <1>2, <1>3, <1>4, <1>5, <1>6, <1>7, <1>8, <1>9, <1>13, <1>14, QueueStutter
     DEF Next, ClientStep

(* The pool uses each of its queues as the FIFO that BoundedQueue          *)
(* implements: no thread pushes, pops or closes behind the queue's back,   *)
(* so what is proved of the queue holds for every queue of the pool.       *)
THEOREM QueuesAreFifos == Spec => QueuesUsedAsFifos
<1>1. ASSUME Init, NEW w \in Workers
      PROVE  Queue(w)!FifoInit
  <2>1. queue[w] = << >> /\ closed[w] = FALSE
    BY <1>1 DEF Init
  <2>2. Offered(w) = [c \in Clients |-> NoPacket]
    BY <1>1 DEF Init, Offered
  <2>3. Requested(w) = [x \in {w} |-> FALSE]
    BY <1>1 DEF Init, Requested
  <2>4. Received(w) = [x \in {w} |-> NoPacket]
    BY <1>1 DEF Init, Received
  <2> QED
    BY <2>1, <2>2, <2>3, <2>4 DEF Queue!FifoInit, Offered, Requested, Received
<1>2. TypeOK /\ LifecycleCoherent /\ [Next]_vars =>
        [\A w \in Workers : [Queue(w)!FifoNext]_(Queue(w)!fifoVars)]_vars
  BY QueueStep
<1>3. Spec => []TypeOK /\ []LifecycleCoherent
  BY TypeCorrectness, Lifecycle
<1>4. Init => \A w \in Workers : Queue(w)!FifoInit
  BY <1>1
<1> QED
  BY <1>2, <1>3, <1>4, PTL DEF Spec, QueuesUsedAsFifos
=============================================================================
