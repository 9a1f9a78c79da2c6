-------------------------- MODULE Telemetry_proofs --------------------------
(***************************************************************************)
(* Proof that snapshots are complete, for every number of workers, packets *)
(* and flows and every max_flows.                                          *)
(*                                                                         *)
(* What a snapshot has summed up so far lies between what the workers had  *)
(* counted when it was begun, less what it still has to read, and what     *)
(* those it has read have counted by now (Bracket), because counters only  *)
(* grow.  The one that is marked final is captured from workers that have  *)
(* come to rest (Settled): both bounds are the same, and at rest the       *)
(* counters account for all packets and for the table (Accounts).          *)
(***************************************************************************)
EXTENDS Telemetry, FoldLemmas

Loaded == Counters \cup {"table"}
Places == {"pop", "new", "known", "malformed", "flow"}
Counts == [Counters -> Nat]
Snapshots ==
  [final : BOOLEAN, packets : Nat, flows : Nat, malformed : Nat, listed : Nat]

InCount(w) == IF at[w] \in {"new", "known", "malformed"} THEN 1 ELSE 0
InTable(w) == IF at[w] \in {"new", "flow"} THEN 1 ELSE 0

(* The state is well typed.                                                *)
TypeOK ==
  /\ load \in [Workers -> Nat] /\ todo \in [Workers -> Nat]
  /\ at \in [Workers -> Places]
  /\ table \in [Workers -> Nat]
  /\ stats \in [Workers -> Counts]
  /\ phase \in {"running", "stopped", "exited", "killed"}
  /\ loads \in Seq(Workers \X Loaded)
  /\ begun \in Counts /\ snap \in Snapshots

(* Each packet is waiting, being counted or counted, each flow is in the   *)
(* table before it is counted.                                             *)
Accounts ==
  \A w \in Workers :
    /\ stats[w]["flows"] + InTable(w) = table[w]
    /\ stats[w]["packets"] + stats[w]["malformed"] + InCount(w) + todo[w] = load[w]

(* The workers are at rest from the stop on.                               *)
Settled ==
  /\ phase \in {"stopped", "exited"} => Drained
  /\ snap.final => Drained /\ phase # "running"

Left(what) == {w \in Workers : \E i \in DOMAIN loads : loads[i] = <<w, what>>}

ReadOnce == \A i, j \in DOMAIN loads : i # j => loads[i] # loads[j]

Least(m, n) == IF m <= n THEN m ELSE n

(* What a snapshot has read of a counter, and what it has left.            *)
Bracket(what) ==
  /\ begun[what] <= snap[what] + SumOver(Counted(what), Left(what))
  /\ snap[what] <= SumOver(Counted(what), Workers \ Left(what))

(* The last one is read from counters that stand still.                    *)
FinalSums ==
  snap.final =>
    /\ \A what \in Counters : begun[what] = SumOver(Counted(what), Workers)
    /\ snap.listed = Least(MaxFlows, SumOver(table, Workers \ Left("table")))

Sums ==
  /\ \A what \in Counters : Bracket(what)
  /\ snap.listed <= MaxFlows
  /\ FinalSums

SnapshotInv == TypeOK /\ Accounts /\ Settled /\ ReadOnce /\ Sums

-----------------------------------------------------------------------------
(* The smaller of two numbers.                                             *)
LEMMA MinIsLeast ==
  ASSUME NEW m \in Nat, NEW n \in Nat
  PROVE  Min({m, n}) = Least(m, n)
<1> DEFINE IsMin(x) == x \in {m, n} /\ \A y \in {m, n} : x <= y
<1>1. IsMin(Least(m, n))
  BY DEF Least
<1>2. \A x : IsMin(x) => x = Least(m, n)
  BY DEF Least
<1>3. Min({m, n}) = CHOOSE x : IsMin(x)
  BY DEF Min
<1> QED
  BY <1>1, <1>2, <1>3

(* The workers, in the order capture_snapshot visits them.                 *)
LEMMA WorkerOrder ==
  LET ws == SetToSeq(Workers) IN
  /\ ws \in Seq(Workers)
  /\ \A i, j \in 1 .. Len(ws) : ws[i] = ws[j] => i = j
  /\ \A w \in Workers : \E i \in 1 .. Len(ws) : ws[i] = w
<1> DEFINE n == Cardinality(Workers)
           Enumerates(f) == f \in [1 .. n -> Workers] /\ IsInjective(f)
           ws == SetToSeq(Workers)
<1>1. n \in Nat /\ ExistsBijection(1 .. n, Workers)
  BY TelemetryAssumption, FS_CardinalityType
<1>2. \E f : Enumerates(f)
  BY <1>1 DEF ExistsBijection, Bijection, Injection
<1>3. ws = CHOOSE f : Enumerates(f)
  BY DEF SetToSeq
<1>4. Enumerates(ws)
  <2> HIDE DEF Enumerates, ws
  <2> QED
    BY <1>2, <1>3
<1> HIDE DEF ws
<1>5. ws \in Seq(Workers) /\ Len(ws) = n
  BY <1>1, <1>4
<1>6. \A i, j \in 1 .. n : ws[i] = ws[j] => i = j
  BY <1>4 DEF IsInjective
<1>7. \A w \in Workers : \E i \in 1 .. n : ws[i] = w
  <2>1. IsFiniteSet(1 .. n) /\ Cardinality(1 .. n) = n
    BY <1>1, FS_Interval
  <2>2. ws \in Injection(1 .. n, Workers)
    BY <1>4 DEF Injection
  <2>3. ws \in Surjection(1 .. n, Workers)
    BY <2>1, <2>2, TelemetryAssumption, FS_Injection
  <2> QED
    BY <2>3 DEF Surjection
<1> QED
  BY <1>5, <1>6, <1>7 DEF ws

(* A snapshot reads each counter and the table of each worker once.        *)
LEMMA AllLoadsOnce ==
  /\ AllLoads \in Seq(Workers \X Loaded)
  /\ \A i, j \in DOMAIN AllLoads : i # j => AllLoads[i] # AllLoads[j]
  /\ \A w \in Workers, what \in Loaded :
       \E i \in DOMAIN AllLoads : AllLoads[i] = <<w, what>>
<1> DEFINE ws == SetToSeq(Workers)
           n == Len(ws)
           name(i) == CASE i % 3 = 1 -> "packets" [] i % 3 = 2 -> "flows"
                        [] i % 3 = 0 -> "malformed"
           who(i) == IF i > 3 * n THEN i - 3 * n ELSE (i + 2) \div 3
           what(i) == IF i > 3 * n THEN "table" ELSE name(i)
           all == [i \in 1 .. 4 * n |->
                     IF i > 3 * n THEN <<ws[i - 3 * n], "table">>
                     ELSE <<ws[(i + 2) \div 3],
                            CASE i % 3 = 1 -> "packets" [] i % 3 = 2 -> "flows"
                              [] i % 3 = 0 -> "malformed">>]
<1>1. /\ ws \in Seq(Workers)
      /\ \A i, j \in 1 .. n : ws[i] = ws[j] => i = j
      /\ \A w \in Workers : \E i \in 1 .. n : ws[i] = w
  BY WorkerOrder
<1>2. AllLoads = all
  BY DEF AllLoads
<1> HIDE DEF ws
<1>3. n \in Nat /\ \A i \in 1 .. n : ws[i] \in Workers
  BY <1>1
<1> HIDE DEF n
<1>4. \A i \in 1 .. 4 * n : i \in Int /\ i % 3 \in {0, 1, 2} /\ who(i) \in 1 .. n
  BY <1>3
<1>5. \A i \in 1 .. 4 * n : what(i) \in Loaded /\ (what(i) = "table" <=> i > 3 * n)
  BY <1>4 DEF Loaded, Counters
<1>6. DOMAIN all = 1 .. 4 * n /\ \A i \in 1 .. 4 * n : all[i] = <<ws[who(i)], what(i)>>
  OBVIOUS
<1>7. \A i, j \in 1 .. 4 * n : who(i) = who(j) /\ what(i) = what(j) => i = j
  <2> SUFFICES ASSUME NEW i \in 1 .. 4 * n, NEW j \in 1 .. 4 * n,
                      who(i) = who(j), what(i) = what(j)
               PROVE  i = j
    OBVIOUS
  <2>1. i > 3 * n <=> j > 3 * n
    BY <1>5
  <2>2. CASE i > 3 * n
    BY <1>3, <2>1, <2>2
  <2>3. CASE ~(i > 3 * n)
    <3>1. (i + 2) \div 3 = (j + 2) \div 3
      BY <2>1, <2>3
    <3>2. i % 3 = j % 3
      <4>1. name(i) = name(j)
        BY <2>1, <2>3
      <4> QED
        BY <1>4, <4>1
    <3> QED
      BY <1>3, <3>1, <3>2
  <2> QED
    BY <2>2, <2>3
<1>8. ASSUME NEW w \in Workers, NEW which \in Loaded
      PROVE  \E i \in 1 .. 4 * n : all[i] = <<w, which>>
  <2>1. PICK k \in 1 .. n : ws[k] = w
    BY <1>1 DEF n
  <2>2. ASSUME NEW i \in 1 .. 4 * n, who(i) = k, what(i) = which
        PROVE  \E j \in 1 .. 4 * n : all[j] = <<w, which>>
    BY <1>6, <2>1, <2>2
  <2>3. k \in Int /\ 1 <= k /\ k <= n
    BY <1>3
  <2>4. CASE which = "packets"
    <3>1. ((3 * k - 2) % 3) = 1 /\ ((3 * k - 2) + 2) \div 3 = k /\ ~(3 * k - 2 > 3 * n)
      BY <1>3, <2>3
    <3>2. who(3 * k - 2) = k /\ what(3 * k - 2) = "packets" /\ 3 * k - 2 \in 1 .. 4 * n
      BY <1>3, <2>3, <3>1
    <3> QED
      BY <2>2, <2>4, <3>2
  <2>5. CASE which = "flows"
    <3>1. ((3 * k - 1) % 3) = 2 /\ ((3 * k - 1) + 2) \div 3 = k /\ ~(3 * k - 1 > 3 * n)
      BY <1>3, <2>3
    <3>2. who(3 * k - 1) = k /\ what(3 * k - 1) = "flows" /\ 3 * k - 1 \in 1 .. 4 * n
      BY <1>3, <2>3, <3>1
    <3> QED
      BY <2>2, <2>5, <3>2
  <2>6. CASE which = "malformed"
    <3>1. ((3 * k) % 3) = 0 /\ (3 * k + 2) \div 3 = k /\ ~(3 * k > 3 * n)
      BY <1>3, <2>3
    <3>2. who(3 * k) = k /\ what(3 * k) = "malformed" /\ 3 * k \in 1 .. 4 * n
      BY <1>3, <2>3, <3>1
    <3> QED
      BY <2>2, <2>6, <3>2
  <2>7. CASE which = "table"
    <3>1. 3 * n + k > 3 * n /\ (3 * n + k) - 3 * n = k
      BY <1>3, <2>3
    <3>2. who(3 * n + k) = k /\ what(3 * n + k) = "table" /\ 3 * n + k \in 1 .. 4 * n
      BY <1>3, <2>3, <3>1
    <3> QED
      BY <2>2, <2>7, <3>2
  <2> QED
    BY <2>4, <2>5, <2>6, <2>7 DEF Loaded, Counters
<1> HIDE DEF who, what, all
<1>9. all \in Seq(Workers \X Loaded)
  <2>1. ASSUME NEW i \in 1 .. 4 * n
        PROVE  all[i] \in Workers \X Loaded
    <3>1. who(i) \in 1 .. n /\ what(i) \in Loaded
      BY <1>4, <1>5
    <3>2. all[i] = <<ws[who(i)], what(i)>>
      BY <1>6
    <3>3. ws[who(i)] \in Workers
      BY <1>3, <3>1
    <3> QED
      BY <3>1, <3>2, <3>3
  <2>2. all \in [1 .. 4 * n -> Workers \X Loaded]
    BY <2>1 DEF all
  <2>3. 4 * n \in Nat
    BY <1>3
  <2> DEFINE m == 4 * n
             X == Workers \X Loaded
  <2>4. all \in [1 .. m -> X] /\ m \in Nat
    BY <2>2, <2>3
  <2> HIDE DEF m, X
  <2>5. all \in Seq(X)
    BY <2>4
  <2> QED
    BY <2>5 DEF X
<1>10. ASSUME NEW i \in 1 .. 4 * n, NEW j \in 1 .. 4 * n, all[i] = all[j]
       PROVE  i = j
  BY <1>1, <1>4, <1>6, <1>7, <1>10
<1> QED
  BY <1>2, <1>6, <1>8, <1>9, <1>10

(* The counters as functions, whose sums are numbers.                      *)
LEMMA CountersTyped ==
  TypeOK => /\ \A what \in Counters : \A w \in Workers : Counted(what)[w] \in Nat
            /\ \A w \in Workers : table[w] \in Nat
            /\ \A T \in SUBSET Workers : IsFiniteSet(T)
            /\ \A T \in SUBSET Workers : SumOver(table, T) \in Nat
            /\ \A what \in Counters : \A T \in SUBSET Workers :
                 SumOver(Counted(what), T) \in Nat
<1> SUFFICES ASSUME TypeOK
             PROVE  /\ \A what \in Counters : \A w \in Workers : Counted(what)[w] \in Nat
                    /\ \A w \in Workers : table[w] \in Nat
                    /\ \A T \in SUBSET Workers : IsFiniteSet(T)
                    /\ \A T \in SUBSET Workers : SumOver(table, T) \in Nat
                    /\ \A what \in Counters : \A T \in SUBSET Workers :
                         SumOver(Counted(what), T) \in Nat
  OBVIOUS
<1>1. \A what \in Counters : \A w \in Workers : Counted(what)[w] \in Nat
  BY DEF TypeOK, Counted, Counts
<1>2. \A w \in Workers : table[w] \in Nat
  BY DEF TypeOK
<1>3. \A T \in SUBSET Workers : IsFiniteSet(T)
  BY TelemetryAssumption, FS_Subset
<1>4. ASSUME NEW T \in SUBSET Workers
      PROVE  SumOver(table, T) \in Nat
  BY <1>2, <1>3, SumOverSet
<1>5. ASSUME NEW what \in Counters, NEW T \in SUBSET Workers
      PROVE  SumOver(Counted(what), T) \in Nat
  <2>1. \A w \in T : Counted(what)[w] \in Nat
    BY <1>1
  <2> HIDE DEF Counted
  <2> QED
    BY <1>3, <2>1, SumOverSet
<1> QED
  BY <1>1, <1>2, <1>3, <1>4, <1>5

(* A total is the sum over all workers.                                    *)
LEMMA TotalIsSum == \A f : Total(f) = SumOver(f, Workers)
  BY DEF Total, SumOver

(* A read takes one worker's counter off what is left, and no other.       *)
LEMMA LeftByRead ==
  ASSUME TypeOK, ReadOnce, loads # << >>, loads' = Tail(loads)
  PROVE  /\ ReadOnce'
         /\ \E w \in Workers, what \in Loaded :
              /\ Head(loads) = <<w, what>>
              /\ w \in Left(what) /\ Left(what)' = Left(what) \ {w}
              /\ \A other \in Loaded \ {what} : Left(other)' = Left(other)
<1>1. /\ loads \in Seq(Workers \X Loaded) /\ loads' \in Seq(Workers \X Loaded)
      /\ 1 \in DOMAIN loads /\ Head(loads) = loads[1]
      /\ \A i \in DOMAIN loads' : i + 1 \in DOMAIN loads /\ loads'[i] = loads[i + 1]
      /\ \A i \in DOMAIN loads : i # 1 => i - 1 \in DOMAIN loads' /\ loads'[i - 1] = loads[i]
  <2>1. loads \in Seq(Workers \X Loaded) /\ Len(loads) \in Nat \ {0}
    BY DEF TypeOK
  <2>2. /\ loads' \in Seq(Workers \X Loaded) /\ Len(loads') = Len(loads) - 1
        /\ \A i \in 1 .. Len(loads) - 1 : loads'[i] = loads[i + 1]
    BY <2>1
  <2>3. Head(loads) = loads[1]
    BY <2>1
  <2>4. DOMAIN loads = 1 .. Len(loads) /\ DOMAIN loads' = 1 .. Len(loads) - 1
    BY <2>1, <2>2
  <2>5. \A i \in DOMAIN loads : i # 1 => i - 1 \in DOMAIN loads' /\ loads'[i - 1] = loads[i]
    <3> SUFFICES ASSUME NEW i \in 1 .. Len(loads), i # 1
                 PROVE  i - 1 \in 1 .. Len(loads) - 1 /\ loads'[i - 1] = loads[i]
      BY <2>4
    <3>1. i - 1 \in 1 .. Len(loads) - 1 /\ (i - 1) + 1 = i
      BY <2>1
    <3> QED
      BY <2>2, <3>1
  <2> QED
    BY <2>1, <2>2, <2>3, <2>4, <2>5
<1>2. ReadOnce'
  <2> SUFFICES ASSUME NEW i \in DOMAIN loads', NEW j \in DOMAIN loads', i # j
               PROVE  loads'[i] # loads'[j]
    BY DEF ReadOnce
  <2>1. i + 1 # j + 1
    BY <1>1
  <2> QED
    BY <1>1, <2>1 DEF ReadOnce
<1>3. PICK w \in Workers, what \in Loaded : Head(loads) = <<w, what>>
  <2>1. loads[1] \in Workers \X Loaded
    BY <1>1
  <2> QED
    BY <1>1, <2>1
<1>4. ASSUME NEW v \in Workers, NEW which \in Loaded
      PROVE  v \in Left(which)' <=> v \in Left(which) /\ <<v, which>> # <<w, what>>
  <2>1. ASSUME NEW i \in DOMAIN loads', loads'[i] = <<v, which>>
        PROVE  v \in Left(which) /\ <<v, which>> # <<w, what>>
    <3>1. i + 1 \in DOMAIN loads /\ loads[i + 1] = <<v, which>> /\ i + 1 # 1
      BY <1>1, <2>1
    <3>2. loads[i + 1] # loads[1]
      BY <1>1, <3>1 DEF ReadOnce
    <3> QED
      BY <1>1, <1>3, <3>1, <3>2 DEF Left
  <2>2. ASSUME NEW i \in DOMAIN loads, loads[i] = <<v, which>>, <<v, which>> # <<w, what>>
        PROVE  v \in Left(which)'
    <3>1. i # 1
      BY <1>1, <1>3, <2>2
    <3>2. i - 1 \in DOMAIN loads' /\ loads'[i - 1] = <<v, which>>
      BY <1>1, <2>2, <3>1
    <3> QED
      BY <3>2 DEF Left
  <2> QED
    BY <2>1, <2>2 DEF Left
<1>5. w \in Left(what)
  BY <1>1, <1>3 DEF Left
<1>6. \A which \in Loaded :
        Left(which)' \subseteq Workers /\ Left(which) \subseteq Workers
  BY DEF Left
<1>7. Left(what)' = Left(what) \ {w}
  BY <1>4, <1>6
<1>8. \A other \in Loaded \ {what} : Left(other)' = Left(other)
  BY <1>4, <1>6
<1> QED
  BY <1>2, <1>3, <1>5, <1>7, <1>8

-----------------------------------------------------------------------------
(* A run begins with nothing counted and no snapshot.                      *)
LEMMA InitSnapshotInv == Init => SnapshotInv
<1> SUFFICES ASSUME Init PROVE SnapshotInv
  OBVIOUS
<1>0. NoCounts \in Counts /\ \A what \in Counters : NoCounts[what] = 0
  BY DEF NoCounts, Counts
<1>1. TypeOK
  <2>1. EmptySnapshot \in Snapshots
    BY DEF EmptySnapshot, Snapshots
  <2> QED
    BY <1>0, <2>1, TelemetryAssumption DEF Init, TypeOK, Places
<1>2. Accounts
  BY <1>0, <1>1 DEF Init, TypeOK, Accounts, InCount, InTable, Counters
<1>3. Settled /\ ReadOnce
  BY DEF Init, Settled, Drained, EmptySnapshot, ReadOnce
<1>4. Sums
  <2>1. ~snap.final /\ snap.listed = 0
    BY DEF Init, EmptySnapshot
  <2>2. ASSUME NEW what \in Counters
        PROVE  Bracket(what)
    <3>1. begun[what] = 0 /\ snap[what] = 0
      BY <1>0 DEF Init, EmptySnapshot, Counters
    <3>2. Left(what) \in SUBSET Workers /\ Workers \ Left(what) \in SUBSET Workers
      BY DEF Left
    <3>3. /\ SumOver(Counted(what), Left(what)) \in Nat
          /\ SumOver(Counted(what), Workers \ Left(what)) \in Nat
      BY <1>1, <3>2, CountersTyped
    <3> QED
      BY <3>1, <3>3 DEF Bracket
  <2> QED
    BY <2>1, <2>2, TelemetryAssumption DEF Sums, FinalSums
<1> QED
  BY <1>1, <1>2, <1>3, <1>4 DEF SnapshotInv

(* What is not read any more is nothing, and nothing is left of it.        *)
LEMMA SumsOfNone ==
  ASSUME TypeOK, begun = NoCounts, snap = EmptySnapshot
  PROVE  Sums
<1>1. ~snap.final /\ snap.listed = 0
  BY DEF EmptySnapshot
<1>2. ASSUME NEW what \in Counters
      PROVE  Bracket(what)
  <2>1. begun[what] = 0 /\ snap[what] = 0
    BY DEF EmptySnapshot, NoCounts, Counters
  <2>2. Left(what) \in SUBSET Workers /\ Workers \ Left(what) \in SUBSET Workers
    BY DEF Left
  <2>3. /\ SumOver(Counted(what), Left(what)) \in Nat
        /\ SumOver(Counted(what), Workers \ Left(what)) \in Nat
    BY <2>2, CountersTyped
  <2> QED
    BY <2>1, <2>3 DEF Bracket
<1> QED
  BY <1>1, <1>2, TelemetryAssumption DEF Sums, FinalSums

(* A step of a worker, by its effects on the worker alone.                 *)
WorkerMoves(w) ==
  /\ at' = [at EXCEPT ![w] = at'[w]] /\ at'[w] \in Places
  /\ todo' = [todo EXCEPT ![w] = todo'[w]] /\ todo'[w] \in Nat
  /\ table' = [table EXCEPT ![w] = table'[w]] /\ table'[w] \in Nat
  /\ stats' = [stats EXCEPT ![w] = stats'[w]] /\ stats'[w] \in Counts

Balanced(w) ==
  /\ stats[w]["flows"] + InTable(w) = table[w]
  /\ stats[w]["packets"] + stats[w]["malformed"] + InCount(w) + todo[w] = load[w]

LEMMA WorkerStep ==
  ASSUME TypeOK, NEW w \in Workers, Worker(w), Balanced(w)
  PROVE  /\ WorkerMoves(w) /\ load' = load
         /\ \A what \in Counters : stats[w][what] <= stats'[w][what]
         /\ Balanced(w)'
         /\ ~Drained
<1>1. /\ at[w] \in Places /\ todo[w] \in Nat /\ table[w] \in Nat /\ load[w] \in Nat
      /\ stats[w] \in Counts /\ load' = load
      /\ \A what \in Counters : stats[w][what] \in Nat
  BY DEF TypeOK, Counts, Worker
<1>2. CASE ProcessPacket(w)
  <2>1. /\ at'[w] \in {"new", "known", "malformed"} /\ at[w] = "pop"
        /\ todo'[w] = todo[w] - 1 /\ todo[w] > 0 /\ UNCHANGED stats
        /\ table'[w] = IF at'[w] = "new" THEN table[w] + 1 ELSE table[w]
    BY <1>2 DEF ProcessPacket, TypeOK
  <2>2. WorkerMoves(w)
    BY <1>1, <1>2, <2>1 DEF ProcessPacket, TypeOK, WorkerMoves, Places
  <2>3. ~Drained /\ \A what \in Counters : stats[w][what] <= stats'[w][what]
    BY <1>1, <2>1 DEF Drained
  <2>4. Balanced(w)'
    BY <1>1, <2>1 DEF Balanced, InCount, InTable, Counters
  <2> QED
    BY <1>1, <2>2, <2>3, <2>4
<1>3. ASSUME NEW what \in Counters,
             UNCHANGED <<todo, table>>, at[w] # "pop",
             stats' = [stats EXCEPT ![w] = [stats[w] EXCEPT ![what] = stats[w][what] + 1]],
             NEW next \in Places, at' = [at EXCEPT ![w] = next],
             \/ what = "packets" /\ at[w] = "new" /\ next = "flow"
             \/ what = "packets" /\ at[w] = "known" /\ next = "pop"
             \/ what = "malformed" /\ at[w] = "malformed" /\ next = "pop"
             \/ what = "flows" /\ at[w] = "flow" /\ next = "pop"
      PROVE  /\ WorkerMoves(w) /\ load' = load
             /\ \A other \in Counters : stats[w][other] <= stats'[w][other]
             /\ Balanced(w)'
             /\ ~Drained
  <2>1. /\ stats'[w] \in Counts /\ stats'[w][what] = stats[w][what] + 1
        /\ \A other \in Counters \ {what} : stats'[w][other] = stats[w][other]
    BY <1>1, <1>3 DEF TypeOK, Counts
  <2>2. WorkerMoves(w)
    BY <1>1, <1>3, <2>1 DEF TypeOK, WorkerMoves
  <2>3. ~Drained /\ \A other \in Counters : stats[w][other] <= stats'[w][other]
    BY <1>1, <1>3, <2>1 DEF Drained
  <2>4. at'[w] = next
    BY <1>1, <1>3 DEF TypeOK
  <2>5. Balanced(w)'
    <3> DEFINE before(c) == stats[w][c]
               after(c) == stats'[w][c]
    <3>1. before("packets") \in Nat /\ before("malformed") \in Nat /\ before("flows") \in Nat
      BY <1>1 DEF Counters
    <3>2. CASE what = "packets"
      <4>1. /\ after("packets") = before("packets") + 1
            /\ after("malformed") = before("malformed") /\ after("flows") = before("flows")
        BY <2>1, <3>2 DEF Counters
      <4> QED
        BY <1>1, <1>3, <2>4, <3>1, <3>2, <4>1 DEF Balanced, InCount, InTable
    <3>3. CASE what = "malformed"
      <4>1. /\ after("malformed") = before("malformed") + 1
            /\ after("packets") = before("packets") /\ after("flows") = before("flows")
        BY <2>1, <3>3 DEF Counters
      <4> QED
        BY <1>1, <1>3, <2>4, <3>1, <3>3, <4>1 DEF Balanced, InCount, InTable
    <3>4. CASE what = "flows"
      <4>1. /\ after("flows") = before("flows") + 1
            /\ after("packets") = before("packets") /\ after("malformed") = before("malformed")
        BY <2>1, <3>4 DEF Counters
      <4> QED
        BY <1>1, <1>3, <2>4, <3>1, <3>4, <4>1 DEF Balanced, InCount, InTable
    <3> QED
      BY <3>2, <3>3, <3>4 DEF Counters
  <2> QED
    BY <1>1, <2>2, <2>3, <2>5
<1>4. CASE CountPacket(w)
  <2>1. stats' = [stats EXCEPT ![w] = [stats[w] EXCEPT !["packets"] = stats[w]["packets"] + 1]]
    BY <1>4 DEF CountPacket
  <2>2. CASE at[w] = "new"
    <3>1. at' = [at EXCEPT ![w] = "flow"] /\ UNCHANGED <<todo, table>>
      BY <1>4, <2>2 DEF CountPacket
    <3> QED
      BY <1>3, <2>1, <2>2, <3>1 DEF Counters, Places
  <2>3. CASE at[w] = "known"
    <3>1. at' = [at EXCEPT ![w] = "pop"] /\ UNCHANGED <<todo, table>>
      BY <1>4, <2>3 DEF CountPacket
    <3> QED
      BY <1>3, <2>1, <2>3, <3>1 DEF Counters, Places
  <2> QED
    BY <1>4, <2>2, <2>3 DEF CountPacket
<1>5. CASE CountFlow(w)
  <2>1. /\ stats' = [stats EXCEPT ![w] = [stats[w] EXCEPT !["flows"] = stats[w]["flows"] + 1]]
        /\ at' = [at EXCEPT ![w] = "pop"] /\ UNCHANGED <<todo, table>> /\ at[w] = "flow"
    BY <1>5 DEF CountFlow
  <2> QED
    BY <1>3, <2>1 DEF Counters, Places
<1>6. CASE CountMalformed(w)
  <2>1. /\ stats' = [stats EXCEPT ![w] = [stats[w] EXCEPT !["malformed"] = stats[w]["malformed"] + 1]]
        /\ at' = [at EXCEPT ![w] = "pop"] /\ UNCHANGED <<todo, table>> /\ at[w] = "malformed"
    BY <1>6 DEF CountMalformed
  <2> QED
    BY <1>3, <2>1 DEF Counters, Places
<1> QED
  BY <1>2, <1>4, <1>5, <1>6 DEF Worker

(* While workers run their counters grow, and with them both bounds.       *)
LEMMA WorkerKeepsInv ==
  ASSUME SnapshotInv, NEW w \in Workers, Worker(w)
  PROVE  SnapshotInv'
<1> USE DEF SnapshotInv
<1>0. UNCHANGED <<phase, loads, snap, begun>>
  BY DEF Worker, export
<1>1. Balanced(w)
  BY DEF Accounts, Balanced
<1>2. /\ WorkerMoves(w) /\ load' = load /\ Balanced(w)' /\ ~Drained
      /\ \A what \in Counters : stats[w][what] <= stats'[w][what]
  BY <1>1, WorkerStep
<1>3. TypeOK'
  BY <1>0, <1>2 DEF TypeOK, WorkerMoves
<1>4. ASSUME NEW v \in Workers, v # w
      PROVE  /\ stats'[v] = stats[v] /\ todo'[v] = todo[v] /\ table'[v] = table[v]
             /\ at'[v] = at[v]
  BY <1>2, <1>4 DEF WorkerMoves, TypeOK
<1>5. Accounts'
  <2>1. ASSUME NEW v \in Workers, v # w
        PROVE  Balanced(v)'
    BY <1>2, <1>4, <2>1 DEF Accounts, Balanced, InCount, InTable
  <2> QED
    BY <1>2, <2>1 DEF Accounts, Balanced
<1>6. ~snap.final /\ Settled'
  BY <1>0, <1>2 DEF Settled
<1>7. ASSUME NEW what \in Counters
      PROVE  Bracket(what)'
  <2>1. \A v \in Workers : /\ Counted(what)[v] \in Nat /\ Counted(what)'[v] \in Nat
                           /\ Counted(what)[v] <= Counted(what)'[v]
    <3>1. \A v \in Workers : stats[v][what] \in Nat /\ stats'[v][what] \in Nat
      BY <1>3 DEF TypeOK, Counts
    <3>2. \A v \in Workers : stats[v][what] <= stats'[v][what]
      BY <1>2, <1>4, <3>1
    <3> QED
      BY <3>1, <3>2 DEF Counted
  <2>2. ASSUME NEW T \in SUBSET Workers
        PROVE  /\ SumOver(Counted(what), T) <= SumOver(Counted(what)', T)
               /\ SumOver(Counted(what), T) \in Nat /\ SumOver(Counted(what)', T) \in Nat
    <3>1. IsFiniteSet(T)
      BY TelemetryAssumption, FS_Subset
    <3>2. PICK f : f = Counted(what)
      OBVIOUS
    <3>3. PICK g : g = Counted(what)'
      OBVIOUS
    <3>4. \A v \in T : f[v] \in Nat /\ g[v] \in Nat /\ f[v] <= g[v]
      BY <2>1, <3>2, <3>3
    <3>5. SumOver(f, T) <= SumOver(g, T) /\ SumOver(f, T) \in Nat /\ SumOver(g, T) \in Nat
      BY <3>1, <3>4, SumOverLess, SumOverSet
    <3> QED
      BY <3>2, <3>3, <3>5
  <2>3. /\ Left(what)' = Left(what) /\ Left(what) \in SUBSET Workers
        /\ Workers \ Left(what) \in SUBSET Workers
    BY <1>0 DEF Left
  <2>4. begun[what] \in Nat /\ snap[what] \in Nat
    BY DEF TypeOK, Counts, Snapshots, Counters
  <2>5. Bracket(what)
    BY DEF Sums
  <2> DEFINE left == SumOver(Counted(what), Left(what))
             read == SumOver(Counted(what), Workers \ Left(what))
             leftNow == SumOver(Counted(what)', Left(what))
             readNow == SumOver(Counted(what)', Workers \ Left(what))
  <2>6. /\ left <= leftNow /\ read <= readNow
        /\ left \in Nat /\ leftNow \in Nat /\ read \in Nat /\ readNow \in Nat
    BY <2>2, <2>3
  <2>7. begun[what] <= snap[what] + left /\ snap[what] <= read
    BY <2>5 DEF Bracket
  <2>8. begun[what] <= snap[what] + leftNow /\ snap[what] <= readNow
    <3> HIDE DEF left, read, leftNow, readNow
    <3> QED
      BY <2>4, <2>6, <2>7
  <2> QED
    BY <1>0, <2>3, <2>8 DEF Bracket
<1>8. Sums'
  BY <1>0, <1>6, <1>7 DEF Sums, FinalSums
<1> QED
  BY <1>0, <1>3, <1>5, <1>6, <1>8 DEF ReadOnce

(* A new snapshot has everything left to read.                             *)
LEMMA StartExportKeepsInv ==
  ASSUME SnapshotInv, StartExport, UNCHANGED workers
  PROVE  SnapshotInv'
<1> USE DEF SnapshotInv
<1>1. /\ loads' = AllLoads /\ UNCHANGED <<phase, load, todo, at, table, stats>>
      /\ begun' = [what \in Counters |-> Total(Counted(what))]
      /\ snap' = [final |-> phase = "stopped", packets |-> 0, flows |-> 0,
                  malformed |-> 0, listed |-> 0]
  BY DEF StartExport, workers, EmptySnapshot
<1>2. \A what \in Counters :
        begun'[what] = SumOver(Counted(what), Workers) /\ begun'[what] \in Nat
  BY <1>1, TotalIsSum, CountersTyped
<1>3. TypeOK'
  <2>1. begun' \in Counts
    BY <1>1, <1>2 DEF Counts
  <2> QED
    BY <1>1, <2>1, AllLoadsOnce DEF TypeOK, Snapshots
<1>4. Accounts' /\ Settled' /\ ReadOnce'
  BY <1>1, AllLoadsOnce DEF Accounts, InCount, InTable, Settled, Drained, ReadOnce
<1>5. Sums'
  <2>1. \A what \in Loaded : Left(what)' = Workers
    BY <1>1, AllLoadsOnce DEF Left
  <2>2. \A what : Counted(what)' = Counted(what)
    BY <1>1 DEF Counted
  <2>3. ASSUME NEW what \in Counters
        PROVE  Bracket(what)'
    <3>1. Left(what)' = Workers /\ Workers \ Left(what)' = {}
      BY <2>1 DEF Loaded
    <3>2. SumOver(Counted(what), Workers) \in Nat /\ SumOver(Counted(what), {}) \in Nat
      BY CountersTyped
    <3>3. snap'[what] = 0
      BY <1>1 DEF Counters
    <3> QED
      BY <1>2, <2>2, <3>1, <3>2, <3>3 DEF Bracket
  <2>4. SumOver(table, {}) = 0
    BY SumOverSet, CountersTyped
  <2>5. /\ Workers \ Left("table")' = {} /\ table' = table /\ snap'.listed = 0
        /\ Least(MaxFlows, 0) = 0 /\ 0 <= MaxFlows
    BY <1>1, <2>1, TelemetryAssumption DEF Loaded, Least
  <2>6. FinalSums'
    BY <1>2, <2>2, <2>4, <2>5 DEF FinalSums
  <2> QED
    BY <2>3, <2>5, <2>6 DEF Sums
<1> QED
  BY <1>3, <1>4, <1>5

(* Reading a counter takes from what is left what it adds to the snapshot. *)
LEMMA CounterRead ==
  ASSUME TypeOK, NEW w \in Workers, NEW what \in Counters, LoadCounter(w, what),
         w \in Left(what), Left(what)' = Left(what) \ {w},
         \A other \in Loaded \ {what} : Left(other)' = Left(other),
         UNCHANGED <<begun, stats>>
  PROVE  /\ snap' \in Snapshots
         /\ snap'.final = snap.final /\ snap'.listed = snap.listed
         /\ \A other \in Counters : Bracket(other) => Bracket(other)'
<1>1. /\ snap' = [snap EXCEPT ![what] = @ + Counted(what)[w]]
      /\ snap \in Snapshots /\ Counted(what)[w] \in Nat
  BY CountersTyped DEF LoadCounter, Counted, TypeOK
<1>2. /\ snap' \in Snapshots
      /\ snap'.final = snap.final /\ snap'.listed = snap.listed
      /\ snap'[what] = snap[what] + Counted(what)[w] /\ snap[what] \in Nat
      /\ \A other \in Counters \ {what} : snap'[other] = snap[other]
  BY <1>1 DEF Snapshots, Counters
<1>3. \A other : Counted(other)' = Counted(other)
  BY DEF Counted
<1>4. ASSUME NEW other \in Counters \ {what}, Bracket(other)
      PROVE  Bracket(other)'
  <2>1. Left(other)' = Left(other)
    BY DEF Loaded
  <2> QED
    BY <1>2, <1>3, <1>4, <2>1 DEF Bracket
<1>5. ASSUME Bracket(what)
      PROVE  Bracket(what)'
  <2> DEFINE f == Counted(what)
             left == Left(what)
             done == Workers \ Left(what)
  <2>1. \A T \in SUBSET Workers : IsFiniteSet(T)
    BY CountersTyped
  <2>2. \A v \in Workers : f[v] \in Nat
    BY CountersTyped
  <2>3. left \in SUBSET Workers /\ done \in SUBSET Workers
    BY DEF Left
  <2>4. SumOver(f, left) = f[w] + SumOver(f, left \ {w})
    <3> HIDE DEF f, left
    <3>1. w \in left
      BY DEF left
    <3> QED
      BY <2>1, <2>2, <2>3, <3>1, SumOverSet
  <2>5. /\ Workers \ (left \ {w}) = done \cup {w} /\ (done \cup {w}) \ {w} = done
        /\ done \cup {w} \in SUBSET Workers
    BY <2>3
  <2>6. SumOver(f, done \cup {w}) = f[w] + SumOver(f, done)
    <3> HIDE DEF f, done
    <3>1. SumOver(f, done \cup {w}) = f[w] + SumOver(f, (done \cup {w}) \ {w})
      BY <2>1, <2>2, <2>5, SumOverSet
    <3> QED
      BY <2>5, <3>1
  <2>7. /\ SumOver(f, left) \in Nat /\ SumOver(f, left \ {w}) \in Nat
        /\ SumOver(f, done) \in Nat /\ f[w] \in Nat /\ begun[what] \in Nat
    BY <2>3, CountersTyped DEF TypeOK, Counts
  <2>8. begun[what] <= snap[what] + SumOver(f, left) /\ snap[what] <= SumOver(f, done)
    BY <1>5 DEF Bracket
  <2> DEFINE sumLeft == SumOver(f, left)
             sumRest == SumOver(f, left \ {w})
             sumDone == SumOver(f, done)
             sumMore == SumOver(f, done \cup {w})
             own == f[w]
  <2>9. /\ begun[what] <= (snap[what] + own) + sumRest
        /\ snap[what] + own <= sumMore
    <3>1. /\ sumLeft = own + sumRest /\ sumMore = own + sumDone
          /\ sumRest \in Nat /\ sumDone \in Nat /\ own \in Nat
          /\ begun[what] <= snap[what] + sumLeft /\ snap[what] <= sumDone
      BY <2>4, <2>6, <2>7, <2>8
    <3> HIDE DEF sumLeft, sumRest, sumDone, sumMore, own
    <3> QED
      BY <1>2, <2>7, <3>1
  <2>10. /\ Left(what)' = left \ {w} /\ Workers \ Left(what)' = done \cup {w}
         /\ Counted(what)' = f
    BY <1>3, <2>5
  <2>11. begun'[what] = begun[what] /\ snap'[what] = snap[what] + own
    BY <1>2
  <2> HIDE DEF f, left, done
  <2> QED
    BY <2>9, <2>10, <2>11 DEF Bracket
<1> QED
  BY <1>2, <1>4, <1>5

(* A read moves a counter from what is left into the snapshot, or lists    *)
(* flows of a table.                                                       *)
LEMMA CaptureKeepsInv ==
  ASSUME SnapshotInv, Capture, UNCHANGED workers, phase \in {"running", "stopped"}
  PROVE  SnapshotInv'
<1> USE DEF SnapshotInv
<1>1. /\ loads # << >> /\ loads' = Tail(loads)
      /\ UNCHANGED <<phase, begun, load, todo, at, table, stats>>
  BY DEF Capture, workers
<1>2. PICK w \in Workers, what \in Loaded :
        /\ Head(loads) = <<w, what>>
        /\ w \in Left(what) /\ Left(what)' = Left(what) \ {w}
        /\ \A other \in Loaded \ {what} : Left(other)' = Left(other)
  BY <1>1, LeftByRead
<1>3. \A x : Counted(x)' = Counted(x)
  BY <1>1 DEF Counted
<1>4. loads' \in Seq(Workers \X Loaded)
  BY <1>1 DEF TypeOK
<1>5. ASSUME snap' \in Snapshots, snap'.final = snap.final, Sums'
      PROVE  SnapshotInv'
  <2>1. TypeOK'
    BY <1>1, <1>4, <1>5 DEF TypeOK
  <2>2. Accounts' /\ Settled' /\ ReadOnce'
    BY <1>1, <1>5, LeftByRead DEF Accounts, InCount, InTable, Settled, Drained
  <2> QED
    BY <1>5, <2>1, <2>2
<1>6. CASE what # "table"
  <2>1. what \in Counters /\ LoadCounter(w, what)
    BY <1>2, <1>6 DEF Capture, Loaded
  <2>2. /\ snap' \in Snapshots
        /\ snap'.final = snap.final /\ snap'.listed = snap.listed
        /\ \A other \in Counters : Bracket(other) => Bracket(other)'
    BY <1>1, <1>2, <2>1, CounterRead
  <2>3. Left("table")' = Left("table")
    BY <1>2, <1>6 DEF Loaded
  <2>4. FinalSums'
    BY <1>1, <1>3, <2>2, <2>3 DEF Sums, FinalSums
  <2>5. Sums'
    BY <2>2, <2>4 DEF Sums
  <2> QED
    BY <1>5, <2>2, <2>5
<1>7. CASE what = "table"
  <2>0. snap \in Snapshots /\ snap.listed \in Nat /\ MaxFlows \in Nat /\ snap.listed <= MaxFlows
        /\ table[w] \in Nat
    BY TelemetryAssumption DEF TypeOK, Snapshots, Sums
  <2>1. LoadTable(w)
    BY <1>2, <1>7 DEF Capture
  <2>2. PICK n : /\ snap' = [snap EXCEPT !.listed = n]
                 /\ n \in IF phase = "stopped" THEN {Min({MaxFlows, snap.listed + table[w]})}
                           ELSE snap.listed .. MaxFlows
    BY <2>1 DEF LoadTable
  <2>3. Min({MaxFlows, snap.listed + table[w]}) = Least(MaxFlows, snap.listed + table[w])
    BY <2>0, MinIsLeast
  <2>4. n \in Nat /\ n <= MaxFlows
    BY <2>0, <2>2, <2>3 DEF Least
  <2>5. /\ snap' \in Snapshots /\ snap'.final = snap.final /\ snap'.listed = n
        /\ \A other \in Counters : snap'[other] = snap[other]
    BY <2>0, <2>2, <2>4 DEF Snapshots, Counters
  <2>6. ASSUME NEW other \in Counters
        PROVE  Bracket(other)'
    <3>1. Left(other)' = Left(other)
      BY <1>2, <1>7 DEF Counters, Loaded
    <3> QED
      BY <1>1, <1>3, <2>5, <3>1 DEF Sums, Bracket
  <2>7. FinalSums'
    <3> SUFFICES ASSUME snap.final PROVE FinalSums'
      BY <2>5 DEF FinalSums
    <3> DEFINE done == Workers \ Left("table")
    <3>1. phase = "stopped" /\ n = Least(MaxFlows, snap.listed + table[w])
      BY <2>2, <2>3 DEF Settled
    <3>2. /\ Left("table") \in SUBSET Workers /\ w \in Left("table")
          /\ Left("table")' = Left("table") \ {w}
      BY <1>2, <1>7 DEF Left
    <3>3. /\ Workers \ Left("table")' = done \cup {w} /\ (done \cup {w}) \ {w} = done
          /\ done \cup {w} \in SUBSET Workers /\ done \in SUBSET Workers
      BY <3>2
    <3>4. SumOver(table, done) \in Nat
      BY <3>3, CountersTyped
    <3>5. snap.listed = Least(MaxFlows, SumOver(table, done))
      BY DEF Sums, FinalSums
    <3>6. SumOver(table, done \cup {w}) = table[w] + SumOver(table, done)
      <4> HIDE DEF done
      <4>1. SumOver(table, done \cup {w}) = table[w] + SumOver(table, (done \cup {w}) \ {w})
        BY <3>3, CountersTyped, SumOverSet
      <4> QED
        BY <3>3, <4>1
    <3> DEFINE sum == SumOver(table, done)
               more == SumOver(table, done \cup {w})
    <3>7. n = Least(MaxFlows, more)
      <4>1. /\ sum \in Nat /\ more = table[w] + sum /\ snap.listed = Least(MaxFlows, sum)
        BY <3>4, <3>5, <3>6
      <4> HIDE DEF sum, more, done
      <4> QED
        BY <2>0, <3>1, <4>1 DEF Least
    <3>8. \A other \in Counters : begun'[other] = SumOver(Counted(other), Workers)
      BY <1>1 DEF Sums, FinalSums
    <3>9. SumOver(table', Workers \ Left("table")') = more
      BY <1>1, <3>3
    <3> HIDE DEF more, done, sum
    <3> QED
      BY <1>3, <2>5, <3>7, <3>8, <3>9 DEF FinalSums
  <2>8. Sums'
    BY <2>4, <2>5, <2>6, <2>7 DEF Sums
  <2> QED
    BY <1>5, <2>5, <2>8
<1> QED
  BY <1>6, <1>7

(* Every other step of the export leaves counters and reads alone; the     *)
(* snapshot it keeps or forgets.                                           *)
LEMMA ExportKeepsInv ==
  ASSUME SnapshotInv, Export
  PROVE  SnapshotInv'
<1> USE DEF SnapshotInv
<1>1. UNCHANGED workers /\ phase \in {"running", "stopped"}
  BY DEF Export
<1>2. CASE StartExport
  BY <1>1, <1>2, StartExportKeepsInv
<1>3. CASE Capture
  BY <1>1, <1>3, CaptureKeepsInv
<1>4. CASE WriteTmp \/ Truncate \/ Fill \/ RemoveTmp
  <2>1. UNCHANGED <<loads, load, todo, at, table, stats>>
    BY <1>1, <1>4 DEF WriteTmp, Truncate, Fill, RemoveTmp, workers
  <2>2. CASE UNCHANGED <<phase, begun, snap>>
    <3>1. TypeOK' /\ Accounts' /\ Settled' /\ ReadOnce'
      BY <2>1, <2>2 DEF TypeOK, Accounts, InCount, InTable, Settled, Drained, ReadOnce
    <3>2. \A what : Left(what)' = Left(what) /\ Counted(what)' = Counted(what)
      BY <2>1 DEF Left, Counted
    <3>3. Sums'
      BY <2>1, <2>2, <3>2 DEF Sums, FinalSums, Bracket
    <3> QED
      BY <3>1, <3>3
  <2>3. CASE Return
    <3>1. /\ begun' = NoCounts /\ snap' = EmptySnapshot
          /\ phase' \in {phase, "exited"} /\ (phase' = "exited" => phase = "stopped")
      BY <1>1, <2>3 DEF Return
    <3>2. TypeOK'
      <4>1. NoCounts \in Counts /\ EmptySnapshot \in Snapshots
        BY DEF NoCounts, Counts, EmptySnapshot, Snapshots
      <4> QED
        BY <2>1, <3>1, <4>1 DEF TypeOK
    <3>3. Accounts' /\ ReadOnce'
      BY <2>1 DEF Accounts, InCount, InTable, ReadOnce
    <3>4. Settled'
      <4>1. ~snap'.final
        BY <3>1 DEF EmptySnapshot
      <4> QED
        BY <2>1, <3>1, <4>1 DEF Settled, Drained
    <3>5. Sums'
      <4>1. ASSUME NEW what \in Counters
            PROVE  Bracket(what)'
        <5>1. /\ Left(what)' = Left(what) /\ Counted(what)' = Counted(what)
              /\ Left(what) \in SUBSET Workers /\ Workers \ Left(what) \in SUBSET Workers
          BY <2>1 DEF Left, Counted
        <5>2. begun'[what] = 0 /\ snap'[what] = 0
          BY <3>1 DEF NoCounts, EmptySnapshot, Counters
        <5>3. /\ SumOver(Counted(what), Left(what)) \in Nat
              /\ SumOver(Counted(what), Workers \ Left(what)) \in Nat
          BY <5>1, CountersTyped
        <5> QED
          BY <5>1, <5>2, <5>3 DEF Bracket
      <4>2. ~snap'.final /\ snap'.listed = 0
        BY <3>1 DEF EmptySnapshot
      <4> QED
        BY <4>1, <4>2, TelemetryAssumption DEF Sums, FinalSums
    <3> QED
      BY <3>2, <3>3, <3>4, <3>5
  <2> QED
    BY <1>4, <2>2, <2>3 DEF WriteTmp, Truncate, Fill, RemoveTmp
<1> QED
  BY <1>2, <1>3, <1>4 DEF Export

(* The stop waits for the workers; neither it nor a kill nor a request of  *)
(* a browser touches counters or snapshot.                                 *)
LEMMA NextSnapshotInv == SnapshotInv /\ [Next]_vars => SnapshotInv'
<1> SUFFICES ASSUME SnapshotInv, [Next]_vars PROVE SnapshotInv'
  OBVIOUS
<1>1. ASSUME UNCHANGED <<workers, loads, begun, snap>>,
             \/ phase' = "stopped" /\ Drained
             \/ phase' \in {"killed", phase}
      PROVE  SnapshotInv'
  <2>1. TypeOK' /\ Accounts' /\ ReadOnce'
    BY <1>1 DEF SnapshotInv, TypeOK, Accounts, InCount, InTable, ReadOnce, workers
  <2>2. Settled'
    BY <1>1 DEF SnapshotInv, Settled, Drained, workers
  <2>3. Sums'
    BY <1>1 DEF SnapshotInv, Sums, FinalSums, Bracket, Left, Counted, workers
  <2> QED
    BY <2>1, <2>2, <2>3 DEF SnapshotInv
<1>2. CASE Stop \/ Killed
  BY <1>1, <1>2 DEF Stop, Killed, export
<1>3. ASSUME NEW c \in Clients, Request(c)
      PROVE  SnapshotInv'
  BY <1>1, <1>3 DEF Request, export
<1>4. CASE UNCHANGED vars
  BY <1>1, <1>4 DEF vars, export
<1> QED
  BY <1>2, <1>3, <1>4, WorkerKeepsInv, ExportKeepsInv DEF Next

(* When a snapshot has read everything, nothing is left of the bounds; of  *)
(* the last one they are one number, and at rest the counters account for  *)
(* packets and tables.                                                     *)
LEMMA CompleteFromInv == SnapshotInv => SnapshotsComplete
<1> SUFFICES ASSUME SnapshotInv, loads = << >>
             PROVE  WithinCapture /\ (snap.final => EverythingCounted)
  BY DEF SnapshotsComplete, Captured
<1>0. TypeOK /\ Sums
  BY DEF SnapshotInv
<1>1. \A what : Left(what) = {} /\ Workers \ Left(what) = Workers
  BY DEF Left
<1>2. \A what \in Counters :
        /\ SumOver(Counted(what), {}) = 0
        /\ SumOver(Counted(what), Workers) \in Nat
        /\ begun[what] \in Nat /\ snap[what] \in Nat
  <2>1. ASSUME NEW what \in Counters
        PROVE  SumOver(Counted(what), {}) = 0
    BY SumOverSet, FS_EmptySet
  <2>2. ASSUME NEW what \in Counters
        PROVE  begun[what] \in Nat /\ snap[what] \in Nat
    BY <1>0 DEF TypeOK, Counts, Snapshots, Counters
  <2> QED
    BY <1>0, <2>1, <2>2, CountersTyped
<1>3. \A what \in Counters :
        begun[what] <= snap[what] /\ snap[what] <= SumOver(Counted(what), Workers)
  <2> SUFFICES ASSUME NEW what \in Counters
               PROVE  begun[what] <= snap[what] /\ snap[what] <= SumOver(Counted(what), Workers)
    OBVIOUS
  <2>1. /\ begun[what] <= snap[what] + SumOver(Counted(what), Left(what))
        /\ snap[what] <= SumOver(Counted(what), Workers \ Left(what))
    BY <1>0 DEF Sums, Bracket
  <2>2. begun[what] <= snap[what] + 0 /\ snap[what] <= SumOver(Counted(what), Workers)
    BY <1>1, <1>2, <2>1
  <2> QED
    BY <1>2, <2>2
<1>4. WithinCapture
  BY <1>0, <1>3, TotalIsSum DEF WithinCapture, Sums
<1>5. ASSUME snap.final
      PROVE  EverythingCounted
  <2> DEFINE packets == Counted("packets")
             malformed == Counted("malformed")
             flows == Counted("flows")
  <2>1. /\ begun["packets"] = SumOver(packets, Workers)
        /\ begun["malformed"] = SumOver(malformed, Workers)
        /\ begun["flows"] = SumOver(flows, Workers)
        /\ snap.listed = Least(MaxFlows, SumOver(table, Workers))
    BY <1>0, <1>1, <1>5 DEF Sums, FinalSums, Counters
  <2>2. /\ snap["packets"] = SumOver(packets, Workers)
        /\ snap["malformed"] = SumOver(malformed, Workers)
        /\ snap["flows"] = SumOver(flows, Workers)
    <3>1. ASSUME NEW what \in Counters, begun[what] = SumOver(Counted(what), Workers)
          PROVE  snap[what] = SumOver(Counted(what), Workers)
      <4> DEFINE sum == SumOver(Counted(what), Workers)
      <4>1. sum \in Nat /\ snap[what] \in Nat /\ sum <= snap[what] /\ snap[what] <= sum
        BY <1>2, <1>3, <3>1
      <4> HIDE DEF sum
      <4>2. snap[what] = sum
        BY <4>1
      <4> QED
        BY <4>2 DEF sum
    <3> QED
      BY <2>1, <3>1 DEF Counters
  <2>3. \A w \in Workers :
          /\ todo[w] = 0 /\ InTable(w) = 0 /\ InCount(w) = 0
          /\ stats[w]["packets"] \in Nat /\ stats[w]["malformed"] \in Nat
          /\ stats[w]["flows"] \in Nat /\ table[w] \in Nat /\ load[w] \in Nat
    <3>1. \A w \in Workers : todo[w] = 0 /\ at[w] = "pop"
      BY <1>5 DEF SnapshotInv, Settled, Drained
    <3>2. \A w \in Workers : /\ table[w] \in Nat /\ load[w] \in Nat
                             /\ \A what \in Counters : stats[w][what] \in Nat
      BY <1>0 DEF TypeOK, Counts
    <3> QED
      BY <3>1, <3>2 DEF InTable, InCount, Counters
  <2>4. \A w \in Workers :
          /\ packets[w] \in Nat /\ malformed[w] \in Nat /\ flows[w] \in Nat
          /\ load[w] = packets[w] + malformed[w] /\ table[w] = flows[w]
    <3> SUFFICES ASSUME NEW w \in Workers
                 PROVE  /\ packets[w] \in Nat /\ malformed[w] \in Nat /\ flows[w] \in Nat
                        /\ load[w] = packets[w] + malformed[w] /\ table[w] = flows[w]
      OBVIOUS
    <3>1. /\ stats[w]["flows"] + InTable(w) = table[w]
          /\ stats[w]["packets"] + stats[w]["malformed"] + InCount(w) + todo[w] = load[w]
      BY DEF SnapshotInv, Accounts
    <3>2. /\ packets[w] = stats[w]["packets"] /\ malformed[w] = stats[w]["malformed"]
          /\ flows[w] = stats[w]["flows"]
      BY DEF Counted
    <3> HIDE DEF packets, malformed, flows
    <3> QED
      BY <2>3, <3>1, <3>2
  <2> HIDE DEF packets, malformed, flows
  <2>5. SumOver(load, Workers) = SumOver(packets, Workers) + SumOver(malformed, Workers)
    BY <2>4, TelemetryAssumption, SumOverBoth
  <2>6. SumOver(table, Workers) = SumOver(flows, Workers)
    BY <2>4, TelemetryAssumption, SumOverSame
  <2>7. SumOver(table, Workers) \in Nat
    BY <1>0, CountersTyped
  <2>8. Min({MaxFlows, SumOver(table, Workers)}) = Least(MaxFlows, SumOver(table, Workers))
    BY <2>7, MinIsLeast, TelemetryAssumption
  <2>9. /\ snap.packets + snap.malformed = SumOver(load, Workers)
        /\ snap.flows = SumOver(table, Workers)
    BY <2>2, <2>5, <2>6
  <2> QED
    BY <2>1, <2>8, <2>9, TotalIsSum DEF EverythingCounted
<1> QED
  BY <1>4, <1>5

(* Snapshots of running workers lie within the time of their capture, and  *)
(* the last one misses nothing (main.cpp:132-138).                         *)
THEOREM FinalSnapshot == Spec => []SnapshotsComplete
  BY InitSnapshotInv, NextSnapshotInv, CompleteFromInv, PTL DEF Spec
=============================================================================
