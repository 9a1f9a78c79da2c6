-------------------------- MODULE Analysis_proofs --------------------------
(***************************************************************************)
(* Proofs about Analysis for every capture, whatever the times of its      *)
(* records and their order, every limit, threshold and window, and every   *)
(* capacity of the ring.                                                   *)
(***************************************************************************)
EXTENDS Analysis, FoldLemmas, SequenceTheorems

-----------------------------------------------------------------------------
(* The ring.  head is where the next alert goes, tail where the oldest is; *)
(* list is everything that was ever pushed.  A ring that is not full has   *)
(* never overwritten anything.                                             *)

Place(x) == IF x < RingCapacity THEN x ELSE x - RingCapacity

RingTyped(r) ==
  /\ r = [slots |-> r.slots, head |-> r.head, tail |-> r.tail,
          size |-> r.size, dropped |-> r.dropped]
  /\ r.slots = [i \in 0 .. RingCapacity - 1 |-> r.slots[i]]
  /\ r.tail \in 0 .. RingCapacity - 1
  /\ r.size \in 0 .. RingCapacity
  /\ r.dropped \in Nat
  /\ IF r.size < RingCapacity
     THEN r.tail = 0 /\ r.head = r.size /\ r.dropped = 0
     ELSE r.head = r.tail

RingHolds(r, list) ==
  /\ RingTyped(r)
  /\ r.dropped + r.size = Len(list)
  /\ \A i \in 0 .. r.size - 1 : r.slots[Place(r.tail + i)] = list[r.dropped + i + 1]

(* Remainders of numbers that have passed the end of the ring once.        *)
LEMMA Wrapped ==
  ASSUME NEW x \in Nat, x < 2 * RingCapacity
  PROVE  x % RingCapacity = Place(x)
<1> USE RingAssumption
<1>1. CASE x < RingCapacity
  BY <1>1 DEF Place
<1>2. CASE x >= RingCapacity
  <2> DEFINE y == x - RingCapacity
  <2>1. y \in 0 .. RingCapacity - 1 /\ x = 1 * RingCapacity + y
    BY <1>2
  <2> HIDE DEF y
  <2>2. x % RingCapacity = y
    BY <2>1
  <2> QED
    BY <1>2, <2>2 DEF y, Place
<1> QED
  BY <1>1, <1>2

(* A push into a ring with room, and into a full one, field by field.      *)
LEMMA PushFields ==
  ASSUME NEW r, NEW a, RingTyped(r)
  PROVE  /\ r.size < RingCapacity =>
              Push(r, a) = [slots |-> [r.slots EXCEPT ![r.head] = a],
                            head |-> Place(r.head + 1), tail |-> r.tail,
                            size |-> r.size + 1, dropped |-> r.dropped]
         /\ ~(r.size < RingCapacity) =>
              Push(r, a) = [slots |-> [r.slots EXCEPT ![r.tail] = a],
                            head |-> Place(r.tail + 1), tail |-> Place(r.tail + 1),
                            size |-> r.size, dropped |-> r.dropped + 1]
<1> DEFINE rec == [slots |-> r.slots, head |-> r.head, tail |-> r.tail,
                   size |-> r.size, dropped |-> r.dropped]
<1>1. r = rec
  BY DEF RingTyped
<1>2. Push(r, a) = Push(rec, a)
  BY <1>1
<1>3. (r.tail + 1) % RingCapacity = Place(r.tail + 1)
  <2>1. r.tail + 1 \in Nat /\ r.tail + 1 < 2 * RingCapacity
    BY RingAssumption DEF RingTyped
  <2> QED
    BY <2>1, Wrapped
<1>4. (r.head + 1) % RingCapacity = Place(r.head + 1)
  <2>1. r.head + 1 \in Nat /\ r.head + 1 < 2 * RingCapacity
    BY RingAssumption DEF RingTyped
  <2> QED
    BY <2>1, Wrapped
<1>5. QED
  BY <1>2, <1>3, <1>4 DEF Push

(* Every push is remembered, at the cost of the oldest when there is no    *)
(* room (bounded_alert_buffer.h:23-36).                                    *)
LEMMA PushHolds ==
  ASSUME NEW r, NEW S, NEW list \in Seq(S), NEW a \in S, RingHolds(r, list)
  PROVE  RingHolds(Push(r, a), Append(list, a))
<1> USE RingAssumption DEF Place
<1> DEFINE q == Push(r, a)
           all == Append(list, a)
           t == r.tail
           n == r.size
           d == r.dropped
           slots == r.slots
<1>1. /\ t \in 0 .. RingCapacity - 1 /\ n \in 0 .. RingCapacity /\ d \in Nat
      /\ IF n < RingCapacity THEN t = 0 /\ r.head = n /\ d = 0 ELSE r.head = t
      /\ d + n = Len(list)
  BY DEF RingHolds, RingTyped
<1>5. /\ slots = [i \in 0 .. RingCapacity - 1 |-> slots[i]]
      /\ \A i \in 0 .. n - 1 : slots[Place(t + i)] = list[d + i + 1]
  BY DEF RingHolds, RingTyped
<1>2. /\ all \in Seq(S) /\ Len(all) = Len(list) + 1 /\ all[Len(list) + 1] = a
      /\ \A i \in 1 .. Len(list) : all[i] = list[i]
  OBVIOUS
<1>3. CASE n < RingCapacity
  <2>1. q = [slots |-> [slots EXCEPT ![n] = a], head |-> Place(n + 1), tail |-> t,
             size |-> n + 1, dropped |-> d]
    BY <1>1, <1>3, PushFields DEF RingHolds
  <2> HIDE DEF q, all, t, n, d, slots
  <2>2. q.slots = [i \in 0 .. RingCapacity - 1 |-> IF i = n THEN a ELSE slots[i]]
    BY <1>1, <1>3, <1>5, <2>1
  <2>3. /\ q.tail = 0 /\ q.size = n + 1 /\ q.dropped = 0 /\ q.head = Place(n + 1)
        /\ q = [slots |-> q.slots, head |-> q.head, tail |-> q.tail,
                size |-> q.size, dropped |-> q.dropped]
    BY <1>1, <1>3, <2>1
  <2>4. RingTyped(q)
    BY <1>1, <1>3, <2>2, <2>3 DEF RingTyped
  <2>5. ASSUME NEW i \in 0 .. n
        PROVE  q.slots[Place(i)] = all[i + 1]
    <3>1. Place(i) = i /\ i \in 0 .. RingCapacity - 1
      BY <1>1, <1>3
    <3>2. q.slots[i] = IF i = n THEN a ELSE slots[i]
      BY <2>2, <3>1
    <3>3. CASE i = n
      BY <1>1, <1>2, <1>3, <3>1, <3>2, <3>3
    <3>4. CASE i # n
      <4>1. i \in 0 .. n - 1 /\ i + 1 \in 1 .. Len(list) /\ t + i = i /\ d + i + 1 = i + 1
        BY <1>1, <1>3, <3>4
      <4>2. slots[i] = list[i + 1]
        BY <1>5, <3>1, <4>1
      <4> QED
        BY <1>2, <3>1, <3>2, <3>4, <4>1, <4>2
    <3> QED
      BY <3>3, <3>4
  <2>6. ASSUME NEW i \in 0 .. q.size - 1
        PROVE  q.slots[Place(q.tail + i)] = all[q.dropped + i + 1]
    <3>1. i \in 0 .. n /\ q.tail + i = i /\ q.dropped + i + 1 = i + 1
      BY <1>1, <2>3
    <3> QED
      BY <2>5, <3>1
  <2>7. q.dropped + q.size = Len(all)
    BY <1>1, <1>2, <1>3, <2>3
  <2> QED
    BY <2>4, <2>6, <2>7 DEF RingHolds, q, all
<1>4. CASE ~(n < RingCapacity)
  <2> DEFINE u == Place(t + 1)
  <2>1. q = [slots |-> [slots EXCEPT ![t] = a], head |-> u, tail |-> u,
             size |-> n, dropped |-> d + 1]
    BY <1>1, <1>4, PushFields DEF RingHolds
  <2>2. u \in 0 .. RingCapacity - 1 /\ u = IF t + 1 < RingCapacity THEN t + 1 ELSE 0
    BY <1>1
  <2> HIDE DEF q, all, t, n, d, slots, u
  <2>3. n = RingCapacity
    BY <1>1, <1>4
  <2>4. q.slots = [i \in 0 .. RingCapacity - 1 |-> IF i = t THEN a ELSE slots[i]]
    BY <1>1, <1>5, <2>1
  <2>5. /\ q.tail = u /\ q.size = RingCapacity /\ q.dropped = d + 1 /\ q.head = u
        /\ q = [slots |-> q.slots, head |-> q.head, tail |-> q.tail,
                size |-> q.size, dropped |-> q.dropped]
    BY <2>1, <2>3
  <2>6. RingTyped(q)
    BY <1>1, <2>2, <2>4, <2>5 DEF RingTyped
  <2>7. ASSUME NEW i \in 0 .. RingCapacity - 1
        PROVE  q.slots[Place(u + i)] = all[d + 1 + i + 1]
    <3> DEFINE w == Place(u + i)
               k == d + 1 + i + 1
    <3>1. w \in 0 .. RingCapacity - 1
      BY <2>2
    <3>2. q.slots[w] = IF w = t THEN a ELSE slots[w]
      BY <2>4, <3>1
    <3>3. ASSUME i = RingCapacity - 1
          PROVE  w = t /\ k = Len(list) + 1
      BY <1>1, <2>2, <2>3, <3>3
    <3>4. ASSUME i # RingCapacity - 1
          PROVE  w # t /\ k \in 1 .. Len(list) /\ slots[w] = list[k]
      <4> DEFINE j == i + 1
      <4>1. w = Place(t + j) /\ w # t
        BY <1>1, <2>2, <3>4
      <4>2. j \in 0 .. n - 1 /\ d + j + 1 = k /\ k \in 1 .. Len(list)
        BY <1>1, <2>3, <3>4
      <4> HIDE DEF Place, w, k, j
      <4> QED
        BY <1>5, <4>1, <4>2
    <3>5. q.slots[w] = all[k]
      <4> HIDE DEF w, k
      <4> QED
        BY <1>2, <3>2, <3>3, <3>4
    <3> QED
      BY <3>5
  <2>8. ASSUME NEW i \in 0 .. q.size - 1
        PROVE  q.slots[Place(q.tail + i)] = all[q.dropped + i + 1]
    <3>1. i \in 0 .. RingCapacity - 1 /\ q.tail = u /\ q.dropped = d + 1
      BY <2>5
    <3> HIDE DEF Place
    <3>2. q.slots[Place(u + i)] = all[d + 1 + i + 1]
      BY <2>7, <3>1
    <3> QED
      BY <3>1, <3>2, Zenon
  <2>9. q.dropped + q.size = Len(all)
    <3>1. (d + 1) + n = Len(list) + 1
      BY <1>1
    <3> QED
      BY <1>2, <2>3, <2>5, <3>1
  <2> QED
    BY <2>6, <2>8, <2>9 DEF RingHolds, q, all
<1> QED
  BY <1>3, <1>4

-----------------------------------------------------------------------------
(* Several pushes in a row, which the packet's step makes with a fold.     *)

Rings(T) == [slots : [0 .. RingCapacity - 1 -> T],
             head : 0 .. RingCapacity - 1, tail : 0 .. RingCapacity - 1,
             size : 0 .. RingCapacity, dropped : Nat]

LEMMA RemainderInRing ==
  ASSUME NEW x \in 0 .. RingCapacity - 1
  PROVE  (x + 1) % RingCapacity \in 0 .. RingCapacity - 1
<1>1. x + 1 \in Nat /\ x + 1 < 2 * RingCapacity
  BY RingAssumption
<1>2. (x + 1) % RingCapacity = Place(x + 1)
  BY <1>1, Wrapped
<1> QED
  BY <1>2, RingAssumption DEF Place

LEMMA PushClosed ==
  ASSUME NEW T, NEW r \in Rings(T), NEW a \in T
  PROVE  Push(r, a) \in Rings(T)
<1> DEFINE rec == [slots |-> r.slots, head |-> r.head, tail |-> r.tail,
                   size |-> r.size, dropped |-> r.dropped]
           h == (r.head + 1) % RingCapacity
           t == (r.tail + 1) % RingCapacity
           s1 == [r.slots EXCEPT ![r.head] = a]
           s2 == [r.slots EXCEPT ![r.tail] = a]
           z == r.size + 1
           d == r.dropped + 1
<1>1. h \in 0 .. RingCapacity - 1 /\ t \in 0 .. RingCapacity - 1
  BY RemainderInRing DEF Rings
<1>2. r = rec
  BY DEF Rings
<1>3. s1 \in [0 .. RingCapacity - 1 -> T] /\ s2 \in [0 .. RingCapacity - 1 -> T]
  BY DEF Rings
<1>4. r.dropped \in Nat /\ d \in Nat
  BY DEF Rings
<1>5. r.tail \in 0 .. RingCapacity - 1 /\ r.size \in 0 .. RingCapacity
  BY DEF Rings
<1>6. CASE r.size < RingCapacity
  <2>1. Push(rec, a) = [slots |-> s1, head |-> h, tail |-> r.tail,
                        size |-> z, dropped |-> r.dropped]
    BY <1>6 DEF Push
  <2>2. z \in 0 .. RingCapacity
    BY <1>5, <1>6, RingAssumption
  <2> HIDE DEF rec, h, s1, z
  <2>3. Push(rec, a) \in Rings(T)
    BY <1>1, <1>3, <1>4, <1>5, <2>1, <2>2 DEF Rings
  <2> QED
    BY <1>2, <2>3
<1>7. CASE ~(r.size < RingCapacity)
  <2>1. Push(rec, a) = [slots |-> s2, head |-> t, tail |-> t,
                        size |-> r.size, dropped |-> d]
    BY <1>7 DEF Push
  <2> HIDE DEF rec, t, s2, d
  <2>2. Push(rec, a) \in Rings(T)
    BY <1>1, <1>3, <1>4, <1>5, <2>1 DEF Rings
  <2> QED
    BY <1>2, <2>2
<1> QED
  BY <1>6, <1>7

(* The largest member of a set of indices.                                 *)
LEMMA LargestIndex ==
  ASSUME NEW n \in Nat, NEW T \in SUBSET (0 .. n), T # {}
  PROVE  Max(T) \in T /\ \A x \in T : Max(T) >= x
<1> DEFINE U == {n - x : x \in T}
<1>1. PICK y \in U : \A z \in U : y <= z
  <2>1. \A x \in T : x \in 0 .. n /\ n - x \in Nat
    OBVIOUS
  <2>2. U \in SUBSET Nat /\ U # {}
    BY <2>1
  <2> HIDE DEF U
  <2> QED
    BY <2>2, LeastNatural
<1>2. n - y \in T /\ \A x \in T : n - y >= x
  <2>1. PICK m \in T : y = n - m
    BY <1>1
  <2>2. \A x \in T : n - m <= n - x
    BY <1>1, <2>1
  <2> QED
    BY <2>1, <2>2
<1> QED
  BY <1>2 DEF Max

LEMMA PushesHold ==
  ASSUME NEW S, NEW list \in Seq(S), NEW new \in Seq(S),
         NEW r, RingHolds(r, list)
  PROVE  RingHolds(FoldLeft(Push, r, new), list \o new)
<1> DEFINE n == Len(new)
           D == 1 .. n
           T == S \cup {r.slots[i] : i \in 0 .. RingCapacity - 1}
           V == Rings(T)
           pick == [X \in SUBSET D |-> Max(X)]
           next == [X \in SUBSET D |-> [v \in V |-> Push(v, new[Max(X)])]]
           Folds(g) == g = [X \in SUBSET D |->
             IF X = {} THEN r ELSE Push(g[X \ {Max(X)}], new[Max(X)])]
           iter == CHOOSE g : Folds(g)
<1>1. DOMAIN new = D /\ n \in Nat /\ \A i \in D : new[i] \in S
  OBVIOUS
<1>2. \A X \in SUBSET D : X # {} => Max(X) \in X /\ \A x \in X : Max(X) >= x
  <2>1. \A X \in SUBSET D : X \in SUBSET (0 .. n)
    BY <1>1
  <2> QED
    BY <1>1, <2>1, LargestIndex
<1>3. r \in V
  <2>1. r.head \in 0 .. RingCapacity - 1
    BY RingAssumption DEF RingHolds, RingTyped
  <2>2. r.slots \in [0 .. RingCapacity - 1 -> T]
    BY DEF RingHolds, RingTyped
  <2> QED
    BY <2>1, <2>2 DEF RingHolds, RingTyped, Rings
<1>4. \A v \in V : \A i \in D : Push(v, new[i]) \in V
  BY <1>1, PushClosed
<1>5. PICK g : IsRecursive(g, D, V, r, pick, next)
  <2>1. IsFiniteSet(D)
    BY <1>1, FS_Interval
  <2>2. \A X \in SUBSET D : X # {} => pick[X] \in X
    BY <1>2
  <2>3. \A X \in SUBSET D, v \in V : X # {} => next[X][v] \in V
    BY <1>2, <1>4
  <2> HIDE DEF pick, next, V, D
  <2> QED
    BY <1>3, <2>1, <2>2, <2>3, SubsetRecursion
<1>6. ASSUME NEW X \in SUBSET D
      PROVE  g[X] = IF X = {} THEN r ELSE Push(g[X \ {Max(X)}], new[Max(X)])
  <2>1. pick[X] = Max(X) /\ X \ {Max(X)} \in SUBSET D
    OBVIOUS
  <2>2. next[X][g[X \ {Max(X)}]] = Push(g[X \ {Max(X)}], new[Max(X)])
    <3>1. g[X \ {Max(X)}] \in V
      BY <1>5, <2>1 DEF IsRecursive
    <3> HIDE DEF V
    <3> QED
      BY <3>1
  <2> HIDE DEF pick, next
  <2> QED
    BY <1>5, <2>1, <2>2 DEF IsRecursive
<1>7. Folds(iter)
  <2>1. Folds(g)
    <3> HIDE DEF V, pick, next
    <3> QED
      BY <1>5, <1>6 DEF IsRecursive
  <2> HIDE DEF Folds
  <2> QED
    BY <2>1
<1>8. FoldLeft(Push, r, new) = iter[D]
  BY <1>1 DEF FoldLeft, MapThenFoldSet
<1> HIDE DEF iter
<1>9. \A X \in SUBSET D :
        iter[X] = IF X = {} THEN r ELSE Push(iter[X \ {Max(X)}], new[Max(X)])
  BY <1>7
<1> DEFINE G == {k \in Nat : k <= n => RingHolds(iter[1 .. k], list \o SubSeq(new, 1, k))}
<1>10. 0 \in G
  <2>1. iter[1 .. 0] = r
    <3>1. 1 .. 0 = {} /\ {} \in SUBSET D
      OBVIOUS
    <3> QED
      BY <1>9, <3>1
  <2>2. list \o SubSeq(new, 1, 0) = list
    <3>1. SubSeq(new, 1, 0) = << >>
      BY SubSeqEmpty
    <3> QED
      BY <3>1, ConcatEmptySeq
  <2> QED
    BY <2>1, <2>2
<1>11. ASSUME NEW k \in Nat, k \in G
       PROVE  k + 1 \in G
  <2> SUFFICES ASSUME k + 1 <= n
               PROVE  RingHolds(iter[1 .. k + 1], list \o SubSeq(new, 1, k + 1))
    OBVIOUS
  <2> DEFINE X == 1 .. k + 1
             before == list \o SubSeq(new, 1, k)
  <2>1. X \in SUBSET D /\ k + 1 \in X
    BY <1>1
  <2>2. Max(X) = k + 1
    <3>1. Max(X) \in X /\ Max(X) >= k + 1
      BY <1>2, <2>1
    <3> QED
      BY <3>1
  <2>3. X \ {k + 1} = 1 .. k
    OBVIOUS
  <2>4. iter[X] = Push(iter[1 .. k], new[k + 1])
    BY <1>9, <2>1, <2>2, <2>3
  <2>5. SubSeq(new, 1, k) \in Seq(S) /\ Len(SubSeq(new, 1, k)) = k
    BY <1>1, SubSeqProperties
  <2>6. before \in Seq(S) /\ RingHolds(iter[1 .. k], before)
    BY <1>11, <2>5, ConcatProperties
  <2>7. list \o SubSeq(new, 1, k + 1) = Append(before, new[k + 1])
    <3>1. SubSeq(new, 1, k + 1) = SubSeq(new, 1, k) \o <<new[k + 1]>>
      <4>1. k + 1 \in 1 .. Len(new) /\ 1 \in 1 .. Len(new) /\ k + 1 - 1 = k
            /\ k + 1 \in 1 .. Len(new)
        OBVIOUS
      <4>2. SubSeq(new, 1, k + 1) = SubSeq(new, 1, k + 1 - 1) \o <<new[k + 1]>>
        BY <4>1, SubSeqRecursiveSecond
      <4> QED
        BY <4>1, <4>2
    <3>2. new[k + 1] \in S /\ <<new[k + 1]>> \in Seq(S)
      BY <1>1
    <3>3. list \o (SubSeq(new, 1, k) \o <<new[k + 1]>>) = before \o <<new[k + 1]>>
      BY <2>5, <3>2, ConcatAssociative
    <3>4. Append(before, new[k + 1]) = before \o <<new[k + 1]>>
      BY <2>6, <3>2, AppendIsConcat
    <3> QED
      BY <3>1, <3>3, <3>4
  <2>8. new[k + 1] \in S
    BY <1>1
  <2> HIDE DEF X, before
  <2>9. RingHolds(Push(iter[1 .. k], new[k + 1]), Append(before, new[k + 1]))
    BY <2>6, <2>8, PushHolds
  <2> QED
    BY <2>4, <2>7, <2>9 DEF X
<1> HIDE DEF G
<1>12. n \in G
  BY <1>1, <1>10, <1>11, NatInductive
<1>13. SubSeq(new, 1, n) = new
  BY SubSeqFull
<1>14. RingHolds(iter[1 .. n], list \o SubSeq(new, 1, n))
  BY <1>1, <1>12 DEF G
<1> QED
  BY <1>8, <1>13, <1>14

-----------------------------------------------------------------------------
(* What a packet leaves behind.                                            *)

Severities == {"Critical", "High", "Medium", "Low", "Info"}
Kinds == {"VerticalScan", "HorizontalScan", "SynFlood", "Dns", "Signature"}
Alerts == [id : Nat, kind : Kinds, src : Addresses, dst : Addresses, by : Nat]
Records == [p : Packets, at : Nat]

HistoryTyped ==
  /\ log \in Seq(Records)
  /\ raised \in Seq(Alerts)
  /\ \A i \in DOMAIN raised : raised[i].by \in DOMAIN log

(* The alerts of a packet as they enter the ring.                          *)
NewAlerts(p, alerts) ==
  [i \in DOMAIN alerts |->
     [id |-> Len(raised) + i, kind |-> alerts[i].kind,
      src |-> p.src, dst |-> p.dst, by |-> Len(log) + 1]]

PacketAlerts(p, scan, syn) ==
  AlertsOf(p, SetToSeq(scan.alerts) \o SetToSeq(syn.alerts))

LEMMA SequenceOfSet ==
  ASSUME NEW S, IsFiniteSet(S)
  PROVE  SetToSeq(S) \in Seq(S)
<1>1. PICK f : f \in Bijection(1 .. Cardinality(S), S)
  BY FS_CardinalityType DEF ExistsBijection
<1>2. f \in [1 .. Cardinality(S) -> S] /\ IsInjective(f)
  BY <1>1 DEF Bijection, Injection, IsInjective
<1>3. SetToSeq(S) \in [1 .. Cardinality(S) -> S]
  BY <1>2 DEF SetToSeq
<1> QED
  BY <1>3, FS_CardinalityType

AlertsBeing(S) == [kind : S \cup {"Dns", "Signature"}, severity : Severities]

LEMMA AlertsTyped ==
  ASSUME NEW p, NEW S, NEW stateful \in Seq(S)
  PROVE  LET alerts == AlertsOf(p, stateful) IN
         /\ alerts \in Seq(AlertsBeing(S))
         /\ \A j \in 1 .. Len(stateful) : j \in DOMAIN alerts /\ alerts[j].kind = stateful[j]
<1> DEFINE A == [kind : S \cup {"Dns", "Signature"}, severity : Severities]
           first == [i \in DOMAIN stateful |->
                       [kind |-> stateful[i], severity |-> Severity(stateful[i])]]
<1>1. /\ first \in Seq(A) /\ Len(first) = Len(stateful) /\ Len(stateful) \in Nat
      /\ \A i \in 1 .. Len(stateful) : first[i].kind = stateful[i]
  <2>1. DOMAIN stateful = 1 .. Len(stateful) /\ Len(stateful) \in Nat
        /\ \A i \in DOMAIN stateful : stateful[i] \in S
    OBVIOUS
  <2>2. first \in [1 .. Len(stateful) -> A]
    BY <2>1 DEF Severity, Severities
  <2>3. \A i \in 1 .. Len(stateful) : first[i].kind = stateful[i]
    BY <2>1
  <2> HIDE DEF A, first
  <2> QED
    BY <2>1, <2>2, <2>3
<1>2. ASSUME NEW kind \in S \cup {"Dns", "Signature"}, NEW severity \in Severities \cup {"None"}
      PROVE  Alert(kind, severity) \in Seq(A)
  <2>1. CASE severity = "None"
    BY <2>1 DEF Alert
  <2>2. CASE severity # "None"
    <3>1. [kind |-> kind, severity |-> severity] \in A
      BY <1>2, <2>2
    <3> HIDE DEF A
    <3> QED
      BY <2>2, <3>1 DEF Alert
  <2> QED
    BY <2>1, <2>2
<1>3. (IF p.app = "DNS" THEN DnsAnomaly(p.name) ELSE "None") \in Severities \cup {"None"}
  BY DEF DnsAnomaly, Severities
<1>4. SignatureMatch(p.text) \in Severities \cup {"None"}
  <2> DEFINE matching == {i \in DOMAIN Signatures : Matches(p.text, i)}
  <2>1. CASE matching = {}
    BY <2>1 DEF SignatureMatch
  <2>2. CASE matching # {}
    <3>1. DOMAIN Signatures = 1 .. Len(Signatures) /\ Len(Signatures) \in Nat
          /\ \A i \in DOMAIN Signatures : Signatures[i].severity \in Severities
      <4> DEFINE T == [severity : {"Critical", "High", "Medium", "Low", "Info"},
                       target : {"AnyPayload", "Uri", "Host", "UserAgent"}]
      <4>1. \A t \in T : t.severity \in Severities
        BY DEF Severities
      <4>2. Signatures \in Seq(T)
        BY SignaturesAssumption
      <4> HIDE DEF T
      <4> QED
        BY <4>1, <4>2
    <3>2. \E x \in matching : \A y \in matching : x <= y
      <4>1. matching \in SUBSET Nat
        BY <3>1
      <4> HIDE DEF matching
      <4> QED
        BY <2>2, <4>1, LeastNatural
    <3>3. Min(matching) \in matching
      BY <3>2 DEF Min
    <3> QED
      BY <2>2, <3>1, <3>3 DEF SignatureMatch
  <2> QED
    BY <2>1, <2>2
<1> DEFINE dns == Alert("Dns", IF p.app = "DNS" THEN DnsAnomaly(p.name) ELSE "None")
           sig == Alert("Signature", SignatureMatch(p.text))
<1>5. dns \in Seq(A) /\ sig \in Seq(A)
  BY <1>2, <1>3, <1>4
<1>6. AlertsOf(p, stateful) = first \o dns \o sig
  BY DEF AlertsOf
<1> HIDE DEF A, first, dns, sig
<1>7. first \o dns \in Seq(A) /\ (first \o dns) \o sig \in Seq(A)
  BY <1>1, <1>5
<1>8. ASSUME NEW j \in 1 .. Len(stateful)
      PROVE  j \in DOMAIN ((first \o dns) \o sig) /\ ((first \o dns) \o sig)[j] = first[j]
  <2> DEFINE both == first \o dns
  <2>1. j \in 1 .. Len(both) /\ both[j] = first[j]
    BY <1>1, <1>5
  <2>2. both \in Seq(A)
    BY <1>7
  <2> HIDE DEF both
  <2>3. j \in 1 .. Len(both \o sig) /\ (both \o sig)[j] = both[j] /\ both \o sig \in Seq(A)
    BY <1>5, <2>1, <2>2
  <2> QED
    BY <2>1, <2>3 DEF both
<1> QED
  BY <1>1, <1>6, <1>7, <1>8 DEF A, AlertsBeing

ScanAlerts == {{}, {"VerticalScan"}, {"HorizontalScan"}}
SynAlerts == {{}, {"SynFlood"}}

LEMMA PacketAlertsTyped ==
  ASSUME NEW p, NEW scan, NEW syn, scan.alerts \in ScanAlerts, syn.alerts \in SynAlerts
  PROVE  PacketAlerts(p, scan, syn) \in Seq([kind : Kinds, severity : Severities])
<1>1. IsFiniteSet(scan.alerts) /\ IsFiniteSet(syn.alerts)
  <2>1. \A x : IsFiniteSet({x})
    BY FS_Singleton
  <2> QED
    BY <2>1, FS_EmptySet DEF ScanAlerts, SynAlerts
<1>2. SetToSeq(scan.alerts) \in Seq(scan.alerts) /\ SetToSeq(syn.alerts) \in Seq(syn.alerts)
  BY <1>1, SequenceOfSet
<1>3. scan.alerts \subseteq Kinds /\ syn.alerts \subseteq Kinds
  BY DEF ScanAlerts, SynAlerts, Kinds
<1>4. SetToSeq(scan.alerts) \in Seq(Kinds) /\ SetToSeq(syn.alerts) \in Seq(Kinds)
  BY <1>2, <1>3, SeqMonotonic
<1>5. SetToSeq(scan.alerts) \o SetToSeq(syn.alerts) \in Seq(Kinds)
  BY <1>4
<1>6. AlertsBeing(Kinds) = [kind : Kinds, severity : Severities]
  <2>1. Kinds \cup {"Dns", "Signature"} = Kinds
    BY DEF Kinds
  <2> QED
    BY <2>1 DEF AlertsBeing
<1> QED
  BY <1>5, <1>6, AlertsTyped DEF PacketAlerts

(* The outcomes of the two detectors, taken apart: a scan detector that    *)
(* saw the packet has made room in both tables and put the source back.    *)
ScannedTracker(table, p, now) == Probed(Entry(table, p.src, NewScan), p, now)

LEMMA ScanStep ==
  ASSUME NEW v, NEW h, NEW p, NEW now, NEW scan \in ScanChecked(v, h, p, now)
  PROVE  \/ /\ p.dport = 0
            /\ scan = [vertical |-> v, horizontal |-> h, alerts |-> {}]
         \/ /\ p.dport # 0
            /\ \E vt \in RoomMade(v), ht \in RoomMade(h) :
                 LET v1 == ScannedTracker(vt, p, now)
                     h1 == ScannedTracker(ht, p, now) IN
                 \/ /\ VerticalScan(v1, p)
                    /\ scan = [vertical |-> With(vt, p.src, [v1 EXCEPT !.alerted = TRUE]),
                               horizontal |-> ht, alerts |-> {"VerticalScan"}]
                 \/ /\ ~ VerticalScan(v1, p) /\ HorizontalScan(h1, p)
                    /\ scan = [vertical |-> With(vt, p.src, v1),
                               horizontal |-> With(ht, p.src, [h1 EXCEPT !.alerted = TRUE]),
                               alerts |-> {"HorizontalScan"}]
                 \/ /\ ~ VerticalScan(v1, p) /\ ~ HorizontalScan(h1, p)
                    /\ scan = [vertical |-> With(vt, p.src, v1),
                               horizontal |-> With(ht, p.src, h1), alerts |-> {}]
<1>1. CASE p.dport = 0
  BY <1>1 DEF ScanChecked
<1>2. CASE p.dport # 0
  BY <1>2 DEF ScanChecked, ScannedTracker
<1> QED
  BY <1>1, <1>2

SynTracker(table, p, now) == Attempted(Entry(table, p.src, NewSource), p, now)

LEMMA SynStep ==
  ASSUME NEW table, NEW p, NEW now, NEW syn \in SynChecked(table, p, now)
  PROVE  \/ /\ p.proto # "TCP"
            /\ syn = [sources |-> table, alerts |-> {}]
         \/ /\ p.proto = "TCP" /\ ~ IsSyn(p)
            /\ syn = [sources |-> AfterAnswer(table, p), alerts |-> {}]
         \/ /\ IsSyn(p)
            /\ \E room \in RoomMade(AfterAnswer(table, p)) :
                 LET t == SynTracker(room, p, now) IN
                 syn = [sources |-> With(room, p.src, [t EXCEPT !.alerted = @ \/ Flood(t)]),
                        alerts |-> IF Flood(t) THEN {"SynFlood"} ELSE {}]
<1>1. CASE ~ IsSyn(p)
  BY <1>1 DEF SynChecked, IsSyn
<1>2. CASE IsSyn(p)
  BY <1>2 DEF SynChecked, IsSyn, SynTracker
<1> QED
  BY <1>1, <1>2

LEMMA ScanOutcomesTyped ==
  ASSUME NEW p, NEW now, NEW scan \in ScanOutcomes(p, now)
  PROVE  scan.alerts \in ScanAlerts
<1>1. PICK v, h : scan \in ScanChecked(v, h, p, now)
  BY DEF ScanOutcomes
<1>2. CASE p.dport = 0
  BY <1>1, <1>2 DEF ScanChecked, ScanAlerts
<1>3. CASE p.dport # 0
  <2> DEFINE Out(x, y, a) == [vertical |-> x, horizontal |-> y, alerts |-> a]
  <2>1. \E x, y : \/ scan = Out(x, y, {"VerticalScan"}) \/ scan = Out(x, y, {"HorizontalScan"})
                  \/ scan = Out(x, y, {})
    <3>1. PICK vt, ht :
            LET v1 == ScannedTracker(vt, p, now)
                h1 == ScannedTracker(ht, p, now) IN
            \/ scan = Out(With(vt, p.src, [v1 EXCEPT !.alerted = TRUE]), ht, {"VerticalScan"})
            \/ scan = Out(With(vt, p.src, v1), With(ht, p.src, [h1 EXCEPT !.alerted = TRUE]),
                          {"HorizontalScan"})
            \/ scan = Out(With(vt, p.src, v1), With(ht, p.src, h1), {})
      BY <1>1, <1>3, ScanStep
    <3> HIDE DEF Out
    <3> QED
      BY <3>1
  <2> QED
    BY <2>1 DEF ScanAlerts
<1> QED
  BY <1>2, <1>3

LEMMA SynOutcomesTyped ==
  ASSUME NEW p, NEW now, NEW syn \in SynOutcomes(p, now)
  PROVE  syn.alerts \in SynAlerts
<1>1. PICK table : syn \in SynChecked(table, p, now)
  BY DEF SynOutcomes
<1> DEFINE Out(x, a) == [sources |-> x, alerts |-> a]
<1>2. \E x : syn = Out(x, {}) \/ syn = Out(x, {"SynFlood"})
  <2>1. CASE ~ IsSyn(p)
    BY <1>1, <2>1, SynStep
  <2>2. CASE IsSyn(p)
    <3>1. PICK room :
            LET t == SynTracker(room, p, now)
                x == With(room, p.src, [t EXCEPT !.alerted = @ \/ Flood(t)]) IN
            syn = Out(x, IF Flood(t) THEN {"SynFlood"} ELSE {})
      BY <1>1, <2>2, SynStep DEF IsSyn
    <3> HIDE DEF Out
    <3> QED
      BY <3>1
  <2> QED
    BY <2>1, <2>2
<1> QED
  BY <1>2 DEF SynAlerts

(* A packet's step, with its alerts named.                                 *)
LEMMA PacketStep ==
  ASSUME NEW p, NEW now, Packet(p, now)
  PROVE  \E scan \in ScanOutcomes(p, now), syn \in SynOutcomes(p, now) :
           LET alerts == PacketAlerts(p, scan, syn)
               new == NewAlerts(p, alerts) IN
           /\ vertical' = scan.vertical /\ horizontal' = scan.horizontal
           /\ sources' = syn.sources
           /\ ring' = FoldLeft(Push, ring, new)
           /\ raised' = raised \o new
           /\ Evaluate(p, now, alerts)
           /\ log' = Append(log, [p |-> p, at |-> now])
BY DEF Packet, PacketAlerts, NewAlerts

LEMMA NextPacket ==
  ASSUME Next
  PROVE  \E p \in Packets, now \in Nat : Packet(p, now)
BY AnalysisAssumption DEF Next

LEMMA NewAlertsTyped ==
  ASSUME HistoryTyped, NEW p \in Packets,
         NEW alerts \in Seq([kind : Kinds, severity : Severities])
  PROVE  /\ NewAlerts(p, alerts) \in Seq(Alerts)
         /\ Len(NewAlerts(p, alerts)) = Len(alerts)
         /\ \A i \in 1 .. Len(alerts) :
              /\ NewAlerts(p, alerts)[i].kind = alerts[i].kind
              /\ NewAlerts(p, alerts)[i].src = p.src /\ NewAlerts(p, alerts)[i].dst = p.dst
              /\ NewAlerts(p, alerts)[i].by = Len(log) + 1
<1>1. DOMAIN alerts = 1 .. Len(alerts) /\ Len(alerts) \in Nat
      /\ \A i \in DOMAIN alerts : alerts[i].kind \in Kinds
  <2> DEFINE A == [kind : Kinds, severity : Severities]
  <2>1. \A a \in A : a.kind \in Kinds
    OBVIOUS
  <2>2. alerts \in Seq(A)
    OBVIOUS
  <2> HIDE DEF A
  <2> QED
    BY <2>1, <2>2
<1>2. Len(raised) \in Nat /\ Len(log) + 1 \in Nat /\ p.src \in Addresses /\ p.dst \in Addresses
  BY DEF HistoryTyped, Addresses
<1>3. \A i \in 1 .. Len(alerts) : Len(raised) + i \in Nat
  BY <1>1, <1>2
<1>4. NewAlerts(p, alerts) \in [1 .. Len(alerts) -> Alerts]
  BY <1>1, <1>2, <1>3 DEF NewAlerts, Alerts
<1>5. NewAlerts(p, alerts) \in Seq(Alerts) /\ Len(NewAlerts(p, alerts)) = Len(alerts)
  BY <1>1, <1>4
<1> QED
  BY <1>1, <1>5 DEF NewAlerts

LEMMA HistoryInit == Init => HistoryTyped
BY DEF Init, HistoryTyped

LEMMA HistoryStep ==
  ASSUME HistoryTyped, NEW p \in Packets, NEW now \in Nat, Packet(p, now)
  PROVE  /\ HistoryTyped'
         /\ \A i \in DOMAIN raised : raised'[i] = raised[i]
         /\ DOMAIN raised \subseteq DOMAIN raised'
         /\ \A i \in DOMAIN raised' \ DOMAIN raised :
              raised'[i].by = Len(log) + 1 /\ raised'[i].src = p.src /\ raised'[i].dst = p.dst
         /\ Clock' = now /\ Len(log') = Len(log) + 1
         /\ log'[Len(log) + 1] = [p |-> p, at |-> now]
         /\ \A i \in DOMAIN log : log'[i] = log[i]
<1>1. PICK scan \in ScanOutcomes(p, now), syn \in SynOutcomes(p, now) :
        /\ raised' = raised \o NewAlerts(p, PacketAlerts(p, scan, syn))
        /\ log' = Append(log, [p |-> p, at |-> now])
  BY PacketStep
<1> DEFINE new == NewAlerts(p, PacketAlerts(p, scan, syn))
           n == Len(raised)
<1>2. PacketAlerts(p, scan, syn) \in Seq([kind : Kinds, severity : Severities])
  BY ScanOutcomesTyped, SynOutcomesTyped, PacketAlertsTyped
<1>3. /\ new \in Seq(Alerts)
      /\ \A i \in 1 .. Len(new) : new[i].by = Len(log) + 1 /\ new[i].src = p.src /\ new[i].dst = p.dst
  <2> DEFINE alerts == PacketAlerts(p, scan, syn)
  <2>1. alerts \in Seq([kind : Kinds, severity : Severities])
    BY <1>2
  <2> DEFINE q == NewAlerts(p, alerts)
  <2>2. /\ q \in Seq(Alerts) /\ Len(q) = Len(alerts)
        /\ \A i \in 1 .. Len(alerts) : q[i].by = Len(log) + 1 /\ q[i].src = p.src /\ q[i].dst = p.dst
    <3> HIDE DEF alerts
    <3> QED
      BY <2>1, NewAlertsTyped
  <2>3. q = new
    OBVIOUS
  <2> HIDE DEF q, new, alerts
  <2> QED
    BY <2>2, <2>3
<1> HIDE DEF new
<1>4. log \in Seq(Records) /\ raised \in Seq(Alerts) /\ [p |-> p, at |-> now] \in Records
  BY DEF HistoryTyped, Records
<1>5. log' \in Seq(Records) /\ Len(log') = Len(log) + 1
      /\ log'[Len(log) + 1] = [p |-> p, at |-> now] /\ \A i \in DOMAIN log : log'[i] = log[i]
  BY <1>1, <1>4
<1>6. /\ raised' \in Seq(Alerts) /\ DOMAIN raised = 1 .. n /\ n \in Nat
      /\ DOMAIN raised' = 1 .. n + Len(new) /\ Len(new) \in Nat
      /\ \A i \in 1 .. n + Len(new) : raised'[i] = IF i <= n THEN raised[i] ELSE new[i - n]
  BY <1>1, <1>3, <1>4 DEF new
<1>7. \A i \in DOMAIN raised : raised'[i] = raised[i]
  BY <1>6
<1>8. ASSUME NEW i \in DOMAIN raised' \ DOMAIN raised
      PROVE  raised'[i].by = Len(log) + 1 /\ raised'[i].src = p.src /\ raised'[i].dst = p.dst
  <2>1. i - n \in 1 .. Len(new) /\ raised'[i] = new[i - n]
    BY <1>6
  <2> QED
    BY <1>3, <2>1
<1>9. \A i \in DOMAIN raised' : raised'[i].by \in DOMAIN log'
  <2>1. DOMAIN log = 1 .. Len(log) /\ DOMAIN log' = 1 .. Len(log) + 1 /\ Len(log) \in Nat
    BY <1>4, <1>5
  <2>2. \A i \in DOMAIN raised : raised'[i].by \in 1 .. Len(log)
    BY <1>7, <2>1 DEF HistoryTyped
  <2>3. \A i \in DOMAIN raised' \ DOMAIN raised : raised'[i].by \in DOMAIN log'
    BY <1>8, <2>1
  <2> QED
    BY <2>1, <2>2, <2>3
<1>10. Clock' = now
  <2>1. log' # << >> /\ Last(log') = [p |-> p, at |-> now]
    BY <1>4, <1>5 DEF Last
  <2> QED
    BY <2>1 DEF Clock
<1>11. HistoryTyped'
  BY <1>5, <1>6, <1>9 DEF HistoryTyped
<1> QED
  BY <1>5, <1>6, <1>7, <1>8, <1>10, <1>11

-----------------------------------------------------------------------------
(* The ring of a run.                                                      *)

RingInv == HistoryTyped /\ RingHolds(ring, raised)

LEMMA SmallerOf ==
  ASSUME NEW x \in Nat, NEW y \in Nat, x <= y
  PROVE  Min({x, y}) = x /\ Min({y, x}) = x
<1>1. \A z \in {x, y} : x <= z
  OBVIOUS
<1> QED
  BY <1>1 DEF Min

LEMMA RingInit == Init => RingInv
<1> SUFFICES ASSUME Init PROVE RingInv
  OBVIOUS
<1>1. /\ ring.slots = [i \in 0 .. RingCapacity - 1 |-> NoAlert]
      /\ ring.head = 0 /\ ring.tail = 0 /\ ring.size = 0 /\ ring.dropped = 0
      /\ ring = [slots |-> ring.slots, head |-> ring.head, tail |-> ring.tail,
                 size |-> ring.size, dropped |-> ring.dropped]
  BY DEF Init, NewRing
<1>2. RingTyped(ring)
  BY <1>1, RingAssumption DEF RingTyped
<1>3. raised = << >>
  BY DEF Init
<1> QED
  BY <1>1, <1>2, <1>3, HistoryInit DEF RingInv, RingHolds

LEMMA RingStep == RingInv /\ [Next]_vars => RingInv'
<1> SUFFICES ASSUME RingInv, [Next]_vars PROVE RingInv'
  OBVIOUS
<1>1. CASE UNCHANGED vars
  BY <1>1 DEF RingInv, HistoryTyped, RingHolds, RingTyped, vars
<1>2. CASE Next
  <2>1. PICK p \in Packets, now \in Nat : Packet(p, now)
    BY <1>2, NextPacket DEF RingInv
  <2>2. PICK scan \in ScanOutcomes(p, now), syn \in SynOutcomes(p, now) :
          /\ ring' = FoldLeft(Push, ring, NewAlerts(p, PacketAlerts(p, scan, syn)))
          /\ raised' = raised \o NewAlerts(p, PacketAlerts(p, scan, syn))
    BY <2>1, PacketStep
  <2> DEFINE new == NewAlerts(p, PacketAlerts(p, scan, syn))
  <2>3. new \in Seq(Alerts)
    BY ScanOutcomesTyped, SynOutcomesTyped, PacketAlertsTyped, NewAlertsTyped DEF RingInv
  <2> HIDE DEF new
  <2>4. RingHolds(FoldLeft(Push, ring, new), raised \o new)
    BY <2>3, PushesHold DEF RingInv, HistoryTyped
  <2>5. RingHolds(ring, raised)'
    BY <2>2, <2>4 DEF new
  <2>6. HistoryTyped'
    BY <2>1, HistoryStep DEF RingInv
  <2> QED
    BY <2>5, <2>6 DEF RingInv
<1> QED
  BY <1>1, <1>2

LEMMA RingInvariant == Spec => []RingInv
BY RingInit, RingStep, PTL DEF Spec

(* The ring always holds the newest alerts, oldest first, as many as it    *)
(* has room for, and counts exactly those it has overwritten.              *)
THEOREM RingExact == Spec => []RingKeepsNewest
<1>1. ASSUME RingInv
      PROVE  RingKeepsNewest
  <2> DEFINE n == Len(raised)
             d == ring.dropped
  <2>1. /\ raised \in Seq(Alerts) /\ n \in Nat /\ DOMAIN raised = 1 .. n
        /\ d \in Nat /\ ring.size \in 0 .. RingCapacity /\ d + ring.size = n
        /\ ring.tail \in 0 .. RingCapacity - 1
        /\ ring.size < RingCapacity => d = 0
        /\ RingCapacity \in Nat \ {0}
    BY <1>1, RingAssumption DEF RingInv, HistoryTyped, RingHolds, RingTyped
  <2>2. ring.size = Min({RingCapacity, n})
    <3>1. CASE ring.size < RingCapacity
      <4>1. ring.size = n /\ n <= RingCapacity
        BY <2>1, <3>1
      <4> QED
        BY <2>1, <4>1, SmallerOf
    <3>2. CASE ~(ring.size < RingCapacity)
      <4>1. ring.size = RingCapacity /\ RingCapacity <= n
        BY <2>1, <3>2
      <4> QED
        BY <2>1, <4>1, SmallerOf
    <3> QED
      BY <3>1, <3>2
  <2>3. Snapshot(ring) = SubSeq(raised, d + 1, n)
    <3> DEFINE newest == SubSeq(raised, d + 1, n)
               kept == Snapshot(ring)
    <3>1. ASSUME NEW i \in 1 .. ring.size
          PROVE  kept[i] = raised[d + i]
      <4> DEFINE j == i - 1
      <4>1. j \in 0 .. ring.size - 1 /\ ring.tail + j \in Nat
            /\ ring.tail + j < 2 * RingCapacity /\ d + j + 1 = d + i
            /\ ring.tail + i - 1 = ring.tail + j
        <5> HIDE DEF d, n
        <5>1. d \in Nat /\ ring.size \in 0 .. RingCapacity /\ RingCapacity \in Nat
              /\ ring.tail \in 0 .. RingCapacity - 1
          BY <2>1
        <5> QED
          BY <5>1
      <4>2. kept[i] = ring.slots[(ring.tail + i - 1) % RingCapacity]
        BY DEF Snapshot
      <4>3. ring.slots[Place(ring.tail + j)] = raised[d + j + 1]
        BY <1>1, <4>1 DEF RingInv, RingHolds
      <4>4. (ring.tail + j) % RingCapacity = Place(ring.tail + j)
        BY <4>1, Wrapped
      <4> HIDE DEF j, kept
      <4> QED
        BY <4>1, <4>2, <4>3, <4>4
    <3>2. \A i \in 1 .. ring.size : d + i \in 1 .. n /\ raised[d + i] \in Alerts
      BY <2>1
    <3>3. kept \in Seq(Alerts) /\ Len(kept) = ring.size
      <4>1. kept \in [1 .. ring.size -> Alerts]
        BY <3>1, <3>2 DEF Snapshot
      <4> HIDE DEF kept
      <4> QED
        BY <2>1, <4>1
    <3>4. /\ newest \in Seq(Alerts) /\ Len(newest) = ring.size
          /\ \A i \in 1 .. ring.size : newest[i] = raised[d + i]
      <4>1. \A i \in d + 1 .. n : raised[i] \in Alerts
        BY <2>1
      <4>2. /\ newest \in Seq(Alerts)
            /\ Len(newest) = IF d + 1 <= n THEN n - (d + 1) + 1 ELSE 0
            /\ \A i \in 1 .. n - (d + 1) + 1 : newest[i] = raised[(d + 1) + i - 1]
        <5> HIDE DEF d, n
        <5>1. d + 1 \in Int /\ n \in Int
          BY <2>1
        <5> QED
          BY <4>1, <5>1, SubSeqProperties
      <4>3. n - (d + 1) + 1 = ring.size /\ (d + 1 <= n \/ ring.size = 0)
            /\ \A i \in 1 .. ring.size : (d + 1) + i - 1 = d + i
        BY <2>1
      <4> HIDE DEF newest
      <4> QED
        BY <4>2, <4>3
    <3> HIDE DEF kept, newest
    <3>5. kept = newest
      BY <3>1, <3>3, <3>4, SeqEqual
    <3> QED
      BY <3>5 DEF kept, newest
  <2> QED
    BY <2>1, <2>2, <2>3 DEF RingKeepsNewest
<1> QED
  BY <1>1, RingInvariant, PTL

-----------------------------------------------------------------------------
(* The tables of the detectors.                                            *)

Bounded(table) ==
  /\ DOMAIN table \subseteq Addresses
  /\ IsFiniteSet(DOMAIN table) /\ Cardinality(DOMAIN table) <= MaxTracked

(* Part(part, table): the sources in part are tracked in table as well.    *)
Part(part, table) ==
  /\ DOMAIN part \subseteq DOMAIN table
  /\ \A s \in DOMAIN part : part[s] = table[s]

LEMMA WithEntry ==
  ASSUME NEW table, NEW s, NEW t
  PROVE  /\ DOMAIN With(table, s, t) = DOMAIN table \cup {s}
         /\ With(table, s, t)[s] = t
         /\ \A r \in DOMAIN table : r # s => With(table, s, t)[r] = table[r]
BY DEF With

LEMMA RoomIsMade ==
  ASSUME NEW table, IsFiniteSet(DOMAIN table), Cardinality(DOMAIN table) <= MaxTracked,
         NEW room \in RoomMade(table)
  PROVE  /\ Part(room, table)
         /\ IsFiniteSet(DOMAIN room) /\ Cardinality(DOMAIN room) < MaxTracked
         /\ Cardinality(DOMAIN table) < MaxTracked => room = table
<1>1. Cardinality(DOMAIN table) \in Nat /\ MaxTracked \in Nat \ {0}
  BY FS_CardinalityType, TrackersAssumption
<1>2. CASE Cardinality(DOMAIN table) < MaxTracked
  BY <1>2 DEF RoomMade, Part
<1>3. CASE ~(Cardinality(DOMAIN table) < MaxTracked)
  <2>1. PICK s \in DOMAIN table : room = Without(table, s)
    BY <1>3 DEF RoomMade, Oldest
  <2>2. DOMAIN room = DOMAIN table \ {s} /\ \A r \in DOMAIN room : room[r] = table[r]
    BY <2>1 DEF Without, Restrict
  <2>3. /\ IsFiniteSet(DOMAIN table \ {s})
        /\ Cardinality(DOMAIN table \ {s}) = Cardinality(DOMAIN table) - 1
    BY FS_RemoveElement
  <2> QED
    BY <1>1, <1>3, <2>2, <2>3 DEF Part
<1> QED
  BY <1>2, <1>3

LEMMA PartBounded ==
  ASSUME NEW table, Bounded(table), NEW part, DOMAIN part \subseteq DOMAIN table
  PROVE  Bounded(part)
<1>1. /\ IsFiniteSet(DOMAIN part) /\ Cardinality(DOMAIN part) <= Cardinality(DOMAIN table)
      /\ Cardinality(DOMAIN part) \in Nat /\ Cardinality(DOMAIN table) \in Nat
  BY FS_Subset, FS_CardinalityType DEF Bounded
<1>2. MaxTracked \in Nat
  BY TrackersAssumption
<1> QED
  BY <1>1, <1>2 DEF Bounded

LEMMA EntryPut ==
  ASSUME NEW table, Bounded(table), NEW room \in RoomMade(table), NEW s \in Addresses, NEW t
  PROVE  Bounded(With(room, s, t))
<1>1. /\ IsFiniteSet(DOMAIN room) /\ Cardinality(DOMAIN room) < MaxTracked
      /\ DOMAIN room \subseteq Addresses
  BY RoomIsMade DEF Bounded, Part
<1>2. /\ IsFiniteSet(DOMAIN room \cup {s}) /\ Cardinality(DOMAIN room) \in Nat
      /\ Cardinality(DOMAIN room \cup {s}) =
           IF s \in DOMAIN room THEN Cardinality(DOMAIN room) ELSE Cardinality(DOMAIN room) + 1
  BY <1>1, FS_AddElement, FS_CardinalityType
<1>3. MaxTracked \in Nat
  BY TrackersAssumption
<1>4. Cardinality(DOMAIN room \cup {s}) <= MaxTracked
  BY <1>1, <1>2, <1>3
<1> DEFINE table1 == With(room, s, t)
<1>5. DOMAIN table1 = DOMAIN room \cup {s}
  BY WithEntry
<1> HIDE DEF table1
<1>6. Bounded(table1)
  BY <1>1, <1>2, <1>4, <1>5 DEF Bounded
<1> QED
  BY <1>6 DEF table1

(* What an answer and a cleanup leave of the table of sources.             *)
LEMMA AnswerKeepsSources ==
  ASSUME NEW table, NEW p
  PROVE  DOMAIN AfterAnswer(table, p) = DOMAIN table
BY DEF AfterAnswer, Answered

LEMMA CleaningShrinks ==
  ASSUME NEW table, NEW now
  PROVE  /\ Part(ScansCleaned(table, now), table)
         /\ DOMAIN SourcesCleaned(table, now) \subseteq DOMAIN table
BY DEF ScansCleaned, SourcesCleaned, Fresher, Restrict, Part

TablesBounded == Bounded(vertical) /\ Bounded(horizontal) /\ Bounded(sources)

LEMMA TablesInit == Init => TablesBounded
<1> SUFFICES ASSUME Init PROVE TablesBounded
  OBVIOUS
<1>1. DOMAIN vertical = {} /\ DOMAIN horizontal = {} /\ DOMAIN sources = {}
  BY DEF Init
<1>2. MaxTracked \in Nat
  BY TrackersAssumption
<1> QED
  BY <1>1, <1>2, FS_EmptySet DEF TablesBounded, Bounded

LEMMA TablesStep ==
  ASSUME TablesBounded, NEW p \in Packets, NEW now, Packet(p, now)
  PROVE  TablesBounded'
<1>1. p.src \in Addresses
  BY DEF Addresses
<1>2. PICK scan \in ScanOutcomes(p, now), syn \in SynOutcomes(p, now) :
        vertical' = scan.vertical /\ horizontal' = scan.horizontal /\ sources' = syn.sources
  BY PacketStep
<1>3. Bounded(scan.vertical) /\ Bounded(scan.horizontal)
  <2>1. PICK v, h : scan \in ScanChecked(v, h, p, now) /\ Bounded(v) /\ Bounded(h)
    BY CleaningShrinks, PartBounded DEF ScanOutcomes, TablesBounded, Part
  <2>2. CASE p.dport = 0
    BY <2>1, <2>2, ScanStep
  <2>3. CASE p.dport # 0
    <3>1. PICK vt \in RoomMade(v), ht \in RoomMade(h) :
            /\ \E t : scan.vertical = With(vt, p.src, t)
            /\ scan.horizontal = ht \/ \E t : scan.horizontal = With(ht, p.src, t)
      <4> DEFINE Out(x, y, a) == [vertical |-> x, horizontal |-> y, alerts |-> a]
      <4>1. PICK vt \in RoomMade(v), ht \in RoomMade(h) :
              LET v1 == ScannedTracker(vt, p, now)
                  h1 == ScannedTracker(ht, p, now) IN
              \/ scan = Out(With(vt, p.src, [v1 EXCEPT !.alerted = TRUE]), ht, {"VerticalScan"})
              \/ scan = Out(With(vt, p.src, v1), With(ht, p.src, [h1 EXCEPT !.alerted = TRUE]),
                            {"HorizontalScan"})
              \/ scan = Out(With(vt, p.src, v1), With(ht, p.src, h1), {})
        BY <2>1, <2>3, ScanStep
      <4>2. \A x, y, a : Out(x, y, a).vertical = x /\ Out(x, y, a).horizontal = y
        OBVIOUS
      <4> HIDE DEF Out
      <4> QED
        BY <4>1, <4>2
    <3>2. Bounded(ht)
      BY <2>1, RoomIsMade, PartBounded DEF Bounded, Part
    <3> QED
      BY <1>1, <2>1, <3>1, <3>2, EntryPut
  <2> QED
    BY <2>2, <2>3
<1>4. Bounded(syn.sources)
  <2>1. PICK table : syn \in SynChecked(table, p, now) /\ Bounded(table)
    BY CleaningShrinks, PartBounded DEF SynOutcomes, TablesBounded
  <2>2. Bounded(AfterAnswer(table, p))
    BY <2>1, AnswerKeepsSources, PartBounded
  <2>3. CASE ~ IsSyn(p)
    <3>1. syn.sources = table \/ syn.sources = AfterAnswer(table, p)
      BY <2>1, <2>3, SynStep
    <3> QED
      BY <2>1, <2>2, <3>1
  <2>4. CASE IsSyn(p)
    <3>1. PICK room \in RoomMade(AfterAnswer(table, p)) :
            \E t : syn.sources = With(room, p.src, t)
      <4> DEFINE Out(x, a) == [sources |-> x, alerts |-> a]
      <4>1. PICK room \in RoomMade(AfterAnswer(table, p)) :
              LET t == SynTracker(room, p, now)
                  x == With(room, p.src, [t EXCEPT !.alerted = @ \/ Flood(t)]) IN
              syn = Out(x, IF Flood(t) THEN {"SynFlood"} ELSE {})
        BY <2>1, <2>4, SynStep DEF IsSyn
      <4>2. \A x, a : Out(x, a).sources = x
        OBVIOUS
      <4> HIDE DEF Out
      <4> QED
        BY <4>1, <4>2
    <3> QED
      BY <1>1, <2>2, <3>1, EntryPut
  <2> QED
    BY <2>3, <2>4
<1> QED
  BY <1>2, <1>3, <1>4 DEF TablesBounded

-----------------------------------------------------------------------------
(* The scores of flows and hosts.                                          *)

Scores == 0 .. 100
Ratings == [ip : Addresses, score : Scores]

LEMMA ScoreInRange ==
  ASSUME NEW m, NEW classified, NEW policy \in DOMAIN PolicyWeight,
         NEW severities \in Seq(Severities), NEW dport
  PROVE  Score(m, classified, policy, severities, dport) \in Scores
<1> DEFINE weights == [i \in DOMAIN severities |-> SeverityWeight[severities[i]]]
           sum == SumOver(weights, DOMAIN severities)
           raw == RawScore(m, classified, policy, severities, dport)
<1>1. sum \in Nat
  <2>1. IsFiniteSet(DOMAIN severities)
    <3>1. DOMAIN severities = 1 .. Len(severities) /\ Len(severities) \in Nat
      OBVIOUS
    <3> QED
      BY <3>1, FS_Interval
  <2>2. \A i \in DOMAIN severities : weights[i] \in Nat
    BY DEF Severities, SeverityWeight
  <2> HIDE DEF weights
  <2> QED
    BY <2>1, <2>2, SumOverSet
<1>2. PolicyWeight[policy] \in Nat
  BY DEF PolicyWeight
<1>3. PICK a \in {0, 35}, b \in {0, 30}, c \in {0, 15}, d \in {0, 10} :
        raw = sum + PolicyWeight[policy] + a + b + c + d
  BY DEF RawScore, SumOver
<1> DEFINE w == PolicyWeight[policy]
<1> HIDE DEF sum, raw, w
<1>4. raw \in Nat
  <2>1. sum \in Nat /\ w \in Nat /\ a \in Nat /\ b \in Nat /\ c \in Nat /\ d \in Nat
    BY <1>1, <1>2 DEF w
  <2>2. raw = sum + w + a + b + c + d
    BY <1>3 DEF w
  <2> QED
    BY <2>1, <2>2
<1>7. Score(m, classified, policy, severities, dport) = Min({100, raw})
  BY DEF Score, raw
<1>5. CASE raw <= 100
  <2>1. Min({100, raw}) = raw
    BY <1>4, <1>5, SmallerOf
  <2> QED
    BY <1>4, <1>5, <1>7, <2>1 DEF Scores
<1>6. CASE 100 <= raw
  <2>1. Min({100, raw}) = 100
    BY <1>4, <1>6, SmallerOf
  <2> QED
    BY <1>7, <2>1 DEF Scores
<1> QED
  BY <1>4, <1>5, <1>6

(* The two ends of a flow key are those of the packet.                     *)
LEMMA KeyEnds ==
  ASSUME NEW p \in Packets
  PROVE  FlowKey(p).src.ip \in Addresses /\ FlowKey(p).dst.ip \in Addresses
<1>1. p.src \in Addresses /\ p.dst \in Addresses
  BY DEF Addresses
<1> QED
  BY <1>1 DEF FlowKey, F!Create

(* The rating of a packet: one score, kept for the flow and given to both  *)
(* hosts.                                                                  *)
LEMMA Evaluated ==
  ASSUME NEW p \in Packets, NEW now, NEW alerts \in Seq([kind : Kinds, severity : Severities]),
         Evaluate(p, now, alerts)
  PROVE  \E m : \E score \in Scores, src \in Addresses, dst \in Addresses :
           /\ flows' = With(flows, FlowKey(p), [metrics |-> m, score |-> score])
           /\ hosts' = HostUpdated(HostUpdated(hosts, src, score, m), dst, score, m)
           /\ updates' = updates \o <<[ip |-> src, score |-> score], [ip |-> dst, score |-> score]>>
<1> DEFINE key == FlowKey(p)
           old == IF key \in DOMAIN flows THEN flows[key].metrics ELSE NewMetrics
           m == Updated(old, p.size, p.src = key.src.ip, now)
           severities == [i \in DOMAIN alerts |-> alerts[i].severity]
           score == Score(m, p.app # "Unknown", p.policy, severities, p.dport)
<1>1. severities \in Seq(Severities)
  <2> DEFINE A == [kind : Kinds, severity : Severities]
  <2>1. \A a \in A : a.severity \in Severities
    OBVIOUS
  <2>2. alerts \in Seq(A)
    OBVIOUS
  <2> HIDE DEF A
  <2>3. DOMAIN alerts = 1 .. Len(alerts) /\ Len(alerts) \in Nat
        /\ \A i \in DOMAIN alerts : alerts[i].severity \in Severities
    BY <2>1, <2>2
  <2>4. severities \in [1 .. Len(alerts) -> Severities]
    BY <2>3
  <2> HIDE DEF severities
  <2> QED
    BY <2>3, <2>4
<1>2. p.policy \in DOMAIN PolicyWeight
  BY AnalysisAssumption
<1> HIDE DEF m, severities
<1>3. score \in Scores
  BY <1>1, <1>2, ScoreInRange
<1>4. key.src.ip \in Addresses /\ key.dst.ip \in Addresses
  BY KeyEnds
<1>5. /\ flows' = With(flows, key, [metrics |-> m, score |-> score])
      /\ hosts' = HostUpdated(HostUpdated(hosts, key.src.ip, score, m), key.dst.ip, score, m)
      /\ updates' = updates \o <<[ip |-> key.src.ip, score |-> score],
                                 [ip |-> key.dst.ip, score |-> score]>>
  BY DEF Evaluate, m, severities
<1> DEFINE src == key.src.ip
           dst == key.dst.ip
<1>6. /\ flows' = With(flows, FlowKey(p), [metrics |-> m, score |-> score])
      /\ hosts' = HostUpdated(HostUpdated(hosts, src, score, m), dst, score, m)
      /\ updates' = updates \o <<[ip |-> src, score |-> score], [ip |-> dst, score |-> score]>>
      /\ src \in Addresses /\ dst \in Addresses
  BY <1>4, <1>5
<1> HIDE DEF key, score, src, dst
<1> QED
  BY <1>3, <1>6

-----------------------------------------------------------------------------
(* The last ratings of the hosts in a list of ratings.                     *)

LEMMA LastRatingIs ==
  ASSUME NEW u \in Seq(Ratings), NEW ip, NEW k \in 0 .. Len(u)
  PROVE  /\ LastRating(u, ip, k) \in 0 .. k
         /\ \A i \in 1 .. k : u[i].ip = ip => i <= LastRating(u, ip, k)
         /\ ip \in RatedHosts(u, k) =>
              LastRating(u, ip, k) \in 1 .. k /\ u[LastRating(u, ip, k)].ip = ip
         /\ ip \notin RatedHosts(u, k) => LastRating(u, ip, k) = 0
<1> DEFINE T == {0} \cup {i \in 1 .. k : u[i].ip = ip}
<1>1. k \in Nat /\ T \in SUBSET (0 .. k) /\ T # {}
  OBVIOUS
<1>2. LastRating(u, ip, k) = Max(T)
  BY DEF LastRating
<1>3. Max(T) \in T /\ \A x \in T : Max(T) >= x
  <2> HIDE DEF T
  <2> QED
    BY <1>1, LargestIndex
<1>4. \A i \in 1 .. k : u[i].ip = ip => i \in T
  OBVIOUS
<1> DEFINE r == Max(T)
<1>5. r \in T /\ \A x \in T : r >= x
  BY <1>3
<1> HIDE DEF r
<1>6. r \in 0 .. k /\ (\A i \in 1 .. k : u[i].ip = ip => i <= r)
      /\ (r # 0 => u[r].ip = ip /\ r \in 1 .. k)
  BY <1>1, <1>5
<1>7. ip \in RatedHosts(u, k) => r # 0
  BY <1>6 DEF RatedHosts
<1>8. ip \notin RatedHosts(u, k) => r = 0
  BY <1>6 DEF RatedHosts
<1> QED
  BY <1>2, <1>6, <1>7, <1>8 DEF r

LEMMA LastRatingsDiffer ==
  ASSUME NEW u \in Seq(Ratings), NEW k \in 0 .. Len(u),
         NEW x \in RatedHosts(u, k), NEW y \in RatedHosts(u, k), x # y
  PROVE  LastRating(u, x, k) # LastRating(u, y, k)
<1>1. u[LastRating(u, x, k)].ip = x /\ u[LastRating(u, y, k)].ip = y
  BY LastRatingIs
<1> QED
  BY <1>1

(* A maximum is known by its properties.                                   *)
LEMMA MaxUnique ==
  ASSUME NEW T \in SUBSET Int, NEW m \in T, \A x \in T : m >= x
  PROVE  Max(T) = m
<1>1. Max(T) \in T /\ \A y \in T : Max(T) >= y
  BY DEF Max
<1>2. Max(T) >= m /\ m >= Max(T) /\ Max(T) \in Int /\ m \in Int
  BY <1>1
<1> QED
  BY <1>2

LEMMA LargerOf ==
  ASSUME NEW x \in Nat, NEW y \in Nat, x <= y
  PROVE  Max({x, y}) = y /\ Max({y, x}) = y
<1>1. {x, y} \in SUBSET Int /\ {x, y} = {y, x} /\ y \in {x, y} /\ \A z \in {x, y} : y >= z
  OBVIOUS
<1> QED
  BY <1>1, MaxUnique

(* One rating more.                                                        *)
LEMMA RatingAdded ==
  ASSUME NEW u \in Seq(Ratings), NEW e \in Ratings
  PROVE  LET n == Len(u)
             v == Append(u, e) IN
         /\ \A k \in 0 .. n : \A ip : LastRating(v, ip, k) = LastRating(u, ip, k)
         /\ \A k \in 0 .. n : RatedHosts(v, k) = RatedHosts(u, k) /\ Kept(v, k) = Kept(u, k)
         /\ LastRating(v, e.ip, n + 1) = n + 1
         /\ \A ip : ip # e.ip => LastRating(v, ip, n + 1) = LastRating(u, ip, n)
         /\ RatedHosts(v, n + 1) = RatedHosts(u, n) \cup {e.ip}
<1> DEFINE n == Len(u)
           v == Append(u, e)
<1>1. n \in Nat /\ v \in Seq(Ratings) /\ Len(v) = n + 1 /\ v[n + 1] = e
      /\ \A i \in 1 .. n : v[i] = u[i]
  OBVIOUS
<1> HIDE DEF n, v
<1>2. ASSUME NEW k \in 0 .. n
      PROVE  /\ \A ip : LastRating(v, ip, k) = LastRating(u, ip, k)
             /\ RatedHosts(v, k) = RatedHosts(u, k)
  <2>1. \A i \in 1 .. k : v[i].ip = u[i].ip
    BY <1>1
  <2>2. \A ip : {i \in 1 .. k : v[i].ip = ip} = {i \in 1 .. k : u[i].ip = ip}
    BY <2>1
  <2>3. \A ip : LastRating(v, ip, k) = LastRating(u, ip, k)
    BY <2>2 DEF LastRating
  <2>4. RatedHosts(v, k) = RatedHosts(u, k)
    BY <2>1 DEF RatedHosts
  <2> QED
    BY <2>3, <2>4
<1>3. ASSUME NEW k \in 0 .. n
      PROVE  Kept(v, k) = Kept(u, k)
  BY <1>2 DEF Kept, RatedLately
<1>4. LastRating(v, e.ip, n + 1) = n + 1
  <2>1. /\ LastRating(v, e.ip, n + 1) \in 0 .. n + 1
        /\ \A i \in 1 .. n + 1 : v[i].ip = e.ip => i <= LastRating(v, e.ip, n + 1)
    <3>1. n + 1 \in 0 .. Len(v)
      BY <1>1
    <3> QED
      BY <1>1, <3>1, LastRatingIs
  <2>2. n + 1 <= LastRating(v, e.ip, n + 1)
    BY <1>1, <2>1
  <2> QED
    BY <1>1, <2>1, <2>2
<1>5. ASSUME NEW ip, ip # e.ip
      PROVE  LastRating(v, ip, n + 1) = LastRating(u, ip, n)
  <2>1. {i \in 1 .. n + 1 : v[i].ip = ip} = {i \in 1 .. n : u[i].ip = ip}
    BY <1>1, <1>5
  <2> QED
    BY <2>1 DEF LastRating
<1>6. RatedHosts(v, n + 1) = RatedHosts(u, n) \cup {e.ip}
  BY <1>1 DEF RatedHosts
<1> QED
  BY <1>2, <1>3, <1>4, <1>5, <1>6 DEF n, v

(* The profile of a host that has had the ratings R, which may be none.    *)
Totals(profile, u, R) ==
  /\ profile.evaluations = Cardinality(R)
  /\ profile.max \in Nat
  /\ \A i \in R : u[i].score <= profile.max
  /\ profile.max # 0 => \E i \in R : u[i].score = profile.max
  /\ profile.sum = SumOver([i \in DOMAIN u |-> u[i].score], R)

LEMMA ScoreFacts ==
  ASSUME NEW u \in Seq(Ratings)
  PROVE  /\ DOMAIN u = 1 .. Len(u) /\ Len(u) \in Nat
         /\ \A i \in 1 .. Len(u) : u[i].score \in Nat
<1>1. \A r \in Ratings : r.score \in Nat
  <2>1. \A r \in Ratings : r.score \in Scores
    BY DEF Ratings
  <2>2. \A x \in Scores : x \in Nat
    BY DEF Scores
  <2> QED
    BY <2>1, <2>2
<1>2. \A i \in 1 .. Len(u) : u[i] \in Ratings
  OBVIOUS
<1>3. DOMAIN u = 1 .. Len(u) /\ Len(u) \in Nat
  OBVIOUS
<1> QED
  BY <1>1, <1>2, <1>3

LEMMA IndicesFinite ==
  ASSUME NEW n \in Nat, NEW R \in SUBSET (1 .. n)
  PROVE  IsFiniteSet(R) /\ Cardinality(R) \in Nat
<1>1. IsFiniteSet(1 .. n)
  BY FS_Interval
<1> QED
  BY <1>1, FS_Subset, FS_CardinalityType

LEMMA TotalsSumUp ==
  ASSUME NEW u \in Seq(Ratings), NEW R \in SUBSET DOMAIN u, R # {},
         NEW profile, Totals(profile, u, R)
  PROVE  SumsUp(profile, u, R)
<1> DEFINE score == [i \in DOMAIN u |-> u[i].score]
           T == {score[i] : i \in R}
<1>1. \A i \in R : score[i] = u[i].score /\ score[i] \in Nat
  BY ScoreFacts
<1>2. profile.max \in T
  <2>1. CASE profile.max = 0
    <3>1. PICK i \in R : TRUE
      OBVIOUS
    <3>2. score[i] = 0
      <4>1. u[i].score <= 0 /\ score[i] = u[i].score /\ score[i] \in Nat
        BY <1>1, <2>1, <3>1 DEF Totals
      <4> HIDE DEF score
      <4> QED
        BY <4>1
    <3> QED
      BY <2>1, <3>1, <3>2
  <2>2. CASE profile.max # 0
    BY <1>1, <2>2 DEF Totals
  <2> QED
    BY <2>1, <2>2
<1>3. \A x \in T : profile.max >= x
  <2> SUFFICES ASSUME NEW i \in R
               PROVE  profile.max >= score[i]
    OBVIOUS
  <2>1. u[i].score <= profile.max /\ score[i] = u[i].score /\ score[i] \in Nat
        /\ profile.max \in Nat
    BY <1>1 DEF Totals
  <2> HIDE DEF score
  <2> QED
    BY <2>1
<1>4. T \in SUBSET Int
  <2> SUFFICES ASSUME NEW i \in R
               PROVE  score[i] \in Int
    OBVIOUS
  <2> HIDE DEF score
  <2> QED
    BY <1>1
<1>5. Max(T) = profile.max
  <2> HIDE DEF T
  <2> QED
    BY <1>2, <1>3, <1>4, MaxUnique
<1> QED
  BY <1>5 DEF Totals, SumsUp, SumOver

LEMMA TotalsStay ==
  ASSUME NEW u \in Seq(Ratings), NEW e \in Ratings, NEW R \in SUBSET DOMAIN u,
         NEW profile, Totals(profile, u, R)
  PROVE  Totals(profile, Append(u, e), R)
<1> DEFINE v == Append(u, e)
           score == [i \in DOMAIN u |-> u[i].score]
           after == [i \in DOMAIN v |-> v[i].score]
<1>1. /\ DOMAIN u = 1 .. Len(u) /\ Len(u) \in Nat
      /\ \A i \in DOMAIN u : u[i].score \in Nat
  BY ScoreFacts
<1>2. DOMAIN u \subseteq DOMAIN v /\ \A i \in DOMAIN u : v[i] = u[i]
  OBVIOUS
<1>3. IsFiniteSet(R)
  BY <1>1, IndicesFinite
<1>4. \A i \in R : score[i] \in Nat /\ after[i] = score[i] /\ v[i] = u[i]
  BY <1>1, <1>2
<1>5. SumOver(after, R) = SumOver(score, R)
  <2> HIDE DEF score, after
  <2> QED
    BY <1>3, <1>4, SumOverSame
<1> QED
  BY <1>4, <1>5 DEF Totals

(* A rating is added up (host_risk_profiler.cpp:33-45).                    *)
LEMMA TotalsGrow ==
  ASSUME NEW u \in Seq(Ratings), NEW e \in Ratings, NEW R \in SUBSET DOMAIN u,
         NEW profile, Totals(profile, u, R), NEW m
  PROVE  Totals(Rated(profile, e.score, m), Append(u, e), R \cup {Len(u) + 1})
<1> DEFINE v == Append(u, e)
           n == Len(u)
           S == R \cup {n + 1}
           after == [i \in DOMAIN v |-> v[i].score]
           new == Rated(profile, e.score, m)
<1>1. /\ DOMAIN u = 1 .. n /\ n \in Nat /\ v \in Seq(Ratings)
      /\ DOMAIN v = 1 .. n + 1 /\ v[n + 1] = e /\ \A i \in 1 .. n : v[i] = u[i]
  OBVIOUS
<1>2. \A i \in DOMAIN v : v[i].score \in Nat
  BY <1>1, ScoreFacts
<1>3. Totals(profile, v, R)
  BY TotalsStay
<1>4. /\ R \in SUBSET (1 .. n) /\ n + 1 \notin R /\ S \in SUBSET DOMAIN v
      /\ S \ {n + 1} = R /\ n + 1 \in S
  BY <1>1
<1>5. e.score \in Nat /\ v[n + 1].score = e.score /\ profile.max \in Nat
  BY <1>1, <1>2, <1>3 DEF Totals
<1>6. IsFiniteSet(R) /\ IsFiniteSet(S) /\ Cardinality(S) = Cardinality(R) + 1
  BY <1>1, <1>4, IndicesFinite, FS_AddElement
<1>7. SumOver(after, S) = e.score + SumOver(after, R) /\ SumOver(after, R) \in Nat
  <2>1. \A i \in S : after[i] \in Nat
    BY <1>2, <1>4
  <2>2. after[n + 1] = e.score /\ \A i \in R : after[i] \in Nat
    BY <1>1, <1>4, <2>1
  <2> HIDE DEF after, S
  <2> QED
    BY <1>4, <1>6, <2>1, <2>2, SumOverSet
<1>8. /\ new.evaluations = profile.evaluations + 1
      /\ new.sum = profile.sum + e.score
      /\ new.max = Max({profile.max, e.score})
  BY DEF Rated
<1>9. /\ new.max \in {profile.max, e.score}
      /\ profile.max <= new.max /\ e.score <= new.max
  <2>1. CASE profile.max <= e.score
    <3>1. Max({profile.max, e.score}) = e.score
      BY <1>5, <2>1, LargerOf
    <3> QED
      BY <1>5, <1>8, <2>1, <3>1
  <2>2. CASE e.score <= profile.max
    <3>1. Max({profile.max, e.score}) = profile.max
      BY <1>5, <2>2, LargerOf
    <3> QED
      BY <1>5, <1>8, <2>2, <3>1
  <2> QED
    BY <1>5, <2>1, <2>2
<1> HIDE DEF new, after, S, v, n
<1>10. new.max \in Nat
  BY <1>5, <1>9
<1>11. ASSUME NEW i \in S
       PROVE  v[i].score <= new.max
  <2>1. CASE i = n + 1
    BY <1>5, <1>9, <2>1
  <2>2. CASE i \in R
    <3>1. v[i].score <= profile.max /\ v[i].score \in Nat
      BY <1>1, <1>2, <1>3, <1>4, <2>2 DEF Totals
    <3> QED
      BY <1>5, <1>9, <1>10, <3>1
  <2> QED
    BY <1>4, <2>1, <2>2
<1>12. new.max # 0 => \E i \in S : v[i].score = new.max
  <2>1. CASE new.max = e.score
    BY <1>4, <1>5, <2>1
  <2>2. CASE new.max = profile.max
    BY <1>3, <1>4, <2>2 DEF Totals
  <2> QED
    BY <1>9, <2>1, <2>2
<1>13. new.sum = SumOver(after, S)
  BY <1>3, <1>5, <1>7, <1>8 DEF Totals, after
<1> QED
  BY <1>3, <1>6, <1>8, <1>10, <1>11, <1>12, <1>13 DEF Totals, after, S, v, n, new

-----------------------------------------------------------------------------
(* The list of hosts: the rated ones in the order of their last ratings,   *)
(* from the latest, without a gap.                                         *)
Listed(h, u) ==
  LET n == Len(u) IN
  /\ h.lru \in Seq(Addresses) /\ Len(h.lru) <= MaxHosts
  /\ \A i, j \in DOMAIN h.lru :
       i < j => LastRating(u, h.lru[i], n) > LastRating(u, h.lru[j], n)
  /\ ToSet(h.lru) \subseteq RatedHosts(u, n)
  /\ \A y \in RatedHosts(u, n) \ ToSet(h.lru) :
       /\ Len(h.lru) = MaxHosts
       /\ \A x \in ToSet(h.lru) : LastRating(u, x, n) > LastRating(u, y, n)

(* The values of a function on the numbers from 1 to n.                    *)
LEMMA ImageOfRange ==
  ASSUME NEW n \in Nat, NEW f, DOMAIN f = 1 .. n
  PROVE  LET T == {f[i] : i \in 1 .. n} IN
         /\ IsFiniteSet(T) /\ Cardinality(T) \in Nat /\ Cardinality(T) <= n
         /\ (\A i, j \in 1 .. n : f[i] = f[j] => i = j) => Cardinality(T) = n
<1> DEFINE T == {f[i] : i \in 1 .. n}
           g == [i \in 1 .. n |-> f[i]]
<1>1. g \in Surjection(1 .. n, T)
  BY DEF Surjection
<1>2. IsFiniteSet(1 .. n) /\ Cardinality(1 .. n) = n
  BY FS_Interval
<1>3. (\A i, j \in 1 .. n : f[i] = f[j] => i = j) => g \in Injection(1 .. n, T)
  BY DEF Injection, IsInjective
<1> HIDE DEF g, T
<1>4. /\ IsFiniteSet(T) /\ Cardinality(T) <= n
      /\ Cardinality(T) = n <=> g \in Injection(1 .. n, T)
  BY <1>1, <1>2, FS_Surjection
<1>5. Cardinality(T) \in Nat
  BY <1>4, FS_CardinalityType
<1> QED
  BY <1>3, <1>4, <1>5 DEF T

LEMMA RatedHostsFinite ==
  ASSUME NEW u \in Seq(Ratings)
  PROVE  IsFiniteSet(RatedHosts(u, Len(u)))
<1> DEFINE f == [i \in 1 .. Len(u) |-> u[i].ip]
<1>1. Len(u) \in Nat /\ DOMAIN f = 1 .. Len(u)
  OBVIOUS
<1>2. {f[i] : i \in 1 .. Len(u)} = RatedHosts(u, Len(u))
  BY DEF RatedHosts
<1> HIDE DEF f
<1> QED
  BY <1>1, <1>2, ImageOfRange

(* Such a list holds the hosts rated last, and all it has room for.        *)
LEMMA ListedAreKept ==
  ASSUME NEW u \in Seq(Ratings), NEW h, Listed(h, u)
  PROVE  ToSet(h.lru) = Kept(u, Len(u))
<1> DEFINE n == Len(u)
           lru == h.lru
           LR(x) == LastRating(u, x, n)
           Later(ip) == {x \in RatedHosts(u, n) : LR(x) > LR(ip)}
<1>1. /\ lru \in Seq(Addresses) /\ DOMAIN lru = 1 .. Len(lru)
      /\ Len(lru) \in Nat /\ Len(lru) <= MaxHosts /\ MaxHosts \in Nat
      /\ ToSet(lru) \subseteq RatedHosts(u, n)
  BY RiskAssumption DEF Listed
<1>2. \A x : LR(x) \in Nat
  <2>1. Len(u) \in 0 .. Len(u) /\ \A k \in 0 .. Len(u) : k \in Nat
    OBVIOUS
  <2> QED
    BY <2>1, LastRatingIs
<1>3. /\ \A i, j \in 1 .. Len(lru) : i < j => LR(lru[i]) > LR(lru[j])
      /\ \A y \in RatedHosts(u, n) \ ToSet(lru) :
           Len(lru) = MaxHosts /\ \A x \in ToSet(lru) : LR(x) > LR(y)
  BY <1>1 DEF Listed
<1>4. IsFiniteSet(RatedHosts(u, n))
  BY RatedHostsFinite
<1>5. \A ip : Later(ip) \in SUBSET RatedHosts(u, n) /\ IsFiniteSet(Later(ip))
              /\ Cardinality(Later(ip)) \in Nat
  BY <1>4, FS_Subset, FS_CardinalityType
<1>6. Kept(u, n) = {ip \in RatedHosts(u, n) : Cardinality(Later(ip)) < MaxHosts}
  BY DEF Kept, RatedLately
<1> HIDE DEF n, lru, LR
<1>7. ASSUME NEW k \in 1 .. Len(lru)
      PROVE  Cardinality(Later(lru[k])) < MaxHosts
  <2> DEFINE f == [j \in 1 .. k - 1 |-> lru[j]]
             front == {f[j] : j \in 1 .. k - 1}
  <2>1. lru[k] \in ToSet(lru)
    BY <1>1 DEF ToSet
  <2>2. Later(lru[k]) \subseteq front
    <3> SUFFICES ASSUME NEW x \in RatedHosts(u, n), LR(x) > LR(lru[k])
                 PROVE  x \in front
      OBVIOUS
    <3>1. x \in ToSet(lru)
      BY <1>2, <1>3, <2>1
    <3>2. PICK j \in 1 .. Len(lru) : x = lru[j]
      BY <1>1, <3>1 DEF ToSet
    <3>3. j # k /\ ~(k < j)
      BY <1>2, <1>3, <3>2
    <3>4. j \in 1 .. k - 1
      BY <1>1, <3>3
    <3> QED
      BY <3>2, <3>4
  <2>3. k - 1 \in Nat /\ k - 1 < MaxHosts /\ DOMAIN f = 1 .. k - 1
    BY <1>1
  <2> HIDE DEF f
  <2>4. IsFiniteSet(front) /\ Cardinality(front) \in Nat /\ Cardinality(front) <= k - 1
    BY <2>3, ImageOfRange
  <2> HIDE DEF front
  <2>5. Cardinality(Later(lru[k])) <= Cardinality(front)
    BY <2>2, <2>4, FS_Subset
  <2> HIDE DEF Later
  <2> QED
    BY <1>1, <1>5, <2>3, <2>4, <2>5
<1>8. ASSUME NEW y \in RatedHosts(u, n), y \notin ToSet(lru)
      PROVE  ~(Cardinality(Later(y)) < MaxHosts)
  <2>1. Len(lru) = MaxHosts /\ ToSet(lru) \subseteq Later(y)
    BY <1>1, <1>3, <1>8, ZenonT(40)
  <2>2. Cardinality(ToSet(lru)) = Len(lru)
    <3>1. \A i, j \in 1 .. Len(lru) : lru[i] = lru[j] => i = j
      <4> SUFFICES ASSUME NEW i \in 1 .. Len(lru), NEW j \in 1 .. Len(lru), i # j
                   PROVE  lru[i] # lru[j]
        OBVIOUS
      <4>1. i < j \/ j < i
        BY <1>1
      <4>2. LR(lru[i]) > LR(lru[j]) \/ LR(lru[j]) > LR(lru[i])
        BY <1>3, <4>1
      <4> QED
        BY <1>2, <4>2
    <3>2. ToSet(lru) = {lru[i] : i \in 1 .. Len(lru)}
      BY <1>1 DEF ToSet
    <3>3. Cardinality({lru[i] : i \in 1 .. Len(lru)}) = Len(lru)
      BY <1>1, <3>1, ImageOfRange
    <3> QED
      BY <3>2, <3>3
  <2> HIDE DEF Later
  <2>3. Cardinality(ToSet(lru)) <= Cardinality(Later(y))
    BY <1>5, <2>1, FS_Subset
  <2> QED
    BY <1>1, <1>5, <2>1, <2>2, <2>3, SMTT(30)
<1>9. ToSet(lru) \subseteq Kept(u, n)
  BY <1>1, <1>6, <1>7 DEF ToSet
<1>10. Kept(u, n) \subseteq ToSet(lru)
  BY <1>6, <1>8
<1> QED
  BY <1>9, <1>10 DEF n, lru

(* Taking a host out of the list, and taking its last one.                 *)
LEMMA Removed ==
  ASSUME NEW S, NEW list \in Seq(S), NEW place \in 1 .. Len(list)
  PROVE  /\ RemoveAt(list, place) \in Seq(S)
         /\ Len(RemoveAt(list, place)) = Len(list) - 1
         /\ \A i \in 1 .. Len(list) - 1 :
              RemoveAt(list, place)[i] = list[IF i < place THEN i ELSE i + 1]
<1> DEFINE n == Len(list)
           before == SubSeq(list, 1, place - 1)
           after == SubSeq(list, place + 1, n)
<1>1. n \in Nat /\ place \in 1 .. n /\ \A i \in 1 .. n : list[i] \in S
  OBVIOUS
<1> HIDE DEF n
<1>2. /\ before \in Seq(S) /\ Len(before) = place - 1
      /\ \A i \in 1 .. place - 1 : before[i] = list[i]
  <2>1. 1 \in Int /\ place - 1 \in Int /\ \A i \in 1 .. place - 1 : list[i] \in S
    BY <1>1
  <2>2. /\ before \in Seq(S) /\ Len(before) = IF 1 <= place - 1 THEN place - 1 - 1 + 1 ELSE 0
        /\ \A i \in 1 .. place - 1 - 1 + 1 : before[i] = list[1 + i - 1]
    BY <2>1, SubSeqProperties
  <2> HIDE DEF before
  <2> QED
    BY <1>1, <2>2
<1>3. /\ after \in Seq(S) /\ Len(after) = n - place
      /\ \A i \in 1 .. n - place : after[i] = list[place + i]
  <2>1. place + 1 \in Int /\ n \in Int /\ \A i \in place + 1 .. n : list[i] \in S
    BY <1>1
  <2>2. /\ after \in Seq(S)
        /\ Len(after) = IF place + 1 <= n THEN n - (place + 1) + 1 ELSE 0
        /\ \A i \in 1 .. n - (place + 1) + 1 : after[i] = list[(place + 1) + i - 1]
    BY <2>1, SubSeqProperties
  <2> HIDE DEF after
  <2> QED
    BY <1>1, <2>2
<1>4. RemoveAt(list, place) = before \o after
  BY DEF RemoveAt, n
<1> HIDE DEF before, after
<1>5. /\ before \o after \in Seq(S) /\ Len(before \o after) = n - 1
      /\ \A i \in 1 .. n - 1 :
           (before \o after)[i] = IF i <= place - 1 THEN before[i] ELSE after[i - (place - 1)]
  BY <1>1, <1>2, <1>3, ConcatProperties
<1>6. ASSUME NEW i \in 1 .. n - 1
      PROVE  (before \o after)[i] = list[IF i < place THEN i ELSE i + 1]
  <2>1. CASE i < place
    <3>1. i <= place - 1 /\ i \in 1 .. place - 1
      BY <1>1, <2>1
    <3> QED
      BY <1>2, <1>5, <2>1, <3>1
  <2>2. CASE ~(i < place)
    <3> DEFINE j == i - (place - 1)
    <3>1. ~(i <= place - 1) /\ j \in 1 .. n - place /\ place + j = i + 1
      BY <1>1, <2>2
    <3>2. (before \o after)[i] = after[j]
      BY <1>5, <3>1
    <3> HIDE DEF j
    <3> QED
      BY <1>3, <2>2, <3>1, <3>2
  <2> QED
    BY <2>1, <2>2
<1> QED
  BY <1>4, <1>5, <1>6 DEF n

LEMMA FrontOf ==
  ASSUME NEW S, NEW list \in Seq(S), list # << >>
  PROVE  /\ Front(list) \in Seq(S) /\ Len(Front(list)) = Len(list) - 1
         /\ \A i \in 1 .. Len(list) - 1 : Front(list)[i] = list[i]
<1> DEFINE n == Len(list)
           front == SubSeq(list, 1, n - 1)
<1>1. n \in Nat \ {0} /\ \A i \in 1 .. n - 1 : list[i] \in S
  OBVIOUS
<1> HIDE DEF n
<1>2. /\ front \in Seq(S) /\ Len(front) = IF 1 <= n - 1 THEN n - 1 - 1 + 1 ELSE 0
      /\ \A i \in 1 .. n - 1 - 1 + 1 : front[i] = list[1 + i - 1]
  BY <1>1, SubSeqProperties
<1>3. Front(list) = front
  BY DEF Front, n
<1> HIDE DEF front
<1> QED
  BY <1>1, <1>2, <1>3 DEF n

(* What remains of the list of hosts when one is rated, in the order it    *)
(* had (host_risk_profiler.cpp:20-31, :47-63).                             *)
Remaining(h, ip) ==
  LET known == ip \in DOMAIN h.map
      full == ~ known /\ Len(h.lru) >= MaxHosts
      place == CHOOSE i \in DOMAIN h.lru : h.lru[i] = ip IN
  IF known THEN RemoveAt(h.lru, place) ELSE IF full THEN Front(h.lru) ELSE h.lru

LEMMA UpdatedFields ==
  ASSUME NEW h, NEW ip, NEW score, NEW m
  PROVE  LET lru == <<ip>> \o Remaining(h, ip) IN
         HostUpdated(h, ip, score, m) =
           [lru |-> lru,
            map |-> [i \in ToSet(lru) |->
                       IF i = ip
                       THEN Rated(IF ip \in DOMAIN h.map THEN h.map[ip] ELSE NewProfile, score, m)
                       ELSE h.map[i]]]
BY DEF HostUpdated, Remaining

HostsInv(h, u) ==
  /\ u \in Seq(Ratings)
  /\ Listed(h, u)
  /\ DOMAIN h.map = ToSet(h.lru)
  /\ \A ip \in DOMAIN h.map :
       RatingsOf(u, ip) # {} /\ Totals(h.map[ip], u, RatingsOf(u, ip))

LEMMA ListFacts ==
  ASSUME NEW h, NEW u, HostsInv(h, u)
  PROVE  /\ h.lru \in Seq(Addresses) /\ DOMAIN h.lru = 1 .. Len(h.lru) /\ Len(h.lru) \in Nat
         /\ Len(h.lru) <= MaxHosts /\ MaxHosts \in Nat \ {0}
         /\ \A x : LastRating(u, x, Len(u)) \in Nat
         /\ \A i, j \in 1 .. Len(h.lru) :
              i < j => LastRating(u, h.lru[i], Len(u)) > LastRating(u, h.lru[j], Len(u))
         /\ \A i, j \in 1 .. Len(h.lru) : h.lru[i] = h.lru[j] => i = j
<1>1. /\ h.lru \in Seq(Addresses) /\ DOMAIN h.lru = 1 .. Len(h.lru) /\ Len(h.lru) \in Nat
      /\ Len(h.lru) <= MaxHosts /\ MaxHosts \in Nat \ {0}
  BY RiskAssumption DEF HostsInv, Listed
<1>2. ASSUME NEW x
      PROVE  LastRating(u, x, Len(u)) \in Nat
  <2>1. u \in Seq(Ratings) /\ Len(u) \in 0 .. Len(u) /\ \A k \in 0 .. Len(u) : k \in Nat
    BY DEF HostsInv
  <2> QED
    BY <2>1, LastRatingIs
<1>3. \A i, j \in 1 .. Len(h.lru) :
        i < j => LastRating(u, h.lru[i], Len(u)) > LastRating(u, h.lru[j], Len(u))
  BY <1>1 DEF HostsInv, Listed
<1>4. ASSUME NEW i \in 1 .. Len(h.lru), NEW j \in 1 .. Len(h.lru), h.lru[i] = h.lru[j]
      PROVE  i = j
  <2>1. ~(i < j) /\ ~(j < i)
    BY <1>2, <1>3, <1>4
  <2>2. i \in Nat /\ j \in Nat
    BY <1>1
  <2> QED
    BY <2>1, <2>2
<1> QED
  BY <1>1, <1>2, <1>3, <1>4

(* A host that is not rated and no longer in the list makes way last.      *)
LEMMA RemainingList ==
  ASSUME NEW h, NEW u, HostsInv(h, u), NEW ip
  PROVE  LET rem == Remaining(h, ip)
             n == Len(u) IN
         /\ rem \in Seq(Addresses) /\ Len(rem) < MaxHosts
         /\ \A i, j \in 1 .. Len(rem) :
              i < j => LastRating(u, rem[i], n) > LastRating(u, rem[j], n)
         /\ ToSet(rem) \subseteq ToSet(h.lru) \ {ip}
         /\ \A y \in RatedHosts(u, n) \ ({ip} \cup ToSet(rem)) :
              /\ Len(rem) = MaxHosts - 1
              /\ \A x \in ToSet(rem) : LastRating(u, x, n) > LastRating(u, y, n)
<1> DEFINE rem == Remaining(h, ip)
           n == Len(u)
           lru == h.lru
           LR(x) == LastRating(u, x, n)
<1>1. /\ lru \in Seq(Addresses) /\ DOMAIN lru = 1 .. Len(lru) /\ Len(lru) \in Nat
      /\ Len(lru) <= MaxHosts /\ MaxHosts \in Nat \ {0}
      /\ \A x : LR(x) \in Nat
      /\ \A i, j \in 1 .. Len(lru) : i < j => LR(lru[i]) > LR(lru[j])
      /\ \A i, j \in 1 .. Len(lru) : lru[i] = lru[j] => i = j
  BY ListFacts
<1>2. DOMAIN h.map = ToSet(lru)
  BY DEF HostsInv
<1>3. \A y \in RatedHosts(u, n) \ ToSet(lru) :
        Len(lru) = MaxHosts /\ \A x \in ToSet(lru) : LR(x) > LR(y)
  BY DEF HostsInv, Listed
<1>4. \A x : x \in ToSet(lru) <=> \E i \in 1 .. Len(lru) : x = lru[i]
  BY <1>1 DEF ToSet
<1>5. CASE ip \in ToSet(lru)
  <2> DEFINE place == CHOOSE i \in DOMAIN lru : lru[i] = ip
             at(i) == IF i < place THEN i ELSE i + 1
  <2>1. place \in 1 .. Len(lru) /\ lru[place] = ip
    BY <1>1, <1>4, <1>5
  <2>2. rem = RemoveAt(lru, place)
    BY <1>2, <1>5 DEF Remaining
  <2> HIDE DEF place, lru, n, LR, rem
  <2>3. /\ rem \in Seq(Addresses) /\ Len(rem) = Len(lru) - 1
        /\ \A i \in 1 .. Len(lru) - 1 : rem[i] = lru[at(i)]
    <3>1. /\ RemoveAt(lru, place) \in Seq(Addresses)
          /\ Len(RemoveAt(lru, place)) = Len(lru) - 1
          /\ \A i \in 1 .. Len(lru) - 1 :
               RemoveAt(lru, place)[i] = lru[IF i < place THEN i ELSE i + 1]
      <4>1. lru \in Seq(Addresses) /\ place \in 1 .. Len(lru)
        BY <1>1, <2>1
      <4> HIDE DEF at
      <4> QED
        BY <4>1, Removed
    <3> QED
      BY <2>2, <3>1
  <2>4. /\ \A i \in 1 .. Len(lru) - 1 : at(i) \in 1 .. Len(lru) /\ at(i) # place
        /\ \A i, j \in 1 .. Len(lru) - 1 : i < j => at(i) < at(j)
    BY <1>1, <2>1
  <2>5. \A i \in 1 .. Len(lru) : i # place => \E j \in 1 .. Len(lru) - 1 : at(j) = i
    <3> SUFFICES ASSUME NEW i \in 1 .. Len(lru), i # place
                 PROVE  \E j \in 1 .. Len(lru) - 1 : at(j) = i
      OBVIOUS
    <3>1. CASE i < place
      <4>1. i \in 1 .. Len(lru) - 1 /\ at(i) = i
        BY <1>1, <2>1, <3>1
      <4> QED
        BY <4>1
    <3>2. CASE ~(i < place)
      <4>1. i - 1 \in 1 .. Len(lru) - 1 /\ at(i - 1) = i
        BY <1>1, <2>1, <3>2
      <4> QED
        BY <4>1
    <3> QED
      BY <3>1, <3>2
  <2> HIDE DEF at
  <2>6. \A x : x \in ToSet(rem) <=> \E i \in 1 .. Len(lru) - 1 : x = lru[at(i)]
    BY <1>1, <2>3, SMTT(30) DEF ToSet
  <2>7. ToSet(rem) = ToSet(lru) \ {ip}
    <3>1. \A x \in ToSet(rem) : x \in ToSet(lru) /\ x # ip
      BY <1>1, <1>4, <2>1, <2>4, <2>6
    <3>2. \A x \in ToSet(lru) : x # ip => x \in ToSet(rem)
      BY <1>4, <2>1, <2>5, <2>6
    <3> QED
      BY <3>1, <3>2
  <2>8. \A i, j \in 1 .. Len(rem) : i < j => LR(rem[i]) > LR(rem[j])
    BY <1>1, <2>3, <2>4
  <2>9. \A y \in RatedHosts(u, n) \ ({ip} \cup ToSet(rem)) :
          Len(rem) = MaxHosts - 1 /\ \A x \in ToSet(rem) : LR(x) > LR(y)
    BY <1>1, <1>3, <2>3, <2>7
  <2>10. Len(rem) < MaxHosts
    BY <1>1, <2>3
  <2> QED
    BY <2>3, <2>7, <2>8, <2>9, <2>10 DEF lru, rem, n, LR
<1>6. CASE ip \notin ToSet(lru) /\ Len(lru) >= MaxHosts
  <2>1. rem = Front(lru)
    BY <1>2, <1>6 DEF Remaining
  <2> HIDE DEF lru, n, LR
  <2>2. Len(lru) = MaxHosts /\ lru # << >>
    <3>1. PICK k : k = Len(lru)
      OBVIOUS
    <3>2. k \in Nat /\ k <= MaxHosts /\ MaxHosts \in Nat \ {0} /\ k >= MaxHosts
      BY <1>1, <1>6, <3>1
    <3>3. k = MaxHosts /\ k # 0
      BY <3>2
    <3>4. lru # << >>
      BY <3>1, <3>3
    <3> QED
      BY <3>1, <3>3, <3>4
  <2>3. /\ rem \in Seq(Addresses) /\ Len(rem) = Len(lru) - 1
        /\ \A i \in 1 .. Len(lru) - 1 : rem[i] = lru[i]
    BY <1>1, <2>1, <2>2, FrontOf
  <2> HIDE DEF rem
  <2>4. \A x : x \in ToSet(rem) <=> \E i \in 1 .. Len(lru) - 1 : x = lru[i]
    <3>1. DOMAIN rem = 1 .. Len(lru) - 1
      BY <1>1, <2>3
    <3> QED
      BY <2>3, <3>1 DEF ToSet
  <2>5. \A i \in 1 .. Len(lru) - 1 : i \in 1 .. Len(lru)
    BY <1>1
  <2>6. ToSet(rem) \subseteq ToSet(lru) \ {ip}
    BY <1>4, <1>6, <2>4, <2>5
  <2>7. \A i, j \in 1 .. Len(rem) : i < j => LR(rem[i]) > LR(rem[j])
    BY <1>1, <2>3, <2>5
  <2>8. ASSUME NEW y \in RatedHosts(u, n) \ ({ip} \cup ToSet(rem)), NEW x \in ToSet(rem)
        PROVE  LR(x) > LR(y)
    <3>1. CASE y \notin ToSet(lru)
      BY <1>3, <2>6, <3>1
    <3>2. CASE y \in ToSet(lru)
      <4>1. PICK j \in 1 .. Len(lru) : y = lru[j]
        BY <1>4, <3>2
      <4>2. j = Len(lru)
        <5>1. ~(j \in 1 .. Len(lru) - 1)
          BY <2>4, <4>1
        <5>2. Len(lru) \in Nat /\ j \in 1 .. Len(lru)
          BY <1>1
        <5> QED
          BY <5>1, <5>2
      <4>3. PICK i \in 1 .. Len(lru) - 1 : x = lru[i]
        BY <2>4
      <4>4. i \in 1 .. Len(lru) /\ i < j
        BY <1>1, <4>2
      <4> QED
        BY <1>1, <4>1, <4>3, <4>4
    <3> QED
      BY <3>1, <3>2
  <2>9. Len(rem) < MaxHosts /\ Len(rem) = MaxHosts - 1
    BY <1>1, <2>2, <2>3
  <2> QED
    BY <2>3, <2>6, <2>7, <2>8, <2>9 DEF lru, rem, n, LR
<1>7. CASE ip \notin ToSet(lru) /\ ~(Len(lru) >= MaxHosts)
  <2>1. rem = lru
    BY <1>2, <1>7 DEF Remaining
  <2>2. Len(lru) < MaxHosts
    BY <1>1, <1>7
  <2>3. \A y \in RatedHosts(u, n) : y \in ToSet(lru)
    BY <1>1, <1>3, <2>2
  <2> HIDE DEF rem
  <2> QED
    BY <1>1, <1>7, <2>1, <2>2, <2>3 DEF rem
<1> QED
  BY <1>5, <1>6, <1>7

(* A rating counts for a host that is kept, and for no other.              *)
LEMMA RatingsWhileKept ==
  ASSUME NEW u \in Seq(Ratings), NEW ip
  PROVE  RatingsOf(u, ip) =
           {i \in DOMAIN u : u[i].ip = ip /\ \A k \in i .. Len(u) : ip \in Kept(u, k)}
<1>1. DOMAIN u = 1 .. Len(u) /\ Len(u) \in Nat
  OBVIOUS
<1>2. ASSUME NEW i \in DOMAIN u, u[i].ip = ip, NEW k \in i .. Len(u)
      PROVE  ip \in Kept(u, k) <=> RatedLately(u, ip, k)
  <2>1. i \in 1 .. k
    BY <1>1, <1>2
  <2>2. ip \in RatedHosts(u, k)
    BY <1>2, <2>1 DEF RatedHosts
  <2> QED
    BY <2>2 DEF Kept
<1> QED
  BY <1>2 DEF RatingsOf

LEMMA RatingsAfter ==
  ASSUME NEW u \in Seq(Ratings), NEW e \in Ratings, NEW x \in Kept(Append(u, e), Len(u) + 1)
  PROVE  RatingsOf(Append(u, e), x) =
           RatingsOf(u, x) \cup (IF x = e.ip THEN {Len(u) + 1} ELSE {})
<1> DEFINE n == Len(u)
           v == Append(u, e)
<1>1. /\ n \in Nat /\ Len(v) = n + 1 /\ DOMAIN u = 1 .. n /\ DOMAIN v = 1 .. n + 1
      /\ v[n + 1] = e /\ \A i \in 1 .. n : v[i] = u[i]
  OBVIOUS
<1>2. \A k \in 0 .. n : Kept(v, k) = Kept(u, k)
  BY RatingAdded
<1>3. x \in Kept(v, n + 1)
  OBVIOUS
<1>4. /\ RatingsOf(u, x) =
           {i \in DOMAIN u : u[i].ip = x /\ \A k \in i .. n : x \in Kept(u, k)}
      /\ RatingsOf(v, x) =
           {i \in DOMAIN v : v[i].ip = x /\ \A k \in i .. n + 1 : x \in Kept(v, k)}
  <2>1. v \in Seq(Ratings)
    OBVIOUS
  <2> HIDE DEF v
  <2> QED
    BY <1>1, <2>1, RatingsWhileKept
<1> HIDE DEF n, v
<1>5. ASSUME NEW i \in 1 .. n
      PROVE  i \in RatingsOf(v, x) <=> i \in RatingsOf(u, x)
  <2>1. \A k \in i .. n : Kept(v, k) = Kept(u, k)
    BY <1>1, <1>2
  <2>2. i .. n + 1 = (i .. n) \cup {n + 1} /\ i \in 1 .. n + 1
    BY <1>1
  <2>3. (\A k \in i .. n + 1 : x \in Kept(v, k)) <=> (\A k \in i .. n : x \in Kept(u, k))
    BY <1>3, <2>1, <2>2
  <2>4. i \in RatingsOf(v, x) <=> v[i].ip = x /\ \A k \in i .. n + 1 : x \in Kept(v, k)
    BY <1>1, <1>4, <2>2
  <2>5. i \in RatingsOf(u, x) <=> u[i].ip = x /\ \A k \in i .. n : x \in Kept(u, k)
    BY <1>1, <1>4
  <2>6. v[i] = u[i]
    BY <1>1
  <2> QED
    BY <2>3, <2>4, <2>5, <2>6
<1>6. n + 1 \in RatingsOf(v, x) <=> x = e.ip
  <2>1. n + 1 .. n + 1 = {n + 1} /\ n + 1 \in 1 .. n + 1
    BY <1>1
  <2> QED
    BY <1>1, <1>3, <1>4, <2>1
<1>7. RatingsOf(v, x) \subseteq (1 .. n) \cup {n + 1} /\ RatingsOf(u, x) \subseteq 1 .. n
  <2>1. 1 .. n + 1 = (1 .. n) \cup {n + 1}
    BY <1>1
  <2> QED
    BY <1>1, <1>4, <2>1
<1>8. n + 1 \notin 1 .. n
  BY <1>1
<1>9. RatingsOf(v, x) = RatingsOf(u, x) \cup (IF x = e.ip THEN {n + 1} ELSE {})
  BY <1>5, <1>6, <1>7, <1>8
<1> QED
  BY <1>9 DEF n, v

LEMMA NoRatingsYet ==
  ASSUME NEW u \in Seq(Ratings), NEW x, x \notin Kept(u, Len(u))
  PROVE  RatingsOf(u, x) = {}
<1>1. \A i \in 1 .. Len(u) : Len(u) \in i .. Len(u)
  OBVIOUS
<1> QED
  BY <1>1, RatingsWhileKept

LEMMA NothingSummed ==
  ASSUME NEW u
  PROVE  Totals(NewProfile, u, {})
<1>1. Cardinality({}) = 0
  BY FS_EmptySet
<1>2. SumOver([i \in DOMAIN u |-> u[i].score], {}) = 0
  <2> DEFINE score == [i \in DOMAIN u |-> u[i].score]
  <2>1. IsFiniteSet({})
    BY FS_EmptySet
  <2> HIDE DEF score
  <2> QED
    BY <2>1, SumOverZero
<1> QED
  BY <1>1, <1>2 DEF Totals, NewProfile

(* The list after a rating: the host rated is the first.                   *)
LEMMA RatedList ==
  ASSUME NEW h, NEW u, HostsInv(h, u), NEW e \in Ratings,
         NEW after, after.lru = <<e.ip>> \o Remaining(h, e.ip)
  PROVE  Listed(after, Append(u, e))
<1> DEFINE rem == Remaining(h, e.ip)
           n == Len(u)
           v == Append(u, e)
           lru == after.lru
           LR(x) == LastRating(v, x, n + 1)
           Before(x) == LastRating(u, x, n)
<1>1. /\ rem \in Seq(Addresses) /\ Len(rem) < MaxHosts
      /\ \A i, j \in 1 .. Len(rem) : i < j => Before(rem[i]) > Before(rem[j])
      /\ ToSet(rem) \subseteq ToSet(h.lru) \ {e.ip}
      /\ \A y \in RatedHosts(u, n) \ ({e.ip} \cup ToSet(rem)) :
           Len(rem) = MaxHosts - 1 /\ \A x \in ToSet(rem) : Before(x) > Before(y)
  BY RemainingList
<1>2. u \in Seq(Ratings) /\ n \in Nat /\ Len(v) = n + 1
  BY DEF HostsInv
<1>3. /\ LR(e.ip) = n + 1
      /\ \A x : x # e.ip => LR(x) = Before(x)
      /\ RatedHosts(v, n + 1) = RatedHosts(u, n) \cup {e.ip}
  BY <1>2, RatingAdded
<1>4. \A x : Before(x) \in 0 .. n
  <2>1. n \in 0 .. Len(u)
    BY <1>2
  <2> QED
    BY <1>2, <2>1, LastRatingIs
<1>5. ToSet(h.lru) \subseteq RatedHosts(u, n)
  BY DEF HostsInv, Listed
<1>6. e.ip \in Addresses /\ MaxHosts \in Nat
  BY RiskAssumption DEF Ratings
<1> HIDE DEF rem, v, n, LR, Before
<1>7. /\ lru \in Seq(Addresses) /\ Len(lru) = Len(rem) + 1 /\ Len(rem) \in Nat
      /\ lru[1] = e.ip /\ \A i \in 1 .. Len(rem) : lru[i + 1] = rem[i]
  <2>1. lru = <<e.ip>> \o rem
    BY DEF rem
  <2>2. <<e.ip>> \in Seq(Addresses) /\ Len(<<e.ip>>) = 1 /\ <<e.ip>>[1] = e.ip
    BY <1>6
  <2> DEFINE first == <<e.ip>>
  <2> HIDE DEF first
  <2>3. /\ first \o rem \in Seq(Addresses) /\ Len(first \o rem) = 1 + Len(rem)
        /\ \A i \in 1 .. 1 + Len(rem) :
             (first \o rem)[i] = IF i <= 1 THEN first[i] ELSE rem[i - 1]
    BY <1>1, <2>2, ConcatProperties DEF first
  <2>4. Len(rem) \in Nat
    BY <1>1
  <2>5. \A i \in 1 .. Len(rem) : i + 1 \in 1 .. 1 + Len(rem) /\ ~(i + 1 <= 1) /\ (i + 1) - 1 = i
    BY <2>4
  <2>6. 1 \in 1 .. 1 + Len(rem)
    BY <2>4
  <2>7. (first \o rem)[1] = first[1]
    BY <2>3, <2>6
  <2>8. \A i \in 1 .. Len(rem) : (first \o rem)[i + 1] = rem[i]
    BY <2>3, <2>5
  <2>9. lru = first \o rem /\ first[1] = e.ip /\ Len(lru) = Len(rem) + 1
    BY <2>1, <2>2, <2>3, <2>4 DEF first
  <2> QED
    BY <2>3, <2>4, <2>7, <2>8, <2>9
<1> HIDE DEF lru
<1>8. ToSet(lru) = {e.ip} \cup ToSet(rem)
  <2>1. DOMAIN lru = 1 .. Len(rem) + 1 /\ DOMAIN rem = 1 .. Len(rem)
    BY <1>1, <1>7
  <2>2. \A i \in 1 .. Len(rem) + 1 : i = 1 \/ \E j \in 1 .. Len(rem) : i = j + 1
    <3> SUFFICES ASSUME NEW i \in 1 .. Len(rem) + 1, i # 1
                 PROVE  i - 1 \in 1 .. Len(rem) /\ i = (i - 1) + 1
      OBVIOUS
    <3> QED
      BY <1>7
  <2>3. 1 \in 1 .. Len(rem) + 1 /\ \A j \in 1 .. Len(rem) : j + 1 \in 1 .. Len(rem) + 1
    BY <1>7
  <2>4. \A i \in 1 .. Len(rem) + 1 : lru[i] \in {e.ip} \cup ToSet(rem)
    BY <1>7, <2>1, <2>2, ZenonT(40) DEF ToSet
  <2>5. e.ip \in ToSet(lru) /\ \A j \in 1 .. Len(rem) : rem[j] \in ToSet(lru)
    BY <1>7, <2>1, <2>3 DEF ToSet
  <2>6. ToSet(lru) \subseteq {e.ip} \cup ToSet(rem)
    BY <2>1, <2>4 DEF ToSet
  <2>7. {e.ip} \cup ToSet(rem) \subseteq ToSet(lru)
    BY <2>1, <2>5 DEF ToSet
  <2> QED
    BY <2>6, <2>7
<1>9. \A x : x # e.ip => LR(x) = Before(x) /\ LR(x) < n + 1
  <2> SUFFICES ASSUME NEW x, x # e.ip
               PROVE  LR(x) = Before(x) /\ LR(x) < n + 1
    OBVIOUS
  <2>1. LR(x) = Before(x) /\ Before(x) \in 0 .. n
    BY <1>3, <1>4
  <2> QED
    BY <1>2, <2>1
<1>10. \A j \in 1 .. Len(rem) : rem[j] \in ToSet(rem) /\ rem[j] # e.ip
  <2>1. DOMAIN rem = 1 .. Len(rem)
    BY <1>1
  <2>2. \A j \in 1 .. Len(rem) : rem[j] \in ToSet(rem)
    BY <2>1 DEF ToSet
  <2> QED
    BY <1>1, <2>2
<1>11. ASSUME NEW i \in 1 .. Len(rem) + 1, NEW j \in 1 .. Len(rem) + 1, i < j
       PROVE  LR(lru[i]) > LR(lru[j])
  <2>1. j - 1 \in 1 .. Len(rem) /\ lru[j] = rem[j - 1]
    <3>1. j - 1 \in 1 .. Len(rem) /\ (j - 1) + 1 = j
      BY <1>7, <1>11
    <3>2. lru[(j - 1) + 1] = rem[j - 1]
      BY <1>7, <3>1
    <3> QED
      BY <3>1, <3>2
  <2>2. LR(lru[j]) = Before(rem[j - 1]) /\ LR(lru[j]) < n + 1
    BY <1>9, <1>10, <2>1
  <2>3. CASE i = 1
    BY <1>2, <1>3, <1>7, <2>2, <2>3
  <2>4. CASE i # 1
    <3>1. i - 1 \in 1 .. Len(rem) /\ (i - 1) + 1 = i /\ i - 1 < j - 1
      BY <1>7, <1>11, <2>4
    <3>2. lru[(i - 1) + 1] = rem[i - 1]
      BY <1>7, <3>1
    <3>3. LR(lru[i]) = Before(rem[i - 1])
      BY <1>9, <1>10, <3>1, <3>2
    <3>4. Before(rem[i - 1]) > Before(rem[j - 1])
      BY <1>1, <2>1, <3>1
    <3> QED
      BY <2>2, <3>3, <3>4
  <2> QED
    BY <2>3, <2>4
<1>12. ASSUME NEW y \in RatedHosts(v, n + 1) \ ToSet(lru), NEW x \in ToSet(lru)
       PROVE  Len(lru) = MaxHosts /\ LR(x) > LR(y)
  <2>1. y \in RatedHosts(u, n) \ ({e.ip} \cup ToSet(rem)) /\ y # e.ip
    BY <1>3, <1>8
  <2>2. Len(rem) = MaxHosts - 1
    BY <1>1, <2>1
  <2>3. Len(lru) = MaxHosts
    BY <1>6, <1>7, <2>2
  <2>4. LR(y) = Before(y) /\ LR(y) < n + 1
    BY <1>9, <2>1
  <2>5. CASE x = e.ip
    BY <1>2, <1>3, <1>4, <2>3, <2>4, <2>5
  <2>6. CASE x # e.ip
    <3>1. x \in ToSet(rem)
      BY <1>8, <2>6
    <3>2. LR(x) = Before(x) /\ Before(x) > Before(y)
      BY <1>1, <1>9, <2>1, <2>6, <3>1
    <3> QED
      BY <2>3, <2>4, <3>2
  <2> QED
    BY <2>5, <2>6
<1>13. ToSet(lru) \subseteq RatedHosts(v, n + 1)
  BY <1>1, <1>3, <1>5, <1>8
<1>14. Len(lru) <= MaxHosts
  BY <1>1, <1>6, <1>7
<1>15. DOMAIN lru = 1 .. Len(rem) + 1
  BY <1>7
<1>16. /\ ToSet(lru) \subseteq RatedHosts(v, Len(v))
       /\ \A y \in RatedHosts(v, Len(v)) \ ToSet(lru) :
            Len(lru) = MaxHosts /\ \A x \in ToSet(lru) : LR(x) > LR(y)
  <2>1. Len(v) = n + 1 /\ e.ip \in ToSet(lru)
    BY <1>2, <1>8
  <2> QED
    BY <1>12, <1>13, <2>1
<1>17. \A i, j \in DOMAIN lru : i < j => LR(lru[i]) > LR(lru[j])
  BY <1>11, <1>15
<1>18. \A x : LR(x) = LastRating(v, x, Len(v))
  BY <1>2 DEF LR
<1> HIDE DEF LR
<1>19. /\ \A i, j \in DOMAIN lru :
            i < j => LastRating(v, lru[i], Len(v)) > LastRating(v, lru[j], Len(v))
       /\ \A y \in RatedHosts(v, Len(v)) \ ToSet(lru) :
            /\ Len(lru) = MaxHosts
            /\ \A x \in ToSet(lru) : LastRating(v, x, Len(v)) > LastRating(v, y, Len(v))
  BY <1>16, <1>17, <1>18
<1>20. after.lru = lru /\ v = Append(u, e)
  BY DEF lru, v
<1> QED
  BY <1>7, <1>14, <1>16, <1>19, <1>20 DEF Listed

LEMMA HostRated ==
  ASSUME NEW h, NEW u, HostsInv(h, u), NEW ip \in Addresses, NEW score \in Scores, NEW m
  PROVE  HostsInv(HostUpdated(h, ip, score, m), Append(u, [ip |-> ip, score |-> score]))
<1> DEFINE e == [ip |-> ip, score |-> score]
           n == Len(u)
           v == Append(u, e)
           after == HostUpdated(h, ip, score, m)
           lru == <<ip>> \o Remaining(h, ip)
           old == IF ip \in DOMAIN h.map THEN h.map[ip] ELSE NewProfile
<1>1. e \in Ratings /\ e.ip = ip /\ e.score = score
  BY DEF Ratings
<1>2. u \in Seq(Ratings) /\ v \in Seq(Ratings) /\ Len(v) = n + 1 /\ DOMAIN u \subseteq DOMAIN v
  BY <1>1 DEF HostsInv
<1>3. /\ after.lru = lru
      /\ DOMAIN after.map = ToSet(lru)
      /\ \A x \in ToSet(lru) :
           after.map[x] = IF x = ip THEN Rated(old, score, m) ELSE h.map[x]
  <2> HIDE DEF lru
  <2>1. after = [lru |-> lru,
                 map |-> [x \in ToSet(lru) |-> IF x = ip THEN Rated(old, score, m) ELSE h.map[x]]]
    BY UpdatedFields DEF lru
  <2> HIDE DEF after
  <2> QED
    BY <2>1
<1> HIDE DEF e
<1>4. Listed(after, v)
  <2> HIDE DEF after, v
  <2>1. after.lru = <<e.ip>> \o Remaining(h, e.ip)
    BY <1>1, <1>3
  <2> QED
    BY <1>1, <2>1, RatedList DEF v
<1>5. ToSet(lru) = Kept(v, n + 1) /\ ToSet(h.lru) = Kept(u, n)
  BY <1>2, <1>3, <1>4, ListedAreKept DEF HostsInv
<1>6. DOMAIN h.map = ToSet(h.lru)
  BY DEF HostsInv
<1>7. ASSUME NEW x \in ToSet(lru)
      PROVE  RatingsOf(v, x) = RatingsOf(u, x) \cup (IF x = ip THEN {n + 1} ELSE {})
  BY <1>1, <1>2, <1>5, RatingsAfter
<1>8. \A x : RatingsOf(u, x) \in SUBSET DOMAIN u
  BY DEF RatingsOf
<1>9. ASSUME NEW x \in ToSet(lru)
      PROVE  RatingsOf(v, x) # {} /\ Totals(after.map[x], v, RatingsOf(v, x))
  <2>1. CASE x = ip
    <3>1. Totals(old, u, RatingsOf(u, ip))
      <4>1. CASE ip \in DOMAIN h.map
        BY <4>1 DEF HostsInv
      <4>2. CASE ip \notin DOMAIN h.map
        BY <1>2, <1>5, <1>6, <4>2, NoRatingsYet, NothingSummed
      <4> QED
        BY <4>1, <4>2
    <3> HIDE DEF old, v, after
    <3>2. Totals(Rated(old, e.score, m), Append(u, e), RatingsOf(u, ip) \cup {Len(u) + 1})
      BY <1>1, <1>2, <1>8, <3>1, TotalsGrow
    <3> QED
      BY <1>1, <1>3, <1>7, <2>1, <3>2 DEF v
  <2>2. CASE x # ip
    <3>1. x \in ToSet(h.lru)
      <4>1. ToSet(lru) \subseteq {ip} \cup ToSet(Remaining(h, ip))
        <5> DEFINE rem == Remaining(h, ip)
        <5>1. rem \in Seq(Addresses)
          BY RemainingList
        <5> HIDE DEF rem
        <5>2. \A i \in DOMAIN (<<ip>> \o rem) :
                (<<ip>> \o rem)[i] = ip \/ \E j \in DOMAIN rem : (<<ip>> \o rem)[i] = rem[j]
          BY <5>1
        <5>3. \A i \in DOMAIN (<<ip>> \o rem) : (<<ip>> \o rem)[i] \in {ip} \cup ToSet(rem)
          BY <5>2 DEF ToSet
        <5>4. ToSet(<<ip>> \o rem) \subseteq {ip} \cup ToSet(rem)
          BY <5>3 DEF ToSet
        <5> QED
          BY <5>4 DEF rem
      <4>2. ToSet(Remaining(h, ip)) \subseteq ToSet(h.lru) \ {ip}
        BY RemainingList
      <4> HIDE DEF lru
      <4> QED
        BY <2>2, <4>1, <4>2
    <3>2. RatingsOf(u, x) # {} /\ Totals(h.map[x], u, RatingsOf(u, x))
      BY <1>6, <3>1 DEF HostsInv
    <3> HIDE DEF v, after, lru
    <3>3. Totals(h.map[x], Append(u, e), RatingsOf(u, x))
      BY <1>1, <1>2, <1>8, <3>2, TotalsStay
    <3> QED
      BY <1>3, <1>7, <2>2, <3>2, <3>3 DEF v
  <2> QED
    BY <2>1, <2>2
<1> HIDE DEF after, v, lru
<1>10. HostsInv(after, v)
  BY <1>2, <1>3, <1>4, <1>9 DEF HostsInv
<1> QED
  BY <1>10 DEF after, v, e

(* What holds between two packets of the tables, the flows and the hosts.  *)
FlowsRated == \A key \in DOMAIN flows : flows[key].score \in Scores

StateInv ==
  /\ RingInv
  /\ TablesBounded
  /\ FlowsRated
  /\ HostsInv(hosts, updates)

LEMMA HostsInit == Init => HostsInv(hosts, updates)
<1> SUFFICES ASSUME Init PROVE HostsInv(hosts, updates)
  OBVIOUS
<1>1. /\ hosts.lru = << >> /\ hosts.map = << >> /\ updates = << >>
      /\ Len(updates) = 0 /\ Len(hosts.lru) = 0
  BY DEF Init, NoHosts
<1>2. ToSet(hosts.lru) = {} /\ DOMAIN hosts.lru = {} /\ DOMAIN hosts.map = {}
  BY <1>1 DEF ToSet
<1>3. RatedHosts(updates, Len(updates)) = {}
  BY <1>1 DEF RatedHosts
<1>4. updates \in Seq(Ratings) /\ hosts.lru \in Seq(Addresses)
  BY <1>1
<1>5. Len(hosts.lru) <= MaxHosts
  BY <1>1, RiskAssumption
<1>6. Listed(hosts, updates)
  BY <1>2, <1>3, <1>4, <1>5 DEF Listed
<1> QED
  BY <1>2, <1>4, <1>6 DEF HostsInv

LEMMA HostsStep ==
  ASSUME HostsInv(hosts, updates), FlowsRated,
         NEW p \in Packets, NEW now, NEW alerts \in Seq([kind : Kinds, severity : Severities]),
         Evaluate(p, now, alerts)
  PROVE  HostsInv(hosts, updates)' /\ FlowsRated'
<1>1. PICK m : \E score \in Scores, src \in Addresses, dst \in Addresses :
        /\ flows' = With(flows, FlowKey(p), [metrics |-> m, score |-> score])
        /\ hosts' = HostUpdated(HostUpdated(hosts, src, score, m), dst, score, m)
        /\ updates' = updates \o <<[ip |-> src, score |-> score], [ip |-> dst, score |-> score]>>
  BY Evaluated
<1>2. PICK score \in Scores, src \in Addresses, dst \in Addresses :
        /\ flows' = With(flows, FlowKey(p), [metrics |-> m, score |-> score])
        /\ hosts' = HostUpdated(HostUpdated(hosts, src, score, m), dst, score, m)
        /\ updates' = updates \o <<[ip |-> src, score |-> score], [ip |-> dst, score |-> score]>>
  BY <1>1
<1> DEFINE first == [ip |-> src, score |-> score]
           second == [ip |-> dst, score |-> score]
           between == HostUpdated(hosts, src, score, m)
<1>3. HostsInv(between, Append(updates, first))
  BY HostRated
<1>4. HostsInv(hosts', Append(Append(updates, first), second))
  <2> HIDE DEF between, first
  <2>1. hosts' = HostUpdated(between, dst, score, m)
    BY <1>2 DEF between
  <2> QED
    BY <1>3, <2>1, HostRated
<1>5. updates' = Append(Append(updates, first), second)
  <2>1. updates \in Seq(Ratings) /\ first \in Ratings /\ second \in Ratings
    BY DEF HostsInv, Ratings
  <2>2. updates' = updates \o <<first, second>>
    BY <1>2
  <2> HIDE DEF first, second
  <2> QED
    BY <2>1, <2>2
<1>6. HostsInv(hosts, updates)'
  BY <1>4, <1>5
<1>7. FlowsRated'
  <2> DEFINE entry == [metrics |-> m, score |-> score]
  <2>1. entry.score \in Scores
    OBVIOUS
  <2>2. flows' = With(flows, FlowKey(p), entry)
    BY <1>2
  <2> HIDE DEF entry
  <2>3. /\ DOMAIN flows' = DOMAIN flows \cup {FlowKey(p)} /\ flows'[FlowKey(p)] = entry
        /\ \A key \in DOMAIN flows : key # FlowKey(p) => flows'[key] = flows[key]
    <3> DEFINE key0 == FlowKey(p)
    <3>1. flows' = With(flows, key0, entry)
      BY <2>2
    <3> HIDE DEF key0
    <3>2. PICK rated : rated = With(flows, key0, entry)
      OBVIOUS
    <3>3. /\ DOMAIN rated = DOMAIN flows \cup {key0} /\ rated[key0] = entry
          /\ \A key \in DOMAIN flows : key # key0 => rated[key] = flows[key]
      BY <3>2 DEF With
    <3>4. flows' = rated
      BY <3>1, <3>2
    <3> QED
      BY <3>3, <3>4 DEF key0
  <2> QED
    BY <2>1, <2>3 DEF FlowsRated
<1> QED
  BY <1>6, <1>7

LEMMA StateInit == Init => StateInv
<1> SUFFICES ASSUME Init PROVE StateInv
  OBVIOUS
<1>1. FlowsRated
  BY DEF Init, FlowsRated
<1> QED
  BY <1>1, RingInit, TablesInit, HostsInit DEF StateInv

LEMMA StateStep == StateInv /\ [Next]_vars => StateInv'
<1> SUFFICES ASSUME StateInv, [Next]_vars PROVE StateInv'
  OBVIOUS
<1>1. RingInv'
  BY RingStep DEF StateInv
<1>2. CASE UNCHANGED vars
  <2>1. UNCHANGED <<vertical, horizontal, sources, flows, hosts, updates>>
    BY <1>2 DEF vars, threat
  <2>2. TablesBounded'
    BY <2>1 DEF StateInv, TablesBounded
  <2>3. FlowsRated'
    BY <2>1 DEF StateInv, FlowsRated
  <2>4. HostsInv(hosts, updates)'
    BY <2>1 DEF StateInv
  <2> QED
    BY <1>1, <2>2, <2>3, <2>4 DEF StateInv
<1>3. CASE Next
  <2>1. PICK p \in Packets, now \in Nat : Packet(p, now)
    BY <1>3, NextPacket DEF StateInv, RingInv
  <2>2. PICK scan \in ScanOutcomes(p, now), syn \in SynOutcomes(p, now) :
          Evaluate(p, now, PacketAlerts(p, scan, syn))
    BY <2>1, PacketStep
  <2>3. PacketAlerts(p, scan, syn) \in Seq([kind : Kinds, severity : Severities])
    BY ScanOutcomesTyped, SynOutcomesTyped, PacketAlertsTyped
  <2>4. HostsInv(hosts, updates)' /\ FlowsRated'
    BY <2>2, <2>3, HostsStep DEF StateInv
  <2>5. TablesBounded'
    BY <2>1, TablesStep DEF StateInv
  <2> QED
    BY <1>1, <2>4, <2>5 DEF StateInv
<1> QED
  BY <1>2, <1>3

LEMMA StateInvariant == Spec => []StateInv
BY StateInit, StateStep, PTL DEF Spec

(* No table outgrows its limit: the tables of the detectors, the ring and  *)
(* the profiles of the hosts, whatever packets come.                       *)
THEOREM TablesStayBounded == Spec => []StateBounded
<1>1. ASSUME StateInv
      PROVE  StateBounded
  <2>1. \A table \in {vertical, horizontal, sources} :
          DOMAIN table \subseteq Addresses /\ Cardinality(DOMAIN table) <= MaxTracked
    BY <1>1 DEF StateInv, TablesBounded, Bounded
  <2>2. /\ ring.size \in 0 .. RingCapacity
        /\ {ring.head, ring.tail} \subseteq 0 .. RingCapacity - 1
    <3>1. RingTyped(ring)
      BY <1>1 DEF StateInv, RingInv, RingHolds
    <3>2. /\ ring.size \in 0 .. RingCapacity
          /\ ring.head \in 0 .. RingCapacity - 1 /\ ring.tail \in 0 .. RingCapacity - 1
      BY <3>1, RingAssumption DEF RingTyped
    <3> QED
      BY <3>2
  <2>3. Len(hosts.lru) <= MaxHosts /\ DOMAIN hosts.map = ToSet(hosts.lru)
    BY <1>1 DEF StateInv, HostsInv, Listed
  <2>4. \A key \in DOMAIN flows : flows[key].score \in 0 .. 100
    BY <1>1 DEF StateInv, FlowsRated, Scores
  <2> QED
    BY <2>1, <2>2, <2>3, <2>4 DEF StateBounded
<1> QED
  BY <1>1, StateInvariant, PTL

(* The profiles kept are those of the hosts rated last, and each sums up   *)
(* all the ratings of its host since it was let in.                        *)
THEOREM ProfilesExact == Spec => []HostProfilesExact
<1>1. ASSUME StateInv
      PROVE  HostProfilesExact
  <2>1. HostsInv(hosts, updates)
    BY <1>1 DEF StateInv
  <2>2. updates \in Seq(Ratings) /\ Listed(hosts, updates)
    BY <2>1 DEF HostsInv
  <2>3. ToSet(hosts.lru) = Kept(updates, Len(updates))
    BY <2>2, ListedAreKept
  <2>4. \A i, j \in DOMAIN hosts.lru :
          i < j => LastRating(updates, hosts.lru[i], Len(updates))
                     > LastRating(updates, hosts.lru[j], Len(updates))
    BY <2>2 DEF Listed
  <2>5. ASSUME NEW ip \in DOMAIN hosts.map
        PROVE  SumsUp(hosts.map[ip], updates, RatingsOf(updates, ip))
    <3>1. RatingsOf(updates, ip) \in SUBSET DOMAIN updates
      BY DEF RatingsOf
    <3>2. RatingsOf(updates, ip) # {} /\ Totals(hosts.map[ip], updates, RatingsOf(updates, ip))
      BY <2>1 DEF HostsInv
    <3> QED
      BY <2>2, <3>1, <3>2, TotalsSumUp
  <2> QED
    BY <2>3, <2>4, <2>5 DEF HostProfilesExact
<1> QED
  BY <1>1, StateInvariant, PTL

-----------------------------------------------------------------------------
(* The log l, grown to m by a packet.                                      *)

Grown(l, m, p, now) ==
  /\ Len(l) \in Nat /\ DOMAIN l = 1 .. Len(l)
  /\ Len(m) = Len(l) + 1 /\ DOMAIN m = 1 .. Len(l) + 1
  /\ \A i \in 1 .. Len(l) : m[i] = l[i] /\ l[i].at \in Nat
  /\ m[Len(l) + 1].p = p /\ m[Len(l) + 1].at = now
  /\ now \in Nat

LEMMA LogGrows ==
  ASSUME HistoryTyped, NEW p \in Packets, NEW now \in Nat, Packet(p, now)
  PROVE  Grown(log, log', p, now)
<1>1. /\ Len(log') = Len(log) + 1 /\ log'[Len(log) + 1] = [p |-> p, at |-> now]
      /\ (\A i \in DOMAIN log : log'[i] = log[i]) /\ HistoryTyped'
  BY HistoryStep
<1>2. log \in Seq(Records) /\ log' \in Seq(Records)
  BY <1>1 DEF HistoryTyped
<1>3. \A r \in Records : r.at \in Nat
  BY DEF Records
<1>4. Len(log) \in Nat /\ DOMAIN log = 1 .. Len(log) /\ DOMAIN log' = 1 .. Len(log')
      /\ \A i \in 1 .. Len(log) : log[i] \in Records
  BY <1>2
<1> QED
  BY <1>1, <1>3, <1>4 DEF Grown

(* Counting by an injection, and the values of a field of some packets.    *)
LEMMA CountedBy ==
  ASSUME NEW Q, NEW P, IsFiniteSet(P), NEW f \in [Q -> P],
         \A x, y \in Q : f[x] = f[y] => x = y
  PROVE  /\ IsFiniteSet(Q) /\ Cardinality(Q) <= Cardinality(P)
         /\ Cardinality(Q) \in Nat /\ Cardinality(P) \in Nat
<1>1. f \in Injection(Q, P)
  BY DEF Injection, IsInjective
<1> QED
  BY <1>1, FS_Injection, FS_CardinalityType

LEMMA FieldsFinite ==
  ASSUME NEW n \in Nat, NEW f, DOMAIN f = 1 .. n, NEW X \in SUBSET (1 .. n)
  PROVE  IsFiniteSet({f[i] : i \in X}) /\ Cardinality({f[i] : i \in X}) \in Nat
<1> DEFINE all == {f[i] : i \in 1 .. n}
           some == {f[i] : i \in X}
<1>1. IsFiniteSet(all)
  BY ImageOfRange
<1>2. some \in SUBSET all
  OBVIOUS
<1> HIDE DEF all, some
<1>3. IsFiniteSet(some) /\ Cardinality(some) \in Nat
  BY <1>1, <1>2, FS_Subset, FS_CardinalityType
<1> QED
  BY <1>3 DEF some

-----------------------------------------------------------------------------
(* A scan tracker knows nothing that its source did not probe in the       *)
(* window that the packet o of the source opened.                          *)

Sent(l, s) == {i \in DOMAIN l : l[i].p.src = s}
ProbesOf(l, s) == {i \in Sent(l, s) : l[i].p.dport # 0}
Span(l, S, o, length) == {k \in S : k >= o /\ l[k].at - l[o].at <= length}
PortsOf(l, X, d) == {l[i].p.dport : i \in {j \in X : l[j].p.dst = d}}
HostsOf(l, X, port) == {l[i].p.dst : i \in {j \in X : l[j].p.dport = port}}

IsScan(t) == t = [start |-> t.start, seen |-> t.seen, hits |-> t.hits, alerted |-> t.alerted]

TracedFrom(o, t, s, l) ==
  /\ t.start = l[o].at
  /\ \A h \in t.hits : \E i \in Span(l, ProbesOf(l, s), o, ScanWindow) :
       h = <<l[i].p.dst, l[i].p.dport>>

Traced(t, s, l) == \E o \in ProbesOf(l, s) : TracedFrom(o, t, s, l)

ScansTraced(table, l) ==
  \A s \in DOMAIN table : IsScan(table[s]) /\ Traced(table[s], s, l)

LEMMA ProbedFields ==
  ASSUME NEW t, IsScan(t), NEW p, NEW now
  PROVE  LET over == WindowOver(t, now, ScanWindow)
             u == Probed(t, p, now) IN
         /\ u = [start |-> IF over THEN now ELSE t.start, seen |-> now,
                 hits |-> (IF over THEN {} ELSE t.hits) \cup {<<p.dst, p.dport>>},
                 alerted |-> IF over THEN FALSE ELSE t.alerted]
         /\ IsScan(u) /\ IsScan([u EXCEPT !.alerted = TRUE])
<1> DEFINE over == WindowOver(t, now, ScanWindow)
           hit == {<<p.dst, p.dport>>}
           w == IF over THEN [NewScan EXCEPT !.start = now] ELSE t
           start == IF over THEN now ELSE t.start
           hits == IF over THEN {} ELSE t.hits
           alerted == IF over THEN FALSE ELSE t.alerted
           u == Probed(t, p, now)
<1>1. \E seen : w = [start |-> start, seen |-> seen, hits |-> hits, alerted |-> alerted]
  <2>1. CASE over
    <3>1. w = [start |-> now, seen |-> 0, hits |-> {}, alerted |-> FALSE]
      BY <2>1 DEF NewScan
    <3> HIDE DEF w
    <3> QED
      BY <2>1, <3>1
  <2>2. CASE ~ over
    <3>1. w = t /\ start = t.start /\ hits = t.hits /\ alerted = t.alerted
      BY <2>2
    <3> HIDE DEF w, start, hits, alerted, over
    <3>2. w = [start |-> start, seen |-> t.seen, hits |-> hits, alerted |-> alerted]
      BY <3>1 DEF IsScan
    <3> QED
      BY <3>2
  <2> QED
    BY <2>1, <2>2
<1>2. u = [w EXCEPT !.seen = now, !.hits = w.hits \cup hit]
  BY DEF Probed
<1> HIDE DEF w, start, hits, alerted, u, over, hit
<1>3. PICK seen : w = [start |-> start, seen |-> seen, hits |-> hits, alerted |-> alerted]
  BY <1>1
<1>4. u = [start |-> start, seen |-> now, hits |-> hits \cup hit, alerted |-> alerted]
  BY <1>2, <1>3
<1>5. [u EXCEPT !.alerted = TRUE]
        = [start |-> start, seen |-> now, hits |-> hits \cup hit, alerted |-> TRUE]
  <2> DEFINE all == hits \cup hit
  <2>1. \A yes : [u EXCEPT !.alerted = yes]
                   = [start |-> start, seen |-> now, hits |-> all, alerted |-> yes]
    <3> SUFFICES ASSUME NEW yes
                 PROVE  [u EXCEPT !.alerted = yes]
                          = [start |-> start, seen |-> now, hits |-> all, alerted |-> yes]
      OBVIOUS
    <3>1. u = [start |-> start, seen |-> now, hits |-> all, alerted |-> alerted]
      BY <1>4
    <3> HIDE DEF all
    <3> QED
      BY <3>1
  <2> QED
    BY <2>1
<1>6. IsScan(u)
  BY <1>4 DEF IsScan
<1>7. IsScan([u EXCEPT !.alerted = TRUE])
  BY <1>5 DEF IsScan
<1> QED
  BY <1>4, <1>6, <1>7 DEF u, over, hit, start, hits, alerted

LEMMA SentGrows ==
  ASSUME NEW l, NEW m, NEW p, NEW now, Grown(l, m, p, now), NEW s
  PROVE  /\ \A i \in Sent(l, s) : i \in Sent(m, s) /\ m[i] = l[i]
         /\ \A i \in ProbesOf(l, s) : i \in ProbesOf(m, s) /\ m[i] = l[i]
         /\ \A i \in 1 .. Len(l) :
              m[i] = l[i] /\ (i \in Sent(m, s) => i \in Sent(l, s))
                          /\ (i \in ProbesOf(m, s) => i \in ProbesOf(l, s))
         /\ Sent(l, s) \subseteq 1 .. Len(l) /\ Sent(m, s) \subseteq 1 .. Len(l) + 1
<1>1. \A i \in 1 .. Len(l) : i \in 1 .. Len(l) + 1
  BY DEF Grown
<1> QED
  BY <1>1 DEF Sent, ProbesOf, Grown

LEMMA TraceGrows ==
  ASSUME NEW l, NEW m, NEW p, NEW now, Grown(l, m, p, now), NEW t, NEW s,
         NEW o \in ProbesOf(l, s), TracedFrom(o, t, s, l)
  PROVE  o \in ProbesOf(m, s) /\ TracedFrom(o, t, s, m)
<1>1. \A i \in ProbesOf(l, s) : i \in ProbesOf(m, s) /\ m[i] = l[i]
  BY SentGrows
<1> QED
  BY <1>1 DEF TracedFrom, Span

LEMMA ProbeTraced ==
  ASSUME NEW l, NEW m, NEW p, NEW now, Grown(l, m, p, now), p.dport # 0,
         NEW t, t = NewScan \/ (IsScan(t) /\ Traced(t, p.src, l))
  PROVE  LET u == Probed(t, p, now) IN
         /\ IsScan(u) /\ IsScan([u EXCEPT !.alerted = TRUE])
         /\ Traced(u, p.src, m) /\ Traced([u EXCEPT !.alerted = TRUE], p.src, m)
<1> DEFINE over == WindowOver(t, now, ScanWindow)
           hit == <<p.dst, p.dport>>
           n == Len(l) + 1
           u == Probed(t, p, now)
           start == IF over THEN now ELSE t.start
           hits == (IF over THEN {} ELSE t.hits) \cup {hit}
           v == [u EXCEPT !.alerted = TRUE]
           Held(o, h) == \E i \in Span(m, ProbesOf(m, p.src), o, ScanWindow) :
                           h = <<m[i].p.dst, m[i].p.dport>>
<1>1. IsScan(t)
  BY DEF NewScan, IsScan
<1>2. /\ u = [start |-> start, seen |-> now, hits |-> hits,
              alerted |-> IF over THEN FALSE ELSE t.alerted]
      /\ IsScan(u) /\ IsScan(v)
  BY <1>1, ProbedFields
<1> HIDE DEF start, hits, u
<1>3. u.start = start /\ u.hits = hits /\ v.start = start /\ v.hits = hits
  BY <1>2
<1>4. now \in Nat /\ ScanWindow \in Nat /\ n \in Nat
  BY TrackersAssumption DEF Grown
<1>5. n \in ProbesOf(m, p.src) /\ m[n].p = p /\ m[n].at = now
  <2>1. n \in 1 .. Len(l) + 1
    BY DEF Grown
  <2> QED
    BY <2>1 DEF Grown, Sent, ProbesOf
<1>6. \E o \in ProbesOf(m, p.src) : start = m[o].at /\ \A h \in hits : Held(o, h)
  <2>1. CASE over
    <3>1. start = m[n].at /\ hits = {hit}
      BY <1>5, <2>1 DEF start, hits
    <3>2. n \in Span(m, ProbesOf(m, p.src), n, ScanWindow)
      BY <1>4, <1>5 DEF Span
    <3>3. Held(n, hit)
      BY <1>5, <3>2
    <3> QED
      BY <1>5, <3>1, <3>3
  <2>2. CASE ~ over
    <3>1. t.start # 0 /\ ~(now - t.start > ScanWindow)
      BY <2>2 DEF WindowOver
    <3>2. PICK o \in ProbesOf(l, p.src) : TracedFrom(o, t, p.src, l)
      BY <3>1 DEF NewScan, Traced
    <3>3. /\ o \in ProbesOf(m, p.src) /\ TracedFrom(o, t, p.src, m)
          /\ o \in 1 .. Len(l) /\ m[o] = l[o]
      BY <3>2, TraceGrows, SentGrows DEF ProbesOf
    <3>4. m[o].at = t.start /\ t.start \in Nat /\ o <= n
      BY <3>3 DEF TracedFrom, Grown
    <3>5. now - t.start <= ScanWindow
      BY <1>4, <3>1, <3>4
    <3>6. n \in Span(m, ProbesOf(m, p.src), o, ScanWindow)
      BY <1>4, <1>5, <3>3, <3>4, <3>5 DEF Span
    <3>7. Held(o, hit)
      BY <1>5, <3>6
    <3>8. \A h \in t.hits : Held(o, h)
      BY <3>3 DEF TracedFrom
    <3>9. start = m[o].at /\ hits = t.hits \cup {hit}
      BY <2>2, <3>4 DEF start, hits
    <3> QED
      BY <3>3, <3>7, <3>8, <3>9
  <2> QED
    BY <2>1, <2>2
<1> HIDE DEF v
<1>7. Traced(u, p.src, m) /\ Traced(v, p.src, m)
  BY <1>3, <1>6 DEF Traced, TracedFrom
<1> QED
  BY <1>2, <1>7 DEF u, v

(* What the scan detector makes of a packet, and on what it reports it.    *)
LEMMA EntryTraced ==
  ASSUME NEW l, NEW m, NEW p, NEW now, Grown(l, m, p, now), p.dport # 0,
         NEW room, ScansTraced(room, l)
  PROVE  LET u == ScannedTracker(room, p, now) IN
         /\ Traced(u, p.src, m)
         /\ ScansTraced(With(room, p.src, u), m)
         /\ ScansTraced(With(room, p.src, [u EXCEPT !.alerted = TRUE]), m)
<1> DEFINE t == Entry(room, p.src, NewScan)
           u == ScannedTracker(room, p, now)
           v == [u EXCEPT !.alerted = TRUE]
<1>1. t = NewScan \/ (IsScan(t) /\ Traced(t, p.src, l))
  BY DEF Entry, ScansTraced
<1>2. u = Probed(t, p, now)
  BY DEF ScannedTracker
<1> HIDE DEF t, u
<1>3. IsScan(u) /\ IsScan(v) /\ Traced(u, p.src, m) /\ Traced(v, p.src, m)
  BY <1>1, <1>2, ProbeTraced
<1> HIDE DEF v
<1>4. ASSUME NEW w, IsScan(w), Traced(w, p.src, m)
      PROVE  ScansTraced(With(room, p.src, w), m)
  <2> DEFINE table == With(room, p.src, w)
  <2>1. /\ DOMAIN table = DOMAIN room \cup {p.src} /\ table[p.src] = w
        /\ \A s \in DOMAIN room : s # p.src => table[s] = room[s]
    BY DEF With
  <2> HIDE DEF table
  <2>2. \A s \in DOMAIN room : IsScan(room[s]) /\ Traced(room[s], s, m)
    BY TraceGrows DEF ScansTraced, Traced
  <2>3. ScansTraced(table, m)
    BY <1>4, <2>1, <2>2 DEF ScansTraced
  <2> QED
    BY <2>3 DEF table
<1> QED
  BY <1>3, <1>4 DEF u, v

LEMMA PartTraced ==
  ASSUME NEW table, NEW l, ScansTraced(table, l), NEW part, Part(part, table)
  PROVE  ScansTraced(part, l)
BY DEF ScansTraced, Part

LEMMA TracesGrow ==
  ASSUME NEW l, NEW m, NEW p, NEW now, Grown(l, m, p, now),
         NEW table, ScansTraced(table, l)
  PROVE  ScansTraced(table, m)
BY TraceGrows DEF ScansTraced, Traced

LEMMA ScanSound ==
  ASSUME NEW l, NEW m, NEW p, NEW now, Grown(l, m, p, now),
         NEW v, NEW h, ScansTraced(v, l), ScansTraced(h, l), Bounded(v), Bounded(h),
         NEW scan \in ScanChecked(v, h, p, now)
  PROVE  /\ ScansTraced(scan.vertical, m) /\ ScansTraced(scan.horizontal, m)
         /\ "VerticalScan" \in scan.alerts =>
              \E t : Traced(t, p.src, m) /\ Cardinality(Ports(t, p.dst)) >= PortThreshold
         /\ "HorizontalScan" \in scan.alerts =>
              \E t : Traced(t, p.src, m) /\ Cardinality(Hosts(t, p.dport)) >= HostThreshold
<1> DEFINE Out(x, y, a) == [vertical |-> x, horizontal |-> y, alerts |-> a]
<1>1. \A x, y, a : /\ Out(x, y, a).vertical = x /\ Out(x, y, a).horizontal = y
                   /\ Out(x, y, a).alerts = a
  OBVIOUS
<1>2. CASE p.dport = 0
  <2>1. scan = Out(v, h, {})
    BY <1>2, ScanStep
  <2> HIDE DEF Out
  <2>2. scan.vertical = v /\ scan.horizontal = h /\ scan.alerts = {}
    BY <1>1, <2>1
  <2> QED
    BY <2>2, TracesGrow
<1>3. CASE p.dport # 0
  <2>1. PICK vt \in RoomMade(v), ht \in RoomMade(h) :
          LET v1 == ScannedTracker(vt, p, now)
              h1 == ScannedTracker(ht, p, now) IN
          \/ /\ VerticalScan(v1, p)
             /\ scan = Out(With(vt, p.src, [v1 EXCEPT !.alerted = TRUE]), ht, {"VerticalScan"})
          \/ /\ HorizontalScan(h1, p)
             /\ scan = Out(With(vt, p.src, v1), With(ht, p.src, [h1 EXCEPT !.alerted = TRUE]),
                           {"HorizontalScan"})
          \/ scan = Out(With(vt, p.src, v1), With(ht, p.src, h1), {})
    BY <1>3, ScanStep
  <2> DEFINE v1 == ScannedTracker(vt, p, now)
             h1 == ScannedTracker(ht, p, now)
  <2>2. ScansTraced(vt, l) /\ ScansTraced(ht, l)
    <3>1. Part(vt, v) /\ Part(ht, h)
      BY RoomIsMade DEF Bounded
    <3> QED
      BY <3>1, PartTraced
  <2>3. /\ Traced(v1, p.src, m) /\ ScansTraced(With(vt, p.src, v1), m)
        /\ ScansTraced(With(vt, p.src, [v1 EXCEPT !.alerted = TRUE]), m)
        /\ Traced(h1, p.src, m) /\ ScansTraced(With(ht, p.src, h1), m)
        /\ ScansTraced(With(ht, p.src, [h1 EXCEPT !.alerted = TRUE]), m)
    BY <1>3, <2>2, EntryTraced
  <2>4. ScansTraced(ht, m)
    BY <2>2, TracesGrow
  <2> HIDE DEF Out, v1, h1
  <2>5. CASE /\ VerticalScan(v1, p)
             /\ scan = Out(With(vt, p.src, [v1 EXCEPT !.alerted = TRUE]), ht, {"VerticalScan"})
    <3>1. /\ scan.vertical = With(vt, p.src, [v1 EXCEPT !.alerted = TRUE])
          /\ scan.horizontal = ht /\ scan.alerts = {"VerticalScan"}
      BY <1>1, <2>5
    <3>2. Cardinality(Ports(v1, p.dst)) >= PortThreshold
      BY <2>5 DEF VerticalScan
    <3> QED
      BY <2>3, <2>4, <3>1, <3>2
  <2>6. CASE /\ HorizontalScan(h1, p)
             /\ scan = Out(With(vt, p.src, v1), With(ht, p.src, [h1 EXCEPT !.alerted = TRUE]),
                           {"HorizontalScan"})
    <3>1. /\ scan.vertical = With(vt, p.src, v1)
          /\ scan.horizontal = With(ht, p.src, [h1 EXCEPT !.alerted = TRUE])
          /\ scan.alerts = {"HorizontalScan"}
      BY <1>1, <2>6
    <3>2. Cardinality(Hosts(h1, p.dport)) >= HostThreshold
      BY <2>6 DEF HorizontalScan
    <3> QED
      BY <2>3, <3>1, <3>2
  <2>7. CASE scan = Out(With(vt, p.src, v1), With(ht, p.src, h1), {})
    <3>1. /\ scan.vertical = With(vt, p.src, v1) /\ scan.horizontal = With(ht, p.src, h1)
          /\ scan.alerts = {}
      BY <1>1, <2>7
    <3> QED
      BY <2>3, <3>1
  <2> QED
    BY <2>1, <2>5, <2>6, <2>7 DEF v1, h1
<1> QED
  BY <1>2, <1>3

(* So the alert of a scan is about the packets of one window.              *)
LEMMA PortsCounted ==
  ASSUME NEW l, NEW n \in Nat, DOMAIN l = 1 .. n, NEW t, NEW s, Traced(t, s, l), NEW d
  PROVE  \E o \in ProbesOf(l, s) :
           LET P == PortsOf(l, Span(l, ProbesOf(l, s), o, ScanWindow), d) IN
           /\ Cardinality(Ports(t, d)) <= Cardinality(P)
           /\ Cardinality(P) \in Nat /\ Cardinality(Ports(t, d)) \in Nat
<1>1. PICK o \in ProbesOf(l, s) : TracedFrom(o, t, s, l)
  BY DEF Traced
<1> DEFINE S == Span(l, ProbesOf(l, s), o, ScanWindow)
           X == {j \in S : l[j].p.dst = d}
           f == [i \in 1 .. n |-> l[i].p.dport]
           P == {f[i] : i \in X}
           Q == Ports(t, d)
           g == [h \in Q |-> h[2]]
<1>2. X \in SUBSET (1 .. n)
  BY DEF Sent, ProbesOf, Span
<1>3. IsFiniteSet(P) /\ Cardinality(P) \in Nat
  <2> HIDE DEF X, f
  <2>1. DOMAIN f = 1 .. n
    BY DEF f
  <2> QED
    BY <1>2, <2>1, FieldsFinite
<1>4. ASSUME NEW h \in Q
      PROVE  h = <<d, h[2]>> /\ h[2] \in P
  <2>1. h \in t.hits /\ h[1] = d
    BY DEF Ports
  <2>2. PICK i \in S : h = <<l[i].p.dst, l[i].p.dport>>
    BY <1>1, <2>1 DEF TracedFrom
  <2>3. l[i].p.dst = d /\ h[2] = l[i].p.dport
    BY <2>1, <2>2
  <2>4. i \in X /\ h[2] = f[i]
    BY <1>2, <2>3
  <2> QED
    BY <2>2, <2>3, <2>4
<1> HIDE DEF P
<1>5. g \in [Q -> P] /\ \A x, y \in Q : g[x] = g[y] => x = y
  BY <1>4
<1> HIDE DEF g, Q
<1>6. Cardinality(Q) <= Cardinality(P) /\ Cardinality(Q) \in Nat
  BY <1>3, <1>5, CountedBy
<1>7. P = PortsOf(l, S, d)
  BY <1>2 DEF P, PortsOf
<1> QED
  BY <1>3, <1>6, <1>7 DEF Q

LEMMA HostsCounted ==
  ASSUME NEW l, NEW n \in Nat, DOMAIN l = 1 .. n, NEW t, NEW s, Traced(t, s, l), NEW port
  PROVE  \E o \in ProbesOf(l, s) :
           LET P == HostsOf(l, Span(l, ProbesOf(l, s), o, ScanWindow), port) IN
           /\ Cardinality(Hosts(t, port)) <= Cardinality(P)
           /\ Cardinality(P) \in Nat /\ Cardinality(Hosts(t, port)) \in Nat
<1>1. PICK o \in ProbesOf(l, s) : TracedFrom(o, t, s, l)
  BY DEF Traced
<1> DEFINE S == Span(l, ProbesOf(l, s), o, ScanWindow)
           X == {j \in S : l[j].p.dport = port}
           f == [i \in 1 .. n |-> l[i].p.dst]
           P == {f[i] : i \in X}
           Q == Hosts(t, port)
           g == [h \in Q |-> h[1]]
<1>2. X \in SUBSET (1 .. n)
  BY DEF Sent, ProbesOf, Span
<1>3. IsFiniteSet(P) /\ Cardinality(P) \in Nat
  <2> HIDE DEF X, f
  <2>1. DOMAIN f = 1 .. n
    BY DEF f
  <2> QED
    BY <1>2, <2>1, FieldsFinite
<1>4. ASSUME NEW h \in Q
      PROVE  h = <<h[1], port>> /\ h[1] \in P
  <2>1. h \in t.hits /\ h[2] = port
    BY DEF Hosts
  <2>2. PICK i \in S : h = <<l[i].p.dst, l[i].p.dport>>
    BY <1>1, <2>1 DEF TracedFrom
  <2>3. l[i].p.dport = port /\ h[1] = l[i].p.dst
    BY <2>1, <2>2
  <2>4. i \in X /\ h[1] = f[i]
    BY <1>2, <2>3
  <2> QED
    BY <2>2, <2>3, <2>4
<1> HIDE DEF P
<1>5. g \in [Q -> P] /\ \A x, y \in Q : g[x] = g[y] => x = y
  BY <1>4
<1> HIDE DEF g, Q
<1>6. Cardinality(Q) <= Cardinality(P) /\ Cardinality(Q) \in Nat
  BY <1>3, <1>5, CountedBy
<1>7. P = HostsOf(l, S, port)
  BY <1>2 DEF P, HostsOf
<1> QED
  BY <1>3, <1>6, <1>7 DEF Q

-----------------------------------------------------------------------------
(* The tracker of a source holds connections it opened and that got no     *)
(* answer since, and counts no more SYNs than it sent in the window that   *)
(* its packet o opened.                                                    *)

IsSource(t) ==
  t = [start |-> t.start, seen |-> t.seen, attempts |-> t.attempts,
       completed |-> t.completed, half |-> t.half, alerted |-> t.alerted]

Open(l, i) ==
  IsSyn(l[i].p) /\ \A j \in i + 1 .. Len(l) : ~ Answers(l[j].p, l[i].p)

HalfOpen(t, s, l) ==
  \A c \in DOMAIN t.half : \E i \in Sent(l, s) :
    /\ Open(l, i)
    /\ c = Connection(l[i].p.dst, l[i].p.sport, l[i].p.dport)
    /\ t.half[c] = l[i].at

SynsFrom(l, s, o) == {i \in Span(l, Sent(l, s), o, SynWindow) : IsSyn(l[i].p)}

CountsFrom(o, t, s, l) ==
  /\ t.start = l[o].at
  /\ t.attempts \in Nat /\ t.attempts <= Cardinality(SynsFrom(l, s, o))

CountsSyns(t, s, l) == \E o \in Sent(l, s) : CountsFrom(o, t, s, l)

SourcesTraced(table, l) ==
  \A s \in DOMAIN table :
    IsSource(table[s]) /\ HalfOpen(table[s], s, l) /\ CountsSyns(table[s], s, l)

(* A tracker that has only lost connections.                               *)
Less(u, t) ==
  /\ IsSource(u) /\ u.start = t.start /\ u.attempts = t.attempts
  /\ DOMAIN u.half \subseteq DOMAIN t.half
  /\ \A c \in DOMAIN u.half : u.half[c] = t.half[c]

LeftWith(half, t, u) ==
  \/ u = [t EXCEPT !.half = half]
  \/ \E done : u = [t EXCEPT !.half = half, !.completed = done]

LEMMA LessHalf ==
  ASSUME NEW t, IsSource(t), NEW half, DOMAIN half \subseteq DOMAIN t.half,
         \A c \in DOMAIN half : half[c] = t.half[c], NEW u, LeftWith(half, t, u)
  PROVE  Less(u, t) /\ u.half = half
<1>1. PICK a, b, d, e, f, g :
        t = [start |-> a, seen |-> b, attempts |-> d, completed |-> e, half |-> f, alerted |-> g]
  BY DEF IsSource
<1>2. \E e1 : u = [start |-> a, seen |-> b, attempts |-> d, completed |-> e1, half |-> half,
                   alerted |-> g]
  <2>1. CASE u = [t EXCEPT !.half = half]
    <3>1. u = [start |-> a, seen |-> b, attempts |-> d, completed |-> e, half |-> half,
               alerted |-> g]
      BY <1>1, <2>1
    <3> QED
      BY <3>1
  <2>2. ASSUME NEW done, u = [t EXCEPT !.half = half, !.completed = done]
        PROVE  \E e1 : u = [start |-> a, seen |-> b, attempts |-> d, completed |-> e1,
                            half |-> half, alerted |-> g]
    <3>1. PICK v : v = [t EXCEPT !.half = half]
      OBVIOUS
    <3>2. v = [start |-> a, seen |-> b, attempts |-> d, completed |-> e, half |-> half,
               alerted |-> g]
      BY <1>1, <3>1
    <3>3. u = [v EXCEPT !.completed = done]
      BY <2>2, <3>1
    <3>4. u = [start |-> a, seen |-> b, attempts |-> d, completed |-> done, half |-> half,
               alerted |-> g]
      BY <3>2, <3>3
    <3> QED
      BY <3>4
  <2> QED
    BY <2>1, <2>2 DEF LeftWith
<1>3. IsSource(u) /\ u.half = half /\ u.start = t.start /\ u.attempts = t.attempts
  BY <1>1, <1>2 DEF IsSource
<1> QED
  BY <1>3 DEF Less

LEMMA LessOf ==
  ASSUME NEW t, NEW u, NEW v
  PROVE  /\ IsSource(t) => Less(t, t)
         /\ Less(u, t) /\ Less(v, u) => Less(v, t)
BY DEF Less

LEMMA AnsweredLess ==
  ASSUME NEW table, \A r \in DOMAIN table : IsSource(table[r]), NEW s, NEW c
  PROVE  LET after == Answered(table, s, c) IN
         /\ DOMAIN after = DOMAIN table
         /\ \A r \in DOMAIN table : Less(after[r], table[r])
         /\ s \in DOMAIN table => c \notin DOMAIN after[s].half
<1> DEFINE after == Answered(table, s, c)
<1>1. CASE ~(s \in DOMAIN table /\ c \in DOMAIN table[s].half)
  <2>1. after = table
    BY <1>1 DEF Answered
  <2> HIDE DEF after
  <2> QED
    BY <1>1, <2>1, LessOf DEF after
<1>2. CASE s \in DOMAIN table /\ c \in DOMAIN table[s].half
  <2> DEFINE t == table[s]
             C == DOMAIN t.half \ {c}
             half == [x \in C |-> t.half[x]]
             u == [t EXCEPT !.half = half, !.completed = t.completed + 1]
  <2>1. half = Without(t.half, c)
    BY DEF Without, Restrict
  <2>2. after = [table EXCEPT ![s] = u]
    BY <1>2, <2>1 DEF Answered
  <2>3. Less(u, t) /\ u.half = half
    <3>1. /\ IsSource(t) /\ DOMAIN half \subseteq DOMAIN t.half
          /\ \A x \in DOMAIN half : half[x] = t.half[x]
      BY <1>2
    <3>2. LeftWith(half, t, u)
      BY DEF LeftWith
    <3> HIDE DEF t, half, u
    <3> QED
      BY <3>1, <3>2, LessHalf
  <2>4. c \notin DOMAIN half
    OBVIOUS
  <2> HIDE DEF u, half, after
  <2> QED
    BY <1>2, <2>2, <2>3, <2>4, LessOf DEF after
<1> QED
  BY <1>1, <1>2

(* The packet closes the connection c of the source s.                     *)
Closes(p, s, c) ==
  /\ p.proto = "TCP" /\ p.flags \cap {"ACK", "RST", "FIN"} # {}
  /\ \/ p.dst = s /\ c = Connection(p.src, p.dport, p.sport)
     \/ p.src = s /\ c = Connection(p.dst, p.sport, p.dport)

LEMMA AnswerLess ==
  ASSUME NEW table, \A r \in DOMAIN table : IsSource(table[r]), NEW p
  PROVE  LET after == AfterAnswer(table, p) IN
         /\ DOMAIN after = DOMAIN table
         /\ \A r \in DOMAIN table :
              Less(after[r], table[r]) /\ \A c \in DOMAIN after[r].half : ~ Closes(p, r, c)
<1> DEFINE c1 == Connection(p.src, p.dport, p.sport)
           c2 == Connection(p.dst, p.sport, p.dport)
           half == Answered(table, p.dst, c1)
           both == Answered(half, p.src, c2)
           after == AfterAnswer(table, p)
<1>1. CASE p.flags \cap {"ACK", "RST", "FIN"} = {}
  <2>1. after = table
    BY <1>1 DEF AfterAnswer
  <2> HIDE DEF after
  <2> QED
    BY <1>1, <2>1, LessOf DEF Closes, after
<1>2. CASE p.flags \cap {"ACK", "RST", "FIN"} # {}
  <2>1. after = both
    BY <1>2 DEF AfterAnswer
  <2>2. /\ DOMAIN half = DOMAIN table /\ \A r \in DOMAIN table : Less(half[r], table[r])
        /\ p.dst \in DOMAIN table => c1 \notin DOMAIN half[p.dst].half
    <3> HIDE DEF c1
    <3> QED
      BY AnsweredLess
  <2> HIDE DEF half
  <2>3. \A r \in DOMAIN half : IsSource(half[r])
    BY <2>2 DEF Less
  <2>4. /\ DOMAIN both = DOMAIN half /\ \A r \in DOMAIN half : Less(both[r], half[r])
        /\ p.src \in DOMAIN half => c2 \notin DOMAIN both[p.src].half
    <3> HIDE DEF c2
    <3> QED
      BY <2>3, AnsweredLess
  <2> HIDE DEF both, after
  <2>5. ASSUME NEW r \in DOMAIN table
        PROVE  Less(both[r], table[r]) /\ \A c \in DOMAIN both[r].half : ~ Closes(p, r, c)
    <3>1. Less(half[r], table[r]) /\ Less(both[r], half[r])
      BY <2>2, <2>4
    <3>2. DOMAIN both[r].half \subseteq DOMAIN half[r].half
      BY <3>1 DEF Less
    <3>3. r = p.dst => c1 \notin DOMAIN both[r].half
      BY <2>2, <3>2
    <3>4. r = p.src => c2 \notin DOMAIN both[r].half
      BY <2>2, <2>4
    <3> QED
      BY <3>1, <3>3, <3>4, LessOf DEF Closes
  <2> QED
    BY <2>1, <2>2, <2>4, <2>5 DEF after
<1> QED
  BY <1>1, <1>2

(* A packet that does not close what a source has half open.               *)
LEMMA HalfGrows ==
  ASSUME NEW l, NEW m, NEW p, NEW now, Grown(l, m, p, now),
         NEW t, NEW s, HalfOpen(t, s, l), NEW u, Less(u, t),
         \A c \in DOMAIN u.half : ~ Closes(p, s, c)
  PROVE  HalfOpen(u, s, m)
<1> SUFFICES ASSUME NEW c \in DOMAIN u.half
             PROVE  \E i \in Sent(m, s) :
                      /\ Open(m, i)
                      /\ c = Connection(m[i].p.dst, m[i].p.sport, m[i].p.dport)
                      /\ u.half[c] = m[i].at
  BY DEF HalfOpen
<1>1. c \in DOMAIN t.half /\ u.half[c] = t.half[c]
  BY DEF Less
<1>2. PICK i \in Sent(l, s) : /\ Open(l, i)
                              /\ c = Connection(l[i].p.dst, l[i].p.sport, l[i].p.dport)
                              /\ t.half[c] = l[i].at
  BY <1>1 DEF HalfOpen
<1>3. i \in 1 .. Len(l) /\ l[i].p.src = s
  BY DEF Sent, Grown
<1>4. m[i] = l[i] /\ i \in Sent(m, s)
  <2>1. i \in 1 .. Len(l) + 1
    BY <1>3 DEF Grown
  <2> QED
    BY <1>3, <2>1 DEF Sent, Grown
<1>5. ~ Answers(p, l[i].p)
  BY <1>2, <1>3 DEF Answers, Closes, Connection
<1>6. ASSUME NEW j \in i + 1 .. Len(m)
      PROVE  ~ Answers(m[j].p, m[i].p)
  <2>1. Len(m) = Len(l) + 1 /\ Len(l) \in Nat
    BY DEF Grown
  <2>2. CASE j = Len(l) + 1
    BY <1>4, <1>5, <2>2 DEF Grown
  <2>3. CASE j # Len(l) + 1
    <3>1. j \in i + 1 .. Len(l) /\ j \in 1 .. Len(l)
      BY <1>3, <2>1, <2>3
    <3>2. m[j] = l[j]
      BY <3>1 DEF Grown
    <3> QED
      BY <1>2, <1>4, <3>1, <3>2 DEF Open
  <2> QED
    BY <2>2, <2>3
<1>7. Open(m, i)
  BY <1>2, <1>4, <1>6 DEF Open
<1> QED
  BY <1>1, <1>2, <1>4, <1>7

LEMMA SynsFinite ==
  ASSUME NEW l, Len(l) \in Nat, DOMAIN l = 1 .. Len(l), NEW s, NEW o
  PROVE  IsFiniteSet(SynsFrom(l, s, o)) /\ Cardinality(SynsFrom(l, s, o)) \in Nat
<1>1. SynsFrom(l, s, o) \in SUBSET (1 .. Len(l))
  BY DEF SynsFrom, Span, Sent
<1> QED
  BY <1>1, IndicesFinite

LEMMA SynsGrow ==
  ASSUME NEW l, NEW m, NEW p, NEW now, Grown(l, m, p, now), NEW s, NEW o \in Sent(l, s)
  PROVE  /\ Cardinality(SynsFrom(l, s, o)) <= Cardinality(SynsFrom(m, s, o))
         /\ IsSyn(p) /\ p.src = s /\ now - l[o].at <= SynWindow =>
              Cardinality(SynsFrom(l, s, o)) + 1 <= Cardinality(SynsFrom(m, s, o))
<1> DEFINE n == Len(l) + 1
           A == SynsFrom(l, s, o)
           B == SynsFrom(m, s, o)
<1>1. o \in 1 .. Len(l) /\ m[o] = l[o]
  BY SentGrows
<1>2. A \subseteq B /\ n \notin A
  <2>1. \A i \in Sent(l, s) : i \in Sent(m, s) /\ m[i] = l[i] /\ i \in 1 .. Len(l)
    BY SentGrows
  <2>2. n \notin 1 .. Len(l)
    BY DEF Grown
  <2> QED
    BY <1>1, <2>1, <2>2 DEF SynsFrom, Span
<1>3. IsFiniteSet(A) /\ Cardinality(A) \in Nat /\ IsFiniteSet(B) /\ Cardinality(B) \in Nat
  BY SynsFinite DEF Grown
<1>4. IsSyn(p) /\ p.src = s /\ now - l[o].at <= SynWindow => n \in B
  <2>1. n \in 1 .. n /\ n >= o
    BY <1>1 DEF Grown
  <2> QED
    BY <1>1, <2>1 DEF SynsFrom, Span, Sent, Grown
<1> HIDE DEF A, B, n
<1>5. Cardinality(A) <= Cardinality(B)
  BY <1>2, <1>3, FS_Subset
<1>6. ASSUME n \in B
      PROVE  Cardinality(A) + 1 <= Cardinality(B)
  <2>1. Cardinality(A \cup {n}) = Cardinality(A) + 1
    BY <1>2, <1>3, FS_AddElement
  <2>2. A \cup {n} \in SUBSET B
    BY <1>2, <1>6
  <2>3. Cardinality(A \cup {n}) <= Cardinality(B)
    BY <1>3, <2>2, FS_Subset
  <2> QED
    BY <2>1, <2>3
<1> QED
  BY <1>4, <1>5, <1>6 DEF A, B

LEMMA CountGrows ==
  ASSUME NEW l, NEW m, NEW p, NEW now, Grown(l, m, p, now),
         NEW t, NEW s, CountsSyns(t, s, l), NEW u, Less(u, t)
  PROVE  CountsSyns(u, s, m) /\ CountsSyns(u, s, l)
<1>1. u.start = t.start /\ u.attempts = t.attempts
  BY DEF Less
<1>2. PICK o \in Sent(l, s) : CountsFrom(o, t, s, l)
  BY DEF CountsSyns
<1>3. o \in Sent(m, s) /\ m[o] = l[o]
  BY SentGrows
<1> DEFINE x == Cardinality(SynsFrom(l, s, o))
           y == Cardinality(SynsFrom(m, s, o))
<1>4. x \in Nat /\ y \in Nat /\ x <= y
  BY SynsFinite, SynsGrow DEF Grown
<1>5. t.attempts \in Nat /\ t.attempts <= x /\ t.start = l[o].at
  BY <1>2 DEF CountsFrom
<1> HIDE DEF x, y
<1>6. t.attempts <= y
  BY <1>4, <1>5
<1> QED
  BY <1>1, <1>3, <1>5, <1>6 DEF CountsSyns, CountsFrom, x, y

(* The tracker after a SYN.                                                *)
LEMMA AttemptedFields ==
  ASSUME NEW t, IsSource(t), NEW p, NEW now
  PROVE  LET over == WindowOver(t, now, SynWindow)
             c == Connection(p.dst, p.sport, p.dport) IN
         \E completed, alerted :
           Attempted(t, p, now) =
             [start |-> IF over THEN now ELSE t.start, seen |-> now,
              attempts |-> (IF over THEN 0 ELSE t.attempts) + 1, completed |-> completed,
              half |-> Unexpired(With(t.half, c, now), now), alerted |-> alerted]
<1> DEFINE over == WindowOver(t, now, SynWindow)
           c == Connection(p.dst, p.sport, p.dport)
           w == IF over THEN [NewSource EXCEPT !.start = now, !.half = t.half] ELSE t
           start == IF over THEN now ELSE t.start
           attempts == IF over THEN 0 ELSE t.attempts
           more == attempts + 1
           half == Unexpired(With(t.half, c, now), now)
           u == Attempted(t, p, now)
<1>1. \E seen, completed, alerted :
        w = [start |-> start, seen |-> seen, attempts |-> attempts, completed |-> completed,
             half |-> t.half, alerted |-> alerted]
  <2>1. CASE over
    <3> DEFINE old == t.half
    <3>1. \A x : [NewSource EXCEPT !.start = now, !.half = x]
                   = [start |-> now, seen |-> 0, attempts |-> 0, completed |-> 0, half |-> x,
                      alerted |-> FALSE]
      <4> SUFFICES ASSUME NEW x
                   PROVE  [NewSource EXCEPT !.start = now, !.half = x]
                            = [start |-> now, seen |-> 0, attempts |-> 0, completed |-> 0,
                               half |-> x, alerted |-> FALSE]
        OBVIOUS
      <4>1. PICK y, zero, none, no :
              y = [NewSource EXCEPT !.start = now] /\ zero = 0 /\ none = << >> /\ no = FALSE
        OBVIOUS
      <4>2. y = [start |-> now, seen |-> zero, attempts |-> zero, completed |-> zero,
                 half |-> none, alerted |-> no]
        BY <4>1 DEF NewSource
      <4> HIDE DEF over, c, w, start, attempts, more, half, u, old
      <4>3. [y EXCEPT !.half = x]
              = [start |-> now, seen |-> zero, attempts |-> zero, completed |-> zero,
                 half |-> x, alerted |-> no]
        BY <4>2
      <4> QED
        BY <4>1, <4>3
    <3>2. w = [NewSource EXCEPT !.start = now, !.half = old]
      BY <2>1
    <3> HIDE DEF w, old
    <3>3. w = [start |-> now, seen |-> 0, attempts |-> 0, completed |-> 0, half |-> old,
               alerted |-> FALSE]
      BY <3>1, <3>2
    <3> QED
      BY <2>1, <3>3 DEF old
  <2>2. CASE ~ over
    <3>1. w = t /\ start = t.start /\ attempts = t.attempts
      BY <2>2
    <3> HIDE DEF w, start, attempts, over
    <3>2. w = [start |-> start, seen |-> t.seen, attempts |-> attempts,
               completed |-> t.completed, half |-> t.half, alerted |-> t.alerted]
      BY <3>1 DEF IsSource
    <3> QED
      BY <3>2
  <2> QED
    BY <2>1, <2>2
<1>2. PICK seen, completed, alerted :
        w = [start |-> start, seen |-> seen, attempts |-> attempts, completed |-> completed,
             half |-> t.half, alerted |-> alerted]
  BY <1>1
<1>3. u = [w EXCEPT !.seen = now, !.attempts = w.attempts + 1,
                    !.half = Unexpired(With(w.half, c, now), now)]
  BY DEF Attempted
<1> HIDE DEF w, start, attempts, u, over, c
<1>4. w.attempts + 1 = more /\ Unexpired(With(w.half, c, now), now) = half
  BY <1>2
<1>5. u = [w EXCEPT !.seen = now, !.attempts = more, !.half = half]
  BY <1>3, <1>4
<1> HIDE DEF more, half
<1>6. u = [start |-> start, seen |-> now, attempts |-> more, completed |-> completed,
           half |-> half, alerted |-> alerted]
  <2>1. PICK x : x = [w EXCEPT !.seen = now]
    OBVIOUS
  <2>2. PICK y : y = [x EXCEPT !.attempts = more]
    OBVIOUS
  <2>3. u = [y EXCEPT !.half = half]
    BY <1>5, <2>1, <2>2
  <2>4. PICK old : old = t.half
    OBVIOUS
  <2>5. x = [start |-> start, seen |-> now, attempts |-> attempts, completed |-> completed,
             half |-> old, alerted |-> alerted]
    BY <1>2, <2>1, <2>4
  <2>6. y = [start |-> start, seen |-> now, attempts |-> more, completed |-> completed,
             half |-> old, alerted |-> alerted]
    BY <2>2, <2>5
  <2> QED
    BY <2>3, <2>6
<1> QED
  BY <1>6 DEF u, start, attempts, more, half, over, c

LEMMA AttemptTraced ==
  ASSUME NEW l, NEW m, NEW p, NEW now, Grown(l, m, p, now), IsSyn(p),
         NEW t, \/ t = NewSource
                \/ IsSource(t) /\ HalfOpen(t, p.src, m) /\ CountsSyns(t, p.src, l)
  PROVE  LET u == Attempted(t, p, now) IN
         /\ IsSource(u) /\ HalfOpen(u, p.src, m) /\ CountsSyns(u, p.src, m)
         /\ \A c \in DOMAIN u.half : now - u.half[c] <= HalfOpenTimeout
<1> DEFINE over == WindowOver(t, now, SynWindow)
           key == Connection(p.dst, p.sport, p.dport)
           n == Len(l) + 1
           u == Attempted(t, p, now)
           start == IF over THEN now ELSE t.start
           more == (IF over THEN 0 ELSE t.attempts) + 1
           half == Unexpired(With(t.half, key, now), now)
<1>1. IsSource(t)
  BY DEF NewSource, IsSource
<1>2. \E completed, alerted :
        u = [start |-> start, seen |-> now, attempts |-> more, completed |-> completed,
             half |-> half, alerted |-> alerted]
  BY <1>1, AttemptedFields
<1>3. /\ \A c \in DOMAIN half :
           /\ now - half[c] <= HalfOpenTimeout
           /\ \/ c = key /\ half[c] = now
              \/ c \in DOMAIN t.half /\ half[c] = t.half[c]
  <2> DEFINE put == With(t.half, key, now)
  <2>1. \A c \in DOMAIN put :
          \/ c = key /\ put[c] = now
          \/ c \in DOMAIN t.half /\ put[c] = t.half[c]
    <3> HIDE DEF key
    <3> QED
      BY DEF With
  <2> HIDE DEF put
  <2>2. \A c \in DOMAIN Unexpired(put, now) :
          /\ c \in DOMAIN put /\ now - put[c] <= HalfOpenTimeout
          /\ Unexpired(put, now)[c] = put[c]
    BY DEF Unexpired, Restrict
  <2>3. half = Unexpired(put, now)
    BY DEF put
  <2> HIDE DEF half, key
  <2> QED
    BY <2>1, <2>2, <2>3
<1> HIDE DEF u, start, more, half
<1>4. /\ IsSource(u) /\ u.start = start /\ u.attempts = more /\ u.half = half
  BY <1>2 DEF IsSource
<1>5. n \in Sent(m, p.src) /\ m[n].p = p /\ m[n].at = now /\ now \in Nat /\ Len(m) = n
      /\ Len(l) \in Nat
  <2>1. n \in 1 .. Len(l) + 1
    BY DEF Grown
  <2> QED
    BY <2>1 DEF Grown, Sent
<1>6. Open(m, n)
  <2>1. n + 1 .. n = {}
    BY <1>5
  <2> QED
    BY <1>5, <2>1 DEF Open
<1>7. t = NewSource => DOMAIN t.half = {} /\ over
  BY DEF NewSource, WindowOver
<1>8. HalfOpen(u, p.src, m)
  <2> SUFFICES ASSUME NEW c \in DOMAIN half
               PROVE  \E i \in Sent(m, p.src) :
                        /\ Open(m, i)
                        /\ c = Connection(m[i].p.dst, m[i].p.sport, m[i].p.dport)
                        /\ half[c] = m[i].at
    BY <1>4 DEF HalfOpen
  <2>1. CASE c = key /\ half[c] = now
    BY <1>5, <1>6, <2>1
  <2>2. CASE c \in DOMAIN t.half /\ half[c] = t.half[c]
    <3>1. HalfOpen(t, p.src, m)
      BY <1>7, <2>2
    <3> QED
      BY <2>2, <3>1 DEF HalfOpen
  <2> QED
    BY <1>3, <2>1, <2>2
<1>9. SynWindow \in Nat
  BY TrackersAssumption
<1>10. ASSUME over
       PROVE  CountsSyns(u, p.src, m)
  <2>1. start = m[n].at /\ more = 1
    BY <1>5, <1>10 DEF start, more
  <2>2. {n} \in SUBSET SynsFrom(m, p.src, n)
    BY <1>5, <1>9 DEF SynsFrom, Span
  <2>3. IsFiniteSet(SynsFrom(m, p.src, n)) /\ Cardinality(SynsFrom(m, p.src, n)) \in Nat
    BY SynsFinite DEF Grown
  <2>4. Cardinality({n}) = 1
    BY FS_Singleton
  <2> HIDE DEF n
  <2>5. 1 <= Cardinality(SynsFrom(m, p.src, n))
    BY <2>2, <2>3, <2>4, FS_Subset
  <2>6. CountsFrom(n, u, p.src, m)
    BY <1>4, <2>1, <2>5 DEF CountsFrom
  <2> QED
    BY <1>5, <2>6 DEF CountsSyns
<1>11. ASSUME ~ over
       PROVE  CountsSyns(u, p.src, m)
  <2>1. t.start # 0 /\ ~(now - t.start > SynWindow)
    BY <1>11 DEF WindowOver
  <2>2. PICK o \in Sent(l, p.src) : CountsFrom(o, t, p.src, l)
    BY <1>7, <1>11 DEF CountsSyns
  <2>3. o \in Sent(m, p.src) /\ m[o] = l[o] /\ o \in 1 .. Len(l)
    BY SentGrows
  <2>4. t.start = l[o].at /\ l[o].at \in Nat
    BY <2>2, <2>3 DEF CountsFrom, Grown
  <2>5. now - l[o].at <= SynWindow
    BY <1>5, <1>9, <2>1, <2>4
  <2> DEFINE x == Cardinality(SynsFrom(l, p.src, o))
             y == Cardinality(SynsFrom(m, p.src, o))
  <2>6. x \in Nat /\ y \in Nat /\ x + 1 <= y
    <3>1. x \in Nat /\ y \in Nat
      BY SynsFinite DEF Grown
    <3>2. x + 1 <= y
      BY <2>5, SynsGrow
    <3> QED
      BY <3>1, <3>2
  <2>7. t.attempts \in Nat /\ t.attempts <= x
    BY <2>2 DEF CountsFrom
  <2>8. start = m[o].at /\ more = t.attempts + 1
    BY <1>11, <2>3, <2>4 DEF start, more
  <2> HIDE DEF x, y
  <2>9. more \in Nat /\ more <= y
    BY <2>6, <2>7, <2>8
  <2>10. CountsFrom(o, u, p.src, m)
    BY <1>4, <2>8, <2>9 DEF CountsFrom, y
  <2> QED
    BY <2>3, <2>10 DEF CountsSyns
<1>12. CountsSyns(u, p.src, m)
  BY <1>10, <1>11
<1> QED
  BY <1>3, <1>4, <1>8, <1>12 DEF u

LEMMA AlertedLess ==
  ASSUME NEW t, IsSource(t), NEW x, NEW u, u = [t EXCEPT !.alerted = x]
  PROVE  Less(u, t)
<1>1. PICK a, b, d, e, f, g :
        t = [start |-> a, seen |-> b, attempts |-> d, completed |-> e, half |-> f, alerted |-> g]
  BY DEF IsSource
<1>2. u = [start |-> a, seen |-> b, attempts |-> d, completed |-> e, half |-> f, alerted |-> x]
  BY <1>1
<1>3. IsSource(u) /\ u.half = t.half /\ u.start = t.start /\ u.attempts = t.attempts
  BY <1>1, <1>2 DEF IsSource
<1> QED
  BY <1>3 DEF Less

(* What the SYN detector makes of a packet, and on what it reports it.     *)
Flooding(t, s, now, l) ==
  /\ HalfOpen(t, s, l) /\ CountsSyns(t, s, l)
  /\ \A c \in DOMAIN t.half : now - t.half[c] <= HalfOpenTimeout
  /\ Flood(t)

LEMMA SourcesGrow ==
  ASSUME NEW l, NEW m, NEW p, NEW now, Grown(l, m, p, now),
         NEW table, SourcesTraced(table, l),
         NEW after, DOMAIN after \subseteq DOMAIN table,
         \A r \in DOMAIN after :
           Less(after[r], table[r]) /\ \A c \in DOMAIN after[r].half : ~ Closes(p, r, c)
  PROVE  /\ SourcesTraced(after, m)
         /\ \A r \in DOMAIN after :
              IsSource(after[r]) /\ HalfOpen(after[r], r, m) /\ CountsSyns(after[r], r, l)
<1> SUFFICES ASSUME NEW r \in DOMAIN after
             PROVE  /\ IsSource(after[r]) /\ HalfOpen(after[r], r, m)
                    /\ CountsSyns(after[r], r, l) /\ CountsSyns(after[r], r, m)
  BY DEF SourcesTraced
<1>1. IsSource(after[r])
  BY DEF Less
<1>2. HalfOpen(table[r], r, l) /\ CountsSyns(table[r], r, l)
  BY DEF SourcesTraced
<1> QED
  BY <1>1, <1>2, HalfGrows, CountGrows

LEMMA SynSound ==
  ASSUME NEW l, NEW m, NEW p, NEW now, Grown(l, m, p, now),
         NEW table, SourcesTraced(table, l), Bounded(table),
         NEW syn \in SynChecked(table, p, now)
  PROVE  /\ SourcesTraced(syn.sources, m)
         /\ "SynFlood" \in syn.alerts => \E t : Flooding(t, p.src, now, m)
<1>1. \A r \in DOMAIN table : IsSource(table[r])
  BY DEF SourcesTraced
<1>2. CASE p.proto # "TCP"
  <2>1. syn = [sources |-> table, alerts |-> {}]
    BY <1>2, SynStep DEF IsSyn
  <2>2. \A r \in DOMAIN table :
          Less(table[r], table[r]) /\ \A c \in DOMAIN table[r].half : ~ Closes(p, r, c)
    BY <1>1, <1>2, LessOf DEF Closes
  <2>3. SourcesTraced(table, m)
    BY <2>2, SourcesGrow
  <2> QED
    BY <2>1, <2>3
<1> DEFINE after == AfterAnswer(table, p)
<1>3. /\ DOMAIN after = DOMAIN table
      /\ \A r \in DOMAIN after :
           Less(after[r], table[r]) /\ \A c \in DOMAIN after[r].half : ~ Closes(p, r, c)
  BY <1>1, AnswerLess
<1>4. /\ SourcesTraced(after, m)
      /\ \A r \in DOMAIN after :
           IsSource(after[r]) /\ HalfOpen(after[r], r, m) /\ CountsSyns(after[r], r, l)
  <2> HIDE DEF after
  <2> QED
    BY <1>3, SourcesGrow
<1> HIDE DEF after
<1>5. CASE p.proto = "TCP" /\ ~ IsSyn(p)
  <2>1. syn = [sources |-> after, alerts |-> {}]
    BY <1>5, SynStep DEF after
  <2> QED
    BY <1>4, <2>1
<1>6. CASE IsSyn(p)
  <2> DEFINE Out(x, a) == [sources |-> x, alerts |-> a]
  <2>1. PICK room \in RoomMade(after) :
          LET t == SynTracker(room, p, now)
              x == With(room, p.src, [t EXCEPT !.alerted = @ \/ Flood(t)]) IN
          syn = Out(x, IF Flood(t) THEN {"SynFlood"} ELSE {})
    BY <1>6, SynStep DEF after, IsSyn
  <2> DEFINE u == SynTracker(room, p, now)
             old == Entry(room, p.src, NewSource)
             v == [u EXCEPT !.alerted = @ \/ Flood(u)]
             put == With(room, p.src, v)
  <2>2. \A x, a : Out(x, a).sources = x /\ Out(x, a).alerts = a
    OBVIOUS
  <2>3. syn = Out(put, IF Flood(u) THEN {"SynFlood"} ELSE {})
    BY <2>1
  <2> HIDE DEF Out, put, u
  <2>4. syn.sources = put /\ ("SynFlood" \in syn.alerts => Flood(u))
    BY <2>2, <2>3
  <2>5. Part(room, after)
    <3>1. Bounded(after)
      BY <1>3, PartBounded
    <3> QED
      BY <3>1, RoomIsMade DEF Bounded
  <2>6. \/ old = NewSource
        \/ IsSource(old) /\ HalfOpen(old, p.src, m) /\ CountsSyns(old, p.src, l)
    BY <1>4, <2>5 DEF Entry, Part
  <2>7. u = Attempted(old, p, now)
    BY DEF u, SynTracker
  <2> HIDE DEF old
  <2>8. /\ IsSource(u) /\ HalfOpen(u, p.src, m) /\ CountsSyns(u, p.src, m)
        /\ \A c \in DOMAIN u.half : now - u.half[c] <= HalfOpenTimeout
    BY <1>6, <2>6, <2>7, AttemptTraced
  <2>9. IsSource(v) /\ HalfOpen(v, p.src, m) /\ CountsSyns(v, p.src, m)
    <3>1. PICK x : x = (u.alerted \/ Flood(u))
      OBVIOUS
    <3>2. v = [u EXCEPT !.alerted = x]
      BY <3>1
    <3> HIDE DEF v
    <3>3. Less(v, u)
      BY <2>8, <3>2, AlertedLess
    <3> QED
      BY <2>8, <3>3 DEF Less, HalfOpen, CountsSyns, CountsFrom
  <2> HIDE DEF v
  <2>10. SourcesTraced(put, m)
    <3>1. /\ DOMAIN put = DOMAIN room \cup {p.src} /\ put[p.src] = v
          /\ \A r \in DOMAIN room : r # p.src => put[r] = room[r]
      BY DEF With, put
    <3>2. \A r \in DOMAIN room : r \in DOMAIN after /\ room[r] = after[r]
      BY <2>5 DEF Part
    <3> QED
      BY <1>4, <2>9, <3>1, <3>2 DEF SourcesTraced
  <2> QED
    BY <2>4, <2>8, <2>10 DEF Flooding
<1> QED
  BY <1>2, <1>5, <1>6

(* The cleanup takes sources and connections away.                         *)
LEMMA CleanedTraced ==
  ASSUME NEW table, NEW l, SourcesTraced(table, l), NEW now
  PROVE  SourcesTraced(SourcesCleaned(table, now), l)
<1> DEFINE kept == Fresher(table, now, 2 * HalfOpenTimeout)
           clean == SourcesCleaned(table, now)
<1>1. DOMAIN kept \subseteq DOMAIN table /\ \A s \in DOMAIN kept : kept[s] = table[s]
  BY DEF Fresher, Restrict
<1>2. DOMAIN clean = DOMAIN kept
  BY DEF SourcesCleaned
<1>3. ASSUME NEW s \in DOMAIN kept
      PROVE  Less(clean[s], table[s])
  <2> DEFINE half == Unexpired(kept[s].half, now)
  <2>1. clean[s] = [kept[s] EXCEPT !.half = half]
    BY DEF SourcesCleaned
  <2>2. IsSource(kept[s])
    BY <1>1 DEF SourcesTraced
  <2>3. /\ DOMAIN half \subseteq DOMAIN kept[s].half
        /\ \A c \in DOMAIN half : half[c] = kept[s].half[c]
    BY DEF Unexpired, Restrict
  <2> HIDE DEF half, clean, kept
  <2>4. LeftWith(half, kept[s], clean[s])
    BY <2>1 DEF LeftWith
  <2>5. Less(clean[s], kept[s])
    BY <2>2, <2>3, <2>4, LessHalf
  <2> QED
    BY <1>1, <2>5
<1> HIDE DEF clean, kept
<1>4. ASSUME NEW s \in DOMAIN clean
      PROVE  IsSource(clean[s]) /\ HalfOpen(clean[s], s, l) /\ CountsSyns(clean[s], s, l)
  <2>1. Less(clean[s], table[s]) /\ HalfOpen(table[s], s, l) /\ CountsSyns(table[s], s, l)
    BY <1>1, <1>2, <1>3 DEF SourcesTraced
  <2> QED
    BY <2>1 DEF Less, HalfOpen, CountsSyns, CountsFrom
<1>5. SourcesTraced(clean, l)
  BY <1>4 DEF SourcesTraced
<1> QED
  BY <1>5 DEF clean

-----------------------------------------------------------------------------
(* The alerts of a packet are those of the detectors: a scan or flood      *)
(* alert is the detector's, and each of these is among them.               *)
LEMMA AllOfSet ==
  ASSUME NEW S, IsFiniteSet(S)
  PROVE  \A x \in S : \E i \in DOMAIN SetToSeq(S) : SetToSeq(S)[i] = x
<1> DEFINE n == Cardinality(S)
           f == SetToSeq(S)
<1>1. n \in Nat
  BY FS_CardinalityType
<1>2. f \in [1 .. n -> S] /\ IsInjective(f)
  <2>1. PICK g : g \in Bijection(1 .. Cardinality(S), S)
    BY FS_CardinalityType DEF ExistsBijection
  <2>2. g \in [1 .. n -> S] /\ IsInjective(g)
    BY <2>1 DEF Bijection, Injection, IsInjective
  <2> QED
    BY <2>2 DEF SetToSeq
<1> HIDE DEF f
<1>3. IsFiniteSet(1 .. n) /\ Cardinality(1 .. n) = Cardinality(S)
  BY <1>1, FS_Interval
<1>4. f \in Injection(1 .. n, S)
  BY <1>2 DEF Injection
<1>5. f \in Surjection(1 .. n, S)
  <2> HIDE DEF n
  <2> QED
    BY <1>3, <1>4, FS_Injection
<1>6. \A x \in S : \E i \in DOMAIN f : f[i] = x
  BY <1>5 DEF Surjection
<1> QED
  BY <1>6 DEF f

LEMMA AlertKinds ==
  ASSUME NEW p, NEW scan, NEW syn, scan.alerts \in ScanAlerts, syn.alerts \in SynAlerts
  PROVE  LET alerts == PacketAlerts(p, scan, syn)
             reported == scan.alerts \cup syn.alerts IN
         /\ \A i \in DOMAIN alerts : alerts[i].kind \in reported \cup {"Dns", "Signature"}
         /\ \A kind \in reported : \E i \in DOMAIN alerts : alerts[i].kind = kind
<1> DEFINE S == scan.alerts \cup syn.alerts
           a == SetToSeq(scan.alerts)
           b == SetToSeq(syn.alerts)
           alerts == PacketAlerts(p, scan, syn)
<1>1. IsFiniteSet(scan.alerts) /\ IsFiniteSet(syn.alerts)
  <2>1. \A x : IsFiniteSet({x})
    BY FS_Singleton
  <2> QED
    BY <2>1, FS_EmptySet DEF ScanAlerts, SynAlerts
<1>2. a \in Seq(scan.alerts) /\ b \in Seq(syn.alerts)
  BY <1>1, SequenceOfSet
<1>3. a \in Seq(S) /\ b \in Seq(S)
  BY <1>2, SeqMonotonic
<1>4. /\ \A x \in scan.alerts : \E i \in DOMAIN a : a[i] = x
      /\ \A x \in syn.alerts : \E i \in DOMAIN b : b[i] = x
  BY <1>1, AllOfSet
<1>5. alerts = AlertsOf(p, a \o b)
  BY DEF PacketAlerts
<1> HIDE DEF a, b, alerts, S
<1>6. a \o b \in Seq(S)
  BY <1>3
<1>7. /\ alerts \in Seq(AlertsBeing(S))
      /\ \A j \in 1 .. Len(a \o b) : j \in DOMAIN alerts /\ alerts[j].kind = (a \o b)[j]
  <2>1. PICK c : c = a \o b
    OBVIOUS
  <2>2. c \in Seq(S) /\ alerts = AlertsOf(p, c)
    BY <1>5, <1>6, <2>1
  <2>3. /\ AlertsOf(p, c) \in Seq(AlertsBeing(S))
        /\ \A j \in 1 .. Len(c) :
             j \in DOMAIN AlertsOf(p, c) /\ AlertsOf(p, c)[j].kind = c[j]
    BY <2>2, AlertsTyped
  <2> QED
    BY <2>1, <2>2, <2>3
<1>8. \A i \in DOMAIN alerts : alerts[i].kind \in S \cup {"Dns", "Signature"}
  <2>1. \A t \in AlertsBeing(S) : t.kind \in S \cup {"Dns", "Signature"}
    BY DEF AlertsBeing
  <2>2. alerts \in Seq(AlertsBeing(S))
    BY <1>7
  <2> QED
    BY <2>1, <2>2
<1>9. ASSUME NEW kind \in S
      PROVE  \E j \in 1 .. Len(a \o b) : (a \o b)[j] = kind
  <2>1. CASE \E i \in DOMAIN a : a[i] = kind
    <3>1. PICK i \in 1 .. Len(a) : a[i] = kind
      BY <1>3, <2>1
    <3>2. i \in 1 .. Len(a \o b) /\ (a \o b)[i] = a[i]
      BY <1>3
    <3> QED
      BY <3>1, <3>2
  <2>2. CASE \E i \in DOMAIN b : b[i] = kind
    <3>1. PICK i \in 1 .. Len(b) : b[i] = kind
      BY <1>3, <2>2
    <3>2. Len(a) + i \in 1 .. Len(a \o b) /\ (a \o b)[Len(a) + i] = b[i]
      BY <1>3
    <3> QED
      BY <3>1, <3>2
  <2> QED
    BY <1>4, <2>1, <2>2 DEF S
<1>10. \A kind \in S : \E i \in DOMAIN alerts : alerts[i].kind = kind
  BY <1>7, <1>9
<1> QED
  BY <1>8, <1>10 DEF S, alerts

(* The alerts of the packet p in the list q are of the kinds reported or   *)
(* about the content, and there is one of each kind reported.              *)
RaisedFor(p, reported, q) ==
  /\ \A i \in DOMAIN q \ DOMAIN raised :
       /\ q[i].kind \in reported \cup {"Dns", "Signature"}
       /\ q[i].src = p.src /\ q[i].dst = p.dst
  /\ \A kind \in reported : \E i \in DOMAIN q :
       q[i].kind = kind /\ q[i].src = p.src /\ q[i].by = Len(log) + 1

LEMMA RaisedStep ==
  ASSUME HistoryTyped, NEW p \in Packets, NEW now,
         NEW scan \in ScanOutcomes(p, now), NEW syn \in SynOutcomes(p, now),
         NEW q, q = raised \o NewAlerts(p, PacketAlerts(p, scan, syn))
  PROVE  RaisedFor(p, scan.alerts \cup syn.alerts, q)
<1> DEFINE reported == scan.alerts \cup syn.alerts
           alerts == PacketAlerts(p, scan, syn)
           new == NewAlerts(p, alerts)
           n == Len(raised)
<1>1. scan.alerts \in ScanAlerts /\ syn.alerts \in SynAlerts
  BY ScanOutcomesTyped, SynOutcomesTyped
<1>2. /\ \A i \in DOMAIN alerts : alerts[i].kind \in reported \cup {"Dns", "Signature"}
      /\ \A kind \in reported : \E i \in DOMAIN alerts : alerts[i].kind = kind
  BY <1>1, AlertKinds
<1>3. alerts \in Seq([kind : Kinds, severity : Severities])
  BY <1>1, PacketAlertsTyped
<1> HIDE DEF alerts, reported
<1>4. /\ new \in Seq(Alerts) /\ Len(new) = Len(alerts)
      /\ \A i \in 1 .. Len(alerts) :
           /\ new[i].kind = alerts[i].kind /\ new[i].src = p.src /\ new[i].dst = p.dst
           /\ new[i].by = Len(log) + 1
  BY <1>3, NewAlertsTyped
<1>5. Len(alerts) \in Nat /\ DOMAIN alerts = 1 .. Len(alerts)
  BY <1>3
<1>6. raised \in Seq(Alerts) /\ q = raised \o new
  BY DEF HistoryTyped, alerts
<1> HIDE DEF new
<1>7. /\ DOMAIN raised = 1 .. n /\ n \in Nat /\ DOMAIN q = 1 .. n + Len(alerts)
      /\ \A i \in 1 .. n + Len(alerts) : q[i] = IF i <= n THEN raised[i] ELSE new[i - n]
  BY <1>4, <1>5, <1>6
<1>8. ASSUME NEW i \in DOMAIN q \ DOMAIN raised
      PROVE  /\ q[i].kind \in reported \cup {"Dns", "Signature"}
             /\ q[i].src = p.src /\ q[i].dst = p.dst
  <2>1. i \in 1 .. n + Len(alerts) /\ i \notin 1 .. n
    BY <1>7
  <2>2. i - n \in 1 .. Len(alerts) /\ ~(i <= n)
    BY <1>5, <1>7, <2>1
  <2>3. q[i] = new[i - n]
    BY <1>7, <2>1, <2>2
  <2> QED
    BY <1>2, <1>4, <1>5, <2>2, <2>3
<1>9. ASSUME NEW kind \in reported
      PROVE  \E i \in DOMAIN q :
               /\ q[i].kind = kind /\ q[i].src = p.src
               /\ q[i].by = Len(log) + 1
  <2>1. PICK j \in 1 .. Len(alerts) : alerts[j].kind = kind
    BY <1>2, <1>5
  <2>2. n + j \in 1 .. n + Len(alerts) /\ ~(n + j <= n) /\ (n + j) - n = j
    BY <1>5, <1>7
  <2>3. q[n + j] = new[j]
    BY <1>7, <2>2
  <2> QED
    BY <1>4, <1>7, <2>1, <2>2, <2>3
<1> QED
  BY <1>8, <1>9 DEF RaisedFor, reported

(* A flood is counted in the log.                                          *)
LEMMA FloodCounted ==
  ASSUME NEW l, Len(l) \in Nat, DOMAIN l = 1 .. Len(l), \A i \in 1 .. Len(l) : l[i].at \in Nat,
         NEW now \in Nat, NEW t, NEW s, Flooding(t, s, now, l)
  PROVE  LET Near(age) == {i \in Sent(l, s) : now - l[i].at <= age} IN
         \/ Cardinality({<<l[i].p.dst, l[i].p.sport, l[i].p.dport>> :
                           i \in {j \in Near(HalfOpenTimeout) : Open(l, j)}})
              >= HalfOpenThreshold
         \/ \E o \in Sent(l, s) : Cardinality(SynsFrom(l, s, o)) >= SynThreshold
<1> DEFINE Near(age) == {i \in Sent(l, s) : now - l[i].at <= age}
           X == {j \in Near(HalfOpenTimeout) : Open(l, j)}
           f == [i \in 1 .. Len(l) |-> <<l[i].p.dst, l[i].p.sport, l[i].p.dport>>]
           P == {f[i] : i \in X}
           Q == DOMAIN t.half
<1>1. \/ Cardinality(Q) >= HalfOpenThreshold
      \/ t.attempts >= SynThreshold
  BY DEF Flooding, Flood
<1>2. CASE Cardinality(Q) >= HalfOpenThreshold
  <2>1. X \in SUBSET (1 .. Len(l))
    BY DEF Sent
  <2>2. IsFiniteSet(P) /\ Cardinality(P) \in Nat
    <3>1. DOMAIN f = 1 .. Len(l)
      OBVIOUS
    <3> HIDE DEF f, X
    <3> QED
      BY <2>1, <3>1, FieldsFinite
  <2>3. ASSUME NEW c \in Q
        PROVE  c \in P
    <3>1. PICK i \in Sent(l, s) :
            /\ Open(l, i) /\ c = Connection(l[i].p.dst, l[i].p.sport, l[i].p.dport)
            /\ t.half[c] = l[i].at
      BY DEF Flooding, HalfOpen
    <3>2. now - l[i].at <= HalfOpenTimeout
      BY <3>1 DEF Flooding
    <3>3. i \in X /\ i \in 1 .. Len(l)
      BY <3>1, <3>2 DEF Sent
    <3>4. c = f[i]
      BY <3>1, <3>3 DEF Connection
    <3> HIDE DEF X, f
    <3> QED
      BY <3>3, <3>4
  <2>4. P = {<<l[i].p.dst, l[i].p.sport, l[i].p.dport>> : i \in X}
    BY <2>1
  <2> HIDE DEF P
  <2>5. Cardinality(Q) <= Cardinality(P) /\ Cardinality(Q) \in Nat
    <3>1. Q \in SUBSET P
      BY <2>3
    <3> HIDE DEF Q
    <3> QED
      BY <2>2, <3>1, FS_Subset, FS_CardinalityType
  <2>6. HalfOpenThreshold \in Nat
    BY TrackersAssumption
  <2>7. Cardinality(P) >= HalfOpenThreshold
    BY <1>2, <2>2, <2>5, <2>6
  <2> QED
    BY <2>4, <2>7
<1>3. CASE t.attempts >= SynThreshold
  <2>1. PICK o \in Sent(l, s) : CountsFrom(o, t, s, l)
    BY DEF Flooding, CountsSyns
  <2> DEFINE y == Cardinality(SynsFrom(l, s, o))
  <2>2. t.attempts \in Nat /\ t.attempts <= y /\ y \in Nat
    BY <2>1, SynsFinite DEF CountsFrom
  <2>3. SynThreshold \in Nat
    BY TrackersAssumption
  <2> HIDE DEF y
  <2>4. y >= SynThreshold
    BY <1>3, <2>2, <2>3
  <2> QED
    BY <2>4 DEF y
<1> QED
  BY <1>1, <1>2, <1>3

(* What holds between two packets of the detectors and the log.            *)
DetectorsInv ==
  /\ HistoryTyped
  /\ TablesBounded
  /\ ScansTraced(vertical, log) /\ ScansTraced(horizontal, log)
  /\ SourcesTraced(sources, log)

LEMMA DetectorsInit == Init => DetectorsInv
<1> SUFFICES ASSUME Init PROVE DetectorsInv
  OBVIOUS
<1>1. DOMAIN vertical = {} /\ DOMAIN horizontal = {} /\ DOMAIN sources = {}
  BY DEF Init
<1>2. ScansTraced(vertical, log) /\ ScansTraced(horizontal, log) /\ SourcesTraced(sources, log)
  BY <1>1 DEF ScansTraced, SourcesTraced
<1> QED
  BY <1>2, HistoryInit, TablesInit DEF DetectorsInv

(* A packet's step, with what the detectors had to report it.              *)
LEMMA DetectorsPacket ==
  ASSUME DetectorsInv, NEW p \in Packets, NEW now \in Nat, Packet(p, now),
         NEW scan \in ScanOutcomes(p, now), NEW syn \in SynOutcomes(p, now)
  PROVE  /\ ScansTraced(scan.vertical, log') /\ ScansTraced(scan.horizontal, log')
         /\ SourcesTraced(syn.sources, log')
         /\ "VerticalScan" \in scan.alerts =>
              \E t : Traced(t, p.src, log') /\ Cardinality(Ports(t, p.dst)) >= PortThreshold
         /\ "HorizontalScan" \in scan.alerts =>
              \E t : Traced(t, p.src, log') /\ Cardinality(Hosts(t, p.dport)) >= HostThreshold
         /\ "SynFlood" \in syn.alerts => \E t : Flooding(t, p.src, now, log')
<1>1. Grown(log, log', p, now)
  BY LogGrows DEF DetectorsInv
<1>2. PICK v, h : /\ scan \in ScanChecked(v, h, p, now)
                  /\ ScansTraced(v, log) /\ ScansTraced(h, log) /\ Bounded(v) /\ Bounded(h)
  <2>1. CASE CleanupDue
    <3> DEFINE v == ScansCleaned(vertical, now)
               h == ScansCleaned(horizontal, now)
    <3>1. scan \in ScanChecked(v, h, p, now)
      BY <2>1 DEF ScanOutcomes
    <3>2. Part(v, vertical) /\ Part(h, horizontal)
      BY CleaningShrinks
    <3> HIDE DEF v, h
    <3>3. ScansTraced(v, log) /\ ScansTraced(h, log) /\ Bounded(v) /\ Bounded(h)
      BY <3>2, PartTraced, PartBounded DEF DetectorsInv, TablesBounded, Part
    <3> QED
      BY <3>1, <3>3
  <2>2. CASE ~ CleanupDue
    BY <2>2 DEF ScanOutcomes, DetectorsInv, TablesBounded
  <2> QED
    BY <2>1, <2>2
<1>3. PICK table : /\ syn \in SynChecked(table, p, now)
                   /\ SourcesTraced(table, log) /\ Bounded(table)
  <2>1. CASE CleanupDue
    <3>1. /\ SourcesTraced(SourcesCleaned(sources, now), log)
          /\ Bounded(SourcesCleaned(sources, now))
      BY CleanedTraced, CleaningShrinks, PartBounded DEF DetectorsInv, TablesBounded
    <3> QED
      BY <2>1, <3>1 DEF SynOutcomes
  <2>2. CASE ~ CleanupDue
    BY <2>2 DEF SynOutcomes, DetectorsInv, TablesBounded
  <2> QED
    BY <2>1, <2>2
<1>4. PICK m : m = log'
  OBVIOUS
<1>5. Grown(log, m, p, now)
  BY <1>1, <1>4
<1>6. /\ ScansTraced(scan.vertical, m) /\ ScansTraced(scan.horizontal, m)
      /\ "VerticalScan" \in scan.alerts =>
           \E t : Traced(t, p.src, m) /\ Cardinality(Ports(t, p.dst)) >= PortThreshold
      /\ "HorizontalScan" \in scan.alerts =>
           \E t : Traced(t, p.src, m) /\ Cardinality(Hosts(t, p.dport)) >= HostThreshold
  BY <1>2, <1>5, ScanSound
<1>7. /\ SourcesTraced(syn.sources, m)
      /\ "SynFlood" \in syn.alerts => \E t : Flooding(t, p.src, now, m)
  BY <1>3, <1>5, SynSound
<1> QED
  BY <1>4, <1>6, <1>7

LEMMA DetectorsStep == DetectorsInv /\ [Next]_vars => DetectorsInv'
<1> SUFFICES ASSUME DetectorsInv, [Next]_vars PROVE DetectorsInv'
  OBVIOUS
<1>1. CASE UNCHANGED vars
  <2>1. UNCHANGED <<vertical, horizontal, sources, log, raised>>
    BY <1>1 DEF vars, threat
  <2>2. HistoryTyped' /\ TablesBounded'
    BY <2>1 DEF DetectorsInv, HistoryTyped, TablesBounded
  <2>3. /\ ScansTraced(vertical, log)' /\ ScansTraced(horizontal, log)'
        /\ SourcesTraced(sources, log)'
    BY <2>1 DEF DetectorsInv
  <2> QED
    BY <2>2, <2>3 DEF DetectorsInv
<1>2. CASE Next
  <2>1. PICK p \in Packets, now \in Nat : Packet(p, now)
    BY <1>2, NextPacket DEF DetectorsInv
  <2>2. PICK scan \in ScanOutcomes(p, now), syn \in SynOutcomes(p, now) :
          vertical' = scan.vertical /\ horizontal' = scan.horizontal /\ sources' = syn.sources
    BY <2>1, PacketStep
  <2>3. /\ ScansTraced(scan.vertical, log') /\ ScansTraced(scan.horizontal, log')
        /\ SourcesTraced(syn.sources, log')
    BY <2>1, DetectorsPacket
  <2>4. HistoryTyped' /\ TablesBounded'
    BY <2>1, HistoryStep, TablesStep DEF DetectorsInv
  <2> QED
    BY <2>2, <2>3, <2>4 DEF DetectorsInv
<1> QED
  BY <1>1, <1>2

(* What Justified says, of any alert of a packet to that port, time and    *)
(* log.                                                                    *)
JustifiedIn(alert, port, now, l) ==
  LET sent == Sent(l, alert.src)
      probes == ProbesOf(l, alert.src)
      Near(age) == {i \in sent : now - l[i].at <= age} IN
  CASE alert.kind = "VerticalScan" ->
         \E o \in probes :
           Cardinality(PortsOf(l, Span(l, probes, o, ScanWindow), alert.dst)) >= PortThreshold
    [] alert.kind = "HorizontalScan" ->
         \E o \in probes :
           Cardinality(HostsOf(l, Span(l, probes, o, ScanWindow), port)) >= HostThreshold
    [] alert.kind = "SynFlood" ->
         \/ Cardinality({<<l[i].p.dst, l[i].p.sport, l[i].p.dport>> :
                           i \in {j \in Near(HalfOpenTimeout) : Open(l, j)}})
              >= HalfOpenThreshold
         \/ \E o \in sent : Cardinality(SynsFrom(l, alert.src, o)) >= SynThreshold
    [] OTHER -> TRUE

LEMMA AlertBacked ==
  ASSUME NEW l, Len(l) \in Nat, DOMAIN l = 1 .. Len(l), \A i \in 1 .. Len(l) : l[i].at \in Nat,
         NEW now \in Nat, NEW alert, NEW port,
         alert.kind = "VerticalScan" =>
           \E t : Traced(t, alert.src, l) /\ Cardinality(Ports(t, alert.dst)) >= PortThreshold,
         alert.kind = "HorizontalScan" =>
           \E t : Traced(t, alert.src, l) /\ Cardinality(Hosts(t, port)) >= HostThreshold,
         alert.kind = "SynFlood" => \E t : Flooding(t, alert.src, now, l)
  PROVE  JustifiedIn(alert, port, now, l)
<1> DEFINE probes == ProbesOf(l, alert.src)
<1>1. PortThreshold \in Nat /\ HostThreshold \in Nat
  BY TrackersAssumption
<1>2. CASE alert.kind = "VerticalScan"
  <2>1. PICK t : Traced(t, alert.src, l) /\ Cardinality(Ports(t, alert.dst)) >= PortThreshold
    BY <1>2
  <2> DEFINE N(o) == Cardinality(PortsOf(l, Span(l, probes, o, ScanWindow), alert.dst))
             k == Cardinality(Ports(t, alert.dst))
  <2>2. \E o \in probes : k <= N(o) /\ N(o) \in Nat /\ k \in Nat
    BY <2>1, PortsCounted
  <2>3. PICK o \in probes : k <= N(o) /\ N(o) \in Nat /\ k \in Nat
    BY <2>2
  <2>4. k >= PortThreshold
    BY <2>1
  <2> HIDE DEF N, k
  <2>5. N(o) >= PortThreshold
    BY <1>1, <2>3, <2>4
  <2> QED
    BY <1>2, <2>5 DEF JustifiedIn, N
<1>3. CASE alert.kind = "HorizontalScan"
  <2>1. PICK t : Traced(t, alert.src, l) /\ Cardinality(Hosts(t, port)) >= HostThreshold
    BY <1>3
  <2> DEFINE N(o) == Cardinality(HostsOf(l, Span(l, probes, o, ScanWindow), port))
             k == Cardinality(Hosts(t, port))
  <2>2. \E o \in probes : k <= N(o) /\ N(o) \in Nat /\ k \in Nat
    BY <2>1, HostsCounted
  <2>3. PICK o \in probes : k <= N(o) /\ N(o) \in Nat /\ k \in Nat
    BY <2>2
  <2>4. k >= HostThreshold
    BY <2>1
  <2> HIDE DEF N, k
  <2>5. N(o) >= HostThreshold
    BY <1>1, <2>3, <2>4
  <2> QED
    BY <1>3, <2>5 DEF JustifiedIn, N
<1>4. CASE alert.kind = "SynFlood"
  <2> DEFINE Near(age) == {i \in Sent(l, alert.src) : now - l[i].at <= age}
  <2>1. PICK t : Flooding(t, alert.src, now, l)
    BY <1>4
  <2>2. \/ Cardinality({<<l[i].p.dst, l[i].p.sport, l[i].p.dport>> :
                          i \in {j \in Near(HalfOpenTimeout) : Open(l, j)}})
             >= HalfOpenThreshold
        \/ \E o \in Sent(l, alert.src) : Cardinality(SynsFrom(l, alert.src, o)) >= SynThreshold
    BY <2>1, FloodCounted
  <2> QED
    BY <1>4, <2>2 DEF JustifiedIn
<1>5. CASE alert.kind \notin {"VerticalScan", "HorizontalScan", "SynFlood"}
  BY <1>5 DEF JustifiedIn
<1> QED
  BY <1>2, <1>3, <1>4, <1>5

LEMMA JustifiedMeans ==
  ASSUME NEW alert
  PROVE  /\ Justified(alert) <=> JustifiedIn(alert, LastPacket.dport, Clock, log)
         /\ Justified(alert)' <=> JustifiedIn(alert, LastPacket.dport, Clock, log)'
<1> DEFINE s == alert.src
<1>1. /\ From(s) = Sent(log, s) /\ Probes(s) = ProbesOf(log, s)
      /\ From(s)' = Sent(log', s) /\ Probes(s)' = ProbesOf(log', s)
  BY DEF From, Sent, Probes, ProbesOf
<1>2. /\ \A age : {j \in From(s) \cap Within(age) : Unanswered(j)}
                    = {j \in {i \in Sent(log, s) : Clock - log[i].at <= age} : Open(log, j)}
      /\ \A age : {j \in From(s)' \cap Within(age)' : Unanswered(j)'}
                    = {j \in {i \in Sent(log', s) : Clock' - log'[i].at <= age} :
                         Open(log', j)}
  BY <1>1 DEF Within, Unanswered, Open, Sent
<1>3. CASE alert.kind = "VerticalScan"
  BY <1>1, <1>3 DEF Justified, JustifiedIn, InWindow, Span, PortsAmong, PortsOf
<1>4. CASE alert.kind = "HorizontalScan"
  BY <1>1, <1>4 DEF Justified, JustifiedIn, InWindow, Span, HostsAmong, HostsOf
<1>5. CASE alert.kind = "SynFlood"
  BY <1>1, <1>2, <1>5 DEF Justified, JustifiedIn, InWindow, SynsFrom, Span, ConnectionsAmong
<1>6. CASE alert.kind \notin {"VerticalScan", "HorizontalScan", "SynFlood"}
  BY <1>6 DEF Justified, JustifiedIn
<1> QED
  BY <1>3, <1>4, <1>5, <1>6

LEMMA AlertsStep == DetectorsInv /\ AlertsJustified /\ [Next]_vars => AlertsJustified'
<1> SUFFICES ASSUME DetectorsInv, AlertsJustified, [Next]_vars PROVE AlertsJustified'
  OBVIOUS
<1>1. CASE UNCHANGED vars
  <2>1. UNCHANGED <<log, raised>>
    BY <1>1 DEF vars
  <2>2. ASSUME NEW i \in DOMAIN raised', raised'[i].by = Len(log')
        PROVE  Justified(raised[i])'
    <3>1. PICK alert : alert = raised[i]
      OBVIOUS
    <3>2. Justified(alert)
      BY <2>1, <2>2, <3>1 DEF AlertsJustified
    <3>3. JustifiedIn(alert, LastPacket.dport, Clock, log)'
      BY <2>1, <3>2, JustifiedMeans DEF LastPacket, Clock
    <3>4. Justified(alert)'
      BY <3>3, JustifiedMeans
    <3> QED
      BY <2>1, <3>1, <3>4
  <2> QED
    BY <2>2 DEF AlertsJustified
<1>2. CASE Next
  <2>1. PICK p \in Packets, now \in Nat : Packet(p, now)
    BY <1>2, NextPacket DEF DetectorsInv
  <2>2. PICK scan \in ScanOutcomes(p, now), syn \in SynOutcomes(p, now) :
          raised' = raised \o NewAlerts(p, PacketAlerts(p, scan, syn))
    BY <2>1, PacketStep
  <2>3. /\ Clock' = now /\ Len(log') = Len(log) + 1
        /\ \A i \in DOMAIN raised : raised'[i] = raised[i]
        /\ log'[Len(log) + 1] = [p |-> p, at |-> now]
    BY <2>1, HistoryStep DEF DetectorsInv
  <2>4. Grown(log, log', p, now)
    BY <2>1, LogGrows DEF DetectorsInv
  <2>5. /\ Len(log') \in Nat /\ DOMAIN log' = 1 .. Len(log')
        /\ \A i \in 1 .. Len(log') : log'[i].at \in Nat
    <3>1. \A i \in 1 .. Len(log) + 1 : i \in 1 .. Len(log) \/ i = Len(log) + 1
      BY <2>4 DEF Grown
    <3> QED
      BY <2>4, <3>1 DEF Grown
  <2>6. LastPacket' = p
    <3>1. Last(log') = [p |-> p, at |-> now]
      BY <2>3 DEF Last
    <3> QED
      BY <3>1 DEF LastPacket
  <2>7. /\ \A i \in DOMAIN raised' \ DOMAIN raised :
             /\ raised'[i].kind \in scan.alerts \cup syn.alerts \cup {"Dns", "Signature"}
             /\ raised'[i].src = p.src /\ raised'[i].dst = p.dst
    <3>1. RaisedFor(p, scan.alerts \cup syn.alerts, raised')
      BY <2>2, RaisedStep DEF DetectorsInv
    <3> QED
      BY <3>1 DEF RaisedFor
  <2>8. scan.alerts \in ScanAlerts /\ syn.alerts \in SynAlerts
    BY ScanOutcomesTyped, SynOutcomesTyped
  <2>9. ASSUME NEW i \in DOMAIN raised', raised'[i].by = Len(log')
        PROVE  Justified(raised[i])'
    <3>1. i \notin DOMAIN raised
      <4>1. Len(log) \in Nat /\ DOMAIN log = 1 .. Len(log)
        BY <2>4 DEF Grown
      <4>2. ASSUME i \in DOMAIN raised
            PROVE  FALSE
        <5>1. raised[i].by \in 1 .. Len(log) /\ raised'[i] = raised[i]
          BY <2>3, <4>1, <4>2 DEF DetectorsInv, HistoryTyped
        <5> QED
          BY <2>3, <2>9, <4>1, <5>1
      <4> QED
        BY <4>2
    <3>2. PICK alert : alert = raised'[i]
      OBVIOUS
    <3>3. /\ alert.kind \in scan.alerts \cup syn.alerts \cup {"Dns", "Signature"}
          /\ alert.src = p.src /\ alert.dst = p.dst
      BY <2>7, <3>1, <3>2
    <3>4. /\ alert.kind = "VerticalScan" => "VerticalScan" \in scan.alerts
          /\ alert.kind = "HorizontalScan" => "HorizontalScan" \in scan.alerts
          /\ alert.kind = "SynFlood" => "SynFlood" \in syn.alerts
      BY <2>8, <3>3 DEF ScanAlerts, SynAlerts
    <3>5. PICK l : l = log'
      OBVIOUS
    <3>6. /\ alert.kind = "VerticalScan" =>
               \E t : Traced(t, p.src, l) /\ Cardinality(Ports(t, p.dst)) >= PortThreshold
          /\ alert.kind = "HorizontalScan" =>
               \E t : Traced(t, p.src, l) /\ Cardinality(Hosts(t, p.dport)) >= HostThreshold
          /\ alert.kind = "SynFlood" => \E t : Flooding(t, p.src, now, l)
      BY <2>1, <3>4, <3>5, DetectorsPacket
    <3>7. /\ Len(l) \in Nat /\ DOMAIN l = 1 .. Len(l)
          /\ \A k \in 1 .. Len(l) : l[k].at \in Nat
      BY <2>5, <3>5
    <3>8. JustifiedIn(alert, p.dport, now, l)
      BY <3>3, <3>6, <3>7, AlertBacked
    <3>9. JustifiedIn(alert, LastPacket.dport, Clock, log)'
      BY <2>3, <2>6, <3>5, <3>8
    <3>10. Justified(alert)'
      BY <3>9, JustifiedMeans
    <3> QED
      BY <3>2, <3>10
  <2> QED
    BY <2>9 DEF AlertsJustified
<1> QED
  BY <1>1, <1>2

LEMMA AlertsInit == Init => AlertsJustified
BY DEF Init, AlertsJustified

LEMMA DetectorsInvariant == Spec => []DetectorsInv
<1>1. Init => DetectorsInv
  BY DetectorsInit
<1>2. DetectorsInv /\ [Next]_vars => DetectorsInv'
  BY DetectorsStep
<1> QED
  BY <1>1, <1>2, PTL DEF Spec

(* An alert accuses a source of what it did, whatever was evicted, expired *)
(* or answered between the packets that led to it (check_packet of         *)
(* port_scan_detector.cpp and syn_flood_detector.cpp).                     *)
THEOREM AlertsHaveCause == Spec => []AlertsJustified
<1>1. Init => AlertsJustified
  BY AlertsInit
<1>2. DetectorsInv /\ AlertsJustified /\ [Next]_vars => AlertsJustified'
  BY AlertsStep
<1> QED
  BY <1>1, <1>2, DetectorsInvariant, PTL DEF Spec

-----------------------------------------------------------------------------
(* No scan is lost between two windows.  Since: the probes of a source     *)
(* from packet i on; Between: those of them before packet o.               *)
Since(l, s, i) == {k \in ProbesOf(l, s) : k >= i}
Between(l, s, i, o) == {k \in ProbesOf(l, s) : k >= i /\ k < o}
Quiet(l, X) == \A d : Cardinality(PortsOf(l, X, d)) < PortThreshold

(* The conditions of ScansReported for any log l and list of alerts r.     *)
SourcesFrom(l, t) == {l[k].p.src : k \in {j \in DOMAIN l : l[j].at >= t}}
UnbrokenIn(l, s, i, t) ==
  /\ \A k \in Since(l, s, i) : l[k].at >= t /\ l[k].at <= t + ScanWindow
  /\ \A k \in DOMAIN l : k >= i => l[k].at <= t + 2 * ScanWindow
  /\ Cardinality(SourcesFrom(l, t)) < MaxTracked

ScanAlert(alert, s) == alert.kind = "VerticalScan" /\ alert.src = s
ReportedIn(l, r, s, i) ==
  \E a \in DOMAIN r : ScanAlert(r[a], s) /\
    \E j \in ProbesOf(l, s) :
      /\ j <= r[a].by
      /\ \A k \in Since(l, s, j) : k <= i => l[k].at <= l[j].at + ScanWindow

(* The tracker of a source holds all that it probed from packet o on,      *)
(* which opened the window, and as soon as too many ports of a host are    *)
(* among it there was an alert.                                            *)
Spoken(t, s, r, o) ==
  \/ t.alerted = TRUE /\ \E a \in DOMAIN r : ScanAlert(r[a], s) /\ o <= r[a].by
  \/ t.alerted = FALSE /\ \A d : Cardinality(Ports(t, d)) < PortThreshold

Opened(t, s, l, r, o) ==
  /\ o \in ProbesOf(l, s) /\ t.start = l[o].at
  /\ IsFiniteSet(t.hits)
  /\ \A k \in Since(l, s, o) :
       <<l[k].p.dst, l[k].p.dport>> \in t.hits /\ l[k].at <= l[o].at + ScanWindow
  /\ \E k \in ProbesOf(l, s) : t.seen = l[k].at /\ \A j \in ProbesOf(l, s) : j <= k
  /\ Spoken(t, s, r, o)

AllOpened(table, l, r) ==
  \A s \in DOMAIN table : IsScan(table[s]) /\ \E o : Opened(table[s], s, l, r, o)

(* Since packet i the window was opened at most once more, and what came   *)
(* before that was no scan.                                                *)
Covered(table, l, r, s, i) ==
  s \in DOMAIN table /\ \E o : /\ Opened(table[s], s, l, r, o)
                               /\ o <= i \/ Quiet(l, Between(l, s, i, o))

(* Of every run of probes that nothing broke in the log m.                 *)
Watched(table, l, r, m) ==
  \A s : \A t \in Nat \ {0} : \A i \in ProbesOf(l, s) :
    UnbrokenIn(m, s, i, t) => ReportedIn(l, r, s, i) \/ Covered(table, l, r, s, i)

(* The list r is a beginning of the list q.                                *)
Longer(r, q) == \A k \in DOMAIN r : k \in DOMAIN q /\ q[k] = r[k]

LEMMA PortsFinite ==
  ASSUME NEW l, NEW n \in Nat, DOMAIN l = 1 .. n, NEW X \in SUBSET DOMAIN l, NEW d
  PROVE  IsFiniteSet(PortsOf(l, X, d)) /\ Cardinality(PortsOf(l, X, d)) \in Nat
<1> DEFINE f == [i \in 1 .. n |-> l[i].p.dport]
           Y == {j \in X : l[j].p.dst = d}
<1>1. Y \in SUBSET (1 .. n) /\ DOMAIN f = 1 .. n /\ \A i \in 1 .. n : f[i] = l[i].p.dport
  OBVIOUS
<1>2. PortsOf(l, X, d) = {f[i] : i \in Y}
  BY <1>1 DEF PortsOf
<1> HIDE DEF f, Y
<1>3. IsFiniteSet({f[i] : i \in Y}) /\ Cardinality({f[i] : i \in Y}) \in Nat
  <2>1. DOMAIN f = 1 .. n /\ Y \in SUBSET (1 .. n)
    BY <1>1
  <2> QED
    BY <2>1, FieldsFinite
<1> QED
  BY <1>2, <1>3

LEMMA PortsHit ==
  ASSUME NEW l, NEW X, NEW t, IsFiniteSet(t.hits), NEW d,
         \A i \in X : <<l[i].p.dst, l[i].p.dport>> \in t.hits
  PROVE  /\ Cardinality(PortsOf(l, X, d)) <= Cardinality(Ports(t, d))
         /\ Cardinality(PortsOf(l, X, d)) \in Nat /\ Cardinality(Ports(t, d)) \in Nat
<1> DEFINE Q == PortsOf(l, X, d)
           P == Ports(t, d)
           f == [x \in Q |-> <<d, x>>]
<1>1. IsFiniteSet(P)
  <2>1. P \in SUBSET t.hits
    BY DEF Ports
  <2> QED
    BY <2>1, FS_Subset
<1>2. ASSUME NEW x \in Q PROVE <<d, x>> \in P
  BY <1>2 DEF PortsOf, Ports
<1> HIDE DEF Q, P
<1>3. f \in [Q -> P] /\ \A x, y \in Q : f[x] = f[y] => x = y
  BY <1>2
<1> HIDE DEF f
<1> QED
  BY <1>1, <1>3, CountedBy DEF Q, P

LEMMA OthersKept ==
  ASSUME NEW l, NEW m, NEW p, NEW now, Grown(l, m, p, now), NEW s,
         p.src # s \/ p.dport = 0
  PROVE  /\ ProbesOf(m, s) = ProbesOf(l, s)
         /\ \A i \in ProbesOf(l, s) : m[i] = l[i]
<1>1. \A i \in 1 .. Len(l) + 1 : i \in 1 .. Len(l) \/ i = Len(l) + 1
  BY DEF Grown
<1>2. \A i \in 1 .. Len(l) : i \in 1 .. Len(l) + 1
  BY DEF Grown
<1>3. DOMAIN l = 1 .. Len(l) /\ DOMAIN m = 1 .. Len(l) + 1
      /\ (\A i \in 1 .. Len(l) : m[i] = l[i]) /\ m[Len(l) + 1].p = p
  BY DEF Grown
<1> QED
  BY <1>1, <1>2, <1>3 DEF ProbesOf, Sent

(* One packet more.                                                        *)
LEMMA ProbeIndices ==
  ASSUME NEW l, NEW m, NEW p, NEW now, Grown(l, m, p, now), NEW s
  PROVE  /\ Len(l) \in Nat /\ DOMAIN m = 1 .. Len(l) + 1
         /\ \A k \in ProbesOf(l, s) :
              /\ k \in 1 .. Len(l) /\ k \in ProbesOf(m, s) /\ m[k] = l[k]
              /\ l[k].at \in Nat
         /\ \A k \in ProbesOf(m, s) :
              /\ k \in 1 .. Len(l) + 1 /\ m[k].at \in Nat
              /\ k # Len(l) + 1 => k \in ProbesOf(l, s)
<1>1. /\ Len(l) \in Nat /\ DOMAIN l = 1 .. Len(l) /\ DOMAIN m = 1 .. Len(l) + 1
      /\ (\A i \in 1 .. Len(l) : m[i] = l[i] /\ l[i].at \in Nat)
      /\ m[Len(l) + 1].at = now /\ now \in Nat
  BY DEF Grown
<1>2. \A i \in 1 .. Len(l) : i \in 1 .. Len(l) + 1
  BY <1>1
<1>3. \A i \in 1 .. Len(l) + 1 : i \in 1 .. Len(l) \/ i = Len(l) + 1
  BY <1>1
<1> QED
  BY <1>1, <1>2, <1>3 DEF ProbesOf, Sent

LEMMA UnbrokenBefore ==
  ASSUME NEW l, NEW m, NEW p, NEW now, Grown(l, m, p, now), NEW s, NEW i, NEW t,
         UnbrokenIn(m, s, i, t)
  PROVE  /\ \A k \in Since(l, s, i) : l[k].at >= t /\ l[k].at <= t + ScanWindow
         /\ Len(l) + 1 >= i => now <= t + 2 * ScanWindow
         /\ IsFiniteSet(SourcesFrom(l, t)) /\ Cardinality(SourcesFrom(l, t)) \in Nat
         /\ Cardinality(SourcesFrom(l, t)) < MaxTracked
<1> DEFINE n == Len(l) + 1
           few == SourcesFrom(l, t)
           all == SourcesFrom(m, t)
<1>1. \A k \in Since(l, s, i) : l[k].at >= t /\ l[k].at <= t + ScanWindow
  BY ProbeIndices DEF UnbrokenIn, Since
<1>2. Len(l) + 1 >= i => now <= t + 2 * ScanWindow
  <2>1. n \in DOMAIN m /\ m[n].at = now
    BY DEF Grown
  <2> QED
    BY <2>1 DEF UnbrokenIn
<1>3. IsFiniteSet(all)
  <2> DEFINE f == [k \in 1 .. n |-> m[k].p.src]
             X == {j \in 1 .. n : m[j].at >= t}
  <2>1. DOMAIN f = 1 .. n /\ n \in Nat /\ X \in SUBSET (1 .. n) /\ DOMAIN m = 1 .. n
    BY DEF Grown
  <2>2. all = {f[k] : k \in X}
    BY <2>1 DEF SourcesFrom
  <2> HIDE DEF f, X, n, all
  <2> QED
    BY <2>1, <2>2, FieldsFinite
<1>4. few \in SUBSET all
  <2>1. \A k \in DOMAIN l : k \in DOMAIN m /\ m[k] = l[k]
    <3>1. \A k \in 1 .. Len(l) : k \in 1 .. Len(l) + 1
      BY DEF Grown
    <3> QED
      BY <3>1 DEF Grown
  <2> QED
    BY <2>1 DEF SourcesFrom
<1>5. Cardinality(all) < MaxTracked
  BY DEF UnbrokenIn
<1> HIDE DEF few, all
<1>6. /\ IsFiniteSet(few) /\ Cardinality(few) <= Cardinality(all)
      /\ Cardinality(few) \in Nat /\ Cardinality(all) \in Nat
  BY <1>3, <1>4, FS_Subset, FS_CardinalityType
<1>7. Cardinality(few) < MaxTracked
  BY <1>5, <1>6, TrackersAssumption
<1> QED
  BY <1>1, <1>2, <1>6, <1>7 DEF few

LEMMA ReportGrows ==
  ASSUME NEW l, NEW m, NEW p, NEW now, Grown(l, m, p, now), NEW r, NEW q, Longer(r, q),
         NEW s, NEW i \in ProbesOf(l, s), ReportedIn(l, r, s, i)
  PROVE  ReportedIn(m, q, s, i)
<1>1. PICK a \in DOMAIN r : ScanAlert(r[a], s) /\
        \E j \in ProbesOf(l, s) :
          /\ j <= r[a].by
          /\ \A k \in Since(l, s, j) : k <= i => l[k].at <= l[j].at + ScanWindow
  BY DEF ReportedIn
<1>2. PICK j \in ProbesOf(l, s) :
        /\ j <= r[a].by
        /\ \A k \in Since(l, s, j) : k <= i => l[k].at <= l[j].at + ScanWindow
  BY <1>1
<1>3. a \in DOMAIN q /\ q[a] = r[a]
  BY DEF Longer
<1>4. j \in ProbesOf(m, s) /\ m[j] = l[j] /\ i \in 1 .. Len(l) /\ Len(l) \in Nat
  BY ProbeIndices
<1>5. ASSUME NEW k \in Since(m, s, j), k <= i PROVE m[k].at <= m[j].at + ScanWindow
  <2>1. k \in ProbesOf(m, s) /\ k >= j /\ k # Len(l) + 1
    BY <1>4, <1>5 DEF Since
  <2>2. k \in Since(l, s, j) /\ m[k] = l[k]
    BY <2>1, ProbeIndices DEF Since
  <2> QED
    BY <1>2, <1>4, <1>5, <2>2
<1> QED
  BY <1>1, <1>2, <1>3, <1>4, <1>5 DEF ReportedIn

(* A packet of another source, or to no port.                              *)
LEMMA OpenedStays ==
  ASSUME NEW l, NEW m, NEW p, NEW now, Grown(l, m, p, now), NEW r, NEW q, Longer(r, q),
         NEW s, p.src # s \/ p.dport = 0, NEW t, NEW o, Opened(t, s, l, r, o)
  PROVE  Opened(t, s, m, q, o)
<1>1. ProbesOf(m, s) = ProbesOf(l, s) /\ \A i \in ProbesOf(l, s) : m[i] = l[i]
  BY OthersKept
<1>2. Spoken(t, s, q, o)
  BY DEF Opened, Spoken, Longer
<1> QED
  BY <1>1, <1>2 DEF Opened, Since

LEMMA CoveredStays ==
  ASSUME NEW l, NEW m, NEW p, NEW now, Grown(l, m, p, now), NEW r, NEW q, Longer(r, q),
         NEW s, p.src # s \/ p.dport = 0, NEW table, NEW next,
         s \in DOMAIN next, next[s] = table[s], NEW i, Covered(table, l, r, s, i)
  PROVE  Covered(next, m, q, s, i)
<1>1. PICK o : Opened(table[s], s, l, r, o) /\ (o <= i \/ Quiet(l, Between(l, s, i, o)))
  BY DEF Covered
<1>2. Opened(next[s], s, m, q, o)
  BY <1>1, OpenedStays
<1>3. ProbesOf(m, s) = ProbesOf(l, s) /\ \A k \in ProbesOf(l, s) : m[k] = l[k]
  BY OthersKept
<1>4. \A d : PortsOf(m, Between(m, s, i, o), d) = PortsOf(l, Between(l, s, i, o), d)
  BY <1>3 DEF Between, PortsOf
<1>5. Quiet(l, Between(l, s, i, o)) => Quiet(m, Between(m, s, i, o))
  BY <1>4 DEF Quiet
<1> QED
  BY <1>1, <1>2, <1>5 DEF Covered

(* What a probe makes of the tracker of its source: it holds the probe,    *)
(* and reports when too many ports are hit.                                *)
HitsOn(hits, d) == {h \in hits : h[1] = d}

LEMMA SpokenAfter ==
  ASSUME NEW q, NEW s, NEW o, NEW p, NEW u, NEW w, NEW hits, IsFiniteSet(hits),
         u.hits = hits \cup {<<p.dst, p.dport>>},
         \/ u.alerted = TRUE /\ \E a \in DOMAIN q : ScanAlert(q[a], s) /\ o <= q[a].by
         \/ u.alerted = FALSE /\ \A d : Cardinality(HitsOn(hits, d)) < PortThreshold,
         VerticalScan(u, p) => \E a \in DOMAIN q : ScanAlert(q[a], s) /\ o <= q[a].by,
         w.hits = u.hits,
         VerticalScan(u, p) => w.alerted = TRUE,
         ~ VerticalScan(u, p) => w.alerted = u.alerted
  PROVE  Spoken(w, s, q, o)
<1>1. CASE VerticalScan(u, p)
  BY <1>1 DEF Spoken
<1>2. CASE ~ VerticalScan(u, p) /\ u.alerted = TRUE
  BY <1>2 DEF Spoken
<1>3. CASE ~ VerticalScan(u, p) /\ u.alerted = FALSE
  <2>1. \A d : Cardinality(HitsOn(hits, d)) < PortThreshold
    BY <1>3
  <2>2. ASSUME NEW d PROVE Cardinality(Ports(w, d)) < PortThreshold
    <3>1. CASE d = p.dst
      <4>1. ~(Cardinality(Ports(u, p.dst)) >= PortThreshold)
        BY <1>3 DEF VerticalScan
      <4>2. Ports(w, d) = Ports(u, p.dst)
        BY <3>1 DEF Ports
      <4>3. IsFiniteSet(Ports(u, p.dst))
        <5>1. IsFiniteSet(u.hits)
          BY FS_AddElement
        <5>2. Ports(u, p.dst) \in SUBSET u.hits
          BY DEF Ports
        <5> QED
          BY <5>1, <5>2, FS_Subset
      <4>4. Cardinality(Ports(u, p.dst)) \in Nat /\ PortThreshold \in Nat
        BY <4>3, FS_CardinalityType, TrackersAssumption
      <4> QED
        BY <4>1, <4>2, <4>4
    <3>2. CASE d # p.dst
      <4>1. <<p.dst, p.dport>>[1] = p.dst
        OBVIOUS
      <4>2. Ports(w, d) = HitsOn(hits, d)
        BY <3>2, <4>1 DEF Ports, HitsOn
      <4> QED
        BY <2>1, <4>2
    <3> QED
      BY <3>1, <3>2
  <2> QED
    BY <1>3, <2>2 DEF Spoken
<1> QED
  BY <1>1, <1>2, <1>3

(* The tracker after a probe: one that opens a window, and one that falls  *)
(* into the window which packet o opened.                                  *)
AfterProbe(t, p, now, w) ==
  LET u == Probed(t, p, now)
      over == WindowOver(t, now, ScanWindow)
      hits == IF over THEN {} ELSE t.hits IN
  /\ u.hits = hits \cup {<<p.dst, p.dport>>}
  /\ u.alerted = IF over THEN FALSE ELSE t.alerted
  /\ w.start = IF over THEN now ELSE t.start
  /\ w.seen = now /\ w.hits = u.hits
  /\ VerticalScan(u, p) => w.alerted = TRUE
  /\ ~ VerticalScan(u, p) => w.alerted = u.alerted

(* The alert of packet n.                                                  *)
AlertAt(q, s, n) ==
  \E a \in DOMAIN q : ScanAlert(q[a], s) /\ n <= q[a].by /\ q[a].by \in Nat

LEMMA AfterProbeFields ==
  ASSUME NEW p, NEW now, NEW t, IsScan(t), NEW u, u = Probed(t, p, now),
         NEW w, VerticalScan(u, p) => w = [u EXCEPT !.alerted = TRUE],
         ~ VerticalScan(u, p) => w = u
  PROVE  AfterProbe(t, p, now, w)
<1> DEFINE over == WindowOver(t, now, ScanWindow)
           start == IF over THEN now ELSE t.start
           hits == IF over THEN {} ELSE t.hits
           alerted == IF over THEN FALSE ELSE t.alerted
           all == hits \cup {<<p.dst, p.dport>>}
           v == [u EXCEPT !.alerted = TRUE]
<1>1. u = [start |-> start, seen |-> now, hits |-> all, alerted |-> alerted]
  BY ProbedFields
<1>2. v = [start |-> start, seen |-> now, hits |-> all, alerted |-> TRUE]
  <2> HIDE DEF start, all, alerted, hits, over
  <2>1. \A yes : [u EXCEPT !.alerted = yes]
                   = [start |-> start, seen |-> now, hits |-> all, alerted |-> yes]
    BY <1>1
  <2> QED
    BY <2>1
<1> HIDE DEF start, all, alerted, v
<1>3. /\ u.hits = all /\ u.alerted = alerted
      /\ w.start = start /\ w.seen = now /\ w.hits = all
      /\ VerticalScan(u, p) => w.alerted = TRUE
      /\ ~ VerticalScan(u, p) => w.alerted = u.alerted
  BY <1>1, <1>2 DEF v
<1> QED
  BY <1>3 DEF AfterProbe, start, all, alerted

LEMMA ProbeLast ==
  ASSUME NEW l, NEW m, NEW p, NEW now, Grown(l, m, p, now), p.dport # 0
  PROVE  LET n == Len(l) + 1 IN
         /\ n \in ProbesOf(m, p.src) /\ m[n].p = p /\ m[n].at = now /\ now \in Nat
         /\ n \in Nat /\ \A k \in ProbesOf(m, p.src) : k <= n
<1>1. /\ Len(l) \in Nat /\ Len(l) + 1 \in 1 .. Len(l) + 1
      /\ \A k \in 1 .. Len(l) + 1 : k <= Len(l) + 1
  BY DEF Grown
<1> QED
  BY <1>1, ProbeIndices DEF Grown, ProbesOf, Sent

LEMMA WindowOpens ==
  ASSUME NEW l, NEW m, NEW p, NEW now, Grown(l, m, p, now), p.dport # 0, NEW q,
         NEW t, NEW w, AfterProbe(t, p, now, w), WindowOver(t, now, ScanWindow),
         VerticalScan(Probed(t, p, now), p) => AlertAt(q, p.src, Len(l) + 1)
  PROVE  Opened(w, p.src, m, q, Len(l) + 1)
<1> DEFINE n == Len(l) + 1
           u == Probed(t, p, now)
           hit == <<p.dst, p.dport>>
<1>1. /\ n \in ProbesOf(m, p.src) /\ m[n].p = p /\ m[n].at = now /\ now \in Nat
      /\ n \in Nat /\ \A k \in ProbesOf(m, p.src) : k <= n
  BY ProbeLast
<1>2. /\ u.hits = {} \cup {hit} /\ u.alerted = FALSE
      /\ w.start = now /\ w.seen = now /\ w.hits = u.hits
      /\ VerticalScan(u, p) => w.alerted = TRUE
      /\ ~ VerticalScan(u, p) => w.alerted = u.alerted
  BY DEF AfterProbe
<1>3. ASSUME NEW k \in Since(m, p.src, n) PROVE k = n
  <2>1. k <= n /\ k >= n /\ k \in ProbesOf(m, p.src)
    BY <1>1 DEF Since
  <2>2. k \in 1 .. n
    BY <2>1, ProbeIndices
  <2> QED
    BY <1>1, <2>1, <2>2
<1>4. IsFiniteSet({}) /\ \A d : Cardinality(HitsOn({}, d)) < PortThreshold
  <2>1. \A d : HitsOn({}, d) = {}
    BY DEF HitsOn
  <2>2. \A d : Cardinality(HitsOn({}, d)) = 0
    BY <2>1, FS_EmptySet
  <2> QED
    BY <2>2, FS_EmptySet, TrackersAssumption
<1> HIDE DEF u
<1>5. Spoken(w, p.src, q, n)
  <2>1. VerticalScan(u, p) =>
          \E a \in DOMAIN q : ScanAlert(q[a], p.src) /\ n <= q[a].by
    BY DEF u, AlertAt
  <2> HIDE DEF n
  <2> QED
    BY <1>2, <1>4, <2>1, SpokenAfter
<1>6. IsFiniteSet(w.hits)
  <2>1. IsFiniteSet({} \cup {hit})
    BY <1>4, FS_AddElement
  <2> QED
    BY <1>2, <2>1
<1>7. ASSUME NEW k \in Since(m, p.src, n)
      PROVE  /\ <<m[k].p.dst, m[k].p.dport>> \in w.hits
             /\ m[k].at <= m[n].at + ScanWindow
  <2>1. k = n /\ m[k].p = p /\ m[k].at = now
    BY <1>1, <1>3
  <2>2. now <= now + ScanWindow
    BY <1>1, TrackersAssumption
  <2> QED
    BY <1>1, <1>2, <2>1, <2>2
<1> HIDE DEF n
<1> QED
  BY <1>1, <1>2, <1>5, <1>6, <1>7 DEF Opened, n

LEMMA WindowGoesOn ==
  ASSUME NEW l, NEW m, NEW p, NEW now, Grown(l, m, p, now), p.dport # 0,
         NEW r, NEW q, Longer(r, q),
         NEW t, NEW w, AfterProbe(t, p, now, w), ~ WindowOver(t, now, ScanWindow),
         NEW o, Opened(t, p.src, l, r, o),
         VerticalScan(Probed(t, p, now), p) => AlertAt(q, p.src, Len(l) + 1)
  PROVE  Opened(w, p.src, m, q, o)
<1> DEFINE n == Len(l) + 1
           u == Probed(t, p, now)
           hit == <<p.dst, p.dport>>
<1>1. /\ n \in ProbesOf(m, p.src) /\ m[n].p = p /\ m[n].at = now /\ now \in Nat
      /\ n \in Nat /\ \A k \in ProbesOf(m, p.src) : k <= n
  BY ProbeLast
<1>2. /\ u.hits = t.hits \cup {hit} /\ u.alerted = t.alerted
      /\ w.start = t.start /\ w.seen = now /\ w.hits = u.hits
      /\ VerticalScan(u, p) => w.alerted = TRUE
      /\ ~ VerticalScan(u, p) => w.alerted = u.alerted
  BY DEF AfterProbe
<1>3. /\ o \in ProbesOf(l, p.src) /\ t.start = l[o].at /\ IsFiniteSet(t.hits)
      /\ \A k \in Since(l, p.src, o) :
           <<l[k].p.dst, l[k].p.dport>> \in t.hits /\ l[k].at <= l[o].at + ScanWindow
      /\ Spoken(t, p.src, r, o)
  BY DEF Opened
<1>4. o \in 1 .. Len(l) /\ o \in ProbesOf(m, p.src) /\ m[o] = l[o] /\ l[o].at \in Nat
      /\ Len(l) \in Nat
  BY <1>3, ProbeIndices
<1> HIDE DEF u
<1>5. Spoken(w, p.src, q, o)
  <2>1. VerticalScan(u, p) =>
          \E a \in DOMAIN q : ScanAlert(q[a], p.src) /\ o <= q[a].by
    <3>1. \A by \in Nat : Len(l) + 1 <= by => o <= by
      BY <1>4
    <3> QED
      BY <3>1 DEF u, AlertAt
  <2>2. \A d : HitsOn(t.hits, d) = Ports(t, d)
    BY DEF HitsOn, Ports
  <2>3. \/ u.alerted = TRUE /\ \E a \in DOMAIN q : ScanAlert(q[a], p.src) /\ o <= q[a].by
        \/ u.alerted = FALSE /\ \A d : Cardinality(HitsOn(t.hits, d)) < PortThreshold
    BY <1>2, <1>3, <2>2 DEF Spoken, Longer
  <2> QED
    BY <1>2, <1>3, <2>1, <2>3, SpokenAfter
<1>6. IsFiniteSet(w.hits)
  <2>1. IsFiniteSet(t.hits \cup {hit})
    BY <1>3, FS_AddElement
  <2> QED
    BY <1>2, <2>1
<1>7. now <= l[o].at + ScanWindow
  <2>1. ~(now - l[o].at > ScanWindow)
    BY <1>3 DEF WindowOver
  <2>2. ASSUME NEW at \in Nat, NEW len \in Nat, ~(now - at > len)
        PROVE  now <= at + len
    BY <1>1, <2>2
  <2>3. ScanWindow \in Nat
    BY TrackersAssumption
  <2> QED
    BY <1>4, <2>1, <2>2, <2>3
<1>8. ASSUME NEW k \in Since(m, p.src, o)
      PROVE  /\ <<m[k].p.dst, m[k].p.dport>> \in w.hits
             /\ m[k].at <= m[o].at + ScanWindow
  <2>1. CASE k = n
    BY <1>1, <1>2, <1>4, <1>7, <2>1
  <2>2. CASE k # n
    <3>1. k \in Since(l, p.src, o) /\ m[k] = l[k]
      BY <2>2, ProbeIndices DEF Since
    <3> QED
      BY <1>2, <1>3, <1>4, <3>1
  <2> QED
    BY <2>1, <2>2
<1> HIDE DEF n
<1> QED
  BY <1>1, <1>2, <1>3, <1>4, <1>5, <1>6, <1>8 DEF Opened

(* The runs of probes of the packet's source that nothing broke: one that  *)
(* began before, in a window that goes on or in a new one, and one that    *)
(* begins with this packet.                                                *)
LEMMA SpokenReports ==
  ASSUME NEW l, NEW r, NEW s, NEW t, NEW o, Opened(t, s, l, r, o), NEW i
  PROVE  \/ ReportedIn(l, r, s, i)
         \/ t.alerted = FALSE /\ \A d : Cardinality(Ports(t, d)) < PortThreshold
<1> SUFFICES ASSUME NEW a \in DOMAIN r, ScanAlert(r[a], s), o <= r[a].by
             PROVE  ReportedIn(l, r, s, i)
  BY DEF Opened, Spoken
<1>1. /\ o \in ProbesOf(l, s)
      /\ \A k \in Since(l, s, o) : k <= i => l[k].at <= l[o].at + ScanWindow
  BY DEF Opened
<1> QED
  BY <1>1 DEF ReportedIn

LEMMA QuietPart ==
  ASSUME NEW l, NEW m, NEW X, NEW t, IsFiniteSet(t.hits),
         \A i \in X : m[i] = l[i] /\ <<l[i].p.dst, l[i].p.dport>> \in t.hits,
         \A d : Cardinality(Ports(t, d)) < PortThreshold
  PROVE  Quiet(m, X)
<1> SUFFICES ASSUME NEW d PROVE Cardinality(PortsOf(m, X, d)) < PortThreshold
  BY DEF Quiet
<1>1. PortsOf(m, X, d) = PortsOf(l, X, d)
  BY DEF PortsOf
<1>2. /\ Cardinality(PortsOf(l, X, d)) <= Cardinality(Ports(t, d))
      /\ Cardinality(PortsOf(l, X, d)) \in Nat /\ Cardinality(Ports(t, d)) \in Nat
  BY PortsHit
<1>3. Cardinality(Ports(t, d)) < PortThreshold /\ PortThreshold \in Nat
  BY TrackersAssumption
<1> QED
  BY <1>1, <1>2, <1>3

LEMMA ProbeCovers ==
  ASSUME NEW l, NEW m, NEW p, NEW now, Grown(l, m, p, now), p.dport # 0,
         NEW r, NEW q, Longer(r, q), NEW t, NEW w,
         \/ /\ WindowOver(t, now, ScanWindow)
            /\ Opened(w, p.src, m, q, Len(l) + 1)
         \/ \A o : Opened(t, p.src, l, r, o) => Opened(w, p.src, m, q, o),
         NEW next, p.src \in DOMAIN next, next[p.src] = w,
         NEW i \in ProbesOf(l, p.src), NEW since \in Nat \ {0}, UnbrokenIn(m, p.src, i, since),
         NEW o, Opened(t, p.src, l, r, o), o <= i \/ Quiet(l, Between(l, p.src, i, o))
  PROVE  ReportedIn(m, q, p.src, i) \/ Covered(next, m, q, p.src, i)
<1> DEFINE n == Len(l) + 1
           s == p.src
<1>1. /\ o \in ProbesOf(l, s) /\ t.start = l[o].at /\ IsFiniteSet(t.hits)
      /\ \A k \in Since(l, s, o) : <<l[k].p.dst, l[k].p.dport>> \in t.hits
  BY DEF Opened
<1>2. /\ o \in 1 .. Len(l) /\ o \in ProbesOf(m, s) /\ m[o] = l[o] /\ l[o].at \in Nat
      /\ i \in 1 .. Len(l) /\ Len(l) \in Nat
  BY <1>1, ProbeIndices
<1>3. /\ n \in ProbesOf(m, s) /\ m[n].at = now /\ now \in Nat
  BY ProbeLast
<1>4. CASE Opened(w, s, m, q, o)
  <2>2. /\ Between(m, s, i, o) = Between(l, s, i, o)
        /\ \A k \in Between(l, s, i, o) : m[k] = l[k]
    <3>1. n \notin Between(m, s, i, o)
      BY <1>2 DEF Between
    <3> QED
      BY <3>1, ProbeIndices DEF Between
  <2>3. \A d : PortsOf(m, Between(m, s, i, o), d) = PortsOf(l, Between(l, s, i, o), d)
    BY <2>2 DEF PortsOf
  <2>4. Quiet(l, Between(l, s, i, o)) => Quiet(m, Between(m, s, i, o))
    BY <2>3 DEF Quiet
  <2> QED
    BY <1>4, <2>4 DEF Covered
<1>5. CASE WindowOver(t, now, ScanWindow) /\ Opened(w, s, m, q, n)
  <2>1. Opened(w, s, m, q, n)
    BY <1>5
  <2>2. o <= i
    <3> SUFFICES ASSUME ~(o <= i) PROVE FALSE
      OBVIOUS
    <3>1. o \in Since(m, s, i) /\ n \in Since(m, s, i)
      BY <1>2, <1>3 DEF Since
    <3>2. l[o].at >= since /\ now <= since + ScanWindow
      BY <1>2, <1>3, <3>1 DEF UnbrokenIn
    <3>3. l[o].at = 0 \/ now - l[o].at > ScanWindow
      BY <1>1, <1>5 DEF WindowOver
    <3>4. ASSUME NEW at \in Nat, NEW len \in Nat, at >= since, now <= since + len,
                 at = 0 \/ now - at > len
          PROVE  FALSE
      BY <1>3, <3>4
    <3>5. l[o].at \in Nat /\ ScanWindow \in Nat
      BY <1>2, TrackersAssumption
    <3> QED
      BY <3>2, <3>3, <3>4, <3>5
  <2>3. CASE ReportedIn(l, r, s, i)
    BY <2>3, ReportGrows
  <2>4. CASE \A d : Cardinality(Ports(t, d)) < PortThreshold
    <3>1. \A k \in Between(m, s, i, n) : k \in Since(l, s, o) /\ m[k] = l[k]
      <4> SUFFICES ASSUME NEW k \in Between(m, s, i, n)
                   PROVE  k \in Since(l, s, o) /\ m[k] = l[k]
        OBVIOUS
      <4>1. k \in ProbesOf(m, s) /\ k >= i /\ k < n /\ k \in 1 .. n
        BY ProbeIndices DEF Between
      <4>2. k # n /\ k >= o
        BY <1>2, <2>2, <4>1
      <4> QED
        BY <4>1, <4>2, ProbeIndices DEF Since
    <3>2. Quiet(m, Between(m, s, i, n))
      BY <1>1, <2>4, <3>1, QuietPart
    <3> QED
      BY <2>1, <3>2 DEF Covered
  <2> QED
    BY <2>3, <2>4, SpokenReports
<1> QED
  BY <1>4, <1>5

(* What the probe makes of the tracker, whatever it was.                   *)
LEMMA ProbeOpened ==
  ASSUME NEW l, NEW m, NEW p, NEW now, Grown(l, m, p, now), p.dport # 0,
         NEW r, NEW q, Longer(r, q),
         NEW t, NEW w, AfterProbe(t, p, now, w),
         t = NewScan \/ \E o : Opened(t, p.src, l, r, o),
         VerticalScan(Probed(t, p, now), p) => AlertAt(q, p.src, Len(l) + 1)
  PROVE  /\ \E o : Opened(w, p.src, m, q, o)
         /\ \/ /\ WindowOver(t, now, ScanWindow)
               /\ Opened(w, p.src, m, q, Len(l) + 1)
            \/ \A o : Opened(t, p.src, l, r, o) => Opened(w, p.src, m, q, o)
<1>1. CASE WindowOver(t, now, ScanWindow)
  <2>1. Opened(w, p.src, m, q, Len(l) + 1)
    BY <1>1, WindowOpens
  <2> QED
    BY <1>1, <2>1
<1>2. CASE ~ WindowOver(t, now, ScanWindow)
  <2>1. t # NewScan
    BY <1>2 DEF WindowOver, NewScan
  <2>2. \A o : Opened(t, p.src, l, r, o) => Opened(w, p.src, m, q, o)
    BY <1>2, WindowGoesOn
  <2> QED
    BY <2>1, <2>2
<1> QED
  BY <1>1, <1>2

(* The whole table.  The tracker of a source that was heard of lately is   *)
(* neither evicted nor cleaned away.                                       *)
LEMMA NotEvicted ==
  ASSUME NEW l, NEW r, NEW v, AllOpened(v, l, r), Bounded(v), NEW vt \in RoomMade(v),
         NEW s \in DOMAIN v, NEW i \in ProbesOf(l, s), NEW t \in Nat,
         \A k \in DOMAIN l : l[k].at \in Nat, DOMAIN l \subseteq Nat,
         \A k \in Since(l, s, i) : l[k].at >= t,
         IsFiniteSet(SourcesFrom(l, t)), Cardinality(SourcesFrom(l, t)) < MaxTracked
  PROVE  s \in DOMAIN vt /\ vt[s] = v[s]
<1>1. Part(vt, v)
  BY RoomIsMade DEF Bounded
<1>2. SUFFICES ASSUME s \notin DOMAIN vt PROVE FALSE
  BY <1>1 DEF Part
<1>3. /\ ~(Cardinality(DOMAIN v) < MaxTracked)
      /\ \A x \in DOMAIN v : v[s].seen <= v[x].seen
  BY <1>2 DEF RoomMade, Without, Restrict, Oldest
<1>4. \A x \in DOMAIN v : \E k \in ProbesOf(l, x) :
        v[x].seen = l[k].at /\ \A j \in ProbesOf(l, x) : j <= k
  BY DEF AllOpened, Opened
<1>5. v[s].seen >= t
  <2>1. PICK k \in ProbesOf(l, s) : v[s].seen = l[k].at /\ \A j \in ProbesOf(l, s) : j <= k
    BY <1>4
  <2>2. k >= i
    BY <2>1 DEF ProbesOf, Sent
  <2> QED
    BY <2>1, <2>2 DEF Since
<1>6. ASSUME NEW x \in DOMAIN v PROVE x \in SourcesFrom(l, t)
  <2>1. PICK k \in ProbesOf(l, x) : v[x].seen = l[k].at
    BY <1>4
  <2>2. PICK j \in ProbesOf(l, s) : v[s].seen = l[j].at
    BY <1>4
  <2>3. /\ k \in DOMAIN l /\ l[k].p.src = x /\ l[k].at \in Nat /\ l[j].at \in Nat
        /\ l[j].at <= l[k].at /\ l[j].at >= t
    BY <1>3, <1>5, <2>1, <2>2 DEF ProbesOf, Sent
  <2>4. l[k].at >= t
    BY <2>3
  <2> QED
    BY <2>3, <2>4 DEF SourcesFrom
<1>7. Cardinality(DOMAIN v) <= Cardinality(SourcesFrom(l, t))
      /\ Cardinality(DOMAIN v) \in Nat /\ Cardinality(SourcesFrom(l, t)) \in Nat
  <2>1. DOMAIN v \in SUBSET SourcesFrom(l, t)
    BY <1>6
  <2> QED
    BY <2>1, FS_Subset, FS_CardinalityType
<1> QED
  BY <1>3, <1>7, TrackersAssumption

LEMMA NotCleaned ==
  ASSUME NEW l, NEW r, NEW v, AllOpened(v, l, r), NEW now \in Nat,
         NEW s \in DOMAIN v, NEW i \in ProbesOf(l, s), NEW t \in Nat,
         \A k \in DOMAIN l : l[k].at \in Nat, DOMAIN l \subseteq Nat,
         \A k \in Since(l, s, i) : l[k].at >= t, now <= t + 2 * ScanWindow
  PROVE  s \in DOMAIN ScansCleaned(v, now)
<1>1. PICK k \in ProbesOf(l, s) : v[s].seen = l[k].at /\ \A j \in ProbesOf(l, s) : j <= k
  BY DEF AllOpened, Opened
<1>2. k \in Since(l, s, i) /\ l[k].at \in Nat
  BY <1>1 DEF Since, ProbesOf, Sent
<1>3. now - v[s].seen <= 2 * ScanWindow
  <2> DEFINE long == 2 * ScanWindow
  <2>1. long \in Nat
    BY TrackersAssumption
  <2> HIDE DEF long
  <2>2. l[k].at >= t /\ now <= t + long
    BY <1>2 DEF long
  <2>3. now - l[k].at <= long
    BY <1>2, <2>1, <2>2
  <2> QED
    BY <1>1, <2>3 DEF long
<1> QED
  BY <1>3 DEF ScansCleaned, Fresher, Restrict

LEMMA TableWatched ==
  ASSUME NEW l, NEW m, NEW p, NEW now, Grown(l, m, p, now),
         NEW r, NEW q, Longer(r, q),
         NEW v, AllOpened(v, l, r), Watched(v, l, r, m), Bounded(v),
         NEW h, NEW scan \in ScanChecked(v, h, p, now),
         "VerticalScan" \in scan.alerts => AlertAt(q, p.src, Len(l) + 1)
  PROVE  AllOpened(scan.vertical, m, q) /\ Watched(scan.vertical, m, q, m)
<1> DEFINE Out(x, y, a) == [vertical |-> x, horizontal |-> y, alerts |-> a]
           n == Len(l) + 1
<1>1. \A x, y, a : Out(x, y, a).vertical = x /\ Out(x, y, a).alerts = a
  OBVIOUS
<1>2. \A k \in DOMAIN l : l[k].at \in Nat /\ DOMAIN l \subseteq Nat
  BY DEF Grown
<1>3. \A s, i : i \in ProbesOf(l, s) /\ ReportedIn(l, r, s, i) => ReportedIn(m, q, s, i)
  BY ReportGrows
<1>4. ASSUME NEW s, p.src # s \/ p.dport = 0, NEW next, s \in DOMAIN next, s \in DOMAIN v,
             next[s] = v[s]
      PROVE  /\ IsScan(next[s]) /\ \E o : Opened(next[s], s, m, q, o)
             /\ \A i \in ProbesOf(l, s) : Covered(v, l, r, s, i) => Covered(next, m, q, s, i)
  <2>1. \A o : Opened(v[s], s, l, r, o) => Opened(v[s], s, m, q, o)
    BY <1>4, OpenedStays
  <2>2. \A i : Covered(v, l, r, s, i) => Covered(next, m, q, s, i)
    BY <1>4, CoveredStays
  <2> QED
    BY <1>4, <2>1, <2>2 DEF AllOpened
<1>5. \A s : p.src # s \/ p.dport = 0 => ProbesOf(m, s) = ProbesOf(l, s)
  BY OthersKept
<1>6. CASE p.dport = 0
  <2>1. scan = Out(v, h, {})
    BY <1>6, ScanStep
  <2> HIDE DEF Out
  <2>2. scan.vertical = v
    BY <1>1, <2>1
  <2>3. AllOpened(v, m, q)
    BY <1>4, <1>6 DEF AllOpened
  <2>4. ASSUME NEW s, NEW t \in Nat \ {0}, NEW i \in ProbesOf(m, s), UnbrokenIn(m, s, i, t)
        PROVE  ReportedIn(m, q, s, i) \/ Covered(v, m, q, s, i)
    <3>1. i \in ProbesOf(l, s)
      BY <1>5, <1>6
    <3>2. ReportedIn(l, r, s, i) \/ Covered(v, l, r, s, i)
      BY <2>4, <3>1 DEF Watched
    <3> QED
      BY <1>3, <1>4, <1>6, <3>1, <3>2 DEF Covered
  <2> QED
    BY <2>2, <2>3, <2>4 DEF Watched
<1>7. CASE p.dport # 0
  <2>1. PICK vt \in RoomMade(v) :
          LET v1 == ScannedTracker(vt, p, now) IN
          \/ /\ VerticalScan(v1, p)
             /\ \E y : scan = Out(With(vt, p.src, [v1 EXCEPT !.alerted = TRUE]), y,
                                  {"VerticalScan"})
          \/ /\ ~ VerticalScan(v1, p)
             /\ \E y, a : scan = Out(With(vt, p.src, v1), y, a)
    BY <1>7, ScanStep
  <2>2. Part(vt, v)
    BY RoomIsMade DEF Bounded
  <2> DEFINE s == p.src
             t == Entry(vt, s, NewScan)
             u == ScannedTracker(vt, p, now)
             w == IF VerticalScan(u, p) THEN [u EXCEPT !.alerted = TRUE] ELSE u
  <2>3. /\ scan.vertical = With(vt, s, w)
        /\ VerticalScan(u, p) => "VerticalScan" \in scan.alerts
    <3> DEFINE up == [u EXCEPT !.alerted = TRUE]
    <3> HIDE DEF u, up
    <3>1. \/ /\ VerticalScan(u, p)
             /\ \E y : scan = Out(With(vt, s, up), y, {"VerticalScan"})
          \/ /\ ~ VerticalScan(u, p)
             /\ \E y, a : scan = Out(With(vt, s, u), y, a)
      BY <2>1 DEF u, up
    <3> HIDE DEF Out
    <3>2. CASE /\ VerticalScan(u, p)
               /\ \E y : scan = Out(With(vt, s, up), y, {"VerticalScan"})
      BY <1>1, <3>2 DEF up
    <3>3. CASE ~ VerticalScan(u, p) /\ \E y, a : scan = Out(With(vt, s, u), y, a)
      BY <1>1, <3>3
    <3> QED
      BY <3>1, <3>2, <3>3
  <2>4. /\ t = NewScan \/ \E o : Opened(t, s, l, r, o)
        /\ IsScan(t)
        /\ s \in DOMAIN vt => t = v[s]
    <3>1. IsScan(NewScan)
      BY DEF IsScan, NewScan
    <3> QED
      BY <2>2, <3>1 DEF Entry, Part, AllOpened
  <2>5. u = Probed(t, p, now)
    BY DEF ScannedTracker
  <2>6. VerticalScan(u, p) => AlertAt(q, s, n)
    BY <2>3
  <2> HIDE DEF t, u
  <2>7. /\ VerticalScan(u, p) => w = [u EXCEPT !.alerted = TRUE]
        /\ ~ VerticalScan(u, p) => w = u
    OBVIOUS
  <2>8. IsScan(w)
    BY <2>4, <2>5, ProbedFields
  <2> HIDE DEF w
  <2>9. AfterProbe(t, p, now, w)
    BY <2>4, <2>5, <2>7, AfterProbeFields
  <2>10. /\ \E o : Opened(w, s, m, q, o)
         /\ \/ WindowOver(t, now, ScanWindow) /\ Opened(w, s, m, q, n)
            \/ \A o : Opened(t, s, l, r, o) => Opened(w, s, m, q, o)
    BY <1>7, <2>4, <2>5, <2>6, <2>9, ProbeOpened
  <2> DEFINE next == With(vt, s, w)
  <2>11. /\ DOMAIN next = DOMAIN vt \cup {s} /\ next[s] = w
         /\ \A x \in DOMAIN vt : x # s => next[x] = vt[x]
    BY DEF With
  <2> HIDE DEF next
  <2>12. ASSUME NEW x \in DOMAIN next
         PROVE  IsScan(next[x]) /\ \E o : Opened(next[x], x, m, q, o)
    <3>1. CASE x = s
      BY <2>8, <2>10, <2>11, <3>1
    <3>2. CASE x # s
      <4>1. x \in DOMAIN v /\ next[x] = v[x]
        BY <2>2, <2>11, <3>2 DEF Part
      <4> QED
        BY <1>4, <3>2, <4>1
    <3> QED
      BY <3>1, <3>2
  <2>13. ASSUME NEW x, NEW since \in Nat \ {0}, NEW i \in ProbesOf(m, x),
                UnbrokenIn(m, x, i, since)
         PROVE  ReportedIn(m, q, x, i) \/ Covered(next, m, q, x, i)
    <3>1. i \in ProbesOf(l, x) => ReportedIn(l, r, x, i) \/ Covered(v, l, r, x, i)
      BY <2>13 DEF Watched
    <3>2. ASSUME i \in ProbesOf(l, x), x \in DOMAIN v
          PROVE  x \in DOMAIN vt /\ vt[x] = v[x]
      <4>1. /\ \A k \in Since(l, x, i) : l[k].at >= since
            /\ IsFiniteSet(SourcesFrom(l, since))
            /\ Cardinality(SourcesFrom(l, since)) < MaxTracked
        BY <2>13, UnbrokenBefore
      <4>2. DOMAIN l \subseteq Nat
        BY DEF Grown
      <4> QED
        BY <1>2, <3>2, <4>1, <4>2, NotEvicted
    <3>3. CASE x # s
      <4>1. i \in ProbesOf(l, x)
        BY <1>5, <3>3
      <4>2. ASSUME Covered(v, l, r, x, i) PROVE Covered(next, m, q, x, i)
        <5>1. x \in DOMAIN v
          BY <4>2 DEF Covered
        <5>2. x \in DOMAIN next /\ next[x] = v[x]
          BY <2>11, <3>2, <3>3, <4>1, <5>1
        <5> QED
          BY <1>4, <3>3, <4>1, <4>2, <5>1, <5>2
      <4> QED
        BY <1>3, <3>1, <4>1, <4>2
    <3>4. CASE x = s /\ i # n
      <4>1. i \in ProbesOf(l, s)
        BY <3>4, ProbeIndices
      <4>2. ASSUME Covered(v, l, r, s, i)
            PROVE  ReportedIn(m, q, s, i) \/ Covered(next, m, q, s, i)
        <5>1. PICK o : /\ Opened(v[s], s, l, r, o)
                       /\ o <= i \/ Quiet(l, Between(l, s, i, o))
          BY <4>2 DEF Covered
        <5>2. t = v[s]
          BY <2>4, <3>2, <3>4, <4>1, <4>2 DEF Covered
        <5>3. UnbrokenIn(m, s, i, since) /\ s \in DOMAIN next /\ next[s] = w
          BY <2>11, <2>13, <3>4
        <5> QED
          BY <1>7, <2>10, <4>1, <5>1, <5>2, <5>3, ProbeCovers
      <4> QED
        BY <1>3, <3>1, <3>4, <4>1, <4>2
    <3>5. CASE x = s /\ i = n
      <4>1. PICK o : Opened(w, s, m, q, o)
        BY <2>10
      <4>2. o <= n
        BY <1>7, <4>1, ProbeLast DEF Opened
      <4> QED
        BY <2>11, <3>5, <4>1, <4>2 DEF Covered
    <3> QED
      BY <3>3, <3>4, <3>5
  <2>14. AllOpened(next, m, q) /\ Watched(next, m, q, m)
    BY <2>12, <2>13 DEF AllOpened, Watched
  <2> QED
    BY <2>3, <2>14 DEF next
<1> QED
  BY <1>6, <1>7

(* The cleanup that may come before the packet.                            *)
LEMMA TableCleaned ==
  ASSUME NEW l, NEW m, NEW p, NEW now, Grown(l, m, p, now), NEW r,
         NEW v, AllOpened(v, l, r), Watched(v, l, r, l)
  PROVE  /\ Watched(v, l, r, m)
         /\ AllOpened(ScansCleaned(v, now), l, r)
         /\ Watched(ScansCleaned(v, now), l, r, m)
<1> DEFINE kept == ScansCleaned(v, now)
<1>1. /\ DOMAIN kept \subseteq DOMAIN v
      /\ \A s \in DOMAIN kept : kept[s] = v[s]
  BY CleaningShrinks DEF Part
<1>2. ASSUME NEW s, NEW t \in Nat \ {0}, NEW i \in ProbesOf(l, s), UnbrokenIn(m, s, i, t)
      PROVE  /\ UnbrokenIn(l, s, i, t)
             /\ s \in DOMAIN v => s \in DOMAIN kept
  <2>1. /\ \A k \in Since(l, s, i) : l[k].at >= t /\ l[k].at <= t + ScanWindow
        /\ Len(l) + 1 >= i => now <= t + 2 * ScanWindow
        /\ Cardinality(SourcesFrom(l, t)) < MaxTracked
    BY <1>2, UnbrokenBefore
  <2>2. /\ i \in 1 .. Len(l) /\ Len(l) \in Nat /\ DOMAIN l = 1 .. Len(l) /\ now \in Nat
        /\ (\A k \in DOMAIN l : l[k].at \in Nat) /\ DOMAIN l \subseteq Nat
        /\ \A k \in DOMAIN l : k \in DOMAIN m /\ m[k] = l[k]
    <3>1. \A k \in 1 .. Len(l) : k \in 1 .. Len(l) + 1
      BY DEF Grown
    <3> QED
      BY <3>1 DEF Grown, ProbesOf, Sent
  <2>3. \A k \in DOMAIN l : k >= i => l[k].at <= t + 2 * ScanWindow
    BY <1>2, <2>2 DEF UnbrokenIn
  <2>4. UnbrokenIn(l, s, i, t)
    BY <2>1, <2>3 DEF UnbrokenIn
  <2>5. now <= t + 2 * ScanWindow
    BY <2>1, <2>2
  <2>6. s \in DOMAIN v => s \in DOMAIN kept
    BY <2>1, <2>2, <2>5, NotCleaned
  <2> QED
    BY <2>4, <2>6
<1> HIDE DEF kept
<1>3. Watched(v, l, r, m)
  BY <1>2 DEF Watched
<1>4. AllOpened(kept, l, r)
  BY <1>1 DEF AllOpened
<1>5. Watched(kept, l, r, m)
  <2>1. ASSUME NEW s, NEW i, s \in DOMAIN v => s \in DOMAIN kept, Covered(v, l, r, s, i)
        PROVE  Covered(kept, l, r, s, i)
    BY <1>1, <2>1 DEF Covered
  <2> QED
    BY <1>2, <1>3, <2>1 DEF Watched
<1> QED
  BY <1>3, <1>4, <1>5 DEF kept

(* The inductive invariant of the reports.                                 *)
ReportsInv ==
  /\ DetectorsInv
  /\ AllOpened(vertical, log, raised)
  /\ Watched(vertical, log, raised, log)

LEMMA ReportsInit == Init => ReportsInv
<1> SUFFICES ASSUME Init PROVE ReportsInv
  OBVIOUS
<1>1. vertical = << >> /\ log = << >> /\ DetectorsInv
  BY DetectorsInit DEF Init
<1>2. \A s : ProbesOf(<< >>, s) = {}
  BY DEF ProbesOf, Sent
<1>3. AllOpened(<< >>, << >>, raised) /\ Watched(<< >>, << >>, raised, << >>)
  BY <1>2 DEF AllOpened, Watched
<1> QED
  BY <1>1, <1>3 DEF ReportsInv

LEMMA ScanRaised ==
  ASSUME HistoryTyped, NEW p \in Packets, NEW now,
         NEW scan \in ScanOutcomes(p, now), NEW syn \in SynOutcomes(p, now),
         NEW q, q = raised \o NewAlerts(p, PacketAlerts(p, scan, syn)),
         "VerticalScan" \in scan.alerts
  PROVE  AlertAt(q, p.src, Len(log) + 1)
<1>1. PICK i \in DOMAIN q : /\ q[i].kind = "VerticalScan" /\ q[i].src = p.src
                            /\ q[i].by = Len(log) + 1
  <2>1. RaisedFor(p, scan.alerts \cup syn.alerts, q)
    BY RaisedStep
  <2> QED
    BY <2>1 DEF RaisedFor
<1>2. Len(log) + 1 <= Len(log) + 1 /\ Len(log) + 1 \in Nat
  BY DEF HistoryTyped
<1> QED
  BY <1>1, <1>2 DEF AlertAt, ScanAlert

LEMMA ReportsPacket ==
  ASSUME ReportsInv, NEW p \in Packets, NEW now \in Nat, Packet(p, now)
  PROVE  AllOpened(vertical', log', raised') /\ Watched(vertical', log', raised', log')
<1>1. Grown(log, log', p, now)
  BY LogGrows DEF ReportsInv, DetectorsInv
<1>2. PICK scan \in ScanOutcomes(p, now), syn \in SynOutcomes(p, now) :
        /\ vertical' = scan.vertical
        /\ "VerticalScan" \in scan.alerts => AlertAt(raised', p.src, Len(log) + 1)
  <2>1. HistoryTyped
    BY DEF ReportsInv, DetectorsInv
  <2>2. PICK scan \in ScanOutcomes(p, now), syn \in SynOutcomes(p, now) :
          /\ vertical' = scan.vertical
          /\ raised' = raised \o NewAlerts(p, PacketAlerts(p, scan, syn))
    BY PacketStep
  <2>3. "VerticalScan" \in scan.alerts => AlertAt(raised', p.src, Len(log) + 1)
    BY <2>1, <2>2, ScanRaised
  <2> QED
    BY <2>2, <2>3
<1>3. PICK l, m, r, q : l = log /\ m = log' /\ r = raised /\ q = raised'
  OBVIOUS
<1>4. Grown(l, m, p, now)
  BY <1>1, <1>3
<1>5. Longer(r, q)
  <2>1. /\ \A i \in DOMAIN raised : raised'[i] = raised[i]
        /\ DOMAIN raised \subseteq DOMAIN raised'
    BY HistoryStep DEF ReportsInv, DetectorsInv
  <2> QED
    BY <1>3, <2>1 DEF Longer
<1>6. "VerticalScan" \in scan.alerts => AlertAt(q, p.src, Len(l) + 1)
  BY <1>2, <1>3
<1>7. AllOpened(vertical, l, r) /\ Watched(vertical, l, r, l) /\ Bounded(vertical)
  BY <1>3 DEF ReportsInv, DetectorsInv, TablesBounded
<1>8. /\ Watched(vertical, l, r, m)
      /\ AllOpened(ScansCleaned(vertical, now), l, r)
      /\ Watched(ScansCleaned(vertical, now), l, r, m)
      /\ Bounded(ScansCleaned(vertical, now))
  <2>1. DOMAIN ScansCleaned(vertical, now) \subseteq DOMAIN vertical
    BY CleaningShrinks DEF Part
  <2> QED
    BY <1>4, <1>7, <2>1, TableCleaned, PartBounded
<1>9. ASSUME NEW v, NEW h, AllOpened(v, l, r), Watched(v, l, r, m), Bounded(v),
             scan \in ScanChecked(v, h, p, now)
      PROVE  AllOpened(scan.vertical, m, q) /\ Watched(scan.vertical, m, q, m)
  BY <1>4, <1>5, <1>6, <1>9, TableWatched
<1>10. CASE CleanupDue
  <2>1. scan \in ScanChecked(ScansCleaned(vertical, now), ScansCleaned(horizontal, now), p, now)
    BY <1>10 DEF ScanOutcomes
  <2> QED
    BY <1>2, <1>3, <1>8, <1>9, <2>1
<1>11. CASE ~ CleanupDue
  <2>1. scan \in ScanChecked(vertical, horizontal, p, now)
    BY <1>11 DEF ScanOutcomes
  <2> QED
    BY <1>2, <1>3, <1>7, <1>8, <1>9, <2>1
<1> QED
  BY <1>10, <1>11

LEMMA ReportsStep == ReportsInv /\ [Next]_vars => ReportsInv'
<1> SUFFICES ASSUME ReportsInv, [Next]_vars PROVE ReportsInv'
  OBVIOUS
<1>1. DetectorsInv'
  BY DetectorsStep DEF ReportsInv
<1>2. CASE UNCHANGED vars
  <2>1. UNCHANGED <<vertical, log, raised>>
    BY <1>2 DEF vars, threat
  <2> QED
    BY <1>1, <2>1 DEF ReportsInv
<1>3. CASE Next
  <2>1. PICK p \in Packets, now \in Nat : Packet(p, now)
    BY <1>3, NextPacket DEF ReportsInv, DetectorsInv
  <2>2. AllOpened(vertical', log', raised') /\ Watched(vertical', log', raised', log')
    BY <2>1, ReportsPacket
  <2> QED
    BY <1>1, <2>2 DEF ReportsInv
<1> QED
  BY <1>2, <1>3

(* Of twice as many ports but one, one of the two windows saw too many.    *)
LEMMA CoveredReports ==
  ASSUME NEW l, NEW n \in Nat, DOMAIN l = 1 .. n, NEW r, NEW v, NEW s, NEW i \in ProbesOf(l, s),
         Covered(v, l, r, s, i), NEW d,
         Cardinality(PortsOf(l, Since(l, s, i), d)) >= 2 * PortThreshold - 1
  PROVE  ReportedIn(l, r, s, i)
<1> DEFINE t == v[s]
           T == PortThreshold
           all == Since(l, s, i)
<1>1. PICK o : Opened(t, s, l, r, o) /\ (o <= i \/ Quiet(l, Between(l, s, i, o)))
  BY DEF Covered
<1> DEFINE N1 == Between(l, s, i, o)
           N2 == {k \in all : k >= o}
           P == PortsOf(l, all, d)
           P1 == PortsOf(l, N1, d)
           P2 == PortsOf(l, N2, d)
<1>2. /\ o \in ProbesOf(l, s) /\ IsFiniteSet(t.hits)
      /\ \A k \in Since(l, s, o) : <<l[k].p.dst, l[k].p.dport>> \in t.hits
  BY <1>1 DEF Opened
<1>3. o \in Nat /\ i \in Nat /\ all \in SUBSET DOMAIN l /\ all \in SUBSET Nat
      /\ N1 \in SUBSET DOMAIN l /\ N2 \in SUBSET DOMAIN l
  BY <1>2 DEF Since, Between, ProbesOf, Sent
<1>4. SUFFICES ASSUME \A x : Cardinality(Ports(t, x)) < T
               PROVE  FALSE
  BY <1>1, SpokenReports
<1>5. T \in Nat \ {0}
  BY TrackersAssumption
<1>6. /\ IsFiniteSet(P1) /\ Cardinality(P1) \in Nat
      /\ IsFiniteSet(P2) /\ Cardinality(P2) \in Nat
  BY <1>3, PortsFinite
<1>7. Cardinality(P2) < T
  <2>1. \A k \in N2 : <<l[k].p.dst, l[k].p.dport>> \in t.hits
    BY <1>2 DEF Since
  <2>2. /\ Cardinality(P2) <= Cardinality(Ports(t, d)) /\ Cardinality(Ports(t, d)) \in Nat
    <3> HIDE DEF N2, t
    <3> QED
      BY <1>2, <2>1, PortsHit
  <2>3. Cardinality(Ports(t, d)) < T
    BY <1>4
  <2> HIDE DEF P2, t, T
  <2> QED
    BY <1>5, <1>6, <2>2, <2>3
<1>8. Cardinality(P1) < T
  <2>1. CASE o <= i
    <3>1. N1 = {}
      BY <1>3, <2>1 DEF Between, ProbesOf, Sent
    <3>2. P1 = {}
      BY <3>1 DEF PortsOf
    <3> QED
      BY <1>5, <3>2, FS_EmptySet
  <2>2. CASE Quiet(l, N1)
    BY <2>2 DEF Quiet
  <2> QED
    BY <1>1, <2>1, <2>2
<1>9. P \in SUBSET (P1 \cup P2)
  <2>1. \A k \in all : k \in N1 \/ k \in N2
    BY <1>3 DEF Since, Between
  <2> HIDE DEF N1, N2, all
  <2> QED
    BY <2>1 DEF PortsOf
<1>10. Cardinality(P) >= 2 * T - 1
  OBVIOUS
<1> HIDE DEF P, P1, P2, T
<1>11. /\ IsFiniteSet(P1 \cup P2)
       /\ Cardinality(P1 \cup P2)
            = Cardinality(P1) + Cardinality(P2) - Cardinality(P1 \cap P2)
       /\ Cardinality(P1 \cap P2) \in Nat
  BY <1>6, FS_Union, FS_Intersection, FS_CardinalityType
<1>12. Cardinality(P) <= Cardinality(P1 \cup P2) /\ Cardinality(P) \in Nat
       /\ Cardinality(P1 \cup P2) \in Nat
  BY <1>9, <1>11, FS_Subset, FS_CardinalityType
<1> QED
  BY <1>5, <1>6, <1>7, <1>8, <1>10, <1>11, <1>12

LEMMA ReportsFollow == ReportsInv => ScansReported
<1> SUFFICES ASSUME ReportsInv, NEW s \in Addresses, NEW d \in Addresses,
                    NEW t \in Times \ {0}, NEW i \in Probes(s), Unbroken(s, i, t),
                    Cardinality(PortsAmong(Probes(s) \cap (i .. Len(log)), d))
                      >= 2 * PortThreshold - 1
             PROVE  Reported(s, i)
  BY DEF ScansReported
<1> DEFINE all == Probes(s) \cap (i .. Len(log))
<1>1. /\ log \in Seq(Records) /\ Len(log) \in Nat /\ DOMAIN log = 1 .. Len(log)
      /\ Watched(vertical, log, raised, log)
  BY DEF ReportsInv, DetectorsInv, HistoryTyped
<1>2. \A k \in DOMAIN log : log[k].at \in Nat
  <2>1. \A k \in DOMAIN log : log[k] \in Records
    BY <1>1
  <2> QED
    BY <2>1 DEF Records
<1>3. Probes(s) = ProbesOf(log, s) /\ i \in 1 .. Len(log)
  BY <1>1 DEF Probes, From, ProbesOf, Sent
<1>4. all = Since(log, s, i)
  BY <1>1, <1>3 DEF Since, ProbesOf, Sent
<1>5. t \in Nat \ {0} /\ ScanWindow \in Nat
  BY AnalysisAssumption, TrackersAssumption
<1>6. UnbrokenIn(log, s, i, t)
  <2>1. \A k \in Since(log, s, i) : log[k].at >= t /\ log[k].at <= t + ScanWindow
    <3>1. \A k \in all : log[k].at \in t .. t + ScanWindow
      BY DEF Unbroken
    <3> QED
      BY <1>4, <1>5, <3>1
  <2>2. \A k \in DOMAIN log : k >= i => log[k].at <= t + 2 * ScanWindow
    <3>1. \A k \in i .. Len(log) : log[k].at <= t + 2 * ScanWindow
      BY DEF Unbroken
    <3>2. \A k \in 1 .. Len(log) : k >= i => k \in i .. Len(log)
      BY <1>1, <1>3
    <3> QED
      BY <1>1, <3>1, <3>2
  <2>3. SourcesSince(t) = SourcesFrom(log, t)
    BY DEF SourcesSince, SourcesFrom
  <2> QED
    BY <2>1, <2>2, <2>3 DEF Unbroken, UnbrokenIn
<1>7. ReportedIn(log, raised, s, i)
  <2>1. CASE Covered(vertical, log, raised, s, i)
    <3>1. Cardinality(PortsOf(log, Since(log, s, i), d)) >= 2 * PortThreshold - 1
      BY <1>4 DEF PortsAmong, PortsOf
    <3> QED
      BY <1>1, <1>3, <2>1, <3>1, CoveredReports
  <2> QED
    BY <1>1, <1>3, <1>5, <1>6, <2>1 DEF Watched
<1>8. PICK a \in DOMAIN raised : ScanAlert(raised[a], s) /\
        \E j \in ProbesOf(log, s) :
          /\ j <= raised[a].by
          /\ \A k \in Since(log, s, j) : k <= i => log[k].at <= log[j].at + ScanWindow
  BY <1>7 DEF ReportedIn
<1>9. PICK j \in ProbesOf(log, s) :
        /\ j <= raised[a].by
        /\ \A k \in Since(log, s, j) : k <= i => log[k].at <= log[j].at + ScanWindow
  BY <1>8
<1>10. OneWindow(s, j, i)
  <2>1. ASSUME NEW k \in Probes(s) \cap (j .. i) PROVE log[k].at <= log[j].at + ScanWindow
    <3>1. k \in Since(log, s, j) /\ k <= i
      BY <1>3, <1>9, <2>1 DEF Since, ProbesOf, Sent
    <3> QED
      BY <1>9, <3>1
  <2> QED
    BY <2>1 DEF OneWindow
<1> QED
  BY <1>3, <1>8, <1>9, <1>10 DEF Reported, ScanAlert

(* A scan of twice as many ports but one within a window length is         *)
(* reported, in whatever order its records come: the windows that follow   *)
(* each other, the evictions, the cleanups between them and the one alert  *)
(* per window lose none, unless fewer sources can be tracked than were     *)
(* heard of since it began, or a record came so late that the tracker was  *)
(* forgotten (check_packet and cleanup_expired of port_scan_detector.cpp). *)
THEOREM ScansAreReported == Spec => []ScansReported
<1>1. ReportsInv => ScansReported
  BY ReportsFollow
<1> QED
  BY <1>1, ReportsInit, ReportsStep, PTL DEF Spec
=============================================================================
