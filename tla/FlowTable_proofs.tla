-------------------------- MODULE FlowTable_proofs --------------------------
(***************************************************************************)
(* Theorems about FlowTable: the typing of its entries, the coherence of   *)
(* the TCP tracker, the life of the reassembly buffer, and what a policy   *)
(* verdict is justified by and gives way to.                               *)
(*                                                                         *)
(* Each invariant speaks of one entry at a time, so each is proved of the  *)
(* function from an entry and a packet to the next entry.                  *)
(***************************************************************************)
EXTENDS FlowTable, FoldLemmas, SequenceTheorems

-----------------------------------------------------------------------------
(* The TCP tracker                                                         *)

(* process_packet keeps the tracker within its ten states.                 *)
LEMMA TcpProcessType ==
  ASSUME NEW t \in Trackers, NEW seg \in Segments, NEW dir \in Directions,
         NEW data \in BOOLEAN
  PROVE  TcpProcess(t, seg, dir, data) \in Trackers
BY DEF Trackers, Segments, Directions, TcpStates, TcpProcess, TcpNew, TcpIsClosed,
       TcpInTeardown, SeeFin, SeeInTeardown, SeeSyn, SeeData

(* A fresh tracker is coherent.                                            *)
LEMMA TcpNewCoherent == TcpNew \in Trackers /\ TcpCoherent(TcpNew)
BY DEF Trackers, Directions, TcpStates, TcpNew, TcpCoherent, TcpInTeardown

(* process_packet keeps a tracker's state and its flags in agreement,      *)
(* whatever flags arrive in whatever order.                                *)
LEMMA TcpProcessCoherent ==
  ASSUME NEW t \in Trackers, TcpCoherent(t), NEW seg \in Segments,
         NEW dir \in Directions, NEW data \in BOOLEAN
  PROVE  TcpCoherent(TcpProcess(t, seg, dir, data))
<1> DEFINE u == IF TcpIsClosed(t) /\ seg.syn THEN TcpNew ELSE t
           v == TcpProcess(t, seg, dir, data)
<1>1. u \in Trackers /\ TcpCoherent(u)
  BY TcpNewCoherent
<1>2. CASE seg.rst
  BY <1>2 DEF TcpProcess, TcpCoherent, TcpInTeardown, Trackers
<1>3. CASE ~seg.rst /\ TcpIsClosed(u)
  BY <1>1, <1>3 DEF TcpProcess
<1>4. CASE ~seg.rst /\ ~TcpIsClosed(u) /\ seg.fin
  <2>1. v = SeeFin(u, dir)
    BY <1>4 DEF TcpProcess
  <2>2. u.fin \subseteq Directions /\ ~u.rst /\ u.fin # Directions
    BY <1>1, <1>4 DEF Trackers, TcpCoherent, TcpIsClosed
  <2>3. QED
    BY <1>1, <2>1, <2>2 DEF SeeFin, TcpCoherent, TcpInTeardown, Trackers, Directions
<1>5. CASE ~seg.rst /\ ~TcpIsClosed(u) /\ ~seg.fin /\ TcpInTeardown(u)
  <2>1. v = SeeInTeardown(u, seg, dir)
    BY <1>5 DEF TcpProcess
  <2>2. ~u.rst /\ u.fin # Directions
    BY <1>1, <1>5 DEF TcpCoherent, TcpIsClosed
  <2>3. QED
    BY <1>1, <1>5, <2>1, <2>2 DEF SeeInTeardown, TcpCoherent, TcpInTeardown, Trackers, Directions
<1>6. CASE ~seg.rst /\ ~TcpIsClosed(u) /\ ~seg.fin /\ ~TcpInTeardown(u) /\ seg.syn
  <2>1. v = SeeSyn(u, seg, dir)
    BY <1>6 DEF TcpProcess
  <2>2. QED
    BY <1>1, <1>6, <2>1 DEF SeeSyn, TcpCoherent, TcpInTeardown, TcpIsClosed, Trackers, Directions
<1>7. CASE ~seg.rst /\ ~TcpIsClosed(u) /\ ~seg.fin /\ ~TcpInTeardown(u) /\ ~seg.syn
  <2>1. v = IF seg.ack \/ data THEN SeeData(u) ELSE u
    BY <1>7 DEF TcpProcess
  <2>2. TcpCoherent(SeeData(u))
    BY <1>1, <1>7 DEF SeeData, TcpCoherent, TcpInTeardown, TcpIsClosed, Trackers, Directions
  <2>3. QED
    BY <1>1, <2>1, <2>2
<1>8. QED
  BY <1>2, <1>3, <1>4, <1>5, <1>6, <1>7

-----------------------------------------------------------------------------
(* Rule evaluation                                                         *)

(* Of the rules that match, the one evaluation finds first exists and is   *)
(* tried before every other: sorting is total, ties on priority and id     *)
(* being settled by the order the rules were added in.                     *)
LEMMA FirstIsFirst ==
  ASSUME NEW rs \in RuleSets, NEW m \in SUBSET DOMAIN rs.rules, m # {}
  PROVE  First(rs, m) \in m /\ \A j \in m : TriedBefore(rs, First(rs, m), j)
<1> DEFINE pri(i) == rs.rules[i].priority
           id(i)  == rs.rules[i].id
<1>1. \A i \in m : i \in Nat /\ pri(i) \in Nat /\ id(i) \in Nat
  BY RulesAssumption
<1> HIDE DEF pri, id
<1>2. PICK a \in m : \A j \in m : pri(a) <= pri(j)
  <2> DEFINE P == {pri(i) : i \in m}
  <2>1. P \in SUBSET Nat /\ P # {}
    BY <1>1
  <2>2. \E x \in P : \A y \in P : x <= y
    <3> HIDE DEF P
    <3>1. QED
      BY <2>1, LeastNatural
  <2>3. QED
    BY <2>2
<1>3. PICK b \in {i \in m : pri(i) = pri(a)} : \A j \in {i \in m : pri(i) = pri(a)} : id(b) <= id(j)
  <2> DEFINE S == {i \in m : pri(i) = pri(a)}
         I == {id(i) : i \in S}
  <2>1. I \in SUBSET Nat /\ I # {}
    BY <1>1
  <2>2. \E x \in I : \A y \in I : x <= y
    <3> HIDE DEF I
    <3>1. QED
      BY <2>1, LeastNatural
  <2>3. QED
    BY <2>2
<1>4. PICK c \in {i \in m : pri(i) = pri(a) /\ id(i) = id(b)} :
         \A j \in {i \in m : pri(i) = pri(a) /\ id(i) = id(b)} : c <= j
  <2> DEFINE S == {i \in m : pri(i) = pri(a) /\ id(i) = id(b)}
  <2>1. S \subseteq Nat /\ S # {}
    BY <1>1, <1>3
  <2>2. QED
    BY <2>1, LeastNatural
<1>5. \A j \in m : TriedBefore(rs, c, j)
  <2> SUFFICES ASSUME NEW j \in m PROVE TriedBefore(rs, c, j)
    OBVIOUS
  <2>1. pri(c) < pri(j) \/ (pri(c) = pri(j) /\ id(c) < id(j))
          \/ (pri(c) = pri(j) /\ id(c) = id(j) /\ c <= j)
    BY <1>1, <1>2, <1>3, <1>4
  <2>2. QED
    BY <2>1 DEF TriedBefore, pri, id
<1>6. c \in m
  BY <1>4
<1>7. QED
  BY <1>5, <1>6 DEF First

(* The verdict on addresses and the verdict on everything are verdicts,    *)
(* and the second is always final.                                         *)
LEMMA EvaluationType ==
  ASSUME NEW rs \in RuleSets, NEW key, NEW meta
  PROVE  /\ EvaluateL34(rs, key) \in Verdicts
         /\ EvaluateL7(rs, key, meta) \in Verdicts
         /\ EvaluateL7(rs, key, meta).final
<1>1. L34Matches(rs, key) \subseteq DOMAIN rs.rules /\ L7Matches(rs, key, meta) \subseteq DOMAIN rs.rules
  BY DEF L34Matches, L7Matches
<1>2. \A m \in SUBSET DOMAIN rs.rules : m # {} => VerdictOf(rs.rules[First(rs, m)]) \in Verdicts
  BY FirstIsFirst, RulesAssumption DEF VerdictOf, Verdicts
<1>3. rs.default \in Actions
  BY RulesAssumption
<1>4. EvaluateL34(rs, key) \in Verdicts
  BY <1>1, <1>2, <1>3 DEF EvaluateL34, Verdicts
<1>5. EvaluateL7(rs, key, meta) \in Verdicts
  BY <1>1, <1>2, <1>3 DEF EvaluateL7, Verdicts
<1>6. EvaluateL7(rs, key, meta).final
  BY DEF EvaluateL7, VerdictOf
<1>7. QED
  BY <1>4, <1>5, <1>6

(* A rule that matches on addresses alone matches whatever DPI finds.      *)
LEMMA AddressMatchesStay ==
  ASSUME NEW rs, NEW key, NEW meta
  PROVE  L34Matches(rs, key) \subseteq L7Matches(rs, key, meta)
BY DEF L34Matches, L7Matches, HasL7Criteria, MatchL7

(* Of two rules one is tried before the other, never each before the       *)
(* other: the sort is a total order.                                       *)
LEMMA TriedBeforeStrict ==
  ASSUME NEW rs \in RuleSets, NEW i \in DOMAIN rs.rules, NEW j \in DOMAIN rs.rules,
         TriedBefore(rs, i, j), TriedBefore(rs, j, i)
  PROVE  i = j
<1>1. \A x \in {i, j} : x \in Nat /\ rs.rules[x].priority \in Nat /\ rs.rules[x].id \in Nat
  BY RulesAssumption
<1>2. QED
  BY <1>1 DEF TriedBefore

(* When DPI finds nothing, a rule matches that did not match on addresses  *)
(* alone only if it asks for the unknown protocol; else the verdict of the *)
(* L3/L4 evaluation, if final, is that of the full one.                    *)
LEMMA NothingFound ==
  ASSUME NEW rs \in RuleSets, NEW key, EvaluateL34(rs, key).final
  PROVE  \/ EvaluateL7(rs, key, NoMeta) = EvaluateL34(rs, key)
         \/ UnknownIsFirst(rs, key, NoMeta)
<1> DEFINE early == L34Matches(rs, key)
           late  == L7Matches(rs, key, NoMeta)
           f     == First(rs, late)
           g     == First(rs, early)
<1>1. early \in SUBSET DOMAIN rs.rules /\ late \in SUBSET DOMAIN rs.rules
      /\ early \subseteq late /\ early # {}
  BY AddressMatchesStay DEF L34Matches, L7Matches, EvaluateL34
<1>2. f \in late /\ g \in early
      /\ (\A j \in late : TriedBefore(rs, f, j)) /\ (\A j \in early : TriedBefore(rs, g, j))
  <2> HIDE DEF early, late
  <2>1. QED
    BY <1>1, FirstIsFirst
<1>3. CASE f \in early
  <2>1. f = g
    <3> HIDE DEF early, late, f, g
    <3>1. QED
      BY <1>1, <1>2, <1>3, TriedBeforeStrict
  <2>2. QED
    BY <1>1, <2>1 DEF EvaluateL34, EvaluateL7
<1>4. CASE f \notin early
  <2>1. HasL7Criteria(rs.rules[f]) /\ MatchL7(rs.rules[f], NoMeta)
    <3> HIDE DEF f
    <3>1. QED
      BY <1>2, <1>4 DEF L34Matches, L7Matches
  <2>2. rs.rules[f].app = "Unknown"
    <3> HIDE DEF f
    <3>1. QED
      BY <2>1 DEF HasL7Criteria, MatchL7, NoMeta
  <2>3. QED
    BY <1>1, <2>2 DEF UnknownIsFirst
<1>5. QED
  BY <1>3, <1>4

-----------------------------------------------------------------------------
(* Entries                                                                 *)

(* Entries, and those just created, not yet updated by a packet.           *)
Drafts ==
  [state : {"New", "Active", "Established", "Closing", "Closed"},
   first : Times, last : Times, dirs : SUBSET Directions, tcp : Trackers,
   buffer : Seq(Pieces), complete : BOOLEAN, meta : Metas,
   verdict : Verdicts, by : RuleSets]

(* What is true of one entry: the body of the invariants FlowCoherent,     *)
(* BufferOnlyWhileUndecided and VerdictJustified.                          *)
Coherent(k, e) ==
  /\ TcpCoherent(e.tcp)
  /\ k.proto = "TCP" => e.state = FlowStateOfTcp(e.tcp)
  /\ e.first <= e.last

BufferOK(k, e) ==
  /\ Len(e.buffer) < MaxBuffer
  /\ e.complete => e.buffer = << >>
  /\ e.meta # NoMeta => e.complete
  /\ Recognise(k, e.buffer) = NoMeta

Justified(k, e) ==
  \/ ~e.complete /\ e.verdict = EvaluateL34(e.by, k)
  \/ e.complete /\ e.verdict = EvaluateL7(e.by, k, e.meta)
  \/ /\ e.complete /\ UnknownIsFirst(e.by, k, e.meta)
     /\ e.verdict.final /\ e.verdict = EvaluateL34(e.by, k)

EntryInv(k, e) == e \in Entries /\ Coherent(k, e) /\ BufferOK(k, e) /\ Justified(k, e)

(* Packets carry what the handlers expect.                                 *)
LEMMA PacketTyped ==
  ASSUME NEW k \in Keys, NEW p \in Packets(k)
  PROVE  /\ p.dir \in Directions /\ p.seg \in Segments
         /\ p.payload \in Payloads /\ p.payload \in Seq(Pieces) /\ p.ts \in Times
<1>1. NoFlags \in Segments
  BY DEF NoFlags, Segments
<1>2. Segs \subseteq Segments /\ Payloads \subseteq Seq(Pieces)
  BY FlowAssumption
<1>3. QED
  BY <1>1, <1>2 DEF Packets

(* update() makes of a draft an entry whose times and TCP state agree, and *)
(* touches neither the buffer nor the verdict.                             *)
LEMMA UpdateStep ==
  ASSUME NEW k \in Keys, NEW p \in Packets(k), NEW e \in Drafts,
         TcpCoherent(e.tcp), e.first <= e.last
  PROVE  LET u == Update(e, k, p) IN
         /\ u \in Entries /\ Coherent(k, u)
         /\ u.buffer = e.buffer /\ u.complete = e.complete /\ u.meta = e.meta
         /\ u.verdict = e.verdict /\ u.by = e.by
<1> DEFINE r == RecordPacket(e, p.dir, p.ts)
           tcp == TcpProcess(r.tcp, p.seg, p.dir, p.payload # << >>)
           u == Update(e, k, p)
<1>1. p.dir \in Directions /\ p.seg \in Segments /\ p.ts \in Times
  BY PacketTyped
<1>2. Times \subseteq Nat
  BY FlowAssumption
<1>3. /\ r \in Drafts /\ r.dirs # {} /\ r.first <= r.last /\ r.tcp = e.tcp
      /\ r.buffer = e.buffer /\ r.complete = e.complete /\ r.meta = e.meta
      /\ r.verdict = e.verdict /\ r.by = e.by
  <2>1. r \in Drafts /\ r.dirs = e.dirs \cup {p.dir}
    BY <1>1 DEF RecordPacket, Drafts
  <2>2. r.first = (IF e.first = 0 \/ p.ts < e.first THEN p.ts ELSE e.first)
        /\ r.last = (IF p.ts > e.last THEN p.ts ELSE e.last)
    BY DEF RecordPacket, Drafts
  <2>3. e.first \in Nat /\ e.last \in Nat /\ p.ts \in Nat
    BY <1>1, <1>2 DEF Drafts
  <2>4. r.first <= r.last
    BY <2>2, <2>3
  <2>5. /\ r.tcp = e.tcp /\ r.buffer = e.buffer /\ r.complete = e.complete
        /\ r.meta = e.meta /\ r.verdict = e.verdict /\ r.by = e.by
    BY DEF RecordPacket, Drafts
  <2>6. QED
    BY <2>1, <2>4, <2>5
<1> HIDE DEF r
<1>d. r.dirs \in (SUBSET Directions) \ {{}}
  BY <1>3 DEF Drafts
<1>4. e.tcp \in Trackers
  BY DEF Drafts
<1>5. tcp \in Trackers /\ TcpCoherent(tcp)
  <2>1. (p.payload # << >>) \in BOOLEAN
    OBVIOUS
  <2>2. QED
    BY <1>1, <1>3, <1>4, <2>1, TcpProcessType, TcpProcessCoherent
<1> HIDE DEF tcp
<1>6. FlowStateOfTcp(tcp) \in {"Active", "Established", "Closing", "Closed"}
  BY DEF FlowStateOfTcp
<1>7. CASE k.proto = "TCP"
  <2>1. u = [r EXCEPT !.tcp = tcp, !.state = FlowStateOfTcp(tcp)]
    BY <1>7 DEF Update, r, tcp
  <2>2. u \in Entries /\ u.tcp = tcp /\ u.state = FlowStateOfTcp(tcp)
    BY <1>3, <1>d, <1>5, <1>6, <2>1 DEF Drafts, Entries
  <2>3. u.first = r.first /\ u.last = r.last /\ u.buffer = r.buffer /\ u.complete = r.complete
        /\ u.meta = r.meta /\ u.verdict = r.verdict /\ u.by = r.by
    BY <2>1
  <2>4. QED
    BY <1>3, <1>5, <2>2, <2>3 DEF Coherent
<1>8. CASE k.proto # "TCP"
  <2>1. u = [r EXCEPT !.state = IF r.dirs = Directions THEN "Established" ELSE "Active"]
    BY <1>8 DEF Update, r
  <2>2. u \in Entries
    BY <1>3, <1>d, <2>1 DEF Drafts, Entries
  <2>3. u.first = r.first /\ u.last = r.last /\ u.buffer = r.buffer /\ u.complete = r.complete
        /\ u.meta = r.meta /\ u.verdict = r.verdict /\ u.by = r.by /\ u.tcp = r.tcp
    BY <2>1
  <2>4. QED
    BY <1>3, <1>8, <2>2, <2>3 DEF Coherent
<1>9. QED
  BY <1>7, <1>8

(* A new entry, updated by its packet and judged on its addresses, and an  *)
(* old one updated satisfy the invariant before DPI looks at the payload.  *)
LEMMA NewEntryStep ==
  ASSUME rules \in RuleSets, NEW k \in Keys, NEW p \in Packets(k)
  PROVE  EntryInv(k, Judge34(Update(NewEntry(p.ts), k, p), k))
<1> DEFINE n == NewEntry(p.ts)
           u == Update(n, k, p)
           j == Judge34(u, k)
<1>1. p.ts \in Times /\ Times \subseteq Nat /\ MaxBuffer \in Nat \ {0} /\ NoMeta \in Metas
  BY PacketTyped, FlowAssumption
<1>2. << >> \in Seq(Pieces) /\ Len(<< >>) = 0
  BY EmptySeq
<1>3. n \in Drafts /\ TcpCoherent(n.tcp) /\ n.first <= n.last
  <2>1. [action |-> "Allow", rule |-> 0, final |-> FALSE] \in Verdicts
    BY DEF Verdicts, Actions
  <2>2. n \in Drafts
    BY <1>1, <1>2, <2>1, TcpNewCoherent DEF NewEntry, Drafts
  <2>3. n.tcp = TcpNew /\ n.first = p.ts /\ n.last = p.ts
    BY DEF NewEntry
  <2>4. \A t \in Nat : t <= t
    OBVIOUS
  <2>5. QED
    BY <1>1, <2>2, <2>3, <2>4, TcpNewCoherent
<1>4. n.buffer = << >> /\ ~n.complete /\ n.meta = NoMeta
  BY DEF NewEntry
<1> HIDE DEF n
<1>5. u \in Entries /\ Coherent(k, u) /\ u.buffer = << >> /\ ~u.complete /\ u.meta = NoMeta
  BY <1>3, <1>4, UpdateStep
<1> HIDE DEF u
<1>6. EvaluateL34(rules, k) \in Verdicts
  BY EvaluationType
<1>7. j \in Entries
  BY <1>5, <1>6 DEF Judge34, Entries
<1>8. Coherent(k, j)
  BY <1>5 DEF Judge34, Coherent, Entries
<1>9. BufferOK(k, j)
  BY <1>1, <1>2, <1>5, FlowAssumption DEF Judge34, BufferOK, Entries
<1>10. Justified(k, j)
  BY <1>5 DEF Judge34, Justified, Entries
<1>11. QED
  BY <1>7, <1>8, <1>9, <1>10 DEF EntryInv, u, n

(* update() of a tracked flow keeps the invariant.                        *)
LEMMA OldEntryStep ==
  ASSUME NEW k \in Keys, NEW p \in Packets(k), NEW e, EntryInv(k, e)
  PROVE  EntryInv(k, Update(e, k, p))
<1>1. e \in Drafts /\ TcpCoherent(e.tcp) /\ e.first <= e.last
  BY DEF EntryInv, Entries, Drafts, Coherent
<1>2. QED
  BY <1>1, UpdateStep DEF EntryInv, BufferOK, Justified

-----------------------------------------------------------------------------
(* Inspection                                                              *)

(* While DPI is undecided the buffer has room: what is appended is a       *)
(* prefix of the payload, and the buffer grows at most to its limit.       *)
LEMMA AppendStep ==
  ASSUME NEW k \in Keys, NEW e, EntryInv(k, e), ~e.complete, NEW payload \in Seq(Pieces)
  PROVE  LET fed == AppendDpiPayload(e, payload) IN
         /\ fed \in Entries /\ fed = [e EXCEPT !.buffer = fed.buffer]
         /\ fed.buffer \in Inputs
<1> DEFINE room == MaxBuffer - Len(e.buffer)
           taken == IF Len(payload) < room THEN payload ELSE SubSeq(payload, 1, room)
           fed == AppendDpiPayload(e, payload)
<1>1. e \in Entries /\ e.buffer \in Seq(Pieces) /\ Len(e.buffer) < MaxBuffer
  BY DEF EntryInv, BufferOK, Entries
<1>2. MaxBuffer \in Nat /\ Len(e.buffer) \in Nat /\ Len(payload) \in Nat
  BY <1>1, FlowAssumption, LenProperties
<1>3. room \in Nat /\ room > 0
  BY <1>1, <1>2
<1>4. taken \in Seq(Pieces) /\ Len(taken) <= room
  <2>1. CASE Len(payload) < room
    BY <1>2, <1>3, <2>1
  <2>2. CASE ~(Len(payload) < room)
    <3>1. \A i \in 1 .. room : payload[i] \in Pieces
      BY <1>2, <1>3, <2>2, ElementOfSeq
    <3>2. SubSeq(payload, 1, room) \in Seq(Pieces) /\ Len(SubSeq(payload, 1, room)) = room
      BY <1>3, <3>1, SubSeqProperties
    <3>3. QED
      BY <1>3, <2>2, <3>2
  <2>3. QED
    BY <2>1, <2>2
<1> HIDE DEF taken
<1>5. fed = [e EXCEPT !.buffer = e.buffer \o taken]
  BY <1>1, <1>2 DEF AppendDpiPayload, taken
<1>6. e.buffer \o taken \in Seq(Pieces) /\ Len(e.buffer \o taken) = Len(e.buffer) + Len(taken)
  BY <1>1, <1>4, ConcatProperties
<1>7. Len(e.buffer \o taken) \in 0 .. MaxBuffer
  BY <1>2, <1>4, <1>6, LenProperties
<1>8. fed \in Entries /\ fed.buffer = e.buffer \o taken
  BY <1>1, <1>5, <1>6 DEF Entries
<1>9. e.buffer \o taken \in Inputs
  <2>1. e.buffer \o taken \in [1 .. Len(e.buffer \o taken) -> Pieces]
    BY <1>6, LenProperties
  <2>2. QED
    BY <1>7, <2>1 DEF Inputs
<1>10. QED
  BY <1>5, <1>8, <1>9

(* Fields AppendStep leaves alone, for the leaves below.                   *)
LEMMA AppendFields ==
  ASSUME NEW k \in Keys, NEW e, EntryInv(k, e), ~e.complete, NEW payload \in Seq(Pieces)
  PROVE  LET fed == AppendDpiPayload(e, payload) IN
         /\ fed \in Entries /\ Coherent(k, fed) /\ Justified(k, fed)
         /\ ~fed.complete /\ fed.meta = NoMeta /\ fed.buffer \in Inputs
<1> DEFINE fed == AppendDpiPayload(e, payload)
<1>1. fed \in Entries /\ fed = [e EXCEPT !.buffer = fed.buffer] /\ fed.buffer \in Inputs
  BY AppendStep
<1>2. e \in Entries /\ Coherent(k, e) /\ Justified(k, e) /\ e.meta = NoMeta
  BY DEF EntryInv, BufferOK
<1> HIDE DEF fed
<1>3. /\ fed.state = e.state /\ fed.tcp = e.tcp /\ fed.first = e.first /\ fed.last = e.last
      /\ fed.complete = e.complete /\ fed.meta = e.meta /\ fed.verdict = e.verdict
      /\ fed.by = e.by
  BY <1>1, <1>2 DEF Entries
<1>4. Coherent(k, fed) /\ Justified(k, fed)
  BY <1>2, <1>3 DEF Coherent, Justified
<1>5. QED
  BY <1>1, <1>2, <1>3, <1>4 DEF fed

(* Classification empties the buffer and gives the verdict of all rules.   *)
LEMMA ClassifyStep ==
  ASSUME rules \in RuleSets, NEW k \in Keys, NEW e \in Entries, Coherent(k, e),
         NEW meta \in Metas
  PROVE  EntryInv(k, Classify(e, k, meta))
<1> DEFINE f == Finalize(e, meta)
           c == Classify(e, k, meta)
<1>1. << >> \in Seq(Pieces) /\ Len(<< >>) = 0
  BY EmptySeq
<1>2. /\ f \in Entries /\ f.complete /\ f.buffer = << >> /\ f.meta = meta
      /\ f.tcp = e.tcp /\ f.state = e.state /\ f.first = e.first /\ f.last = e.last
  BY <1>1 DEF Finalize, Entries
<1>3. EvaluateL7(rules, k, meta) \in Verdicts
  BY EvaluationType
<1>4. c = [f EXCEPT !.verdict = EvaluateL7(rules, k, meta), !.by = rules]
  BY <1>2 DEF Classify, Judge7
<1> HIDE DEF f, c
<1>5. /\ c \in Entries /\ c.complete /\ c.buffer = << >> /\ c.meta = meta
      /\ c.verdict = EvaluateL7(rules, k, meta) /\ c.by = rules
      /\ c.tcp = e.tcp /\ c.state = e.state /\ c.first = e.first /\ c.last = e.last
  BY <1>2, <1>3, <1>4 DEF Entries
<1>6. Coherent(k, c) /\ Justified(k, c)
  BY <1>5 DEF Coherent, Justified
<1>7. BufferOK(k, c)
  BY <1>1, <1>5, FlowAssumption DEF BufferOK
<1>8. QED
  BY <1>5, <1>6, <1>7 DEF EntryInv, c

(* Giving up empties the buffer; a final verdict of the addresses alone is *)
(* also the verdict of all rules, unless the first of these asks for the   *)
(* unknown protocol.                                                       *)
LEMMA GiveUpStep ==
  ASSUME rules \in RuleSets, NEW k \in Keys, NEW e \in Entries, Coherent(k, e),
         Justified(k, e), ~e.complete, e.meta = NoMeta
  PROVE  EntryInv(k, GiveUp(e, k))
<1> DEFINE f == AbandonDpi(e)
           g == GiveUp(e, k)
<1>1. << >> \in Seq(Pieces) /\ Len(<< >>) = 0
  BY EmptySeq
<1>2. /\ f \in Entries /\ f.complete /\ f.buffer = << >> /\ f.meta = NoMeta
      /\ f.tcp = e.tcp /\ f.state = e.state /\ f.first = e.first /\ f.last = e.last
      /\ f.verdict = e.verdict /\ f.by = e.by
  BY <1>1 DEF AbandonDpi, Entries
<1>3. e.by \in RuleSets /\ e.verdict = EvaluateL34(e.by, k)
  BY DEF Entries, Justified
<1>4. /\ g \in Entries /\ g.complete /\ g.buffer = << >> /\ g.meta = NoMeta
      /\ Justified(k, g)
      /\ g.tcp = e.tcp /\ g.state = e.state /\ g.first = e.first /\ g.last = e.last
  <2>1. CASE e.verdict.final
    <3>1. g = f
      BY <2>1 DEF GiveUp
    <3>2. EvaluateL7(e.by, k, NoMeta) = e.verdict \/ UnknownIsFirst(e.by, k, NoMeta)
      BY <1>3, <2>1, NothingFound
    <3>3. Justified(k, f)
      BY <1>2, <1>3, <2>1, <3>2 DEF Justified
    <3>4. QED
      BY <1>2, <3>1, <3>3
  <2>2. CASE ~e.verdict.final
    <3>1. g = [f EXCEPT !.verdict = EvaluateL7(rules, k, NoMeta), !.by = rules]
      BY <1>2, <2>2 DEF GiveUp, Judge7
    <3>2. EvaluateL7(rules, k, NoMeta) \in Verdicts
      BY EvaluationType
    <3> HIDE DEF f, g
    <3>3. QED
      BY <1>2, <3>1, <3>2 DEF Entries, Justified
  <2>3. QED
    BY <2>1, <2>2
<1> HIDE DEF g
<1>5. Coherent(k, g) /\ Justified(k, g)
  BY <1>4 DEF Coherent, Justified
<1>6. BufferOK(k, g)
  BY <1>1, <1>4, FlowAssumption DEF BufferOK
<1>7. QED
  BY <1>4, <1>5, <1>6 DEF EntryInv, g

(* Inspection of a payload preserves the invariant of an entry.            *)
LEMMA InspectStep ==
  ASSUME rules \in RuleSets, NEW k \in Keys, NEW e, EntryInv(k, e), NEW payload \in Payloads
  PROVE  EntryInv(k, Inspect(e, k, payload))
<1>1. payload \in Seq(Pieces) /\ payload \in Inputs
  BY FlowAssumption DEF Inputs
<1>2. CASE e.complete \/ payload = << >>
  BY <1>2 DEF Inspect
<1>3. CASE ~e.complete /\ payload # << >> /\ k.proto = "TCP"
  <2> DEFINE fed == AppendDpiPayload(e, payload)
             meta == Recognise(k, fed.buffer)
  <2>1. /\ fed \in Entries /\ Coherent(k, fed) /\ Justified(k, fed)
        /\ ~fed.complete /\ fed.meta = NoMeta /\ fed.buffer \in Inputs
    BY <1>1, <1>3, AppendFields
  <2>2. meta \in Metas
    BY <2>1, FlowAssumption
  <2> HIDE DEF fed
  <2>3. Inspect(e, k, payload) = IF meta # NoMeta THEN Classify(fed, k, meta)
                                 ELSE IF Len(fed.buffer) >= MaxBuffer THEN GiveUp(fed, k)
                                 ELSE fed
    BY <1>3 DEF Inspect, InspectTcp, fed
  <2>4. CASE meta # NoMeta
    BY <2>1, <2>2, <2>3, <2>4, ClassifyStep
  <2>5. CASE meta = NoMeta /\ Len(fed.buffer) >= MaxBuffer
    BY <2>1, <2>3, <2>5, GiveUpStep
  <2>6. CASE meta = NoMeta /\ ~(Len(fed.buffer) >= MaxBuffer)
    <3>1. fed.buffer \in Seq(Pieces) /\ MaxBuffer \in Nat
      BY <2>1, FlowAssumption DEF Entries
    <3>2. Len(fed.buffer) < MaxBuffer
      BY <2>6, <3>1, LenProperties
    <3>3. QED
      BY <2>1, <2>3, <2>6, <3>2 DEF EntryInv, BufferOK
  <2>7. QED
    BY <2>4, <2>5, <2>6
<1>4. CASE ~e.complete /\ payload # << >> /\ k.proto # "TCP"
  <2>1. Recognise(k, payload) \in Metas
    BY <1>1, FlowAssumption
  <2>2. Inspect(e, k, payload) = IF Recognise(k, payload) # NoMeta
                                 THEN Classify(e, k, Recognise(k, payload)) ELSE GiveUp(e, k)
    BY <1>4 DEF Inspect, InspectUdp
  <2>3. e \in Entries /\ Coherent(k, e) /\ Justified(k, e) /\ e.meta = NoMeta
    BY <1>4 DEF EntryInv, BufferOK
  <2>4. QED
    BY <1>4, <2>1, <2>2, <2>3, ClassifyStep, GiveUpStep
<1>5. QED
  BY <1>2, <1>3, <1>4

-----------------------------------------------------------------------------
(* The table                                                               *)

(* The inductive invariant: one invariant for every tracked entry.         *)
TableInv ==
  /\ DOMAIN table = Keys
  /\ rules \in RuleSets
  /\ \A k \in Tracked : EntryInv(k, table[k])

(* The empty table satisfies it.                                           *)
LEMMA InitTableInv == Init => TableInv
BY DEF Init, TableInv, Tracked

(* Every operation of the table and every rule reload keeps it.            *)
LEMMA NextTableInv == TableInv /\ [Next]_vars => TableInv'
<1> SUFFICES ASSUME TableInv, [Next]_vars PROVE TableInv'
  OBVIOUS
<1> USE DEF TableInv
<1>1. ASSUME NEW k \in Keys, NEW p \in Packets(k), ProcessPacket(k, p)
      PROVE  TableInv'
  <2> DEFINE e == Update(IF table[k] = NoFlow THEN NewEntry(p.ts) ELSE table[k], k, p)
             judged == IF table[k] = NoFlow THEN Judge34(e, k) ELSE e
  <2>1. EntryInv(k, judged)
    BY NewEntryStep, OldEntryStep DEF Tracked
  <2>2. p.payload \in Payloads
    BY PacketTyped
  <2> HIDE DEF judged
  <2>3. EntryInv(k, Inspect(judged, k, p.payload))
    BY <2>1, <2>2, InspectStep
  <2>4. /\ table' = [table EXCEPT ![k] = Inspect(judged, k, p.payload)]
        /\ rules' = rules
    BY <1>1 DEF ProcessPacket, judged
  <2>5. QED
    BY <2>3, <2>4 DEF Tracked
<1>2. ASSUME NEW now \in ClockTimes, CleanupExpired(now)
      PROVE  TableInv'
  BY <1>2 DEF CleanupExpired, Tracked, Expired
<1>3. ASSUME NEW rs \in RuleSets, ReloadRules(rs)
      PROVE  TableInv'
  BY <1>3 DEF ReloadRules, Tracked
<1>4. CASE Clear
  BY <1>4 DEF Clear, Tracked
<1>5. CASE UNCHANGED vars
  BY <1>5 DEF vars, Tracked
<1>6. QED
  BY <1>1, <1>2, <1>3, <1>4, <1>5 DEF Next

(* It holds in every reachable state.                                      *)
LEMMA Invariance == Spec => []TableInv
BY InitTableInv, NextTableInv, PTL DEF Spec

(* The entries of the table are well formed (flow_entry.h).                *)
THEOREM TypeCorrectness == Spec => []TypeOK
<1>1. TableInv => TypeOK
  BY DEF TableInv, TypeOK, EntryInv
<1>2. QED
  BY <1>1, Invariance, PTL

(* The state of a TCP flow agrees with the flags seen on it, whatever      *)
(* segments arrive in whatever order (tcp_state_machine.cpp).              *)
THEOREM TcpStateFollowsFlags == Spec => []FlowCoherent
<1>1. TableInv => FlowCoherent
  BY DEF TableInv, FlowCoherent, EntryInv, Coherent
<1>2. QED
  BY <1>1, Invariance, PTL

(* The reassembly buffer is bounded, and released when DPI has decided     *)
(* (flow_entry.cpp:12-37).                                                 *)
THEOREM BufferReleased == Spec => []BufferOnlyWhileUndecided
<1>1. TableInv => BufferOnlyWhileUndecided
  BY DEF TableInv, BufferOnlyWhileUndecided, EntryInv, BufferOK
<1>2. QED
  BY <1>1, Invariance, PTL

(* For every rule set, misspelt protocols included: every verdict in the   *)
(* table is the one the rules demand for what is known of the flow, or     *)
(* passes over a rule on the unknown protocol (flow_table.cpp:32-86).      *)
THEOREM VerdictsJustified == Spec => []VerdictJustified
<1>1. TableInv => VerdictJustified
  BY DEF TableInv, VerdictJustified, EntryInv, Justified
<1>2. QED
  BY <1>1, Invariance, PTL

-----------------------------------------------------------------------------
(* What a step may do to an entry                                          *)

(* update() leaves everything but the times, directions and TCP state.     *)
LEMMA UpdateKeeps ==
  ASSUME NEW k \in Keys, NEW p \in Packets(k), NEW e, EntryInv(k, e)
  PROVE  LET u == Update(e, k, p) IN
         /\ EntryInv(k, u)
         /\ u.complete = e.complete /\ u.meta = e.meta
         /\ u.verdict = e.verdict /\ u.by = e.by
<1>1. e \in Drafts /\ TcpCoherent(e.tcp) /\ e.first <= e.last
  BY DEF EntryInv, Entries, Drafts, Coherent
<1>2. QED
  BY <1>1, UpdateStep, OldEntryStep

(* A step that keeps a flow in the table either leaves the entry alone or  *)
(* updates it with a packet and shows DPI the payload.                     *)
LEMMA StepOfEntry ==
  ASSUME TableInv, [Next]_vars, NEW k \in Keys, SameFlow(k)
  PROVE  \/ table'[k] = table[k]
         \/ \E p \in Packets(k) :
              table'[k] = Inspect(Update(table[k], k, p), k, p.payload)
<1>1. ASSUME NEW j \in Keys, NEW p \in Packets(j), ProcessPacket(j, p)
      PROVE  \/ table'[k] = table[k]
             \/ \E q \in Packets(k) :
                  table'[k] = Inspect(Update(table[k], k, q), k, q.payload)
  BY <1>1 DEF ProcessPacket, SameFlow, TableInv
<1>2. ASSUME NEW now \in ClockTimes, CleanupExpired(now)
      PROVE  table'[k] = table[k]
  BY <1>2 DEF CleanupExpired, SameFlow
<1>3. ASSUME NEW rs \in RuleSets, ReloadRules(rs)
      PROVE  table'[k] = table[k]
  BY <1>3 DEF ReloadRules
<1>4. ASSUME Clear
      PROVE  FALSE
  BY <1>4 DEF Clear, SameFlow
<1>5. CASE UNCHANGED vars
  BY <1>5 DEF vars
<1>6. QED
  BY <1>1, <1>2, <1>3, <1>4, <1>5 DEF Next

(* Once DPI is complete, a flow keeps what DPI found (flow_table.cpp:48).  *)
THEOREM DecisionsKept == Spec => DecidedForGood
<1>1. ASSUME TableInv, [Next]_vars, NEW k \in Keys, SameFlow(k), table[k].complete
      PROVE  table'[k].complete /\ table'[k].meta = table[k].meta
  <2>1. EntryInv(k, table[k])
    BY <1>1 DEF TableInv, Tracked, SameFlow
  <2>2. CASE table'[k] = table[k]
    BY <1>1, <2>2
  <2>3. ASSUME NEW p \in Packets(k),
               table'[k] = Inspect(Update(table[k], k, p), k, p.payload)
        PROVE  table'[k].complete /\ table'[k].meta = table[k].meta
    <3>1. Update(table[k], k, p).complete /\ Update(table[k], k, p).meta = table[k].meta
      BY <1>1, <2>1, UpdateKeeps
    <3>2. QED
      BY <2>3, <3>1 DEF Inspect
  <2>4. QED
    BY <1>1, <2>2, <2>3, StepOfEntry
<1>2. TableInv /\ [Next]_vars =>
        [\A k \in Keys : SameFlow(k) /\ table[k].complete
           => table'[k].complete /\ table'[k].meta = table[k].meta]_vars
  BY <1>1
<1>3. QED
  BY <1>2, Invariance, PTL DEF Spec, DecidedForGood

(* When inspection changes a verdict that a rule had decided on addresses, *)
(* under the same rules, it is for one that is tried before that rule.     *)
LEMMA InspectOverrides ==
  ASSUME rules \in RuleSets, NEW k \in Keys, NEW e, EntryInv(k, e), NEW payload \in Payloads,
         e.verdict.final, e.by = rules, Inspect(e, k, payload).verdict # e.verdict
  PROVE  \E i, j \in DOMAIN rules.rules :
           /\ TriedBefore(rules, i, j)
           /\ e.verdict = VerdictOf(rules.rules[j])
           /\ Inspect(e, k, payload).verdict = VerdictOf(rules.rules[i])
<1> DEFINE new == Inspect(e, k, payload)
<1>1. ~e.complete /\ payload # << >>
  BY DEF Inspect
<1>2. e.verdict = EvaluateL34(rules, k) /\ e \in Entries
  BY <1>1 DEF EntryInv, Justified
<1>3. payload \in Seq(Pieces)
  BY FlowAssumption
<1>4. \A f \in Entries : f.verdict.final => GiveUp(f, k).verdict = f.verdict
  BY DEF GiveUp, AbandonDpi, Entries
<1>5. \A f \in Entries, meta \in Metas : Classify(f, k, meta).verdict = EvaluateL7(rules, k, meta)
  BY DEF Classify, Judge7, Finalize, Entries
<1>6. \E meta \in Metas : new.verdict = EvaluateL7(rules, k, meta)
  <2>1. CASE k.proto = "TCP"
    <3> DEFINE fed == AppendDpiPayload(e, payload)
               meta == Recognise(k, fed.buffer)
    <3>1. fed \in Entries /\ fed = [e EXCEPT !.buffer = fed.buffer] /\ fed.buffer \in Inputs
      BY <1>1, <1>3, AppendStep
    <3> HIDE DEF fed
    <3>2. fed.verdict = e.verdict
      BY <1>2, <3>1 DEF Entries
    <3>3. meta \in Metas
      BY <3>1, FlowAssumption
    <3>4. new = IF meta # NoMeta THEN Classify(fed, k, meta)
                ELSE IF Len(fed.buffer) >= MaxBuffer THEN GiveUp(fed, k)
                ELSE fed
      BY <1>1, <2>1 DEF Inspect, InspectTcp, fed
    <3>5. meta # NoMeta
      BY <1>4, <3>1, <3>2, <3>4
    <3>6. QED
      BY <1>5, <3>1, <3>3, <3>4, <3>5
  <2>2. CASE k.proto # "TCP"
    <3> DEFINE meta == Recognise(k, payload)
    <3>1. new = IF meta # NoMeta THEN Classify(e, k, meta) ELSE GiveUp(e, k)
      BY <1>1, <2>2 DEF Inspect, InspectUdp
    <3>2. meta \in Metas
      BY FlowAssumption DEF Inputs
    <3>3. meta # NoMeta
      BY <1>2, <1>4, <3>1
    <3>4. QED
      BY <1>2, <1>5, <3>1, <3>2, <3>3
  <2>3. QED
    BY <2>1, <2>2
<1> HIDE DEF new
<1>7. PICK meta \in Metas : new.verdict = EvaluateL7(rules, k, meta)
  BY <1>6
<1> DEFINE early == L34Matches(rules, k)
           late  == L7Matches(rules, k, meta)
<1>8. early \in SUBSET DOMAIN rules.rules /\ late \in SUBSET DOMAIN rules.rules /\ early \subseteq late
  BY AddressMatchesStay DEF L34Matches, L7Matches
<1>9. early # {} /\ e.verdict = VerdictOf(rules.rules[First(rules, early)])
  BY <1>2 DEF EvaluateL34
<1>10. new.verdict = VerdictOf(rules.rules[First(rules, late)])
  BY <1>7, <1>8, <1>9 DEF EvaluateL7
<1> HIDE DEF early, late
<1>11. First(rules, early) \in early
  BY <1>8, <1>9, FirstIsFirst
<1>12. First(rules, late) \in late /\ TriedBefore(rules, First(rules, late), First(rules, early))
  BY <1>8, <1>9, <1>11, FirstIsFirst
<1>13. QED
  BY <1>8, <1>9, <1>10, <1>11, <1>12 DEF new

(* A verdict decided by a rule gives way only to a rule of precedence, as  *)
(* long as the rules stay the same (flow_table.cpp:48-86).                 *)
THEOREM OverriddenByPrecedence == Spec => OnlyPrecedenceOverrides
<1> DEFINE Overridden(k) ==
             \E i, j \in DOMAIN rules.rules :
               /\ TriedBefore(rules, i, j)
               /\ table[k].verdict = VerdictOf(rules.rules[j])
               /\ table'[k].verdict = VerdictOf(rules.rules[i])
<1>1. ASSUME TableInv, [Next]_vars, NEW k \in Keys, SameFlow(k), table[k].verdict.final,
             table[k].by = rules, table'[k].verdict # table[k].verdict
      PROVE  Overridden(k)
  <2>1. EntryInv(k, table[k]) /\ rules \in RuleSets
    BY <1>1 DEF TableInv, Tracked, SameFlow
  <2>2. PICK p \in Packets(k) : table'[k] = Inspect(Update(table[k], k, p), k, p.payload)
    BY <1>1, StepOfEntry
  <2> DEFINE u == Update(table[k], k, p)
  <2>3. EntryInv(k, u) /\ u.verdict = table[k].verdict /\ u.by = rules
    BY <1>1, <2>1, UpdateKeeps
  <2>4. p.payload \in Payloads
    BY PacketTyped
  <2> HIDE DEF u
  <2>5. table'[k] = Inspect(u, k, p.payload)
    BY <2>2 DEF u
  <2>6. QED
    BY <1>1, <2>1, <2>3, <2>4, <2>5, InspectOverrides
<1>2. TableInv /\ [Next]_vars =>
        [\A k \in Keys : SameFlow(k) /\ table[k].verdict.final /\ table[k].by = rules
             /\ table'[k].verdict # table[k].verdict
           => Overridden(k)]_vars
  BY <1>1
<1>3. QED
  BY <1>2, Invariance, PTL DEF Spec, OnlyPrecedenceOverrides

-----------------------------------------------------------------------------
(* Teardown                                                                *)

(* What TeardownNotUndone allows a segment to do to a tracker.             *)
TornDownStays(t, u) ==
  \/ t.fin \subseteq u.fin /\ (TcpInTeardown(t) => TcpInTeardown(u) \/ TcpIsClosed(u))
                           /\ (TcpIsClosed(t) => TcpIsClosed(u))
  \/ TcpIsClosed(t) /\ u.state \in {"SynSent", "SynReceived", "FinWait", "CloseWait"}

(* No segment takes a connection out of teardown, except that a SYN opens  *)
(* a new connection on the five-tuple of a terminated one.                 *)
LEMMA TcpProcessTeardown ==
  ASSUME NEW t \in Trackers, TcpCoherent(t), NEW seg \in Segments,
         NEW dir \in Directions, NEW data \in BOOLEAN
  PROVE  TornDownStays(t, TcpProcess(t, seg, dir, data))
<1> DEFINE v == TcpProcess(t, seg, dir, data)
<1>1. CASE seg.rst
  <2>1. v = [t EXCEPT !.rst = TRUE, !.state = "Reset"]
    BY <1>1 DEF TcpProcess
  <2>2. QED
    BY <2>1 DEF TornDownStays, TcpIsClosed, TcpInTeardown, Trackers
<1>2. CASE ~seg.rst /\ TcpIsClosed(t) /\ seg.syn
  <2>1. v = IF seg.fin THEN SeeFin(TcpNew, dir) ELSE SeeSyn(TcpNew, seg, dir)
    BY <1>2 DEF TcpProcess, TcpNew, TcpIsClosed, TcpInTeardown
  <2>2. v.state \in {"SynSent", "SynReceived", "FinWait", "CloseWait"}
    BY <2>1 DEF SeeFin, SeeSyn, TcpNew, Directions
  <2>3. QED
    BY <1>2, <2>2 DEF TornDownStays
<1>3. CASE ~seg.rst /\ TcpIsClosed(t) /\ ~seg.syn
  <2>1. v = t
    BY <1>3 DEF TcpProcess
  <2>2. QED
    BY <1>3, <2>1 DEF TornDownStays, TcpIsClosed, TcpInTeardown
<1>4. CASE ~seg.rst /\ ~TcpIsClosed(t) /\ seg.fin
  <2>1. v = SeeFin(t, dir)
    BY <1>4 DEF TcpProcess
  <2>2. QED
    BY <1>4, <2>1 DEF SeeFin, TornDownStays, TcpIsClosed, TcpInTeardown, Trackers, Directions
<1>5. CASE ~seg.rst /\ ~TcpIsClosed(t) /\ ~seg.fin /\ TcpInTeardown(t)
  <2>1. v = SeeInTeardown(t, seg, dir)
    BY <1>5 DEF TcpProcess
  <2>2. QED
    BY <1>5, <2>1 DEF SeeInTeardown, TornDownStays, TcpIsClosed, TcpInTeardown, Trackers
<1>6. CASE ~seg.rst /\ ~TcpIsClosed(t) /\ ~seg.fin /\ ~TcpInTeardown(t)
  <2>1. v \in {SeeSyn(t, seg, dir), SeeData(t), t}
    BY <1>6 DEF TcpProcess
  <2>2. v.fin = t.fin
    BY <2>1 DEF SeeSyn, SeeData, Trackers
  <2>3. QED
    BY <1>6, <2>2 DEF TornDownStays
<1>7. QED
  BY <1>1, <1>2, <1>3, <1>4, <1>5, <1>6

(* Inspecting a payload leaves the TCP tracker alone.                      *)
LEMMA InspectKeepsTcp ==
  ASSUME NEW k \in Keys, NEW e \in Entries, NEW payload
  PROVE  Inspect(e, k, payload).tcp = e.tcp
<1>1. \A f \in Entries : [f EXCEPT !.complete = TRUE].tcp = f.tcp
  BY DEF Entries
<1> DEFINE Same(f) == DOMAIN f = DOMAIN e /\ f.tcp = e.tcp
<1>2. Same(e) /\ "tcp" \in DOMAIN e
  BY DEF Entries
<1>3. ASSUME NEW f, Same(f) PROVE Same(AbandonDpi(f))
  BY <1>2, <1>3 DEF AbandonDpi
<1>4. ASSUME NEW f, Same(f), NEW meta PROVE Same(Finalize(f, meta))
  BY <1>2, <1>4 DEF Finalize
<1>5. ASSUME NEW f, Same(f) PROVE Same(Judge7(f, k))
  BY <1>2, <1>5 DEF Judge7
<1>6. ASSUME NEW f, Same(f) PROVE Same(AppendDpiPayload(f, payload))
  BY <1>2, <1>3, <1>6 DEF AppendDpiPayload
<1> HIDE DEF Same
<1>7. ASSUME NEW f, Same(f), NEW meta PROVE Same(Classify(f, k, meta)) /\ Same(GiveUp(f, k))
  BY <1>3, <1>4, <1>5, <1>7 DEF Classify, GiveUp
<1>8. Same(InspectTcp(e, k, payload))
  BY <1>2, <1>6, <1>7 DEF InspectTcp
<1>9. Same(InspectUdp(e, k, payload))
  BY <1>2, <1>7 DEF InspectUdp
<1>10. QED
  BY <1>2, <1>8, <1>9 DEF Inspect, Same

(* A connection in teardown, or terminated, does not come back to life by  *)
(* any segment but the SYN that reopens it (tcp_state_machine.cpp:18-104,  *)
(* flow_table.cpp:24-86).                                                  *)
THEOREM TeardownIsFinal == Spec => TeardownNotUndone
<1>1. ASSUME TableInv, [Next]_vars, NEW k \in Keys, SameFlow(k)
      PROVE  TornDownStays(table[k].tcp, table'[k].tcp)
  <2>1. EntryInv(k, table[k])
    BY <1>1 DEF TableInv, Tracked, SameFlow
  <2> DEFINE e == table[k]
  <2>2. e.tcp \in Trackers /\ TcpCoherent(e.tcp) /\ e \in Entries
    BY <2>1 DEF EntryInv, Entries, Coherent
  <2>3. CASE table'[k] = table[k]
    BY <2>3 DEF TornDownStays
  <2>4. ASSUME NEW p \in Packets(k), table'[k] = Inspect(Update(e, k, p), k, p.payload)
        PROVE  TornDownStays(e.tcp, table'[k].tcp)
    <3> DEFINE tcp == TcpProcess(e.tcp, p.seg, p.dir, p.payload # << >>)
    <3>1. EntryInv(k, Update(e, k, p))
      BY <2>1, OldEntryStep
    <3>2. table'[k].tcp = Update(e, k, p).tcp
      BY <2>4, <3>1, InspectKeepsTcp DEF EntryInv
    <3>3. RecordPacket(e, p.dir, p.ts).tcp = e.tcp
           /\ "tcp" \in DOMAIN RecordPacket(e, p.dir, p.ts)
      BY <2>2 DEF RecordPacket, Entries
    <3>4. Update(e, k, p).tcp \in {tcp, e.tcp}
      BY <3>3 DEF Update
    <3>5. TornDownStays(e.tcp, tcp)
      BY <2>2, PacketTyped, TcpProcessTeardown
    <3>6. TornDownStays(e.tcp, e.tcp)
      BY DEF TornDownStays
    <3>7. QED
      BY <3>2, <3>4, <3>5, <3>6
  <2>5. QED
    BY <1>1, <2>3, <2>4, StepOfEntry
<1>2. TableInv /\ [Next]_vars =>
        [\A k \in Keys : SameFlow(k) =>
           LET t == table[k].tcp
               u == table'[k].tcp IN
           \/ t.fin \subseteq u.fin /\ (TcpInTeardown(t) => TcpInTeardown(u) \/ TcpIsClosed(u))
                                    /\ (TcpIsClosed(t) => TcpIsClosed(u))
           \/ TcpIsClosed(t) /\ u.state \in {"SynSent", "SynReceived", "FinWait", "CloseWait"}]_vars
  BY <1>1 DEF TornDownStays
<1>3. QED
  BY <1>2, Invariance, PTL DEF Spec, TeardownNotUndone

-----------------------------------------------------------------------------
(* Eviction                                                                *)

(* Timeouts are numbers, whatever the entry.                               *)
LEMMA TimeoutTyped ==
  ASSUME NEW k \in Keys, NEW e
  PROVE  TimeoutForFlow(k, e) \in Nat
BY FlowAssumption DEF TimeoutForFlow

(* A flow leaves the table while another stays only by cleanup_expired.    *)
LEMMA OnlyCleanupEvicts ==
  ASSUME TableInv, [Next]_vars, NEW k \in Keys, NEW j \in Keys,
         table[k] # NoFlow, table'[k] = NoFlow, SameFlow(j)
  PROVE  \E now \in ClockTimes : k \in Expired(now) /\ j \notin Expired(now)
<1>1. ASSUME NEW i \in Keys, NEW p \in Packets(i), ProcessPacket(i, p)
      PROVE  FALSE
  <2>1. TableInv'
    BY NextTableInv
  <2>2. k = i /\ i \in DOMAIN table
    BY <1>1 DEF ProcessPacket, TableInv
  <2> DEFINE e == Update(table[k], k, p)
  <2>3. table'[k] = Inspect(e, k, p.payload)
    BY <1>1, <2>2 DEF ProcessPacket
  <2>4. EntryInv(k, e)
    BY <2>2, OldEntryStep DEF TableInv, Tracked
  <2>5. EntryInv(k, Inspect(e, k, p.payload))
    BY <2>2, <2>4, PacketTyped, InspectStep DEF TableInv
  <2>6. QED
    BY <2>3, <2>5, NoFlowAssumption DEF EntryInv
<1>2. ASSUME NEW now \in ClockTimes, CleanupExpired(now)
      PROVE  k \in Expired(now) /\ j \notin Expired(now)
  BY <1>2 DEF CleanupExpired, SameFlow
<1>3. ASSUME NEW rs \in RuleSets, ReloadRules(rs)
      PROVE  FALSE
  BY <1>3 DEF ReloadRules
<1>4. ASSUME Clear
      PROVE  FALSE
  BY <1>4 DEF Clear, SameFlow
<1>5. ASSUME UNCHANGED vars
      PROVE  FALSE
  BY <1>5 DEF vars
<1>6. QED
  BY <1>1, <1>2, <1>3, <1>4, <1>5 DEF Next

(* Eviction is by age, whatever the clock: a flow goes only while flows    *)
(* with no longer timeout that stay are younger (flow_table.cpp:122-143,   *)
(* flow_entry.cpp:79-86).                                                  *)
THEOREM EvictionByAge == Spec => OldestEvictedFirst
<1>1. ASSUME TableInv, [Next]_vars, NEW k \in Keys, NEW j \in Keys,
             table[k] # NoFlow, table'[k] = NoFlow, SameFlow(j),
             TimeoutForFlow(j, table[j]) <= TimeoutForFlow(k, table[k])
      PROVE  table[k].last < table[j].last
  <2> DEFINE a == TimeoutForFlow(k, table[k])
             b == TimeoutForFlow(j, table[j])
             kl == table[k].last
             jl == table[j].last
  <2>1. PICK now \in ClockTimes : k \in Expired(now) /\ j \notin Expired(now)
    BY <1>1, OnlyCleanupEvicts
  <2>2. kl \in Nat /\ jl \in Nat /\ now \in Nat /\ a \in Nat /\ b \in Nat
    BY <1>1, FlowAssumption, TimeoutTyped DEF TableInv, Tracked, SameFlow, EntryInv, Entries
  <2>3. now > kl /\ now - kl > a
    BY <2>1 DEF Expired, IsExpired
  <2>4. ~(now > jl /\ now - jl > b)
    BY <1>1, <2>1 DEF Expired, IsExpired, Tracked, SameFlow
  <2> HIDE DEF a, b, kl, jl
  <2>5. b <= a
    BY <1>1 DEF a, b
  <2>6. kl < jl
    BY <2>2, <2>3, <2>4, <2>5
  <2>7. QED
    BY <2>6 DEF kl, jl
<1>2. TableInv /\ [Next]_vars =>
        [\A k, j \in Keys :
           /\ table[k] # NoFlow /\ table'[k] = NoFlow
           /\ SameFlow(j)
           /\ TimeoutForFlow(j, table[j]) <= TimeoutForFlow(k, table[k])
           => table[k].last < table[j].last]_vars
  BY <1>1
<1>3. QED
  BY <1>2, Invariance, PTL DEF Spec, OldestEvictedFirst
=============================================================================
