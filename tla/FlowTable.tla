----------------------------- MODULE FlowTable -----------------------------
(***************************************************************************)
(* The flow table of one worker (src/flow/flow_table.cpp) and its entries  *)
(* (flow_entry.cpp, flow_stats.h): per-flow times, TCP tracking, the       *)
(* bounded reassembly buffer for DPI, and the policy verdict, which is     *)
(* provisional until DPI is done or an L3/L4 rule has decided.             *)
(*                                                                         *)
(* What DpiEngine::inspect makes of the bytes of a flow is the constant    *)
(* Recognise; the payload is a sequence of abstract pieces.  Of the        *)
(* counters only which directions have been seen is kept.                  *)
(*                                                                         *)
(* The field by of an entry is history: the rule set in force when its     *)
(* verdict was last computed.                                              *)
(***************************************************************************)
EXTENDS Naturals, Sequences, TcpTracker, PolicyRules

CONSTANTS
  Keys,               \* canonical keys: [proto, src, dst]
  Pieces,             \* units of payload
  Payloads,           \* the payloads packets carry
  Metas,              \* L7Metadata: [app, host]
  Recognise(_, _),    \* DpiEngine::inspect(payload) for a flow: its metadata, or NoMeta
  MaxBuffer,          \* DEFAULT_MAX_DPI_BUFFER_SIZE, in pieces
  Segs,               \* the TCP flags packets carry
  Times,              \* packet timestamps, in microseconds
  ClockTimes,         \* times cleanup_expired is called with
  RuleSets,           \* rule sets the engine may be given
  SynTimeout, EstablishedTimeout, ClosedTimeout, UdpTimeout, GenericTimeout,
  NoFlow

(* What DPI is asked to recognise: a buffer or a datagram.                 *)
Inputs == Payloads \cup UNION {[1 .. n -> Pieces] : n \in 0 .. MaxBuffer}

ASSUME FlowAssumption ==
  /\ \A k \in Keys : k.proto \in {"TCP", "UDP"}
  /\ Payloads \subseteq Seq(Pieces)
  /\ NoMeta \in Metas
  /\ \A k \in Keys : \A s \in Inputs : Recognise(k, s) \in Metas
  /\ \A k \in Keys : Recognise(k, << >>) = NoMeta
  /\ MaxBuffer \in Nat \ {0}
  /\ Segs \subseteq Segments
  /\ Times \subseteq Nat /\ ClockTimes \subseteq Nat
  /\ {SynTimeout, EstablishedTimeout, ClosedTimeout, UdpTimeout, GenericTimeout} \subseteq Nat

Actions == {"Allow", "Block", "Alert", "Log"}

(* Any rules, those that ask for a protocol the engine does not know (app  *)
(* is then Unknown) included.                                              *)
ASSUME RulesAssumption ==
  \A rs \in RuleSets :
    /\ rs.default \in Actions
    /\ \A i \in DOMAIN rs.rules :
         LET r == rs.rules[i] IN
         i \in Nat /\ r.id \in Nat /\ r.priority \in Nat /\ r.action \in Actions

VARIABLES
  table,     \* table[k]: the FlowEntry of key k, or NoFlow
  rules      \* RuleEngine::active_rules_

vars == <<table, rules>>

Init ==
  /\ table = [k \in Keys |-> NoFlow]
  /\ rules \in RuleSets

Tracked == {k \in Keys : table[k] # NoFlow}

-----------------------------------------------------------------------------
(* FlowEntry                                                               *)

NewEntry(ts) ==
  [state |-> "New", first |-> ts, last |-> ts, dirs |-> {}, tcp |-> TcpNew,
   buffer |-> << >>, complete |-> FALSE, meta |-> NoMeta,
   verdict |-> [action |-> "Allow", rule |-> 0, final |-> FALSE], by |-> rules]

(* first_seen_us = 0 is taken for "not set".                               *)
RecordPacket(e, dir, ts) ==
  [e EXCEPT !.first = IF @ = 0 \/ ts < @ THEN ts ELSE @,
            !.last  = IF ts > @ THEN ts ELSE @,
            !.dirs  = @ \cup {dir}]

(* Fault: the states of the TCP tracker are reported as they are.          *)
FlowStateRaw(t) == t.state

FlowStateOfTcp(t) ==
  CASE t.state = "Established" -> "Established"
    [] TcpInTeardown(t)        -> "Closing"
    [] TcpIsClosed(t)          -> "Closed"
    [] OTHER                   -> "Active"

Update(e, k, p) ==
  LET r   == RecordPacket(e, p.dir, p.ts)
      tcp == TcpProcess(r.tcp, p.seg, p.dir, p.payload # << >>) IN
  IF k.proto = "TCP"
  THEN [r EXCEPT !.tcp = tcp, !.state = FlowStateOfTcp(tcp)]
  ELSE [r EXCEPT !.state = IF r.dirs = Directions THEN "Established" ELSE "Active"]

AbandonDpi(e) == [e EXCEPT !.complete = TRUE, !.buffer = << >>]

(* Fault: the buffer is kept after classification.                         *)
FinalizeKeepingBuffer(e, meta) == [e EXCEPT !.complete = TRUE, !.meta = meta]

Finalize(e, meta) == [e EXCEPT !.complete = TRUE, !.buffer = << >>, !.meta = meta]

AppendDpiPayload(e, payload) ==
  LET room == MaxBuffer - Len(e.buffer)
      taken == IF Len(payload) < room THEN payload ELSE SubSeq(payload, 1, room) IN
  IF Len(e.buffer) >= MaxBuffer THEN AbandonDpi(e) ELSE [e EXCEPT !.buffer = @ \o taken]

(* Fault: the subtraction of unsigned integers wraps around.               *)
IsExpiredWrapping(e, now, timeout) == now < e.last \/ now - e.last > timeout

IsExpired(e, now, timeout) == now > e.last /\ now - e.last > timeout

-----------------------------------------------------------------------------
(* FlowTable::process_packet                                               *)

Judge34(e, k) == [e EXCEPT !.verdict = EvaluateL34(rules, k), !.by = rules]

Judge7(e, k) == [e EXCEPT !.verdict = EvaluateL7(rules, k, e.meta), !.by = rules]

(* Fault: giving up imposes the default action.                            *)
GiveUpToDefault(e, k) ==
  [AbandonDpi(e) EXCEPT !.verdict = [action |-> rules.default, rule |-> 0, final |-> TRUE]]

(* When DPI gives up, a final verdict of an L3/L4 rule is left as it is.   *)
GiveUp(e, k) ==
  IF e.verdict.final THEN AbandonDpi(e) ELSE Judge7(AbandonDpi(e), k)

(* Fault: only a provisional verdict is revised after classification.      *)
ClassifyProvisional(e, k, meta) ==
  IF e.verdict.final THEN Finalize(e, meta) ELSE Judge7(Finalize(e, meta), k)

Classify(e, k, meta) == Judge7(Finalize(e, meta), k)

InspectTcp(e, k, payload) ==
  LET fed  == AppendDpiPayload(e, payload)
      meta == Recognise(k, fed.buffer) IN
  IF meta # NoMeta THEN Classify(fed, k, meta)
  ELSE IF Len(fed.buffer) >= MaxBuffer THEN GiveUp(fed, k)
  ELSE fed

(* One datagram decides.                                                   *)
InspectUdp(e, k, payload) ==
  LET meta == Recognise(k, payload) IN
  IF meta # NoMeta THEN Classify(e, k, meta) ELSE GiveUp(e, k)

(* Fault: a classified flow is inspected again.                            *)
InspectAlways(e, k, payload) ==
  IF payload = << >> THEN e
  ELSE IF k.proto = "TCP" THEN InspectTcp(e, k, payload) ELSE InspectUdp(e, k, payload)

Inspect(e, k, payload) ==
  IF e.complete \/ payload = << >> THEN e
  ELSE IF k.proto = "TCP" THEN InspectTcp(e, k, payload) ELSE InspectUdp(e, k, payload)

Packets(k) ==
  [dir : Directions, seg : IF k.proto = "TCP" THEN Segs ELSE {NoFlags},
   payload : Payloads, ts : Times]

ProcessPacket(k, p) ==
  LET e == Update(IF table[k] = NoFlow THEN NewEntry(p.ts) ELSE table[k], k, p)
      judged == IF table[k] = NoFlow THEN Judge34(e, k) ELSE e IN
  /\ table' = [table EXCEPT ![k] = Inspect(judged, k, p.payload)]
  /\ UNCHANGED rules

-----------------------------------------------------------------------------
TimeoutForFlow(k, e) ==
  IF k.proto = "UDP" THEN UdpTimeout
  ELSE IF e.tcp.state \in {"SynSent", "SynReceived"} THEN SynTimeout
  ELSE IF TcpIsClosed(e.tcp) THEN ClosedTimeout
  ELSE IF e.tcp.state = "Established" THEN EstablishedTimeout
  ELSE GenericTimeout

Expired(now) ==
  {k \in Tracked : IsExpired(table[k], now, TimeoutForFlow(k, table[k]))}

CleanupExpired(now) ==
  /\ table' = [k \in Keys |-> IF k \in Expired(now) THEN NoFlow ELSE table[k]]
  /\ UNCHANGED rules

Clear ==
  /\ table' = [k \in Keys |-> NoFlow]
  /\ UNCHANGED rules

(* The rule engine swaps in another compiled rule set.                     *)
ReloadRules(rs) ==
  /\ rules' = rs
  /\ UNCHANGED table

Next ==
  \/ \E k \in Keys : \E p \in Packets(k) : ProcessPacket(k, p)
  \/ \E now \in ClockTimes : CleanupExpired(now)
  \/ Clear
  \/ \E rs \in RuleSets : ReloadRules(rs)

Spec == Init /\ [][Next]_vars

-----------------------------------------------------------------------------
(* Properties.                                                             *)

Verdicts == [action : Actions, rule : Nat, final : BOOLEAN]

Entries ==
  [state : {"Active", "Established", "Closing", "Closed"},
   first : Times, last : Times, dirs : (SUBSET Directions) \ {{}}, tcp : Trackers,
   buffer : Seq(Pieces), complete : BOOLEAN, meta : Metas,
   verdict : Verdicts, by : RuleSets]

(* No entry is taken for the absence of one (a null shared_ptr).           *)
ASSUME NoFlowAssumption == NoFlow \notin Entries

(* Type invariant: what each entry of flow_entry.h is made of; no tracked  *)
(* flow is without a packet or still New.                                  *)
TypeOK ==
  /\ DOMAIN table = Keys
  /\ \A k \in Tracked : table[k] \in Entries
  /\ rules \in RuleSets

(* The state of a TCP flow is the account of the flags seen on it, over    *)
(* any number of connections that reuse the five-tuple: Closed after a FIN *)
(* of each side, a teardown state after the FIN of one, Reset only by RST; *)
(* LAST_ACK is never entered.  first_seen never passes last_seen, though   *)
(* packets arrive out of order.                                            *)
FlowCoherent ==
  \A k \in Tracked :
    /\ TcpCoherent(table[k].tcp)
    /\ k.proto = "TCP" => table[k].state = FlowStateOfTcp(table[k].tcp)
    /\ table[k].first <= table[k].last

(* The reassembly buffer lives only while DPI is undecided, stays below    *)
(* its limit, and never holds a prefix that could have been classified     *)
(* already (ARCHITECTURE.md, Stage 4).                                     *)
BufferOnlyWhileUndecided ==
  \A k \in Tracked :
    LET e == table[k] IN
    /\ Len(e.buffer) < MaxBuffer
    /\ e.complete => e.buffer = << >>
    /\ e.meta # NoMeta => e.complete
    /\ Recognise(k, e.buffer) = NoMeta

(* DPI has given up on the flow, and the rule to be tried first of all     *)
(* that match it asks for a protocol the engine does not know.             *)
UnknownIsFirst(rs, k, meta) ==
  /\ meta = NoMeta /\ L7Matches(rs, k, NoMeta) # {}
  /\ rs.rules[First(rs, L7Matches(rs, k, NoMeta))].app = "Unknown"

(* A verdict is the one the rules demand for what is known of the flow:    *)
(* L3/L4 rules alone until DPI is complete, all rules afterwards, first    *)
(* match by priority - although a final L3/L4 verdict is not recomputed    *)
(* when DPI gives up (flow_table.cpp:61-67, 79-82), and rules are reloaded *)
(* between the two evaluations.  Keeping it passes over no rule but one    *)
(* whose app_protocol is misspelt: it is compiled to Unknown, the protocol *)
(* of the flows DPI has given up on, and the rule on addresses that had    *)
(* decided stands although the other comes first.                          *)
VerdictJustified ==
  \A k \in Tracked :
    LET e == table[k] IN
    \/ ~e.complete /\ e.verdict = EvaluateL34(e.by, k)
    \/ e.complete /\ e.verdict = EvaluateL7(e.by, k, e.meta)
    \/ /\ e.complete /\ UnknownIsFirst(e.by, k, e.meta)
       /\ e.verdict.final /\ e.verdict = EvaluateL34(e.by, k)

SameFlow(k) == table[k] # NoFlow /\ table'[k] # NoFlow

(* What DPI decided about a flow stays decided as long as it is in the     *)
(* table, also for later connections of the same five-tuple.               *)
DecidedForGood ==
  [][\A k \in Keys : SameFlow(k) /\ table[k].complete
        => table'[k].complete /\ table'[k].meta = table[k].meta]_vars

(* Under one rule set, a verdict a rule has decided gives way only to a    *)
(* rule that is tried before it: a flow blocked by address is never        *)
(* released by a default or a rule of lower precedence.                    *)
OnlyPrecedenceOverrides ==
  [][\A k \in Keys : SameFlow(k) /\ table[k].verdict.final /\ table[k].by = rules
        /\ table'[k].verdict # table[k].verdict
        => \E i, j \in DOMAIN rules.rules :
             /\ TriedBefore(rules, i, j)
             /\ table[k].verdict = VerdictOf(rules.rules[j])
             /\ table'[k].verdict = VerdictOf(rules.rules[i])]_vars

(* A connection in teardown or terminated comes back to life only by the   *)
(* SYN that reopens a terminated one; a FIN is never forgotten before.     *)
TeardownNotUndone ==
  [][\A k \in Keys : SameFlow(k) =>
        LET t == table[k].tcp
            u == table'[k].tcp IN
        \/ t.fin \subseteq u.fin /\ (TcpInTeardown(t) => TcpInTeardown(u) \/ TcpIsClosed(u))
                                 /\ (TcpIsClosed(t) => TcpIsClosed(u))
        \/ TcpIsClosed(t) /\ u.state \in {"SynSent", "SynReceived", "FinWait", "CloseWait"}]_vars

(* Eviction is by age: no flow is evicted while an older flow with no      *)
(* longer timeout stays, whatever the clock passed to cleanup_expired,     *)
(* which may lie before the last packet of some flows.                     *)
OldestEvictedFirst ==
  [][\A k, j \in Keys :
        /\ table[k] # NoFlow /\ table'[k] = NoFlow
        /\ SameFlow(j)
        /\ TimeoutForFlow(j, table[j]) <= TimeoutForFlow(k, table[k])
        => table[k].last < table[j].last]_vars

(* tcp_state_machine.h:14-16: the tracker is "designed to handle           *)
(* out-of-order packets, [...] retransmissions [...] gracefully".  So a    *)
(* connection whose handshake has been seen in full should not become half *)
(* open again.  Yet a retransmitted or late SYN-ACK puts it back into      *)
(* SynReceived (tcp_state_machine.cpp:75-78), where the state of the flow  *)
(* is Active and the short handshake timeout applies to it.                *)
EstablishedNotHalfOpen ==
  [][\A k \in Keys :
        /\ SameFlow(k)
        /\ table[k].tcp.state = "Established" /\ table[k].tcp.syn = Directions
        => table'[k].tcp.state \notin {"SynSent", "SynReceived"}]_vars
=============================================================================
