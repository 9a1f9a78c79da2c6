------------------------------ MODULE Analysis ------------------------------
(***************************************************************************)
(* What a worker thread does with a packet after the flow table has it     *)
(* (WorkerThread::run, src/pipeline/worker_thread.cpp:81-98): the threat   *)
(* engine inspects it, its alerts go to the worker's ring, and the risk    *)
(* engine rates the flow and its two hosts.  All of it is local to the     *)
(* worker, so a packet is one step.                                        *)
(*                                                                         *)
(* log, raised and updates record what happened, for the properties; no    *)
(* action reads them but for the bound on the number of packets and the    *)
(* number of the next alert.                                               *)
(***************************************************************************)
EXTENDS Trackers, RiskProfiles, ContentChecks, AlertRing

CONSTANTS
  Packets,         \* what the worker may be handed
  Times,           \* the times of records, which no code sorts or checks
  CleanupEvery,    \* the 1024 packets between two cleanups
  MaxPackets       \* bound of the model

ASSUME AnalysisAssumption ==
  /\ Times \subseteq Nat /\ CleanupEvery \in Nat \ {0} /\ MaxPackets \in Nat
  /\ \A p \in Packets : p.policy \in DOMAIN PolicyWeight

VARIABLES
  vertical, horizontal,    \* PortScanDetector
  sources,                 \* SynFloodDetector
  sinceCleanup,            \* packets_since_cleanup_
  ring,                    \* alert_buffer_; alert ids count from 1
  flows,                   \* metrics and risk score of each flow
  hosts,                   \* HostRiskProfiler
  log, raised, updates     \* packets, alerts and host ratings so far

threat == <<vertical, horizontal, sources, sinceCleanup>>
vars == <<threat, ring, flows, hosts, log, raised, updates>>

F == INSTANCE Frames

FlowKey(p) == F!Create([ip |-> p.src, port |-> p.sport],
                       [ip |-> p.dst, port |-> p.dport], p.proto).key

Init ==
  /\ vertical = << >> /\ horizontal = << >> /\ sources = << >>
  /\ sinceCleanup = 0
  /\ ring = NewRing
  /\ flows = << >>
  /\ hosts = NoHosts
  /\ log = << >> /\ raised = << >> /\ updates = << >>

Severity(kind) == IF kind = "SynFlood" THEN "Critical" ELSE "High"

(* The alerts of one packet, in the order of the four inspections.         *)
Alert(kind, severity) == IF severity = "None" THEN << >>
                         ELSE <<[kind |-> kind, severity |-> severity]>>

AlertsOf(p, stateful) ==
  [i \in DOMAIN stateful |->
     [kind |-> stateful[i], severity |-> Severity(stateful[i])]]
  \o Alert("Dns", IF p.app = "DNS" THEN DnsAnomaly(p.name) ELSE "None")
  \o Alert("Signature", SignatureMatch(p.text))

(* The outcomes of ThreatEngine::inspect_packet, with the cleanup that is  *)
(* due every so many packets before the detectors see the packet.          *)
CleanupDue == sinceCleanup + 1 >= CleanupEvery

ScanOutcomes(p, now) ==
  IF CleanupDue
  THEN ScanChecked(ScansCleaned(vertical, now), ScansCleaned(horizontal, now), p, now)
  ELSE ScanChecked(vertical, horizontal, p, now)

SynOutcomes(p, now) ==
  SynChecked(IF CleanupDue THEN SourcesCleaned(sources, now) ELSE sources, p, now)

(* RiskEngine::evaluate_flow.                                              *)
Evaluate(p, now, alerts) ==
  LET key == FlowKey(p)
      old == IF key \in DOMAIN flows THEN flows[key].metrics ELSE NewMetrics
      m == Updated(old, p.size, p.src = key.src.ip, now)
      score == Score(m, p.app # "Unknown", p.policy,
                     [i \in DOMAIN alerts |-> alerts[i].severity], p.dport) IN
  /\ flows' = With(flows, key, [metrics |-> m, score |-> score])
  /\ hosts' = HostUpdated(HostUpdated(hosts, key.src.ip, score, m),
                          key.dst.ip, score, m)
  /\ updates' = updates \o <<[ip |-> key.src.ip, score |-> score],
                             [ip |-> key.dst.ip, score |-> score]>>

Packet(p, now) ==
  \E scan \in ScanOutcomes(p, now), syn \in SynOutcomes(p, now) :
    LET alerts == AlertsOf(p, SetToSeq(scan.alerts) \o SetToSeq(syn.alerts))
        new == [i \in DOMAIN alerts |->
                  [id |-> Len(raised) + i, kind |-> alerts[i].kind,
                   src |-> p.src, dst |-> p.dst, by |-> Len(log) + 1]] IN
    /\ vertical' = scan.vertical
    /\ horizontal' = scan.horizontal
    /\ sources' = syn.sources
    /\ sinceCleanup' = IF CleanupDue THEN 0 ELSE sinceCleanup + 1
    /\ ring' = FoldLeft(Push, ring, new)
    /\ raised' = raised \o new
    /\ Evaluate(p, now, alerts)
    /\ log' = Append(log, [p |-> p, at |-> now])

Next == /\ Len(log) < MaxPackets
        /\ \E p \in Packets, now \in Times : Packet(p, now)

Spec == Init /\ [][Next]_vars

-----------------------------------------------------------------------------

Addresses == UNION {{p.src, p.dst} : p \in Packets}

(* No table outgrows its limit however many sources and hosts there are:   *)
(* the three detector tables, the ring, the host profiles and their list   *)
(* (the "hard memory cap" of threat_config.h:16, :27 and the LRU bound of  *)
(* host_risk_profiler.cpp:47).                                             *)
StateBounded ==
  /\ \A table \in {vertical, horizontal, sources} :
       DOMAIN table \subseteq Addresses /\ Cardinality(DOMAIN table) <= MaxTracked
  /\ ring.size \in 0 .. RingCapacity
  /\ {ring.head, ring.tail} \subseteq 0 .. RingCapacity - 1
  /\ Len(hosts.lru) <= MaxHosts
  /\ DOMAIN hosts.map = ToSet(hosts.lru)
  /\ \A key \in DOMAIN flows : flows[key].score \in 0 .. 100

(* An alert accuses a source of what it did: a window that one of its own  *)
(* packets opened holds probes of as many ports of the host, or of as many *)
(* hosts on the port, or as many SYNs; or as many of its recent            *)
(* connections had got no answer at the alert, whatever was evicted,       *)
(* expired or answered in between.  A window ends its length after the     *)
(* packet that opened it; a record that comes late counts where it comes.  *)
LastPacket == Last(log).p
Clock == Last(log).at
From(src) == {i \in DOMAIN log : log[i].p.src = src}
Probes(src) == {i \in From(src) : log[i].p.dport # 0}
Within(age) == {i \in DOMAIN log : Clock - log[i].at <= age}
InWindow(S, i, length) == {k \in S : k >= i /\ log[k].at - log[i].at <= length}

IsSyn(p) == p.proto = "TCP" /\ "SYN" \in p.flags /\ "ACK" \notin p.flags
Answers(q, p) ==
  /\ q.proto = "TCP" /\ q.flags \cap {"ACK", "RST", "FIN"} # {}
  /\ <<q.src, q.sport, q.dst, q.dport>> \in
       {<<p.src, p.sport, p.dst, p.dport>>, <<p.dst, p.dport, p.src, p.sport>>}
Unanswered(i) ==
  IsSyn(log[i].p) /\ \A j \in i + 1 .. Len(log) : ~ Answers(log[j].p, log[i].p)

PortsAmong(S, dst) == {log[i].p.dport : i \in {j \in S : log[j].p.dst = dst}}
HostsAmong(S, dport) == {log[i].p.dst : i \in {j \in S : log[j].p.dport = dport}}
ConnectionsAmong(S) == {<<log[i].p.dst, log[i].p.sport, log[i].p.dport>> : i \in S}

Justified(alert) ==
  LET sent == From(alert.src)
      probes == Probes(alert.src) IN
  CASE alert.kind = "VerticalScan" ->
         \E i \in probes :
           Cardinality(PortsAmong(InWindow(probes, i, ScanWindow), alert.dst))
             >= PortThreshold
    [] alert.kind = "HorizontalScan" ->
         \E i \in probes :
           Cardinality(HostsAmong(InWindow(probes, i, ScanWindow), LastPacket.dport))
             >= HostThreshold
    [] alert.kind = "SynFlood" ->
         \/ Cardinality(ConnectionsAmong({j \in sent \cap Within(HalfOpenTimeout) :
                                            Unanswered(j)}))
              >= HalfOpenThreshold
         \/ \E i \in sent :
              Cardinality({j \in InWindow(sent, i, SynWindow) : IsSyn(log[j].p)})
                >= SynThreshold
    [] OTHER -> TRUE

AlertsJustified ==
  \A i \in DOMAIN raised : raised[i].by = Len(log) => Justified(raised[i])

(* A scan is not lost between two windows.  The windows follow each other  *)
(* instead of sliding with the packets, so as many ports as the threshold  *)
(* may go unreported when they fall into two of them; but not one short of *)
(* twice as many, probed from packet i on within one window length from    *)
(* time t, in any order.  That is as long as                               *)
(*   - t is not 0, the time that says no window is open: at time 0 every   *)
(*     packet opens the window again, and no scan is ever seen;            *)
(*   - no packet of any source is so much later that a cleanup forgets the *)
(*     tracker;                                                            *)
(*   - fewer sources than are tracked were heard of since t, for otherwise *)
(*     the tracker may have been evicted.                                  *)
(* It is then reported by an alert for the source raised in this window or *)
(* one that reaches into it.                                               *)
OneWindow(s, j, i) ==
  \A k \in Probes(s) \cap (j .. i) : log[k].at <= log[j].at + ScanWindow
Reported(s, i) ==
  \E r \in DOMAIN raised :
    /\ raised[r].kind = "VerticalScan" /\ raised[r].src = s
    /\ \E j \in Probes(s) : j <= raised[r].by /\ OneWindow(s, j, i)

SourcesSince(t) == {log[k].p.src : k \in {j \in DOMAIN log : log[j].at >= t}}
Unbroken(s, i, t) ==
  /\ \A k \in Probes(s) \cap (i .. Len(log)) : log[k].at \in t .. t + ScanWindow
  /\ \A k \in i .. Len(log) : log[k].at <= t + 2 * ScanWindow
  /\ Cardinality(SourcesSince(t)) < MaxTracked

ScansReported ==
  \A s, d \in Addresses, t \in Times \ {0} : \A i \in Probes(s) :
    /\ Unbroken(s, i, t)
    /\ Cardinality(PortsAmong(Probes(s) \cap (i .. Len(log)), d)) >= 2 * PortThreshold - 1
    => Reported(s, i)

(* The ring holds the newest alerts in the order they were raised, and the *)
(* number it has dropped is the number of those that are gone              *)
(* (bounded_alert_buffer.h:23-46).                                         *)
RingKeepsNewest ==
  /\ ring.dropped = Len(raised) - ring.size
  /\ ring.size = Min({RingCapacity, Len(raised)})
  /\ Snapshot(ring) = SubSeq(raised, ring.dropped + 1, Len(raised))

(* The profiles kept are those of the hosts rated last, in that order, and *)
(* each of them sums up all ratings of its host since it was last let in   *)
(* (host_risk_profiler.cpp:18-66).  u is a list of ratings.                *)
LastRating(u, ip, k) == Max({0} \cup {i \in 1 .. k : u[i].ip = ip})
RatedHosts(u, k) == {u[i].ip : i \in 1 .. k}
RatedLately(u, ip, k) ==
  LET last == LastRating(u, ip, k) IN
  Cardinality({x \in RatedHosts(u, k) : LastRating(u, x, k) > last}) < MaxHosts
Kept(u, k) == {ip \in RatedHosts(u, k) : RatedLately(u, ip, k)}

RatingsOf(u, ip) ==
  {i \in DOMAIN u : u[i].ip = ip /\ \A k \in i .. Len(u) : RatedLately(u, ip, k)}

SumsUp(profile, u, ratings) ==
  LET score == [i \in DOMAIN u |-> u[i].score] IN
  /\ profile.evaluations = Cardinality(ratings)
  /\ profile.max = Max({score[i] : i \in ratings})
  /\ profile.sum = MapThenSumSet(LAMBDA i : score[i], ratings)

HostProfilesExact ==
  LET n == Len(updates) IN
  /\ ToSet(hosts.lru) = Kept(updates, n)
  /\ \A i, j \in DOMAIN hosts.lru :
       i < j => LastRating(updates, hosts.lru[i], n) > LastRating(updates, hosts.lru[j], n)
  /\ \A ip \in DOMAIN hosts.map :
       SumsUp(hosts.map[ip], updates, RatingsOf(updates, ip))
=============================================================================
