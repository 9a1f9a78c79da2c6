---------------------------- MODULE RiskProfiles ----------------------------
(***************************************************************************)
(* Scoring of flows and hosts: FlowBehavioralProfiler, BeaconingDetector,  *)
(* ExfiltrationDetector, RiskScorer and HostRiskProfiler (src/risk), as    *)
(* functions of the state before a packet.                                 *)
(*                                                                         *)
(* Welford's mean and variance of the inter-arrival times are kept as the  *)
(* number of intervals, their sum and the sum of their squares, which is   *)
(* the same without rounding; ratios are compared by multiplying out.      *)
(***************************************************************************)
EXTENDS Integers, Sequences, SequencesExt, FiniteSets, FiniteSetsExt, Functions

CONSTANTS
  MinIntervals, MinInterval, MaxInterval,   \* BeaconingConfig
  JitterPercent,                            \* 100 * max_jitter_ratio
  MinForward, MinByteRatio,                 \* ExfiltrationConfig
  UnclassifiedBytes, BurstPackets,          \* the scorer's 5000 and 10
  MaxHosts                                  \* max_host_profiles

ASSUME RiskAssumption == MaxHosts \in Nat \ {0}

-----------------------------------------------------------------------------
(* BehavioralMetrics of a flow.                                            *)

NewMetrics ==
  [fwd |-> 0, rev |-> 0, fwdBytes |-> 0, revBytes |-> 0, large |-> 0,
   last |-> 0, intervals |-> 0, sum |-> 0, squares |-> 0]

(* update_metrics with the payload size of a packet in either direction.   *)
Counted(m, size, forward) ==
  LET n == [m EXCEPT !.large = @ + IF size > 1024 THEN 1 ELSE 0] IN
  IF forward THEN [n EXCEPT !.fwd = @ + 1, !.fwdBytes = @ + size]
             ELSE [n EXCEPT !.rev = @ + 1, !.revBytes = @ + size]

Timed(m, now) ==
  LET delta == now - m.last IN
  IF m.last = 0 \/ delta < 0 THEN [m EXCEPT !.last = now]
  ELSE [m EXCEPT !.last = now, !.intervals = @ + 1, !.sum = @ + delta,
                 !.squares = @ + delta * delta]

Updated(m, size, forward, now) == Timed(Counted(m, size, forward), now)

(* The mean interval is in range and the deviation small beside it.        *)
IsBeaconing(m) ==
  LET n == m.intervals
      spread == n * m.squares - m.sum * m.sum IN      \* n (n - 1) variance
  /\ n >= MinIntervals
  /\ MinInterval * n <= m.sum /\ m.sum <= MaxInterval * n
  /\ \/ n = 1 \/ m.sum = 0
     \/ 10000 * n * spread <= JitterPercent * JitterPercent * m.sum * m.sum * (n - 1)

IsExfiltration(m) ==
  /\ m.fwdBytes >= MinForward
  /\ m.fwdBytes >= MinByteRatio * Max({1, m.revBytes})

-----------------------------------------------------------------------------
(* RiskScorer::calculate_score with the default weights.                   *)

SeverityWeight == [Critical |-> 50, High |-> 35, Medium |-> 20, Low |-> 10,
                   Info |-> 10]
PolicyWeight == [Allow |-> 0, Log |-> 0, Block |-> 40, Alert |-> 25]

Burst(m) ==
  m.fwd >= BurstPackets /\ m.rev = 0 /\ m.large > (m.fwd * 8) \div 10

(* severities lists the alerts that this one packet raised.                *)
RawScore(m, classified, policy, severities, dport) ==
  LET If(test, weight) == IF test THEN weight ELSE 0
      weights == [i \in DOMAIN severities |-> SeverityWeight[severities[i]]] IN
  MapThenSumSet(LAMBDA i : weights[i], DOMAIN severities)
  + PolicyWeight[policy]
  + If(IsBeaconing(m), 35) + If(IsExfiltration(m), 30)
  + If(~ classified /\ dport >= 1024 /\ m.fwdBytes > UnclassifiedBytes, 15)
  + If(Burst(m), 10)

Score(m, classified, policy, severities, dport) ==
  Min({100, RawScore(m, classified, policy, severities, dport)})

-----------------------------------------------------------------------------
(* HostRiskProfiler: profiles by address, and lru_list_ with the address   *)
(* touched last in front.                                                  *)

NewProfile == [evaluations |-> 0, sum |-> 0, max |-> 0, high |-> 0,
               beaconing |-> FALSE, exfiltration |-> FALSE]

Rated(profile, score, m) ==
  [evaluations |-> profile.evaluations + 1,       \* total_flows
   sum |-> profile.sum + score,
   max |-> Max({profile.max, score}),
   high |-> profile.high + IF score >= 60 THEN 1 ELSE 0,
   beaconing |-> profile.beaconing \/ IsBeaconing(m),
   exfiltration |-> profile.exfiltration \/ IsExfiltration(m)]

(* A bug: a known host is not moved to the front of the list.              *)
HostUpdatedInPlace(hosts, ip, score, m) ==
  LET known == ip \in DOMAIN hosts.map
      full == ~ known /\ Len(hosts.lru) >= MaxHosts
      kept == IF full THEN Front(hosts.lru) ELSE hosts.lru
      old == IF known THEN hosts.map[ip] ELSE NewProfile
      lru == IF known THEN kept ELSE <<ip>> \o kept
  IN  [lru |-> lru,
       map |-> [i \in ToSet(lru) |->
                  IF i = ip THEN Rated(old, score, m) ELSE hosts.map[i]]]

HostUpdated(hosts, ip, score, m) ==
  LET known == ip \in DOMAIN hosts.map
      full == ~ known /\ Len(hosts.lru) >= MaxHosts
      place == CHOOSE i \in DOMAIN hosts.lru : hosts.lru[i] = ip
      kept == IF known THEN RemoveAt(hosts.lru, place)
              ELSE IF full THEN Front(hosts.lru) ELSE hosts.lru
      old == IF known THEN hosts.map[ip] ELSE NewProfile
      lru == <<ip>> \o kept
  IN  [lru |-> lru,
       map |-> [i \in ToSet(lru) |->
                  IF i = ip THEN Rated(old, score, m) ELSE hosts.map[i]]]

NoHosts == [lru |-> << >>, map |-> << >>]
=============================================================================
