------------------------------ MODULE Trackers ------------------------------
(***************************************************************************)
(* The per-source tables of the threat detectors: PortScanDetector         *)
(* (src/threat/port_scan_detector.cpp) and SynFloodDetector                *)
(* (src/threat/syn_flood_detector.cpp), as functions from the detector's   *)
(* state before a packet to the possible states after it.                  *)
(*                                                                         *)
(* A table is a function from the tracked sources to their trackers.  The  *)
(* times are those of the records, in any order and 0 included; a start of *)
(* 0 says that no window is open, so that a window opened at time 0 is     *)
(* opened again by the next packet.  packet is the record of its fields    *)
(* used here: src, dst (addresses), sport, dport, proto and the set of TCP *)
(* flags.                                                                  *)
(***************************************************************************)
EXTENDS Integers, FiniteSets, Functions

CONSTANTS
  MaxTracked,            \* max_tracked_sources, of either detector
  ScanWindow,            \* PortScanConfig::window_us
  PortThreshold,         \* vertical_port_threshold
  HostThreshold,         \* horizontal_host_threshold
  SynWindow,             \* SynFloodConfig::window_us
  HalfOpenTimeout,       \* half_open_timeout_us
  HalfOpenThreshold,     \* half_open_threshold
  SynThreshold           \* syn_rate_threshold

ASSUME TrackersAssumption ==
  /\ {MaxTracked, PortThreshold, HostThreshold, HalfOpenThreshold, SynThreshold}
       \subseteq Nat \ {0}
  /\ {ScanWindow, SynWindow, HalfOpenTimeout} \subseteq Nat

Without(table, s) == Restrict(table, DOMAIN table \ {s})
With(table, s, t) == [r \in DOMAIN table \cup {s} |-> IF r = s THEN t ELSE table[r]]
Entry(table, s, fresh) == IF s \in DOMAIN table THEN table[s] ELSE fresh

(* enforce_capacity_limits: a full table loses one of the sources not seen *)
(* for longest, which of them the order of the hash table decides.  It is  *)
(* called before the source of the packet is looked up.                    *)
Oldest(table) ==
  {s \in DOMAIN table : \A r \in DOMAIN table : table[s].seen <= table[r].seen}

(* A bug: one source more is let in.                                       *)
RoomMadeLate(table) ==
  IF Cardinality(DOMAIN table) <= MaxTracked THEN {table}
  ELSE {Without(table, s) : s \in Oldest(table)}

RoomMade(table) ==
  IF Cardinality(DOMAIN table) < MaxTracked THEN {table}
  ELSE {Without(table, s) : s \in Oldest(table)}

(* The tables without the sources not seen for the given time.  The code   *)
(* compares before it subtracts, which the integers here make needless.    *)
Fresher(table, now, age) ==
  Restrict(table, {s \in DOMAIN table : now - table[s].seen <= age})

(* The first packet later than a window length opens a new window.         *)
WindowOver(t, now, length) == t.start = 0 \/ now - t.start > length

-----------------------------------------------------------------------------
(* PortScanDetector.  hits are the <<host, port>> pairs probed in the      *)
(* window: host_to_ports of a vertical tracker, port_to_hosts of a         *)
(* horizontal one.                                                         *)

NewScan == [start |-> 0, seen |-> 0, hits |-> {}, alerted |-> FALSE]

(* A bug: a new window keeps the hits of the old one.                      *)
ProbedOnAndOn(t, p, now) ==
  LET u == IF WindowOver(t, now, ScanWindow)
           THEN [t EXCEPT !.start = now, !.alerted = FALSE] ELSE t
  IN  [u EXCEPT !.seen = now, !.hits = @ \cup {<<p.dst, p.dport>>}]

(* A bug: a new window does not begin with the packet that opens it.       *)
ProbedFromThen(t, p, now) ==
  LET u == IF WindowOver(t, now, ScanWindow)
           THEN [NewScan EXCEPT !.start = IF t.start = 0 THEN now ELSE t.start]
           ELSE t
  IN  [u EXCEPT !.seen = now, !.hits = @ \cup {<<p.dst, p.dport>>}]

Probed(t, p, now) ==
  LET u == IF WindowOver(t, now, ScanWindow)
           THEN [NewScan EXCEPT !.start = now] ELSE t
  IN  [u EXCEPT !.seen = now, !.hits = @ \cup {<<p.dst, p.dport>>}]

Ports(t, host) == {h \in t.hits : h[1] = host}
Hosts(t, port) == {h \in t.hits : h[2] = port}

VerticalScan(t, p) ==
  ~ t.alerted /\ Cardinality(Ports(t, p.dst)) >= PortThreshold
HorizontalScan(t, p) ==
  ~ t.alerted /\ Cardinality(Hosts(t, p.dport)) >= HostThreshold

(* check_packet: a vertical alert returns before the horizontal tracker    *)
(* has seen the packet.                                                    *)
ScanChecked(vertical, horizontal, p, now) ==
  LET v(table) == Probed(Entry(table, p.src, NewScan), p, now)
      h(table) == Probed(Entry(table, p.src, NewScan), p, now)
      Done(vt, v1, ht, alerts) ==
        [vertical |-> With(vt, p.src, v1), horizontal |-> ht, alerts |-> alerts] IN
  IF p.dport = 0
  THEN {[vertical |-> vertical, horizontal |-> horizontal, alerts |-> {}]}
  ELSE {IF VerticalScan(v(vt), p)
        THEN Done(vt, [v(vt) EXCEPT !.alerted = TRUE], ht, {"VerticalScan"})
        ELSE IF HorizontalScan(h(ht), p)
        THEN Done(vt, v(vt), With(ht, p.src, [h(ht) EXCEPT !.alerted = TRUE]),
                  {"HorizontalScan"})
        ELSE Done(vt, v(vt), With(ht, p.src, h(ht)), {}) :
          vt \in RoomMade(vertical), ht \in RoomMade(horizontal)}

-----------------------------------------------------------------------------
(* SynFloodDetector.  half maps the connections of a source that were not  *)
(* answered, HalfOpenKeys, to the time of their last SYN.                  *)

NewSource == [start |-> 0, seen |-> 0, attempts |-> 0, completed |-> 0,
              half |-> << >>, alerted |-> FALSE]

Connection(dst, sport, dport) == <<dst, sport, dport>>

(* A connection of source s was answered or torn down.                     *)
Answered(table, s, c) ==
  IF s \in DOMAIN table /\ c \in DOMAIN table[s].half
  THEN [table EXCEPT ![s].half = Without(@, c), ![s].completed = @ + 1]
  ELSE table

(* ACK, RST and FIN count for the connection in either direction.          *)
AfterAnswer(table, p) ==
  IF p.flags \cap {"ACK", "RST", "FIN"} = {} THEN table
  ELSE Answered(Answered(table, p.dst, Connection(p.src, p.dport, p.sport)),
                p.src, Connection(p.dst, p.sport, p.dport))

Unexpired(half, now) ==
  Restrict(half, {c \in DOMAIN half : now - half[c] <= HalfOpenTimeout})

(* A new window keeps the half-open connections.                           *)
Attempted(t, p, now) ==
  LET u == IF WindowOver(t, now, SynWindow)
           THEN [NewSource EXCEPT !.start = now, !.half = t.half] ELSE t
      c == Connection(p.dst, p.sport, p.dport)
  IN  [u EXCEPT !.seen = now, !.attempts = @ + 1,
                !.half = Unexpired(With(@, c, now), now)]

Flood(t) ==
  /\ ~ t.alerted
  /\ \/ Cardinality(DOMAIN t.half) >= HalfOpenThreshold
     \/ t.attempts >= SynThreshold /\ t.completed = 0

SynChecked(sources, p, now) ==
  LET answered == AfterAnswer(sources, p)
      t(table) == Attempted(Entry(table, p.src, NewSource), p, now)
      alert(table) == Flood(t(table)) IN
  IF p.proto # "TCP" \/ "SYN" \notin p.flags \/ "ACK" \in p.flags
  THEN {[sources |-> IF p.proto = "TCP" THEN answered ELSE sources, alerts |-> {}]}
  ELSE {[sources |-> With(table, p.src, [t(table) EXCEPT !.alerted = @ \/ alert(table)]),
         alerts |-> IF alert(table) THEN {"SynFlood"} ELSE {}] :
          table \in RoomMade(answered)}

-----------------------------------------------------------------------------
(* cleanup_expired of the two.                                             *)

ScansCleaned(table, now) == Fresher(table, now, 2 * ScanWindow)

SourcesCleaned(sources, now) ==
  LET kept == Fresher(sources, now, 2 * HalfOpenTimeout) IN
  [s \in DOMAIN kept |-> [kept[s] EXCEPT !.half = Unexpired(@, now)]]
=============================================================================
