----------------------------- MODULE TcpTracker -----------------------------
(***************************************************************************)
(* dpi::TcpStateMachine (src/flow/tcp_state_machine.cpp): the observational*)
(* TCP state of one flow.  A tracker is a record                           *)
(*   [state, syn, fin, rst]                                                *)
(* where syn and fin are the directions a SYN, a FIN has been seen in (the *)
(* four syn_seen_ and fin_seen_ flags) and rst is rst_seen_.               *)
(***************************************************************************)

Directions == {"Forward", "Reverse"}

TcpStates == {"New", "SynSent", "SynReceived", "Established", "FinWait",
              "CloseWait", "Closing", "LastAck", "Closed", "Reset"}

Trackers == [state : TcpStates, syn : SUBSET Directions, fin : SUBSET Directions,
             rst : BOOLEAN]

(* The flags the tracker looks at.                                         *)
Segments == [syn : BOOLEAN, ack : BOOLEAN, fin : BOOLEAN, rst : BOOLEAN]

NoFlags == [syn |-> FALSE, ack |-> FALSE, fin |-> FALSE, rst |-> FALSE]

TcpNew == [state |-> "New", syn |-> {}, fin |-> {}, rst |-> FALSE]

TcpIsClosed(t) == t.state \in {"Closed", "Reset"}

TcpInTeardown(t) == t.state \in {"FinWait", "CloseWait", "Closing", "LastAck"}

(* Faults the runs must notice: any FIN closes; teardown takes an ACK for  *)
(* that of a handshake.                                                    *)
OneFinCloses(t, dir) == [t EXCEPT !.fin = @ \cup {dir}, !.state = "Closed"]

AckRevives(t, seg, dir) == [t EXCEPT !.state = IF seg.ack THEN "Established" ELSE @]

SeeFin(t, dir) ==
  LET fin == t.fin \cup {dir} IN
  [t EXCEPT !.fin = fin,
            !.state = IF fin = Directions THEN "Closed"
                      ELSE IF dir = "Forward" THEN "FinWait" ELSE "CloseWait"]

SeeInTeardown(t, seg, dir) ==
  [t EXCEPT !.state =
     IF t.fin = Directions THEN "Closed"
     ELSE IF seg.ack /\ \/ t.state = "FinWait" /\ dir = "Reverse"
                        \/ t.state = "CloseWait" /\ dir = "Forward"
          THEN "Closing"
     ELSE @]

SeeSyn(t, seg, dir) ==
  [t EXCEPT !.syn = @ \cup {dir},
            !.state = IF seg.ack THEN "SynReceived"
                      ELSE IF @ = "New" THEN "SynSent" ELSE @]

(* An ACK or a segment with payload; "New" is a mid-stream pickup.         *)
SeeData(t) ==
  [t EXCEPT !.state = IF @ \in {"New", "SynSent", "SynReceived"} THEN "Established" ELSE @]

(* process_packet(tcp, dir, payload_len)                                   *)
TcpProcess(tracker, seg, dir, hasPayload) ==
  LET t == IF TcpIsClosed(tracker) /\ seg.syn THEN TcpNew ELSE tracker IN
  IF seg.rst               THEN [tracker EXCEPT !.rst = TRUE, !.state = "Reset"]
  ELSE IF TcpIsClosed(t)   THEN t
  ELSE IF seg.fin          THEN SeeFin(t, dir)
  ELSE IF TcpInTeardown(t) THEN SeeInTeardown(t, seg, dir)
  ELSE IF seg.syn          THEN SeeSyn(t, seg, dir)
  ELSE IF seg.ack \/ hasPayload THEN SeeData(t)
  ELSE t

(* What a tracker's state says about the flags it has seen.                *)
TcpCoherent(t) ==
  /\ t.state = "Reset" <=> t.rst
  /\ ~t.rst => (t.state = "Closed" <=> t.fin = Directions)
  /\ ~t.rst => (TcpInTeardown(t) <=> \E d \in Directions : t.fin = {d})
  /\ t.state = "FinWait" => t.fin = {"Forward"}
  /\ t.state = "CloseWait" => t.fin = {"Reverse"}
  /\ t.state \in {"SynSent", "SynReceived"} => t.syn # {}
  /\ t.state = "New" => t.syn = {}
  /\ t.state # "LastAck"
=============================================================================
