---------------------------- MODULE MCTelemetry ----------------------------
(* One periodic export and the last one of a capture that gives two        *)
(* workers more flows than a snapshot lists, without a dashboard, or of a  *)
(* capture of one packet with two open pages.                              *)
EXTENDS Telemetry, TLC

CONSTANTS w1, w2

Long == (w1 :> 2) @@ (w2 :> 1)
Short == (w1 :> 1) @@ (w2 :> 0)
MCCaptures == {Long, Short}

MCInit ==
  /\ Init
  /\ \A c \in Clients : pc[c] = "idle" <=> load # Long

MCSpec == MCInit /\ [][Next]_vars /\ Fairness
=============================================================================
