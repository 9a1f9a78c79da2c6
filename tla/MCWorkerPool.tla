---------------------------- MODULE MCWorkerPool ----------------------------
(* Two clients, two workers with one-slot queues, and a capture of four    *)
(* packets: two of one tracked flow, one of another flow that hashes to    *)
(* the other worker, and one that cannot be routed (malformed).            *)
EXTENDS WorkerPool, TLC

CONSTANTS c1, c2, f1, f2, g1, bad, flowF, flowG

MCClients == {c1, c2}
MCPackets == {f1, f2, g1, bad}
MCKeys == {flowF, flowG}
MCKeyOf == f1 :> flowF @@ f2 :> flowF @@ g1 :> flowG @@ bad :> NoKey
MCHash == flowF :> 7 @@ flowG :> 4
MCTracked == {f1, f2, g1}
=============================================================================
