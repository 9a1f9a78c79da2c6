--------------------------- MODULE MCBoundedQueue ---------------------------
(* BoundedQueue with two producers, two consumers and two closers, so that *)
(* a wake-up can reach the wrong waiter and a shutdown can race a shutdown.*)
EXTENDS BoundedQueue, TLC

CONSTANTS p1, p2, c1, c2, k1, k2, a, b

MCProducers == {p1, p2}
MCConsumers == {c1, c2}
MCClosers == {k1, k2}
MCItems == {a, b}
=============================================================================
