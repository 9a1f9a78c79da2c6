----------------------------- MODULE AlertRing -----------------------------
(***************************************************************************)
(* BoundedAlertBuffer (include/dpi/threat/bounded_alert_buffer.h): a ring  *)
(* that keeps the newest alerts and counts the ones it has overwritten.    *)
(***************************************************************************)
EXTENDS Integers

CONSTANTS
  RingCapacity,    \* max_alert_buffer_capacity
  NoAlert          \* a slot never written

ASSUME RingAssumption == RingCapacity \in Nat \ {0}

NewRing == [slots |-> [i \in 0 .. RingCapacity - 1 |-> NoAlert],
            head |-> 0, tail |-> 0, size |-> 0, dropped |-> 0]

(* A bug: an overwriting push leaves the oldest alert's place where it was.*)
PushOver(r, alert) ==
  IF r.size < RingCapacity
  THEN [r EXCEPT !.slots[r.head] = alert,
                 !.head = (@ + 1) % RingCapacity, !.size = @ + 1]
  ELSE [r EXCEPT !.slots[r.head] = alert,
                 !.head = (@ + 1) % RingCapacity, !.dropped = @ + 1]

Push(r, alert) ==
  LET next == (r.tail + 1) % RingCapacity IN
  IF r.size < RingCapacity
  THEN [r EXCEPT !.slots[r.head] = alert,
                 !.head = (@ + 1) % RingCapacity, !.size = @ + 1]
  ELSE [r EXCEPT !.slots[r.tail] = alert, !.tail = next, !.head = next,
                 !.dropped = @ + 1]

(* get_snapshot: from the oldest kept to the newest.                       *)
Snapshot(r) ==
  [i \in 1 .. r.size |-> r.slots[(r.tail + i - 1) % RingCapacity]]
=============================================================================
