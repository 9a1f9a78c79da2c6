---------------------------- MODULE ClosableFifo ----------------------------
(***************************************************************************)
(* What BoundedQueue promises to the threads that share it, with no mutex, *)
(* condition variable or wait set in sight: a FIFO of at most Capacity     *)
(* items that can be closed once.  A push is pending from its call to its  *)
(* return; it returns TRUE at the moment its item enters the queue, and    *)
(* FALSE only once the queue is closed.  A pop returns TRUE with the       *)
(* oldest item, and FALSE only once the queue is closed and empty.         *)
(*                                                                         *)
(* BoundedQueue is shown to implement this specification, fairness         *)
(* included, and WorkerPool uses its queues through it.                    *)
(***************************************************************************)
EXTENDS Naturals, Sequences

CONSTANTS Producers, Consumers, Items, Capacity, NoItem

VARIABLES
  contents,  \* the queued items, oldest first
  closed,    \* TRUE once shutdown() has taken effect
  offer,     \* offer[p]: the item of p's pending push, or NoItem
  request,   \* request[c]: TRUE while c has a pop pending
  received   \* received[c]: the item c's last successful pop returned

fifoVars == <<contents, closed, offer, request, received>>

FifoInit ==
  /\ contents = << >>
  /\ closed = FALSE
  /\ offer = [p \in Producers |-> NoItem]
  /\ request = [c \in Consumers |-> FALSE]
  /\ received = [c \in Consumers |-> NoItem]

Offer(p, i) ==
  /\ offer[p] = NoItem
  /\ offer' = [offer EXCEPT ![p] = i]
  /\ UNCHANGED <<contents, closed, request, received>>

Accept(p) ==
  /\ offer[p] # NoItem
  /\ ~closed
  /\ Len(contents) < Capacity
  /\ contents' = Append(contents, offer[p])
  /\ offer' = [offer EXCEPT ![p] = NoItem]
  /\ UNCHANGED <<closed, request, received>>

Refuse(p) ==
  /\ offer[p] # NoItem
  /\ closed
  /\ offer' = [offer EXCEPT ![p] = NoItem]
  /\ UNCHANGED <<contents, closed, request, received>>

Request(c) ==
  /\ ~request[c]
  /\ request' = [request EXCEPT ![c] = TRUE]
  /\ UNCHANGED <<contents, closed, offer, received>>

Deliver(c) ==
  /\ request[c]
  /\ contents # << >>
  /\ received' = [received EXCEPT ![c] = Head(contents)]
  /\ contents' = Tail(contents)
  /\ request' = [request EXCEPT ![c] = FALSE]
  /\ UNCHANGED <<closed, offer>>

Finish(c) ==
  /\ request[c]
  /\ closed
  /\ contents = << >>
  /\ request' = [request EXCEPT ![c] = FALSE]
  /\ UNCHANGED <<contents, closed, offer, received>>

Close ==
  /\ closed' = TRUE
  /\ UNCHANGED <<contents, offer, request, received>>

FifoNext ==
  \/ \E p \in Producers : (\E i \in Items : Offer(p, i)) \/ Accept(p) \/ Refuse(p)
  \/ \E c \in Consumers : Request(c) \/ Deliver(c) \/ Finish(c)
  \/ Close

(* No particular caller is promised the next slot or the next item (the    *)
(* mutex is not fair), but some caller gets it; after the close every      *)
(* pending call returns.                                                   *)
FifoFairness ==
  /\ WF_fifoVars(\E p \in Producers : Accept(p))
  /\ WF_fifoVars(\E c \in Consumers : Deliver(c))
  /\ \A p \in Producers : WF_fifoVars(Refuse(p))
  /\ \A c \in Consumers : WF_fifoVars(Finish(c))

FifoSafety == FifoInit /\ [][FifoNext]_fifoVars

FifoSpec == FifoSafety /\ FifoFairness
=============================================================================
