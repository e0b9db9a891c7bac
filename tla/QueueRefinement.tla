--------------------------- MODULE QueueRefinement ---------------------------
(* TaskQueue implements Delivery: where an item is follows from the heap,    *)
(* the lease table and the Acks, and an item in none of them was given up.   *)
EXTENDS TaskQueue

ItemPlace(i) ==
  CASE i \notin Items -> "absent"
    [] i \in ready -> "waiting"
    [] i \in LeasedItems -> "leased"
    [] i \in acked -> "acked"
    [] OTHER -> "dropped"

Abstract == INSTANCE Delivery WITH
  Entries <- 1 .. MaxItems,
  place <- [i \in 1 .. MaxItems |-> ItemPlace(i)],
  deliveries <- [i \in 1 .. MaxItems |->
                   IF i \in Items THEN items[i].attempt ELSE 0]

\* Every step of the queue is one step of one item of Delivery, or none: an
\* item is given back only below WithMaxAttempts, given up only at it, and no
\* Nack, sweep or Redrive moves it in a way that Delivery does not allow.
ImplementsDelivery == Abstract!Spec
==============================================================================
