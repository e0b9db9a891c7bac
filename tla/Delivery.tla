------------------------------ MODULE Delivery -------------------------------
(***************************************************************************)
(* What the queue of pkg/taskqueue promises of each item it accepts, with   *)
(* no word of heaps, leases, deadlines, the reaper or dead letters: the     *)
(* item waits, is handed out one delivery at a time, and after each is      *)
(* settled for good or waits again, until it has been delivered MaxAttempts *)
(* times.                                                                   *)
(***************************************************************************)
EXTENDS Naturals

CONSTANTS
  Entries,     \* the items
  MaxAttempts  \* deliveries an item may have

VARIABLES
  place,      \* where each item is
  deliveries  \* how often it was delivered

vars == <<place, deliveries>>

Init ==
  /\ place = [i \in Entries |-> "absent"]
  /\ deliveries = [i \in Entries |-> 0]

Move(i, from, to) ==
  /\ place[i] = from
  /\ place' = [place EXCEPT ![i] = to]

Accept(i) == Move(i, "absent", "waiting") /\ UNCHANGED deliveries

Deliver(i) ==
  /\ Move(i, "waiting", "leased")
  /\ deliveries[i] < MaxAttempts
  /\ deliveries' = [deliveries EXCEPT ![i] = @ + 1]

GiveBack(i) ==
  /\ Move(i, "leased", "waiting")
  /\ deliveries[i] < MaxAttempts
  /\ UNCHANGED deliveries

Acknowledge(i) == Move(i, "leased", "acked") /\ UNCHANGED deliveries

GiveUp(i) ==
  /\ Move(i, "leased", "dropped")
  /\ deliveries[i] = MaxAttempts
  /\ UNCHANGED deliveries

Next ==
  \E i \in Entries :
    \/ Accept(i) \/ Deliver(i) \/ GiveBack(i) \/ Acknowledge(i) \/ GiveUp(i)

Spec == Init /\ [][Next]_vars
==============================================================================
