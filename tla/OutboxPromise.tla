---------------------------- MODULE OutboxPromise ----------------------------
(***************************************************************************)
(* What the transactional outbox promises its writers, whichever publisher *)
(* runs, overlaps or dies: an event reaches the bus only after its row was *)
(* written, a row is called PUBLISHED only after its event reached the     *)
(* bus, a settled row never becomes PENDING again, and every PENDING row   *)
(* is settled in the end.                                                  *)
(***************************************************************************)
CONSTANT Events

VARIABLES
  outcome,   \* the state column of each row, ABSENT before it is written
  announced  \* events that reached the bus at least once

vars == <<outcome, announced>>

Init ==
  /\ outcome = [e \in Events |-> "ABSENT"]
  /\ announced = {}

Become(e, s) == outcome' = [outcome EXCEPT ![e] = s]

Offer(e) ==
  /\ outcome[e] = "ABSENT"
  /\ Become(e, "PENDING")
  /\ UNCHANGED announced

Announce(e) ==
  /\ outcome[e] # "ABSENT"
  /\ announced' = announced \cup {e}
  /\ UNCHANGED outcome

Confirm(e) ==
  /\ outcome[e] # "ABSENT" /\ e \in announced
  /\ Become(e, "PUBLISHED")
  /\ UNCHANGED announced

GiveUp(e) ==
  /\ outcome[e] # "ABSENT"
  /\ Become(e, "FAILED")
  /\ UNCHANGED announced

Next == \E e \in Events : Offer(e) \/ Announce(e) \/ Confirm(e) \/ GiveUp(e)

Settle(e) == outcome[e] = "PENDING" /\ (Confirm(e) \/ GiveUp(e))

Safe == Init /\ [][Next]_vars
Spec == Safe /\ \A e \in Events : WF_vars(Settle(e))
=============================================================================
