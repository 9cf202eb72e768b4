---- MODULE MCEventOutbox ----
(* Instances of EventOutbox for TLC. *)
EXTENDS EventOutbox

CONSTANT w1

\* Every event names the same work order.
MCWorkOrderOf == [e \in Events |-> w1]

Busy == {h \in Handlers : handled[h] # None}

\* Deliveries overlap until the first mishap and are handled one at a time after it. Only
\* finitely many copies are ever delivered, so no fairness condition waits on this for ever.
OverlapBeforeMishaps == mishaps > 0 => Cardinality(Busy) <= 1

BoundedSpec == Init /\ [][Next /\ OverlapBeforeMishaps']_vars /\ Fairness
====
