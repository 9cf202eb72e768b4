---- MODULE MCMaterials ----
(* Instances of Materials for TLC. *)
EXTENDS Materials, TLC

CONSTANTS p1, p2

\* One line that can be received in two parts, or two lines.
MCAsks == {(p1 :> 2), (p1 :> 1) @@ (p2 :> 1)}

\* Reservations and corrections read and write no order, and commands of orders
\* no stock: TLC looks at one kind at a time beside the receipts, which do both.
OneKindAtATime ==
  \/ \A c \in Clerks : command[c] = Idle
  \/ corrections = 0 /\ \A r \in Reservations : reservation[r].state = "ABSENT"

Symmetry == Permutations(Lots) \cup Permutations(Reservations)
              \cup Permutations(Locations) \cup Permutations(Clerks)
====
