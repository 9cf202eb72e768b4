---------------------------- MODULE MCInvoiceSync ----------------------------
(* Instances of InvoiceSync for TLC: one work order with a customer row of its *)
(* own, the other ones billed to the walk-in customer.                         *)
EXTENDS InvoiceSync, TLC

CONSTANTS w1, w2, c1

MCCustomerOf == [w \in WorkOrders |-> IF w = w1 THEN c1 ELSE None]

Running == {p \in Procs : pc[p] # "idle" \/ todo[p] # {}}

\* Invocations overlap on one row; beside a second row of the work order they run one
\* after the other.
OverlapOnOneRow == Cardinality(Running) >= 2 => Cardinality(Stored) <= 1

Symmetry == Permutations(Records) \cup Permutations(QbInvoiceIds)
              \cup Permutations(Procs)
=============================================================================
