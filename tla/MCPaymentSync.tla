---- MODULE MCPaymentSync ----
(* Instances of PaymentSync for TLC. *)
EXTENDS PaymentSync

CONSTANT q1

\* Every notice reports the same payment.
MCPaymentOf == [n \in Notices |-> q1]
====
