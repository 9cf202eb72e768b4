------------------------------ MODULE Materials ------------------------------
(***************************************************************************)
(* Purchasing and stock together: receiving a line of a purchase order is   *)
(* one transaction that settles the line and the order and puts what was    *)
(* accepted into a new lot.                                                *)
(***************************************************************************)
EXTENDS PurchaseOrders, StockLedger

vars == <<orderVars, stockVars>>

TypeOK == OrdersTypeOK /\ StockTypeOK((Orders \X Parts) \cup Lots)

Init == OrdersInit /\ StockInit

\* Mutant of ReceivePurchaseOrderLine: rejected goods go into the lot too.
ReceiveAll(o, p, accepted, rejected) ==
  /\ ReceiveLine(o, p, accepted, rejected)
  /\ \E l \in Lots, where \in Locations :
       ReceiveLot(l, where, <<o, p>>, accepted + rejected)

\* receivePurchaseOrderLine: without accepted goods no lot is made.
ReceivePurchaseOrderLine(o, p, accepted, rejected) ==
  /\ ReceiveLine(o, p, accepted, rejected)
  /\ IF accepted > 0
     THEN \E l \in Lots, where \in Locations :
            ReceiveLot(l, where, <<o, p>>, accepted)
     ELSE UNCHANGED stockVars

Next ==
  \/ OrdersNext /\ UNCHANGED stockVars
  \/ \E o \in Orders, p \in Parts, accepted, rejected \in 0..MaxOnHand :
       ReceivePurchaseOrderLine(o, p, accepted, rejected)
  \/ StockNext /\ UNCHANGED orderVars

Spec == Init /\ [][Next]_vars

-----------------------------------------------------------------------------
\* What the ledger says was received into each lot, and for a line.
Receipts == [l \in Lots |-> ledger[l]["RECEIPT"]]
PostedFor(o, p) == SumFunctionOnSet(Receipts, {l \in Lots : source[l] = <<o, p>>})

(* Goods are booked once and stay accounted for: what the ledger received  *)
(* for a line is what the line says it received, unless updatePurchaseOrder *)
(* replaced the lines after the order had left DRAFT and threw receipts    *)
(* away.                                                                   *)
ReceiptsMatchLines ==
  \A o \in Orders : InTime(o, {"update"}) =>
    \A p \in Parts :
      PostedFor(o, p) = IF p \in DOMAIN poLines[o] THEN poLines[o][p].received ELSE 0

-----------------------------------------------------------------------------
OnHandQuantities == [l \in Lots |-> balance[l].onHand]

\* The stock as a whole.
TotalReceived == SumFunctionOnSet(Receipts, Lots)
TotalOnHand   == SumFunctionOnSet(OnHandQuantities, Lots)
TotalHeld     == SumFunctionOnSet(OpenQuantities, Reservations)
TotalIssued   == SumFunctionOnSet(ConsumedQuantities, Reservations)

Account == INSTANCE StockAccount WITH
  received <- TotalReceived, onHand <- TotalOnHand, held <- TotalHeld, issued <- TotalIssued

(* Taken as a whole, the stock keeps the account of StockAccount: no order  *)
(* of receipts, reservations, releases, issues, corrections and transfers,  *)
(* over any lots, makes or loses stock or issues what was not held.        *)
AccountKept == Account!Spec
=============================================================================
