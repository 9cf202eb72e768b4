---------------------------- MODULE StockAccount ----------------------------
(***************************************************************************)
(* What purchasing and stock together promise of the stock as a whole,     *)
(* whatever lots it lies in and whichever reservations hold it: stock comes *)
(* in by receipts and goes out by issues, only what is held can be issued,  *)
(* no more is held than is on hand, and besides receipts and issues only    *)
(* corrections change how much there is. To move stock between lots is no   *)
(* step of the account.                                                    *)
(***************************************************************************)
EXTENDS Integers

VARIABLES
  received,    \* ever accepted from vendors
  onHand,
  held,        \* for reservations that are still open
  issued,      \* ever consumed
  corrections  \* adjustments and cycle counts so far

vars == <<received, onHand, held, issued, corrections>>

Init == received = 0 /\ onHand = 0 /\ held = 0 /\ issued = 0 /\ corrections = 0

Receive ==
  /\ received' > received
  /\ onHand' = onHand + (received' - received)
  /\ UNCHANGED <<held, issued, corrections>>

Hold ==
  /\ held' > held /\ held' <= onHand
  /\ UNCHANGED <<received, onHand, issued, corrections>>

Release ==
  /\ 0 <= held' /\ held' < held
  /\ UNCHANGED <<received, onHand, issued, corrections>>

Issue ==
  /\ issued' > issued
  /\ held' = held - (issued' - issued) /\ 0 <= held'
  /\ onHand' = onHand - (issued' - issued)
  /\ UNCHANGED <<received, corrections>>

Correct ==
  /\ corrections' = corrections + 1
  /\ onHand' >= held
  /\ UNCHANGED <<received, held, issued>>

Next == Receive \/ Hold \/ Release \/ Issue \/ Correct

Spec == Init /\ [][Next]_vars
=============================================================================
