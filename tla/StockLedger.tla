----------------------------- MODULE StockLedger -----------------------------
(***************************************************************************)
(* Stock lots, their balances, the ledger of movements, reservations of     *)
(* stock and the parts of work orders they are for. Every command is one    *)
(* transaction that locks its rows or guards its updates with a WHERE, so   *)
(* each is a single action. Quantities are whole units.                     *)
(***************************************************************************)
EXTENDS Integers, FiniteSets, Functions

CONSTANTS
  Lots,           \* stock_lots rows ever written                     (bound)
  Reservations,   \* inventory_reservations rows ever written         (bound)
  Locations,
  WorkOrderParts,
  Requested,      \* requested_quantity of every work order part
  MaxOnHand,      \* stock a correction may count up to               (bound)
  MaxCorrections, \* adjustments and cycle counts, counted together   (bound)
  None

ASSUME StockAssumption ==
  /\ IsFiniteSet(Lots) /\ IsFiniteSet(Reservations)
  /\ Requested \in Nat \ {0}
  /\ MaxOnHand \in Nat
  /\ MaxCorrections \in Nat
  /\ None \notin Lots \cup WorkOrderParts

VARIABLES
  lotState, location,
  source,        \* what the metadata of a lot names: the order line it was
                 \* received for or the lot it was transferred from
  balance,       \* the row of inventory_balances of a lot
  ledger,        \* quantity_delta summed by lot and movement_type, which is how
                 \* the ledger is reported
  reservation,
  workOrderPart,
  corrections

lotVars   == <<lotState, location, source>>
stockVars == <<lotVars, balance, ledger, reservation, workOrderPart, corrections>>

MovementTypes ==
  {"RECEIPT", "RESERVATION", "RELEASE", "ISSUE", "ADJUSTMENT", "TRANSFER_OUT",
   "TRANSFER_IN", "CYCLE_COUNT"}
Quantity == 1..MaxOnHand

Balance == [onHand : Int, reserved : Int, consumed : Int]
Reservation ==
  [state : {"ABSENT", "ACTIVE", "PARTIALLY_CONSUMED", "CONSUMED", "RELEASED"},
   lot : Lots \cup {None}, for : WorkOrderParts \cup {None}, reserved : Int, consumed : Int]
WorkOrderPart ==
  [state : {"REQUESTED", "RESERVED", "PARTIALLY_CONSUMED", "CONSUMED"},
   reserved : Int, consumed : Int]

StockTypeOK(Sources) ==
  /\ lotState \in [Lots -> {"ABSENT", "AVAILABLE", "CLOSED"}]
  /\ location \in [Lots -> Locations \cup {None}]
  /\ source \in [Lots -> Sources \cup {None}]
  /\ balance \in [Lots -> Balance]
  /\ ledger \in [Lots -> [MovementTypes -> Int]]
  /\ reservation \in [Reservations -> Reservation]
  /\ workOrderPart \in [WorkOrderParts -> WorkOrderPart]
  /\ corrections \in 0..MaxCorrections

StockInit ==
  /\ lotState = [l \in Lots |-> "ABSENT"]
  /\ location = [l \in Lots |-> None]
  /\ source = [l \in Lots |-> None]
  /\ balance = [l \in Lots |-> [onHand |-> 0, reserved |-> 0, consumed |-> 0]]
  /\ ledger = [l \in Lots |-> [m \in MovementTypes |-> 0]]
  /\ reservation = [r \in Reservations |->
       [state |-> "ABSENT", lot |-> None, for |-> None, reserved |-> 0, consumed |-> 0]]
  /\ workOrderPart =
       [w \in WorkOrderParts |-> [state |-> "REQUESTED", reserved |-> 0, consumed |-> 0]]
  /\ corrections = 0

OpenStates == {"ACTIVE", "PARTIALLY_CONSUMED"}
\* reservationOpenQuantity; allocated_quantity is written by no command.
OpenQuantity(row) == IF row.state \in OpenStates THEN row.reserved - row.consumed ELSE 0

Available(l) == balance[l].onHand - balance[l].reserved

\* appendInventoryLedgerEntry
Post(l, movement, delta) == ledger' = [ledger EXCEPT ![l][movement] = @ + delta]

\* An UPDATE of a balance, by what it adds to each quantity.
Moved(row, onHand, reserved, consumed) ==
  [onHand   |-> row.onHand + onHand,
   reserved |-> row.reserved + reserved,
   consumed |-> row.consumed + consumed]

\* Mutant of NewLot: a new lot has to be inspected first.
QuarantineLot(l, where, from) ==
  /\ lotState[l] = "ABSENT"
  /\ lotState' = [lotState EXCEPT ![l] = "QUARANTINED"]
  /\ location' = [location EXCEPT ![l] = where]
  /\ source' = [source EXCEPT ![l] = from]

NewLot(l, where, from) ==
  /\ lotState[l] = "ABSENT"
  /\ lotState' = [lotState EXCEPT ![l] = "AVAILABLE"]
  /\ location' = [location EXCEPT ![l] = where]
  /\ source' = [source EXCEPT ![l] = from]

-----------------------------------------------------------------------------
\* The stock side of receivePurchaseOrderLine, when something was accepted.
ReceiveLot(l, where, from, quantity) ==
  /\ NewLot(l, where, from)
  /\ balance' = [balance EXCEPT ![l] = Moved(@, quantity, 0, 0)]
  /\ Post(l, "RECEIPT", quantity)
  /\ UNCHANGED <<reservation, workOrderPart, corrections>>

CreateReservation(r, l, w, quantity) ==
  /\ reservation[r].state = "ABSENT"
  /\ lotState[l] = "AVAILABLE"
  /\ Available(l) >= quantity
  /\ reservation' = [reservation EXCEPT ![r] =
       [state |-> "ACTIVE", lot |-> l, for |-> w, reserved |-> quantity, consumed |-> 0]]
  /\ balance' = [balance EXCEPT ![l] = Moved(@, 0, quantity, 0)]
  /\ Post(l, "RESERVATION", quantity)
  /\ workOrderPart' = [p \in WorkOrderParts |->
       IF p = w THEN [state    |-> "RESERVED",
                      reserved |-> workOrderPart[p].reserved + quantity,
                      consumed |-> workOrderPart[p].consumed]
       ELSE workOrderPart[p]]
  /\ UNCHANGED <<lotVars, corrections>>

\* SQL's GREATEST(n, 0)
AtLeastZero(n) == IF n < 0 THEN 0 ELSE n

\* Mutant of PartAfterRelease: a release clears the part.
PartCleared(part, quantity) ==
  [state |-> "REQUESTED", reserved |-> 0, consumed |-> part.consumed]

\* The work order part after a release: REQUESTED as soon as nothing is
\* reserved for it, also when it has consumed all it asked for.
PartAfterRelease(part, quantity) ==
  LET left == AtLeastZero(part.reserved - quantity)
  IN  [state    |-> IF left = 0 THEN "REQUESTED" ELSE part.state,
       reserved |-> left,
       consumed |-> part.consumed]

\* A full release keeps reserved_quantity, a partial one takes from it.
AfterRelease(row, quantity) ==
  LET full == quantity = OpenQuantity(row)
  IN  [state    |-> IF full THEN "RELEASED"
                    ELSE IF row.consumed > 0 THEN "PARTIALLY_CONSUMED" ELSE "ACTIVE",
       lot      |-> row.lot,
       for      |-> row.for,
       reserved |-> IF full THEN row.reserved ELSE row.reserved - quantity,
       consumed |-> row.consumed]

\* Mutant of MayTake: what the reservation has consumed counts as open.
MayTakeReserved(row, quantity) == row.state \in OpenStates /\ quantity <= row.reserved

\* validateActionQuantity
MayTake(row, quantity) == OpenQuantity(row) > 0 /\ quantity <= OpenQuantity(row)

ReleaseReservation(r, l, quantity) ==
  /\ reservation[r].lot = l
  /\ MayTake(reservation[r], quantity)
  /\ balance[l].reserved >= quantity
  /\ reservation' = [reservation EXCEPT ![r] = AfterRelease(@, quantity)]
  /\ balance' = [balance EXCEPT ![l] = Moved(@, 0, -quantity, 0)]
  /\ Post(l, "RELEASE", -quantity)
  /\ workOrderPart' = [p \in WorkOrderParts |->
       IF p = reservation[r].for THEN PartAfterRelease(workOrderPart[p], quantity)
       ELSE workOrderPart[p]]
  /\ UNCHANGED <<lotVars, corrections>>

PartAfterConsume(part, quantity) ==
  [state    |-> IF part.consumed + quantity >= Requested
                THEN "CONSUMED" ELSE "PARTIALLY_CONSUMED",
   reserved |-> AtLeastZero(part.reserved - quantity),
   consumed |-> part.consumed + quantity]

AfterConsume(row, quantity) ==
  [state    |-> IF row.consumed + quantity >= row.reserved
                THEN "CONSUMED" ELSE "PARTIALLY_CONSUMED",
   lot      |-> row.lot,
   for      |-> row.for,
   reserved |-> row.reserved,
   consumed |-> row.consumed + quantity]

ConsumeReservation(r, l, quantity) ==
  /\ reservation[r].lot = l
  /\ MayTake(reservation[r], quantity)
  /\ balance[l].onHand >= quantity
  /\ balance[l].reserved >= quantity
  /\ reservation' = [reservation EXCEPT ![r] = AfterConsume(@, quantity)]
  /\ balance' = [balance EXCEPT ![l] = Moved(@, -quantity, -quantity, quantity)]
  /\ Post(l, "ISSUE", -quantity)
  /\ workOrderPart' = [p \in WorkOrderParts |->
       IF p = reservation[r].for THEN PartAfterConsume(workOrderPart[p], quantity)
       ELSE workOrderPart[p]]
  /\ UNCHANGED <<lotVars, corrections>>

\* Mutant of CreateAdjustment: a closed lot may be adjusted.
AdjustClosed(l, delta) ==
  /\ corrections < MaxCorrections
  /\ lotState[l] # "ABSENT"
  /\ Available(l) + delta >= 0
  /\ balance' = [balance EXCEPT ![l] = Moved(@, delta, 0, 0)]
  /\ Post(l, "ADJUSTMENT", delta)
  /\ corrections' = corrections + 1
  /\ UNCHANGED <<lotVars, reservation, workOrderPart>>

\* Mutant of CreateAdjustment: what is reserved may be adjusted away.
AdjustReserved(l, delta) ==
  /\ corrections < MaxCorrections
  /\ lotState[l] = "AVAILABLE"
  /\ balance[l].onHand + delta >= 0
  /\ balance' = [balance EXCEPT ![l] = Moved(@, delta, 0, 0)]
  /\ Post(l, "ADJUSTMENT", delta)
  /\ corrections' = corrections + 1
  /\ UNCHANGED <<lotVars, reservation, workOrderPart>>

\* A lot whose on-hand quantity an adjustment takes to zero keeps its state.
CreateAdjustment(l, delta) ==
  /\ corrections < MaxCorrections
  /\ lotState[l] = "AVAILABLE"
  /\ balance[l].onHand + delta >= 0
  /\ balance[l].onHand + delta >= balance[l].reserved
  /\ balance' = [balance EXCEPT ![l] = Moved(@, delta, 0, 0)]
  /\ Post(l, "ADJUSTMENT", delta)
  /\ corrections' = corrections + 1
  /\ UNCHANGED <<lotVars, reservation, workOrderPart>>

\* Mutant of CreateTransfer: what is reserved may leave too, and only the
\* destination is posted.
TransferInOnly(l, to, where, quantity) ==
  /\ lotState[l] = "AVAILABLE" /\ lotState[to] = "ABSENT" /\ where # location[l]
  /\ quantity <= balance[l].onHand
  /\ lotState' = [lotState EXCEPT ![to] = "AVAILABLE"]
  /\ location' = [location EXCEPT ![to] = where]
  /\ source' = [source EXCEPT ![to] = l]
  /\ balance' = [balance EXCEPT ![l]  = Moved(@, -quantity, 0, 0),
                                ![to] = Moved(@, quantity, 0, 0)]
  /\ Post(to, "TRANSFER_IN", quantity)
  /\ UNCHANGED <<reservation, workOrderPart, corrections>>

\* The source lot is closed when nothing remains in it.
CreateTransfer(l, to, where, quantity) ==
  /\ lotState[l] = "AVAILABLE" /\ lotState[to] = "ABSENT"
  /\ where # location[l]
  /\ quantity <= Available(l)
  /\ lotState' = [lotState EXCEPT
       ![l]  = IF balance[l].onHand - quantity <= 0 THEN "CLOSED" ELSE @,
       ![to] = "AVAILABLE"]
  /\ location' = [location EXCEPT ![to] = where]
  /\ source' = [source EXCEPT ![to] = l]
  /\ balance' = [balance EXCEPT ![l]  = Moved(@, -quantity, 0, 0),
                                ![to] = Moved(@, quantity, 0, 0)]
  /\ ledger' = [ledger EXCEPT ![l]["TRANSFER_OUT"] = @ - quantity,
                              ![to]["TRANSFER_IN"] = @ + quantity]
  /\ UNCHANGED <<reservation, workOrderPart, corrections>>

\* Mutant of PostCount: the count itself is posted, not the variance.
PostCounted(l, counted) == [ledger[l] EXCEPT !["CYCLE_COUNT"] = @ + counted]

PostCount(l, counted) ==
  [ledger[l] EXCEPT !["CYCLE_COUNT"] = @ + counted - balance[l].onHand]

\* counted gives a quantity for some lots of the place. (A variance above the
\* tolerance may be refused; a refusal changes nothing.)
CreateCycleCount(where, counted) ==
  /\ corrections < MaxCorrections
  /\ \A l \in DOMAIN counted :
       /\ lotState[l] = "AVAILABLE"
       /\ location[l] = where
       /\ counted[l] >= balance[l].reserved
  /\ LET differs == {l \in DOMAIN counted : counted[l] # balance[l].onHand}
     IN  /\ lotState' = [l \in Lots |->
              IF l \in differs /\ counted[l] <= 0 THEN "CLOSED" ELSE lotState[l]]
         /\ balance' = [l \in Lots |-> IF l \in differs
              THEN Moved(balance[l], counted[l] - balance[l].onHand, 0, 0) ELSE balance[l]]
         /\ ledger' = [l \in Lots |->
              IF l \in differs THEN PostCount(l, counted[l]) ELSE ledger[l]]
  /\ corrections' = corrections + 1
  /\ UNCHANGED <<location, source, reservation, workOrderPart>>

StockNext ==
  \/ \E r \in Reservations, l \in Lots, quantity \in Quantity :
       \/ \E w \in WorkOrderParts \cup {None} : CreateReservation(r, l, w, quantity)
       \/ ReleaseReservation(r, l, quantity)
       \/ ConsumeReservation(r, l, quantity)
  \/ \E l \in Lots, counted \in 0..MaxOnHand :
       counted # balance[l].onHand /\ CreateAdjustment(l, counted - balance[l].onHand)
  \/ \E l, to \in Lots, where \in Locations, quantity \in Quantity :
       CreateTransfer(l, to, where, quantity)
  \/ \E where \in Locations, S \in (SUBSET Lots) \ {{}} :
       \E counted \in [S -> 0..MaxOnHand] : CreateCycleCount(where, counted)

-----------------------------------------------------------------------------
(* The ledger explains every balance: what is on hand is the sum of the    *)
(* physical movements of the lot, what is reserved is what was reserved    *)
(* and neither released nor issued.                                        *)
BalanceIsLedger ==
  \A l \in Lots :
    LET posted == ledger[l]
    IN  /\ balance[l].onHand = posted["RECEIPT"] + posted["ISSUE"] + posted["ADJUSTMENT"]
             + posted["TRANSFER_OUT"] + posted["TRANSFER_IN"] + posted["CYCLE_COUNT"]
        /\ balance[l].reserved = posted["RESERVATION"] + posted["RELEASE"] + posted["ISSUE"]
        /\ balance[l].consumed = -posted["ISSUE"]

\* What the reservations still hold, and what they have consumed.
OpenQuantities     == [r \in Reservations |-> OpenQuantity(reservation[r])]
ConsumedQuantities == [r \in Reservations |-> reservation[r].consumed]

(* What the balance of a lot holds back is the open quantity of the        *)
(* reservations on it, and it is there to be consumed: no adjustment,      *)
(* count, transfer or other reservation takes it away.                     *)
ReservationsAreCovered ==
  \A l \in Lots :
    /\ balance[l].reserved =
         SumFunctionOnSet(OpenQuantities, {r \in Reservations : reservation[r].lot = l})
    /\ balance[l].reserved <= balance[l].onHand

(* A work order part holds what its open reservations hold and has         *)
(* consumed what they consumed; GREATEST(..., 0) never has to round.       *)
PartsHoldTheirReservations ==
  \A w \in WorkOrderParts :
    LET for == {r \in Reservations : reservation[r].for = w}
    IN  /\ workOrderPart[w].reserved = SumFunctionOnSet(OpenQuantities, for)
        /\ workOrderPart[w].consumed = SumFunctionOnSet(ConsumedQuantities, for)

(* An open reservation has something left to release or consume: one that  *)
(* had not would answer 409 to both and stay open for good.                *)
OpenReservationsCanSettle ==
  \A r \in Reservations : reservation[r].state \in OpenStates =>
    reservation[r].reserved > reservation[r].consumed

(* A closed lot is empty, and no movement touches it again.                *)
ClosedLotsStayEmpty ==
  [][\A l \in Lots : lotState[l] = "CLOSED" =>
       /\ balance[l].onHand = 0 /\ balance[l].reserved = 0
       /\ lotState'[l] = "CLOSED" /\ balance'[l] = balance[l]
       /\ ledger'[l] = ledger[l]]_stockVars

(* A transfer moves stock, it neither makes nor loses any.                 *)
TransfersBalance ==
  LET net == [l \in Lots |-> ledger[l]["TRANSFER_OUT"] + ledger[l]["TRANSFER_IN"]]
  IN  SumFunctionOnSet(net, Lots) = 0
=============================================================================
