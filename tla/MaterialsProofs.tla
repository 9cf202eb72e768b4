--------------------------- MODULE MaterialsProofs ---------------------------
(***************************************************************************)
(* Purchase orders and stock keep their books for any number of orders,     *)
(* lots, reservations and overlapping commands: what a balance, a part of a *)
(* work order, a transfer and a line of an order say adds up, and the       *)
(* states of orders and lines say what was received.                        *)
(***************************************************************************)
EXTENDS Materials, Sums

Sources == (Orders \X Parts) \cup Lots

(* A receipt adds to the quantities of a line and to nothing else of it.    *)
LEMMA ReceivedLine ==
  ASSUME NEW line \in Line, NEW accepted \in Nat, NEW rejected \in Nat
  PROVE  LET next == Received(line, accepted, rejected)
         IN  /\ next \in Line
             /\ next.ordered = line.ordered
             /\ next.received = line.received + accepted
             /\ next.rejected = line.rejected + rejected
             /\ next.state = IF Complete(next) THEN "RECEIVED" ELSE "PARTIALLY_RECEIVED"
  BY DEF Received, Line, LineStates, Complete, Settled

(* What the database holds is well-typed whatever command comes next.      *)
LEMMA TypeInductive == TypeOK /\ [Next]_vars => TypeOK'
<1> SUFFICES ASSUME TypeOK, [Next]_vars PROVE TypeOK'
    OBVIOUS
<1> USE OrdersAssumption, StockAssumption
<1>1. ASSUME NEW o \in Orders, CreateOrder(o)
      PROVE  OrdersTypeOK'
  <2>1. PICK lines \in NewLines : poLines' = [poLines EXCEPT ![o] = lines]
    BY <1>1 DEF CreateOrder
  <2>2. DOMAIN lines \subseteq Parts /\ lines \in [DOMAIN lines -> Line]
    BY <2>1 DEF NewLines, Line, LineStates
  <2> QED
    BY <1>1, <2>1, <2>2 DEF CreateOrder, TypeOK, OrdersTypeOK, OrderStates
<1>2. ASSUME NEW o \in Orders, NEW c \in Clerks, NEW action \in Actions,
             Check(c, o, action)
      PROVE  OrdersTypeOK'
  BY <1>2 DEF Check, TypeOK, OrdersTypeOK, Commands
<1>3. ASSUME NEW o \in Orders, NEW c \in Clerks, NEW action \in Actions,
             Write(c, o, action)
      PROVE  OrdersTypeOK'
  <2>1. PICK lines \in LinesAfter(o, action) : poLines' = [poLines EXCEPT ![o] = lines]
    BY <1>3 DEF Write
  <2>2. DOMAIN lines \subseteq Parts /\ lines \in [DOMAIN lines -> Line]
    BY <2>1 DEF LinesAfter, SetLineStates, NewLines, Line, LineStates, Actions,
                TypeOK, OrdersTypeOK
  <2>3. StateAfter(o, action) \in OrderStates
    BY DEF StateAfter, OrderStates, Actions, TypeOK, OrdersTypeOK
  <2> QED
    BY <1>3, <2>1, <2>2, <2>3 DEF Write, TypeOK, OrdersTypeOK, Commands
<1>4. ASSUME NEW o \in Orders, NEW p \in Parts, NEW accepted \in Nat, NEW rejected \in Nat,
             ReceiveLine(o, p, accepted, rejected)
      PROVE  OrdersTypeOK'
  <2> DEFINE lines == [poLines[o] EXCEPT ![p] = Received(@, accepted, rejected)]
  <2>1. poLines[o][p] \in Line /\ p \in DOMAIN poLines[o]
    BY <1>4 DEF ReceiveLine, TypeOK, OrdersTypeOK
  <2>2. Received(poLines[o][p], accepted, rejected) \in Line
    BY <2>1, ReceivedLine
  <2>3. DOMAIN lines \subseteq Parts /\ lines \in [DOMAIN lines -> Line]
    BY <2>1, <2>2 DEF TypeOK, OrdersTypeOK
  <2>4. RolledUp(lines) \in OrderStates
    BY DEF RolledUp, OrderStates
  <2>5. /\ poLines' = [poLines EXCEPT ![o] = lines]
        /\ poState' = [poState EXCEPT ![o] = RolledUp(lines)]
        /\ UNCHANGED <<command, late>>
    BY <1>4 DEF ReceiveLine
  <2> HIDE DEF lines
  <2> QED
    BY <2>3, <2>4, <2>5 DEF TypeOK, OrdersTypeOK
<1>5. ASSUME UNCHANGED orderVars PROVE OrdersTypeOK'
  BY <1>5 DEF orderVars, TypeOK, OrdersTypeOK
<1> USE DEF StockTypeOK, Balance, Reservation, WorkOrderPart, MovementTypes, Moved, Post
<1>6. ASSUME NEW l \in Lots, NEW where \in Locations, NEW from \in Sources,
             NEW quantity \in Int, ReceiveLot(l, where, from, quantity)
      PROVE  StockTypeOK(Sources)'
  BY <1>6 DEF ReceiveLot, NewLot, TypeOK, Sources
<1>7. ASSUME NEW r \in Reservations, NEW l \in Lots, NEW quantity \in Quantity,
             NEW w \in WorkOrderParts \cup {None}, CreateReservation(r, l, w, quantity)
      PROVE  StockTypeOK(Sources)'
  BY <1>7 DEF CreateReservation, TypeOK, Sources, lotVars, Quantity
<1>8. ASSUME NEW r \in Reservations, NEW l \in Lots, NEW quantity \in Quantity,
             ReleaseReservation(r, l, quantity)
      PROVE  StockTypeOK(Sources)'
  BY <1>8 DEF ReleaseReservation, TypeOK, Sources, lotVars, Quantity, AfterRelease,
              PartAfterRelease, AtLeastZero
<1>9. ASSUME NEW r \in Reservations, NEW l \in Lots, NEW quantity \in Quantity,
             ConsumeReservation(r, l, quantity)
      PROVE  StockTypeOK(Sources)'
  BY <1>9 DEF ConsumeReservation, TypeOK, Sources, lotVars, Quantity, AfterConsume,
              PartAfterConsume, AtLeastZero
<1>10. ASSUME NEW l \in Lots, NEW delta \in Int, CreateAdjustment(l, delta)
      PROVE  StockTypeOK(Sources)'
  BY <1>10 DEF CreateAdjustment, TypeOK, Sources, lotVars
<1>11. ASSUME NEW l \in Lots, NEW to \in Lots, NEW where \in Locations,
              NEW quantity \in Quantity, CreateTransfer(l, to, where, quantity)
      PROVE  StockTypeOK(Sources)'
  <2>0. quantity \in Int /\ l # to
    BY <1>11 DEF CreateTransfer, Quantity
  <2>1. ledger' \in [Lots -> [MovementTypes -> Int]]
    <3> DEFINE out == [ledger EXCEPT ![l]["TRANSFER_OUT"] = @ - quantity]
    <3>1. out \in [Lots -> [MovementTypes -> Int]]
      BY <2>0 DEF TypeOK
    <3>2. [out EXCEPT ![to]["TRANSFER_IN"] = @ + quantity] \in [Lots -> [MovementTypes -> Int]]
      BY <2>0, <3>1
    <3> QED
      BY <1>11, <3>2 DEF CreateTransfer
  <2>2. balance' \in [Lots -> Balance]
    <3>1. /\ Moved(balance[l], -quantity, 0, 0) \in Balance
          /\ Moved(balance[to], quantity, 0, 0) \in Balance
      BY <2>0 DEF TypeOK
    <3> QED
      BY <1>11, <2>0, <3>1 DEF CreateTransfer, TypeOK
  <2> QED
    BY <1>11, <2>1, <2>2 DEF CreateTransfer, TypeOK, Sources
<1>12. ASSUME NEW where \in Locations, NEW S \in SUBSET Lots,
              NEW counted \in [S -> 0..MaxOnHand], CreateCycleCount(where, counted)
      PROVE  StockTypeOK(Sources)'
  BY <1>12 DEF CreateCycleCount, PostCount, TypeOK, Sources
<1>13. ASSUME UNCHANGED stockVars PROVE StockTypeOK(Sources)'
  BY <1>13 DEF stockVars, lotVars, TypeOK, Sources
<1>14. CASE OrdersNext /\ UNCHANGED stockVars
  BY <1>14, <1>1, <1>2, <1>3, <1>13 DEF OrdersNext, TypeOK, Sources
<1>15. CASE StockNext /\ UNCHANGED orderVars
  <2>1. StockTypeOK(Sources)'
    <3>1. ASSUME NEW l \in Lots, NEW counted \in 0..MaxOnHand
          PROVE  counted - balance[l].onHand \in Int
      BY DEF TypeOK, Sources
    <3> QED
      BY <1>15, <3>1, <1>7, <1>8, <1>9, <1>10, <1>11, <1>12 DEF StockNext
  <2> QED
    BY <1>15, <2>1, <1>5 DEF TypeOK, Sources
<1>16. ASSUME NEW o \in Orders, NEW p \in Parts, NEW accepted \in 0..MaxOnHand,
              NEW rejected \in 0..MaxOnHand,
              ReceivePurchaseOrderLine(o, p, accepted, rejected)
       PROVE  TypeOK'
  <2>1. accepted \in Nat /\ rejected \in Nat
    OBVIOUS
  <2>2. OrdersTypeOK'
    BY <1>16, <2>1, <1>4 DEF ReceivePurchaseOrderLine
  <2>3. <<o, p>> \in Sources
    BY DEF Sources
  <2>4. StockTypeOK(Sources)'
    BY <1>16, <2>1, <2>3, <1>6, <1>13 DEF ReceivePurchaseOrderLine
  <2> QED
    BY <2>2, <2>4 DEF TypeOK, Sources
<1>17. CASE UNCHANGED vars
  BY <1>17, <1>5, <1>13 DEF vars, TypeOK, Sources
<1> QED
  BY <1>14, <1>15, <1>16, <1>17 DEF Next

(* The tables of purchasing and stock keep their types.                    *)
THEOREM TypeCorrect == Spec => []TypeOK
<1>1. Init => TypeOK
  <2> SUFFICES ASSUME Init PROVE TypeOK
      OBVIOUS
  <2>1. OrdersTypeOK
    BY DEF Init, OrdersInit, OrdersTypeOK, OrderStates
  <2>2. StockTypeOK(Sources)
    BY StockAssumption DEF Init, StockInit, StockTypeOK, Balance, Reservation, WorkOrderPart,
                           MovementTypes
  <2> QED
    BY <2>1, <2>2 DEF TypeOK, Sources
<1> QED
  BY <1>1, TypeInductive, PTL DEF Spec

-----------------------------------------------------------------------------
(* Every command that moves stock posts what it adds to the balance.       *)
LEMMA BooksInductive == TypeOK /\ BalanceIsLedger /\ [Next]_vars => BalanceIsLedger'
<1> SUFFICES ASSUME TypeOK, BalanceIsLedger, [Next]_vars PROVE BalanceIsLedger'
    OBVIOUS
<1> USE DEF BalanceIsLedger, StockTypeOK, Balance, MovementTypes, Moved, Post
<1>1. ASSUME NEW l \in Lots, NEW where \in Locations, NEW from \in Sources,
             NEW quantity \in Int, ReceiveLot(l, where, from, quantity)
      PROVE  BalanceIsLedger'
  BY <1>1 DEF ReceiveLot, TypeOK
<1>2. ASSUME NEW r \in Reservations, NEW l \in Lots, NEW quantity \in Quantity,
             NEW w \in WorkOrderParts \cup {None}, CreateReservation(r, l, w, quantity)
      PROVE  BalanceIsLedger'
  BY <1>2 DEF CreateReservation, TypeOK, Quantity
<1>3. ASSUME NEW r \in Reservations, NEW l \in Lots, NEW quantity \in Quantity,
             ReleaseReservation(r, l, quantity)
      PROVE  BalanceIsLedger'
  BY <1>3 DEF ReleaseReservation, TypeOK, Quantity
<1>4. ASSUME NEW r \in Reservations, NEW l \in Lots, NEW quantity \in Quantity,
             ConsumeReservation(r, l, quantity)
      PROVE  BalanceIsLedger'
  BY <1>4 DEF ConsumeReservation, TypeOK, Quantity
<1>5. ASSUME NEW l \in Lots, NEW delta \in Int, CreateAdjustment(l, delta)
      PROVE  BalanceIsLedger'
  BY <1>5 DEF CreateAdjustment, TypeOK
<1>6. ASSUME NEW l \in Lots, NEW to \in Lots, NEW where \in Locations,
             NEW quantity \in Quantity, CreateTransfer(l, to, where, quantity)
      PROVE  BalanceIsLedger'
  <2>0. quantity \in Int /\ l # to
    BY <1>6 DEF CreateTransfer, Quantity
  <2> DEFINE out == [ledger[l] EXCEPT !["TRANSFER_OUT"] = @ - quantity]
             in  == [ledger[to] EXCEPT !["TRANSFER_IN"] = @ + quantity]
  <2>1. /\ ledger'[l] = out /\ ledger'[to] = in
        /\ \A x \in Lots \ {l, to} : ledger'[x] = ledger[x]
    <3> DEFINE mid == [ledger EXCEPT ![l]["TRANSFER_OUT"] = @ - quantity]
    <3>1. ledger' = [mid EXCEPT ![to]["TRANSFER_IN"] = @ + quantity]
      BY <1>6 DEF CreateTransfer
    <3>2. /\ mid \in [Lots -> [MovementTypes -> Int]]
          /\ mid[l] = out
          /\ \A x \in Lots \ {l} : mid[x] = ledger[x]
      BY <2>0 DEF TypeOK
    <3> QED
      BY <2>0, <3>1, <3>2
  <2>2. /\ balance'[l] = Moved(balance[l], -quantity, 0, 0)
        /\ balance'[to] = Moved(balance[to], quantity, 0, 0)
        /\ \A x \in Lots \ {l, to} : balance'[x] = balance[x]
    BY <1>6, <2>0 DEF CreateTransfer, TypeOK
  <2>3. \A m \in MovementTypes :
          /\ out[m] = IF m = "TRANSFER_OUT" THEN ledger[l][m] - quantity ELSE ledger[l][m]
          /\ in[m] = IF m = "TRANSFER_IN" THEN ledger[to][m] + quantity ELSE ledger[to][m]
    BY <2>0 DEF TypeOK
  <2>4. SUFFICES ASSUME NEW x \in Lots
        PROVE /\ balance'[x].onHand = ledger'[x]["RECEIPT"] + ledger'[x]["ISSUE"]
                   + ledger'[x]["ADJUSTMENT"] + ledger'[x]["TRANSFER_OUT"]
                   + ledger'[x]["TRANSFER_IN"] + ledger'[x]["CYCLE_COUNT"]
              /\ balance'[x].reserved = ledger'[x]["RESERVATION"] + ledger'[x]["RELEASE"]
                   + ledger'[x]["ISSUE"]
              /\ balance'[x].consumed = -ledger'[x]["ISSUE"]
    OBVIOUS
  <2>5. CASE x = l
    <3> HIDE DEF out, in
    <3> QED BY <2>0, <2>1, <2>2, <2>3, <2>5 DEF TypeOK
  <2>6. CASE x = to
    <3> HIDE DEF out, in
    <3> QED BY <2>0, <2>1, <2>2, <2>3, <2>6 DEF TypeOK
  <2> QED
    BY <2>1, <2>2, <2>5, <2>6
<1>7. ASSUME NEW where \in Locations, NEW S \in SUBSET Lots,
             NEW counted \in [S -> 0..MaxOnHand], CreateCycleCount(where, counted)
      PROVE  BalanceIsLedger'
  BY <1>7, StockAssumption DEF CreateCycleCount, PostCount, TypeOK
<1>8. CASE UNCHANGED stockVars
  BY <1>8 DEF stockVars
<1>9. ASSUME StockNext PROVE BalanceIsLedger'
  <2>1. ASSUME NEW l \in Lots, NEW counted \in 0..MaxOnHand
        PROVE  counted - balance[l].onHand \in Int
    BY DEF TypeOK
  <2> QED
    BY <1>9, <2>1, <1>2, <1>3, <1>4, <1>5, <1>6, <1>7 DEF StockNext
<1>10. ASSUME NEW o \in Orders, NEW p \in Parts, NEW accepted \in 0..MaxOnHand,
              NEW rejected \in 0..MaxOnHand,
              ReceivePurchaseOrderLine(o, p, accepted, rejected)
       PROVE  BalanceIsLedger'
  <2>1. accepted \in Int /\ <<o, p>> \in Sources
    BY DEF Sources
  <2> QED
    BY <1>10, <2>1, <1>1, <1>8 DEF ReceivePurchaseOrderLine
<1> QED
  BY <1>8, <1>9, <1>10 DEF Next, vars

(* What is on hand, reserved and consumed of a lot can be recomputed from  *)
(* the ledger after any sequence of commands.                              *)
THEOREM BalancesAreExplained == Spec => []BalanceIsLedger
<1>1. Init => BalanceIsLedger
  BY DEF Init, StockInit, BalanceIsLedger, MovementTypes
<1> QED
  BY <1>1, TypeCorrect, BooksInductive, PTL DEF Spec

-----------------------------------------------------------------------------
\* A lot holds no less than is reserved of it; closed and unused rows are empty.
LotSound(l) ==
  /\ 0 <= balance[l].reserved
  /\ balance[l].reserved <= balance[l].onHand
  /\ lotState[l] # "AVAILABLE" => balance[l].onHand = 0

LotsSound == \A l \in Lots : LotSound(l)

(* Corrections and transfers stop at what is reserved, and a lot closes    *)
(* only when it is empty.                                                  *)
LEMMA LotsInductive ==
  TypeOK /\ LotsSound /\ [Next]_vars =>
    /\ LotsSound'
    /\ \A l \in Lots : lotState[l] = "CLOSED" =>
         lotState'[l] = "CLOSED" /\ balance'[l] = balance[l] /\ ledger'[l] = ledger[l]
<1> DEFINE Kept == \A l \in Lots : lotState[l] = "CLOSED" =>
              lotState'[l] = "CLOSED" /\ balance'[l] = balance[l] /\ ledger'[l] = ledger[l]
<1> SUFFICES ASSUME TypeOK, LotsSound, [Next]_vars PROVE LotsSound' /\ Kept
    OBVIOUS
<1> USE DEF LotsSound, LotSound, StockTypeOK, Balance, Moved, Post, Available
<1>1. ASSUME NEW l \in Lots, NEW where \in Locations, NEW from \in Sources,
             NEW quantity \in Nat, ReceiveLot(l, where, from, quantity)
      PROVE  LotsSound' /\ Kept
  BY <1>1 DEF ReceiveLot, NewLot, TypeOK
<1>2. ASSUME NEW r \in Reservations, NEW l \in Lots, NEW quantity \in Quantity,
             NEW w \in WorkOrderParts \cup {None}, CreateReservation(r, l, w, quantity)
      PROVE  LotsSound' /\ Kept
  BY <1>2 DEF CreateReservation, TypeOK, Quantity, lotVars
<1>3. ASSUME NEW r \in Reservations, NEW l \in Lots, NEW quantity \in Quantity,
             ReleaseReservation(r, l, quantity)
      PROVE  LotsSound' /\ Kept
  BY <1>3 DEF ReleaseReservation, TypeOK, Quantity, lotVars
<1>4. ASSUME NEW r \in Reservations, NEW l \in Lots, NEW quantity \in Quantity,
             ConsumeReservation(r, l, quantity)
      PROVE  LotsSound' /\ Kept
  BY <1>4 DEF ConsumeReservation, TypeOK, Quantity, lotVars
<1>5. ASSUME NEW l \in Lots, NEW delta \in Int, CreateAdjustment(l, delta)
      PROVE  LotsSound' /\ Kept
  BY <1>5 DEF CreateAdjustment, TypeOK, lotVars
<1>6. ASSUME NEW l \in Lots, NEW to \in Lots, NEW where \in Locations,
             NEW quantity \in Quantity, CreateTransfer(l, to, where, quantity)
      PROVE  LotsSound' /\ Kept
  <2>0. quantity \in Nat /\ l # to
    BY <1>6 DEF CreateTransfer, Quantity
  <2>1. /\ balance'[l] = Moved(balance[l], -quantity, 0, 0)
        /\ balance'[to] = Moved(balance[to], quantity, 0, 0)
        /\ \A x \in Lots \ {l, to} : balance'[x] = balance[x]
    BY <1>6, <2>0 DEF CreateTransfer, TypeOK
  <2>2. /\ lotState'[l] = IF balance[l].onHand - quantity <= 0 THEN "CLOSED" ELSE lotState[l]
        /\ lotState'[to] = "AVAILABLE"
        /\ \A x \in Lots \ {l, to} : lotState'[x] = lotState[x]
    BY <1>6, <2>0 DEF CreateTransfer, TypeOK
  <2>3. \A x \in Lots \ {l, to} : ledger'[x] = ledger[x]
    BY <1>6 DEF CreateTransfer, TypeOK
  <2>4. lotState[l] = "AVAILABLE" /\ lotState[to] = "ABSENT"
        /\ quantity <= balance[l].onHand - balance[l].reserved
    BY <1>6 DEF CreateTransfer
  <2>5. balance[l] \in Balance /\ balance[to] \in Balance
    BY DEF TypeOK
  <2>6. LotSound(l)'
    BY <2>0, <2>1, <2>2, <2>4, <2>5
  <2>7. LotSound(to)'
    BY <2>0, <2>1, <2>2, <2>4, <2>5
  <2>8. \A x \in Lots \ {l, to} : LotSound(x)'
    BY <2>1, <2>2
  <2>9. Kept
    BY <2>1, <2>2, <2>3, <2>4
  <2> QED
    BY <2>6, <2>7, <2>8, <2>9
<1>7. ASSUME NEW where \in Locations, NEW S \in SUBSET Lots,
             NEW counted \in [S -> 0..MaxOnHand], CreateCycleCount(where, counted)
      PROVE  LotsSound' /\ Kept
  BY <1>7, StockAssumption DEF CreateCycleCount, TypeOK
<1>8. ASSUME UNCHANGED stockVars PROVE LotsSound' /\ Kept
  BY <1>8 DEF stockVars, lotVars
<1>9. ASSUME StockNext PROVE LotsSound' /\ Kept
  <2>1. ASSUME NEW l \in Lots, NEW counted \in 0..MaxOnHand
        PROVE  counted - balance[l].onHand \in Int
    BY DEF TypeOK
  <2> HIDE DEF Kept
  <2> QED
    BY <1>9, <2>1, <1>2, <1>3, <1>4, <1>5, <1>6, <1>7 DEF StockNext
<1>10. ASSUME NEW o \in Orders, NEW p \in Parts, NEW accepted \in 0..MaxOnHand,
              NEW rejected \in 0..MaxOnHand,
              ReceivePurchaseOrderLine(o, p, accepted, rejected)
       PROVE  LotsSound' /\ Kept
  <2>1. accepted \in Nat /\ <<o, p>> \in Sources
    BY DEF Sources
  <2> HIDE DEF Kept
  <2> QED
    BY <1>10, <2>1, <1>1, <1>8 DEF ReceivePurchaseOrderLine
<1> HIDE DEF Kept
<1> QED
  BY <1>8, <1>9, <1>10 DEF Next, vars

(* A closed lot is empty and nothing moves on it again, whatever commands  *)
(* arrive for it or for a reservation that was on it.                      *)
THEOREM ClosedIsFinal == Spec => ClosedLotsStayEmpty
<1>1. Init => LotsSound
  BY DEF Init, StockInit, LotsSound, LotSound
<1>2. TypeOK /\ LotsSound /\ [Next]_vars =>
        [\A l \in Lots : lotState[l] = "CLOSED" =>
           /\ balance[l].onHand = 0 /\ balance[l].reserved = 0
           /\ lotState'[l] = "CLOSED" /\ balance'[l] = balance[l]
           /\ ledger'[l] = ledger[l]]_stockVars
  <2> SUFFICES ASSUME TypeOK, LotsSound, [Next]_vars, NEW l \in Lots, lotState[l] = "CLOSED"
      PROVE  /\ balance[l].onHand = 0 /\ balance[l].reserved = 0
             /\ lotState'[l] = "CLOSED" /\ balance'[l] = balance[l]
             /\ ledger'[l] = ledger[l]
      OBVIOUS
  <2>1. balance[l].onHand = 0 /\ balance[l].reserved = 0
    BY DEF LotsSound, LotSound, TypeOK, StockTypeOK, Balance
  <2> QED
    BY <2>1, LotsInductive
<1> QED
  BY <1>1, <1>2, TypeCorrect, LotsInductive, PTL DEF Spec, ClosedLotsStayEmpty
-----------------------------------------------------------------------------
(* What a release or a consumption leaves open has something left.         *)
LEMMA LeftOpen ==
  ASSUME NEW row \in Reservation, NEW quantity \in Quantity, MayTake(row, quantity)
  PROVE  /\ AfterRelease(row, quantity).state \in OpenStates =>
              AfterRelease(row, quantity).reserved > AfterRelease(row, quantity).consumed
         /\ AfterConsume(row, quantity).state \in OpenStates =>
              AfterConsume(row, quantity).reserved > AfterConsume(row, quantity).consumed
<1> USE DEF Reservation, Quantity
<1>0. quantity \in Int /\ row.reserved \in Int /\ row.consumed \in Int
  OBVIOUS
<1>1. row.state \in OpenStates /\ quantity <= row.reserved - row.consumed
  BY DEF MayTake, OpenQuantity
<1>2. OpenQuantity(row) = row.reserved - row.consumed
  BY <1>1 DEF OpenQuantity
<1>3. CASE quantity = row.reserved - row.consumed
  BY <1>0, <1>2, <1>3 DEF AfterRelease, AfterConsume, OpenStates
<1>4. CASE quantity # row.reserved - row.consumed
  BY <1>0, <1>1, <1>2, <1>4 DEF AfterRelease, AfterConsume, OpenStates
<1> QED
  BY <1>3, <1>4

LEMMA SettleInductive ==
  TypeOK /\ OpenReservationsCanSettle /\ [Next]_vars => OpenReservationsCanSettle'
<1> SUFFICES ASSUME TypeOK, OpenReservationsCanSettle, [Next]_vars
             PROVE  OpenReservationsCanSettle'
    OBVIOUS
<1>0. reservation \in [Reservations -> Reservation]
  BY DEF TypeOK, StockTypeOK
<1> USE DEF OpenReservationsCanSettle
<1>1. ASSUME NEW r \in Reservations, NEW l \in Lots, NEW quantity \in Quantity,
             NEW w \in WorkOrderParts \cup {None}, CreateReservation(r, l, w, quantity)
      PROVE  OpenReservationsCanSettle'
  BY <1>0, <1>1 DEF CreateReservation, Quantity
<1>2. ASSUME NEW r \in Reservations, NEW l \in Lots, NEW quantity \in Quantity,
             ReleaseReservation(r, l, quantity)
      PROVE  OpenReservationsCanSettle'
  BY <1>0, <1>2, LeftOpen DEF ReleaseReservation
<1>3. ASSUME NEW r \in Reservations, NEW l \in Lots, NEW quantity \in Quantity,
             ConsumeReservation(r, l, quantity)
      PROVE  OpenReservationsCanSettle'
  BY <1>0, <1>3, LeftOpen DEF ConsumeReservation
<1>4. CASE UNCHANGED reservation
  BY <1>4
<1>5. ASSUME StockNext PROVE OpenReservationsCanSettle'
  BY <1>5, <1>1, <1>2, <1>3, <1>4 DEF StockNext, CreateAdjustment, CreateTransfer, CreateCycleCount
<1> QED
  BY <1>4, <1>5 DEF Next, ReceivePurchaseOrderLine, ReceiveLot, vars, stockVars

(* No sequence of reservations, releases and consumptions leaves one open  *)
(* that nothing more can be taken from.                                    *)
THEOREM ReservationsCanSettle == Spec => []OpenReservationsCanSettle
<1>1. Init => OpenReservationsCanSettle
  BY DEF Init, StockInit, OpenReservationsCanSettle, OpenStates
<1> QED
  BY <1>1, TypeCorrect, SettleInductive, PTL DEF Spec

-----------------------------------------------------------------------------
\* OrderAgreesWithLines for one order.
Agrees(state, lines) ==
  /\ state = "RECEIVED" <=> AllComplete(lines)
  /\ state = "PARTIALLY_RECEIVED" <=> HasReceived(lines) /\ ~AllComplete(lines)
  /\ \A p \in DOMAIN lines : lines[p].state =
       IF state = "CANCELLED" THEN "CANCELLED"
       ELSE IF Complete(lines[p]) THEN "RECEIVED"
       ELSE IF Settled(lines[p]) > 0 THEN "PARTIALLY_RECEIVED"
       ELSE "OPEN"

(* New lines are open and nothing of them is received.                     *)
LEMMA NewLinesAreOpen ==
  ASSUME NEW lines \in NewLines
  PROVE  /\ ~HasReceived(lines)
         /\ ~AllComplete(lines)
         /\ \A p \in DOMAIN lines :
              lines[p].state = "OPEN" /\ ~Complete(lines[p]) /\ Settled(lines[p]) = 0
  BY OrdersAssumption DEF NewLines, HasReceived, AllComplete, Complete, Settled

(* cancel and close leave the quantities of the lines alone.               *)
LEMMA StatesOnly ==
  ASSUME NEW o \in Orders, NEW s, TypeOK
  PROVE  LET lines == SetLineStates(poLines[o], s)
         IN  /\ DOMAIN lines = DOMAIN poLines[o]
             /\ \A p \in DOMAIN lines :
                  /\ lines[p].state = s
                  /\ lines[p].ordered = poLines[o][p].ordered
                  /\ lines[p].received = poLines[o][p].received
                  /\ lines[p].rejected = poLines[o][p].rejected
  BY DEF SetLineStates, TypeOK, OrdersTypeOK, Line

(* No command makes a line hold more than was ordered.                     *)
LEMMA NeverOverInductive == TypeOK /\ NeverOverReceived /\ [Next]_vars => NeverOverReceived'
<1> SUFFICES ASSUME TypeOK, NeverOverReceived, [Next]_vars PROVE NeverOverReceived'
    OBVIOUS
<1>1. ASSUME NEW o \in Orders, CreateOrder(o)
      PROVE  NeverOverReceived'
  BY <1>1, OrdersAssumption DEF CreateOrder, NewLines, NeverOverReceived, TypeOK, OrdersTypeOK
<1>2. ASSUME NEW o \in Orders, NEW c \in Clerks, NEW action \in Actions, Write(c, o, action)
      PROVE  NeverOverReceived'
  <2>1. PICK lines \in LinesAfter(o, action) : poLines' = [poLines EXCEPT ![o] = lines]
    BY <1>2 DEF Write
  <2>2. CASE lines \in NewLines
    BY <2>1, <2>2, OrdersAssumption DEF NewLines, NeverOverReceived, TypeOK, OrdersTypeOK
  <2>3. CASE lines = poLines[o]
    BY <2>1, <2>3 DEF NeverOverReceived, TypeOK, OrdersTypeOK
  <2>4. ASSUME NEW s, lines = SetLineStates(poLines[o], s) PROVE NeverOverReceived'
    <3>1. \A p \in DOMAIN lines :
            /\ p \in DOMAIN poLines[o]
            /\ lines[p].ordered = poLines[o][p].ordered
            /\ lines[p].received = poLines[o][p].received
            /\ lines[p].rejected = poLines[o][p].rejected
      BY <2>4, StatesOnly
    <3> QED
      BY <2>1, <3>1 DEF NeverOverReceived, TypeOK, OrdersTypeOK
  <2> QED
    BY <2>1, <2>2, <2>3, <2>4 DEF LinesAfter, Actions
<1>3. ASSUME NEW o \in Orders, NEW p \in Parts, NEW accepted \in Nat, NEW rejected \in Nat,
             ReceiveLine(o, p, accepted, rejected)
      PROVE  NeverOverReceived'
  <2>1. poLines[o][p] \in Line /\ p \in DOMAIN poLines[o]
    BY <1>3 DEF ReceiveLine, TypeOK, OrdersTypeOK
  <2>2. accepted + rejected <= poLines[o][p].ordered - Settled(poLines[o][p])
    BY <1>3, <2>1 DEF ReceiveLine, Line, Settled
  <2>3. poLines' = [poLines EXCEPT ![o] = [poLines[o] EXCEPT
                      ![p] = Received(poLines[o][p], accepted, rejected)]]
    BY <1>3 DEF ReceiveLine
  <2> DEFINE next == Received(poLines[o][p], accepted, rejected)
  <2>4. next.received + next.rejected <= next.ordered
    <3>1. /\ next.ordered = poLines[o][p].ordered
          /\ next.received = poLines[o][p].received + accepted
          /\ next.rejected = poLines[o][p].rejected + rejected
      BY <2>1, ReceivedLine
    <3> HIDE DEF next
    <3> QED
      BY <2>1, <2>2, <3>1 DEF Line, Settled
  <2> HIDE DEF next
  <2>5. SUFFICES ASSUME NEW x \in Orders, NEW q \in DOMAIN poLines'[x]
        PROVE  poLines'[x][q].received + poLines'[x][q].rejected <= poLines'[x][q].ordered
    BY DEF NeverOverReceived
  <2>6. CASE x = o /\ q = p
    BY <2>1, <2>3, <2>4, <2>6 DEF TypeOK, OrdersTypeOK, next
  <2>7. CASE ~(x = o /\ q = p)
    BY <2>1, <2>3, <2>7 DEF NeverOverReceived, TypeOK, OrdersTypeOK
  <2> QED
    BY <2>6, <2>7
<1>4. CASE UNCHANGED poLines
  BY <1>4 DEF NeverOverReceived
<1>5. ASSUME OrdersNext PROVE NeverOverReceived'
  BY <1>5, <1>1, <1>2, <1>4 DEF OrdersNext, Check
<1>6. ASSUME NEW o \in Orders, NEW p \in Parts, NEW accepted \in 0..MaxOnHand,
             NEW rejected \in 0..MaxOnHand,
             ReceivePurchaseOrderLine(o, p, accepted, rejected)
      PROVE  NeverOverReceived'
  BY <1>6, <1>3 DEF ReceivePurchaseOrderLine
<1> QED
  BY <1>4, <1>5, <1>6 DEF Next, vars, orderVars

(* However commands and receipts overlap, a line never takes more than was *)
(* ordered.                                                                *)
THEOREM NoLineIsOverReceived == Spec => []NeverOverReceived
<1>1. Init => NeverOverReceived
  BY DEF Init, OrdersInit, NeverOverReceived
<1> QED
  BY <1>1, TypeCorrect, NeverOverInductive, PTL DEF Spec

-----------------------------------------------------------------------------
(* A command that writes in time keeps the order in agreement with its     *)
(* lines.                                                                  *)
LEMMA InTimeWriteAgrees ==
  ASSUME TypeOK, NEW o \in Orders, NEW action \in Actions, NEW lines \in LinesAfter(o, action),
         Agrees(poState[o], poLines[o]), Allowed(o, action)
  PROVE  Agrees(StateAfter(o, action), lines)
<1>1. CASE action = "update"
  <2>1. poState[o] = "DRAFT" /\ StateAfter(o, action) = "DRAFT"
    BY <1>1 DEF Allowed, StateAfter
  <2>2. lines \in NewLines \/ lines = poLines[o]
    BY <1>1 DEF LinesAfter
  <2> QED
    BY <2>1, <2>2, NewLinesAreOpen DEF Agrees
<1>2. CASE action = "approve"
  BY <1>2 DEF Allowed, StateAfter, LinesAfter, Agrees
<1>3. CASE action = "send"
  BY <1>3 DEF Allowed, StateAfter, LinesAfter, Agrees
<1>4. CASE action = "cancel"
  <2>1. /\ poState[o] \in {"DRAFT", "APPROVED", "SENT"}
        /\ lines = SetLineStates(poLines[o], "CANCELLED")
        /\ StateAfter(o, action) = "CANCELLED"
    BY <1>4 DEF Allowed, StateAfter, LinesAfter
  <2>2. /\ DOMAIN lines = DOMAIN poLines[o]
        /\ \A p \in DOMAIN lines : /\ lines[p].state = "CANCELLED"
                                   /\ Settled(lines[p]) = Settled(poLines[o][p])
                                   /\ lines[p].ordered = poLines[o][p].ordered
    BY <2>1, StatesOnly DEF Settled
  <2>3. AllComplete(lines) <=> AllComplete(poLines[o])
    BY <2>2 DEF AllComplete, Complete
  <2>4. HasReceived(lines) <=> HasReceived(poLines[o])
    BY <2>2 DEF HasReceived
  <2> QED
    BY <2>1, <2>2, <2>3, <2>4 DEF Agrees
<1>5. CASE action = "close"
  \* All lines complete means RECEIVED, where close is refused.
  BY <1>5 DEF Allowed, Agrees
<1> QED
  BY <1>1, <1>2, <1>3, <1>4, <1>5 DEF Actions

(* A receipt leaves the order in agreement with its lines.                 *)
LEMMA ReceiptAgrees ==
  ASSUME TypeOK, NEW o \in Orders, NEW p \in Parts, NEW accepted \in Nat, NEW rejected \in Nat,
         ReceiveLine(o, p, accepted, rejected), Agrees(poState[o], poLines[o])
  PROVE  Agrees(poState'[o], poLines'[o])
<1> DEFINE next == Received(poLines[o][p], accepted, rejected)
           lines == [poLines[o] EXCEPT ![p] = next]
<1>1. poLines[o][p] \in Line /\ p \in DOMAIN poLines[o] /\ poState[o] # "CANCELLED"
  BY DEF ReceiveLine, TypeOK, OrdersTypeOK
<1>2. /\ next.state = IF Complete(next) THEN "RECEIVED" ELSE "PARTIALLY_RECEIVED"
      /\ Settled(next) = Settled(poLines[o][p]) + accepted + rejected
      /\ Settled(poLines[o][p]) >= 0
      /\ accepted + rejected > 0
  BY <1>1, ReceivedLine DEF Settled, Line, ReceiveLine
<1>3. /\ DOMAIN lines = DOMAIN poLines[o]
      /\ lines[p] = next
      /\ \A q \in DOMAIN lines \ {p} : lines[q] = poLines[o][q]
  BY <1>1 DEF TypeOK, OrdersTypeOK
<1>4. poLines'[o] = lines /\ poState'[o] = RolledUp(lines)
  BY DEF ReceiveLine, TypeOK, OrdersTypeOK
<1>5. Settled(next) > 0
  BY <1>1, <1>2 DEF Settled, Line
<1> HIDE DEF next, lines
<1>6. HasReceived(lines)
  BY <1>1, <1>3, <1>5 DEF HasReceived
<1>7. \A q \in DOMAIN lines : lines[q].state =
        IF Complete(lines[q]) THEN "RECEIVED"
        ELSE IF Settled(lines[q]) > 0 THEN "PARTIALLY_RECEIVED" ELSE "OPEN"
  BY <1>1, <1>2, <1>3, <1>5 DEF Agrees
<1> QED
  BY <1>4, <1>6, <1>7 DEF Agrees, RolledUp

LEMMA AgreementInductive == TypeOK /\ OrderAgreesWithLines /\ [Next]_vars => OrderAgreesWithLines'
<1> SUFFICES ASSUME TypeOK, [Next]_vars, NEW x \in Orders,
                    InTime(x, Actions) => Agrees(poState[x], poLines[x]),
                    InTime(x, Actions)'
             PROVE  Agrees(poState'[x], poLines'[x])
    BY DEF OrderAgreesWithLines, Agrees
<1>1. ASSUME NEW o \in Orders, CreateOrder(o)
      PROVE  Agrees(poState'[x], poLines'[x])
  <2>1. PICK lines \in NewLines : poLines' = [poLines EXCEPT ![o] = lines]
    BY <1>1 DEF CreateOrder
  <2>2. poState' = [poState EXCEPT ![o] = "DRAFT"] /\ late' = late
    BY <1>1 DEF CreateOrder
  <2>3. CASE x = o
    BY <2>1, <2>2, <2>3, NewLinesAreOpen DEF Agrees, TypeOK, OrdersTypeOK
  <2>4. CASE x # o
    BY <2>1, <2>2, <2>4 DEF InTime, TypeOK, OrdersTypeOK
  <2> QED
    BY <2>3, <2>4
<1>2. ASSUME NEW o \in Orders, NEW c \in Clerks, NEW action \in Actions, Write(c, o, action)
      PROVE  Agrees(poState'[x], poLines'[x])
  <2>1. PICK lines \in LinesAfter(o, action) : poLines' = [poLines EXCEPT ![o] = lines]
    BY <1>2 DEF Write
  <2>2. poState' = [poState EXCEPT ![o] = StateAfter(o, action)] /\ InTime(x, Actions)
    BY <1>2 DEF Write, InTime
  <2>3. CASE x = o
    <3>1. Allowed(o, action)
      BY <1>2, <2>3 DEF Write, InTime
    <3>2. poLines'[x] = lines /\ poState'[x] = StateAfter(o, action)
      BY <2>1, <2>2, <2>3 DEF TypeOK, OrdersTypeOK
    <3> QED
      BY <2>2, <2>3, <3>1, <3>2, InTimeWriteAgrees
  <2>4. CASE x # o
    BY <2>1, <2>2, <2>4 DEF TypeOK, OrdersTypeOK
  <2> QED
    BY <2>3, <2>4
<1>3. ASSUME NEW o \in Orders, NEW p \in Parts, NEW accepted \in Nat, NEW rejected \in Nat,
             ReceiveLine(o, p, accepted, rejected)
      PROVE  Agrees(poState'[x], poLines'[x])
  <2>1. InTime(x, Actions)
    BY <1>3 DEF ReceiveLine, InTime
  <2>2. CASE x = o
    BY <1>3, <2>1, <2>2, ReceiptAgrees
  <2>3. CASE x # o
    BY <1>3, <2>1, <2>3 DEF ReceiveLine, TypeOK, OrdersTypeOK
  <2> QED
    BY <2>2, <2>3
<1>4. CASE UNCHANGED <<poState, poLines, late>>
  BY <1>4 DEF InTime
<1>5. ASSUME OrdersNext PROVE Agrees(poState'[x], poLines'[x])
  BY <1>5, <1>1, <1>2, <1>4 DEF OrdersNext, Check
<1>6. ASSUME NEW o \in Orders, NEW p \in Parts, NEW accepted \in 0..MaxOnHand,
             NEW rejected \in 0..MaxOnHand,
             ReceivePurchaseOrderLine(o, p, accepted, rejected)
      PROVE  Agrees(poState'[x], poLines'[x])
  BY <1>6, <1>3 DEF ReceivePurchaseOrderLine
<1> QED
  BY <1>4, <1>5, <1>6 DEF Next, vars, orderVars

(* Unless one of its commands wrote after its check had stopped being      *)
(* true, the state of an order says what its lines have received.          *)
THEOREM OrdersAgree == Spec => []OrderAgreesWithLines
<1>1. Init => OrderAgreesWithLines
  BY DEF Init, OrdersInit, OrderAgreesWithLines, AllComplete, HasReceived
<1> QED
  BY <1>1, TypeCorrect, AgreementInductive, PTL DEF Spec
-----------------------------------------------------------------------------
(* An order that is received in full or cancelled allows no command, takes *)
(* no receipt and cannot be created again: only a command that checked it  *)
(* earlier and writes now still changes its state.                         *)
THEOREM SettledOrdersAreFinal == Spec => SettledOrdersStay
<1> DEFINE Late(o) == \E c \in Clerks, a \in Actions :
              command[c] = <<o, a>> /\ command'[c] = Idle /\ ~Allowed(o, a)
           Stays == \A o \in Orders :
              poState[o] \in {"RECEIVED", "CANCELLED"} /\ poState'[o] # poState[o] => Late(o)
<1>1. TypeOK /\ [Next]_vars => [Stays]_orderVars
  <2> SUFFICES ASSUME TypeOK, [Next]_vars, NEW x \in Orders,
                      poState[x] \in {"RECEIVED", "CANCELLED"}, poState'[x] # poState[x]
               PROVE  Late(x)
      OBVIOUS
  <2>1. ASSUME NEW o \in Orders, CreateOrder(o)
        PROVE  FALSE
    BY <2>1 DEF CreateOrder, TypeOK, OrdersTypeOK
  <2>2. ASSUME NEW o \in Orders, NEW c \in Clerks, NEW a \in Actions, Write(c, o, a)
        PROVE  Late(x)
    <3>1. o = x
      BY <2>2 DEF Write, TypeOK, OrdersTypeOK
    <3>2. command[c] = <<x, a>> /\ command'[c] = Idle
      BY <2>2, <3>1 DEF Write, TypeOK, OrdersTypeOK
    <3>3. ~Allowed(x, a)
      BY DEF Allowed, Actions
    <3> QED
      BY <3>2, <3>3
  <2>3. ASSUME NEW o \in Orders, NEW p \in Parts, NEW accepted, NEW rejected,
               ReceivePurchaseOrderLine(o, p, accepted, rejected)
        PROVE  FALSE
    BY <2>3 DEF ReceivePurchaseOrderLine, ReceiveLine, TypeOK, OrdersTypeOK
  <2>4. poState' # poState
    OBVIOUS
  <2> QED
    BY <2>1, <2>2, <2>3, <2>4 DEF Next, OrdersNext, Check, vars, orderVars
<1> QED
  BY <1>1, TypeCorrect, PTL DEF Spec, SettledOrdersStay
-----------------------------------------------------------------------------
\* What the reservations on a lot and those for a part hold, and what the latter
\* have consumed.
HeldOn(l)  == SumFunctionOnSet(OpenQuantities, {r \in Reservations : reservation[r].lot = l})
HeldFor(w) == SumFunctionOnSet(OpenQuantities, {r \in Reservations : reservation[r].for = w})
UsedFor(w) == SumFunctionOnSet(ConsumedQuantities, {r \in Reservations : reservation[r].for = w})

\* The part of a sum that a row contributes.
Part(counts, quantity) == IF counts THEN quantity ELSE 0

(* Writing one reservation takes what the row held out of the sums it was  *)
(* in, and puts what it holds now into those it is in.                     *)
SumsFollow(old, row) ==
  /\ \A l \in Lots : HeldOn(l)' = HeldOn(l) - Part(old.lot = l, OpenQuantity(old))
                                           + Part(row.lot = l, OpenQuantity(row))
  /\ \A w \in WorkOrderParts :
       /\ HeldFor(w)' = HeldFor(w) - Part(old.for = w, OpenQuantity(old))
                                   + Part(row.for = w, OpenQuantity(row))
       /\ UsedFor(w)' = UsedFor(w) - Part(old.for = w, old.consumed)
                                   + Part(row.for = w, row.consumed)
  /\ TotalHeld' = TotalHeld - OpenQuantity(old) + OpenQuantity(row)
  /\ TotalIssued' = TotalIssued - old.consumed + row.consumed

LEMMA ReservationChange ==
  ASSUME reservation \in [Reservations -> Reservation],
         NEW r \in Reservations, NEW row \in Reservation,
         reservation' = [reservation EXCEPT ![r] = row]
  PROVE  SumsFollow(reservation[r], row)
<1> DEFINE open  == [x \in Reservations |-> OpenQuantity(reservation[x])]
           open1 == [x \in Reservations |-> OpenQuantity(reservation'[x])]
           used  == [x \in Reservations |-> reservation[x].consumed]
           used1 == [x \in Reservations |-> reservation'[x].consumed]
<1>1. /\ open \in [Reservations -> Int] /\ open1 \in [Reservations -> Int]
      /\ used \in [Reservations -> Int] /\ used1 \in [Reservations -> Int]
  BY DEF OpenQuantity, Reservation
<1>2. /\ \A x \in Reservations \ {r} : reservation'[x] = reservation[x]
      /\ reservation'[r] = row
  OBVIOUS
<1>3. /\ \A x \in Reservations \ {r} : open1[x] = open[x] /\ used1[x] = used[x]
      /\ open[r] = OpenQuantity(reservation[r]) /\ open1[r] = OpenQuantity(row)
      /\ used[r] = reservation[r].consumed /\ used1[r] = row.consumed
  BY <1>2
<1>4. OpenQuantities = open /\ OpenQuantities' = open1
      /\ ConsumedQuantities = used /\ ConsumedQuantities' = used1
  BY DEF OpenQuantities, ConsumedQuantities
<1> HIDE DEF open, open1, used, used1
<1>5. ASSUME NEW S \in SUBSET Reservations, NEW T \in SUBSET Reservations, S \ {r} = T \ {r}
      PROVE  /\ SumFunctionOnSet(open1, T) = SumFunctionOnSet(open, S)
                  - Part(r \in S, open[r]) + Part(r \in T, open1[r])
             /\ SumFunctionOnSet(used1, T) = SumFunctionOnSet(used, S)
                  - Part(r \in S, used[r]) + Part(r \in T, used1[r])
  <2>1. IsFiniteSet(S) /\ IsFiniteSet(T)
    BY StockAssumption, FS_Subset
  <2>2. OneApart(Reservations, open, open1, S, T, r) /\ OneApart(Reservations, used, used1, S, T, r)
    BY <1>1, <1>3, <1>5, <2>1 DEF OneApart
  <2> QED BY <2>2, SumStep DEF Part
<1>6. ASSUME NEW l
      PROVE  HeldOn(l)' = HeldOn(l) - Part(reservation[r].lot = l, open[r]) + Part(row.lot = l, open1[r])
  <2> DEFINE S == {x \in Reservations : reservation[x].lot = l}
             T == {x \in Reservations : reservation'[x].lot = l}
  <2>1. S \in SUBSET Reservations /\ T \in SUBSET Reservations /\ S \ {r} = T \ {r}
    BY <1>2
  <2>2. (r \in S <=> reservation[r].lot = l) /\ (r \in T <=> row.lot = l)
    BY <1>2
  <2>3. HeldOn(l) = SumFunctionOnSet(open, S) /\ HeldOn(l)' = SumFunctionOnSet(open1, T)
    BY <1>4 DEF HeldOn
  <2> HIDE DEF S, T
  <2> QED BY <1>5, <2>1, <2>2, <2>3 DEF Part
<1>7. ASSUME NEW w
      PROVE  /\ HeldFor(w)' = HeldFor(w) - Part(reservation[r].for = w, open[r])
                                         + Part(row.for = w, open1[r])
             /\ UsedFor(w)' = UsedFor(w) - Part(reservation[r].for = w, used[r])
                                         + Part(row.for = w, used1[r])
  <2> DEFINE S == {x \in Reservations : reservation[x].for = w}
             T == {x \in Reservations : reservation'[x].for = w}
  <2>1. S \in SUBSET Reservations /\ T \in SUBSET Reservations /\ S \ {r} = T \ {r}
    BY <1>2
  <2>2. (r \in S <=> reservation[r].for = w) /\ (r \in T <=> row.for = w)
    BY <1>2
  <2>3. /\ HeldFor(w) = SumFunctionOnSet(open, S) /\ HeldFor(w)' = SumFunctionOnSet(open1, T)
        /\ UsedFor(w) = SumFunctionOnSet(used, S) /\ UsedFor(w)' = SumFunctionOnSet(used1, T)
    BY <1>4 DEF HeldFor, UsedFor
  <2> HIDE DEF S, T
  <2> QED BY <1>5, <2>1, <2>2, <2>3 DEF Part
<1>8. /\ TotalHeld' = TotalHeld - open[r] + open1[r]
      /\ TotalIssued' = TotalIssued - used[r] + used1[r]
  BY <1>4, <1>5 DEF TotalHeld, TotalIssued, Part
<1> QED BY <1>3, <1>6, <1>7, <1>8 DEF SumsFollow

(* The sums are integers.                                                  *)
LEMMA SumsAreIntegers ==
  ASSUME TypeOK
  PROVE  \A x : HeldOn(x) \in Int /\ HeldFor(x) \in Int /\ UsedFor(x) \in Int
<1>1. OpenQuantities \in [Reservations -> Int] /\ ConsumedQuantities \in [Reservations -> Int]
  BY DEF OpenQuantities, ConsumedQuantities, OpenQuantity, Reservation, TypeOK, StockTypeOK
<1>2. \A S \in SUBSET Reservations : IsFiniteSet(S)
  BY StockAssumption, FS_Subset
<1> QED BY <1>1, <1>2, SumType DEF HeldOn, HeldFor, UsedFor

(* A part holds at least what each of its open reservations holds: the     *)
(* rounding of GREATEST(..., 0) never happens.                             *)
LEMMA PartCovers ==
  ASSUME TypeOK, OpenReservationsCanSettle, NEW r \in Reservations
  PROVE  OpenQuantity(reservation[r]) <= HeldFor(reservation[r].for)
<1> DEFINE S == {x \in Reservations : reservation[x].for = reservation[r].for}
<1>1. OpenQuantities \in [Reservations -> Int] /\ \A x \in S : OpenQuantities[x] >= 0
  BY DEF OpenQuantities, OpenQuantity, OpenReservationsCanSettle, TypeOK, StockTypeOK, Reservation
<1>2. IsFiniteSet(S) /\ S \in SUBSET Reservations /\ r \in S
  BY StockAssumption, FS_Subset
<1>3. OpenQuantities[r] <= SumFunctionOnSet(OpenQuantities, S)
  <2> HIDE DEF S
  <2> QED BY <1>1, <1>2, SumOfNaturals
<1> QED BY <1>3 DEF HeldFor, OpenQuantities

\* Balances and parts hold what the reservations on them and for them say.
Held ==
  /\ \A l \in Lots : balance[l].reserved = HeldOn(l)
  /\ \A w \in WorkOrderParts :
       workOrderPart[w].reserved = HeldFor(w) /\ workOrderPart[w].consumed = UsedFor(w)
  /\ \A r \in Reservations : reservation[r].state = "ABSENT" => reservation[r].consumed = 0

(* What a release or a consumption takes off the open quantity is exactly  *)
(* the quantity that was asked for, in full or in part.                    *)
LEMMA TakenExactly ==
  ASSUME NEW row \in Reservation, NEW quantity \in Quantity, MayTake(row, quantity)
  PROVE  LET released == AfterRelease(row, quantity)
             issued   == AfterConsume(row, quantity)
         IN  /\ released \in Reservation /\ issued \in Reservation
             /\ OpenQuantity(released) = OpenQuantity(row) - quantity
             /\ OpenQuantity(issued) = OpenQuantity(row) - quantity
             /\ released.consumed = row.consumed /\ issued.consumed = row.consumed + quantity
             /\ released.lot = row.lot /\ issued.lot = row.lot
             /\ released.for = row.for /\ issued.for = row.for
             /\ released.state # "ABSENT" /\ issued.state # "ABSENT"
<1>0. quantity \in Int /\ row.reserved \in Int /\ row.consumed \in Int
  BY DEF Reservation, Quantity
<1>1. row.state \in OpenStates /\ quantity <= row.reserved - row.consumed
  BY DEF MayTake, OpenQuantity, Quantity
<1>2. OpenQuantity(row) = row.reserved - row.consumed
  BY <1>1 DEF OpenQuantity
<1>3. CASE quantity = row.reserved - row.consumed
  BY <1>0, <1>2, <1>3 DEF AfterRelease, AfterConsume, OpenStates, OpenQuantity, Reservation
<1>4. CASE quantity # row.reserved - row.consumed
  BY <1>0, <1>1, <1>2, <1>4 DEF AfterRelease, AfterConsume, OpenStates, OpenQuantity, Reservation
<1> QED BY <1>3, <1>4

\* A command that changes the reservation r to row, and its lot and its part by as
\* much: what is held of the lot and for the part, and what the part has used.
MovesTogether(r, row, l, reserved, used) ==
  /\ r \in Reservations /\ row \in Reservation /\ reserved \in Int /\ used \in Int
  /\ reservation' = [reservation EXCEPT ![r] = row]
  /\ \A x \in Lots : balance'[x].reserved = balance[x].reserved + Part(x = l, reserved)
  /\ \A w \in WorkOrderParts :
       /\ workOrderPart'[w].reserved = workOrderPart[w].reserved + Part(w = row.for, reserved)
       /\ workOrderPart'[w].consumed = workOrderPart[w].consumed + Part(w = row.for, used)
  /\ OpenQuantity(row) = OpenQuantity(reservation[r]) + reserved
  /\ row.consumed = reservation[r].consumed + used
  /\ row.lot = l /\ row.state # "ABSENT"
  /\ reservation[r].lot = l \/ OpenQuantity(reservation[r]) = 0
  /\ \/ reservation[r].for = row.for
     \/ OpenQuantity(reservation[r]) = 0 /\ reservation[r].consumed = 0

(* Such a command keeps what is held and what the reservations say equal.  *)
LEMMA MovedTogether ==
  ASSUME TypeOK, Held, NEW r, NEW row, NEW l, NEW reserved, NEW used,
         MovesTogether(r, row, l, reserved, used)
  PROVE  Held'
<1> DEFINE old == reservation[r]
<1>1. r \in Reservations /\ row \in Reservation /\ reserved \in Int /\ used \in Int
      /\ reservation' = [reservation EXCEPT ![r] = row]
  BY DEF MovesTogether
<1>2. reservation \in [Reservations -> Reservation] /\ old \in Reservation
  BY <1>1 DEF TypeOK, StockTypeOK
<1>3. SumsFollow(old, row)
  <2> HIDE DEF old
  <2>1. SumsFollow(reservation[r], row)
    BY <1>1, <1>2, ReservationChange
  <2> QED BY <2>1 DEF old
<1>4. /\ OpenQuantity(row) \in Int /\ OpenQuantity(old) \in Int
      /\ row.consumed \in Int /\ old.consumed \in Int
  <2> HIDE DEF old
  <2> QED BY <1>1, <1>2 DEF OpenQuantity, Reservation
<1>5. /\ OpenQuantity(row) = OpenQuantity(old) + reserved
      /\ row.consumed = old.consumed + used
      /\ row.lot = l /\ row.state # "ABSENT"
      /\ old.lot = l \/ OpenQuantity(old) = 0
      /\ old.for = row.for \/ (OpenQuantity(old) = 0 /\ old.consumed = 0)
  BY DEF MovesTogether
<1>6. \A x \in Lots : HeldOn(x) \in Int
  BY SumsAreIntegers
<1>7. \A w \in WorkOrderParts : HeldFor(w) \in Int /\ UsedFor(w) \in Int
  BY SumsAreIntegers
<1> HIDE DEF old
<1>8. ASSUME NEW x \in Lots PROVE balance'[x].reserved = HeldOn(x)'
  <2>1. balance'[x].reserved = HeldOn(x) + Part(x = l, reserved)
    BY DEF MovesTogether, Held
  <2>2. HeldOn(x)' = HeldOn(x) - Part(old.lot = x, OpenQuantity(old))
                               + Part(row.lot = x, OpenQuantity(row))
    BY <1>3 DEF SumsFollow
  <2> QED BY <1>1, <1>4, <1>5, <1>6, <2>1, <2>2 DEF Part
<1>9. ASSUME NEW w \in WorkOrderParts
      PROVE  workOrderPart'[w].reserved = HeldFor(w)' /\ workOrderPart'[w].consumed = UsedFor(w)'
  <2>1. /\ workOrderPart'[w].reserved = HeldFor(w) + Part(w = row.for, reserved)
        /\ workOrderPart'[w].consumed = UsedFor(w) + Part(w = row.for, used)
    BY DEF MovesTogether, Held
  <2>2. /\ HeldFor(w)' = HeldFor(w) - Part(old.for = w, OpenQuantity(old))
                                    + Part(row.for = w, OpenQuantity(row))
        /\ UsedFor(w)' = UsedFor(w) - Part(old.for = w, old.consumed)
                                    + Part(row.for = w, row.consumed)
    BY <1>3 DEF SumsFollow
  <2>3. CASE row.for = w
    BY <1>1, <1>4, <1>5, <1>7, <2>1, <2>2, <2>3 DEF Part
  <2>4. CASE row.for # w
    BY <1>1, <1>4, <1>5, <1>7, <2>1, <2>2, <2>4 DEF Part
  <2> QED BY <2>3, <2>4
<1>10. \A x \in Reservations : reservation'[x].state = "ABSENT" => reservation'[x].consumed = 0
  BY <1>1, <1>2, <1>5 DEF Held
<1> QED BY <1>8, <1>9, <1>10 DEF Held

(* createReservation moves the reservation, its lot and its part together.  *)
LEMMA ReserveMoves ==
  ASSUME TypeOK, OpenReservationsCanSettle, Held,
         NEW r \in Reservations, NEW l \in Lots, NEW quantity \in Quantity,
         NEW w \in WorkOrderParts \cup {None}, CreateReservation(r, l, w, quantity)
  PROVE  \E row : MovesTogether(r, row, l, quantity, 0)
<1>0. /\ reservation \in [Reservations -> Reservation] /\ balance \in [Lots -> Balance]
      /\ workOrderPart \in [WorkOrderParts -> WorkOrderPart]
  BY DEF TypeOK, StockTypeOK
<1> DEFINE row == [state |-> "ACTIVE", lot |-> l, for |-> w, reserved |-> quantity, consumed |-> 0]
<1>1. quantity \in Int /\ row \in Reservation
  BY DEF Quantity, Reservation
<1>2. OpenQuantity(reservation[r]) = 0 /\ reservation[r].consumed = 0
  BY DEF CreateReservation, OpenQuantity, OpenStates, Held
<1>3. OpenQuantity(row) = quantity
  BY <1>1 DEF OpenQuantity, OpenStates
<1>4. /\ reservation' = [reservation EXCEPT ![r] = row]
      /\ balance' = [balance EXCEPT ![l] = Moved(@, 0, quantity, 0)]
  BY DEF CreateReservation
<1>5. ASSUME NEW p \in WorkOrderParts
      PROVE  /\ workOrderPart'[p].reserved = workOrderPart[p].reserved + Part(p = w, quantity)
             /\ workOrderPart'[p].consumed = workOrderPart[p].consumed + Part(p = w, 0)
  BY <1>0, <1>1, <1>5 DEF CreateReservation, Part, WorkOrderPart
<1>6. row.lot = l /\ row.for = w /\ row.consumed = 0 /\ row.state # "ABSENT"
  OBVIOUS
<1>7. \A x \in Lots : balance'[x].reserved = balance[x].reserved + Part(x = l, quantity)
  BY <1>0, <1>1, <1>4 DEF Moved, Balance, Part
<1>8. 0 \in Int /\ 0 + quantity = quantity
  BY <1>1
<1> HIDE DEF row
<1>9. MovesTogether(r, row, l, quantity, 0)
  BY <1>1, <1>2, <1>3, <1>4, <1>5, <1>6, <1>7, <1>8 DEF MovesTogether
<1> QED BY <1>9

(* So does releaseReservation, backwards: the part never rounds.           *)
LEMMA ReleaseMoves ==
  ASSUME TypeOK, OpenReservationsCanSettle, Held,
         NEW r \in Reservations, NEW l \in Lots, NEW quantity \in Quantity,
         ReleaseReservation(r, l, quantity)
  PROVE  \E row : MovesTogether(r, row, l, -quantity, 0)
<1>0. /\ reservation \in [Reservations -> Reservation] /\ balance \in [Lots -> Balance]
      /\ workOrderPart \in [WorkOrderParts -> WorkOrderPart]
  BY DEF TypeOK, StockTypeOK
<1> DEFINE row == AfterRelease(reservation[r], quantity)
<1>1. MayTake(reservation[r], quantity) /\ reservation[r].lot = l /\ reservation[r] \in Reservation
  BY <1>0 DEF ReleaseReservation
<1>2. /\ row \in Reservation /\ row.lot = l /\ row.for = reservation[r].for
      /\ row.consumed = reservation[r].consumed /\ row.state # "ABSENT"
      /\ OpenQuantity(row) = OpenQuantity(reservation[r]) - quantity
  BY <1>1, TakenExactly
<1>3. quantity \in Int /\ OpenQuantity(reservation[r]) \in Int /\ reservation[r].consumed \in Int
      /\ quantity <= OpenQuantity(reservation[r])
  BY <1>1 DEF Quantity, OpenQuantity, Reservation, MayTake
<1>4. /\ reservation' = [reservation EXCEPT ![r] = row]
      /\ balance' = [balance EXCEPT ![l] = Moved(@, 0, -quantity, 0)]
  BY DEF ReleaseReservation
<1>5. ASSUME NEW p \in WorkOrderParts
      PROVE  /\ workOrderPart'[p].reserved = workOrderPart[p].reserved + Part(p = row.for, -quantity)
             /\ workOrderPart'[p].consumed = workOrderPart[p].consumed + Part(p = row.for, 0)
  <2>1. workOrderPart[p].reserved \in Int /\ workOrderPart[p].consumed \in Int
    BY <1>0 DEF WorkOrderPart
  <2>2. CASE p = reservation[r].for
    <3>1. workOrderPart'[p] = PartAfterRelease(workOrderPart[p], quantity)
      BY <2>2 DEF ReleaseReservation
    <3>2. workOrderPart[p].reserved - quantity >= 0
      BY SumsAreIntegers, <1>3, <2>2, PartCovers DEF Held
    <3> QED BY <1>2, <1>3, <2>1, <2>2, <3>1, <3>2 DEF PartAfterRelease, AtLeastZero, Part
  <2>3. CASE p # reservation[r].for
    BY <1>2, <2>1, <2>3 DEF ReleaseReservation, Part
  <2> QED BY <2>2, <2>3
<1>6. \A x \in Lots : balance'[x].reserved = balance[x].reserved + Part(x = l, -quantity)
  BY <1>0, <1>3, <1>4 DEF Moved, Balance, Part
<1>7. -quantity \in Int /\ 0 \in Int /\ row.consumed = reservation[r].consumed + 0
      /\ OpenQuantity(row) = OpenQuantity(reservation[r]) + (-quantity)
  <2> HIDE DEF row
  <2> QED BY <1>2, <1>3
<1> HIDE DEF row
<1>8. MovesTogether(r, row, l, -quantity, 0)
  BY <1>1, <1>2, <1>3, <1>4, <1>5, <1>6, <1>7 DEF MovesTogether
<1> QED BY <1>8

(* And consumeReservation, which besides uses what it takes.               *)
LEMMA ConsumeMoves ==
  ASSUME TypeOK, OpenReservationsCanSettle, Held,
         NEW r \in Reservations, NEW l \in Lots, NEW quantity \in Quantity,
         ConsumeReservation(r, l, quantity)
  PROVE  \E row : MovesTogether(r, row, l, -quantity, quantity)
<1>0. /\ reservation \in [Reservations -> Reservation] /\ balance \in [Lots -> Balance]
      /\ workOrderPart \in [WorkOrderParts -> WorkOrderPart]
  BY DEF TypeOK, StockTypeOK
<1> DEFINE row == AfterConsume(reservation[r], quantity)
<1>1. MayTake(reservation[r], quantity) /\ reservation[r].lot = l /\ reservation[r] \in Reservation
  BY <1>0 DEF ConsumeReservation
<1>2. /\ row \in Reservation /\ row.lot = l /\ row.for = reservation[r].for
      /\ row.consumed = reservation[r].consumed + quantity /\ row.state # "ABSENT"
      /\ OpenQuantity(row) = OpenQuantity(reservation[r]) - quantity
  BY <1>1, TakenExactly
<1>3. quantity \in Int /\ OpenQuantity(reservation[r]) \in Int /\ reservation[r].consumed \in Int
      /\ quantity <= OpenQuantity(reservation[r])
  BY <1>1 DEF Quantity, OpenQuantity, Reservation, MayTake
<1>4. /\ reservation' = [reservation EXCEPT ![r] = row]
      /\ balance' = [balance EXCEPT ![l] = Moved(@, -quantity, -quantity, quantity)]
  BY DEF ConsumeReservation
<1>5. ASSUME NEW p \in WorkOrderParts
      PROVE  /\ workOrderPart'[p].reserved = workOrderPart[p].reserved + Part(p = row.for, -quantity)
             /\ workOrderPart'[p].consumed = workOrderPart[p].consumed + Part(p = row.for, quantity)
  <2>1. workOrderPart[p].reserved \in Int /\ workOrderPart[p].consumed \in Int
    BY <1>0 DEF WorkOrderPart
  <2>2. CASE p = reservation[r].for
    <3>1. workOrderPart'[p] = PartAfterConsume(workOrderPart[p], quantity)
      BY <2>2 DEF ConsumeReservation
    <3>2. workOrderPart[p].reserved - quantity >= 0
      BY SumsAreIntegers, <1>3, <2>2, PartCovers DEF Held
    <3> QED BY <1>2, <1>3, <2>1, <2>2, <3>1, <3>2 DEF PartAfterConsume, AtLeastZero, Part
  <2>3. CASE p # reservation[r].for
    BY <1>2, <2>1, <2>3 DEF ConsumeReservation, Part
  <2> QED BY <2>2, <2>3
<1>6. \A x \in Lots : balance'[x].reserved = balance[x].reserved + Part(x = l, -quantity)
  BY <1>0, <1>3, <1>4 DEF Moved, Balance, Part
<1>7. -quantity \in Int /\ 0 \in Int /\ row.consumed = reservation[r].consumed + quantity
      /\ OpenQuantity(row) = OpenQuantity(reservation[r]) + (-quantity)
  <2> HIDE DEF row
  <2> QED BY <1>2, <1>3
<1> HIDE DEF row
<1>8. MovesTogether(r, row, l, -quantity, quantity)
  BY <1>1, <1>2, <1>3, <1>4, <1>5, <1>6, <1>7 DEF MovesTogether
<1> QED BY <1>8

LEMMA HeldInductive ==
  TypeOK /\ LotsSound /\ OpenReservationsCanSettle /\ Held /\ [Next]_vars => Held'
<1> SUFFICES ASSUME TypeOK, LotsSound, OpenReservationsCanSettle, Held, [Next]_vars PROVE Held'
    OBVIOUS
<1>0. /\ reservation \in [Reservations -> Reservation] /\ balance \in [Lots -> Balance]
      /\ workOrderPart \in [WorkOrderParts -> WorkOrderPart]
  BY DEF TypeOK, StockTypeOK
<1>3. ASSUME NEW r \in Reservations, NEW l \in Lots, NEW quantity \in Quantity,
             \/ \E w \in WorkOrderParts \cup {None} : CreateReservation(r, l, w, quantity)
             \/ ReleaseReservation(r, l, quantity)
             \/ ConsumeReservation(r, l, quantity)
      PROVE  Held'
  BY <1>3, ReserveMoves, ReleaseMoves, ConsumeMoves, MovedTogether
\* The others move no reserved stock.
<1>6. ASSUME UNCHANGED <<reservation, workOrderPart>>,
             \A l \in Lots : balance'[l].reserved = balance[l].reserved
      PROVE  Held'
  BY <1>6 DEF Held, HeldOn, HeldFor, UsedFor, OpenQuantities, ConsumedQuantities
<1>7. ASSUME NEW l \in Lots, NEW where \in Locations, NEW from \in Sources,
             NEW quantity \in Int, ReceiveLot(l, where, from, quantity)
      PROVE  Held'
  BY <1>0, <1>6, <1>7 DEF ReceiveLot, Moved, Balance
<1>8. ASSUME NEW l \in Lots, NEW delta \in Int, CreateAdjustment(l, delta) PROVE Held'
  BY <1>0, <1>6, <1>8 DEF CreateAdjustment, Moved, Balance
<1>9. ASSUME NEW l \in Lots, NEW to \in Lots, NEW where \in Locations,
             NEW quantity \in Quantity, CreateTransfer(l, to, where, quantity)
      PROVE  Held'
  BY <1>0, <1>6, <1>9 DEF CreateTransfer, Moved, Balance, Quantity
<1>10. ASSUME NEW where \in Locations, NEW S \in SUBSET Lots,
              NEW counted \in [S -> 0..MaxOnHand], CreateCycleCount(where, counted)
       PROVE  Held'
  <2>1. \A l \in Lots : balance'[l].reserved = balance[l].reserved
    BY <1>0, <1>10, StockAssumption DEF CreateCycleCount, Moved, Balance
  <2> QED BY <1>6, <1>10, <2>1 DEF CreateCycleCount
<1>11. CASE UNCHANGED stockVars
  BY <1>6, <1>11 DEF stockVars
<1>12. ASSUME StockNext PROVE Held'
  <2>1. \A l \in Lots, counted \in 0..MaxOnHand : counted - balance[l].onHand \in Int
    BY <1>0 DEF Balance
  <2> QED BY <1>12, <2>1, <1>3, <1>8, <1>9, <1>10 DEF StockNext
<1>13. ASSUME NEW o \in Orders, NEW p \in Parts, NEW accepted \in 0..MaxOnHand,
              NEW rejected \in 0..MaxOnHand,
              ReceivePurchaseOrderLine(o, p, accepted, rejected)
       PROVE  Held'
  <2>1. accepted \in Int /\ <<o, p>> \in Sources
    BY DEF Sources
  <2> QED BY <1>13, <2>1, <1>7, <1>11 DEF ReceivePurchaseOrderLine
<1> QED BY <1>11, <1>12, <1>13 DEF Next, vars

LEMMA HeldInvariant ==
  Spec => [](TypeOK /\ LotsSound /\ OpenReservationsCanSettle /\ Held)
<1>1. Init => LotsSound /\ OpenReservationsCanSettle
  BY DEF Init, StockInit, LotsSound, LotSound, OpenReservationsCanSettle, OpenStates
<1>2. Init => Held
  <2> SUFFICES ASSUME Init PROVE Held
    OBVIOUS
  <2>1. ASSUME NEW S \in SUBSET Reservations
        PROVE  /\ SumFunctionOnSet(OpenQuantities, S) = 0
               /\ SumFunctionOnSet(ConsumedQuantities, S) = 0
    <3>1. /\ \A r \in Reservations : OpenQuantities[r] = 0 /\ ConsumedQuantities[r] = 0
          /\ OpenQuantities \in [Reservations -> Int] /\ ConsumedQuantities \in [Reservations -> Int]
      BY DEF Init, StockInit, OpenQuantities, ConsumedQuantities, OpenQuantity, OpenStates
    <3>2. IsFiniteSet(S)
      BY StockAssumption, FS_Subset
    <3> QED BY <3>1, <3>2, SumZero
  <2>2. \A l, w : HeldOn(l) = 0 /\ HeldFor(w) = 0 /\ UsedFor(w) = 0
    BY <2>1 DEF HeldOn, HeldFor, UsedFor
  <2> QED BY <2>2 DEF Held, Init, StockInit
<1>3. TypeOK /\ LotsSound /\ OpenReservationsCanSettle /\ Held /\ [Next]_vars
        => LotsSound' /\ OpenReservationsCanSettle' /\ Held'
  BY LotsInductive, SettleInductive, HeldInductive
<1> QED BY <1>1, <1>2, <1>3, TypeCorrect, PTL DEF Spec

(* What a balance holds back is what the open reservations on its lot      *)
(* hold, and it is there, whatever movements and corrections come.         *)
THEOREM ReservedStockIsThere == Spec => []ReservationsAreCovered
<1>1. LotsSound /\ Held => ReservationsAreCovered
  BY DEF LotsSound, LotSound, Held, HeldOn, ReservationsAreCovered
<1> QED BY <1>1, HeldInvariant, PTL

(* A work order part holds and has consumed what the reservations for it   *)
(* say, after any sequence of reservations, releases and issues.           *)
THEOREM PartsAddUp == Spec => []PartsHoldTheirReservations
<1>1. Held => PartsHoldTheirReservations
  BY DEF Held, HeldFor, UsedFor, PartsHoldTheirReservations
<1> QED BY <1>1, HeldInvariant, PTL
-----------------------------------------------------------------------------
\* What transfers have moved into a lot, less what they have moved out of it.
NetTransfers == [l \in Lots |-> ledger[l]["TRANSFER_OUT"] + ledger[l]["TRANSFER_IN"]]

LEMMA TransfersInductive == TypeOK /\ TransfersBalance /\ [Next]_vars => TransfersBalance'
<1> SUFFICES ASSUME TypeOK, TransfersBalance, [Next]_vars PROVE TransfersBalance'
  OBVIOUS
<1>0. ledger \in [Lots -> [MovementTypes -> Int]] /\ balance \in [Lots -> Balance]
  BY DEF TypeOK, StockTypeOK
<1>1. {"TRANSFER_OUT", "TRANSFER_IN", "CYCLE_COUNT"} \subseteq MovementTypes
  BY DEF MovementTypes
<1>2. TransfersBalance <=> SumFunctionOnSet(NetTransfers, Lots) = 0
  BY DEF TransfersBalance, NetTransfers
<1>3. TransfersBalance' <=> SumFunctionOnSet(NetTransfers', Lots) = 0
  BY DEF TransfersBalance, NetTransfers
\* Every other movement leaves what transfers posted.
<1>4. ASSUME \A x \in Lots : /\ ledger'[x]["TRANSFER_OUT"] = ledger[x]["TRANSFER_OUT"]
                             /\ ledger'[x]["TRANSFER_IN"] = ledger[x]["TRANSFER_IN"]
      PROVE  TransfersBalance'
  <2>1. NetTransfers' = NetTransfers
    BY <1>4 DEF NetTransfers
  <2> QED BY <1>2, <1>3, <2>1
<1>5. ASSUME NEW l \in Lots, NEW movement \in MovementTypes \ {"TRANSFER_OUT", "TRANSFER_IN"},
             NEW delta, Post(l, movement, delta)
      PROVE  TransfersBalance'
  BY <1>0, <1>1, <1>4, <1>5 DEF Post
<1>6. {"RECEIPT", "RESERVATION", "RELEASE", "ISSUE", "ADJUSTMENT"}
        \subseteq MovementTypes \ {"TRANSFER_OUT", "TRANSFER_IN"}
  BY DEF MovementTypes
<1>7. ASSUME NEW r \in Reservations, NEW l \in Lots, NEW quantity \in Quantity,
             \/ \E w \in WorkOrderParts \cup {None} : CreateReservation(r, l, w, quantity)
             \/ ReleaseReservation(r, l, quantity)
             \/ ConsumeReservation(r, l, quantity)
      PROVE  TransfersBalance'
  BY <1>5, <1>6, <1>7 DEF CreateReservation, ReleaseReservation, ConsumeReservation
<1>8. ASSUME NEW l \in Lots, NEW delta, CreateAdjustment(l, delta) PROVE TransfersBalance'
  BY <1>5, <1>6, <1>8 DEF CreateAdjustment
\* What leaves one lot enters another.
<1>9. ASSUME NEW l \in Lots, NEW to \in Lots, NEW where \in Locations,
             NEW quantity \in Quantity, CreateTransfer(l, to, where, quantity)
      PROVE  TransfersBalance'
  <2> DEFINE net  == NetTransfers
             mid  == [net EXCEPT ![l] = @ - quantity]
             next == NetTransfers'
  <2>1. l # to /\ quantity \in Int
    BY <1>9 DEF CreateTransfer, Quantity
  <2>2. net \in [Lots -> Int]
    BY <1>0, <1>1 DEF NetTransfers
  <2>3. mid \in [Lots -> Int]
    BY <2>1, <2>2
  <2>4. /\ \A x \in Lots \ {l, to} : next[x] = net[x]
        /\ next[l] = net[l] - quantity /\ next[to] = net[to] + quantity
    BY <1>0, <1>1, <1>9, <2>1 DEF CreateTransfer, NetTransfers
  <2>5. next \in [Lots -> Int]
    BY <1>0, <1>1, <1>9, <2>1 DEF CreateTransfer, NetTransfers
  <2>6. /\ \A x \in Lots \ {l} : mid[x] = net[x]
        /\ mid[l] = net[l] - quantity /\ mid[to] = net[to] /\ mid[l] = next[l]
    BY <2>1, <2>2, <2>4
  <2> HIDE DEF net, mid, next
  <2>7. OneApart(Lots, net, mid, Lots, Lots, l)
    BY <2>2, <2>3, <2>6, StockAssumption DEF OneApart
  <2>8. OneApart(Lots, mid, next, Lots, Lots, to)
    BY <2>3, <2>4, <2>5, <2>6, StockAssumption DEF OneApart
  <2>9. /\ SumFunctionOnSet(mid, Lots) = SumFunctionOnSet(net, Lots) - net[l] + mid[l]
        /\ SumFunctionOnSet(next, Lots) = SumFunctionOnSet(mid, Lots) - mid[to] + next[to]
    BY <2>7, <2>8, SumStep
  <2>10. SumFunctionOnSet(net, Lots) = 0 /\ net[l] \in Int /\ net[to] \in Int
    BY <1>2, <2>2 DEF net
  <2>11. SumFunctionOnSet(next, Lots) = 0
    BY <2>1, <2>4, <2>6, <2>9, <2>10
  <2> QED BY <1>3, <2>11 DEF next
<1>10. ASSUME NEW where \in Locations, NEW S \in SUBSET Lots,
              NEW counted \in [S -> 0..MaxOnHand], CreateCycleCount(where, counted)
       PROVE  TransfersBalance'
  BY <1>0, <1>1, <1>4, <1>10 DEF CreateCycleCount, PostCount
<1>11. CASE UNCHANGED stockVars
  BY <1>4, <1>11 DEF stockVars
<1>12. ASSUME StockNext PROVE TransfersBalance'
  BY <1>12, <1>7, <1>8, <1>9, <1>10 DEF StockNext
<1>13. ASSUME NEW o \in Orders, NEW p \in Parts, NEW accepted \in 0..MaxOnHand,
              NEW rejected \in 0..MaxOnHand,
              ReceivePurchaseOrderLine(o, p, accepted, rejected)
       PROVE  TransfersBalance'
  BY <1>13, <1>5, <1>6, <1>11 DEF ReceivePurchaseOrderLine, ReceiveLot
<1> QED BY <1>11, <1>12, <1>13 DEF Next, vars

(* However stock is moved between lots, what the ledger says left one lot  *)
(* is what it says arrived in others.                                      *)
THEOREM TransfersAddUp == Spec => []TransfersBalance
<1>1. Init => TransfersBalance
  <2> SUFFICES ASSUME Init PROVE TransfersBalance
    OBVIOUS
  <2>1. NetTransfers \in [Lots -> Int] /\ \A l \in Lots : NetTransfers[l] = 0
    BY DEF Init, StockInit, NetTransfers, MovementTypes
  <2>2. SumFunctionOnSet(NetTransfers, Lots) = 0
    BY <2>1, StockAssumption, SumZero
  <2> QED BY <2>2 DEF TransfersBalance, NetTransfers
<1> QED BY <1>1, TransfersInductive, TypeCorrect, PTL DEF Spec
-----------------------------------------------------------------------------
\* What receiving relies on: a lot no row was written for has received nothing, and
\* so have the lines of an order that has not left DRAFT, however late the commands
\* that overlap were written.
NothingReceivedYet ==
  /\ \A l \in Lots : lotState[l] = "ABSENT" => ledger[l]["RECEIPT"] = 0
  /\ \A o \in Orders : poState[o] \in {"ABSENT", "DRAFT"} =>
       \A p \in DOMAIN poLines[o] : poLines[o][p].received = 0

LEMMA NewLinesReceivedNothing ==
  ASSUME NEW lines \in NewLines
  PROVE  \A p \in DOMAIN lines : lines[p].received = 0
  BY DEF NewLines

LEMMA NothingYetInductive ==
  TypeOK /\ NothingReceivedYet /\ [Next]_vars => NothingReceivedYet'
<1> SUFFICES ASSUME TypeOK, NothingReceivedYet, [Next]_vars PROVE NothingReceivedYet'
  OBVIOUS
<1> DEFINE LotsNew   == \A l \in Lots : lotState[l] = "ABSENT" => ledger[l]["RECEIPT"] = 0
           OrdersNew == \A o \in Orders : poState[o] \in {"ABSENT", "DRAFT"} =>
                          \A p \in DOMAIN poLines[o] : poLines[o][p].received = 0
<1>0. /\ lotState \in [Lots -> {"ABSENT", "AVAILABLE", "CLOSED"}]
      /\ ledger \in [Lots -> [MovementTypes -> Int]]
      /\ poState \in [Orders -> OrderStates] /\ poLines = [o \in Orders |-> poLines[o]]
  BY DEF TypeOK, StockTypeOK, OrdersTypeOK
<1>1. LotsNew /\ OrdersNew
  BY DEF NothingReceivedYet
<1>2. /\ "RECEIPT" \in MovementTypes
      /\ {"RESERVATION", "RELEASE", "ISSUE", "ADJUSTMENT"} \subseteq MovementTypes \ {"RECEIPT"}
      /\ {"TRANSFER_OUT", "TRANSFER_IN", "CYCLE_COUNT"} \subseteq MovementTypes \ {"RECEIPT"}
  BY DEF MovementTypes
<1>3. LotsNew'
  <2>1. CASE UNCHANGED stockVars
    BY <1>1, <2>1 DEF stockVars, lotVars
  <2>2. ASSUME \A l \in Lots : lotState'[l] = "ABSENT" =>
                 lotState[l] = "ABSENT" /\ ledger'[l]["RECEIPT"] = ledger[l]["RECEIPT"]
        PROVE  LotsNew'
    BY <1>1, <2>2
  <2>3. ASSUME NEW l \in Lots, NEW movement \in MovementTypes \ {"RECEIPT"}, NEW delta,
               Post(l, movement, delta), UNCHANGED lotState
        PROVE  LotsNew'
    BY <1>0, <1>2, <2>2, <2>3 DEF Post
  <2>4. ASSUME NEW r \in Reservations, NEW l \in Lots, NEW quantity \in Quantity,
               \/ \E w \in WorkOrderParts \cup {None} : CreateReservation(r, l, w, quantity)
               \/ ReleaseReservation(r, l, quantity)
               \/ ConsumeReservation(r, l, quantity)
        PROVE  LotsNew'
    BY <1>2, <2>3, <2>4
       DEF CreateReservation, ReleaseReservation, ConsumeReservation, lotVars
  <2>5. ASSUME NEW l \in Lots, NEW delta, CreateAdjustment(l, delta) PROVE LotsNew'
    BY <1>2, <2>3, <2>5 DEF CreateAdjustment, lotVars
  <2>6. ASSUME NEW l \in Lots, NEW to \in Lots, NEW where \in Locations,
               NEW quantity \in Quantity, CreateTransfer(l, to, where, quantity)
        PROVE  LotsNew'
    BY <1>0, <1>2, <2>2, <2>6 DEF CreateTransfer
  <2>7. ASSUME NEW where \in Locations, NEW S \in SUBSET Lots,
               NEW counted \in [S -> 0..MaxOnHand], CreateCycleCount(where, counted)
        PROVE  LotsNew'
    BY <1>0, <1>2, <2>2, <2>7 DEF CreateCycleCount, PostCount
  <2>8. ASSUME StockNext PROVE LotsNew'
    BY <2>8, <2>4, <2>5, <2>6, <2>7 DEF StockNext
  <2>9. ASSUME NEW l \in Lots, NEW where, NEW from, NEW quantity, ReceiveLot(l, where, from, quantity)
        PROVE  LotsNew'
    BY <1>0, <1>2, <2>2, <2>9 DEF ReceiveLot, NewLot, Post
  <2> QED BY <2>1, <2>8, <2>9 DEF Next, vars, ReceivePurchaseOrderLine
<1>4. OrdersNew'
  <2>1. CASE UNCHANGED orderVars
    BY <1>1, <2>1 DEF orderVars
  <2>2. ASSUME NEW o \in Orders, CreateOrder(o) PROVE OrdersNew'
    BY <1>0, <1>1, <2>2, NewLinesReceivedNothing DEF CreateOrder
  <2>3. ASSUME NEW o \in Orders, NEW c \in Clerks, NEW a \in Actions, Check(c, o, a)
        PROVE  OrdersNew'
    BY <1>1, <2>3 DEF Check
  <2>4. ASSUME NEW o \in Orders, NEW c \in Clerks, NEW a \in Actions, Write(c, o, a)
        PROVE  OrdersNew'
    <3>1. PICK lines \in LinesAfter(o, a) : poLines' = [poLines EXCEPT ![o] = lines]
      BY <2>4 DEF Write
    <3>2. poState' = [poState EXCEPT ![o] = StateAfter(o, a)]
      BY <2>4 DEF Write
    <3>3. CASE a = "update"
      <4>1. lines \in NewLines \cup {poLines[o]} /\ poState' = [poState EXCEPT ![o] = poState[o]]
        BY <3>1, <3>2, <3>3 DEF LinesAfter, StateAfter
      <4> QED BY <1>0, <1>1, <3>1, <4>1, NewLinesReceivedNothing
    <3>4. CASE a # "update"
      <4>1. StateAfter(o, a) \notin {"ABSENT", "DRAFT"}
        BY <3>4 DEF StateAfter, Actions
      <4> QED BY <1>0, <1>1, <3>1, <3>2, <4>1
    <3> QED BY <3>3, <3>4
  <2>5. ASSUME NEW o \in Orders, NEW p \in Parts, NEW accepted, NEW rejected,
               ReceivePurchaseOrderLine(o, p, accepted, rejected)
        PROVE  OrdersNew'
    <3>1. PICK lines : /\ poLines' = [poLines EXCEPT ![o] = lines]
                       /\ poState' = [poState EXCEPT ![o] = RolledUp(lines)]
      BY <2>5 DEF ReceivePurchaseOrderLine, ReceiveLine
    <3>2. RolledUp(lines) \notin {"ABSENT", "DRAFT"}
      BY DEF RolledUp
    <3> QED BY <1>0, <1>1, <3>1, <3>2
  <2> QED BY <2>1, <2>2, <2>3, <2>4, <2>5 DEF Next, OrdersNext, vars
<1> QED BY <1>3, <1>4 DEF NothingReceivedYet

\* The lots received for a line.
LotsOf(o, p) == {l \in Lots : source[l] = <<o, p>>}

\* A lot that has received nothing comes to name its source.
EntersTheBooks(l, from) ==
  /\ l \in Lots /\ ledger[l]["RECEIPT"] = 0
  /\ source' = [source EXCEPT ![l] = from]
  /\ \A x \in Lots \ {l} : ledger'[x]["RECEIPT"] = ledger[x]["RECEIPT"]

(* A new lot changes what is posted for the line it names only.            *)
LEMMA LotEntersTheBooks ==
  ASSUME TypeOK, TypeOK', NEW l, NEW from, EntersTheBooks(l, from), NEW o, NEW p
  PROVE  PostedFor(o, p)' = PostedFor(o, p) + Part(from = <<o, p>>, ledger'[l]["RECEIPT"])
<1> DEFINE f == Receipts
           g == Receipts'
           S == LotsOf(o, p)
           T == {x \in Lots : source'[x] = <<o, p>>}
<1> USE DEF EntersTheBooks
<1>1. f \in [Lots -> Int] /\ g \in [Lots -> Int]
  BY DEF Receipts, TypeOK, StockTypeOK, MovementTypes
<1>2. /\ \A x \in Lots \ {l} : f[x] = g[x]
      /\ f[l] = 0 /\ g[l] = ledger'[l]["RECEIPT"]
  BY DEF Receipts
<1>3. S \in SUBSET Lots /\ T \in SUBSET Lots
  BY DEF LotsOf
<1>4. IsFiniteSet(S) /\ IsFiniteSet(T)
  <2> HIDE DEF S, T
  <2> QED BY <1>3, StockAssumption, FS_Subset
<1>5. S \ {l} = T \ {l} /\ (l \in T <=> from = <<o, p>>)
  BY DEF LotsOf, TypeOK, StockTypeOK
<1>6. PostedFor(o, p) = SumFunctionOnSet(f, S) /\ PostedFor(o, p)' = SumFunctionOnSet(g, T)
  BY DEF PostedFor, Receipts, LotsOf
<1> HIDE DEF f, g, S, T
<1>7. OneApart(Lots, f, g, S, T, l)
  BY <1>1, <1>2, <1>3, <1>4, <1>5 DEF OneApart
<1>8. SumFunctionOnSet(g, T) = SumFunctionOnSet(f, S) - (IF l \in S THEN f[l] ELSE 0)
                                                      + (IF l \in T THEN g[l] ELSE 0)
  BY <1>7, SumStep
<1>9. SumFunctionOnSet(f, S) \in Int /\ g[l] \in Int
  BY <1>1, <1>3, <1>4, SumType
<1> QED BY <1>2, <1>5, <1>6, <1>8, <1>9 DEF Part

(* A movement that receives nothing leaves what is posted for a line.      *)
LEMMA BooksStay ==
  ASSUME \A x \in Lots : source'[x] = source[x] /\ ledger'[x]["RECEIPT"] = ledger[x]["RECEIPT"],
         NEW o, NEW p
  PROVE  PostedFor(o, p)' = PostedFor(o, p)
<1>1. /\ [l \in Lots |-> ledger'[l]["RECEIPT"]] = [l \in Lots |-> ledger[l]["RECEIPT"]]
      /\ {l \in Lots : source'[l] = <<o, p>>} = {l \in Lots : source[l] = <<o, p>>}
  OBVIOUS
<1> QED BY <1>1 DEF PostedFor, Receipts

(* What is posted for a line is an integer.                                *)
LEMMA PostedIsInteger ==
  ASSUME TypeOK, NEW o, NEW p
  PROVE  PostedFor(o, p) \in Int
<1>1. Receipts \in [Lots -> Int] /\ LotsOf(o, p) \in SUBSET Lots
  BY DEF Receipts, LotsOf, TypeOK, StockTypeOK, MovementTypes
<1>2. IsFiniteSet(LotsOf(o, p))
  BY <1>1, StockAssumption, FS_Subset
<1> QED BY <1>1, <1>2, SumType DEF PostedFor, Receipts, LotsOf

(* No command of the stock side changes what is posted for a line: a lot   *)
(* that a transfer makes has a receipt of its own of nothing.              *)
LEMMA StockKeepsTheBooks ==
  ASSUME TypeOK, TypeOK', NothingReceivedYet, StockNext, NEW o, NEW p
  PROVE  PostedFor(o, p)' = PostedFor(o, p)
<1>0. ledger \in [Lots -> [MovementTypes -> Int]] /\ balance \in [Lots -> Balance]
  BY DEF TypeOK, StockTypeOK
<1>1. /\ "RECEIPT" \in MovementTypes
      /\ {"RESERVATION", "RELEASE", "ISSUE", "ADJUSTMENT"} \subseteq MovementTypes \ {"RECEIPT"}
      /\ {"TRANSFER_OUT", "TRANSFER_IN", "CYCLE_COUNT"} \subseteq MovementTypes \ {"RECEIPT"}
  BY DEF MovementTypes
<1>2. ASSUME NEW l \in Lots, NEW movement \in MovementTypes \ {"RECEIPT"}, NEW delta,
             Post(l, movement, delta), UNCHANGED source
      PROVE  PostedFor(o, p)' = PostedFor(o, p)
  BY <1>0, <1>1, <1>2, BooksStay DEF Post
<1>3. ASSUME NEW r \in Reservations, NEW l \in Lots, NEW quantity \in Quantity,
             \/ \E w \in WorkOrderParts \cup {None} : CreateReservation(r, l, w, quantity)
             \/ ReleaseReservation(r, l, quantity)
             \/ ConsumeReservation(r, l, quantity)
      PROVE  PostedFor(o, p)' = PostedFor(o, p)
  BY <1>1, <1>2, <1>3 DEF CreateReservation, ReleaseReservation, ConsumeReservation, lotVars
<1>4. ASSUME NEW l \in Lots, NEW delta, CreateAdjustment(l, delta)
      PROVE  PostedFor(o, p)' = PostedFor(o, p)
  BY <1>1, <1>2, <1>4 DEF CreateAdjustment, lotVars
<1>5. ASSUME NEW l \in Lots, NEW to \in Lots, NEW where \in Locations,
             NEW quantity \in Quantity, CreateTransfer(l, to, where, quantity)
      PROVE  PostedFor(o, p)' = PostedFor(o, p)
  <2>1. \A x \in Lots : ledger'[x]["RECEIPT"] = ledger[x]["RECEIPT"]
    BY <1>0, <1>1, <1>5 DEF CreateTransfer
  <2>2. ledger[to]["RECEIPT"] = 0 /\ source' = [source EXCEPT ![to] = l]
    BY <1>5 DEF CreateTransfer, NothingReceivedYet
  <2>3. EntersTheBooks(to, l)
    BY <2>1, <2>2 DEF EntersTheBooks
  <2>4. PostedFor(o, p)' = PostedFor(o, p) + Part(l = <<o, p>>, ledger'[to]["RECEIPT"])
    BY <2>3, LotEntersTheBooks
  <2>5. PostedFor(o, p) \in Int
    BY PostedIsInteger
  <2> QED BY <2>1, <2>2, <2>4, <2>5 DEF Part
<1>6. ASSUME NEW where \in Locations, NEW S \in SUBSET Lots,
             NEW counted \in [S -> 0..MaxOnHand], CreateCycleCount(where, counted)
      PROVE  PostedFor(o, p)' = PostedFor(o, p)
  BY <1>0, <1>1, <1>6, BooksStay DEF CreateCycleCount, PostCount
<1> QED BY <1>3, <1>4, <1>5, <1>6 DEF StockNext

\* The receipts of an order are those of its lines.
Booked(o) ==
  \A p \in Parts :
    PostedFor(o, p) = IF p \in DOMAIN poLines[o] THEN poLines[o][p].received ELSE 0

LEMMA ReceiptsInductive ==
  TypeOK /\ NothingReceivedYet /\ ReceiptsMatchLines /\ [Next]_vars /\ TypeOK'
    => ReceiptsMatchLines'
<1> SUFFICES ASSUME TypeOK, NothingReceivedYet, ReceiptsMatchLines, [Next]_vars, TypeOK'
             PROVE  ReceiptsMatchLines'
  OBVIOUS
<1>0. /\ late \subseteq Commands /\ poState \in [Orders -> OrderStates]
      /\ poLines = [x \in Orders |-> poLines[x]]
  BY DEF TypeOK, OrdersTypeOK
<1>1. /\ ReceiptsMatchLines <=> \A o \in Orders : <<o, "update">> \notin late => Booked(o)
      /\ ReceiptsMatchLines' <=> \A o \in Orders : <<o, "update">> \notin late' => Booked(o)'
  BY DEF ReceiptsMatchLines, InTime, Booked
\* Nothing happens to the receipts posted, and nothing to the lines of any order, or
\* only to those of an order that has received nothing or keeps what it has received.
<1>2. ASSUME UNCHANGED stockVars, late \subseteq late',
             \A o \in Orders : <<o, "update">> \notin late' =>
               \A p \in Parts :
                 (IF p \in DOMAIN poLines'[o] THEN poLines'[o][p].received ELSE 0)
                   = (IF p \in DOMAIN poLines[o] THEN poLines[o][p].received ELSE 0)
      PROVE  ReceiptsMatchLines'
  <2>1. \A o, p : PostedFor(o, p)' = PostedFor(o, p)
    BY <1>2, BooksStay DEF stockVars, lotVars
  <2> QED BY <1>1, <1>2, <2>1 DEF Booked
<1>3. CASE UNCHANGED vars
  BY <1>2, <1>3 DEF vars, orderVars
<1>4. ASSUME NEW o \in Orders, CreateOrder(o), UNCHANGED stockVars PROVE ReceiptsMatchLines'
  <2>1. PICK lines \in NewLines : poLines' = [poLines EXCEPT ![o] = lines]
    BY <1>4 DEF CreateOrder
  <2>2. \A p \in DOMAIN lines : lines[p].received = 0
    BY NewLinesReceivedNothing
  <2>3. \A p \in DOMAIN poLines[o] : poLines[o][p].received = 0
    BY <1>4 DEF NothingReceivedYet, CreateOrder
  <2>4. poLines'[o] = lines /\ \A x \in Orders \ {o} : poLines'[x] = poLines[x]
    BY <1>0, <2>1
  <2>5. late' = late
    BY <1>4 DEF CreateOrder
  <2> QED BY <1>2, <1>4, <2>2, <2>3, <2>4, <2>5
<1>5. ASSUME NEW o \in Orders, NEW c \in Clerks, NEW a \in Actions, Check(c, o, a),
             UNCHANGED stockVars
      PROVE  ReceiptsMatchLines'
  BY <1>2, <1>5 DEF Check
<1>6. ASSUME NEW o \in Orders, NEW c \in Clerks, NEW a \in Actions, Write(c, o, a),
             UNCHANGED stockVars
      PROVE  ReceiptsMatchLines'
  <2>1. PICK lines \in LinesAfter(o, a) : poLines' = [poLines EXCEPT ![o] = lines]
    BY <1>6 DEF Write
  <2>2. poLines'[o] = lines /\ \A x \in Orders \ {o} : poLines'[x] = poLines[x]
    BY <1>0, <2>1
  <2>3. late \subseteq late' /\ (<<o, a>> \notin late' => Allowed(o, a))
    BY <1>6 DEF Write
  <2>4. ASSUME <<o, "update">> \notin late', NEW p \in Parts
        PROVE  (IF p \in DOMAIN lines THEN lines[p].received ELSE 0)
                 = (IF p \in DOMAIN poLines[o] THEN poLines[o][p].received ELSE 0)
    <3>1. CASE a = "update" /\ lines # poLines[o]
      <4>1. lines \in NewLines
        BY <2>1, <3>1 DEF LinesAfter
      <4>2. poState[o] = "DRAFT"
        BY <2>3, <2>4, <3>1 DEF Allowed
      <4> QED BY <4>1, <4>2, NewLinesReceivedNothing DEF NothingReceivedYet
    <3>2. CASE a \in {"cancel", "close"}
      <4>1. \E s : lines = SetLineStates(poLines[o], s)
        BY <2>1, <3>2 DEF LinesAfter
      <4>2. PICK s : lines = SetLineStates(poLines[o], s)
        BY <4>1
      <4>3. poLines[o] \in [DOMAIN poLines[o] -> Line]
        BY DEF TypeOK, OrdersTypeOK
      <4>4. DOMAIN lines = DOMAIN poLines[o]
        BY <4>2 DEF SetLineStates
      <4>5. \A x \in DOMAIN poLines[o] : lines[x].received = poLines[o][x].received
        BY <4>2, <4>3 DEF SetLineStates, Line
      <4> QED BY <4>4, <4>5
    <3>3. CASE lines = poLines[o]
      BY <3>3
    <3>4. CASE a \in {"approve", "send"}
      BY <2>1, <3>3, <3>4 DEF LinesAfter
    <3> QED BY <3>1, <3>2, <3>3, <3>4 DEF Actions
  <2> QED BY <1>2, <1>6, <2>2, <2>3, <2>4
<1>7. ASSUME NEW o \in Orders, NEW p \in Parts, NEW accepted \in 0..MaxOnHand,
             NEW rejected \in 0..MaxOnHand,
             ReceivePurchaseOrderLine(o, p, accepted, rejected)
      PROVE  ReceiptsMatchLines'
  <2>0. accepted \in Int /\ rejected \in Int
    OBVIOUS
  <2>1. /\ p \in DOMAIN poLines[o]
        /\ poLines' = [poLines EXCEPT ![o] = [poLines[o] EXCEPT
                         ![p] = Received(poLines[o][p], accepted, rejected)]]
        /\ late' = late
    BY <1>7 DEF ReceivePurchaseOrderLine, ReceiveLine
  <2>2. poLines[o] \in [DOMAIN poLines[o] -> Line]
    BY DEF TypeOK, OrdersTypeOK
  <2>3. /\ \A x \in Orders : DOMAIN poLines'[x] = DOMAIN poLines[x]
        /\ \A x \in Orders : \A q \in DOMAIN poLines[x] : <<x, q>> # <<o, p>> =>
             poLines'[x][q].received = poLines[x][q].received
        /\ poLines'[o][p].received = poLines[o][p].received + accepted
    BY <1>0, <2>1, <2>2 DEF Received, Line
  <2>4. poLines[o][p].received \in Int
    BY <2>1, <2>2 DEF Line
  <2>5. CASE accepted = 0
    <3>1. UNCHANGED stockVars
      BY <1>7, <2>5 DEF ReceivePurchaseOrderLine
    <3> QED BY <1>2, <2>1, <2>3, <2>4, <2>5, <3>1
  <2>6. CASE accepted # 0
    <3>1. PICK l \in Lots, where \in Locations : ReceiveLot(l, where, <<o, p>>, accepted)
      BY <1>7, <2>6 DEF ReceivePurchaseOrderLine
    <3>2. /\ ledger[l]["RECEIPT"] = 0 /\ source' = [source EXCEPT ![l] = <<o, p>>]
          /\ ledger' = [ledger EXCEPT ![l]["RECEIPT"] = @ + accepted]
      BY <3>1 DEF ReceiveLot, NewLot, Post, NothingReceivedYet
    <3>3. /\ \A x \in Lots \ {l} : ledger'[x]["RECEIPT"] = ledger[x]["RECEIPT"]
          /\ ledger'[l]["RECEIPT"] = accepted
      BY <2>0, <3>2 DEF TypeOK, StockTypeOK, MovementTypes
    <3>0. EntersTheBooks(l, <<o, p>>)
      BY <3>2, <3>3 DEF EntersTheBooks
    <3>4. ASSUME NEW x, NEW q
          PROVE  PostedFor(x, q)' = PostedFor(x, q) + Part(<<o, p>> = <<x, q>>, accepted)
      <4> DEFINE from == <<o, p>>
      <4>1. EntersTheBooks(l, from)
        BY <3>0
      <4> HIDE DEF from
      <4>2. PostedFor(x, q)' = PostedFor(x, q) + Part(from = <<x, q>>, ledger'[l]["RECEIPT"])
        BY <4>1, LotEntersTheBooks
      <4> QED BY <3>3, <4>2 DEF from
    <3>5. \A x, q : PostedFor(x, q) \in Int
      BY PostedIsInteger
    <3>6. ASSUME NEW x \in Orders, Booked(x) PROVE Booked(x)'
      <4> SUFFICES ASSUME NEW q \in Parts
                   PROVE  PostedFor(x, q)' =
                            IF q \in DOMAIN poLines'[x] THEN poLines'[x][q].received ELSE 0
        BY DEF Booked
      <4>1. PostedFor(x, q) = IF q \in DOMAIN poLines[x] THEN poLines[x][q].received ELSE 0
        BY <3>6 DEF Booked
      <4>2. PostedFor(x, q)' = PostedFor(x, q) + Part(<<o, p>> = <<x, q>>, accepted)
        BY <3>4
      <4>3. CASE <<x, q>> = <<o, p>>
        BY <2>1, <2>3, <4>1, <4>2, <4>3 DEF Part
      <4>4. CASE <<x, q>> # <<o, p>>
        BY <2>3, <3>5, <4>1, <4>2, <4>4 DEF Part
      <4> QED BY <4>3, <4>4
    <3> QED BY <1>1, <2>1, <3>6
  <2> QED BY <2>5, <2>6
<1>8. ASSUME StockNext, UNCHANGED orderVars PROVE ReceiptsMatchLines'
  <2>1. \A o, p : PostedFor(o, p)' = PostedFor(o, p)
    BY <1>8, StockKeepsTheBooks
  <2> QED BY <1>1, <1>8, <2>1 DEF Booked, orderVars
<1> QED BY <1>3, <1>4, <1>5, <1>6, <1>7, <1>8 DEF Next, OrdersNext

(* What the ledger received for a line is what the line says it received,  *)
(* through any sequence of receipts, transfers and corrections, as long as *)
(* no late update replaced the lines.                                      *)
THEOREM ReceiptsAddUp == Spec => []ReceiptsMatchLines
<1>1. Init => NothingReceivedYet /\ ReceiptsMatchLines
  <2> SUFFICES ASSUME Init PROVE NothingReceivedYet /\ ReceiptsMatchLines
    OBVIOUS
  <2>1. \A l \in Lots : ledger[l]["RECEIPT"] = 0 /\ source[l] = None
    BY DEF Init, StockInit, MovementTypes
  <2>2. \A o \in Orders : DOMAIN poLines[o] = {}
    BY DEF Init, OrdersInit
  <2>3. ASSUME NEW o, NEW p PROVE PostedFor(o, p) = 0
    <3>1. Receipts \in [Lots -> Int] /\ (\A l \in LotsOf(o, p) : Receipts[l] = 0)
          /\ LotsOf(o, p) \in SUBSET Lots
      BY <2>1 DEF Receipts, LotsOf
    <3>2. IsFiniteSet(LotsOf(o, p))
      BY <3>1, StockAssumption, FS_Subset
    <3>3. SumFunctionOnSet(Receipts, LotsOf(o, p)) = 0
      BY <3>1, <3>2, SumZero
    <3> QED BY <3>3 DEF PostedFor, Receipts, LotsOf
  <2> QED BY <2>1, <2>2, <2>3 DEF NothingReceivedYet, ReceiptsMatchLines
<1>2. TypeOK /\ NothingReceivedYet /\ ReceiptsMatchLines /\ [Next]_vars /\ TypeOK'
        => NothingReceivedYet' /\ ReceiptsMatchLines'
  BY NothingYetInductive, ReceiptsInductive
<1> QED BY <1>1, <1>2, TypeCorrect, PTL DEF Spec
-----------------------------------------------------------------------------
\* What is set aside in all lots together.
SetAside      == [l \in Lots |-> balance[l].reserved]
TotalSetAside == SumFunctionOnSet(SetAside, Lots)

\* The invariant of the account: what the lots set aside is what the reservations
\* hold, so neither more than is on hand nor less than nothing is held.
SetAsideIsHeld == TotalSetAside = TotalHeld
Accounted      == 0 <= TotalHeld /\ TotalHeld <= TotalOnHand

(* The totals are integers.                                                *)
LEMMA TotalsAreIntegers ==
  ASSUME TypeOK
  PROVE  /\ TotalReceived \in Int /\ TotalOnHand \in Int /\ TotalSetAside \in Int
         /\ TotalHeld \in Int /\ TotalIssued \in Int
<1>1. Receipts \in [Lots -> Int] /\ OnHandQuantities \in [Lots -> Int] /\ SetAside \in [Lots -> Int]
  BY DEF TypeOK, StockTypeOK, Balance, MovementTypes, Receipts, OnHandQuantities, SetAside
<1>2. OpenQuantities \in [Reservations -> Int] /\ ConsumedQuantities \in [Reservations -> Int]
  BY DEF OpenQuantities, ConsumedQuantities, OpenQuantity, Reservation, TypeOK, StockTypeOK
<1> QED BY <1>1, <1>2, StockAssumption, SumType
      DEF TotalReceived, TotalOnHand, TotalSetAside, TotalHeld, TotalIssued

(* What is held is not negative and, lot by lot, there.                    *)
LEMMA HeldIsThere ==
  ASSUME TypeOK, LotsSound, OpenReservationsCanSettle, SetAsideIsHeld
  PROVE  Accounted
<1>1. OnHandQuantities \in [Lots -> Int] /\ SetAside \in [Lots -> Int]
  BY DEF TypeOK, StockTypeOK, Balance, OnHandQuantities, SetAside
<1>2. \A l \in Lots : SetAside[l] <= OnHandQuantities[l]
  BY DEF LotsSound, LotSound, OnHandQuantities, SetAside
<1>3. TotalSetAside <= TotalOnHand
  BY <1>1, <1>2, StockAssumption, SumMonotone DEF TotalSetAside, TotalOnHand
<1>4. /\ OpenQuantities \in [Reservations -> Int]
      /\ \A r \in Reservations : OpenQuantities[r] >= 0
  BY DEF OpenQuantities, OpenQuantity, OpenReservationsCanSettle, TypeOK, StockTypeOK, Reservation
<1>5. TotalHeld \in Nat
  BY <1>4, StockAssumption, SumOfNaturals DEF TotalHeld
<1> QED BY <1>3, <1>5 DEF Accounted, SetAsideIsHeld

\* A movement of one lot: what it receives, has on hand and sets aside more.
LotMoves(l, in, hand, hold) ==
  /\ l \in Lots /\ in \in Int /\ hand \in Int /\ hold \in Int
  /\ \A x \in Lots :
       /\ ledger'[x]["RECEIPT"] = ledger[x]["RECEIPT"] + Part(x = l, in)
       /\ balance'[x].onHand = balance[x].onHand + Part(x = l, hand)
       /\ balance'[x].reserved = balance[x].reserved + Part(x = l, hold)

\* The same of the stock as a whole, and what reservations hold and have used.
LotsMove(in, hand, hold) ==
  /\ TotalReceived' = TotalReceived + in
  /\ TotalOnHand'   = TotalOnHand + hand
  /\ TotalSetAside' = TotalSetAside + hold
ReservationsMove(hold, used) ==
  /\ TotalHeld'   = TotalHeld + hold
  /\ TotalIssued' = TotalIssued + used

LEMMA LotMoved ==
  ASSUME TypeOK, TypeOK', NEW l, NEW in, NEW hand, NEW hold, LotMoves(l, in, hand, hold)
  PROVE  LotsMove(in, hand, hold)
<1> USE DEF LotMoves
<1> DEFINE r == Receipts
           r1 == Receipts'
           h == OnHandQuantities
           h1 == OnHandQuantities'
           a == SetAside
           a1 == SetAside'
<1>1. /\ r \in [Lots -> Int] /\ r1 \in [Lots -> Int]
      /\ h \in [Lots -> Int] /\ h1 \in [Lots -> Int]
      /\ a \in [Lots -> Int] /\ a1 \in [Lots -> Int]
  BY DEF TypeOK, StockTypeOK, Balance, MovementTypes, Receipts, OnHandQuantities, SetAside
<1>2. \A x \in Lots : /\ r1[x] = r[x] + IF x = l THEN in ELSE 0
                      /\ h1[x] = h[x] + IF x = l THEN hand ELSE 0
                      /\ a1[x] = a[x] + IF x = l THEN hold ELSE 0
  BY DEF Receipts, OnHandQuantities, SetAside, Part
<1>3. /\ TotalReceived = SumFunctionOnSet(r, Lots) /\ TotalReceived' = SumFunctionOnSet(r1, Lots)
      /\ TotalOnHand = SumFunctionOnSet(h, Lots) /\ TotalOnHand' = SumFunctionOnSet(h1, Lots)
      /\ TotalSetAside = SumFunctionOnSet(a, Lots) /\ TotalSetAside' = SumFunctionOnSet(a1, Lots)
  BY DEF TotalReceived, TotalOnHand, TotalSetAside
<1> HIDE DEF r, r1, h, h1, a, a1
<1>4. /\ Increased(r, r1, Lots, l, in) /\ Increased(h, h1, Lots, l, hand)
      /\ Increased(a, a1, Lots, l, hold)
  BY <1>1, <1>2, StockAssumption DEF Increased
<1> QED BY <1>3, <1>4, SumAdd DEF LotsMove

(* A command that moves a reservation with its lot moves the totals.       *)
LEMMA ReservationMoved ==
  ASSUME TypeOK, NEW r, NEW row, NEW l, NEW reserved, NEW used,
         MovesTogether(r, row, l, reserved, used)
  PROVE  ReservationsMove(reserved, used)
<1>1. r \in Reservations /\ row \in Reservation /\ reserved \in Int /\ used \in Int
      /\ reservation' = [reservation EXCEPT ![r] = row]
      /\ OpenQuantity(row) = OpenQuantity(reservation[r]) + reserved
      /\ row.consumed = reservation[r].consumed + used
  BY DEF MovesTogether
<1>2. reservation \in [Reservations -> Reservation] /\ reservation[r] \in Reservation
  BY <1>1 DEF TypeOK, StockTypeOK
<1>3. SumsFollow(reservation[r], row)
  BY <1>1, <1>2, ReservationChange
<1>4. OpenQuantity(reservation[r]) \in Int /\ reservation[r].consumed \in Int
  BY <1>2 DEF OpenQuantity, Reservation
<1>5. TotalHeld \in Int /\ TotalIssued \in Int
  BY TotalsAreIntegers
<1>6. /\ TotalHeld' = TotalHeld - OpenQuantity(reservation[r]) + OpenQuantity(row)
      /\ TotalIssued' = TotalIssued - reservation[r].consumed + row.consumed
  BY <1>3 DEF SumsFollow
<1> QED BY <1>1, <1>4, <1>5, <1>6 DEF ReservationsMove

\* The steps of the account, by what they move.
Moves(in, hand, hold, used) == LotsMove(in, hand, hold) /\ ReservationsMove(hold, used)
Entry ==
  \/ \E n \in Nat \ {0} : /\ \/ Moves(n, n, 0, 0)
                             \/ Moves(0, 0, n, 0)
                             \/ Moves(0, 0, -n, 0)
                             \/ Moves(0, -n, -n, n)
                          /\ corrections' = corrections
  \/ \E n \in Int : Moves(0, n, 0, 0) /\ corrections' = corrections + 1
  \/ Moves(0, 0, 0, 0) /\ corrections' = corrections

(* Every step of purchasing and stock is an entry of the account, or none. *)
LEMMA StepsAreEntries ==
  ASSUME TypeOK, TypeOK', OpenReservationsCanSettle, Held, [Next]_vars
  PROVE  Entry
<1>0. /\ balance \in [Lots -> Balance] /\ ledger \in [Lots -> [MovementTypes -> Int]]
      /\ {"RECEIPT", "RESERVATION", "RELEASE", "ISSUE", "ADJUSTMENT",
          "TRANSFER_OUT", "TRANSFER_IN", "CYCLE_COUNT"} \subseteq MovementTypes
  BY DEF TypeOK, StockTypeOK, MovementTypes
<1>1. /\ TotalReceived \in Int /\ TotalOnHand \in Int /\ TotalSetAside \in Int
      /\ TotalHeld \in Int /\ TotalIssued \in Int /\ TotalOnHand' \in Int
  <2> DEFINE next == OnHandQuantities'
  <2>1. next \in [Lots -> Int] /\ TotalOnHand' = SumFunctionOnSet(next, Lots)
    BY DEF TypeOK, StockTypeOK, Balance, OnHandQuantities, TotalOnHand
  <2>2. TotalOnHand' \in Int
    <3> HIDE DEF next
    <3> QED BY <2>1, StockAssumption, SumType
  <2> QED BY <2>2, TotalsAreIntegers
<1>2. Quantity \subseteq Nat \ {0} /\ 0 \in Int
  BY DEF Quantity
\* What a movement that writes no reservation leaves.
<1>3. ASSUME UNCHANGED reservation PROVE ReservationsMove(0, 0)
  BY <1>1, <1>3 DEF ReservationsMove, TotalHeld, TotalIssued, OpenQuantities, ConsumedQuantities
<1>4. ASSUME UNCHANGED stockVars PROVE Entry
  <2>1. LotsMove(0, 0, 0) /\ corrections' = corrections
    BY <1>1, <1>4 DEF LotsMove, TotalReceived, TotalOnHand, TotalSetAside, Receipts,
       OnHandQuantities, SetAside, stockVars
  <2> QED BY <1>3, <1>4, <2>1 DEF stockVars, Entry, Moves
<1>5. ASSUME NEW l \in Lots, NEW where \in Locations, NEW from,
             NEW quantity \in Nat \ {0}, ReceiveLot(l, where, from, quantity)
      PROVE  Entry
  <2>1. LotMoves(l, quantity, quantity, 0)
    BY <1>0, <1>5 DEF LotMoves, ReceiveLot, Moved, Post, Balance, Part
  <2>2. Moves(quantity, quantity, 0, 0) /\ corrections' = corrections
    BY <1>3, <1>5, <2>1, LotMoved DEF Moves, ReceiveLot
  <2> QED BY <2>2 DEF Entry
<1>6. ASSUME NEW r \in Reservations, NEW l \in Lots, NEW quantity \in Quantity,
             NEW w \in WorkOrderParts \cup {None}, CreateReservation(r, l, w, quantity)
      PROVE  Entry
  <2>1. quantity \in Nat \ {0}
    BY <1>2
  <2>2. LotMoves(l, 0, 0, quantity)
    BY <1>0, <1>6, <2>1 DEF LotMoves, CreateReservation, Moved, Post, Balance, Part
  <2>3. ReservationsMove(quantity, 0)
    BY <1>6, ReserveMoves, ReservationMoved
  <2>4. Moves(0, 0, quantity, 0) /\ corrections' = corrections
    BY <1>6, <2>2, <2>3, LotMoved DEF Moves, CreateReservation
  <2> QED BY <2>1, <2>4 DEF Entry
<1>7. ASSUME NEW r \in Reservations, NEW l \in Lots, NEW quantity \in Quantity,
             ReleaseReservation(r, l, quantity)
      PROVE  Entry
  <2>1. quantity \in Nat \ {0} /\ -quantity \in Int
    BY <1>2
  <2>2. LotMoves(l, 0, 0, -quantity)
    BY <1>0, <1>7, <2>1 DEF LotMoves, ReleaseReservation, Moved, Post, Balance, Part
  <2>3. ReservationsMove(-quantity, 0)
    BY <1>7, ReleaseMoves, ReservationMoved
  <2>4. Moves(0, 0, -quantity, 0) /\ corrections' = corrections
    BY <1>7, <2>2, <2>3, LotMoved DEF Moves, ReleaseReservation
  <2> QED BY <2>1, <2>4 DEF Entry
<1>8. ASSUME NEW r \in Reservations, NEW l \in Lots, NEW quantity \in Quantity,
             ConsumeReservation(r, l, quantity)
      PROVE  Entry
  <2>1. quantity \in Nat \ {0} /\ -quantity \in Int
    BY <1>2
  <2>2. LotMoves(l, 0, -quantity, -quantity)
    BY <1>0, <1>8, <2>1 DEF LotMoves, ConsumeReservation, Moved, Post, Balance, Part
  <2>3. ReservationsMove(-quantity, quantity)
    BY <1>8, ConsumeMoves, ReservationMoved
  <2>4. Moves(0, -quantity, -quantity, quantity) /\ corrections' = corrections
    BY <1>8, <2>2, <2>3, LotMoved DEF Moves, ConsumeReservation
  <2> QED BY <2>1, <2>4 DEF Entry
<1>9. ASSUME NEW l \in Lots, NEW delta \in Int, CreateAdjustment(l, delta) PROVE Entry
  <2>1. LotMoves(l, 0, delta, 0)
    BY <1>0, <1>9 DEF LotMoves, CreateAdjustment, Moved, Post, Balance, Part
  <2>2. Moves(0, delta, 0, 0) /\ corrections' = corrections + 1
    BY <1>3, <1>9, <2>1, LotMoved DEF Moves, CreateAdjustment
  <2> QED BY <2>2 DEF Entry
\* What leaves one lot enters another.
<1>10. ASSUME NEW l \in Lots, NEW to \in Lots, NEW where \in Locations,
              NEW quantity \in Quantity, CreateTransfer(l, to, where, quantity)
       PROVE  Entry
  <2> DEFINE old  == OnHandQuantities
             less == -quantity
             mid  == [old EXCEPT ![l] = @ + less]
             next == OnHandQuantities'
  <2>1. l # to /\ quantity \in Int /\ less \in Int /\ less + quantity = 0
    BY <1>2, <1>10 DEF CreateTransfer
  <2>2. \A x \in Lots : /\ ledger'[x]["RECEIPT"] = ledger[x]["RECEIPT"]
                        /\ balance'[x].reserved = balance[x].reserved
                        /\ balance'[x].onHand = balance[x].onHand + (IF x = l THEN less ELSE 0)
                                                                  + (IF x = to THEN quantity ELSE 0)
    BY <1>0, <1>10, <2>1 DEF CreateTransfer, Moved, Balance
  <2>3. /\ old \in [Lots -> Int] /\ mid \in [Lots -> Int] /\ next \in [Lots -> Int]
        /\ \A x \in Lots : mid[x] = old[x] + IF x = l THEN less ELSE 0
        /\ \A x \in Lots : next[x] = mid[x] + IF x = to THEN quantity ELSE 0
    <3>1. old \in [Lots -> Int] /\ \A x \in Lots : old[x] = balance[x].onHand
      BY <1>0 DEF OnHandQuantities, Balance
    <3>2. next \in [Lots -> Int] /\ \A x \in Lots : next[x] = balance'[x].onHand
      BY DEF OnHandQuantities, TypeOK, StockTypeOK, Balance
    <3> HIDE DEF old, less, next
    <3> QED BY <2>1, <2>2, <3>1, <3>2 DEF mid
  <2>4. TotalOnHand = SumFunctionOnSet(old, Lots) /\ TotalOnHand' = SumFunctionOnSet(next, Lots)
    BY DEF TotalOnHand
  <2> HIDE DEF old, less, mid, next
  <2>5. Increased(old, mid, Lots, l, less) /\ Increased(mid, next, Lots, to, quantity)
    BY <2>1, <2>3, StockAssumption DEF Increased
  <2>6. /\ SumFunctionOnSet(mid, Lots) = SumFunctionOnSet(old, Lots) + less
        /\ SumFunctionOnSet(next, Lots) = SumFunctionOnSet(mid, Lots) + quantity
    BY <2>5, SumAdd
  <2>7. TotalOnHand' = TotalOnHand
    BY <1>1, <2>1, <2>4, <2>6
  <2>8. TotalReceived' = TotalReceived /\ TotalSetAside' = TotalSetAside
    BY <2>2 DEF TotalReceived, TotalSetAside, Receipts, SetAside
  <2>9. Moves(0, 0, 0, 0) /\ corrections' = corrections
    BY <1>1, <1>3, <1>10, <2>7, <2>8 DEF Moves, LotsMove, CreateTransfer
  <2> QED BY <2>9 DEF Entry
<1>11. ASSUME NEW where \in Locations, NEW S \in SUBSET Lots,
              NEW counted \in [S -> 0..MaxOnHand], CreateCycleCount(where, counted)
       PROVE  Entry
  <2>1. \A x \in Lots : /\ ledger'[x]["RECEIPT"] = ledger[x]["RECEIPT"]
                        /\ balance'[x].reserved = balance[x].reserved
    BY <1>0, <1>11, StockAssumption DEF CreateCycleCount, PostCount, Moved, Balance
  <2>2. TotalReceived' = TotalReceived /\ TotalSetAside' = TotalSetAside
    BY <2>1 DEF TotalReceived, TotalSetAside, Receipts, SetAside
  <2>3. PICK n \in Int : TotalOnHand' = TotalOnHand + n
    <3>1. \A a, b \in Int : \E n \in Int : a = b + n
      <4> TAKE a, b \in Int
      <4> WITNESS a - b \in Int
      <4> QED OBVIOUS
    <3> QED BY <1>1, <3>1
  <2>4. Moves(0, n, 0, 0) /\ corrections' = corrections + 1
    BY <1>1, <1>3, <1>11, <2>2, <2>3 DEF Moves, LotsMove, CreateCycleCount
  <2> QED BY <2>3, <2>4 DEF Entry
<1>12. ASSUME StockNext PROVE Entry
  <2>1. \A l \in Lots, counted \in 0..MaxOnHand : counted - balance[l].onHand \in Int
    BY <1>0 DEF Balance
  <2> QED BY <1>12, <2>1, <1>6, <1>7, <1>8, <1>9, <1>10, <1>11 DEF StockNext
<1>13. ASSUME NEW o \in Orders, NEW p \in Parts, NEW accepted \in 0..MaxOnHand,
              NEW rejected \in 0..MaxOnHand,
              ReceivePurchaseOrderLine(o, p, accepted, rejected)
       PROVE  Entry
  BY <1>13, <1>4, <1>5 DEF ReceivePurchaseOrderLine
<1> QED BY <1>4, <1>12, <1>13 DEF Next, vars

(* The stock as a whole keeps the account of StockAccount: every step of    *)
(* orders, lots and reservations is a step of the account or leaves it.    *)
THEOREM KeepsAccount == Spec => AccountKept
<1>1. Init => Account!Init /\ SetAsideIsHeld
  <2> SUFFICES ASSUME Init PROVE Account!Init /\ SetAsideIsHeld
    OBVIOUS
  <2>1. ASSUME NEW T, IsFiniteSet(T), NEW f, f = [x \in T |-> 0] PROVE SumFunctionOnSet(f, T) = 0
    <3>1. f \in [T -> Int] /\ \A x \in T : f[x] = 0
      BY <2>1
    <3> QED BY <2>1, <3>1, SumZero
  <2>2. /\ Receipts = [x \in Lots |-> 0] /\ OnHandQuantities = [x \in Lots |-> 0]
        /\ SetAside = [x \in Lots |-> 0]
        /\ OpenQuantities = [x \in Reservations |-> 0]
        /\ ConsumedQuantities = [x \in Reservations |-> 0]
    BY DEF Init, StockInit, Receipts, OnHandQuantities, SetAside, OpenQuantities,
       ConsumedQuantities, OpenQuantity, OpenStates, MovementTypes
  <2>3. /\ TotalReceived = 0 /\ TotalOnHand = 0 /\ TotalSetAside = 0
        /\ TotalHeld = 0 /\ TotalIssued = 0
    BY <2>1, <2>2, StockAssumption
       DEF TotalReceived, TotalOnHand, TotalSetAside, TotalHeld, TotalIssued
  <2> QED BY <2>3 DEF Account!Init, Init, StockInit, SetAsideIsHeld
<1>2. TypeOK /\ TypeOK' /\ OpenReservationsCanSettle /\ Held /\ [Next]_vars
        /\ SetAsideIsHeld => SetAsideIsHeld'
  <2> SUFFICES ASSUME TypeOK, TypeOK', OpenReservationsCanSettle, Held, [Next]_vars,
                      SetAsideIsHeld
               PROVE  SetAsideIsHeld'
    OBVIOUS
  <2> QED BY StepsAreEntries DEF Entry, Moves, LotsMove, ReservationsMove, SetAsideIsHeld
<1>3. TypeOK /\ LotsSound /\ OpenReservationsCanSettle /\ SetAsideIsHeld => Accounted
  BY HeldIsThere
<1>4. TypeOK /\ TypeOK' /\ OpenReservationsCanSettle /\ Held /\ Accounted /\ Accounted' /\ [Next]_vars
        => [Account!Next]_(Account!vars)
  <2> SUFFICES ASSUME TypeOK, TypeOK', OpenReservationsCanSettle, Held, Accounted, Accounted',
                      [Next]_vars
               PROVE  Account!Next \/ UNCHANGED Account!vars
    OBVIOUS
  <2>1. /\ TotalReceived \in Int /\ TotalOnHand \in Int
        /\ TotalHeld \in Int /\ TotalIssued \in Int
    BY TotalsAreIntegers
  <2>2. corrections \in Int
    BY DEF TypeOK, StockTypeOK
  <2> DEFINE Same == corrections' = corrections
  <2>3. ASSUME NEW n \in Nat \ {0}, Moves(n, n, 0, 0), Same PROVE Account!Receive
    BY <2>1, <2>3 DEF Account!Receive, Moves, LotsMove, ReservationsMove
  <2>4. ASSUME NEW n \in Nat \ {0}, Moves(0, 0, n, 0), Same PROVE Account!Hold
    BY <2>1, <2>4 DEF Account!Hold, Moves, LotsMove, ReservationsMove, Accounted
  <2>5. ASSUME NEW n \in Nat \ {0}, Moves(0, 0, -n, 0), Same PROVE Account!Release
    BY <2>1, <2>5 DEF Account!Release, Moves, LotsMove, ReservationsMove, Accounted
  <2>6. ASSUME NEW n \in Nat \ {0}, Moves(0, -n, -n, n), Same PROVE Account!Issue
    BY <2>1, <2>6 DEF Account!Issue, Moves, LotsMove, ReservationsMove, Accounted
  <2>7. ASSUME NEW n \in Int, Moves(0, n, 0, 0), corrections' = corrections + 1 PROVE Account!Correct
    BY <2>1, <2>7 DEF Account!Correct, Moves, LotsMove, ReservationsMove, Accounted
  <2>8. ASSUME Moves(0, 0, 0, 0), Same PROVE UNCHANGED Account!vars
    BY <2>1, <2>8 DEF Account!vars, Moves, LotsMove, ReservationsMove
  <2> QED BY StepsAreEntries, <2>3, <2>4, <2>5, <2>6, <2>7, <2>8 DEF Entry, Account!Next
<1> QED BY <1>1, <1>2, <1>3, <1>4, HeldInvariant, PTL DEF Spec, AccountKept, Account!Spec
=============================================================================
