---------------------------- MODULE PurchaseOrders ----------------------------
(***************************************************************************)
(* Purchase orders and their lines, as the inventory Lambdas command them.  *)
(* Every command is one database transaction, but only a receipt locks the  *)
(* rows it decides on: the others read the order, check it and then write   *)
(* without looking again, so a command may write after its check stopped    *)
(* being true.                                                             *)
(***************************************************************************)
EXTENDS Integers, FiniteSets

CONSTANTS
  Orders,
  Parts,
  Clerks,      \* requests that may overlap
  Asks,        \* the lines a request may name: functions from parts to
               \* orderedQuantity                                       (bound)
  MaxLate      \* writes whose check had stopped being true            (bound)

ASSUME OrdersAssumption ==
  /\ \A ask \in Asks : /\ DOMAIN ask \subseteq Parts /\ DOMAIN ask # {}
                       /\ ask \in [DOMAIN ask -> Nat \ {0}]
  /\ MaxLate \in Nat

VARIABLES
  poState,
  poLines,  \* order -> part -> line: preparePurchaseOrderLines refuses two
            \* lines for one part
  command,  \* clerk -> the command it has checked and not written yet
  late      \* history: the writes whose check had stopped being true

orderVars == <<poState, poLines, command, late>>

OrderStates ==
  {"ABSENT", "DRAFT", "APPROVED", "SENT", "PARTIALLY_RECEIVED", "RECEIVED", "CANCELLED"}
LineStates == {"OPEN", "PARTIALLY_RECEIVED", "RECEIVED", "CANCELLED"}
Line == [ordered : Nat, received : Nat, rejected : Nat, state : LineStates]

Actions  == {"update", "approve", "send", "cancel", "close"}
Commands == Orders \X Actions
Idle     == <<>>

OrdersTypeOK ==
  /\ poState \in [Orders -> OrderStates]
  /\ poLines = [o \in Orders |-> poLines[o]]
  /\ \A o \in Orders :
       DOMAIN poLines[o] \subseteq Parts /\ poLines[o] \in [DOMAIN poLines[o] -> Line]
  /\ command \in [Clerks -> Commands \cup {Idle}]
  /\ late \subseteq Commands

OrdersInit ==
  /\ poState = [o \in Orders |-> "ABSENT"]
  /\ poLines = [o \in Orders |-> [p \in {} |-> Idle]]
  /\ command = [c \in Clerks |-> Idle]
  /\ late = {}

\* Lines as preparePurchaseOrderLines hands them on; validation has refused an
\* empty list and quantities that are not positive.
NewLines ==
  LET Open(n) == [ordered |-> n, received |-> 0, rejected |-> 0, state |-> "OPEN"]
  IN  {[p \in DOMAIN ask |-> Open(ask[p])] : ask \in Asks}

\* Mutant of Settled: rejected goods stay open.
AcceptedOnly(line) == line.received

Settled(line) == line.received + line.rejected

Complete(line) == Settled(line) >= line.ordered
\* hasReceivedPurchaseOrderQuantity and arePurchaseOrderLinesComplete
HasReceived(lines) == \E p \in DOMAIN lines : Settled(lines[p]) > 0
AllComplete(lines) == DOMAIN lines # {} /\ \A p \in DOMAIN lines : Complete(lines[p])

-----------------------------------------------------------------------------
CreateOrder(o) ==
  /\ poState[o] = "ABSENT"
  /\ \E lines \in NewLines : poLines' = [poLines EXCEPT ![o] = lines]
  /\ poState' = [poState EXCEPT ![o] = "DRAFT"]
  /\ UNCHANGED <<command, late>>

\* What a command requires of the order it has read. (That the vendor is active
\* and the parts exist is checked too; a refusal changes nothing.)
Allowed(o, action) ==
  CASE action = "update"  -> poState[o] = "DRAFT"
    [] action = "approve" -> poState[o] = "DRAFT" /\ poLines[o] # <<>>
    [] action = "send"    -> poState[o] = "APPROVED"
    [] action = "cancel"  -> /\ poState[o] \in {"DRAFT", "APPROVED", "SENT"}
                             /\ ~HasReceived(poLines[o])
    [] action = "close"   -> /\ poState[o] \in {"SENT", "PARTIALLY_RECEIVED"}
                             /\ AllComplete(poLines[o])

Check(c, o, action) ==
  /\ command[c] = Idle
  /\ Allowed(o, action)
  /\ command' = [command EXCEPT ![c] = <<o, action>>]
  /\ UNCHANGED <<poState, poLines, late>>

SetLineStates(lines, s) == [p \in DOMAIN lines |-> [lines[p] EXCEPT !.state = s]]

\* The lines after a command: update may replace them all, cancel and close
\* set every line's state and leave its quantities.
LinesAfter(o, action) ==
  CASE action = "update" -> NewLines \cup {poLines[o]}
    [] action = "cancel" -> {SetLineStates(poLines[o], "CANCELLED")}
    [] action = "close"  -> {SetLineStates(poLines[o], "RECEIVED")}
    [] OTHER             -> {poLines[o]}

StateAfter(o, action) ==
  CASE action = "update"  -> poState[o]
    [] action = "approve" -> "APPROVED"
    [] action = "send"    -> "SENT"
    [] action = "cancel"  -> "CANCELLED"
    [] action = "close"   -> "RECEIVED"

Write(c, o, action) ==
  /\ command[c] = <<o, action>>
  /\ Allowed(o, action) \/ Cardinality(late) < MaxLate
  /\ command' = [command EXCEPT ![c] = Idle]
  /\ \E lines \in LinesAfter(o, action) : poLines' = [poLines EXCEPT ![o] = lines]
  /\ poState' = [poState EXCEPT ![o] = StateAfter(o, action)]
  /\ late' = late \cup (IF Allowed(o, action) THEN {} ELSE {<<o, action>>})

Received(line, accepted, rejected) ==
  LET settled == Settled(line) + accepted + rejected
  IN  [ordered  |-> line.ordered,
       received |-> line.received + accepted,
       rejected |-> line.rejected + rejected,
       state    |-> IF settled >= line.ordered THEN "RECEIVED" ELSE "PARTIALLY_RECEIVED"]

\* Mutant of RolledUp: the rollup looks at the received line alone.
AnyComplete(lines) ==
  IF \E p \in DOMAIN lines : Complete(lines[p]) THEN "RECEIVED" ELSE "PARTIALLY_RECEIVED"

RolledUp(lines) == IF AllComplete(lines) THEN "RECEIVED" ELSE "PARTIALLY_RECEIVED"

\* Mutant of ReceiveLine: an order that was cancelled still takes goods.
ReceiveCancelled(o, p, accepted, rejected) ==
  /\ poState[o] \in {"APPROVED", "SENT", "PARTIALLY_RECEIVED", "CANCELLED"}
  /\ p \in DOMAIN poLines[o]
  /\ accepted + rejected \in 1..(poLines[o][p].ordered - Settled(poLines[o][p]))
  /\ LET lines == [poLines[o] EXCEPT ![p] = Received(@, accepted, rejected)]
     IN  /\ poLines' = [poLines EXCEPT ![o] = lines]
         /\ poState' = [poState EXCEPT ![o] = RolledUp(lines)]
  /\ UNCHANGED <<command, late>>

\* The order's side of receivePurchaseOrderLine, which holds the line and the
\* order FOR UPDATE from its first statement on.
ReceiveLine(o, p, accepted, rejected) ==
  /\ poState[o] \in {"APPROVED", "SENT", "PARTIALLY_RECEIVED"}
  /\ p \in DOMAIN poLines[o]
  /\ accepted + rejected \in 1..(poLines[o][p].ordered - Settled(poLines[o][p]))
  /\ LET lines == [poLines[o] EXCEPT ![p] = Received(@, accepted, rejected)]
     IN  /\ poLines' = [poLines EXCEPT ![o] = lines]
         /\ poState' = [poState EXCEPT ![o] = RolledUp(lines)]
  /\ UNCHANGED <<command, late>>

\* Every command but the receipt, which also makes stock.
OrdersNext ==
  \E o \in Orders :
    \/ CreateOrder(o)
    \/ \E c \in Clerks, action \in Actions : Check(c, o, action) \/ Write(c, o, action)

-----------------------------------------------------------------------------
\* No write of these commands to the order came too late.
InTime(o, actions) == \A a \in actions : <<o, a>> \notin late

(* A line never takes more than was ordered, whatever commands overlap the *)
(* receipts: receivePurchaseOrderLine decides on rows it has locked.       *)
NeverOverReceived ==
  \A o \in Orders : \A p \in DOMAIN poLines[o] :
    poLines[o][p].received + poLines[o][p].rejected <= poLines[o][p].ordered

(* The state of an order and those of its lines say what was received,     *)
(* unless a command wrote after its check had stopped being true: a        *)
(* receipt that commits between cancel's check and its write leaves a      *)
(* cancelled order with stock, an approval overtaken by a cancellation     *)
(* revives the order with cancelled lines.                                 *)
OrderAgreesWithLines ==
  \A o \in Orders : InTime(o, Actions) =>
    LET lines == poLines[o]
    IN  /\ poState[o] = "RECEIVED" <=> AllComplete(lines)
        /\ poState[o] = "PARTIALLY_RECEIVED" <=> HasReceived(lines) /\ ~AllComplete(lines)
        /\ \A p \in DOMAIN lines : lines[p].state =
             IF poState[o] = "CANCELLED" THEN "CANCELLED"
             ELSE IF Complete(lines[p]) THEN "RECEIVED"
             ELSE IF Settled(lines[p]) > 0 THEN "PARTIALLY_RECEIVED"
             ELSE "OPEN"

(* An order that was received in full or cancelled stays so: only a command *)
(* that writes after its check has stopped being true reopens it.          *)
SettledOrdersStay ==
  [][\A o \in Orders :
       poState[o] \in {"RECEIVED", "CANCELLED"} /\ poState'[o] # poState[o]
         => \E c \in Clerks, a \in Actions :
              command[c] = <<o, a>> /\ command'[c] = Idle /\ ~Allowed(o, a)]_orderVars
=============================================================================
