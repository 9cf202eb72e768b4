------------------------------ MODULE WorkOrders ------------------------------
(***************************************************************************)
(* Work orders on the floor: their status follows from their operations'.   *)
(* A request that moves an operation writes it, reads the operations back,  *)
(* writes the order and records the change in awaited calls of their own:   *)
(* requests interleave between any two of them, and a Lambda may die there. *)
(***************************************************************************)
EXTENDS Integers, FiniteSets

CONSTANTS
  WorkOrders,    \* work order numbers; the column is unique
  Operations,    \* of a work order
  Technicians,   \* requests that may overlap
  Targets        \* operation statuses requests ask for               (bound)

Jobs    == WorkOrders \X Operations
Nothing == <<>>

ASSUME OrdersAssumption == Nothing \notin WorkOrders

VARIABLES
  orderStatus,
  madeFrom,         \* what a work order was created from
  operationStatus,
  recorded,         \* toStatus of the latest status history row
  request,          \* technician -> the request it is in
  contended,        \* history: orders with an operation written on a stale read
  outrun,           \* history: orders whose status was last settled on a stale
                    \*   read, or not at all
  unrecorded        \* history: orders whose latest history row came too late,
                    \*   or never

orderVars == <<orderStatus, madeFrom, operationStatus, recorded>>
floorVars == <<request, contended, outrun, unrecorded>>

OrderStates == {"ABSENT", "READY", "SCHEDULED", "IN_PROGRESS", "BLOCKED", "COMPLETED", "CANCELLED"}
OperationStates == {"PENDING", "READY", "IN_PROGRESS", "BLOCKED", "DONE", "SKIPPED", "CANCELLED"}
Terminal == {"DONE", "SKIPPED", "CANCELLED"}
Over     == {"COMPLETED", "CANCELLED"}

Request == [step : {"idle", "read", "written", "derived", "settled"},
            job : Jobs \cup {Nothing},
            from : OperationStates, to : OperationStates,  \* of the operation
            seen : OrderStates, derived : OrderStates]     \* of the order
NoRequest == [step |-> "idle", job |-> Nothing, from |-> "READY", to |-> "READY",
              seen |-> "ABSENT", derived |-> "ABSENT"]

OrdersTypeOK(sources) ==
  /\ orderStatus \in [WorkOrders -> OrderStates]
  /\ madeFrom \in [WorkOrders -> sources \cup {Nothing}]
  /\ operationStatus \in [Jobs -> OperationStates]
  /\ recorded \in [WorkOrders -> OrderStates]
  /\ request \in [Technicians -> Request]
  /\ contended \subseteq WorkOrders
  /\ outrun \subseteq WorkOrders
  /\ unrecorded \subseteq WorkOrders

OrdersInit ==
  /\ orderStatus = [w \in WorkOrders |-> "ABSENT"]
  /\ madeFrom = [w \in WorkOrders |-> Nothing]
  /\ operationStatus = [job \in Jobs |-> "READY"]
  /\ recorded = [w \in WorkOrders |-> "ABSENT"]
  /\ request = [t \in Technicians |-> NoRequest]
  /\ contended = {} /\ outrun = {} /\ unrecorded = {}

-----------------------------------------------------------------------------
\* The transaction that creates an order, its READY operations and its first
\* history row; a number that is taken rolls it back.
NewOrder(w, status, from) ==
  /\ orderStatus[w] = "ABSENT"
  /\ orderStatus' = [orderStatus EXCEPT ![w] = status]
  /\ madeFrom' = [madeFrom EXCEPT ![w] = from]
  /\ recorded' = [recorded EXCEPT ![w] = status]
  /\ UNCHANGED <<operationStatus, floorVars>>

\* WO_OPERATION_TRANSITIONS
Allowed == [s \in OperationStates |->
  CASE s = "PENDING"     -> {"READY", "CANCELLED"}
    [] s = "READY"       -> {"IN_PROGRESS", "BLOCKED", "SKIPPED", "CANCELLED"}
    [] s = "IN_PROGRESS" -> {"BLOCKED", "DONE", "SKIPPED", "CANCELLED"}
    [] s = "BLOCKED"     -> {"IN_PROGRESS", "CANCELLED"}
    [] OTHER             -> {}]

\* Mutant of Derive: one operation that is over is enough.
DeriveAny(current, w) ==
  IF \E x \in Operations : operationStatus[<<w, x>>] \in Terminal THEN "COMPLETED" ELSE current

\* Mutant of Derive: an order takes its operations' word for done.
DeriveDone(current, w) ==
  IF \A x \in Operations : operationStatus[<<w, x>>] \in Terminal THEN "DONE" ELSE current

\* deriveWoStatusFromOperations
Derive(current, w) ==
  LET All(states)  == \A x \in Operations : operationStatus[<<w, x>>] \in states
      Some(status) == \E x \in Operations : operationStatus[<<w, x>>] = status
  IN  IF current = "CANCELLED" \/ Operations = {} THEN current
      ELSE IF Some("BLOCKED") THEN "BLOCKED"
      ELSE IF Some("IN_PROGRESS") THEN "IN_PROGRESS"
      ELSE IF All({"CANCELLED"}) THEN "CANCELLED"
      ELSE IF All(Terminal) THEN "COMPLETED"
      ELSE IF current = "SCHEDULED" THEN "SCHEDULED" ELSE "READY"

\* transitionWoOperation: asking for the status an operation has, or for one it
\* may not take, changes nothing.
ReadOperation(t, w, x, to) ==
  /\ request[t] = NoRequest
  /\ orderStatus[w] \notin Over \cup {"ABSENT"}
  /\ to \in Allowed[operationStatus[<<w, x>>]]
  /\ request' = [request EXCEPT ![t] =
       [step |-> "read", job |-> <<w, x>>, from |-> operationStatus[<<w, x>>], to |-> to,
        seen |-> orderStatus[w], derived |-> "ABSENT"]]
  /\ UNCHANGED <<orderVars, contended, outrun, unrecorded>>

WriteOperation(t) ==
  LET r == request[t]
      w == r.job[1]
  IN  /\ r.step = "read"
      /\ operationStatus' = [operationStatus EXCEPT ![r.job] = r.to]
      /\ contended' = contended \cup (IF operationStatus[r.job] = r.from THEN {} ELSE {w})
      /\ request' = [request EXCEPT ![t] =
           [step |-> "written", job |-> r.job, from |-> "READY", to |-> "READY",
            seen |-> r.seen, derived |-> "ABSENT"]]
      /\ UNCHANGED <<orderStatus, madeFrom, recorded, outrun, unrecorded>>

ReadOperations(t) ==
  LET r == request[t]
  IN  /\ r.step = "written"
      /\ request' = [request EXCEPT ![t] =
           [step |-> "derived", job |-> r.job, from |-> "READY", to |-> "READY",
            seen |-> r.seen, derived |-> Derive(r.seen, r.job[1])]]
      /\ UNCHANGED <<orderVars, contended, outrun, unrecorded>>

\* The order is written only if its status is to differ from the one read.
SettleOrder(t) ==
  LET r == request[t]
      w == r.job[1]
      fresh == orderStatus[w] = r.seen /\ Derive(r.seen, w) = r.derived
  IN  /\ r.step = "derived"
      /\ outrun' = IF fresh THEN outrun \ {w} ELSE outrun \cup {w}
      /\ IF r.derived = r.seen
         THEN /\ request' = [request EXCEPT ![t] = NoRequest]
              /\ UNCHANGED orderStatus
         ELSE /\ request' = [request EXCEPT ![t] =
                   [step |-> "settled", job |-> r.job, from |-> "READY", to |-> "READY",
                    seen |-> "ABSENT", derived |-> r.derived]]
              /\ orderStatus' = [orderStatus EXCEPT ![w] = r.derived]
      /\ UNCHANGED <<madeFrom, operationStatus, recorded, contended, unrecorded>>

\* Mutant of RecordHistory: only the end of an order is recorded.
RecordEnd(t) ==
  LET r == request[t]
      w == r.job[1]
  IN  /\ r.step = "settled"
      /\ recorded' = IF r.derived \in Over THEN [recorded EXCEPT ![w] = r.derived] ELSE recorded
      /\ unrecorded' = IF orderStatus[w] = r.derived THEN unrecorded \ {w} ELSE unrecorded \cup {w}
      /\ request' = [request EXCEPT ![t] = NoRequest]
      /\ UNCHANGED <<orderStatus, madeFrom, operationStatus, contended, outrun>>

RecordHistory(t) ==
  LET r == request[t]
      w == r.job[1]
  IN  /\ r.step = "settled"
      /\ recorded' = [recorded EXCEPT ![w] = r.derived]
      /\ unrecorded' = IF orderStatus[w] = r.derived THEN unrecorded \ {w} ELSE unrecorded \cup {w}
      /\ request' = [request EXCEPT ![t] = NoRequest]
      /\ UNCHANGED <<orderStatus, madeFrom, operationStatus, contended, outrun>>

\* A call fails, or the Lambda dies or times out: what was written stays.
Die(t) ==
  LET r == request[t]
      w == r.job[1]
  IN  /\ r.step # "idle"
      /\ outrun' = outrun \cup (IF r.step \in {"written", "derived"} THEN {w} ELSE {})
      /\ unrecorded' = unrecorded \cup (IF r.step = "settled" THEN {w} ELSE {})
      /\ request' = [request EXCEPT ![t] = NoRequest]
      /\ UNCHANGED <<orderVars, contended>>

OrdersNext ==
  \E t \in Technicians :
    \/ \E w \in WorkOrders, x \in Operations, to \in Targets : ReadOperation(t, w, x, to)
    \/ WriteOperation(t)
    \/ ReadOperations(t)
    \/ SettleOrder(t)
    \/ RecordHistory(t)
    \/ Die(t)

-----------------------------------------------------------------------------
Quiet(w) == \A t \in Technicians : request[t] = NoRequest \/ request[t].job[1] # w

(* An order is completed or cancelled only with every operation over, also  *)
(* while requests on its other operations overlap and die: each derives     *)
(* from operations that cannot reopen. Only a request that writes an        *)
(* operation another one has moved since it was read can reopen it.        *)
OverMeansOver ==
  \A w \in WorkOrders : orderStatus[w] \in Over /\ w \notin contended =>
    \A x \in Operations : operationStatus[<<w, x>>] \in Terminal

(* When no request is busy with an order, its status is what its operations *)
(* make it, unless the request that settled it last had read the order or   *)
(* the operations before another one changed them, or a request died        *)
(* between its operation and the order. Publishing a schedule keeps this.   *)
OrderFollowsOperations ==
  \A w \in WorkOrders :
    orderStatus[w] # "ABSENT" /\ Quiet(w) /\ w \notin outrun
      => orderStatus[w] = Derive(orderStatus[w], w)

(* When no request is busy with an order, its history ends with its status, *)
(* unless a row came after the order had moved on, or never; scheduling a   *)
(* READY order is the one change that leaves no row.                        *)
HistoryEndsAtStatus ==
  \A w \in WorkOrders :
    Quiet(w) /\ w \notin unrecorded =>
      \/ recorded[w] = orderStatus[w]
      \/ recorded[w] = "READY" /\ orderStatus[w] = "SCHEDULED"
=============================================================================
