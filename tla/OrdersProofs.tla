----------------------------- MODULE OrdersProofs -----------------------------
(***************************************************************************)
(* What work orders keep however many requests overlap and die, for any     *)
(* number of orders, operations, technicians, quotes and publications. That *)
(* an order built from a package names one rests on PlanningProofs.         *)
(***************************************************************************)
EXTENDS PlanningProofs

FloorTypeOK ==
  /\ orderStatus \in [WorkOrders -> OrderStates]
  /\ operationStatus \in [Jobs -> OperationStates]
  /\ request \in [Technicians -> Request]
  /\ contended \subseteq WorkOrders

AllOver(w) == \A x \in Operations : operationStatus[<<w, x>>] \in Terminal

\* A request has read an operation and an order that were not over, and what it
\* derived is an order's status.
RequestSound(r) ==
  /\ r.step # "idle" => r.job \in Jobs
  /\ r.step = "read" => r.from \notin Terminal
  /\ r.step \in {"read", "written", "derived"} => r.seen \notin Over \cup {"ABSENT"}
  /\ r.step \in {"derived", "settled"} => r.derived # "ABSENT"

\* What a request derived that an order is over still is so when it is written.
Finishing(r) ==
  r.step = "derived" /\ r.derived \in Over /\ r.job[1] \notin contended => AllOver(r.job[1])

Floor ==
  /\ FloorTypeOK
  /\ \A t \in Technicians : RequestSound(request[t]) /\ Finishing(request[t])
  /\ OverMeansOver

LEMMA FloorInit == Init => Floor
  <1> SUFFICES ASSUME Init PROVE Floor
    OBVIOUS
  <1>1. FloorTypeOK
    BY SMT DEF Init, OrdersInit, FloorTypeOK, OrderStates, OperationStates, Request, NoRequest
  <1>2. \A t \in Technicians : RequestSound(request[t]) /\ Finishing(request[t])
    BY SMT DEF Init, OrdersInit, NoRequest, RequestSound, Finishing
  <1>3. OverMeansOver
    BY SMT DEF Init, OrdersInit, OverMeansOver, Over
  <1> QED BY <1>1, <1>2, <1>3 DEF Floor

\* An order that is not over is derived to be over only when its operations are.
LEMMA DeriveSound ==
  ASSUME FloorTypeOK, NEW w \in WorkOrders, NEW seen \in OrderStates \ (Over \cup {"ABSENT"})
  PROVE  /\ Derive(seen, w) \in OrderStates \ {"ABSENT"}
         /\ Derive(seen, w) \in Over => AllOver(w)
  BY SMT DEF Derive, OrderStates, Over, AllOver, Terminal

\* An order becomes or stays over, and a request derives so, only with its
\* operations over.
LEMMA FloorFrame ==
  ASSUME Floor, contended' = contended, operationStatus' = operationStatus,
         orderStatus' \in [WorkOrders -> OrderStates],
         request' \in [Technicians -> Request],
         \A w \in WorkOrders : orderStatus'[w] \in Over =>
           orderStatus[w] \in Over \/ w \in contended \/ AllOver(w),
         \A t \in Technicians : request'[t] = request[t] \/
           (RequestSound(request'[t]) /\ Finishing(request'[t]))
  PROVE  Floor'
  <1>1. FloorTypeOK'
    BY DEF Floor, FloorTypeOK
  <1>2. \A w : AllOver(w)' <=> AllOver(w)
    BY DEF AllOver
  <1>3. \A t \in Technicians : RequestSound(request'[t]) /\ Finishing(request'[t])
    BY DEF Floor
  <1>4. \A t \in Technicians : RequestSound(request[t])' /\ Finishing(request[t])'
    BY <1>2, <1>3 DEF RequestSound, Finishing
  <1>5. OverMeansOver'
    BY <1>2 DEF Floor, OverMeansOver, AllOver
  <1> QED BY <1>1, <1>4, <1>5 DEF Floor

LEMMA ReadOperationKeepsFloor ==
  ASSUME Floor, NEW t \in Technicians, NEW w \in WorkOrders, NEW x \in Operations,
         NEW to \in Targets, ReadOperation(t, w, x, to)
  PROVE  Floor'
  <1> PICK r : r = [step |-> "read", job |-> <<w, x>>, from |-> operationStatus[<<w, x>>],
                    to |-> to, seen |-> orderStatus[w], derived |-> "ABSENT"]
    OBVIOUS
  <1>1. /\ operationStatus[<<w, x>>] \in OperationStates
        /\ orderStatus[w] \in OrderStates \ (Over \cup {"ABSENT"})
        /\ <<w, x>> \in Jobs
    BY DEF Floor, FloorTypeOK, ReadOperation, Jobs
  <1>2. to \in OperationStates /\ operationStatus[<<w, x>>] \notin Terminal
    <2>1. \A s \in OperationStates : /\ Allowed[s] \subseteq OperationStates
                                     /\ s \in Terminal => Allowed[s] = {}
      BY SMT DEF Allowed, OperationStates, Terminal
    <2> QED BY <1>1, <2>1 DEF ReadOperation
  <1>3. r \in Request
    BY <1>1, <1>2, SMT DEF Request, OrderStates
  <1>4. RequestSound(r) /\ Finishing(r)
    BY <1>1, <1>2 DEF RequestSound, Finishing
  <1>5. request' = [request EXCEPT ![t] = r]
    BY DEF ReadOperation
  <1> QED BY <1>3, <1>4, <1>5, FloorFrame DEF Floor, FloorTypeOK, ReadOperation, orderVars

LEMMA ReadOperationsKeepsFloor ==
  ASSUME Floor, NEW t \in Technicians, ReadOperations(t)
  PROVE  Floor'
  <1> PICK old \in Request : old = request[t]
    BY DEF Floor, FloorTypeOK
  <1>1. /\ old.step = "written" /\ old.job \in Jobs
        /\ old.seen \in OrderStates \ (Over \cup {"ABSENT"})
    BY DEF ReadOperations, Floor, RequestSound, Request
  <1>2. old.job[1] \in WorkOrders
    BY <1>1 DEF Jobs
  <1> PICK derived : derived = Derive(old.seen, old.job[1])
    OBVIOUS
  <1>3. derived \in OrderStates \ {"ABSENT"} /\ (derived \in Over => AllOver(old.job[1]))
    BY <1>1, <1>2, DeriveSound DEF Floor
  <1> PICK r : r = [step |-> "derived", job |-> old.job, from |-> "READY", to |-> "READY",
                    seen |-> old.seen, derived |-> derived]
    OBVIOUS
  <1>4. r \in Request /\ RequestSound(r) /\ Finishing(r)
    BY <1>1, <1>3, SMT DEF Request, OperationStates, RequestSound, Finishing
  <1>5. request' = [request EXCEPT ![t] = r]
    BY DEF ReadOperations
  <1> QED BY <1>4, <1>5, FloorFrame DEF Floor, FloorTypeOK, ReadOperations, orderVars

LEMMA SettleKeepsFloor ==
  ASSUME Floor, NEW t \in Technicians, SettleOrder(t)
  PROVE  Floor'
  <1> PICK old \in Request : old = request[t]
    BY DEF Floor, FloorTypeOK
  <1>1. /\ old.step = "derived" /\ old.job \in Jobs
        /\ old.derived \in OrderStates \ {"ABSENT"}
        /\ Finishing(old)
    BY DEF SettleOrder, Floor, RequestSound, Request
  <1>2. old.job[1] \in WorkOrders
    BY <1>1 DEF Jobs
  <1> PICK settling : settling = [step |-> "settled", job |-> old.job, from |-> "READY",
                                  to |-> "READY", seen |-> "ABSENT", derived |-> old.derived]
    OBVIOUS
  <1>3. settling \in Request /\ RequestSound(settling) /\ Finishing(settling)
    BY <1>1, SMT DEF Request, OperationStates, OrderStates, RequestSound, Finishing
  <1>4. NoRequest \in Request /\ RequestSound(NoRequest) /\ Finishing(NoRequest)
    BY SMT DEF NoRequest, Request, OperationStates, OrderStates, RequestSound, Finishing
  <1>5. \/ request' = [request EXCEPT ![t] = NoRequest] /\ UNCHANGED orderStatus
        \/ /\ request' = [request EXCEPT ![t] = settling]
           /\ orderStatus' = [orderStatus EXCEPT ![old.job[1]] = old.derived]
    BY DEF SettleOrder
  <1>6. orderStatus' \in [WorkOrders -> OrderStates]
    BY <1>1, <1>5 DEF Floor, FloorTypeOK
  <1>7. request' \in [Technicians -> Request] /\
        \A u \in Technicians : request'[u] = request[u] \/
           (RequestSound(request'[u]) /\ Finishing(request'[u]))
    BY <1>3, <1>4, <1>5 DEF Floor, FloorTypeOK
  <1>8. \A w \in WorkOrders : orderStatus'[w] \in Over =>
           orderStatus[w] \in Over \/ w \in contended \/ AllOver(w)
    BY <1>1, <1>2, <1>5 DEF Floor, FloorTypeOK, Finishing
  <1> QED BY <1>6, <1>7, <1>8, FloorFrame DEF SettleOrder

\* The steps that end a request and move neither orders nor operations.
LEMMA EndKeepsFloor ==
  ASSUME Floor, NEW t \in Technicians, RecordHistory(t) \/ Die(t)
  PROVE  Floor'
  <1>1. NoRequest \in Request /\ RequestSound(NoRequest) /\ Finishing(NoRequest)
    BY SMT DEF NoRequest, Request, OperationStates, OrderStates, RequestSound, Finishing
  <1>2. /\ request' = [request EXCEPT ![t] = NoRequest]
        /\ UNCHANGED <<orderStatus, operationStatus, contended>>
    BY DEF RecordHistory, Die, orderVars
  <1> QED BY <1>1, <1>2, FloorFrame DEF Floor, FloorTypeOK

\* A request that has nobody to contend with writes an operation that was not
\* over, of an order that is not over.
LEMMA WriteKeepsFloor ==
  ASSUME Floor, NEW t \in Technicians, WriteOperation(t)
  PROVE  Floor'
  <1> PICK old \in Request : old = request[t]
    BY DEF Floor, FloorTypeOK
  <1>1. /\ old.step = "read" /\ old.job \in Jobs /\ old.from \notin Terminal
        /\ old.seen \in OrderStates \ (Over \cup {"ABSENT"})
    BY DEF WriteOperation, Floor, RequestSound, Request
  <1> PICK w \in WorkOrders, x \in Operations : old.job = <<w, x>>
    BY <1>1 DEF Jobs
  <1> PICK r : r = [step |-> "written", job |-> old.job, from |-> "READY", to |-> "READY",
                    seen |-> old.seen, derived |-> "ABSENT"]
    OBVIOUS
  <1>2. r \in Request /\ RequestSound(r) /\ (r.step = "derived" => FALSE)
    BY <1>1, SMT DEF Request, OperationStates, OrderStates, RequestSound
  <1>3. /\ operationStatus' = [operationStatus EXCEPT ![<<w, x>>] = old.to]
        /\ request' = [request EXCEPT ![t] = r]
        /\ contended' = contended \cup
             (IF operationStatus[<<w, x>>] = old.from THEN {} ELSE {w})
        /\ UNCHANGED orderStatus
    BY DEF WriteOperation
  <1>4. FloorTypeOK'
    BY <1>1, <1>2, <1>3, SMT DEF Floor, FloorTypeOK, Request
  <1>5. w \notin contended' => ~AllOver(w)
    BY <1>1, <1>3 DEF AllOver
  <1>6. \A v \in WorkOrders : v # w => (AllOver(v)' <=> AllOver(v))
    BY <1>3, SMT DEF AllOver, Floor, FloorTypeOK, Jobs
  <1>7. \A v \in WorkOrders : AllOver(v) /\ v \notin contended' => AllOver(v)' /\ v \notin contended
    BY <1>3, <1>5, <1>6
  <1>8. \A v \in WorkOrders : orderStatus[v] \in Over /\ v \notin contended => AllOver(v)
    BY DEF Floor, OverMeansOver, AllOver
  <1>9. OverMeansOver'
    <2> SUFFICES ASSUME NEW v \in WorkOrders, orderStatus'[v] \in Over, v \notin contended'
                 PROVE  AllOver(v)'
      BY DEF OverMeansOver, AllOver
    <2> QED BY <1>3, <1>7, <1>8
  <1>10. ASSUME NEW u \in Technicians
         PROVE  (RequestSound(request[u]) /\ Finishing(request[u]))'
    <2> PICK q \in Request : q = request'[u]
      BY <1>4 DEF FloorTypeOK
    <2>1. CASE u = t
      BY <1>2, <1>3, <2>1 DEF Floor, FloorTypeOK, RequestSound, Finishing
    <2>2. CASE u # t
      <3>1. q = request[u]
        BY <1>3, <2>2 DEF Floor, FloorTypeOK
      <3>2. RequestSound(q) /\ Finishing(q)
        BY <3>1 DEF Floor
      <3>3. q.step = "derived" => q.job[1] \in WorkOrders
        BY <3>2 DEF RequestSound, Jobs
      <3>4. RequestSound(q) /\ Finishing(q)'
        BY <1>3, <1>7, <3>2, <3>3 DEF Finishing
      <3> QED BY <3>4 DEF RequestSound, Finishing
    <2> QED BY <2>1, <2>2
  <1> QED BY <1>4, <1>9, <1>10 DEF Floor

LEMMA NewOrderKeepsFloor ==
  ASSUME Floor, NEW w, NEW status \in {"READY", "SCHEDULED"}, NEW source,
         NewOrder(w, status, source)
  PROVE  Floor'
  <1>1. /\ UNCHANGED <<operationStatus, request, contended>>
        /\ orderStatus' = [orderStatus EXCEPT ![w] = status]
    BY DEF NewOrder, floorVars
  <1>2. status \in OrderStates /\ status \notin Over
    BY DEF OrderStates, Over
  <1>3. orderStatus' \in [WorkOrders -> OrderStates] /\
        \A v \in WorkOrders : orderStatus'[v] \in Over => orderStatus[v] \in Over
    BY <1>1, <1>2 DEF Floor, FloorTypeOK
  <1> QED BY <1>1, <1>3, FloorFrame DEF Floor, FloorTypeOK

\* A publication makes READY only operations that were pending, and schedules only
\* orders that were READY.
LEMMA PublishKeepsFloor ==
  ASSUME Floor, NEW p \in Planners, PublishSchedule(p)
  PROVE  Floor'
  <1> PICK planned : /\ operationStatus' = ReleasedOperations(planned)
                     /\ orderStatus' = ScheduledOrders(planned)
    BY DEF PublishSchedule
  <1>1. UNCHANGED <<request, contended>>
    BY DEF PublishSchedule, floorVars
  <1>2. operationStatus' \in [Jobs -> OperationStates]
    BY SMT DEF ReleasedOperations, Floor, FloorTypeOK, OperationStates
  <1>3. orderStatus' \in [WorkOrders -> OrderStates]
    BY SMT DEF ScheduledOrders, Floor, FloorTypeOK, OrderStates
  <1>4. \A w \in WorkOrders : orderStatus'[w] \in Over => orderStatus[w] \in Over
    BY SMT DEF ScheduledOrders, Over
  <1>5. \A job \in Jobs : operationStatus[job] \in Terminal => operationStatus'[job] \in Terminal
    BY SMT DEF ReleasedOperations, Terminal
  <1>6. \A w \in WorkOrders : AllOver(w) => AllOver(w)'
    BY <1>5 DEF AllOver, Jobs
  <1>7. OverMeansOver'
    BY <1>1, <1>4, <1>6 DEF Floor, OverMeansOver, AllOver
  <1>8. ASSUME NEW t \in Technicians
        PROVE  (RequestSound(request[t]) /\ Finishing(request[t]))'
    <2>1. RequestSound(request[t]) /\ Finishing(request[t])
      BY DEF Floor
    <2>2. request[t].step = "derived" => request[t].job[1] \in WorkOrders
      BY <2>1 DEF RequestSound, Jobs
    <2> QED BY <1>1, <1>6, <2>1, <2>2 DEF RequestSound, Finishing
  <1> QED BY <1>1, <1>2, <1>3, <1>7, <1>8 DEF Floor, FloorTypeOK

LEMMA FloorStep == Floor /\ [Next]_vars => Floor'
  <1> SUFFICES ASSUME Floor, [Next]_vars PROVE Floor'
    OBVIOUS
  <1>1. CASE UNCHANGED <<orderStatus, operationStatus, request, contended>>
    BY <1>1, FloorFrame DEF Floor, FloorTypeOK
  <1>2. CASE OrdersNext
    BY <1>2, ReadOperationKeepsFloor, WriteKeepsFloor, ReadOperationsKeepsFloor,
       SettleKeepsFloor, EndKeepsFloor DEF OrdersNext
  <1>3. ASSUME NEW p \in Planners, PublishSchedule(p)
        PROVE  Floor'
    BY <1>3, PublishKeepsFloor
  <1>4. ASSUME NEW k \in Builders, CreateWoOrder(k)
        PROVE  Floor'
    BY <1>4, NewOrderKeepsFloor DEF CreateWoOrder
  <1>5. ASSUME NEW s \in Sellers, NEW q \in QuoteIds, ConvertQuoteToWorkOrder(s, q)
        PROVE  Floor'
    BY <1>5, NewOrderKeepsFloor DEF ConvertQuoteToWorkOrder
  <1>6. \/ UNCHANGED <<orderStatus, operationStatus, request, contended>>
        \/ OrdersNext
        \/ \E p \in Planners : PublishSchedule(p)
        \/ \E k \in Builders : CreateWoOrder(k)
        \/ \E s \in Sellers, q \in QuoteIds : ConvertQuoteToWorkOrder(s, q)
    BY DEF Next, vars, orderVars, floorVars, BuildNext, ReadBuildPackage, ReadSignoff,
         ReadRoute, DropBuild, buildUnchanged
  <1> QED BY <1>1, <1>2, <1>3, <1>4, <1>5, <1>6

(* An order is completed or cancelled only with every operation over, for   *)
(* any number of requests, conversions and publications, unless one request *)
(* wrote an operation that another had moved since it was read.            *)
THEOREM OrdersEndWithTheirOperations == Spec => []OverMeansOver
  <1>1. Floor => OverMeansOver
    BY DEF Floor
  <1> QED BY <1>1, FloorInit, FloorStep, PTL DEF Spec

LEMMA OperationsStayOver ==
  ASSUME Floor, [Next]_vars, NEW w \in WorkOrders, NEW x \in Operations,
         operationStatus[<<w, x>>] \in Terminal, operationStatus'[<<w, x>>] \notin Terminal
  PROVE  w \in contended'
  <1>1. CASE UNCHANGED operationStatus
    BY <1>1
  <1>2. ASSUME NEW t \in Technicians, WriteOperation(t)
        PROVE  w \in contended'
    <2> PICK old \in Request : old = request[t]
      BY DEF Floor, FloorTypeOK
    <2>1. old.from \notin Terminal /\ old.job \in Jobs
      BY <1>2 DEF WriteOperation, Floor, RequestSound
    <2>2. old.job = <<w, x>>
      BY <1>2, <2>1 DEF WriteOperation, Floor, FloorTypeOK, Jobs
    <2> QED BY <1>2, <2>1, <2>2 DEF WriteOperation
  <1>3. ASSUME NEW p \in Planners, PublishSchedule(p)
        PROVE  w \in contended'
    <2> PICK planned : operationStatus' = ReleasedOperations(planned)
      BY <1>3 DEF PublishSchedule
    <2> QED BY SMT DEF ReleasedOperations, Terminal, Jobs
  <1>4. \/ UNCHANGED operationStatus
        \/ \E t \in Technicians : WriteOperation(t)
        \/ \E p \in Planners : PublishSchedule(p)
    BY DEF Next, vars, orderVars, BuildNext, ReadBuildPackage, ReadSignoff, ReadRoute,
         CreateWoOrder, DropBuild, buildUnchanged, NewOrder, OrdersNext, ReadOperation,
         ReadOperations, SettleOrder, RecordHistory, Die, ConvertQuoteToWorkOrder
  <1> QED BY <1>1, <1>2, <1>3, <1>4

LEMMA OrdersStayOver ==
  ASSUME Floor, [Next]_vars, NEW w \in WorkOrders,
         orderStatus[w] \in Over, orderStatus'[w] # orderStatus[w]
  PROVE  w \in outrun'
  <1>1. CASE UNCHANGED orderStatus
    BY <1>1
  <1>2. ASSUME NEW t \in Technicians, SettleOrder(t)
        PROVE  w \in outrun'
    <2> PICK old \in Request : old = request[t]
      BY DEF Floor, FloorTypeOK
    <2>1. old.seen \notin Over
      BY <1>2 DEF SettleOrder, Floor, RequestSound
    <2>2. old.job[1] = w
      BY <1>2 DEF SettleOrder, Floor, FloorTypeOK
    <2> QED BY <1>2, <2>1, <2>2 DEF SettleOrder
  <1>3. ASSUME NEW p \in Planners, PublishSchedule(p)
        PROVE  w \in outrun'
    <2> PICK planned : orderStatus' = ScheduledOrders(planned)
      BY <1>3 DEF PublishSchedule
    <2> QED BY SMT DEF ScheduledOrders, Over
  <1>4. ASSUME NEW v, NEW status, NEW source, NewOrder(v, status, source)
        PROVE  w \in outrun'
    BY <1>4 DEF NewOrder, Floor, FloorTypeOK, Over
  <1>5. \/ UNCHANGED orderStatus
        \/ \E t \in Technicians : SettleOrder(t)
        \/ \E p \in Planners : PublishSchedule(p)
        \/ \E v, status, source : NewOrder(v, status, source)
    BY DEF Next, vars, orderVars, BuildNext, ReadBuildPackage, ReadSignoff, ReadRoute,
         CreateWoOrder, DropBuild, buildUnchanged, OrdersNext, ReadOperation, WriteOperation,
         ReadOperations, RecordHistory, Die, ConvertQuoteToWorkOrder
  <1> QED BY <1>1, <1>2, <1>3, <1>4, <1>5

(* What has ended comes back only through a request that wrote what it had  *)
(* read before another one changed it; no publication, conversion or new    *)
(* order revives it.                                                       *)
THEOREM EndedWorkIsFinal == Spec => EndedWorkStaysEnded
  <1> DEFINE Step == /\ \A job \in Jobs :
                          operationStatus[job] \in Terminal /\ operationStatus'[job] \notin Terminal
                            => job[1] \in contended'
                     /\ \A w \in WorkOrders :
                          orderStatus[w] \in Over /\ orderStatus'[w] # orderStatus[w]
                            => w \in outrun'
  <1>1. Floor /\ [Next]_vars => Step
    BY OperationsStayOver, OrdersStayOver DEF Jobs
  <1> QED BY <1>1, FloorInit, FloorStep, PTL DEF Spec, EndedWorkStaysEnded

-----------------------------------------------------------------------------
\* An order stays there, and a quote that was converted names the order that was
\* made from it: the one whose number is its own.
Conversions ==
  /\ madeFrom \in [WorkOrders -> Sources \cup QuoteIds \cup {Nothing}]
  /\ convertedWo \in [QuoteIds -> WorkOrders \cup {Nothing}]
  /\ \A w \in WorkOrders : orderStatus[w] = "ABSENT" => madeFrom[w] = Nothing
  /\ \A q \in QuoteIds :
       /\ convertedWo[q] # Nothing =>
            convertedWo[q] = NumberOf[q] /\ madeFrom[NumberOf[q]] = q
       /\ \A w \in WorkOrders : madeFrom[w] = q => convertedWo[q] = w

LEMMA ConversionsInit == Init => Conversions
  <1> SUFFICES ASSUME Init PROVE Conversions
    OBVIOUS
  <1>1. \A q \in QuoteIds : q # Nothing
    BY ProductionAssumption
  <1> QED BY <1>1, SMT DEF Init, OrdersInit, QuotesInit, Conversions

\* No step takes an order away.
LEMMA OrdersStay ==
  ASSUME Floor, [Next]_vars, NEW w \in WorkOrders, orderStatus[w] # "ABSENT"
  PROVE  orderStatus'[w] # "ABSENT"
  <1>1. ASSUME NEW t \in Technicians, SettleOrder(t)
        PROVE  orderStatus'[w] # "ABSENT"
    <2>1. request[t].derived # "ABSENT"
      BY <1>1 DEF SettleOrder, Floor, RequestSound
    <2> QED BY <1>1, <2>1 DEF SettleOrder, Floor, FloorTypeOK
  <1>2. ASSUME NEW p \in Planners, PublishSchedule(p)
        PROVE  orderStatus'[w] # "ABSENT"
    <2> PICK planned : orderStatus' = ScheduledOrders(planned)
      BY <1>2 DEF PublishSchedule
    <2> QED BY SMT DEF ScheduledOrders
  <1>3. ASSUME NEW v, NEW status \in {"READY", "SCHEDULED"}, NEW source,
               NewOrder(v, status, source)
        PROVE  orderStatus'[w] # "ABSENT"
    BY <1>3 DEF NewOrder, Floor, FloorTypeOK
  <1>4. ASSUME NEW k \in Builders, CreateWoOrder(k)
        PROVE  orderStatus'[w] # "ABSENT"
    BY <1>3, <1>4 DEF CreateWoOrder
  <1>5. ASSUME NEW s \in Sellers, NEW q \in QuoteIds, ConvertQuoteToWorkOrder(s, q)
        PROVE  orderStatus'[w] # "ABSENT"
    BY <1>3, <1>5 DEF ConvertQuoteToWorkOrder
  <1>6. \/ UNCHANGED orderStatus
        \/ \E t \in Technicians : SettleOrder(t)
        \/ \E p \in Planners : PublishSchedule(p)
        \/ \E k \in Builders : CreateWoOrder(k)
        \/ \E s \in Sellers, q \in QuoteIds : ConvertQuoteToWorkOrder(s, q)
    BY DEF Next, vars, orderVars, BuildNext, ReadBuildPackage, ReadSignoff, ReadRoute,
         DropBuild, buildUnchanged, OrdersNext, ReadOperation, WriteOperation, ReadOperations,
         RecordHistory, Die
  <1> QED BY <1>1, <1>2, <1>4, <1>5, <1>6

\* A number that is free has been given to no quote, so a conversion that takes
\* it is the quote's first.
LEMMA ConvertKeepsConversions ==
  ASSUME Floor, Conversions, NEW s \in Sellers, NEW q \in QuoteIds,
         ConvertQuoteToWorkOrder(s, q)
  PROVE  Conversions'
  <1> PICK w \in WorkOrders : w = NumberOf[q]
    BY QuotesAssumption
  <1>1. /\ orderStatus[w] = "ABSENT" /\ madeFrom[w] = Nothing
        /\ orderStatus' = [orderStatus EXCEPT ![w] = "READY"]
        /\ madeFrom' = [madeFrom EXCEPT ![w] = q]
        /\ convertedWo' = [convertedWo EXCEPT ![q] = w]
    BY DEF ConvertQuoteToWorkOrder, NewOrder, Conversions
  <1>2. \A p \in QuoteIds : p # Nothing
    BY ProductionAssumption
  <1>3. Nothing \notin WorkOrders
    BY OrdersAssumption
  <1>4. convertedWo[q] = Nothing /\ \A v \in WorkOrders : madeFrom[v] # q
    BY <1>1, <1>2, <1>3 DEF Conversions
  <1>5. /\ madeFrom' \in [WorkOrders -> Sources \cup QuoteIds \cup {Nothing}]
        /\ convertedWo' \in [QuoteIds -> WorkOrders \cup {Nothing}]
    BY <1>1 DEF Conversions
  <1>6. \A v \in WorkOrders : orderStatus'[v] = "ABSENT" => madeFrom'[v] = Nothing
    BY <1>1, SMT DEF Floor, FloorTypeOK, Conversions
  <1>7. ASSUME NEW p \in QuoteIds, p # q
        PROVE  /\ convertedWo'[p] # Nothing =>
                    convertedWo'[p] = NumberOf[p] /\ madeFrom'[NumberOf[p]] = p
               /\ \A v \in WorkOrders : madeFrom'[v] = p => convertedWo'[p] = v
    <2>1. convertedWo'[p] = convertedWo[p]
      BY <1>1, <1>7 DEF Conversions
    <2>2. convertedWo[p] # Nothing =>
            convertedWo[p] = NumberOf[p] /\ madeFrom[NumberOf[p]] = p /\ NumberOf[p] # w
      BY <1>1, <1>2, <1>7 DEF Conversions
    <2>3. \A v \in WorkOrders : madeFrom'[v] = p => madeFrom[v] = p
      BY <1>1, <1>7 DEF Conversions
    <2>4. NumberOf[p] \in WorkOrders
      BY QuotesAssumption
    <2>5. convertedWo[p] # Nothing => madeFrom'[NumberOf[p]] = p
      BY <1>1, <2>2, <2>4 DEF Conversions
    <2>6. \A v \in WorkOrders : madeFrom[v] = p => convertedWo[p] = v
      BY DEF Conversions
    <2> QED BY <2>1, <2>2, <2>3, <2>5, <2>6
  <1>8. /\ convertedWo'[q] = NumberOf[q] /\ madeFrom'[NumberOf[q]] = q
        /\ \A v \in WorkOrders : madeFrom'[v] = q => convertedWo'[q] = v
    BY <1>1, <1>4 DEF Conversions
  <1> QED BY <1>5, <1>6, <1>7, <1>8 DEF Conversions

\* An order built from a package is made from no quote.
LEMMA CreateKeepsConversions ==
  ASSUME Floor, Origins, Conversions, NEW k \in Builders, CreateWoOrder(k)
  PROVE  Conversions'
  <1> PICK old \in Build : old = building[k]
    BY DEF Origins, Provenance
  <1> PICK source : source = <<old.package, old.route>>
    OBVIOUS
  <1> PICK w, status : w = old.order /\ status \in {"READY", "SCHEDULED"} /\ NewOrder(w, status, source)
    BY DEF CreateWoOrder
  <1>1. source \in Sources
    BY DEF CreateWoOrder, Origins, Provenance, WasReady, Sources
  <1>2. \A q \in QuoteIds : q # Nothing /\ q # source
    BY <1>1, ProductionAssumption
  <1>3. /\ orderStatus[w] = "ABSENT"
        /\ orderStatus' = [orderStatus EXCEPT ![w] = status]
        /\ madeFrom' = [madeFrom EXCEPT ![w] = source]
        /\ convertedWo' = convertedWo
    BY DEF NewOrder, CreateWoOrder, quoteVars
  <1>4. madeFrom' \in [WorkOrders -> Sources \cup QuoteIds \cup {Nothing}]
    BY <1>1, <1>3 DEF Conversions
  <1>5. \A v \in WorkOrders : orderStatus'[v] = "ABSENT" => madeFrom'[v] = Nothing
    BY <1>3, SMT DEF Floor, FloorTypeOK, Conversions
  <1>6. ASSUME NEW q \in QuoteIds
        PROVE  /\ convertedWo'[q] # Nothing =>
                    convertedWo'[q] = NumberOf[q] /\ madeFrom'[NumberOf[q]] = q
               /\ \A v \in WorkOrders : madeFrom'[v] = q => convertedWo'[q] = v
    <2>1. NumberOf[q] \in WorkOrders
      BY QuotesAssumption
    <2>2. madeFrom[NumberOf[q]] = q => madeFrom'[NumberOf[q]] = q
      <3>1. madeFrom[NumberOf[q]] = q => NumberOf[q] # w
        BY <1>2, <1>3, <2>1 DEF Conversions
      <3> QED BY <1>3, <2>1, <3>1 DEF Conversions
    <2>3. \A v \in WorkOrders : madeFrom'[v] = q => madeFrom[v] = q
      BY <1>2, <1>3 DEF Conversions
    <2> QED BY <1>3, <2>2, <2>3 DEF Conversions
  <1> QED BY <1>3, <1>4, <1>5, <1>6 DEF Conversions

LEMMA ConversionsStep == Floor /\ Origins /\ Conversions /\ [Next]_vars => Conversions'
  <1> SUFFICES ASSUME Floor, Origins, Conversions, [Next]_vars PROVE Conversions'
    OBVIOUS
  <1>1. CASE UNCHANGED <<madeFrom, convertedWo>>
    BY <1>1, OrdersStay DEF Conversions
  <1>2. ASSUME NEW k \in Builders, CreateWoOrder(k)
        PROVE  Conversions'
    BY <1>2, CreateKeepsConversions
  <1>3. ASSUME NEW s \in Sellers, NEW q \in QuoteIds, ConvertQuoteToWorkOrder(s, q)
        PROVE  Conversions'
    BY <1>3, ConvertKeepsConversions
  <1>4. \/ UNCHANGED <<madeFrom, convertedWo>>
        \/ \E k \in Builders : CreateWoOrder(k)
        \/ \E s \in Sellers, q \in QuoteIds : ConvertQuoteToWorkOrder(s, q)
    BY DEF Next, vars, orderVars, quoteVars, BuildNext, ReadBuildPackage, ReadSignoff, ReadRoute,
         DropBuild, buildUnchanged, OrdersNext, ReadOperation, WriteOperation, ReadOperations,
         SettleOrder, RecordHistory, Die, PublishSchedule, QuotesNext, CreateQuote, CheckQuote,
         SendQuote, AcceptQuote, RejectQuote, WriteQuote, DropDeal
  <1> QED BY <1>1, <1>2, <1>3, <1>4

(* A quote becomes at most one work order and names it, however many        *)
(* conversions, acceptances and rejections of it overlap: the number a      *)
(* conversion takes depends on the quote alone and is taken once.           *)
THEOREM QuotesBecomeOneOrder == Spec => []OneOrderPerQuote
  <1>1. Conversions => OneOrderPerQuote
    <2> SUFFICES ASSUME Conversions, NEW q \in QuoteIds
                 PROVE  {w \in WorkOrders : madeFrom[w] = q} =
                          IF convertedWo[q] = Nothing THEN {} ELSE {convertedWo[q]}
      BY DEF OneOrderPerQuote
    <2>1. Nothing \notin WorkOrders /\ NumberOf[q] \in WorkOrders
      BY OrdersAssumption, QuotesAssumption
    <2>2. CASE convertedWo[q] = Nothing
      BY <2>1, <2>2 DEF Conversions
    <2>3. CASE convertedWo[q] # Nothing
      BY <2>1, <2>3 DEF Conversions
    <2> QED BY <2>2, <2>3
  <1>2. Init => Floor /\ Origins /\ Conversions
    BY FloorInit, OriginsInit, ConversionsInit
  <1>3. Floor /\ Origins /\ Conversions /\ [Next]_vars => (Floor /\ Origins /\ Conversions)'
    BY FloorStep, OriginsStep, ConversionsStep
  <1> QED BY <1>1, <1>2, <1>3, PTL DEF Spec
-----------------------------------------------------------------------------
\* A request has written the order and not yet its history row.
Unwritten(w) == \E t \in Technicians : request[t].step = "settled" /\ request[t].job[1] = w

Ends(w) ==
  \/ recorded[w] = orderStatus[w]
  \/ recorded[w] = "READY" /\ orderStatus[w] = "SCHEDULED"
  \/ Unwritten(w)

History ==
  /\ recorded \in [WorkOrders -> OrderStates]
  /\ \A w \in WorkOrders : w \notin unrecorded => Ends(w)

\* A request that is not the last holder of an order leaves it held.
LEMMA StillUnwritten ==
  ASSUME Floor, NEW t \in Technicians, NEW r, request' = [request EXCEPT ![t] = r],
         NEW w \in WorkOrders, Unwritten(w),
         request[t].step # "settled" \/ request[t].job[1] # w
  PROVE  Unwritten(w)'
  BY DEF Floor, FloorTypeOK, Unwritten

LEMMA SettleKeepsHistory ==
  ASSUME Floor, History, NEW t \in Technicians, SettleOrder(t)
  PROVE  History'
  <1> PICK old \in Request : old = request[t]
    BY DEF Floor, FloorTypeOK
  <1>1. old.step = "derived" /\ UNCHANGED <<recorded, unrecorded>>
    BY DEF SettleOrder
  <1>2. SUFFICES ASSUME NEW w \in WorkOrders, Ends(w) PROVE Ends(w)'
    <2>1. \A w \in WorkOrders : w \notin unrecorded' => Ends(w)
      BY <1>1 DEF History
    <2>2. recorded' \in [WorkOrders -> OrderStates]
      BY <1>1 DEF History
    <2> QED BY <2>1, <2>2 DEF History
  <1>3. PICK next : request' = [request EXCEPT ![t] = next]
    BY DEF SettleOrder
  <1>4. Unwritten(w) => Unwritten(w)'
    BY <1>1, <1>2, <1>3, StillUnwritten
  <1>5. CASE orderStatus'[w] = orderStatus[w]
    BY <1>1, <1>2, <1>4, <1>5 DEF Ends
  <1>6. CASE orderStatus'[w] # orderStatus[w]
    <2> PICK r : r = [step |-> "settled", job |-> old.job, from |-> "READY", to |-> "READY",
                      seen |-> "ABSENT", derived |-> old.derived]
      OBVIOUS
    <2>1. /\ request' = [request EXCEPT ![t] = r]
          /\ orderStatus' = [orderStatus EXCEPT ![old.job[1]] = old.derived]
      BY <1>6 DEF SettleOrder
    <2>2. r.step = "settled" /\ r.job[1] = w
      BY <1>6, <2>1 DEF Floor, FloorTypeOK
    <2>3. request'[t] = r
      BY <2>1 DEF Floor, FloorTypeOK
    <2> QED BY <2>2, <2>3 DEF Ends, Unwritten
  <1> QED BY <1>5, <1>6

LEMMA RecordKeepsHistory ==
  ASSUME Floor, History, NEW t \in Technicians, RecordHistory(t)
  PROVE  History'
  <1> PICK old \in Request : old = request[t]
    BY DEF Floor, FloorTypeOK
  <1>1. /\ old.step = "settled" /\ UNCHANGED orderStatus
        /\ recorded' = [recorded EXCEPT ![old.job[1]] = old.derived]
        /\ request' = [request EXCEPT ![t] = NoRequest]
        /\ unrecorded' = IF orderStatus[old.job[1]] = old.derived
                         THEN unrecorded \ {old.job[1]} ELSE unrecorded \cup {old.job[1]}
    BY DEF RecordHistory
  <1>2. old.derived \in OrderStates
    BY DEF Request
  <1>3. recorded' \in [WorkOrders -> OrderStates]
    BY <1>1, <1>2 DEF History
  <1>4. ASSUME NEW w \in WorkOrders, w \notin unrecorded'
        PROVE  Ends(w)'
    <2>1. CASE w = old.job[1]
      BY <1>1, <1>4, <2>1 DEF Ends, History
    <2>2. CASE w # old.job[1]
      <3>1. Ends(w) /\ recorded'[w] = recorded[w]
        BY <1>1, <1>4, <2>2 DEF History
      <3>2. Unwritten(w) => Unwritten(w)'
        BY <1>1, <2>2, StillUnwritten
      <3> QED BY <1>1, <3>1, <3>2 DEF Ends
    <2> QED BY <2>1, <2>2
  <1> QED BY <1>3, <1>4 DEF History

\* The steps of a request before it has written the order, and its end.
LEMMA StepKeepsHistory ==
  ASSUME Floor, History, NEW t \in Technicians,
         \/ WriteOperation(t) \/ ReadOperations(t) \/ Die(t)
         \/ \E w, x, to : ReadOperation(t, w, x, to)
  PROVE  History'
  <1> PICK old \in Request : old = request[t]
    BY DEF Floor, FloorTypeOK
  <1>1. UNCHANGED <<orderStatus, recorded>> /\ unrecorded \subseteq unrecorded'
    BY DEF WriteOperation, ReadOperations, Die, ReadOperation, orderVars
  <1>2. PICK next : request' = [request EXCEPT ![t] = next]
    BY DEF WriteOperation, ReadOperations, Die, ReadOperation
  <1>3. old.step = "settled" => old.job[1] \in unrecorded'
    <2>1. CASE \E w, x, to : ReadOperation(t, w, x, to)
      <3>1. old = NoRequest
        BY <2>1 DEF ReadOperation
      <3> QED BY <3>1 DEF NoRequest
    <2>2. CASE Die(t)
      BY <2>2 DEF Die
    <2>3. CASE WriteOperation(t) \/ ReadOperations(t)
      BY <2>3 DEF WriteOperation, ReadOperations
    <2> QED BY <2>1, <2>2, <2>3
  <1>4. SUFFICES ASSUME NEW w \in WorkOrders, w \notin unrecorded', Ends(w)
                 PROVE  Ends(w)'
    <2>1. \A w \in WorkOrders : w \notin unrecorded' => Ends(w)
      BY <1>1 DEF History
    <2>2. recorded' \in [WorkOrders -> OrderStates]
      BY <1>1 DEF History
    <2> QED BY <2>1, <2>2 DEF History
  <1>5. Unwritten(w) => Unwritten(w)'
    BY <1>2, <1>3, <1>4, StillUnwritten
  <1> QED BY <1>1, <1>4, <1>5 DEF Ends

LEMMA HistoryStep == Floor /\ History /\ [Next]_vars => History'
  <1> SUFFICES ASSUME Floor, History, [Next]_vars PROVE History'
    OBVIOUS
  <1>1. CASE UNCHANGED <<orderStatus, recorded, request, unrecorded>>
    BY <1>1 DEF History, Ends, Unwritten
  <1>2. ASSUME NEW t \in Technicians, SettleOrder(t) PROVE History'
    BY <1>2, SettleKeepsHistory
  <1>3. ASSUME NEW t \in Technicians, RecordHistory(t) PROVE History'
    BY <1>3, RecordKeepsHistory
  <1>4. ASSUME NEW t \in Technicians,
               \/ WriteOperation(t) \/ ReadOperations(t) \/ Die(t)
               \/ \E w, x, to : ReadOperation(t, w, x, to)
        PROVE  History'
    BY <1>4, StepKeepsHistory
  <1>5. ASSUME NEW v, NEW status \in {"READY", "SCHEDULED"}, NEW source,
               NewOrder(v, status, source)
        PROVE  History'
    <2>1. /\ orderStatus' = [orderStatus EXCEPT ![v] = status]
          /\ recorded' = [recorded EXCEPT ![v] = status]
          /\ UNCHANGED <<request, unrecorded>>
      BY <1>5 DEF NewOrder, floorVars
    <2>2. status \in OrderStates
      BY DEF OrderStates
    <2> QED BY <2>1, <2>2 DEF Floor, FloorTypeOK, History, Ends, Unwritten
  <1>6. ASSUME NEW p \in Planners, PublishSchedule(p) PROVE History'
    <2> PICK planned : orderStatus' = ScheduledOrders(planned)
      BY <1>6 DEF PublishSchedule
    <2>1. UNCHANGED <<recorded, request, unrecorded>>
      BY <1>6 DEF PublishSchedule, floorVars
    <2>2. \A w \in WorkOrders : orderStatus'[w] = orderStatus[w] \/
                                (orderStatus[w] = "READY" /\ orderStatus'[w] = "SCHEDULED")
      BY DEF ScheduledOrders
    <2> QED BY <2>1, <2>2 DEF History, Ends, Unwritten
  <1>7. \/ UNCHANGED <<orderStatus, recorded, request, unrecorded>>
        \/ \E t \in Technicians :
             \/ SettleOrder(t) \/ RecordHistory(t)
             \/ WriteOperation(t) \/ ReadOperations(t) \/ Die(t)
             \/ \E w, x, to : ReadOperation(t, w, x, to)
        \/ \E k \in Builders : CreateWoOrder(k)
        \/ \E s \in Sellers, q \in QuoteIds : ConvertQuoteToWorkOrder(s, q)
        \/ \E p \in Planners : PublishSchedule(p)
    BY DEF Next, vars, orderVars, floorVars, BuildNext, ReadBuildPackage, ReadSignoff, ReadRoute,
         DropBuild, buildUnchanged, OrdersNext
  <1> QED BY <1>1, <1>2, <1>3, <1>4, <1>5, <1>6, <1>7 DEF CreateWoOrder, ConvertQuoteToWorkOrder

(* Whatever requests overlap and die, the history of an order that nobody   *)
(* is busy with ends with its status, unless a row came late or never.      *)
THEOREM HistoryIsCurrent == Spec => []HistoryEndsAtStatus
  <1>1. Init => History
    BY SMT DEF Init, OrdersInit, History, Ends, OrderStates
  <1>2. Floor /\ History => HistoryEndsAtStatus
    <2> SUFFICES ASSUME Floor, History, NEW w \in WorkOrders, Quiet(w), w \notin unrecorded
                 PROVE  ~Unwritten(w)
      BY DEF HistoryEndsAtStatus, History, Ends
    <2> QED BY DEF Quiet, Unwritten, NoRequest
  <1> QED BY <1>1, <1>2, FloorInit, FloorStep, HistoryStep, PTL DEF Spec
-----------------------------------------------------------------------------
\* A request has written an operation of the order and not yet settled the order.
Unsettled(w) ==
  \E t \in Technicians : request[t].step \in {"written", "derived"} /\ request[t].job[1] = w

Agreed(w) == orderStatus[w] = Derive(orderStatus[w], w) \/ Unsettled(w)

\* An order that does not exist yet has its operations untouched.
Unmade(w) == \A x \in Operations : operationStatus[<<w, x>>] = "READY"

Follows(w) ==
  IF orderStatus[w] = "ABSENT" THEN Unmade(w) ELSE w \notin outrun => Agreed(w)

\* The order a request is busy with exists.
Busy(t) == request[t].step # "idle" => orderStatus[request[t].job[1]] # "ABSENT"

Following ==
  /\ \A t \in Technicians : Busy(t)
  /\ \A w \in WorkOrders : Follows(w)

\* What is derived once stays when it is derived again.
LEMMA DeriveAgain ==
  ASSUME NEW w, NEW seen
  PROVE  Derive(Derive(seen, w), w) = Derive(seen, w)
  BY DEF Derive

\* Scheduling a READY order is what its operations make of it.
LEMMA DeriveScheduled ==
  ASSUME NEW w, Derive("READY", w) = "READY"
  PROVE  Derive("SCHEDULED", w) = "SCHEDULED"
  BY DEF Derive

\* Operations that are the same, or were pending and become READY, make the same
\* of an order.
LEMMA DeriveReleased ==
  ASSUME NEW w, NEW seen,
         \A x \in Operations : \/ operationStatus'[<<w, x>>] = operationStatus[<<w, x>>]
                               \/ /\ operationStatus[<<w, x>>] = "PENDING"
                                  /\ operationStatus'[<<w, x>>] = "READY"
  PROVE  Derive(seen, w)' = Derive(seen, w)
  <1> DEFINE Some(status)  == \E x \in Operations : operationStatus[<<w, x>>] = status
             SomeP(status) == \E x \in Operations : operationStatus'[<<w, x>>] = status
             All(states)   == \A x \in Operations : operationStatus[<<w, x>>] \in states
             AllP(states)  == \A x \in Operations : operationStatus'[<<w, x>>] \in states
  <1>1. SomeP("BLOCKED") <=> Some("BLOCKED")
    OBVIOUS
  <1>2. SomeP("IN_PROGRESS") <=> Some("IN_PROGRESS")
    OBVIOUS
  <1>3. AllP({"CANCELLED"}) <=> All({"CANCELLED"})
    OBVIOUS
  <1>4. AllP(Terminal) <=> All(Terminal)
    BY DEF Terminal
  <1> QED BY <1>1, <1>2, <1>3, <1>4 DEF Derive

LEMMA StillUnsettled ==
  ASSUME Floor, NEW t \in Technicians, NEW r, request' = [request EXCEPT ![t] = r],
         NEW w \in WorkOrders, Unsettled(w),
         request[t].step \notin {"written", "derived"} \/ request[t].job[1] # w
  PROVE  Unsettled(w)'
  BY DEF Floor, FloorTypeOK, Unsettled

LEMMA BusyStep ==
  ASSUME Floor, [Next]_vars, NEW t \in Technicians, Busy(t)
  PROVE  Busy(t)'
  <1> PICK old \in Request : old = request[t]
    BY DEF Floor, FloorTypeOK
  <1>1. old.step # "idle" => old.job[1] \in WorkOrders
    BY DEF Floor, RequestSound, Jobs
  <1>2. old.step # "idle" => orderStatus'[old.job[1]] # "ABSENT"
    BY <1>1, OrdersStay DEF Busy
  <1>3. ASSUME NEW u \in Technicians, NEW w \in WorkOrders, NEW x, NEW to,
               ReadOperation(u, w, x, to)
        PROVE  Busy(t)'
    <2>1. orderStatus' = orderStatus /\ orderStatus[w] # "ABSENT"
      BY <1>3 DEF ReadOperation, orderVars
    <2> PICK r : r = [step |-> "read", job |-> <<w, x>>, from |-> operationStatus[<<w, x>>],
                      to |-> to, seen |-> orderStatus[w], derived |-> "ABSENT"]
      OBVIOUS
    <2>2. request' = [request EXCEPT ![u] = r] /\ r.job[1] = w
      BY <1>3 DEF ReadOperation
    <2> QED BY <1>2, <2>1, <2>2 DEF Busy, Floor, FloorTypeOK
  <1>4. CASE \/ request'[t] = request[t]
             \/ request'[t].step = "idle"
             \/ old.step # "idle" /\ request'[t].job = old.job
    BY <1>2, <1>4 DEF Busy
  <1>5. ASSUME NEW u \in Technicians,
               \/ WriteOperation(u) \/ ReadOperations(u) \/ SettleOrder(u)
               \/ RecordHistory(u) \/ Die(u)
        PROVE  Busy(t)'
    <2>1. CASE u # t
      <3>1. PICK next : request' = [request EXCEPT ![u] = next]
        BY <1>5 DEF WriteOperation, ReadOperations, SettleOrder, RecordHistory, Die
      <3> QED BY <1>4, <2>1, <3>1
    <2>2. CASE u = t
      <3>1. \/ request' = [request EXCEPT ![t] = NoRequest]
            \/ /\ old.step # "idle"
               /\ \E next : request' = [request EXCEPT ![t] = next] /\ next.job = old.job
        BY <1>5, <2>2 DEF WriteOperation, ReadOperations, SettleOrder, RecordHistory, Die
      <3>2. NoRequest.step = "idle"
        BY DEF NoRequest
      <3> QED BY <1>4, <3>1, <3>2 DEF Floor, FloorTypeOK
    <2> QED BY <2>1, <2>2
  <1>6. \/ request' = request
        \/ \E u \in Technicians :
             \/ WriteOperation(u) \/ ReadOperations(u) \/ SettleOrder(u)
             \/ RecordHistory(u) \/ Die(u)
             \/ \E w \in WorkOrders, x \in Operations, to \in Targets : ReadOperation(u, w, x, to)
    BY DEF Next, vars, floorVars, BuildNext, ReadBuildPackage, ReadSignoff, ReadRoute, CreateWoOrder,
         NewOrder, DropBuild, buildUnchanged, OrdersNext, ConvertQuoteToWorkOrder, PublishSchedule
  <1> QED BY <1>3, <1>4, <1>5, <1>6

LEMMA WriteKeepsFollows ==
  ASSUME Floor, Following, NEW t \in Technicians, WriteOperation(t), NEW w \in WorkOrders
  PROVE  Follows(w)'
  <1> PICK old \in Request : old = request[t]
    BY DEF Floor, FloorTypeOK
  <1>1. /\ old.step = "read" /\ old.job \in Jobs
        /\ UNCHANGED <<orderStatus, outrun>>
    BY DEF WriteOperation, Floor, RequestSound
  <1> PICK v \in WorkOrders, y \in Operations : old.job = <<v, y>>
    BY <1>1 DEF Jobs
  <1> PICK r : r = [step |-> "written", job |-> old.job, from |-> "READY", to |-> "READY",
                    seen |-> old.seen, derived |-> "ABSENT"]
    OBVIOUS
  <1>2. /\ operationStatus' = [operationStatus EXCEPT ![<<v, y>>] = old.to]
        /\ request' = [request EXCEPT ![t] = r]
    BY DEF WriteOperation
  <1>3. CASE w = v
    <2>1. Unsettled(v)'
      BY <1>2 DEF Floor, FloorTypeOK, Unsettled
    <2>2. orderStatus'[v] # "ABSENT"
      BY <1>1 DEF Following, Busy
    <2> QED BY <1>3, <2>1, <2>2 DEF Follows, Agreed
  <1>4. CASE w # v
    <2>1. \A x \in Operations : operationStatus'[<<w, x>>] = operationStatus[<<w, x>>]
      BY <1>2, <1>4 DEF Floor, FloorTypeOK, Jobs
    <2>2. Derive(orderStatus[w], w)' = Derive(orderStatus[w], w)
      BY <1>1, <2>1 DEF Derive
    <2>3. Unsettled(w) => Unsettled(w)'
      BY <1>1, <1>2, StillUnsettled
    <2>4. Follows(w)
      BY DEF Following
    <2> QED BY <1>1, <2>1, <2>2, <2>3, <2>4 DEF Follows, Agreed, Unmade
  <1> QED BY <1>3, <1>4

LEMMA SettleKeepsFollows ==
  ASSUME Floor, Following, NEW t \in Technicians, SettleOrder(t), NEW w \in WorkOrders
  PROVE  Follows(w)'
  <1> PICK old \in Request : old = request[t]
    BY DEF Floor, FloorTypeOK
  <1> PICK v \in WorkOrders : v = old.job[1]
    BY DEF SettleOrder, Floor, RequestSound, Jobs
  <1>1. UNCHANGED operationStatus /\ old.step = "derived"
    BY DEF SettleOrder
  <1>2. PICK next : request' = [request EXCEPT ![t] = next]
    BY DEF SettleOrder
  <1>3. \A x \in WorkOrders \ {v} : orderStatus'[x] = orderStatus[x]
    BY DEF SettleOrder, Floor, FloorTypeOK
  <1>4. Follows(w)
    BY DEF Following
  <1>5. CASE w = v
    <2>1. orderStatus'[w] # "ABSENT"
      BY <1>1, <1>5 DEF SettleOrder, Floor, FloorTypeOK, RequestSound, Following, Busy
    <2>2. ASSUME w \notin outrun'
          PROVE  orderStatus'[w] = Derive(orderStatus[w], w)'
      <3>1. orderStatus[w] = old.seen /\ Derive(old.seen, w) = old.derived
        BY <1>5, <2>2 DEF SettleOrder
      <3>2. orderStatus'[w] = old.derived
        BY <1>5, <3>1 DEF SettleOrder, Floor, FloorTypeOK
      <3>3. Derive(old.derived, w) = old.derived
        BY <3>1, DeriveAgain
      <3>4. Derive(orderStatus[w], w)' = Derive(old.derived, w)
        BY <1>1, <3>2 DEF Derive
      <3> QED BY <3>2, <3>3, <3>4
    <2> QED BY <2>1, <2>2 DEF Follows, Agreed
  <1>6. CASE w # v
    <2>1. orderStatus'[w] = orderStatus[w] /\ (w \in outrun <=> w \in outrun')
      BY <1>3, <1>6 DEF SettleOrder
    <2>2. Unsettled(w) => Unsettled(w)'
      BY <1>2, <1>6, StillUnsettled
    <2>3. Derive(orderStatus[w], w)' = Derive(orderStatus[w], w)
      BY <1>1, <2>1 DEF Derive
    <2> QED BY <1>1, <1>4, <2>1, <2>2, <2>3 DEF Follows, Agreed, Unmade
  <1> QED BY <1>5, <1>6

\* The steps of a request that move neither orders nor operations.
LEMMA StepKeepsFollows ==
  ASSUME Floor, Following, NEW t \in Technicians, NEW w \in WorkOrders,
         \/ ReadOperations(t) \/ RecordHistory(t) \/ Die(t)
         \/ \E v, x, to : ReadOperation(t, v, x, to)
  PROVE  Follows(w)'
  <1> PICK old \in Request : old = request[t]
    BY DEF Floor, FloorTypeOK
  <1>1. UNCHANGED <<orderStatus, operationStatus>> /\ outrun \subseteq outrun'
    BY DEF ReadOperations, RecordHistory, Die, ReadOperation, orderVars
  <1>2. PICK next : request' = [request EXCEPT ![t] = next]
    BY DEF ReadOperations, RecordHistory, Die, ReadOperation
  <1>3. \/ old.step \notin {"written", "derived"}
        \/ old.job[1] \in outrun'
        \/ /\ request'[t].step \in {"written", "derived"}
           /\ request'[t].job = old.job
    <2>1. CASE \E v, x, to : ReadOperation(t, v, x, to)
      <3>1. old = NoRequest
        BY <2>1 DEF ReadOperation
      <3> QED BY <3>1 DEF NoRequest
    <2>2. CASE Die(t)
      BY <2>2 DEF Die
    <2>3. CASE RecordHistory(t)
      BY <2>3 DEF RecordHistory
    <2>4. CASE ReadOperations(t)
      BY <2>4 DEF ReadOperations, Floor, FloorTypeOK
    <2> QED BY <2>1, <2>2, <2>3, <2>4
  <1>4. Unsettled(w) /\ w \notin outrun' => Unsettled(w)'
    <2>1. CASE request'[t].step \in {"written", "derived"} /\ request'[t].job = old.job
      BY <1>2, <2>1 DEF Floor, FloorTypeOK, Unsettled
    <2>2. CASE ~(request'[t].step \in {"written", "derived"} /\ request'[t].job = old.job)
      BY <1>2, <1>3, <2>2, StillUnsettled
    <2> QED BY <2>1, <2>2
  <1>5. Derive(orderStatus[w], w)' = Derive(orderStatus[w], w)
    BY <1>1 DEF Derive
  <1>6. Follows(w)
    BY DEF Following
  <1> QED BY <1>1, <1>4, <1>5, <1>6 DEF Follows, Agreed, Unmade

LEMMA NewOrderKeepsFollows ==
  ASSUME Floor, Following, NEW v \in WorkOrders, NEW status \in {"READY", "SCHEDULED"}, NEW source,
         NewOrder(v, status, source), NEW w \in WorkOrders
  PROVE  Follows(w)'
  <1>1. /\ orderStatus[v] = "ABSENT"
        /\ orderStatus' = [orderStatus EXCEPT ![v] = status]
        /\ UNCHANGED <<operationStatus, request, outrun>>
    BY DEF NewOrder, floorVars
  <1>2. Follows(w)
    BY DEF Following
  <1>3. CASE w = v
    <2>1. Unmade(w)
      BY <1>1, <1>2, <1>3 DEF Follows
    <2>2. Derive(status, w) = status
      BY <2>1 DEF Unmade, Derive, Terminal
    <2>3. orderStatus'[w] = status
      BY <1>1, <1>3 DEF Floor, FloorTypeOK
    <2>4. Derive(orderStatus[w], w)' = Derive(status, w)
      BY <1>1, <2>3 DEF Derive
    <2> QED BY <2>2, <2>3, <2>4 DEF Follows, Agreed
  <1>4. CASE w # v
    <2>1. orderStatus'[w] = orderStatus[w]
      BY <1>1, <1>4
    <2>2. Derive(orderStatus[w], w)' = Derive(orderStatus[w], w)
      BY <1>1, <2>1 DEF Derive
    <2> QED BY <1>1, <1>2, <2>1, <2>2 DEF Follows, Agreed, Unmade, Unsettled
  <1> QED BY <1>3, <1>4

LEMMA PublishKeepsFollows ==
  ASSUME Floor, Following, NEW p \in Planners, PublishSchedule(p), NEW w \in WorkOrders
  PROVE  Follows(w)'
  <1> PICK planned : /\ operationStatus' = ReleasedOperations(planned)
                     /\ orderStatus' = ScheduledOrders(planned)
    BY DEF PublishSchedule
  <1>1. UNCHANGED <<request, outrun>>
    BY DEF PublishSchedule, floorVars
  <1>2. \A x \in Operations : \/ operationStatus'[<<w, x>>] = operationStatus[<<w, x>>]
                              \/ /\ operationStatus[<<w, x>>] = "PENDING"
                                 /\ operationStatus'[<<w, x>>] = "READY"
    BY DEF ReleasedOperations, Jobs
  <1>3. \/ orderStatus'[w] = orderStatus[w]
        \/ orderStatus[w] = "READY" /\ orderStatus'[w] = "SCHEDULED"
    BY DEF ScheduledOrders
  <1>4. Follows(w)
    BY DEF Following
  <1>5. Derive(orderStatus[w], w)' = Derive(orderStatus'[w], w)
    <2> PICK status : status = orderStatus'[w]
      OBVIOUS
    <2>1. Derive(status, w)' = Derive(status, w)
      BY <1>2, DeriveReleased
    <2> QED BY <2>1 DEF Derive
  <1>6. orderStatus[w] = "ABSENT" => Unmade(w)' /\ orderStatus'[w] = "ABSENT"
    BY <1>2, <1>3, <1>4 DEF Follows, Unmade
  <1>7. orderStatus[w] # "ABSENT" => orderStatus'[w] # "ABSENT"
    BY <1>3
  <1>8. orderStatus[w] = Derive(orderStatus[w], w) => orderStatus'[w] = Derive(orderStatus[w], w)'
    BY <1>3, <1>5, DeriveScheduled
  <1> QED BY <1>1, <1>4, <1>6, <1>7, <1>8 DEF Follows, Agreed, Unsettled

LEMMA FollowingStep == Floor /\ Following /\ [Next]_vars => Following'
  <1> SUFFICES ASSUME Floor, Following, [Next]_vars PROVE Following'
    OBVIOUS
  <1>1. \A t \in Technicians : Busy(t)'
    BY BusyStep DEF Following
  <1>2. ASSUME NEW w \in WorkOrders PROVE Follows(w)'
    <2>1. CASE UNCHANGED <<orderStatus, operationStatus, request, outrun>>
      <3>1. Follows(w)
        BY DEF Following
      <3> QED BY <2>1, <3>1 DEF Follows, Agreed, Unmade, Unsettled, Derive
    <2>2. ASSUME NEW k \in Builders, CreateWoOrder(k) PROVE Follows(w)'
      <3>1. PICK v, status, source : status \in {"READY", "SCHEDULED"} /\ NewOrder(v, status, source)
        BY <2>2 DEF CreateWoOrder
      <3>2. CASE v \in WorkOrders
        BY <3>1, <3>2, NewOrderKeepsFollows
      <3>3. CASE v \notin WorkOrders
        <4>1. UNCHANGED <<orderStatus, operationStatus, request, outrun>>
          BY <3>1, <3>3 DEF NewOrder, floorVars, Floor, FloorTypeOK
        <4> QED BY <2>1, <4>1
      <3> QED BY <3>2, <3>3
    <2>3. ASSUME NEW s \in Sellers, NEW q \in QuoteIds, ConvertQuoteToWorkOrder(s, q)
          PROVE  Follows(w)'
      BY <2>3, NewOrderKeepsFollows, QuotesAssumption DEF ConvertQuoteToWorkOrder
    <2>4. \/ UNCHANGED <<orderStatus, operationStatus, request, outrun>>
          \/ \E t \in Technicians :
               \/ SettleOrder(t) \/ WriteOperation(t)
               \/ ReadOperations(t) \/ RecordHistory(t) \/ Die(t)
               \/ \E v, x, to : ReadOperation(t, v, x, to)
          \/ \E k \in Builders : CreateWoOrder(k)
          \/ \E s \in Sellers, q \in QuoteIds : ConvertQuoteToWorkOrder(s, q)
          \/ \E p \in Planners : PublishSchedule(p)
      BY DEF Next, vars, orderVars, floorVars, BuildNext, ReadBuildPackage, ReadSignoff, ReadRoute,
           DropBuild, buildUnchanged, OrdersNext
    <2> QED BY <2>1, <2>2, <2>3, <2>4, SettleKeepsFollows, WriteKeepsFollows, StepKeepsFollows,
               PublishKeepsFollows
  <1> QED BY <1>1, <1>2 DEF Following

(* However requests, publications and conversions overlap and die, the      *)
(* status of an order that nobody is busy with is what its operations make *)
(* it, unless the order was last settled on a stale read, or not at all.   *)
THEOREM OrdersFollow == Spec => []OrderFollowsOperations
  <1>1. Init => Following
    BY DEF Init, OrdersInit, Following, Follows, Unmade, Busy, NoRequest, Jobs
  <1>2. Floor /\ Following => OrderFollowsOperations
    <2> SUFFICES ASSUME Floor, Following, NEW w \in WorkOrders, Quiet(w)
                 PROVE  ~Unsettled(w)
      BY DEF OrderFollowsOperations, Following, Follows, Agreed
    <2> QED BY DEF Quiet, Unsettled, NoRequest
  <1> QED BY <1>1, <1>2, FloorInit, FloorStep, FollowingStep, PTL DEF Spec
=============================================================================
