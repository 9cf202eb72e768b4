----------------------------- MODULE InvoiceSync -----------------------------
(***************************************************************************)
(* The outbound invoice pipeline of the accounting context: work orders    *)
(* become rows of invoice_sync_records, invocations of InvoiceSyncProcessor *)
(* push them to QuickBooks, and operators retry, mark or requeue them.     *)
(*                                                                         *)
(* One action is one awaited statement (a Prisma call or a QuickBooks      *)
(* request), because between two of them any other invocation may run.     *)
(* Every awaited call may throw before it takes effect, or take effect and *)
(* lose its answer; a Lambda may be killed between any two of them.        *)
(***************************************************************************)
EXTENDS Integers, FiniteSets

CONSTANTS
  Records,      \* primary keys of invoice_sync_records
  WorkOrders,   \* completed work orders; the document number is INV-<work order>
  Customers,    \* customer rows with an externalReference
  CustomerOf,   \* work order -> its customer row, or None: nothing to create
  QbInvoiceIds, \* ids QuickBooks can still give to invoices   (bound)
  QbCustomerIds,\* ids QuickBooks can still give to customers  (bound)
  DefaultCustomer, \* the literal '1' of the walk-in customer
  Procs,        \* concurrent invocations of InvoiceSyncProcessor
  Mortal,       \* those of them that may be killed in the middle
  Creators,     \* concurrent invocations that create records
  Requeuers,    \* concurrent retry-sync / failure-queue requests
  Services,     \* concurrent calls of the InvoiceSyncService routes
  Retriers,     \* concurrent retryInvoiceSyncHandler requests
  BatchSize,    \* take of processPendingBatch
  MaxAttempts,  \* bound: a record with so many attempts is not retried
  None

ASSUME ConstantsAssumption ==
  /\ IsFiniteSet(Records) /\ IsFiniteSet(Procs)
  /\ IsFiniteSet(QbInvoiceIds) /\ IsFiniteSet(QbCustomerIds)
  /\ CustomerOf \in [WorkOrders -> Customers \cup {None}]
  /\ None \notin Records \cup WorkOrders \cup Customers
  /\ None \notin QbInvoiceIds \cup QbCustomerIds \cup {DefaultCustomer}
  /\ Mortal \subseteq Procs
  /\ BatchSize \in Nat \ {0}
  /\ MaxAttempts \in Nat

VARIABLES
  \* invoice_sync_records, one function per column
  state, attemptCount, externalReference, workOrderId, createdAt,
  \* external_id_mappings for entity types Invoice and Customer
  invoiceMapping, customerMapping,
  \* what exists in QuickBooks: which record or customer each object was made for
  qbInvoice, qbCustomer,
  \* one invocation of the processor: its batch and the locals of processRecord
  todo, pc, recordId, customerRef, invoiceId,
  \* creation requests, requeue requests, service calls
  creating, requeue, retrying, save,
  \* history: rows that two invocations worked on at once, or a row image was saved
  \* over, since the last time that an invocation took them up alone
  contested

rows     == <<state, attemptCount, externalReference, workOrderId, createdAt>>
mappings == <<invoiceMapping, customerMapping>>
quickbooks == <<qbInvoice, qbCustomer>>
outside  == <<quickbooks, contested>>
locals   == <<todo, pc, recordId, customerRef, invoiceId>>
requests == <<creating, requeue, retrying, save>>
vars     == <<rows, mappings, outside, locals, requests>>

SyncStates == {"PENDING", "IN_PROGRESS", "SYNCED", "FAILED", "CANCELLED"}
Steps == {"idle", "preflight", "reject", "start", "resolve", "find",
          "createCustomer", "mapCustomer", "createInvoice", "mapInvoice",
          "finish", "fail"}

Stored       == {r \in Records : state[r] # "ABSENT"}
InState(s)   == {r \in Records : state[r] = s}
InvoicesOf(r)  == {i \in QbInvoiceIds : qbInvoice[i] = r}
QbCustomersOf(c) == {q \in QbCustomerIds : qbCustomer[q] = c}

\* The bound on retries; no limit exists in the code.
MayRetry(r) == attemptCount[r] < MaxAttempts

\* The row image a service call holds between its read and its save.
Images == [rec : Records, state : SyncStates, attempts : Nat,
           ref : QbInvoiceIds \cup {None}]

TypeOK ==
  /\ state \in [Records -> SyncStates \cup {"ABSENT"}]
  /\ attemptCount \in [Records -> Nat]
  /\ externalReference \in [Records -> QbInvoiceIds \cup {None}]
  /\ workOrderId \in [Records -> WorkOrders \cup {None}]
  /\ createdAt \in [Records -> Nat]
  /\ invoiceMapping \in [Records -> QbInvoiceIds \cup {None}]
  /\ customerMapping \in [Customers -> QbCustomerIds \cup {None}]
  /\ qbInvoice \in [QbInvoiceIds -> Records \cup {None}]
  /\ qbCustomer \in [QbCustomerIds -> Customers \cup {None}]
  /\ todo \in [Procs -> SUBSET Records]
  /\ pc \in [Procs -> Steps]
  /\ recordId \in [Procs -> Records \cup {None}]
  /\ customerRef \in [Procs -> QbCustomerIds \cup {DefaultCustomer, None}]
  /\ invoiceId \in [Procs -> QbInvoiceIds \cup {None}]
  /\ creating \in [Creators -> WorkOrders \cup {None}]
  /\ requeue \in [Requeuers -> SUBSET Records]
  /\ retrying \in [Retriers -> Records \cup {None}]
  /\ save \in [Services \cup Retriers -> Images \cup {None}]
  /\ contested \subseteq Records

Init ==
  /\ state = [r \in Records |-> "ABSENT"]
  /\ attemptCount = [r \in Records |-> 0]
  /\ externalReference = [r \in Records |-> None]
  /\ workOrderId = [r \in Records |-> None]
  /\ createdAt = [r \in Records |-> 0]
  /\ invoiceMapping = [r \in Records |-> None]
  /\ customerMapping = [c \in Customers |-> None]
  /\ qbInvoice = [i \in QbInvoiceIds |-> None]
  /\ qbCustomer = [q \in QbCustomerIds |-> None]
  /\ todo = [p \in Procs |-> {}]
  /\ pc = [p \in Procs |-> "idle"]
  /\ recordId = [p \in Procs |-> None]
  /\ customerRef = [p \in Procs |-> None]
  /\ invoiceId = [p \in Procs |-> None]
  /\ creating = [k \in Creators |-> None]
  /\ requeue = [q \in Requeuers |-> {}]
  /\ retrying = [t \in Retriers |-> None]
  /\ save = [s \in Services \cup Retriers |-> None]
  /\ contested = {}

-----------------------------------------------------------------------------
(* Creation of records *)

\* prisma.create of a PENDING row under a fresh uuid.
InsertPending(w) ==
  \E r \in Records \ Stored :
    /\ state' = [state EXCEPT ![r] = "PENDING"]
    /\ workOrderId' = [workOrderId EXCEPT ![r] = w]
    /\ createdAt' = [createdAt EXCEPT ![r] = Cardinality(Stored) + 1]
    /\ UNCHANGED <<attemptCount, externalReference>>

\* work_order.completed job: findFirst on the work order, CANCELLED rows ignored.
JobCheck(k, w) ==
  /\ creating[k] = None
  /\ \A r \in Stored : workOrderId[r] = w => state[r] = "CANCELLED"
  /\ creating' = [creating EXCEPT ![k] = w]
  /\ UNCHANGED <<rows, mappings, outside, locals, requeue, retrying, save>>

\* InvoiceSyncService.createRecord: findByInvoiceNumber, whatever the state.
CreateRecordCheck(k, w) ==
  /\ creating[k] = None
  /\ \A r \in Stored : workOrderId[r] # w
  /\ creating' = [creating EXCEPT ![k] = w]
  /\ UNCHANGED <<rows, mappings, outside, locals, requeue, retrying, save>>

\* The insert both of them do after their check.
CheckedInsert(k) ==
  /\ creating[k] # None
  /\ InsertPending(creating[k])
  /\ creating' = [creating EXCEPT ![k] = None]
  /\ UNCHANGED <<mappings, outside, locals, requeue, retrying, save>>

\* The insert throws and the request ends without a row.
InsertThrows(k) ==
  /\ creating[k] # None
  /\ creating' = [creating EXCEPT ![k] = None]
  /\ UNCHANGED <<rows, mappings, outside, locals, requeue, retrying, save>>

\* triggerSyncHandler inserts without looking.
TriggerSync(w) ==
  /\ InsertPending(w)
  /\ UNCHANGED <<mappings, outside, locals, requests>>

-----------------------------------------------------------------------------
(* InvoiceSyncProcessor *)

Oldest(S) == {r \in S : \A s \in S : createdAt[r] <= createdAt[s]}

\* Mutant of PendingBatch: takes one row less than the batch size.
PendingBatchShort ==
  {r \in InState("PENDING") :
     Cardinality({s \in InState("PENDING") : createdAt[s] < createdAt[r]}) < BatchSize - 1}

\* processPendingBatch: the BatchSize oldest PENDING rows.
PendingBatch ==
  {r \in InState("PENDING") :
     Cardinality({s \in InState("PENDING") : createdAt[s] < createdAt[r]}) < BatchSize}

StartBatch(p) ==
  /\ pc[p] = "idle" /\ todo[p] = {}
  /\ PendingBatch # {}
  /\ todo' = [todo EXCEPT ![p] = PendingBatch]
  /\ UNCHANGED <<rows, mappings, outside, pc, recordId, customerRef, invoiceId, requests>>

\* processRecord called for one record, on trigger.
StartOne(p, r) ==
  /\ pc[p] = "idle" /\ todo[p] = {}
  /\ state[r] \in {"PENDING", "FAILED"} /\ MayRetry(r)
  /\ todo' = [todo EXCEPT ![p] = {r}]
  /\ UNCHANGED <<rows, mappings, outside, pc, recordId, customerRef, invoiceId, requests>>

\* The history when p takes up row r: contested again if another invocation holds
\* it, and no longer if none does.
TakenUp(p, r) ==
  IF \E q \in Procs \ {p} : recordId[q] = r THEN contested \cup {r} ELSE contested \ {r}

\* findUnique and the state check: the next record of the batch, or a skip.
ReadRecord(p, r) ==
  /\ pc[p] = "idle"
  /\ r \in Oldest(todo[p])
  /\ todo' = [todo EXCEPT ![p] = @ \ {r}]
  /\ IF state[r] \in {"PENDING", "FAILED"}
       THEN /\ pc' = [pc EXCEPT ![p] = "preflight"]
            /\ recordId' = [recordId EXCEPT ![p] = r]
            /\ contested' = TakenUp(p, r)
       ELSE UNCHANGED <<pc, recordId, contested>>
  /\ UNCHANGED <<rows, mappings, quickbooks, customerRef, invoiceId, requests>>

\* validateInvoiceMappings finds every required mapping, or not.
Preflight(p) ==
  /\ pc[p] = "preflight"
  /\ pc' \in {[pc EXCEPT ![p] = next] : next \in {"start", "reject"}}
  /\ UNCHANGED <<rows, mappings, outside, todo, recordId, customerRef, invoiceId, requests>>

\* processRecord returns; the batch goes on with its next record.
Return(p) ==
  /\ pc' = [pc EXCEPT ![p] = "idle"]
  /\ recordId' = [recordId EXCEPT ![p] = None]
  /\ customerRef' = [customerRef EXCEPT ![p] = None]
  /\ invoiceId' = [invoiceId EXCEPT ![p] = None]

\* An unconditional update ... where { id } data { state }.
SetState(r, s) == state' = [state EXCEPT ![r] = s]

\* FAILED with MAPPING_MISSING, or FAILED from the catch block.
WriteFailed(p) ==
  /\ pc[p] \in {"reject", "fail"}
  /\ SetState(recordId[p], "FAILED")
  /\ Return(p)
  /\ UNCHANGED <<attemptCount, externalReference, workOrderId, createdAt,
                 mappings, outside, todo, requests>>

\* Mutant of MarkInProgress: the increment of attemptCount is forgotten.
MarkInProgressUncounted(p) ==
  /\ pc[p] = "start"
  /\ SetState(recordId[p], "IN_PROGRESS")
  /\ pc' = [pc EXCEPT ![p] = "resolve"]
  /\ UNCHANGED <<attemptCount, externalReference, workOrderId, createdAt, mappings,
                 outside, todo, recordId, customerRef, invoiceId, requests>>

\* The update to IN_PROGRESS that counts the attempt.
MarkInProgress(p) ==
  /\ pc[p] = "start"
  /\ SetState(recordId[p], "IN_PROGRESS")
  /\ attemptCount' = [attemptCount EXCEPT ![recordId[p]] = @ + 1]
  /\ pc' = [pc EXCEPT ![p] = "resolve"]
  /\ UNCHANGED <<externalReference, workOrderId, createdAt, mappings, outside,
                 todo, recordId, customerRef, invoiceId, requests>>

\* The customer row the record's work order refers to.
Customer(p) == CustomerOf[workOrderId[recordId[p]]]

\* The answer of a call arrives and the code goes on at next, or it is lost
\* and the catch block takes over.
Answered(p, next) == \E to \in {next, "fail"} : pc' = [pc EXCEPT ![p] = to]

\* Work order and parts loaded. Without a customer row the invoice goes to whatever
\* customer QuickBooks finds under the reference, or to the default one; a mapped
\* customer is taken from its mapping; any other has to be looked for in QuickBooks.
ResolveCustomer(p) ==
  /\ pc[p] = "resolve"
  /\ \/ /\ Customer(p) = None
        /\ \E ref \in {DefaultCustomer} \cup (QbCustomerIds \ QbCustomersOf(None)) :
             customerRef' = [customerRef EXCEPT ![p] = ref]
        /\ pc' = [pc EXCEPT ![p] = "createInvoice"]
     \/ /\ Customer(p) # None
        /\ customerMapping[Customer(p)] # None
        /\ customerRef' = [customerRef EXCEPT ![p] = customerMapping[Customer(p)]]
        /\ pc' = [pc EXCEPT ![p] = "createInvoice"]
     \/ /\ Customer(p) # None
        /\ customerMapping[Customer(p)] = None
        /\ customerRef' = customerRef
        /\ pc' = [pc EXCEPT ![p] = "find"]
  /\ UNCHANGED <<rows, mappings, outside, todo, recordId, invoiceId, requests>>

\* Mutant of FindCustomer: a customer not found is taken for the default one.
FindCustomerOrDefault(p) ==
  /\ pc[p] = "find"
  /\ \/ \E q \in QbCustomersOf(Customer(p)) :
          customerRef' = [customerRef EXCEPT ![p] = q]
     \/ /\ QbCustomersOf(Customer(p)) = {}
        /\ customerRef' = [customerRef EXCEPT ![p] = DefaultCustomer]
  /\ pc' = [pc EXCEPT ![p] = "mapCustomer"]
  /\ UNCHANGED <<rows, mappings, outside, todo, recordId, invoiceId, requests>>

\* Mutant of FindCustomer: a customer without a mapping is created unseen.
FindCustomerSkipped(p) ==
  /\ pc[p] = "find"
  /\ pc' = [pc EXCEPT ![p] = "createCustomer"]
  /\ UNCHANGED <<rows, mappings, outside, todo, recordId, customerRef, invoiceId, requests>>

\* findCustomer by display name: the customer it finds, or none.
FindCustomer(p) ==
  /\ pc[p] = "find"
  /\ \/ \E q \in QbCustomersOf(Customer(p)) :
          /\ customerRef' = [customerRef EXCEPT ![p] = q]
          /\ pc' = [pc EXCEPT ![p] = "mapCustomer"]
     \/ /\ QbCustomersOf(Customer(p)) = {}
        /\ customerRef' = customerRef
        /\ pc' = [pc EXCEPT ![p] = "createCustomer"]
  /\ UNCHANGED <<rows, mappings, outside, todo, recordId, invoiceId, requests>>

\* A QuickBooks customer of that name is created.
CreateCustomer(p) ==
  /\ pc[p] = "createCustomer"
  /\ \E q \in QbCustomersOf(None) :
       /\ qbCustomer' = [qbCustomer EXCEPT ![q] = Customer(p)]
       /\ customerRef' = [customerRef EXCEPT ![p] = q]
  /\ Answered(p, "mapCustomer")
  /\ UNCHANGED <<rows, mappings, qbInvoice, contested, todo, recordId, invoiceId, requests>>

\* upsertMapping of the customer found or created.
MapCustomer(p) ==
  /\ pc[p] = "mapCustomer"
  /\ customerMapping' = [customerMapping EXCEPT ![Customer(p)] = customerRef[p]]
  /\ Answered(p, "createInvoice")
  /\ UNCHANGED <<rows, invoiceMapping, outside, todo, recordId, customerRef,
                 invoiceId, requests>>

\* createInvoice, without a look at the mappings.
CreateInvoice(p) ==
  /\ pc[p] = "createInvoice"
  /\ \E i \in InvoicesOf(None) :
       /\ qbInvoice' = [qbInvoice EXCEPT ![i] = recordId[p]]
       /\ invoiceId' = [invoiceId EXCEPT ![p] = i]
  /\ Answered(p, "mapInvoice")
  /\ UNCHANGED <<rows, mappings, qbCustomer, contested, todo, recordId, customerRef, requests>>

\* Mutant of MapInvoice: an existing mapping is kept.
MapInvoiceOnce(p) ==
  /\ pc[p] = "mapInvoice"
  /\ invoiceMapping' = [invoiceMapping EXCEPT ![recordId[p]] = IF @ = None THEN invoiceId[p] ELSE @]
  /\ Answered(p, "finish")
  /\ UNCHANGED <<rows, customerMapping, outside, todo, recordId, customerRef,
                 invoiceId, requests>>

\* Mutant of MapInvoice: the mapping is keyed by the work order, not by the record.
MapInvoiceByWorkOrder(p) ==
  /\ pc[p] = "mapInvoice"
  /\ invoiceMapping' = [r \in Records |->
       IF workOrderId[r] = workOrderId[recordId[p]] THEN invoiceId[p] ELSE invoiceMapping[r]]
  /\ Answered(p, "finish")
  /\ UNCHANGED <<rows, customerMapping, outside, todo, recordId, customerRef,
                 invoiceId, requests>>

\* upsertMapping of the record and the new invoice.
MapInvoice(p) ==
  /\ pc[p] = "mapInvoice"
  /\ invoiceMapping' = [invoiceMapping EXCEPT ![recordId[p]] = invoiceId[p]]
  /\ Answered(p, "finish")
  /\ UNCHANGED <<rows, customerMapping, outside, todo, recordId, customerRef,
                 invoiceId, requests>>

\* The update to SYNCED; when its answer is lost the catch block runs after it.
MarkSynced(p) ==
  /\ pc[p] = "finish"
  /\ SetState(recordId[p], "SYNCED")
  /\ externalReference' = [externalReference EXCEPT ![recordId[p]] = invoiceId[p]]
  /\ \/ Return(p)
     \/ /\ pc' = [pc EXCEPT ![p] = "fail"]
        /\ UNCHANGED <<recordId, customerRef, invoiceId>>
  /\ UNCHANGED <<attemptCount, workOrderId, createdAt, mappings, outside,
                 todo, requests>>

\* A call inside the try block throws without effect (a missing work order too).
Throw(p) ==
  /\ pc[p] \in {"resolve", "find", "createCustomer", "mapCustomer",
                "createInvoice", "mapInvoice", "finish"}
  /\ pc' = [pc EXCEPT ![p] = "fail"]
  /\ UNCHANGED <<rows, mappings, outside, todo, recordId, customerRef,
                 invoiceId, requests>>

\* The invocation dies, or an update outside the try block throws out of it.
Crash(p) ==
  /\ p \in Mortal
  /\ pc[p] # "idle" \/ todo[p] # {}
  /\ todo' = [todo EXCEPT ![p] = {}]
  /\ Return(p)
  /\ UNCHANGED <<rows, mappings, outside, requests>>

-----------------------------------------------------------------------------
(* Operators: retry-sync and the failure queue (unconditional updates) *)

\* retrySyncHandler reads the row and accepts FAILED and CANCELLED.
RetrySyncCheck(q, r) ==
  /\ requeue[q] = {}
  /\ state[r] \in {"FAILED", "CANCELLED"} /\ MayRetry(r)
  /\ requeue' = [requeue EXCEPT ![q] = {r}]
  /\ UNCHANGED <<rows, mappings, outside, locals, creating, retrying, save>>

\* retryAll lists the FAILED rows.
RetryAllList(q) ==
  /\ requeue[q] = {}
  /\ \E r \in InState("FAILED") : MayRetry(r)
  /\ requeue' = [requeue EXCEPT ![q] = {r \in InState("FAILED") : MayRetry(r)}]
  /\ UNCHANGED <<rows, mappings, outside, locals, creating, retrying, save>>

\* retryRecord named by an operator: no look at the state of the row at all.
RetryRecord(q, r) ==
  /\ requeue[q] = {}
  /\ r \in Stored /\ MayRetry(r)
  /\ requeue' = [requeue EXCEPT ![q] = {r}]
  /\ UNCHANGED <<rows, mappings, outside, locals, creating, retrying, save>>

\* The update to PENDING, one row after the other; a failed one is not repeated.
ResetToPending(q) ==
  \E r \in requeue[q] :
    /\ SetState(r, "PENDING") \/ UNCHANGED state
    /\ requeue' = [requeue EXCEPT ![q] = @ \ {r}]
    /\ UNCHANGED <<attemptCount, externalReference, workOrderId, createdAt,
                   mappings, outside, locals, creating, retrying, save>>

-----------------------------------------------------------------------------
(* InvoiceSyncService: read the whole row, then save the whole row *)

Image(r, s, n, ref) == [rec |-> r, state |-> s, attempts |-> n, ref |-> ref]

HoldImage(s, image) ==
  /\ save[s] = None
  /\ save' = [save EXCEPT ![s] = image]
  /\ UNCHANGED <<rows, mappings, outside, locals, creating, requeue>>

Startable(r) == state[r] \in {"PENDING", "FAILED"} /\ MayRetry(r)

Started(r) == Image(r, "IN_PROGRESS", attemptCount[r] + 1, externalReference[r])

\* startSync, called by the start route.
StartSync(s, r) ==
  /\ Startable(r)
  /\ HoldImage(s, Started(r))
  /\ UNCHANGED retrying

\* retryInvoiceSyncHandler reads the row and accepts FAILED and CANCELLED ...
RetryInvoiceCheck(t, r) ==
  /\ retrying[t] = None /\ save[t] = None
  /\ state[r] \in {"FAILED", "CANCELLED"} /\ MayRetry(r)
  /\ retrying' = [retrying EXCEPT ![t] = r]
  /\ UNCHANGED <<rows, mappings, outside, locals, creating, requeue, save>>

\* ... then calls startSync, which reads it again and may refuse it.
RetryInvoiceStart(t) ==
  /\ retrying[t] # None
  /\ IF Startable(retrying[t])
       THEN HoldImage(t, Started(retrying[t]))
       ELSE UNCHANGED <<rows, mappings, outside, locals, creating, requeue, save>>
  /\ retrying' = [retrying EXCEPT ![t] = None]

\* markSuccess: the caller passes the id of an invoice QuickBooks made for r.
MarkSuccess(s, r) ==
  /\ state[r] = "IN_PROGRESS"
  /\ \E i \in InvoicesOf(r) : HoldImage(s, Image(r, "SYNCED", attemptCount[r], i))
  /\ UNCHANGED retrying

\* markFailure keeps every other column it read.
MarkFailure(s, r) ==
  /\ state[r] = "IN_PROGRESS"
  /\ HoldImage(s, Image(r, "FAILED", attemptCount[r], externalReference[r]))
  /\ UNCHANGED retrying

\* Mutant of SaveImage: a SYNCED row keeps its state, but not its reference.
SaveImageOfSynced(s) ==
  /\ save[s] # None
  /\ state' = [state EXCEPT ![save[s].rec] = IF @ = "SYNCED" THEN @ ELSE save[s].state]
  /\ attemptCount' = [attemptCount EXCEPT ![save[s].rec] = save[s].attempts]
  /\ externalReference' = [externalReference EXCEPT ![save[s].rec] = save[s].ref]
  /\ save' = [save EXCEPT ![s] = None]
  /\ contested' = contested \cup {save[s].rec}
  /\ UNCHANGED <<workOrderId, createdAt, mappings, quickbooks, locals, creating,
                 requeue, retrying>>

\* The upsert writes every column of the image, whatever happened since the read.
SaveImage(s) ==
  /\ save[s] # None
  /\ state' = [state EXCEPT ![save[s].rec] = save[s].state]
  /\ attemptCount' = [attemptCount EXCEPT ![save[s].rec] = save[s].attempts]
  /\ externalReference' = [externalReference EXCEPT ![save[s].rec] = save[s].ref]
  /\ save' = [save EXCEPT ![s] = None]
  /\ contested' = contested \cup {save[s].rec}
  /\ UNCHANGED <<workOrderId, createdAt, mappings, quickbooks, locals, creating,
                 requeue, retrying>>

\* The upsert throws and the request ends without effect.
SaveThrows(s) ==
  /\ save[s] # None
  /\ save' = [save EXCEPT ![s] = None]
  /\ UNCHANGED <<rows, mappings, outside, locals, creating, requeue, retrying>>

-----------------------------------------------------------------------------
Create ==
  \/ \E k \in Creators, w \in WorkOrders : JobCheck(k, w) \/ CreateRecordCheck(k, w)
  \/ \E k \in Creators : CheckedInsert(k) \/ InsertThrows(k)
  \/ \E w \in WorkOrders : TriggerSync(w)

\* What an invocation does by itself once it has been started.
ProcessorStep(p) ==
  \/ \E r \in Records : ReadRecord(p, r)
  \/ Preflight(p) \/ WriteFailed(p) \/ MarkInProgress(p)
  \/ ResolveCustomer(p) \/ FindCustomer(p) \/ CreateCustomer(p) \/ MapCustomer(p)
  \/ CreateInvoice(p) \/ MapInvoice(p) \/ MarkSynced(p) \/ Throw(p)

Process ==
  \E p \in Procs :
    StartBatch(p) \/ (\E r \in Records : StartOne(p, r)) \/ ProcessorStep(p) \/ Crash(p)

Requeue ==
  \E q \in Requeuers :
    \/ \E r \in Records : RetrySyncCheck(q, r) \/ RetryRecord(q, r)
    \/ RetryAllList(q) \/ ResetToPending(q)

Serve ==
  \/ \E s \in Services, r \in Records :
       StartSync(s, r) \/ MarkSuccess(s, r) \/ MarkFailure(s, r)
  \/ \E t \in Retriers : RetryInvoiceStart(t) \/ \E r \in Records : RetryInvoiceCheck(t, r)
  \/ \E s \in Services \cup Retriers : SaveImage(s) \/ SaveThrows(s)

Next == Create \/ Process \/ Requeue \/ Serve

Spec == Init /\ [][Next]_vars

(* The schedule invokes the batch again and again whatever single records are *)
(* triggered in between, an invocation runs on, and an accepted request is    *)
(* carried out. Nothing forces an operator to act.                            *)
Fairness ==
  /\ \A p \in Procs : SF_vars(StartBatch(p)) /\ WF_vars(ProcessorStep(p))
  /\ \A q \in Requeuers : WF_vars(ResetToPending(q))
  /\ \A t \in Retriers : WF_vars(RetryInvoiceStart(t))
  /\ \A s \in Services \cup Retriers : WF_vars(SaveImage(s) \/ SaveThrows(s))

FairSpec == Spec /\ Fairness

-----------------------------------------------------------------------------
(* Properties *)

\* Whatever invocations race, are retried or lose their answers, a row and the
\* mapping table only ever point at a QuickBooks invoice made for that very row.
ReferencesAreOwn ==
  \A r \in Records :
    /\ externalReference[r] # None => qbInvoice[externalReference[r]] = r
    /\ invoiceMapping[r] # None => qbInvoice[invoiceMapping[r]] = r

\* "SYNCED state requires externalReference": no stale full-row save, requeue or
\* late catch block leaves a SYNCED row without the invoice it was synced to.
SyncedHasReference ==
  \A r \in Records : state[r] = "SYNCED" => externalReference[r] # None

\* Every invoice QuickBooks holds for a row was paid for by an attempt counted in
\* that row: however many are created twice, attemptCount bounds them.
InvoicesBoundedByAttempts ==
  \A r \in Records : Cardinality(InvoicesOf(r)) <= attemptCount[r]

\* A SYNCED row and the mapping table name the same invoice, whatever was killed,
\* lost, requeued or overlapped before: only an invocation that shared the row with
\* another one, or a row image saved over it, can make them differ, and the next
\* invocation that has the row to itself puts that right.
SyncedMatchesMapping ==
  \A r \in Records \ contested : state[r] = "SYNCED" => invoiceMapping[r] = externalReference[r]

\* Invocations that overlap may each find no customer of the name and create one, but
\* QuickBooks never holds more of them than invocations run at once, although they are
\* killed, lose the answer to the creation or to the mapping, and are retried.
QbCustomersBoundedByProcs ==
  \A c \in Customers : Cardinality(QbCustomersOf(c)) <= Cardinality(Procs)

\* A customer mapping points at a QuickBooks customer made for that customer.
CustomerMappingsAreOwn ==
  \A c \in Customers :
    customerMapping[c] # None => qbCustomer[customerMapping[c]] = c

(* What makes the ownership properties inductive. *)

\* A stored row belongs to a work order; requests and service calls hold stored rows.
RowsAreComplete ==
  /\ \A r \in Stored : workOrderId[r] \in WorkOrders
  /\ \A q \in Requeuers : requeue[q] \subseteq Stored
  /\ \A s \in Services \cup Retriers : save[s] # None => save[s].rec \in Stored

\* An invocation past its read works on a stored row, and past each creation it
\* holds the id of what it created, for the row or the customer it works on.
LocalsAreOwn ==
  \A p \in Procs :
    /\ pc[p] = "idle" => recordId[p] = None /\ invoiceId[p] = None
    /\ pc[p] # "idle" => recordId[p] \in Stored
    /\ invoiceId[p] # None => qbInvoice[invoiceId[p]] = recordId[p]
    /\ pc[p] \in {"mapInvoice", "finish"} => invoiceId[p] # None
    /\ pc[p] \in {"find", "createCustomer", "mapCustomer"} => Customer(p) \in Customers
    /\ pc[p] = "mapCustomer" => /\ customerRef[p] \in QbCustomerIds
                                /\ qbCustomer[customerRef[p]] = Customer(p)

\* A row image about to be saved refers to an invoice of its row, and carries a
\* reference when it says SYNCED.
ImagesAreOwn ==
  \A s \in Services \cup Retriers :
    save[s] # None =>
      /\ save[s].ref # None => qbInvoice[save[s].ref] = save[s].rec
      /\ save[s].state = "SYNCED" => save[s].ref # None

IInv ==
  /\ TypeOK /\ RowsAreComplete /\ LocalsAreOwn /\ ImagesAreOwn
  /\ ReferencesAreOwn /\ SyncedHasReference /\ CustomerMappingsAreOwn

\* A PENDING row is eventually pushed or reported as failed, although operators
\* go on requeueing rows.
PendingIsSettled ==
  \A r \in Records : state[r] = "PENDING" ~> state[r] \in {"SYNCED", "FAILED"}

\* retryInvoiceSyncHandler answers 'Sync record queued for retry.': the row it
\* leaves IN_PROGRESS is taken up and leaves that state.
RetryIsTakenUp ==
  \A r \in Records : state[r] = "IN_PROGRESS" ~> state[r] # "IN_PROGRESS"

\* "Create operations always check external_id_mappings before provider create
\* calls": no invoice is created for a row that is mapped already.
CreateChecksMapping ==
  [][\A i \in QbInvoiceIds :
       qbInvoice[i] = None /\ qbInvoice'[i] # None
         => invoiceMapping[qbInvoice'[i]] = None]_vars
=============================================================================
