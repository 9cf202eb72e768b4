# Specifications of gg-erp

TLA+ models of the parts of gg-erp where several processes share rows, calls are retried, and
invocations die in the middle; TLC configurations that check them on small instances; and TLAPS
proofs of their main invariants for every instance. Paths below are relative to `src/` (the root of
the repository at the modelled commit).

    tlc -config InvoiceSyncOverlap.cfg MCInvoiceSync     # one run
    tlapm InvoiceSyncProofs.tla                          # one proof module

## 1. The system

gg-erp is a Next.js front end over AWS Lambda handlers (`apps/api/src/lambda`), services per bounded
context (`apps/api/src/contexts`), background workers (`apps/workers/src`) and one PostgreSQL database
reached through Prisma (`packages/db/prisma/schema.prisma`). Every handler is an async function, and Lambda
gives every request its own process. Accounting, sales, the floor and the workers call the database without
a transaction, so there **the unit of interleaving is the awaited call**: any other request, batch or retry can run
between two of them, and an invocation can time out at any of them. Inventory, planning masters and schedule
publication use transactions, READ COMMITTED, the default of PostgreSQL: **there a step is what one transaction
may see at once**. A command that locks its rows or guards its update with a WHERE is one action; one that reads,
decides and writes without looking again is two or three.

### 1.1 Inventory

| Component | State | Operations | What is hard | What makes it correct |
|---|---|---|---|---|
| Invoice sync, `contexts/accounting/invoiceSyncProcessor.service.ts`, `invoiceSync.service.ts`, `workers/src/jobs/qb-invoice-sync.job.ts` | `invoice_sync_records`, `external_id_mappings`; invoices and customers inside QuickBooks | rows created by a job, a handler or the service; `processRecord`, `processPendingBatch`; `startSync`, `markSuccess`, `markFailure` | two systems without a common transaction, answers lost, overlapping invocations, full-row saves of stale images | references point at the row's own invoice, a SYNCED row has one, duplicates are accounted for, PENDING rows settle |
| Requeueing, `failureQueue.service.ts`, retry handlers in `lambda/accounting/handlers.ts` | none of its own | `retryRecord`, `retryAll`, `retrySyncHandler`, `retryInvoiceSyncHandler`, `retryPaymentSyncHandler` | blind updates by id while a row is processed; lists read earlier | a retried row is really taken up |
| Outbox publisher, `packages/events/src/outbox-processor.ts`, `eventbridge-bus.ts` | `event_outbox` | `processOutbox` every minute | overlapping runs without claims, publish succeeds and update does not, death in between | nothing unwritten announced, nothing called PUBLISHED that was not, no settled row PENDING again |
| Worker runtime, `apps/workers/src/worker.ts` | attempts of the event in hand | `handle` with retries | at-least-once delivery, an attempt that did its work and threw | an event is consumed or its error reaches the caller |
| Payment sync, `webhook.handler.ts`, `paymentSync.service.ts`, `workers/src/payment-sync.handler.ts`, `jobs/qb-payment-sync.job.ts` | `webhook_inbox_events`, `payment_sync_records` | webhook, scheduled batch, event job, retry | repeated and parallel deliveries, rows taken by two workers, errors swallowed before a 200 | what is answered is stored, a 200 is reached, no row left IN_PROGRESS |
| Customer sync, `customerSync.service.ts`, `jobs/qb-customer-sync.job.ts` | `customer_sync_records` (unique per customer) | `queueSync`, `executeSync`, retry | queueing while a sync is in flight | the last queued change is pushed |
| Reconciliation, `reconciliation.service.ts` | `reconciliation_runs`, `reconciliation_records` | run, resolve | a run that dies, counters of a partly failed run | a run ends; counts partition the pairs |
| QuickBooks tokens, `quickbooks.tokenManager.ts`, `integrationAccount.service.ts` | one token row, a cache per warm Lambda | `getValidTokens`, refresh | refresh tokens rotate; two processes refresh; a warm cache is stale | the stored refresh token is the latest |
| Stock, `lambda/inventory/handlers.ts` | lots, balances, ledger, reservations, work order parts | receive, reserve, release, consume, adjust, transfer, count | one quantity kept in four tables; lots that close | the ledger explains the balances, what is reserved is there, nothing is in a closed lot |
| Purchasing, `lambda/inventory/handlers.ts` | purchase orders and their lines | create, update, approve, send, cancel, close, receive | only a receipt locks what it decides on | received + rejected <= ordered, the order says what its lines received |
| Planning masters, `lambda/work-orders/planning-masters.ts` | build configurations, BOMs, route versions, their change events; sign-offs | create, lock, release, approve, activate, retire, sign off | transitions of several statements overlap | one document in force, a log that agrees, successors that lead to it |
| Sales, `lambda/sales/handlers.ts` | quotes | create, send, accept, reject, convert | check and write are separate calls | one work order per quote |
| Work orders and tickets, `lambda/tickets/handlers.ts` | execution work orders, operations, status history; QC gates, rework, time entries | create from a package, move an operation | four awaited calls per request; deaths in between | orders on signed packages only, order follows operations, ended work stays ended |
| Build slot planning, `lambda/scheduling/handlers.ts`, `contexts/build-planning/buildSlotProjection.ts`, `packages/scheduling` | capacity slots, assignments, planner runs | preview, publish, create and update slots | preview outside the transaction, publications that overlap, sums recomputed | a slot holds what is assigned to it and no more than it has |
| Accounting ledgers, settings; SOP, communication, vehicles, workspace | one table per entity | CRUD and reports | little state is related across calls | - |
| Identity and access, migration, AI / copilot, front ends, Terraform | - | - | - | - |

### 1.2 How they interact

* A completed work order becomes an event; the worker's job creates an invoice sync row; a processor
  pushes it to QuickBooks and writes the mapping. QuickBooks reports the payment by webhook; a payment
  row is created when an invoice sync row with that `externalReference` exists, and a worker settles it.
* The accounting parts share rows, not messages. The failure queue and the retry routes update the same rows by id.
* The in-memory outbox of the API (`apps/api/src/events/outbox.ts`) lives as long as a request and is read
  by nobody. Nothing in the repository writes `event_outbox`; the writer is external in the model.
* A build configuration is released, its BOM approved and a route activated; the package is signed off; a work order
  is created from it, or from an accepted quote. A publication assigns its operations to slots, which makes a READY order SCHEDULED
  and a PENDING operation READY; technicians move the operations, which moves the order. (`PlanningMasters`, `Quotes`, `WorkOrders`,
  `BuildSlots`, composed by `Production`.)
* Receiving a line of a purchase order settles the order and makes a lot in one transaction; reservations for work order parts
  draw on lots. (`PurchaseOrders` and `StockLedger`, composed by `Materials`.)
* `contexts/inventory` and `contexts/build-planning/*.service.ts` hold an older path to the same concepts that no Lambda calls; the
  inventory Lambdas do their own SQL, and `apps/api/src/tests/inventory-scaffold-coverage.test.ts:863` asserts parts of that. The models follow the Lambdas.
* At this commit no deployed handler calls `InvoiceSyncProcessor` (its header says "Called by the trigger-sync
  Lambda or the worker polling loop"; tests call it), and nothing publishes `qb.webhook.received`. Both are modelled as
  the code is written to be called.

## 2. Modules

| Module | Models |
|---|---|
| `InvoiceSync` | invoice sync rows, mappings, QuickBooks, processors, requeueing, service calls |
| `InvoiceSyncProofs` | theorems about it |
| `OutboxPromise` | abstract: what the outbox promises its writers |
| `EventOutbox` | outbox rows, overlapping publisher runs, bus, worker runtime, invoice job; implements `OutboxPromise` |
| `EventOutboxProofs` | theorems about it, the refinement among them |
| `PaymentSync` | webhook inbox, payment rows, webhook invocations, workers, operators |
| `PaymentSyncProofs` | theorems about it |
| `PurchaseOrders` | purchase orders, their lines and the commands on them |
| `StockLedger` | lots, balances, ledger, reservations, work order parts, corrections |
| `StockAccount` | abstract: what is received, on hand, held and issued in all |
| `Materials` | orders and stock, and the receipt that writes both; implements `StockAccount` |
| `Sums` | lemmas about sums over finite sets, for the two proof modules that need them |
| `MaterialsProofs` | theorems about orders, stock and both together, the refinement among them |
| `PlanningMasters` | configurations, BOMs, routes, their transitions, and sign-offs |
| `WorkOrders` | execution work orders, operations, the requests that move them |
| `Quotes` | quotes up to their conversion (extends `WorkOrders`) |
| `BuildSlots` | capacity slots and publications (extends `WorkOrders`) |
| `Production` | the four together, and the creation of an order from a package |
| `PlanningProofs`, `OrdersProofs`, `SlotsProofs` | theorems about them, each extending the one before |
| `MC...` | definitions of the constants for TLC, and what keeps an instance small |

Definitions whose comment begins "Mutant of" are not part of a specification: each is a plausible bug of the
definition it names, kept to show that a property depends on the code it is about.

### 2.1 InvoiceSync

*State.* `state`, `attemptCount`, `externalReference`, `workOrderId`, `createdAt` are columns of
`invoice_sync_records`. `invoiceMapping` and `customerMapping` are the two kinds of `external_id_mappings`.
`qbInvoice[i]` and `qbCustomer[i]` say for which row or customer QuickBooks made the object. `pc`, `recordId`,
`invoiceId`, `customerRef` and the batch are locals of an invocation of `processRecord`; `requeue` the rows
a failure-queue request still has to update; `save` the row image a service call is about to upsert. `contested` is a history: the rows that two
invocations held at once, or that a row image was saved over, since an invocation last took them up alone.

*Actions.* One per awaited call, in the order of the code: `ReadRecord` (with the guard on PENDING / FAILED),
`Preflight`, `MarkInProgress`, `ResolveCustomer`, `FindCustomer`, `CreateCustomer`, `MapCustomer`, `CreateInvoice`,
`MapInvoice`, `MarkSynced`, and `WriteFailed` for the catch block. Every call may also throw before or after it took
effect; that leads to `WriteFailed`, or to `Throw` if the catch block's own update fails. `StartBatch` reads the ids of the batch once;
`Crash` kills an invocation. Requests outside the processor are `JobCheck` / `CheckedInsert`, `CreateRecordCheck`,
`TriggerSync`, `RetrySyncCheck`, `RetryRecord`, `RetryAllList`, `ResetToPending`, and `StartSync`, `MarkSuccess`,
`MarkFailure`, `RetryInvoiceCheck`, `RetryInvoiceStart` with `SaveImage` writing every column of the image read.

*Abstractions.* Customer display names are distinct (QuickBooks enforces it). Deactivating a mapping, the audit rows and the
in-memory events written after a save, and amounts and texts are left out. `CANCELLED` is never set by the code.

*Assumed of a caller.* `MarkSuccess` stores the id its caller passes (`invoiceSync.service.ts:243-258` takes any string). The model lets the caller pass only
the id of an invoice QuickBooks made for that row: the callers of the route are outside the repository (only tests call it here), and with arbitrary ids `ReferencesAreOwn` would say nothing about the processor.

### 2.2 EventOutbox and OutboxPromise

*State.* `state` and `attemptCount` of `event_outbox`, `announced` (events that reached the bus), `copies` still to be
delivered, the rows a run has read and the call it is at, the event a handler has with its attempt, `syncRecords` per work
order, `rejected` events whose last error left `handle`.

*Actions.* `StartRun` is `findMany`; `Publish`, `MarkPublished`, `MarkFailed` are the three calls per row (the catch block covers
the update as well as the publish); `CrashRun`; `Deliver`, `CheckExisting`, `CreateRecord`, `Retry`, `Rethrow`, `CrashWorker` on the worker.

*Refinement.* `OutboxPromise` has only the outcome of each event and the set announced. `EventOutbox` implements it under
`outcome <- state`. It allows PUBLISHED to become FAILED, which the code does, and never a settled row to become PENDING, nor PUBLISHED before announcement.

### 2.3 PaymentSync

*State.* `state`, `attemptCount`, `qbPaymentId` of `payment_sync_records` (rows numbered by creation); `inbox`
(`webhook_inbox_events`); `sent` and `answered` on the QuickBooks side; per webhook invocation the delivery's `payload`, the
notices `left` in the loop it is in and the call it is `at`; per worker the `batch` it read and the call it is `doing`;
`requeue` and `save` as above.

*Actions.* Webhook: `LookUp` (account and inbox), `StoreNotice` (the unique key throws: 500), `AllStored`, `GetTokens`, `Fetch`,
`CheckPayment`, `CreateRecord`, `Answer`. The second loop runs over *all* payments of the delivery, those already in the inbox and
those of unknown accounts included, as `extractPaymentEntities` does. Its errors lead to the next notice. Workers: `StartBatch` and `StartJob`,
`Begin`, `Verify`, `Finish`, `Fail`; every update may throw before or after taking effect. Operators: `RetryAllList`, `RetryRecord`,
`ResetToPending`, `RetryPayment`, `SaveRetry`.

*Abstractions.* Rows are ordered by insertion, so clock differences between invocations are not modelled (also in
`InvoiceSync`). Which integration accounts are ACTIVE does not change. `processPayment` has no caller outside the tests and is left out, and so is the event
the webhook's header announces, which nothing emits.

### 2.4 PurchaseOrders, StockLedger and Materials

*State.* `poState` and `poLines` (at most one line per part, as `preparePurchaseOrderLines` demands) with the four columns that
decide anything; `command` is what a clerk's request has checked and not written; `late` is a history variable: which writes
came after their check had stopped being true. `lotState`, `location` and `source` of `stock_lots`; `balance`, a row of
`inventory_balances` per lot; `ledger`, the entries summed by lot and movement type, as the ledger report sums them; `reservation`,
`workOrderPart`; `corrections` counts adjustments and counts.

*Actions.* `Check` and `Write` are the two halves of `updatePurchaseOrder` and of `transitionPurchaseOrder`, whose transactions
lock nothing. `ReceiveLine` is one action because `receivePurchaseOrderLine` takes line and order FOR UPDATE in its first
statement. Every action of `StockLedger` is one whole transaction: it locks its rows (`createAdjustment`, `createTransfer`,
`createCycleCount`, `lockReservationForAction`) or puts its condition into the UPDATE (`createReservation`), and rolls back otherwise.

*Abstractions.* Quantities are whole units (the columns have three decimals, and nothing divides them). Documents of transfers, counts and adjustments,
bins, costs and expiry are left out; so is cost evidence, which moves no quantity. `version` is incremented everywhere and
checked nowhere here. The tables' CHECK constraints (`quantity_reserved <= quantity_on_hand`) are *not* in the model: the
code's own guards must keep `ReservationsAreCovered`. Refusals change nothing and are no actions. `close` needs every line complete, in which case a receipt
has already made the order RECEIVED, so it only acts on an order that a late command has put back.

*Refinement.* `StockAccount` knows no orders, lots or reservations, only five numbers: what was received, is on hand, is held and was issued, and how often stock was corrected. `Materials` implements
it with the first four as sums, over the ledger's receipts, the balances, the open and the consumed quantities of the reservations. A receipt, reservation, release, consumption and correction is the step of the same name,
everything about orders and a transfer is none. So stock appears by receipts only and disappears by issues of what was held, corrections aside, and no more is ever held than there is.

### 2.5 PlanningMasters, Quotes, WorkOrders, BuildSlots and Production

*State.* `masterStatus`, `newStatus` (of a document's latest change event, the one with the newest `created_at`), `settled` (it has a `released_at`, `approved_at` or `activated_at`),
`supersededBy`; the open `transition` and the `review` of an engineer; per open transition, `younger` are the transitions that began after it and `outdated`
the documents for which one of them has logged already; `signoff` per package with the routes it names. `orderStatus`,
`operationStatus`, `recorded` (`toStatus` of the latest history row), `madeFrom`; the `request` a technician is in. `quoteStatus`,
`convertedWo`, `selling`. `slot`, `assigned`, `publication`. `building` is what a creation has read. `stale`, `backdated`, `contended`, `outrun`, `unrecorded` and
`disturbed` are histories that name the rows on which a write was made on a read that no longer held, logged as older than it was, or not made at all.

*Actions.* A transition is `BeginTransition` (BEGIN, in the dispatcher of the action), `ReadMaster` (the guards), `SelectOthers` (the SELECT of what it will displace) and its commit, in which the UPDATE
displaces what is in force *by then*, while the events go to what was selected *before*. The `created_at` of an event is `DEFAULT now()`, the time its transaction *began*, and the latest event is found by
`ORDER BY created_at DESC`; so `EventAfter` makes the committed event the latest one only where no transition that began later has logged first. Two transitions that would leave two documents
in force are stopped by the partial unique indexes (`build_configurations_one_released_vehicle_uk` and its like): one of them is a
`RollBack`. `transitionWoOperation` is `ReadOperation`, `WriteOperation`, `ReadOperations`, `SettleOrder`, `RecordHistory`, its awaited calls, with `Die` before any of them.
`createWoOrder` is `ReadBuildPackage`, `ReadSignoff`, `ReadRoute`, `CreateWoOrder`. A conversion is `CheckQuote` and `ConvertQuoteToWorkOrder`, a transaction that fails when the number,
a function of the quote, is taken. `Preview` is read outside the transaction and may choose any plan that fits (the engine's priorities choose one of them);
`SupersedeWindow` is the first UPDATE, with the assignments it can see; `PublishSchedule` is the rest with the commit. Each UPDATE of a slot adds up the assignments of the statement's snapshot
(READ COMMITTED), and keeps to that snapshot when it had to wait for the slot's row: it may miss what another publication committed meanwhile, and may *still count* what that
publication superseded. `snapshots` are the assignments as they were committed at some moment since the publication's first statement (`SeesAfter` adds to them), the sum may be over any of them, each with its own insertions and without what it dropped.

*Abstractions.* Effective windows, approval notes, estimates and skills, materials readiness and priorities; one planning window. The log is reduced to the
latest event of a document. DISPATCHED and PROPOSED assignments are never written by the code, and DRAFT orders and PENDING operations
come only from seeds and migrations. Slots that are LOCKED or EXECUTING are planned into like OPEN ones, CLOSED ones not, like CANCELLED ones. A preview is one step although it is several
reads: the plan it may choose is bounded by the slots alone, so a preview that mixes moments is also a plan that fits one.

## 3. Runs

| Run | Instance | Shows |
|---|---|---|
| `invoice_overlap` | 2 rows of one work order, 2 invocations that may be killed, 1 creator, 1 failure-queue request, 3 invoice and 3 customer ids, 2 attempts; symmetry on rows, invocations and invoice ids | `TypeOK`; invoices of a row never outnumber its counted attempts; customers of a name never outnumber the invocations; a SYNCED row that was not shared names the invoice in the mapping |
| `invoice_concurrent` | 2 rows, 2 invocations, 1 service and 1 retry request, 1 attempt; the same symmetry | references are own and present in SYNCED rows in spite of stale full-row saves, and the mapped ones unless the row was shared or saved over |
| `invoice_live` | 2 rows, 1 immortal invocation, 1 requeuer, batch of 2, fairness | a PENDING row is eventually SYNCED or FAILED |
| `invoice_retry_strands` | 1 row, 1 retry request | **violated**: a row retried through `retryInvoiceSyncHandler` stays IN_PROGRESS |
| `invoice_remap` | 1 row, 1 requeuer | **violated**: "Create operations always check `external_id_mappings`" |
| `outbox_overlap` | 2 events of one work order, 2 runs, 2 handlers, 2 attempts, 1 mishap | `TypeOK`; the promise with its liveness; sync records of a work order never outnumber the handlers; announced events are consumed or rejected |
| `outbox_failed` | 1 event | **violated**: "Claim rows where publish_status in ('PENDING','FAILED')" |
| `payment_intake` | 2 notices of one payment, one from a known account, 2 webhook invocations, 1 mortal worker, 1 retrying operator, 1 mishap | `TypeOK`; answered notices are in the inbox; every notice is answered |
| `payment_overlap` | 2 rows, 2 workers with a batch of 2, 1 failure-queue request | no row left IN_PROGRESS without a worker; PENDING rows settle |
| `payment_duplicate` | 1 notice, 2 webhook invocations | **violated**: "Duplicate webhook event does not create duplicate payment updates." |
| `materials` | 1 order with one line of two units or two lines of one, 2 clerks, 1 late write, 2 lots, 2 reservations for a work order part of one unit, 2 locations, stock up to 2, 1 correction | `TypeOK`, ten properties of orders and stock, and that `StockAccount` is implemented |
| `production` | 2 versions for one cart, 2 BOM revisions, 2 route versions, 2 engineers, 1 stale write; 2 order numbers, 2 operations, 2 technicians; 1 quote, 2 sellers; 2 slots of 1 or 2 minutes, 3 planners; 1 builder; symmetry on planners, slots and operations | `TypeOK` and ten properties of masters, orders, quotes and slots |

What the properties of the last two runs say:

* `NeverOverReceived`, `OrderAgreesWithLines`, `SettledOrdersStay`: a line takes no more than was ordered; order and line states say what was received; a received or
  cancelled order stays so. The last two exempt what a late command wrote.
* `ReceiptsMatchLines`: what the ledger received for a line is what the line says, in spite of rejected goods, unless a late update threw lines away.
* `BalanceIsLedger`, `TransfersBalance`: balances are sums of movements; transfers neither make nor lose stock.
* `ReservationsAreCovered`, `PartsHoldTheirReservations`, `OpenReservationsCanSettle`: balance, reservations and work order parts agree on what is held, it is on hand, and an open reservation has something left to settle.
* `ClosedLotsStayEmpty`: nothing is in a closed lot or comes back to it.
* `AccountKept`: the stock as a whole, over all lots and reservations, changes only as `StockAccount` lets it.
* `OneInForce`, `InForceIsLogged`, `SuccessorsLeadToReleased`: overlapping releases leave one document in force; its newest event says so, unless the event that committed last was logged as older than another; and a chain of successors without a cycle leads to it.
* `OrdersAreBuiltOnSignedPackages`: what a work order was made from was released, approved, activated and signed off at some time, its BOM is the configuration's own, whatever happened between the reads.
* `OneOrderPerQuote`: one work order per quote, the one the quote names.
* `OverMeansOver`, `OrderFollowsOperations`, `HistoryEndsAtStatus`: an order that is over has only operations that are over; at rest its status is derived from them and is the last of its history.
* `EndedWorkStaysEnded`: no publication, and no request that did not write on a stale read, reopens an operation or order.
* `SlotsHoldTheirAssignments`: a slot's allocated minutes are those of its published assignments, within its capacity, unless the publication that last wrote it found, or may still have seen, another one's assignments there, or the slot had shrunk since its preview.

*Why these bounds.* The errors these properties guard against need two actors on one row, or one actor twice. Two
rows let a mapping, a batch or a reference be confused with another's, two overlapping invocations give every order of
two read-write pairs, a second attempt gives the repeat of something done. In `invoice_overlap` (`OverlapOnOneRow`) two invocations overlap on one row and take turns beside two: what they
share, the row, its mapping and its customer, is there with one row, and two overlapping invocations on two rows are the instance of `invoice_concurrent`. In `outbox_overlap`
(`OverlapBeforeMishaps`) two deliveries overlap until the first crash or duplicate and are handled one at a time after it; every duplicate two overlapping handlers can meet comes from the two runs as well. `MaxAttempts`, which no limit in the
code corresponds to, only says when operators stop requeueing a row; requests read before go on being applied afterwards. In
`payment_overlap` the rows' notices are of an unknown account, which shortens the first loop; that loop is the subject of `payment_intake`.
In `materials` two lots are the two ends of a transfer, two reservations share a lot or a part, and a line of two units is received
in parts; `OneKindAtATime` lets commands of orders and movements other than receipts take turns, because neither reads or writes what the other does, and the receipts, which touch both, run beside each.
In `production` `BoundedSpec` follows one area at a time (`Planning` with builders, `Selling`, `Moves` on the floor, `Schedules`, and `Together`: a publication beside a
technician): the areas meet in `CreateWoOrder`, `ConvertQuoteToWorkOrder` and `PublishSchedule` only, each of which is in one of them with both sides present. Within `Planning` at most two requests or orders are under way
together, one kind of document has both its versions, and transitions overlap or write late while there is one kind of document beside DRAFT configurations; documents are created before transitions have read (`CreatedAside`): two of everything would only add
transitions that touch disjoint rows. Three planners are needed in `Schedules`: a slot's sum over an old snapshot is wrong without the slot being shared when a second publication has dropped what a third one had put there. Three overlap
only while both slots have time for both operations, since otherwise one of them plans nothing. An idle second engineer or technician starts only beside the first (`FirstOneFirst`); they are interchangeable. `Targets` leaves out SKIPPED, which every operator treats like DONE.
TypeOK is checked in one run per module and proved for all instances.
`CHECK_DEADLOCK FALSE` is set because the systems do come to rest: once the bounded notices, events and retries are used up nothing is left to do.

### 3.1 Conditions of properties

Duplicates do come about: two invocations may both find no customer and both create one, two deliveries may both find no sync record. No text of the repository denies it, and
`QbCustomersBoundedByProcs` and `RecordsBoundedByHandlers` say how far it goes, without a condition: no further than actors run at once, however often they are killed and retried. With one invocation, or one handler, that is one. `InvoicesBoundedByAttempts` holds without service calls,
which may put an older attempt count back. `InProgressIsHeld` holds when no worker dies and `retryPaymentSyncHandler`,
which leaves rows IN_PROGRESS by itself, is not used. No text of the repository promises recovery of a row whose
worker died IN_PROGRESS; only the failure queue, called by id, resets it.

In `materials`, `production` and for `SyncedMatchesMapping` the conditions are history variables, so that each property says itself which rows it leaves out, and for which reason:

| History | Names | Written by |
|---|---|---|
| `contested` | rows held by two invocations at once, or saved over by a row image, since an invocation took them up alone | `ReadRecord`, `SaveImage` |
| `late` | commands of an order written after their check had stopped being true | `Write` |
| `stale` | documents whose own row was written on an outdated status | `CommitMaster` |
| `backdated` | documents whose event that committed last is not their newest | `CommitMaster` |
| `contended` | orders with an operation written over another request's write | `WriteOperation` |
| `outrun` | orders whose status was last settled on an outdated read, or not at all | `SettleOrder`, `Die` |
| `unrecorded` | orders whose latest history row came too late, or never | `RecordHistory`, `Die` |
| `disturbed` | slots whose last update found, or may still have seen, assignments of another publication, or that had shrunk since its preview | `PublishSchedule` |

`contested`, `backdated`, `outrun`, `unrecorded` and `disturbed` are left again by the next undisturbed write; that is part of what is checked. The exemptions are real behaviours of the code: a cancellation checked before a receipt
leaves a cancelled order with stock; an approval checked before a cancellation revives the order; two technicians on one operation can reopen it;
two planners can fill a slot twice; a release that
began before a lock and read after it leaves a RELEASED document whose newest event says LOCKED. No text of the repository rules them out, so they are listed as hazards and not as findings. Unconditional are
`NeverOverReceived`, everything about stock, `OneInForce`, `OrdersAreBuiltOnSignedPackages` and `OneOrderPerQuote`.

### 3.2 Fairness

* An invocation that has started takes its next step (`WF` of its step): Node runs on until it returns or is killed, and every call answers or throws.
* A batch is started again and again (`SF` of `StartBatch`): the schedule fires whatever single rows or event jobs the same slot of concurrency
  is used for in between, so enabledness that comes and goes must be enough. The outbox schedule is
  `rate(1 minute)` (`infra/terraform/modules/eventbridge/main.tf:176`); the target of its rule and of `work_order.completed` justify `WF` of `StartRun` and `Deliver`.
  For payments the header of `payment-sync.handler.ts` names the schedule ("Triggered by EventBridge schedule or SQS queue").
* QuickBooks delivers until it is answered with 200 (`webhook.handler.ts`: "any non-200 causes retries").
* A request that was accepted is carried out (`ResetToPending`, `SaveRetry`, `SaveImage`). Nothing makes an operator act.
* Liveness runs have no endless kills: mishaps are finite in `outbox_overlap` and `payment_intake`, and absent in `invoice_live` and `payment_overlap`, where a killed worker strands its row.
* The liveness runs take batches as large as the number of rows. With a smaller batch a row behind others that operators keep
  requeueing has no claim to a turn; nothing in the code bounds that, so no property is stated for it.

## 4. Proofs

The constants are arbitrary under the assumption of each module, which TLC evaluates on every run. The only ones that are not about the shape of the
data say that the lots, the reservations, the operations, the handlers, the invocations and the ids QuickBooks gives out are finite sets in an instance.

| Theorem | States |
|---|---|
| `InvoiceSyncProofs!TypeCorrect`, `OwnReferences`, `SyncedRowsHaveReference`, `OwnCustomerMappings` | `[]` of `TypeOK`, `ReferencesAreOwn`, `SyncedHasReference`, `CustomerMappingsAreOwn` |
| `InvoiceSyncProofs!InvoicesBounded` | `[]InvoicesBoundedByAttempts` without service calls (`NoServices`) |
| `InvoiceSyncProofs!CustomersBounded`, `SyncedRowsAreMapped` | `[]` of `QbCustomersBoundedByProcs`, `SyncedMatchesMapping` |
| `EventOutboxProofs!TypeCorrect` | `[]` of `TypeOK` |
| `EventOutboxProofs!KeepsPromise` | `Spec => Promise!Safe`, the safety part of the refinement |
| `EventOutboxProofs!RecordsBounded` | `[]RecordsBoundedByHandlers` |
| `PaymentSyncProofs!TypeCorrect`, `NothingAnsweredIsMissing` | `[]` of `TypeOK`, `AnsweredIsStored` |
| `PaymentSyncProofs!HeldUntilSettled` | `[]InProgressIsHeld` without deaths and `retryPayment` |
| `MaterialsProofs!TypeCorrect`, `BalancesAreExplained`, `ReservationsCanSettle` | `[]` of `TypeOK`, `BalanceIsLedger`, `OpenReservationsCanSettle` |
| `MaterialsProofs!ReservedStockIsThere`, `PartsAddUp` | `[]` of `ReservationsAreCovered`, `PartsHoldTheirReservations` |
| `MaterialsProofs!TransfersAddUp`, `ReceiptsAddUp` | `[]` of `TransfersBalance`, `ReceiptsMatchLines` |
| `MaterialsProofs!KeepsAccount` | `Spec => AccountKept`, the refinement of `StockAccount` |
| `MaterialsProofs!ClosedIsFinal`, `SettledOrdersAreFinal` | `ClosedLotsStayEmpty`, `SettledOrdersStay` |
| `MaterialsProofs!NoLineIsOverReceived`, `OrdersAgree` | `[]` of `NeverOverReceived`, `OrderAgreesWithLines` |
| `PlanningProofs!OneDocumentInForce`, `ForceIsLogged`, `SuccessorsLead`, `BuiltOnSignedPackages` | `[]` of `OneInForce`, `InForceIsLogged`, `SuccessorsLeadToReleased`, `OrdersAreBuiltOnSignedPackages` |
| `OrdersProofs!OrdersEndWithTheirOperations`, `OrdersFollow`, `HistoryIsCurrent` | `[]` of `OverMeansOver`, `OrderFollowsOperations`, `HistoryEndsAtStatus` |
| `OrdersProofs!EndedWorkIsFinal`, `QuotesBecomeOneOrder` | `EndedWorkStaysEnded`, `[]OneOrderPerQuote` |
| `SlotsProofs!SlotsHold`, `ProductionTypeCorrect` | `[]` of `SlotsHoldTheirAssignments`, `TypeOK` |

With these, every invariant and every action property that a passing run checks is a theorem.

* **InvoiceSync.** Ownership is not inductive by itself: an invocation holds an invoice id in a local, and a service call holds
  a reference in a row image, before either is written. `LocalsAreOwn` says that an invocation past `createInvoice` holds an id made for its own row;
  `ImagesAreOwn` the same of images, and that an image saying SYNCED carries a reference; `RowsAreComplete` that requests hold stored rows.
  `IInv` is their conjunction with the properties; each lemma of the module takes one group of actions.
* **Attempts.** `attemptCount` is raised *before* the invoice is created, so the inequality alone is lost by `CreateInvoice`. The proof gives each
  invocation between the two a credit: invoices plus credits never exceed the count (`AttemptsPay`). Marking buys one, creating spends it, failing or dying throws
  it away; the steps are counted with the finite-set theorems.
* **Customers and mappings.** `CreatorsOf` are the invocations that found no customer and are about to create one. `CreatorsAreBounded` counts them with the customers there are: one gets among them only while
  there is none, so together they never exceed the invocations. `MappedBeforeSynced` says that an invocation about to mark its row has written the mapping it is about to name, unless the row is `contested`: whoever takes the
  row up beside it, or saves an image over it, makes it so, and only an invocation alone with the row undoes that.
* **EventOutbox.** What a run wrote down when it read decides what it writes later: `BatchesAreWritten` says that the rows in a batch were inserted and that a run marks PUBLISHED only an announced event. With it every step maps to a step of `OutboxPromise` or a stutter.
  `RecordsBounded` counts as `CustomersBounded` does: a handler gets past its check only while its work order has no record.
* **PaymentSync.** `DeliveriesAreStored` relates the loop variable to the inbox: what a delivery has left behind in the first loop
  is stored, and all of it once past the loop, so answering adds nothing that is missing. `HeldUntilSettled` needs only that a worker's
  hands leave a row in the update that settles it.

* **Materials.** Each movement adds the same to a balance and to its ledger entry, so `BalanceIsLedger` is inductive with types. `ClosedIsFinal` needs that a closed
  lot is empty *before* the step (`LotsSound`, with reserved stock never above what is on hand), so that no guard lets a movement through. For orders, a line's room is decided on
  locked rows, which makes `NeverOverReceived` inductive; `OrdersAgree` follows because `late` only grows: a write that was in time has its guard true when it acts.
  `ReservationsCanSettle` needs only types: what is released or consumed in full also leaves the open states.
* **PlanningMasters.** `OneInForce` is kept by the commit alone: what it displaces is what is in force then. `ForceIsLogged` follows the log: a document whose commit found no younger event has its own as the newest, and
  the others are in `backdated`. `BuiltOnSignedPackages` rests on `Masters` (a document in force is settled),
  `MadeOfSigned` (a sign-off names settled documents of one package) and `Provenance`: what a review or a creation has read *was* true, and `settled` and `signoff` only grow, so it still is
  what the property asks for when it is written, although the documents may be displaced by then.
  `SuccessorsLead` carries the chain itself (`Chained`): a release only adds links into the configuration it releases, which is not itself superseded.
* **WorkOrders.** `OverMeansOver` is about statuses derived earlier: `Floor` says that requests hold operations and orders that were not over, and that a
  derived COMPLETED or CANCELLED is still justified when it is written, since an operation that is over reopens only by a write that makes the order contended.
  `QuotesBecomeOneOrder` needs that an order made from a quote has the quote's number (`Origins`) and that the quote names it (`Conversions`); sellers' checks are not needed at all.
  `Following` and `History` say who still owes the order a write: an order disagrees with its operations, or its history with its status, only while a request that has read it holds it, or it is
  marked `outrun` or `unrecorded`; deriving a status twice gives the same status, so settling, scheduling and publishing keep it.

* **Sums.** Quantities held, posted and planned are sums over sets of rows (`SumFunctionOnSet` of the community modules, a fold). What a fold computes is an induction over finite sets,
  and the library's induction theorems take an operator no installed prover can instantiate. `Sums` goes round it: a sum of integers is the number of *units* of its positive terms (a union of sets `{x} \X (1..f[x])`)
  less that of its negative ones, and cardinalities have first-order theorems. Were a sum not that number for some set, there would be a smallest such set (`WFMin`, strict inclusion of finite sets being
  well-founded); it is not empty, and the element `CHOOSE` takes out of it leaves a smaller one, where both agree. `SumIsCount` says so, and the rest follows:
  a sum may lose any of its elements, depends on its terms only, and is at least each of them when none is negative. Invariants use `SumStep`: sums that differ in one row (`OneApart`), by its term or by
  whether it belongs, differ by what the row adds.
* **Sums of Materials.** A command writes one reservation, its lot and its part. `Held` says that lots and parts hold the sums over their reservations; `MovesTogether` is what reserving, releasing and consuming
  have in common, and `MovedTogether` that it keeps `Held`. That `GREATEST(..., 0)` never rounds is not assumed: `PartCovers` derives it, since a sum of open quantities is at least the one that is taken (`SumOfNaturals`). Stock that is
  reserved is on hand by `LotsSound`. A transfer is two `SumStep`s, out of one lot and into another, through a state of the ledger that never exists.
  `ReceiptsAddUp` needs `NothingReceivedYet`: an unwritten lot has no receipt, and an order that is still DRAFT no line with received goods, *whatever* late commands did, for no command leads back to DRAFT. Hence an update that
  is in time throws no receipt away, and a lot made by a transfer, which names its source lot, adds nothing to any line.
* **Account.** Every command is an `Entry`: it moves the totals by amounts that fit one step of `StockAccount`. For a movement of one lot that is `SumAdd`, for the reservation it writes the same `MovesTogether` that keeps
  `Held`. Since both sides of it move by the same amount, what the lots set aside stays what the reservations hold (`SetAsideIsHeld`); as no lot sets aside more than it has, nor do they together (`SumMonotone`), and this
  is what `Hold` and `Correct` ask for: a reservation or a correction is guarded by its own lots, the account by the total.
* **Slots.** `SlotsSound` adds to the property what a publication relies on from its preview to its commit: its plan fits the slot's capacity unless the slot has shrunk since (`PlansFit`), and every slot respects the table's check.
  At its commit, a slot it touched in which no snapshot it may have shows another's assignments holds exactly what the plan puts there, so the sum is within the capacity and LEAST does not cut it; a slot it did not touch
  keeps its assignments, since those of dropped operations are in `AffectedSlots`. The types of `Production` follow from the invariants of the three modules and
  from `LoadIsNatural`.

*Only model-checked:* everything under fairness (`PendingIsSettled`, `NoticesAreAnswered`, `AnnouncedIsConsumed`, the liveness of the promise), which is out of this prover's reach. So is what would need
ENABLED, such as that a system at rest has nothing left to do.

## 5. Disagreements found

1. `retryInvoiceSyncHandler` answers "Sync record queued for retry." and leaves the row IN_PROGRESS, which no processor takes up (`lambda/accounting/handlers.ts:2501`). `retryPaymentSyncHandler` has the same shape.
2. `processRecord` creates an invoice without looking at the mapping (`invoiceSyncProcessor.service.ts:179`), against `docs/architecture/quickbooks-integration-layer-design.md:298`.
3. `processOutbox` never selects FAILED rows, against `docs/architecture/domain-event-model-eventbridge-outbox.md:231`. With that the retry policy of lines 235-236 is void: "increment `attempt_count`" and "After threshold: set
   `publish_status='DEAD_LETTERED'`". A row is read while PENDING only and its count is written as one more than was read then (`packages/events/src/outbox-processor.ts:79`, `:92`), so it never passes 1, and nothing writes DEAD_LETTERED.
4. Two deliveries of one payment create two rows (`paymentSync.service.ts:274`), against `docs/architecture/quickbooks-integration-layer-design.md:412`. The test of `createFromWebhook` calls it twice in sequence.

Three further texts were met and have no run of their own. "On success: set `publish_status='PUBLISHED'`, `published_at`, increment `attempt_count`" and the same "On failure" (`docs/architecture/domain-event-model-eventbridge-outbox.md:234-235`): each overlapping run writes
the count it read plus one, so an event published twice counts one attempt (`Mark` in `EventOutbox`). No property that holds is stated about the count. "Released build configurations can only be superseded by releasing a newer version."
(`lambda/work-orders/planning-masters.ts:1867`) is an error message; an older version that is still LOCKED may supersede a newer one, since versions are not compared.
Publishing a window again supersedes the assignments published for it before, although the preview leaves out the operations that have one.

## 6. Not modelled, and the plan

In order:

1. **CustomerSync** - `queueSync` on the unique key against `executeSync` in flight, with the customer case of the failure queue.
2. **Reconciliation** - counters of a run in which a create fails (`matchedCount` and `errorCount` may both be raised), runs left RUNNING.
3. **Tokens** - a warm Lambda's cache while another process rotates the refresh token (`quickbooks.tokenManager.ts:138`).
4. **QC gates and rework** beside `WorkOrders`: `batchSubmit` (`contexts/tickets/qcGate.service.ts:38`) against task completion. Time entries exist only in the in-memory task service.
5. **Editing quotes**: `updateQuote` and its lines on a stale DRAFT check may change a quote that was sent.
6. **The build slot engine** (`computeDeterministicSchedule`) as a function checked against its definition over bounded inputs; `Preview` allows every plan it may return.

Left aside: single-row CRUD (opportunities, vendors, SOP, communication, vehicles, workspace, settings, catalog), stateless checks
(identity, RBAC), prompting and retrieval (AI, copilot, QA agents), one-off imports (migration), user interfaces and Terraform, the latter
read only for the schedules above.
