----------------------------- MODULE EventOutbox -----------------------------
(***************************************************************************)
(* From the outbox table to the consumer: overlapping runs of processOutbox *)
(* publish event_outbox rows to EventBridge, which delivers work_order     *)
(* .completed events to WorkerRuntime.handle, which creates rows of        *)
(* invoice_sync_records.                                                   *)
(*                                                                         *)
(* Publishing and marking are two awaited calls with nothing held between  *)
(* them, and no run claims its rows. A call may throw before or after it   *)
(* took effect; a run may die between two calls.                           *)
(***************************************************************************)
EXTENDS Integers, FiniteSets

CONSTANTS
  MaxEvents,   \* rows of event_outbox ever written                    (bound)
  WorkOrders,
  WorkOrderOf, \* event -> the work order its payload names
  Publishers,  \* runs of the outbox publisher that may overlap
  Handlers,    \* invocations of the worker that may overlap
  BatchSize,   \* options.batchSize of processOutbox
  MaxRetries,  \* options.maxRetries of WorkerRuntime
  MaxMishaps,  \* crashes and duplicated deliveries, counted together  (bound)
  None

\* Rows are numbered in the order of created_at.
Events == 1..MaxEvents

ASSUME ConstantsAssumption ==
  /\ MaxEvents \in Nat
  /\ WorkOrderOf \in [Events -> WorkOrders]
  /\ IsFiniteSet(Handlers)
  /\ BatchSize \in Nat \ {0}
  /\ MaxRetries \in Nat \ {0}
  /\ MaxMishaps \in Nat
  /\ None \notin Events

VARIABLES
  \* event_outbox: state and attempt_count
  state, attemptCount,
  \* EventBridge: events that reached the bus, copies still to be delivered, and
  \* events whose last error was thrown out of WorkerRuntime.handle to its caller
  announced, copies, rejected,
  \* one run of processOutbox: the rows it read and has not dealt with, and what
  \* it does next with the first of them
  batch, doing,
  \* WorkerRuntime.handle: the event, its step and the attempt
  handled, step, attempt,
  \* rows of invoice_sync_records that are not CANCELLED, per work order
  syncRecords,
  mishaps

table   == <<state, attemptCount>>
bus     == <<announced, copies, rejected>>
runs    == <<batch, doing>>
workers == <<handled, step, attempt>>
vars    == <<table, bus, runs, workers, syncRecords, mishaps>>

\* What a run keeps of a row it has read.
RowsRead == [id : Events, attemptCount : Nat]

States == {"ABSENT", "PENDING", "PUBLISHED", "FAILED"}

TypeOK ==
  /\ state \in [Events -> States]
  /\ attemptCount \in [Events -> Nat]
  /\ announced \subseteq Events
  /\ copies \in [Events -> Nat]
  /\ rejected \subseteq Events
  /\ batch \in [Publishers -> SUBSET RowsRead]
  /\ doing \in [Publishers -> {"publish", "markPublished", "markFailed"}]
  /\ handled \in [Handlers -> Events \cup {None}]
  /\ step \in [Handlers -> {"check", "create", "thrown"}]
  /\ attempt \in [Handlers -> 0..MaxRetries]
  /\ syncRecords \in [WorkOrders -> Nat]
  /\ mishaps \in 0..MaxMishaps

Init ==
  /\ state = [e \in Events |-> "ABSENT"]
  /\ attemptCount = [e \in Events |-> 0]
  /\ announced = {} /\ rejected = {}
  /\ copies = [e \in Events |-> 0]
  /\ batch = [p \in Publishers |-> {}]
  /\ doing = [p \in Publishers |-> "publish"]
  /\ handled = [h \in Handlers |-> None]
  /\ step = [h \in Handlers |-> "check"]
  /\ attempt = [h \in Handlers |-> 0]
  /\ syncRecords = [w \in WorkOrders |-> 0]
  /\ mishaps = 0

-----------------------------------------------------------------------------
(* processOutbox *)

\* A writer commits the next row; its columns have the defaults of the schema.
InsertRow(e) ==
  /\ state[e] = "ABSENT"
  /\ \A f \in Events : f < e => state[f] # "ABSENT"
  /\ state' = [state EXCEPT ![e] = "PENDING"]
  /\ UNCHANGED <<attemptCount, bus, runs, workers, syncRecords, mishaps>>

Pending == {e \in Events : state[e] = "PENDING"}

\* The BatchSize oldest PENDING rows, as they are now.
PendingBatch ==
  {[id |-> e, attemptCount |-> attemptCount[e]] :
     e \in {e \in Pending : Cardinality({f \in Pending : f < e}) < BatchSize}}

StartRun(p) ==
  /\ batch[p] = {}
  /\ PendingBatch # {}
  /\ batch' = [batch EXCEPT ![p] = PendingBatch]
  /\ UNCHANGED <<table, bus, doing, workers, syncRecords, mishaps>>

\* The row the loop of run p is at: the oldest of those it has not dealt with.
Current(p, row) == row \in batch[p] /\ \A other \in batch[p] : row.id <= other.id

\* Putting one entry on the bus: one more copy for the consumer.
PutEvent(e) ==
  /\ announced' = announced \cup {e}
  /\ copies' = [copies EXCEPT ![e] = @ + 1]
  /\ UNCHANGED rejected

\* Mutant of Publish: publish is not awaited, its rejection goes unseen.
PublishUnawaited(p, row) ==
  /\ Current(p, row) /\ doing[p] = "publish"
  /\ PutEvent(row.id) \/ UNCHANGED bus
  /\ doing' = [doing EXCEPT ![p] = "markPublished"]
  /\ UNCHANGED <<table, batch, workers, syncRecords, mishaps>>

\* bus.publish resolves, rejects after the bus took the event, or just rejects.
Publish(p, row) ==
  /\ Current(p, row) /\ doing[p] = "publish"
  /\ \/ /\ PutEvent(row.id)
        /\ \E to \in {"markPublished", "markFailed"} : doing' = [doing EXCEPT ![p] = to]
     \/ /\ UNCHANGED bus
        /\ doing' = [doing EXCEPT ![p] = "markFailed"]
  /\ UNCHANGED <<table, batch, workers, syncRecords, mishaps>>

\* The update of the row by id, whatever its state has become.
Mark(row, s) ==
  /\ state' = [state EXCEPT ![row.id] = s]
  /\ attemptCount' = [attemptCount EXCEPT ![row.id] = row.attemptCount + 1]

\* The loop goes on with the next row.
NextRow(p, row) ==
  /\ batch' = [batch EXCEPT ![p] = @ \ {row}]
  /\ doing' = [doing EXCEPT ![p] = "publish"]

\* The update succeeds, or it throws after or before taking effect: the catch
\* block belongs to publishing and marking alike.
MarkPublished(p, row) ==
  /\ Current(p, row) /\ doing[p] = "markPublished"
  /\ \/ Mark(row, "PUBLISHED") /\ NextRow(p, row)
     \/ /\ Mark(row, "PUBLISHED") \/ UNCHANGED table
        /\ doing' = [doing EXCEPT ![p] = "markFailed"]
        /\ UNCHANGED batch
  /\ UNCHANGED <<bus, workers, syncRecords, mishaps>>

\* The update in the catch block.
MarkFailed(p, row) ==
  /\ Current(p, row) /\ doing[p] = "markFailed"
  /\ Mark(row, "FAILED")
  /\ NextRow(p, row)
  /\ UNCHANGED <<bus, workers, syncRecords, mishaps>>

\* The run times out, or the update in the catch block throws.
CrashRun(p) ==
  /\ batch[p] # {} /\ mishaps < MaxMishaps
  /\ mishaps' = mishaps + 1
  /\ batch' = [batch EXCEPT ![p] = {}]
  /\ doing' = [doing EXCEPT ![p] = "publish"]
  /\ UNCHANGED <<table, bus, workers, syncRecords>>

-----------------------------------------------------------------------------
(* EventBridge and WorkerRuntime.handle with the invoice job *)

\* The bus delivers at least once.
Duplicate(e) ==
  /\ copies[e] > 0 /\ mishaps < MaxMishaps
  /\ mishaps' = mishaps + 1
  /\ copies' = [copies EXCEPT ![e] = @ + 1]
  /\ UNCHANGED <<table, announced, rejected, runs, workers, syncRecords>>

Deliver(h, e) ==
  /\ handled[h] = None /\ copies[e] > 0
  /\ copies' = [copies EXCEPT ![e] = @ - 1]
  /\ handled' = [handled EXCEPT ![h] = e]
  /\ step' = [step EXCEPT ![h] = "check"]
  /\ attempt' = [attempt EXCEPT ![h] = 1]
  /\ UNCHANGED <<table, announced, rejected, runs, syncRecords, mishaps>>

Goto(h, to) ==
  /\ step' = [step EXCEPT ![h] = to]
  /\ UNCHANGED <<handled, attempt>>

\* handle returns, or throws for good.
Leave(h) ==
  /\ handled' = [handled EXCEPT ![h] = None]
  /\ step' = [step EXCEPT ![h] = "check"]
  /\ attempt' = [attempt EXCEPT ![h] = 0]

\* Mutant of CheckExisting: an existing record is not looked for.
CheckNothing(h) ==
  /\ handled[h] # None /\ step[h] = "check"
  /\ Goto(h, "create")
  /\ UNCHANGED <<table, bus, runs, syncRecords, mishaps>>

\* findFirst of a record of the work order: done, or go on, or it throws.
CheckExisting(h) ==
  /\ handled[h] # None /\ step[h] = "check"
  /\ \/ syncRecords[WorkOrderOf[handled[h]]] > 0 /\ Leave(h)
     \/ syncRecords[WorkOrderOf[handled[h]]] = 0 /\ Goto(h, "create")
     \/ Goto(h, "thrown")
  /\ UNCHANGED <<table, bus, runs, syncRecords, mishaps>>

\* Loading the work order and create; a throw comes before or after the insert.
CreateRecord(h) ==
  /\ handled[h] # None /\ step[h] = "create"
  /\ \/ /\ syncRecords' = [syncRecords EXCEPT ![WorkOrderOf[handled[h]]] = @ + 1]
        /\ Leave(h) \/ Goto(h, "thrown")
     \/ UNCHANGED syncRecords /\ Goto(h, "thrown")
  /\ UNCHANGED <<table, bus, runs, mishaps>>

\* Mutant of Retry: one retry too many.
RetryOnceMore(h) ==
  /\ handled[h] # None /\ step[h] = "thrown" /\ attempt[h] <= MaxRetries
  /\ attempt' = [attempt EXCEPT ![h] = @ + 1]
  /\ step' = [step EXCEPT ![h] = "check"]
  /\ UNCHANGED <<table, bus, runs, handled, syncRecords, mishaps>>

\* The while loop of handle calls the handler again.
Retry(h) ==
  /\ handled[h] # None /\ step[h] = "thrown" /\ attempt[h] < MaxRetries
  /\ attempt' = [attempt EXCEPT ![h] = @ + 1]
  /\ step' = [step EXCEPT ![h] = "check"]
  /\ UNCHANGED <<table, bus, runs, handled, syncRecords, mishaps>>

\* Mutant of Rethrow: handle logs the last error and returns.
SwallowLastError(h) ==
  /\ handled[h] # None /\ step[h] = "thrown" /\ attempt[h] >= MaxRetries
  /\ Leave(h)
  /\ UNCHANGED <<table, bus, runs, syncRecords, mishaps>>

\* handle throws the last error out to its caller, which sees that it failed.
Rethrow(h) ==
  /\ handled[h] # None /\ step[h] = "thrown" /\ attempt[h] >= MaxRetries
  /\ rejected' = rejected \cup {handled[h]}
  /\ Leave(h)
  /\ UNCHANGED <<table, announced, copies, runs, syncRecords, mishaps>>

\* The worker dies; the bus still has to deliver the event.
CrashWorker(h) ==
  /\ handled[h] # None /\ mishaps < MaxMishaps
  /\ mishaps' = mishaps + 1
  /\ copies' = [copies EXCEPT ![handled[h]] = @ + 1]
  /\ Leave(h)
  /\ UNCHANGED <<table, announced, rejected, runs, syncRecords>>

-----------------------------------------------------------------------------
RunStep(p) ==
  \E row \in batch[p] : Publish(p, row) \/ MarkPublished(p, row) \/ MarkFailed(p, row)

WorkerStep(h) == CheckExisting(h) \/ CreateRecord(h) \/ Retry(h) \/ Rethrow(h)

Next ==
  \/ \E e \in Events : InsertRow(e) \/ Duplicate(e)
  \/ \E p \in Publishers : StartRun(p) \/ RunStep(p) \/ CrashRun(p)
  \/ \E h \in Handlers :
       (\E e \in Events : Deliver(h, e)) \/ WorkerStep(h) \/ CrashWorker(h)

Spec == Init /\ [][Next]_vars

(* The schedule fires every minute, a run and a worker run on, the bus delivers. *)
Fairness ==
  /\ \A p \in Publishers : WF_vars(StartRun(p)) /\ WF_vars(RunStep(p))
  /\ \A h \in Handlers : WF_vars(\E e \in Events : Deliver(h, e)) /\ WF_vars(WorkerStep(h))

FairSpec == Spec /\ Fairness

-----------------------------------------------------------------------------
(* Properties *)

Promise == INSTANCE OutboxPromise WITH outcome <- state

\* The outbox keeps its promise to the writers although runs overlap without
\* claiming rows, a failed mark turns PUBLISHED into FAILED, and runs die.
PromiseKept == Promise!Spec

\* Deliveries that overlap each look for a record before any of them creates one,
\* and nothing serializes them. Still a work order gets no more sync records than
\* there are deliveries handled at once, however many copies of however many events
\* arrive one after the other and whatever retry repeats a create whose answer was lost.
RecordsBoundedByHandlers ==
  \A w \in WorkOrders : syncRecords[w] <= Cardinality(Handlers)

\* An event that reached the bus ends in a sync record of its work order or in an
\* error thrown to the caller of handle: crashes and failed attempts lose none silently.
AnnouncedIsConsumed ==
  \A e \in Events :
    e \in announced ~> syncRecords[WorkOrderOf[e]] > 0 \/ e \in rejected

(* What makes these inductive. *)

\* A run only holds rows that were written, and marks as PUBLISHED only a row whose
\* event is on the bus.
BatchesAreWritten ==
  /\ \A e \in announced : state[e] # "ABSENT"
  /\ \A p \in Publishers : \A row \in batch[p] :
       /\ state[row.id] # "ABSENT"
       /\ doing[p] = "markPublished" /\ Current(p, row) => row.id \in announced
  /\ \A p \in Publishers : batch[p] = {} => doing[p] = "publish"

IInv == TypeOK /\ BatchesAreWritten

\* The handlers that found no record of work order w and are about to create one.
CreatorsOf(w) ==
  {h \in Handlers : handled[h] # None /\ step[h] = "create" /\ WorkOrderOf[handled[h]] = w}

\* A handler only gets there while the work order has no record, so the records and
\* those about to be created together never outnumber the handlers.
CreatorsAreBounded ==
  \A w \in WorkOrders : syncRecords[w] + Cardinality(CreatorsOf(w)) <= Cardinality(Handlers)

\* "Claim rows where publish_status in ('PENDING','FAILED')": a FAILED row is taken
\* up again.
FailedIsClaimedAgain ==
  \A e \in Events : state[e] = "FAILED" ~> state[e] # "FAILED"
=============================================================================
