----------------------------- MODULE PaymentSync -----------------------------
(***************************************************************************)
(* Inbound QuickBooks payments: invocations of webhookHandler store the    *)
(* notices of a delivery and create rows of payment_sync_records, workers  *)
(* (the scheduled batch and the event job) take PENDING rows through       *)
(* IN_PROGRESS to SYNCED or FAILED, and operators put rows back.           *)
(*                                                                         *)
(* One action is one awaited call. Workers and operators update a row by   *)
(* its id whatever its state has become.                                   *)
(***************************************************************************)
EXTENDS Integers, FiniteSets

CONSTANTS
  MaxRecords,  \* rows of payment_sync_records ever created         (bound)
  MaxNotices,  \* payment changes QuickBooks ever reports           (bound)
  Payments,    \* QuickBooks payments
  PaymentOf,   \* notice -> the payment it reports created or updated
  Known,       \* notices whose realm has an ACTIVE integration account
  Hooks,       \* invocations of webhookHandler that may overlap
  Workers,     \* invocations of the batch handler or the event job that may overlap
  Mortal,      \* those of them that may be killed in the middle
  Requeuers,   \* concurrent failure-queue requests
  Retriers,    \* concurrent retryPaymentSyncHandler requests
  BatchSize,   \* event.batchSize of the scheduled handler
  MaxAttempts, \* bound: a row with so many attempts is not put back
  MaxMishaps,  \* webhook invocations that die or answer 500        (bound)
  None

\* Rows and notices are numbered in the order of their creation.
Records == 1..MaxRecords
Notices == 1..MaxNotices

ASSUME ConstantsAssumption ==
  /\ MaxRecords \in Nat /\ MaxNotices \in Nat
  /\ PaymentOf \in [Notices -> Payments]
  /\ Known \subseteq Notices
  /\ Mortal \subseteq Workers
  /\ BatchSize \in Nat \ {0} /\ MaxAttempts \in Nat /\ MaxMishaps \in Nat
  /\ None \notin Payments \cup [rec : Records, attempts : Nat]

VARIABLES
  \* payment_sync_records: state, attemptCount, qbPaymentId
  state, attemptCount, qbPaymentId,
  \* webhook_inbox_events; notices QuickBooks has sent, and those answered with 200
  inbox, sent, answered,
  \* one invocation of webhookHandler: the notices of its delivery, those the
  \* loop it is in has not dealt with, and what it does next
  payload, left, at,
  \* one worker: the rows it read and has not dealt with, and what it does next
  \* with the first of them
  batch, doing,
  \* failure-queue requests, row images about to be saved by retryPayment
  requeue, save,
  mishaps

rows    == <<state, attemptCount, qbPaymentId>>
notices == <<inbox, sent, answered>>
hooks   == <<payload, left, at>>
workers == <<batch, doing>>
vars    == <<rows, notices, hooks, workers, requeue, save, mishaps>>

\* What a worker keeps of a row it has read.
RowsRead == [id : Records, attemptCount : Nat]

States == {"ABSENT", "PENDING", "IN_PROGRESS", "SYNCED", "FAILED"}

Stored == {r \in Records : state[r] # "ABSENT"}
InState(s) == {r \in Records : state[r] = s}

\* The bound on retries; no limit exists in the code.
MayRetry(r) == attemptCount[r] < MaxAttempts

TypeOK ==
  /\ state \in [Records -> States]
  /\ attemptCount \in [Records -> Nat]
  /\ qbPaymentId \in [Records -> Payments \cup {None}]
  /\ inbox \subseteq Notices /\ sent \subseteq Notices /\ answered \subseteq Notices
  /\ payload \in [Hooks -> SUBSET Notices]
  /\ left \in [Hooks -> SUBSET Notices]
  /\ at \in [Hooks -> {"idle", "look", "insert", "tokens", "fetch", "check", "save"}]
  /\ batch \in [Workers -> SUBSET RowsRead]
  /\ doing \in [Workers -> {"begin", "verify", "finish", "fail"}]
  /\ requeue \in [Requeuers -> SUBSET Records]
  /\ save \in [Retriers -> [rec : Records, attempts : Nat] \cup {None}]
  /\ mishaps \in 0..MaxMishaps

Init ==
  /\ state = [r \in Records |-> "ABSENT"]
  /\ attemptCount = [r \in Records |-> 0]
  /\ qbPaymentId = [r \in Records |-> None]
  /\ inbox = {} /\ sent = {} /\ answered = {}
  /\ payload = [h \in Hooks |-> {}]
  /\ left = [h \in Hooks |-> {}]
  /\ at = [h \in Hooks |-> "idle"]
  /\ batch = [w \in Workers |-> {}]
  /\ doing = [w \in Workers |-> "begin"]
  /\ requeue = [q \in Requeuers |-> {}]
  /\ save = [t \in Retriers |-> None]
  /\ mishaps = 0

-----------------------------------------------------------------------------
(* webhookHandler *)

\* QuickBooks reports the next change of a payment ...
Report(n) ==
  /\ n \notin sent /\ \A m \in Notices : m < n => m \in sent
  /\ sent' = sent \cup {n}
  /\ UNCHANGED <<rows, inbox, answered, hooks, workers, requeue, save, mishaps>>

\* ... and delivers it, with others, until a delivery is answered with 200.
Deliver(h, S) ==
  /\ at[h] = "idle"
  /\ S # {} /\ S \subseteq sent \ answered
  /\ payload' = [payload EXCEPT ![h] = S]
  /\ left' = [left EXCEPT ![h] = S]
  /\ at' = [at EXCEPT ![h] = "look"]
  /\ UNCHANGED <<rows, notices, workers, requeue, save, mishaps>>

\* The notice a loop of invocation h is at.
CurrentNotice(h, n) == n \in left[h] /\ \A m \in left[h] : n <= m

\* The loop goes on with its next notice.
NextNotice(h, n, step) ==
  /\ left' = [left EXCEPT ![h] = @ \ {n}]
  /\ at' = [at EXCEPT ![h] = step]
  /\ UNCHANGED payload

Goto(h, step) == at' = [at EXCEPT ![h] = step] /\ UNCHANGED <<payload, left>>

\* Mutant of LookUp: the inbox is not asked, the unique key has to do.
LookUpNothing(h, n) ==
  /\ at[h] = "look" /\ CurrentNotice(h, n)
  /\ IF n \in Known THEN Goto(h, "insert") ELSE NextNotice(h, n, "look")
  /\ UNCHANGED <<rows, notices, workers, requeue, save, mishaps>>

\* A notice of an unknown account is skipped, and so is one found in the inbox.
LookUp(h, n) ==
  /\ at[h] = "look" /\ CurrentNotice(h, n)
  /\ IF n \in Known \ inbox THEN Goto(h, "insert") ELSE NextNotice(h, n, "look")
  /\ UNCHANGED <<rows, notices, workers, requeue, save, mishaps>>

\* The invocation ends; unless it answered 200 QuickBooks will deliver again.
Leave(h) ==
  /\ payload' = [payload EXCEPT ![h] = {}]
  /\ left' = [left EXCEPT ![h] = {}]
  /\ at' = [at EXCEPT ![h] = "idle"]

\* Mutant of StoreNotice: the violation of the unique key is caught with the payments.
StoreNoticeOrNot(h, n) ==
  /\ at[h] = "insert" /\ CurrentNotice(h, n)
  /\ inbox' = inbox \cup {n} \/ UNCHANGED inbox
  /\ NextNotice(h, n, "look")
  /\ UNCHANGED <<rows, sent, answered, workers, requeue, save, mishaps>>

\* create; when another delivery came first the unique key makes it throw: 500.
StoreNotice(h, n) ==
  /\ at[h] = "insert" /\ CurrentNotice(h, n)
  /\ inbox' = inbox \cup {n}
  /\ IF n \in inbox THEN Leave(h) ELSE NextNotice(h, n, "look")
  /\ UNCHANGED <<rows, sent, answered, workers, requeue, save, mishaps>>

\* The first loop is done; the second one is over the same payments.
AllStored(h) ==
  /\ at[h] = "look" /\ left[h] = {}
  /\ left' = [left EXCEPT ![h] = payload[h]]
  /\ at' = [at EXCEPT ![h] = "tokens"]
  /\ UNCHANGED <<rows, notices, payload, workers, requeue, save, mishaps>>

\* Without tokens no payment is looked at; the answer is 200 all the same.
GetTokens(h) ==
  /\ at[h] = "tokens"
  /\ at' = [at EXCEPT ![h] = "fetch"]
  /\ left' \in {left, [left EXCEPT ![h] = {}]}
  /\ UNCHANGED <<rows, notices, payload, workers, requeue, save, mishaps>>

\* getPayment answers, or throws and the error is swallowed.
Fetch(h, n) ==
  /\ at[h] = "fetch" /\ CurrentNotice(h, n)
  /\ Goto(h, "check") \/ NextNotice(h, n, "fetch")
  /\ UNCHANGED <<rows, notices, workers, requeue, save, mishaps>>

RowsOf(q) == {r \in Records : qbPaymentId[r] = q}

\* findByQbPaymentId: the newest row of payment q is queued or done already.
Queued(q) ==
  \E r \in RowsOf(q) : state[r] # "FAILED" /\ \A s \in RowsOf(q) : s <= r

\* createFromWebhook looks for a row of the payment, then for the invoice, work order
\* and customer it belongs to; without one of them it throws and that is swallowed.
CheckPayment(h, n) ==
  /\ at[h] = "check" /\ CurrentNotice(h, n)
  /\ \/ ~Queued(PaymentOf[n]) /\ Goto(h, "save")
     \/ NextNotice(h, n, "fetch")
  /\ UNCHANGED <<rows, notices, workers, requeue, save, mishaps>>

\* The upsert of a PENDING row under a fresh uuid.
InsertPending(q) ==
  LET r == Cardinality(Stored) + 1
  IN  /\ r \in Records
      /\ state' = [state EXCEPT ![r] = "PENDING"]
      /\ qbPaymentId' = [qbPaymentId EXCEPT ![r] = q]
      /\ UNCHANGED attemptCount

\* Mutant of CreateRecord: the row starts in the state of an inbox row.
CreateReceived(h, n) ==
  /\ at[h] = "save" /\ CurrentNotice(h, n)
  /\ \E r \in Records \ Stored : state' = [state EXCEPT ![r] = "RECEIVED"]
  /\ NextNotice(h, n, "fetch")
  /\ UNCHANGED <<attemptCount, qbPaymentId, notices, workers, requeue, save, mishaps>>

\* The insert and what follows it; an error is swallowed, before or after the insert.
CreateRecord(h, n) ==
  /\ at[h] = "save" /\ CurrentNotice(h, n)
  /\ InsertPending(PaymentOf[n]) \/ UNCHANGED rows
  /\ NextNotice(h, n, "fetch")
  /\ UNCHANGED <<notices, workers, requeue, save, mishaps>>

\* All payments dealt with, one way or the other: 200.
Answer(h) ==
  /\ at[h] = "fetch" /\ left[h] = {}
  /\ answered' = answered \cup payload[h]
  /\ Leave(h)
  /\ UNCHANGED <<rows, inbox, sent, workers, requeue, save, mishaps>>

\* The invocation times out, or a call on the inbox throws: 500.
CrashHook(h) ==
  /\ at[h] # "idle" /\ mishaps < MaxMishaps
  /\ mishaps' = mishaps + 1
  /\ Leave(h)
  /\ UNCHANGED <<rows, notices, workers, requeue, save>>

-----------------------------------------------------------------------------
(* Workers: payment-sync.handler and qb-payment-sync.job *)

\* Mutant of Oldest: one row less than asked for.
OldestShort(k) ==
  {r \in InState("PENDING") : Cardinality({s \in InState("PENDING") : s < r}) < k - 1}

\* The k oldest PENDING rows.
Oldest(k) ==
  {r \in InState("PENDING") : Cardinality({s \in InState("PENDING") : s < r}) < k}

StartWith(w, k) ==
  /\ batch[w] = {} /\ Oldest(k) # {}
  /\ batch' = [batch EXCEPT
       ![w] = {[id |-> r, attemptCount |-> attemptCount[r]] : r \in Oldest(k)}]
  /\ UNCHANGED <<rows, notices, hooks, doing, requeue, save, mishaps>>

\* The scheduled handler reads a batch, the event job the oldest row.
StartBatch(w) == StartWith(w, BatchSize)
StartJob(w) == StartWith(w, 1)

\* The row the loop of worker w is at.
CurrentRow(w, row) == row \in batch[w] /\ \A other \in batch[w] : row.id <= other.id

NextRow(w, row) ==
  /\ batch' = [batch EXCEPT ![w] = @ \ {row}]
  /\ doing' = [doing EXCEPT ![w] = "begin"]

GoOn(w, step) == doing' = [doing EXCEPT ![w] = step] /\ UNCHANGED batch

SetState(row, s) == state' = [state EXCEPT ![row.id] = s]

\* The update to IN_PROGRESS, with the attempts counted from the row read.
MarkInProgress(row) ==
  /\ SetState(row, "IN_PROGRESS")
  /\ attemptCount' = [attemptCount EXCEPT ![row.id] = row.attemptCount + 1]

\* It succeeds, or throws after or before it took effect.
Begin(w, row) ==
  /\ CurrentRow(w, row) /\ doing[w] = "begin"
  /\ \/ MarkInProgress(row) /\ \E step \in {"verify", "fail"} : GoOn(w, step)
     \/ UNCHANGED <<state, attemptCount>> /\ GoOn(w, "fail")
  /\ UNCHANGED <<qbPaymentId, notices, hooks, requeue, save, mishaps>>

\* Mutant of Verify: a row that cannot be verified is left to a later run.
VerifyOrSkip(w, row) ==
  /\ CurrentRow(w, row) /\ doing[w] = "verify"
  /\ GoOn(w, "finish") \/ NextRow(w, row)
  /\ UNCHANGED <<rows, notices, hooks, requeue, save, mishaps>>

\* Its invoice sync record and its work order are found, or one of them is not.
Verify(w, row) ==
  /\ CurrentRow(w, row) /\ doing[w] = "verify"
  /\ \E step \in {"finish", "fail"} : GoOn(w, step)
  /\ UNCHANGED <<rows, notices, hooks, requeue, save, mishaps>>

\* The update to SYNCED, which may throw after or before it took effect.
Finish(w, row) ==
  /\ CurrentRow(w, row) /\ doing[w] = "finish"
  /\ \/ SetState(row, "SYNCED") /\ (NextRow(w, row) \/ GoOn(w, "fail"))
     \/ UNCHANGED state /\ GoOn(w, "fail")
  /\ UNCHANGED <<attemptCount, qbPaymentId, notices, hooks, requeue, save, mishaps>>

\* The update to FAILED in the catch block.
Fail(w, row) ==
  /\ CurrentRow(w, row) /\ doing[w] = "fail"
  /\ SetState(row, "FAILED")
  /\ NextRow(w, row)
  /\ UNCHANGED <<attemptCount, qbPaymentId, notices, hooks, requeue, save, mishaps>>

\* The worker times out, or the update in the catch block throws out of the loop.
CrashWorker(w) ==
  /\ w \in Mortal /\ batch[w] # {}
  /\ batch' = [batch EXCEPT ![w] = {}]
  /\ doing' = [doing EXCEPT ![w] = "begin"]
  /\ UNCHANGED <<rows, notices, hooks, requeue, save, mishaps>>

-----------------------------------------------------------------------------
(* Operators: the failure queue and retryPaymentSyncHandler *)

\* retryAll lists the FAILED rows.
RetryAllList(q) ==
  /\ requeue[q] = {}
  /\ \E r \in InState("FAILED") : MayRetry(r)
  /\ requeue' = [requeue EXCEPT ![q] = {r \in InState("FAILED") : MayRetry(r)}]
  /\ UNCHANGED <<rows, notices, hooks, workers, save, mishaps>>

\* retryRecord named by an operator: no look at the state of the row at all.
RetryRecord(q, r) ==
  /\ requeue[q] = {}
  /\ r \in Stored /\ MayRetry(r)
  /\ requeue' = [requeue EXCEPT ![q] = {r}]
  /\ UNCHANGED <<rows, notices, hooks, workers, save, mishaps>>

\* resetPaymentToRetry, one row after the other; a failed update is not repeated.
ResetToPending(q) ==
  \E r \in requeue[q] :
    /\ state' = [state EXCEPT ![r] = "PENDING"] \/ UNCHANGED state
    /\ requeue' = [requeue EXCEPT ![q] = @ \ {r}]
    /\ UNCHANGED <<attemptCount, qbPaymentId, notices, hooks, workers, save, mishaps>>

\* retryPayment reads a FAILED row ...
RetryPayment(t, r) ==
  /\ save[t] = None
  /\ state[r] = "FAILED" /\ MayRetry(r)
  /\ save' = [save EXCEPT ![t] = [rec |-> r, attempts |-> attemptCount[r] + 1]]
  /\ UNCHANGED <<rows, notices, hooks, workers, requeue, mishaps>>

\* ... and saves the whole of it as IN_PROGRESS, or throws.
SaveRetry(t) ==
  /\ save[t] # None
  /\ \/ /\ state' = [state EXCEPT ![save[t].rec] = "IN_PROGRESS"]
        /\ attemptCount' = [attemptCount EXCEPT ![save[t].rec] = save[t].attempts]
     \/ UNCHANGED <<state, attemptCount>>
  /\ save' = [save EXCEPT ![t] = None]
  /\ UNCHANGED <<qbPaymentId, notices, hooks, workers, requeue, mishaps>>

-----------------------------------------------------------------------------
DeliverAny(h) == \E S \in SUBSET Notices : Deliver(h, S)

\* What an invocation of the webhook does once it has started.
HookStep(h) ==
  \/ \E n \in Notices : LookUp(h, n) \/ StoreNotice(h, n) \/ Fetch(h, n)
                          \/ CheckPayment(h, n) \/ CreateRecord(h, n)
  \/ AllStored(h) \/ GetTokens(h) \/ Answer(h)

\* What a worker does once it has started.
WorkerStep(w) ==
  \E row \in batch[w] : Begin(w, row) \/ Verify(w, row) \/ Finish(w, row) \/ Fail(w, row)

Intake ==
  \/ \E n \in Notices : Report(n)
  \/ \E h \in Hooks : DeliverAny(h) \/ HookStep(h) \/ CrashHook(h)

Process ==
  \E w \in Workers : StartBatch(w) \/ StartJob(w) \/ WorkerStep(w) \/ CrashWorker(w)

Operate ==
  \/ \E q \in Requeuers :
       RetryAllList(q) \/ (\E r \in Records : RetryRecord(q, r)) \/ ResetToPending(q)
  \/ \E t \in Retriers : (\E r \in Records : RetryPayment(t, r)) \/ SaveRetry(t)

Next == Intake \/ Process \/ Operate

Spec == Init /\ [][Next]_vars

(* QuickBooks delivers again until it is answered, the schedule fires whatever *)
(* jobs run in between, invocations run on, accepted requests are carried out. *)
Fairness ==
  /\ \A h \in Hooks : WF_vars(DeliverAny(h)) /\ WF_vars(HookStep(h))
  /\ \A w \in Workers : SF_vars(StartBatch(w)) /\ WF_vars(WorkerStep(w))
  /\ \A q \in Requeuers : WF_vars(ResetToPending(q))
  /\ \A t \in Retriers : WF_vars(SaveRetry(t))

FairSpec == Spec /\ Fairness

-----------------------------------------------------------------------------
(* Properties *)

\* "inbox event is the source of truth": whatever deliveries overlap, die or are
\* repeated, a notice of a connected account is answered with 200 only when it is
\* in the inbox.
AnsweredIsStored == answered \cap Known \subseteq inbox

\* Why AnsweredIsStored holds: an invocation has every notice of its delivery in the
\* inbox once it is past the first loop, and those the loop is done with before that.
DeliveriesAreStored ==
  \A h \in Hooks :
    /\ at[h] \in {"look", "insert"} => payload[h] \cap Known \subseteq inbox \cup left[h]
    /\ at[h] \in {"tokens", "fetch", "check", "save"} => payload[h] \cap Known \subseteq inbox

\* The inductive invariant.
IInv == TypeOK /\ AnsweredIsStored /\ DeliveriesAreStored

\* An IN_PROGRESS row is in the hands of a worker that is going to settle it, although
\* workers overlap on rows they do not claim and operators reset rows in between.
InProgressIsHeld ==
  \A r \in InState("IN_PROGRESS") :
    \E w \in Workers : \E row \in batch[w] :
      row.id = r /\ CurrentRow(w, row) /\ doing[w] # "begin"

\* QuickBooks gets its 200 in the end: a redelivery after a death between storing
\* and answering, or beside another delivery, is not refused for ever.
NoticesAreAnswered == \A n \in Notices : n \in sent ~> n \in answered

\* A PENDING row is eventually settled, although operators go on putting rows back.
PendingIsSettled ==
  \A r \in Records : state[r] = "PENDING" ~> state[r] \in {"SYNCED", "FAILED"}

\* "Duplicate webhook event does not create duplicate payment updates": at most one
\* row of a payment is queued, in progress or done.
OneRowPerPayment ==
  \A q \in Payments : Cardinality({r \in RowsOf(q) : state[r] # "FAILED"}) <= 1
=============================================================================
