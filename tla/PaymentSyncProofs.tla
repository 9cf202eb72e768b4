-------------------------- MODULE PaymentSyncProofs --------------------------
(***************************************************************************)
(* Proofs about PaymentSync for any number of notices, rows, overlapping   *)
(* invocations of the webhook, workers and operators.                      *)
(***************************************************************************)
EXTENDS PaymentSync, TLAPS

USE ConstantsAssumption

-----------------------------------------------------------------------------
\* An empty database satisfies the invariant.
LEMMA InitIInv == Init => IInv
  BY DEF Init, IInv, TypeOK, AnsweredIsStored, DeliveriesAreStored, States

\* QuickBooks and the invocations of the webhook keep the invariant.
LEMMA IntakeIInv == ASSUME IInv, Intake PROVE IInv'
<1>. USE DEF IInv, TypeOK, AnsweredIsStored, DeliveriesAreStored, States,
             rows, notices, hooks, workers
<1>1. ASSUME NEW n \in Notices, Report(n) PROVE IInv'
  BY <1>1 DEF Report
<1>2. ASSUME NEW h \in Hooks, NEW S \in SUBSET Notices, Deliver(h, S) PROVE IInv'
  BY <1>2 DEF Deliver
<1>. USE DEF Goto, NextNotice, Leave
<1>3. ASSUME NEW h \in Hooks, NEW n \in Notices, LookUp(h, n) PROVE IInv'
  BY <1>3 DEF LookUp
<1>4. ASSUME NEW h \in Hooks, NEW n \in Notices, StoreNotice(h, n) PROVE IInv'
  BY <1>4 DEF StoreNotice
<1>5. ASSUME NEW h \in Hooks, NEW n \in Notices, Fetch(h, n) PROVE IInv'
  BY <1>5 DEF Fetch
<1>6. ASSUME NEW h \in Hooks, NEW n \in Notices, CheckPayment(h, n) PROVE IInv'
  BY <1>6 DEF CheckPayment
<1>7. ASSUME NEW h \in Hooks, NEW n \in Notices, CreateRecord(h, n) PROVE IInv'
  <2>1. PaymentOf[n] \in Payments
    OBVIOUS
  <2>. QED
    BY <1>7, <2>1 DEF CreateRecord, InsertPending
<1>8. ASSUME NEW h \in Hooks, AllStored(h) PROVE IInv'
  BY <1>8 DEF AllStored
<1>9. ASSUME NEW h \in Hooks, GetTokens(h) PROVE IInv'
  BY <1>9 DEF GetTokens
<1>10. ASSUME NEW h \in Hooks, Answer(h) PROVE IInv'
  BY <1>10 DEF Answer
<1>11. ASSUME NEW h \in Hooks, CrashHook(h) PROVE IInv'
  BY <1>11 DEF CrashHook
<1>. QED
  BY <1>1, <1>2, <1>3, <1>4, <1>5, <1>6, <1>7, <1>8, <1>9, <1>10, <1>11
     DEF Intake, HookStep, DeliverAny

\* Workers keep the invariant: they never touch the inbox.
LEMMA ProcessIInv == ASSUME IInv, Process PROVE IInv'
<1>. USE DEF IInv, TypeOK, AnsweredIsStored, DeliveriesAreStored, States,
             rows, notices, hooks, workers, RowsRead
<1>1. ASSUME NEW w \in Workers, NEW k \in Nat, StartWith(w, k) PROVE IInv'
  <2>. DEFINE Read == {[id |-> r, attemptCount |-> attemptCount[r]] : r \in Oldest(k)}
  <2>1. Oldest(k) \subseteq Records
    BY DEF Oldest, InState
  <2>2. Read \subseteq RowsRead
    BY <2>1
  <2>. QED
    BY <1>1, <2>2 DEF StartWith
<1>. USE DEF NextRow, GoOn, SetState
<1>2. ASSUME NEW w \in Workers, NEW row \in batch[w], Begin(w, row) PROVE IInv'
  BY <1>2 DEF Begin, MarkInProgress
<1>3. ASSUME NEW w \in Workers, NEW row \in batch[w], Verify(w, row) PROVE IInv'
  BY <1>3 DEF Verify
<1>4. ASSUME NEW w \in Workers, NEW row \in batch[w], Finish(w, row) PROVE IInv'
  BY <1>4 DEF Finish
<1>5. ASSUME NEW w \in Workers, NEW row \in batch[w], Fail(w, row) PROVE IInv'
  BY <1>5 DEF Fail
<1>6. ASSUME NEW w \in Workers, CrashWorker(w) PROVE IInv'
  BY <1>6 DEF CrashWorker
<1>. QED
  BY <1>1, <1>2, <1>3, <1>4, <1>5, <1>6 DEF Process, WorkerStep, StartBatch, StartJob

\* Operators keep the invariant: they never touch the inbox either.
LEMMA OperateIInv == ASSUME IInv, Operate PROVE IInv'
<1>. USE DEF IInv, TypeOK, AnsweredIsStored, DeliveriesAreStored, States,
             rows, notices, hooks, workers
<1>1. ASSUME NEW q \in Requeuers, RetryAllList(q) PROVE IInv'
  BY <1>1 DEF RetryAllList, InState
<1>2. ASSUME NEW q \in Requeuers, NEW r \in Records, RetryRecord(q, r) PROVE IInv'
  BY <1>2 DEF RetryRecord
<1>3. ASSUME NEW q \in Requeuers, ResetToPending(q) PROVE IInv'
  BY <1>3 DEF ResetToPending
<1>4. ASSUME NEW t \in Retriers, NEW r \in Records, RetryPayment(t, r) PROVE IInv'
  BY <1>4 DEF RetryPayment
<1>5. ASSUME NEW t \in Retriers, SaveRetry(t) PROVE IInv'
  BY <1>5 DEF SaveRetry
<1>. QED
  BY <1>1, <1>2, <1>3, <1>4, <1>5 DEF Operate

\* IInv holds in every reachable state.
LEMMA Inductive == Spec => []IInv
<1>1. IInv /\ UNCHANGED vars => IInv'
  BY DEF IInv, TypeOK, AnsweredIsStored, DeliveriesAreStored, RowsRead,
         vars, rows, notices, hooks, workers
<1>2. IInv /\ [Next]_vars => IInv'
  BY <1>1, IntakeIInv, ProcessIInv, OperateIInv DEF Next
<1>. QED
  BY InitIInv, <1>2, PTL DEF Spec

-----------------------------------------------------------------------------
\* The tables and the locals of every invocation keep their types.
THEOREM TypeCorrect == Spec => []TypeOK
<1>1. IInv => TypeOK
  BY DEF IInv
<1>. QED
  BY Inductive, <1>1, PTL

\* Only what is in the inbox is answered with 200, whatever deliveries overlap, are
\* cut off or are repeated.
THEOREM NothingAnsweredIsMissing == Spec => []AnsweredIsStored
<1>1. IInv => AnsweredIsStored
  BY DEF IInv
<1>. QED
  BY Inductive, <1>1, PTL

-----------------------------------------------------------------------------
\* When no worker dies and retryPaymentSyncHandler is not used, no row is left
\* IN_PROGRESS without a worker that is going to settle it. A worker takes its hands
\* off a row only in the update that settles it.
THEOREM HeldUntilSettled ==
  ASSUME Mortal = {}, Retriers = {}
  PROVE  Spec => []InProgressIsHeld
<1>. DEFINE Holds(w, row, r) == row.id = r /\ CurrentRow(w, row) /\ doing[w] # "begin"
<1>. USE DEF InProgressIsHeld, InState, CurrentRow, rows, notices, hooks, workers
<1>1. Init => InProgressIsHeld
  BY DEF Init
<1>2. TypeOK /\ InProgressIsHeld /\ UNCHANGED vars => InProgressIsHeld'
  BY DEF vars
<1>3. ASSUME TypeOK, InProgressIsHeld, Intake PROVE InProgressIsHeld'
  <2>1. UNCHANGED workers /\ \A r \in Records : state'[r] \in {state[r], "PENDING"}
    BY <1>3 DEF Intake, HookStep, DeliverAny, Report, Deliver, LookUp, StoreNotice, Fetch,
                CheckPayment, CreateRecord, InsertPending, AllStored, GetTokens, Answer,
                CrashHook, TypeOK
  <2>. QED
    BY <1>3, <2>1
<1>4. ASSUME TypeOK, InProgressIsHeld, Operate PROVE InProgressIsHeld'
  <2>1. UNCHANGED workers /\ \A r \in Records : state'[r] \in {state[r], "PENDING"}
    BY <1>4 DEF Operate, RetryAllList, RetryRecord, ResetToPending, TypeOK
  <2>. QED
    BY <1>4, <2>1
<1>5. ASSUME TypeOK, InProgressIsHeld, Process PROVE InProgressIsHeld'
  <2>. PICK w \in Workers : StartBatch(w) \/ StartJob(w) \/ WorkerStep(w)
    BY <1>5 DEF Process, CrashWorker
  <2>. USE DEF TypeOK
  <2>. SUFFICES ASSUME NEW r \in Records, state'[r] = "IN_PROGRESS"
                PROVE  \E v \in Workers : \E row \in batch'[v] : Holds(v, row, r)'
    OBVIOUS
  <2>1. ASSUME NEW v \in Workers \ {w}, NEW row \in batch[v], Holds(v, row, r)
        PROVE  /\ row \in batch'[v]
               /\ Holds(v, row, r)'
    BY <1>5, <2>1 DEF WorkerStep, StartBatch, StartJob, StartWith, Begin, Verify, Finish, Fail,
                      NextRow, GoOn
  <2>2. ASSUME NEW k \in Nat, StartWith(w, k)
        PROVE  \E v \in Workers : \E row \in batch'[v] : Holds(v, row, r)'
    <3>1. state[r] = "IN_PROGRESS" /\ batch[w] = {}
      BY <2>2 DEF StartWith
    <3>2. PICK v \in Workers : \E row \in batch[v] : Holds(v, row, r)
      BY <1>5, <3>1
    <3>. QED
      BY <2>1, <3>1, <3>2
  <2>. SUFFICES ASSUME NEW row \in batch[w],
                       Begin(w, row) \/ Verify(w, row) \/ Finish(w, row) \/ Fail(w, row)
                PROVE  \E v \in Workers : \E x \in batch'[v] : Holds(v, x, r)'
    BY <1>5, <2>2 DEF WorkerStep, StartBatch, StartJob
  <2>3. row.id \in Records
    BY <1>5 DEF RowsRead
  <2>4. CASE r = row.id
    <3>1. doing'[w] # "begin" /\ batch'[w] = batch[w]
      BY <1>5, <2>3, <2>4 DEF Begin, Verify, Finish, Fail, SetState, NextRow, GoOn
    <3>2. Holds(w, row, r)'
      BY <2>4, <3>1 DEF Begin, Verify, Finish, Fail
    <3>. QED
      BY <3>1, <3>2
  <2>5. CASE r # row.id
    <3>1. state[r] = "IN_PROGRESS"
      BY <1>5, <2>3, <2>5 DEF Begin, Verify, Finish, Fail, MarkInProgress, SetState
    <3>2. PICK v \in Workers : \E x \in batch[v] : Holds(v, x, r)
      BY <1>5, <3>1
    <3>3. PICK x \in batch[v] : Holds(v, x, r)
      BY <3>2
    <3>4. CASE v = w
      <4>1. x.id \in Int /\ row.id \in Int
        BY <1>5, <3>4 DEF RowsRead, Records
      <4>2. x.id = row.id
        BY <3>3, <3>4, <4>1 DEF Begin, Verify, Finish, Fail
      <4>. QED
        BY <2>5, <3>3, <4>2
    <3>. QED
      BY <2>1, <3>3, <3>4
  <2>. QED
    BY <2>4, <2>5
<1>6. TypeOK /\ InProgressIsHeld /\ [Next]_vars => InProgressIsHeld'
  BY <1>2, <1>3, <1>4, <1>5 DEF Next
<1>. QED
  BY TypeCorrect, <1>1, <1>6, PTL DEF Spec
=============================================================================
