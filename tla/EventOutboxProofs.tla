-------------------------- MODULE EventOutboxProofs --------------------------
(***************************************************************************)
(* Proofs about EventOutbox for any number of events, overlapping runs,    *)
(* crashes and duplicated deliveries. IInv adds to the properties what a   *)
(* run holds between its read and its updates.                             *)
(***************************************************************************)
EXTENDS EventOutbox, FiniteSetTheorems, TLAPS

USE ConstantsAssumption
    DEF IInv, TypeOK, BatchesAreWritten, RowsRead, States

-----------------------------------------------------------------------------
\* An empty outbox satisfies the invariant.
LEMMA InitIInv == Init => IInv
  BY DEF Init

\* Writers and the bus keep the invariant.
LEMMA EnvironmentIInv ==
  ASSUME IInv, NEW e \in Events,
         InsertRow(e) \/ Duplicate(e)
  PROVE  IInv'
<1>. USE DEF table, bus, runs, workers, Current
<1>1. CASE InsertRow(e)
  BY <1>1 DEF InsertRow
<1>2. CASE Duplicate(e)
  BY <1>2 DEF Duplicate
<1>. QED
  BY <1>1, <1>2

\* The read of a run and its death keep the invariant.
LEMMA ScheduleIInv ==
  ASSUME IInv, NEW p \in Publishers, StartRun(p) \/ CrashRun(p)
  PROVE  IInv'
<1>. USE DEF table, bus, runs, workers, Current
<1>1. CASE StartRun(p)
  <2>0. ASSUME NEW row \in PendingBatch
        PROVE  row \in RowsRead /\ state[row.id] = "PENDING"
    <3>. PICK f \in Pending : row = [id |-> f, attemptCount |-> attemptCount[f]]
      BY DEF PendingBatch
    <3>. QED
      BY DEF Pending
  <2>1. PendingBatch \subseteq RowsRead
    BY <2>0
  <2>2. \A row \in PendingBatch : state[row.id] = "PENDING"
    BY <2>0
  <2>3. TypeOK'
    BY <1>1, <2>1 DEF StartRun
  <2>4. BatchesAreWritten'
    BY <1>1, <2>1, <2>2 DEF StartRun
  <2>. QED
    BY <2>3, <2>4
<1>2. CASE CrashRun(p)
  BY <1>2 DEF CrashRun
<1>. QED
  BY <1>1, <1>2

\* The two awaited calls of a run keep the invariant, whatever overlaps with them.
LEMMA RunIInv == ASSUME IInv, NEW p \in Publishers, RunStep(p) PROVE IInv'
<1>. PICK row \in batch[p] : Publish(p, row) \/ MarkPublished(p, row) \/ MarkFailed(p, row)
  BY DEF RunStep
<1>. USE DEF table, bus, runs, workers, Current
<1>1. CASE Publish(p, row)
  <2>1. TypeOK'
    BY <1>1 DEF Publish, PutEvent
  <2>2. \A e \in announced' : state'[e] # "ABSENT"
    BY <1>1 DEF Publish, PutEvent
  <2>3. ASSUME NEW q \in Publishers, NEW r \in batch[q], doing'[q] = "markPublished",
               Current(q, r)
        PROVE  r.id \in announced'
    <3>1. CASE q = p
      <4>1. row.id = r.id
        BY <1>1, <2>3, <3>1 DEF Publish, Events
      <4>. QED
        BY <1>1, <2>3, <3>1, <4>1 DEF Publish, PutEvent
    <3>2. CASE q # p
      BY <1>1, <2>3, <3>2 DEF Publish, PutEvent
    <3>. QED
      BY <3>1, <3>2
  <2>. QED
    BY <1>1, <2>1, <2>2, <2>3 DEF Publish
<1>2. CASE MarkPublished(p, row)
  BY <1>2 DEF MarkPublished, Mark, NextRow
<1>3. CASE MarkFailed(p, row)
  BY <1>3 DEF MarkFailed, Mark, NextRow
<1>. QED
  BY <1>1, <1>2, <1>3

\* The worker keeps the invariant: it never touches the outbox.
LEMMA WorkerIInv ==
  ASSUME IInv, NEW h \in Handlers,
         (\E e \in Events : Deliver(h, e)) \/ WorkerStep(h) \/ CrashWorker(h)
  PROVE  IInv'
<1>. USE DEF table, bus, runs, workers, Current, Leave, Goto
<1>1. ASSUME NEW e \in Events, Deliver(h, e) PROVE IInv'
  BY <1>1 DEF Deliver
<1>2. CASE CheckExisting(h)
  BY <1>2 DEF CheckExisting
<1>3. CASE CreateRecord(h)
  BY <1>3 DEF CreateRecord
<1>4. CASE Retry(h)
  BY <1>4 DEF Retry
<1>5. CASE Rethrow(h)
  BY <1>5 DEF Rethrow
<1>6. CASE CrashWorker(h)
  BY <1>6 DEF CrashWorker
<1>. QED
  BY <1>1, <1>2, <1>3, <1>4, <1>5, <1>6 DEF WorkerStep

\* IInv holds in every reachable state.
LEMMA Inductive == Spec => []IInv
<1>1. IInv /\ UNCHANGED vars => IInv'
  BY DEF vars, table, bus, runs, workers, Current
<1>2. IInv /\ [Next]_vars => IInv'
  BY <1>1, EnvironmentIInv, ScheduleIInv, RunIInv, WorkerIInv DEF Next
<1>. QED
  BY InitIInv, <1>2, PTL DEF Spec

-----------------------------------------------------------------------------
\* The tables and the locals of every run and worker keep their types.
THEOREM TypeCorrect == Spec => []TypeOK
<1>1. IInv => TypeOK
  OBVIOUS
<1>. QED
  BY Inductive, <1>1, PTL

-----------------------------------------------------------------------------
\* Every step of the publisher, the bus and the worker is a step of the promise or
\* leaves it alone: nothing unwritten is announced, nothing is called PUBLISHED
\* before it was announced, nothing settled becomes PENDING again.
THEOREM KeepsPromise == Spec => Promise!Safe
<1>. USE DEF Promise!Next, Promise!vars, Promise!Become
<1>1. Init => Promise!Init
  BY DEF Init, Promise!Init
<1>2. IInv /\ [Next]_vars => [Promise!Next]_(Promise!vars)
  <2>. SUFFICES ASSUME IInv, [Next]_vars PROVE [Promise!Next]_(Promise!vars)
    OBVIOUS
  <2>1. ASSUME NEW e \in Events, InsertRow(e) PROVE Promise!Offer(e)
    BY <2>1 DEF InsertRow, Promise!Offer, bus
  <2>2. ASSUME NEW p \in Publishers, NEW row \in batch[p], Publish(p, row)
        PROVE  Promise!Announce(row.id) \/ UNCHANGED Promise!vars
    BY <2>2 DEF Publish, PutEvent, Promise!Announce, table, bus
  <2>3. ASSUME NEW p \in Publishers, NEW row \in batch[p], MarkPublished(p, row)
        PROVE  Promise!Confirm(row.id) \/ UNCHANGED Promise!vars
    BY <2>3 DEF MarkPublished, Mark, Promise!Confirm, table, bus
  <2>4. ASSUME NEW p \in Publishers, NEW row \in batch[p], MarkFailed(p, row)
        PROVE  Promise!GiveUp(row.id)
    BY <2>4 DEF MarkFailed, Mark, Promise!GiveUp, bus
  <2>5. ASSUME NEW e \in Events, NEW p \in Publishers,
               Duplicate(e) \/ StartRun(p) \/ CrashRun(p)
        PROVE  UNCHANGED Promise!vars
    BY <2>5 DEF Duplicate, StartRun, CrashRun, table, bus
  <2>6. ASSUME NEW h \in Handlers,
               (\E e \in Events : Deliver(h, e)) \/ WorkerStep(h) \/ CrashWorker(h)
        PROVE  UNCHANGED Promise!vars
    BY <2>6 DEF Deliver, WorkerStep, CheckExisting, CreateRecord, Retry, Rethrow,
                CrashWorker, table, bus
  <2>7. CASE UNCHANGED vars
    BY <2>7 DEF vars, table, bus
  <2>8. CASE \E e \in Events : InsertRow(e) \/ Duplicate(e)
    <3>. PICK e \in Events : InsertRow(e) \/ Duplicate(e)
      BY <2>8
    <3>1. Duplicate(e) => UNCHANGED Promise!vars
      BY DEF Duplicate, table
    <3>. QED
      BY <2>1, <3>1
  <2>9. CASE \E p \in Publishers : StartRun(p) \/ RunStep(p) \/ CrashRun(p)
    <3>. PICK p \in Publishers : StartRun(p) \/ RunStep(p) \/ CrashRun(p)
      BY <2>9
    <3>1. StartRun(p) \/ CrashRun(p) => UNCHANGED Promise!vars
      BY DEF StartRun, CrashRun, table, bus
    <3>2. \A row \in batch[p] : row.id \in Events
      OBVIOUS
    <3>3. RunStep(p) => [Promise!Next]_(Promise!vars)
      BY <2>2, <2>3, <2>4, <3>2 DEF RunStep
    <3>. QED
      BY <3>1, <3>3
  <2>. QED
    BY <2>6, <2>7, <2>8, <2>9 DEF Next
<1>. QED
  BY <1>1, <1>2, Inductive, PTL DEF Spec, Promise!Safe

-----------------------------------------------------------------------------
\* The handlers about to create a record are finitely many, before and after a step.
LEMMA CreatorsAreFinite ==
  ASSUME NEW w
  PROVE  /\ IsFiniteSet(CreatorsOf(w)) /\ Cardinality(CreatorsOf(w)) \in Nat
         /\ IsFiniteSet(CreatorsOf(w)') /\ Cardinality(CreatorsOf(w)') \in Nat
<1>1. CreatorsOf(w) \subseteq Handlers /\ CreatorsOf(w)' \subseteq Handlers
  BY DEF CreatorsOf
<1>2. IsFiniteSet(CreatorsOf(w)) /\ IsFiniteSet(CreatorsOf(w)')
  BY <1>1, FS_Subset
<1>. QED
  BY <1>2, FS_CardinalityType

\* A step after which no further handler is about to create keeps the bound.
LEMMA NoNewCreator ==
  ASSUME TypeOK, CreatorsAreBounded, UNCHANGED syncRecords,
         \A h \in Handlers :
           handled'[h] # None /\ step'[h] = "create" =>
             handled[h] # None /\ step[h] = "create" /\ handled'[h] = handled[h]
  PROVE  CreatorsAreBounded'
<1>. SUFFICES ASSUME NEW w \in WorkOrders
              PROVE  syncRecords'[w] + Cardinality(CreatorsOf(w)') <= Cardinality(Handlers)
  BY DEF CreatorsAreBounded
<1>1. CreatorsOf(w)' \subseteq CreatorsOf(w)
  BY DEF CreatorsOf
<1>2. Cardinality(CreatorsOf(w)') <= Cardinality(CreatorsOf(w))
  BY <1>1, CreatorsAreFinite, FS_Subset
<1>3. Cardinality(Handlers) \in Nat /\ syncRecords[w] \in Nat
  BY FS_CardinalityType
<1>. QED
  BY <1>2, <1>3, CreatorsAreFinite DEF CreatorsAreBounded

\* A handler that finds no record is one more creator where there is none to count.
LEMMA CheckKeepsBound ==
  ASSUME TypeOK, CreatorsAreBounded, NEW h \in Handlers, CheckExisting(h)
  PROVE  CreatorsAreBounded'
<1>. USE DEF CheckExisting, Leave, Goto
<1>1. CASE /\ syncRecords[WorkOrderOf[handled[h]]] = 0
           /\ step' = [step EXCEPT ![h] = "create"] /\ UNCHANGED handled
  <2>. SUFFICES ASSUME NEW w \in WorkOrders
                PROVE  syncRecords'[w] + Cardinality(CreatorsOf(w)') <= Cardinality(Handlers)
    BY DEF CreatorsAreBounded
  <2>1. CASE w = WorkOrderOf[handled[h]]
    <3>1. CreatorsOf(w)' \subseteq Handlers
      BY DEF CreatorsOf
    <3>2. Cardinality(CreatorsOf(w)') <= Cardinality(Handlers)
      BY <3>1, FS_Subset
    <3>. QED
      BY <1>1, <2>1, <3>2, CreatorsAreFinite
  <2>2. CASE w # WorkOrderOf[handled[h]]
    <3>1. CreatorsOf(w)' = CreatorsOf(w)
      BY <1>1, <2>2 DEF CreatorsOf
    <3>. QED
      BY <3>1 DEF CreatorsAreBounded
  <2>. QED
    BY <2>1, <2>2
<1>2. CASE Leave(h)
  BY <1>2, NoNewCreator
<1>3. CASE Goto(h, "thrown")
  BY <1>3, NoNewCreator
<1>. QED
  BY <1>1, <1>2, <1>3

\* A record is created by a handler that was counted as about to create it.
LEMMA CreateKeepsBound ==
  ASSUME TypeOK, CreatorsAreBounded, NEW h \in Handlers, CreateRecord(h)
  PROVE  CreatorsAreBounded'
<1>. DEFINE own == WorkOrderOf[handled[h]]
<1>1. handled[h] \in Events /\ own \in WorkOrders
  BY DEF CreateRecord
<1>2. /\ \A g \in Handlers \ {h} : step'[g] = step[g] /\ handled'[g] = handled[g]
      /\ step'[h] # "create"
  <2>1. \E to \in {"check", "thrown"} : step' = [step EXCEPT ![h] = to]
    BY DEF CreateRecord, Leave, Goto
  <2>2. handled' = handled \/ handled' = [handled EXCEPT ![h] = None]
    BY DEF CreateRecord, Leave, Goto
  <2>. QED
    BY <2>1, <2>2
<1>3. CASE UNCHANGED syncRecords
  BY <1>2, <1>3, NoNewCreator
<1>4. CASE syncRecords' = [syncRecords EXCEPT ![own] = @ + 1]
  <2>. SUFFICES ASSUME NEW w \in WorkOrders
                PROVE  syncRecords'[w] + Cardinality(CreatorsOf(w)') <= Cardinality(Handlers)
    BY DEF CreatorsAreBounded
  <2>1. CreatorsOf(w)' \subseteq CreatorsOf(w) \ {h}
    BY <1>2 DEF CreatorsOf
  <2>2. /\ IsFiniteSet(CreatorsOf(w) \ {h})
        /\ Cardinality(CreatorsOf(w)') <= Cardinality(CreatorsOf(w) \ {h})
    BY <2>1, CreatorsAreFinite, FS_Subset
  <2>3. Cardinality(Handlers) \in Nat /\ syncRecords[w] \in Nat
    BY FS_CardinalityType
  <2>4. syncRecords[w] + Cardinality(CreatorsOf(w)) <= Cardinality(Handlers)
    BY DEF CreatorsAreBounded
  <2>5. CASE w = own
    <3>1. h \in CreatorsOf(w)
      BY <2>5 DEF CreatorsOf, CreateRecord
    <3>2. Cardinality(CreatorsOf(w) \ {h}) = Cardinality(CreatorsOf(w)) - 1
      BY <3>1, CreatorsAreFinite, FS_RemoveElement
    <3>3. syncRecords'[w] = syncRecords[w] + 1
      BY <1>1, <1>4, <2>5
    <3>. QED
      BY <2>2, <2>3, <2>4, <3>2, <3>3, CreatorsAreFinite
  <2>6. CASE w # own
    <3>1. Cardinality(CreatorsOf(w) \ {h}) <= Cardinality(CreatorsOf(w))
      BY CreatorsAreFinite, FS_Subset
    <3>2. syncRecords'[w] = syncRecords[w]
      BY <1>1, <1>4, <2>6
    <3>3. Cardinality(CreatorsOf(w) \ {h}) \in Nat
      BY <2>2, FS_CardinalityType
    <3>. QED
      BY <2>2, <2>3, <2>4, <3>1, <3>2, <3>3, CreatorsAreFinite
  <2>. QED
    BY <2>5, <2>6
<1>. QED
  BY <1>3, <1>4 DEF CreateRecord

\* However deliveries overlap, are duplicated, retried or die, a work order has at
\* most as many sync records as there are deliveries handled at once.
THEOREM RecordsBounded == Spec => []RecordsBoundedByHandlers
<1>1. Init => CreatorsAreBounded
  <2>. SUFFICES ASSUME Init, NEW w \in WorkOrders
                PROVE  syncRecords[w] + Cardinality(CreatorsOf(w)) <= Cardinality(Handlers)
    BY DEF CreatorsAreBounded
  <2>1. CreatorsOf(w) = {}
    BY DEF Init, CreatorsOf
  <2>. QED
    BY <2>1, FS_EmptySet, FS_CardinalityType DEF Init
<1>2. IInv /\ CreatorsAreBounded /\ [Next]_vars => CreatorsAreBounded'
  <2>. SUFFICES ASSUME IInv, CreatorsAreBounded, [Next]_vars PROVE CreatorsAreBounded'
    OBVIOUS
  <2>1. CASE UNCHANGED <<workers, syncRecords>>
    BY <2>1, NoNewCreator DEF workers
  <2>2. ASSUME NEW h \in Handlers, NEW e \in Events, Deliver(h, e)
        PROVE  CreatorsAreBounded'
    BY <2>2, NoNewCreator DEF Deliver
  <2>3. ASSUME NEW h \in Handlers, Retry(h) \/ Rethrow(h) \/ CrashWorker(h)
        PROVE  CreatorsAreBounded'
    BY <2>3, NoNewCreator DEF Retry, Rethrow, CrashWorker, Leave
  <2>4. ASSUME NEW e \in Events, InsertRow(e) \/ Duplicate(e)
        PROVE  UNCHANGED <<workers, syncRecords>>
    BY <2>4 DEF InsertRow, Duplicate
  <2>5. ASSUME NEW p \in Publishers, StartRun(p) \/ RunStep(p) \/ CrashRun(p)
        PROVE  UNCHANGED <<workers, syncRecords>>
    BY <2>5 DEF StartRun, RunStep, Publish, MarkPublished, MarkFailed, CrashRun
  <2>. QED
    BY <2>1, <2>2, <2>3, <2>4, <2>5, CheckKeepsBound, CreateKeepsBound
       DEF Next, WorkerStep, vars
<1>3. IInv /\ CreatorsAreBounded => RecordsBoundedByHandlers
  <2>. SUFFICES ASSUME IInv, CreatorsAreBounded, NEW w \in WorkOrders
                PROVE  syncRecords[w] <= Cardinality(Handlers)
    BY DEF RecordsBoundedByHandlers
  <2>1. Cardinality(Handlers) \in Nat /\ syncRecords[w] \in Nat
    BY FS_CardinalityType
  <2>. QED
    BY <2>1, CreatorsAreFinite DEF CreatorsAreBounded
<1>. QED
  BY <1>1, <1>2, <1>3, Inductive, PTL DEF Spec
=============================================================================
