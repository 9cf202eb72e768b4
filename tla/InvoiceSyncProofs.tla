-------------------------- MODULE InvoiceSyncProofs --------------------------
(***************************************************************************)
(* Proofs about InvoiceSync for any number of records, invocations,        *)
(* requests and service calls, any of which may be killed, raced or        *)
(* retried. The inductive invariant IInv joins the properties with what    *)
(* every actor holds between two awaited calls: the ids in the locals of   *)
(* an invocation and in a row image about to be saved belong to the row    *)
(* they will be written to.                                                *)
(*                                                                         *)
(* Then, as long as nobody saves a stale row image over attemptCount       *)
(* (Services and Retriers do), attempts pay for invoices: QuickBooks never *)
(* holds more invoices for a row than attempts were counted in it. An      *)
(* invocation between MarkInProgress and CreateInvoice has counted an      *)
(* attempt and not yet spent it; the invariant adds these credits to the   *)
(* invoices that exist.                                                    *)
(*                                                                         *)
(* An invocation only decides to create a customer while QuickBooks has    *)
(* none of that name, so the customers that exist and the invocations      *)
(* about to create one together never outnumber the invocations.           *)
(*                                                                         *)
(* And a row that no two invocations share has at most one invocation      *)
(* between its MapInvoice and its MarkSynced, which is why a SYNCED row    *)
(* that is not contested is mapped to the invoice it names.                *)
(***************************************************************************)
EXTENDS InvoiceSync, FiniteSetTheorems, TLAPS

\* The parts of IInv and the helpers nearly every step expands.
USE ConstantsAssumption
    DEF IInv, TypeOK, RowsAreComplete, LocalsAreOwn, ImagesAreOwn, ReferencesAreOwn,
        SyncedHasReference, CustomerMappingsAreOwn, Stored, Customer, SyncStates, Steps,
        Images, rows, mappings, quickbooks, outside, locals, requests

-----------------------------------------------------------------------------
\* The empty tables and idle actors satisfy the inductive invariant.
LEMMA InitIInv == Init => IInv
  BY DEF Init

\* The creation time a new row gets is a number: the table is finite.
LEMMA StoredIsCounted == Cardinality(Stored) + 1 \in Nat
<1>1. IsFiniteSet(Stored)
  BY FS_Subset
<1>. QED
  BY <1>1, FS_CardinalityType

\* Inserting a PENDING row under a fresh id keeps the invariant, whatever the
\* creating request does with its own state.
LEMMA InsertIInv ==
  ASSUME IInv, NEW w \in WorkOrders, InsertPending(w),
         creating' \in [Creators -> WorkOrders \cup {None}],
         UNCHANGED <<mappings, outside, locals, requeue, retrying, save>>
  PROVE  IInv'
<1>1. PICK r \in Records \ Stored :
        /\ state' = [state EXCEPT ![r] = "PENDING"]
        /\ workOrderId' = [workOrderId EXCEPT ![r] = w]
        /\ createdAt' = [createdAt EXCEPT ![r] = Cardinality(Stored) + 1]
        /\ UNCHANGED <<attemptCount, externalReference>>
  BY DEF InsertPending
<1>2. TypeOK'
  <2>1. createdAt' \in [Records -> Nat]
    BY <1>1, StoredIsCounted, Zenon
  <2>. QED
    BY <1>1, <2>1
<1>3. RowsAreComplete'
  BY <1>1
<1>4. LocalsAreOwn'
  BY <1>1
<1>5. ImagesAreOwn' /\ ReferencesAreOwn' /\ CustomerMappingsAreOwn'
  BY <1>1
<1>6. SyncedHasReference'
  BY <1>1
<1>. QED
  BY <1>2, <1>3, <1>4, <1>5, <1>6

\* Inserting records, checked or not, keeps the invariant.
LEMMA CreateIInv == ASSUME IInv, Create PROVE IInv'
<1>1. ASSUME NEW k \in Creators, NEW w \in WorkOrders, JobCheck(k, w)
      PROVE  IInv'
  BY <1>1 DEF JobCheck
<1>2. ASSUME NEW k \in Creators, NEW w \in WorkOrders, CreateRecordCheck(k, w)
      PROVE  IInv'
  BY <1>2 DEF CreateRecordCheck
<1>3. ASSUME NEW k \in Creators, CheckedInsert(k)
      PROVE  IInv'
  <2>1. /\ creating[k] \in WorkOrders
        /\ InsertPending(creating[k])
        /\ creating' \in [Creators -> WorkOrders \cup {None}]
        /\ UNCHANGED <<mappings, outside, locals, requeue, retrying, save>>
    BY <1>3 DEF CheckedInsert
  <2>. QED
    BY <2>1, InsertIInv
<1>4. ASSUME NEW w \in WorkOrders, TriggerSync(w)
      PROVE  IInv'
  <2>1. /\ InsertPending(w)
        /\ creating' \in [Creators -> WorkOrders \cup {None}]
        /\ UNCHANGED <<mappings, outside, locals, requeue, retrying, save>>
    BY <1>4 DEF TriggerSync
  <2>. QED
    BY <2>1, InsertIInv
<1>5. ASSUME NEW k \in Creators, InsertThrows(k)
      PROVE  IInv'
  BY <1>5 DEF InsertThrows
<1>. QED
  BY <1>1, <1>2, <1>3, <1>4, <1>5 DEF Create

\* Every awaited call of an invocation, its answer, its loss and its death keep
\* the invariant: an id only ever reaches the row it was created for.
LEMMA ProcessIInv == ASSUME IInv, Process PROVE IInv'
<1>. SUFFICES ASSUME NEW p \in Procs,
                     \/ StartBatch(p) \/ (\E r \in Records : StartOne(p, r))
                     \/ ProcessorStep(p) \/ Crash(p)
              PROVE  IInv'
  BY DEF Process
<1>1. CASE StartBatch(p)
  BY <1>1 DEF StartBatch, PendingBatch, InState
<1>2. ASSUME NEW r \in Records, StartOne(p, r) PROVE IInv'
  BY <1>2 DEF StartOne
<1>3. ASSUME NEW r \in Records, ReadRecord(p, r) PROVE IInv'
  <2>1. CASE UNCHANGED <<pc, recordId, contested>>
    BY <1>3, <2>1 DEF ReadRecord
  <2>2. CASE /\ pc' = [pc EXCEPT ![p] = "preflight"]
             /\ recordId' = [recordId EXCEPT ![p] = r]
             /\ contested' = TakenUp(p, r)
    <3>1. contested' \subseteq Records
      BY <2>2 DEF TakenUp
    <3>2. state[r] # "ABSENT"
      BY <1>3, <2>2 DEF ReadRecord
    <3>. QED
      BY <1>3, <2>2, <3>1, <3>2, SMTT(60) DEF ReadRecord, Oldest
  <2>. QED
    BY <1>3, <2>1, <2>2 DEF ReadRecord
<1>4. CASE Preflight(p)
  BY <1>4 DEF Preflight
<1>5. CASE WriteFailed(p)
  BY <1>5 DEF WriteFailed, SetState, Return
<1>6. CASE MarkInProgress(p)
  BY <1>6 DEF MarkInProgress, SetState
<1>7. CASE ResolveCustomer(p)
  BY <1>7, SMTT(30) DEF ResolveCustomer, QbCustomersOf
<1>8. CASE FindCustomer(p)
  BY <1>8, SMTT(30) DEF FindCustomer, QbCustomersOf
<1>9. CASE CreateCustomer(p)
  BY <1>9, SMTT(30) DEF CreateCustomer, QbCustomersOf, Answered
<1>10. CASE MapCustomer(p)
  BY <1>10, SMTT(30) DEF MapCustomer, Answered
<1>11. CASE CreateInvoice(p)
  BY <1>11, SMTT(30) DEF CreateInvoice, InvoicesOf, Answered
<1>12. CASE MapInvoice(p)
  BY <1>12, SMTT(30) DEF MapInvoice, Answered
<1>13. CASE MarkSynced(p)
  <2>1. PICK i \in QbInvoiceIds, r \in Stored :
          /\ recordId[p] = r /\ invoiceId[p] = i /\ qbInvoice[i] = r
          /\ state' = [state EXCEPT ![r] = "SYNCED"]
          /\ externalReference' = [externalReference EXCEPT ![r] = i]
    <3>1. /\ recordId[p] \in Stored
          /\ invoiceId[p] \in QbInvoiceIds
          /\ qbInvoice[invoiceId[p]] = recordId[p]
      BY <1>13 DEF MarkSynced
    <3>. QED
      BY <1>13, <3>1 DEF MarkSynced, SetState
  <2>2. TypeOK'
    <3>1. state' \in [Records -> SyncStates \cup {"ABSENT"}]
      BY <2>1
    <3>2. externalReference' \in [Records -> QbInvoiceIds \cup {None}]
      BY <2>1
    <3>3. /\ pc' \in [Procs -> Steps]
          /\ recordId' \in [Procs -> Records \cup {None}]
          /\ customerRef' \in [Procs -> QbCustomerIds \cup {DefaultCustomer, None}]
          /\ invoiceId' \in [Procs -> QbInvoiceIds \cup {None}]
      <4>1. CASE Return(p)
        BY <4>1 DEF Return
      <4>2. CASE /\ pc' = [pc EXCEPT ![p] = "fail"]
                 /\ UNCHANGED <<recordId, customerRef, invoiceId>>
        BY <4>2
      <4>. QED
        BY <1>13, <4>1, <4>2 DEF MarkSynced
    <3>. QED
      BY <1>13, <3>1, <3>2, <3>3 DEF MarkSynced
  <2>3. RowsAreComplete'
    BY <1>13, <2>1 DEF MarkSynced
  <2>4. LocalsAreOwn'
    BY <1>13, <2>1 DEF MarkSynced, Return
  <2>5. ImagesAreOwn' /\ CustomerMappingsAreOwn'
    BY <1>13 DEF MarkSynced
  <2>6. ReferencesAreOwn' /\ SyncedHasReference'
    BY <1>13, <2>1 DEF MarkSynced
  <2>. QED
    BY <2>2, <2>3, <2>4, <2>5, <2>6
<1>14. CASE Throw(p)
  BY <1>14 DEF Throw
<1>15. CASE Crash(p)
  BY <1>15 DEF Crash, Return
<1>. QED
  BY <1>1, <1>2, <1>3, <1>4, <1>5, <1>6, <1>7, <1>8, <1>9, <1>10, <1>11, <1>12,
     <1>13, <1>14, <1>15 DEF ProcessorStep

\* Requeueing rows keeps the invariant, whatever state they are in by then.
LEMMA RequeueIInv == ASSUME IInv, Requeue PROVE IInv'
<1>1. ASSUME NEW q \in Requeuers, NEW r \in Records, RetrySyncCheck(q, r)
      PROVE  IInv'
  BY <1>1 DEF RetrySyncCheck
<1>2. ASSUME NEW q \in Requeuers, NEW r \in Records, RetryRecord(q, r)
      PROVE  IInv'
  BY <1>2 DEF RetryRecord
<1>3. ASSUME NEW q \in Requeuers, RetryAllList(q)
      PROVE  IInv'
  BY <1>3 DEF RetryAllList, InState
<1>4. ASSUME NEW q \in Requeuers, ResetToPending(q)
      PROVE  IInv'
  BY <1>4, SMTT(30) DEF ResetToPending, SetState
<1>. QED
  BY <1>1, <1>2, <1>3, <1>4 DEF Requeue

\* Reading a row image and saving it later keep the invariant, although the row
\* may have changed in between.
LEMMA ServeIInv == ASSUME IInv, Serve PROVE IInv'
<1>. USE DEF HoldImage, Image
<1>1. ASSUME NEW s \in Services, NEW r \in Records, StartSync(s, r)
      PROVE  IInv'
  BY <1>1, SMTT(30) DEF StartSync, Startable, Started
<1>2. ASSUME NEW s \in Services, NEW r \in Records, MarkSuccess(s, r)
      PROVE  IInv'
  BY <1>2, SMTT(30) DEF MarkSuccess, InvoicesOf
<1>3. ASSUME NEW s \in Services, NEW r \in Records, MarkFailure(s, r)
      PROVE  IInv'
  BY <1>3, SMTT(30) DEF MarkFailure
<1>4. ASSUME NEW t \in Retriers, NEW r \in Records, RetryInvoiceCheck(t, r)
      PROVE  IInv'
  BY <1>4 DEF RetryInvoiceCheck
<1>5. ASSUME NEW t \in Retriers, RetryInvoiceStart(t)
      PROVE  IInv'
  BY <1>5, SMTT(30) DEF RetryInvoiceStart, Startable, Started
<1>6. ASSUME NEW s \in Services \cup Retriers, SaveImage(s)
      PROVE  IInv'
  BY <1>6, SMTT(30) DEF SaveImage
<1>7. ASSUME NEW s \in Services \cup Retriers, SaveThrows(s)
      PROVE  IInv'
  BY <1>7, SMTT(30) DEF SaveThrows
<1>. QED
  BY <1>1, <1>2, <1>3, <1>4, <1>5, <1>6, <1>7 DEF Serve

\* The invariant speaks of the variables only.
LEMMA StutterIInv == ASSUME IInv, UNCHANGED vars PROVE IInv'
  BY DEF vars

\* IInv holds in every reachable state.
LEMMA Inductive == Spec => []IInv
<1>1. IInv /\ [Next]_vars => IInv'
  BY CreateIInv, ProcessIInv, RequeueIInv, ServeIInv, StutterIInv, Zenon DEF Next
<1>. QED
  BY InitIInv, <1>1, PTL DEF Spec

-----------------------------------------------------------------------------
\* The tables and the locals of every actor keep their types.
THEOREM TypeCorrect == Spec => []TypeOK
<1>1. IInv => TypeOK
  OBVIOUS
<1>. QED
  BY Inductive, <1>1, PTL

\* No row and no mapping ever points at the QuickBooks invoice of another row.
THEOREM OwnReferences == Spec => []ReferencesAreOwn
<1>1. IInv => ReferencesAreOwn
  OBVIOUS
<1>. QED
  BY Inductive, <1>1, PTL

\* No row is ever SYNCED without the reference of its invoice.
THEOREM SyncedRowsHaveReference == Spec => []SyncedHasReference
<1>1. IInv => SyncedHasReference
  OBVIOUS
<1>. QED
  BY Inductive, <1>1, PTL

\* No customer mapping ever points at the QuickBooks customer of another customer.
THEOREM OwnCustomerMappings == Spec => []CustomerMappingsAreOwn
<1>1. IInv => CustomerMappingsAreOwn
  OBVIOUS
<1>. QED
  BY Inductive, <1>1, PTL

-----------------------------------------------------------------------------
HIDE ConstantsAssumption
    DEF IInv, TypeOK, RowsAreComplete, LocalsAreOwn, ImagesAreOwn, ReferencesAreOwn,
        SyncedHasReference, CustomerMappingsAreOwn, Stored, Customer, SyncStates, Steps,
        Images, rows, mappings, quickbooks, outside, locals, requests

BeforeInvoice == {"resolve", "find", "createCustomer", "mapCustomer", "createInvoice"}

Credit(r) == {p \in Procs : recordId[p] = r /\ pc[p] \in BeforeInvoice}

AttemptsPay ==
  \A r \in Records :
    Cardinality(InvoicesOf(r)) + Cardinality(Credit(r)) <= attemptCount[r]

NoServices == Services = {} /\ Retriers = {}

\* The two sets that are counted are finite.
LEMMA CountedAreFinite ==
  ASSUME NoServices, NEW r
  PROVE  /\ IsFiniteSet(InvoicesOf(r)) /\ Cardinality(InvoicesOf(r)) \in Nat
         /\ IsFiniteSet(Credit(r)) /\ Cardinality(Credit(r)) \in Nat
<1>1. IsFiniteSet(InvoicesOf(r)) /\ IsFiniteSet(Credit(r))
  BY ConstantsAssumption, FS_Subset DEF InvoicesOf, Credit
<1>. QED
  BY <1>1, FS_CardinalityType

\* One more element counts for at most one.
LEMMA AddOne ==
  ASSUME NEW S, NEW x, IsFiniteSet(S)
  PROVE  IsFiniteSet(S \cup {x}) /\ Cardinality(S \cup {x}) <= Cardinality(S) + 1
<1>1. Cardinality(S) \in Nat
  BY FS_CardinalityType
<1>. QED
  BY <1>1, FS_AddElement

\* The same holds of the sets after a step.
LEMMA CountedStayFinite ==
  ASSUME NoServices, NEW r
  PROVE  /\ IsFiniteSet(InvoicesOf(r)') /\ Cardinality(InvoicesOf(r)') \in Nat
         /\ IsFiniteSet(Credit(r)') /\ Cardinality(Credit(r)') \in Nat
<1>1. IsFiniteSet(InvoicesOf(r)') /\ IsFiniteSet(Credit(r)')
  BY ConstantsAssumption, FS_Subset DEF InvoicesOf, Credit
<1>. QED
  BY <1>1, FS_CardinalityType

\* A step that creates no invoice, counts no attempt and starts none keeps the bound.
LEMMA NoNewCredit ==
  ASSUME NoServices, TypeOK, AttemptsPay, UNCHANGED <<qbInvoice, attemptCount>>,
         \A r \in Records : Credit(r)' \subseteq Credit(r)
  PROVE  AttemptsPay'
<1>. SUFFICES ASSUME NEW r \in Records
              PROVE  Cardinality(InvoicesOf(r)') + Cardinality(Credit(r)') <= attemptCount'[r]
  BY DEF AttemptsPay
<1>1. InvoicesOf(r)' = InvoicesOf(r)
  BY DEF InvoicesOf
<1>2. Cardinality(Credit(r)') <= Cardinality(Credit(r))
  BY CountedAreFinite, FS_Subset
<1>. QED
  BY <1>1, <1>2, CountedAreFinite, CountedStayFinite DEF AttemptsPay, TypeOK

\* An invocation that stays before its creation, or leaves it, starts no attempt.
LEMMA MovesOn ==
  ASSUME TypeOK, NEW p \in Procs,
         \A q \in Procs \ {p} : pc'[q] = pc[q] /\ recordId'[q] = recordId[q],
         \/ pc'[p] \notin BeforeInvoice
         \/ pc[p] \in BeforeInvoice /\ recordId'[p] = recordId[p]
  PROVE  \A r \in Records : Credit(r)' \subseteq Credit(r)
  BY DEF Credit

\* Marking a row IN_PROGRESS counts the attempt it starts.
LEMMA MarkingCounts ==
  ASSUME NoServices, IInv, AttemptsPay, NEW p \in Procs, MarkInProgress(p)
  PROVE  AttemptsPay'
<1>. SUFFICES ASSUME NEW r \in Records
              PROVE  Cardinality(InvoicesOf(r)') + Cardinality(Credit(r)') <= attemptCount'[r]
  BY DEF AttemptsPay
<1>. USE CountedAreFinite, CountedStayFinite
<1>1. InvoicesOf(r)' = InvoicesOf(r)
  BY DEF InvoicesOf, MarkInProgress, quickbooks, outside
<1>2. TypeOK /\ recordId[p] \in Records
  BY DEF IInv, LocalsAreOwn, Stored, MarkInProgress
<1>3. CASE r = recordId[p]
  <2>1. Credit(r)' \subseteq Credit(r) \cup {p}
    BY <1>2 DEF Credit, MarkInProgress, TypeOK
  <2>2. /\ IsFiniteSet(Credit(r) \cup {p})
        /\ Cardinality(Credit(r) \cup {p}) <= Cardinality(Credit(r)) + 1
    BY FS_AddElement
  <2>3. Cardinality(Credit(r) \cup {p}) \in Nat
    BY <2>2, FS_CardinalityType
  <2>4. Cardinality(Credit(r)') <= Cardinality(Credit(r) \cup {p})
    BY <2>1, <2>2, FS_Subset
  <2>5. attemptCount'[r] = attemptCount[r] + 1 /\ attemptCount[r] \in Nat
    BY <1>2, <1>3 DEF MarkInProgress, TypeOK
  <2>. QED
    BY <1>1, <2>2, <2>3, <2>4, <2>5 DEF AttemptsPay
<1>4. CASE r # recordId[p]
  <2>1. Credit(r)' \subseteq Credit(r)
    BY <1>2, <1>4 DEF Credit, MarkInProgress, TypeOK
  <2>2. Cardinality(Credit(r)') <= Cardinality(Credit(r))
    BY <2>1, FS_Subset
  <2>3. attemptCount'[r] = attemptCount[r] /\ attemptCount[r] \in Nat
    BY <1>2, <1>4 DEF MarkInProgress, TypeOK
  <2>. QED
    BY <1>1, <2>2, <2>3 DEF AttemptsPay
<1>. QED
  BY <1>3, <1>4

\* Creating an invoice spends the credit of the invocation that creates it.
LEMMA CreatingSpends ==
  ASSUME NoServices, IInv, AttemptsPay, NEW p \in Procs, CreateInvoice(p)
  PROVE  AttemptsPay'
<1>. SUFFICES ASSUME NEW r \in Records
              PROVE  Cardinality(InvoicesOf(r)') + Cardinality(Credit(r)') <= attemptCount'[r]
  BY DEF AttemptsPay
<1>. USE CountedAreFinite, CountedStayFinite
<1>1. TypeOK /\ recordId[p] \in Records
  BY DEF IInv, LocalsAreOwn, Stored, CreateInvoice
<1>2. PICK i \in InvoicesOf(None) : qbInvoice' = [qbInvoice EXCEPT ![i] = recordId[p]]
  BY DEF CreateInvoice
<1>3. attemptCount'[r] = attemptCount[r] /\ attemptCount[r] \in Nat
  BY <1>1 DEF CreateInvoice, TypeOK, rows
<1>4. pc'[p] \notin BeforeInvoice
  BY <1>1 DEF CreateInvoice, Answered, BeforeInvoice, TypeOK
<1>5. \A q \in Procs \ {p} : pc'[q] = pc[q] /\ recordId'[q] = recordId[q]
  BY <1>1 DEF CreateInvoice, Answered, TypeOK
<1>6. CASE r = recordId[p]
  <2>1. InvoicesOf(r)' \subseteq InvoicesOf(r) \cup {i}
    BY <1>1, <1>2 DEF InvoicesOf, TypeOK
  <2>2. /\ IsFiniteSet(InvoicesOf(r) \cup {i})
        /\ Cardinality(InvoicesOf(r) \cup {i}) <= Cardinality(InvoicesOf(r)) + 1
    BY AddOne, CountedAreFinite, Zenon
  <2>3. Cardinality(InvoicesOf(r) \cup {i}) \in Nat
    BY <2>2, FS_CardinalityType
  <2>4. Cardinality(InvoicesOf(r)') <= Cardinality(InvoicesOf(r) \cup {i})
    BY <2>1, <2>2, FS_Subset
  <2>5. p \in Credit(r) /\ Credit(r)' \subseteq Credit(r) \ {p}
    <3>1. p \in Credit(r)
      BY <1>6 DEF Credit, CreateInvoice, BeforeInvoice
    <3>2. Credit(r)' \subseteq Credit(r) \ {p}
      BY <1>4, <1>5 DEF Credit
    <3>. QED
      BY <3>1, <3>2
  <2>6. /\ IsFiniteSet(Credit(r) \ {p})
        /\ Cardinality(Credit(r) \ {p}) = Cardinality(Credit(r)) - 1
    BY <2>5, FS_RemoveElement
  <2>7. Cardinality(Credit(r)') <= Cardinality(Credit(r) \ {p})
    BY <2>5, <2>6, FS_Subset
  <2>. QED
    BY <1>3, <2>2, <2>3, <2>4, <2>6, <2>7 DEF AttemptsPay
<1>7. CASE r # recordId[p]
  <2>1. InvoicesOf(r)' \subseteq InvoicesOf(r)
    BY <1>1, <1>2, <1>7 DEF InvoicesOf, TypeOK
  <2>2. Cardinality(InvoicesOf(r)') <= Cardinality(InvoicesOf(r))
    BY <2>1, FS_Subset
  <2>3. Credit(r)' \subseteq Credit(r)
    BY <1>4, <1>5 DEF Credit
  <2>4. Cardinality(Credit(r)') <= Cardinality(Credit(r))
    BY <2>3, FS_Subset
  <2>. QED
    BY <1>3, <2>2, <2>4 DEF AttemptsPay
<1>. QED
  BY <1>6, <1>7

\* Everything else leaves invoices and counts alone and starts no attempt.
LEMMA RestKeepsBound ==
  ASSUME NoServices, IInv, AttemptsPay,
         \/ Create
         \/ \E p \in Procs :
              \/ StartBatch(p) \/ (\E r \in Records : StartOne(p, r) \/ ReadRecord(p, r))
              \/ Preflight(p) \/ WriteFailed(p) \/ ResolveCustomer(p) \/ FindCustomer(p)
              \/ CreateCustomer(p) \/ MapCustomer(p) \/ MapInvoice(p) \/ MarkSynced(p)
              \/ Throw(p) \/ Crash(p)
         \/ Requeue \/ UNCHANGED vars
  PROVE  AttemptsPay'
<1>. USE DEF rows, quickbooks, outside, locals, requests, mappings
<1>0. TypeOK
  BY DEF IInv
<1>1. ASSUME UNCHANGED <<qbInvoice, attemptCount, pc, recordId>> PROVE AttemptsPay'
  BY <1>0, <1>1, NoNewCredit DEF Credit
<1>2. CASE Create
  BY <1>1, <1>2 DEF Create, JobCheck, CreateRecordCheck, CheckedInsert, InsertThrows, TriggerSync, InsertPending
<1>3. CASE Requeue
  BY <1>1, <1>3 DEF Requeue, RetrySyncCheck, RetryRecord, RetryAllList, ResetToPending
<1>4. CASE UNCHANGED vars
  BY <1>1, <1>4 DEF vars
<1>5. ASSUME NEW p \in Procs,
             StartBatch(p) \/ (\E r \in Records : StartOne(p, r))
      PROVE  AttemptsPay'
  BY <1>1, <1>5 DEF StartBatch, StartOne
<1>6. ASSUME NEW p \in Procs, UNCHANGED <<qbInvoice, attemptCount>>,
             \E to \in Steps : pc' = [pc EXCEPT ![p] = to],
             \A q \in Procs \ {p} : recordId'[q] = recordId[q],
             \/ pc'[p] \notin BeforeInvoice
             \/ pc[p] \in BeforeInvoice /\ recordId'[p] = recordId[p]
      PROVE  AttemptsPay'
  <2>1. \A q \in Procs \ {p} : pc'[q] = pc[q] /\ recordId'[q] = recordId[q]
    BY <1>0, <1>6 DEF TypeOK
  <2>. QED
    BY <1>0, <1>6, <2>1, MovesOn, NoNewCredit
<1>. USE DEF TypeOK, Steps, BeforeInvoice
<1>7. ASSUME NEW p \in Procs, NEW r \in Records, ReadRecord(p, r) PROVE AttemptsPay'
  <2>1. CASE UNCHANGED <<pc, recordId>>
    BY <1>1, <1>7, <2>1 DEF ReadRecord
  <2>2. CASE /\ pc' = [pc EXCEPT ![p] = "preflight"]
             /\ recordId' = [recordId EXCEPT ![p] = r]
    BY <1>0, <1>6, <1>7, <2>2 DEF ReadRecord
  <2>. QED
    BY <1>7, <2>1, <2>2 DEF ReadRecord
<1>8. ASSUME NEW p \in Procs, Preflight(p) \/ WriteFailed(p) \/ MapInvoice(p) \/ Throw(p)
      PROVE  AttemptsPay'
  BY <1>0, <1>6, <1>8 DEF Preflight, WriteFailed, Return, MapInvoice, Answered, Throw
<1>9. ASSUME NEW p \in Procs, Crash(p) \/ MarkSynced(p) PROVE AttemptsPay'
  BY <1>0, <1>6, <1>9 DEF Crash, MarkSynced, Return
<1>10. ASSUME NEW p \in Procs, ResolveCustomer(p) \/ FindCustomer(p) PROVE AttemptsPay'
  BY <1>0, <1>6, <1>10 DEF ResolveCustomer, FindCustomer
<1>11. ASSUME NEW p \in Procs, CreateCustomer(p) \/ MapCustomer(p) PROVE AttemptsPay'
  BY <1>0, <1>6, <1>11 DEF CreateCustomer, MapCustomer, Answered
<1>. QED
  BY <1>2, <1>3, <1>4, <1>5, <1>7, <1>8, <1>9, <1>10, <1>11

-----------------------------------------------------------------------------
\* Without row images saved over it, attemptCount bounds the invoices of a row.
THEOREM InvoicesBounded ==
  ASSUME NoServices
  PROVE  Spec => []InvoicesBoundedByAttempts
<1>1. Init => AttemptsPay
  <2>. SUFFICES ASSUME Init, NEW r \in Records
                PROVE  Cardinality(InvoicesOf(r)) + Cardinality(Credit(r)) <= attemptCount[r]
    BY DEF AttemptsPay
  <2>1. InvoicesOf(r) = {} /\ Credit(r) = {}
    BY ConstantsAssumption DEF Init, InvoicesOf, Credit, BeforeInvoice
  <2>. QED
    BY <2>1, FS_EmptySet DEF Init
<1>2. IInv /\ AttemptsPay /\ [Next]_vars => AttemptsPay'
  <2>. SUFFICES ASSUME IInv, AttemptsPay, [Next]_vars PROVE AttemptsPay'
    OBVIOUS
  <2>1. ~Serve
    BY DEF Serve, NoServices
  <2>. QED
    BY <2>1, MarkingCounts, CreatingSpends, RestKeepsBound DEF Next, Process, ProcessorStep
<1>3. AttemptsPay /\ IInv => InvoicesBoundedByAttempts
  BY CountedAreFinite DEF AttemptsPay, InvoicesBoundedByAttempts, IInv, TypeOK
<1>. QED
  BY <1>1, <1>2, <1>3, Inductive, PTL DEF Spec

-----------------------------------------------------------------------------
\* The invocations that found no customer c in QuickBooks and are about to create it.
CreatorsOf(c) == {p \in Procs : pc[p] = "createCustomer" /\ Customer(p) = c}

CreatorsAreBounded ==
  \A c \in Customers :
    Cardinality(QbCustomersOf(c)) + Cardinality(CreatorsOf(c)) <= Cardinality(Procs)

\* What is counted is finite, before and after a step.
LEMMA CustomersAreFinite ==
  ASSUME NEW c
  PROVE  /\ IsFiniteSet(QbCustomersOf(c)) /\ Cardinality(QbCustomersOf(c)) \in Nat
         /\ IsFiniteSet(QbCustomersOf(c)') /\ Cardinality(QbCustomersOf(c)') \in Nat
         /\ IsFiniteSet(CreatorsOf(c)) /\ Cardinality(CreatorsOf(c)) \in Nat
         /\ IsFiniteSet(CreatorsOf(c)') /\ Cardinality(CreatorsOf(c)') \in Nat
         /\ Cardinality(Procs) \in Nat
<1>1. /\ QbCustomersOf(c) \subseteq QbCustomerIds /\ QbCustomersOf(c)' \subseteq QbCustomerIds
      /\ CreatorsOf(c) \subseteq Procs /\ CreatorsOf(c)' \subseteq Procs
  BY DEF QbCustomersOf, CreatorsOf
<1>2. /\ IsFiniteSet(QbCustomersOf(c)) /\ IsFiniteSet(QbCustomersOf(c)')
      /\ IsFiniteSet(CreatorsOf(c)) /\ IsFiniteSet(CreatorsOf(c)')
  BY <1>1, ConstantsAssumption, FS_Subset
<1>. QED
  BY <1>2, ConstantsAssumption, FS_CardinalityType

\* A step that neither creates a customer nor decides to keeps the bound.
LEMMA NoNewCreator ==
  ASSUME CreatorsAreBounded, UNCHANGED qbCustomer,
         \A p \in Procs : pc'[p] = "createCustomer" =>
           /\ pc[p] = "createCustomer" /\ recordId'[p] = recordId[p]
           /\ workOrderId'[recordId[p]] = workOrderId[recordId[p]]
  PROVE  CreatorsAreBounded'
<1>. SUFFICES ASSUME NEW c \in Customers
              PROVE  Cardinality(QbCustomersOf(c)') + Cardinality(CreatorsOf(c)')
                       <= Cardinality(Procs)
  BY DEF CreatorsAreBounded
<1>1. QbCustomersOf(c)' = QbCustomersOf(c)
  BY DEF QbCustomersOf
<1>2. CreatorsOf(c)' \subseteq CreatorsOf(c)
  BY DEF CreatorsOf, Customer
<1>3. Cardinality(CreatorsOf(c)') <= Cardinality(CreatorsOf(c))
  BY <1>2, CustomersAreFinite, FS_Subset
<1>. QED
  BY <1>1, <1>3, CustomersAreFinite DEF CreatorsAreBounded

\* An invocation that decides to create found none: it is only counted with others
\* that are about to.
LEMMA FindingKeepsBound ==
  ASSUME IInv, CreatorsAreBounded, NEW p \in Procs, FindCustomer(p)
  PROVE  CreatorsAreBounded'
<1>0. TypeOK
  BY DEF IInv
<1>1. UNCHANGED <<qbCustomer, recordId, workOrderId>>
  BY DEF FindCustomer, rows, outside, quickbooks
<1>2. CASE QbCustomersOf(Customer(p)) = {} /\ pc' = [pc EXCEPT ![p] = "createCustomer"]
  <2>. SUFFICES ASSUME NEW c \in Customers
                PROVE  Cardinality(QbCustomersOf(c)') + Cardinality(CreatorsOf(c)')
                         <= Cardinality(Procs)
    BY DEF CreatorsAreBounded
  <2>1. QbCustomersOf(c)' = QbCustomersOf(c)
    BY <1>1 DEF QbCustomersOf
  <2>2. CASE c = Customer(p)
    <3>1. Cardinality(QbCustomersOf(c)) = 0
      BY <1>2, <2>2, FS_EmptySet
    <3>2. CreatorsOf(c)' \subseteq Procs
      BY DEF CreatorsOf
    <3>3. Cardinality(CreatorsOf(c)') <= Cardinality(Procs)
      BY <3>2, ConstantsAssumption, FS_Subset
    <3>. QED
      BY <2>1, <3>1, <3>3, CustomersAreFinite
  <2>3. CASE c # Customer(p)
    <3>1. CreatorsOf(c)' = CreatorsOf(c)
      BY <1>0, <1>1, <1>2, <2>3 DEF CreatorsOf, Customer, TypeOK
    <3>. QED
      BY <2>1, <3>1 DEF CreatorsAreBounded
  <2>. QED
    BY <2>2, <2>3
<1>3. CASE pc' = [pc EXCEPT ![p] = "mapCustomer"]
  <2>1. \A q \in Procs : pc'[q] = "createCustomer" => pc[q] = "createCustomer"
    BY <1>0, <1>3 DEF TypeOK
  <2>. QED
    BY <1>1, <2>1, NoNewCreator
<1>. QED
  BY <1>2, <1>3 DEF FindCustomer

\* A customer is created by an invocation that was counted as about to create it.
LEMMA CreatingKeepsBound ==
  ASSUME IInv, CreatorsAreBounded, NEW p \in Procs, CreateCustomer(p)
  PROVE  CreatorsAreBounded'
<1>. USE DEF rows, outside, quickbooks
<1>0. TypeOK /\ Customer(p) \in Customers
  BY DEF IInv, LocalsAreOwn, CreateCustomer
<1>1. PICK x \in QbCustomersOf(None) : qbCustomer' = [qbCustomer EXCEPT ![x] = Customer(p)]
  BY DEF CreateCustomer
<1>2. /\ x \in QbCustomerIds /\ qbCustomer[x] = None
      /\ qbCustomer \in [QbCustomerIds -> Customers \cup {None}]
  BY <1>0 DEF QbCustomersOf, TypeOK
<1>3. /\ UNCHANGED <<recordId, workOrderId>>
      /\ pc'[p] # "createCustomer"
      /\ \A q \in Procs \ {p} : pc'[q] = pc[q]
  BY <1>0 DEF CreateCustomer, Answered, TypeOK
<1>. SUFFICES ASSUME NEW c \in Customers
              PROVE  Cardinality(QbCustomersOf(c)') + Cardinality(CreatorsOf(c)')
                       <= Cardinality(Procs)
  BY DEF CreatorsAreBounded
<1>4. Cardinality(QbCustomersOf(c)) + Cardinality(CreatorsOf(c)) <= Cardinality(Procs)
  BY DEF CreatorsAreBounded
<1>5. CASE c = Customer(p)
  <2>1. QbCustomersOf(c)' \subseteq QbCustomersOf(c) \cup {x}
    BY <1>1, <1>2 DEF QbCustomersOf
  <2>2. /\ IsFiniteSet(QbCustomersOf(c) \cup {x})
        /\ Cardinality(QbCustomersOf(c) \cup {x}) <= Cardinality(QbCustomersOf(c)) + 1
    BY AddOne, CustomersAreFinite, Zenon
  <2>3. /\ Cardinality(QbCustomersOf(c) \cup {x}) \in Nat
        /\ Cardinality(QbCustomersOf(c)') <= Cardinality(QbCustomersOf(c) \cup {x})
    BY <2>1, <2>2, FS_CardinalityType, FS_Subset
  <2>4. p \in CreatorsOf(c)
    BY <1>5 DEF CreatorsOf, CreateCustomer
  <2>5. CreatorsOf(c)' \subseteq CreatorsOf(c) \ {p}
    BY <1>3 DEF CreatorsOf, Customer
  <2>6. /\ IsFiniteSet(CreatorsOf(c) \ {p})
        /\ Cardinality(CreatorsOf(c) \ {p}) = Cardinality(CreatorsOf(c)) - 1
    BY <2>4, CustomersAreFinite, FS_RemoveElement
  <2>7. Cardinality(CreatorsOf(c)') <= Cardinality(CreatorsOf(c) \ {p})
    BY <2>5, <2>6, FS_Subset
  <2>. QED
    BY <1>4, <2>2, <2>3, <2>6, <2>7, CustomersAreFinite
<1>6. CASE c # Customer(p)
  <2>1. QbCustomersOf(c)' = QbCustomersOf(c)
    <3>1. c # None
      BY ConstantsAssumption
    <3>. QED
      BY <1>1, <1>2, <1>6, <3>1 DEF QbCustomersOf
  <2>2. CreatorsOf(c)' \subseteq CreatorsOf(c)
    BY <1>3 DEF CreatorsOf, Customer
  <2>3. Cardinality(CreatorsOf(c)') <= Cardinality(CreatorsOf(c))
    BY <2>2, CustomersAreFinite, FS_Subset
  <2>. QED
    BY <1>4, <2>1, <2>3, CustomersAreFinite
<1>. QED
  BY <1>5, <1>6

\* Every step keeps the bound.
LEMMA CreatorsStep ==
  ASSUME IInv, CreatorsAreBounded, [Next]_vars
  PROVE  CreatorsAreBounded'
<1>. USE DEF rows, quickbooks, outside, locals, requests, mappings
<1>0. TypeOK /\ LocalsAreOwn
  BY DEF IInv
<1>1. ASSUME UNCHANGED <<qbCustomer, pc, recordId, workOrderId>> PROVE CreatorsAreBounded'
  BY <1>1, NoNewCreator
<1>2. ASSUME NEW w, InsertPending(w), UNCHANGED <<qbCustomer, pc, recordId>>
      PROVE  CreatorsAreBounded'
  <2>1. \A p \in Procs : pc[p] = "createCustomer" =>
          workOrderId'[recordId[p]] = workOrderId[recordId[p]]
    BY <1>0, <1>2 DEF InsertPending, LocalsAreOwn, TypeOK
  <2>. QED
    BY <1>2, <2>1, NoNewCreator
<1>3. CASE Create
  BY <1>1, <1>2, <1>3 DEF Create, JobCheck, CreateRecordCheck, CheckedInsert, InsertThrows, TriggerSync
<1>4. CASE Requeue
  BY <1>1, <1>4 DEF Requeue, RetrySyncCheck, RetryRecord, RetryAllList, ResetToPending
<1>5. CASE Serve
  BY <1>1, <1>5 DEF Serve, StartSync, MarkSuccess, MarkFailure, RetryInvoiceStart, RetryInvoiceCheck,
                    HoldImage, SaveImage, SaveThrows
<1>6. ASSUME NEW p \in Procs, StartBatch(p) \/ (\E r \in Records : StartOne(p, r))
      PROVE  CreatorsAreBounded'
  BY <1>1, <1>6 DEF StartBatch, StartOne
<1>7. ASSUME NEW p \in Procs, UNCHANGED <<qbCustomer, workOrderId>>,
             \A q \in Procs \ {p} : recordId'[q] = recordId[q],
             \E to \in Steps \ {"createCustomer"} : pc' = [pc EXCEPT ![p] = to]
      PROVE  CreatorsAreBounded'
  <2>1. pc'[p] # "createCustomer" /\ \A q \in Procs \ {p} : pc'[q] = pc[q]
    BY <1>0, <1>7 DEF TypeOK
  <2>. QED
    BY <1>7, <2>1, NoNewCreator
<1>. USE DEF Steps
<1>8. ASSUME NEW p \in Procs, NEW r \in Records, ReadRecord(p, r) PROVE CreatorsAreBounded'
  <2>1. CASE UNCHANGED <<pc, recordId>>
    BY <1>1, <1>8, <2>1 DEF ReadRecord
  <2>2. CASE /\ pc' = [pc EXCEPT ![p] = "preflight"]
             /\ recordId' = [recordId EXCEPT ![p] = r]
    <3>1. \A q \in Procs \ {p} : recordId'[q] = recordId[q]
      BY <1>0, <2>2 DEF TypeOK
    <3>. QED
      BY <1>7, <1>8, <2>2, <3>1 DEF ReadRecord
  <2>. QED
    BY <1>8, <2>1, <2>2 DEF ReadRecord
<1>9. ASSUME NEW p \in Procs, Return(p), UNCHANGED <<qbCustomer, workOrderId>>
      PROVE  CreatorsAreBounded'
  <2>1. /\ pc' = [pc EXCEPT ![p] = "idle"]
        /\ \A q \in Procs \ {p} : recordId'[q] = recordId[q]
    BY <1>0, <1>9 DEF Return, TypeOK
  <2>. QED
    BY <1>7, <1>9, <2>1
<1>10. ASSUME NEW p \in Procs, WriteFailed(p) \/ Crash(p) PROVE CreatorsAreBounded'
  BY <1>9, <1>10 DEF WriteFailed, Crash
<1>11. ASSUME NEW p \in Procs,
              Preflight(p) \/ MarkInProgress(p) \/ Throw(p) \/ ResolveCustomer(p)
       PROVE  CreatorsAreBounded'
  BY <1>7, <1>11 DEF Preflight, MarkInProgress, Throw, ResolveCustomer
<1>12. ASSUME NEW p \in Procs, MapCustomer(p) \/ CreateInvoice(p) \/ MapInvoice(p)
       PROVE  CreatorsAreBounded'
  BY <1>7, <1>12 DEF MapCustomer, CreateInvoice, MapInvoice, Answered
<1>13. ASSUME NEW p \in Procs, MarkSynced(p) PROVE CreatorsAreBounded'
  <2>1. UNCHANGED <<qbCustomer, workOrderId>>
    BY <1>13 DEF MarkSynced
  <2>2. CASE pc' = [pc EXCEPT ![p] = "fail"] /\ UNCHANGED recordId
    BY <1>7, <2>1, <2>2
  <2>. QED
    BY <1>9, <1>13, <2>1, <2>2 DEF MarkSynced
<1>14. CASE UNCHANGED vars
  BY <1>1, <1>14 DEF vars
<1>. QED
  BY <1>3, <1>4, <1>5, <1>6, <1>8, <1>10, <1>11, <1>12, <1>13, <1>14,
     FindingKeepsBound, CreatingKeepsBound
     DEF Next, Process, ProcessorStep

\* However invocations overlap, are killed, lose answers and are retried, QuickBooks
\* never holds more customers for one customer row than there are invocations.
THEOREM CustomersBounded == Spec => []QbCustomersBoundedByProcs
<1>1. Init => CreatorsAreBounded
  <2>. SUFFICES ASSUME Init, NEW c \in Customers
                PROVE  Cardinality(QbCustomersOf(c)) + Cardinality(CreatorsOf(c))
                         <= Cardinality(Procs)
    BY DEF CreatorsAreBounded
  <2>1. QbCustomersOf(c) = {} /\ CreatorsOf(c) = {}
    BY ConstantsAssumption DEF Init, QbCustomersOf, CreatorsOf
  <2>. QED
    BY <2>1, FS_EmptySet, CustomersAreFinite
<1>2. IInv /\ CreatorsAreBounded /\ [Next]_vars => CreatorsAreBounded'
  BY CreatorsStep
<1>3. CreatorsAreBounded => QbCustomersBoundedByProcs
  BY CustomersAreFinite DEF CreatorsAreBounded, QbCustomersBoundedByProcs
<1>. QED
  BY <1>1, <1>2, <1>3, Inductive, PTL DEF Spec

-----------------------------------------------------------------------------
\* A row that is not contested has at most one invocation at work on it, is not SYNCED
\* before that one says so, and is mapped to the invoice that it is about to be SYNCED to.
MappedBeforeSynced ==
  \A r \in Records \ contested :
    /\ state[r] = "SYNCED" => invoiceMapping[r] = externalReference[r]
    /\ \A p, q \in Procs : recordId[p] = r /\ recordId[q] = r => p = q
    /\ \A p \in Procs : recordId[p] = r =>
         /\ pc[p] # "fail" => state[r] # "SYNCED"
         /\ pc[p] = "finish" => invoiceMapping[r] = invoiceId[p]

\* The one step an invocation takes on its row when it neither maps nor finishes it.
LEMMA MappedMovesOn ==
  ASSUME TypeOK, LocalsAreOwn, MappedBeforeSynced, NEW p \in Procs,
         UNCHANGED <<externalReference, invoiceMapping, contested, recordId>>,
         \A q \in Procs \ {p} : pc'[q] = pc[q] /\ invoiceId'[q] = invoiceId[q],
         \A r \in Records : state'[r] = "SYNCED" => state[r] = "SYNCED",
         pc[p] # "fail", pc'[p] # "finish"
  PROVE  MappedBeforeSynced'
  BY DEF MappedBeforeSynced

\* Taking up a row alone starts afresh: the row is not SYNCED.
LEMMA MappedTakenUp ==
  ASSUME TypeOK, LocalsAreOwn, MappedBeforeSynced, NEW p \in Procs, NEW r \in Records,
         ReadRecord(p, r)
  PROVE  MappedBeforeSynced'
<1>. USE DEF rows, mappings, MappedBeforeSynced
<1>1. CASE UNCHANGED <<pc, recordId, contested>>
  BY <1>1 DEF ReadRecord
<1>2. CASE /\ state[r] \in {"PENDING", "FAILED"}
           /\ pc' = [pc EXCEPT ![p] = "preflight"]
           /\ recordId' = [recordId EXCEPT ![p] = r]
           /\ contested' = TakenUp(p, r)
  <2>1. /\ pc[p] = "idle" /\ recordId[p] = None /\ None \notin Records
        /\ UNCHANGED <<state, externalReference, invoiceMapping, invoiceId>>
    BY ConstantsAssumption DEF ReadRecord, LocalsAreOwn
  <2>2. /\ pc'[p] = "preflight" /\ recordId'[p] = r
        /\ \A q \in Procs \ {p} : pc'[q] = pc[q] /\ recordId'[q] = recordId[q]
    BY <1>2 DEF TypeOK
  <2>. SUFFICES ASSUME NEW x \in Records \ contested'
                PROVE  /\ state'[x] = "SYNCED" => invoiceMapping'[x] = externalReference'[x]
                       /\ \A q, o \in Procs : recordId'[q] = x /\ recordId'[o] = x => q = o
                       /\ \A q \in Procs : recordId'[q] = x =>
                            /\ pc'[q] # "fail" => state'[x] # "SYNCED"
                            /\ pc'[q] = "finish" => invoiceMapping'[x] = invoiceId'[q]
    OBVIOUS
  <2>3. CASE x = r
    <3>1. \A q \in Procs \ {p} : recordId[q] # r
      BY <1>2, <2>3 DEF TakenUp
    <3>. QED
      BY <1>2, <2>1, <2>2, <2>3, <3>1
  <2>4. CASE x # r
    <3>1. x \in Records \ contested
      BY <1>2, <2>4 DEF TakenUp
    <3>. QED
      BY <2>1, <2>2, <2>4, <3>1
  <2>. QED
    BY <2>3, <2>4
<1>. QED
  BY <1>1, <1>2 DEF ReadRecord

LEMMA MappedStep ==
  ASSUME IInv, MappedBeforeSynced, [Next]_vars
  PROVE  MappedBeforeSynced'
<1>. USE DEF rows, quickbooks, outside, locals, requests, mappings
<1>0. TypeOK /\ LocalsAreOwn
  BY DEF IInv
<1>1. ASSUME UNCHANGED <<externalReference, invoiceMapping, contested, pc, recordId, invoiceId>>,
             \A r \in Records : state'[r] = "SYNCED" => state[r] = "SYNCED"
      PROVE  MappedBeforeSynced'
  BY <1>1 DEF MappedBeforeSynced
<1>2. CASE Create
  BY <1>0, <1>1, <1>2 DEF Create, JobCheck, CreateRecordCheck, CheckedInsert, InsertThrows,
                          TriggerSync, InsertPending, TypeOK
<1>3. CASE Requeue
  BY <1>0, <1>1, <1>3 DEF Requeue, RetrySyncCheck, RetryRecord, RetryAllList, ResetToPending,
                          SetState, TypeOK
<1>4. CASE UNCHANGED vars
  BY <1>1, <1>4 DEF vars
<1>5. ASSUME NEW s \in Services \cup Retriers, SaveImage(s) PROVE MappedBeforeSynced'
  <2>1. /\ \A r \in Records : r # save[s].rec =>
             state'[r] = state[r] /\ externalReference'[r] = externalReference[r]
        /\ UNCHANGED <<invoiceMapping, pc, recordId, invoiceId>>
        /\ contested' = contested \cup {save[s].rec}
    BY <1>0, <1>5 DEF SaveImage, TypeOK
  <2>. QED
    BY <2>1 DEF MappedBeforeSynced
<1>6. CASE Serve
  BY <1>1, <1>5, <1>6 DEF Serve, StartSync, MarkSuccess, MarkFailure, RetryInvoiceStart,
                          RetryInvoiceCheck, HoldImage, SaveThrows
<1>7. ASSUME NEW p \in Procs, StartBatch(p) \/ (\E r \in Records : StartOne(p, r))
      PROVE  MappedBeforeSynced'
  BY <1>1, <1>7 DEF StartBatch, StartOne
<1>8. ASSUME NEW p \in Procs, NEW to \in Steps \ {"finish"},
             UNCHANGED <<externalReference, invoiceMapping, contested, state, recordId>>,
             \A q \in Procs \ {p} : invoiceId'[q] = invoiceId[q],
             pc[p] # "fail", pc' = [pc EXCEPT ![p] = to]
      PROVE  MappedBeforeSynced'
  <2>1. pc'[p] # "finish" /\ \A q \in Procs \ {p} : pc'[q] = pc[q]
    BY <1>0, <1>8 DEF TypeOK
  <2>. QED
    BY <1>0, <1>8, <2>1, MappedMovesOn
<1>9. ASSUME NEW p \in Procs, Preflight(p) \/ Throw(p) \/ ResolveCustomer(p) \/ FindCustomer(p)
      PROVE  MappedBeforeSynced'
  BY <1>8, <1>9 DEF Preflight, Throw, ResolveCustomer, FindCustomer, Steps
<1>10. ASSUME NEW p \in Procs, CreateCustomer(p) \/ MapCustomer(p) \/ CreateInvoice(p)
       PROVE  MappedBeforeSynced'
  <2>1. \A q \in Procs \ {p} : invoiceId'[q] = invoiceId[q]
    BY <1>0, <1>10 DEF CreateCustomer, MapCustomer, CreateInvoice, TypeOK
  <2>. QED
    BY <1>8, <1>10, <2>1 DEF CreateCustomer, MapCustomer, CreateInvoice, Answered, Steps
<1>11. ASSUME NEW p \in Procs, MarkInProgress(p) PROVE MappedBeforeSynced'
  <2>1. /\ pc'[p] = "resolve" /\ \A q \in Procs \ {p} : pc'[q] = pc[q]
        /\ \A r \in Records : state'[r] = "SYNCED" => state[r] = "SYNCED"
    BY <1>0, <1>11 DEF MarkInProgress, SetState, TypeOK, Steps
  <2>. QED
    BY <1>0, <1>11, <2>1, MappedMovesOn DEF MarkInProgress
<1>12. ASSUME NEW p \in Procs, Return(p),
              UNCHANGED <<externalReference, invoiceMapping, contested>>,
              \A r \in Records : state'[r] = "SYNCED" => state[r] = "SYNCED"
       PROVE  MappedBeforeSynced'
  <2>1. /\ recordId'[p] \notin Records
        /\ \A q \in Procs \ {p} :
             pc'[q] = pc[q] /\ recordId'[q] = recordId[q] /\ invoiceId'[q] = invoiceId[q]
    BY <1>0, <1>12, ConstantsAssumption DEF Return, TypeOK
  <2>. QED
    BY <1>12, <2>1 DEF MappedBeforeSynced
<1>13. ASSUME NEW p \in Procs, WriteFailed(p) \/ Crash(p) PROVE MappedBeforeSynced'
  BY <1>0, <1>12, <1>13 DEF WriteFailed, Crash, SetState, TypeOK
<1>14. ASSUME NEW p \in Procs, MapInvoice(p) PROVE MappedBeforeSynced'
  <2>1. /\ recordId[p] \in Records /\ pc[p] = "mapInvoice"
        /\ UNCHANGED <<externalReference, contested, state, recordId, invoiceId>>
        /\ invoiceMapping'[recordId[p]] = invoiceId[p]
        /\ \A r \in Records : r # recordId[p] => invoiceMapping'[r] = invoiceMapping[r]
        /\ \A q \in Procs \ {p} : pc'[q] = pc[q]
    BY <1>0, <1>14 DEF MapInvoice, Answered, TypeOK, LocalsAreOwn, Stored
  <2>. QED
    BY <2>1 DEF MappedBeforeSynced
<1>15. ASSUME NEW p \in Procs, MarkSynced(p) PROVE MappedBeforeSynced'
  <2>1. /\ recordId[p] \in Records /\ pc[p] = "finish"
        /\ UNCHANGED <<contested, invoiceMapping>>
        /\ externalReference'[recordId[p]] = invoiceId[p]
        /\ \A r \in Records : r # recordId[p] =>
             state'[r] = state[r] /\ externalReference'[r] = externalReference[r]
    BY <1>0, <1>15 DEF MarkSynced, SetState, TypeOK, LocalsAreOwn, Stored
  <2>2. /\ pc'[p] \in {"idle", "fail"} /\ recordId'[p] \in {recordId[p], None}
        /\ pc'[p] = "fail" \/ recordId'[p] = None
        /\ \A q \in Procs \ {p} :
             pc'[q] = pc[q] /\ recordId'[q] = recordId[q] /\ invoiceId'[q] = invoiceId[q]
    BY <1>0, <1>15 DEF MarkSynced, Return, TypeOK
  <2>3. None \notin Records
    BY ConstantsAssumption
  <2>. QED
    BY <2>1, <2>2, <2>3 DEF MappedBeforeSynced
<1>. QED
  BY <1>0, <1>2, <1>3, <1>4, <1>6, <1>7, <1>9, <1>10, <1>11, <1>13, <1>14, <1>15, MappedTakenUp
     DEF Next, Process, ProcessorStep

\* Whatever overlapped, died or was requeued, a SYNCED row that no two invocations have
\* shared since it was last taken up alone is mapped to the invoice it names.
THEOREM SyncedRowsAreMapped == Spec => []SyncedMatchesMapping
<1>1. Init => MappedBeforeSynced
  BY ConstantsAssumption DEF Init, MappedBeforeSynced
<1>2. IInv /\ MappedBeforeSynced /\ [Next]_vars => MappedBeforeSynced'
  BY MappedStep
<1>3. MappedBeforeSynced => SyncedMatchesMapping
  BY DEF MappedBeforeSynced, SyncedMatchesMapping
<1>. QED
  BY <1>1, <1>2, <1>3, Inductive, PTL DEF Spec
=============================================================================
