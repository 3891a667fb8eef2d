------------------------ MODULE InvoicePipelineProofs ------------------------
(***************************************************************************)
(* Proofs about InvoicePipeline, for every set of invoices, workers,       *)
(* operators, reviewers and admins and every value of the bounds.          *)
(*                                                                         *)
(* The invariants:                                                         *)
(*   IInv  types, locks and pages, with every fault and override;          *)
(*   DInv  where the id of a job is and what its row says, where operators *)
(*         act one at a time and nothing fails;                            *)
(*   StagesOK, CountOK, CleanOK and AgreeOK  what detection, the approval  *)
(*         policy and reviewers have decided, under the same hypotheses;   *)
(*   PaidOK  how often an id can still be extracted, with every fault.     *)
(* Each has a lemma for the initial states, then one per kind of actor     *)
(* showing that its actions preserve the invariant, with a step for each   *)
(* action that disturbs it.  The theorems read the properties off them.    *)
(***************************************************************************)
EXTENDS InvoicePipeline, FiniteSetTheorems, TLAPS

USE ActorsAssumption, BoundsAssumption
    DEF db, redis, memory, page, count, shared,
        Goto, Finish, Lock, Unlock, Reload, ClosePage, Decide, WriteChoice, Fault

-----------------------------------------------------------------------------
(* Helpers *)

\* A push keeps the ids of the list and adds one (rpush at the tail).
LEMMA AppendedId ==
  ASSUME NEW q \in Seq(Invoices), NEW i \in Invoices
  PROVE  /\ Append(q, i) \in Seq(Invoices)
         /\ \A k \in 1..Len(Append(q, i)) :
               Append(q, i)[k] = i \/ (k \in 1..Len(q) /\ Append(q, i)[k] = q[k])
  OBVIOUS

\* After an UPDATE of an invoice row, a token that still matches belongs to a
\* page that shows another invoice.
LEMMA OutdatedTokens ==
  ASSUME TypeOK, NEW i
  PROVE  /\ Outdated(i) \in [Reviewers -> { "none", "current", "stale" }]
         /\ \A r \in Reviewers :
               Outdated(i)[r] = "current" => token[r] = "current" /\ on[r] # i
  BY DEF TypeOK, Outdated

\* A session that writes the status of a row no reviewer has locked takes
\* nothing away from a reviewer who is about to commit: that reviewer's row is
\* another one.
LEMMA StatusWriteKeepsDecisions ==
  ASSUME IInv, NEW i \in Invoices, lock[i] \notin Reviewers,
         \A j \in Invoices \ { i } : invoice'[j] = invoice[j],
         token' = Outdated(i),
         \A r \in Reviewers : pc'[r] = "deciding" =>
             /\ pc[r] = "deciding"
             /\ on'[r] = on[r] /\ invoiceCopy'[r] = invoiceCopy[r] /\ choice'[r] = choice[r]
  PROVE  ReviewerHoldsCurrentRow'
<1>1. SUFFICES ASSUME NEW r \in Reviewers, pc'[r] = "deciding"
               PROVE  /\ invoice'[on[r]] = invoiceCopy[r]
                      /\ CanTransition(invoice'[on[r]], choice[r])
                      /\ token'[r] # "stale"
    BY DEF ReviewerHoldsCurrentRow, CanTransition
<1>2. on[r] \in Invoices /\ on[r] # i
    BY <1>1 DEF IInv, SessionOK, LockDiscipline, HoldsLock, Actors
<1>3. invoice'[on[r]] = invoice[on[r]] /\ token'[r] = token[r]
    BY <1>2 DEF IInv, TypeOK, Outdated
<1>4. QED BY <1>1, <1>3 DEF IInv, ReviewerHoldsCurrentRow

\* What record_processing_job_failure commits, on whatever copies, is well typed.
LEMMA WriteFailureTypes ==
  ASSUME IInv, NEW w \in Workers, on[w] \in Invoices,
         NEW status \in { "queued", "failed" }, WriteFailure(w, status)
  PROVE  /\ job' \in [Invoices -> JobRow]
         /\ invoice' \in [Invoices -> CommittedInvoiceStatus]
         /\ token' \in [Reviewers -> { "none", "current", "stale" }]
         /\ UNCHANGED <<extractions, flagged, invoiceTrail, approvals, shown>>
<1>1. [status |-> Written(jobCopy[w].status, status, job[on[w]].status),
       attempts |-> jobCopy[w].attempts + 1] \in JobRow
    BY DEF IInv, TypeOK, Actors, JobRow, CommittedJobStatus, Written
<1>2. Written(invoiceCopy[w], status, invoice[on[w]]) \in CommittedInvoiceStatus
    BY DEF IInv, TypeOK, CommittedInvoiceStatus, InvoiceStatus, Written
<1>3. Outdated(on[w]) \in [Reviewers -> { "none", "current", "stale" }]
    BY OutdatedTokens DEF IInv
<1>4. QED BY <1>1, <1>2, <1>3 DEF IInv, TypeOK, WriteFailure

\* It changes the invoice's status only under a free row, so it does not touch
\* an invoice a reviewer is deciding.
LEMMA WriteFailureKeepsDecisions ==
  ASSUME IInv, NEW w \in Workers, on[w] \in Invoices,
         NEW status \in { "queued", "failed" }, WriteFailure(w, status),
         \A r \in Reviewers : pc'[r] = "deciding" =>
             /\ pc[r] = "deciding"
             /\ on'[r] = on[r] /\ invoiceCopy'[r] = invoiceCopy[r] /\ choice'[r] = choice[r]
  PROVE  ReviewerHoldsCurrentRow'
<1>1. CASE invoiceCopy[w] = status
  <2>1. invoice' = invoice /\ token' = token
    BY <1>1 DEF IInv, TypeOK, WriteFailure, Written
  <2>2. QED BY <2>1 DEF IInv, ReviewerHoldsCurrentRow, SessionOK, Actors
<1>2. CASE invoiceCopy[w] # status
  <2>1. /\ lock[on[w]] = NoOne
        /\ token' = Outdated(on[w])
        /\ \A j \in Invoices \ { on[w] } : invoice'[j] = invoice[j]
    BY <1>2 DEF IInv, TypeOK, WriteFailure, InvoiceRowFree
  <2>2. QED BY <2>1, StatusWriteKeepsDecisions DEF Actors
<1>3. QED BY <1>1, <1>2

-----------------------------------------------------------------------------

(* Initial states *)

\* The empty system satisfies the invariant.
LEMMA InitEstablishesIInv == Init => IInv
<1> SUFFICES ASSUME Init PROVE IInv
    OBVIOUS
<1>1. TypeOK
    BY DEF Init, TypeOK, JobRow, Shown, Choice, NoJob, NothingShown, WorkerStep,
           CommittedJobStatus, CommittedInvoiceStatus
<1>2. SessionOK /\ ReviewerHoldsCurrentRow
    BY DEF Init, SessionOK, ReviewerHoldsCurrentRow, Actors
<1>3. ExistenceOK
    BY DEF Init, ExistenceOK, NoJob
<1>4. LockDiscipline
    BY DEF Init, LockDiscipline
<1>5. PageOK
    BY DEF Init, PageOK
<1>6. QED BY <1>1, <1>2, <1>3, <1>4, <1>5 DEF IInv

-----------------------------------------------------------------------------

\* zrem keeps what is left of the retry set and the scan's list known.
LEMMA RemoveDuePreserves ==
  ASSUME IInv, NEW w \in Workers, NEW i \in Invoices, RemoveDue(w, i)
  PROVE  IInv'
<1>1. TypeOK'
  <2>0. w \in Actors
    BY DEF Actors
  <2>1. delayed' \in SUBSET Invoices /\ due' \in [Actors -> SUBSET Invoices]
    BY <2>0 DEF IInv, TypeOK, RemoveDue
  <2>2. /\ pc' \in [Actors -> WorkerStep \cup RequestStep]
        /\ on' \in [Actors -> Invoices \cup { NoInvoice }]
    BY <2>0 DEF IInv, TypeOK, RemoveDue, WorkerStep
  <2> QED BY <2>1, <2>2 DEF IInv, TypeOK, RemoveDue
<1>2. SessionOK'
    BY DEF IInv, RemoveDue, TypeOK, SessionOK, InvoiceStatus, ReviewDecision
<1>3. ExistenceOK'
  <2>1. w \in Actors /\ Known(i) /\ UNCHANGED <<job, invoice, uploading, queue>>
    BY DEF Actors, RemoveDue, IInv, ExistenceOK
  <2>2. delayed' \subseteq delayed /\ \A a \in Actors : due'[a] \subseteq due[a]
    BY <2>1 DEF RemoveDue, IInv, TypeOK
  <2>3. \A a \in Actors : on'[a] = on[a] \/ on'[a] = i
    BY <2>1 DEF RemoveDue, IInv, TypeOK
  <2> QED BY <2>1, <2>2, <2>3 DEF IInv, ExistenceOK, Known
<1>4. LockDiscipline'
  <2>1. lock' = lock /\ ~HoldsLock(w) /\ ~HoldsLock(w)'
    BY DEF RemoveDue, IInv, TypeOK, HoldsLock
  <2>2. \A a \in Actors \ { w } : pc'[a] = pc[a] /\ on'[a] = on[a]
    BY DEF RemoveDue, IInv, TypeOK
  <2>3. QED BY <2>1, <2>2 DEF IInv, LockDiscipline, HoldsLock
<1>5. ReviewerHoldsCurrentRow'
    BY DEF IInv, RemoveDue, TypeOK, ReviewerHoldsCurrentRow, Actors
<1>6. PageOK'
    BY DEF IInv, RemoveDue, TypeOK, PageOK, Actors
<1>7. QED BY <1>1, <1>2, <1>3, <1>4, <1>5, <1>6 DEF IInv

\* The promoted id is that of a committed job.
LEMMA PushDuePreserves ==
  ASSUME IInv, NEW w \in Workers, PushDue(w)
  PROVE  IInv'
<1>1. TypeOK'
  <2>1. on[w] \in Invoices /\ queue' = Append(queue, on[w])
    BY DEF IInv, SessionOK, PushDue, Actors
  <2>2. queue' \in Seq(Invoices)
    BY <2>1, AppendedId DEF IInv, TypeOK
  <2>3. QED BY <2>2 DEF IInv, TypeOK, PushDue, WorkerStep, Actors
<1>2. SessionOK'
    BY DEF IInv, PushDue, TypeOK, SessionOK
<1>3. ExistenceOK'
  <2>1. on[w] \in Invoices /\ queue' = Append(queue, on[w]) /\ Known(on[w])
    BY DEF IInv, SessionOK, ExistenceOK, PushDue, Actors
  <2>2. \A k \in 1..Len(queue') : Known(queue'[k])
    BY <2>1, AppendedId DEF IInv, TypeOK, ExistenceOK
  <2>3. QED BY <2>2 DEF IInv, ExistenceOK, Known, PushDue
<1>4. LockDiscipline'
    BY DEF IInv, PushDue, LockDiscipline, HoldsLock
<1>5. ReviewerHoldsCurrentRow'
    BY DEF IInv, PushDue, ReviewerHoldsCurrentRow
<1>6. PageOK'
    BY DEF IInv, PushDue, PageOK
<1>7. QED BY <1>1, <1>2, <1>3, <1>4, <1>5, <1>6 DEF IInv

\* blpop hands a worker the id of a committed job.
LEMMA DequeuePreserves ==
  ASSUME IInv, NEW w \in Workers, Dequeue(w)
  PROVE  IInv'
<1>1. TypeOK'
    BY DEF IInv, Dequeue, TypeOK, Actors, WorkerStep
<1>2. SessionOK'
    BY DEF IInv, Dequeue, TypeOK, SessionOK
<1>3. ExistenceOK'
    BY DEF IInv, Dequeue, ExistenceOK, Known
<1>4. LockDiscipline'
    BY DEF IInv, Dequeue, LockDiscipline, HoldsLock
<1>5. ReviewerHoldsCurrentRow'
    BY DEF IInv, Dequeue, ReviewerHoldsCurrentRow
<1>6. PageOK'
    BY DEF IInv, Dequeue, PageOK
<1>7. QED BY <1>1, <1>2, <1>3, <1>4, <1>5, <1>6 DEF IInv

\* Each action of a worker that polls the queue preserves the invariant.
LEMMA PollingPreserves ==
  ASSUME IInv, NEW w \in Workers, Polling(w)
  PROVE  IInv'
<1>1. ASSUME NEW ready \in SUBSET delayed, ScanDue(w, ready)
      PROVE  IInv'
    BY <1>1 DEF ScanDue, IInv, TypeOK, SessionOK, ExistenceOK, LockDiscipline,
           HoldsLock, ReviewerHoldsCurrentRow, PageOK, Known, Actors, WorkerStep
<1>2. ASSUME NEW i \in Invoices, RemoveDue(w, i)
      PROVE  IInv'
    BY <1>2, RemoveDuePreserves
<1>3. CASE PushDue(w)
    BY <1>3, PushDuePreserves
<1>4. CASE Dequeue(w)
    BY <1>4, DequeuePreserves
<1>5. CASE PollTimesOut(w)
    BY <1>5 DEF PollTimesOut, IInv, TypeOK, SessionOK, ExistenceOK, LockDiscipline,
           HoldsLock, ReviewerHoldsCurrentRow, PageOK, Known, Actors,
           CommittedJobStatus, CommittedInvoiceStatus, WorkerStep, JobRow, Choice, NoJob
<1>6. QED BY <1>1, <1>2, <1>3, <1>4, <1>5 DEF Polling

-----------------------------------------------------------------------------
\* An illegal transition leaves no lock behind.
LEMMA TransitionRaisesPreserves ==
  ASSUME IInv, NEW w \in Workers, TransitionRaises(w)
  PROVE  IInv'
<1>1. TypeOK'
    BY DEF IInv, TransitionRaises, TypeOK, Actors, WorkerStep, Choice
<1>2. SessionOK'
    BY DEF IInv, TransitionRaises, SessionOK
<1>3. ExistenceOK'
    BY DEF IInv, TransitionRaises, ExistenceOK, Known
<1>4. LockDiscipline'
    BY DEF IInv, TransitionRaises, LockDiscipline, HoldsLock
<1>5. ReviewerHoldsCurrentRow'
    BY DEF IInv, TransitionRaises, ReviewerHoldsCurrentRow
<1>6. PageOK'
    BY DEF IInv, TransitionRaises, PageOK
<1>7. QED BY <1>1, <1>2, <1>3, <1>4, <1>5, <1>6 DEF IInv

\* The flush takes the lock of a row that nobody holds.
LEMMA BeginProcessingPreserves ==
  ASSUME IInv, NEW w \in Workers, BeginProcessing(w)
  PROVE  IInv'
<1>1. TypeOK'
    BY DEF BeginProcessing, IInv, TypeOK, Actors, WorkerStep
<1>2. SessionOK'
    BY DEF IInv, BeginProcessing, SessionOK
<1>3. ExistenceOK'
    BY DEF IInv, BeginProcessing, ExistenceOK, Known
<1>4. LockDiscipline'
    BY DEF IInv, BeginProcessing, TypeOK, LockDiscipline, HoldsLock, InvoiceRowFree
<1>5. ReviewerHoldsCurrentRow'
    BY DEF IInv, BeginProcessing, ReviewerHoldsCurrentRow
<1>6. PageOK'
    BY DEF IInv, BeginProcessing, PageOK
<1>7. QED BY <1>1, <1>2, <1>3, <1>4, <1>5, <1>6 DEF IInv

\* The worker that commits holds the row, so no reviewer is deciding on it.
LEMMA CommitExtractionPreserves ==
  ASSUME IInv, NEW w \in Workers, NEW verdict \in ExtractionVerdict,
         NEW confidence \in { "confident", "unsure" }, CommitExtraction(w, verdict, confidence)
  PROVE  IInv'
<1>1. TypeOK'
  <2>1. on[w] \in Invoices /\ verdict \in CommittedInvoiceStatus /\ confidence \in Choice
    BY DEF IInv, SessionOK, CommitExtraction, Actors, ExtractionVerdict, Choice,
           CommittedInvoiceStatus, InvoiceStatus
  <2>2. [status |-> "completed", attempts |-> jobCopy[w].attempts + 1] \in JobRow
    BY DEF IInv, TypeOK, Actors, JobRow, CommittedJobStatus
  <2>3. job' \in [Invoices -> JobRow] /\ token' \in [Reviewers -> { "none", "current", "stale" }]
    BY <2>2, OutdatedTokens DEF IInv, TypeOK, CommitExtraction
  <2>4. QED BY <2>1, <2>3 DEF IInv, TypeOK, CommitExtraction, Actors, WorkerStep,
         CommittedJobStatus
<1>2. SessionOK'
    BY DEF IInv, CommitExtraction, SessionOK
<1>3. ExistenceOK'
    BY DEF IInv, CommitExtraction, TypeOK, ExistenceOK, Known, ExtractionVerdict
<1>4. LockDiscipline'
    BY DEF IInv, CommitExtraction, TypeOK, LockDiscipline, HoldsLock, Actors
<1>5. ReviewerHoldsCurrentRow'
  <2>1. on[w] \in Invoices /\ lock[on[w]] = w
    BY DEF IInv, SessionOK, CommitExtraction, Actors, LockDiscipline, HoldsLock
  <2>2. QED BY <2>1, StatusWriteKeepsDecisions DEF IInv, CommitExtraction, Actors
<1>6. PageOK'
    BY DEF IInv, CommitExtraction, PageOK, Outdated
<1>7. QED BY <1>1, <1>2, <1>3, <1>4, <1>5, <1>6 DEF IInv

\* The rollback gives the lock back.
LEMMA ExtractionFailsPreserves ==
  ASSUME IInv, NEW w \in Workers,
         NEW kind \in { "retryable", "permanent" }, ExtractionFails(w, kind)
  PROVE  IInv'
<1>1. TypeOK'
    BY DEF ExtractionFails, IInv, TypeOK, Actors, WorkerStep, Choice
<1>2. SessionOK'
    BY DEF IInv, ExtractionFails, SessionOK
<1>3. ExistenceOK'
    BY DEF IInv, ExtractionFails, ExistenceOK, Known
<1>4. LockDiscipline'
    BY DEF IInv, ExtractionFails, TypeOK, LockDiscipline, HoldsLock, Actors
<1>5. ReviewerHoldsCurrentRow'
    BY DEF IInv, ExtractionFails, ReviewerHoldsCurrentRow
<1>6. PageOK'
    BY DEF IInv, ExtractionFails, PageOK
<1>7. QED BY <1>1, <1>2, <1>3, <1>4, <1>5, <1>6 DEF IInv

\* A demotion waits for the row; without one the invoice row is untouched.
LEMMA FlagAnomaliesPreserves ==
  ASSUME IInv, NEW w \in Workers, FlagAnomalies(w)
  PROVE  IInv'
<1>1. TypeOK'
  <2>1. /\ invoice' \in [Invoices -> CommittedInvoiceStatus]
        /\ invoiceTrail' \in [Invoices -> CommittedInvoiceStatus]
    <3>1. "review_required" \in CommittedInvoiceStatus
      BY DEF CommittedInvoiceStatus, InvoiceStatus
    <3>2. CASE invoiceCopy[w] = "validation_passed"
      <4>1. /\ invoice' = [invoice EXCEPT ![on[w]] = "review_required"]
            /\ invoiceTrail' = [invoiceTrail EXCEPT ![on[w]] = "review_required"]
        BY <3>2 DEF FlagAnomalies
      <4>2. QED BY <3>1, <4>1 DEF IInv, TypeOK
    <3>3. CASE invoiceCopy[w] # "validation_passed"
      BY <3>3 DEF IInv, TypeOK, FlagAnomalies
    <3>4. QED BY <3>2, <3>3
  <2>2. token' \in [Reviewers -> { "none", "current", "stale" }]
    BY OutdatedTokens DEF IInv, TypeOK, FlagAnomalies
  <2>3. QED BY <2>1, <2>2 DEF IInv, TypeOK, FlagAnomalies, Actors, WorkerStep
<1>2. SessionOK'
    BY DEF IInv, FlagAnomalies, SessionOK
<1>3. ExistenceOK'
    BY DEF IInv, FlagAnomalies, TypeOK, ExistenceOK, Actors, Known
<1>4. LockDiscipline'
    BY DEF IInv, FlagAnomalies, LockDiscipline, HoldsLock
<1>5. ReviewerHoldsCurrentRow'
  <2>1. on[w] \in Invoices
    BY DEF IInv, SessionOK, FlagAnomalies, Actors
  <2>2. CASE invoiceCopy[w] = "validation_passed"
    <3>1. /\ lock[on[w]] = NoOne /\ token' = Outdated(on[w])
          /\ invoice' = [invoice EXCEPT ![on[w]] = "review_required"]
      BY <2>2 DEF FlagAnomalies, InvoiceRowFree
    <3>2. QED BY <2>1, <3>1, StatusWriteKeepsDecisions DEF IInv, FlagAnomalies, Actors
  <2>3. CASE invoiceCopy[w] # "validation_passed"
    BY <2>3 DEF IInv, FlagAnomalies, ReviewerHoldsCurrentRow
  <2>4. QED BY <2>2, <2>3
<1>6. PageOK'
  <2>1. on' = on /\ shown' = shown /\ \A r \in Reviewers : pc'[r] = pc[r]
    BY DEF FlagAnomalies, IInv
  <2>2. \A r \in Reviewers : token'[r] = "current" =>
            token[r] = "current" /\ invoice'[on[r]] = invoice[on[r]]
    <3>1. CASE invoiceCopy[w] = "validation_passed"
      <4>1. /\ token' = Outdated(on[w])
            /\ invoice' = [invoice EXCEPT ![on[w]] = "review_required"]
        BY <3>1 DEF FlagAnomalies
      <4>2. QED BY <4>1, OutdatedTokens DEF IInv, TypeOK
    <3>2. CASE invoiceCopy[w] # "validation_passed"
      BY <3>2 DEF FlagAnomalies
    <3>3. QED BY <3>1, <3>2
  <2>3. QED BY <2>1, <2>2 DEF IInv, PageOK
<1>7. QED BY <1>1, <1>2, <1>3, <1>4, <1>5, <1>6 DEF IInv

\* The approval waits for the row, and outdates the pages that show it.
LEMMA AutoApprovePreserves ==
  ASSUME IInv, NEW w \in Workers, AutoApprove(w)
  PROVE  IInv'
<1>1. TypeOK'
    BY DEF AutoApprove, IInv, TypeOK, Actors, WorkerStep, CommittedInvoiceStatus,
           InvoiceStatus, Outdated
<1>2. SessionOK'
    BY DEF IInv, AutoApprove, SessionOK
<1>3. ExistenceOK'
    BY DEF IInv, AutoApprove, ExistenceOK, Actors, Known
<1>4. LockDiscipline'
    BY DEF IInv, AutoApprove, LockDiscipline, HoldsLock
<1>5. ReviewerHoldsCurrentRow'
  <2>1. on[w] \in Invoices /\ lock[on[w]] = NoOne
    BY DEF IInv, SessionOK, AutoApprove, Actors, InvoiceRowFree
  <2>2. QED BY <2>1, StatusWriteKeepsDecisions DEF IInv, AutoApprove, Actors
<1>6. PageOK'
    BY DEF IInv, AutoApprove, PageOK, Outdated
<1>7. QED BY <1>1, <1>2, <1>3, <1>4, <1>5, <1>6 DEF IInv

\* Each action of a worker that processes a job preserves the invariant.
LEMMA ProcessingPreserves ==
  ASSUME IInv, NEW w \in Workers, Processing(w)
  PROVE  IInv'
<1>1. CASE GetJob(w)
  <2>1. TypeOK'
    <3>1. w \in Actors /\ on[w] \in Invoices /\ job[on[w]] \in JobRow
      BY <1>1 DEF GetJob, IInv, TypeOK, SessionOK, Actors
    <3>2. pc' \in [Actors -> WorkerStep \cup RequestStep]
      BY <1>1, <3>1 DEF GetJob, IInv, TypeOK, WorkerStep
    <3>3. jobCopy' \in [Actors -> JobRow]
      BY <1>1, <3>1 DEF GetJob, IInv, TypeOK
    <3> QED BY <1>1, <3>2, <3>3 DEF GetJob, IInv, TypeOK
  <2>2. SessionOK'
    BY <1>1 DEF GetJob, IInv, TypeOK, SessionOK, Actors
  <2>3. ExistenceOK'
    BY <1>1 DEF GetJob, IInv, TypeOK, SessionOK, ExistenceOK, Known, Actors
  <2>4. LockDiscipline'
    BY <1>1 DEF GetJob, IInv, TypeOK, SessionOK, LockDiscipline, HoldsLock, Actors
  <2>5. ReviewerHoldsCurrentRow'
    BY <1>1 DEF GetJob, IInv, TypeOK, ReviewerHoldsCurrentRow, Actors, CanTransition
  <2>6. PageOK'
    BY <1>1 DEF GetJob, IInv, TypeOK, PageOK, Actors
  <2>7. QED BY <2>1, <2>2, <2>3, <2>4, <2>5, <2>6 DEF IInv
<1>2. CASE SkipIneligible(w)
  <2>1. TypeOK'
    BY <1>2 DEF SkipIneligible, IInv, TypeOK, Actors, WorkerStep, JobRow, NoJob, Choice,
       CommittedJobStatus, CommittedInvoiceStatus
  <2>2. SessionOK' /\ ExistenceOK'
    BY <1>2 DEF SkipIneligible, IInv, TypeOK, SessionOK, ExistenceOK, Known, Actors
  <2>3. LockDiscipline'
    BY <1>2 DEF SkipIneligible, IInv, TypeOK, SessionOK, LockDiscipline, HoldsLock, Actors
  <2>4. ReviewerHoldsCurrentRow' /\ PageOK'
    BY <1>2 DEF SkipIneligible, IInv, TypeOK, ReviewerHoldsCurrentRow, PageOK, Actors
  <2>5. QED BY <2>1, <2>2, <2>3, <2>4 DEF IInv
<1>3. CASE GetInvoice(w)
    BY <1>3 DEF GetInvoice, IInv, TypeOK, SessionOK, ExistenceOK, LockDiscipline,
           HoldsLock, ReviewerHoldsCurrentRow, PageOK, Known, Actors, WorkerStep, Shown
<1>4. CASE TransitionRaises(w)
    BY <1>4, TransitionRaisesPreserves
<1>5. CASE BeginProcessing(w)
    BY <1>5, BeginProcessingPreserves
<1>6. ASSUME NEW verdict \in ExtractionVerdict, NEW confidence \in { "confident", "unsure" }, CommitExtraction(w, verdict, confidence)
      PROVE  IInv'
    BY <1>6, CommitExtractionPreserves
<1>7. ASSUME NEW kind \in { "retryable", "permanent" }, ExtractionFails(w, kind)
      PROVE  IInv'
    BY <1>7, ExtractionFailsPreserves
<1>8. CASE EmbedInvoice(w)
    BY <1>8 DEF EmbedInvoice, IInv, TypeOK, SessionOK, ExistenceOK, LockDiscipline,
           HoldsLock, ReviewerHoldsCurrentRow, PageOK, Known, Actors, WorkerStep,
           RequestStep
<1>9. CASE NoAnomaly(w)
    BY <1>9 DEF NoAnomaly, IInv, TypeOK, SessionOK, ExistenceOK, LockDiscipline,
           HoldsLock, ReviewerHoldsCurrentRow, PageOK, Known, Actors, WorkerStep
<1>10. CASE FlagAnomalies(w)
    BY <1>10, FlagAnomaliesPreserves
<1>11. CASE DetectionFails(w)
    BY <1>11 DEF DetectionFails, IInv, TypeOK, SessionOK, ExistenceOK, LockDiscipline,
           HoldsLock, ReviewerHoldsCurrentRow, PageOK, Known, Actors, WorkerStep
<1>12. CASE ReloadInvoice(w)
    BY <1>12 DEF ReloadInvoice, IInv, TypeOK, SessionOK, ExistenceOK, LockDiscipline,
           HoldsLock, ReviewerHoldsCurrentRow, PageOK, Known, Actors, InvoiceStatus,
           CommittedJobStatus, WorkerStep, RequestStep, Choice, Shown
<1>13. CASE AutoApprove(w)
    BY <1>13, AutoApprovePreserves
<1>14. CASE SkipAutoApproval(w)
    BY <1>14 DEF SkipAutoApproval, IInv, TypeOK, SessionOK, ExistenceOK, LockDiscipline,
           HoldsLock, ReviewerHoldsCurrentRow, PageOK, Known, Actors, WorkerStep
<1>15. CASE PublishCompletion(w)
    BY <1>15 DEF PublishCompletion, IInv, TypeOK, SessionOK, ExistenceOK,
           LockDiscipline, HoldsLock, ReviewerHoldsCurrentRow, PageOK, Known, Actors,
           CommittedJobStatus, CommittedInvoiceStatus, WorkerStep, JobRow, Choice, NoJob
<1>16. QED BY <1>1, <1>2, <1>3, <1>4, <1>5, <1>6, <1>7, <1>8, <1>9, <1>10, <1>11, <1>12,
           <1>13, <1>14, <1>15 DEF Processing

-----------------------------------------------------------------------------
\* A retry is recorded under a free row.
LEMMA ScheduleRetryPreserves ==
  ASSUME IInv, NEW w \in Workers, ScheduleRetry(w)
  PROVE  IInv'
<1>1. TypeOK'
  <2>1. on[w] \in Invoices /\ WriteFailure(w, "queued")
    BY DEF IInv, SessionOK, ScheduleRetry, Actors
  <2>2. /\ job' \in [Invoices -> JobRow]
        /\ invoice' \in [Invoices -> CommittedInvoiceStatus]
        /\ token' \in [Reviewers -> { "none", "current", "stale" }]
        /\ UNCHANGED <<extractions, flagged, invoiceTrail, approvals, shown>>
    BY <2>1, WriteFailureTypes
  <2>3. QED BY <2>2 DEF IInv, TypeOK, ScheduleRetry, Actors, WorkerStep,
         CommittedJobStatus, Written
<1>2. SessionOK'
    BY DEF IInv, ScheduleRetry, SessionOK
<1>3. ExistenceOK'
    BY DEF IInv, ScheduleRetry, WriteFailure, ExistenceOK, Actors, Known, Written
<1>4. LockDiscipline'
    BY DEF IInv, ScheduleRetry, LockDiscipline, HoldsLock
<1>5. ReviewerHoldsCurrentRow'
  <2>1. on[w] \in Invoices /\ WriteFailure(w, "queued")
    BY DEF IInv, SessionOK, ScheduleRetry, Actors
  <2>2. QED BY <2>1, WriteFailureKeepsDecisions DEF ScheduleRetry, IInv, Actors
<1>6. PageOK'
    BY DEF IInv, ScheduleRetry, WriteFailure, PageOK, Outdated, Written
<1>7. QED BY <1>1, <1>2, <1>3, <1>4, <1>5, <1>6 DEF IInv

\* The rescheduled id is that of a committed job.
LEMMA EnqueueRetryPreserves ==
  ASSUME IInv, NEW w \in Workers, EnqueueRetry(w)
  PROVE  IInv'
<1>1. TypeOK'
  <2>1. w \in Actors /\ on[w] \in Invoices
    BY DEF EnqueueRetry, IInv, TypeOK, SessionOK, Actors
  <2>2. delayed' \in SUBSET Invoices
    BY <2>1 DEF EnqueueRetry, IInv, TypeOK
  <2>3. /\ pc' \in [Actors -> WorkerStep \cup RequestStep]
        /\ on' \in [Actors -> Invoices \cup { NoInvoice }]
        /\ jobCopy' \in [Actors -> JobRow] /\ due' \in [Actors -> SUBSET Invoices]
        /\ invoiceCopy' \in [Actors -> CommittedInvoiceStatus] /\ choice' \in [Actors -> Choice]
    BY DEF EnqueueRetry, IInv, TypeOK, WorkerStep, JobRow, NoJob, CommittedJobStatus,
       CommittedInvoiceStatus, Choice
  <2> QED BY <2>2, <2>3 DEF EnqueueRetry, IInv, TypeOK
<1>2. SessionOK'
    BY DEF IInv, EnqueueRetry, TypeOK, SessionOK
<1>3. ExistenceOK'
  <2>1. on[w] \in Invoices /\ Known(on[w])
    BY DEF IInv, SessionOK, ExistenceOK, EnqueueRetry, Actors
  <2>2. QED BY <2>1 DEF IInv, ExistenceOK, Known, EnqueueRetry
<1>4. LockDiscipline'
    BY DEF IInv, EnqueueRetry, LockDiscipline, HoldsLock
<1>5. ReviewerHoldsCurrentRow'
    BY DEF IInv, EnqueueRetry, ReviewerHoldsCurrentRow
<1>6. PageOK'
    BY DEF IInv, EnqueueRetry, PageOK
<1>7. QED BY <1>1, <1>2, <1>3, <1>4, <1>5, <1>6 DEF IInv

\* A final failure is recorded under a free row.
LEMMA MarkFailedPreserves ==
  ASSUME IInv, NEW w \in Workers, MarkFailed(w)
  PROVE  IInv'
<1>1. TypeOK'
  <2>1. on[w] \in Invoices /\ WriteFailure(w, "failed")
    BY DEF IInv, SessionOK, MarkFailed, Actors
  <2>2. /\ job' \in [Invoices -> JobRow]
        /\ invoice' \in [Invoices -> CommittedInvoiceStatus]
        /\ token' \in [Reviewers -> { "none", "current", "stale" }]
        /\ UNCHANGED <<extractions, flagged, invoiceTrail, approvals, shown>>
    BY <2>1, WriteFailureTypes
  <2>3. QED BY <2>2 DEF IInv, TypeOK, MarkFailed, Actors, WorkerStep, Choice, NoJob,
         JobRow, CommittedJobStatus, CommittedInvoiceStatus
<1>2. SessionOK'
    BY DEF IInv, MarkFailed, TypeOK, SessionOK
<1>3. ExistenceOK'
    BY DEF IInv, MarkFailed, WriteFailure, ExistenceOK, Actors, Known, Written
<1>4. LockDiscipline'
    BY DEF IInv, MarkFailed, LockDiscipline, HoldsLock
<1>5. ReviewerHoldsCurrentRow'
  <2>1. on[w] \in Invoices /\ WriteFailure(w, "failed")
    BY DEF IInv, SessionOK, MarkFailed, Actors
  <2>2. QED BY <2>1, WriteFailureKeepsDecisions DEF MarkFailed, IInv, Actors
<1>6. PageOK'
    BY DEF IInv, MarkFailed, WriteFailure, PageOK, Outdated, Written
<1>7. QED BY <1>1, <1>2, <1>3, <1>4, <1>5, <1>6 DEF IInv

\* Each action of a worker that records a failure preserves the invariant.
LEMMA FailurePreserves ==
  ASSUME IInv, NEW w \in Workers, Failure(w)
  PROVE  IInv'
<1>1. CASE FailureGetsJob(w)
    BY <1>1 DEF FailureGetsJob, IInv, TypeOK, SessionOK, ExistenceOK, LockDiscipline,
           HoldsLock, ReviewerHoldsCurrentRow, PageOK, Known, Actors,
           CommittedJobStatus, CommittedInvoiceStatus, WorkerStep, RequestStep, Shown
<1>2. CASE FailureGetsInvoice(w)
    BY <1>2 DEF FailureGetsInvoice, IInv, TypeOK, SessionOK, ExistenceOK,
           LockDiscipline, HoldsLock, ReviewerHoldsCurrentRow, PageOK, Known, Actors,
           WorkerStep, RequestStep
<1>3. CASE ScheduleRetry(w)
    BY <1>3, ScheduleRetryPreserves
<1>4. CASE EnqueueRetry(w)
    BY <1>4, EnqueueRetryPreserves
<1>5. CASE MarkFailed(w)
    BY <1>5, MarkFailedPreserves
<1>6. QED BY <1>1, <1>2, <1>3, <1>4, <1>5 DEF Failure

-----------------------------------------------------------------------------
\* The push of an upload names a committed job.
LEMMA EnqueueUploadPreserves ==
  ASSUME IInv, NEW i \in Invoices, EnqueueUpload(i)
  PROVE  IInv'
<1>1. TypeOK'
    BY DEF IInv, EnqueueUpload, TypeOK
<1>2. SessionOK'
    BY DEF IInv, EnqueueUpload, SessionOK
<1>3. ExistenceOK'
    BY DEF IInv, EnqueueUpload, ExistenceOK, Known
<1>4. LockDiscipline'
    BY DEF IInv, EnqueueUpload, LockDiscipline, HoldsLock
<1>5. ReviewerHoldsCurrentRow'
    BY DEF IInv, EnqueueUpload, ReviewerHoldsCurrentRow
<1>6. PageOK'
    BY DEF IInv, EnqueueUpload, PageOK
<1>7. QED BY <1>1, <1>2, <1>3, <1>4, <1>5, <1>6 DEF IInv

\* Each action of a upload request preserves the invariant.
LEMMA UploadNextPreserves ==
  ASSUME IInv, NEW i \in Invoices, UploadNext(i)
  PROVE  IInv'
<1>1. CASE Upload(i)
  <2>1. TypeOK'
    <3>1. /\ job' \in [Invoices -> JobRow] /\ jobTrail' \in [Invoices -> CommittedJobStatus]
      BY <1>1 DEF Upload, IInv, TypeOK, JobRow, CommittedJobStatus
    <3>2. /\ invoice' \in [Invoices -> CommittedInvoiceStatus]
          /\ invoiceTrail' \in [Invoices -> CommittedInvoiceStatus]
      BY <1>1 DEF Upload, IInv, TypeOK, CommittedInvoiceStatus, InvoiceStatus
    <3>3. uploading' \in SUBSET Invoices
      BY <1>1 DEF Upload, IInv, TypeOK
    <3> QED BY <1>1, <3>1, <3>2, <3>3 DEF Upload, IInv, TypeOK
  <2>2. SessionOK'
    BY <1>1 DEF Upload, IInv, TypeOK, SessionOK, Actors
  <2>3. ExistenceOK'
    BY <1>1 DEF Upload, IInv, TypeOK, SessionOK, ExistenceOK, Known, Actors
  <2>4. LockDiscipline'
    BY <1>1 DEF Upload, IInv, TypeOK, SessionOK, LockDiscipline, HoldsLock, Actors
  <2>5. ReviewerHoldsCurrentRow'
    BY <1>1 DEF Upload, IInv, TypeOK, ReviewerHoldsCurrentRow, SessionOK, ExistenceOK, Known, Actors, CanTransition
  <2>6. PageOK'
    BY <1>1 DEF Upload, IInv, TypeOK, PageOK, SessionOK, ExistenceOK, Known, Actors
  <2>7. QED BY <2>1, <2>2, <2>3, <2>4, <2>5, <2>6 DEF IInv
<1>2. CASE EnqueueUpload(i)
    BY <1>2, EnqueueUploadPreserves
<1>3. QED BY <1>1, <1>2 DEF UploadNext

-----------------------------------------------------------------------------
\* A reprocess request reads an existing job.
LEMMA OpenFailedJobPreserves ==
  ASSUME IInv, NEW o \in Operators, NEW i \in Invoices, OpenFailedJob(o, i)
  PROVE  IInv'
<1>1. TypeOK'
    BY DEF IInv, OpenFailedJob, TypeOK, Actors, WorkerStep, Choice
<1>2. SessionOK'
    BY DEF IInv, OpenFailedJob, TypeOK, SessionOK
<1>3. ExistenceOK'
    BY DEF IInv, OpenFailedJob, ExistenceOK, Known
<1>4. LockDiscipline'
    BY DEF IInv, OpenFailedJob, LockDiscipline, HoldsLock
<1>5. ReviewerHoldsCurrentRow'
    BY DEF IInv, OpenFailedJob, ReviewerHoldsCurrentRow
<1>6. PageOK'
    BY DEF IInv, OpenFailedJob, PageOK
<1>7. QED BY <1>1, <1>2, <1>3, <1>4, <1>5, <1>6 DEF IInv

\* The copy of the invoice is read without a lock.
LEMMA RequeueGetsInvoicePreserves ==
  ASSUME IInv, NEW o \in Operators, RequeueGetsInvoice(o)
  PROVE  IInv'
<1>1. TypeOK'
    BY DEF RequeueGetsInvoice, IInv, TypeOK, SessionOK, Actors, RequestStep
<1>2. SessionOK'
    BY DEF IInv, RequeueGetsInvoice, SessionOK
<1>3. ExistenceOK'
    BY DEF IInv, RequeueGetsInvoice, ExistenceOK, Known
<1>4. LockDiscipline'
    BY DEF IInv, RequeueGetsInvoice, LockDiscipline, HoldsLock
<1>5. ReviewerHoldsCurrentRow'
    BY DEF IInv, RequeueGetsInvoice, ReviewerHoldsCurrentRow
<1>6. PageOK'
    BY DEF IInv, RequeueGetsInvoice, PageOK
<1>7. QED BY <1>1, <1>2, <1>3, <1>4, <1>5, <1>6 DEF IInv

\* The reset waits for the row.
LEMMA CommitRequeuePreserves ==
  ASSUME IInv, NEW o \in Operators, CommitRequeue(o)
  PROVE  IInv'
<1>1. TypeOK'
    BY DEF CommitRequeue, IInv, TypeOK, Actors, RequestStep, JobRow, CommittedJobStatus,
           CommittedInvoiceStatus, InvoiceStatus, Outdated
<1>2. SessionOK'
    BY DEF IInv, CommitRequeue, SessionOK
<1>3. ExistenceOK'
    BY DEF IInv, CommitRequeue, TypeOK, ExistenceOK, Known
<1>4. LockDiscipline'
    BY DEF IInv, CommitRequeue, LockDiscipline, HoldsLock
<1>5. ReviewerHoldsCurrentRow'
  <2>1. on[o] \in Invoices /\ lock[on[o]] = NoOne
    BY DEF IInv, SessionOK, CommitRequeue, Actors, InvoiceRowFree
  <2>2. QED BY <2>1, StatusWriteKeepsDecisions DEF IInv, CommitRequeue, Actors
<1>6. PageOK'
    BY DEF IInv, CommitRequeue, PageOK, Outdated
<1>7. QED BY <1>1, <1>2, <1>3, <1>4, <1>5, <1>6 DEF IInv

\* The requeued id is that of a committed job.
LEMMA EnqueueRequeuePreserves ==
  ASSUME IInv, NEW o \in Operators, EnqueueRequeue(o)
  PROVE  IInv'
<1>1. TypeOK'
  <2>1. on[o] \in Invoices /\ queue' = Append(queue, on[o])
    BY DEF IInv, SessionOK, EnqueueRequeue, Actors
  <2>2. queue' \in Seq(Invoices)
    BY <2>1, AppendedId DEF IInv, TypeOK
  <2>3. QED BY <2>2 DEF IInv, TypeOK, EnqueueRequeue, RequestStep, Choice, JobRow,
         NoJob, CommittedJobStatus, CommittedInvoiceStatus, Actors
<1>2. SessionOK'
    BY DEF IInv, EnqueueRequeue, TypeOK, SessionOK
<1>3. ExistenceOK'
  <2>1. on[o] \in Invoices /\ queue' = Append(queue, on[o]) /\ Known(on[o])
    BY DEF IInv, SessionOK, ExistenceOK, EnqueueRequeue, Actors
  <2>2. \A k \in 1..Len(queue') : Known(queue'[k])
    BY <2>1, AppendedId DEF IInv, TypeOK, ExistenceOK
  <2>3. QED BY <2>2 DEF IInv, ExistenceOK, Known, EnqueueRequeue
<1>4. LockDiscipline'
    BY DEF IInv, EnqueueRequeue, LockDiscipline, HoldsLock
<1>5. ReviewerHoldsCurrentRow'
    BY DEF IInv, EnqueueRequeue, ReviewerHoldsCurrentRow
<1>6. PageOK'
    BY DEF IInv, EnqueueRequeue, PageOK
<1>7. QED BY <1>1, <1>2, <1>3, <1>4, <1>5, <1>6 DEF IInv

\* Each action of a reprocess request preserves the invariant.
LEMMA OperatorNextPreserves ==
  ASSUME IInv, NEW o \in Operators, OperatorNext(o)
  PROVE  IInv'
<1>1. ASSUME NEW i \in Invoices, OpenFailedJob(o, i)
      PROVE  IInv'
    BY <1>1, OpenFailedJobPreserves
<1>2. CASE RequeueGetsInvoice(o)
    BY <1>2, RequeueGetsInvoicePreserves
<1>3. CASE RequeueRaises(o)
  <2>1. TypeOK'
    BY <1>3 DEF RequeueRaises, IInv, TypeOK, Actors, WorkerStep, RequestStep, JobRow, NoJob, Choice,
       CommittedJobStatus, CommittedInvoiceStatus
  <2>2. SessionOK'
    BY <1>3 DEF RequeueRaises, IInv, TypeOK, SessionOK, Actors
  <2>3. ExistenceOK'
    BY <1>3 DEF RequeueRaises, IInv, TypeOK, SessionOK, ExistenceOK, Known, Actors
  <2>4. LockDiscipline'
    BY <1>3 DEF RequeueRaises, IInv, TypeOK, SessionOK, LockDiscipline, HoldsLock, Actors
  <2>5. ReviewerHoldsCurrentRow'
    BY <1>3 DEF RequeueRaises, IInv, TypeOK, ReviewerHoldsCurrentRow, Actors, CanTransition
  <2>6. PageOK'
    BY <1>3 DEF RequeueRaises, IInv, TypeOK, PageOK, Actors
  <2>7. QED BY <2>1, <2>2, <2>3, <2>4, <2>5, <2>6 DEF IInv
<1>4. CASE CommitRequeue(o)
    BY <1>4, CommitRequeuePreserves
<1>5. CASE EnqueueRequeue(o)
    BY <1>5, EnqueueRequeuePreserves
<1>6. QED BY <1>1, <1>2, <1>3, <1>4, <1>5 DEF OperatorNext

-----------------------------------------------------------------------------
\* The reviewer that passes the checks has the row locked and its status read.
LEMMA SubmitReviewPreserves ==
  ASSUME IInv, NEW r \in Reviewers,
         NEW decision \in ReviewDecision, SubmitReview(r, decision)
  PROVE  IInv'
<1>1. TypeOK'
    BY DEF SubmitReview, IInv, TypeOK, SessionOK, Actors, RequestStep, Choice,
           ReviewDecision, InvoiceStatus
<1>2. SessionOK'
    BY DEF IInv, SubmitReview, TypeOK, SessionOK, InvoiceStatus, ReviewDecision
<1>3. ExistenceOK'
    BY DEF IInv, SubmitReview, ExistenceOK, Known
<1>4. LockDiscipline'
    BY DEF IInv, SubmitReview, TypeOK, LockDiscipline, HoldsLock, InvoiceRowFree
<1>5. ReviewerHoldsCurrentRow'
    BY DEF IInv, SubmitReview, TypeOK, ReviewerHoldsCurrentRow, PassesChecks
<1>6. PageOK'
    BY DEF IInv, SubmitReview, PageOK
<1>7. QED BY <1>1, <1>2, <1>3, <1>4, <1>5, <1>6 DEF IInv

\* The decision commits on the reviewer's own row and outdates the other pages.
LEMMA RecordDecisionPreserves ==
  ASSUME IInv, NEW r \in Reviewers, RecordDecision(r)
  PROVE  IInv'
<1>1. TypeOK'
    BY DEF RecordDecision, IInv, TypeOK, Actors, SessionOK, RequestStep, JobRow, NoJob,
           CommittedJobStatus, CommittedInvoiceStatus, Choice, Shown, NothingShown,
           Outdated
<1>2. SessionOK'
    BY DEF IInv, RecordDecision, TypeOK, SessionOK
<1>3. ExistenceOK'
    BY DEF IInv, RecordDecision, SessionOK, ExistenceOK, Actors, Known, InvoiceStatus
<1>4. LockDiscipline'
    BY DEF IInv, RecordDecision, TypeOK, LockDiscipline, HoldsLock, Actors
<1>5. ReviewerHoldsCurrentRow'
  <2>1. on[r] \in Invoices /\ lock[on[r]] = r
    BY DEF IInv, SessionOK, LockDiscipline, HoldsLock, RecordDecision, Actors
  <2>2. SUFFICES ASSUME NEW s \in Reviewers, pc'[s] = "deciding"
                 PROVE  /\ invoice'[on'[s]] = invoiceCopy'[s]
                        /\ CanTransition(invoice'[on'[s]], choice'[s])
                        /\ token'[s] # "stale"
    BY DEF ReviewerHoldsCurrentRow, CanTransition
  <2>3. /\ s # r /\ pc[s] = "deciding"
        /\ on'[s] = on[s] /\ invoiceCopy'[s] = invoiceCopy[s] /\ choice'[s] = choice[s]
    BY <2>2 DEF RecordDecision, IInv, TypeOK, Actors
  <2>4. on[s] \in Invoices /\ on[s] # on[r]
    BY <2>1, <2>3 DEF IInv, SessionOK, LockDiscipline, HoldsLock, Actors
  <2>5. invoice'[on[s]] = invoice[on[s]] /\ token'[s] = token[s]
    BY <2>3, <2>4 DEF IInv, RecordDecision, Outdated
  <2>6. QED BY <2>3, <2>5 DEF IInv, ReviewerHoldsCurrentRow
<1>6. PageOK'
    BY DEF IInv, RecordDecision, PageOK, Outdated
<1>7. QED BY <1>1, <1>2, <1>3, <1>4, <1>5, <1>6 DEF IInv

\* The rollback gives the row back.
LEMMA ReviewFailsPreserves ==
  ASSUME IInv, NEW r \in Reviewers, ReviewFails(r)
  PROVE  IInv'
<1>1. TypeOK'
    BY DEF ReviewFails, IInv, TypeOK, Actors, RequestStep, JobRow, NoJob,
           CommittedJobStatus, CommittedInvoiceStatus, Choice, Shown, NothingShown
<1>2. SessionOK'
    BY DEF IInv, ReviewFails, TypeOK, SessionOK
<1>3. ExistenceOK'
    BY DEF IInv, ReviewFails, ExistenceOK, Known
<1>4. LockDiscipline'
    BY DEF IInv, ReviewFails, TypeOK, LockDiscipline, HoldsLock, Actors
<1>5. ReviewerHoldsCurrentRow'
    BY DEF IInv, ReviewFails, TypeOK, ReviewerHoldsCurrentRow
<1>6. PageOK'
    BY DEF IInv, ReviewFails, TypeOK, PageOK
<1>7. QED BY <1>1, <1>2, <1>3, <1>4, <1>5, <1>6 DEF IInv

\* Each action of a reviewer preserves the invariant.
LEMMA ReviewerNextPreserves ==
  ASSUME IInv, NEW r \in Reviewers, ReviewerNext(r)
  PROVE  IInv'
<1>1. ASSUME NEW i \in Invoices, NEW sent \in { "none", "current" }, OpenInvoice(r, i, sent)
      PROVE  IInv'
    BY <1>1 DEF OpenInvoice, IInv, TypeOK, SessionOK, ExistenceOK, LockDiscipline,
           HoldsLock, ReviewerHoldsCurrentRow, PageOK, Known, Actors, RequestStep, Shown
<1>2. CASE LeaveReview(r)
    BY <1>2 DEF LeaveReview, IInv, TypeOK, SessionOK, ExistenceOK, LockDiscipline,
           HoldsLock, ReviewerHoldsCurrentRow, PageOK, Known, Actors,
           CommittedJobStatus, CommittedInvoiceStatus, WorkerStep, JobRow, Choice,
           Shown, NoJob, NothingShown
<1>3. ASSUME NEW decision \in ReviewDecision, SubmitReview(r, decision)
      PROVE  IInv'
    BY <1>3, SubmitReviewPreserves
<1>4. CASE RecordDecision(r)
    BY <1>4, RecordDecisionPreserves
<1>5. CASE ReviewFails(r)
    BY <1>5, ReviewFailsPreserves
<1>6. QED BY <1>1, <1>2, <1>3, <1>4, <1>5 DEF ReviewerNext

-----------------------------------------------------------------------------
\* An override waits for the row.
LEMMA CommitOverridePreserves ==
  ASSUME IInv, NEW a \in Admins, CommitOverride(a)
  PROVE  IInv'
<1>1. TypeOK'
    BY DEF CommitOverride, IInv, TypeOK, Actors, SessionOK, RequestStep, JobRow, NoJob,
           CommittedJobStatus, CommittedInvoiceStatus, Choice, Outdated
<1>2. SessionOK'
    BY DEF IInv, CommitOverride, TypeOK, SessionOK
<1>3. ExistenceOK'
    BY DEF IInv, CommitOverride, SessionOK, ExistenceOK, Actors, Known, InvoiceStatus
<1>4. LockDiscipline'
    BY DEF IInv, CommitOverride, LockDiscipline, HoldsLock
<1>5. ReviewerHoldsCurrentRow'
  <2>1. on[a] \in Invoices /\ lock[on[a]] = NoOne
    BY DEF IInv, SessionOK, CommitOverride, Actors, InvoiceRowFree
  <2>2. QED BY <2>1, StatusWriteKeepsDecisions DEF IInv, CommitOverride, Actors
<1>6. PageOK'
    BY DEF IInv, CommitOverride, PageOK, Outdated
<1>7. QED BY <1>1, <1>2, <1>3, <1>4, <1>5, <1>6 DEF IInv

\* Each action of a admin override preserves the invariant.
LEMMA AdminNextPreserves ==
  ASSUME IInv, NEW a \in Admins, AdminNext(a)
  PROVE  IInv'
<1>1. ASSUME NEW i \in Invoices, NEW requested \in InvoiceStatus, ReadForOverride(a, i, requested)
      PROVE  IInv'
    BY <1>1 DEF ReadForOverride, IInv, TypeOK, SessionOK, ExistenceOK, LockDiscipline,
           HoldsLock, ReviewerHoldsCurrentRow, PageOK, Known, Actors, RequestStep,
           Choice
<1>2. CASE CommitOverride(a)
    BY <1>2, CommitOverridePreserves
<1>3. QED BY <1>1, <1>2 DEF AdminNext

-----------------------------------------------------------------------------
\* A lost connection after the commit changes the session only.
LEMMA ReloadFailsPreserves ==
  ASSUME IInv, NEW w \in Workers, ReloadFails(w)
  PROVE  IInv'
<1>1. TypeOK'
    BY DEF IInv, ReloadFails, TypeOK, Actors, WorkerStep, Choice
<1>2. SessionOK'
    BY DEF IInv, ReloadFails, SessionOK
<1>3. ExistenceOK'
    BY DEF IInv, ReloadFails, ExistenceOK, Known
<1>4. LockDiscipline'
    BY DEF IInv, ReloadFails, LockDiscipline, HoldsLock
<1>5. ReviewerHoldsCurrentRow'
    BY DEF IInv, ReloadFails, ReviewerHoldsCurrentRow
<1>6. PageOK'
    BY DEF IInv, ReloadFails, PageOK
<1>7. QED BY <1>1, <1>2, <1>3, <1>4, <1>5, <1>6 DEF IInv

\* Each action of a crash or a lost connection preserves the invariant.
LEMMA FaultNextPreserves ==
  ASSUME IInv, FaultNext
  PROVE  IInv'
<1>1. ASSUME NEW w \in Workers, WorkerCrashes(w)
      PROVE  IInv'
    BY <1>1 DEF WorkerCrashes, IInv, TypeOK, SessionOK, ExistenceOK, LockDiscipline,
           HoldsLock, ReviewerHoldsCurrentRow, PageOK, Known, Actors,
           CommittedJobStatus, CommittedInvoiceStatus, WorkerStep, JobRow, Choice, NoJob
<1>2. ASSUME NEW w \in Workers, ReloadFails(w)
      PROVE  IInv'
    BY <1>2, ReloadFailsPreserves
<1>3. ASSUME NEW i \in Invoices, UploadPushFails(i)
      PROVE  IInv'
    BY <1>3 DEF UploadPushFails, IInv, TypeOK, SessionOK, ExistenceOK, LockDiscipline,
           HoldsLock, ReviewerHoldsCurrentRow, PageOK, Known
<1>4. ASSUME NEW o \in Operators, RequeuePushFails(o)
      PROVE  IInv'
    BY <1>4 DEF RequeuePushFails, IInv, TypeOK, SessionOK, ExistenceOK, LockDiscipline,
           HoldsLock, ReviewerHoldsCurrentRow, PageOK, Known, Actors,
           CommittedJobStatus, CommittedInvoiceStatus, WorkerStep, JobRow, Choice, NoJob
<1>5. QED BY <1>1, <1>2, <1>3, <1>4 DEF FaultNext

-----------------------------------------------------------------------------
(* The invariant *)

\* The invariant is inductive.
LEMMA NextPreservesIInv == IInv /\ [Next]_vars => IInv'
<1> SUFFICES ASSUME IInv, [Next]_vars PROVE IInv'
    OBVIOUS
<1>1. ASSUME NEW i \in Invoices, UploadNext(i) PROVE IInv'
    BY <1>1, UploadNextPreserves
<1>2. ASSUME NEW w \in Workers, WorkerNext(w) PROVE IInv'
    BY <1>2, PollingPreserves, ProcessingPreserves, FailurePreserves DEF WorkerNext
<1>3. ASSUME NEW o \in Operators, OperatorNext(o) PROVE IInv'
    BY <1>3, OperatorNextPreserves
<1>4. ASSUME NEW r \in Reviewers, ReviewerNext(r) PROVE IInv'
    BY <1>4, ReviewerNextPreserves
<1>5. ASSUME NEW a \in Admins, AdminNext(a) PROVE IInv'
    BY <1>5, AdminNextPreserves
<1>6. CASE FaultNext
    BY <1>6, FaultNextPreserves
<1>7. CASE UNCHANGED vars
    BY <1>7 DEF vars, IInv, TypeOK, SessionOK, ExistenceOK, Known, LockDiscipline,
           HoldsLock, ReviewerHoldsCurrentRow, PageOK
<1>8. QED BY <1>1, <1>2, <1>3, <1>4, <1>5, <1>6, <1>7 DEF Next

\* IInv holds in every reachable state.
THEOREM Invariance == Spec => []IInv
BY InitEstablishesIInv, NextPreservesIInv, PTL DEF Spec

-----------------------------------------------------------------------------
(* The properties *)

\* Every variable has its type; in particular no committed job row is ever
\* "processing" (processing_jobs.py:154-156, 219-222).
THEOREM TypeCorrect == Spec => []TypeOK
<1>1. IInv => TypeOK
    BY DEF IInv
<1>2. QED BY <1>1, Invariance, PTL

\* A row lock is held exactly by the session between its locking statement and
\* its commit, rollback or death: no path leaks a lock.
THEOREM LocksAreReturned == Spec => []LockDiscipline
<1>1. IInv => LockDiscipline
    BY DEF IInv
<1>2. QED BY <1>1, Invariance, PTL

\* A reviewer who is about to commit decides on the committed row, by a legal
\* transition, and its page has not been overtaken: neither workers still
\* holding older copies, nor other reviewers, operators or admins can slip a
\* write in between (invoice_review.py:112-133).
THEOREM ReviewsAreSerialized == Spec => []ReviewerHoldsCurrentRow
<1>1. IInv => ReviewerHoldsCurrentRow
    BY DEF IInv
<1>2. QED BY <1>1, Invariance, PTL

\* A decision sent with the page's updated_at is taken on the status the page
\* shows, however long the page was open.
THEOREM DecisionsMatchPages == Spec => []DecisionMatchesPage
<1>1. IInv => DecisionMatchesPage
  <2>1. SUFFICES ASSUME IInv, NEW r \in Reviewers, pc[r] = "deciding", token[r] # "none"
                 PROVE  invoice[on[r]] = shown[r].status
    BY DEF DecisionMatchesPage
  <2>2. token[r] = "current"
    BY <2>1 DEF IInv, TypeOK, ReviewerHoldsCurrentRow
  <2>3. QED BY <2>1, <2>2 DEF IInv, PageOK
<1>2. QED BY <1>1, Invariance, PTL

\* Every job id in Redis, and every id held by an upload, an operator or a
\* worker, names a committed job (invoice_intake.py:299-302).
THEOREM QueueNamesCommittedJobs == Spec => []DeliveredJobsExist
<1>1. IInv => DeliveredJobsExist
  <2>1. SUFFICES ASSUME IInv, NEW i \in Invoices, NEW d \in Deliveries(i)
                 PROVE  job[i].status # "absent"
    BY DEF DeliveredJobsExist
  <2>2. \/ \E k \in 1..Len(queue) : queue[k] = i
        \/ i \in delayed \cup uploading
        \/ \E a \in Actors : InHand(a, i)
    BY <2>1 DEF Deliveries
  <2>3. QED BY <2>1, <2>2 DEF IInv, ExistenceOK, Known, InHand
<1>2. QED BY <1>1, Invariance, PTL

-----------------------------------------------------------------------------
(* Exactly-once delivery.  Where no two operators act at the same time and   *)
(* nothing fails, every queued job's id is in one place, every job is        *)
(* completed by one extraction, and the pipeline implements JobLifecycle.    *)


OneOperator == \A o, p \in Operators : o = p
NoFaults == MaxFaults = 0

\* Where the id of a job may be: on the list, in the retry set, with the upload
\* that has yet to push it, or in the hand of one actor.
Queued(i) == \E k \in 1..Len(queue) : queue[k] = i
Held(i) == Queued(i) \/ i \in delayed \/ i \in uploading \/ \E a \in Actors : InHand(a, i)

\* It is in one place at a time.
Distinct == \A k, l \in 1..Len(queue) : queue[k] = queue[l] => k = l

Exclusive ==
    /\ \A i \in Invoices : Queued(i) => i \notin delayed /\ i \notin uploading
    /\ \A i \in Invoices : i \in delayed => i \notin uploading
    /\ \A a \in Actors, i \in Invoices :
          InHand(a, i) => ~Queued(i) /\ i \notin delayed /\ i \notin uploading
    /\ \A a, b \in Actors, i \in Invoices : InHand(a, i) /\ InHand(b, i) => a = b

\* What job, audit log and extractions say of each other, and of the places.
RowOK(i) ==
    /\ job[i].status = "queued" <=> Held(i)
    /\ job[i].status = "queued" => job[i].attempts < MaxAttempts + requeues[i]
    /\ job[i].attempts <= MaxAttempts + requeues[i]
    /\ jobTrail[i] = job[i].status
    /\ extractions[i] = IF job[i].status = "completed" THEN 1 ELSE 0

\* A worker's copy of the job row is the row; an operator works on a failed
\* job, and its request allows one more attempt.
Copied == { "gotJob", "starting", "extracting", "failingJob", "recording" }

OwnOK(a) ==
    /\ a \in Workers /\ pc[a] \in Copied => jobCopy[a] = job[on[a]]
    /\ a \in Operators /\ pc[a] \in { "gotJob", "requeuing" } =>
           job[on[a]].status = "failed" /\ job[on[a]].attempts < MaxAttempts + requeues[on[a]]

DInv ==
    /\ Distinct
    /\ Exclusive
    /\ \A i \in Invoices : RowOK(i)
    /\ \A a \in Actors : OwnOK(a)

LEMMA InitDelivers == Init => DInv
<1> SUFFICES ASSUME Init PROVE DInv
  OBVIOUS
<1>1. \A i \in Invoices : ~Held(i)
  BY DEF Init, Held, Queued, InHand
<1>2. Distinct /\ Exclusive
  BY DEF Init, Distinct, Exclusive, Queued, InHand
<1>3. \A i \in Invoices : RowOK(i)
  BY <1>1 DEF Init, RowOK, NoJob
<1>4. \A a \in Actors : OwnOK(a)
  BY DEF Init, OwnOK, Copied
<1> QED BY <1>2, <1>3, <1>4 DEF DInv

-----------------------------------------------------------------------------
(* What a step leaves alone *)

Others(a) == \A b \in Actors \ {a} : pc'[b] = pc[b] /\ on'[b] = on[b] /\ jobCopy'[b] = jobCopy[b]

\* A job changes under the one that holds it, or is a failed one an operator
\* resets; so no one else's copy of it goes stale.
Owned(a) == \A i \in Invoices :
    \/ job'[i] = job[i] /\ requeues'[i] = requeues[i]
    \/ InHand(a, i)
    \/ a \in Operators /\ job[i].status = "failed"

LEMMA OthersStand ==
  ASSUME IInv, DInv, OneOperator, NEW a \in Actors, Others(a), Owned(a)
  PROVE  \A b \in Actors \ {a} : OwnOK(b)' /\ \A i \in Invoices : InHand(b, i)' <=> InHand(b, i)
<1> SUFFICES ASSUME NEW b \in Actors \ {a}
             PROVE  OwnOK(b)' /\ \A i \in Invoices : InHand(b, i)' <=> InHand(b, i)
  OBVIOUS
<1>1. pc'[b] = pc[b] /\ on'[b] = on[b] /\ jobCopy'[b] = jobCopy[b]
  BY DEF Others
<1>2. \A i \in Invoices : InHand(b, i)' <=> InHand(b, i)
  BY <1>1 DEF InHand
<1>3. ASSUME b \in Workers, pc[b] \in Copied PROVE jobCopy'[b] = job'[on'[b]]
  <2>1. on[b] \in Invoices /\ InHand(b, on[b])
    BY <1>3 DEF IInv, SessionOK, Copied, InHand
  <2>2. ~InHand(a, on[b]) /\ job[on[b]].status = "queued"
    BY <2>1 DEF DInv, Exclusive, RowOK, Held
  <2>3. job'[on[b]] = job[on[b]]
    BY <2>1, <2>2 DEF Owned
  <2> QED BY <1>1, <1>3, <2>3 DEF DInv, OwnOK
<1>4. ASSUME b \in Operators, pc[b] \in { "gotJob", "requeuing" }
      PROVE  job'[on'[b]].status = "failed" /\ job'[on'[b]].attempts < MaxAttempts + requeues'[on'[b]]
  <2>1. on[b] \in Invoices /\ job[on[b]].status = "failed"
        /\ job[on[b]].attempts < MaxAttempts + requeues[on[b]]
    BY <1>4 DEF IInv, SessionOK, DInv, OwnOK
  <2>2. ~InHand(a, on[b]) /\ a \notin Operators
    BY <1>4, <2>1 DEF DInv, RowOK, Held, OneOperator
  <2> QED BY <1>1, <2>1, <2>2 DEF Owned
<1> QED BY <1>1, <1>2, <1>3, <1>4 DEF OwnOK

\* A step that moves nothing and writes no job.
LEMMA QuietStep ==
  ASSUME IInv, DInv, OneOperator, NEW a \in Actors, Others(a), OwnOK(a)',
         UNCHANGED <<job, jobTrail, extractions, queue, delayed, uploading, requeues>>,
         \A i \in Invoices : InHand(a, i)' <=> InHand(a, i)
  PROVE  DInv'
<1>1. \A b \in Actors : OwnOK(b)' /\ \A i \in Invoices : InHand(b, i)' <=> InHand(b, i)
  BY OthersStand DEF Owned
<1>2. Distinct' /\ \A i \in Invoices : Queued(i)' <=> Queued(i)
  BY DEF DInv, Distinct, Queued
<1>3. Exclusive'
  BY <1>1, <1>2 DEF DInv, Exclusive
<1>4. \A i \in Invoices : RowOK(i)'
  BY <1>1, <1>2 DEF DInv, RowOK, Held
<1> QED BY <1>1, <1>2, <1>3, <1>4 DEF DInv

\* A step that moves an id from one place to another.
LEMMA MoveStep ==
  ASSUME IInv, DInv, OneOperator, NEW a \in Actors, Others(a), OwnOK(a)',
         UNCHANGED <<job, jobTrail, extractions, requeues>>,
         Distinct', Exclusive', \A i \in Invoices : Held(i)' <=> Held(i)
  PROVE  DInv'
<1>1. \A b \in Actors : OwnOK(b)'
  BY OthersStand DEF Owned
<1>2. \A i \in Invoices : RowOK(i)'
  BY DEF DInv, RowOK
<1> QED BY <1>1, <1>2 DEF DInv

\* A push at the tail and a pop at the head of the list.
LEMMA Pushed ==
  ASSUME IInv, Distinct, NEW i \in Invoices, ~Queued(i), queue' = Append(queue, i)
  PROVE  Distinct' /\ \A j \in Invoices : Queued(j)' <=> Queued(j) \/ j = i
<1>1. queue \in Seq(Invoices) /\ Len(queue') = Len(queue) + 1
      /\ queue'[Len(queue) + 1] = i /\ \A k \in 1..Len(queue) : queue'[k] = queue[k]
  BY DEF IInv, TypeOK
<1>2. Len(queue) \in Nat
  BY <1>1
<1>3. Distinct'
  <2>1. SUFFICES ASSUME NEW k \in 1..Len(queue'), NEW l \in 1..Len(queue'), queue'[k] = queue'[l]
                 PROVE  k = l
    BY DEF Distinct
  <2> QED BY <1>1, <1>2, <2>1 DEF Distinct, Queued
<1>4. ASSUME NEW j \in Invoices PROVE Queued(j)' <=> Queued(j) \/ j = i
  <2>1. ASSUME Queued(j)' PROVE Queued(j) \/ j = i
    BY <1>1, <1>2, <2>1 DEF Queued
  <2>2. ASSUME Queued(j) PROVE Queued(j)'
    BY <1>1, <1>2, <2>2 DEF Queued
  <2>3. ASSUME j = i PROVE Queued(j)'
    BY <1>1, <1>2, <2>3 DEF Queued
  <2> QED BY <2>1, <2>2, <2>3
<1> QED BY <1>3, <1>4

LEMMA Popped ==
  ASSUME IInv, Distinct, queue # << >>, queue' = Tail(queue)
  PROVE  /\ Head(queue) \in Invoices /\ Queued(Head(queue))
         /\ Distinct' /\ \A j \in Invoices : Queued(j)' <=> Queued(j) /\ j # Head(queue)
<1>1. /\ queue \in Seq(Invoices) /\ Len(queue) \in Nat \ {0} /\ Len(queue') = Len(queue) - 1
      /\ Head(queue) = queue[1] /\ \A k \in 1..Len(queue) - 1 : queue'[k] = queue[k + 1]
  BY DEF IInv, TypeOK
<1>2. Head(queue) \in Invoices /\ Queued(Head(queue))
  BY <1>1 DEF Queued
<1>3. Distinct'
  <2>1. SUFFICES ASSUME NEW k \in 1..Len(queue'), NEW l \in 1..Len(queue'), queue'[k] = queue'[l]
                 PROVE  k = l
    BY DEF Distinct
  <2>2. queue[k + 1] = queue[l + 1] /\ k + 1 \in 1..Len(queue) /\ l + 1 \in 1..Len(queue)
    BY <1>1, <2>1
  <2> QED BY <2>2 DEF Distinct
<1>4. ASSUME NEW j \in Invoices PROVE Queued(j)' <=> Queued(j) /\ j # Head(queue)
  <2>1. ASSUME Queued(j)' PROVE Queued(j) /\ j # Head(queue)
    <3>1. PICK k \in 1..Len(queue') : queue'[k] = j
      BY <2>1 DEF Queued
    <3>2. k + 1 \in 1..Len(queue) /\ queue[k + 1] = j /\ k + 1 # 1 /\ 1 \in 1..Len(queue)
      BY <1>1, <3>1
    <3> QED BY <1>1, <3>2 DEF Queued, Distinct
  <2>2. ASSUME Queued(j), j # Head(queue) PROVE Queued(j)'
    <3>1. PICK k \in 1..Len(queue) : queue[k] = j
      BY <2>2 DEF Queued
    <3>2. k - 1 \in 1..Len(queue') /\ queue'[k - 1] = queue[(k - 1) + 1] /\ (k - 1) + 1 = k
      BY <1>1, <2>2, <3>1
    <3> QED BY <3>1, <3>2 DEF Queued
  <2> QED BY <2>1, <2>2
<1> QED BY <1>2, <1>3, <1>4

\* An actor pushes the id it holds and lets go of it.
LEMMA HandToQueue ==
  ASSUME IInv, DInv, OneOperator, NEW a \in Actors, on[a] \in Invoices, InHand(a, on[a]), Others(a),
         OwnOK(a)', \A j \in Invoices : ~InHand(a, j)', queue' = Append(queue, on[a]),
         UNCHANGED <<job, jobTrail, extractions, delayed, uploading, requeues>>
  PROVE  DInv'
<1>1. ~Queued(on[a]) /\ \A j \in Invoices : InHand(a, j) <=> j = on[a]
  BY DEF DInv, Exclusive, InHand
<1>2. Distinct' /\ \A j \in Invoices : Queued(j)' <=> Queued(j) \/ j = on[a]
  BY <1>1, Pushed DEF DInv
<1>3. \A b \in Actors \ {a}, j \in Invoices : InHand(b, j)' <=> InHand(b, j)
  BY DEF Others, InHand
<1>4. Exclusive'
  BY <1>1, <1>2, <1>3 DEF DInv, Exclusive
<1>5. \A j \in Invoices : Held(j)' <=> Held(j)
  BY <1>1, <1>2, <1>3 DEF Held
<1> QED BY <1>2, <1>4, <1>5, MoveStep

-----------------------------------------------------------------------------
(* Uploads *)

LEMMA UploadDelivers ==
  ASSUME IInv, DInv, NEW i \in Invoices, UploadNext(i)
  PROVE  DInv'
<1>0. UNCHANGED <<pc, on, jobCopy, requeues, extractions, delayed>>
      /\ \A a \in Actors, j \in Invoices : InHand(a, j)' <=> InHand(a, j)
  BY DEF UploadNext, Upload, EnqueueUpload, InHand
<1>1. CASE Upload(i)
  <2>1. ~Held(i) /\ job[i].status = "absent" /\ queue' = queue /\ uploading' = uploading \union {i}
        /\ job'[i] = [status |-> "queued", attempts |-> 0] /\ jobTrail'[i] = "queued"
        /\ \A j \in Invoices \ {i} : job'[j] = job[j] /\ jobTrail'[j] = jobTrail[j]
    BY <1>1 DEF Upload, DInv, RowOK, IInv, TypeOK
  <2>2. Distinct' /\ \A j \in Invoices : Queued(j)' <=> Queued(j)
    BY <2>1 DEF DInv, Distinct, Queued
  <2>3. Exclusive'
    BY <1>0, <2>1, <2>2 DEF DInv, Exclusive, Held
  <2>4. \A j \in Invoices : Held(j)' <=> Held(j) \/ j = i
    BY <1>0, <2>1, <2>2 DEF Held
  <2>5. RowOK(i)'
    BY <1>0, <2>1, <2>4 DEF DInv, RowOK, IInv, TypeOK
  <2>6. \A j \in Invoices \ {i} : RowOK(j)'
    BY <1>0, <2>1, <2>4 DEF DInv, RowOK
  <2>7. ASSUME NEW a \in Actors PROVE OwnOK(a)'
    <3>1. a \in Workers /\ pc[a] \in Copied => on[a] \in Invoices /\ on[a] # i
      BY <2>1 DEF IInv, SessionOK, Copied, InHand, Held
    <3>2. a \in Operators /\ pc[a] \in { "gotJob", "requeuing" } => on[a] \in Invoices /\ on[a] # i
      BY <2>1 DEF IInv, SessionOK, DInv, OwnOK
    <3> QED BY <1>0, <2>1, <3>1, <3>2 DEF DInv, OwnOK
  <2> QED BY <2>2, <2>3, <2>5, <2>6, <2>7 DEF DInv
<1>2. CASE EnqueueUpload(i)
  <2>1. i \in uploading /\ uploading' = uploading \ {i} /\ queue' = Append(queue, i)
        /\ UNCHANGED <<job, jobTrail>> /\ ~Queued(i)
    BY <1>2 DEF EnqueueUpload, DInv, Exclusive
  <2>2. Distinct' /\ \A j \in Invoices : Queued(j)' <=> Queued(j) \/ j = i
    BY <2>1, Pushed DEF DInv
  <2>3. Exclusive'
    BY <1>0, <2>1, <2>2 DEF DInv, Exclusive
  <2>4. \A j \in Invoices : Held(j)' <=> Held(j)
    BY <1>0, <2>1, <2>2 DEF Held
  <2>5. \A j \in Invoices : RowOK(j)'
    BY <1>0, <2>1, <2>4 DEF DInv, RowOK
  <2>6. \A a \in Actors : OwnOK(a)'
    BY <1>0, <2>1 DEF DInv, OwnOK
  <2> QED BY <2>2, <2>3, <2>5, <2>6 DEF DInv
<1> QED BY <1>1, <1>2 DEF UploadNext

-----------------------------------------------------------------------------
(* Workers *)

LEMMA WorkersAreActors ==
  ASSUME NEW w \in Workers PROVE w \in Actors /\ w \notin Operators
BY DEF Actors

LEMMA PollingDelivers ==
  ASSUME IInv, DInv, OneOperator, NEW w \in Workers, Polling(w)
  PROVE  DInv'
<1>0. w \in Actors /\ w \notin Operators
  BY WorkersAreActors
<1>1. CASE \E ready \in SUBSET delayed : ScanDue(w, ready)
  <2>1. Others(w) /\ pc[w] = "idle" /\ pc'[w] = "promoting"
        /\ UNCHANGED <<job, jobTrail, extractions, queue, delayed, uploading, requeues>>
    BY <1>0, <1>1 DEF ScanDue, Others, IInv, TypeOK
  <2>2. OwnOK(w)' /\ \A i \in Invoices : InHand(w, i)' <=> InHand(w, i)
    BY <1>0, <2>1 DEF OwnOK, Copied, InHand
  <2> QED BY <1>0, <2>1, <2>2, QuietStep
<1>2. ASSUME NEW i \in Invoices, RemoveDue(w, i) PROVE DInv'
  <2>0. pc[w] = "promoting" /\ UNCHANGED <<job, jobTrail, extractions, queue, uploading, requeues>>
    BY <1>2 DEF RemoveDue
  <2>1. CASE i \in delayed
    <3>1. Others(w) /\ pc'[w] = "pushing" /\ on'[w] = i /\ delayed' = delayed \ {i}
      BY <1>0, <1>2, <2>1 DEF RemoveDue, Others, IInv, TypeOK
    <3>2. OwnOK(w)' /\ (\A j \in Invoices : ~InHand(w, j) /\ (InHand(w, j)' <=> j = i))
          /\ (\A j \in Invoices : Queued(j)' <=> Queued(j))
      BY <1>0, <2>0, <3>1 DEF OwnOK, Copied, InHand, Queued
    <3>3. \A b \in Actors \ {w}, j \in Invoices : InHand(b, j)' <=> InHand(b, j)
      BY <3>1 DEF Others, InHand
    <3>4. Distinct' /\ Exclusive'
      BY <1>0, <2>0, <2>1, <3>1, <3>2, <3>3 DEF DInv, Distinct, Exclusive
    <3>5. \A j \in Invoices : Held(j)' <=> Held(j)
      BY <1>0, <2>0, <2>1, <3>1, <3>2, <3>3 DEF Held
    <3> QED BY <1>0, <2>0, <3>1, <3>2, <3>4, <3>5, MoveStep
  <2>2. CASE i \notin delayed
    <3>1. UNCHANGED <<delayed, pc, on, jobCopy>>
      BY <1>2, <2>2 DEF RemoveDue
    <3>2. Others(w) /\ OwnOK(w)' /\ \A j \in Invoices : InHand(w, j)' <=> InHand(w, j)
      BY <1>0, <2>0, <3>1 DEF Others, DInv, OwnOK, InHand
    <3> QED BY <1>0, <2>0, <3>1, <3>2, QuietStep
  <2> QED BY <2>1, <2>2
<1>3. CASE PushDue(w)
  <2>1. /\ pc[w] = "pushing" /\ Others(w) /\ pc'[w] = "promoting" /\ queue' = Append(queue, on[w])
        /\ UNCHANGED <<job, jobTrail, extractions, delayed, uploading, requeues>>
    BY <1>0, <1>3 DEF PushDue, Others, IInv, TypeOK
  <2>2. on[w] \in Invoices /\ InHand(w, on[w]) /\ OwnOK(w)' /\ \A j \in Invoices : ~InHand(w, j)'
    BY <1>0, <2>1 DEF IInv, SessionOK, InHand, OwnOK, Copied
  <2> QED BY <1>0, <2>1, <2>2, HandToQueue
<1>4. CASE Dequeue(w)
  <2>1. /\ pc[w] = "promoting" /\ queue # << >> /\ Others(w) /\ pc'[w] = "dequeued"
        /\ on'[w] = Head(queue) /\ queue' = Tail(queue)
        /\ UNCHANGED <<job, jobTrail, extractions, delayed, uploading, requeues>>
    BY <1>0, <1>4 DEF Dequeue, Others, IInv, TypeOK
  <2> DEFINE i == Head(queue)
  <2>2. /\ i \in Invoices /\ Queued(i) /\ Distinct'
        /\ \A j \in Invoices : Queued(j)' <=> Queued(j) /\ j # i
    BY <2>1, Popped DEF DInv
  <2>3. OwnOK(w)' /\ (\A j \in Invoices : ~InHand(w, j) /\ (InHand(w, j)' <=> j = i))
    BY <1>0, <2>1, <2>2 DEF OwnOK, Copied, InHand
  <2>4. \A b \in Actors \ {w}, j \in Invoices : InHand(b, j)' <=> InHand(b, j)
    BY <2>1 DEF Others, InHand
  <2> HIDE DEF i
  <2>5. Exclusive'
    BY <1>0, <2>1, <2>2, <2>3, <2>4 DEF DInv, Exclusive
  <2>6. \A j \in Invoices : Held(j)' <=> Held(j)
    BY <1>0, <2>1, <2>2, <2>3, <2>4 DEF Held
  <2> QED BY <1>0, <2>1, <2>2, <2>3, <2>5, <2>6, MoveStep
<1>5. CASE PollTimesOut(w)
  <2>1. Others(w) /\ pc[w] = "promoting" /\ pc'[w] = "idle"
        /\ UNCHANGED <<job, jobTrail, extractions, queue, delayed, uploading, requeues>>
    BY <1>0, <1>5 DEF PollTimesOut, Others, IInv, TypeOK
  <2>2. OwnOK(w)' /\ \A i \in Invoices : InHand(w, i)' <=> InHand(w, i)
    BY <1>0, <2>1 DEF OwnOK, Copied, InHand
  <2> QED BY <1>0, <2>1, <2>2, QuietStep
<1> QED BY <1>1, <1>2, <1>3, <1>4, <1>5 DEF Polling

\* The steps of the worker code that move no id and write no job row.
LEMMA ProcessingIsQuiet ==
  ASSUME IInv, DInv, OneOperator, NEW w \in Workers, Processing(w),
         ~\E verdict \in ExtractionVerdict, confidence \in { "confident", "unsure" } :
              CommitExtraction(w, verdict, confidence)
  PROVE  DInv'
<1>0. w \in Actors /\ w \notin Operators
  BY WorkersAreActors
<1>1. ASSUME UNCHANGED <<job, jobTrail, extractions, queue, delayed, uploading, requeues, on>>, Others(w),
             OwnOK(w)', (\A i \in Invoices : InHand(w, i)' <=> InHand(w, i))
      PROVE  DInv'
  BY <1>0, <1>1, QuietStep
<1>2. CASE GetJob(w)
  <2>1. /\ pc[w] = "dequeued" /\ pc'[w] = "gotJob" /\ on' = on /\ jobCopy'[w] = job[on[w]] /\ Others(w)
        /\ UNCHANGED <<job, jobTrail, extractions, queue, delayed, uploading, requeues>>
    BY <1>0, <1>2 DEF GetJob, Others, IInv, TypeOK
  <2> QED BY <1>0, <1>1, <2>1 DEF OwnOK, InHand
<1>3. CASE SkipIneligible(w)
  <2>1. pc[w] = "gotJob" /\ on[w] \in Invoices /\ InHand(w, on[w])
    BY <1>3 DEF SkipIneligible, IInv, SessionOK, Actors, InHand
  <2>2. jobCopy[w].status = "queued"
    BY <1>0, <2>1 DEF DInv, OwnOK, Copied, RowOK, Held
  <2> QED BY <1>3, <2>2 DEF SkipIneligible, ProcessableStatus
<1>4. CASE GetInvoice(w) \/ TransitionRaises(w) \/ BeginProcessing(w)
           \/ \E kind \in { "retryable", "permanent" } : ExtractionFails(w, kind)
  <2>1. /\ pc[w] \in { "gotJob", "starting", "extracting" }
        /\ pc'[w] \in { "starting", "failing", "extracting" }
        /\ UNCHANGED <<on, jobCopy>> /\ Others(w)
        /\ UNCHANGED <<job, jobTrail, extractions, queue, delayed, uploading, requeues>>
    BY <1>0, <1>4 DEF GetInvoice, TransitionRaises, BeginProcessing, ExtractionFails, Others, IInv, TypeOK
  <2> QED BY <1>0, <1>1, <2>1 DEF OwnOK, InHand, DInv, Copied
<1>5. CASE EmbedInvoice(w) \/ NoAnomaly(w) \/ FlagAnomalies(w) \/ DetectionFails(w)
           \/ ReloadInvoice(w) \/ AutoApprove(w) \/ SkipAutoApproval(w)
  <2>1. /\ pc[w] \in { "committed", "detecting", "reloading", "approving" }
        /\ pc'[w] \in { "detecting", "reloading", "approving", "publishing" }
        /\ UNCHANGED <<on, jobCopy>> /\ Others(w)
        /\ UNCHANGED <<job, jobTrail, extractions, queue, delayed, uploading, requeues>>
    BY <1>0, <1>5 DEF EmbedInvoice, NoAnomaly, FlagAnomalies, DetectionFails, ReloadInvoice, AutoApprove,
       SkipAutoApproval, Others, IInv, TypeOK
  <2> QED BY <1>0, <1>1, <2>1 DEF OwnOK, InHand, Copied
<1>6. CASE PublishCompletion(w)
  <2>1. /\ pc[w] = "publishing" /\ pc'[w] = "idle" /\ Others(w)
        /\ UNCHANGED <<job, jobTrail, extractions, queue, delayed, uploading, requeues>>
    BY <1>0, <1>6 DEF PublishCompletion, Others, IInv, TypeOK
  <2>2. OwnOK(w)' /\ \A i \in Invoices : InHand(w, i)' <=> InHand(w, i)
    BY <1>0, <2>1 DEF OwnOK, Copied, InHand
  <2> QED BY <1>0, <2>1, <2>2, QuietStep
<1> QED BY <1>2, <1>3, <1>4, <1>5, <1>6 DEF Processing

\* The commits that take the job out of its worker's hand, for good.
LEMMA SettleStep ==
  ASSUME IInv, DInv, OneOperator, NEW w \in Workers, NEW i \in Invoices, on[w] = i, InHand(w, i),
         Others(w), \A j \in Invoices : ~InHand(w, j)', pc'[w] \notin Copied,
         UNCHANGED <<queue, delayed, uploading, requeues>>,
         NEW s \in { "completed", "failed" },
         job' = [job EXCEPT ![i] = [status |-> s, attempts |-> job[i].attempts + 1]],
         jobTrail' = [jobTrail EXCEPT ![i] = s],
         extractions' = IF s = "failed" THEN extractions
                        ELSE [extractions EXCEPT ![i] = @ + 1]
  PROVE  DInv'
<1>0. w \in Actors /\ w \notin Operators
  BY WorkersAreActors
<1>1. \A j \in Invoices : InHand(w, j) <=> j = i
  BY DEF InHand
<1>2. \A j \in Invoices \ {i} : job'[j] = job[j] /\ jobTrail'[j] = jobTrail[j]
                                    /\ extractions'[j] = extractions[j]
  BY DEF IInv, TypeOK
<1>3. \A b \in Actors \ {w} : OwnOK(b)' /\ \A j \in Invoices : InHand(b, j)' <=> InHand(b, j)
  BY <1>0, <1>1, <1>2, OthersStand DEF Owned
<1>4. OwnOK(w)'
  BY <1>0 DEF OwnOK
<1>5. Distinct' /\ \A j \in Invoices : Queued(j)' <=> Queued(j)
  BY DEF DInv, Distinct, Queued
<1>6. Exclusive'
  BY <1>0, <1>3, <1>5 DEF DInv, Exclusive
<1>7. \A j \in Invoices : Held(j)' <=> Held(j) /\ j # i
  BY <1>0, <1>1, <1>3, <1>5 DEF Held, DInv, Exclusive
<1>8. RowOK(i)'
  <2>1. job[i].status = "queued"
    BY <1>0 DEF DInv, RowOK, Held
  <2>2. /\ job[i].attempts < MaxAttempts + requeues[i] /\ extractions[i] = 0
        /\ job[i].attempts \in Nat /\ requeues[i] \in Nat
    BY <2>1 DEF DInv, RowOK, IInv, TypeOK, JobRow
  <2>3. /\ job'[i] = [status |-> s, attempts |-> job[i].attempts + 1] /\ jobTrail'[i] = s
        /\ extractions'[i] = IF s = "failed" THEN 0 ELSE 1
    BY <2>2 DEF IInv, TypeOK
  <2> QED BY <1>7, <2>2, <2>3 DEF RowOK
<1>9. \A j \in Invoices \ {i} : RowOK(j)'
  BY <1>2, <1>7 DEF DInv, RowOK
<1> QED BY <1>3, <1>4, <1>5, <1>6, <1>8, <1>9 DEF DInv

LEMMA ProcessingDelivers ==
  ASSUME IInv, DInv, OneOperator, NEW w \in Workers, Processing(w)
  PROVE  DInv'
<1>0. w \in Actors /\ w \notin Operators
  BY WorkersAreActors
<1>1. ASSUME NEW verdict \in ExtractionVerdict, NEW confidence \in { "confident", "unsure" },
             CommitExtraction(w, verdict, confidence)
      PROVE  DInv'
  <2>1. pc[w] = "extracting" /\ on[w] \in Invoices /\ InHand(w, on[w])
    BY <1>0, <1>1 DEF CommitExtraction, IInv, SessionOK, InHand
  <2>2. jobCopy[w] = job[on[w]]
    BY <1>0, <2>1 DEF DInv, OwnOK, Copied
  <2>3. /\ pc'[w] = "committed" /\ Others(w) /\ UNCHANGED <<queue, delayed, uploading, requeues>>
        /\ job' = [job EXCEPT ![on[w]] = [status |-> "completed", attempts |-> job[on[w]].attempts + 1]]
        /\ jobTrail' = [jobTrail EXCEPT ![on[w]] = "completed"]
        /\ extractions' = [extractions EXCEPT ![on[w]] = @ + 1]
    BY <1>0, <1>1, <2>2 DEF CommitExtraction, Others, IInv, TypeOK
  <2>4. pc'[w] \notin Copied /\ \A j \in Invoices : ~InHand(w, j)'
    BY <1>0, <2>3 DEF Copied, InHand
  <2> QED BY <2>1, <2>3, <2>4, SettleStep
<1> QED BY <1>1, ProcessingIsQuiet

-----------------------------------------------------------------------------
(* Failures *)

LEMMA FailureDelivers ==
  ASSUME IInv, DInv, OneOperator, NEW w \in Workers, Failure(w)
  PROVE  DInv'
<1>0. w \in Actors /\ w \notin Operators
  BY WorkersAreActors
<1>1. CASE FailureGetsJob(w) \/ FailureGetsInvoice(w)
  <2>1. /\ pc[w] \in { "failing", "failingJob" } /\ pc'[w] \in { "failingJob", "recording" }
        /\ on' = on /\ Others(w)
        /\ jobCopy'[w] = IF pc[w] = "failing" THEN job[on[w]] ELSE jobCopy[w]
        /\ UNCHANGED <<job, jobTrail, extractions, queue, delayed, uploading, requeues>>
    BY <1>0, <1>1 DEF FailureGetsJob, FailureGetsInvoice, Others, IInv, TypeOK
  <2>2. OwnOK(w)'
    BY <1>0, <2>1 DEF OwnOK, DInv, Copied
  <2>3. \A i \in Invoices : InHand(w, i)' <=> InHand(w, i)
    BY <1>0, <2>1 DEF InHand
  <2> QED BY <1>0, <2>1, <2>2, <2>3, QuietStep
<1>2. ASSUME pc[w] = "recording"
      PROVE  /\ on[w] \in Invoices /\ InHand(w, on[w]) /\ jobCopy[w] = job[on[w]]
             /\ job[on[w]].status = "queued" /\ job[on[w]].attempts \in Nat
             /\ job[on[w]].attempts < MaxAttempts + requeues[on[w]]
  <2>1. on[w] \in Invoices /\ InHand(w, on[w]) /\ jobCopy[w] = job[on[w]]
    BY <1>0, <1>2 DEF IInv, SessionOK, InHand, DInv, OwnOK, Copied
  <2> QED BY <1>0, <2>1 DEF DInv, RowOK, Held, IInv, TypeOK, JobRow
<1>3. CASE ScheduleRetry(w)
  <2>0. PICK i \in Invoices : i = on[w]
    BY <1>2, <1>3 DEF ScheduleRetry
  <2>1. /\ pc[w] = "recording" /\ pc'[w] = "rescheduling" /\ UNCHANGED <<on, jobCopy>> /\ Others(w)
        /\ UNCHANGED <<queue, delayed, uploading, requeues, extractions>>
        /\ job' = [job EXCEPT ![i] = [status |-> "queued", attempts |-> job[i].attempts + 1]]
        /\ jobTrail' = [jobTrail EXCEPT ![i] = jobTrail[i]]
        /\ job[i].attempts + 1 < MaxAttempts
    BY <1>0, <1>2, <1>3, <2>0 DEF ScheduleRetry, WriteFailure, Written, RetriesLeft, Others, IInv, TypeOK
  <2>2. \A j \in Invoices : InHand(w, j)' <=> InHand(w, j)
    BY <1>0, <2>1 DEF InHand
  <2>3. (\A j \in Invoices \ {i} : job'[j] = job[j]) /\ jobTrail' = jobTrail
        /\ job'[i] = [status |-> "queued", attempts |-> job[i].attempts + 1]
    BY <1>2, <2>0, <2>1 DEF IInv, TypeOK
  <2>4. \A b \in Actors \ {w} : OwnOK(b)' /\ \A j \in Invoices : InHand(b, j)' <=> InHand(b, j)
    <3>1. Owned(w)
      BY <1>2, <2>0, <2>1, <2>3 DEF Owned
    <3> QED BY <1>0, <2>1, <3>1, OthersStand
  <2>5. OwnOK(w)'
    BY <1>0, <2>1 DEF OwnOK, Copied
  <2>6. Distinct' /\ \A j \in Invoices : Queued(j)' <=> Queued(j)
    BY <2>1 DEF DInv, Distinct, Queued
  <2>7. \A j \in Invoices : Held(j)' <=> Held(j)
    BY <2>1, <2>2, <2>4, <2>6 DEF Held
  <2>8. Exclusive'
    BY <2>1, <2>2, <2>4, <2>6 DEF DInv, Exclusive
  <2>9. RowOK(i)'
    <3>1. requeues[i] \in Nat /\ MaxAttempts \in Nat
      BY <1>2, <2>0, <2>1 DEF IInv, TypeOK
    <3> QED BY <1>2, <2>0, <2>1, <2>3, <2>7, <3>1 DEF DInv, RowOK
  <2>10. \A j \in Invoices \ {i} : RowOK(j)'
    BY <2>1, <2>3, <2>7 DEF DInv, RowOK
  <2> QED BY <2>4, <2>5, <2>6, <2>8, <2>9, <2>10 DEF DInv
<1>4. CASE EnqueueRetry(w)
  <2>1. /\ pc[w] = "rescheduling" /\ pc'[w] = "idle" /\ Others(w) /\ on[w] \in Invoices
        /\ delayed' = delayed \union { on[w] }
        /\ UNCHANGED <<job, jobTrail, extractions, queue, uploading, requeues>>
    BY <1>0, <1>4 DEF EnqueueRetry, Others, IInv, TypeOK, SessionOK
  <2>2. /\ OwnOK(w)' /\ (\A j \in Invoices : ~InHand(w, j)' /\ (InHand(w, j) <=> j = on[w]))
        /\ (\A j \in Invoices : Queued(j)' <=> Queued(j))
    BY <1>0, <2>1 DEF OwnOK, Copied, InHand, Queued
  <2>3. \A b \in Actors \ {w}, j \in Invoices : InHand(b, j)' <=> InHand(b, j)
    BY <2>1 DEF Others, InHand
  <2>4. Distinct' /\ Exclusive'
    BY <1>0, <2>1, <2>2, <2>3 DEF DInv, Distinct, Exclusive
  <2>5. \A j \in Invoices : Held(j)' <=> Held(j)
    BY <1>0, <2>1, <2>2, <2>3 DEF Held
  <2> QED BY <1>0, <2>1, <2>2, <2>4, <2>5, MoveStep
<1>5. CASE MarkFailed(w)
  <2>1. pc[w] = "recording"
    BY <1>5 DEF MarkFailed
  <2>2. /\ pc'[w] = "idle" /\ Others(w) /\ UNCHANGED <<queue, delayed, uploading, requeues>>
        /\ job' = [job EXCEPT ![on[w]] = [status |-> "failed", attempts |-> job[on[w]].attempts + 1]]
        /\ jobTrail' = [jobTrail EXCEPT ![on[w]] = "failed"] /\ extractions' = extractions
    BY <1>0, <1>2, <1>5, <2>1 DEF MarkFailed, WriteFailure, Written, Others, IInv, TypeOK
  <2>3. pc'[w] \notin Copied /\ \A j \in Invoices : ~InHand(w, j)'
    BY <1>0, <2>2 DEF Copied, InHand
  <2> QED BY <1>2, <2>1, <2>2, <2>3, SettleStep
<1> QED BY <1>1, <1>3, <1>4, <1>5 DEF Failure

-----------------------------------------------------------------------------
(* Operators *)

LEMMA OperatorDelivers ==
  ASSUME IInv, DInv, OneOperator, NEW o \in Operators, OperatorNext(o)
  PROVE  DInv'
<1>0. o \in Actors /\ o \notin Workers
  BY DEF Actors
<1>1. ASSUME NEW i \in Invoices, OpenFailedJob(o, i) PROVE DInv'
  <2>1. /\ pc[o] = "idle" /\ pc'[o] = "gotJob" /\ on'[o] = i /\ Others(o)
        /\ job[i].status = "failed"
        /\ UNCHANGED <<job, jobTrail, extractions, queue, delayed, uploading>>
        /\ requeues'[i] = requeues[i] + 1 /\ \A j \in Invoices \ {i} : requeues'[j] = requeues[j]
    BY <1>0, <1>1 DEF OpenFailedJob, Others, IInv, TypeOK
  <2>2. \A b \in Actors \ {o} : OwnOK(b)' /\ \A j \in Invoices : InHand(b, j)' <=> InHand(b, j)
    <3>1. Owned(o)
      BY <2>1 DEF Owned
    <3> QED BY <1>0, <2>1, <3>1, OthersStand
  <2>3. \A j \in Invoices : ~InHand(o, j) /\ ~InHand(o, j)'
    BY <1>0, <2>1 DEF InHand
  <2>4. /\ job[i].attempts \in Nat /\ requeues[i] \in Nat /\ MaxAttempts \in Nat
        /\ job[i].attempts <= MaxAttempts + requeues[i]
    BY DEF DInv, RowOK, IInv, TypeOK, JobRow
  <2>5. OwnOK(o)'
    BY <1>0, <2>1, <2>4 DEF OwnOK
  <2>6. Distinct' /\ \A j \in Invoices : Queued(j)' <=> Queued(j)
    BY <2>1 DEF DInv, Distinct, Queued
  <2>7. \A j \in Invoices : Held(j)' <=> Held(j)
    BY <2>1, <2>2, <2>3, <2>6 DEF Held
  <2>8. Exclusive'
    BY <2>1, <2>2, <2>3, <2>6 DEF DInv, Exclusive
  <2>9. RowOK(i)'
    BY <2>1, <2>4, <2>7 DEF DInv, RowOK
  <2>10. \A j \in Invoices \ {i} : RowOK(j)'
    BY <2>1, <2>7 DEF DInv, RowOK
  <2> QED BY <2>2, <2>5, <2>6, <2>8, <2>9, <2>10 DEF DInv
<1>2. CASE RequeueGetsInvoice(o) \/ RequeueRaises(o)
  <2>1. /\ pc[o] = "gotJob" /\ pc'[o] \in { "requeuing", "idle" } /\ Others(o)
        /\ pc'[o] = "requeuing" => on' = on
        /\ UNCHANGED <<job, jobTrail, extractions, queue, delayed, uploading, requeues>>
    BY <1>0, <1>2 DEF RequeueGetsInvoice, RequeueRaises, Others, IInv, TypeOK
  <2>2. OwnOK(o)' /\ \A i \in Invoices : InHand(o, i)' <=> InHand(o, i)
    BY <1>0, <2>1 DEF OwnOK, InHand, DInv
  <2> QED BY <1>0, <2>1, <2>2, QuietStep
<1>3. CASE CommitRequeue(o)
  <2>0. PICK i \in Invoices : i = on[o]
    BY <1>0, <1>3 DEF CommitRequeue, IInv, SessionOK
  <2>1. /\ pc[o] = "requeuing" /\ pc'[o] = "requeued" /\ UNCHANGED <<on, jobCopy>> /\ Others(o)
        /\ UNCHANGED <<queue, delayed, uploading, requeues, extractions>>
        /\ job' = [job EXCEPT ![i] = [status |-> "queued", attempts |-> job[i].attempts]]
        /\ jobTrail' = [jobTrail EXCEPT ![i] = "queued"]
    BY <1>0, <1>3, <2>0 DEF CommitRequeue, Others, IInv, TypeOK, SessionOK
  <2>2. /\ job[i].status = "failed" /\ job[i].attempts < MaxAttempts + requeues[i]
        /\ job[i].attempts \in Nat /\ requeues[i] \in Nat /\ MaxAttempts \in Nat
    BY <1>0, <2>0, <2>1 DEF DInv, OwnOK, IInv, TypeOK, JobRow
  <2>3. /\ job'[i] = [status |-> "queued", attempts |-> job[i].attempts] /\ jobTrail'[i] = "queued"
        /\ \A j \in Invoices \ {i} : job'[j] = job[j] /\ jobTrail'[j] = jobTrail[j]
    BY <2>1 DEF IInv, TypeOK
  <2>4. ~Held(i)
    BY <2>1, <2>2 DEF DInv, RowOK
  <2>5. \A j \in Invoices : ~InHand(o, j) /\ (InHand(o, j)' <=> j = i)
    BY <1>0, <2>0, <2>1 DEF InHand
  <2>6. \A b \in Actors \ {o} : OwnOK(b)' /\ \A j \in Invoices : InHand(b, j)' <=> InHand(b, j)
    <3>1. Owned(o)
      BY <2>0, <2>1, <2>2, <2>3 DEF Owned
    <3> QED BY <1>0, <2>1, <3>1, OthersStand
  <2>7. OwnOK(o)'
    BY <1>0, <2>0, <2>1 DEF OwnOK
  <2>8. Distinct' /\ \A j \in Invoices : Queued(j)' <=> Queued(j)
    BY <2>1 DEF DInv, Distinct, Queued
  <2>9. \A j \in Invoices : Held(j)' <=> Held(j) \/ j = i
    BY <1>0, <2>1, <2>5, <2>6, <2>8 DEF Held
  <2>10. Exclusive'
    <3>1. ~Queued(i) /\ i \notin delayed /\ i \notin uploading /\ \A b \in Actors : ~InHand(b, i)
      BY <2>4 DEF Held
    <3> QED BY <2>1, <2>5, <2>6, <2>8, <3>1 DEF DInv, Exclusive
  <2>11. RowOK(i)'
    BY <2>1, <2>2, <2>3, <2>9 DEF DInv, RowOK
  <2>12. \A j \in Invoices \ {i} : RowOK(j)'
    BY <2>1, <2>3, <2>9 DEF DInv, RowOK
  <2> QED BY <2>6, <2>7, <2>8, <2>10, <2>11, <2>12 DEF DInv
<1>4. CASE EnqueueRequeue(o)
  <2>1. /\ pc[o] = "requeued" /\ pc'[o] = "idle" /\ Others(o) /\ on[o] \in Invoices
        /\ queue' = Append(queue, on[o])
        /\ UNCHANGED <<job, jobTrail, extractions, delayed, uploading, requeues>>
    BY <1>0, <1>4 DEF EnqueueRequeue, Others, IInv, TypeOK, SessionOK
  <2>2. InHand(o, on[o]) /\ OwnOK(o)' /\ \A j \in Invoices : ~InHand(o, j)'
    BY <1>0, <2>1 DEF InHand, OwnOK
  <2> QED BY <1>0, <2>1, <2>2, HandToQueue
<1> QED BY <1>1, <1>2, <1>3, <1>4 DEF OperatorNext

-----------------------------------------------------------------------------
(* Reviewers and admins never touch a job, nor its id *)

LEMMA BystanderStep ==
  ASSUME IInv, DInv, OneOperator, NEW a \in Reviewers \union Admins, Others(a),
         UNCHANGED <<job, jobTrail, extractions, queue, delayed, uploading, requeues>>
  PROVE  DInv'
<1>1. a \in Actors /\ a \notin Workers /\ a \notin Operators
  BY DEF Actors
<1>2. OwnOK(a)' /\ \A i \in Invoices : InHand(a, i)' <=> InHand(a, i)
  BY <1>1 DEF OwnOK, InHand
<1> QED BY <1>1, <1>2, QuietStep

LEMMA ReviewerDelivers ==
  ASSUME IInv, DInv, OneOperator, NEW r \in Reviewers, ReviewerNext(r)
  PROVE  DInv'
<1>1. Others(r) /\ UNCHANGED <<job, jobTrail, extractions, queue, delayed, uploading, requeues>>
  BY DEF ReviewerNext, OpenInvoice, LeaveReview, SubmitReview, RecordDecision, ReviewFails, Others,
     IInv, TypeOK, Actors
<1> QED BY <1>1, BystanderStep

LEMMA AdminDelivers ==
  ASSUME IInv, DInv, OneOperator, NEW a \in Admins, AdminNext(a)
  PROVE  DInv'
<1>1. Others(a) /\ UNCHANGED <<job, jobTrail, extractions, queue, delayed, uploading, requeues>>
  BY DEF AdminNext, ReadForOverride, CommitOverride, Others, IInv, TypeOK, Actors
<1> QED BY <1>1, BystanderStep

-----------------------------------------------------------------------------
(* The theorems *)

LEMMA NextDelivers ==
  ASSUME OneOperator, NoFaults, IInv, DInv, [Next]_vars
  PROVE  DInv'
<1>1. CASE UNCHANGED vars
  <2>1. /\ UNCHANGED <<job, jobTrail, extractions, queue, delayed, uploading, requeues, pc, on, jobCopy>>
        /\ \A a \in Actors, i \in Invoices : InHand(a, i)' <=> InHand(a, i)
    BY <1>1 DEF vars, InHand
  <2> QED BY <2>1 DEF DInv, Distinct, Exclusive, RowOK, OwnOK, Held, Queued
<1>2. ~FaultNext
  BY DEF FaultNext, WorkerCrashes, ReloadFails, UploadPushFails, RequeuePushFails, NoFaults, IInv, TypeOK
<1> QED BY <1>1, <1>2, UploadDelivers, PollingDelivers, ProcessingDelivers, FailureDelivers,
           OperatorDelivers, ReviewerDelivers, AdminDelivers DEF Next, WorkerNext

\* DInv, the invariant the delivery theorems below rest on, holds in every
\* reachable state of enqueue, promotion, dequeue, processing and requeue.
THEOREM DeliveryInvariance ==
  ASSUME OneOperator, NoFaults
  PROVE  Spec => []DInv
<1>1. IInv /\ DInv /\ [Next]_vars => DInv'
  BY NextDelivers
<1> QED BY <1>1, InitDelivers, Invariance, PTL DEF Spec

\* No job id is in two places at once: on the list, in the retry set, with an
\* upload, an operator or a worker (_promote_due_processing_jobs).
THEOREM ExactlyOncePlaces ==
  ASSUME OneOperator, NoFaults
  PROVE  Spec => []AtMostOneDelivery
<1>1. DInv => AtMostOneDelivery
  <2> SUFFICES ASSUME DInv, NEW i \in Invoices, NEW p \in Deliveries(i), NEW q \in Deliveries(i)
               PROVE  p = q
    BY DEF AtMostOneDelivery
  <2>1. \A d \in Deliveries(i) :
           \/ \E n \in 1..Len(queue) : queue[n] = i /\ d = <<"queue", n>>
           \/ i \in delayed /\ d = <<"delayed", i>>
           \/ i \in uploading /\ d = <<"upload", i>>
           \/ \E a \in Actors : InHand(a, i) /\ d = <<"hand", a>>
    BY DEF Deliveries
  <2> QED BY <2>1 DEF DInv, Distinct, Exclusive, Queued
<1> QED BY <1>1, DeliveryInvariance, PTL

\* A job is queued exactly as long as its id is where a worker will find it.
THEOREM QueuedJobsAreDelivered ==
  ASSUME OneOperator, NoFaults
  PROVE  Spec => []QueuedIffDelivered
<1>1. \A i \in Invoices : Deliveries(i) # {} <=> Held(i)
  <2> TAKE i \in Invoices
  <2>1. ASSUME NEW d \in Deliveries(i) PROVE Held(i)
    BY <2>1 DEF Deliveries, Held, Queued
  <2>2. ASSUME Held(i) PROVE Deliveries(i) # {}
    <3>1. CASE Queued(i)
      <4>1. PICK n \in 1..Len(queue) : queue[n] = i
        BY <3>1 DEF Queued
      <4>2. <<"queue", n>> \in Deliveries(i)
        BY <4>1 DEF Deliveries
      <4> QED BY <4>2
    <3>2. CASE i \in delayed
      <4>1. <<"delayed", i>> \in Deliveries(i)
        BY <3>2 DEF Deliveries
      <4> QED BY <4>1
    <3>3. CASE i \in uploading
      <4>1. <<"upload", i>> \in Deliveries(i)
        BY <3>3 DEF Deliveries
      <4> QED BY <4>1
    <3>4. CASE \E a \in Actors : InHand(a, i)
      <4>1. PICK a \in Actors : InHand(a, i)
        BY <3>4
      <4>2. <<"hand", a>> \in Deliveries(i)
        BY <4>1 DEF Deliveries
      <4> QED BY <4>2
    <3> QED BY <2>2, <3>1, <3>2, <3>3, <3>4 DEF Held
  <2> QED BY <2>1, <2>2
<1>2. DInv => QueuedIffDelivered
  BY <1>1 DEF DInv, RowOK, QueuedIffDelivered
<1> QED BY <1>2, DeliveryInvariance, PTL

\* Automatic retries end at the cap; a request allows one attempt more.
THEOREM RetriesAreCapped ==
  ASSUME OneOperator, NoFaults
  PROVE  Spec => []AttemptsCapped
<1>1. DInv => AttemptsCapped
  BY DEF DInv, RowOK, AttemptsCapped
<1> QED BY <1>1, DeliveryInvariance, PTL

\* The last event of the audit trail tells the job's status.
THEOREM JobTrailIsTrue ==
  ASSUME OneOperator, NoFaults
  PROVE  Spec => []JobTrailMatchesRow
<1>1. DInv => JobTrailMatchesRow
  BY DEF DInv, RowOK, JobTrailMatchesRow
<1> QED BY <1>1, DeliveryInvariance, PTL

-----------------------------------------------------------------------------
(* The refinement of JobLifecycle *)

\* Writing one job row moves one stage.
LEMMA StageMoves ==
  ASSUME IInv, NEW i \in Invoices, NEW s, NEW n, job' = [job EXCEPT ![i] = [status |-> s, attempts |-> n]]
  PROVE  Lifecycle!Move(i, job[i].status, s)
<1>1. /\ job'[i].status = s /\ \A j \in Invoices \ {i} : job'[j] = job[j]
  BY DEF IInv, TypeOK
<1>2. [j \in Invoices |-> job'[j].status] = [[j \in Invoices |-> job[j].status] EXCEPT ![i] = s]
  <2>1. \A j \in Invoices : job'[j].status = IF j = i THEN s ELSE job[j].status
    BY <1>1
  <2>2. [j \in Invoices |-> job'[j].status] = [j \in Invoices |-> IF j = i THEN s ELSE job[j].status]
    BY <2>1
  <2> QED BY <2>2
<1> QED BY <1>2 DEF Lifecycle!Move

LEMMA StepsImplement ==
  ASSUME OneOperator, NoFaults, IInv, DInv, [Next]_vars
  PROVE  [Lifecycle!Next]_(Lifecycle!vars)
<1>1. ASSUME UNCHANGED <<job, extractions>> PROVE UNCHANGED Lifecycle!vars
  BY <1>1 DEF Lifecycle!vars
<1>2. ~FaultNext
  BY DEF FaultNext, WorkerCrashes, ReloadFails, UploadPushFails, RequeuePushFails, NoFaults, IInv, TypeOK
<1>3. ASSUME NEW i \in Invoices, UploadNext(i) PROVE [Lifecycle!Next]_(Lifecycle!vars)
  <2>1. CASE Upload(i)
    <3>1. Lifecycle!Submit(i)
      BY <2>1, StageMoves DEF Upload, Lifecycle!Submit
    <3> QED BY <3>1 DEF Lifecycle!Next
  <2>2. CASE EnqueueUpload(i)
    BY <1>1, <2>2 DEF EnqueueUpload
  <2> QED BY <1>3, <2>1, <2>2 DEF UploadNext
<1>4. ASSUME NEW w \in Workers, Polling(w) PROVE UNCHANGED <<job, extractions>>
  BY <1>4 DEF Polling, ScanDue, RemoveDue, PushDue, Dequeue, PollTimesOut
<1>5. ASSUME NEW w \in Workers, Processing(w) PROVE [Lifecycle!Next]_(Lifecycle!vars)
  <2>1. ASSUME NEW verdict \in ExtractionVerdict, NEW confidence \in { "confident", "unsure" },
               CommitExtraction(w, verdict, confidence)
        PROVE  [Lifecycle!Next]_(Lifecycle!vars)
    <3>1. PICK i \in Invoices : i = on[w]
      BY <2>1 DEF CommitExtraction, IInv, SessionOK, Actors
    <3>2. job[i].status = "queued"
      BY <2>1, <3>1 DEF CommitExtraction, InHand, Actors, DInv, RowOK, Held
    <3>3. Lifecycle!Complete(i)
      BY <2>1, <3>1, <3>2, StageMoves DEF CommitExtraction, Lifecycle!Complete
    <3> QED BY <3>3 DEF Lifecycle!Next
  <2>2. ASSUME ~\E verdict \in ExtractionVerdict, confidence \in { "confident", "unsure" } :
                    CommitExtraction(w, verdict, confidence)
        PROVE  UNCHANGED <<job, extractions>>
    BY <1>5, <2>2 DEF Processing, GetJob, SkipIneligible, GetInvoice, TransitionRaises, BeginProcessing,
       ExtractionFails, EmbedInvoice, NoAnomaly, FlagAnomalies, DetectionFails, ReloadInvoice,
       AutoApprove, SkipAutoApproval, PublishCompletion
  <2> QED BY <1>1, <2>1, <2>2
<1>6. ASSUME NEW w \in Workers, Failure(w) PROVE [Lifecycle!Next]_(Lifecycle!vars)
  <2>1. ASSUME pc[w] = "recording"
        PROVE  on[w] \in Invoices /\ jobCopy[w] = job[on[w]] /\ job[on[w]].status = "queued"
    <3>1. w \in Actors /\ on[w] \in Invoices /\ InHand(w, on[w])
      BY <2>1 DEF IInv, SessionOK, InHand, Actors
    <3> QED BY <2>1, <3>1 DEF DInv, OwnOK, Copied, RowOK, Held
  <2>2. CASE ScheduleRetry(w)
    <3>1. PICK i \in Invoices : i = on[w] /\ jobCopy[w] = job[i] /\ job[i].status = "queued"
      BY <2>1, <2>2 DEF ScheduleRetry
    <3>2. /\ job' = [job EXCEPT ![i] = [status |-> "queued", attempts |-> jobCopy[w].attempts + 1]]
          /\ extractions' = extractions
      BY <2>2, <3>1 DEF ScheduleRetry, WriteFailure, Written
    <3>3. \A j \in Invoices : job'[j].status = job[j].status
      BY <3>1, <3>2 DEF IInv, TypeOK
    <3> QED BY <3>2, <3>3 DEF Lifecycle!vars
  <2>3. CASE MarkFailed(w)
    <3>1. PICK i \in Invoices : i = on[w] /\ jobCopy[w] = job[i] /\ job[i].status = "queued"
      BY <2>1, <2>3 DEF MarkFailed
    <3>2. /\ job' = [job EXCEPT ![i] = [status |-> "failed", attempts |-> jobCopy[w].attempts + 1]]
          /\ extractions' = extractions
      BY <2>3, <3>1 DEF MarkFailed, WriteFailure, Written
    <3>3. Lifecycle!Fail(i)
      BY <3>1, <3>2, StageMoves DEF Lifecycle!Fail
    <3> QED BY <3>3 DEF Lifecycle!Next
  <2>4. CASE FailureGetsJob(w) \/ FailureGetsInvoice(w) \/ EnqueueRetry(w)
    BY <1>1, <2>4 DEF FailureGetsJob, FailureGetsInvoice, EnqueueRetry
  <2> QED BY <1>6, <2>2, <2>3, <2>4 DEF Failure
<1>7. ASSUME NEW o \in Operators, OperatorNext(o) PROVE [Lifecycle!Next]_(Lifecycle!vars)
  <2>1. CASE CommitRequeue(o)
    <3>1. PICK i \in Invoices : i = on[o] /\ job[i].status = "failed"
      BY <2>1 DEF CommitRequeue, IInv, SessionOK, Actors, DInv, OwnOK
    <3>2. Lifecycle!Requeue(i)
      BY <2>1, <3>1, StageMoves DEF CommitRequeue, Lifecycle!Requeue
    <3> QED BY <3>2 DEF Lifecycle!Next
  <2>2. CASE \/ \E i \in Invoices : OpenFailedJob(o, i)
             \/ RequeueGetsInvoice(o) \/ RequeueRaises(o) \/ EnqueueRequeue(o)
    BY <1>1, <2>2 DEF OpenFailedJob, RequeueGetsInvoice, RequeueRaises, EnqueueRequeue
  <2> QED BY <1>7, <2>1, <2>2 DEF OperatorNext
<1>8. ASSUME NEW r \in Reviewers, ReviewerNext(r) PROVE UNCHANGED <<job, extractions>>
  BY <1>8 DEF ReviewerNext, OpenInvoice, LeaveReview, SubmitReview, RecordDecision, ReviewFails
<1>9. ASSUME NEW a \in Admins, AdminNext(a) PROVE UNCHANGED <<job, extractions>>
  BY <1>9 DEF AdminNext, ReadForOverride, CommitOverride
<1>10. CASE UNCHANGED vars
  BY <1>1, <1>10 DEF vars
<1> QED BY <1>1, <1>2, <1>3, <1>4, <1>5, <1>6, <1>7, <1>8, <1>9, <1>10 DEF Next, WorkerNext

\* The pipeline implements the job lifecycle: a job is completed by exactly one
\* extraction, and only a failed one is ever queued again.
THEOREM PipelineImplementsLifecycle ==
  ASSUME OneOperator, NoFaults
  PROVE  Spec => ImplementsJobLifecycle
<1>1. Init => Lifecycle!Init
  BY DEF Init, Lifecycle!Init, NoJob
<1>2. IInv /\ DInv /\ [Next]_vars => [Lifecycle!Next]_(Lifecycle!vars)
  BY StepsImplement
<1> QED BY <1>1, <1>2, DeliveryInvariance, Invariance, PTL DEF Spec, ImplementsJobLifecycle, Lifecycle!Spec

-----------------------------------------------------------------------------
(* Decisions.  Under the same hypotheses, what detection, the approval       *)
(* policy and reviewers decide about an invoice stays decided: as long as    *)
(* admins override less than three times, respectively not at all.           *)

\* After its commit a worker is alone with a completed job, and of the marks
\* that detection and approval leave, none is there before its time.
After == { "committed", "detecting", "reloading", "approving", "publishing" }
ByPolicy(i) == "auto" \in approvals[i]

AfterOK(w) == pc[w] \in After =>
    /\ job[on[w]].status = "completed"
    /\ pc[w] \in { "committed", "detecting" } => ~flagged[on[w]]
    /\ pc[w] # "publishing" => ~ByPolicy(on[w])

AloneAfter ==
    \A v, w \in Workers : pc[v] \in After /\ pc[w] \in After /\ on[v] = on[w] => v = w

MarksOK == \A i \in Invoices : flagged[i] \/ ByPolicy(i) => job[i].status = "completed"

StagesOK == (\A w \in Workers : AfterOK(w)) /\ AloneAfter /\ MarksOK

\* Only overrides write "processing" and "extracted", one after the other; a
\* third is needed to bring an invoice back to "validation_passed".
CountOK ==
    /\ overrides <= MaxOverrides
    /\ \A i \in Invoices : /\ invoice[i] = "processing" => overrides >= 1
                           /\ invoice[i] = "extracted" => overrides >= 2
    /\ \A a \in Admins : pc[a] = "overriding" =>
          /\ overrides >= 1
          /\ choice[a] = "extracted" => overrides >= 2
          /\ choice[a] = "validation_passed" => overrides >= 3
    /\ \A r \in Reviewers : pc[r] = "deciding" => choice[r] \in ReviewDecision

\* Until then a flagged invoice is not passed, and no copy says it is.
CopyClean(w) ==
    /\ pc[w] = "detecting" /\ invoiceCopy[w] # "validation_passed"
          => invoice[on[w]] # "validation_passed"
    /\ pc[w] = "approving" /\ flagged[on[w]] => invoiceCopy[w] # "validation_passed"

CleanOK ==
    /\ \A i \in Invoices : flagged[i] => invoice[i] # "validation_passed" /\ ~ByPolicy(i)
    /\ \A w \in Workers : CopyClean(w)

\* Without overrides the invoice goes with its job, and a copy that says it
\* passed is outdated by its approval only.
Settled == { "validation_passed", "review_required", "approved", "rejected" }

RowAgrees(i) ==
    /\ job[i].status = "queued" => invoice[i] = "queued"
    /\ job[i].status = "failed" => invoice[i] = "failed"
    /\ job[i].status = "completed" => invoice[i] \in Settled

CopyAgrees(w) ==
    /\ pc[w] = "recording" => invoiceCopy[w] = invoice[on[w]]
    /\ pc[w] \in { "detecting", "approving" } /\ invoiceCopy[w] = "validation_passed"
          => invoice[on[w]] \in { "validation_passed", "approved" }

AgreeOK == (\A i \in Invoices : RowAgrees(i)) /\ (\A w \in Workers : CopyAgrees(w))

NoOverrides == MaxOverrides = 0

OthersAll(a) == \A b \in Actors \ {a} :
    pc'[b] = pc[b] /\ on'[b] = on[b] /\ invoiceCopy'[b] = invoiceCopy[b] /\ choice'[b] = choice[b]

CompletedKept ==
    \A i \in Invoices : job[i].status = "completed" => job'[i].status = "completed"

LEMMA CompletedIsKept ==
  ASSUME OneOperator, NoFaults, IInv, DInv, [Next]_vars
  PROVE  CompletedKept
<1>1. CASE UNCHANGED Lifecycle!vars
  <2>1. ASSUME NEW i \in Invoices PROVE job'[i].status = job[i].status
    <3>1. [j \in Invoices |-> job'[j].status] = [j \in Invoices |-> job[j].status]
      BY <1>1 DEF Lifecycle!vars
    <3>2. /\ [j \in Invoices |-> job'[j].status][i] = job'[i].status
          /\ [j \in Invoices |-> job[j].status][i] = job[i].status
      OBVIOUS
    <3> QED BY <3>1, <3>2
  <2> QED BY <2>1 DEF CompletedKept
<1>2. ASSUME NEW i \in Invoices, NEW from \in { "absent", "queued", "failed" },
             NEW to, Lifecycle!Move(i, from, to)
      PROVE  CompletedKept
  <2>1. job[i].status = from
    BY <1>2 DEF Lifecycle!Move
  <2>2. ASSUME NEW k \in Invoices, k # i PROVE job'[k].status = job[k].status
    <3>1. [j \in Invoices |-> job'[j].status] = [[j \in Invoices |-> job[j].status] EXCEPT ![i] = to]
      BY <1>2 DEF Lifecycle!Move
    <3>2. /\ [j \in Invoices |-> job'[j].status][k] = job'[k].status
          /\ [[j \in Invoices |-> job[j].status] EXCEPT ![i] = to][k] = job[k].status
      BY <2>2
    <3> QED BY <3>1, <3>2
  <2> QED BY <2>1, <2>2 DEF CompletedKept
<1>3. [Lifecycle!Next]_(Lifecycle!vars)
  BY StepsImplement
<1> QED BY <1>1, <1>2, <1>3 DEF Lifecycle!Next, Lifecycle!Submit, Lifecycle!Complete,
                                Lifecycle!Fail, Lifecycle!Requeue

-----------------------------------------------------------------------------
(* StagesOK *)

LEMMA InitStages == Init => StagesOK
BY DEF Init, StagesOK, AfterOK, After, AloneAfter, MarksOK, ByPolicy, Actors

LEMMA StageStep ==
  ASSUME IInv, StagesOK, NEW a \in Actors, OthersAll(a), CompletedKept,
         \A i \in Invoices : ~(flagged'[i] <=> flagged[i]) \/ ~(ByPolicy(i)' <=> ByPolicy(i))
             => a \in Workers /\ pc[a] \in After /\ on[a] = i,
         a \in Workers /\ pc'[a] \in After
             => on'[a] = on[a] /\ (pc[a] \in After \/ job[on[a]].status # "completed"),
         a \in Workers => AfterOK(a)'
  PROVE  StagesOK'
<1>1. \A w \in Workers : w \in Actors /\ (pc[w] \in After => on[w] \in Invoices)
  BY DEF IInv, SessionOK, Actors, After
<1>2. ASSUME NEW w \in Workers PROVE AfterOK(w)'
  <2>1. CASE w = a
    BY <2>1
  <2>2. CASE w # a
    <3> SUFFICES ASSUME pc'[w] \in After
                 PROVE  /\ job'[on'[w]].status = "completed"
                        /\ pc'[w] \in { "committed", "detecting" } => ~flagged'[on'[w]]
                        /\ pc'[w] # "publishing" => "auto" \notin approvals'[on'[w]]
      BY DEF AfterOK, ByPolicy
    <3>1. pc'[w] = pc[w] /\ on'[w] = on[w] /\ on[w] \in Invoices
      BY <1>1, <2>2 DEF OthersAll
    <3>2. ~(a \in Workers /\ pc[a] \in After /\ on[a] = on[w])
      BY <2>2, <3>1 DEF StagesOK, AloneAfter
    <3>3. (flagged'[on[w]] <=> flagged[on[w]]) /\ (ByPolicy(on[w])' <=> ByPolicy(on[w]))
      BY <3>1, <3>2
    <3>4. AfterOK(w)
      BY DEF StagesOK
    <3>5. ("auto" \in approvals'[on[w]]) <=> ByPolicy(on[w])
      BY <3>1, <3>3 DEF ByPolicy
    <3> QED BY <3>1, <3>3, <3>4, <3>5 DEF AfterOK, CompletedKept
  <2> QED BY <2>1, <2>2
<1>3. AloneAfter'
  <2> SUFFICES ASSUME NEW v \in Workers, NEW w \in Workers, pc'[v] \in After, pc'[w] \in After,
                      on'[v] = on'[w], v # w
               PROVE  FALSE
    BY DEF AloneAfter, After
  <2>1. \A u \in Workers : u # a => pc'[u] = pc[u] /\ on'[u] = on[u]
    BY <1>1 DEF OthersAll
  <2>2. \A u \in Workers : pc[u] \in After => job[on[u]].status = "completed"
    BY DEF StagesOK, AfterOK
  <2>3. CASE v # a /\ w # a
    BY <2>1, <2>3 DEF StagesOK, AloneAfter
  <2>4. CASE v = a
    BY <2>1, <2>2, <2>4 DEF StagesOK, AloneAfter
  <2>5. CASE w = a
    BY <2>1, <2>2, <2>5 DEF StagesOK, AloneAfter
  <2> QED BY <2>3, <2>4, <2>5
<1>4. MarksOK'
  <2> SUFFICES ASSUME NEW i \in Invoices, flagged'[i] \/ ByPolicy(i)'
               PROVE  job'[i].status = "completed"
    BY DEF MarksOK, ByPolicy
  <2>1. CASE flagged[i] \/ ByPolicy(i)
    BY <2>1 DEF StagesOK, MarksOK, CompletedKept
  <2>2. CASE ~(flagged[i] \/ ByPolicy(i))
    <3>1. a \in Workers /\ pc[a] \in After /\ on[a] = i
      BY <2>2
    <3> QED BY <3>1 DEF StagesOK, AfterOK, CompletedKept
  <2> QED BY <2>1, <2>2
<1> QED BY <1>2, <1>3, <1>4 DEF StagesOK

\* A step that leaves flags and the policy's approvals alone.
LEMMA UnmarkedStep ==
  ASSUME IInv, StagesOK, NEW a \in Actors, OthersAll(a), CompletedKept, UNCHANGED flagged,
         \A i \in Invoices : ByPolicy(i)' <=> ByPolicy(i),
         a \in Workers => pc'[a] \notin After \/ (pc[a] \in After /\ on'[a] = on[a] /\ AfterOK(a)')
  PROVE  StagesOK'
<1>1. a \in Workers => AfterOK(a)'
  BY DEF AfterOK
<1> QED BY <1>1, StageStep

LEMMA UploadStages ==
  ASSUME IInv, StagesOK, CompletedKept, NEW i \in Invoices, UploadNext(i)
  PROVE  StagesOK'
<1>1. UNCHANGED <<pc, on, flagged, approvals>>
  BY DEF UploadNext, Upload, EnqueueUpload
<1>2. \A w \in Workers : pc[w] \in After => on[w] \in Invoices
  BY DEF IInv, SessionOK, Actors, After
<1> QED BY <1>1, <1>2 DEF StagesOK, AfterOK, AloneAfter, MarksOK, ByPolicy, CompletedKept

LEMMA PollingStages ==
  ASSUME IInv, StagesOK, CompletedKept, NEW w \in Workers, Polling(w)
  PROVE  StagesOK'
<1>0. w \in Actors
  BY DEF Actors
<1>1. OthersAll(w) /\ UNCHANGED <<flagged, approvals>> /\ pc'[w] \notin After
  BY <1>0 DEF Polling, ScanDue, RemoveDue, PushDue, Dequeue, PollTimesOut, OthersAll, After,
     IInv, TypeOK
<1> QED BY <1>0, <1>1, UnmarkedStep DEF ByPolicy

LEMMA FailureStages ==
  ASSUME IInv, StagesOK, CompletedKept, NEW w \in Workers, Failure(w)
  PROVE  StagesOK'
<1>0. w \in Actors
  BY DEF Actors
<1>1. OthersAll(w) /\ UNCHANGED <<flagged, approvals>> /\ pc'[w] \notin After
  BY <1>0 DEF Failure, FailureGetsJob, FailureGetsInvoice, ScheduleRetry, EnqueueRetry, MarkFailed,
     WriteFailure, OthersAll, After, IInv, TypeOK
<1> QED BY <1>0, <1>1, UnmarkedStep DEF ByPolicy

LEMMA ProcessingStages ==
  ASSUME IInv, DInv, StagesOK, CompletedKept, NEW w \in Workers, Processing(w)
  PROVE  StagesOK'
<1>0. w \in Actors /\ pc \in [Actors -> WorkerStep \cup RequestStep]
  BY DEF Actors, IInv, TypeOK
<1>1. CASE GetJob(w) \/ SkipIneligible(w) \/ GetInvoice(w) \/ TransitionRaises(w)
           \/ BeginProcessing(w) \/ PublishCompletion(w)
           \/ \E kind \in { "retryable", "permanent" } : ExtractionFails(w, kind)
  <2>1. OthersAll(w) /\ UNCHANGED <<flagged, approvals>> /\ pc'[w] \notin After
    BY <1>0, <1>1 DEF GetJob, SkipIneligible, GetInvoice, TransitionRaises, BeginProcessing,
       PublishCompletion, ExtractionFails, OthersAll, After, IInv, TypeOK
  <2> QED BY <1>0, <2>1, UnmarkedStep DEF ByPolicy
<1>2. ASSUME NEW verdict \in ExtractionVerdict, NEW confidence \in { "confident", "unsure" },
             CommitExtraction(w, verdict, confidence)
      PROVE  StagesOK'
  <2>1. pc[w] = "extracting" /\ on[w] \in Invoices /\ InHand(w, on[w])
    BY <1>0, <1>2 DEF CommitExtraction, IInv, SessionOK, InHand
  <2>2. job[on[w]].status = "queued"
    BY <1>0, <2>1 DEF DInv, RowOK, Held
  <2>3. ~flagged[on[w]] /\ ~ByPolicy(on[w])
    BY <2>1, <2>2 DEF StagesOK, MarksOK
  <2>4. /\ OthersAll(w) /\ UNCHANGED <<flagged, approvals, on>> /\ pc'[w] = "committed"
        /\ job'[on[w]].status = "completed"
    BY <1>0, <1>2, <2>1 DEF CommitExtraction, OthersAll, IInv, TypeOK
  <2>5. AfterOK(w)'
    BY <2>3, <2>4 DEF AfterOK, ByPolicy
  <2> QED BY <1>0, <2>2, <2>4, <2>5, StageStep DEF ByPolicy
<1>3. CASE EmbedInvoice(w) \/ NoAnomaly(w) \/ DetectionFails(w) \/ ReloadInvoice(w)
           \/ SkipAutoApproval(w)
  <2>1. /\ OthersAll(w) /\ UNCHANGED <<job, flagged, approvals, on>> /\ pc[w] \in After
        /\ pc'[w] \in { "detecting", "reloading", "approving", "publishing" }
        /\ pc'[w] = "detecting" => pc[w] = "committed"
        /\ pc'[w] # "publishing" => pc[w] # "publishing"
    BY <1>0, <1>3 DEF EmbedInvoice, NoAnomaly, DetectionFails, ReloadInvoice, SkipAutoApproval,
       OthersAll, After, IInv, TypeOK
  <2>2. AfterOK(w)
    BY DEF StagesOK
  <2>3. AfterOK(w)'
    BY <2>1, <2>2 DEF AfterOK, ByPolicy
  <2> QED BY <1>0, <2>1, <2>3, UnmarkedStep DEF ByPolicy
<1>4. CASE FlagAnomalies(w)
  <2>1. /\ OthersAll(w) /\ UNCHANGED <<job, approvals, on>> /\ pc[w] = "detecting"
        /\ pc'[w] = "reloading" /\ flagged' = [flagged EXCEPT ![on[w]] = TRUE]
    BY <1>0, <1>4 DEF FlagAnomalies, OthersAll, IInv, TypeOK
  <2>2. AfterOK(w) /\ pc[w] \in After
    BY <2>1 DEF StagesOK, After
  <2>3. AfterOK(w)'
    BY <2>1, <2>2 DEF AfterOK, ByPolicy
  <2>4. \A i \in Invoices : flagged'[i] = flagged[i] \/ i = on[w]
    BY <2>1 DEF IInv, TypeOK
  <2> QED BY <1>0, <2>1, <2>2, <2>3, <2>4, StageStep DEF ByPolicy
<1>5. CASE AutoApprove(w)
  <2>1. /\ OthersAll(w) /\ UNCHANGED <<job, flagged, on>> /\ pc[w] = "approving"
        /\ pc'[w] = "publishing" /\ approvals' = [approvals EXCEPT ![on[w]] = @ \cup { "auto" }]
    BY <1>0, <1>5 DEF AutoApprove, OthersAll, IInv, TypeOK
  <2>2. AfterOK(w) /\ pc[w] \in After
    BY <2>1 DEF StagesOK, After
  <2>3. AfterOK(w)'
    BY <2>1, <2>2 DEF AfterOK
  <2>4. \A i \in Invoices : approvals'[i] = approvals[i] \/ i = on[w]
    BY <2>1 DEF IInv, TypeOK
  <2> QED BY <1>0, <2>1, <2>2, <2>3, <2>4, StageStep DEF ByPolicy
<1> QED BY <1>1, <1>2, <1>3, <1>4, <1>5 DEF Processing

LEMMA OperatorStages ==
  ASSUME IInv, StagesOK, CompletedKept, NEW o \in Operators, OperatorNext(o)
  PROVE  StagesOK'
<1>0. o \in Actors /\ o \notin Workers
  BY DEF Actors
<1>1. OthersAll(o) /\ UNCHANGED <<flagged, approvals>>
  BY <1>0 DEF OperatorNext, OpenFailedJob, RequeueGetsInvoice, RequeueRaises, CommitRequeue,
     EnqueueRequeue, OthersAll, IInv, TypeOK
<1> QED BY <1>0, <1>1, UnmarkedStep DEF ByPolicy

\* A person's approval is not the policy's.
LEMMA ChoiceIsNotAuto ==
  ASSUME IInv, NEW a, NEW author, author # "auto", WriteChoice(a, author), NEW i \in Invoices
  PROVE  ByPolicy(i)' <=> ByPolicy(i)
BY DEF ByPolicy, IInv, TypeOK

LEMMA ReviewerStages ==
  ASSUME IInv, StagesOK, CompletedKept, NEW r \in Reviewers, ReviewerNext(r)
  PROVE  StagesOK'
<1>0. r \in Actors /\ r \notin Workers
  BY DEF Actors
<1>1. OthersAll(r) /\ UNCHANGED flagged
  BY <1>0 DEF ReviewerNext, OpenInvoice, LeaveReview, SubmitReview, RecordDecision, ReviewFails,
     OthersAll, IInv, TypeOK
<1>2. ASSUME NEW i \in Invoices PROVE ByPolicy(i)' <=> ByPolicy(i)
  <2>1. CASE RecordDecision(r)
    <3>1. WriteChoice(r, "reviewer")
      BY <2>1 DEF RecordDecision
    <3> QED BY <3>1, ChoiceIsNotAuto
  <2>2. CASE ~RecordDecision(r)
    BY <2>2 DEF ReviewerNext, OpenInvoice, LeaveReview, SubmitReview, ReviewFails, ByPolicy
  <2> QED BY <2>1, <2>2
<1> QED BY <1>0, <1>1, <1>2, UnmarkedStep

LEMMA AdminStages ==
  ASSUME IInv, StagesOK, CompletedKept, NEW a \in Admins, AdminNext(a)
  PROVE  StagesOK'
<1>0. a \in Actors /\ a \notin Workers
  BY DEF Actors
<1>1. OthersAll(a) /\ UNCHANGED flagged
  BY <1>0 DEF AdminNext, ReadForOverride, CommitOverride, OthersAll, IInv, TypeOK
<1>2. ASSUME NEW i \in Invoices PROVE ByPolicy(i)' <=> ByPolicy(i)
  <2>1. CASE CommitOverride(a)
    <3>1. WriteChoice(a, "admin")
      BY <2>1 DEF CommitOverride
    <3> QED BY <3>1, ChoiceIsNotAuto
  <2>2. CASE ~CommitOverride(a)
    BY <2>2 DEF AdminNext, ReadForOverride, ByPolicy
  <2> QED BY <2>1, <2>2
<1> QED BY <1>0, <1>1, <1>2, UnmarkedStep

LEMMA NoFaultSteps ==
  ASSUME NoFaults, IInv
  PROVE  ~FaultNext
BY DEF FaultNext, WorkerCrashes, ReloadFails, UploadPushFails, RequeuePushFails, NoFaults, IInv, TypeOK

LEMMA NextStages ==
  ASSUME OneOperator, NoFaults, IInv, DInv, StagesOK, [Next]_vars
  PROVE  StagesOK'
<1>1. CompletedKept
  BY CompletedIsKept
<1>2. CASE UNCHANGED vars
  BY <1>2 DEF vars, StagesOK, AfterOK, AloneAfter, MarksOK, ByPolicy
<1>3. ~FaultNext
  BY NoFaultSteps
<1> QED BY <1>1, <1>2, <1>3, UploadStages, PollingStages, ProcessingStages, FailureStages,
           OperatorStages, ReviewerStages, AdminStages DEF Next, WorkerNext

-----------------------------------------------------------------------------
(* CountOK *)

LEMMA InitCounts == Init => CountOK
BY DEF Init, CountOK, Actors

LEMMA CountStep ==
  ASSUME IInv, CountOK, UNCHANGED overrides,
         \A i \in Invoices : \/ invoice'[i] = invoice[i]
                             \/ invoice'[i] \notin { "processing", "extracted" },
         \A a \in Admins : pc'[a] = "overriding" => pc[a] = "overriding" /\ choice'[a] = choice[a],
         \A r \in Reviewers : pc'[r] = "deciding" =>
             choice'[r] \in ReviewDecision \/ (pc[r] = "deciding" /\ choice'[r] = choice[r])
  PROVE  CountOK'
BY DEF CountOK, ReviewDecision

\* What a worker's step leaves alone, and what it may write on an invoice row.
LEMMA WorkerAlone ==
  ASSUME IInv, NEW w \in Workers, WorkerNext(w)
  PROVE  OthersAll(w) /\ UNCHANGED overrides
<1>0. w \in Actors
  BY DEF Actors
<1>1. CASE Polling(w)
  BY <1>0, <1>1 DEF Polling, ScanDue, RemoveDue, PushDue, Dequeue, PollTimesOut, OthersAll, IInv, TypeOK
<1>2. CASE GetJob(w) \/ SkipIneligible(w) \/ GetInvoice(w) \/ TransitionRaises(w)
           \/ BeginProcessing(w) \/ PublishCompletion(w)
           \/ \E kind \in { "retryable", "permanent" } : ExtractionFails(w, kind)
  BY <1>0, <1>2 DEF GetJob, SkipIneligible, GetInvoice, TransitionRaises, BeginProcessing,
     PublishCompletion, ExtractionFails, OthersAll, IInv, TypeOK
<1>3. CASE \/ EmbedInvoice(w) \/ NoAnomaly(w) \/ DetectionFails(w) \/ ReloadInvoice(w)
           \/ SkipAutoApproval(w) \/ FlagAnomalies(w) \/ AutoApprove(w)
           \/ \E verdict \in ExtractionVerdict, confidence \in { "confident", "unsure" } :
                 CommitExtraction(w, verdict, confidence)
  BY <1>0, <1>3 DEF EmbedInvoice, NoAnomaly, DetectionFails, ReloadInvoice, SkipAutoApproval,
     FlagAnomalies, AutoApprove, CommitExtraction, OthersAll, IInv, TypeOK
<1>4. CASE Failure(w)
  BY <1>0, <1>4 DEF Failure, FailureGetsJob, FailureGetsInvoice, ScheduleRetry, EnqueueRetry,
     MarkFailed, WriteFailure, OthersAll, IInv, TypeOK
<1> QED BY <1>1, <1>2, <1>3, <1>4 DEF WorkerNext, Processing

LEMMA WorkerWrites ==
  ASSUME IInv, NEW w \in Workers, WorkerNext(w), NEW i \in Invoices
  PROVE  \/ invoice'[i] = invoice[i]
         \/ invoice'[i] \in { "validation_passed", "review_required", "approved", "queued", "failed" }
<1>1. CASE Polling(w)
  BY <1>1 DEF Polling, ScanDue, RemoveDue, PushDue, Dequeue, PollTimesOut
<1>2. CASE GetJob(w) \/ SkipIneligible(w) \/ GetInvoice(w) \/ TransitionRaises(w)
           \/ BeginProcessing(w) \/ PublishCompletion(w)
           \/ \E kind \in { "retryable", "permanent" } : ExtractionFails(w, kind)
  BY <1>2 DEF GetJob, SkipIneligible, GetInvoice, TransitionRaises, BeginProcessing,
     PublishCompletion, ExtractionFails
<1>3. CASE \/ EmbedInvoice(w) \/ NoAnomaly(w) \/ DetectionFails(w) \/ ReloadInvoice(w)
           \/ SkipAutoApproval(w) \/ FlagAnomalies(w) \/ AutoApprove(w)
           \/ \E verdict \in ExtractionVerdict, confidence \in { "confident", "unsure" } :
                 CommitExtraction(w, verdict, confidence)
  BY <1>3 DEF EmbedInvoice, NoAnomaly, DetectionFails, ReloadInvoice, SkipAutoApproval,
     FlagAnomalies, AutoApprove, CommitExtraction, ExtractionVerdict, IInv, TypeOK
<1>4. CASE FailureGetsJob(w) \/ FailureGetsInvoice(w) \/ EnqueueRetry(w)
  BY <1>4 DEF FailureGetsJob, FailureGetsInvoice, EnqueueRetry
<1>5. CASE ScheduleRetry(w) \/ MarkFailed(w)
  BY <1>5 DEF ScheduleRetry, MarkFailed, WriteFailure, Written, IInv, TypeOK
<1> QED BY <1>1, <1>2, <1>3, <1>4, <1>5 DEF WorkerNext, Processing, Failure

\* A worker, an operator or an upload writes neither of the two statuses, and
\* the requests of others stay what they were.
LEMMA StaffCounts ==
  ASSUME IInv, CountOK,
         (\E i \in Invoices : UploadNext(i)) \/ (\E w \in Workers : WorkerNext(w))
           \/ (\E o \in Operators : OperatorNext(o))
  PROVE  CountOK'
<1>1. CASE \E i \in Invoices : UploadNext(i)
  <2>1. /\ UNCHANGED <<pc, choice, overrides>>
        /\ \A i \in Invoices : invoice'[i] = invoice[i] \/ invoice'[i] = "queued"
    BY <1>1 DEF UploadNext, Upload, EnqueueUpload, IInv, TypeOK
  <2> QED BY <2>1, CountStep
<1>2. ASSUME NEW w \in Workers, WorkerNext(w) PROVE CountOK'
  <2>1. w \in Actors /\ w \notin Admins /\ w \notin Reviewers
    BY DEF Actors
  <2>2. OthersAll(w) /\ UNCHANGED overrides
    BY <1>2, WorkerAlone
  <2>3. \A i \in Invoices : invoice'[i] = invoice[i] \/ invoice'[i] \notin { "processing", "extracted" }
    BY <1>2, WorkerWrites
  <2>4. \A b \in Admins \cup Reviewers : pc'[b] = pc[b] /\ choice'[b] = choice[b]
    BY <2>1, <2>2 DEF OthersAll, Actors
  <2> QED BY <2>2, <2>3, <2>4, CountStep
<1>3. ASSUME NEW o \in Operators, OperatorNext(o) PROVE CountOK'
  <2>1. o \in Actors /\ o \notin Admins /\ o \notin Reviewers
    BY DEF Actors
  <2>2. /\ OthersAll(o) /\ UNCHANGED overrides
        /\ \A i \in Invoices : invoice'[i] = invoice[i] \/ invoice'[i] = "queued"
    BY <1>3, <2>1 DEF OperatorNext, OpenFailedJob, RequeueGetsInvoice, RequeueRaises, CommitRequeue,
       EnqueueRequeue, OthersAll, IInv, TypeOK
  <2>3. \A b \in Admins \cup Reviewers : pc'[b] = pc[b] /\ choice'[b] = choice[b]
    BY <2>1, <2>2 DEF OthersAll, Actors
  <2> QED BY <2>2, <2>3, CountStep
<1> QED BY <1>1, <1>2, <1>3

LEMMA ReviewerCounts ==
  ASSUME IInv, CountOK, NEW r \in Reviewers, ReviewerNext(r)
  PROVE  CountOK'
<1>1. r \in Actors /\ r \notin Admins
  BY DEF Actors
<1>2. OthersAll(r) /\ UNCHANGED overrides
  BY <1>1 DEF ReviewerNext, OpenInvoice, LeaveReview, SubmitReview, RecordDecision, ReviewFails,
     OthersAll, IInv, TypeOK
<1>3. pc'[r] = "deciding" => choice'[r] \in ReviewDecision
  BY <1>1 DEF ReviewerNext, OpenInvoice, LeaveReview, SubmitReview, RecordDecision, ReviewFails,
     IInv, TypeOK
<1>4. \A i \in Invoices : invoice'[i] = invoice[i] \/ invoice'[i] \notin { "processing", "extracted" }
  <2>1. CASE RecordDecision(r)
    <3>1. choice[r] \in ReviewDecision
      BY <2>1 DEF RecordDecision, CountOK
    <3> QED BY <2>1, <3>1 DEF RecordDecision, ReviewDecision, IInv, TypeOK
  <2>2. CASE ~RecordDecision(r)
    BY <2>2 DEF ReviewerNext, OpenInvoice, LeaveReview, SubmitReview, ReviewFails
  <2> QED BY <2>1, <2>2
<1>5. \A b \in Admins \cup Reviewers : b # r => pc'[b] = pc[b] /\ choice'[b] = choice[b]
  BY <1>2 DEF OthersAll, Actors
<1> QED BY <1>1, <1>2, <1>3, <1>4, <1>5, CountStep

LEMMA AdminCounts ==
  ASSUME IInv, CountOK, NEW a \in Admins, AdminNext(a)
  PROVE  CountOK'
<1>1. a \in Actors /\ a \notin Reviewers /\ overrides \in Nat
  BY DEF Actors, IInv, TypeOK
<1>2. OthersAll(a)
  BY <1>1 DEF AdminNext, ReadForOverride, CommitOverride, OthersAll, IInv, TypeOK
<1>3. \A b \in Admins \cup Reviewers : b # a => pc'[b] = pc[b] /\ choice'[b] = choice[b]
  BY <1>2 DEF OthersAll, Actors
<1>4. ASSUME NEW i \in Invoices, NEW requested \in InvoiceStatus, ReadForOverride(a, i, requested)
      PROVE  CountOK'
  <2>1. /\ overrides' = overrides + 1 /\ overrides < MaxOverrides /\ invoice' = invoice
        /\ choice'[a] = requested
        /\ invoice[i] # "absent" /\ CanTransition(invoice[i], requested)
    BY <1>1, <1>4 DEF ReadForOverride, IInv, TypeOK
  <2>2. invoice[i] \in InvoiceStatus
    BY <2>1 DEF IInv, TypeOK, CommittedInvoiceStatus
  <2>3. /\ requested = "extracted" => invoice[i] = "processing"
        /\ requested = "validation_passed" => invoice[i] = "extracted"
    BY <2>1, <2>2 DEF CanTransition, AllowedTransitions, InvoiceStatus
  <2>4. /\ requested = "extracted" => overrides' >= 2
        /\ requested = "validation_passed" => overrides' >= 3
    BY <1>1, <2>1, <2>3 DEF CountOK
  <2> QED BY <1>1, <1>3, <2>1, <2>4 DEF CountOK
<1>5. CASE CommitOverride(a)
  <2>1. /\ pc[a] = "overriding" /\ pc'[a] = "idle" /\ UNCHANGED overrides
        /\ \A i \in Invoices : invoice'[i] = invoice[i] \/ invoice'[i] = choice[a]
    BY <1>1, <1>5 DEF CommitOverride, IInv, TypeOK
  <2> QED BY <1>1, <1>3, <2>1 DEF CountOK
<1> QED BY <1>4, <1>5 DEF AdminNext

LEMMA NextCounts ==
  ASSUME NoFaults, IInv, CountOK, [Next]_vars
  PROVE  CountOK'
<1>1. CASE UNCHANGED vars
  BY <1>1 DEF vars, CountOK
<1> QED BY <1>1, NoFaultSteps, StaffCounts, ReviewerCounts, AdminCounts DEF Next

-----------------------------------------------------------------------------
(* CleanOK *)

NoRepass == \A i \in Invoices :
    job[i].status = "completed" /\ invoice'[i] = "validation_passed" => invoice[i] = "validation_passed"

LEMMA InitClean == Init => CleanOK
BY DEF Init, CleanOK, CopyClean, Actors

LEMMA CleanStep ==
  ASSUME IInv, StagesOK, CleanOK, NEW a \in Actors, OthersAll(a), NoRepass, UNCHANGED flagged,
         \A i \in Invoices : flagged[i] /\ ByPolicy(i)' => ByPolicy(i),
         a \in Workers => CopyClean(a)'
  PROVE  CleanOK'
<1>1. ASSUME NEW i \in Invoices, flagged'[i] PROVE invoice'[i] # "validation_passed" /\ ~ByPolicy(i)'
  BY <1>1 DEF NoRepass, CleanOK, StagesOK, MarksOK
<1>2. ASSUME NEW w \in Workers PROVE CopyClean(w)'
  <2>1. CASE w = a
    BY <2>1
  <2>2. CASE w # a
    <3>1. w \in Actors
      BY DEF Actors
    <3>2. pc'[w] = pc[w] /\ on'[w] = on[w] /\ invoiceCopy'[w] = invoiceCopy[w]
      BY <2>2, <3>1 DEF OthersAll
    <3>3. pc[w] \in { "detecting", "approving" } =>
            on[w] \in Invoices /\ job[on[w]].status = "completed"
      BY <3>1 DEF IInv, SessionOK, StagesOK, AfterOK, After
    <3>4. CopyClean(w)
      BY DEF CleanOK
    <3> QED BY <3>2, <3>3, <3>4 DEF CopyClean, NoRepass
  <2> QED BY <2>1, <2>2
<1> QED BY <1>1, <1>2 DEF CleanOK, ByPolicy

\* Which steps could bring an invoice back to "validation_passed".
LEMMA WorkerRepasses ==
  ASSUME IInv, DInv, NEW w \in Workers, WorkerNext(w)
  PROVE  NoRepass
<1> SUFFICES ASSUME NEW i \in Invoices, job[i].status = "completed", invoice'[i] = "validation_passed",
                    invoice[i] # "validation_passed"
             PROVE  FALSE
  BY DEF NoRepass
<1>0. w \in Actors
  BY DEF Actors
<1>1. CASE Polling(w)
  BY <1>1 DEF Polling, ScanDue, RemoveDue, PushDue, Dequeue, PollTimesOut
<1>2. CASE GetJob(w) \/ SkipIneligible(w) \/ GetInvoice(w) \/ TransitionRaises(w)
           \/ BeginProcessing(w) \/ PublishCompletion(w)
           \/ \E kind \in { "retryable", "permanent" } : ExtractionFails(w, kind)
  BY <1>2 DEF GetJob, SkipIneligible, GetInvoice, TransitionRaises, BeginProcessing,
     PublishCompletion, ExtractionFails
<1>3. CASE EmbedInvoice(w) \/ NoAnomaly(w) \/ DetectionFails(w) \/ ReloadInvoice(w)
           \/ SkipAutoApproval(w) \/ FlagAnomalies(w) \/ AutoApprove(w)
  BY <1>3 DEF EmbedInvoice, NoAnomaly, DetectionFails, ReloadInvoice, SkipAutoApproval,
     FlagAnomalies, AutoApprove, IInv, TypeOK
<1>4. ASSUME NEW verdict \in ExtractionVerdict, NEW confidence \in { "confident", "unsure" },
             CommitExtraction(w, verdict, confidence)
      PROVE  FALSE
  <2>1. pc[w] = "extracting" /\ on[w] \in Invoices /\ InHand(w, on[w])
    BY <1>0, <1>4 DEF CommitExtraction, IInv, SessionOK, InHand
  <2>2. job[on[w]].status = "queued"
    BY <1>0, <2>1 DEF DInv, RowOK, Held
  <2>3. \A j \in Invoices \ { on[w] } : invoice'[j] = invoice[j]
    BY <1>4 DEF CommitExtraction, IInv, TypeOK
  <2> QED BY <2>2, <2>3
<1>5. CASE FailureGetsJob(w) \/ FailureGetsInvoice(w) \/ EnqueueRetry(w)
  BY <1>5 DEF FailureGetsJob, FailureGetsInvoice, EnqueueRetry
<1>6. CASE ScheduleRetry(w) \/ MarkFailed(w)
  BY <1>6 DEF ScheduleRetry, MarkFailed, WriteFailure, Written, IInv, TypeOK
<1> QED BY <1>1, <1>2, <1>3, <1>4, <1>5, <1>6 DEF WorkerNext, Processing, Failure

LEMMA WorkerStaysClean ==
  ASSUME IInv, DInv, StagesOK, CleanOK, NEW w \in Workers, WorkerNext(w)
  PROVE  CleanOK'
<1>0. w \in Actors /\ NoRepass /\ OthersAll(w)
  BY WorkerRepasses, WorkerAlone DEF Actors
<1>1. CASE Polling(w) \/ Failure(w)
  <2>1. UNCHANGED <<flagged, approvals>> /\ pc'[w] \notin { "detecting", "approving" }
    BY <1>0, <1>1 DEF Polling, ScanDue, RemoveDue, PushDue, Dequeue, PollTimesOut, Failure,
       FailureGetsJob, FailureGetsInvoice, ScheduleRetry, EnqueueRetry, MarkFailed, WriteFailure,
       IInv, TypeOK
  <2> QED BY <1>0, <2>1, CleanStep DEF ByPolicy, CopyClean
<1>2. CASE GetJob(w) \/ SkipIneligible(w) \/ GetInvoice(w) \/ TransitionRaises(w)
           \/ BeginProcessing(w) \/ PublishCompletion(w) \/ DetectionFails(w) \/ SkipAutoApproval(w)
           \/ (\E kind \in { "retryable", "permanent" } : ExtractionFails(w, kind))
           \/ \E verdict \in ExtractionVerdict, confidence \in { "confident", "unsure" } :
                 CommitExtraction(w, verdict, confidence)
  <2>1. UNCHANGED <<flagged, approvals>> /\ pc'[w] \notin { "detecting", "approving" }
    BY <1>0, <1>2 DEF GetJob, SkipIneligible, GetInvoice, TransitionRaises, BeginProcessing,
       PublishCompletion, ExtractionFails, DetectionFails, SkipAutoApproval, CommitExtraction,
       IInv, TypeOK
  <2> QED BY <1>0, <2>1, CleanStep DEF ByPolicy, CopyClean
<1>3. CASE EmbedInvoice(w) \/ ReloadInvoice(w)
  <2>1. /\ UNCHANGED <<invoice, flagged, approvals, on>>
        /\ pc[w] \in { "committed", "reloading" }
        /\ invoiceCopy'[w] = invoice[on[w]] /\ on[w] \in Invoices
    BY <1>0, <1>3 DEF EmbedInvoice, ReloadInvoice, IInv, TypeOK, SessionOK
  <2>2. CopyClean(w)'
    BY <2>1 DEF CopyClean, CleanOK
  <2> QED BY <1>0, <2>1, <2>2, CleanStep DEF ByPolicy
<1>4. CASE NoAnomaly(w)
  <2>1. /\ UNCHANGED <<flagged, approvals, on>> /\ pc[w] = "detecting" /\ pc'[w] = "approving"
    BY <1>0, <1>4 DEF NoAnomaly, IInv, TypeOK
  <2>2. ~flagged[on[w]]
    BY <2>1 DEF StagesOK, AfterOK, After
  <2> QED BY <1>0, <2>1, <2>2, CleanStep DEF ByPolicy, CopyClean
<1>5. CASE AutoApprove(w)
  <2>1. /\ UNCHANGED flagged /\ pc[w] = "approving" /\ pc'[w] = "publishing"
        /\ invoiceCopy[w] = "validation_passed" /\ on[w] \in Invoices
        /\ \A i \in Invoices \ { on[w] } : approvals'[i] = approvals[i]
    BY <1>0, <1>5 DEF AutoApprove, IInv, TypeOK, SessionOK
  <2>2. ~flagged[on[w]]
    BY <2>1 DEF CleanOK, CopyClean
  <2> QED BY <1>0, <2>1, <2>2, CleanStep DEF ByPolicy, CopyClean
<1>6. CASE FlagAnomalies(w)
  <2>1. /\ UNCHANGED <<approvals, on>> /\ pc[w] = "detecting" /\ pc'[w] = "reloading"
        /\ on[w] \in Invoices /\ flagged' = [flagged EXCEPT ![on[w]] = TRUE]
        /\ \/ invoiceCopy[w] = "validation_passed" /\ invoice'[on[w]] = "review_required"
           \/ invoiceCopy[w] # "validation_passed" /\ invoice' = invoice
    BY <1>0, <1>6 DEF FlagAnomalies, IInv, TypeOK, SessionOK
  <2>2. \A i \in Invoices : flagged'[i] <=> flagged[i] \/ i = on[w]
    BY <2>1 DEF IInv, TypeOK
  <2>3. invoice'[on[w]] # "validation_passed" /\ ~ByPolicy(on[w])
    BY <2>1 DEF CleanOK, CopyClean, StagesOK, AfterOK, After
  <2>4. ASSUME NEW i \in Invoices, flagged'[i] PROVE invoice'[i] # "validation_passed" /\ ~ByPolicy(i)'
    BY <2>1, <2>2, <2>3, <2>4, <1>0 DEF ByPolicy, NoRepass, CleanOK, StagesOK, MarksOK
  <2>5. ASSUME NEW v \in Workers PROVE CopyClean(v)'
    <3>1. CASE v = w
      BY <2>1, <3>1 DEF CopyClean
    <3>2. CASE v # w
      <4>1. /\ v \in Actors /\ pc'[v] = pc[v] /\ on'[v] = on[v] /\ invoiceCopy'[v] = invoiceCopy[v]
        BY <1>0, <3>2 DEF OthersAll, Actors
      <4>2. pc[v] \in { "detecting", "approving" } =>
              on[v] \in Invoices /\ job[on[v]].status = "completed" /\ on[v] # on[w]
        BY <2>1, <3>2, <4>1 DEF IInv, SessionOK, StagesOK, AfterOK, AloneAfter, After
      <4>3. CopyClean(v)
        BY DEF CleanOK
      <4> QED BY <1>0, <2>2, <4>1, <4>2, <4>3 DEF CopyClean, NoRepass
    <3> QED BY <3>1, <3>2
  <2> QED BY <2>4, <2>5 DEF CleanOK, ByPolicy
<1> QED BY <1>1, <1>2, <1>3, <1>4, <1>5, <1>6 DEF WorkerNext, Processing

LEMMA RequestStaysClean ==
  ASSUME IInv, StagesOK, CountOK, CleanOK, overrides <= 2,
         \/ \E o \in Operators : OperatorNext(o)
         \/ \E r \in Reviewers : ReviewerNext(r)
         \/ \E a \in Admins : AdminNext(a)
  PROVE  CleanOK'
<1>1. ASSUME NEW o \in Operators, OperatorNext(o) PROVE CleanOK'
  <2>1. o \in Actors /\ o \notin Workers
    BY DEF Actors
  <2>2. /\ OthersAll(o) /\ UNCHANGED <<flagged, approvals>>
        /\ \A i \in Invoices : invoice'[i] = invoice[i] \/ invoice'[i] = "queued"
    BY <1>1, <2>1 DEF OperatorNext, OpenFailedJob, RequeueGetsInvoice, RequeueRaises, CommitRequeue,
       EnqueueRequeue, OthersAll, IInv, TypeOK
  <2> QED BY <2>1, <2>2, CleanStep DEF NoRepass, ByPolicy
<1>2. ASSUME NEW r \in Reviewers, ReviewerNext(r) PROVE CleanOK'
  <2>1. r \in Actors /\ r \notin Workers
    BY DEF Actors
  <2>2. OthersAll(r) /\ UNCHANGED flagged
    BY <1>2, <2>1 DEF ReviewerNext, OpenInvoice, LeaveReview, SubmitReview, RecordDecision, ReviewFails,
       OthersAll, IInv, TypeOK
  <2>3. CASE RecordDecision(r)
    <3>1. choice[r] \in ReviewDecision /\ WriteChoice(r, "reviewer")
      BY <2>3 DEF RecordDecision, CountOK
    <3>2. \A i \in Invoices : ByPolicy(i)' <=> ByPolicy(i)
      BY <3>1, ChoiceIsNotAuto
    <3>3. NoRepass
      BY <3>1 DEF NoRepass, ReviewDecision, IInv, TypeOK
    <3> QED BY <2>1, <2>2, <3>2, <3>3, CleanStep
  <2>4. CASE ~RecordDecision(r)
    <3>1. UNCHANGED <<invoice, approvals>>
      BY <1>2, <2>4 DEF ReviewerNext, OpenInvoice, LeaveReview, SubmitReview, ReviewFails
    <3> QED BY <2>1, <2>2, <3>1, CleanStep DEF NoRepass, ByPolicy
  <2> QED BY <2>3, <2>4
<1>3. ASSUME NEW a \in Admins, AdminNext(a) PROVE CleanOK'
  <2>1. a \in Actors /\ a \notin Workers
    BY DEF Actors
  <2>2. OthersAll(a) /\ UNCHANGED flagged
    BY <1>3, <2>1 DEF AdminNext, ReadForOverride, CommitOverride, OthersAll, IInv, TypeOK
  <2>3. CASE CommitOverride(a)
    <3>1. choice[a] # "validation_passed" /\ WriteChoice(a, "admin")
      BY <2>3 DEF CommitOverride, CountOK, IInv, TypeOK
    <3>2. \A i \in Invoices : ByPolicy(i)' <=> ByPolicy(i)
      BY <3>1, ChoiceIsNotAuto
    <3>3. NoRepass
      BY <3>1 DEF NoRepass, IInv, TypeOK
    <3> QED BY <2>1, <2>2, <3>2, <3>3, CleanStep
  <2>4. CASE ~CommitOverride(a)
    <3>1. UNCHANGED <<invoice, approvals>>
      BY <1>3, <2>4 DEF AdminNext, ReadForOverride
    <3> QED BY <2>1, <2>2, <3>1, CleanStep DEF NoRepass, ByPolicy
  <2> QED BY <2>3, <2>4
<1> QED BY <1>1, <1>2, <1>3

LEMMA NextClean ==
  ASSUME NoFaults, IInv, DInv, StagesOK, CountOK, CleanOK, overrides <= 2, [Next]_vars
  PROVE  CleanOK'
<1>1. CASE UNCHANGED vars
  BY <1>1 DEF vars, CleanOK, CopyClean, ByPolicy
<1>2. ASSUME NEW i \in Invoices, UploadNext(i) PROVE CleanOK'
  <2>1. /\ UNCHANGED <<flagged, approvals, pc, on, invoiceCopy>>
        /\ \A j \in Invoices : invoice'[j] = invoice[j] \/ invoice'[j] = "queued"
    BY <1>2 DEF UploadNext, Upload, EnqueueUpload, IInv, TypeOK
  <2>2. \A w \in Workers : pc[w] = "detecting" => on[w] \in Invoices
    BY DEF IInv, SessionOK, Actors
  <2> QED BY <2>1, <2>2 DEF CleanOK, CopyClean, ByPolicy
<1> QED BY <1>1, <1>2, NoFaultSteps, WorkerStaysClean, RequestStaysClean DEF Next

\* The number of overrides only grows.
LEMMA OverridesGrow ==
  ASSUME IInv, [Next]_vars
  PROVE  overrides \in Nat /\ overrides' \in Nat /\ overrides <= overrides'
<1>1. overrides \in Nat
  BY DEF IInv, TypeOK
<1>2. CASE UNCHANGED vars
  BY <1>1, <1>2 DEF vars
<1>3. CASE (\E i \in Invoices : UploadNext(i)) \/ (\E w \in Workers : WorkerNext(w)) \/ FaultNext
  BY <1>1, <1>3, WorkerAlone DEF UploadNext, Upload, EnqueueUpload, FaultNext, WorkerCrashes,
     ReloadFails, UploadPushFails, RequeuePushFails
<1>4. CASE (\E o \in Operators : OperatorNext(o)) \/ (\E r \in Reviewers : ReviewerNext(r))
  <2>1. UNCHANGED overrides
    BY <1>4 DEF OperatorNext, OpenFailedJob, RequeueGetsInvoice, RequeueRaises, CommitRequeue,
       EnqueueRequeue, ReviewerNext, OpenInvoice, LeaveReview, SubmitReview, RecordDecision, ReviewFails
  <2> QED BY <1>1, <2>1
<1>5. CASE \E a \in Admins : AdminNext(a)
  <2>1. overrides' = overrides \/ overrides' = overrides + 1
    BY <1>5 DEF AdminNext, ReadForOverride, CommitOverride
  <2> QED BY <1>1, <2>1
<1> QED BY <1>2, <1>3, <1>4, <1>5 DEF Next

\* The policy approves only where detection found nothing
\* (invoice_auto_approval.py:3-4): with one operator and no fault, until admins
\* have overridden a status three times, a flagged invoice carries no automatic
\* approval, in whatever order workers, reviewers and admins commit.
THEOREM AutoApprovalsAreClean ==
  ASSUME OneOperator, NoFaults
  PROVE  Spec => [](overrides <= 2 => AutoApprovedNotFlagged)
<1> DEFINE Inv == IInv /\ DInv /\ StagesOK /\ CountOK /\ (overrides <= 2 => CleanOK)
<1>1. Init => Inv
  BY InitEstablishesIInv, InitDelivers, InitStages, InitCounts, InitClean
<1>2. Inv /\ [Next]_vars => Inv'
  <2> SUFFICES ASSUME Inv, [Next]_vars PROVE Inv'
    OBVIOUS
  <2>1. IInv' /\ DInv' /\ StagesOK' /\ CountOK'
    BY NextPreservesIInv, NextDelivers, NextStages, NextCounts
  <2>2. overrides' <= 2 => CleanOK'
    <3>1. overrides' <= 2 => overrides <= 2
      BY OverridesGrow
    <3> QED BY <3>1, NextClean
  <2> QED BY <2>1, <2>2
<1>3. Inv => (overrides <= 2 => AutoApprovedNotFlagged)
  BY DEF CleanOK, ByPolicy, AutoApprovedNotFlagged
<1> QED BY <1>1, <1>2, <1>3, PTL DEF Spec

-----------------------------------------------------------------------------
(* AgreeOK *)

LEMMA InitAgrees == Init => AgreeOK
BY DEF Init, AgreeOK, RowAgrees, CopyAgrees, NoJob, Actors

\* Where a row may be written while copies of it are about: its status then
\* moves from "validation_passed" to "approved", or its job is not with a worker.
RowMoves(a) == \A i \in Invoices :
    \/ invoice'[i] = invoice[i] /\ job'[i].status = job[i].status
    \/ a \in Workers /\ on[a] = i /\ (InHand(a, i) \/ pc[a] \in After)
    \/ job[i].status \in { "absent", "failed" }
    \/ /\ job'[i].status = job[i].status
       /\ invoice[i] \in { "validation_passed", "review_required" }
       /\ invoice[i] = "validation_passed" => invoice'[i] = "approved"

LEMMA AgreeStep ==
  ASSUME IInv, DInv, StagesOK, AgreeOK, NEW a \in Actors, OthersAll(a), RowMoves(a),
         \A i \in Invoices : RowAgrees(i)', a \in Workers => CopyAgrees(a)'
  PROVE  AgreeOK'
<1>1. ASSUME NEW w \in Workers, w # a PROVE CopyAgrees(w)'
  <2>1. w \in Actors
    BY DEF Actors
  <2>2. pc'[w] = pc[w] /\ on'[w] = on[w] /\ invoiceCopy'[w] = invoiceCopy[w]
    BY <1>1, <2>1 DEF OthersAll
  <2>3. CopyAgrees(w)
    BY DEF AgreeOK
  <2>4. CASE pc[w] = "recording"
    <3>1. on[w] \in Invoices /\ InHand(w, on[w])
      BY <2>1, <2>4 DEF IInv, SessionOK, InHand
    <3>2. job[on[w]].status = "queued" /\ ~InHand(a, on[w])
      BY <1>1, <2>1, <3>1 DEF DInv, Exclusive, RowOK, Held
    <3>3. ~(a \in Workers /\ on[a] = on[w] /\ pc[a] \in After)
      BY <3>2 DEF StagesOK, AfterOK
    <3>4. invoice[on[w]] = "queued"
      BY <3>1, <3>2 DEF AgreeOK, RowAgrees
    <3>5. invoice'[on[w]] = invoice[on[w]]
      BY <3>1, <3>2, <3>3, <3>4 DEF RowMoves
    <3> QED BY <2>2, <2>3, <2>4, <3>5 DEF CopyAgrees
  <2>5. CASE pc[w] \in { "detecting", "approving" }
    <3>1. on[w] \in Invoices /\ pc[w] \in After
      BY <2>1, <2>5 DEF IInv, SessionOK, After
    <3>2. job[on[w]].status = "completed"
      BY <3>1 DEF StagesOK, AfterOK
    <3>3. ~(a \in Workers /\ on[a] = on[w] /\ pc[a] \in After)
      BY <1>1, <3>1 DEF StagesOK, AloneAfter
    <3>4. ~InHand(a, on[w])
      BY <3>1, <3>2 DEF DInv, RowOK, Held
    <3>5. \/ invoice'[on[w]] = invoice[on[w]]
          \/ /\ invoice[on[w]] \in { "validation_passed", "review_required" }
             /\ invoice[on[w]] = "validation_passed" => invoice'[on[w]] = "approved"
      BY <3>1, <3>2, <3>3, <3>4 DEF RowMoves
    <3> QED BY <2>2, <2>3, <2>5, <3>5 DEF CopyAgrees
  <2>6. CASE pc[w] \notin { "recording", "detecting", "approving" }
    BY <2>2, <2>6 DEF CopyAgrees
  <2> QED BY <2>4, <2>5, <2>6
<1> QED BY <1>1 DEF AgreeOK

\* A step that writes neither statuses nor a copy that matters.
LEMMA ColdStep ==
  ASSUME IInv, DInv, StagesOK, AgreeOK, NEW a \in Actors, OthersAll(a), UNCHANGED <<job, invoice>>,
         a \in Workers => CopyAgrees(a)'
  PROVE  AgreeOK' /\ (\A i \in Invoices : invoice[i] = "rejected" => invoice'[i] = "rejected")
<1>1. RowMoves(a) /\ \A i \in Invoices : RowAgrees(i)'
  BY DEF RowMoves, AgreeOK, RowAgrees
<1> QED BY <1>1, AgreeStep

\* What every step shows.
Stands == AgreeOK' /\ \A i \in Invoices : invoice[i] = "rejected" => invoice'[i] = "rejected"

LEMMA UploadAgrees ==
  ASSUME IInv, DInv, StagesOK, AgreeOK, NEW i \in Invoices, UploadNext(i)
  PROVE  Stands
<1>0. UNCHANGED <<pc, on, invoiceCopy>>
  BY DEF UploadNext, Upload, EnqueueUpload
<1>1. CASE Upload(i)
  <2>1. /\ job[i].status = "absent" /\ invoice[i] = "absent"
        /\ job' = [job EXCEPT ![i] = [status |-> "queued", attempts |-> 0]]
        /\ invoice' = [invoice EXCEPT ![i] = "queued"]
    BY <1>1 DEF Upload, IInv, ExistenceOK
  <2>2. \A j \in Invoices : j # i => job'[j] = job[j] /\ invoice'[j] = invoice[j]
    BY <2>1 DEF IInv, TypeOK
  <2>3. \A j \in Invoices : RowAgrees(j)'
    BY <2>1, <2>2 DEF AgreeOK, RowAgrees, IInv, TypeOK
  <2>4. ASSUME NEW w \in Workers PROVE CopyAgrees(w)'
    <3>1. w \in Actors
      BY DEF Actors
    <3>2. pc[w] \in { "recording", "detecting", "approving" } => on[w] \in Invoices /\ on[w] # i
      BY <2>1, <3>1 DEF IInv, SessionOK, ExistenceOK, Known
    <3> QED BY <1>0, <2>2, <3>2 DEF AgreeOK, CopyAgrees
  <2> QED BY <2>1, <2>2, <2>3, <2>4 DEF Stands, AgreeOK
<1>2. CASE EnqueueUpload(i)
  BY <1>0, <1>2 DEF EnqueueUpload, Stands, AgreeOK, RowAgrees, CopyAgrees
<1> QED BY <1>1, <1>2 DEF UploadNext

LEMMA PollingAgrees ==
  ASSUME IInv, DInv, StagesOK, AgreeOK, NEW w \in Workers, Polling(w)
  PROVE  Stands
<1>0. w \in Actors /\ OthersAll(w)
  BY WorkerAlone DEF Actors, WorkerNext
<1>1. UNCHANGED <<job, invoice>> /\ pc'[w] \notin { "recording", "detecting", "approving" }
  BY <1>0 DEF Polling, ScanDue, RemoveDue, PushDue, Dequeue, PollTimesOut, IInv, TypeOK
<1> QED BY <1>0, <1>1, ColdStep DEF Stands, CopyAgrees

LEMMA ProcessingAgrees ==
  ASSUME IInv, DInv, StagesOK, AgreeOK, NEW w \in Workers, Processing(w)
  PROVE  Stands
<1>0. w \in Actors /\ OthersAll(w)
  BY WorkerAlone DEF Actors, WorkerNext
<1>1. CASE GetJob(w) \/ SkipIneligible(w) \/ GetInvoice(w) \/ TransitionRaises(w)
           \/ BeginProcessing(w) \/ PublishCompletion(w) \/ DetectionFails(w) \/ SkipAutoApproval(w)
           \/ (\E kind \in { "retryable", "permanent" } : ExtractionFails(w, kind))
  <2>1. UNCHANGED <<job, invoice>> /\ pc'[w] \notin { "recording", "detecting", "approving" }
    BY <1>0, <1>1 DEF GetJob, SkipIneligible, GetInvoice, TransitionRaises, BeginProcessing,
       PublishCompletion, ExtractionFails, DetectionFails, SkipAutoApproval, IInv, TypeOK
  <2> QED BY <1>0, <2>1, ColdStep DEF Stands, CopyAgrees
<1>2. CASE EmbedInvoice(w) \/ ReloadInvoice(w)
  <2>1. UNCHANGED <<job, invoice, on>> /\ invoiceCopy'[w] = invoice[on[w]]
    BY <1>0, <1>2 DEF EmbedInvoice, ReloadInvoice, IInv, TypeOK
  <2> QED BY <1>0, <2>1, ColdStep DEF Stands, CopyAgrees
<1>3. CASE NoAnomaly(w)
  <2>1. UNCHANGED <<job, invoice, on, invoiceCopy>> /\ pc[w] = "detecting" /\ pc'[w] = "approving"
    BY <1>0, <1>3 DEF NoAnomaly, IInv, TypeOK
  <2> QED BY <1>0, <2>1, ColdStep DEF Stands, CopyAgrees, AgreeOK
<1>4. ASSUME NEW verdict \in ExtractionVerdict, NEW confidence \in { "confident", "unsure" },
             CommitExtraction(w, verdict, confidence)
      PROVE  Stands
  <2>1. pc[w] = "extracting" /\ on[w] \in Invoices /\ InHand(w, on[w])
    BY <1>0, <1>4 DEF CommitExtraction, IInv, SessionOK, InHand
  <2>2. job[on[w]].status = "queued"
    BY <1>0, <2>1 DEF DInv, RowOK, Held
  <2>3. /\ \A i \in Invoices \ { on[w] } : job'[i] = job[i] /\ invoice'[i] = invoice[i]
        /\ job'[on[w]].status = "completed" /\ invoice'[on[w]] = verdict /\ pc'[w] = "committed"
    BY <1>0, <1>4, <2>1 DEF CommitExtraction, IInv, TypeOK
  <2>4. \A i \in Invoices : RowAgrees(i)'
    BY <2>3 DEF AgreeOK, RowAgrees, ExtractionVerdict, Settled
  <2>5. RowMoves(w) /\ CopyAgrees(w)'
    BY <2>1, <2>3 DEF RowMoves, CopyAgrees
  <2>6. invoice[on[w]] # "rejected"
    BY <2>1, <2>2 DEF AgreeOK, RowAgrees
  <2> QED BY <1>0, <2>3, <2>4, <2>5, <2>6, AgreeStep DEF Stands
<1>5. CASE FlagAnomalies(w) \/ AutoApprove(w)
  <2>1. /\ pc[w] \in { "detecting", "approving" } /\ on[w] \in Invoices /\ UNCHANGED job
        /\ pc'[w] \notin { "recording", "detecting", "approving" }
        /\ \/ UNCHANGED invoice
           \/ /\ invoiceCopy[w] = "validation_passed"
              /\ \A i \in Invoices \ { on[w] } : invoice'[i] = invoice[i]
              /\ invoice'[on[w]] \in Settled
    <3>1. CASE FlagAnomalies(w)
      BY <1>0, <3>1 DEF FlagAnomalies, IInv, TypeOK, SessionOK, Settled
    <3>2. CASE AutoApprove(w)
      BY <1>0, <3>2 DEF AutoApprove, IInv, TypeOK, SessionOK, Settled
    <3> QED BY <1>5, <3>1, <3>2
  <2>2. CopyAgrees(w)'
    BY <2>1 DEF CopyAgrees
  <2>3. CASE UNCHANGED invoice
    BY <1>0, <2>1, <2>2, <2>3, ColdStep DEF Stands
  <2>4. CASE ~UNCHANGED invoice
    <3>1. job[on[w]].status = "completed"
      BY <2>1 DEF StagesOK, AfterOK, After
    <3>2. invoice[on[w]] \in { "validation_passed", "approved" }
      BY <2>1, <2>4 DEF AgreeOK, CopyAgrees
    <3>3. \A i \in Invoices : RowAgrees(i)'
      BY <2>1, <2>4, <3>1 DEF AgreeOK, RowAgrees
    <3>4. RowMoves(w)
      BY <2>1, <2>4 DEF RowMoves, After
    <3> QED BY <1>0, <2>1, <2>2, <2>4, <3>2, <3>3, <3>4, AgreeStep DEF Stands
  <2> QED BY <2>3, <2>4
<1> QED BY <1>1, <1>2, <1>3, <1>4, <1>5 DEF Processing

LEMMA FailureAgrees ==
  ASSUME IInv, DInv, StagesOK, AgreeOK, NEW w \in Workers, Failure(w)
  PROVE  Stands
<1>0. w \in Actors /\ OthersAll(w)
  BY WorkerAlone DEF Actors, WorkerNext
<1>1. CASE FailureGetsJob(w) \/ EnqueueRetry(w)
  <2>1. UNCHANGED <<job, invoice>> /\ pc'[w] \notin { "recording", "detecting", "approving" }
    BY <1>0, <1>1 DEF FailureGetsJob, EnqueueRetry, IInv, TypeOK
  <2> QED BY <1>0, <2>1, ColdStep DEF Stands, CopyAgrees
<1>2. CASE FailureGetsInvoice(w)
  <2>1. UNCHANGED <<job, invoice, on>> /\ invoiceCopy'[w] = invoice[on[w]] /\ pc'[w] = "recording"
    BY <1>0, <1>2 DEF FailureGetsInvoice, IInv, TypeOK
  <2> QED BY <1>0, <2>1, ColdStep DEF Stands, CopyAgrees
<1>3. ASSUME NEW status \in { "queued", "failed" }, pc[w] = "recording", WriteFailure(w, status),
             pc'[w] \in { "rescheduling", "idle" }
      PROVE  Stands
  <2>1. on[w] \in Invoices /\ InHand(w, on[w])
    BY <1>0, <1>3 DEF IInv, SessionOK, InHand
  <2>2. job[on[w]].status = "queued" /\ jobCopy[w] = job[on[w]]
    BY <1>0, <1>3, <2>1 DEF DInv, RowOK, Held, OwnOK, Copied
  <2>3. invoice[on[w]] = "queued" /\ invoiceCopy[w] = "queued"
    BY <1>3, <2>1, <2>2 DEF AgreeOK, RowAgrees, CopyAgrees
  <2>4. /\ \A i \in Invoices \ { on[w] } : job'[i] = job[i] /\ invoice'[i] = invoice[i]
        /\ job'[on[w]].status = status /\ invoice'[on[w]] = status
    BY <1>3, <2>1, <2>2, <2>3 DEF WriteFailure, Written, IInv, TypeOK
  <2>5. \A i \in Invoices : RowAgrees(i)'
    BY <2>4 DEF AgreeOK, RowAgrees
  <2>6. RowMoves(w) /\ CopyAgrees(w)'
    BY <1>3, <2>1, <2>4 DEF RowMoves, CopyAgrees
  <2> QED BY <1>0, <2>3, <2>4, <2>5, <2>6, AgreeStep DEF Stands
<1>4. CASE ScheduleRetry(w)
  BY <1>0, <1>3, <1>4 DEF ScheduleRetry, IInv, TypeOK
<1>5. CASE MarkFailed(w)
  BY <1>0, <1>3, <1>5 DEF MarkFailed, IInv, TypeOK
<1> QED BY <1>1, <1>2, <1>4, <1>5 DEF Failure

LEMMA OperatorAgrees ==
  ASSUME IInv, DInv, StagesOK, AgreeOK, NEW o \in Operators, OperatorNext(o)
  PROVE  Stands
<1>0. o \in Actors /\ o \notin Workers
  BY DEF Actors
<1>1. OthersAll(o)
  BY <1>0 DEF OperatorNext, OpenFailedJob, RequeueGetsInvoice, RequeueRaises, CommitRequeue,
     EnqueueRequeue, OthersAll, IInv, TypeOK
<1>2. CASE CommitRequeue(o)
  <2>1. on[o] \in Invoices /\ pc[o] = "requeuing"
    BY <1>0, <1>2 DEF CommitRequeue, IInv, SessionOK
  <2>2. job[on[o]].status = "failed"
    BY <1>0, <2>1 DEF DInv, OwnOK
  <2>3. /\ \A i \in Invoices \ { on[o] } : job'[i] = job[i] /\ invoice'[i] = invoice[i]
        /\ job'[on[o]].status = "queued" /\ invoice'[on[o]] = "queued"
    BY <1>2, <2>1 DEF CommitRequeue, IInv, TypeOK
  <2>4. \A i \in Invoices : RowAgrees(i)'
    BY <2>3 DEF AgreeOK, RowAgrees
  <2>5. RowMoves(o)
    BY <2>2, <2>3 DEF RowMoves
  <2>6. invoice[on[o]] # "rejected"
    BY <2>1, <2>2 DEF AgreeOK, RowAgrees
  <2> QED BY <1>0, <1>1, <2>3, <2>4, <2>5, <2>6, AgreeStep DEF Stands
<1>3. CASE ~CommitRequeue(o)
  <2>1. UNCHANGED <<job, invoice>>
    BY <1>3 DEF OperatorNext, OpenFailedJob, RequeueGetsInvoice, RequeueRaises, EnqueueRequeue
  <2> QED BY <1>0, <1>1, <2>1, ColdStep DEF Stands
<1> QED BY <1>2, <1>3

\* A reviewer decides on what the row is, and so never on a rejected one.
LEMMA ReviewerAgrees ==
  ASSUME IInv, DInv, StagesOK, CountOK, AgreeOK, NEW r \in Reviewers, ReviewerNext(r)
  PROVE  Stands
<1>0. r \in Actors /\ r \notin Workers
  BY DEF Actors
<1>1. OthersAll(r)
  BY <1>0 DEF ReviewerNext, OpenInvoice, LeaveReview, SubmitReview, RecordDecision, ReviewFails,
     OthersAll, IInv, TypeOK
<1>2. CASE RecordDecision(r)
  <2>1. on[r] \in Invoices /\ pc[r] = "deciding" /\ choice[r] \in { "approved", "rejected" }
    BY <1>0, <1>2 DEF RecordDecision, IInv, SessionOK, CountOK, ReviewDecision
  <2>2. CanTransition(invoice[on[r]], choice[r])
    BY <2>1 DEF IInv, ReviewerHoldsCurrentRow
  <2>3. invoice[on[r]] \in InvoiceStatus
    BY <2>1, <1>0 DEF IInv, TypeOK, ExistenceOK, Known, CommittedInvoiceStatus
  <2>4. /\ invoice[on[r]] \in { "validation_passed", "review_required" }
        /\ invoice[on[r]] = "validation_passed" => choice[r] = "approved"
    BY <2>1, <2>2, <2>3 DEF CanTransition, AllowedTransitions, InvoiceStatus
  <2>5. /\ \A i \in Invoices \ { on[r] } : invoice'[i] = invoice[i]
        /\ invoice'[on[r]] = choice[r] /\ UNCHANGED job
    BY <1>2, <2>1 DEF RecordDecision, IInv, TypeOK
  <2>6. \A i \in Invoices : RowAgrees(i)'
    <3>1. job[on[r]].status \notin { "queued", "failed" }
      BY <2>1, <2>4 DEF AgreeOK, RowAgrees
    <3>2. ASSUME NEW i \in Invoices, i = on[r] PROVE RowAgrees(i)'
      BY <2>1, <2>5, <3>1, <3>2 DEF RowAgrees, Settled
    <3>3. ASSUME NEW i \in Invoices, i # on[r] PROVE RowAgrees(i)'
      BY <2>5, <3>3 DEF AgreeOK, RowAgrees
    <3> QED BY <3>2, <3>3
  <2>7. RowMoves(r)
    BY <2>4, <2>5 DEF RowMoves
  <2> QED BY <1>0, <1>1, <2>4, <2>5, <2>6, <2>7, AgreeStep DEF Stands
<1>3. CASE ~RecordDecision(r)
  <2>1. UNCHANGED <<job, invoice>>
    BY <1>3 DEF ReviewerNext, OpenInvoice, LeaveReview, SubmitReview, ReviewFails
  <2> QED BY <1>0, <1>1, <2>1, ColdStep DEF Stands
<1> QED BY <1>2, <1>3

LEMMA NextAgrees ==
  ASSUME NoFaults, NoOverrides, IInv, DInv, StagesOK, CountOK, AgreeOK, [Next]_vars
  PROVE  Stands
<1>1. CASE UNCHANGED vars
  BY <1>1 DEF vars, Stands, AgreeOK, RowAgrees, CopyAgrees
<1>2. overrides = 0 /\ MaxOverrides = 0
  BY DEF NoOverrides, CountOK, IInv, TypeOK
<1>3. ASSUME NEW a \in Admins PROVE ~AdminNext(a)
  BY <1>2 DEF AdminNext, ReadForOverride, CommitOverride, CountOK
<1> QED BY <1>1, <1>3, NoFaultSteps, UploadAgrees, PollingAgrees, ProcessingAgrees, FailureAgrees,
           OperatorAgrees, ReviewerAgrees DEF Next, WorkerNext

\* A reviewer's rejection stands against the workers' older copies: where no
\* admin overrides, one operator at a time reprocesses and nothing fails, no
\* later commit of anyone moves a rejected invoice.
THEOREM RejectionsStand ==
  ASSUME OneOperator, NoFaults, NoOverrides
  PROVE  Spec => RejectionIsFinal
<1> DEFINE Inv == IInv /\ DInv /\ StagesOK /\ CountOK /\ AgreeOK
<1>1. Init => Inv
  BY InitEstablishesIInv, InitDelivers, InitStages, InitCounts, InitAgrees
<1>2. Inv /\ [Next]_vars => Inv'
  BY NextPreservesIInv, NextDelivers, NextStages, NextCounts, NextAgrees DEF Stands
<1>3. Inv /\ [Next]_vars =>
        [\A i \in Invoices : invoice[i] = "rejected" => invoice'[i] = "rejected"]_vars
  BY NextAgrees DEF Stands
<1> QED BY <1>1, <1>2, <1>3, PTL DEF Spec, RejectionIsFinal

-----------------------------------------------------------------------------
(* The audit trail of invoices *)

\* A failure apart, the last event of the invoice tells its status.
ToldOK == \A i \in Invoices : invoice[i] = "failed" \/ invoiceTrail[i] = invoice[i]

\* A step that writes row i with its event, or fails it, or changes nothing of it.
LEMMA ToldStep ==
  ASSUME ToldOK,
         \A i \in Invoices : \/ invoice'[i] = invoice[i] /\ invoiceTrail'[i] = invoiceTrail[i]
                             \/ invoiceTrail'[i] = invoice'[i]
                             \/ invoice'[i] = "failed"
  PROVE  ToldOK'
BY DEF ToldOK

\* A failure is recorded of a queued row: it stays queued, or fails.
LEMMA FailureTells ==
  ASSUME IInv, DInv, AgreeOK, ToldOK, NEW w \in Workers, NEW status \in { "queued", "failed" },
         pc[w] = "recording", WriteFailure(w, status)
  PROVE  ToldOK'
<1>1. w \in Actors /\ on[w] \in Invoices /\ InHand(w, on[w])
  BY DEF Actors, IInv, SessionOK, InHand
<1>2. job[on[w]].status = "queued"
  BY <1>1 DEF DInv, RowOK, Held
<1>3. invoice[on[w]] = "queued" /\ invoiceCopy[w] = "queued"
  BY <1>1, <1>2 DEF AgreeOK, RowAgrees, CopyAgrees
<1>4. /\ UNCHANGED invoiceTrail
      /\ \A i \in Invoices \ { on[w] } : invoice'[i] = invoice[i]
      /\ invoice'[on[w]] = status
  BY <1>1, <1>3 DEF WriteFailure, Written, IInv, TypeOK
<1> QED BY <1>3, <1>4, ToldStep

LEMMA WorkerTells ==
  ASSUME IInv, DInv, AgreeOK, ToldOK, NEW w \in Workers, WorkerNext(w)
  PROVE  ToldOK'
<1>0. w \in Actors /\ (pc[w] \in { "extracting", "detecting", "approving" } => on[w] \in Invoices)
  BY DEF Actors, IInv, SessionOK
<1>1. CASE Polling(w)
  BY <1>1, ToldStep DEF Polling, ScanDue, RemoveDue, PushDue, Dequeue, PollTimesOut, shared, db
<1>2. CASE Processing(w)
  <2>1. ASSUME NEW verdict \in ExtractionVerdict, NEW confidence \in { "confident", "unsure" },
               CommitExtraction(w, verdict, confidence)
        PROVE  ToldOK'
    BY <1>0, <2>1, ToldStep DEF CommitExtraction, IInv, TypeOK
  <2>2. CASE FlagAnomalies(w)
    BY <1>0, <2>2, ToldStep DEF FlagAnomalies, IInv, TypeOK
  <2>3. CASE AutoApprove(w)
    BY <1>0, <2>3, ToldStep DEF AutoApprove, IInv, TypeOK
  <2>4. CASE UNCHANGED <<invoice, invoiceTrail>>
    BY <2>4, ToldStep
  <2>5. \/ \E verdict \in ExtractionVerdict, confidence \in { "confident", "unsure" } :
              CommitExtraction(w, verdict, confidence)
        \/ FlagAnomalies(w) \/ AutoApprove(w) \/ UNCHANGED <<invoice, invoiceTrail>>
    BY <1>2 DEF Processing, GetJob, SkipIneligible, GetInvoice, TransitionRaises, BeginProcessing,
       ExtractionFails, EmbedInvoice, NoAnomaly, DetectionFails, ReloadInvoice, SkipAutoApproval,
       PublishCompletion, Reload, shared, db
  <2> QED BY <2>1, <2>2, <2>3, <2>4, <2>5
<1>3. CASE Failure(w)
  <2>1. CASE ScheduleRetry(w)
    BY <2>1, FailureTells DEF ScheduleRetry
  <2>2. CASE MarkFailed(w)
    BY <2>2, FailureTells DEF MarkFailed
  <2>3. CASE FailureGetsJob(w) \/ FailureGetsInvoice(w) \/ EnqueueRetry(w)
    BY <2>3, ToldStep DEF FailureGetsJob, FailureGetsInvoice, Reload, EnqueueRetry, shared, db
  <2> QED BY <1>3, <2>1, <2>2, <2>3 DEF Failure
<1> QED BY <1>1, <1>2, <1>3 DEF WorkerNext

LEMMA StaffTells ==
  ASSUME IInv, ToldOK,
         \/ \E i \in Invoices : UploadNext(i)
         \/ \E o \in Operators : OperatorNext(o)
         \/ \E r \in Reviewers : ReviewerNext(r)
  PROVE  ToldOK'
<1>1. ASSUME NEW i \in Invoices, UploadNext(i) PROVE ToldOK'
  BY <1>1, ToldStep DEF UploadNext, Upload, EnqueueUpload, db, IInv, TypeOK
<1>2. ASSUME NEW o \in Operators, OperatorNext(o) PROVE ToldOK'
  <2>1. CASE CommitRequeue(o)
    <3>1. on[o] \in Invoices
      BY <2>1 DEF CommitRequeue, IInv, SessionOK, Actors
    <3> QED BY <2>1, <3>1, ToldStep DEF CommitRequeue, IInv, TypeOK
  <2>2. CASE ~CommitRequeue(o)
    BY <1>2, <2>2, ToldStep DEF OperatorNext, OpenFailedJob, RequeueGetsInvoice, RequeueRaises,
       EnqueueRequeue, shared, db
  <2> QED BY <2>1, <2>2
<1>3. ASSUME NEW r \in Reviewers, ReviewerNext(r) PROVE ToldOK'
  <2>1. CASE RecordDecision(r)
    <3>1. on[r] \in Invoices
      BY <2>1 DEF RecordDecision, IInv, SessionOK, Actors
    <3> QED BY <2>1, <3>1, ToldStep DEF RecordDecision, WriteChoice, IInv, TypeOK
  <2>2. CASE ~RecordDecision(r)
    BY <1>3, <2>2, ToldStep DEF ReviewerNext, OpenInvoice, LeaveReview, SubmitReview, ReviewFails,
       shared, db
  <2> QED BY <2>1, <2>2
<1> QED BY <1>1, <1>2, <1>3

\* With one operator, no override and no fault, the trails of invoice and job
\* together tell every invoice's status, the unaudited failures included.
THEOREM TrailsAreTrue ==
  ASSUME OneOperator, NoFaults, NoOverrides
  PROVE  Spec => []TrailsTellTheInvoice
<1> DEFINE Inv == IInv /\ DInv /\ StagesOK /\ CountOK /\ AgreeOK /\ ToldOK
<1>1. Init => Inv
  <2>1. Init => ToldOK
    BY DEF Init, ToldOK
  <2> QED BY <2>1, InitEstablishesIInv, InitDelivers, InitStages, InitCounts, InitAgrees
<1>2. Inv /\ [Next]_vars => Inv'
  <2> SUFFICES ASSUME Inv, [Next]_vars PROVE ToldOK'
    BY NextPreservesIInv, NextDelivers, NextStages, NextCounts, NextAgrees DEF Stands
  <2>1. CASE UNCHANGED vars
    BY <2>1 DEF vars, db, ToldOK
  <2>2. ASSUME NEW a \in Admins PROVE ~AdminNext(a)
    BY DEF NoOverrides, AdminNext, ReadForOverride, CommitOverride, CountOK, IInv, TypeOK
  <2> QED BY <2>1, <2>2, NoFaultSteps, WorkerTells, StaffTells DEF Next
<1>3. Inv => TrailsTellTheInvoice
  <2> SUFFICES ASSUME Inv, NEW i \in Invoices
               PROVE  invoice[i] = IF jobTrail[i] = "failed" THEN "failed" ELSE invoiceTrail[i]
    BY DEF TrailsTellTheInvoice
  <2>1. jobTrail[i] = job[i].status /\ job[i].status \in CommittedJobStatus
    BY DEF DInv, RowOK, IInv, TypeOK, JobRow
  <2>2. RowAgrees(i) /\ (job[i].status = "absent" => invoice[i] = "absent")
    BY DEF AgreeOK, IInv, ExistenceOK
  <2> QED BY <2>1, <2>2 DEF ToldOK, RowAgrees, Settled, CommittedJobStatus
<1> QED BY <1>1, <1>2, <1>3, PTL DEF Spec

-----------------------------------------------------------------------------
(* Extractions.  With any number of operators and every fault, the places     *)
(* an id is in are counted, and each is paid for.                             *)

\* The places of an id, counted: its slots on the list and the hands it is in,
\* those of an operator who is still to reset the job included.
Slots(i) == { k \in 1..Len(queue) : queue[k] = i }

Takes(a, i) ==
    InHand(a, i) \/ (a \in Operators /\ on[a] = i /\ pc[a] \in { "gotJob", "requeuing" })

Hands(i) == { a \in Actors : Takes(a, i) }

Bit(x, S) == IF x \in S THEN 1 ELSE 0

\* Extractions an invoice has had and may yet get, its upload's included.
Ready(i) == Bit(job[i].status, { "absent" }) + Bit(i, delayed) + Bit(i, uploading)

Owed(i) == extractions[i] + Cardinality(Slots(i)) + Ready(i) + Cardinality(Hands(i))

PaidOK == \A i \in Invoices :
    IsFiniteSet(Hands(i)) /\ Owed(i) <= 1 + requeues[i] + faults

\* A push adds a slot of the id pushed.
LEMMA PushedSlots ==
  ASSUME TypeOK, NEW j \in Invoices, queue' = Append(queue, j), NEW i \in Invoices
  PROVE  /\ Cardinality(Slots(i)) \in Nat /\ Cardinality(Slots(i)') \in Nat
         /\ Cardinality(Slots(i)') = Cardinality(Slots(i)) + Bit(i, { j })
<1>1. queue \in Seq(Invoices) /\ Len(queue) \in Nat
  BY DEF TypeOK
<1>2. Len(queue') = Len(queue) + 1
      /\ \A k \in 1..Len(queue) + 1 : queue'[k] = IF k = Len(queue) + 1 THEN j ELSE queue[k]
  BY <1>1
<1>3. Slots(i)' = IF i = j THEN Slots(i) \cup { Len(queue) + 1 } ELSE Slots(i)
  BY <1>1, <1>2 DEF Slots
<1>4. Len(queue) + 1 \notin Slots(i)
  BY <1>1 DEF Slots
<1>5. IsFiniteSet(Slots(i))
  <2>1. Slots(i) \in SUBSET (1..Len(queue)) /\ IsFiniteSet(1..Len(queue))
    BY <1>1, FS_Interval DEF Slots
  <2> QED BY <2>1, FS_Subset
<1>6. /\ Cardinality(Slots(i)) \in Nat
      /\ Cardinality(Slots(i) \cup { Len(queue) + 1 }) = Cardinality(Slots(i)) + 1
  BY <1>4, <1>5, FS_CardinalityType, FS_AddElement
<1> QED BY <1>3, <1>6 DEF Bit

\* A pop takes the slot of the id popped; the others move up.
LEMMA PoppedSlots ==
  ASSUME TypeOK, queue # << >>, queue' = Tail(queue), NEW i \in Invoices
  PROVE  /\ Cardinality(Slots(i)) \in Nat /\ Cardinality(Slots(i)') \in Nat
         /\ Cardinality(Slots(i)) = Cardinality(Slots(i)') + Bit(i, { Head(queue) })
<1>1. queue \in Seq(Invoices) /\ Len(queue) \in Nat /\ Len(queue) >= 1 /\ Head(queue) = queue[1]
  BY DEF TypeOK
<1>2. Len(queue') = Len(queue) - 1 /\ \A k \in 1..Len(queue) - 1 : queue'[k] = queue[k + 1]
  BY <1>1
<1>3. IsFiniteSet(Slots(i)) /\ IsFiniteSet(Slots(i)')
  <2>1. Slots(i) \in SUBSET (1..Len(queue)) /\ Slots(i)' \in SUBSET (1..Len(queue))
    BY <1>1, <1>2 DEF Slots
  <2>2. IsFiniteSet(1..Len(queue))
    BY <1>1, FS_Interval
  <2>3. \A S \in SUBSET (1..Len(queue)) : IsFiniteSet(S)
    BY <2>2, FS_Subset
  <2> QED BY <2>1, <2>3
<1>4. ExistsBijection(Slots(i)', Slots(i) \ { 1 })
  <2> DEFINE up == [k \in Slots(i)' |-> k + 1]
  <2>1. \A k \in Slots(i)' : k \in Nat /\ k + 1 \in Slots(i) \ { 1 }
    BY <1>1, <1>2 DEF Slots
  <2>2. \A k \in Slots(i) \ { 1 } : k - 1 \in Slots(i)' /\ (k - 1) + 1 = k
    BY <1>1, <1>2 DEF Slots
  <2>3. up \in [Slots(i)' -> Slots(i) \ { 1 }]
    BY <2>1
  <2>4. \A k, l \in Slots(i)' : up[k] = up[l] => k = l
    BY <2>1
  <2>5. \A k \in Slots(i) \ { 1 } : \E l \in Slots(i)' : up[l] = k
    BY <2>2
  <2> QED BY <2>3, <2>4, <2>5 DEF ExistsBijection, Bijection, Injection, Surjection, IsInjective
<1>5. Cardinality(Slots(i)') = Cardinality(Slots(i) \ { 1 })
  BY <1>3, <1>4, FS_Bijection
<1>6. 1 \in Slots(i) <=> i = Head(queue)
  BY <1>1 DEF Slots
<1> QED BY <1>3, <1>5, <1>6, FS_RemoveElement, FS_CardinalityType DEF Bit

LEMMA KeptSlots ==
  ASSUME TypeOK, UNCHANGED queue, NEW i \in Invoices
  PROVE  Cardinality(Slots(i)) \in Nat /\ Cardinality(Slots(i)') = Cardinality(Slots(i))
<1>1. queue \in Seq(Invoices) /\ Len(queue) \in Nat
  BY DEF TypeOK
<1>2. Slots(i) \in SUBSET (1..Len(queue)) /\ IsFiniteSet(1..Len(queue))
  BY <1>1, FS_Interval DEF Slots
<1> QED BY <1>2, FS_Subset, FS_CardinalityType DEF Slots

\* A finite set and what one element more makes of it.
LEMMA OneMore ==
  ASSUME NEW R, NEW S, NEW x, IsFiniteSet(R), S \ {x} = R
  PROVE  IsFiniteSet(S) /\ Cardinality(R) \in Nat /\ Cardinality(S) = Cardinality(R) + Bit(x, S)
<1>1. Cardinality(R) \in Nat
  BY FS_CardinalityType
<1>2. CASE x \in S
  <2>1. S = R \cup {x} /\ x \notin R
    BY <1>2
  <2>2. IsFiniteSet(R \cup {x}) /\ Cardinality(R \cup {x}) = Cardinality(R) + 1
    BY <2>1, FS_AddElement
  <2> QED BY <1>1, <1>2, <2>1, <2>2, Zenon DEF Bit
<1>3. CASE x \notin S
  <2>1. S = R
    BY <1>3
  <2>2. Cardinality(R) + 0 = Cardinality(R)
    BY <1>1
  <2> QED BY <1>1, <1>3, <2>1, <2>2, Zenon DEF Bit
<1> QED BY <1>2, <1>3

\* Only its own hand changes in an actor's step.
LEMMA HandsStep ==
  ASSUME NEW a \in Actors, NEW i \in Invoices, IsFiniteSet(Hands(i)),
         \A b \in Actors \ {a} : pc'[b] = pc[b] /\ on'[b] = on[b]
  PROVE  /\ IsFiniteSet(Hands(i)')
         /\ Cardinality(Hands(i)) \in Nat /\ Cardinality(Hands(i)') \in Nat
         /\ Cardinality(Hands(i)') + Bit(a, Hands(i)) = Cardinality(Hands(i)) + Bit(a, Hands(i)')
<1> DEFINE R == Hands(i) \ {a}
<1>1. \A b \in Actors \ {a} : Takes(b, i)' <=> Takes(b, i)
  BY DEF Takes, InHand
<1>2. Hands(i)' \ {a} = R
  BY <1>1 DEF Hands
<1>3. IsFiniteSet(R)
  BY FS_RemoveElement
<1>4. IsFiniteSet(Hands(i)') /\ Cardinality(Hands(i)') = Cardinality(R) + Bit(a, Hands(i)')
  BY <1>2, <1>3, OneMore
<1>5. Cardinality(R) \in Nat /\ Cardinality(Hands(i)) = Cardinality(R) + Bit(a, Hands(i))
  BY <1>3, OneMore
<1>6. Bit(a, Hands(i)) \in Nat /\ Bit(a, Hands(i)') \in Nat
  BY DEF Bit
<1> HIDE DEF R
<1> QED BY <1>4, <1>5, <1>6

-----------------------------------------------------------------------------
(* What a step adds is paid for *)

LEMMA Counts ==
  ASSUME TypeOK, TypeOK', NEW i \in Invoices
  PROVE  /\ extractions[i] \in Nat /\ requeues[i] \in Nat /\ faults \in Nat /\ Ready(i) \in Nat
         /\ extractions'[i] \in Nat /\ requeues'[i] \in Nat /\ faults' \in Nat /\ Ready(i)' \in Nat
<1>1. Ready(i) \in Nat /\ Ready(i)' \in Nat
  BY DEF Ready, Bit
<1>2. /\ extractions[i] \in Nat /\ requeues[i] \in Nat /\ faults \in Nat
      /\ extractions'[i] \in Nat /\ requeues'[i] \in Nat /\ faults' \in Nat
  BY DEF TypeOK
<1> QED BY <1>1, <1>2

LEMMA InitPaid == Init => PaidOK
<1> SUFFICES ASSUME Init, NEW i \in Invoices PROVE IsFiniteSet(Hands(i)) /\ Owed(i) <= 1 + requeues[i] + faults
  BY DEF PaidOK
<1>1. Hands(i) = {} /\ Slots(i) = {} /\ Ready(i) = 1
  BY DEF Init, Hands, Takes, InHand, Slots, Ready, Bit, NoJob
<1>2. Cardinality(Hands(i)) = 0 /\ Cardinality(Slots(i)) = 0 /\ IsFiniteSet(Hands(i))
  BY <1>1, FS_EmptySet
<1> QED BY <1>1, <1>2 DEF Init, Owed

\* A step of an actor: what it adds for an invoice, in extractions, slots,
\* places or hands, is made up for by what it takes away and by what is paid.
LEMMA PaidStep ==
  ASSUME TypeOK, TypeOK', PaidOK, NEW a \in Actors,
         \A b \in Actors \ {a} : pc'[b] = pc[b] /\ on'[b] = on[b],
         \A i \in Invoices :
            /\ Cardinality(Slots(i)) \in Nat /\ Cardinality(Slots(i)') \in Nat
            /\ extractions'[i] + Cardinality(Slots(i)') + Ready(i)' + Bit(a, Hands(i)')
                 + requeues[i] + faults
               <= extractions[i] + Cardinality(Slots(i)) + Ready(i) + Bit(a, Hands(i))
                 + requeues'[i] + faults'
  PROVE  PaidOK'
<1> SUFFICES ASSUME NEW i \in Invoices
             PROVE  IsFiniteSet(Hands(i)') /\ Owed(i)' <= 1 + requeues'[i] + faults'
  BY DEF PaidOK
<1>1. IsFiniteSet(Hands(i)) /\ Owed(i) <= 1 + requeues[i] + faults
  BY DEF PaidOK
<1>2. /\ IsFiniteSet(Hands(i)')
      /\ Cardinality(Hands(i)) \in Nat /\ Cardinality(Hands(i)') \in Nat
      /\ Cardinality(Hands(i)') + Bit(a, Hands(i)) = Cardinality(Hands(i)) + Bit(a, Hands(i)')
  BY <1>1, HandsStep
<1>3. /\ extractions[i] \in Nat /\ requeues[i] \in Nat /\ faults \in Nat /\ Ready(i) \in Nat
      /\ extractions'[i] \in Nat /\ requeues'[i] \in Nat /\ faults' \in Nat /\ Ready(i)' \in Nat
  BY Counts
<1>4. Bit(a, Hands(i)) \in Nat /\ Bit(a, Hands(i)') \in Nat
  BY DEF Bit
<1> QED BY <1>1, <1>2, <1>3, <1>4 DEF Owed

\* One that leaves the list alone.
LEMMA PaidOffList ==
  ASSUME TypeOK, TypeOK', PaidOK, NEW a \in Actors, UNCHANGED queue,
         \A b \in Actors \ {a} : pc'[b] = pc[b] /\ on'[b] = on[b],
         \A i \in Invoices :
            extractions'[i] + Ready(i)' + Bit(a, Hands(i)') + requeues[i] + faults
               <= extractions[i] + Ready(i) + Bit(a, Hands(i)) + requeues'[i] + faults'
  PROVE  PaidOK'
<1> SUFFICES ASSUME NEW i \in Invoices
             PROVE  /\ Cardinality(Slots(i)) \in Nat /\ Cardinality(Slots(i)') \in Nat
                    /\ extractions'[i] + Cardinality(Slots(i)') + Ready(i)' + Bit(a, Hands(i)')
                         + requeues[i] + faults
                       <= extractions[i] + Cardinality(Slots(i)) + Ready(i) + Bit(a, Hands(i))
                         + requeues'[i] + faults'
  BY PaidStep
<1>1. Cardinality(Slots(i)) \in Nat /\ Cardinality(Slots(i)') = Cardinality(Slots(i))
  BY KeptSlots
<1>2. /\ extractions[i] \in Nat /\ requeues[i] \in Nat /\ faults \in Nat /\ Ready(i) \in Nat
      /\ extractions'[i] \in Nat /\ requeues'[i] \in Nat /\ faults' \in Nat /\ Ready(i)' \in Nat
  BY Counts
<1>3. Bit(a, Hands(i)) \in Nat /\ Bit(a, Hands(i)') \in Nat
  BY DEF Bit
<1> QED BY <1>1, <1>2, <1>3

\* One that takes no id, pushes none and stores nothing.
LEMMA IdleHands ==
  ASSUME TypeOK, TypeOK', PaidOK, NEW a \in Actors, UNCHANGED <<queue, extractions, requeues>>,
         \A b \in Actors \ {a} : pc'[b] = pc[b] /\ on'[b] = on[b], faults <= faults',
         \A i \in Invoices : /\ i \in delayed' => i \in delayed
                             /\ i \in uploading' => i \in uploading
                             /\ job'[i].status = "absent" => job[i].status = "absent"
                             /\ Takes(a, i)' => Takes(a, i)
  PROVE  PaidOK'
<1>1. ASSUME NEW i \in Invoices
      PROVE  Ready(i)' <= Ready(i) /\ Ready(i)' \in Nat /\ Bit(a, Hands(i)') <= Bit(a, Hands(i))
  BY DEF Ready, Bit, Hands
<1>2. \A i \in Invoices : Ready(i) \in Nat /\ Bit(a, Hands(i)) \in Nat /\ Bit(a, Hands(i)') \in Nat
  BY DEF Ready, Bit
<1>3. /\ \A i \in Invoices : extractions[i] \in Nat /\ requeues[i] \in Nat
      /\ faults \in Nat /\ faults' \in Nat
  BY DEF TypeOK
<1>4. ASSUME NEW i \in Invoices
      PROVE  extractions'[i] + Ready(i)' + Bit(a, Hands(i)') + requeues[i] + faults
               <= extractions[i] + Ready(i) + Bit(a, Hands(i)) + requeues'[i] + faults'
  BY <1>1, <1>2, <1>3
<1> QED BY <1>4, PaidOffList

LEMMA UploadPaid ==
  ASSUME TypeOK, TypeOK', PaidOK, NEW j \in Invoices, UploadNext(j) \/ UploadPushFails(j)
  PROVE  PaidOK'
<1> SUFFICES ASSUME NEW i \in Invoices
             PROVE  IsFiniteSet(Hands(i)') /\ Owed(i)' <= 1 + requeues'[i] + faults'
  BY DEF PaidOK
<1>1. IsFiniteSet(Hands(i)) /\ Owed(i) <= 1 + requeues[i] + faults
  BY DEF PaidOK
<1>2. UNCHANGED <<pc, on, extractions, requeues>> /\ faults <= faults'
  BY DEF UploadNext, Upload, EnqueueUpload, UploadPushFails, TypeOK
<1>3. Hands(i)' = Hands(i)
  BY <1>2 DEF Hands, Takes, InHand
<1>4. Cardinality(Hands(i)) \in Nat
  BY <1>1, FS_CardinalityType
<1>5. /\ extractions[i] \in Nat /\ requeues[i] \in Nat /\ faults \in Nat /\ faults' \in Nat
      /\ Ready(i) \in Nat /\ Ready(i)' \in Nat
  BY Counts
<1>6. /\ Cardinality(Slots(i)) \in Nat /\ Cardinality(Slots(i)') \in Nat
      /\ Cardinality(Slots(i)') + Ready(i)' <= Cardinality(Slots(i)) + Ready(i)
  <2>1. CASE Upload(j)
    <3>1. Cardinality(Slots(i)) \in Nat /\ Cardinality(Slots(i)') = Cardinality(Slots(i))
      BY <2>1, KeptSlots DEF Upload
    <3>2. Ready(i)' <= Ready(i)
      <4>1. CASE i = j
        BY <2>1, <4>1 DEF Upload, TypeOK, Ready, Bit
      <4>2. CASE i # j
        BY <2>1, <4>2 DEF Upload, TypeOK, Ready, Bit
      <4> QED BY <4>1, <4>2
    <3> QED BY <1>5, <3>1, <3>2
  <2>2. CASE EnqueueUpload(j)
    <3>1. /\ Cardinality(Slots(i)) \in Nat /\ Cardinality(Slots(i)') \in Nat
          /\ Cardinality(Slots(i)') = Cardinality(Slots(i)) + Bit(i, { j })
      BY <2>2, PushedSlots DEF EnqueueUpload
    <3>2. Ready(i)' + Bit(i, { j }) <= Ready(i) /\ Bit(i, { j }) \in Nat
      BY <2>2 DEF EnqueueUpload, Ready, Bit
    <3> QED BY <1>5, <3>1, <3>2
  <2>3. CASE UploadPushFails(j)
    <3>1. Cardinality(Slots(i)) \in Nat /\ Cardinality(Slots(i)') = Cardinality(Slots(i))
      BY <2>3, KeptSlots DEF UploadPushFails
    <3>2. Ready(i)' <= Ready(i)
      BY <2>3 DEF UploadPushFails, Ready, Bit
    <3> QED BY <1>5, <3>1, <3>2
  <2> QED BY <2>1, <2>2, <2>3 DEF UploadNext
<1> QED BY <1>1, <1>2, <1>3, <1>4, <1>5, <1>6 DEF Owed

-----------------------------------------------------------------------------
(* The steps *)

Handling == { "pushing", "dequeued", "gotJob", "starting", "extracting",
              "failing", "failingJob", "recording", "rescheduling" }
Requesting == { "gotJob", "requeuing", "requeued" }

LEMMA WhoTakes ==
  ASSUME NEW a \in Actors, NEW i \in Invoices
  PROVE  /\ a \in Workers => /\ Takes(a, i) <=> on[a] = i /\ pc[a] \in Handling
                             /\ Takes(a, i)' <=> on'[a] = i /\ pc'[a] \in Handling
         /\ a \in Operators => /\ Takes(a, i) <=> on[a] = i /\ pc[a] \in Requesting
                               /\ Takes(a, i)' <=> on'[a] = i /\ pc'[a] \in Requesting
         /\ a \in Reviewers \cup Admins => ~Takes(a, i) /\ ~Takes(a, i)'
BY DEF Takes, InHand, Handling, Requesting, Actors

\* The hand of an actor, counted.
LEMMA HandBit ==
  ASSUME NEW a \in Actors, NEW i \in Invoices
  PROVE  /\ Takes(a, i) => Bit(a, Hands(i)) = 1
         /\ ~Takes(a, i) => Bit(a, Hands(i)) = 0
         /\ Takes(a, i)' => Bit(a, Hands(i)') = 1
         /\ ~Takes(a, i)' => Bit(a, Hands(i)') = 0
         /\ Bit(a, Hands(i)) \in Nat /\ Bit(a, Hands(i)') \in Nat
<1>1. (a \in Hands(i) <=> Takes(a, i)) /\ (a \in Hands(i)' <=> Takes(a, i)')
  BY DEF Hands
<1> QED BY <1>1 DEF Bit

LEMMA PollingPaid ==
  ASSUME IInv, TypeOK', PaidOK, NEW w \in Workers, Polling(w)
  PROVE  PaidOK'
<1>0. w \in Actors /\ TypeOK /\ \A b \in Actors \ {w} : pc'[b] = pc[b] /\ on'[b] = on[b]
  BY WorkerAlone DEF Actors, WorkerNext, OthersAll, IInv
<1>1. CASE (\E ready \in SUBSET delayed : ScanDue(w, ready)) \/ PollTimesOut(w)
  <2>1. /\ UNCHANGED <<queue, extractions, requeues, faults, delayed, uploading, job>>
        /\ pc'[w] \notin Handling /\ faults \in Nat
    BY <1>0, <1>1 DEF ScanDue, PollTimesOut, Handling, TypeOK
  <2> QED BY <1>0, <2>1, WhoTakes, IdleHands
<1>2. ASSUME NEW j \in Invoices, RemoveDue(w, j) PROVE PaidOK'
  <2>1. /\ UNCHANGED <<queue, extractions, requeues, faults, uploading, job>>
        /\ pc[w] \notin Handling
    BY <1>0, <1>2 DEF RemoveDue, Handling
  <2>2. CASE j \in delayed
    <3>1. /\ delayed' = delayed \ { j } /\ pc'[w] = "pushing" /\ on'[w] = j
      BY <1>0, <1>2, <2>2 DEF RemoveDue, TypeOK
    <3> SUFFICES ASSUME NEW i \in Invoices
                 PROVE  extractions'[i] + Ready(i)' + Bit(w, Hands(i)') + requeues[i] + faults
                          <= extractions[i] + Ready(i) + Bit(w, Hands(i)) + requeues'[i] + faults'
      BY <1>0, <2>1, PaidOffList
    <3>2. Ready(i)' + Bit(i, { j }) = Ready(i) /\ Bit(i, { j }) \in Nat
      BY <2>1, <2>2, <3>1 DEF Ready, Bit
    <3>3. Bit(w, Hands(i)') = Bit(i, { j }) /\ Bit(w, Hands(i)) = 0
      BY <1>0, <2>1, <3>1, WhoTakes, HandBit DEF Handling, Bit
    <3> QED BY <1>0, <2>1, <3>2, <3>3, Counts
  <2>3. CASE j \notin delayed
    <3>1. UNCHANGED <<delayed, pc, on>> /\ faults \in Nat
      BY <1>0, <1>2, <2>3 DEF RemoveDue, TypeOK
    <3> QED BY <1>0, <2>1, <3>1, WhoTakes, IdleHands
  <2> QED BY <2>2, <2>3
<1>3. CASE PushDue(w)
  <2>1. /\ UNCHANGED <<extractions, requeues, faults, delayed, uploading, job>>
        /\ pc[w] = "pushing" /\ pc'[w] = "promoting" /\ on[w] \in Invoices
        /\ queue' = Append(queue, on[w])
    BY <1>0, <1>3 DEF PushDue, TypeOK, IInv, SessionOK
  <2> SUFFICES ASSUME NEW i \in Invoices
               PROVE  /\ Cardinality(Slots(i)) \in Nat /\ Cardinality(Slots(i)') \in Nat
                      /\ extractions'[i] + Cardinality(Slots(i)') + Ready(i)' + Bit(w, Hands(i)')
                           + requeues[i] + faults
                         <= extractions[i] + Cardinality(Slots(i)) + Ready(i) + Bit(w, Hands(i))
                           + requeues'[i] + faults'
    BY <1>0, PaidStep
  <2>2. /\ Cardinality(Slots(i)) \in Nat /\ Cardinality(Slots(i)') \in Nat
        /\ Cardinality(Slots(i)') = Cardinality(Slots(i)) + Bit(i, { on[w] })
    BY <1>0, <2>1, PushedSlots
  <2>3. Bit(w, Hands(i)) = Bit(i, { on[w] }) /\ Bit(w, Hands(i)') = 0 /\ Bit(i, { on[w] }) \in Nat
    BY <1>0, <2>1, WhoTakes, HandBit DEF Handling, Bit
  <2>4. Ready(i)' = Ready(i)
    BY <2>1 DEF Ready
  <2>5. /\ extractions[i] \in Nat /\ requeues[i] \in Nat /\ faults \in Nat /\ Ready(i) \in Nat
        /\ extractions'[i] = extractions[i] /\ requeues'[i] = requeues[i] /\ faults' = faults
    BY <1>0, <2>1, Counts
  <2> QED BY <2>2, <2>3, <2>4, <2>5
<1>4. CASE Dequeue(w)
  <2>1. /\ UNCHANGED <<extractions, requeues, faults, delayed, uploading, job>>
        /\ pc[w] = "promoting" /\ pc'[w] = "dequeued" /\ on'[w] = Head(queue)
        /\ queue # << >> /\ queue' = Tail(queue)
    BY <1>0, <1>4 DEF Dequeue, TypeOK
  <2> SUFFICES ASSUME NEW i \in Invoices
               PROVE  /\ Cardinality(Slots(i)) \in Nat /\ Cardinality(Slots(i)') \in Nat
                      /\ extractions'[i] + Cardinality(Slots(i)') + Ready(i)' + Bit(w, Hands(i)')
                           + requeues[i] + faults
                         <= extractions[i] + Cardinality(Slots(i)) + Ready(i) + Bit(w, Hands(i))
                           + requeues'[i] + faults'
    BY <1>0, PaidStep
  <2>2. /\ Cardinality(Slots(i)) \in Nat /\ Cardinality(Slots(i)') \in Nat
        /\ Cardinality(Slots(i)) = Cardinality(Slots(i)') + Bit(i, { Head(queue) })
    BY <1>0, <2>1, PoppedSlots
  <2>3. /\ Bit(w, Hands(i)) = 0 /\ Bit(w, Hands(i)') = Bit(i, { Head(queue) })
        /\ Bit(i, { Head(queue) }) \in Nat
    BY <1>0, <2>1, WhoTakes, HandBit DEF Handling, Bit
  <2>4. Ready(i)' = Ready(i)
    BY <2>1 DEF Ready
  <2>5. /\ extractions[i] \in Nat /\ requeues[i] \in Nat /\ faults \in Nat /\ Ready(i) \in Nat
        /\ extractions'[i] = extractions[i] /\ requeues'[i] = requeues[i] /\ faults' = faults
    BY <1>0, <2>1, Counts
  <2> QED BY <2>2, <2>3, <2>4, <2>5
<1> QED BY <1>1, <1>2, <1>3, <1>4 DEF Polling

LEMMA ProcessingPaid ==
  ASSUME IInv, TypeOK', PaidOK, NEW w \in Workers, Processing(w)
  PROVE  PaidOK'
<1>0. w \in Actors /\ TypeOK /\ \A b \in Actors \ {w} : pc'[b] = pc[b] /\ on'[b] = on[b]
  BY WorkerAlone DEF Actors, WorkerNext, OthersAll, IInv
<1>1. CASE GetJob(w) \/ GetInvoice(w) \/ TransitionRaises(w) \/ BeginProcessing(w)
           \/ \E kind \in { "retryable", "permanent" } : ExtractionFails(w, kind)
  <2>1. /\ UNCHANGED <<queue, extractions, requeues, faults, delayed, uploading, job, on>>
        /\ pc[w] \in Handling /\ faults \in Nat
    BY <1>0, <1>1 DEF GetJob, GetInvoice, TransitionRaises, BeginProcessing, ExtractionFails,
       Handling, TypeOK
  <2> QED BY <1>0, <2>1, WhoTakes, IdleHands
<1>2. CASE SkipIneligible(w) \/ EmbedInvoice(w) \/ NoAnomaly(w) \/ DetectionFails(w)
           \/ ReloadInvoice(w) \/ SkipAutoApproval(w) \/ FlagAnomalies(w) \/ AutoApprove(w)
           \/ PublishCompletion(w)
  <2>1. /\ UNCHANGED <<queue, extractions, requeues, faults, delayed, uploading, job>>
        /\ pc'[w] \notin Handling /\ faults \in Nat
    BY <1>0, <1>2 DEF SkipIneligible, EmbedInvoice, NoAnomaly, DetectionFails, ReloadInvoice,
       SkipAutoApproval, FlagAnomalies, AutoApprove, PublishCompletion, Handling, TypeOK
  <2> QED BY <1>0, <2>1, WhoTakes, IdleHands
<1>3. ASSUME NEW verdict \in ExtractionVerdict, NEW confidence \in { "confident", "unsure" },
             CommitExtraction(w, verdict, confidence)
      PROVE  PaidOK'
  <2>1. /\ UNCHANGED <<queue, requeues, faults, delayed, uploading>>
        /\ pc[w] = "extracting" /\ pc'[w] = "committed" /\ on[w] \in Invoices
        /\ \A i \in Invoices : /\ extractions'[i] = extractions[i] + Bit(i, { on[w] })
                               /\ job'[i].status = "absent" => job[i].status = "absent"
    BY <1>0, <1>3 DEF CommitExtraction, TypeOK, IInv, SessionOK, Bit
  <2> SUFFICES ASSUME NEW i \in Invoices
               PROVE  extractions'[i] + Ready(i)' + Bit(w, Hands(i)') + requeues[i] + faults
                        <= extractions[i] + Ready(i) + Bit(w, Hands(i)) + requeues'[i] + faults'
    BY <1>0, <2>1, PaidOffList
  <2>2. Bit(w, Hands(i)) = Bit(i, { on[w] }) /\ Bit(w, Hands(i)') = 0 /\ Bit(i, { on[w] }) \in Nat
    BY <1>0, <2>1, WhoTakes, HandBit DEF Handling, Bit
  <2>3. Ready(i)' <= Ready(i)
    BY <2>1 DEF Ready, Bit
  <2>4. /\ extractions[i] \in Nat /\ requeues[i] \in Nat /\ faults \in Nat
        /\ Ready(i) \in Nat /\ Ready(i)' \in Nat
        /\ extractions'[i] = extractions[i] + Bit(i, { on[w] })
        /\ requeues'[i] = requeues[i] /\ faults' = faults
    BY <1>0, <2>1, Counts
  <2> QED BY <2>2, <2>3, <2>4
<1> QED BY <1>1, <1>2, <1>3 DEF Processing

LEMMA FailurePaid ==
  ASSUME IInv, TypeOK', PaidOK, NEW w \in Workers, Failure(w)
  PROVE  PaidOK'
<1>0. w \in Actors /\ TypeOK /\ \A b \in Actors \ {w} : pc'[b] = pc[b] /\ on'[b] = on[b]
  BY WorkerAlone DEF Actors, WorkerNext, OthersAll, IInv
<1>1. CASE FailureGetsJob(w) \/ FailureGetsInvoice(w) \/ ScheduleRetry(w) \/ MarkFailed(w)
  <2>1. /\ UNCHANGED <<queue, extractions, requeues, faults, delayed, uploading>>
        /\ pc'[w] \notin Handling \/ (pc[w] \in Handling /\ on' = on)
    BY <1>0, <1>1 DEF FailureGetsJob, FailureGetsInvoice, ScheduleRetry, MarkFailed, WriteFailure,
       Handling, TypeOK
  <2>2. \A i \in Invoices : job'[i].status = "absent" => job[i].status = "absent"
    <3>1. ASSUME NEW status \in { "queued", "failed" }, WriteFailure(w, status), NEW i \in Invoices
          PROVE  job'[i].status \in { job[i].status, status }
      BY <1>0, <3>1 DEF WriteFailure, Written, TypeOK
    <3>2. CASE ScheduleRetry(w) \/ MarkFailed(w)
      BY <3>1, <3>2 DEF ScheduleRetry, MarkFailed
    <3> QED BY <1>1, <3>2 DEF FailureGetsJob, FailureGetsInvoice
  <2>3. faults \in Nat
    BY <1>0 DEF TypeOK
  <2> QED BY <1>0, <2>1, <2>2, <2>3, WhoTakes, IdleHands
<1>2. CASE EnqueueRetry(w)
  <2>1. /\ UNCHANGED <<queue, extractions, requeues, faults, uploading, job>>
        /\ pc[w] = "rescheduling" /\ pc'[w] = "idle" /\ on[w] \in Invoices
        /\ delayed' = delayed \cup { on[w] }
    BY <1>0, <1>2 DEF EnqueueRetry, TypeOK, IInv, SessionOK
  <2> SUFFICES ASSUME NEW i \in Invoices
               PROVE  extractions'[i] + Ready(i)' + Bit(w, Hands(i)') + requeues[i] + faults
                        <= extractions[i] + Ready(i) + Bit(w, Hands(i)) + requeues'[i] + faults'
    BY <1>0, <2>1, PaidOffList
  <2>2. Bit(w, Hands(i)) = Bit(i, { on[w] }) /\ Bit(w, Hands(i)') = 0 /\ Bit(i, { on[w] }) \in Nat
    BY <1>0, <2>1, WhoTakes, HandBit DEF Handling, Bit
  <2>3. Ready(i)' <= Ready(i) + Bit(i, { on[w] })
    BY <2>1 DEF Ready, Bit
  <2> QED BY <1>0, <2>1, <2>2, <2>3, Counts
<1> QED BY <1>1, <1>2 DEF Failure

LEMMA OperatorPaid ==
  ASSUME IInv, TypeOK', PaidOK, NEW o \in Operators, OperatorNext(o)
  PROVE  PaidOK'
<1>0. o \in Actors /\ TypeOK
  BY DEF Actors, IInv
<1>1. \A b \in Actors \ {o} : pc'[b] = pc[b] /\ on'[b] = on[b]
  BY <1>0 DEF OperatorNext, OpenFailedJob, RequeueGetsInvoice, RequeueRaises, CommitRequeue,
     EnqueueRequeue, TypeOK
<1>2. CASE RequeueGetsInvoice(o) \/ RequeueRaises(o) \/ CommitRequeue(o)
  <2>1. /\ UNCHANGED <<queue, extractions, requeues, faults, delayed, uploading>>
        /\ pc'[o] \notin Requesting \/ (pc[o] \in Requesting /\ on' = on)
    BY <1>0, <1>2 DEF RequeueGetsInvoice, RequeueRaises, CommitRequeue, Requesting, TypeOK
  <2>2. \A i \in Invoices : job'[i].status = "absent" => job[i].status = "absent"
    <3>1. CASE CommitRequeue(o)
      <4>1. \A i \in Invoices : job'[i] = job[i] \/ job'[i].status = "queued"
        BY <1>0, <3>1 DEF CommitRequeue, TypeOK
      <4> QED BY <4>1
    <3> QED BY <1>2, <3>1 DEF RequeueGetsInvoice, RequeueRaises
  <2>3. faults \in Nat
    BY <1>0 DEF TypeOK
  <2> QED BY <1>0, <1>1, <2>1, <2>2, <2>3, WhoTakes, IdleHands
<1>3. ASSUME NEW j \in Invoices, OpenFailedJob(o, j) PROVE PaidOK'
  <2>1. /\ UNCHANGED <<queue, extractions, faults, delayed, uploading, job>>
        /\ pc[o] = "idle" /\ on'[o] = j
        /\ \A i \in Invoices : requeues'[i] = requeues[i] + Bit(i, { j })
    BY <1>0, <1>3 DEF OpenFailedJob, TypeOK, Bit
  <2> SUFFICES ASSUME NEW i \in Invoices
               PROVE  extractions'[i] + Ready(i)' + Bit(o, Hands(i)') + requeues[i] + faults
                        <= extractions[i] + Ready(i) + Bit(o, Hands(i)) + requeues'[i] + faults'
    BY <1>0, <1>1, <2>1, PaidOffList
  <2>2. /\ Bit(o, Hands(i)) \in Nat /\ Bit(o, Hands(i)') <= Bit(i, { j })
        /\ Bit(o, Hands(i)') \in Nat /\ Bit(i, { j }) \in Nat
    BY <1>0, <2>1, WhoTakes, HandBit DEF Requesting, Bit
  <2>3. Ready(i)' = Ready(i)
    BY <2>1 DEF Ready
  <2> QED BY <1>0, <2>1, <2>2, <2>3, Counts
<1>4. CASE EnqueueRequeue(o)
  <2>1. /\ UNCHANGED <<extractions, requeues, faults, delayed, uploading, job>>
        /\ pc[o] = "requeued" /\ pc'[o] = "idle" /\ on[o] \in Invoices
        /\ queue' = Append(queue, on[o])
    BY <1>0, <1>4 DEF EnqueueRequeue, TypeOK, IInv, SessionOK
  <2> SUFFICES ASSUME NEW i \in Invoices
               PROVE  /\ Cardinality(Slots(i)) \in Nat /\ Cardinality(Slots(i)') \in Nat
                      /\ extractions'[i] + Cardinality(Slots(i)') + Ready(i)' + Bit(o, Hands(i)')
                           + requeues[i] + faults
                         <= extractions[i] + Cardinality(Slots(i)) + Ready(i) + Bit(o, Hands(i))
                           + requeues'[i] + faults'
    BY <1>0, <1>1, PaidStep
  <2>2. /\ Cardinality(Slots(i)) \in Nat /\ Cardinality(Slots(i)') \in Nat
        /\ Cardinality(Slots(i)') = Cardinality(Slots(i)) + Bit(i, { on[o] })
    BY <1>0, <2>1, PushedSlots
  <2>3. Bit(o, Hands(i)) = Bit(i, { on[o] }) /\ Bit(o, Hands(i)') = 0 /\ Bit(i, { on[o] }) \in Nat
    BY <1>0, <2>1, WhoTakes, HandBit DEF Requesting, Bit
  <2>4. Ready(i)' = Ready(i)
    BY <2>1 DEF Ready
  <2>5. /\ extractions[i] \in Nat /\ requeues[i] \in Nat /\ faults \in Nat /\ Ready(i) \in Nat
        /\ extractions'[i] = extractions[i] /\ requeues'[i] = requeues[i] /\ faults' = faults
    BY <1>0, <2>1, Counts
  <2> QED BY <2>2, <2>3, <2>4, <2>5
<1> QED BY <1>2, <1>3, <1>4 DEF OperatorNext

\* People who review and override take no id.
LEMMA PeoplePaid ==
  ASSUME IInv, TypeOK', PaidOK, NEW a \in Reviewers \cup Admins,
         (a \in Reviewers /\ ReviewerNext(a)) \/ (a \in Admins /\ AdminNext(a))
  PROVE  PaidOK'
<1>0. a \in Actors /\ TypeOK /\ faults \in Nat
  BY DEF Actors, IInv, TypeOK
<1>1. /\ \A b \in Actors \ {a} : pc'[b] = pc[b] /\ on'[b] = on[b]
      /\ UNCHANGED <<queue, extractions, requeues, faults, delayed, uploading, job>>
  <2>1. CASE a \in Reviewers /\ ReviewerNext(a)
    BY <1>0, <2>1 DEF ReviewerNext, OpenInvoice, LeaveReview, SubmitReview, RecordDecision, ReviewFails,
       TypeOK
  <2>2. CASE a \in Admins /\ AdminNext(a)
    BY <1>0, <2>2 DEF AdminNext, ReadForOverride, CommitOverride, TypeOK
  <2> QED BY <2>1, <2>2
<1> QED BY <1>0, <1>1, WhoTakes, IdleHands

\* A crash loses an id; a connection lost after the commit brings one back, and
\* is counted.
LEMMA FaultPaid ==
  ASSUME IInv, TypeOK', PaidOK, FaultNext
  PROVE  PaidOK'
<1>0. TypeOK /\ faults \in Nat /\ faults' = faults + 1
  BY DEF IInv, TypeOK, FaultNext, WorkerCrashes, ReloadFails, UploadPushFails, RequeuePushFails
<1>1. ASSUME NEW a \in Actors, (a \in Workers /\ WorkerCrashes(a)) \/ (a \in Operators /\ RequeuePushFails(a))
      PROVE  PaidOK'
  <2>1. /\ \A b \in Actors \ {a} : pc'[b] = pc[b] /\ on'[b] = on[b]
        /\ UNCHANGED <<queue, extractions, requeues, delayed, uploading, job>>
        /\ pc'[a] = "idle"
    BY <1>0, <1>1 DEF WorkerCrashes, RequeuePushFails, TypeOK
  <2>2. \A i \in Invoices : ~Takes(a, i)'
    BY <1>1, <2>1, WhoTakes DEF Handling, Requesting
  <2> QED BY <1>0, <2>1, <2>2, IdleHands
<1>2. ASSUME NEW w \in Workers, ReloadFails(w) PROVE PaidOK'
  <2>1. /\ w \in Actors /\ \A b \in Actors \ {w} : pc'[b] = pc[b] /\ on'[b] = on[b]
        /\ UNCHANGED <<queue, extractions, requeues, delayed, uploading, job>>
    BY <1>0, <1>2 DEF ReloadFails, TypeOK, Actors
  <2> SUFFICES ASSUME NEW i \in Invoices
               PROVE  extractions'[i] + Ready(i)' + Bit(w, Hands(i)') + requeues[i] + faults
                        <= extractions[i] + Ready(i) + Bit(w, Hands(i)) + requeues'[i] + faults'
    BY <1>0, <2>1, PaidOffList
  <2>2. /\ Bit(w, Hands(i)) \in Nat /\ Bit(w, Hands(i)') \in Nat /\ Bit(w, Hands(i)') <= 1
    BY DEF Bit
  <2>3. Ready(i)' = Ready(i)
    BY <2>1 DEF Ready
  <2> QED BY <1>0, <2>1, <2>2, <2>3, Counts
<1>3. CASE \E i \in Invoices : UploadPushFails(i)
  BY <1>0, <1>3, UploadPaid
<1> QED BY <1>1, <1>2, <1>3 DEF FaultNext, Actors

LEMMA NextPaid ==
  ASSUME IInv, TypeOK', PaidOK, [Next]_vars
  PROVE  PaidOK'
<1>1. CASE UNCHANGED vars
  BY <1>1 DEF vars, PaidOK, Owed, Hands, Takes, InHand, Slots, Ready
<1>2. TypeOK
  BY DEF IInv
<1> QED BY <1>1, <1>2, UploadPaid, PollingPaid, ProcessingPaid, FailurePaid, OperatorPaid, PeoplePaid,
           FaultPaid DEF Next, WorkerNext

\* However deliveries are lost, retried or duplicated, and however operators,
\* crashes and lost connections interleave: the extractions stored for an
\* invoice are paid for by its upload, by accepted reprocess requests and by
\* connections lost after a commit (processing_jobs.py:223, worker.py:62-81).
THEOREM NoFreeExtraction == Spec => []ExtractionsPaidFor
<1>1. Init => IInv /\ PaidOK
  BY InitEstablishesIInv, InitPaid
<1>2. IInv /\ PaidOK /\ [Next]_vars => IInv' /\ PaidOK'
  BY NextPreservesIInv, NextPaid DEF IInv
<1>3. IInv /\ PaidOK => ExtractionsPaidFor
  <2> SUFFICES ASSUME IInv, PaidOK, NEW i \in Invoices
               PROVE  extractions[i] <= 1 + requeues[i] + faults
    BY DEF ExtractionsPaidFor
  <2>1. Cardinality(Hands(i)) \in Nat
    BY FS_CardinalityType DEF PaidOK
  <2>2. Cardinality(Slots(i)) \in Nat
    <3>1. Len(queue) \in Nat
      BY DEF IInv, TypeOK
    <3>2. Slots(i) \in SUBSET (1..Len(queue)) /\ IsFiniteSet(1..Len(queue))
      BY <3>1, FS_Interval DEF Slots
    <3> QED BY <3>2, FS_Subset, FS_CardinalityType
  <2>3. /\ extractions[i] \in Nat /\ requeues[i] \in Nat /\ faults \in Nat
    BY DEF IInv, TypeOK
  <2>4. Ready(i) \in Nat
    BY DEF Ready, Bit
  <2> QED BY <2>1, <2>2, <2>3, <2>4 DEF PaidOK, Owed
<1> QED BY <1>1, <1>2, <1>3, PTL DEF Spec
=============================================================================
