--------------------------- MODULE InvoicePipeline ---------------------------
(***************************************************************************)
(* The extraction pipeline: an uploaded invoice and its one processing     *)
(* job, the Redis queue and delayed-retry set, the worker processes, and   *)
(* the request handlers that touch the same rows (operators who reprocess  *)
(* failed jobs, reviewers who decide, admins who override a status).       *)
(*                                                                         *)
(* Every handler is split at the statements where another session can run: *)
(* a SELECT copies committed columns into the session, and a COMMIT writes *)
(* from that copy (PostgreSQL READ COMMITTED; SQLAlchemy sessions cache a  *)
(* row until commit or rollback expires it and emit an UPDATE of a column  *)
(* only when the new value differs from the loaded one).  Uncommitted      *)
(* writes are seen by nobody, so only committed rows are variables; a row  *)
(* lock is a variable because it makes other sessions wait.                *)
(*                                                                         *)
(* An upload creates one invoice and one job, so the job of invoice i is   *)
(* named i too.                                                            *)
(***************************************************************************)
EXTENDS Naturals, Sequences, InvoiceWorkflow

CONSTANTS
    Invoices,      \* the invoices that may be uploaded
    Workers,       \* worker processes (app.worker)
    Operators,     \* requests to reprocess a failed job
    Reviewers,     \* reviewer sessions
    Admins,        \* admin status-override requests
    NoOne,         \* nobody holds the row lock
    NoInvoice,     \* the session works on no invoice
    MaxAttempts,   \* settings.processing_job_max_attempts
    MaxRequeues,   \* bound: reprocess requests per invoice
    MaxOverrides,  \* bound: status overrides by admins
    MaxFaults      \* bound: crashes and lost connections

Actors == Workers \cup Operators \cup Reviewers \cup Admins

ASSUME ActorsAssumption ==
    /\ Workers \cap (Operators \cup Reviewers \cup Admins) = {}
    /\ Operators \cap (Reviewers \cup Admins) = {}
    /\ Reviewers \cap Admins = {}
    /\ NoOne \notin Actors
    /\ NoInvoice \notin Invoices

ASSUME BoundsAssumption ==
    /\ MaxAttempts \in Nat \ {0}
    /\ MaxRequeues \in Nat
    /\ MaxOverrides \in Nat
    /\ MaxFaults \in Nat

VARIABLES
    (* committed rows *)
    job,          \* processing_jobs rows: status and attempts
    invoice,      \* status column of the invoices rows
    extractions,  \* number of invoice_extractions rows of the invoice
    flagged,      \* whether the invoice has anomaly rows
    (* audit log *)
    jobTrail,     \* status in the job's last processing_job.status_changed event
    invoiceTrail, \* status in the invoice's last invoice.status_changed event
    approvals,    \* who the invoice's approval events name
    (* locks and queues *)
    lock,         \* session holding the invoice row's lock (a worker's covers the job row)
    queue,        \* Redis list of job ids
    delayed,      \* Redis sorted set of job ids waiting for their retry time
    uploading,    \* uploads committed whose job id is not pushed yet
    (* sessions *)
    pc,           \* where each actor is in its handler
    on,           \* the invoice it works on
    jobCopy,      \* the job row as its session loaded it
    invoiceCopy,  \* the invoice status as its session loaded it
    choice,       \* what it has been asked, or has decided, to do
    due,          \* due job ids returned to a worker's scan
    (* reviewers' pages *)
    token,        \* whether the updated_at the page holds is still the row's
    shown,        \* status and flags the page shows
    (* bounds *)
    requeues, overrides, faults

db     == <<job, invoice, extractions, flagged, jobTrail, invoiceTrail, approvals>>
redis  == <<queue, delayed>>
memory == <<on, jobCopy, invoiceCopy, choice, due>>
page   == <<token, shown>>
count  == <<requeues, overrides, faults>>
shared == <<db, lock, redis, uploading, page, count>>

vars == <<db, lock, redis, uploading, pc, memory, page, count>>

-----------------------------------------------------------------------------
(* Types and initial state *)

CommittedJobStatus == { "absent", "queued", "completed", "failed" }
CommittedInvoiceStatus == { "absent" } \cup InvoiceStatus

WorkerStep ==
    { "idle", "promoting", "pushing", "dequeued", "gotJob", "starting",
      "extracting", "committed", "detecting", "reloading", "approving",
      "publishing", "failing", "failingJob", "recording", "rescheduling" }

RequestStep == { "idle", "gotJob", "requeuing", "requeued", "reviewing",
                 "deciding", "overriding" }

JobRow == [ status : CommittedJobStatus, attempts : Nat ]
Choice == { "none", "retryable", "permanent", "confident", "unsure" } \cup InvoiceStatus
Shown == [ status : CommittedInvoiceStatus, flagged : BOOLEAN ]

NoJob == [ status |-> "absent", attempts |-> 0 ]
NothingShown == [ status |-> "absent", flagged |-> FALSE ]

Init ==
    /\ job = [i \in Invoices |-> NoJob]
    /\ invoice = [i \in Invoices |-> "absent"]
    /\ extractions = [i \in Invoices |-> 0]
    /\ flagged = [i \in Invoices |-> FALSE]
    /\ jobTrail = [i \in Invoices |-> "absent"]
    /\ invoiceTrail = [i \in Invoices |-> "absent"]
    /\ approvals = [i \in Invoices |-> {}]
    /\ lock = [i \in Invoices |-> NoOne]
    /\ queue = << >>
    /\ delayed = {}
    /\ uploading = {}
    /\ pc = [a \in Actors |-> "idle"]
    /\ on = [a \in Actors |-> NoInvoice]
    /\ jobCopy = [a \in Actors |-> NoJob]
    /\ invoiceCopy = [a \in Actors |-> "absent"]
    /\ choice = [a \in Actors |-> "none"]
    /\ due = [a \in Actors |-> {}]
    /\ token = [r \in Reviewers |-> "none"]
    /\ shown = [r \in Reviewers |-> NothingShown]
    /\ requeues = [i \in Invoices |-> 0]
    /\ overrides = 0
    /\ faults = 0

-----------------------------------------------------------------------------
(* Helpers *)

\* The unit of work's dirty check: assigning the loaded value emits no UPDATE
\* of the column, so the committed value stays whatever it has become.
Written(loaded, new, current) == IF new = loaded THEN current ELSE new

\* An UPDATE of the job row waits for a worker that has flushed it; an UPDATE
\* of the invoice row waits for any lock; the insert of a child row waits for a
\* reviewer's SELECT ... FOR UPDATE only.
JobRowFree(i) == lock[i] \notin Workers
InvoiceRowFree(i) == lock[i] = NoOne
ChildInsertFree(i) == lock[i] \notin Reviewers

Lock(i, a) == lock' = [lock EXCEPT ![i] = a]
Unlock(i) == lock' = [lock EXCEPT ![i] = NoOne]

\* onupdate=func.now(): an UPDATE of the invoice row changes its updated_at,
\* so the tokens of the pages that show it no longer match.
Outdated(i) ==
    [r \in Reviewers |-> IF on[r] = i /\ token[r] = "current" THEN "stale" ELSE token[r]]

Goto(a, step) == pc' = [pc EXCEPT ![a] = step]

\* db.close() at the end of a job or a request.
Finish(a) ==
    /\ pc' = [pc EXCEPT ![a] = "idle"]
    /\ on' = [on EXCEPT ![a] = NoInvoice]
    /\ jobCopy' = [jobCopy EXCEPT ![a] = NoJob]
    /\ invoiceCopy' = [invoiceCopy EXCEPT ![a] = "absent"]
    /\ choice' = [choice EXCEPT ![a] = "none"]
    /\ due' = [due EXCEPT ![a] = {}]

-----------------------------------------------------------------------------
(* Upload: create_invoice_upload *)

\* One commit creates the invoice, its file, its job and the audit events.
Upload(i) ==
    /\ job[i].status = "absent"
    /\ job' = [job EXCEPT ![i] = [status |-> "queued", attempts |-> 0]]
    /\ invoice' = [invoice EXCEPT ![i] = "queued"]
    /\ jobTrail' = [jobTrail EXCEPT ![i] = "queued"]
    /\ invoiceTrail' = [invoiceTrail EXCEPT ![i] = "queued"]
    /\ uploading' = uploading \cup { i }
    /\ UNCHANGED <<extractions, flagged, approvals, lock, redis, pc, memory, page, count>>

\* Seeded fault: the job id is pushed before the commit.
EnqueueUploadEarly(i) ==
    /\ job[i].status = "absent"
    /\ \A k \in 1..Len(queue) : queue[k] # i
    /\ queue' = Append(queue, i)
    /\ UNCHANGED <<db, lock, delayed, uploading, pc, memory, page, count>>

\* The push follows the commit, in the same request.
EnqueueUpload(i) ==
    /\ i \in uploading
    /\ uploading' = uploading \ { i }
    /\ queue' = Append(queue, i)
    /\ UNCHANGED <<db, lock, delayed, pc, memory, page, count>>

-----------------------------------------------------------------------------
(* Worker: dequeue_processing_job *)

\* zrangebyscore: the entries whose time has come, any part of the set.
ScanDue(w, ready) ==
    /\ pc[w] = "idle"
    /\ Goto(w, "promoting")
    /\ due' = [due EXCEPT ![w] = ready]
    /\ UNCHANGED <<shared, on, jobCopy, invoiceCopy, choice>>

\* Seeded fault: the result of zrem is not looked at.
RemoveDueUnchecked(w, i) ==
    /\ pc[w] = "promoting"
    /\ i \in due[w]
    /\ due' = [due EXCEPT ![w] = @ \ { i }]
    /\ delayed' = delayed \ { i }
    /\ Goto(w, "pushing")
    /\ on' = [on EXCEPT ![w] = i]
    /\ UNCHANGED <<db, lock, queue, uploading, page, count, jobCopy, invoiceCopy, choice>>

\* zrem: only the worker that removes the entry goes on to push it.
RemoveDue(w, i) ==
    /\ pc[w] = "promoting"
    /\ i \in due[w]
    /\ due' = [due EXCEPT ![w] = @ \ { i }]
    /\ \/ /\ i \in delayed
          /\ delayed' = delayed \ { i }
          /\ Goto(w, "pushing")
          /\ on' = [on EXCEPT ![w] = i]
       \/ /\ i \notin delayed
          /\ UNCHANGED <<delayed, pc, on>>
    /\ UNCHANGED <<db, lock, queue, uploading, page, count, jobCopy, invoiceCopy, choice>>

PushDue(w) ==
    /\ pc[w] = "pushing"
    /\ queue' = Append(queue, on[w])
    /\ Goto(w, "promoting")
    /\ on' = [on EXCEPT ![w] = NoInvoice]
    /\ UNCHANGED <<db, lock, delayed, uploading, page, count, jobCopy, invoiceCopy, choice, due>>

\* blpop after the promotion loop is done.
Dequeue(w) ==
    /\ pc[w] = "promoting" /\ due[w] = {}
    /\ queue # << >>
    /\ Goto(w, "dequeued")
    /\ on' = [on EXCEPT ![w] = Head(queue)]
    /\ queue' = Tail(queue)
    /\ UNCHANGED <<db, lock, delayed, uploading, page, count, jobCopy, invoiceCopy, choice, due>>

\* blpop timed out on an empty list; run_worker sleeps and polls again.
PollTimesOut(w) ==
    /\ pc[w] = "promoting" /\ due[w] = {}
    /\ queue = << >>
    /\ Finish(w)
    /\ UNCHANGED shared

-----------------------------------------------------------------------------
(* Worker: process_invoice_extraction_job *)

\* The idempotency guard's eligible statuses.
ProcessableStatus == { "queued", "failed" }

\* run_worker's db.get(ProcessingJob): the session keeps this copy of the row.
GetJob(w) ==
    /\ pc[w] = "dequeued"
    /\ Goto(w, "gotJob")
    /\ jobCopy' = [jobCopy EXCEPT ![w] = job[on[w]]]
    /\ UNCHANGED <<shared, on, invoiceCopy, choice, due>>

\* The idempotency guard returns a job that is not eligible untouched.
SkipIneligible(w) ==
    /\ pc[w] = "gotJob"
    /\ jobCopy[w].status \notin ProcessableStatus
    /\ Finish(w)
    /\ UNCHANGED shared

\* db.get(Invoice), then _transition_invoice on the copy.
GetInvoice(w) ==
    /\ pc[w] = "gotJob"
    /\ jobCopy[w].status \in ProcessableStatus
    /\ CanTransition(invoice[on[w]], "processing")
    /\ Goto(w, "starting")
    /\ invoiceCopy' = [invoiceCopy EXCEPT ![w] = invoice[on[w]]]
    /\ UNCHANGED <<shared, on, jobCopy, choice, due>>

\* transition_invoice_status raises ValueError, which the retry policy counts
\* as retryable.
TransitionRaises(w) ==
    /\ pc[w] = "gotJob"
    /\ jobCopy[w].status \in ProcessableStatus
    /\ ~CanTransition(invoice[on[w]], "processing")
    /\ Goto(w, "failing")
    /\ choice' = [choice EXCEPT ![w] = "retryable"]
    /\ UNCHANGED <<shared, on, jobCopy, invoiceCopy, due>>

\* Seeded fault: the PROCESSING status is committed, not only flushed.
BeginProcessingCommitted(w) ==
    /\ pc[w] = "starting"
    /\ InvoiceRowFree(on[w])
    /\ job' = [job EXCEPT ![on[w]] = [status |-> "processing", attempts |-> jobCopy[w].attempts + 1]]
    /\ Goto(w, "extracting")
    /\ UNCHANGED <<invoice, extractions, flagged, jobTrail, invoiceTrail, approvals, lock,
                   redis, uploading, page, count, memory>>

\* db.flush() of the PROCESSING statuses: takes both row locks, is not
\* committed, and holds the locks during the provider call.
BeginProcessing(w) ==
    /\ pc[w] = "starting"
    /\ InvoiceRowFree(on[w])
    /\ Lock(on[w], w)
    /\ Goto(w, "extracting")
    /\ UNCHANGED <<db, redis, uploading, page, count, memory>>

\* persist_extraction_result and the single commit: extraction, verdict, audit
\* events, COMPLETED, and the attempt counted from the copy loaded at the start.
CommitExtraction(w, verdict, confidence) ==
    LET i == on[w] IN
    /\ pc[w] = "extracting"
    /\ job' = [job EXCEPT ![i] = [status |-> "completed", attempts |-> jobCopy[w].attempts + 1]]
    /\ invoice' = [invoice EXCEPT ![i] = verdict]
    /\ extractions' = [extractions EXCEPT ![i] = @ + 1]
    /\ jobTrail' = [jobTrail EXCEPT ![i] = "completed"]
    /\ invoiceTrail' = [invoiceTrail EXCEPT ![i] = verdict]
    /\ token' = Outdated(i)
    /\ Unlock(i)
    /\ Goto(w, "committed")
    /\ choice' = [choice EXCEPT ![w] = confidence]
    /\ UNCHANGED <<flagged, approvals, redis, uploading, shown, count,
                   on, jobCopy, invoiceCopy, due>>

\* Seeded fault: run_worker records the failure without db.rollback().
ExtractionFailsNoRollback(w, kind) ==
    /\ pc[w] = "extracting"
    /\ Goto(w, "failing")
    /\ choice' = [choice EXCEPT ![w] = kind]
    /\ UNCHANGED <<shared, on, jobCopy, invoiceCopy, due>>

\* Reading the file, the provider call or the flush of the result raises: a
\* permanent ExtractionError, or anything else.  run_worker rolls back.
ExtractionFails(w, kind) ==
    /\ pc[w] = "extracting"
    /\ Unlock(on[w])
    /\ Goto(w, "failing")
    /\ choice' = [choice EXCEPT ![w] = kind]
    /\ UNCHANGED <<db, redis, uploading, page, count, on, jobCopy, invoiceCopy, due>>

\* The session's copy of the invoice has expired; its next use reloads it.
Reload(w, from, to) ==
    /\ pc[w] = from
    /\ Goto(w, to)
    /\ invoiceCopy' = [invoiceCopy EXCEPT ![w] = invoice[on[w]]]
    /\ UNCHANGED <<shared, on, jobCopy, choice, due>>

\* _embed_invoice commits or rolls back, and logs the invoice's id after it.
EmbedInvoice(w) == Reload(w, "committed", "detecting")

\* apply_anomaly_flags finds nothing: no commit, so the loaded copy is kept.
NoAnomaly(w) ==
    /\ pc[w] = "detecting"
    /\ Goto(w, "approving")
    /\ UNCHANGED <<shared, memory>>

\* Seeded fault: the flags are stored but a passed invoice is not demoted.
FlagAnomaliesNoDemotion(w) ==
    /\ pc[w] = "detecting"
    /\ ChildInsertFree(on[w])
    /\ flagged' = [flagged EXCEPT ![on[w]] = TRUE]
    /\ Goto(w, "reloading")
    /\ UNCHANGED <<job, invoice, extractions, jobTrail, invoiceTrail, approvals,
                   lock, redis, uploading, page, count, memory>>

\* Seeded fault: the demotion leaves no event.
FlagAnomaliesUnaudited(w) ==
    LET i == on[w] IN
    /\ pc[w] = "detecting"
    /\ ChildInsertFree(i) /\ InvoiceRowFree(i)
    /\ flagged' = [flagged EXCEPT ![i] = TRUE]
    /\ IF invoiceCopy[w] = "validation_passed"
       THEN invoice' = [invoice EXCEPT ![i] = "review_required"] /\ token' = Outdated(i)
       ELSE UNCHANGED <<invoice, token>>
    /\ Goto(w, "reloading")
    /\ UNCHANGED <<job, extractions, jobTrail, invoiceTrail, approvals, lock, redis, uploading,
                   shown, count, memory>>

\* apply_anomaly_flags finds something: it adds warning rows, and demotes the
\* invoice when the loaded copy says VALIDATION_PASSED.  Otherwise the invoice
\* row itself is not updated and its updated_at stays.
FlagAnomalies(w) ==
    LET i == on[w] IN
    /\ pc[w] = "detecting"
    /\ ChildInsertFree(i)
    /\ flagged' = [flagged EXCEPT ![i] = TRUE]
    /\ \/ /\ invoiceCopy[w] = "validation_passed"
          /\ InvoiceRowFree(i)
          /\ invoice' = [invoice EXCEPT ![i] = "review_required"]
          /\ invoiceTrail' = [invoiceTrail EXCEPT ![i] = "review_required"]
          /\ token' = Outdated(i)
       \/ /\ invoiceCopy[w] # "validation_passed"
          /\ UNCHANGED <<invoice, invoiceTrail, token>>
    /\ Goto(w, "reloading")
    /\ UNCHANGED <<job, extractions, jobTrail, approvals, lock, redis, uploading,
                   shown, count, memory>>

\* An error in detection is swallowed after a rollback.
DetectionFails(w) ==
    /\ pc[w] = "detecting"
    /\ Goto(w, "reloading")
    /\ UNCHANGED <<shared, memory>>

\* Logging the flags (or the failure) touches the expired invoice.
ReloadInvoice(w) == Reload(w, "reloading", "approving")

\* auto_approval_decision, on the loaded copy of the status.
AutoApprove(w) ==
    LET i == on[w] IN
    /\ pc[w] = "approving"
    /\ invoiceCopy[w] = "validation_passed" /\ choice[w] = "confident"
    /\ InvoiceRowFree(i)
    /\ invoice' = [invoice EXCEPT ![i] = "approved"]
    /\ invoiceTrail' = [invoiceTrail EXCEPT ![i] = "approved"]
    /\ approvals' = [approvals EXCEPT ![i] = @ \cup { "auto" }]
    /\ token' = Outdated(i)
    /\ Goto(w, "publishing")
    /\ UNCHANGED <<job, extractions, flagged, jobTrail, lock, redis, uploading,
                   shown, count, memory>>

\* Not eligible, or the commit failed and the error was swallowed.
SkipAutoApproval(w) ==
    /\ pc[w] = "approving"
    /\ Goto(w, "publishing")
    /\ UNCHANGED <<shared, memory>>

\* job.completed is published and run_worker closes the session.
PublishCompletion(w) ==
    /\ pc[w] = "publishing"
    /\ Finish(w)
    /\ UNCHANGED shared

-----------------------------------------------------------------------------
(* Worker: record_processing_job_failure *)

FailureGetsJob(w) ==
    /\ pc[w] = "failing"
    /\ Goto(w, "failingJob")
    /\ jobCopy' = [jobCopy EXCEPT ![w] = job[on[w]]]
    /\ UNCHANGED <<shared, on, invoiceCopy, choice, due>>

FailureGetsInvoice(w) == Reload(w, "failingJob", "recording")

\* Seeded fault: the attempt cap is compared with <=.
RetriesLeftOffByOne(w) == choice[w] = "retryable" /\ jobCopy[w].attempts + 1 <= MaxAttempts

\* retryable and job.attempts < max_attempts, after job.attempts += 1.
RetriesLeft(w) == choice[w] = "retryable" /\ jobCopy[w].attempts + 1 < MaxAttempts

\* The commit of either outcome.  The attempt count always changes, so the job
\* row is always written; the statuses only where they differ from the copies.
WriteFailure(w, status) ==
    LET i == on[w] IN
    /\ JobRowFree(i)
    /\ invoiceCopy[w] # status => InvoiceRowFree(i)
    /\ job' = [job EXCEPT ![i] = [status |-> Written(jobCopy[w].status, status, job[i].status),
                                  attempts |-> jobCopy[w].attempts + 1]]
    /\ invoice' = [invoice EXCEPT ![i] = Written(invoiceCopy[w], status, @)]
    /\ token' = IF invoiceCopy[w] # status THEN Outdated(i) ELSE token
    /\ UNCHANGED <<extractions, flagged, invoiceTrail, approvals, shown>>

\* Under the cap: job and invoice go back to QUEUED, whatever they were; the
\* job's status event is written only if the copy was not QUEUED already.
ScheduleRetry(w) ==
    /\ pc[w] = "recording"
    /\ RetriesLeft(w)
    /\ WriteFailure(w, "queued")
    /\ jobTrail' = [jobTrail EXCEPT ![on[w]] = Written(jobCopy[w].status, "queued", @)]
    /\ Goto(w, "rescheduling")
    /\ UNCHANGED <<lock, redis, uploading, count, memory>>

\* Seeded fault: the retry is committed but never scheduled.
EnqueueRetryForgotten(w) ==
    /\ pc[w] = "rescheduling"
    /\ Finish(w)
    /\ UNCHANGED shared

\* zadd with a positive delay (the configured backoff is 30 s): a member of the
\* set once, however often added.
EnqueueRetry(w) ==
    /\ pc[w] = "rescheduling"
    /\ delayed' = delayed \cup { on[w] }
    /\ Finish(w)
    /\ UNCHANGED <<db, lock, queue, uploading, page, count>>

\* At the cap, or a permanent error: _mark_job_failed.
MarkFailed(w) ==
    /\ pc[w] = "recording"
    /\ ~RetriesLeft(w)
    /\ WriteFailure(w, "failed")
    /\ jobTrail' = [jobTrail EXCEPT ![on[w]] = "failed"]
    /\ Finish(w)
    /\ UNCHANGED <<lock, redis, uploading, count>>

-----------------------------------------------------------------------------
(* Operator: requeue_processing_job *)

\* The job is read without a lock and must be FAILED.
OpenFailedJob(o, i) ==
    /\ pc[o] = "idle"
    /\ requeues[i] < MaxRequeues
    /\ job[i].status = "failed"
    /\ requeues' = [requeues EXCEPT ![i] = @ + 1]
    /\ Goto(o, "gotJob")
    /\ on' = [on EXCEPT ![o] = i]
    /\ jobCopy' = [jobCopy EXCEPT ![o] = job[i]]
    /\ UNCHANGED <<db, lock, redis, uploading, page, overrides, faults, invoiceCopy, choice, due>>

\* db.get(Invoice), and the transition of the copy to QUEUED.
RequeueGetsInvoice(o) ==
    /\ pc[o] = "gotJob"
    /\ CanTransition(invoice[on[o]], "queued")
    /\ Goto(o, "requeuing")
    /\ invoiceCopy' = [invoiceCopy EXCEPT ![o] = invoice[on[o]]]
    /\ UNCHANGED <<shared, on, jobCopy, choice, due>>

\* An illegal transition ends the request.
RequeueRaises(o) ==
    /\ pc[o] = "gotJob"
    /\ ~CanTransition(invoice[on[o]], "queued")
    /\ Finish(o)
    /\ UNCHANGED shared

\* Seeded fault: the requeue writes no event for the job.
CommitRequeueUnaudited(o) ==
    LET i == on[o] IN
    /\ pc[o] = "requeuing"
    /\ InvoiceRowFree(i)
    /\ job' = [job EXCEPT ![i] = [status |-> "queued", attempts |-> job[i].attempts]]
    /\ invoice' = [invoice EXCEPT ![i] = "queued"]
    /\ invoiceTrail' = [invoiceTrail EXCEPT ![i] = "queued"]
    /\ token' = Outdated(i)
    /\ Goto(o, "requeued")
    /\ UNCHANGED <<extractions, flagged, jobTrail, approvals, lock, redis, uploading,
                   shown, count, memory>>

\* The reset of job and invoice is committed with both audit events.
CommitRequeue(o) ==
    LET i == on[o] IN
    /\ pc[o] = "requeuing"
    /\ InvoiceRowFree(i)
    /\ job' = [job EXCEPT ![i] = [status |-> "queued", attempts |-> job[i].attempts]]
    /\ invoice' = [invoice EXCEPT ![i] = "queued"]
    /\ jobTrail' = [jobTrail EXCEPT ![i] = "queued"]
    /\ invoiceTrail' = [invoiceTrail EXCEPT ![i] = "queued"]
    /\ token' = Outdated(i)
    /\ Goto(o, "requeued")
    /\ UNCHANGED <<extractions, flagged, approvals, lock, redis, uploading,
                   shown, count, memory>>

EnqueueRequeue(o) ==
    /\ pc[o] = "requeued"
    /\ queue' = Append(queue, on[o])
    /\ Finish(o)
    /\ UNCHANGED <<db, lock, delayed, uploading, page, count>>

-----------------------------------------------------------------------------
(* Reviewer: get_invoice_detail, then submit_invoice_review *)

\* The page shows the row and its children; its token may or may not be sent.
OpenInvoice(r, i, sent) ==
    /\ pc[r] = "idle"
    /\ invoice[i] # "absent"
    /\ Goto(r, "reviewing")
    /\ on' = [on EXCEPT ![r] = i]
    /\ token' = [token EXCEPT ![r] = sent]
    /\ shown' = [shown EXCEPT ![r] = [status |-> invoice[i], flagged |-> flagged[i]]]
    /\ UNCHANGED <<db, lock, redis, uploading, count, jobCopy, invoiceCopy, choice, due>>

ClosePage(r) ==
    /\ Finish(r)
    /\ shown' = [shown EXCEPT ![r] = NothingShown]

\* Leaving the page, a 409 on a stale token or a 400 on an illegal decision.
LeaveReview(r) ==
    /\ pc[r] = "reviewing"
    /\ ClosePage(r)
    /\ token' = [token EXCEPT ![r] = "none"]
    /\ UNCHANGED <<db, lock, redis, uploading, count>>

\* What the request does once it has read the row: the token check, if a token
\* came with it, and the transition check.
PassesChecks(r, decision) ==
    token[r] # "stale" /\ CanTransition(invoice[on[r]], decision)

Decide(r, decision) ==
    /\ Goto(r, "deciding")
    /\ choice' = [choice EXCEPT ![r] = decision]
    /\ invoiceCopy' = [invoiceCopy EXCEPT ![r] = invoice[on[r]]]

\* Seeded fault: the row is selected without FOR UPDATE.
SubmitReviewUnlocked(r, decision) ==
    /\ pc[r] = "reviewing"
    /\ PassesChecks(r, decision)
    /\ Decide(r, decision)
    /\ UNCHANGED <<shared, on, jobCopy, due>>

\* Seeded fault: the expected_updated_at of the request is ignored.
SubmitReviewIgnoringToken(r, decision) ==
    /\ pc[r] = "reviewing"
    /\ InvoiceRowFree(on[r])
    /\ CanTransition(invoice[on[r]], decision)
    /\ Lock(on[r], r)
    /\ Decide(r, decision)
    /\ UNCHANGED <<db, redis, uploading, page, count, on, jobCopy, due>>

\* SELECT ... FOR UPDATE reads the committed row and locks it; then the checks.
SubmitReview(r, decision) ==
    /\ pc[r] = "reviewing"
    /\ InvoiceRowFree(on[r])
    /\ PassesChecks(r, decision)
    /\ Lock(on[r], r)
    /\ Decide(r, decision)
    /\ UNCHANGED <<db, redis, uploading, page, count, on, jobCopy, due>>

\* The status a person has chosen is written, with its audit event.
WriteChoice(a, author) ==
    LET i == on[a] IN
    /\ invoice' = [invoice EXCEPT ![i] = choice[a]]
    /\ invoiceTrail' = [invoiceTrail EXCEPT ![i] = choice[a]]
    /\ approvals' = IF choice[a] = "approved"
                    THEN [approvals EXCEPT ![i] = @ \cup { author }] ELSE approvals
    /\ UNCHANGED <<job, extractions, flagged, jobTrail>>

\* The commit of the review row, the corrections and the new status.
RecordDecision(r) ==
    /\ pc[r] = "deciding"
    /\ WriteChoice(r, "reviewer")
    /\ token' = [Outdated(on[r]) EXCEPT ![r] = "none"]
    /\ Unlock(on[r])
    /\ ClosePage(r)
    /\ UNCHANGED <<redis, uploading, count>>

\* Bad corrections, or a corrected number that collides: rolled back.
ReviewFails(r) ==
    /\ pc[r] = "deciding"
    /\ Unlock(on[r])
    /\ ClosePage(r)
    /\ token' = [token EXCEPT ![r] = "none"]
    /\ UNCHANGED <<db, redis, uploading, count>>

-----------------------------------------------------------------------------
(* Admin: change_invoice_status *)

\* Read without a lock; the request names a status the transition map allows.
ReadForOverride(a, i, requested) ==
    /\ pc[a] = "idle"
    /\ overrides < MaxOverrides
    /\ invoice[i] # "absent"
    /\ CanTransition(invoice[i], requested)
    /\ overrides' = overrides + 1
    /\ Goto(a, "overriding")
    /\ on' = [on EXCEPT ![a] = i]
    /\ invoiceCopy' = [invoiceCopy EXCEPT ![a] = invoice[i]]
    /\ choice' = [choice EXCEPT ![a] = requested]
    /\ UNCHANGED <<db, lock, redis, uploading, page, requeues, faults, jobCopy, due>>

CommitOverride(a) ==
    /\ pc[a] = "overriding"
    /\ InvoiceRowFree(on[a])
    /\ WriteChoice(a, "admin")
    /\ token' = Outdated(on[a])
    /\ Finish(a)
    /\ UNCHANGED <<lock, redis, uploading, shown, count>>

-----------------------------------------------------------------------------
(* Faults *)

Fault ==
    /\ faults < MaxFaults
    /\ faults' = faults + 1
    /\ UNCHANGED <<requeues, overrides>>

\* A worker process dies: its transaction is rolled back, and the job id it
\* popped (or removed from the retry set) is gone.  It also stands for a Redis
\* error, which run_worker re-raises or never catches.
WorkerCrashes(w) ==
    /\ Fault
    /\ pc[w] # "idle"
    /\ lock' = [i \in Invoices |-> IF lock[i] = w THEN NoOne ELSE lock[i]]
    /\ Finish(w)
    /\ UNCHANGED <<db, redis, uploading, page>>

\* After the commit the session reloads the expired job or invoice and loses
\* its connection: the exception takes the failure path although the extraction
\* is committed.
ReloadFails(w) ==
    /\ Fault
    /\ pc[w] \in { "committed", "reloading", "publishing" }
    /\ Goto(w, "failing")
    /\ choice' = [choice EXCEPT ![w] = "retryable"]
    /\ UNCHANGED <<db, lock, redis, uploading, page, on, jobCopy, invoiceCopy, due>>

\* The request dies, or Redis refuses the push, after the commit.
UploadPushFails(i) ==
    /\ Fault
    /\ i \in uploading
    /\ uploading' = uploading \ { i }
    /\ UNCHANGED <<db, lock, redis, pc, memory, page>>

RequeuePushFails(o) ==
    /\ Fault
    /\ pc[o] = "requeued"
    /\ Finish(o)
    /\ UNCHANGED <<db, lock, redis, uploading, page>>

-----------------------------------------------------------------------------
(* Specification *)

Polling(w) ==
    \/ \E ready \in SUBSET delayed : ScanDue(w, ready)
    \/ \E i \in Invoices : RemoveDue(w, i)
    \/ PushDue(w) \/ Dequeue(w) \/ PollTimesOut(w)

Processing(w) ==
    \/ GetJob(w) \/ SkipIneligible(w) \/ GetInvoice(w) \/ TransitionRaises(w)
    \/ BeginProcessing(w)
    \/ \E verdict \in ExtractionVerdict, confidence \in { "confident", "unsure" } :
          CommitExtraction(w, verdict, confidence)
    \/ \E kind \in { "retryable", "permanent" } : ExtractionFails(w, kind)
    \/ EmbedInvoice(w) \/ NoAnomaly(w) \/ FlagAnomalies(w) \/ DetectionFails(w)
    \/ ReloadInvoice(w) \/ AutoApprove(w) \/ SkipAutoApproval(w) \/ PublishCompletion(w)

Failure(w) ==
    \/ FailureGetsJob(w) \/ FailureGetsInvoice(w)
    \/ ScheduleRetry(w) \/ EnqueueRetry(w) \/ MarkFailed(w)

WorkerNext(w) == Polling(w) \/ Processing(w) \/ Failure(w)

UploadNext(i) == Upload(i) \/ EnqueueUpload(i)

OperatorNext(o) ==
    \/ \E i \in Invoices : OpenFailedJob(o, i)
    \/ RequeueGetsInvoice(o) \/ RequeueRaises(o) \/ CommitRequeue(o) \/ EnqueueRequeue(o)

ReviewerNext(r) ==
    \/ \E i \in Invoices, sent \in { "none", "current" } : OpenInvoice(r, i, sent)
    \/ LeaveReview(r)
    \/ \E decision \in ReviewDecision : SubmitReview(r, decision)
    \/ RecordDecision(r) \/ ReviewFails(r)

AdminNext(a) ==
    \/ \E i \in Invoices, requested \in InvoiceStatus : ReadForOverride(a, i, requested)
    \/ CommitOverride(a)

FaultNext ==
    \/ \E w \in Workers : WorkerCrashes(w) \/ ReloadFails(w)
    \/ \E i \in Invoices : UploadPushFails(i)
    \/ \E o \in Operators : RequeuePushFails(o)

Next ==
    \/ \E i \in Invoices : UploadNext(i)
    \/ \E w \in Workers : WorkerNext(w)
    \/ \E o \in Operators : OperatorNext(o)
    \/ \E r \in Reviewers : ReviewerNext(r)
    \/ \E a \in Admins : AdminNext(a)
    \/ FaultNext

Spec == Init /\ [][Next]_vars

\* A live worker keeps running, and a session that waits for a row lock is
\* granted it in turn, so a worker that can step again and again steps.  A
\* retry's due time comes, and stays past, so a scan sooner or later returns
\* it.  A request that holds a lock, or has yet to push a job id, completes.
Fairness ==
    /\ \A w \in Workers : SF_vars(WorkerNext(w))
    /\ \A w \in Workers, i \in Invoices :
          SF_vars(\E ready \in SUBSET delayed : i \in ready /\ ScanDue(w, ready))
    /\ \A i \in Invoices : WF_vars(EnqueueUpload(i))
    /\ \A o \in Operators : WF_vars(EnqueueRequeue(o))
    /\ \A r \in Reviewers : WF_vars(RecordDecision(r) \/ ReviewFails(r))

FairSpec == Spec /\ Fairness

-----------------------------------------------------------------------------
(* Properties *)

\* Every variable has its type.  A committed job row is never "processing": the
\* worker only flushes that status (processing_jobs.py:154-156, 219-222), and
\* attempt counts never go below zero.
TypeOK ==
    /\ job \in [Invoices -> JobRow]
    /\ invoice \in [Invoices -> CommittedInvoiceStatus]
    /\ extractions \in [Invoices -> Nat]
    /\ flagged \in [Invoices -> BOOLEAN]
    /\ jobTrail \in [Invoices -> CommittedJobStatus]
    /\ invoiceTrail \in [Invoices -> CommittedInvoiceStatus]
    /\ approvals \in [Invoices -> SUBSET { "auto", "reviewer", "admin" }]
    /\ lock \in [Invoices -> Actors \cup { NoOne }]
    /\ queue \in Seq(Invoices)
    /\ delayed \in SUBSET Invoices
    /\ uploading \in SUBSET Invoices
    /\ pc \in [Actors -> WorkerStep \cup RequestStep]
    /\ on \in [Actors -> Invoices \cup { NoInvoice }]
    /\ jobCopy \in [Actors -> JobRow]
    /\ invoiceCopy \in [Actors -> CommittedInvoiceStatus]
    /\ choice \in [Actors -> Choice]
    /\ due \in [Actors -> SUBSET Invoices]
    /\ token \in [Reviewers -> { "none", "current", "stale" }]
    /\ shown \in [Reviewers -> Shown]
    /\ requeues \in [Invoices -> Nat]
    /\ overrides \in Nat
    /\ faults \in Nat

\* A row lock is held exactly by the session whose open transaction took it:
\* a worker between flush and commit, a reviewer between SELECT FOR UPDATE and
\* commit.  Rollbacks and crashes on every path must give it back (worker.py:65,
\* invoice_review.py:152), or every later writer of the row waits forever.
HoldsLock(a) ==
    \/ a \in Workers /\ pc[a] = "extracting"
    \/ a \in Reviewers /\ pc[a] = "deciding"

LockDiscipline ==
    \A i \in Invoices, a \in Actors :
        lock[i] = a <=> HoldsLock(a) /\ on[a] = i

\* A reviewer about to commit decides on the committed row: the status it read
\* under FOR UPDATE is still the row's status, its decision is a legal move from
\* it, and the page it decided on has not been overtaken since the token check
\* (invoice_review.py:112-133: lock, optimistic check, transition check).
ReviewerHoldsCurrentRow ==
    \A r \in Reviewers : pc[r] = "deciding" =>
        LET i == on[r] IN
        /\ invoice[i] = invoiceCopy[r]
        /\ CanTransition(invoice[i], choice[r])
        /\ token[r] # "stale"

\* A decision sent with the page's token is taken on the status the page shows,
\* whatever workers, admins and other reviewers committed since it was opened.
DecisionMatchesPage ==
    \A r \in Reviewers :
        pc[r] = "deciding" /\ token[r] # "none" =>
            invoice[on[r]] = shown[r].status

\* The same for the anomaly findings: a decision sent with the token is taken
\* with every anomaly flag of the invoice on the page (invoice_review.py:123-124).
DecisionSawFlags ==
    \A r \in Reviewers :
        pc[r] = "deciding" /\ token[r] # "none" =>
            flagged[on[r]] = shown[r].flagged

\* Where the id of job i is, or is held on its way to the worker code.
InHand(a, i) ==
    /\ on[a] = i
    /\ \/ a \in Workers /\ pc[a] \in
             { "pushing", "dequeued", "gotJob", "starting", "extracting",
               "failing", "failingJob", "recording", "rescheduling" }
       \/ a \in Operators /\ pc[a] = "requeued"

Deliveries(i) ==
    { <<"queue", n>> : n \in { k \in 1..Len(queue) : queue[k] = i } }
        \cup { <<"delayed", j>> : j \in delayed \cap { i } }
        \cup { <<"upload", j>> : j \in uploading \cap { i } }
        \cup { <<"hand", a>> : a \in { b \in Actors : InHand(b, i) } }

\* No job is on the queue twice: the id of a job is in at most one place among
\* queue, retry set, upload, operator and workers (zrem's result in
\* _promote_due_processing_jobs; "restrict it to failed jobs so an in-flight or
\* completed job can't be duplicated onto the queue", processing_jobs.py:366-367).
AtMostOneDelivery ==
    \A i \in Invoices : \A p, q \in Deliveries(i) : p = q

\* A job is QUEUED exactly as long as its id is somewhere a worker will find
\* it: commit-then-enqueue on upload, retry and requeue loses no job and leaves
\* no id behind that could restart a settled one.
QueuedIffDelivered ==
    \A i \in Invoices : job[i].status = "queued" <=> Deliveries(i) # {}

\* Each upload and each accepted reprocess request pays for at most one stored
\* extraction, however its deliveries are retried or duplicated.  A connection
\* lost after the commit costs one more: the reload raises, and the failure
\* path queues the completed job again (processing_jobs.py:223, worker.py:62-81).
ExtractionsPaidFor ==
    \A i \in Invoices : extractions[i] <= 1 + requeues[i] + faults

\* The retry cap: automatic retries alone take a job to MaxAttempts failed
\* attempts; only an operator's request allows one more.
AttemptsCapped ==
    \A i \in Invoices : job[i].attempts <= MaxAttempts + requeues[i]

\* The last job status event of the audit log is the job's status, although
\* failures write statuses and events from copies (processing_jobs.py:510, 634).
JobTrailMatchesRow == \A i \in Invoices : jobTrail[i] = job[i].status

\* The failure path writes the invoice's status without an event of the invoice
\* (processing_jobs.py:489 and 640).  Still the two trails together tell the row:
\* a failure is told by the job's last event, everything else by the invoice's
\* own, whoever wrote last among workers, operators and reviewers.
TrailsTellTheInvoice ==
    \A i \in Invoices :
        invoice[i] = IF jobTrail[i] = "failed" THEN "failed" ELSE invoiceTrail[i]

\* The invoice's own trail has every status transition (processing_jobs.py:3-4).
InvoiceTrailMatchesRow == \A i \in Invoices : invoiceTrail[i] = invoice[i]

\* Touchless approval only where detection found nothing: an invoice the policy
\* approved carries no anomaly flag (invoice_auto_approval.py:3-4).
AutoApprovedNotFlagged ==
    \A i \in Invoices : "auto" \in approvals[i] => ~flagged[i]

\* An approval is either the policy's or a person's, and the audit log tells
\* which (invoice_auto_approval.py:6-7).
ApprovalHasOneAuthor ==
    \A i \in Invoices : "auto" \in approvals[i] => approvals[i] = { "auto" }

\* Every job id in Redis names a committed row ("a worker can never pick up a
\* job whose invoice row was rolled back", invoice_intake.py:300-301).
DeliveredJobsExist ==
    \A i \in Invoices : Deliveries(i) # {} => job[i].status # "absent"

\* A rejected invoice stays rejected: no worker still holding an older copy of
\* the row writes over a reviewer's rejection.
RejectionIsFinal ==
    [][\A i \in Invoices : invoice[i] = "rejected" => invoice'[i] = "rejected"]_vars

\* Terminal statuses are terminal (invoice_workflow.py:20-21): an approved
\* invoice stays approved.
ApprovalIsFinal ==
    [][\A i \in Invoices : invoice[i] = "approved" => invoice'[i] = "approved"]_vars

\* Every queued job is finished: completed, or failed where an operator sees it.
JobsSettle ==
    \A i \in Invoices :
        job[i].status = "queued" ~> job[i].status \in { "completed", "failed" }

\* The pipeline implements the job lifecycle it promises.
Lifecycle ==
    INSTANCE JobLifecycle WITH
        stage <- [i \in Invoices |-> job[i].status]

ImplementsJobLifecycle == Lifecycle!Spec

-----------------------------------------------------------------------------
(* The inductive invariant behind the theorems of InvoicePipelineProofs *)

Known(i) == job[i].status # "absent"

\* A session past its first read works on an invoice, and a session about to
\* write a chosen status has chosen one.
SessionOK ==
    \A a \in Actors :
        /\ pc[a] \notin { "idle", "promoting" } => on[a] \in Invoices
        /\ pc[a] \in { "deciding", "overriding" } => choice[a] \in InvoiceStatus

\* Invoice and job appear together, and only invoices that exist are named by
\* Redis, by an upload or by a session.
ExistenceOK ==
    /\ \A i \in Invoices : job[i].status = "absent" <=> invoice[i] = "absent"
    /\ \A i \in uploading \cup delayed : Known(i)
    /\ \A k \in 1..Len(queue) : Known(queue[k])
    /\ \A a \in Actors : on[a] \in Invoices => Known(on[a])
    /\ \A a \in Actors : \A i \in due[a] : Known(i)

\* A token that still matches belongs to an open page, and that page shows the
\* committed status.
PageOK ==
    \A r \in Reviewers : token[r] = "current" =>
        /\ pc[r] \in { "reviewing", "deciding" }
        /\ invoice[on[r]] = shown[r].status

IInv ==
    /\ TypeOK
    /\ SessionOK
    /\ ExistenceOK
    /\ LockDiscipline
    /\ ReviewerHoldsCurrentRow
    /\ PageOK
=============================================================================
