# Invoice platform: TLA+ models and proofs

This directory holds the formal models kept beside the invoice platform: TLA+
modules translated from the source of the backend and of the browser's client,
TLC configurations that check them on small instances, and TLAPS proofs about
them for every instance. Paths below are relative to `src/`; `services/`,
`api/` and so on are under `backend/app/`.

| module | what it models | proofs |
| --- | --- | --- |
| `InvoiceWorkflow` | statuses of invoices and jobs, the transition map | |
| `InvoicePipeline` | Redis queue, workers, failure policy, reprocess, review, override: the core | `InvoicePipelineProofs` |
| `JobLifecycle` | what the pipeline promises about one job (abstract specification) | `InvoicePipelineProofs` |
| `Extraction` | choice of provider, tiering, accounting, verdict, outlier test, touchless decision | `ExtractionProofs` |
| `Similarity` | embedding reuse, near duplicates, flags and approval across workers | `SimilarityProofs` |
| `Intake` | the two create endpoints over database, file store and queue | `IntakeProofs` |
| `UserAdmin` | the four writing operations of user administration, and their audit trail | `UserAdminProofs` |
| `Sessions` | tokens, cookies, rotation, revocation and the browser's silent refresh | `SessionsProofs` |
| `RateLimiter` | the Lua sliding window, the replicas' clocks, failing open | `RateLimiterProofs` |
| `Realtime` | publication, the event stream and the browser's query cache | `RealtimeProofs` |

`MC<Module>.tla` and the `.cfg` files instantiate them for TLC (`Realtime.cfg`
is for `Realtime` itself). `PROJECT.json` lists components, runs, seeded faults,
the map from definitions to source lines, findings, hazards and theorems. To
check: `tlc -config Delivery.cfg MCInvoicePipeline.tla` (likewise the other
configurations), `tlapm SessionsProofs.tla` (likewise the other `*Proofs`; that of
the pipeline takes six minutes).

## 1. Inventory

The platform is a FastAPI application, PostgreSQL, Redis, one or more worker
processes (`infra/k8s/overlays/production` runs two) and a React client. All
durable state is in PostgreSQL; Redis holds the work queue, the retry set, the
rate-limit windows, the revoked tokens and the event channels.

| component | state | operations | hard behaviour | what makes it correct |
| --- | --- | --- | --- | --- |
| Workflow (`services/invoice_workflow.py`) | none: a map of legal transitions | `transition_invoice_status` | every service is meant to go through it, several do not | only legal moves; decided invoices stay decided |
| Intake (`services/invoice_intake.py`) | invoices, files, first job | upload, metadata, status override | duplicate checks before the insert; file stored before, id pushed after the commit | no duplicate uploads; database and storage agree; no id before its row |
| Processing jobs (`services/processing_jobs.py`) | job rows, Redis list, Redis sorted set | enqueue, promote, dequeue, process, record failure, requeue | two stores without a common transaction, several workers, retries | each queued job delivered once, none lost, retries capped, audit complete |
| Worker (`worker.py`) | none between jobs | the loop | crashes at any point, rollback before recording a failure | gives locks back; every queued job is settled |
| Extraction, validation (`services/invoice_extraction.py`, `invoice_validation.py`) | extraction rows, line items, verdict | provider call, tiering, persist | permanent and transient errors; zero treated as missing | verdict and confidences follow the rules |
| Anomaly (`services/invoice_anomaly.py`), embedding (`services/invoice_embedding.py`) | warning rows, vectors | detect, flag, demote, reuse | runs after the commit on a cached copy of the invoice | flags never undo a decision, a flagged invoice is not auto-approved |
| Auto-approval (`services/invoice_auto_approval.py`) | approval events | decide, approve | decides on a cached copy | touchless only where nothing was found; distinguishable from people |
| Review (`services/invoice_review.py`) | reviews, corrections | open, submit | long-lived pages, concurrent writers of the row | decides on the row the page shows |
| User administration (`services/user_admin.py`) | users, roles | create, update, passwords | count of admins read before the update | an organisation keeps an admin |
| Authentication (`api/auth.py`, `frontend/src/services/api-client.ts`) | revoked token ids in Redis | login, refresh, logout | rotation in two steps, fails open | a revoked token stays dead, a logout ends the session, a renewal signs nobody out |
| Rate limiter (`middleware/rate_limit.py`) | a sliding window per key in Redis | check | several replicas and clocks, fails open | at most the limit per window, up to the clocks' slack |
| Events (`services/events.py`, `api/events.py`, `frontend/src/queries/realtime.ts`) | subscriptions, client cache | publish, stream, invalidate | lost while disconnected | the client's view converges |
| Assistant, tools, MCP, search (`services/ap_assistant.py`, `invoice_tools.py`, `invoice_nl_search.py`, `mcp/server.py`) | none | bounded tool loop, read-only queries | provider decides what is called | terminates within its bound, stays in its tenant |
| Files (`services/file_storage.py`, `invoice_file_access.py`, `file_validation.py`, `file_preprocessing.py`) | blobs, signed links | store, delete, sign, verify | compensation after a failed commit, expiry | no link outlives its expiry |
| Audit, metrics, accuracy, explanations | audit rows, counters | append, report | written in the caller's transaction | follows the rows it describes |

Components interact through the rows of `invoices` and `processing_jobs`,
written by intake, workers, operators, reviewers and admins; through the ids in
the two Redis structures; and through events, which inform and never decide.
The hard part of the system is where those meet: five kinds of sessions write
the same two rows from copies read earlier, and the ids that make a worker act
live in a store that no database transaction covers. That is what is modelled
as the core; every other component is a module of its own around it.
`PROJECT.json` lists every hazard with its source line.

## 2. How the modules correspond to the code

Definitions commented "Seeded fault" are deliberately wrong variants of the
definition that follows each; no specification uses them. Substituting one for
its definition must make TLC report the property named in `PROJECT.json`.

How the modules relate: `InvoicePipeline` INSTANCEs `JobLifecycle` for its
refinement and EXTENDS `InvoiceWorkflow`. The other modules look closer at one
step of the core or at something beside it, and each says what the core leaves
open. `Intake` is the core's `Upload`/`EnqueueUpload` with its checks, files and
compensation; `Extraction` is what the core's `CommitExtraction` chooses freely
(verdict and confidence); `Similarity` is its `EmbedInvoice`, `FlagAnomalies`
and `AutoApprove` for several invoices that resemble each other. `UserAdmin`,
`Sessions` and `RateLimiter` share no rows with the core, and `Realtime` only
reads them. They are not composed into one specification: the product of their
states is out of reach, and they meet at interfaces that are atomic in the code
(a commit, a push, a script).

### 2.1 `InvoicePipeline`

An upload creates one invoice and one job, so invoice and job share a name.

**Committed rows.** `job[i]` (status, attempts), `invoice[i]` (status),
`extractions[i]` (a count of rows) and `flagged[i]` (whether anomaly rows exist)
are the committed database. Uncommitted values are seen by no other session
(READ COMMITTED), so a transaction's writes become one action at its commit;
what it read earlier stays in `jobCopy`, `invoiceCopy` and `choice`. A session
caches a row until a commit or rollback expires it, and an UPDATE contains only
columns whose value differs from the loaded one: `Written(loaded, new, current)`.
This is what makes a stale copy dangerous, and it is kept.

**Audit log.** `jobTrail` and `invoiceTrail` are the statuses in the last
status-changed events; `approvals` is the set of authors of approval events.

**Locks.** `lock[i]` is the session whose open transaction holds the invoice
row: a worker between `db.flush()` of the PROCESSING statuses and the commit
(`processing_jobs.py:154-222`, across the provider call), or a reviewer between
`SELECT ... FOR UPDATE` and its commit. Other transactions write in a single
flush and commit, so they lock and release in one action and only wait.

**Redis.** `queue` is the list, `delayed` the sorted set (scores abstracted: any
subset may be due), `uploading` the uploads committed and not yet pushed.

**Sessions.** `pc[a]` and `on[a]` say where actor `a` is and on which invoice.

| code | actions |
| --- | --- |
| `create_invoice_upload` | `Upload`, `EnqueueUpload` |
| `_promote_due_processing_jobs`, `dequeue_processing_job` | `ScanDue`, `RemoveDue`, `PushDue`, `Dequeue`, `PollTimesOut` |
| `process_invoice_extraction_job` | `GetJob`, `SkipIneligible`, `GetInvoice`, `TransitionRaises`, `BeginProcessing`, `CommitExtraction`, `ExtractionFails` |
| `_embed_invoice`, `apply_anomaly_flags`, `maybe_auto_approve` | `EmbedInvoice`, `NoAnomaly`, `FlagAnomalies`, `DetectionFails`, `ReloadInvoice`, `AutoApprove`, `SkipAutoApproval`, `PublishCompletion` |
| `record_processing_job_failure`, `_mark_job_failed` | `FailureGetsJob`, `FailureGetsInvoice`, `ScheduleRetry`, `EnqueueRetry`, `MarkFailed` |
| `requeue_processing_job` | `OpenFailedJob`, `RequeueGetsInvoice`, `RequeueRaises`, `CommitRequeue`, `EnqueueRequeue` |
| `get_invoice_detail`, `submit_invoice_review` | `OpenInvoice`, `LeaveReview`, `SubmitReview`, `RecordDecision`, `ReviewFails` |
| `change_invoice_status` | `ReadForOverride`, `CommitOverride` |
| crashes, lost connections, refused pushes | `WorkerCrashes`, `ReloadFails`, `UploadPushFails`, `RequeuePushFails` |

**The token.** `updated_at` is abstracted to whether the value a page holds still
equals the row's (`token`): every UPDATE of the invoice row makes it `stale`
(`Outdated`), inserting child rows does not. A request may also come without it.

**Left out.** Field values and corrections, the provider's answer (the verdict
and the confidence are free choices), wording, events to clients, tenants (every
query carries the organization), reads that change nothing. The configured retry
delay is positive, so a retry always goes through the retry set.

### 2.2 `Extraction`

One invoice and the attempts of its job. `Init` ranges over the upload (amount
present or not), the provider configuration, tiering and the supplier's history
of amounts. `Extractor` is `build_invoice_extractor`: no key for the chosen provider
means the development extractor, whichever other provider has a key. `Tiered` is
the cheap first call of `openai`; `PrimaryAnswers` the second; `KeepAnswer` the
comparison of confidences and the sum of the usage (`None` counts only when both
are `None`). `CallFails` distinguishes errors worth a retry; `PersistFails` is the
flush or commit that raises after an answer was paid for (an extracted number that
another invoice has), which is retried and pays again. `EveryRulePasses`
is the validation rules reduced to what decides: blanks, threshold, confidence.
`Persist` stores the row, merges the total (`MergedTotal` is the `or` of line
679) and sets the verdict. `AmountOutlier` is the z-score multiplied out so that
it is exact in integers. Amounts are whole thousands, confidences whole percents.

### 2.3 `Similarity`

Each invoice goes through its stages under some worker, interleaved with all
others and with reviews (`Review`) and deployments (`SwitchModel`). Every query
sees what is committed when it runs, so lookup, provider call and store are
separate actions. A vector is the pair of model and text; `Near` is the
similarity query's threshold as a symmetric relation between texts. `paid` says
whether the row carries the provider's spend. The nearest neighbour is exact here;
PostgreSQL looks it up in an HNSW index (`services/invoice_embedding.py:220-232`),
which is approximate and may miss one. Detection that is switched off
(`anomaly_detection_enabled`) is `DetectionFails` at its first stage: nothing is
stored, and the invoice counts among the `missed`.

### 2.4 `Intake`

A request passes its checks (checksum, supplier and number), inserts (waiting
for an uncommitted row with its key, as PostgreSQL's unique index does), stores
the file, commits, and pushes. Each step can fail, each failure has the code's
own compensation (`RollBack`, `DeleteFile`), a commit's answer can be lost
(`CommitFails` either way), and a replica can die (`Crash`). `loop[p]` is the
event loop of replica `p`: the upload endpoint is a coroutine that never awaits
after it has read the body, so uploads of one replica do not interleave;
metadata requests run in the thread pool and do. `Renumber` is a reviewer's
correction. `unanswered`, `leaked` and `renumbered` record what the properties
except: commits whose answer was lost, files a fault left behind, rows whose
number was corrected.

### 2.5 `UserAdmin`

Each request authenticates (and so loads its caller), loads its target, checks
address and role in steps, and writes once: the session does not autoflush, so
the commit is the only write, with the audit entry in the same transaction.
`Written` is the UPDATE that mentions only changed columns. `raced` is the set
of pairs of requests that overlapped. `created_at` of an audit row is the start of its
transaction, and `NoLater` compares two entries by it, as `api/audit_logs.py`
orders them.

### 2.6 `Sessions`

One browser with a cookie jar and several calls in flight over replicas whose
clocks differ by up to `Skew`. Time is in ticks, `Second` of them to a second,
since `exp` and the lifetime of a revocation are truncated to seconds. A call is
sent, may be refused (401), renews once (`SendRefresh`, `CheckRefresh`,
`Rotate`, `SetCookies`), is resent, or gives up and signs the user out. Sign-out
revokes the two tokens one after the other. A Redis error lets a token pass and
a revocation be lost. `LoseRefresh` is a renewal whose response is lost, after which
a query starts again once; `LoseLogout` a sign-out lost on its way there or back,
which the client swallows (`frontend/src/queries/auth.ts:45`): it forgets the session
and keeps the cookies. A page loaded anew with those cookies, and so signed in
again, is not modelled. `tangled` records that a call's renewal or sign-out
overlapped another's.

### 2.7 `RateLimiter`

One client under one rule (keys are independent). A request is stamped by its
replica's clock, within `Skew` of real time, reaches Redis within `Delay`, and
the script (prune, count, add or refuse with the oldest stamp) is one atomic
step: `Admit` or `Deny`. `FailOpen` is the middleware's answer to an error.
`ranAt` is the real time at which the script ran.

### 2.8 `Realtime`

One invoice, one tab with two queries (list and detail), and all other writers
as `Write(kind)`: job events refresh only the list, status events both, status
overrides publish nothing. Commit and publication are separate; a publication
can be lost. A broken stream reconnects without fetching again, and a 401 on
reconnecting closes it for good. A review carries the page's version and is
answered with the row, a conflict, or another refusal that only shows a toast.

The query cache is a library (`@tanstack/react-query` 5). `Invalidate`, `Restarted`,
`Load`, `Select` and `Forget` model what this code relies on: an invalidated query
is marked stale and, if mounted, loaded again; a load under way is cancelled for it
only when the query has data, for without data the library joins the request it has
already sent, and that request's answer ends the invalidation; a failed load is
tried once more; a record nobody looks at is dropped after a while. `heard[q]` is the
newest version that query `q` was told of and whose load the server had yet to
read at that moment, or had to read again (`Heeds`).

## 3. Runs

Each run asks one question, with the smallest instance in which the interesting
case occurs. Counts are distinct states.

| run | instance | checks | states |
| --- | --- | --- | --- |
| `Delivery` | 2 invoices, 2 workers, 1 operator, 1 requeue each, 3 attempts, no fault | `AtMostOneDelivery`, `QueuedIffDelivered`, `AttemptsCapped`, `JobTrailMatchesRow`, `ImplementsJobLifecycle` | 83 thousand |
| `Review` | 1 invoice, 2 workers, 1 operator, 2 reviewers, 2 attempts, fair | `ReviewerHoldsCurrentRow`, `DecisionMatchesPage`, `AutoApprovedNotFlagged`, `RejectionIsFinal`, `TrailsTellTheInvoice`, `JobsSettle` | 250 thousand |
| `Crashes` | 1 invoice, 2 workers, 2 operators, admin, 2 requeues, 1 override, 1 fault, 3 attempts | `TypeOK`, `LockDiscipline`, `DeliveredJobsExist`, `ExtractionsPaidFor` | 1.7 million |
| `Extract` | amounts 0, 1, 12 (threshold 10); confidences 60, 80, 96 (bars 85, 75, 92); 4 histories; 2 attempts | `SpendAccounted`, `MostConfidentKept`, `TouchlessIsSound`, `NoPassByDevelopment`, `KnownValuesKept` | 1.3 million |
| `Similar` | 2 invoices, 3 texts, 2 models, 2 deployments | `NoTwinsTouchless`, `VectorsAreOfTheirText`, `SpendCountedOnce` | 500 thousand |
| `Intake` | 2 uploads, 1 metadata request, 2 replicas, 1 supplier, 2 numbers, 2 contents, 1 correction, 2 faults | `RowsHaveFiles`, `NoOrphanFiles`, `ReuploadsMetByTheirReplica`, `NumbersReusedOnlyInRaces` | 390 thousand |
| `Users` | 3 members of 2 organizations, 1 newcomer, 4 addresses, 2 passwords, any 2 requests | `AdminRemains`, `EmailsUnique`, `TrailMatchesRows`, `ReadTrailMatchesRows`, `OwnPasswordProven` | 431 thousand |
| `Tokens` | a query, a mutation, a sign-out; second = 2 ticks, access 1 s, refresh 3 s, skew 1 tick; 6 tokens, 1 fault | `NoReplay`, `LogoutEndsSession`, `LoneCallsSurvive` | 3.6 million |
| `RateLimit` | 3 requests, 2 replicas, limit 1, window 4, delay 1, skew 1, until time 5 | `AtMostLimitAdmitted`, `RetryAfterSuffices` | 1.3 million |
| `Realtime` | 2 writes, and one each of: fault (a break, a failed load, a lost publication or answer), visit to the record, review; fair | `SettledShowsWhatItHeard`, `KeepsUp` | 795 thousand |
| `ApprovalOverwritten` | worker and reviewer on one invoice | `ApprovalIsFinal` is violated (section 4) | |
| `ZeroTotal` | as `Extract` | `PassedHasItsTotal` is violated (section 4) | |

Why the bounds are enough:

- Sessions of the pipeline meet only on a row, so one invoice is enough except
  where ids queue behind each other (`Delivery`). Two workers give every race
  between workers: one acts, one is stale. Two operators put an id on the queue
  twice. Production's cap of three attempts is used in `Delivery` and `Crashes`,
  whose properties count attempts. The liveness run has two: one retry and one
  give-up, which is every branch.
- The pipeline runs are separate because their properties hold under different
  circumstances, and which ones is the result. With one operator and no fault,
  delivery is exactly-once; `ExtractionsPaidFor` is what is left of it with
  several operators and a fault; the rest holds always.
- One fault reaches every crash point, since a fault is an action of any state.
  `Intake` has two so that a compensation can fail as well.
- In `Extract` the amounts lie on both sides of the threshold and at zero, the
  confidences on both sides of every bar, and the histories are one shorter than
  the minimum, one of equal totals, one close together, and one that a single
  extreme amount spreads.
- Two requests give every race of `UserAdmin`, where a decision is made on what
  one other transaction changes; three requests were run once (9.6 million
  states, no error).
- `Tokens`: access tokens and revocations run out within the horizon while the
  refresh token lives; six tokens are the login and two rotations. An instance in
  which refresh tokens run out too (2 s, horizon 3) was run once (9.1 million
  states, no error). `RateLimit`: a
  request leaves the window within the horizon.

Symmetry (of workers, operators, reviewers, invoices, which no specification
tells apart) is used for safety only. `CHECK_DEADLOCK FALSE` is set where the
bounded system does stop: in `Intake`, `Similar`, `Tokens`, `RateLimit` and
`Realtime` everything that was to happen has happened.

### Fairness

`JobsSettle` is checked under `FairSpec`. Each worker process loops forever and
PostgreSQL grants a row lock to its waiters in turn, so a worker that can step
again and again does step: strong fairness of `WorkerNext(w)`. A due time lies in
the past from some moment on and each poll scans the set, so a scan sooner or
later returns each delayed id: strong fairness of a `ScanDue` that contains it.
A request that has committed and has yet to push, or that holds a row lock, runs
to its end: weak fairness of `EnqueueUpload`, `EnqueueRequeue` and of the
reviewer's commit or rollback. Nothing makes uploads, requests, decisions,
failures or crashes happen. There are no faults in this run: one crash after the
pop is enough to break the property (section 4).

`KeepsUp` assumes weak fairness of what runs by itself: the API publishes after
its commit, reads, serves and answers; the browser receives what is in the pipe
and runs its callbacks. Nobody must write, open a page, review, break a stream
or have it connect again.

## 4. Where the code differs from what is said of it

Two runs keep a counterexample of a statement in the repository; `PROJECT.json`
quotes it.

- `ApprovalOverwritten`: `apply_anomaly_flags` decides the demotion on the status
  it loaded before a slow detection and commits REVIEW_REQUIRED; an approval a
  reviewer committed meanwhile is undone, although APPROVED is terminal.
- `ZeroTotal`: the rules judge the extracted total, zero included; the merge then
  takes zero for a blank and keeps the uploaded total, which may be missing or
  above the threshold. The invoice has passed with a total no rule has seen.

Others are stated as properties in the modules and TLC reaches a counterexample
of each, but no run is kept for them; the properties of section 3 say what
remains true.

| property | what happens | what remains true |
| --- | --- | --- |
| `AtMostOneDelivery` with two operators | both read FAILED, both push the id; the second worker checks a stale copy and extracts again | `ExtractionsPaidFor` |
| `JobsSettle` with a crash | a job whose id was popped stays queued and reprocess refuses it | `DeliveredJobsExist` |
| `extractions[i] <= 1 + requeues[i]` with a lost connection | the reload after the extraction's commit raises and the completed job is queued again | `ExtractionsPaidFor`, with one more for each fault |
| `DecisionSawFlags` | anomaly rows leave `updated_at` alone, so a decision that never saw them passes the token check | `DecisionMatchesPage` |
| `InvoiceTrailMatchesRow` | the failure path sets the invoice's status with no invoice event | `TrailsTellTheInvoice`: where the job's trail ends at failed, so has the invoice; everywhere else its own trail tells its status |
| `AutoApprovedNotFlagged` with three overrides | an admin takes a demoted invoice through PROCESSING and EXTRACTED back to VALIDATION_PASSED before the worker reloads it, and the policy approves what was flagged (19 steps, in `Review` with one admin and `MaxOverrides = 3`) | with two overrides at most, the property itself |
| `ApprovalHasOneAuthor` | auto-approval commits on a stale copy after a person's approval | `RejectionIsFinal` |
| `NumbersUnique` (`Intake`) | NULL suppliers are distinct to the unique constraint, so two concurrent requests without supplier may share a number | `NumbersReusedOnlyInRaces` |
| `FallsBackToAvailable` (`Extraction`) | a provider without key yields the development extractor although the other has a key (comment at `services/invoice_extraction.py:353`) | `NoPassByDevelopment` |

Smaller limits, visible in how the properties are stated:

- `Sessions`: a revoked token passes again in its last `Second + Skew` (the
  revocation's lifetime is truncated, on another clock); two overlapping
  renewals may both rotate one token, and the loser of two refused calls signs
  the user out; a renewal leaves the access token it supersedes alive; a sign-out
  whose call is lost leaves cookies and tokens as they are.
- `RateLimiter`: the bound is of windows shorter by `Slack = Delay + 2 * Skew`.
- `UserAdmin`: users' addresses have no unique constraint, so two overlapping
  requests can take one address, or demote the last two administrators.
- `Intake`: a commit that succeeds with its answer lost deletes the file of an
  existing invoice.
- `Extraction`: tokens of a failed attempt are in no row, also when it failed at
  storing an answer that was good; those of the cheap
  tier are priced at the primary model's rate.
- `Realtime`: the answer to one's own review is written over whatever the cache
  holds, newer or not, and an inactive query whose load answers after an event
  is marked fresh. `SettledShowsWhatItHeard` forgets what it heard at that point.
  An event that arrives during a query's first load, after the server has read the
  row for it, joins that load (section 2.8): the page then shows the older row,
  with nothing left to load, until another event or a visit. `heard` does not count
  such an event, nor one that was missed while the stream was down.

Noted while reading, with no property: the worker's verdict takes an invoice
from PROCESSING to VALIDATION_PASSED, which the transition map does not contain
(`services/invoice_extraction.py:682`); the PROCESSING status is flushed and
never committed, so nobody can observe it (`docs/api-contract.md:467` and the
runbook speak of it); REVIEW_REQUIRED may not move to FAILED although
`services/invoice_workflow.py:20` says any status may.

## 5. Proofs

All constants are arbitrary (sets of actors may be infinite), under the
assumptions each module names: kinds of actors are disjoint, the "none" values
are none of the values they stand in for, bounds are naturals, limits and times
are positive where the configuration requires it.

**`InvoicePipelineProofs`**: `Spec => []IInv`, and from it `TypeOK`,
`LockDiscipline`, `ReviewerHoldsCurrentRow`, `DecisionMatchesPage`,
`DeliveredJobsExist`, with faults and any number of operators. The properties
are not inductive. That a reviewer's copy stays current until its commit needs
that it holds the row's lock (`LockDiscipline`), which needs that a session past
its first read works on some invoice (`SessionOK`). That a decision matches the
page needs that a token still marked current belongs to an open page that shows
the committed status (`PageOK`); a new upload cannot disturb it because pages
are of rows that exist (`ExistenceOK`). The argument that matters is
`StatusWriteKeepsDecisions`: whoever writes the status of a row that no reviewer
has locked works on another row than any deciding reviewer.
`WriteFailureKeepsDecisions` extends it to the failure path.

Three more invariants stand on `IInv`.

*Delivery.* Under `OneOperator` (no two operators act at once) and `NoFaults`,
delivery is exactly-once: `AtMostOneDelivery`, `QueuedIffDelivered`,
`AttemptsCapped`, `JobTrailMatchesRow`, and the pipeline implements
`JobLifecycle`. Both assumptions are needed (section 4). The invariant `DInv`
adds to `IInv` that an id is on the list at most once (`Distinct`), in one place
at a time (`Exclusive`), queued exactly while it is in one (`RowOK`), and that a
worker's copy of the job is the row for as long as it holds the id (`OwnOK`):
nobody else can write that row, for the operator's job is FAILED and hence in no
place. The refinement follows step by step, since every step that changes the
abstract job is taken by the holder of its id.

*Decisions.* Under the same two assumptions: `AutoApprovedNotFlagged` until
admins have overridden statuses three times (the bound is exact, section 4), and,
with no override, `RejectionIsFinal`. A worker that has completed a job acts on
copies, and the proofs say what those copies may still be. `StagesOK`: a worker
past its extraction is alone on its completed job, and marks and flags are where
its stage says. `CountOK` counts the overrides that a status needs. `CleanOK`:
neither the row of a flagged invoice nor a copy about to be approved says
passed. `AgreeOK`: without overrides the invoice goes with its job, and the row of a copy
that says passed is still passed or has been approved since, which is why a
demotion by an older copy may undo an approval but never a rejection.

*The audit trail.* With no override either, `TrailsTellTheInvoice`: what fails an
invoice fails its job in the same commit (`AgreeOK`), and every other write of the
invoice adds its event (`ToldOK`), so the two trails together are complete although
the invoice's own is not.

*Payment.* `ExtractionsPaidFor` with no assumption at all: any number of
operators, crashes, lost connections and overrides. Exactly-once is gone here, so
`PaidOK` counts instead. For each invoice, the extractions stored, its slots on
the list, whether it is ready to be pushed, and the hands that hold it together
never exceed one for the upload, one for each accepted request and one for each
fault. Every step either moves a unit from one term to another or is one of the
two that pay for it. The sets counted are shown finite along the way, for the
sets of workers and operators need not be.

**`ExtractionProofs`**: the five properties of `Extract` for any amounts, bars,
histories and number of attempts. `SpendOK` counts tokens by what is held at
each stage, and a failed attempt, at a call or at storing, moves what it held to
`wasted`; `VerdictOK` carries the bars from the verdict to the approval.

**`SimilarityProofs`**: `NoTwinsTouchless` for any number of invoices and
workers: an embedding is committed before the comparison, so of two near
duplicates the one that compares later sees the other. `VectorsAreOfTheirText`.
`SpendCountedOnce`: rows that record a spend, and workers about to store one, are
never more than the calls made; a copied vector adds to neither.

**`IntakeProofs`**: the four properties of `Intake` for any number of requests,
replicas and faults. `RowsOK` relates stages and rows, `FilesOK` stages and
blobs, `LoopOK` says that an upload in progress holds its replica's loop, which
is why two reuploads on one replica cannot both find the checksum free.
`NumbersReusedOnlyInRaces` needs both guards: `KeysOK`, that rows with a supplier
never share a number, flushed rows included, and `NumbersOK`, that the uploads of one
replica do not race between the check and the commit.

**`UserAdminProofs`**: `AdminRemains`, `EmailsUnique`, `OwnPasswordProven` for
any number of requests. The invariant says, of each request past a check, that
the checked fact still holds or another request has overtaken it; `Commit` is
the only step that writes, so it is the only interesting case. `TrailMatchesRows`
and `ReadTrailMatchesRows` come from a second invariant, `TInv`. Every entry is of
a request that has committed and of its target (`TrailOK`); transactions are
numbered in the order of their beginnings, none twice (`BeganOK`, a count of those
that began); and a request under way began after every request that has
committed, those aside that it raced (`OrderOK`). The entry a commit appends is
therefore the newest in both orders, unless the two requests overlapped. A commit
that appends none, or one that names no role, leaves the role alone.

**`SessionsProofs`**: `NoReplay`, `LogoutEndsSession` and `LoneCallsSurvive` for any
number of calls and sign-outs and any lifetimes, skew and bounds. `SInv` holds
under every fault and overlap: cookies and requests name issued tokens of their
kind, and a stored revocation lives as long as its token up to `Slack`, which is
arithmetic about whole seconds and two clocks (`RevokeOK`, `PassesOK`). `LInv`
holds while nothing overlapped and nothing failed. One actor at most has read
the cookies and not yet set them (`OneHolder`); the cookies are of the pair issued
last, or that pair is on its way (`JarOK`); a refusal has a reason (`DeniedOK`);
and every other refresh token is revoked or about to expire (`SpentOK`).

**`RateLimiterProofs`**: the bound and the sufficiency of Retry-After for any
limit, window, delay, skew, requests and replicas. The stamps of two recent admissions
differ by less than a window, so both are in the set when the later was counted.

**`RealtimeProofs`**: `SettledShowsWhatItHeard` for any bounds, from
`LoadsLateEnough`: a load that has been read carries at least what its query
heard, because an event restarts it where there is data, and is not counted as
heard where it joins a first load that has been read.

Only model-checked: `JobsSettle` and `KeepsUp`, for liveness under fairness is out
of the prover's reach. Every other property of a passing run is a theorem.

## 6. Not modelled

- Assistant, its tools and the MCP server (`services/ap_assistant.py`,
  `invoice_tools.py`, `mcp/server.py`): a `for` loop with a fixed bound over
  tools that only read. It has no state that outlives a request.
- Natural-language search, accuracy report, explanations: read-only queries and
  best-effort wording.
- File validation and preprocessing: stateless checks of bytes; a signed link is
  a pure check of a signature and an expiry.
- Prompts and few-shot examples, password hashing and token signatures: their
  results are free choices or taken as given.
- Metrics, logging, tracing, deployment files and rendering in the frontend.
- Field values of an invoice other than its total, number and supplier: reviewer
  corrections appear only as a changed number and as a new version of the row.
- A 401 that is not about the session (a wrong current password), which
  `frontend/src/services/api-client.ts:34` treats like one.

Worth doing next: a second tab in `Realtime`; the decisions of the pipeline with
several operators, as far as they hold.
