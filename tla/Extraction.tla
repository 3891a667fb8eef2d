----------------------------- MODULE Extraction -----------------------------
(***************************************************************************)
(* Reading one invoice: services/invoice_extraction.py (which extractor,    *)
(* the cheaper model first, what is stored), services/invoice_validation.py  *)
(* (the verdict), services/invoice_anomaly.py (the amount's z-score) and     *)
(* the decision of services/invoice_auto_approval.py, over the attempts of   *)
(* its job.  The models behind the providers answer anything the schema      *)
(* admits.  Confidences are whole percents, amounts thousands.           *)
(***************************************************************************)
EXTENDS Integers, Sequences, SequencesExt

CONSTANTS
    Amounts,        \* totals a model or an uploader may state
    Confidences,    \* overall and field confidences a model may report
    Histories,      \* sequences of approved totals of the supplier
    Nothing,        \* null
    EscalationBar,  \* extraction_escalation_confidence
    FieldBar,       \* field_confidence_review_threshold
    ApprovalBar,    \* auto_approval_min_confidence
    MinHistory,     \* anomaly_min_history
    MaxAttempts     \* max_attempts of the job

ASSUME BarsAssumption ==
    /\ Amounts \subseteq Nat
    /\ Confidences \subseteq 0 .. 100
    /\ Histories \subseteq Seq(Nat)
    /\ Nothing \notin Nat
    /\ {EscalationBar, FieldBar, ApprovalBar} \subseteq 0 .. 100
    /\ MinHistory \in Nat
    /\ MaxAttempts \in Nat \ {0}

ApprovalThreshold == 10
ReviewConfidence == 85
ZScoreThreshold == 3

Providers == {"openai", "gemini"}
Models == {"gpt-tier1", "gpt", "gemini", "development-extractor"}
Status == {"queued", "processing", "validation_passed", "review_required", "approved", "failed"}

VARIABLES
    available,   \* providers with a configured key
    requested,   \* the provider chosen at upload, or Nothing
    tiering,     \* extraction_tiering_enabled
    upload,      \* what the uploader stated: total, supplier (matched or not)
    pc,          \* where the attempt is
    attempts,    \* attempts begun
    first,       \* the answer of the tier-1 model, or Nothing
    result,      \* the answer to be stored, or Nothing
    invoice,     \* the row
    stored,      \* the InvoiceExtraction row, or Nothing
    past,        \* history: approved totals detection read, Nothing if it failed
    best,        \* history: the highest confidence answered in this attempt
    reported,    \* history: tokens providers reported for this job
    wasted       \* history: those of attempts that failed, which no row counts

settings == <<available, requested, tiering, upload>>
vars == <<settings, pc, attempts, first, result, invoice, stored, past, best, reported, wasted>>

Stage == {"queued", "tier1", "escalate", "extract", "persist", "persisted", "routed",
          "done", "failed"}
Answer == [model : Models, total : Amounts \union {Nothing}, confidence : Confidences,
           least : Confidences \union {Nothing}, itemsMatch : BOOLEAN,
           tokens : {1, Nothing}]

ASSUME NothingAssumption == Nothing \notin Answer

\* A response has usage of one unit, or none (Nothing).
Counted(tokens) == IF tokens = Nothing THEN 0 ELSE tokens

Init ==
    /\ available \in SUBSET Providers
    /\ requested \in Providers \union {Nothing}
    /\ tiering \in BOOLEAN
    /\ upload \in [total : Amounts \union {Nothing}, supplier : BOOLEAN]
    /\ pc = "queued"
    /\ attempts = 0
    /\ first = Nothing
    /\ result = Nothing
    /\ invoice = [total |-> upload.total, status |-> "queued"]
    /\ stored = Nothing
    /\ past = Nothing
    /\ best = 0
    /\ reported = 0
    /\ wasted = 0

-----------------------------------------------------------------------------
(* Choosing an extractor and calling it *)

\* build_invoice_extractor: an explicit choice that is not available falls to
\* the development extractor, and only no choice to what is available.
Extractor ==
    CASE requested \in available -> requested
      [] requested = Nothing /\ "openai" \in available -> "openai"
      [] requested = Nothing /\ available = {"gemini"} -> "gemini"
      [] OTHER -> "development"

PrimaryModel ==
    CASE Extractor = "openai" -> "gpt"
      [] Extractor = "gemini" -> "gemini"
      [] OTHER -> "development-extractor"

Tiered == tiering /\ Extractor = "openai"

Start ==
    /\ pc = "queued"
    /\ attempts' = attempts + 1
    /\ invoice' = [invoice EXCEPT !.status = "processing"]
    /\ pc' = IF Tiered THEN "tier1" ELSE "extract"
    /\ first' = Nothing
    /\ best' = 0
    /\ UNCHANGED <<settings, result, stored, past, reported, wasted>>

\* Seeded fault: the stand-in is as sure of itself as a careful model.
SureDevelopmentConfidence == 90

DevelopmentConfidence == 80

\* DevelopmentInvoiceExtractor echoes the invoice and uses no tokens.
DevelopmentAnswer ==
    [model |-> "development-extractor", total |-> invoice.total,
     confidence |-> DevelopmentConfidence, least |-> 90, itemsMatch |-> TRUE, tokens |-> Nothing]

\* What a call of the model may bring back that parses and fits the schema.
Answers(model) ==
    IF model = "development-extractor" THEN {DevelopmentAnswer}
    ELSE {a \in Answer : a.model = model}

Tier1Answers ==
    /\ pc = "tier1"
    /\ \E a \in Answers("gpt-tier1") :
          /\ reported' = reported + Counted(a.tokens)
          /\ best' = a.confidence
          /\ IF a.confidence >= EscalationBar
             THEN result' = a /\ pc' = "persist" /\ UNCHANGED first
             ELSE first' = a /\ pc' = "escalate" /\ UNCHANGED result
    /\ UNCHANGED <<settings, attempts, invoice, stored, past, wasted>>

\* _combined_usage: unknown counts as zero unless both are unknown.
CombinedTokens(a, b) ==
    IF a.tokens = Nothing /\ b.tokens = Nothing THEN Nothing
    ELSE Counted(a.tokens) + Counted(b.tokens)

\* Seeded fault: the usage kept is that of the answer kept.
KeepAnswerAndItsUsage(a) == IF a.confidence >= first.confidence THEN a ELSE first

\* Seeded fault: the stronger model is trusted whatever it says.
KeepPrimary(a) == [a EXCEPT !.tokens = CombinedTokens(first, a)]

\* The more confident answer, the primary model's at a tie, with the usage of both.
KeepAnswer(a) ==
    [(IF a.confidence >= first.confidence THEN a ELSE first)
        EXCEPT !.tokens = CombinedTokens(first, a)]

PrimaryAnswers ==
    /\ pc \in {"escalate", "extract"}
    /\ \E a \in Answers(PrimaryModel) :
          /\ reported' = reported + Counted(a.tokens)
          /\ result' = IF pc = "escalate" THEN KeepAnswer(a) ELSE a
          /\ best' = IF a.confidence > best THEN a.confidence ELSE best
    /\ first' = Nothing
    /\ pc' = "persist"
    /\ UNCHANGED <<settings, attempts, invoice, stored, past, wasted>>

\* record_processing_job_failure: tried again while attempts are left.
Ends(retryable) ==
    IF retryable /\ attempts < MaxAttempts
    THEN pc' = "queued" /\ invoice' = [invoice EXCEPT !.status = "queued"]
    ELSE pc' = "failed" /\ invoice' = [invoice EXCEPT !.status = "failed"]

\* A timeout or a rate limit, which is retried, or another error, which is not;
\* an answer that does not parse was paid for, and its usage is never read.
CallFails(retryable, garbled) ==
    /\ pc \in {"tier1", "escalate", "extract"}
    /\ PrimaryModel # "development-extractor"
    /\ retryable => ~garbled
    /\ reported' = IF garbled THEN reported + 1 ELSE reported
    /\ wasted' = wasted + (reported' - reported)
                        + (IF first = Nothing THEN 0 ELSE Counted(first.tokens))
    /\ first' = Nothing
    /\ Ends(retryable)
    /\ UNCHANGED <<settings, attempts, result, stored, past, best>>

-----------------------------------------------------------------------------
(* Validation and what is stored *)

\* validate_invoice and next_status_after_validation: every rule passes.  The
\* number may be the uploader's, who always gives one; the total is the one
\* extracted.
EveryRulePasses(p) ==
    /\ upload.supplier
    /\ p.total # Nothing
    /\ p.total <= ApprovalThreshold
    /\ p.confidence >= ReviewConfidence
    /\ p.least = Nothing \/ p.least >= FieldBar
    /\ p.itemsMatch

\* Seeded fault: the extracted total replaces the uploaded one even when null.
MergedTotalAsExtracted(p) == p.total

\* `payload.total_amount or invoice.total_amount`: zero is as good as null.
MergedTotal(p) == IF p.total \in {0, Nothing} THEN invoice.total ELSE p.total

Persist ==
    /\ pc = "persist"
    /\ stored' = result
    /\ invoice' = [total |-> MergedTotal(result),
                   status |-> IF EveryRulePasses(result) THEN "validation_passed"
                              ELSE "review_required"]
    /\ pc' = "persisted"
    /\ UNCHANGED <<settings, attempts, first, result, past, best, reported, wasted>>

\* The flush or the commit raises: an extracted number that another invoice of the
\* supplier has, or the database is gone.  Both are retried, and what the answer
\* cost is in no row.
PersistFails ==
    /\ pc = "persist"
    /\ wasted' = wasted + Counted(result.tokens)
    /\ result' = Nothing
    /\ best' = 0
    /\ Ends(TRUE)
    /\ UNCHANGED <<settings, attempts, first, stored, past, reported>>

-----------------------------------------------------------------------------
(* The amount's z-score, and the decision *)

SumOf(s) == FoldSeq(LAMBDA a, b : a + b, 0, s)
Square(n) == n * n

\* z > 3 without division: with mean s/n, n(nx-s)^2 > 9 * sum of (na-s)^2; equal
\* amounts make the right side zero, and any other total infinitely far.
FarFromMean(x, h) ==
    LET n == Len(h)
        s == SumOf(h)
    IN  n * Square(n * x - s)
            > Square(ZScoreThreshold) * FoldSeq(LAMBDA a, b : Square(n * a - s) + b, 0, h)

\* _detect_amount_outlier: too little history says nothing.
AmountOutlier(history) ==
    /\ upload.supplier
    /\ invoice.total # Nothing
    /\ Len(history) >= MinHistory /\ Len(history) >= 2
    /\ FarFromMean(invoice.total, history)


\* Detection demotes an invoice that passed; its failure is swallowed, and it may be
\* switched off.  Other flags (the near duplicates of module Similarity) may be raised as well.
DetectAnomalies ==
    /\ pc = "persisted"
    /\ \/ \E history \in Histories, otherFlag \in BOOLEAN :
             /\ past' = history
             /\ invoice' = IF invoice.status = "validation_passed"
                              /\ (otherFlag \/ AmountOutlier(history))
                           THEN [invoice EXCEPT !.status = "review_required"] ELSE invoice
       \/ UNCHANGED <<past, invoice>>
    /\ pc' = "routed"
    /\ UNCHANGED <<settings, attempts, first, result, stored, best, reported, wasted>>

\* Seeded fault: the weakest field is not asked.
ConfidenceMetOverall(p) == p.confidence >= ApprovalBar

\* The bars of auto_approval_decision; without field confidences the overall
\* one decides.
ConfidenceMet(p) ==
    p.confidence >= ApprovalBar /\ (p.least = Nothing \/ p.least >= ApprovalBar)

\* The settings may also switch auto-approval off.
MaybeAutoApprove ==
    /\ pc = "routed"
    /\ invoice' = IF invoice.status = "validation_passed" /\ ConfidenceMet(result)
                  THEN [invoice EXCEPT !.status = "approved"] ELSE invoice
    /\ pc' = "done"
    /\ UNCHANGED <<settings, attempts, first, result, stored, past, best, reported, wasted>>

Ended == pc \in {"done", "failed"} /\ UNCHANGED vars

Next ==
    \/ Start \/ Tier1Answers \/ PrimaryAnswers
    \/ \E retryable, garbled \in BOOLEAN : CallFails(retryable, garbled)
    \/ Persist \/ PersistFails \/ DetectAnomalies \/ MaybeAutoApprove
    \/ Ended

Spec == Init /\ [][Next]_vars

-----------------------------------------------------------------------------
(* Properties *)

TypeOK ==
    /\ available \subseteq Providers
    /\ requested \in Providers \union {Nothing}
    /\ tiering \in BOOLEAN
    /\ past \in Histories \union {Nothing}
    /\ pc \in Stage
    /\ attempts \in 0 .. MaxAttempts
    /\ invoice.status \in Status
    /\ {first, result, stored} \subseteq [model : Models,
            total : Amounts \union {Nothing}, confidence : Nat,
            least : Nat \union {Nothing}, itemsMatch : BOOLEAN, tokens : Nat \union {Nothing}]
          \union {Nothing}
    /\ best \in Nat
    /\ reported \in Nat /\ wasted \in Nat

\* Of every token a provider reported, the stored extraction counts all but those
\* of attempts that failed, at a call or at storing its answer (run_invoice_extraction: "Usage/cost of both
\* calls is aggregated so spend accounting stays honest").
SpendAccounted ==
    pc = "done" => Counted(stored.tokens) + wasted = reported

\* What is stored is the most confident answer of the attempt
\* (run_invoice_extraction keeps what the model itself was more confident about).
MostConfidentKept ==
    pc = "done" => stored.confidence = best

\* What nobody looks at is sound: an auto-approved invoice, as its row stands,
\* has a supplier, was read with every confidence over the bar, has a total within
\* the threshold unless the extracted one was zero, and is not far from the
\* supplier's history if detection ran.
TouchlessIsSound ==
    invoice.status = "approved"
    => /\ upload.supplier
       /\ stored.confidence >= ApprovalBar
       /\ stored.least = Nothing \/ stored.least >= ApprovalBar
       /\ \/ stored.total = 0
          \/ invoice.total # Nothing /\ invoice.total <= ApprovalThreshold
       /\ past # Nothing => ~AmountOutlier(past)

\* The development extractor, which an unavailable choice falls to, never lets
\* an invoice through without a person.
NoPassByDevelopment ==
    stored # Nothing /\ invoice.status \in {"validation_passed", "approved"}
    => stored.model # "development-extractor"

\* A total the uploader gave is never lost to a blank ("so we never overwrite
\* known data with blanks", persist_extraction_result).
KnownValuesKept == upload.total # Nothing => invoice.total # Nothing

\* What passed validation has a total within the automatic approval threshold
\* (rules total_amount_required and approval_threshold).
PassedHasItsTotal ==
    invoice.status \in {"validation_passed", "approved"}
    => invoice.total # Nothing /\ invoice.total <= ApprovalThreshold

\* The stand-in reads an invoice only when no provider is available ("falls back
\* to whichever provider is available ... then the deterministic dev extractor").
FallsBackToAvailable ==
    stored # Nothing /\ stored.model = "development-extractor" => available = {}

=============================================================================
