----------------------------- MODULE Similarity -----------------------------
(***************************************************************************)
(* What the worker does to an invoice after its extraction is committed:   *)
(* embed it (services/invoice_embedding.py), compare it with the other      *)
(* invoices of the organization and flag it (services/invoice_anomaly.py),  *)
(* approve it if nothing was found (services/invoice_auto_approval.py).     *)
(* Several workers do this to several invoices at once; every query sees    *)
(* what is committed when it runs.  A vector is determined by the model     *)
(* that made it and the text; vectors of two models are never close.        *)
(***************************************************************************)
EXTENDS Naturals, FiniteSets

CONSTANTS
    Invoices,    \* invoices of one organization
    Texts,       \* canonical texts of invoices (embedding_source_text)
    Near,        \* pairs of texts at or above near_duplicate_similarity_threshold
    Models,      \* embedding models: OpenAI when configured, the development one
    None,        \* no embedding row
    MaxSwitches  \* bound: deployments that change the model

ASSUME NearAssumption == \A t, u \in Texts : <<t, u>> \in Near => <<u, t>> \in Near
ASSUME NoneAssumption == None \notin [model : Models, text : Texts, paid : BOOLEAN]

VARIABLES
    stage,       \* [Invoices -> Stages]: where the invoice's worker is
    text,        \* [Invoices -> Texts]: what the extraction read
    status,      \* [Invoices -> Status]: the committed row
    model,       \* the model build_invoice_embedder returns now
    using,       \* [Invoices -> Models]: the model its worker's embedder has
    result,      \* [Invoices -> embedding]: obtained, not yet stored
    embedding,   \* [Invoices -> embedding or None]: the row of invoice_embeddings
    found,       \* [Invoices -> SUBSET Rules]: what detect_anomalies returned
    missed,      \* invoices whose detection raised or was switched off
    touchless,   \* invoices that maybe_auto_approve approved
    calls,       \* provider calls made, each of them billed
    switches

vars == <<stage, text, status, model, using, result, embedding, found, missed,
          touchless, calls, switches>>

Stages == {"queued", "looking", "calling", "storing", "comparing", "flagging", "deciding", "done"}
Status == {"queued", "validation_passed", "review_required", "approved", "rejected"}
Rules == {"amount_anomaly", "near_duplicate_similarity"}
Embeddings == [model : Models, text : Texts, paid : BOOLEAN]

TypeOK ==
    /\ stage \in [Invoices -> Stages]
    /\ text \in [Invoices -> Texts]
    /\ status \in [Invoices -> Status]
    /\ model \in Models
    /\ using \in [Invoices -> Models]
    /\ result \in [Invoices -> Embeddings \union {None}]
    /\ embedding \in [Invoices -> Embeddings \union {None}]
    /\ found \in [Invoices -> SUBSET Rules]
    /\ missed \subseteq Invoices
    /\ touchless \subseteq Invoices

Init ==
    /\ stage = [i \in Invoices |-> "queued"]
    /\ text \in [Invoices -> Texts]
    /\ status = [i \in Invoices |-> "queued"]
    /\ model \in Models
    /\ using = [i \in Invoices |-> model]
    /\ result = [i \in Invoices |-> None]
    /\ embedding = [i \in Invoices |-> None]
    /\ found = [i \in Invoices |-> {}]
    /\ missed = {}
    /\ touchless = {}
    /\ calls = 0
    /\ switches = 0

Goto(i, s) == stage' = [stage EXCEPT ![i] = s]

-----------------------------------------------------------------------------
(* Embedding *)

\* The extraction of i is committed with its verdict; _embed_invoice begins.
CommitExtraction(i) ==
    /\ stage[i] = "queued"
    /\ \E verdict \in {"validation_passed", "review_required"} :
          status' = [status EXCEPT ![i] = verdict]
    /\ using' = [using EXCEPT ![i] = model]
    /\ Goto(i, "looking")
    /\ UNCHANGED <<text, model, result, embedding, found, missed, touchless, calls, switches>>

\* Seeded fault: any row with the text will do, whatever model made it.
ReusableOfAnyModel(i) ==
    {j \in Invoices : embedding[j] # None /\ embedding[j].text = text[i]}

\* Rows of the organization with the same model and the same text.
Reusable(i) ==
    {j \in Invoices :
        /\ embedding[j] # None
        /\ embedding[j].model = using[i]
        /\ embedding[j].text = text[i]}

\* Seeded fault: the copied row brings the spend of the original along.
ReusedResultWithCost(i, j) == embedding[j]

\* The stored vector; "reused vectors cost nothing".
ReusedResult(i, j) == [embedding[j] EXCEPT !.paid = FALSE]

ReuseEmbedding(i) ==
    /\ stage[i] = "looking"
    /\ \E j \in Reusable(i) : result' = [result EXCEPT ![i] = ReusedResult(i, j)]
    /\ Goto(i, "storing")
    /\ UNCHANGED <<text, status, model, using, embedding, found, missed, touchless, calls, switches>>

NothingToReuse(i) ==
    /\ stage[i] = "looking"
    /\ Reusable(i) = {}
    /\ Goto(i, "calling")
    /\ UNCHANGED <<text, status, model, using, result, embedding, found, missed, touchless, calls, switches>>

CallProvider(i) ==
    /\ stage[i] = "calling"
    /\ result' = [result EXCEPT ![i] = [model |-> using[i], text |-> text[i], paid |-> TRUE]]
    /\ calls' = calls + 1
    /\ Goto(i, "storing")
    /\ UNCHANGED <<text, status, model, using, embedding, found, missed, touchless, switches>>

\* The row is committed before anything is compared.
StoreEmbedding(i) ==
    /\ stage[i] = "storing"
    /\ embedding' = [embedding EXCEPT ![i] = result[i]]
    /\ Goto(i, "comparing")
    /\ UNCHANGED <<text, status, model, using, result, found, missed, touchless, calls, switches>>

\* A provider or database error: rolled back, logged and forgotten.
EmbeddingFails(i) ==
    /\ stage[i] \in {"looking", "calling", "storing"}
    /\ Goto(i, "comparing")
    /\ UNCHANGED <<text, status, model, using, result, embedding, found, missed, touchless, calls, switches>>

-----------------------------------------------------------------------------
(* Anomaly detection *)

Close(e, f) == e # None /\ f # None /\ e.model = f.model /\ <<e.text, f.text>> \in Near

\* The nearest other invoice is at or above the threshold.
NearDuplicate(i) == \E j \in Invoices \ {i} : Close(embedding[i], embedding[j])

\* What detect_anomalies returns; whether the total is unusual is free here.
Detected(i, unusual) ==
    (IF unusual THEN {"amount_anomaly"} ELSE {}) \union
    (IF NearDuplicate(i) THEN {"near_duplicate_similarity"} ELSE {})

DetectAnomalies(i) ==
    /\ stage[i] = "comparing"
    /\ \E unusual \in BOOLEAN :
          /\ found' = [found EXCEPT ![i] = Detected(i, unusual)]
          /\ Goto(i, IF Detected(i, unusual) = {} THEN "deciding" ELSE "flagging")
    /\ UNCHANGED <<text, status, model, using, result, embedding, missed, touchless, calls, switches>>

\* Seeded fault: the warnings are stored, the status stays.
ApplyAnomalyFlagsOnly(i) ==
    /\ stage[i] = "flagging"
    /\ Goto(i, "deciding")
    /\ UNCHANGED <<text, status, model, using, result, embedding, found, missed, touchless, calls, switches>>

\* The warnings, and the demotion of an invoice that had passed, in one commit.
ApplyAnomalyFlags(i) ==
    /\ stage[i] = "flagging"
    /\ status' = [status EXCEPT ![i] = IF @ = "validation_passed" THEN "review_required" ELSE @]
    /\ Goto(i, "deciding")
    /\ UNCHANGED <<text, model, using, result, embedding, found, missed, touchless, calls, switches>>

\* Any exception: rolled back and swallowed, so nothing of it is stored.  Detection
\* that is switched off (anomaly_detection_enabled) comes to the same.
DetectionFails(i) ==
    /\ stage[i] \in {"comparing", "flagging"}
    /\ missed' = missed \union {i}
    /\ Goto(i, "deciding")
    /\ UNCHANGED <<text, status, model, using, result, embedding, found, touchless, calls, switches>>

-----------------------------------------------------------------------------
(* Decisions *)

\* The confidences are at the bar.
MaybeAutoApprove(i) ==
    /\ stage[i] = "deciding"
    /\ status[i] = "validation_passed"
    /\ status' = [status EXCEPT ![i] = "approved"]
    /\ touchless' = touchless \union {i}
    /\ Goto(i, "done")
    /\ UNCHANGED <<text, model, using, result, embedding, found, missed, calls, switches>>

\* Not eligible, not confident enough, disabled, or the commit failed.
LeaveForReview(i) ==
    /\ stage[i] = "deciding"
    /\ Goto(i, "done")
    /\ UNCHANGED <<text, status, model, using, result, embedding, found, missed, touchless, calls, switches>>

\* A person decides, whenever the invoice's status lets them.
Review(i) ==
    /\ status[i] \in {"validation_passed", "review_required"}
    /\ \E decision \in {"approved", "rejected"} : status' = [status EXCEPT ![i] = decision]
    /\ UNCHANGED <<stage, text, model, using, result, embedding, found, missed, touchless, calls, switches>>

\* A deployment with or without an OpenAI key, or with another model.
SwitchModel ==
    /\ switches < MaxSwitches
    /\ \E m \in Models \ {model} : model' = m
    /\ switches' = switches + 1
    /\ UNCHANGED <<stage, text, status, using, result, embedding, found, missed, touchless, calls>>

Next ==
    \/ \E i \in Invoices :
          \/ CommitExtraction(i)
          \/ ReuseEmbedding(i) \/ NothingToReuse(i) \/ CallProvider(i)
          \/ StoreEmbedding(i) \/ EmbeddingFails(i)
          \/ DetectAnomalies(i) \/ ApplyAnomalyFlags(i) \/ DetectionFails(i)
          \/ MaybeAutoApprove(i) \/ LeaveForReview(i) \/ Review(i)
    \/ SwitchModel

Spec == Init /\ [][Next]_vars

-----------------------------------------------------------------------------
(* Properties *)

\* Two invoices embedded by one model from near-identical texts.
Twins(i, j) == i # j /\ Close(embedding[i], embedding[j])

\* processing_jobs.py:228, 234 "Anomaly detection needs the embedding, so it
\* runs next", "Auto-approval runs last so it only sees invoices that survived":
\* however the workers of two near-duplicates interleave, the two are not both
\* approved without a person, unless one of the detections failed or was off.
NoTwinsTouchless ==
    \A i, j \in touchless \ missed : ~Twins(i, j)

\* invoice_embedding.py:140 "an embedding is a pure function of (model, text)":
\* a row, reused or not, has the vector of the invoice's own text and of the
\* model its worker had, also when a deployment changed the model in between.
VectorsAreOfTheirText ==
    \A i \in Invoices : embedding[i] # None =>
        embedding[i].text = text[i] /\ embedding[i].model = using[i]

\* invoice_embedding.py:168 "Reused vectors cost nothing": rows that record a
\* spend are never more than the provider calls, so no call is counted twice.
SpendCountedOnce == Cardinality({i \in Invoices : embedding[i] # None /\ embedding[i].paid}) <= calls
=============================================================================
