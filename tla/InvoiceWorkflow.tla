--------------------------- MODULE InvoiceWorkflow ---------------------------
(***************************************************************************)
(* The status vocabulary of the platform: the invoice state machine of     *)
(* services/invoice_workflow.py and the processing-job statuses of         *)
(* services/processing_jobs.py.  Every other module takes its statuses and *)
(* its notion of a legal transition from here, as every service of the     *)
(* backend takes them from invoice_workflow.                               *)
(***************************************************************************)

InvoiceStatus ==
    { "uploaded", "queued", "processing", "extracted", "validation_passed",
      "review_required", "approved", "rejected", "failed" }

ProcessingJobStatus == { "queued", "processing", "completed", "failed" }

AllowedTransitions ==
    [ uploaded          |-> { "queued", "failed" },
      queued            |-> { "processing", "failed" },
      processing        |-> { "extracted", "review_required", "failed" },
      extracted         |-> { "validation_passed", "review_required", "failed" },
      validation_passed |-> { "approved", "review_required", "failed" },
      review_required   |-> { "approved", "rejected", "processing" },
      approved          |-> {},
      rejected          |-> {},
      failed            |-> { "queued" } ]

\* Seeded fault: a passed invoice may also be rejected.
CanTransitionRejectPassed(current, requested) ==
    \/ requested \in AllowedTransitions[current]
    \/ current = "validation_passed" /\ requested = "rejected"

\* transition_invoice_status: returns the requested status, or raises.
CanTransition(current, requested) == requested \in AllowedTransitions[current]

\* What next_status_after_validation can return for an extraction.
ExtractionVerdict == { "validation_passed", "review_required" }

\* What _review_decision_status can return for a reviewer's decision.
ReviewDecision == { "approved", "rejected" }
=============================================================================
