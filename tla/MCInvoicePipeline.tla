-------------------------- MODULE MCInvoicePipeline --------------------------
(***************************************************************************)
(* InvoicePipeline for TLC.  The actors of a run are model values given in *)
(* its cfg; workers, and likewise operators and reviewers, are             *)
(* interchangeable, so the safety runs use symmetry.                       *)
(***************************************************************************)
EXTENDS InvoicePipeline, TLC

Symmetry ==
    Permutations(Workers) \cup Permutations(Operators) \cup Permutations(Reviewers)
        \cup Permutations(Invoices)
=============================================================================
