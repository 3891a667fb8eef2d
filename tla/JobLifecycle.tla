---------------------------- MODULE JobLifecycle ----------------------------
(***************************************************************************)
(* What the processing pipeline promises about one invoice's extraction    *)
(* job, with the queue, the retry set, the workers, their transactions and *)
(* the reviewers hidden: a job is submitted once, is completed by exactly  *)
(* one extraction, may fail, and only a failed job is ever queued again.   *)
(* InvoicePipeline is checked to implement this specification.             *)
(***************************************************************************)
EXTENDS Naturals

CONSTANT Invoices

VARIABLES stage,        \* stage[i]: committed status of invoice i's job
          extractions   \* extractions[i]: extraction rows stored for i

vars == <<stage, extractions>>

Init ==
    /\ stage = [i \in Invoices |-> "absent"]
    /\ extractions = [i \in Invoices |-> 0]

Move(i, from, to) ==
    /\ stage[i] = from
    /\ stage' = [stage EXCEPT ![i] = to]

Submit(i) == Move(i, "absent", "queued") /\ UNCHANGED extractions

Complete(i) ==
    /\ Move(i, "queued", "completed")
    /\ extractions' = [extractions EXCEPT ![i] = @ + 1]

Fail(i) == Move(i, "queued", "failed") /\ UNCHANGED extractions

Requeue(i) == Move(i, "failed", "queued") /\ UNCHANGED extractions

Next == \E i \in Invoices : Submit(i) \/ Complete(i) \/ Fail(i) \/ Requeue(i)

Spec == Init /\ [][Next]_vars
=============================================================================
