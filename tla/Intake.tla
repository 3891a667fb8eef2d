------------------------------- MODULE Intake -------------------------------
(***************************************************************************)
(* Creating invoices: services/invoice_intake.py over PostgreSQL, the file  *)
(* store (services/file_storage.py) and the Redis queue, from several API    *)
(* replicas at once.  A request creates at most one invoice, so the invoice  *)
(* bears the request's name.  The upload endpoint is an async function that  *)
(* never awaits once the file is read, so a replica's uploads run one at a   *)
(* time in its event loop; metadata requests run in its thread pool.         *)
(***************************************************************************)
EXTENDS Naturals, FiniteSets

CONSTANTS
    Uploads,       \* requests to POST /invoices/upload
    Metadata,      \* requests to POST /invoices
    Replicas,      \* API replicas, one process each
    Suppliers,     \* suppliers of the organization
    NoSupplier,    \* supplier_id is NULL
    Numbers,       \* invoice numbers
    Contents,      \* file contents, told apart by their SHA-256
    NoContent,     \* file_checksum is NULL
    NoOne,         \* no request, no replica, no row
    MaxRenumbers,  \* bound: rows whose number changes later
    MaxFaults      \* bound: crashes, failed and unanswered calls

Requests == Uploads \union Metadata

VARIABLES
    pc,          \* [Requests -> Stage]
    draft,       \* [Requests -> Row]: what the request asks for
    at,          \* [Requests -> Replicas or NoOne]: the replica that serves it
    loop,        \* [Replicas -> Uploads or NoOne]: the upload in its event loop
    invoices,    \* [Requests -> Row or NoOne]: committed rows
    pending,     \* requests whose INSERT is flushed and not committed
    blobs,       \* requests whose file is in the store
    queue,       \* requests whose job id was pushed
    renumbered,  \* history: rows whose number was changed after creation
    unanswered,  \* history: commits that happened and were reported as failed
    leaked,      \* history: files left behind by a crash or a failed delete
    faults

vars == <<pc, draft, at, loop, invoices, pending, blobs, queue, renumbered,
          unanswered, leaked, faults>>

Stage == {"new", "checksum", "number", "inserting", "storing", "filed", "committed",
          "compensating", "created", "refused", "failed", "gone"}
Row == [supplier : Suppliers \union {NoSupplier}, number : Numbers,
        content : Contents \union {NoContent}]

ASSUME RowsAssumption == NoOne \notin Row
ASSUME NoOneAssumption == NoOne \notin Requests \union Replicas

TypeOK ==
    /\ pc \in [Requests -> Stage]
    /\ draft \in [Requests -> Row \union {NoOne}]
    /\ at \in [Requests -> Replicas \union {NoOne}]
    /\ loop \in [Replicas -> Uploads \union {NoOne}]
    /\ invoices \in [Requests -> Row \union {NoOne}]
    /\ pending \subseteq Requests
    /\ blobs \subseteq Uploads
    /\ queue \subseteq Uploads

Init ==
    /\ pc = [r \in Requests |-> "new"]
    /\ draft = [r \in Requests |-> NoOne]
    /\ at = [r \in Requests |-> NoOne]
    /\ loop = [p \in Replicas |-> NoOne]
    /\ invoices = [r \in Requests |-> NoOne]
    /\ pending = {}
    /\ blobs = {}
    /\ queue = {}
    /\ renumbered = {}
    /\ unanswered = {}
    /\ leaked = {}
    /\ faults = 0

Committed == {r \in Requests : invoices[r] # NoOne}
Ended(r) == pc[r] \in {"created", "refused", "failed", "gone"}

Goto(r, s) == pc' = [pc EXCEPT ![r] = s]

\* The handler of r returns or raises with the stage s.
End(r, s) ==
    /\ Goto(r, s)
    /\ loop' = [p \in Replicas |-> IF loop[p] = r THEN NoOne ELSE loop[p]]

Fault == faults < MaxFaults /\ faults' = faults + 1

-----------------------------------------------------------------------------
(* Checks before the insert *)

\* Seeded fault: the endpoint as a plain function, in the thread pool.
ServeInThreads(r, p) == UNCHANGED loop

\* An upload occupies the event loop of its replica until it ends.
Serve(r, p) ==
    IF r \in Uploads
    THEN loop[p] = NoOne /\ loop' = [loop EXCEPT ![p] = r]
    ELSE UNCHANGED loop

Receive(r, p) ==
    /\ pc[r] = "new"
    /\ Serve(r, p)
    /\ at' = [at EXCEPT ![r] = p]
    /\ \E row \in Row :
          /\ (r \in Uploads) <=> (row.content # NoContent)
          /\ draft' = [draft EXCEPT ![r] = row]
    /\ Goto(r, IF r \in Uploads THEN "checksum" ELSE "number")
    /\ UNCHANGED <<invoices, pending, blobs, queue, renumbered, unanswered, leaked, faults>>

ChecksumExists(r) == \E o \in Committed : invoices[o].content = draft[r].content

\* One supplier and number; `IS NULL` makes two rows without a supplier equal.
Duplicate(a, b) == a.supplier = b.supplier /\ a.number = b.number

\* Seeded fault: `supplier_id = NULL`, which no row satisfies.
NumberExistsWithoutIsNull(r) ==
    draft[r].supplier # NoSupplier /\ \E o \in Committed : Duplicate(invoices[o], draft[r])

NumberExists(r) == \E o \in Committed : Duplicate(invoices[o], draft[r])

CheckChecksum(r) ==
    /\ pc[r] = "checksum"
    /\ IF ChecksumExists(r) THEN End(r, "refused") ELSE Goto(r, "number") /\ UNCHANGED loop
    /\ UNCHANGED <<draft, at, invoices, pending, blobs, queue, renumbered, unanswered, leaked, faults>>

CheckNumber(r) ==
    /\ pc[r] = "number"
    /\ IF NumberExists(r) THEN End(r, "refused") ELSE Goto(r, "inserting") /\ UNCHANGED loop
    /\ UNCHANGED <<draft, at, invoices, pending, blobs, queue, renumbered, unanswered, leaked, faults>>

-----------------------------------------------------------------------------
(* The insert, the file, the commit *)

\* Two entries of the index uq_invoice_org_supplier_number; NULLs are distinct.
SameKey(a, b) == a.supplier # NoSupplier /\ Duplicate(a, b)

\* The index waits for an uncommitted entry with the same key.
MustWait(row) == \E o \in pending : SameKey(draft[o], row)
Collides(row, self) == \E o \in Committed \ {self} : SameKey(invoices[o], row)

Insert(r) ==
    /\ pc[r] = "inserting"
    /\ ~MustWait(draft[r])
    /\ IF Collides(draft[r], r)
       THEN End(r, "refused") /\ UNCHANGED pending
       ELSE /\ pending' = pending \union {r}
            /\ Goto(r, IF r \in Uploads THEN "storing" ELSE "filed")
            /\ UNCHANGED loop
    /\ UNCHANGED <<draft, at, invoices, blobs, queue, renumbered, unanswered, leaked, faults>>

StoreFile(r) ==
    /\ pc[r] = "storing"
    /\ blobs' = blobs \union {r}
    /\ Goto(r, "filed")
    /\ UNCHANGED <<draft, at, loop, invoices, pending, queue, renumbered, unanswered, leaked, faults>>

\* An error from the store, whether or not it kept the file; then the rollback.
StoreFails(r) ==
    /\ pc[r] = "storing"
    /\ Fault
    /\ blobs' \in {blobs, blobs \union {r}}
    /\ pending' = pending \ {r}
    /\ Goto(r, "compensating")
    /\ UNCHANGED <<draft, at, loop, invoices, queue, renumbered, unanswered, leaked>>

\* Job, file row, status and audit rows go with the invoice in one commit.
Commit(r) ==
    /\ pc[r] = "filed"
    /\ invoices' = [invoices EXCEPT ![r] = draft[r]]
    /\ pending' = pending \ {r}
    /\ IF r \in Uploads THEN Goto(r, "committed") /\ UNCHANGED loop ELSE End(r, "created")
    /\ UNCHANGED <<draft, at, blobs, queue, renumbered, unanswered, leaked, faults>>

\* Seeded fault: the rollback is not followed by the delete.
RollBackOnly(r) ==
    /\ pending' = pending \ {r}
    /\ End(r, "failed")

\* Everything after the insert of an upload is in one try block.
RollBack(r) ==
    /\ pending' = pending \ {r}
    /\ IF r \in Uploads THEN Goto(r, "compensating") /\ UNCHANGED loop ELSE End(r, "failed")

\* A statement or the commit fails; or the commit succeeds and its answer is lost.
CommitFails(r) ==
    /\ pc[r] = "filed"
    /\ Fault
    /\ RollBack(r)
    /\ \/ UNCHANGED <<invoices, unanswered>>
       \/ /\ invoices' = [invoices EXCEPT ![r] = draft[r]]
          /\ unanswered' = unanswered \union {r}
    /\ UNCHANGED <<draft, at, blobs, queue, renumbered, leaked>>

DeleteFile(r) ==
    /\ pc[r] = "compensating"
    /\ blobs' = blobs \ {r}
    /\ End(r, "failed")
    /\ UNCHANGED <<draft, at, invoices, pending, queue, renumbered, unanswered, leaked, faults>>

\* Deletion is best effort: an error of the store is swallowed.
DeleteFails(r) ==
    /\ pc[r] = "compensating"
    /\ Fault
    /\ leaked' = leaked \union {r}
    /\ End(r, "failed")
    /\ UNCHANGED <<draft, at, invoices, pending, blobs, queue, renumbered, unanswered>>

Enqueue(r) ==
    /\ pc[r] = "committed"
    /\ queue' = queue \union {r}
    /\ End(r, "created")
    /\ UNCHANGED <<draft, at, invoices, pending, blobs, renumbered, unanswered, leaked, faults>>

\* Seeded fault: the push is inside the try block and compensated.
EnqueueFailsCompensated(r) ==
    /\ pc[r] = "committed"
    /\ Fault
    /\ Goto(r, "compensating")
    /\ UNCHANGED <<draft, at, loop, invoices, pending, blobs, queue, renumbered, unanswered, leaked>>

\* Redis is not reachable: the request fails, the invoice stays.
EnqueueFails(r) ==
    /\ pc[r] = "committed"
    /\ Fault
    /\ End(r, "failed")
    /\ UNCHANGED <<draft, at, invoices, pending, blobs, queue, renumbered, unanswered, leaked>>

-----------------------------------------------------------------------------
(* Others *)

\* A replica dies with every request it serves; the database rolls back.
Crash(p) ==
    LET lost == {r \in Requests : at[r] = p /\ ~Ended(r)}
    IN  /\ lost # {}
        /\ Fault
        /\ pc' = [r \in Requests |-> IF r \in lost THEN "gone" ELSE pc[r]]
        /\ loop' = [loop EXCEPT ![p] = NoOne]
        /\ pending' = pending \ lost
        /\ leaked' = leaked \union lost
        /\ UNCHANGED <<draft, at, invoices, blobs, queue, renumbered, unanswered>>

\* An extraction or a reviewer's correction changes the number of a row; a
\* collision is rolled back.
Renumber(r, n) ==
    /\ Cardinality(renumbered) < MaxRenumbers
    /\ r \in Committed
    /\ invoices[r].number # n
    /\ LET row == [invoices[r] EXCEPT !.number = n]
       IN  ~MustWait(row) /\ ~Collides(row, r) /\ invoices' = [invoices EXCEPT ![r] = row]
    /\ renumbered' = renumbered \union {r}
    /\ UNCHANGED <<pc, draft, at, loop, pending, blobs, queue, unanswered, leaked, faults>>

Next ==
    \/ \E r \in Requests, p \in Replicas : Receive(r, p)
    \/ \E r \in Requests :
          \/ CheckChecksum(r) \/ CheckNumber(r) \/ Insert(r)
          \/ StoreFile(r) \/ StoreFails(r) \/ Commit(r) \/ CommitFails(r)
          \/ DeleteFile(r) \/ DeleteFails(r) \/ Enqueue(r) \/ EnqueueFails(r)
    \/ \E p \in Replicas : Crash(p)
    \/ \E r \in Requests, n \in Numbers : Renumber(r, n)

Spec == Init /\ [][Next]_vars

-----------------------------------------------------------------------------
(* Properties *)

\* invoice_intake.py:217 "so storage never drifts from the database", first
\* half: a committed upload has its file, unless the answer to its commit was
\* lost and the compensation deleted the file of a row that exists.
RowsHaveFiles == \A r \in Committed \cap Uploads : r \in blobs \union unanswered

\* Second half: when a request is over, its file belongs to a committed row,
\* unless a crash or a failed delete left it behind.
NoOrphanFiles == \A r \in blobs : Ended(r) => r \in Committed \union leaked

\* invoice_intake.py:172 "Content hash detects re-uploads": two rows with one
\* content come from two replicas, because one replica's uploads run one after
\* the other from the checksum query to the commit.
ReuploadsMetByTheirReplica ==
    \A r, s \in Committed \cap Uploads :
        r # s /\ invoices[r].content = invoices[s].content => at[r] # at[s]

\* Between the number check and the commit others may commit.  With a supplier
\* the unique constraint stops them, and corrections of a number too
\* (invoice_intake.py:102); without one NULLs are distinct to it, and what is left
\* is that one replica's uploads do not race: two rows created with one number
\* come from two replicas, or one is a metadata request (invoice_intake.py:369).
NumbersReusedOnlyInRaces ==
    \A r, o \in Committed :
        r # o /\ Duplicate(invoices[r], invoices[o]) =>
            /\ invoices[r].supplier = NoSupplier
            /\ \/ at[r] # at[o] \/ ~({r, o} \subseteq Uploads)
               \/ {r, o} \cap renumbered # {}

\* invoice_intake.py:102 "the unique constraint below is the authoritative guard
\* against concurrent inserts racing past this check".  Not true of rows without
\* a supplier: NULLs are distinct to the constraint (README, section 4).
NumbersUnique ==
    \A r, o \in Committed \ renumbered :
        r # o => ~Duplicate(invoices[r], invoices[o])
=============================================================================
