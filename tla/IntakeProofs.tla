---------------------------- MODULE IntakeProofs ----------------------------
(***************************************************************************)
(* Rows and files, and what each duplicate check can see: proved for any     *)
(* number of requests and replicas, of crashes and of failed calls.         *)
(***************************************************************************)
EXTENDS Intake, TLAPS

Early == {"new", "checksum", "number", "inserting", "storing", "filed"}
Active == {"checksum", "number", "inserting", "storing", "filed", "committed", "compensating"}
Unchecked == {"new", "checksum", "number"}

\* Where a request is tells whether its row and its file exist.
RowsOK ==
    \A r \in Requests :
        /\ IF pc[r] = "new" THEN at[r] = NoOne ELSE draft[r] \in Row /\ at[r] \in Replicas
        /\ pc[r] \in Early \union {"refused"} => invoices[r] = NoOne
        /\ pc[r] \in {"committed", "created"} => invoices[r] # NoOne
        /\ pc[r] = "compensating" /\ invoices[r] # NoOne => r \in unanswered
        /\ invoices[r] # NoOne => /\ invoices[r].content = draft[r].content
                                  /\ r \notin renumbered => invoices[r] = draft[r]

FilesOK ==
    \A r \in Requests :
        /\ pc[r] \in {"checksum", "storing", "committed", "compensating"} => r \in Uploads
        /\ pc[r] = "filed" /\ r \in Uploads => r \in blobs
        /\ pc[r] \in (Early \ {"filed"}) \union {"refused"} => r \notin blobs

\* An upload under way has the event loop of its replica, and no committed
\* upload that the replica served has its content once that was checked.
LoopOK ==
    \A r \in Uploads :
        /\ pc[r] \in Active => loop[at[r]] = r
        /\ pc[r] \in {"number", "inserting", "storing", "filed"} =>
              \A s \in Committed \cap Uploads :
                  invoices[s].content = draft[r].content => at[s] # at[r]

\* The unique index: committed and flushed rows with a supplier have numbers of
\* their own, and a row that will be committed is flushed.
KeysOK ==
    /\ \A r \in Requests : r \in pending <=> pc[r] \in {"storing", "filed"}
    /\ \A r, o \in pending : r # o => ~SameKey(draft[r], draft[o])
    /\ \A r \in pending, o \in Committed : ~SameKey(invoices[o], draft[r])
    /\ \A r, o \in Committed : r # o => ~SameKey(invoices[r], invoices[o])

\* No committed upload that the replica served was created with the number of
\* one under way, once that was checked.
NumbersOK ==
    /\ \A r \in Uploads : pc[r] \in {"inserting", "storing", "filed"} =>
          \A s \in (Committed \cap Uploads) \ renumbered :
              Duplicate(invoices[s], draft[r]) => at[s] # at[r]
    /\ \A r, s \in (Committed \cap Uploads) \ renumbered :
          r # s /\ Duplicate(invoices[r], invoices[s]) => at[r] # at[s]

IInv == /\ TypeOK /\ RowsOK /\ FilesOK /\ LoopOK /\ KeysOK /\ NumbersOK
        /\ RowsHaveFiles /\ NoOrphanFiles /\ ReuploadsMetByTheirReplica

USE RowsAssumption, NoOneAssumption

LEMMA InitOK == Init => IInv
<1> SUFFICES ASSUME Init PROVE IInv
  OBVIOUS
<1>1. TypeOK
  BY DEF Init, TypeOK, Stage
<1>2. RowsOK /\ FilesOK /\ LoopOK /\ KeysOK /\ NumbersOK
  BY DEF Init, RowsOK, FilesOK, LoopOK, KeysOK, NumbersOK, Early, Active, Committed, Requests
<1>3. RowsHaveFiles /\ NoOrphanFiles /\ ReuploadsMetByTheirReplica
  BY DEF Init, RowsHaveFiles, NoOrphanFiles, ReuploadsMetByTheirReplica, Committed
<1> QED BY <1>1, <1>2, <1>3 DEF IInv

LEMMA ReceiveOK == ASSUME IInv, NEW r \in Requests, NEW p \in Replicas, Receive(r, p) PROVE IInv'
<1>1. TypeOK'
  BY DEF IInv, TypeOK, Receive, Serve, Goto, End, Stage, Requests, Row
<1>2. RowsOK'
  BY DEF IInv, TypeOK, RowsOK, Early, Receive, Serve, Goto, End, Requests
<1>3. FilesOK'
  BY DEF IInv, TypeOK, FilesOK, Early, Receive, Serve, Goto, End, Requests
<1>4. LoopOK'
  BY DEF IInv, TypeOK, RowsOK, LoopOK, Early, Active, Committed, Receive, Serve, Goto, End, Requests
<1>5. KeysOK'
  BY DEF IInv, TypeOK, RowsOK, KeysOK, SameKey, Duplicate, Early, Committed, Receive, Serve, Goto, End, Requests
<1>8. NumbersOK'
  BY DEF IInv, TypeOK, RowsOK, LoopOK, NumbersOK, Duplicate, Active, Early, Committed, Receive, Serve, Goto, End, Requests
<1>6. RowsHaveFiles' /\ NoOrphanFiles'
  BY DEF IInv, TypeOK, RowsOK, FilesOK, RowsHaveFiles, NoOrphanFiles, Early, Ended, Committed, Receive, Serve, Goto, End, Requests
<1>7. ReuploadsMetByTheirReplica'
  BY DEF IInv, TypeOK, RowsOK, LoopOK, ReuploadsMetByTheirReplica, Early, Committed, Receive, Serve, Goto, End, Requests
<1> QED BY <1>1, <1>2, <1>3, <1>4, <1>5, <1>6, <1>7, <1>8 DEF IInv

LEMMA CheckChecksumOK == ASSUME IInv, NEW r \in Requests, CheckChecksum(r) PROVE IInv'
<1>1. TypeOK'
  BY DEF IInv, TypeOK, CheckChecksum, ChecksumExists, Goto, End, Stage, Requests, Row
<1>2. RowsOK'
  BY DEF IInv, TypeOK, RowsOK, Early, CheckChecksum, ChecksumExists, Goto, End, Requests
<1>3. FilesOK'
  BY DEF IInv, TypeOK, FilesOK, Early, CheckChecksum, ChecksumExists, Goto, End, Requests
<1>4. LoopOK'
  BY DEF IInv, TypeOK, RowsOK, LoopOK, Early, Active, Committed, CheckChecksum, ChecksumExists, Goto, End, Requests
<1>5. KeysOK'
  BY DEF IInv, TypeOK, RowsOK, KeysOK, SameKey, Duplicate, Early, Committed, CheckChecksum, ChecksumExists, Goto, End, Requests
<1>8. NumbersOK'
  BY DEF IInv, TypeOK, RowsOK, LoopOK, NumbersOK, Duplicate, Active, Early, Committed, CheckChecksum, ChecksumExists, Goto, End, Requests
<1>6. RowsHaveFiles' /\ NoOrphanFiles'
  BY DEF IInv, TypeOK, RowsOK, FilesOK, RowsHaveFiles, NoOrphanFiles, Early, Ended, Committed, CheckChecksum, ChecksumExists, Goto, End, Requests
<1>7. ReuploadsMetByTheirReplica'
  BY DEF IInv, TypeOK, RowsOK, LoopOK, ReuploadsMetByTheirReplica, Early, Committed, CheckChecksum, ChecksumExists, Goto, End, Requests
<1> QED BY <1>1, <1>2, <1>3, <1>4, <1>5, <1>6, <1>7, <1>8 DEF IInv

LEMMA CheckNumberOK == ASSUME IInv, NEW r \in Requests, CheckNumber(r) PROVE IInv'
<1>1. TypeOK'
  BY DEF IInv, TypeOK, CheckNumber, NumberExists, Goto, End, Stage, Requests, Row
<1>2. RowsOK'
  BY DEF IInv, TypeOK, RowsOK, Early, CheckNumber, NumberExists, Goto, End, Requests
<1>3. FilesOK'
  BY DEF IInv, TypeOK, FilesOK, Early, CheckNumber, NumberExists, Goto, End, Requests
<1>4. LoopOK'
  BY DEF IInv, TypeOK, RowsOK, LoopOK, Early, Active, Committed, CheckNumber, NumberExists, Goto, End, Requests
<1>5. KeysOK'
  BY DEF IInv, TypeOK, RowsOK, KeysOK, SameKey, Duplicate, Early, Committed, CheckNumber, NumberExists, Goto, End, Requests
<1>8. NumbersOK'
  BY DEF IInv, TypeOK, RowsOK, LoopOK, NumbersOK, Duplicate, Active, Early, Committed, CheckNumber, NumberExists, Goto, End, Requests
<1>6. RowsHaveFiles' /\ NoOrphanFiles'
  BY DEF IInv, TypeOK, RowsOK, FilesOK, RowsHaveFiles, NoOrphanFiles, Early, Ended, Committed, CheckNumber, NumberExists, Goto, End, Requests
<1>7. ReuploadsMetByTheirReplica'
  BY DEF IInv, TypeOK, RowsOK, LoopOK, ReuploadsMetByTheirReplica, Early, Committed, CheckNumber, NumberExists, Goto, End, Requests
<1> QED BY <1>1, <1>2, <1>3, <1>4, <1>5, <1>6, <1>7, <1>8 DEF IInv

LEMMA InsertOK == ASSUME IInv, NEW r \in Requests, Insert(r) PROVE IInv'
<1>1. TypeOK'
  BY DEF IInv, TypeOK, Insert, Goto, End, Stage, Requests, Row
<1>2. RowsOK'
  BY DEF IInv, TypeOK, RowsOK, Early, Insert, Goto, End, Requests
<1>3. FilesOK'
  BY DEF IInv, TypeOK, FilesOK, Early, Insert, Goto, End, Requests
<1>4. LoopOK'
  BY DEF IInv, TypeOK, RowsOK, LoopOK, Early, Active, Committed, Insert, Goto, End, Requests
<1>5. KeysOK'
  <2>1. UNCHANGED <<draft, invoices>> /\ Committed' = Committed
    BY DEF Insert, Committed
  <2>2. CASE Collides(draft[r], r)
    <3>1. UNCHANGED pending /\ pc' = [pc EXCEPT ![r] = "refused"] /\ pc[r] = "inserting"
      BY <2>2 DEF Insert, End, Goto
    <3> QED BY <2>1, <3>1 DEF IInv, TypeOK, KeysOK
  <2>3. CASE ~Collides(draft[r], r)
    <3>1. /\ pending' = pending \union {r} /\ pc[r] = "inserting"
          /\ \E s \in {"storing", "filed"} : pc' = [pc EXCEPT ![r] = s]
      BY <2>3 DEF Insert, Goto
    <3>2. /\ \A o \in pending : ~SameKey(draft[o], draft[r])
          /\ r \notin Committed
          /\ \A o \in Committed : ~SameKey(invoices[o], draft[r])
      BY <2>3 DEF Insert, MustWait, Collides, IInv, RowsOK, Early, Committed
    <3>3. \A a, b : SameKey(a, b) <=> SameKey(b, a)
      BY DEF SameKey, Duplicate
    <3>4. \A q \in Requests : q \in pending' <=> pc'[q] \in {"storing", "filed"}
      BY <3>1 DEF IInv, TypeOK, KeysOK
    <3>5. \A q, o \in pending' : q # o => ~SameKey(draft'[q], draft'[o])
      BY <2>1, <3>1, <3>2, <3>3 DEF IInv, KeysOK
    <3> QED BY <2>1, <3>1, <3>2, <3>4, <3>5 DEF IInv, KeysOK
  <2> QED BY <2>2, <2>3
<1>8. NumbersOK'
  BY DEF IInv, TypeOK, RowsOK, LoopOK, NumbersOK, Duplicate, Active, Early, Committed, Insert, Goto, End, Requests
<1>6. RowsHaveFiles' /\ NoOrphanFiles'
  BY DEF IInv, TypeOK, RowsOK, FilesOK, RowsHaveFiles, NoOrphanFiles, Early, Ended, Committed, Insert, Goto, End, Requests
<1>7. ReuploadsMetByTheirReplica'
  BY DEF IInv, TypeOK, RowsOK, LoopOK, ReuploadsMetByTheirReplica, Early, Committed, Insert, Goto, End, Requests
<1> QED BY <1>1, <1>2, <1>3, <1>4, <1>5, <1>6, <1>7, <1>8 DEF IInv

LEMMA StoreFileOK == ASSUME IInv, NEW r \in Requests, StoreFile(r) \/ StoreFails(r) PROVE IInv'
<1>1. TypeOK'
  <2>1. r \in Uploads
    BY DEF IInv, FilesOK, StoreFile, StoreFails
  <2> QED BY <2>1 DEF IInv, TypeOK, StoreFile, StoreFails, Goto, Stage
<1>2. RowsOK'
  BY DEF IInv, TypeOK, RowsOK, Early, StoreFile, StoreFails, Fault, Goto, End, Requests
<1>3. FilesOK'
  BY DEF IInv, TypeOK, FilesOK, Early, StoreFile, StoreFails, Fault, Goto, End, Requests
<1>4. LoopOK'
  BY DEF IInv, TypeOK, RowsOK, LoopOK, Early, Active, Committed, StoreFile, StoreFails, Fault, Goto, End, Requests
<1>5. KeysOK'
  BY DEF IInv, TypeOK, RowsOK, KeysOK, SameKey, Duplicate, Early, Committed, StoreFile, StoreFails, Fault, Goto, End, Requests
<1>8. NumbersOK'
  BY DEF IInv, TypeOK, RowsOK, LoopOK, NumbersOK, Duplicate, Active, Early, Committed, StoreFile, StoreFails, Fault, Goto, End, Requests
<1>6. RowsHaveFiles' /\ NoOrphanFiles'
  BY DEF IInv, TypeOK, RowsOK, FilesOK, RowsHaveFiles, NoOrphanFiles, Early, Ended, Committed, StoreFile, StoreFails, Fault, Goto, End, Requests
<1>7. ReuploadsMetByTheirReplica'
  BY DEF IInv, TypeOK, RowsOK, LoopOK, ReuploadsMetByTheirReplica, Early, Committed, StoreFile, StoreFails, Fault, Goto, End, Requests
<1> QED BY <1>1, <1>2, <1>3, <1>4, <1>5, <1>6, <1>7, <1>8 DEF IInv

LEMMA CommitOK == ASSUME IInv, NEW r \in Requests, Commit(r) PROVE IInv'
<1>1. TypeOK'
  BY DEF IInv, TypeOK, Commit, Goto, End, Stage, Requests, Row
<1>2. RowsOK'
  BY DEF IInv, TypeOK, RowsOK, Early, Commit, Goto, End, Requests
<1>3. FilesOK'
  BY DEF IInv, TypeOK, FilesOK, Early, Commit, Goto, End, Requests
<1>4. LoopOK'
  BY DEF IInv, TypeOK, RowsOK, LoopOK, Early, Active, Committed, Commit, Goto, End, Requests
<1>5. KeysOK'
  BY DEF IInv, TypeOK, RowsOK, KeysOK, SameKey, Duplicate, Early, Committed, Commit, Goto, End, Requests
<1>8. NumbersOK'
  BY DEF IInv, TypeOK, RowsOK, LoopOK, NumbersOK, Duplicate, Active, Early, Committed, Commit, Goto, End, Requests
<1>6. RowsHaveFiles' /\ NoOrphanFiles'
  BY DEF IInv, TypeOK, RowsOK, FilesOK, RowsHaveFiles, NoOrphanFiles, Early, Ended, Committed, Commit, Goto, End, Requests
<1>7. ReuploadsMetByTheirReplica'
  BY DEF IInv, TypeOK, RowsOK, LoopOK, ReuploadsMetByTheirReplica, Early, Committed, Commit, Goto, End, Requests
<1> QED BY <1>1, <1>2, <1>3, <1>4, <1>5, <1>6, <1>7, <1>8 DEF IInv

LEMMA CommitFailsOK == ASSUME IInv, NEW r \in Requests, CommitFails(r) PROVE IInv'
<1>1. TypeOK'
  BY DEF IInv, TypeOK, CommitFails, RollBack, Fault, Goto, End, Stage, Requests, Row
<1>2. RowsOK'
  BY DEF IInv, TypeOK, RowsOK, Early, CommitFails, RollBack, Fault, Goto, End, Requests
<1>3. FilesOK'
  BY DEF IInv, TypeOK, FilesOK, Early, CommitFails, RollBack, Fault, Goto, End, Requests
<1>4. LoopOK'
  BY DEF IInv, TypeOK, RowsOK, LoopOK, Early, Active, Committed, CommitFails, RollBack, Fault, Goto, End, Requests
<1>5. KeysOK'
  BY DEF IInv, TypeOK, RowsOK, KeysOK, SameKey, Duplicate, Early, Committed, CommitFails, RollBack, Fault, Goto, End, Requests
<1>8. NumbersOK'
  BY DEF IInv, TypeOK, RowsOK, LoopOK, NumbersOK, Duplicate, Active, Early, Committed, CommitFails, RollBack, Fault, Goto, End, Requests
<1>6. RowsHaveFiles' /\ NoOrphanFiles'
  BY DEF IInv, TypeOK, RowsOK, FilesOK, RowsHaveFiles, NoOrphanFiles, Early, Ended, Committed, CommitFails, RollBack, Fault, Goto, End, Requests
<1>7. ReuploadsMetByTheirReplica'
  BY DEF IInv, TypeOK, RowsOK, LoopOK, ReuploadsMetByTheirReplica, Early, Committed, CommitFails, RollBack, Fault, Goto, End, Requests
<1> QED BY <1>1, <1>2, <1>3, <1>4, <1>5, <1>6, <1>7, <1>8 DEF IInv

LEMMA DeleteOK == ASSUME IInv, NEW r \in Requests, DeleteFile(r) \/ DeleteFails(r) PROVE IInv'
<1>1. TypeOK'
  BY DEF IInv, TypeOK, DeleteFile, DeleteFails, Fault, Goto, End, Stage, Requests, Row
<1>2. RowsOK'
  BY DEF IInv, TypeOK, RowsOK, Early, DeleteFile, DeleteFails, Fault, Goto, End, Requests
<1>3. FilesOK'
  BY DEF IInv, TypeOK, FilesOK, Early, DeleteFile, DeleteFails, Fault, Goto, End, Requests
<1>4. LoopOK'
  BY DEF IInv, TypeOK, RowsOK, LoopOK, Early, Active, Committed, DeleteFile, DeleteFails, Fault, Goto, End, Requests
<1>5. KeysOK'
  BY DEF IInv, TypeOK, RowsOK, KeysOK, SameKey, Duplicate, Early, Committed, DeleteFile, DeleteFails, Fault, Goto, End, Requests
<1>8. NumbersOK'
  BY DEF IInv, TypeOK, RowsOK, LoopOK, NumbersOK, Duplicate, Active, Early, Committed, DeleteFile, DeleteFails, Fault, Goto, End, Requests
<1>6. RowsHaveFiles' /\ NoOrphanFiles'
  BY DEF IInv, TypeOK, RowsOK, FilesOK, RowsHaveFiles, NoOrphanFiles, Early, Ended, Committed, DeleteFile, DeleteFails, Fault, Goto, End, Requests
<1>7. ReuploadsMetByTheirReplica'
  BY DEF IInv, TypeOK, RowsOK, LoopOK, ReuploadsMetByTheirReplica, Early, Committed, DeleteFile, DeleteFails, Fault, Goto, End, Requests
<1> QED BY <1>1, <1>2, <1>3, <1>4, <1>5, <1>6, <1>7, <1>8 DEF IInv

LEMMA EnqueueOK == ASSUME IInv, NEW r \in Requests, Enqueue(r) \/ EnqueueFails(r) PROVE IInv'
<1>1. TypeOK'
  <2>1. r \in Uploads
    BY DEF IInv, FilesOK, Enqueue, EnqueueFails
  <2> QED BY <2>1 DEF IInv, TypeOK, Enqueue, EnqueueFails, Goto, End, Stage
<1>2. RowsOK'
  BY DEF IInv, TypeOK, RowsOK, Early, Enqueue, EnqueueFails, Fault, Goto, End, Requests
<1>3. FilesOK'
  BY DEF IInv, TypeOK, FilesOK, Early, Enqueue, EnqueueFails, Fault, Goto, End, Requests
<1>4. LoopOK'
  BY DEF IInv, TypeOK, RowsOK, LoopOK, Early, Active, Committed, Enqueue, EnqueueFails, Fault, Goto, End, Requests
<1>5. KeysOK'
  BY DEF IInv, TypeOK, RowsOK, KeysOK, SameKey, Duplicate, Early, Committed, Enqueue, EnqueueFails, Fault, Goto, End, Requests
<1>8. NumbersOK'
  BY DEF IInv, TypeOK, RowsOK, LoopOK, NumbersOK, Duplicate, Active, Early, Committed, Enqueue, EnqueueFails, Fault, Goto, End, Requests
<1>6. RowsHaveFiles' /\ NoOrphanFiles'
  BY DEF IInv, TypeOK, RowsOK, FilesOK, RowsHaveFiles, NoOrphanFiles, Early, Ended, Committed, Enqueue, EnqueueFails, Fault, Goto, End, Requests
<1>7. ReuploadsMetByTheirReplica'
  BY DEF IInv, TypeOK, RowsOK, LoopOK, ReuploadsMetByTheirReplica, Early, Committed, Enqueue, EnqueueFails, Fault, Goto, End, Requests
<1> QED BY <1>1, <1>2, <1>3, <1>4, <1>5, <1>6, <1>7, <1>8 DEF IInv

\* What a crash undoes is uncommitted; files of the requests it ends are leaked.
LEMMA CrashOK == ASSUME IInv, NEW p \in Replicas, Crash(p) PROVE IInv'
<1> DEFINE lost == {r \in Requests : at[r] = p /\ ~Ended(r)}
<1>1. /\ pc' = [r \in Requests |-> IF r \in lost THEN "gone" ELSE pc[r]]
      /\ loop' = [loop EXCEPT ![p] = NoOne]
      /\ pending' = pending \ lost /\ leaked' = leaked \union lost
      /\ UNCHANGED <<draft, at, invoices, blobs, queue, renumbered, unanswered>>
  BY DEF Crash
<1>2. TypeOK'
  BY <1>1 DEF IInv, TypeOK, Stage
<1>3. RowsOK'
  <2>1. \A q \in Requests : pc'[q] = pc[q] \/ (at[q] = p /\ pc'[q] = "gone")
    BY <1>1
  <2>2. UNCHANGED <<draft, at, invoices, unanswered, renumbered>>
    BY <1>1
  <2> QED BY <2>1, <2>2 DEF IInv, RowsOK, Early
<1>4. FilesOK'
  BY <1>1 DEF IInv, FilesOK, Early
<1>5. LoopOK'
  <2>1. ASSUME NEW r \in Uploads, pc'[r] \in Active PROVE loop'[at[r]] = r
    <3>1. r \in Requests /\ r \notin lost /\ pc[r] \in Active
      BY <1>1, <2>1 DEF Requests, Active
    <3>2. at[r] # p
      BY <3>1 DEF Ended, Active
    <3>3. loop[at[r]] = r /\ at[r] \in Replicas
      BY <3>1 DEF IInv, RowsOK, LoopOK, Active
    <3> QED BY <1>1, <3>2, <3>3 DEF IInv, TypeOK
  <2>2. ASSUME NEW r \in Uploads, pc'[r] \in {"number", "inserting", "storing", "filed"}
        PROVE  pc[r] = pc'[r]
    BY <1>1, <2>2 DEF Requests
  <2> QED BY <1>1, <2>1, <2>2 DEF IInv, LoopOK, Committed
<1>6. KeysOK' /\ NumbersOK'
  <2>1. \A q \in Requests : pc'[q] = pc[q] \/ (q \in lost /\ pc'[q] = "gone")
    BY <1>1
  <2>2. \A q \in Requests : q \in lost => pc'[q] = "gone"
    BY <1>1
  <2>3. UNCHANGED <<draft, at, invoices, renumbered>> /\ Committed' = Committed
    BY <1>1 DEF Committed
  <2>4. KeysOK'
    BY <1>1, <2>1, <2>2, <2>3 DEF IInv, KeysOK
  <2>5. NumbersOK'
    BY <2>1, <2>3 DEF IInv, NumbersOK, Requests
  <2> QED BY <2>4, <2>5
<1>7. RowsHaveFiles' /\ NoOrphanFiles' /\ ReuploadsMetByTheirReplica'
  BY <1>1 DEF IInv, TypeOK, RowsHaveFiles, NoOrphanFiles, ReuploadsMetByTheirReplica, Ended, Committed,
              Requests
<1> QED BY <1>2, <1>3, <1>4, <1>5, <1>6, <1>7 DEF IInv

LEMMA RenumberOK == ASSUME IInv, NEW r \in Requests, NEW n \in Numbers, Renumber(r, n) PROVE IInv'
<1> DEFINE row == [invoices[r] EXCEPT !.number = n]
<1>1. /\ r \in Committed /\ invoices' = [invoices EXCEPT ![r] = row]
      /\ renumbered' = renumbered \union {r}
      /\ UNCHANGED <<pc, draft, at, loop, pending, blobs, queue, unanswered, leaked>>
  BY DEF Renumber
<1>2. invoices[r] \in Row /\ row \in Row /\ row.content = invoices[r].content /\ row # NoOne
  BY <1>1 DEF IInv, TypeOK, Committed, Row
<1>3. /\ invoices' \in [Requests -> Row \union {NoOne}] /\ Committed' = Committed
      /\ \A q \in Requests : (invoices'[q] # NoOne) <=> (invoices[q] # NoOne)
      /\ \A q \in Committed : invoices'[q].content = invoices[q].content
      /\ \A q \in Requests \ {r} : invoices'[q] = invoices[q]
  BY <1>1, <1>2 DEF IInv, TypeOK, Committed
<1>4. TypeOK'
  BY <1>1, <1>3 DEF IInv, TypeOK
<1>5. RowsOK'
  BY <1>1, <1>3 DEF IInv, RowsOK, Committed
<1>6. FilesOK' /\ LoopOK'
  BY <1>1, <1>3 DEF IInv, FilesOK, LoopOK
<1>7. KeysOK' /\ NumbersOK'
  <2>1. /\ \A o \in pending : ~SameKey(draft[o], row)
        /\ \A o \in Committed \ {r} : ~SameKey(invoices[o], row)
    BY DEF Renumber, MustWait, Collides
  <2>2. \A a, b : SameKey(a, b) <=> SameKey(b, a)
    BY DEF SameKey, Duplicate
  <2>3. invoices'[r] = row
    BY <1>1 DEF IInv, TypeOK, Committed
  <2>4. KeysOK'
    <3>1. \A q \in pending', o \in Committed' : ~SameKey(invoices'[o], draft'[q])
      BY <1>1, <1>3, <2>1, <2>2, <2>3 DEF IInv, KeysOK, Committed
    <3>2. \A q, o \in Committed' : q # o => ~SameKey(invoices'[q], invoices'[o])
      BY <1>1, <1>3, <2>1, <2>2, <2>3 DEF IInv, KeysOK, Committed
    <3> QED BY <1>1, <3>1, <3>2 DEF IInv, KeysOK
  <2>5. NumbersOK'
    BY <1>1, <1>3 DEF IInv, NumbersOK, Committed
  <2> QED BY <2>4, <2>5
<1>8. RowsHaveFiles' /\ NoOrphanFiles' /\ ReuploadsMetByTheirReplica'
  BY <1>1, <1>3 DEF IInv, RowsHaveFiles, NoOrphanFiles, ReuploadsMetByTheirReplica, Ended
<1> QED BY <1>4, <1>5, <1>6, <1>7, <1>8 DEF IInv

LEMMA NextOK == IInv /\ [Next]_vars => IInv'
<1> SUFFICES ASSUME IInv, [Next]_vars PROVE IInv'
  OBVIOUS
<1>1. CASE UNCHANGED vars
  BY <1>1 DEF vars, IInv, TypeOK, RowsOK, FilesOK, LoopOK, KeysOK, NumbersOK, RowsHaveFiles, NoOrphanFiles,
              ReuploadsMetByTheirReplica, Committed, Ended
<1>2. CASE Next
  BY <1>2, ReceiveOK, CheckChecksumOK, CheckNumberOK, InsertOK, StoreFileOK, CommitOK, CommitFailsOK,
     DeleteOK, EnqueueOK, CrashOK, RenumberOK DEF Next
<1> QED BY <1>1, <1>2

\* The inductive invariant behind the theorems below.
THEOREM Invariance == Spec => []IInv
BY InitOK, NextOK, PTL DEF Spec

\* A committed upload has its file unless its commit was reported as failed.
THEOREM FilesFollowRows == Spec => []RowsHaveFiles
<1>1. IInv => RowsHaveFiles
  BY DEF IInv
<1> QED BY <1>1, Invariance, PTL

\* A file outlives its request only with its row, a crash or a failed delete.
THEOREM FilesAreCompensated == Spec => []NoOrphanFiles
<1>1. IInv => NoOrphanFiles
  BY DEF IInv
<1> QED BY <1>1, Invariance, PTL

\* One replica never stores the same content twice.
THEOREM ReplicasMeetReuploads == Spec => []ReuploadsMetByTheirReplica
<1>1. IInv => ReuploadsMetByTheirReplica
  BY DEF IInv
<1> QED BY <1>1, Invariance, PTL

\* A number comes twice only without a supplier, and then through a correction
\* or through requests that race: of two replicas, or of the thread pool.
THEOREM NumbersRaceOnly == Spec => []NumbersReusedOnlyInRaces
<1>1. IInv => NumbersReusedOnlyInRaces
  BY DEF IInv, KeysOK, NumbersOK, NumbersReusedOnlyInRaces, SameKey, Committed
<1> QED BY <1>1, Invariance, PTL
=============================================================================
