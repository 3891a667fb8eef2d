--------------------------- MODULE RealtimeProofs ---------------------------
(***************************************************************************)
(* A tab's screen never settles on less than it was told of: proved for    *)
(* any number of commits, events, lost publications, breaks of the stream,  *)
(* failed loads, visits and reviews.                                        *)
(***************************************************************************)
EXTENDS Realtime, SequenceTheorems, TLAPS

\* Nothing the tab was told of, or will be, is ahead of the committed row, and
\* only queries on the screen are told of anything.
NothingAhead ==
    /\ \A q \in Queries : heard[q] # Nothing => q \in mounted /\ heard[q] <= version
    /\ \A c \in unsent : c.version <= version
    /\ \A n \in 1 .. Len(pipe) : pipe[n].version <= version
    /\ review.got # Nothing => review.got <= version

\* Whatever a query on the screen is doing, it ends with what it heard of: a load
\* whose answer is on its way was read late enough, one that has yet to be read
\* will be.
LoadsLateEnough ==
    \A q \in mounted :
        /\ fetch[q] = Idle => AtLeast(shown[q], heard[q])
        /\ fetch[q].stage = "read" => AtLeast(fetch[q].data, heard[q])

IInv == TypeOK /\ NothingAhead /\ LoadsLateEnough

USE BoundsAssumption, NothingAssumption

LEMMA InitOK == Init => IInv
<1> SUFFICES ASSUME Init PROVE IInv
  OBVIOUS
<1>1. TypeOK
  <2>1. stale \in BOOLEAN
    BY Zenon DEF Init
  <2> QED BY <2>1 DEF Init, TypeOK, Versions, Data, Commits, Queries, Fetches, Asked, Reviews, NoReview
<1>2. NothingAhead
  BY DEF Init, NothingAhead, NoReview
<1>3. LoadsLateEnough
  BY DEF Init, LoadsLateEnough, Asked, Idle, Queries, AtLeast, Newer
<1> QED BY <1>1, <1>2, <1>3 DEF IInv

\* An invalidation leaves a fetch alone or has it asked again, and where the tab
\* heeds it the server has yet to read the row.
LEMMA RestartedType ==
    ASSUME TypeOK, NEW qs
    PROVE  /\ Restarted(qs) \in [Queries -> Fetches]
           /\ \A q \in Queries : Restarted(qs)[q] = fetch[q] \/ Restarted(qs)[q] = Asked
           /\ \A q \in Queries \intersect qs : Heeds(q) => Restarted(qs)[q].stage = "asked"
BY DEF TypeOK, Restarted, Fetches, Asked, Data, Heeds, Running

\* Steps of the server, the stream and the review that the cache takes no part in.
LEMMA CommitOK ==
    ASSUME IInv, NEW kind \in Kinds, Commit(kind)
    PROVE  /\ version' \in Versions /\ version' > version
           /\ unsent' \subseteq Commits
           /\ \A c \in unsent' : c.version <= version'
<1>1. version' \in Versions /\ version' > version
  BY DEF IInv, TypeOK, Commit, Versions
<1>2. unsent' \subseteq Commits
  BY <1>1 DEF IInv, TypeOK, Commit, Commits, Kinds
<1>3. ASSUME NEW c \in unsent' PROVE c.version <= version'
  BY <1>1, <1>2 DEF IInv, TypeOK, NothingAhead, Commit, Commits, Versions
<1> QED BY <1>1, <1>2, <1>3

LEMMA ServerOK ==
    ASSUME IInv, (\E kind \in Kinds : Write(kind)) \/ Serve
    PROVE  IInv'
<1>1. version' \in Versions /\ version' >= version /\ unsent' \subseteq Commits
      /\ \A c \in unsent' : c.version <= version'
  BY CommitOK DEF IInv, TypeOK, NothingAhead, Write, Serve, Versions, Kinds
<1>2. review' \in Reviews /\ (review'.got # Nothing => review'.got <= version')
  <2>1. CASE \E kind \in Kinds : Write(kind)
    BY <1>1, <2>1 DEF IInv, TypeOK, NothingAhead, Write, Reviews, Data, Versions
  <2>2. CASE Serve /\ review.expected = version
    BY <1>1, <2>2 DEF IInv, TypeOK, NothingAhead, Serve, Reviews, NoReview, Data, Versions
  <2>3. CASE Serve /\ review.expected # version
    BY <1>1, <2>3 DEF IInv, TypeOK, NothingAhead, Serve, Reviews, Data, Versions
  <2> QED BY <2>1, <2>2, <2>3
<1>3. UNCHANGED <<stream, pipe, shown, stale, fetch, mounted, heard, visits, faults, reviews>>
  BY DEF Write, Serve, Quiet
<1>4. TypeOK'
  BY <1>1, <1>2, <1>3 DEF IInv, TypeOK
<1>5. NothingAhead'
  <2>1. ASSUME NEW n \in 1 .. Len(pipe') PROVE pipe'[n].version <= version'
    <3>1. pipe'[n] \in Commits /\ pipe'[n] = pipe[n] /\ pipe[n].version <= version
      BY <1>3, ElementOfSeq DEF IInv, TypeOK, NothingAhead
    <3> QED BY <1>1, <3>1 DEF IInv, TypeOK, Commits, Versions
  <2>2. \A q \in Queries : heard'[q] # Nothing => q \in mounted' /\ heard'[q] <= version'
    BY <1>1, <1>3 DEF IInv, TypeOK, NothingAhead, Data, Versions
  <2> QED BY <1>1, <1>2, <2>1, <2>2 DEF NothingAhead
<1>6. LoadsLateEnough'
  BY <1>3 DEF IInv, LoadsLateEnough
<1> QED BY <1>4, <1>5, <1>6 DEF IInv

LEMMA PublishOK ==
    ASSUME IInv, NEW c \in Commits, Publish(c) \/ LosePublication(c)
    PROVE  IInv'
<1>1. pipe' \in Seq(Commits) /\ \A n \in 1 .. Len(pipe') : pipe'[n].version <= version
  <2>1. CASE pipe' = pipe
    BY <2>1 DEF IInv, TypeOK, NothingAhead
  <2>2. CASE c \in unsent /\ pipe' = Append(pipe, c)
    BY <2>2, AppendProperties DEF IInv, TypeOK, NothingAhead
  <2> QED BY <2>1, <2>2 DEF Publish, LosePublication
<1>2. unsent' \subseteq unsent /\ faults' \in 0 .. MaxFaults
  BY DEF IInv, TypeOK, Publish, LosePublication, Fault, Quiet
<1>3. UNCHANGED <<version, stream, shown, stale, fetch, mounted, review, heard, visits, reviews>>
  BY DEF Publish, LosePublication, Quiet
<1>4. TypeOK'
  BY <1>1, <1>2, <1>3 DEF IInv, TypeOK
<1>5. NothingAhead' /\ LoadsLateEnough'
  BY <1>1, <1>2, <1>3 DEF IInv, NothingAhead, LoadsLateEnough
<1> QED BY <1>4, <1>5 DEF IInv

LEMMA StreamOK ==
    ASSUME IInv, Connect \/ Refuse \/ Break
    PROVE  IInv'
<1>1. pipe' = pipe \/ pipe' = <<>>
  BY DEF Connect, Refuse, Break
<1>2. UNCHANGED <<version, unsent, shown, stale, fetch, mounted, review, heard>>
  BY DEF Connect, Refuse, Break
<1>3. TypeOK'
  <2>1. stream' \in {"connecting", "open", "closed"} /\ faults' \in 0 .. MaxFaults
    BY DEF IInv, TypeOK, Connect, Refuse, Break, Quiet, Fault
  <2>2. UNCHANGED <<visits, reviews>>
    BY DEF Connect, Refuse, Break, Quiet
  <2>3. pipe' \in Seq(Commits)
    BY <1>1, EmptySeq DEF IInv, TypeOK
  <2> QED BY <1>2, <2>1, <2>2, <2>3 DEF IInv, TypeOK
<1>4. NothingAhead' /\ LoadsLateEnough'
  BY <1>1, <1>2 DEF IInv, NothingAhead, LoadsLateEnough
<1> QED BY <1>3, <1>4 DEF IInv

\* A load is read after everything the tab has heard of was committed.
LEMMA ReadOK == ASSUME IInv, NEW q \in Queries, Read(q) PROVE IInv'
<1>1. fetch' \in [Queries -> Fetches] /\ fetch'[q].stage = "read" /\ fetch'[q].data = version
      /\ \A r \in Queries \ {q} : fetch'[r] = fetch[r]
  BY DEF IInv, TypeOK, Read, Fetches, Data
<1>2. UNCHANGED <<version, unsent, stream, pipe, shown, stale, mounted, review, heard,
                  visits, faults, reviews>>
  BY DEF Read, Quiet
<1>3. TypeOK' /\ NothingAhead'
  BY <1>1, <1>2 DEF IInv, TypeOK, NothingAhead
<1>4. LoadsLateEnough'
  <2>1. version # Nothing /\ AtLeast(version, heard[q])
    BY DEF IInv, TypeOK, NothingAhead, AtLeast, Newer, Data, Versions
  <2> QED BY <1>1, <1>2, <2>1 DEF IInv, TypeOK, LoadsLateEnough, Idle
<1> QED BY <1>3, <1>4 DEF IInv

LEMMA LoadOK == ASSUME IInv, NEW q \in Queries, Load(q) \/ LoadFails(q) PROVE IInv'
<1>1. /\ fetch' \in [Queries -> Fetches] /\ fetch'[q] \in {Idle, Asked, Failed}
      /\ \A r \in Queries \ {q} : fetch'[r] = fetch[r] /\ shown'[r] = shown[r]
  BY DEF IInv, TypeOK, Load, LoadFails, Fetches, Data, Idle, Asked, Failed
<1>2. /\ shown' \in [Queries -> Data]
      /\ fetch'[q] = Idle => fetch[q].stage = "read" /\ shown'[q] = fetch[q].data
  BY DEF IInv, TypeOK, Load, LoadFails, Fetches, Idle, Asked, Failed
<1>3. stale' \in BOOLEAN /\ faults' \in 0 .. MaxFaults
  <2>1. stale \in BOOLEAN
    BY Zenon DEF IInv, TypeOK
  <2>2. stale' \in BOOLEAN
    BY <2>1, Zenon DEF Load, LoadFails
  <2>3. faults' \in 0 .. MaxFaults
    BY DEF IInv, TypeOK, Load, LoadFails, Fault, Quiet
  <2> QED BY <2>2, <2>3
<1>4. UNCHANGED <<version, unsent, stream, pipe, mounted, review, heard, visits, reviews>>
  BY DEF Load, LoadFails, Quiet
<1>5. TypeOK' /\ NothingAhead'
  BY <1>1, <1>2, <1>3, <1>4 DEF IInv, TypeOK, NothingAhead
<1>6. LoadsLateEnough'
  BY <1>1, <1>2, <1>4 DEF IInv, TypeOK, LoadsLateEnough, Idle, Asked, Failed
<1> QED BY <1>5, <1>6 DEF IInv

\* What is invalidated because of a version is asked again before it hears of it.
LEMMA ReceiveOK == ASSUME IInv, Receive PROVE IInv'
<1> DEFINE event == Head(pipe)
           qs == Affected(event.kind)
<1>1. event \in Commits /\ event.version <= version /\ event.version \in Versions
  <2>1. pipe \in Seq(Commits) /\ pipe # <<>>
    BY DEF IInv, TypeOK, Receive
  <2>2. 1 \in 1 .. Len(pipe) /\ event = pipe[1] /\ event \in Commits
    BY <2>1
  <2> QED BY <2>2 DEF IInv, NothingAhead, Commits
<1>2. pipe' \in Seq(Commits) /\ \A n \in 1 .. Len(pipe') : pipe'[n].version <= version
  BY DEF IInv, TypeOK, NothingAhead, Receive
<1>3. fetch' = Restarted(qs) /\ stale' \in BOOLEAN /\ qs \subseteq Queries
  BY DEF IInv, TypeOK, Receive, Invalidate, Affected, Queries
<1>4. /\ heard' \in [Queries -> Data]
      /\ \A q \in Queries : heard'[q] = heard[q]
                            \/ (q \in qs /\ Heeds(q) /\ heard'[q] = Newest(event.version, heard[q]))
  BY <1>1 DEF IInv, TypeOK, Receive, Newest, Newer, Data, Affected, Queries, Commits, Kinds
<1>5. UNCHANGED <<version, unsent, stream, shown, mounted, review, visits, faults, reviews>>
  BY DEF Receive, Quiet
<1>6. TypeOK'
  BY <1>2, <1>3, <1>4, <1>5, RestartedType DEF IInv, TypeOK
<1>7. NothingAhead'
  BY <1>1, <1>2, <1>4, <1>5 DEF IInv, NothingAhead, Newest, Heeds
<1>8. LoadsLateEnough'
  BY <1>3, <1>4, <1>5, RestartedType DEF IInv, TypeOK, LoadsLateEnough, Idle, Asked
<1> QED BY <1>6, <1>7, <1>8 DEF IInv

LEMMA SelectionOK == ASSUME IInv, Select \/ ClearSelection PROVE IInv'
<1>1. fetch' \in [Queries -> Fetches] /\ mounted' \subseteq Queries /\ heard' \in [Queries -> Data]
  <2>1. CASE Select
    <3>1. fetch' = fetch \/ fetch' = [fetch EXCEPT !["detail"] = Asked]
      BY <2>1 DEF Select
    <3>2. Asked \in Fetches
      BY DEF Asked, Fetches, Data
    <3> QED BY <2>1, <3>1, <3>2 DEF IInv, TypeOK, Select, Queries
  <2>2. CASE ClearSelection
    BY <2>2 DEF IInv, TypeOK, ClearSelection, Data
  <2> QED BY <2>1, <2>2
<1>2. UNCHANGED <<version, unsent, stream, pipe, shown, stale, review, faults, reviews>>
  BY DEF Select, ClearSelection, Quiet
<1>3. TypeOK'
  BY <1>1, <1>2 DEF IInv, TypeOK, Select, ClearSelection, Quiet
<1>4. NothingAhead'
  BY <1>2 DEF IInv, TypeOK, NothingAhead, Select, ClearSelection
<1>5. LoadsLateEnough'
  <2>1. CASE Select
    <3>1. heard' = heard /\ heard["detail"] = Nothing /\ mounted' = mounted \union {"detail"}
      BY <2>1 DEF IInv, TypeOK, NothingAhead, Select, Queries
    <3>2. \A q \in Queries \ {"detail"} : fetch'[q] = fetch[q]
      BY <2>1 DEF IInv, TypeOK, Select
    <3> QED BY <1>2, <3>1, <3>2 DEF IInv, LoadsLateEnough, AtLeast, Newer, TypeOK
  <2>2. CASE ClearSelection
    BY <2>2 DEF IInv, TypeOK, LoadsLateEnough, ClearSelection
  <2> QED BY <2>1, <2>2
<1> QED BY <1>3, <1>4, <1>5 DEF IInv

\* What is dropped from the cache is not on the screen.
LEMMA ForgetOK == ASSUME IInv, Forget PROVE IInv'
<1>1. /\ shown' \in [Queries -> Data] /\ fetch' \in [Queries -> Fetches] /\ stale' \in BOOLEAN
      /\ \A q \in mounted : shown'[q] = shown[q] /\ fetch'[q] = fetch[q]
  BY DEF IInv, TypeOK, Forget, Fetches, Idle, Data
<1>2. UNCHANGED <<version, unsent, stream, pipe, mounted, review, heard, visits, faults, reviews>>
  BY DEF Forget, Quiet
<1>3. TypeOK' /\ NothingAhead'
  BY <1>1, <1>2 DEF IInv, TypeOK, NothingAhead
<1>4. LoadsLateEnough'
  BY <1>1, <1>2 DEF IInv, LoadsLateEnough
<1> QED BY <1>3, <1>4 DEF IInv

LEMMA AnswerOK ==
    ASSUME IInv, Submit \/ Reply \/ LoseAnswer
    PROVE  IInv'
<1>1. UNCHANGED <<version, unsent, stream, pipe, shown, stale, fetch, mounted, heard>>
  BY DEF Submit, Reply, LoseAnswer
<1>2. review' \in Reviews /\ (review'.got # Nothing => review'.got = version)
  <2>1. CASE Submit
    BY <2>1 DEF IInv, TypeOK, Submit, NoReview, Reviews, Data, Queries
  <2>2. CASE Reply
    BY <2>2 DEF IInv, TypeOK, Reply, Reviews, Data
  <2>3. CASE LoseAnswer
    BY <2>3 DEF LoseAnswer, NoReview, Reviews, Data
  <2> QED BY <2>1, <2>2, <2>3
<1>3. TypeOK'
  BY <1>1, <1>2 DEF IInv, TypeOK, Submit, Reply, LoseAnswer, Quiet, Fault
<1>4. NothingAhead' /\ LoadsLateEnough'
  BY <1>1, <1>2 DEF IInv, TypeOK, NothingAhead, LoadsLateEnough, Versions
<1> QED BY <1>3, <1>4 DEF IInv

LEMMA AcceptedOK == ASSUME IInv, Accepted PROVE IInv'
<1>1. /\ heard' = [heard EXCEPT !["detail"] = Nothing]
      /\ shown' = [shown EXCEPT !["detail"] = review.got]
      /\ fetch' = Restarted({"list"})
  BY DEF Accepted
<1>2. UNCHANGED <<version, unsent, stream, pipe, mounted, visits, faults, reviews>>
      /\ review' = NoReview
  BY DEF Accepted, Quiet
<1>3. TypeOK'
  <2>1. stale' \in BOOLEAN
    BY Zenon DEF Accepted
  <2> QED BY <1>1, <1>2, <2>1, RestartedType DEF IInv, TypeOK, NoReview, Reviews, Data, Queries
<1>4. NothingAhead'
  BY <1>1, <1>2 DEF IInv, TypeOK, NothingAhead, NoReview
<1>5. LoadsLateEnough'
  BY <1>1, <1>2, RestartedType DEF IInv, TypeOK, LoadsLateEnough, AtLeast, Newer, Idle, Asked, Queries
<1> QED BY <1>3, <1>4, <1>5 DEF IInv

LEMMA ConflictOK == ASSUME IInv, Conflict PROVE IInv'
<1>1. fetch' = Restarted({"detail"}) /\ stale' \in BOOLEAN
  BY DEF IInv, TypeOK, Conflict, Invalidate
<1>2. /\ heard' \in [Queries -> Data]
      /\ \A q \in Queries : heard'[q] = heard[q]
             \/ (q \in {"detail"} /\ Heeds(q) /\ heard'[q] = review.got)
  BY DEF IInv, TypeOK, Conflict, Newest, Queries, Data, Reviews
<1>3. UNCHANGED <<version, unsent, stream, pipe, shown, mounted, visits, faults, reviews>>
      /\ review' = NoReview
  BY DEF Conflict, Quiet
<1>4. TypeOK'
  BY <1>1, <1>2, <1>3, RestartedType DEF IInv, TypeOK, NoReview, Reviews, Data, Queries
<1>5. NothingAhead'
  BY <1>2, <1>3 DEF IInv, TypeOK, NothingAhead, NoReview, Heeds
<1>6. LoadsLateEnough'
  BY <1>1, <1>2, <1>3, RestartedType DEF IInv, TypeOK, LoadsLateEnough, Idle, Asked
<1> QED BY <1>4, <1>5, <1>6 DEF IInv

LEMMA NextOK == IInv /\ [Next]_vars => IInv'
<1> SUFFICES ASSUME IInv, [Next]_vars PROVE IInv'
  OBVIOUS
<1>1. CASE UNCHANGED vars
  BY <1>1 DEF vars, IInv, TypeOK, NothingAhead, LoadsLateEnough
<1>2. CASE Next
  BY <1>2, ServerOK, PublishOK, StreamOK, ReadOK, LoadOK, ReceiveOK, SelectionOK, ForgetOK, AnswerOK,
     AcceptedOK, ConflictOK DEF Next
<1> QED BY <1>1, <1>2

\* The inductive invariant behind the theorem below.
THEOREM Invariance == Spec => []IInv
BY InitOK, NextOK, PTL DEF Spec

\* A query on the screen with nothing left to load shows what it was told of,
\* however events, loads and reviews are interleaved; what reached a first load
\* already read (Heeds) apart.
THEOREM SettledIsCurrent == Spec => []SettledShowsWhatItHeard
<1>1. IInv => SettledShowsWhatItHeard
  BY DEF IInv, LoadsLateEnough, SettledShowsWhatItHeard
<1> QED BY <1>1, Invariance, PTL
=============================================================================
