------------------------------ MODULE Realtime ------------------------------
(***************************************************************************)
(* Live updates: services/events.py and api/events.py publish "something    *)
(* changed" to whoever is subscribed, and a browser's query cache            *)
(* (queries/realtime.ts, queries/invoices.ts, app/query-client.ts) fetches   *)
(* the authoritative record again.  One invoice, one browser tab, and        *)
(* everyone else who writes the row.  A record is told apart by its version  *)
(* (updated_at).                                                             *)
(***************************************************************************)
EXTENDS Integers, Sequences

CONSTANTS
    Nothing,    \* no data, no fetch
    MaxWrites,  \* bound: commits to the invoice
    MaxFaults,  \* bound: breaks of the stream, lost publications, loads and review responses
    MaxVisits,  \* bound: times the record is opened again
    MaxReviews  \* bound: reviews sent from this tab

ASSUME BoundsAssumption == {MaxWrites, MaxFaults, MaxVisits, MaxReviews} \subseteq Nat
ASSUME NothingAssumption == Nothing \notin Nat

\* The queries of invoiceKeys.list and invoiceKeys.detail.
Queries == {"list", "detail"}

\* Ways a commit is announced: job.completed, .failed and .requeued, or
\* invoice.status_changed; an admin's status override is not announced.
Kinds == {"job", "status", "silent"}

VARIABLES
    version,   \* the committed version of the invoice
    unsent,    \* commits whose publish_event has yet to run
    stream,    \* the EventSource: "connecting", "open" or "closed"
    pipe,      \* events sent to this subscriber and not yet received
    shown,     \* [Queries -> data in the cache]
    stale,     \* the record was invalidated since its data came (the list is opened once)
    fetch,     \* [Queries -> the fetch under way]
    mounted,   \* queries a component on the screen observes
    review,    \* the review request of this tab
    heard,     \* history: [Queries -> newest version it heeded while mounted]
    visits, faults, reviews

vars == <<version, unsent, stream, pipe, shown, stale, fetch, mounted, review, heard,
          visits, faults, reviews>>

Versions == 1 .. MaxWrites + 1
Data == Versions \union {Nothing}
Commits == [kind : Kinds \ {"silent"}, version : Versions]

\* A fetch waits for the server to read the row, then for the answer.
Idle == [stage |-> "idle", data |-> Nothing]
Asked == [stage |-> "asked", data |-> Nothing]
Failed == [stage |-> "failed", data |-> Nothing]
Fetches == [stage : {"idle", "asked", "read", "failed"}, data : Data]
Running(q) == fetch[q].stage \in {"asked", "read"}

NoReview == [stage |-> "none", expected |-> Nothing, got |-> Nothing]
Reviews == [stage : {"none", "sent", "committed", "accepted", "conflict"},
            expected : Data, got : Data]

Newer(v, w) == v # Nothing /\ (w = Nothing \/ v > w)
AtLeast(v, w) == v = w \/ Newer(v, w)
Newest(v, w) == IF Newer(v, w) THEN v ELSE w

\* The tab opens at /review?invoiceId=..., which shows the list and the record.
Init ==
    /\ version = 1
    /\ unsent = {}
    /\ stream = "connecting"
    /\ pipe = <<>>
    /\ shown = [q \in Queries |-> Nothing]
    /\ stale = FALSE
    /\ fetch = [q \in Queries |-> Asked]
    /\ mounted = Queries
    /\ review = NoReview
    /\ heard = [q \in Queries |-> Nothing]
    /\ visits = 0 /\ faults = 0 /\ reviews = 0

Fault == faults < MaxFaults /\ faults' = faults + 1
Quiet == UNCHANGED <<visits, faults, reviews>>

-----------------------------------------------------------------------------
(* The server *)

\* A commit and the announcement that its handler still owes.
Commit(kind) ==
    /\ version <= MaxWrites
    /\ version' = version + 1
    /\ unsent' = IF kind = "silent" THEN unsent
                 ELSE unsent \union {[kind |-> kind, version |-> version']}

\* Another user, the worker or an admin writes the row.
Write(kind) ==
    /\ Commit(kind)
    /\ UNCHANGED <<stream, pipe, shown, stale, fetch, mounted, review, heard>> /\ Quiet

\* publish_event: Redis hands the event to those subscribed at this moment.
Publish(c) ==
    /\ c \in unsent
    /\ unsent' = unsent \ {c}
    /\ pipe' = IF stream = "open" THEN Append(pipe, c) ELSE pipe
    /\ UNCHANGED <<version, stream, shown, stale, fetch, mounted, review, heard>> /\ Quiet

\* A RedisError is logged and the event is gone.
LosePublication(c) ==
    /\ c \in unsent
    /\ unsent' = unsent \ {c}
    /\ Fault
    /\ UNCHANGED <<version, stream, pipe, shown, stale, fetch, mounted, review, heard,
                   visits, reviews>>

\* GET of the list or the record: get_invoice_detail, list_invoices.
Read(q) ==
    /\ fetch[q].stage = "asked"
    /\ fetch' = [fetch EXCEPT ![q].stage = "read", ![q].data = version]
    /\ UNCHANGED <<version, unsent, stream, pipe, shown, stale, mounted, review, heard>> /\ Quiet

-----------------------------------------------------------------------------
(* The event stream *)

\* stream_events subscribes before it answers, so onopen comes after.
Connect ==
    /\ stream = "connecting"
    /\ stream' = "open"
    /\ UNCHANGED <<version, unsent, pipe, shown, stale, fetch, mounted, review, heard>> /\ Quiet

\* The access cookie has expired: an EventSource refused with 401 stays closed.
Refuse ==
    /\ stream = "connecting"
    /\ stream' = "closed"
    /\ UNCHANGED <<version, unsent, pipe, shown, stale, fetch, mounted, review, heard>> /\ Quiet

\* What was sent and not received is lost; the browser connects again by itself.
Break ==
    /\ stream = "open"
    /\ Fault
    /\ stream' = "connecting"
    /\ pipe' = <<>>
    /\ UNCHANGED <<version, unsent, shown, stale, fetch, mounted, review, heard, visits, reviews>>

-----------------------------------------------------------------------------
(* The query cache *)

\* Seeded fault: a query that is loading is left to finish.
RestartedUnlessRunning(qs) ==
    [q \in Queries |-> IF q \in qs \intersect mounted /\ ~Running(q) THEN Asked ELSE fetch[q]]

\* refetchQueries of the active queries, with cancelRefetch: a load under way is
\* cancelled and asked again if the query has data; a first load is joined.
Restarted(qs) ==
    [q \in Queries |-> IF q \in qs \intersect mounted /\ (shown[q] # Nothing \/ ~Running(q))
                       THEN Asked ELSE fetch[q]]

\* The load that follows an invalidation is yet to be read by the server; the
\* answer of a first load already read is taken as it is.
Heeds(q) == q \in mounted /\ (shown[q] # Nothing \/ fetch[q].stage # "read")

\* queryClient.invalidateQueries
Invalidate(qs) ==
    /\ stale' = (stale \/ "detail" \in qs)
    /\ fetch' = Restarted(qs)

\* The switch on event.type: job events leave the record alone.
Affected(kind) == IF kind = "job" THEN {"list"} ELSE Queries

\* source.onmessage
Receive ==
    /\ pipe # <<>>
    /\ LET event == Head(pipe) IN
          /\ Invalidate(Affected(event.kind))
          /\ heard' = [q \in Queries |->
                          IF Heeds(q) /\ (q = "list" \/ event.kind = "status")
                          THEN Newest(event.version, heard[q]) ELSE heard[q]]
    /\ pipe' = Tail(pipe)
    /\ UNCHANGED <<version, unsent, stream, shown, mounted, review>> /\ Quiet

\* A fetch is answered, which ends an invalidation that joined it as well.
Load(q) ==
    /\ fetch[q].stage = "read"
    /\ shown' = [shown EXCEPT ![q] = fetch[q].data]
    /\ stale' = (stale /\ q # "detail")
    /\ fetch' = [fetch EXCEPT ![q] = Idle]
    /\ UNCHANGED <<version, unsent, stream, pipe, mounted, review, heard>> /\ Quiet

\* A fetch fails: it is tried once more (retry 1), or that has failed too and
\* the query shows its error.
LoadFails(q) ==
    /\ Running(q)
    /\ Fault
    /\ \E outcome \in {Asked, Failed} : fetch' = [fetch EXCEPT ![q] = outcome]
    /\ UNCHANGED <<version, unsent, stream, pipe, shown, stale, mounted, review, heard,
                   visits, reviews>>

\* The invoice is selected again: data younger than staleTime is shown as it is.
Select ==
    /\ "detail" \notin mounted /\ visits < MaxVisits
    /\ visits' = visits + 1
    /\ mounted' = mounted \union {"detail"}
    /\ \E young \in BOOLEAN :
          fetch' = IF Running("detail")
                      \/ (young /\ shown["detail"] # Nothing /\ ~stale)
                   THEN fetch ELSE [fetch EXCEPT !["detail"] = Asked]
    /\ UNCHANGED <<version, unsent, stream, pipe, shown, stale, review, heard, faults,
                   reviews>>

\* Selection cleared: what it was loading goes on loading, and is no longer loaded anew.
ClearSelection ==
    /\ "detail" \in mounted
    /\ mounted' = mounted \ {"detail"}
    /\ heard' = [heard EXCEPT !["detail"] = Nothing]
    /\ UNCHANGED <<version, unsent, stream, pipe, shown, stale, fetch, review>> /\ Quiet

\* gcTime: what nobody observes and nothing is loading is dropped from the cache.
Forget ==
    /\ "detail" \notin mounted /\ shown["detail"] # Nothing /\ ~Running("detail")
    /\ visits < MaxVisits
    /\ shown' = [shown EXCEPT !["detail"] = Nothing]
    /\ fetch' = [fetch EXCEPT !["detail"] = Idle]
    /\ stale' = FALSE
    /\ UNCHANGED <<version, unsent, stream, pipe, mounted, review, heard>> /\ Quiet

-----------------------------------------------------------------------------
(* A review from this tab *)

\* reviewMutation.mutate, with the updated_at on the page
Submit ==
    /\ "detail" \in mounted /\ shown["detail"] # Nothing
    /\ review.stage = "none" /\ reviews < MaxReviews
    /\ reviews' = reviews + 1
    /\ review' = [NoReview EXCEPT !.stage = "sent", !.expected = shown["detail"]]
    /\ UNCHANGED <<version, unsent, stream, pipe, shown, stale, fetch, mounted, heard,
                   visits, faults>>

\* submit_invoice_review: a conflict unless the row has the version on the page;
\* then a commit, or a refusal (transition, corrections, duplicate number), of
\* which onError shows a toast and no more.
Serve ==
    /\ review.stage = "sent"
    /\ \/ /\ review.expected = version
          /\ Commit("status")
          /\ review' = [review EXCEPT !.stage = "committed"]
       \/ /\ review.expected = version
          /\ review' = NoReview
          /\ UNCHANGED <<version, unsent>>
       \/ /\ review.expected # version
          /\ review' = [review EXCEPT !.stage = "conflict", !.got = version]
          /\ UNCHANGED <<version, unsent>>
    /\ UNCHANGED <<stream, pipe, shown, stale, fetch, mounted, heard>> /\ Quiet

\* Its event sent, it answers with get_invoice_detail, read after the commit.
Reply ==
    /\ review.stage = "committed"
    /\ \A c \in unsent : c.version # review.expected + 1
    /\ review' = [review EXCEPT !.stage = "accepted", !.got = version]
    /\ UNCHANGED <<version, unsent, stream, pipe, shown, stale, fetch, mounted, heard>> /\ Quiet

\* onSuccess: setQueryData of the record, which lets a fetch under way go on
\* and may be older than what an event has had loaded since.
Accepted ==
    /\ review.stage = "accepted"
    /\ heard' = [heard EXCEPT !["detail"] = Nothing]
    /\ shown' = [shown EXCEPT !["detail"] = review.got]
    /\ stale' = FALSE
    /\ fetch' = Restarted({"list"})
    /\ review' = NoReview
    /\ UNCHANGED <<version, unsent, stream, pipe, mounted>> /\ Quiet

\* Seeded fault: the conflict shows its toast and nothing else.
ConflictToastOnly ==
    /\ review.stage = "conflict"
    /\ heard' = [heard EXCEPT !["detail"] = IF Heeds("detail") THEN Newest(review.got, @) ELSE @]
    /\ review' = NoReview
    /\ UNCHANGED <<version, unsent, stream, pipe, shown, stale, fetch, mounted>> /\ Quiet

\* onError of a conflict: the record is invalidated.
Conflict ==
    /\ review.stage = "conflict"
    /\ Invalidate({"detail"})
    /\ heard' = [heard EXCEPT !["detail"] = IF Heeds("detail") THEN Newest(review.got, @) ELSE @]
    /\ review' = NoReview
    /\ UNCHANGED <<version, unsent, stream, pipe, shown, mounted>> /\ Quiet

\* The answer is lost; a mutation is never tried again and invalidates nothing.
LoseAnswer ==
    /\ review.stage \in {"accepted", "conflict"}
    /\ Fault
    /\ review' = NoReview
    /\ UNCHANGED <<version, unsent, stream, pipe, shown, stale, fetch, mounted, heard,
                   visits, reviews>>

-----------------------------------------------------------------------------
Next ==
    \/ \E kind \in Kinds : Write(kind)
    \/ \E c \in Commits : Publish(c) \/ LosePublication(c)
    \/ Connect \/ Refuse \/ Break \/ Receive
    \/ \E q \in Queries : Read(q) \/ Load(q) \/ LoadFails(q)
    \/ Select \/ ClearSelection \/ Forget
    \/ Submit \/ Serve \/ Reply \/ Accepted \/ Conflict \/ LoseAnswer

\* The API answers what it was asked and the browser runs its callbacks; no
\* one has to write, to open a page or to break or open the stream.
Fairness ==
    /\ \A c \in Commits : WF_vars(Publish(c))
    /\ \A q \in Queries : WF_vars(Read(q)) /\ WF_vars(Load(q))
    /\ WF_vars(Receive) /\ WF_vars(Serve) /\ WF_vars(Reply)
    /\ WF_vars(Accepted) /\ WF_vars(Conflict)

Spec == Init /\ [][Next]_vars /\ Fairness

-----------------------------------------------------------------------------
(* Properties *)

TypeOK ==
    /\ version \in Versions
    /\ unsent \subseteq Commits
    /\ stream \in {"connecting", "open", "closed"}
    /\ pipe \in Seq(Commits)
    /\ shown \in [Queries -> Data] /\ heard \in [Queries -> Data]
    /\ stale \in BOOLEAN /\ mounted \subseteq Queries
    /\ fetch \in [Queries -> Fetches]
    /\ review \in Reviews
    /\ visits \in 0 .. MaxVisits /\ faults \in 0 .. MaxFaults
    /\ reviews \in 0 .. MaxReviews

\* A query on the screen with nothing left to load shows no version older than
\* one it was told of while it was on the screen, by an event or by the refusal
\* of a review, and whatever later load it was in the middle of: an event that
\* meets data on the screen has it read anew (queries/realtime.ts,
\* queries/invoices.ts).  Two cases are left out, and are not true of the code:
\* what reaches a first load that the server has already read joins that load;
\* and the answer to a review of this tab is put into the cache as it comes.
SettledShowsWhatItHeard ==
    \A q \in mounted : fetch[q] = Idle => AtLeast(shown[q], heard[q])

\* A reader who was told of a version, in a way Heeds counts, is not left behind
\* for good: again and again the page shows it, unless its load has failed.
KeepsUp ==
    \A q \in Queries :
        []<>(q \in mounted => AtLeast(shown[q], heard[q]) \/ fetch[q] = Failed)

=============================================================================
