---------------------------- MODULE RateLimiter ----------------------------
(***************************************************************************)
(* The sliding-window rate limit of backend/app/middleware/rate_limit.py,  *)
(* for one rule and one client address (every key is independent).  Each   *)
(* API replica reads its own clock and sends the Lua script to Redis, which *)
(* runs scripts one at a time; a request that gets no answer from Redis in  *)
(* time is let through.  Times are milliseconds of the real clock.         *)
(***************************************************************************)
EXTENDS Integers, FiniteSets

CONSTANTS
    Requests,   \* requests of one client under one rule
    Replicas,   \* API replicas that receive them
    Limit,      \* settings.*_rate_limit_requests
    Window,     \* settings.*_rate_limit_window_seconds
    Delay,      \* longest wait for Redis: socket_connect_timeout, socket_timeout
    Skew,       \* a replica's clock is at most this far from the real one
    Horizon     \* bound: the model stops the clock here

ASSUME LimitsAssumption ==
    /\ Limit \in Nat /\ Limit > 0
    /\ Window \in Nat /\ Window > 0
    /\ Delay \in Nat
    /\ Skew \in Nat
    /\ Horizon \in Nat

VARIABLES
    now,        \* the real time
    offset,     \* [Replicas -> Int]: what a replica's clock adds to it
    status,     \* [Requests -> Status]
    stamp,      \* [Requests -> Int]: now_ms, the clock read before the call
    askedAt,    \* [Requests -> Nat]: the real time of that reading
    ranAt,      \* [Requests -> Nat]: the real time the script ran
    sent,       \* requests whose script call Redis has yet to run
    log,        \* members of the key's sorted set; the score of q is stamp[q]
    expires,    \* when PEXPIRE drops the key
    refusal     \* [Requests -> what a denied request learnt]

vars == <<now, offset, status, stamp, askedAt, ranAt, sent, log, expires, refusal>>

Status == {"new", "asking", "admitted", "denied", "unchecked"}
Refusals == [until: Int, held: SUBSET Requests]

TypeOK ==
    /\ now \in Nat
    /\ offset \in [Replicas -> -Skew..Skew]
    /\ status \in [Requests -> Status]
    /\ stamp \in [Requests -> Int]
    /\ askedAt \in [Requests -> Nat]
    /\ ranAt \in [Requests -> Nat]
    /\ sent \subseteq Requests
    /\ log \subseteq Requests
    /\ expires \in Nat
    /\ refusal \in [Requests -> Refusals]

Init ==
    /\ now = 0
    /\ offset \in [Replicas -> -Skew..Skew]
    /\ status = [q \in Requests |-> "new"]
    /\ stamp = [q \in Requests |-> 0]
    /\ askedAt = [q \in Requests |-> 0]
    /\ ranAt = [q \in Requests |-> 0]
    /\ sent = {}
    /\ log = {}
    /\ expires = 0
    /\ refusal = [q \in Requests |-> [until |-> 0, held |-> {}]]

-----------------------------------------------------------------------------
(* The Lua script *)

\* Seeded fault: the entry that is exactly a window old stays in the set.
KeptByExclusiveRange(q) == {x \in log : stamp[x] >= stamp[q] - Window}

\* ZREMRANGEBYSCORE key 0 (now - window)
Kept(q) == {x \in log : stamp[x] > stamp[q] - Window}

\* Seeded fault: the comparison lets one request too many in.
UnderLimitOrAt(q) == Cardinality(Kept(q)) <= Limit

UnderLimit(q) == Cardinality(Kept(q)) < Limit

\* The entry with the lowest score left, ZRANGE key 0 0 WITHSCORES.
Oldest(q) == {x \in Kept(q) : \A y \in Kept(q) : stamp[x] <= stamp[y]}

\* Redis answers in time, or the answer is lost and the replica goes on waiting.
Reply(q, answer) ==
    status' \in {status, IF status[q] = "asking" THEN [status EXCEPT ![q] = answer] ELSE status}

Admit(q) ==
    /\ q \in sent
    /\ UnderLimit(q)
    /\ log' = Kept(q) \union {q}
    /\ expires' = now + Window
    /\ ranAt' = [ranAt EXCEPT ![q] = now]
    /\ sent' = sent \ {q}
    /\ Reply(q, "admitted")
    /\ UNCHANGED <<now, offset, stamp, askedAt, refusal>>

\* The retry time is told as an age; refusal keeps it as the moment, on the
\* clock of the replica, before which a further attempt is too early.
Deny(q) ==
    /\ q \in sent
    /\ ~UnderLimit(q)
    /\ log' = Kept(q)
    /\ ranAt' = [ranAt EXCEPT ![q] = now]
    /\ sent' = sent \ {q}
    /\ \E x \in Oldest(q) :
          refusal' = [refusal EXCEPT ![q] = [until |-> stamp[x] + Window, held |-> Kept(q)]]
    /\ Reply(q, "denied")
    /\ UNCHANGED <<now, offset, stamp, askedAt, expires>>

-----------------------------------------------------------------------------
(* The middleware *)

\* _check_rule reads the replica's clock and calls the script.
Check(q, p) ==
    /\ status[q] = "new"
    /\ status' = [status EXCEPT ![q] = "asking"]
    /\ stamp' = [stamp EXCEPT ![q] = now + offset[p]]
    /\ askedAt' = [askedAt EXCEPT ![q] = now]
    /\ sent' = sent \union {q}
    /\ UNCHANGED <<now, offset, ranAt, log, expires, refusal>>

\* RedisError: the call never left, is still on its way, or its answer is lost.
FailOpen(q) ==
    /\ status[q] = "asking"
    /\ status' = [status EXCEPT ![q] = "unchecked"]
    /\ sent' \in {sent, sent \ {q}}
    /\ UNCHANGED <<now, offset, stamp, askedAt, ranAt, log, expires, refusal>>

\* Time passes; nobody waits for Redis beyond the timeouts, and a key whose
\* time to live has ended is gone.
Tick ==
    /\ now < Horizon
    /\ \A q \in Requests : status[q] = "asking" => now < askedAt[q] + Delay
    /\ now' = now + 1
    /\ log' = IF now' >= expires THEN {} ELSE log
    /\ UNCHANGED <<offset, status, stamp, askedAt, ranAt, sent, expires, refusal>>

Next ==
    \/ \E q \in Requests, p \in Replicas : Check(q, p)
    \/ \E q \in Requests : Admit(q) \/ Deny(q) \/ FailOpen(q)
    \/ Tick

Spec == Init /\ [][Next]_vars

-----------------------------------------------------------------------------
(* Properties *)

\* How far two admissions in the same window may be apart in the worst case.
Slack == Delay + 2 * Skew

\* The admissions of the window that ends now, shortened by the slack.
Recent == {q \in Requests : status[q] = "admitted" /\ ranAt[q] > now - (Window - Slack)}

\* rate_limit.py:25 "the limit is enforced consistently across every API
\* replica": however replicas' clocks differ and calls are delayed, scripts run
\* out of the order of their stamps or after their caller gave up, no more than
\* Limit requests are admitted in any period of Window - Slack.
AtMostLimitAdmitted == Cardinality(Recent) <= Limit

\* The Retry-After a denied client gets is long enough: a request stamped at or
\* after that moment is denied only if another one was admitted in between.
RetryAfterSuffices ==
    [][\A q, d \in Requests :
            /\ Deny(q)
            /\ status[d] = "denied"
            /\ stamp[q] >= refusal[d].until
         => ~(log \subseteq refusal[d].held)]_vars
=============================================================================
