------------------------------ MODULE Sessions ------------------------------
(***************************************************************************)
(* Sessions of one browser: api/auth.py (tokens, rotation, revocation in    *)
(* Redis) and the frontend's client of it (services/api-client.ts,           *)
(* queries/auth.ts, app/query-client.ts).  The browser has one cookie jar    *)
(* and several calls in flight; a request carries the cookies of the moment  *)
(* it is sent, and a response sets cookies when it arrives.                  *)
(*                                                                           *)
(* Time is in ticks, several to a second, for the code truncates to seconds. *)
(***************************************************************************)
EXTENDS Integers, Sequences

CONSTANTS
    Queries,      \* API calls the client tries again once after a failure
    Mutations,    \* API calls it never tries again
    SignOuts,     \* presses of the sign-out button
    Second,       \* ticks in a second
    AccessTtl,    \* seconds an access token lives
    RefreshTtl,   \* seconds a refresh token lives
    Skew,         \* ticks a replica's clock may be ahead of Redis's
    Horizon,      \* bound: ticks of a run
    MaxTokens,    \* bound: tokens issued
    MaxFaults     \* bound: Redis errors and lost responses

ASSUME TimesAssumption ==
    /\ Second \in Nat \ {0} /\ AccessTtl \in Nat \ {0} /\ RefreshTtl \in Nat \ {0}
    /\ Skew \in Nat /\ Horizon \in Nat /\ MaxTokens \in Nat /\ MaxFaults \in Nat

Calls == Queries \union Mutations
Actors == Calls \union SignOuts

VARIABLES
    now,       \* the clock of Redis
    tokens,    \* tokens issued, told apart by their place: their jti
    revoked,   \* [jti -> when its key in Redis expires, 0 if never set]
    jar,       \* the browser's cookies
    signedIn,  \* the client holds a session object
    pc,        \* [Actors -> Stage]
    carried,   \* [Actors -> cookies the request under way carries]
    fresh,     \* [Actors -> the cookies its response sets]
    again,     \* queries that were tried again
    tangled,   \* history: two refreshes or logouts, or a login and a call, overlapped
    replayed,  \* history: tokens Redis let pass after their revocation
    wronged,   \* history: calls given up in a session that was good
    faults

vars == <<now, tokens, revoked, jar, signedIn, pc, carried, fresh, again,
          tangled, replayed, wronged, faults>>

NoToken == 0
Jti == 1 .. MaxTokens
NoCookies == [access |-> NoToken, refresh |-> NoToken]
Cookies == [access : 0 .. MaxTokens, refresh : 0 .. MaxTokens]
Stage == {"idle", "sent", "refused", "refreshing", "rotating", "rotated", "denied", "resent",
          "backoff", "leaving", "leaving_too", "left", "done", "signed_out"}

Init ==
    /\ now = 0
    /\ tokens = <<>>
    /\ revoked = [j \in Jti |-> 0]
    /\ jar = NoCookies
    /\ signedIn = FALSE
    /\ pc = [a \in Actors |-> "idle"]
    /\ carried = [a \in Actors |-> NoCookies]
    /\ fresh = [a \in Actors |-> NoCookies]
    /\ again = {}
    /\ tangled = FALSE
    /\ replayed = {}
    /\ wronged = {}
    /\ faults = 0

Goto(a, s) == pc' = [pc EXCEPT ![a] = s]
Fault == faults < MaxFaults /\ faults' = faults + 1

\* Actors between reading cookies to renew or end the session and its answer.
Renewing ==
    {a \in Actors : pc[a] \in {"refreshing", "rotating", "rotated", "denied",
                               "leaving", "leaving_too", "left"}}
UnderWay == {a \in Actors : pc[a] \notin {"idle", "done", "signed_out"}}
Tangle(a) == tangled' = (tangled \/ Renewing \ {a} # {})

\* A revoked token may pass again for this long before it expires: setex takes
\* whole seconds, counted by a clock that may be ahead.
Slack == Second + Skew

-----------------------------------------------------------------------------
(* api/auth.py: tokens *)

\* int(time.time()) + expires_in
Expiry(clock, ttl) == (clock \div Second + ttl) * Second

Pair(clock) == <<[kind |-> "access", exp |-> Expiry(clock, AccessTtl)],
                 [kind |-> "refresh", exp |-> Expiry(clock, RefreshTtl)]>>

CreateTokens(clock) ==
    /\ Len(tokens) + 2 <= MaxTokens
    /\ tokens' = tokens \o Pair(clock)

NewCookies == [access |-> Len(tokens) + 1, refresh |-> Len(tokens) + 2]

\* _decode_hs256_jwt and the check of the type claim
Decoded(j, kind, clock) == j # NoToken /\ tokens[j].kind = kind /\ tokens[j].exp > clock

IsRevoked(j) == revoked[j] > now

\* Seeded fault: the key lives as long as an access token, whichever it revokes.
TtlOfAccess(j, clock) == IF tokens[j].exp > clock THEN AccessTtl ELSE 0

\* int(exp - time.time())
Ttl(j, clock) == (tokens[j].exp - clock) \div Second

\* _revoke: nothing when under a second is left; a Redis error is swallowed.
Revoke(j, clock) ==
    IF j # NoToken /\ Ttl(j, clock) > 0
    THEN \/ revoked' = [revoked EXCEPT ![j] = now + Ttl(j, clock) * Second] /\ UNCHANGED faults
         \/ UNCHANGED revoked /\ Fault
    ELSE UNCHANGED <<revoked, faults>>

\* _is_revoked, which answers no when Redis does not; ok says the token passes.
Passes(j, kind, clock, ok) ==
    \/ /\ ok = (Decoded(j, kind, clock) /\ ~IsRevoked(j))
       /\ replayed' = IF ok /\ revoked[j] # 0 /\ tokens[j].exp - now >= Slack
                      THEN replayed \union {j} ELSE replayed
       /\ UNCHANGED faults
    \/ ok /\ Decoded(j, kind, clock) /\ Fault /\ UNCHANGED replayed

-----------------------------------------------------------------------------
(* Login, and an API call up to its refusal *)

\* The login page is shown to a client without a session.
Login ==
    /\ ~signedIn
    /\ \E d \in 0 .. Skew : CreateTokens(now + d)
    /\ jar' = NewCookies
    /\ signedIn' = TRUE
    /\ tangled' = (tangled \/ UnderWay # {})
    /\ UNCHANGED <<now, revoked, pc, carried, fresh, again, replayed, wronged, faults>>

\* A page that loads starts its queries; a query that failed starts again.
Send(c) ==
    /\ \/ pc[c] = "idle" /\ signedIn /\ UNCHANGED again
       \/ pc[c] = "backoff" /\ again' = again \union {c}
    /\ carried' = [carried EXCEPT ![c] = jar]
    /\ fresh' = [fresh EXCEPT ![c] = NoCookies]
    /\ Goto(c, "sent")
    /\ UNCHANGED <<now, tokens, revoked, jar, signedIn, tangled, replayed, wronged, faults>>

\* The session is good: the refresh token issued last would be rotated.
SessionGood == LET last == Len(tokens) IN
    signedIn /\ last > 0 /\ ~IsRevoked(last) /\ tokens[last].exp - now >= Slack

\* get_current_user; the answer to the repeated call is final, and a call
\* that was answered is forgotten.
Answer(c) ==
    /\ pc[c] \in {"sent", "resent"}
    /\ \E d \in 0 .. Skew, ok \in BOOLEAN :
          /\ Passes(carried[c].access, "access", now + d, ok)
          /\ Goto(c, CASE ok -> "done"
                       [] ~ok /\ pc[c] = "sent" -> "refused"
                       [] ~ok /\ pc[c] = "resent" -> "denied")
          /\ IF ok THEN /\ carried' = [carried EXCEPT ![c] = NoCookies]
                        /\ fresh' = [fresh EXCEPT ![c] = NoCookies]
                        /\ again' = again \ {c}
                   ELSE UNCHANGED <<carried, fresh, again>>
    /\ UNCHANGED <<now, tokens, revoked, jar, signedIn, tangled, wronged>>

-----------------------------------------------------------------------------
(* Silent refresh *)

SendRefresh(c) ==
    /\ pc[c] = "refused"
    /\ carried' = [carried EXCEPT ![c] = jar]
    /\ Goto(c, "refreshing")
    /\ Tangle(c)
    /\ UNCHANGED <<now, tokens, revoked, jar, signedIn, fresh, again, replayed, wronged, faults>>

CheckRefresh(c) ==
    /\ pc[c] = "refreshing"
    /\ \E d \in 0 .. Skew, ok \in BOOLEAN :
          /\ Passes(carried[c].refresh, "refresh", now + d, ok)
          /\ Goto(c, IF ok THEN "rotating" ELSE "denied")
    /\ UNCHANGED <<now, tokens, revoked, jar, signedIn, carried, fresh, again, tangled, wronged>>

\* The presented token is revoked and a new pair issued.
Rotate(c) ==
    /\ pc[c] = "rotating"
    /\ \E d \in 0 .. Skew : Revoke(carried[c].refresh, now + d) /\ CreateTokens(now + d)
    /\ fresh' = [fresh EXCEPT ![c] = NewCookies]
    /\ Goto(c, "rotated")
    /\ UNCHANGED <<now, jar, signedIn, carried, again, tangled, replayed, wronged>>

\* Seeded fault: the response sets the access cookie only.
SetAccessCookie(c) == jar' = [jar EXCEPT !.access = fresh[c].access]

\* _set_auth_cookies
SetCookies(c) == jar' = fresh[c]

\* The response arrives and the call is sent once more.
Resend(c) ==
    /\ pc[c] = "rotated"
    /\ SetCookies(c)
    /\ carried' = [carried EXCEPT ![c] = jar']
    /\ Goto(c, "resent")
    /\ UNCHANGED <<now, tokens, revoked, signedIn, fresh, again, tangled, replayed, wronged, faults>>

\* The response is lost: fetch rejects, which is no SessionExpiredError, and a
\* query starts again once.
LoseRefresh(c) ==
    /\ pc[c] = "rotated"
    /\ Fault
    /\ Goto(c, IF c \in Queries \ again THEN "backoff" ELSE "done")
    /\ UNCHANGED <<now, tokens, revoked, jar, signedIn, carried, fresh, again, tangled,
                   replayed, wronged>>

\* The access token just issued expired before the repeated call was answered.
Outpaced(c) == /\ fresh[c] # NoCookies /\ carried[c] = fresh[c]
               /\ tokens[fresh[c].access].exp <= now + Skew

\* SessionExpiredError: a query waits and starts again once, any other call
\* ends the session (handleGlobalError, useSessionExpiredHandler).
GiveUp(c) ==
    /\ pc[c] = "denied"
    /\ IF c \in Queries \ again
       THEN Goto(c, "backoff") /\ UNCHANGED <<carried, tangled, wronged>>
       ELSE /\ carried' = [carried EXCEPT ![c] = jar]
            /\ Goto(c, "leaving")
            /\ Tangle(c)
            /\ wronged' = IF SessionGood /\ ~Outpaced(c) THEN wronged \union {c} ELSE wronged
    /\ UNCHANGED <<now, tokens, revoked, jar, signedIn, fresh, again, replayed, faults>>

-----------------------------------------------------------------------------
(* Logout *)

PressSignOut(l) ==
    /\ pc[l] = "idle"
    /\ signedIn
    /\ carried' = [carried EXCEPT ![l] = jar]
    /\ Goto(l, "leaving")
    /\ Tangle(l)
    /\ UNCHANGED <<now, tokens, revoked, jar, signedIn, fresh, again, replayed, wronged, faults>>

\* Seeded fault: an access token that has expired ends the loop over the two.
AfterBrokenLoop(a, clock) ==
    IF carried[a].access # NoToken /\ tokens[carried[a].access].exp <= clock
    THEN "left" ELSE "leaving_too"

AfterAccess(a, clock) == "leaving_too"

LogoutAccess(a) ==
    /\ pc[a] = "leaving"
    /\ \E d \in 0 .. Skew :
          Revoke(carried[a].access, now + d) /\ Goto(a, AfterAccess(a, now + d))
    /\ UNCHANGED <<now, tokens, jar, signedIn, carried, fresh, again, tangled, replayed, wronged>>

LogoutRefresh(a) ==
    /\ pc[a] = "leaving_too"
    /\ \E d \in 0 .. Skew : Revoke(carried[a].refresh, now + d)
    /\ Goto(a, "left")
    /\ UNCHANGED <<now, tokens, jar, signedIn, carried, fresh, again, tangled, replayed, wronged>>

\* The response clears the cookies, and the client forgets the session.
SignedOut(a) ==
    /\ pc[a] = "left"
    /\ jar' = NoCookies
    /\ signedIn' = FALSE
    /\ Goto(a, "signed_out")
    /\ UNCHANGED <<now, tokens, revoked, carried, fresh, again, tangled, replayed, wronged, faults>>

\* The call is lost on its way there or back.  The failure is swallowed: the client
\* forgets the session, and the cookies stay.
LoseLogout(a) ==
    /\ pc[a] \in {"leaving", "left"}
    /\ Fault
    /\ signedIn' = FALSE
    /\ Goto(a, "signed_out")
    /\ UNCHANGED <<now, tokens, revoked, jar, carried, fresh, again, tangled, replayed, wronged>>

Tick ==
    /\ now < Horizon
    /\ now' = now + 1
    /\ UNCHANGED <<tokens, revoked, jar, signedIn, pc, carried, fresh, again, tangled,
                   replayed, wronged, faults>>

Next ==
    \/ Login \/ Tick
    \/ \E c \in Calls : \/ Send(c) \/ Answer(c) \/ SendRefresh(c) \/ CheckRefresh(c) \/ Rotate(c)
                        \/ Resend(c) \/ LoseRefresh(c) \/ GiveUp(c)
    \/ \E l \in SignOuts : PressSignOut(l)
    \/ \E a \in Actors : LogoutAccess(a) \/ LogoutRefresh(a) \/ SignedOut(a) \/ LoseLogout(a)

Spec == Init /\ [][Next]_vars

-----------------------------------------------------------------------------
(* Properties *)

TypeOK ==
    /\ now \in 0 .. Horizon
    /\ tokens \in Seq([kind : {"access", "refresh"}, exp : Nat])
    /\ Len(tokens) <= MaxTokens
    /\ revoked \in [Jti -> Nat]
    /\ jar \in Cookies /\ carried \in [Actors -> Cookies] /\ fresh \in [Actors -> Cookies]
    /\ signedIn \in BOOLEAN /\ tangled \in BOOLEAN
    /\ pc \in [Actors -> Stage]
    /\ again \subseteq Queries /\ replayed \subseteq Jti /\ wronged \subseteq Calls
    /\ faults \in 0 .. MaxFaults

\* A token whose revocation reached Redis never passes again while Redis
\* answers, up to Slack before it expires (_revoke truncates its lifetime).
NoReplay == replayed = {}

\* Once a logout has ended, no refresh token issued to this browser and no
\* access token a logout was sent with is good for longer than Slack, unless
\* refreshes or logouts overlapped or a fault struck; an access cookie that has
\* expired is no exception (logout).  Access tokens that an early refresh
\* replaced are not revoked and live out their lifetime.
LogoutEndsSession ==
    LET out == {a \in Actors : pc[a] = "signed_out"} IN
    out # {} /\ ~signedIn /\ ~tangled /\ faults = 0
    => \A j \in 1 .. Len(tokens) :
          \/ tokens[j].kind = "access" /\ \A a \in out : carried[a].access # j
          \/ IsRevoked(j)
          \/ tokens[j].exp - now < Slack

\* A call ends a session that is still good only when refreshes or logouts
\* overlap or a fault strikes (api-client.ts: the silent refresh).
LoneCallsSurvive == wronged # {} => tangled \/ faults > 0

=============================================================================
