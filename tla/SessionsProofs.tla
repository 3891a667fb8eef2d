--------------------------- MODULE SessionsProofs ---------------------------
(***************************************************************************)
(* Proofs about Sessions: a revoked token stays dead, a logout ends the      *)
(* session, and a lone renewal never ends one.  SInv is inductive under      *)
(* every fault; LInv adds what holds while no renewals overlapped and        *)
(* nothing failed.                                                           *)
(***************************************************************************)
EXTENDS Sessions, SequenceTheorems, TLAPS

\* Calls and sign-outs: what a call carries at each stage.
CallsOK ==
    /\ \A a \in Actors : pc[a] = "backoff" => a \in Queries
    /\ \A a \in Actors : pc[a] \in {"sent", "refused", "refreshing", "rotating"} => fresh[a] = NoCookies
    /\ \A a \in Actors : pc[a] \in {"rotated", "resent"} => fresh[a] # NoCookies
    /\ \A a \in Actors : pc[a] = "resent" \/ (pc[a] = "denied" /\ fresh[a] # NoCookies)
                            => carried[a] = fresh[a]
    /\ \A a \in Actors : pc[a] = "rotating" => carried[a].refresh # NoToken

\* A cookie is none, or a token of its kind that was issued.
CookieOK(j, kind) == j # NoToken => j <= Len(tokens) /\ tokens[j].kind = kind
PairOK(c) == /\ CookieOK(c.access, "access") /\ CookieOK(c.refresh, "refresh")
             /\ c.access = NoToken <=> c.refresh = NoToken

CookiesOK ==
    /\ PairOK(jar)
    /\ \A a \in Actors : PairOK(carried[a]) /\ PairOK(fresh[a])

\* A key in Redis lives until the token has less than Slack to live.
RevokedOK ==
    \A j \in Jti : revoked[j] # 0 => j <= Len(tokens) /\ revoked[j] > tokens[j].exp - Slack

SInv == TypeOK /\ CallsOK /\ CookiesOK /\ RevokedOK /\ NoReplay

-----------------------------------------------------------------------------
\* Without overlap and faults.

Alone == ~tangled /\ faults = 0

LastPair == [access |-> Len(tokens) - 1, refresh |-> Len(tokens)]

\* Who has read the cookies to renew or end the session and has yet to set them.
\* A call denied after its renewal has set them already.
Holding(a) ==
    \/ pc[a] \in {"refreshing", "rotating", "rotated", "leaving", "leaving_too", "left"}
    \/ pc[a] = "denied" /\ fresh[a] = NoCookies

Leaving == \E l \in Actors : pc[l] \in {"leaving_too", "left"}

Spent(j) == revoked[j] # 0 \/ tokens[j].exp - now < Slack

OneHolder == \A a, b \in Actors : Holding(a) /\ Holding(b) => a = b

\* The cookies are of the pair issued last, or that pair is on its way.
JarOK ==
    /\ ~signedIn => jar = NoCookies
    /\ signedIn => /\ Len(tokens) >= 2
                   /\ jar = LastPair \/ \E c \in Actors : pc[c] = "rotated"
    /\ \A a \in Actors : pc[a] = "rotated" =>
          signedIn /\ fresh[a] = LastPair /\ revoked[fresh[a].access] = 0
    /\ \A a \in Actors : Holding(a) => carried[a] = jar

\* Refusals have a reason.
DeniedOK ==
    /\ \A a \in Actors : pc[a] = "resent" /\ revoked[carried[a].access] # 0 => ~signedIn \/ Leaving
    /\ \A a \in Actors : pc[a] = "denied" /\ fresh[a] # NoCookies =>
          tokens[fresh[a].access].exp <= now + Skew \/ ~signedIn \/ Leaving
    /\ \A a \in Actors : pc[a] = "denied" /\ fresh[a] = NoCookies =>
          ~signedIn \/ Spent(Len(tokens))

\* What was replaced or signed out is spent.
SpentOK ==
    /\ \A j \in 1..Len(tokens) : tokens[j].kind = "refresh" => Spent(j) \/ (j = Len(tokens) /\ signedIn)
    /\ \A a \in Actors : pc[a] \in {"leaving_too", "left", "signed_out"} /\ carried[a].access # NoToken
                            => Spent(carried[a].access)
    /\ \A a \in Actors : pc[a] = "left" /\ carried[a].refresh # NoToken => Spent(carried[a].refresh)

Orderly == OneHolder /\ JarOK /\ DeniedOK /\ SpentOK /\ wronged = {}

LInv == Alone => Orderly

USE TimesAssumption DEF NoToken

Tokens == [kind : {"access", "refresh"}, exp : Nat]

-----------------------------------------------------------------------------
(* The operators the actions are made of *)

LEMMA WholeSeconds ==
    ASSUME NEW x \in Int
    PROVE  /\ x \div Second \in Int
           /\ (x \div Second) * Second \in Int
           /\ (x \div Second) * Second <= x
           /\ x < (x \div Second) * Second + Second
OBVIOUS

LEMMA Seconds ==
    ASSUME NEW n \in Int
    PROVE  /\ n * Second \in Int
           /\ n > 0 => n * Second > 0
           /\ n <= 0 => n * Second <= 0
OBVIOUS

LEMMA ExpiryIsNat ==
    ASSUME NEW clock \in Nat, NEW ttl \in Nat
    PROVE  Expiry(clock, ttl) \in Nat
<1>1. clock \div Second \in Nat
  OBVIOUS
<1>2. clock \div Second + ttl \in Nat
  BY <1>1
<1> QED BY <1>2 DEF Expiry

\* Tokens are only ever added.
Grown == /\ Len(tokens') >= Len(tokens)
         /\ \A k \in 1 .. Len(tokens) : tokens'[k] = tokens[k]

LEMMA TokenType ==
    ASSUME TypeOK
    PROVE  /\ Len(tokens) \in Nat /\ Len(tokens) <= MaxTokens /\ tokens \in Seq(Tokens)
           /\ \A k \in 1 .. Len(tokens) :
                 k \in Jti /\ tokens[k].kind \in {"access", "refresh"} /\ tokens[k].exp \in Nat
<1>1. tokens \in Seq(Tokens) /\ Len(tokens) <= MaxTokens
  BY DEF TypeOK, Tokens
<1>2. Len(tokens) \in Nat
  BY <1>1
<1>3. ASSUME NEW k \in 1 .. Len(tokens) PROVE tokens[k] \in Tokens /\ k \in Jti
  BY <1>1, <1>2 DEF Jti
<1> QED BY <1>1, <1>2, <1>3 DEF Tokens

LEMMA Numbers ==
    ASSUME TypeOK
    PROVE  /\ now \in Nat /\ faults \in Nat /\ Slack \in Nat
           /\ revoked \in [Jti -> Nat]
           /\ \A d \in 0 .. Skew : d \in Nat /\ d <= Skew /\ now + d \in Nat
<1>1. now \in 0 .. Horizon /\ faults \in 0 .. MaxFaults /\ revoked \in [Jti -> Nat]
  BY DEF TypeOK
<1> QED BY <1>1 DEF Slack

LEMMA CreateOK ==
    ASSUME TypeOK, NEW d \in 0 .. Skew, CreateTokens(now + d)
    PROVE  /\ Grown
           /\ tokens' \in Seq(Tokens) /\ Len(tokens') <= MaxTokens
           /\ Len(tokens') = Len(tokens) + 2
           /\ tokens'[Len(tokens) + 1].kind = "access"
           /\ tokens'[Len(tokens) + 2].kind = "refresh"
           /\ NewCookies \in Cookies /\ NewCookies # NoCookies
           /\ NewCookies.access = Len(tokens) + 1 /\ NewCookies.refresh = Len(tokens) + 2
<1>1. Expiry(now + d, AccessTtl) \in Nat /\ Expiry(now + d, RefreshTtl) \in Nat
  BY ExpiryIsNat, Numbers
<1>2. Pair(now + d) \in Seq(Tokens) /\ Len(Pair(now + d)) = 2
  BY <1>1 DEF Pair, Tokens
<1>3. tokens \in Seq(Tokens) /\ tokens' = tokens \o Pair(now + d) /\ Len(tokens) \in Nat
  BY TokenType DEF CreateTokens
<1>4. tokens' \in Seq(Tokens) /\ Len(tokens') = Len(tokens) + 2
  <2> DEFINE p == Pair(now + d)
  <2>1. p \in Seq(Tokens) /\ Len(p) = 2 /\ tokens \in Seq(Tokens) /\ tokens' = tokens \o p
    BY <1>2, <1>3
  <2> HIDE DEF p
  <2>2. tokens \o p \in Seq(Tokens) /\ Len(tokens \o p) = Len(tokens) + Len(p)
    BY <2>1, ConcatProperties
  <2> QED BY <2>1, <2>2
<1>5. Grown
  BY <1>2, <1>3, <1>4 DEF Grown
<1>6. /\ tokens'[Len(tokens) + 1] = Pair(now + d)[1]
      /\ tokens'[Len(tokens) + 2] = Pair(now + d)[2]
  BY <1>2, <1>3
<1>7. /\ NewCookies \in Cookies /\ NewCookies # NoCookies
      /\ NewCookies.access = Len(tokens) + 1 /\ NewCookies.refresh = Len(tokens) + 2
  BY <1>3 DEF NewCookies, NoCookies, CreateTokens, Cookies
<1> QED BY <1>4, <1>5, <1>6, <1>7 DEF Pair, CreateTokens

\* What a revocation writes outlives the token to within Slack, and without a
\* fault the token is spent.
LEMMA RevokeOK ==
    ASSUME TypeOK, RevokedOK, NEW j \in 0 .. Len(tokens), NEW d \in 0 .. Skew,
           Revoke(j, now + d)
    PROVE  /\ revoked' \in [Jti -> Nat] /\ faults' \in 0 .. MaxFaults /\ faults' >= faults
           /\ \A k \in Jti : revoked[k] # 0 => revoked'[k] # 0
           /\ \A k \in Jti : k # j => revoked'[k] = revoked[k]
           /\ \A k \in Jti : revoked'[k] # 0 =>
                 k <= Len(tokens) /\ revoked'[k] > tokens[k].exp - Slack
           /\ faults' = 0 /\ j # NoToken => revoked'[j] # 0 \/ tokens[j].exp - now < Slack
<1>1. CASE j # NoToken /\ Ttl(j, now + d) > 0
  <2> DEFINE x == tokens[j].exp - (now + d)
  <2>1. x \in Int /\ tokens[j].exp \in Nat /\ j \in Jti /\ now \in Nat /\ d \in Nat /\ d <= Skew
    BY <1>1, TokenType, Numbers
  <2>2. /\ Ttl(j, now + d) = x \div Second
        /\ x < Ttl(j, now + d) * Second + Second
        /\ Ttl(j, now + d) \in Int
    BY <2>1, WholeSeconds DEF Ttl
  <2>3. /\ Ttl(j, now + d) * Second \in Int
        /\ Ttl(j, now + d) * Second > 0
    BY <1>1, <2>2, Seconds
  <2> DEFINE t == Ttl(j, now + d) * Second
  <2>4. now + t \in Nat /\ now + t # 0 /\ now + t > tokens[j].exp - Slack
    <3>1. t \in Int /\ t > 0 /\ x < t + Second
      BY <2>2, <2>3
    <3> HIDE DEF t
    <3> QED BY <2>1, <3>1 DEF Slack
  <2>5. CASE revoked' = [revoked EXCEPT ![j] = now + t] /\ UNCHANGED faults
    <3> HIDE DEF t
    <3>1. /\ revoked' \in [Jti -> Nat] /\ revoked'[j] = now + t
          /\ \A k \in Jti : k # j => revoked'[k] = revoked[k]
      BY <2>1, <2>4, <2>5 DEF TypeOK
    <3>2. faults' \in 0 .. MaxFaults /\ faults' >= faults
      BY <2>5 DEF TypeOK
    <3>3. \A k \in Jti : revoked'[k] # 0 => k <= Len(tokens) /\ revoked'[k] > tokens[k].exp - Slack
      BY <2>4, <3>1, Numbers DEF RevokedOK
    <3> QED BY <2>4, <3>1, <3>2, <3>3
  <2>6. CASE UNCHANGED revoked /\ Fault
    BY <2>6, Numbers DEF RevokedOK, Fault, TypeOK
  <2> QED BY <1>1, <2>5, <2>6 DEF Revoke
<1>2. CASE ~(j # NoToken /\ Ttl(j, now + d) > 0)
  <2>1. UNCHANGED <<revoked, faults>>
    BY <1>2 DEF Revoke
  <2>2. ASSUME j # NoToken PROVE tokens[j].exp - now < Slack
    <3> DEFINE x == tokens[j].exp - (now + d)
    <3>1. x \in Int /\ tokens[j].exp \in Nat /\ now \in Nat /\ d \in Nat /\ d <= Skew
      BY <2>2, TokenType, Numbers
    <3>2. /\ x < Ttl(j, now + d) * Second + Second
          /\ Ttl(j, now + d) \in Int
      BY <3>1, WholeSeconds DEF Ttl
    <3>3. Ttl(j, now + d) * Second \in Int /\ Ttl(j, now + d) * Second <= 0
      BY <1>2, <2>2, <3>2, Seconds
    <3> DEFINE t == Ttl(j, now + d) * Second
    <3>4. t \in Int /\ t <= 0 /\ x < t + Second
      BY <3>2, <3>3
    <3> HIDE DEF t
    <3> QED BY <3>1, <3>4 DEF Slack
  <2> QED BY <2>1, <2>2 DEF TypeOK, RevokedOK
<1> QED BY <1>1, <1>2

\* A token that passed is replayed only if its key died too early; one that was
\* refused without a fault had a reason.
LEMMA PassesOK ==
    ASSUME TypeOK, RevokedOK, NoReplay, NEW j \in 0 .. Len(tokens),
           NEW kind, NEW d \in 0 .. Skew, NEW ok \in BOOLEAN, Passes(j, kind, now + d, ok)
    PROVE  /\ replayed' = {}
           /\ faults' \in 0 .. MaxFaults /\ faults' >= faults
           /\ ok => j # NoToken
           /\ ~ok => \/ j = NoToken \/ tokens[j].kind # kind
                     \/ tokens[j].exp <= now + d \/ IsRevoked(j)
<1>1. ASSUME ok, ok = (Decoded(j, kind, now + d) /\ ~IsRevoked(j))
      PROVE  ~(revoked[j] # 0 /\ tokens[j].exp - now >= Slack)
  <2>0. j # NoToken /\ ~IsRevoked(j)
    BY <1>1, Zenon DEF Decoded
  <2>1. j \in Jti /\ tokens[j].exp \in Nat /\ now \in Nat /\ revoked[j] \in Nat
    BY <2>0, TokenType, Numbers
  <2>2. revoked[j] <= now
    BY <2>0, <2>1 DEF IsRevoked
  <2>3. revoked[j] # 0 => revoked[j] > tokens[j].exp - Slack
    BY <2>1 DEF RevokedOK
  <2> QED BY <2>1, <2>2, <2>3 DEF Slack
<1>2. replayed' = {}
  BY <1>1 DEF Passes, NoReplay
<1>3. faults' \in 0 .. MaxFaults /\ faults' >= faults
  BY DEF Passes, TypeOK, Fault
<1>4. ok => j # NoToken
  BY DEF Passes, Decoded
<1>5. ~ok => \/ j = NoToken \/ tokens[j].kind # kind
             \/ tokens[j].exp <= now + d \/ IsRevoked(j)
  <2>1. j # NoToken => tokens[j].exp \in Nat /\ now \in Nat /\ d \in Nat
    BY TokenType, Numbers
  <2> QED BY <2>1 DEF Passes, Decoded
<1> QED BY <1>2, <1>3, <1>4, <1>5

\* Cookies stay what they were when tokens are added.
LEMMA PairBounds ==
    ASSUME TypeOK, NEW c \in Cookies, PairOK(c)
    PROVE  c.access \in 0 .. Len(tokens) /\ c.refresh \in 0 .. Len(tokens)
<1>1. c.access \in Nat /\ c.refresh \in Nat
  BY DEF Cookies
<1> QED BY <1>1, TokenType DEF PairOK, CookieOK

LEMMA PairKept ==
    ASSUME TypeOK, NEW c \in Cookies, PairOK(c), Grown, Len(tokens') \in Nat
    PROVE  PairOK(c)'
<1>1. ASSUME NEW j \in 0 .. Len(tokens), NEW kind, CookieOK(j, kind)
      PROVE  CookieOK(j, kind)'
  BY <1>1, TokenType DEF CookieOK, Grown
<1>2. CookieOK(c.access, "access")' /\ CookieOK(c.refresh, "refresh")'
  BY <1>1, PairBounds DEF PairOK
<1> QED BY <1>2 DEF PairOK

-----------------------------------------------------------------------------
(* SInv is inductive *)

LEMMA InitS == Init => SInv
<1> SUFFICES ASSUME Init PROVE SInv
  OBVIOUS
<1>1. tokens \in Seq(Tokens) /\ Len(tokens) <= MaxTokens
  BY DEF Init
<1>5. NoCookies \in Cookies
  BY DEF Cookies, NoCookies
<1>6. TypeOK
  <2>1. /\ now \in 0 .. Horizon /\ revoked \in [Jti -> Nat] /\ faults \in 0 .. MaxFaults
        /\ jar \in Cookies /\ carried \in [Actors -> Cookies] /\ fresh \in [Actors -> Cookies]
    BY <1>5 DEF Init
  <2>2. /\ signedIn \in BOOLEAN /\ tangled \in BOOLEAN /\ pc \in [Actors -> Stage]
        /\ again \subseteq Queries /\ replayed \subseteq Jti /\ wronged \subseteq Calls
    BY DEF Init, Stage
  <2> QED BY <1>1, <2>1, <2>2 DEF TypeOK, Tokens
<1>2. CallsOK
  BY DEF Init, CallsOK
<1>3. CookiesOK
  BY DEF Init, CookiesOK, PairOK, CookieOK, NoCookies
<1>4. RevokedOK /\ NoReplay
  BY DEF Init, RevokedOK, NoReplay
<1> QED BY <1>2, <1>3, <1>4, <1>6 DEF SInv

\* Pairs are kept by a step that leaves tokens alone.
LEMMA SamePairs ==
    ASSUME UNCHANGED tokens, NEW c, PairOK(c)
    PROVE  PairOK(c)'
BY DEF PairOK, CookieOK

LEMMA NoPair == PairOK(NoCookies) /\ NoCookies \in Cookies
BY DEF PairOK, CookieOK, NoCookies, Cookies, TimesAssumption

LEMMA LoginS == ASSUME SInv, Login PROVE SInv'
<1>1. PICK d \in 0 .. Skew : CreateTokens(now + d)
  BY DEF Login
<1>2. /\ Grown /\ tokens' \in Seq(Tokens) /\ Len(tokens') <= MaxTokens
      /\ Len(tokens') \in Nat /\ Len(tokens') = Len(tokens) + 2
      /\ NewCookies \in Cookies
  BY <1>1, CreateOK, TokenType DEF SInv
<1>3. TypeOK'
  BY <1>2 DEF SInv, TypeOK, Tokens, Login
<1>4. CallsOK'
  BY DEF SInv, CallsOK, Login
<1>5. PairOK(jar)'
  BY <1>1, <1>2, CreateOK, TokenType DEF SInv, Login, PairOK, CookieOK
<1>6. \A a \in Actors : PairOK(carried[a])' /\ PairOK(fresh[a])'
  BY <1>2, PairKept DEF SInv, CookiesOK, TypeOK, Login
<1>7. RevokedOK' /\ NoReplay'
  BY <1>2, TokenType DEF SInv, RevokedOK, NoReplay, Login, Grown, Jti, Slack
<1> QED BY <1>3, <1>4, <1>5, <1>6, <1>7 DEF SInv, CookiesOK

LEMMA TickS == ASSUME SInv, Tick PROVE SInv'
<1>1. TypeOK'
  BY DEF SInv, TypeOK, Tick
<1>2. CallsOK' /\ CookiesOK'
  BY DEF SInv, CallsOK, CookiesOK, PairOK, CookieOK, Tick
<1>3. RevokedOK' /\ NoReplay'
  BY DEF SInv, RevokedOK, NoReplay, Tick, Slack
<1> QED BY <1>1, <1>2, <1>3 DEF SInv

LEMMA SendS == ASSUME SInv, NEW c \in Calls, Send(c) PROVE SInv'
<1> USE DEF Send, Goto
<1>1. c \in Actors /\ (pc[c] = "backoff" => c \in Queries)
  BY DEF SInv, CallsOK, Actors
<1>2. TypeOK'
  BY <1>1, NoPair DEF SInv, TypeOK, Stage
<1>3. CallsOK'
  BY <1>1, NoPair DEF SInv, TypeOK, CallsOK
<1>4. CookiesOK'
  BY <1>1, NoPair, SamePairs DEF SInv, TypeOK, CookiesOK
<1>5. RevokedOK' /\ NoReplay'
  BY DEF SInv, RevokedOK, NoReplay, Slack
<1> QED BY <1>2, <1>3, <1>4, <1>5 DEF SInv

LEMMA AnswerS == ASSUME SInv, NEW c \in Calls, Answer(c) PROVE SInv'
<1>1. PICK d \in 0 .. Skew, ok \in BOOLEAN :
        /\ Passes(carried[c].access, "access", now + d, ok)
        /\ Goto(c, CASE ok -> "done"
                     [] ~ok /\ pc[c] = "sent" -> "refused"
                     [] ~ok /\ pc[c] = "resent" -> "denied")
        /\ IF ok THEN /\ carried' = [carried EXCEPT ![c] = NoCookies]
                      /\ fresh' = [fresh EXCEPT ![c] = NoCookies]
                      /\ again' = again \ {c}
                 ELSE UNCHANGED <<carried, fresh, again>>
  BY DEF Answer
<1>2. c \in Actors /\ carried[c] \in Cookies /\ PairOK(carried[c])
  BY DEF SInv, TypeOK, CookiesOK, Actors
<1>3. carried[c].access \in 0 .. Len(tokens)
  BY <1>2, PairBounds DEF SInv
<1>4. replayed' = {} /\ faults' \in 0 .. MaxFaults
  BY <1>1, <1>3, PassesOK DEF SInv
<1>5. /\ pc[c] \in {"sent", "resent"}
      /\ UNCHANGED <<now, tokens, revoked, jar, signedIn, tangled, wronged>>
  BY DEF Answer
<1>6. CASE ok
  <2>1. /\ pc' = [pc EXCEPT ![c] = "done"]
        /\ carried' = [carried EXCEPT ![c] = NoCookies]
        /\ fresh' = [fresh EXCEPT ![c] = NoCookies]
        /\ again' = again \ {c}
    BY <1>1, <1>6 DEF Goto
  <2>2. TypeOK'
    BY <1>2, <1>4, <1>5, <2>1, NoPair DEF SInv, TypeOK, Stage
  <2>3. CallsOK'
    BY <1>2, <2>1 DEF SInv, TypeOK, CallsOK
  <2>4. CookiesOK'
    BY <1>2, <1>5, <2>1, NoPair, SamePairs DEF SInv, TypeOK, CookiesOK
  <2>5. RevokedOK' /\ NoReplay'
    BY <1>4, <1>5 DEF SInv, RevokedOK, NoReplay, Slack
  <2> QED BY <2>2, <2>3, <2>4, <2>5 DEF SInv
<1>7. CASE ~ok
  <2>1. PICK s \in {"refused", "denied"} :
          /\ pc' = [pc EXCEPT ![c] = s]
          /\ pc[c] = "sent" => s = "refused"
          /\ pc[c] = "resent" => s = "denied"
    BY <1>1, <1>5, <1>7 DEF Goto
  <2>2. UNCHANGED <<carried, fresh, again>>
    BY <1>1, <1>7
  <2>3. TypeOK'
    BY <1>2, <1>4, <1>5, <2>1, <2>2 DEF SInv, TypeOK, Stage
  <2>4. CallsOK'
    BY <1>2, <1>5, <2>1, <2>2 DEF SInv, TypeOK, CallsOK
  <2>5. CookiesOK'
    BY <1>5, <2>2, SamePairs DEF SInv, TypeOK, CookiesOK
  <2>6. RevokedOK' /\ NoReplay'
    BY <1>4, <1>5 DEF SInv, RevokedOK, NoReplay, Slack
  <2> QED BY <2>3, <2>4, <2>5, <2>6 DEF SInv
<1> QED BY <1>6, <1>7

LEMMA SendRefreshS == ASSUME SInv, NEW c \in Calls, SendRefresh(c) PROVE SInv'
<1> USE DEF SendRefresh, Goto
<1>1. c \in Actors
  BY DEF Actors
<1>2. TypeOK'
  BY <1>1 DEF SInv, TypeOK, Stage, Tangle
<1>3. CallsOK'
  BY <1>1 DEF SInv, TypeOK, CallsOK
<1>4. CookiesOK'
  BY <1>1, SamePairs DEF SInv, TypeOK, CookiesOK
<1>5. RevokedOK' /\ NoReplay'
  BY DEF SInv, RevokedOK, NoReplay, Slack
<1> QED BY <1>2, <1>3, <1>4, <1>5 DEF SInv

LEMMA CheckRefreshS == ASSUME SInv, NEW c \in Calls, CheckRefresh(c) PROVE SInv'
<1>1. PICK d \in 0 .. Skew, ok \in BOOLEAN :
        /\ Passes(carried[c].refresh, "refresh", now + d, ok)
        /\ Goto(c, IF ok THEN "rotating" ELSE "denied")
  BY DEF CheckRefresh
<1>2. c \in Actors /\ carried[c] \in Cookies /\ PairOK(carried[c])
  BY DEF SInv, TypeOK, CookiesOK, Actors
<1>3. carried[c].refresh \in 0 .. Len(tokens)
  BY <1>2, PairBounds DEF SInv
<1>4. replayed' = {} /\ faults' \in 0 .. MaxFaults /\ (ok => carried[c].refresh # NoToken)
  BY <1>1, <1>3, PassesOK DEF SInv
<1>5. /\ pc[c] = "refreshing"
      /\ UNCHANGED <<now, tokens, revoked, jar, signedIn, carried, fresh, again, tangled, wronged>>
  BY DEF CheckRefresh
<1>6. PICK s \in {"rotating", "denied"} :
        /\ pc' = [pc EXCEPT ![c] = s]
        /\ s = "rotating" => carried[c].refresh # NoToken
  BY <1>1, <1>4 DEF Goto
<1>7. TypeOK'
  BY <1>2, <1>4, <1>5, <1>6 DEF SInv, TypeOK, Stage
<1>8. CallsOK'
  BY <1>2, <1>5, <1>6 DEF SInv, TypeOK, CallsOK
<1>9. CookiesOK'
  BY <1>5, SamePairs DEF SInv, TypeOK, CookiesOK
<1>10. RevokedOK' /\ NoReplay'
  BY <1>4, <1>5 DEF SInv, RevokedOK, NoReplay, Slack
<1> QED BY <1>7, <1>8, <1>9, <1>10 DEF SInv

LEMMA RotateS == ASSUME SInv, NEW c \in Calls, Rotate(c) PROVE SInv'
<1>1. PICK d \in 0 .. Skew : Revoke(carried[c].refresh, now + d) /\ CreateTokens(now + d)
  BY DEF Rotate
<1>2. c \in Actors /\ carried[c] \in Cookies /\ PairOK(carried[c])
  BY DEF SInv, TypeOK, CookiesOK, Actors
<1>3. carried[c].refresh \in 0 .. Len(tokens)
  BY <1>2, PairBounds DEF SInv
<1>4. /\ revoked' \in [Jti -> Nat] /\ faults' \in 0 .. MaxFaults
      /\ \A k \in Jti : revoked'[k] # 0 =>
            k <= Len(tokens) /\ revoked'[k] > tokens[k].exp - Slack
  BY <1>1, <1>3, RevokeOK DEF SInv
<1>5. /\ Grown /\ tokens' \in Seq(Tokens) /\ Len(tokens') <= MaxTokens
      /\ Len(tokens') \in Nat /\ Len(tokens') = Len(tokens) + 2
      /\ NewCookies \in Cookies /\ NewCookies # NoCookies
  BY <1>1, CreateOK, TokenType DEF SInv
<1>6. /\ pc' = [pc EXCEPT ![c] = "rotated"] /\ fresh' = [fresh EXCEPT ![c] = NewCookies]
      /\ pc[c] = "rotating"
      /\ UNCHANGED <<now, jar, signedIn, carried, again, tangled, replayed, wronged>>
  BY DEF Rotate, Goto
<1>7. TypeOK'
  BY <1>2, <1>4, <1>5, <1>6 DEF SInv, TypeOK, Tokens, Stage
<1>8. CallsOK'
  BY <1>2, <1>5, <1>6 DEF SInv, TypeOK, CallsOK
<1>9. PairOK(fresh[c])'
  <2>1. fresh'[c] = NewCookies
    BY <1>2, <1>6 DEF SInv, TypeOK
  <2> QED BY <1>1, <1>5, <2>1, CreateOK, TokenType DEF SInv, PairOK, CookieOK
<1>10. PairOK(jar)'
  BY <1>5, <1>6, PairKept DEF SInv, CookiesOK, TypeOK
<1>11. ASSUME NEW a \in Actors PROVE PairOK(carried[a])' /\ PairOK(fresh[a])'
  <2>1. CASE a = c
    BY <1>2, <1>5, <1>6, <1>9, <2>1, PairKept DEF SInv, CookiesOK, TypeOK
  <2>2. CASE a # c
    <3>1. fresh'[a] = fresh[a] /\ carried'[a] = carried[a]
      BY <1>6, <2>2 DEF SInv, TypeOK
    <3>2. /\ fresh[a] \in Cookies /\ carried[a] \in Cookies
          /\ PairOK(fresh[a]) /\ PairOK(carried[a])
      BY DEF SInv, CookiesOK, TypeOK
    <3> QED BY <1>5, <3>1, <3>2, PairKept DEF SInv, PairOK, CookieOK
  <2> QED BY <2>1, <2>2
<1>12. RevokedOK'
  <2> SUFFICES ASSUME NEW k \in Jti, revoked'[k] # 0
               PROVE  k <= Len(tokens') /\ revoked'[k] > tokens'[k].exp - Slack
    BY DEF RevokedOK, Jti, Slack
  <2>1. k \in 1 .. Len(tokens) /\ revoked'[k] > tokens[k].exp - Slack
    BY <1>4, TokenType DEF SInv, Jti
  <2> QED BY <1>5, <2>1, TokenType DEF SInv, Grown
<1>13. NoReplay'
  BY <1>6 DEF SInv, NoReplay
<1> QED BY <1>7, <1>8, <1>10, <1>11, <1>12, <1>13 DEF SInv, CookiesOK

LEMMA ResendS == ASSUME SInv, NEW c \in Calls, Resend(c) PROVE SInv'
<1> USE DEF Resend, SetCookies, Goto
<1>1. c \in Actors
  BY DEF Actors
<1>2. TypeOK'
  BY <1>1 DEF SInv, TypeOK, Stage
<1>3. CallsOK'
  BY <1>1 DEF SInv, TypeOK, CallsOK
<1>4. CookiesOK'
  BY <1>1, SamePairs DEF SInv, TypeOK, CookiesOK
<1>5. RevokedOK' /\ NoReplay'
  BY DEF SInv, RevokedOK, NoReplay, Slack
<1> QED BY <1>2, <1>3, <1>4, <1>5 DEF SInv

LEMMA LoseRefreshS == ASSUME SInv, NEW c \in Calls, LoseRefresh(c) PROVE SInv'
<1> USE DEF LoseRefresh, Goto
<1>1. c \in Actors
  BY DEF Actors
<1>2. TypeOK'
  BY <1>1 DEF SInv, TypeOK, Stage, Fault
<1>3. CallsOK'
  BY <1>1 DEF SInv, TypeOK, CallsOK
<1>4. CookiesOK'
  BY <1>1, SamePairs DEF SInv, TypeOK, CookiesOK
<1>5. RevokedOK' /\ NoReplay'
  BY DEF SInv, RevokedOK, NoReplay, Slack
<1> QED BY <1>2, <1>3, <1>4, <1>5 DEF SInv

LEMMA GiveUpS == ASSUME SInv, NEW c \in Calls, GiveUp(c) PROVE SInv'
<1>1. c \in Actors /\ pc[c] = "denied"
  BY DEF Actors, GiveUp
<1>2. UNCHANGED <<now, tokens, revoked, jar, signedIn, fresh, again, replayed, faults>>
  BY DEF GiveUp
<1>3. CASE c \in Queries \ again
  <2>1. pc' = [pc EXCEPT ![c] = "backoff"] /\ UNCHANGED <<carried, tangled, wronged>>
    BY <1>3 DEF GiveUp, Goto
  <2>2. TypeOK'
    BY <1>1, <1>2, <2>1 DEF SInv, TypeOK, Stage
  <2>3. CallsOK'
    BY <1>1, <1>2, <1>3, <2>1 DEF SInv, TypeOK, CallsOK
  <2>4. CookiesOK'
    BY <1>2, <2>1, SamePairs DEF SInv, TypeOK, CookiesOK
  <2>5. RevokedOK' /\ NoReplay'
    BY <1>2 DEF SInv, RevokedOK, NoReplay, Slack
  <2> QED BY <2>2, <2>3, <2>4, <2>5 DEF SInv
<1>4. CASE c \notin Queries \ again
  <2>1. /\ pc' = [pc EXCEPT ![c] = "leaving"] /\ carried' = [carried EXCEPT ![c] = jar]
        /\ Tangle(c)
        /\ wronged' = IF SessionGood /\ ~Outpaced(c) THEN wronged \union {c} ELSE wronged
    BY <1>4 DEF GiveUp, Goto
  <2>2. TypeOK'
    BY <1>1, <1>2, <2>1 DEF SInv, TypeOK, Stage, Tangle
  <2>3. CallsOK'
    BY <1>1, <1>2, <2>1 DEF SInv, TypeOK, CallsOK
  <2>4. CookiesOK'
    BY <1>1, <1>2, <2>1, SamePairs DEF SInv, TypeOK, CookiesOK
  <2>5. RevokedOK' /\ NoReplay'
    BY <1>2 DEF SInv, RevokedOK, NoReplay, Slack
  <2> QED BY <2>2, <2>3, <2>4, <2>5 DEF SInv
<1> QED BY <1>3, <1>4

LEMMA PressSignOutS == ASSUME SInv, NEW l \in SignOuts, PressSignOut(l) PROVE SInv'
<1> USE DEF PressSignOut, Goto
<1>1. l \in Actors
  BY DEF Actors
<1>2. TypeOK'
  BY <1>1 DEF SInv, TypeOK, Stage, Tangle
<1>3. CallsOK'
  BY <1>1 DEF SInv, TypeOK, CallsOK
<1>4. CookiesOK'
  BY <1>1, SamePairs DEF SInv, TypeOK, CookiesOK
<1>5. RevokedOK' /\ NoReplay'
  BY DEF SInv, RevokedOK, NoReplay, Slack
<1> QED BY <1>2, <1>3, <1>4, <1>5 DEF SInv

\* Both steps of a logout revoke one of the two tokens it carries.
LEMMA LogoutStepS ==
    ASSUME SInv, NEW a \in Actors, NEW j \in {carried[a].access, carried[a].refresh},
           NEW d \in 0 .. Skew, Revoke(j, now + d), NEW s \in {"leaving_too", "left"},
           pc' = [pc EXCEPT ![a] = s],
           UNCHANGED <<now, tokens, jar, signedIn, carried, fresh, again, tangled, replayed, wronged>>
    PROVE  SInv'
<1>1. j \in 0 .. Len(tokens)
  BY PairBounds DEF SInv, TypeOK, CookiesOK
<1>2. /\ revoked' \in [Jti -> Nat] /\ faults' \in 0 .. MaxFaults
      /\ \A k \in Jti : revoked'[k] # 0 =>
            k <= Len(tokens) /\ revoked'[k] > tokens[k].exp - Slack
  BY <1>1, RevokeOK DEF SInv
<1>3. TypeOK'
  BY <1>2 DEF SInv, TypeOK, Stage
<1>4. CallsOK'
  BY DEF SInv, TypeOK, CallsOK
<1>5. CookiesOK'
  BY SamePairs DEF SInv, CookiesOK
<1>6. RevokedOK' /\ NoReplay'
  BY <1>2 DEF SInv, RevokedOK, NoReplay, Slack
<1> QED BY <1>3, <1>4, <1>5, <1>6 DEF SInv

LEMMA LogoutAccessS == ASSUME SInv, NEW a \in Actors, LogoutAccess(a) PROVE SInv'
BY LogoutStepS DEF LogoutAccess, AfterAccess, Goto

LEMMA LogoutRefreshS == ASSUME SInv, NEW a \in Actors, LogoutRefresh(a) PROVE SInv'
BY LogoutStepS DEF LogoutRefresh, Goto

LEMMA SignedOutS == ASSUME SInv, NEW a \in Actors, SignedOut(a) PROVE SInv'
<1> USE DEF SignedOut, Goto
<1>1. TypeOK'
  BY NoPair DEF SInv, TypeOK, Stage
<1>2. CallsOK'
  BY DEF SInv, TypeOK, CallsOK
<1>3. CookiesOK'
  BY NoPair, SamePairs DEF SInv, TypeOK, CookiesOK
<1>4. RevokedOK' /\ NoReplay'
  BY DEF SInv, RevokedOK, NoReplay, Slack
<1> QED BY <1>1, <1>2, <1>3, <1>4 DEF SInv

LEMMA LoseLogoutS == ASSUME SInv, NEW a \in Actors, LoseLogout(a) PROVE SInv'
<1> USE DEF LoseLogout, Goto
<1>1. TypeOK'
  <2>1. pc' \in [Actors -> Stage]
    BY DEF SInv, TypeOK, Stage
  <2>2. signedIn' \in BOOLEAN /\ faults' \in 0 .. MaxFaults
    <3>1. faults \in 0 .. MaxFaults /\ faults < MaxFaults /\ faults' = faults + 1
      BY DEF SInv, TypeOK, Fault
    <3>2. faults' \in 0 .. MaxFaults
      BY <3>1
    <3>3. signedIn' = FALSE
      OBVIOUS
    <3> QED BY <3>2, <3>3
  <2>3. UNCHANGED <<now, tokens, revoked, jar, carried, fresh, again, tangled, replayed, wronged>>
    OBVIOUS
  <2> QED BY <2>1, <2>2, <2>3 DEF SInv, TypeOK
<1>2. CallsOK'
  BY DEF SInv, TypeOK, CallsOK
<1>3. CookiesOK'
  BY SamePairs DEF SInv, TypeOK, CookiesOK
<1>4. RevokedOK' /\ NoReplay'
  BY DEF SInv, RevokedOK, NoReplay, Slack
<1> QED BY <1>1, <1>2, <1>3, <1>4 DEF SInv

LEMMA StutterS == ASSUME SInv, UNCHANGED vars PROVE SInv'
BY DEF vars, SInv, TypeOK, CallsOK, CookiesOK, PairOK, CookieOK, RevokedOK, NoReplay

LEMMA StepS == SInv /\ [Next]_vars => SInv'
BY LoginS, TickS, SendS, AnswerS, SendRefreshS, CheckRefreshS, RotateS, ResendS, LoseRefreshS,
   GiveUpS, PressSignOutS, LogoutAccessS, LogoutRefreshS, SignedOutS, LoseLogoutS,
   StutterS
   DEF Next

\* The inductive invariant holds in every state, whatever failed or overlapped.
THEOREM SessionsInvariance == Spec => []SInv
BY InitS, StepS, PTL DEF Spec

\* A token whose revocation reached Redis never passes again while Redis answers,
\* up to Slack before it expires: _revoke's key outlives the token (auth.py).
THEOREM RevokedStayDead == Spec => []NoReplay
<1>1. SInv => NoReplay
  BY DEF SInv
<1> QED BY <1>1, SessionsInvariance, PTL

-----------------------------------------------------------------------------
(* LInv is inductive on top of SInv *)

LEMMA InitL == Init => LInv
<1> SUFFICES ASSUME Init PROVE Orderly
  BY DEF LInv
<1>1. OneHolder /\ JarOK /\ DeniedOK
  BY DEF Init, OneHolder, Holding, JarOK, DeniedOK
<1>2. SpentOK /\ wronged = {}
  BY DEF Init, SpentOK
<1> QED BY <1>1, <1>2 DEF Orderly

\* Overlaps and faults are never forgotten.
LEMMA AloneBefore == ASSUME SInv, Next, Alone' PROVE Alone
<1> USE DEF Alone, Fault
<1>0. faults \in Nat /\ tangled \in BOOLEAN
  BY Numbers DEF SInv, TypeOK
<1>1. CASE Login \/ Tick
  BY <1>0, <1>1 DEF Login, Tick
<1>2. ASSUME NEW c \in Calls,
             Send(c) \/ Answer(c) \/ SendRefresh(c) \/ CheckRefresh(c) \/ Rotate(c)
             \/ Resend(c) \/ LoseRefresh(c) \/ GiveUp(c)
      PROVE Alone
  <2>1. CASE Send(c) \/ SendRefresh(c) \/ Resend(c) \/ LoseRefresh(c) \/ GiveUp(c)
    BY <1>0, <2>1 DEF Send, SendRefresh, Resend, LoseRefresh, GiveUp, Tangle
  <2>2. CASE Answer(c) \/ CheckRefresh(c) \/ Rotate(c)
    BY <1>0, <2>2 DEF Answer, CheckRefresh, Rotate, Passes, Revoke
  <2> QED BY <1>2, <2>1, <2>2
<1>3. ASSUME NEW l \in SignOuts, PressSignOut(l) PROVE Alone
  BY <1>0, <1>3 DEF PressSignOut, Tangle
<1>4. ASSUME NEW a \in Actors,
             LogoutAccess(a) \/ LogoutRefresh(a) \/ SignedOut(a) \/ LoseLogout(a)
      PROVE Alone
  BY <1>0, <1>4 DEF LogoutAccess, LogoutRefresh, SignedOut, LoseLogout, Revoke
<1> QED BY <1>1, <1>2, <1>3, <1>4 DEF Next

LEMMA SpentKept ==
    ASSUME SInv, Grown, now' \in Nat, now' >= now,
           \A k \in Jti : revoked[k] # 0 => revoked'[k] # 0,
           NEW j \in 1 .. Len(tokens), Spent(j)
    PROVE  Spent(j)'
<1>1. j \in Jti /\ tokens'[j] = tokens[j] /\ tokens[j].exp \in Nat /\ now \in Nat /\ Slack \in Nat
  BY TokenType, Numbers DEF SInv, Grown
<1> QED BY <1>1 DEF Spent, Slack

\* A pair of cookies that is not empty names two tokens that were issued.
LEMMA PairNames ==
    ASSUME SInv, NEW c \in Cookies, PairOK(c)
    PROVE  /\ c.access # NoToken => /\ c.access \in 1 .. Len(tokens) /\ c.access \in Jti
                                    /\ tokens[c.access].kind = "access"
           /\ c.refresh # NoToken => /\ c.refresh \in 1 .. Len(tokens) /\ c.refresh \in Jti
                                     /\ tokens[c.refresh].kind = "refresh"
           /\ c # NoCookies => c.access # NoToken /\ c.refresh # NoToken
<1>1. c.access \in 0 .. Len(tokens) /\ c.refresh \in 0 .. Len(tokens)
  BY PairBounds DEF SInv
<1>2. c.access = NoToken /\ c.refresh = NoToken => c = NoCookies
  BY DEF Cookies, NoCookies
<1> QED BY <1>1, <1>2, TokenType DEF SInv, PairOK, CookieOK

\* Whoever alone reads the cookies to renew or end the session finds nobody
\* else holding them, and nobody on the way out.
LEMMA NoTangle ==
    ASSUME NEW a \in Actors, Tangle(a), Alone'
    PROVE  \A b \in Actors : b # a => ~Holding(b) /\ pc[b] \notin {"leaving_too", "left", "rotated"}
<1>1. Renewing \ {a} = {}
  BY DEF Tangle, Alone
<1>2. ASSUME NEW b \in Actors, b # a PROVE b \notin Renewing
  BY <1>1, <1>2
<1> QED BY <1>2 DEF Renewing, Holding

\* A holder in a session, before it has a new pair, holds the last.
LEMMA HolderHasLast ==
    ASSUME SInv, Orderly, NEW a \in Actors, Holding(a), pc[a] # "rotated", signedIn
    PROVE  /\ carried[a] = jar /\ jar = LastPair /\ Len(tokens) >= 2
           /\ carried[a].access = Len(tokens) - 1 /\ carried[a].refresh = Len(tokens)
           /\ tokens[Len(tokens)].kind = "refresh"
<1>1. ~ \E c \in Actors : pc[c] = "rotated"
  BY DEF Orderly, OneHolder, Holding
<1>2. carried[a] = jar /\ jar = LastPair /\ Len(tokens) >= 2
  BY <1>1 DEF Orderly, JarOK
<1>3. carried[a].access = Len(tokens) - 1 /\ carried[a].refresh = Len(tokens)
  BY <1>2 DEF LastPair
<1>4. PairOK(jar) /\ jar \in Cookies
  BY DEF SInv, CookiesOK, TypeOK
<1>5. tokens[Len(tokens)].kind = "refresh"
  BY <1>2, <1>3, <1>4, TokenType DEF SInv, PairOK, CookieOK
<1> QED BY <1>2, <1>3, <1>5

LEMMA LoginL == ASSUME SInv, Orderly, Login, Alone, Alone' PROVE Orderly'
<1>1. PICK d \in 0 .. Skew : CreateTokens(now + d)
  BY DEF Login
<1>2. /\ Grown /\ Len(tokens) \in Nat /\ Len(tokens') = Len(tokens) + 2
      /\ tokens'[Len(tokens) + 1].kind = "access"
      /\ NewCookies = [access |-> Len(tokens) + 1, refresh |-> Len(tokens) + 2]
  BY <1>1, CreateOK, TokenType DEF SInv, NewCookies
<1>3. \A a \in Actors : pc[a] \in {"idle", "done", "signed_out"} /\ pc'[a] = pc[a]
  BY DEF Login, Alone, UnderWay
<1>4. OneHolder' /\ DeniedOK'
  BY <1>3 DEF OneHolder, Holding, DeniedOK
<1>5. jar' = LastPair' /\ signedIn'
  BY <1>2 DEF Login, LastPair
<1>6. JarOK'
  BY <1>2, <1>3, <1>5 DEF JarOK, Holding
<1>7. ASSUME NEW j \in 1 .. Len(tokens), Spent(j) PROVE Spent(j)'
  BY <1>2, <1>7, SpentKept, Numbers DEF SInv, Login
<1>8. ASSUME NEW j \in 1 .. Len(tokens'), tokens'[j].kind = "refresh"
      PROVE  Spent(j)' \/ (j = Len(tokens') /\ signedIn')
  <2>1. CASE j \in 1 .. Len(tokens)
    BY <1>2, <1>7, <1>8, <2>1 DEF Orderly, SpentOK, Grown, Login
  <2>2. CASE j \notin 1 .. Len(tokens)
    BY <1>2, <1>5, <1>8, <2>2
  <2> QED BY <2>1, <2>2
<1>9. ASSUME NEW a \in Actors, pc[a] = "signed_out", carried[a].access # NoToken
      PROVE  Spent(carried[a].access)'
  <2>1. carried[a].access \in 1 .. Len(tokens) /\ Spent(carried[a].access)
    BY <1>9, PairNames DEF SInv, CookiesOK, TypeOK, Orderly, SpentOK
  <2> QED BY <1>7, <2>1 DEF Spent, Login
<1>10. SpentOK'
  BY <1>3, <1>8, <1>9 DEF SpentOK, Login
<1> QED BY <1>4, <1>6, <1>10 DEF Orderly, Login

\* What a step must keep of SpentOK when it issues no token and ends no session.
LEMMA SpentStep ==
    ASSUME SInv, Orderly, UNCHANGED <<tokens, signedIn>>, now' \in Nat, now' >= now,
           \A k \in Jti : revoked[k] # 0 => revoked'[k] # 0,
           \A a \in Actors :
              /\ pc'[a] \in {"leaving_too", "left", "signed_out"} =>
                    pc[a] \in {"leaving_too", "left", "signed_out"} /\ carried'[a] = carried[a]
              /\ pc'[a] = "left" => pc[a] = "left"
    PROVE  SpentOK'
<1>1. Grown
  BY TokenType DEF SInv, Grown
<1>2. ASSUME NEW j \in 1 .. Len(tokens), Spent(j) PROVE Spent(j)'
  BY <1>1, <1>2, SpentKept
<1>3. \A j \in 1 .. Len(tokens) : tokens[j].kind = "refresh" =>
         Spent(j)' \/ (j = Len(tokens) /\ signedIn)
  BY <1>2 DEF Orderly, SpentOK
<1>4. ASSUME NEW a \in Actors
      PROVE  /\ carried[a].access # NoToken => carried[a].access \in 1 .. Len(tokens)
             /\ carried[a].refresh # NoToken => carried[a].refresh \in 1 .. Len(tokens)
  BY PairNames DEF SInv, CookiesOK, TypeOK
<1>5. ASSUME NEW a \in Actors, pc'[a] \in {"leaving_too", "left", "signed_out"},
             carried'[a].access # NoToken
      PROVE  Spent(carried[a].access)'
  <2>1. carried'[a] = carried[a] /\ pc[a] \in {"leaving_too", "left", "signed_out"}
    BY <1>5
  <2>2. Spent(carried[a].access) /\ carried[a].access \in 1 .. Len(tokens)
    BY <1>4, <1>5, <2>1 DEF Orderly, SpentOK
  <2> DEFINE j == carried[a].access
  <2>3. j' = j
    BY <2>1
  <2> QED BY <1>2, <2>2, <2>3 DEF Spent
<1>6. ASSUME NEW a \in Actors, pc'[a] = "left", carried'[a].refresh # NoToken
      PROVE  Spent(carried[a].refresh)'
  <2>1. carried'[a] = carried[a] /\ pc[a] = "left"
    BY <1>6
  <2>2. Spent(carried[a].refresh) /\ carried[a].refresh \in 1 .. Len(tokens)
    BY <1>4, <1>6, <2>1 DEF Orderly, SpentOK
  <2> QED BY <1>2, <2>1, <2>2 DEF Spent
<1> QED BY <1>3, <1>5, <1>6 DEF SpentOK

LEMMA TickL == ASSUME SInv, Orderly, Tick, Alone, Alone' PROVE Orderly'
<1>1. now \in Nat /\ now' = now + 1
  BY Numbers DEF SInv, Tick
<1>2. OneHolder' /\ JarOK'
  BY DEF Orderly, OneHolder, Holding, JarOK, LastPair, Tick
<1>3. SpentOK'
  BY <1>1, SpentStep DEF Tick
<1>4. \A a \in Actors : pc[a] = "resent" /\ revoked[carried[a].access] # 0 => ~signedIn \/ Leaving'
  BY DEF Orderly, DeniedOK, Tick, Leaving
<1>5. ASSUME NEW a \in Actors, pc[a] = "denied", fresh[a] # NoCookies
      PROVE  tokens[fresh[a].access].exp <= now' + Skew \/ ~signedIn \/ Leaving'
  <2>1. tokens[fresh[a].access].exp <= now + Skew \/ ~signedIn \/ Leaving
    BY <1>5 DEF Orderly, DeniedOK
  <2>2. tokens[fresh[a].access].exp \in Nat
    BY <1>5, PairNames, TokenType DEF SInv, CookiesOK, TypeOK
  <2> QED BY <1>1, <2>1, <2>2 DEF Leaving, Tick
<1>6. ASSUME NEW a \in Actors, pc[a] = "denied", fresh[a] = NoCookies, signedIn
      PROVE  Spent(Len(tokens))'
  <2>1. Spent(Len(tokens)) /\ Len(tokens) \in 1 .. Len(tokens)
    BY <1>6, TokenType DEF SInv, Orderly, DeniedOK, JarOK
  <2>2. Grown
    BY TokenType DEF SInv, Grown, Tick
  <2> QED BY <1>1, <2>1, <2>2, SpentKept DEF Tick, Spent
<1>7. DeniedOK'
  BY <1>4, <1>5, <1>6 DEF DeniedOK, Tick
<1> QED BY <1>2, <1>3, <1>7 DEF Orderly, Tick

\* Steps of a call that no holder takes part in.
LEMMA SendL == ASSUME SInv, Orderly, NEW c \in Calls, Send(c), Alone, Alone' PROVE Orderly'
<1> USE DEF Send, Goto
<1>1. /\ c \in Actors /\ pc[c] \in {"idle", "backoff"}
      /\ pc' = [pc EXCEPT ![c] = "sent"] /\ carried' = [carried EXCEPT ![c] = jar]
      /\ fresh' = [fresh EXCEPT ![c] = NoCookies]
      /\ UNCHANGED <<now, tokens, revoked, jar, signedIn, wronged>>
  BY DEF Actors
<1> HIDE DEF Send, Goto
<1>2. /\ pc \in [Actors -> Stage] /\ carried \in [Actors -> Cookies] /\ fresh \in [Actors -> Cookies]
      /\ now \in Nat
  BY Numbers DEF SInv, TypeOK
<1>3. \A a \in Actors : a # c => pc'[a] = pc[a] /\ carried'[a] = carried[a] /\ fresh'[a] = fresh[a]
  BY <1>1, <1>2
<1>4. pc'[c] = "sent" /\ ~Holding(c) /\ ~Holding(c)'
  BY <1>1, <1>2 DEF Holding
<1>5. \A a \in Actors : Holding(a)' <=> Holding(a)
  BY <1>3, <1>4 DEF Holding
<1>6. OneHolder'
  BY <1>5 DEF Orderly, OneHolder
<1>7. JarOK'
  BY <1>1, <1>3, <1>4, <1>5 DEF Orderly, JarOK, LastPair
<1>8. Leaving' <=> Leaving
  BY <1>1, <1>3, <1>4 DEF Leaving
<1>9. DeniedOK'
  BY <1>1, <1>3, <1>4, <1>8 DEF Orderly, DeniedOK, Spent, Slack
<1>10. SpentOK'
  BY <1>1, <1>2, <1>3, <1>4, SpentStep
<1> QED BY <1>1, <1>6, <1>7, <1>9, <1>10 DEF Orderly

LEMMA AnswerL == ASSUME SInv, Orderly, NEW c \in Calls, Answer(c), Alone, Alone' PROVE Orderly'
<1>1. PICK d \in 0 .. Skew, ok \in BOOLEAN :
        /\ Passes(carried[c].access, "access", now + d, ok)
        /\ Goto(c, CASE ok -> "done"
                     [] ~ok /\ pc[c] = "sent" -> "refused"
                     [] ~ok /\ pc[c] = "resent" -> "denied")
        /\ IF ok THEN /\ carried' = [carried EXCEPT ![c] = NoCookies]
                      /\ fresh' = [fresh EXCEPT ![c] = NoCookies]
                      /\ again' = again \ {c}
                 ELSE UNCHANGED <<carried, fresh, again>>
  BY DEF Answer
<1>2. /\ c \in Actors /\ pc[c] \in {"sent", "resent"}
      /\ UNCHANGED <<now, tokens, revoked, jar, signedIn, wronged>>
  BY DEF Answer, Actors
<1>3. PICK s \in {"done", "refused", "denied"} :
        /\ pc' = [pc EXCEPT ![c] = s]
        /\ s = "denied" => pc[c] = "resent" /\ ~ok /\ UNCHANGED <<carried, fresh>>
  BY <1>1, <1>2 DEF Goto
<1>4. /\ pc \in [Actors -> Stage] /\ carried \in [Actors -> Cookies] /\ fresh \in [Actors -> Cookies]
      /\ now \in Nat
  BY Numbers DEF SInv, TypeOK
<1>5. \A a \in Actors : a # c => pc'[a] = pc[a] /\ carried'[a] = carried[a] /\ fresh'[a] = fresh[a]
  BY <1>1, <1>3, <1>4
<1>6. pc'[c] = s
  BY <1>2, <1>3, <1>4
<1>7. ASSUME s = "denied"
      PROVE  /\ carried[c] = fresh[c] /\ fresh[c] # NoCookies /\ fresh'[c] = fresh[c]
             /\ tokens[fresh[c].access].exp <= now + Skew \/ ~signedIn \/ Leaving
  <2>1. /\ carried[c] = fresh[c] /\ fresh[c] # NoCookies /\ fresh'[c] = fresh[c]
        /\ pc[c] = "resent" /\ ~ok
    BY <1>2, <1>3, <1>7 DEF SInv, CallsOK
  <2> DEFINE j == carried[c].access
  <2>2. j # NoToken /\ j \in 1 .. Len(tokens) /\ j \in Jti /\ tokens[j].kind = "access"
    BY <1>2, <1>4, <2>1, PairNames DEF SInv, CookiesOK
  <2>3. tokens[j].exp <= now + d \/ IsRevoked(j)
    <3>1. j \in 0 .. Len(tokens)
      BY <2>2
    <3> HIDE DEF j
    <3>2. \/ j = NoToken \/ tokens[j].kind # "access"
          \/ tokens[j].exp <= now + d \/ IsRevoked(j)
      BY <1>1, <2>1, <3>1, PassesOK DEF SInv, j
    <3> QED BY <2>2, <3>2
  <2>4. CASE tokens[j].exp <= now + d
    BY <1>4, <2>1, <2>2, <2>4, TokenType DEF SInv
  <2>5. CASE IsRevoked(j)
    <3>1. revoked[j] # 0
      BY <1>4, <2>2, <2>5, Numbers DEF SInv, IsRevoked
    <3> QED BY <1>2, <2>1, <3>1 DEF Orderly, DeniedOK
  <2> QED BY <2>1, <2>3, <2>4, <2>5
<1>8. ~Holding(c) /\ ~Holding(c)'
  BY <1>2, <1>6, <1>7 DEF Holding
<1>9. \A a \in Actors : Holding(a)' <=> Holding(a)
  BY <1>5, <1>8 DEF Holding
<1>10. OneHolder'
  BY <1>9 DEF Orderly, OneHolder
<1>11. \A a \in Actors : (pc'[a] = "rotated" <=> pc[a] = "rotated")
  BY <1>2, <1>5, <1>6
<1>12. JarOK'
  <2>1. \A a \in Actors : Holding(a)' => carried'[a] = jar
    BY <1>5, <1>8, <1>9 DEF Orderly, JarOK
  <2>2. \A a \in Actors : pc'[a] = "rotated" => fresh'[a] = fresh[a]
    BY <1>5, <1>6
  <2> QED BY <1>2, <1>11, <2>1, <2>2 DEF Orderly, JarOK, LastPair
<1>13. Leaving' <=> Leaving
  BY <1>2, <1>5, <1>6 DEF Leaving
<1>14. DeniedOK'
  BY <1>2, <1>5, <1>6, <1>7, <1>13 DEF Orderly, DeniedOK, Spent, Slack
<1>15. SpentOK'
  BY <1>2, <1>4, <1>5, <1>6, SpentStep
<1> QED BY <1>2, <1>10, <1>12, <1>14, <1>15 DEF Orderly

\* Starting to renew or to sign out: the cookies are read with nobody else near.
LEMMA GrabL ==
    ASSUME SInv, Orderly, NEW c \in Actors, NEW s \in {"refreshing", "leaving"},
           pc[c] \in {"refused", "denied", "idle"}, Tangle(c), Alone, Alone',
           pc' = [pc EXCEPT ![c] = s], carried' = [carried EXCEPT ![c] = jar],
           UNCHANGED <<now, tokens, revoked, jar, signedIn, fresh>>, wronged' = {}
    PROVE  Orderly'
<1>1. /\ pc \in [Actors -> Stage] /\ carried \in [Actors -> Cookies] /\ now \in Nat
  BY Numbers DEF SInv, TypeOK
<1>2. \A a \in Actors : a # c => pc'[a] = pc[a] /\ carried'[a] = carried[a]
  BY <1>1
<1>3. pc'[c] = s /\ carried'[c] = jar
  BY <1>1
<1>4. \A a \in Actors : a # c => /\ ~Holding(a) /\ ~Holding(a)'
                                 /\ pc[a] \notin {"leaving_too", "left", "rotated"}
  BY <1>2, NoTangle DEF Holding
<1>5. OneHolder'
  BY <1>4 DEF OneHolder
<1>6. JarOK'
  BY <1>2, <1>3, <1>4 DEF Orderly, JarOK, LastPair
<1>7. ~Leaving
  BY <1>4 DEF Leaving
<1>8. DeniedOK'
  BY <1>2, <1>3, <1>7 DEF Orderly, DeniedOK, Spent, Slack
<1>9. SpentOK'
  BY <1>1, <1>2, <1>3, SpentStep
<1> QED BY <1>5, <1>6, <1>8, <1>9 DEF Orderly

LEMMA SendRefreshL ==
    ASSUME SInv, Orderly, NEW c \in Calls, SendRefresh(c), Alone, Alone' PROVE Orderly'
<1>1. c \in Actors
  BY DEF Actors
<1>2. wronged' = {}
  BY DEF Orderly, SendRefresh
<1> QED BY <1>1, <1>2, GrabL DEF SendRefresh, Goto

LEMMA PressSignOutL ==
    ASSUME SInv, Orderly, NEW l \in SignOuts, PressSignOut(l), Alone, Alone' PROVE Orderly'
<1>1. l \in Actors
  BY DEF Actors
<1>2. wronged' = {}
  BY DEF Orderly, PressSignOut
<1> QED BY <1>1, <1>2, GrabL DEF PressSignOut, Goto

LEMMA CheckRefreshL ==
    ASSUME SInv, Orderly, NEW c \in Calls, CheckRefresh(c), Alone, Alone' PROVE Orderly'
<1>1. PICK d \in 0 .. Skew, ok \in BOOLEAN :
        /\ Passes(carried[c].refresh, "refresh", now + d, ok)
        /\ Goto(c, IF ok THEN "rotating" ELSE "denied")
  BY DEF CheckRefresh
<1>2. /\ c \in Actors /\ pc[c] = "refreshing"
      /\ UNCHANGED <<now, tokens, revoked, jar, signedIn, carried, fresh, wronged>>
  BY DEF CheckRefresh, Actors
<1>3. PICK s \in {"rotating", "denied"} :
        /\ pc' = [pc EXCEPT ![c] = s]
        /\ s = "denied" => ~ok
  BY <1>1 DEF Goto
<1>4. pc \in [Actors -> Stage] /\ carried \in [Actors -> Cookies] /\ now \in Nat
  BY Numbers DEF SInv, TypeOK
<1>5. \A a \in Actors : a # c => pc'[a] = pc[a]
  BY <1>3, <1>4
<1>6. pc'[c] = s /\ fresh[c] = NoCookies /\ Holding(c) /\ Holding(c)'
  BY <1>2, <1>3, <1>4 DEF SInv, CallsOK, Holding
<1>7. \A a \in Actors : Holding(a)' <=> Holding(a)
  BY <1>2, <1>5, <1>6 DEF Holding
<1>8. OneHolder'
  BY <1>7 DEF Orderly, OneHolder
<1>9. \A a \in Actors : (pc'[a] = "rotated" <=> pc[a] = "rotated")
  BY <1>2, <1>5, <1>6
<1>10. JarOK'
  BY <1>2, <1>7, <1>9 DEF Orderly, JarOK, LastPair
<1>11. Leaving' <=> Leaving
  BY <1>2, <1>5, <1>6 DEF Leaving
<1>12. ASSUME s = "denied", signedIn PROVE Spent(Len(tokens))
  <2>1. /\ carried[c].refresh = Len(tokens) /\ Len(tokens) >= 2
        /\ tokens[Len(tokens)].kind = "refresh"
    BY <1>2, <1>6, <1>12, HolderHasLast
  <2>2. Len(tokens) \in 0 .. Len(tokens) /\ Len(tokens) \in 1 .. Len(tokens)
    BY <2>1, TokenType DEF SInv
  <2>3. tokens[Len(tokens)].exp <= now + d \/ IsRevoked(Len(tokens))
    <3> DEFINE i == carried[c].refresh
    <3>1. i \in 0 .. Len(tokens) /\ Passes(i, "refresh", now + d, ok) /\ ~ok
      BY <1>1, <1>3, <1>12, <2>1, <2>2
    <3> HIDE DEF i
    <3>2. \/ i = NoToken \/ tokens[i].kind # "refresh"
          \/ tokens[i].exp <= now + d \/ IsRevoked(i)
      BY <3>1, PassesOK DEF SInv
    <3> QED BY <2>1, <3>2 DEF i
  <2> DEFINE j == Len(tokens)
  <2>4. j \in Jti /\ tokens[j].exp \in Nat /\ revoked[j] \in Nat
    BY <2>2, TokenType, Numbers DEF SInv
  <2>5. CASE tokens[j].exp <= now + d
    BY <1>4, <2>4, <2>5 DEF Spent, Slack
  <2>6. CASE IsRevoked(j)
    BY <1>4, <2>4, <2>6 DEF Spent, IsRevoked
  <2> QED BY <2>3, <2>5, <2>6
<1>13. DeniedOK'
  <2>1. (Spent(Len(tokens)))' <=> Spent(Len(tokens))
    BY <1>2 DEF Spent, Slack
  <2> QED BY <1>2, <1>5, <1>6, <1>11, <1>12, <2>1 DEF Orderly, DeniedOK
<1>14. SpentOK'
  BY <1>2, <1>4, <1>5, <1>6, SpentStep
<1> QED BY <1>2, <1>8, <1>10, <1>13, <1>14 DEF Orderly

LEMMA RotateL ==
    ASSUME SInv, Orderly, NEW c \in Calls, Rotate(c), Alone, Alone' PROVE Orderly'
<1>1. PICK d \in 0 .. Skew : Revoke(carried[c].refresh, now + d) /\ CreateTokens(now + d)
  BY DEF Rotate
<1>2. /\ c \in Actors /\ pc[c] = "rotating" /\ pc' = [pc EXCEPT ![c] = "rotated"]
      /\ fresh' = [fresh EXCEPT ![c] = NewCookies]
      /\ UNCHANGED <<now, jar, signedIn, carried, wronged>>
  BY DEF Rotate, Actors, Goto
<1>3. /\ pc \in [Actors -> Stage] /\ carried \in [Actors -> Cookies] /\ fresh \in [Actors -> Cookies]
      /\ now \in Nat /\ jar \in Cookies
  BY Numbers DEF SInv, TypeOK
<1>4. \A a \in Actors : a # c => pc'[a] = pc[a] /\ fresh'[a] = fresh[a]
  BY <1>2, <1>3
<1>5. pc'[c] = "rotated" /\ fresh'[c] = NewCookies
  BY <1>2, <1>3
<1>6. /\ Holding(c) /\ carried[c] = jar /\ carried[c].refresh # NoToken
      /\ \A a \in Actors : a # c => ~Holding(a)
  BY <1>2 DEF Orderly, OneHolder, JarOK, Holding, SInv, CallsOK
<1>7. signedIn
  BY <1>6 DEF Orderly, JarOK, NoCookies
<1> DEFINE last == Len(tokens)
<1>8. carried[c].refresh = last /\ last >= 2 /\ last \in 0 .. last
  BY <1>2, <1>6, <1>7, HolderHasLast, TokenType DEF SInv
<1>9. /\ Grown /\ last \in Nat /\ Len(tokens') = last + 2 /\ Len(tokens') <= MaxTokens
      /\ tokens'[last + 1].kind = "access"
      /\ NewCookies = [access |-> last + 1, refresh |-> last + 2]
  BY <1>1, CreateOK, TokenType DEF SInv, NewCookies
<1>10. faults' = 0
  BY DEF Alone
<1>11. /\ \A k \in Jti : revoked[k] # 0 => revoked'[k] # 0
       /\ \A k \in Jti : k # last => revoked'[k] = revoked[k]
       /\ \A k \in Jti : revoked'[k] # 0 => k <= last
       /\ revoked'[last] # 0 \/ tokens[last].exp - now < Slack
  BY <1>1, <1>8, <1>10, RevokeOK DEF SInv
<1>12. ASSUME NEW j \in 1 .. last, Spent(j) PROVE Spent(j)'
  BY <1>2, <1>3, <1>9, <1>11, <1>12, SpentKept
<1>13. revoked'[last] # 0 \/ tokens'[last].exp - now' < Slack
  BY <1>2, <1>8, <1>9, <1>11 DEF Grown
<1>14. OneHolder'
  BY <1>4, <1>6 DEF OneHolder, Holding
<1>15. JarOK'
  <2>1. NewCookies = LastPair'
    BY <1>9 DEF LastPair
  <2>2. last + 1 \in Jti /\ last + 1 # last /\ ~(last + 1 <= last)
    BY <1>9 DEF Jti
  <2>3. revoked'[last + 1] = 0
    BY <1>11, <2>2
  <2>4. \A a \in Actors : pc'[a] = "rotated" => a = c
    BY <1>4, <1>6 DEF Holding
  <2>5. fresh'[c] = LastPair' /\ fresh'[c].access = last + 1
    BY <1>5, <1>9, <2>1
  <2>6. \A a \in Actors : Holding(a)' => carried'[a] = jar'
    BY <1>2, <1>4, <1>6 DEF Holding
  <2>7. /\ Len(tokens') >= 2 /\ \E a \in Actors : pc'[a] = "rotated"
    BY <1>2, <1>5, <1>9
  <2> QED BY <1>2, <1>7, <2>3, <2>4, <2>5, <2>6, <2>7 DEF JarOK
<1>16. Leaving' <=> Leaving
  BY <1>2, <1>4, <1>5 DEF Leaving
<1>17. DeniedOK'
  <2>1. ASSUME NEW a \in Actors, pc'[a] = "resent", revoked'[carried'[a].access] # 0
        PROVE  ~signedIn' \/ Leaving'
    <3>1. a # c /\ pc[a] = "resent" /\ carried'[a] = carried[a]
      BY <1>2, <1>4, <1>5, <2>1
    <3>2. carried[a] # NoCookies
      BY <3>1 DEF SInv, CallsOK
    <3>3. carried[a].access \in Jti /\ tokens[carried[a].access].kind = "access"
      BY <1>3, <3>2, PairNames DEF SInv, CookiesOK
    <3>4. tokens[last].kind = "refresh"
      BY <1>2, <1>6, <1>7, HolderHasLast
    <3>5. revoked'[carried[a].access] = revoked[carried[a].access]
      BY <1>11, <3>3, <3>4
    <3> QED BY <1>2, <1>16, <2>1, <3>1, <3>5 DEF Orderly, DeniedOK
  <2>2. ASSUME NEW a \in Actors, pc'[a] = "denied", fresh'[a] # NoCookies
        PROVE  tokens'[fresh'[a].access].exp <= now' + Skew \/ ~signedIn' \/ Leaving'
    <3>1. a # c /\ pc[a] = "denied" /\ fresh'[a] = fresh[a]
      BY <1>4, <1>5, <2>2
    <3>2. fresh[a].access \in 1 .. last
      BY <1>3, <2>2, <3>1, PairNames DEF SInv, CookiesOK
    <3> QED BY <1>2, <1>9, <1>16, <2>2, <3>1, <3>2 DEF Orderly, DeniedOK, Grown
  <2>3. ASSUME NEW a \in Actors, pc'[a] = "denied", fresh'[a] = NoCookies PROVE FALSE
    <3>1. a # c /\ pc[a] = "denied" /\ fresh[a] = NoCookies
      BY <1>4, <1>5, <2>3
    <3> QED BY <1>6, <3>1 DEF Holding
  <2> QED BY <2>1, <2>2, <2>3 DEF DeniedOK
<1>18. SpentOK'
  <2>1. ASSUME NEW j \in 1 .. Len(tokens'), tokens'[j].kind = "refresh"
        PROVE  Spent(j)' \/ (j = Len(tokens') /\ signedIn')
    <3>1. CASE j \in 1 .. last /\ j # last
      BY <1>9, <1>12, <2>1, <3>1 DEF Orderly, SpentOK, Grown
    <3>2. CASE j = last
      BY <1>13, <3>2 DEF Spent, Slack
    <3>3. CASE j \notin 1 .. last
      BY <1>2, <1>7, <1>9, <2>1, <3>3
    <3> QED BY <3>1, <3>2, <3>3
  <2>2. ASSUME NEW a \in Actors, pc'[a] \in {"leaving_too", "left", "signed_out"},
               carried'[a].access # NoToken
        PROVE  Spent(carried[a].access)'
    <3>1. pc[a] \in {"leaving_too", "left", "signed_out"} /\ carried'[a] = carried[a]
      BY <1>2, <1>4, <1>5, <2>2
    <3>2. carried[a].access \in 1 .. last /\ Spent(carried[a].access)
      BY <1>3, <2>2, <3>1, PairNames DEF SInv, CookiesOK, Orderly, SpentOK
    <3> QED BY <1>12, <3>1, <3>2 DEF Spent
  <2>3. ASSUME NEW a \in Actors, pc'[a] = "left" PROVE FALSE
    <3>1. a # c /\ pc[a] = "left"
      BY <1>4, <1>5, <2>3
    <3> QED BY <1>6, <3>1 DEF Holding
  <2> QED BY <2>1, <2>2, <2>3 DEF SpentOK
<1> QED BY <1>2, <1>14, <1>15, <1>17, <1>18 DEF Orderly

LEMMA ResendL ==
    ASSUME SInv, Orderly, NEW c \in Calls, Resend(c), Alone, Alone' PROVE Orderly'
<1>1. /\ c \in Actors /\ pc[c] = "rotated" /\ pc' = [pc EXCEPT ![c] = "resent"]
      /\ jar' = fresh[c] /\ carried' = [carried EXCEPT ![c] = jar']
      /\ UNCHANGED <<now, tokens, revoked, signedIn, fresh, wronged>>
  BY DEF Resend, SetCookies, Goto, Actors
<1>2. pc \in [Actors -> Stage] /\ carried \in [Actors -> Cookies] /\ now \in Nat
  BY Numbers DEF SInv, TypeOK
<1>3. /\ \A a \in Actors : a # c => pc'[a] = pc[a] /\ carried'[a] = carried[a]
      /\ pc'[c] = "resent" /\ carried'[c] = fresh[c]
  BY <1>1, <1>2
<1>4. /\ signedIn /\ fresh[c] = LastPair /\ revoked[fresh[c].access] = 0
      /\ \A a \in Actors : a # c => ~Holding(a)
  BY <1>1 DEF Orderly, OneHolder, JarOK, Holding
<1>5. fresh[c] # NoCookies
  BY <1>1 DEF SInv, CallsOK
<1>6. \A a \in Actors : ~Holding(a)'
  BY <1>1, <1>3, <1>4 DEF Holding
<1>7. OneHolder'
  BY <1>6 DEF OneHolder
<1>8. JarOK'
  <2>1. ~ \E a \in Actors : pc'[a] = "rotated"
    BY <1>6 DEF Holding
  <2>2. Len(tokens) >= 2
    BY <1>4 DEF Orderly, JarOK
  <2> QED BY <1>1, <1>4, <1>6, <2>1, <2>2 DEF JarOK, LastPair
<1>9. Leaving' <=> Leaving
  BY <1>1, <1>3 DEF Leaving
<1>10. DeniedOK'
  BY <1>1, <1>3, <1>4, <1>6, <1>9 DEF Orderly, DeniedOK, Holding
<1>11. SpentOK'
  BY <1>1, <1>2, <1>3, SpentStep
<1> QED BY <1>1, <1>7, <1>8, <1>10, <1>11 DEF Orderly

\* A lone call is denied only in a session that is over: the refresh token it
\* presented was spent, or its new access token expired, or somebody signed out.
LEMMA DeniedForAReason ==
    ASSUME SInv, Orderly, NEW c \in Actors, pc[c] = "denied", SessionGood, ~Leaving
    PROVE  Outpaced(c)
<1> DEFINE last == Len(tokens)
<1>1. /\ signedIn /\ last \in 1 .. last /\ ~IsRevoked(last) /\ tokens[last].exp - now >= Slack
  BY TokenType DEF SInv, SessionGood
<1>2. /\ now \in Nat /\ Slack \in Nat /\ tokens[last].exp \in Nat /\ last \in Jti
      /\ revoked[last] \in Nat
  BY <1>1, TokenType, Numbers DEF SInv
<1>3. ~Spent(last)
  <2>1. revoked[last] # 0 => revoked[last] > tokens[last].exp - Slack
    BY <1>2 DEF SInv, RevokedOK
  <2>2. ~(revoked[last] > now)
    BY <1>1 DEF IsRevoked
  <2>3. revoked[last] = 0
    BY <1>1, <1>2, <2>1, <2>2
  <2> QED BY <1>1, <1>2, <2>3 DEF Spent
<1>4. fresh[c] # NoCookies
  BY <1>1, <1>3 DEF Orderly, DeniedOK
<1>5. tokens[fresh[c].access].exp <= now + Skew
  BY <1>1, <1>4 DEF Orderly, DeniedOK
<1> QED BY <1>4, <1>5 DEF Outpaced, SInv, CallsOK

LEMMA GiveUpL ==
    ASSUME SInv, Orderly, NEW c \in Calls, GiveUp(c), Alone, Alone' PROVE Orderly'
<1>1. c \in Actors /\ pc[c] = "denied"
  BY DEF Actors, GiveUp
<1>2. UNCHANGED <<now, tokens, revoked, jar, signedIn, fresh>>
  BY DEF GiveUp
<1>3. pc \in [Actors -> Stage] /\ now \in Nat
  BY Numbers DEF SInv, TypeOK
<1>4. CASE c \in Queries \ again
  <2>1. pc' = [pc EXCEPT ![c] = "backoff"] /\ UNCHANGED <<carried, wronged>>
    BY <1>4 DEF GiveUp, Goto
  <2>2. /\ \A a \in Actors : a # c => pc'[a] = pc[a]
        /\ pc'[c] = "backoff"
    BY <1>1, <1>3, <2>1
  <2>3. \A a \in Actors : Holding(a)' => Holding(a)
    BY <1>2, <2>2 DEF Holding
  <2>4. OneHolder'
    BY <2>3 DEF Orderly, OneHolder
  <2>5. \A a \in Actors : (pc'[a] = "rotated" <=> pc[a] = "rotated")
    BY <1>1, <2>2
  <2>6. JarOK'
    BY <1>2, <2>1, <2>3, <2>5 DEF Orderly, JarOK, LastPair
  <2>7. Leaving' <=> Leaving
    BY <1>1, <2>2 DEF Leaving
  <2>8. DeniedOK'
    BY <1>2, <2>1, <2>2, <2>7 DEF Orderly, DeniedOK, Spent, Slack
  <2>9. SpentOK'
    BY <1>2, <1>3, <2>1, <2>2, SpentStep
  <2> QED BY <2>1, <2>4, <2>6, <2>8, <2>9 DEF Orderly
<1>5. CASE c \notin Queries \ again
  <2>1. /\ pc' = [pc EXCEPT ![c] = "leaving"] /\ carried' = [carried EXCEPT ![c] = jar]
        /\ Tangle(c)
        /\ wronged' = IF SessionGood /\ ~Outpaced(c) THEN wronged \union {c} ELSE wronged
    BY <1>5 DEF GiveUp, Goto
  <2>2. ~Leaving
    BY <1>1, <2>1, NoTangle DEF Leaving
  <2>3. wronged' = {}
    BY <1>1, <2>1, <2>2, DeniedForAReason DEF Orderly
  <2> QED BY <1>1, <1>2, <2>1, <2>3, GrabL
<1> QED BY <1>4, <1>5

\* Each of a logout's two steps spends the token it is for.
LEMMA LogoutStepL ==
    ASSUME SInv, Orderly, Alone, Alone', NEW a \in Actors, NEW d \in 0 .. Skew,
           NEW s \in {"leaving_too", "left"}, pc' = [pc EXCEPT ![a] = s],
           \/ s = "leaving_too" /\ pc[a] = "leaving" /\ Revoke(carried[a].access, now + d)
           \/ s = "left" /\ pc[a] = "leaving_too" /\ Revoke(carried[a].refresh, now + d),
           UNCHANGED <<now, tokens, jar, signedIn, carried, fresh, wronged>>
    PROVE  Orderly'
<1>1. pc \in [Actors -> Stage] /\ now \in Nat
  BY Numbers DEF SInv, TypeOK
<1>2. pc'[a] = s /\ \A b \in Actors : b # a => pc'[b] = pc[b] /\ ~Holding(b)
  BY <1>1 DEF Orderly, OneHolder, Holding
<1>3. PICK j \in 0 .. Len(tokens) :
        /\ Revoke(j, now + d)
        /\ s = "leaving_too" => j = carried[a].access
        /\ s = "left" => j = carried[a].refresh
  BY PairBounds DEF SInv, CookiesOK, TypeOK
<1>4. faults' = 0
  BY DEF Alone
<1>5. /\ \A k \in Jti : revoked[k] # 0 => revoked'[k] # 0
      /\ j # NoToken => revoked'[j] # 0 \/ tokens[j].exp - now < Slack
  BY <1>3, <1>4, RevokeOK DEF SInv
<1>6. ASSUME NEW k \in 1 .. Len(tokens), Spent(k) PROVE Spent(k)'
  <2>1. Grown
    BY TokenType DEF SInv, Grown
  <2> QED BY <1>1, <1>5, <1>6, <2>1, SpentKept
<1>7. j # NoToken => revoked'[j] # 0 \/ tokens'[j].exp - now' < Slack
  BY <1>5
<1>8. Holding(a) /\ Holding(a)' /\ \A b \in Actors : b # a => ~Holding(b)'
  BY <1>2 DEF Holding
<1>9. OneHolder'
  BY <1>8 DEF OneHolder
<1>10. JarOK'
  <2>1. \A b \in Actors : pc[b] # "rotated" /\ pc'[b] # "rotated"
    BY <1>2 DEF Holding
  <2> QED BY <1>8, <2>1 DEF Orderly, JarOK, LastPair
<1>11. Leaving'
  BY <1>2 DEF Leaving
<1>12. DeniedOK'
  BY <1>8, <1>11 DEF DeniedOK, Holding
<1>13. SpentOK'
  <2>1. \A k \in 1 .. Len(tokens') : tokens'[k].kind = "refresh" =>
           Spent(k)' \/ (k = Len(tokens') /\ signedIn')
    BY <1>6 DEF Orderly, SpentOK
  <2>2. ASSUME NEW b \in Actors
        PROVE  /\ carried[b].access # NoToken => carried[b].access \in 1 .. Len(tokens)
               /\ carried[b].refresh # NoToken => carried[b].refresh \in 1 .. Len(tokens)
    BY PairNames DEF SInv, CookiesOK, TypeOK
  <2>3. ASSUME NEW b \in Actors, pc'[b] \in {"leaving_too", "left", "signed_out"},
               carried'[b].access # NoToken
        PROVE  Spent(carried[b].access)'
    <3>1. CASE b = a /\ s = "leaving_too"
      BY <1>3, <1>7, <2>3, <3>1 DEF Spent, Slack
    <3>2. CASE ~(b = a /\ s = "leaving_too")
      <4>1. pc[b] \in {"leaving_too", "left", "signed_out"}
        BY <1>2, <2>3, <3>2
      <4>2. Spent(carried[b].access) /\ carried[b].access \in 1 .. Len(tokens)
        BY <2>2, <2>3, <4>1 DEF Orderly, SpentOK
      <4> QED BY <1>6, <4>2 DEF Spent
    <3> QED BY <3>1, <3>2
  <2>4. ASSUME NEW b \in Actors, pc'[b] = "left", carried'[b].refresh # NoToken
        PROVE  Spent(carried[b].refresh)'
    <3>1. b = a /\ s = "left"
      BY <1>2, <2>4 DEF Holding
    <3> QED BY <1>3, <1>7, <2>4, <3>1 DEF Spent, Slack
  <2> QED BY <2>1, <2>3, <2>4 DEF SpentOK
<1> QED BY <1>9, <1>10, <1>12, <1>13 DEF Orderly

LEMMA LogoutAccessL ==
    ASSUME SInv, Orderly, NEW a \in Actors, LogoutAccess(a), Alone, Alone' PROVE Orderly'
BY LogoutStepL DEF LogoutAccess, AfterAccess, Goto

LEMMA LogoutRefreshL ==
    ASSUME SInv, Orderly, NEW a \in Actors, LogoutRefresh(a), Alone, Alone' PROVE Orderly'
BY LogoutStepL DEF LogoutRefresh, Goto

LEMMA SignedOutL ==
    ASSUME SInv, Orderly, NEW a \in Actors, SignedOut(a), Alone, Alone' PROVE Orderly'
<1>1. /\ pc[a] = "left" /\ pc' = [pc EXCEPT ![a] = "signed_out"]
      /\ jar' = NoCookies /\ signedIn' = FALSE
      /\ UNCHANGED <<now, tokens, revoked, carried, fresh, wronged>>
  BY DEF SignedOut, Goto
<1>2. pc \in [Actors -> Stage]
  BY DEF SInv, TypeOK
<1>3. pc'[a] = "signed_out" /\ \A b \in Actors : b # a => pc'[b] = pc[b] /\ ~Holding(b)
  BY <1>1, <1>2 DEF Orderly, OneHolder, Holding
<1>4. \A b \in Actors : ~Holding(b)'
  BY <1>1, <1>3 DEF Holding
<1>5. OneHolder'
  BY <1>4 DEF OneHolder
<1>6. JarOK'
  BY <1>1, <1>4 DEF JarOK, Holding
<1>7. DeniedOK'
  BY <1>1 DEF DeniedOK
<1>8. signedIn => Spent(Len(tokens))
  <2>1. ASSUME signedIn PROVE carried[a].refresh = Len(tokens) /\ Len(tokens) >= 2
    BY <1>1, <2>1, HolderHasLast DEF Holding
  <2> QED BY <1>1, <2>1 DEF Orderly, SpentOK
<1>9. \A k : Spent(k)' <=> Spent(k)
  BY <1>1 DEF Spent, Slack
<1>10. SpentOK'
  <2>1. \A k \in 1 .. Len(tokens) : tokens[k].kind = "refresh" => Spent(k)
    BY <1>8 DEF Orderly, SpentOK
  <2>2. \A b \in Actors : pc'[b] \in {"leaving_too", "left", "signed_out"}
           => pc[b] \in {"leaving_too", "left", "signed_out"}
    BY <1>1, <1>3
  <2>3. \A b \in Actors : pc'[b] # "left"
    BY <1>4 DEF Holding
  <2> QED BY <1>1, <1>9, <2>1, <2>2, <2>3 DEF Orderly, SpentOK, Spent, Slack
<1> QED BY <1>1, <1>5, <1>6, <1>7, <1>10 DEF Orderly

LEMMA NextL == ASSUME SInv, Orderly, Next, Alone, Alone' PROVE Orderly'
<1>1. CASE Login \/ Tick
  BY <1>1, LoginL, TickL
<1>2. ASSUME NEW c \in Calls, Send(c) \/ Answer(c) \/ SendRefresh(c) \/ CheckRefresh(c)
                              \/ Rotate(c) \/ Resend(c) \/ LoseRefresh(c) \/ GiveUp(c)
      PROVE Orderly'
  <2>1. ~LoseRefresh(c)
    BY DEF LoseRefresh, Fault, Alone
  <2> QED BY <1>2, <2>1, SendL, AnswerL, SendRefreshL, CheckRefreshL, RotateL, ResendL, GiveUpL
<1>3. ASSUME NEW l \in SignOuts, PressSignOut(l) PROVE Orderly'
  BY <1>3, PressSignOutL
<1>4. ASSUME NEW a \in Actors,
             LogoutAccess(a) \/ LogoutRefresh(a) \/ SignedOut(a) \/ LoseLogout(a)
      PROVE Orderly'
  <2>1. ~LoseLogout(a)
    BY DEF LoseLogout, Fault, Alone
  <2> QED BY <1>4, <2>1, LogoutAccessL, LogoutRefreshL, SignedOutL
<1> QED BY <1>1, <1>2, <1>3, <1>4 DEF Next

LEMMA StepL == SInv /\ LInv /\ [Next]_vars => LInv'
<1> SUFFICES ASSUME SInv, LInv, [Next]_vars, Alone' PROVE Orderly'
  BY DEF LInv
<1>1. CASE Next
  BY <1>1, AloneBefore, NextL DEF LInv
<1>2. CASE UNCHANGED vars
  <2>1. Orderly
    BY <1>2 DEF LInv, Alone, vars
  <2>2. OneHolder' /\ JarOK'
    BY <1>2, <2>1 DEF vars, Orderly, OneHolder, Holding, JarOK, LastPair
  <2>3. DeniedOK' /\ SpentOK'
    BY <1>2, <2>1 DEF vars, Orderly, DeniedOK, Leaving, SpentOK, Spent, Slack
  <2> QED BY <1>2, <2>1, <2>2, <2>3 DEF vars, Orderly
<1> QED BY <1>1, <1>2

LEMMA LoneInvariance == Spec => []LInv
BY InitL, StepL, SessionsInvariance, PTL DEF Spec

\* After a logout nothing that was issued to this browser opens the API again, but
\* for access tokens a renewal replaced (api/auth.py: logout, and _clear_auth_cookies).
THEOREM LogoutEnds == Spec => []LogoutEndsSession
<1>1. SInv /\ LInv => LogoutEndsSession
  <2> DEFINE out == {a \in Actors : pc[a] = "signed_out"}
  <2> SUFFICES ASSUME SInv, Orderly, ~signedIn, NEW j \in 1 .. Len(tokens)
               PROVE  \/ tokens[j].kind = "access" /\ \A a \in out : carried[a].access # j
                      \/ IsRevoked(j)
                      \/ tokens[j].exp - now < Slack
    BY DEF LInv, Alone, LogoutEndsSession
  <2>1. ASSUME Spent(j) PROVE IsRevoked(j) \/ tokens[j].exp - now < Slack
    <3>1. /\ j \in Jti /\ tokens[j].exp \in Nat /\ revoked[j] \in Nat /\ now \in Nat
          /\ Slack \in Nat
      BY TokenType, Numbers DEF SInv
    <3>2. revoked[j] # 0 => revoked[j] > tokens[j].exp - Slack
      BY <3>1 DEF SInv, RevokedOK
    <3> QED BY <2>1, <3>1, <3>2 DEF Spent, IsRevoked
  <2>2. CASE tokens[j].kind = "refresh"
    BY <2>1, <2>2 DEF Orderly, SpentOK
  <2>3. CASE tokens[j].kind = "access"
    <3>1. ASSUME NEW a \in out, carried[a].access = j PROVE Spent(j)
      <4>1. j # NoToken /\ a \in Actors /\ pc[a] = "signed_out"
        BY TokenType DEF SInv
      <4> QED BY <3>1, <4>1 DEF Orderly, SpentOK
    <3> QED BY <2>1, <2>3, <3>1
  <2> QED BY <2>2, <2>3, TokenType DEF SInv
<1> QED BY <1>1, SessionsInvariance, LoneInvariance, PTL

\* A call throws its user out of a good session only when renewals or logouts
\* overlapped or something failed (api-client.ts).
THEOREM LoneRenewalsSurvive == Spec => []LoneCallsSurvive
<1>1. SInv /\ LInv => LoneCallsSurvive
  BY Numbers DEF SInv, LInv, Alone, Orderly, LoneCallsSurvive
<1> QED BY <1>1, SessionsInvariance, LoneInvariance, PTL

=============================================================================
