------------------------ MODULE RateLimiterProofs ------------------------
(***************************************************************************)
(* The bound of the rate limiter and the sufficiency of Retry-After, for   *)
(* every set of requests and replicas, every limit, window, delay and skew. *)
(***************************************************************************)
EXTENDS RateLimiter, FiniteSetTheorems, TLAPS

\* An entry of the sorted set is of a request that has asked, no call for it is
\* still on its way, and the key outlives its window.
LogOK ==
    /\ IsFiniteSet(log)
    /\ Cardinality(log) <= Limit
    /\ sent \intersect log = {}
    /\ \A x \in log : status[x] # "new" /\ ranAt[x] <= now /\ ranAt[x] + Window <= expires

\* Stamps differ from the time of the reading by at most the skew, and a
\* request waits for at most Delay.
StampsOK ==
    /\ \A q \in Requests : status[q] # "new" => stamp[q] <= now + Skew
    /\ \A q \in Requests : status[q] = "asking" =>
          stamp[q] >= askedAt[q] - Skew /\ now <= askedAt[q] + Delay
    /\ \A q \in sent : status[q] \in {"asking", "unchecked"}

\* An admission leaves the sorted set only when its shortened window is over.
AdmissionsOK ==
    \A q \in Requests : status[q] = "admitted" =>
        /\ ranAt[q] <= now
        /\ stamp[q] >= ranAt[q] - Delay - Skew
        /\ q \in log \/ ranAt[q] <= now - (Window - Slack)

\* A refusal names the moment at which one of the entries it met is over.
RefusalsOK ==
    \A d \in Requests : status[d] = "denied" =>
        /\ IsFiniteSet(refusal[d].held)
        /\ Cardinality(refusal[d].held) <= Limit
        /\ \E x \in refusal[d].held : status[x] # "new" /\ refusal[d].until = stamp[x] + Window

IInv == TypeOK /\ LogOK /\ StampsOK /\ AdmissionsOK /\ RefusalsOK

\* Evicting keeps the set finite and within the limit, and what is evicted has
\* had its shortened window.
LEMMA KeptOK ==
    ASSUME IInv, NEW q \in sent
    PROVE  /\ Kept(q) \subseteq log
           /\ IsFiniteSet(Kept(q))
           /\ Cardinality(Kept(q)) <= Limit
           /\ Cardinality(Kept(q)) \in Nat
           /\ \A x \in Requests : status[x] = "admitted" =>
                 x \in Kept(q) \/ ranAt[x] <= now - (Window - Slack)
<1>1. Kept(q) \subseteq log
  BY DEF Kept
<1>2. /\ IsFiniteSet(Kept(q)) /\ Cardinality(Kept(q)) <= Cardinality(log)
      /\ Cardinality(Kept(q)) \in Nat /\ Cardinality(log) \in Nat
  BY <1>1, FS_Subset, FS_CardinalityType DEF IInv, LogOK
<1>3. Cardinality(Kept(q)) <= Limit
  BY <1>2, LimitsAssumption DEF IInv, LogOK
<1>4. ASSUME NEW x \in Requests, status[x] = "admitted", x \notin Kept(q)
      PROVE  ranAt[x] <= now - (Window - Slack)
  <2>1. q \in Requests /\ stamp[q] \in Int /\ stamp[x] \in Int /\ ranAt[x] \in Nat /\ now \in Nat
    BY DEF IInv, TypeOK
  <2>2. stamp[q] <= now + Skew /\ stamp[x] >= ranAt[x] - Delay - Skew
    BY <1>4, <2>1 DEF IInv, StampsOK, AdmissionsOK
  <2>3. CASE x \in log
    <3>1. stamp[x] <= stamp[q] - Window
      BY <1>4, <2>1, <2>3, LimitsAssumption DEF Kept
    <3> QED BY <2>1, <2>2, <3>1, LimitsAssumption DEF Slack
  <2>4. CASE x \notin log
    BY <1>4, <2>4 DEF IInv, AdmissionsOK
  <2> QED BY <2>3, <2>4
<1> QED BY <1>1, <1>2, <1>3, <1>4

LEMMA InitOK == Init => IInv
<1> SUFFICES ASSUME Init PROVE IInv
  OBVIOUS
<1>1. IsFiniteSet({}) /\ Cardinality({}) = 0
  BY FS_EmptySet
<1>2. TypeOK
  BY DEF Init, TypeOK, Status, Refusals
<1> QED BY <1>1, <1>2, LimitsAssumption DEF Init, IInv, LogOK, StampsOK, AdmissionsOK, RefusalsOK

\* Both answers of the script leave a request admitted, denied or as it was.
LEMMA ReplyOK ==
    ASSUME TypeOK, NEW q \in Requests, NEW answer \in {"admitted", "denied"}, Reply(q, answer)
    PROVE  /\ status' \in [Requests -> Status]
           /\ \A x \in Requests : x # q => status'[x] = status[x]
           /\ status'[q] = status[q] \/ (status[q] = "asking" /\ status'[q] = answer)
BY DEF TypeOK, Reply, Status

LEMMA AdmitOK ==
    ASSUME IInv, NEW q \in Requests, Admit(q)
    PROVE  IInv'
<1> USE LimitsAssumption
<1>t. TypeOK /\ q \in sent /\ Kept(q) \subseteq log
  BY DEF IInv, Admit, Kept
<1>r. /\ status' \in [Requests -> Status]
      /\ \A x \in Requests : x # q => status'[x] = status[x]
      /\ status'[q] = status[q] \/ (status[q] = "asking" /\ status'[q] = "admitted")
  BY <1>t, ReplyOK DEF Admit
<1>1. TypeOK'
  BY <1>t, <1>r DEF TypeOK, Admit
<1>2. LogOK'
  <2>1. IsFiniteSet(log') /\ Cardinality(log') <= Limit
    <3>1. IsFiniteSet(Kept(q)) /\ Cardinality(Kept(q)) \in Nat
      BY <1>t, KeptOK
    <3>2. q \notin Kept(q)
      BY <1>t DEF IInv, LogOK
    <3>3. IsFiniteSet(Kept(q) \union {q}) /\ Cardinality(Kept(q) \union {q}) = Cardinality(Kept(q)) + 1
      BY <3>1, <3>2, FS_AddElement
    <3>4. Cardinality(Kept(q)) < Limit
      BY DEF Admit, UnderLimit
    <3> QED BY <3>1, <3>3, <3>4 DEF Admit
  <2>2. sent' \intersect log' = {}
    BY <1>t DEF IInv, LogOK, Admit
  <2>3. \A x \in log' : status'[x] # "new" /\ ranAt'[x] <= now' /\ ranAt'[x] + Window <= expires'
    BY <1>t, <1>r DEF IInv, TypeOK, LogOK, StampsOK, Admit
  <2> QED BY <2>1, <2>2, <2>3 DEF LogOK
<1>3. StampsOK'
  BY <1>t, <1>r DEF IInv, TypeOK, StampsOK, Admit
<1>4. AdmissionsOK'
  <2>1. \A x \in Requests : status[x] = "admitted" => x \in Kept(q) \/ ranAt[x] <= now - (Window - Slack)
    BY <1>t, KeptOK
  <2>2. ASSUME NEW x \in Requests, status'[x] = "admitted", x # q
        PROVE  /\ ranAt'[x] <= now' /\ stamp'[x] >= ranAt'[x] - Delay - Skew
               /\ x \in log' \/ ranAt'[x] <= now' - (Window - Slack)
    BY <1>t, <1>r, <2>1, <2>2 DEF IInv, TypeOK, AdmissionsOK, Admit
  <2>3. ASSUME status'[q] = "admitted"
        PROVE  /\ ranAt'[q] <= now' /\ stamp'[q] >= ranAt'[q] - Delay - Skew /\ q \in log'
    <3>1. status[q] = "asking"
      BY <1>t, <1>r, <2>3 DEF IInv, StampsOK
    <3> QED BY <3>1, <1>t DEF IInv, TypeOK, StampsOK, Admit
  <2> QED BY <2>2, <2>3 DEF AdmissionsOK, Slack
<1>5. RefusalsOK'
  BY <1>t, <1>r DEF IInv, TypeOK, RefusalsOK, Refusals, StampsOK, Admit
<1> QED BY <1>1, <1>2, <1>3, <1>4, <1>5 DEF IInv

LEMMA DenyOK ==
    ASSUME IInv, NEW q \in Requests, Deny(q)
    PROVE  IInv'
<1> USE LimitsAssumption
<1>t. TypeOK /\ q \in sent /\ Kept(q) \subseteq log
  BY DEF IInv, Deny, Kept
<1>r. /\ status' \in [Requests -> Status]
      /\ \A x \in Requests : x # q => status'[x] = status[x]
      /\ status'[q] = status[q] \/ (status[q] = "asking" /\ status'[q] = "denied")
  BY <1>t, ReplyOK DEF Deny
<1>k. IsFiniteSet(Kept(q)) /\ Cardinality(Kept(q)) <= Limit
  BY <1>t, KeptOK
<1>o. PICK o \in Oldest(q) :
          refusal' = [refusal EXCEPT ![q] = [until |-> stamp[o] + Window, held |-> Kept(q)]]
  BY DEF Deny
<1>p. o \in Kept(q) /\ o \in log /\ o \in Requests
  BY <1>t, <1>o DEF Oldest, TypeOK
<1>1. TypeOK'
  <2>1. [until |-> stamp[o] + Window, held |-> Kept(q)] \in Refusals
    BY <1>t, <1>p DEF TypeOK, Refusals
  <2> QED BY <1>t, <1>r, <1>o, <2>1 DEF TypeOK, Deny
<1>2. LogOK'
  BY <1>t, <1>r, <1>k DEF IInv, TypeOK, LogOK, Deny
<1>3. StampsOK'
  BY <1>t, <1>r DEF IInv, TypeOK, StampsOK, Deny
<1>4. AdmissionsOK'
  <2>1. \A x \in Requests : status[x] = "admitted" => x \in Kept(q) \/ ranAt[x] <= now - (Window - Slack)
    BY <1>t, KeptOK
  <2>2. status[q] # "admitted" /\ status'[q] # "admitted"
    BY <1>t, <1>r DEF IInv, StampsOK
  <2> QED BY <1>t, <1>r, <2>1, <2>2 DEF IInv, TypeOK, AdmissionsOK, Slack, Deny
<1>5. RefusalsOK'
  <2>1. status'[o] # "new"
    BY <1>p, <1>r DEF IInv, LogOK
  <2>2. ASSUME status'[q] = "denied"
        PROVE  /\ IsFiniteSet(refusal'[q].held) /\ Cardinality(refusal'[q].held) <= Limit
               /\ \E x \in refusal'[q].held : status'[x] # "new" /\ refusal'[q].until = stamp'[x] + Window
    BY <1>t, <1>k, <1>o, <1>p, <2>1 DEF TypeOK, Deny
  <2>3. ASSUME NEW d \in Requests, d # q, status'[d] = "denied"
        PROVE  /\ IsFiniteSet(refusal'[d].held) /\ Cardinality(refusal'[d].held) <= Limit
               /\ \E x \in refusal'[d].held : status'[x] # "new" /\ refusal'[d].until = stamp'[x] + Window
    <3>1. refusal'[d] = refusal[d] /\ status[d] = "denied" /\ stamp' = stamp
      BY <1>t, <1>r, <1>o, <2>3 DEF TypeOK, Deny
    <3>2. PICK x \in refusal[d].held : status[x] # "new" /\ refusal[d].until = stamp[x] + Window
      BY <3>1 DEF IInv, RefusalsOK
    <3>3. x \in Requests /\ status'[x] # "new"
      BY <1>t, <1>r, <3>2 DEF TypeOK, Refusals
    <3> QED BY <3>1, <3>2, <3>3 DEF IInv, RefusalsOK
  <2> QED BY <2>2, <2>3 DEF RefusalsOK
<1> QED BY <1>1, <1>2, <1>3, <1>4, <1>5 DEF IInv

LEMMA CheckOK ==
    ASSUME IInv, NEW q \in Requests, NEW p \in Replicas, Check(q, p)
    PROVE  IInv'
<1> USE LimitsAssumption
<1>t. TypeOK /\ offset[p] \in -Skew..Skew
  BY DEF IInv, TypeOK
<1>1. TypeOK'
  BY <1>t DEF TypeOK, Check, Status
<1>2. LogOK'
  BY <1>t DEF IInv, TypeOK, LogOK, Check
<1>3. StampsOK'
  BY <1>t DEF IInv, TypeOK, StampsOK, Check
<1>4. AdmissionsOK'
  BY <1>t DEF IInv, TypeOK, AdmissionsOK, Slack, Check
<1>5. RefusalsOK'
  BY <1>t DEF IInv, TypeOK, RefusalsOK, Refusals, Check
<1> QED BY <1>1, <1>2, <1>3, <1>4, <1>5 DEF IInv

LEMMA FailOpenOK ==
    ASSUME IInv, NEW q \in Requests, FailOpen(q)
    PROVE  IInv'
<1>1. TypeOK'
  BY DEF IInv, TypeOK, FailOpen, Status
<1>2. LogOK'
  BY DEF IInv, TypeOK, LogOK, FailOpen
<1>3. StampsOK'
  BY DEF IInv, TypeOK, StampsOK, FailOpen
<1>4. AdmissionsOK'
  BY DEF IInv, TypeOK, AdmissionsOK, Slack, FailOpen
<1>5. RefusalsOK'
  BY DEF IInv, TypeOK, RefusalsOK, Refusals, FailOpen
<1> QED BY <1>1, <1>2, <1>3, <1>4, <1>5 DEF IInv

LEMMA TickOK == ASSUME IInv, Tick PROVE IInv'
<1> USE LimitsAssumption
<1>1. TypeOK'
  BY DEF IInv, TypeOK, Tick
<1>2. LogOK'
  BY FS_EmptySet DEF IInv, TypeOK, LogOK, Tick
<1>3. StampsOK'
  BY DEF IInv, TypeOK, StampsOK, Tick
<1>4. AdmissionsOK'
  BY DEF IInv, TypeOK, LogOK, AdmissionsOK, Slack, Tick
<1>5. RefusalsOK'
  BY DEF IInv, TypeOK, RefusalsOK, Tick
<1> QED BY <1>1, <1>2, <1>3, <1>4, <1>5 DEF IInv

LEMMA NextOK == IInv /\ [Next]_vars => IInv'
<1> SUFFICES ASSUME IInv, [Next]_vars PROVE IInv'
  OBVIOUS
<1>1. CASE UNCHANGED vars
  BY <1>1 DEF vars, IInv, TypeOK, LogOK, StampsOK, AdmissionsOK, Slack, RefusalsOK
<1>2. CASE Next
  BY <1>2, CheckOK, AdmitOK, DenyOK, FailOpenOK, TickOK DEF Next
<1> QED BY <1>1, <1>2

\* The reasons AtMostLimitAdmitted holds are an invariant of the specification:
\* of the Lua script, the clocks it is called with and the time to live of keys.
THEOREM Invariance == Spec => []IInv
BY InitOK, NextOK, PTL DEF Spec

\* The sliding window of rate_limit.py:23 admits at most Limit requests in any
\* period of Window - Slack, across replicas with different clocks.
THEOREM WindowBound == Spec => []AtMostLimitAdmitted
<1>1. IInv => AtMostLimitAdmitted
  <2> SUFFICES ASSUME IInv PROVE AtMostLimitAdmitted
    OBVIOUS
  <2> USE LimitsAssumption
  <2>1. Recent \subseteq log
    BY DEF IInv, TypeOK, AdmissionsOK, Recent, Slack
  <2>2. Cardinality(Recent) <= Cardinality(log) /\ Cardinality(Recent) \in Nat /\ Cardinality(log) \in Nat
    BY <2>1, FS_Subset, FS_CardinalityType DEF IInv, LogOK
  <2> QED BY <2>2 DEF IInv, LogOK, AtMostLimitAdmitted
<1> QED BY <1>1, Invariance, PTL

\* A client that waits as long as Retry-After told it, on a clock no later than
\* its own, is denied again only because another request was admitted.
THEOREM RetryAfterHolds == Spec => RetryAfterSuffices
<1> USE LimitsAssumption
<1>1. ASSUME IInv, NEW q \in Requests, NEW d \in Requests, Deny(q), status[d] = "denied",
             stamp[q] >= refusal[d].until, log \subseteq refusal[d].held
      PROVE  FALSE
  <2>1. PICK x \in refusal[d].held : refusal[d].until = stamp[x] + Window
    BY <1>1 DEF IInv, RefusalsOK
  <2>2. x \in Requests /\ stamp[x] \in Int /\ stamp[q] \in Int /\ refusal[d].until \in Int
    BY <1>1, <2>1 DEF IInv, TypeOK, Refusals
  <2>3. x \notin Kept(q)
    BY <1>1, <2>1, <2>2 DEF Kept
  <2>4. Kept(q) \subseteq refusal[d].held \ {x}
    BY <1>1, <2>3 DEF Kept
  <2>5. /\ IsFiniteSet(refusal[d].held)
        /\ Cardinality(refusal[d].held) <= Limit
    BY <1>1 DEF IInv, RefusalsOK
  <2>6. /\ IsFiniteSet(refusal[d].held \ {x})
        /\ Cardinality(refusal[d].held \ {x}) = Cardinality(refusal[d].held) - 1
    BY <2>1, <2>5, FS_RemoveElement
  <2>7. /\ Cardinality(Kept(q)) <= Cardinality(refusal[d].held \ {x})
        /\ Cardinality(Kept(q)) \in Nat
        /\ Cardinality(refusal[d].held) \in Nat
    BY <2>4, <2>5, <2>6, FS_Subset, FS_CardinalityType
  <2>8. Cardinality(Kept(q)) < Limit
    BY <2>5, <2>6, <2>7
  <2> QED BY <1>1, <2>8 DEF Deny, UnderLimit
<1>2. IInv /\ [Next]_vars =>
        [\A q, d \in Requests :
            /\ Deny(q)
            /\ status[d] = "denied"
            /\ stamp[q] >= refusal[d].until
         => ~(log \subseteq refusal[d].held)]_vars
  BY <1>1
<1> QED BY <1>2, Invariance, PTL DEF Spec, RetryAfterSuffices
=============================================================================
