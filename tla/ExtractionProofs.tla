-------------------------- MODULE ExtractionProofs --------------------------
(***************************************************************************)
(* What the accounting and the decisions of an extraction rest on: proved   *)
(* for any amounts, confidences, histories, bars and number of attempts.    *)
(***************************************************************************)
EXTENDS Extraction, TLAPS

\* Answers as they may be stored: two usages added up, the development one.
Kept == [model : Models, total : Amounts \union {Nothing}, confidence : Nat,
         least : Nat \union {Nothing}, itemsMatch : BOOLEAN, tokens : Nat \union {Nothing}]

Answered == {"persist", "persisted", "routed", "done"}
Written == {"persisted", "routed", "done"}
Passed == {"validation_passed", "approved"}

RowOK ==
    /\ pc \in Stage
    /\ invoice \in [total : Amounts \union {Nothing}, status : Status]
    /\ upload.total \in Amounts \union {Nothing}

\* What is known of an answer in each stage of an attempt.
AnswersOK ==
    /\ pc # "escalate" => first = Nothing
    /\ pc \in {"tier1", "escalate"} => Tiered
    /\ pc = "escalate" => first \in Answer /\ first.model = "gpt-tier1" /\ best = first.confidence
    /\ pc = "extract" => best = 0
    /\ pc \in Answered =>
          /\ result \in Kept
          /\ best = result.confidence
          /\ result.model = "development-extractor" => result.confidence = DevelopmentConfidence
    /\ pc \in Written => stored = result
    /\ pc \notin Written => stored = Nothing

\* Tokens of answers that neither a stored row nor a failed attempt accounts for.
Held == CASE pc = "escalate" -> Counted(first.tokens)
          [] pc \in Answered -> Counted(result.tokens)
          [] OTHER -> 0

SpendOK ==
    /\ reported \in Nat /\ wasted \in Nat
    /\ wasted + Held = reported

\* A verdict is only ever lowered by detection, and raised by the last decision.
VerdictOK ==
    /\ invoice.status \in Passed =>
          /\ pc \in Written
          /\ EveryRulePasses(result)
          /\ result.total = 0 \/ invoice.total = result.total
          /\ past # Nothing => ~AmountOutlier(past)
    /\ pc \notin {"routed", "done"} => past = Nothing
    /\ invoice.status = "approved" => pc = "done" /\ ConfidenceMet(result)

IInv == RowOK /\ AnswersOK /\ SpendOK /\ VerdictOK /\ KnownValuesKept

LEMMA AnswerKept == ASSUME NEW a \in Answer PROVE a \in Kept /\ a.tokens \in {1, Nothing}
<1>1. a = [model |-> a.model, total |-> a.total, confidence |-> a.confidence, least |-> a.least,
           itemsMatch |-> a.itemsMatch, tokens |-> a.tokens]
  BY DEF Answer
<1>2. /\ a.model \in Models /\ a.total \in Amounts \union {Nothing} /\ a.itemsMatch \in BOOLEAN
      /\ a.confidence \in Confidences /\ a.least \in Confidences \union {Nothing}
      /\ a.tokens \in {1, Nothing}
  BY DEF Answer
<1>3. Confidences \subseteq Nat
  <2>1. Confidences \subseteq 0 .. 100
    BY BarsAssumption
  <2> QED BY <2>1
<1>4. a.confidence \in Nat /\ a.least \in Nat \union {Nothing}
  BY <1>2, <1>3
<1>5. a.tokens \in Nat \union {Nothing}
  BY <1>2
<1> QED BY <1>1, <1>2, <1>4, <1>5 DEF Kept

LEMMA AnswersKept == \A model \in Models : model # "development-extractor" =>
                         \A a \in Answers(model) : a \in Answer /\ a.model = model /\ a \in Kept
<1> SUFFICES ASSUME NEW model \in Models, model # "development-extractor", NEW a \in Answers(model)
             PROVE  a \in Answer /\ a.model = model /\ a \in Kept
  OBVIOUS
<1>1. a \in Answer /\ a.model = model
  BY DEF Answers
<1> QED BY <1>1, AnswerKept

LEMMA PrimaryAnswersKept ==
    ASSUME RowOK, NEW a \in Answers(PrimaryModel)
    PROVE  /\ a \in Kept /\ a.tokens \in {1, Nothing}
           /\ a.model = "development-extractor" => a.confidence = DevelopmentConfidence
           /\ Tiered => a.model = "gpt"
<1>1. PrimaryModel \in Models /\ (Tiered => PrimaryModel = "gpt")
  BY DEF PrimaryModel, Models, Tiered
<1>2. CASE PrimaryModel = "development-extractor"
  <2>1. a = DevelopmentAnswer /\ ~Tiered
    BY <1>1, <1>2 DEF Answers
  <2>2. DevelopmentAnswer \in Kept /\ DevelopmentAnswer.tokens = Nothing
        /\ DevelopmentAnswer.confidence = DevelopmentConfidence
    BY DEF RowOK, DevelopmentAnswer, DevelopmentConfidence, Kept, Models
  <2> QED BY <2>1, <2>2
<1>3. CASE PrimaryModel # "development-extractor"
  <2>1. a \in Answer /\ a.model = PrimaryModel
    BY <1>1, <1>3, AnswersKept
  <2> QED BY <1>1, <1>3, <2>1, AnswerKept
<1> QED BY <1>2, <1>3

\* The answer kept of two has the usage of both and the higher confidence.
LEMMA KeepAnswerOK ==
    ASSUME first \in Answer, NEW a \in Kept, a.tokens \in {1, Nothing}
    PROVE  /\ KeepAnswer(a) \in Kept
           /\ KeepAnswer(a).model \in {first.model, a.model}
           /\ KeepAnswer(a).confidence = IF a.confidence >= first.confidence
                                         THEN a.confidence ELSE first.confidence
           /\ Counted(KeepAnswer(a).tokens) = Counted(first.tokens) + Counted(a.tokens)
<1> DEFINE t == CombinedTokens(first, a)
           b == IF a.confidence >= first.confidence THEN a ELSE first
<1>1. first \in Kept /\ first.tokens \in {1, Nothing}
  BY AnswerKept
<1>2. t \in Nat \union {Nothing} /\ Counted(t) = Counted(first.tokens) + Counted(a.tokens)
  BY <1>1, BarsAssumption DEF CombinedTokens, Counted
<1>3. b \in Kept /\ b.model \in {first.model, a.model}
      /\ b.confidence = IF a.confidence >= first.confidence THEN a.confidence ELSE first.confidence
  BY <1>1
<1>4. KeepAnswer(a) = [b EXCEPT !.tokens = t]
  BY DEF KeepAnswer
<1>5. /\ [b EXCEPT !.tokens = t] \in Kept
      /\ [b EXCEPT !.tokens = t].model = b.model
      /\ [b EXCEPT !.tokens = t].confidence = b.confidence
      /\ [b EXCEPT !.tokens = t].tokens = t
  BY <1>2, <1>3 DEF Kept
<1> QED BY <1>2, <1>3, <1>4, <1>5

LEMMA InitOK == Init => IInv
<1> SUFFICES ASSUME Init PROVE IInv
  OBVIOUS
<1>1. RowOK
  BY DEF Init, RowOK, Stage, Status
<1>2. AnswersOK /\ SpendOK
  BY DEF Init, AnswersOK, SpendOK, Held, Answered, Written
<1>3. VerdictOK /\ KnownValuesKept
  BY DEF Init, VerdictOK, KnownValuesKept, Passed
<1> QED BY <1>1, <1>2, <1>3 DEF IInv

\* A row that has not passed leaves nothing to say about it.
LEMMA UnpassedOK ==
    ASSUME IInv, pc \notin Written, pc' \notin {"routed", "done"}, UNCHANGED past, invoice'.status \notin Passed
    PROVE  VerdictOK'
BY DEF IInv, VerdictOK, Passed, Written

LEMMA StartOK == ASSUME IInv, Start PROVE IInv'
<1>1. RowOK'
  BY DEF IInv, RowOK, Start, settings, Stage, Status
<1>2. AnswersOK' /\ SpendOK'
  BY DEF IInv, AnswersOK, SpendOK, Start, settings, Held, Answered, Written, Tiered, Extractor
<1>3. VerdictOK'
  <2>1. invoice'.status \notin Passed /\ pc' \notin {"routed", "done"}
    BY DEF IInv, RowOK, Start, Passed
  <2> QED BY <2>1, UnpassedOK DEF Start, Written
<1>4. KnownValuesKept'
  BY DEF IInv, RowOK, Start, settings, KnownValuesKept
<1> QED BY <1>1, <1>2, <1>3, <1>4 DEF IInv

LEMMA Tier1OK == ASSUME IInv, Tier1Answers PROVE IInv'
<1> PICK a \in Answers("gpt-tier1") :
        /\ reported' = reported + Counted(a.tokens)
        /\ best' = a.confidence
        /\ \/ result' = a /\ pc' = "persist" /\ UNCHANGED first
           \/ first' = a /\ pc' = "escalate" /\ UNCHANGED result
  BY DEF Tier1Answers
<1>1. a \in Answer /\ a \in Kept /\ a.model = "gpt-tier1" /\ Counted(a.tokens) \in Nat
  BY AnswersKept, BarsAssumption DEF Models, Answer, Counted
<1>2. pc = "tier1" /\ UNCHANGED <<invoice, stored, past, wasted, available, requested, tiering, upload>>
  BY DEF Tier1Answers, settings
<1>3. RowOK'
  BY <1>2 DEF IInv, RowOK, Stage
<1>4. AnswersOK'
  BY <1>1, <1>2 DEF IInv, AnswersOK, Answered, Written, Tiered, Extractor
<1>5. SpendOK'
  BY <1>1, <1>2 DEF IInv, SpendOK, Held, Answered, Counted
<1>6. VerdictOK'
  <2>1. invoice'.status \notin Passed
    BY <1>2 DEF IInv, VerdictOK, Written
  <2> QED BY <1>2, <2>1, UnpassedOK DEF Written
<1>7. KnownValuesKept'
  BY <1>2 DEF IInv, KnownValuesKept
<1> QED BY <1>3, <1>4, <1>5, <1>6, <1>7 DEF IInv

LEMMA PrimaryOK == ASSUME IInv, PrimaryAnswers PROVE IInv'
<1> PICK a \in Answers(PrimaryModel) :
        /\ reported' = reported + Counted(a.tokens)
        /\ result' = IF pc = "escalate" THEN KeepAnswer(a) ELSE a
        /\ best' = IF a.confidence > best THEN a.confidence ELSE best
  BY DEF PrimaryAnswers
<1>1. /\ a \in Kept /\ a.tokens \in {1, Nothing}
      /\ a.model = "development-extractor" => a.confidence = DevelopmentConfidence
      /\ Tiered => a.model = "gpt"
  BY PrimaryAnswersKept DEF IInv
<1>2. /\ pc \in {"escalate", "extract"} /\ pc' = "persist" /\ first' = Nothing
      /\ UNCHANGED <<invoice, stored, past, wasted, available, requested, tiering, upload>>
  BY DEF PrimaryAnswers, settings
<1>3. RowOK'
  BY <1>2 DEF IInv, RowOK, Stage
<1>4. /\ result' \in Kept /\ best' = result'.confidence
      /\ result'.model = "development-extractor" => result'.confidence = DevelopmentConfidence
      /\ Counted(result'.tokens) = Counted(a.tokens) + Held
      /\ Counted(a.tokens) \in Nat /\ Held \in Nat
  <2>1. CASE pc = "escalate"
    <3>1. first \in Answer /\ first.model = "gpt-tier1" /\ best = first.confidence /\ Tiered
      BY <2>1 DEF IInv, AnswersOK
    <3>2. first.confidence \in Nat /\ Counted(first.tokens) \in Nat /\ Counted(a.tokens) \in Nat
      BY <1>1, <3>1, BarsAssumption DEF Answer, Counted
    <3>3. Held = Counted(first.tokens)
      BY <2>1 DEF Held, Answered
    <3>4. a.confidence \in Nat
      BY <1>1 DEF Kept
    <3> QED BY <1>1, <2>1, <3>1, <3>2, <3>3, <3>4, KeepAnswerOK
  <2>2. CASE pc = "extract"
    <3>1. best = 0 /\ Held = 0
      BY <2>2 DEF IInv, AnswersOK, Held, Answered
    <3>2. a.confidence \in Nat /\ Counted(a.tokens) \in Nat
      BY <1>1, BarsAssumption DEF Kept, Counted
    <3> QED BY <1>1, <2>2, <3>1, <3>2
  <2> QED BY <1>2, <2>1, <2>2
<1>5. AnswersOK'
  BY <1>2, <1>4 DEF IInv, AnswersOK, Answered, Written
<1>6. SpendOK'
  <2>1. Held' = Counted(result'.tokens)
    BY <1>2 DEF Held, Answered, Counted
  <2> QED BY <1>2, <1>4, <2>1 DEF IInv, SpendOK
<1>7. VerdictOK'
  <2>1. invoice'.status \notin Passed
    BY <1>2 DEF IInv, VerdictOK, Written
  <2> QED BY <1>2, <2>1, UnpassedOK DEF Written
<1>8. KnownValuesKept'
  BY <1>2 DEF IInv, KnownValuesKept
<1> QED BY <1>3, <1>5, <1>6, <1>7, <1>8 DEF IInv

LEMMA CallFailsOK ==
    ASSUME IInv, NEW retryable \in BOOLEAN, NEW garbled \in BOOLEAN, CallFails(retryable, garbled)
    PROVE  IInv'
<1>1. /\ pc \in {"tier1", "escalate", "extract"} /\ pc' \in {"queued", "failed"}
      /\ invoice' = [invoice EXCEPT !.status = pc'] /\ first' = Nothing
      /\ UNCHANGED <<result, stored, past, best, available, requested, tiering, upload>>
  BY DEF CallFails, Ends, settings
<1>2. RowOK' /\ KnownValuesKept'
  BY <1>1 DEF IInv, RowOK, Stage, Status, KnownValuesKept
<1>3. AnswersOK'
  BY <1>1 DEF IInv, AnswersOK, Answered, Written
<1>4. SpendOK'
  <2>1. Held \in Nat /\ Held = IF first = Nothing THEN 0 ELSE Counted(first.tokens)
    BY <1>1, NothingAssumption, BarsAssumption DEF IInv, AnswersOK, Held, Answered, Answer, Counted
  <2>2. /\ reported' \in Nat /\ reported' >= reported
        /\ wasted' = wasted + (reported' - reported) + Held
    BY <2>1 DEF IInv, SpendOK, CallFails
  <2>3. Held' = 0
    BY <1>1 DEF Held, Answered
  <2> QED BY <2>1, <2>2, <2>3 DEF IInv, SpendOK
<1>5. VerdictOK'
  <2>1. invoice'.status \notin Passed
    BY <1>1 DEF IInv, RowOK, Passed
  <2> QED BY <1>1, <2>1, UnpassedOK DEF Written
<1> QED BY <1>2, <1>3, <1>4, <1>5 DEF IInv

LEMMA PersistOK == ASSUME IInv, Persist PROVE IInv'
<1>1. /\ pc = "persist" /\ pc' = "persisted" /\ stored' = result
      /\ invoice' = [total |-> MergedTotal(result),
                     status |-> IF EveryRulePasses(result) THEN "validation_passed"
                                ELSE "review_required"]
      /\ UNCHANGED <<first, result, past, best, reported, wasted, available, requested, tiering, upload>>
  BY DEF Persist, settings
<1>2. result \in Kept
  BY <1>1 DEF IInv, AnswersOK, Answered
<1>3. RowOK' /\ KnownValuesKept'
  BY <1>1, <1>2 DEF IInv, RowOK, Stage, Status, KnownValuesKept, MergedTotal, Kept
<1>4. AnswersOK' /\ SpendOK'
  BY <1>1 DEF IInv, AnswersOK, SpendOK, Held, Counted, Answered, Written
<1>5. VerdictOK'
  <2>1. past' = Nothing
    BY <1>1 DEF IInv, VerdictOK
  <2>2. invoice'.status \in Passed => EveryRulePasses(result)'
    BY <1>1 DEF Passed, EveryRulePasses
  <2>3. EveryRulePasses(result) => result.total = 0 \/ invoice'.total = result.total
    BY <1>1 DEF EveryRulePasses, MergedTotal
  <2> QED BY <1>1, <2>1, <2>2, <2>3 DEF VerdictOK, Passed, Written, EveryRulePasses
<1> QED BY <1>3, <1>4, <1>5 DEF IInv

LEMMA PersistFailsOK == ASSUME IInv, PersistFails PROVE IInv'
<1>1. /\ pc = "persist" /\ pc' \in {"queued", "failed"}
      /\ invoice' = [invoice EXCEPT !.status = pc']
      /\ wasted' = wasted + Counted(result.tokens)
      /\ UNCHANGED <<first, stored, past, reported, available, requested, tiering, upload>>
  BY DEF PersistFails, Ends, settings
<1>2. RowOK' /\ KnownValuesKept'
  BY <1>1 DEF IInv, RowOK, Stage, Status, KnownValuesKept
<1>3. AnswersOK'
  BY <1>1 DEF IInv, AnswersOK, Answered, Written
<1>4. SpendOK'
  <2>1. result \in Kept /\ Held = Counted(result.tokens)
    BY <1>1 DEF IInv, AnswersOK, Answered, Held
  <2>2. Counted(result.tokens) \in Nat
    BY <2>1 DEF Kept, Counted
  <2>3. Held' = 0
    BY <1>1 DEF Held, Answered
  <2> QED BY <1>1, <2>1, <2>2, <2>3 DEF IInv, SpendOK
<1>5. VerdictOK'
  <2>1. invoice'.status \notin Passed
    BY <1>1 DEF IInv, RowOK, Passed
  <2> QED BY <1>1, <2>1, UnpassedOK DEF Written
<1> QED BY <1>2, <1>3, <1>4, <1>5 DEF IInv

LEMMA DetectOK == ASSUME IInv, DetectAnomalies PROVE IInv'
<1>1. /\ pc = "persisted" /\ pc' = "routed"
      /\ UNCHANGED <<first, result, stored, best, reported, wasted, available, requested, tiering, upload>>
  BY DEF DetectAnomalies, settings
<1>2. /\ invoice' = invoice \/ invoice' = [invoice EXCEPT !.status = "review_required"]
      /\ past' = past \/ (invoice'.status = "validation_passed" => ~AmountOutlier(past'))
  <2>1. CASE UNCHANGED <<past, invoice>>
    BY <2>1
  <2>2. CASE \E history \in Histories, otherFlag \in BOOLEAN :
                /\ past' = history
                /\ invoice' = IF invoice.status = "validation_passed"
                                 /\ (otherFlag \/ AmountOutlier(history))
                              THEN [invoice EXCEPT !.status = "review_required"] ELSE invoice
    BY <2>2 DEF IInv, RowOK
  <2> QED BY <2>1, <2>2 DEF DetectAnomalies
<1>3. invoice'.total = invoice.total /\ invoice'.status \in {invoice.status, "review_required"}
      /\ invoice.status # "approved"
  BY <1>1, <1>2 DEF IInv, RowOK, VerdictOK
<1>4. RowOK' /\ KnownValuesKept'
  BY <1>1, <1>2 DEF IInv, RowOK, Stage, Status, KnownValuesKept
<1>5. AnswersOK' /\ SpendOK'
  BY <1>1 DEF IInv, AnswersOK, SpendOK, Held, Counted, Answered, Written
<1>6. VerdictOK'
  <2>1. SUFFICES ASSUME invoice'.status \in Passed PROVE VerdictOK'
    BY <1>1 DEF VerdictOK, Passed
  <2>2. invoice.status = "validation_passed" /\ invoice'.status = "validation_passed"
    BY <1>3, <2>1 DEF Passed
  <2>3. EveryRulePasses(result)' /\ (result'.total = 0 \/ invoice'.total = result'.total)
    BY <1>1, <1>3, <2>2 DEF IInv, VerdictOK, Passed, EveryRulePasses
  <2>4. past' # Nothing => ~AmountOutlier(past')
    BY <1>1, <1>2, <2>2 DEF IInv, VerdictOK
  <2>5. past' # Nothing => ~AmountOutlier(past)'
    BY <1>1, <1>3, <2>4 DEF AmountOutlier
  <2> QED BY <1>1, <2>2, <2>3, <2>5 DEF VerdictOK, Passed, Written
<1> QED BY <1>4, <1>5, <1>6 DEF IInv

LEMMA DecideOK == ASSUME IInv, MaybeAutoApprove PROVE IInv'
<1>1. /\ pc = "routed" /\ pc' = "done"
      /\ invoice' = IF invoice.status = "validation_passed" /\ ConfidenceMet(result)
                    THEN [invoice EXCEPT !.status = "approved"] ELSE invoice
      /\ UNCHANGED <<first, result, stored, past, best, reported, wasted, available, requested, tiering, upload>>
  BY DEF MaybeAutoApprove, settings
<1>2. /\ invoice'.total = invoice.total
      /\ invoice'.status \in Passed => invoice.status \in Passed
      /\ invoice'.status = "approved" => ConfidenceMet(result)
  BY <1>1 DEF IInv, RowOK, VerdictOK, Passed
<1>3. RowOK' /\ KnownValuesKept'
  BY <1>1 DEF IInv, RowOK, Stage, Status, KnownValuesKept
<1>4. AnswersOK' /\ SpendOK'
  BY <1>1 DEF IInv, AnswersOK, SpendOK, Held, Counted, Answered, Written
<1>5. VerdictOK'
  <2>1. invoice'.status \in Passed => EveryRulePasses(result)'
    BY <1>1, <1>2 DEF IInv, VerdictOK, EveryRulePasses
  <2>2. invoice'.status \in Passed /\ past' # Nothing => ~AmountOutlier(past)'
    BY <1>1, <1>2 DEF IInv, VerdictOK, AmountOutlier
  <2>3. invoice'.status = "approved" => ConfidenceMet(result)'
    BY <1>1, <1>2 DEF ConfidenceMet
  <2> QED BY <1>1, <1>2, <2>1, <2>2, <2>3 DEF IInv, VerdictOK, Written
<1> QED BY <1>3, <1>4, <1>5 DEF IInv

LEMMA NextOK == IInv /\ [Next]_vars => IInv'
<1> SUFFICES ASSUME IInv, [Next]_vars PROVE IInv'
  OBVIOUS
<1>1. CASE UNCHANGED vars
  <2>1. RowOK' /\ AnswersOK' /\ SpendOK' /\ KnownValuesKept'
    BY <1>1 DEF vars, settings, IInv, RowOK, AnswersOK, SpendOK, Held, Counted, KnownValuesKept,
                Tiered, Extractor
  <2>2. VerdictOK'
    BY <1>1 DEF vars, settings, IInv, VerdictOK, EveryRulePasses, ConfidenceMet, AmountOutlier
  <2> QED BY <2>1, <2>2 DEF IInv
<1>2. CASE Next
  BY <1>1, <1>2, StartOK, Tier1OK, PrimaryOK, CallFailsOK, PersistOK, PersistFailsOK,
     DetectOK, DecideOK DEF Next, Ended
<1> QED BY <1>1, <1>2

\* The inductive invariant behind the theorems below.
THEOREM Invariance == Spec => []IInv
BY InitOK, NextOK, PTL DEF Spec

\* Every token a provider reported is on the stored row or of a failed attempt.
THEOREM SpendIsAccounted == Spec => []SpendAccounted
<1>1. ASSUME IInv, pc = "done" PROVE Counted(stored.tokens) + wasted = reported
  <2>1. Held = Counted(stored.tokens) /\ result \in Kept /\ stored = result
    BY <1>1 DEF IInv, AnswersOK, Held, Answered, Written
  <2>2. Counted(stored.tokens) \in Nat
    BY <2>1 DEF Kept, Counted
  <2> QED BY <1>1, <2>1, <2>2 DEF IInv, SpendOK
<1>2. IInv => SpendAccounted
  BY <1>1 DEF SpendAccounted
<1> QED BY <1>2, Invariance, PTL

\* Of the answers of an attempt the most confident one is stored.
THEOREM MostConfidentIsKept == Spec => []MostConfidentKept
<1>1. IInv => MostConfidentKept
  BY DEF IInv, AnswersOK, Answered, Written, MostConfidentKept
<1> QED BY <1>1, Invariance, PTL

\* An invoice approved without a person met every bar, as its row stands.
THEOREM TouchlessMeetsTheBars == Spec => []TouchlessIsSound
<1>1. IInv => TouchlessIsSound
  BY DEF IInv, AnswersOK, VerdictOK, Passed, Written, EveryRulePasses, ConfidenceMet, TouchlessIsSound
<1> QED BY <1>1, Invariance, PTL

\* What the development extractor echoes never passes validation.
THEOREM EchoNeedsAPerson == Spec => []NoPassByDevelopment
<1>1. IInv => NoPassByDevelopment
  BY DEF IInv, AnswersOK, VerdictOK, Passed, Written, Answered, EveryRulePasses, NoPassByDevelopment,
         DevelopmentConfidence, ReviewConfidence
<1> QED BY <1>1, Invariance, PTL

\* A total that was known before the worker's first attempt is never lost.
THEOREM KnownValuesStay == Spec => []KnownValuesKept
<1>1. IInv => KnownValuesKept
  BY DEF IInv
<1> QED BY <1>1, Invariance, PTL
=============================================================================
