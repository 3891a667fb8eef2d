------------------------- MODULE SimilarityProofs -------------------------
(***************************************************************************)
(* Two near-duplicates are never both approved without a person: proved    *)
(* for every set of invoices, texts and models and every nearness relation. *)
(***************************************************************************)
EXTENDS Similarity, FiniteSetTheorems, TLAPS

Compared == {"flagging", "deciding", "done"}

\* A result is the vector of the invoice's own text by its worker's model, and
\* the row is written once, after the lookup and before the comparison.
ResultsOK ==
    /\ \A i \in Invoices : stage[i] = "storing" => result[i] # None
    /\ \A i \in Invoices : result[i] # None =>
          result[i].text = text[i] /\ result[i].model = using[i]
    /\ \A i \in Invoices : stage[i] = "queued" => result[i] = None
    /\ \A i \in Invoices : stage[i] \in {"queued", "looking", "calling", "storing"} => embedding[i] = None

\* Of two near-duplicates that have both been compared, one was found: the
\* later comparison saw the row of the other.
PairOK ==
    \A i, j \in Invoices :
        (/\ stage[i] \in Compared /\ stage[j] \in Compared
         /\ i \notin missed /\ j \notin missed
         /\ Twins(i, j))
        => found[i] # {} \/ found[j] # {}

\* An invoice something was found about is demoted before anything is decided.
DemotedOK ==
    /\ \A i \in Invoices : stage[i] \notin Compared => i \notin touchless
    /\ \A i \in Invoices : (i \notin missed /\ found[i] # {}) => i \notin touchless
    /\ \A i \in Invoices : (i \notin missed /\ found[i] # {} /\ stage[i] = "deciding")
                              => status[i] # "validation_passed"

IInv == TypeOK /\ VectorsAreOfTheirText /\ ResultsOK /\ PairOK /\ DemotedOK


LEMMA CloseIsSymmetric ==
    ASSUME NEW e \in Embeddings \union {None}, NEW f \in Embeddings \union {None}, Close(e, f)
    PROVE  Close(f, e)
<1>1. e \in Embeddings /\ f \in Embeddings
  BY DEF Close
<1> QED BY <1>1, NearAssumption DEF Close, Embeddings

LEMMA InitOK == Init => IInv
<1> SUFFICES ASSUME Init PROVE IInv
  OBVIOUS
<1>1. TypeOK
  BY DEF Init, TypeOK, Stages, Status
<1>2. VectorsAreOfTheirText /\ ResultsOK /\ PairOK /\ DemotedOK
  BY DEF Init, VectorsAreOfTheirText, ResultsOK, PairOK, DemotedOK, Compared
<1> QED BY <1>1, <1>2 DEF IInv

\* A step of i that only moves it among the stages before the comparison, with
\* the row not yet written.
LEMMA EarlyStepOK ==
    ASSUME IInv, NEW i \in Invoices, NEW s \in {"looking", "calling", "storing"},
           stage[i] \in {"queued", "looking", "calling"}, Goto(i, s),
           status' \in [Invoices -> Status], using' \in [Invoices -> Models],
           result' \in [Invoices -> Embeddings \union {None}],
           \A j \in Invoices : j # i => status'[j] = status[j] /\ using'[j] = using[j] /\ result'[j] = result[j],
           s = "storing" => result'[i] # None,
           result'[i] # None => result'[i].text = text[i] /\ result'[i].model = using'[i],
           UNCHANGED <<text, model, embedding, found, missed, touchless>>
    PROVE  IInv'
<1>s. \A j \in Invoices : stage'[j] = IF j = i THEN s ELSE stage[j]
  BY DEF IInv, TypeOK, Goto
<1>1. TypeOK'
  BY DEF IInv, TypeOK, Goto, Stages
<1>2. VectorsAreOfTheirText'
  BY DEF IInv, TypeOK, VectorsAreOfTheirText, ResultsOK
<1>3. ResultsOK'
  BY <1>s DEF IInv, TypeOK, ResultsOK
<1>4. PairOK'
  BY <1>s DEF IInv, TypeOK, PairOK, Compared, Twins, Close
<1>5. DemotedOK'
  BY <1>s DEF IInv, TypeOK, DemotedOK, Compared
<1> QED BY <1>1, <1>2, <1>3, <1>4, <1>5 DEF IInv

LEMMA CommitExtractionOK == ASSUME IInv, NEW i \in Invoices, CommitExtraction(i) PROVE IInv'
<1>1. /\ stage[i] = "queued" /\ Goto(i, "looking") /\ result[i] = None
      /\ status' \in [Invoices -> Status] /\ using' \in [Invoices -> Models]
      /\ \A j \in Invoices : j # i => status'[j] = status[j] /\ using'[j] = using[j]
      /\ UNCHANGED <<text, model, result, embedding, found, missed, touchless>>
  BY DEF IInv, TypeOK, CommitExtraction, ResultsOK, Status
<1>2. result' \in [Invoices -> Embeddings \union {None}]
  BY <1>1 DEF IInv, TypeOK
<1> QED BY <1>1, <1>2, EarlyStepOK

LEMMA ReuseEmbeddingOK == ASSUME IInv, NEW i \in Invoices, ReuseEmbedding(i) PROVE IInv'
<1>1. PICK j \in Reusable(i) : result' = [result EXCEPT ![i] = ReusedResult(i, j)]
  BY DEF ReuseEmbedding
<1>2. j \in Invoices /\ embedding[j] \in Embeddings /\ embedding[j].model = using[i] /\ embedding[j].text = text[i]
  BY <1>1 DEF Reusable, IInv, TypeOK
<1>3. /\ ReusedResult(i, j) \in Embeddings
      /\ ReusedResult(i, j).text = text[i] /\ ReusedResult(i, j).model = using[i]
  BY <1>2 DEF ReusedResult, Embeddings
<1>4. ReusedResult(i, j) # None
  BY <1>3, NoneAssumption DEF Embeddings
<1>5. /\ result' \in [Invoices -> Embeddings \union {None}]
      /\ result'[i] = ReusedResult(i, j)
      /\ \A k \in Invoices : k # i => result'[k] = result[k]
  BY <1>1, <1>3 DEF IInv, TypeOK
<1>6. /\ stage[i] = "looking" /\ Goto(i, "storing")
      /\ UNCHANGED <<text, status, using, model, embedding, found, missed, touchless>>
      /\ status' \in [Invoices -> Status] /\ using' \in [Invoices -> Models]
  BY DEF ReuseEmbedding, IInv, TypeOK
<1> QED BY <1>3, <1>4, <1>5, <1>6, EarlyStepOK

LEMMA NothingToReuseOK == ASSUME IInv, NEW i \in Invoices, NothingToReuse(i) PROVE IInv'
<1>1. /\ stage[i] = "looking" /\ Goto(i, "calling")
      /\ UNCHANGED <<text, status, using, model, result, embedding, found, missed, touchless>>
      /\ status' \in [Invoices -> Status] /\ using' \in [Invoices -> Models]
      /\ result' \in [Invoices -> Embeddings \union {None}]
  BY DEF NothingToReuse, IInv, TypeOK
<1>2. result'[i] # None => result'[i].text = text[i] /\ result'[i].model = using'[i]
  BY <1>1 DEF IInv, ResultsOK
<1> QED BY <1>1, <1>2, EarlyStepOK

LEMMA CallProviderOK == ASSUME IInv, NEW i \in Invoices, CallProvider(i) PROVE IInv'
<1> DEFINE new == [model |-> using[i], text |-> text[i], paid |-> TRUE]
<1>0. new \in Embeddings
  BY DEF IInv, TypeOK, Embeddings
<1>1. new \in Embeddings /\ new # None
  BY <1>0, NoneAssumption DEF Embeddings
<1>2. /\ stage[i] = "calling" /\ Goto(i, "storing") /\ result' = [result EXCEPT ![i] = new]
      /\ UNCHANGED <<text, status, using, model, embedding, found, missed, touchless>>
      /\ status' \in [Invoices -> Status] /\ using' \in [Invoices -> Models]
  BY DEF CallProvider, IInv, TypeOK
<1>3. /\ result' \in [Invoices -> Embeddings \union {None}] /\ result'[i] = new
      /\ \A k \in Invoices : k # i => result'[k] = result[k]
  BY <1>1, <1>2 DEF IInv, TypeOK
<1>4. new.text = text[i] /\ new.model = using[i]
  OBVIOUS
<1> HIDE DEF new
<1>5. using' = using /\ text' = text /\ status' = status
  BY <1>2
<1> QED BY <1>1, <1>2, <1>3, <1>4, <1>5, EarlyStepOK

LEMMA StoreEmbeddingOK == ASSUME IInv, NEW i \in Invoices, StoreEmbedding(i) PROVE IInv'
<1>s. \A j \in Invoices : stage'[j] = IF j = i THEN "comparing" ELSE stage[j]
  BY DEF IInv, TypeOK, StoreEmbedding, Goto
<1>e. \A j \in Invoices : embedding'[j] = IF j = i THEN result[i] ELSE embedding[j]
  BY DEF IInv, TypeOK, StoreEmbedding
<1>1. TypeOK'
  BY DEF IInv, TypeOK, StoreEmbedding, Goto, Stages
<1>2. VectorsAreOfTheirText'
  BY <1>e DEF IInv, TypeOK, StoreEmbedding, VectorsAreOfTheirText, ResultsOK
<1>3. ResultsOK'
  BY <1>s, <1>e DEF IInv, TypeOK, StoreEmbedding, ResultsOK
<1>4. PairOK'
  BY <1>s, <1>e DEF IInv, TypeOK, StoreEmbedding, PairOK, Compared, Twins, Close
<1>5. DemotedOK'
  BY <1>s DEF IInv, TypeOK, StoreEmbedding, DemotedOK, Compared
<1> QED BY <1>1, <1>2, <1>3, <1>4, <1>5 DEF IInv

LEMMA EmbeddingFailsOK == ASSUME IInv, NEW i \in Invoices, EmbeddingFails(i) PROVE IInv'
<1>s. \A j \in Invoices : stage'[j] = IF j = i THEN "comparing" ELSE stage[j]
  BY DEF IInv, TypeOK, EmbeddingFails, Goto
<1>1. TypeOK'
  BY DEF IInv, TypeOK, EmbeddingFails, Goto, Stages
<1>2. VectorsAreOfTheirText' /\ ResultsOK' /\ DemotedOK'
  BY <1>s DEF IInv, TypeOK, EmbeddingFails, VectorsAreOfTheirText, ResultsOK, DemotedOK, Compared
<1>3. PairOK'
  BY <1>s DEF IInv, TypeOK, EmbeddingFails, PairOK, Compared, Twins, Close
<1> QED BY <1>1, <1>2, <1>3 DEF IInv

LEMMA DetectAnomaliesOK == ASSUME IInv, NEW i \in Invoices, DetectAnomalies(i) PROVE IInv'
<1>u. PICK unusual \in BOOLEAN :
        /\ found' = [found EXCEPT ![i] = Detected(i, unusual)]
        /\ Goto(i, IF Detected(i, unusual) = {} THEN "deciding" ELSE "flagging")
  BY DEF DetectAnomalies
<1>d. Detected(i, unusual) \subseteq Rules /\ (NearDuplicate(i) => Detected(i, unusual) # {})
  BY DEF Detected, Rules
<1> DEFINE F == Detected(i, unusual)
<1> HIDE DEF F
<1>f. /\ F \subseteq Rules /\ (NearDuplicate(i) => F # {})
      /\ found' = [found EXCEPT ![i] = F]
      /\ stage' = [stage EXCEPT ![i] = IF F = {} THEN "deciding" ELSE "flagging"]
      /\ stage[i] = "comparing"
      /\ UNCHANGED <<text, status, model, using, result, embedding, missed, touchless>>
  BY <1>u, <1>d DEF F, Goto, DetectAnomalies
<1>s. \A j \in Invoices : stage'[j] = IF j = i THEN (IF F = {} THEN "deciding" ELSE "flagging") ELSE stage[j]
  BY <1>f DEF IInv, TypeOK
<1>g. \A j \in Invoices : found'[j] = IF j = i THEN F ELSE found[j]
  BY <1>f DEF IInv, TypeOK
<1>1. TypeOK'
  BY <1>f DEF IInv, TypeOK, Stages
<1>2. VectorsAreOfTheirText' /\ ResultsOK'
  BY <1>f, <1>s DEF IInv, VectorsAreOfTheirText, ResultsOK
<1>3. PairOK'
  <2>1. SUFFICES ASSUME NEW j \in Invoices, NEW k \in Invoices,
                        stage'[j] \in Compared, stage'[k] \in Compared,
                        j \notin missed, k \notin missed, j # k, Close(embedding[j], embedding[k])
                 PROVE  found'[j] # {} \/ found'[k] # {}
    BY <1>f DEF PairOK, Twins
  <2>2. CASE j = i
    BY <1>f, <1>g, <2>1, <2>2 DEF NearDuplicate
  <2>3. CASE k = i
    <3>1. Close(embedding[k], embedding[j])
      BY <2>1, CloseIsSymmetric DEF IInv, TypeOK
    <3> QED BY <1>f, <1>g, <2>1, <2>3, <3>1 DEF NearDuplicate
  <2>4. CASE j # i /\ k # i
    BY <1>s, <1>g, <2>1, <2>4 DEF IInv, PairOK, Twins
  <2> QED BY <2>2, <2>3, <2>4
<1>4. DemotedOK'
  BY <1>f, <1>s, <1>g DEF IInv, DemotedOK, Compared
<1> QED BY <1>1, <1>2, <1>3, <1>4 DEF IInv

LEMMA ApplyAnomalyFlagsOK == ASSUME IInv, NEW i \in Invoices, ApplyAnomalyFlags(i) PROVE IInv'
<1>s. \A j \in Invoices : stage'[j] = IF j = i THEN "deciding" ELSE stage[j]
  BY DEF IInv, TypeOK, ApplyAnomalyFlags, Goto
<1>t. /\ status'[i] # "validation_passed"
      /\ \A j \in Invoices : j # i => status'[j] = status[j]
  BY DEF IInv, TypeOK, ApplyAnomalyFlags
<1>1. TypeOK'
  BY DEF IInv, TypeOK, ApplyAnomalyFlags, Goto, Stages, Status
<1>2. VectorsAreOfTheirText' /\ ResultsOK'
  BY <1>s DEF IInv, ApplyAnomalyFlags, VectorsAreOfTheirText, ResultsOK
<1>3. PairOK'
  BY <1>s DEF IInv, ApplyAnomalyFlags, PairOK, Compared, Twins, Close
<1>4. DemotedOK'
  BY <1>s, <1>t DEF IInv, ApplyAnomalyFlags, DemotedOK, Compared
<1> QED BY <1>1, <1>2, <1>3, <1>4 DEF IInv

LEMMA DetectionFailsOK == ASSUME IInv, NEW i \in Invoices, DetectionFails(i) PROVE IInv'
<1>s. \A j \in Invoices : stage'[j] = IF j = i THEN "deciding" ELSE stage[j]
  BY DEF IInv, TypeOK, DetectionFails, Goto
<1>1. TypeOK'
  BY DEF IInv, TypeOK, DetectionFails, Goto, Stages
<1>2. VectorsAreOfTheirText' /\ ResultsOK'
  BY <1>s DEF IInv, DetectionFails, VectorsAreOfTheirText, ResultsOK
<1>3. PairOK'
  BY <1>s DEF IInv, DetectionFails, PairOK, Compared, Twins, Close
<1>4. DemotedOK'
  BY <1>s DEF IInv, DetectionFails, DemotedOK, Compared
<1> QED BY <1>1, <1>2, <1>3, <1>4 DEF IInv

LEMMA DecisionOK ==
    ASSUME IInv, NEW i \in Invoices, MaybeAutoApprove(i) \/ LeaveForReview(i) \/ Review(i)
    PROVE  IInv'
<1>s. \A j \in Invoices : stage'[j] = stage[j] \/ (j = i /\ stage[i] = "deciding" /\ stage'[j] = "done")
  BY DEF IInv, TypeOK, MaybeAutoApprove, LeaveForReview, Review, Goto
<1>f. UNCHANGED <<text, model, using, result, embedding, found, missed>>
  BY DEF MaybeAutoApprove, LeaveForReview, Review
<1>t. \A j \in Invoices : status'[j] = status[j] \/ status'[j] \in {"approved", "rejected"}
  BY DEF IInv, TypeOK, MaybeAutoApprove, LeaveForReview, Review
<1>a. touchless' = touchless \/ (/\ touchless' = touchless \union {i} /\ stage'[i] = "done"
                                 /\ stage[i] = "deciding" /\ status[i] = "validation_passed")
  BY DEF IInv, TypeOK, MaybeAutoApprove, LeaveForReview, Review, Goto
<1>1. TypeOK'
  BY DEF IInv, TypeOK, MaybeAutoApprove, LeaveForReview, Review, Goto, Stages, Status
<1>2. VectorsAreOfTheirText' /\ ResultsOK'
  BY <1>s, <1>f DEF IInv, VectorsAreOfTheirText, ResultsOK
<1>3. PairOK'
  BY <1>s, <1>f DEF IInv, PairOK, Compared, Twins, Close
<1>4. DemotedOK'
  BY <1>s, <1>f, <1>t, <1>a DEF IInv, DemotedOK, Compared
<1> QED BY <1>1, <1>2, <1>3, <1>4 DEF IInv

LEMMA SwitchModelOK == ASSUME IInv, SwitchModel PROVE IInv'
BY DEF SwitchModel, IInv, TypeOK, VectorsAreOfTheirText, ResultsOK, PairOK, Twins, Close, DemotedOK

LEMMA NextOK == IInv /\ [Next]_vars => IInv'
<1> SUFFICES ASSUME IInv, [Next]_vars PROVE IInv'
  OBVIOUS
<1>1. CASE UNCHANGED vars
  BY <1>1 DEF vars, IInv, TypeOK, VectorsAreOfTheirText, ResultsOK, PairOK, Twins, Close, DemotedOK
<1>2. CASE Next
  BY <1>2, CommitExtractionOK, ReuseEmbeddingOK, NothingToReuseOK, CallProviderOK, StoreEmbeddingOK,
     EmbeddingFailsOK, DetectAnomaliesOK, ApplyAnomalyFlagsOK, DetectionFailsOK, DecisionOK, SwitchModelOK
     DEF Next
<1> QED BY <1>1, <1>2

\* The inductive invariant behind the two theorems below.
THEOREM Invariance == Spec => []IInv
BY InitOK, NextOK, PTL DEF Spec

\* Of two near-duplicates whose detections ran, at most one is approved without
\* a person, because each row is committed before its invoice is compared.
THEOREM TwinsMeetAPerson == Spec => []NoTwinsTouchless
<1>1. IInv => NoTwinsTouchless
  BY DEF IInv, TypeOK, PairOK, DemotedOK, NoTwinsTouchless, Compared
<1> QED BY <1>1, Invariance, PTL

\* A stored vector, computed or reused, belongs to the invoice's text and to the
\* model its worker used.
THEOREM ReuseIsSound == Spec => []VectorsAreOfTheirText
<1>1. IInv => VectorsAreOfTheirText
  BY DEF IInv
<1> QED BY <1>1, Invariance, PTL
-----------------------------------------------------------------------------
(* Spend *)

\* Invoices whose row records a spend, or whose worker is about to store one.
Spending ==
    {i \in Invoices : \/ embedding[i] # None /\ embedding[i].paid
                      \/ stage[i] = "storing" /\ result[i] # None /\ result[i].paid}

SpendOK == calls \in Nat /\ IsFiniteSet(Spending) /\ Cardinality(Spending) <= calls

\* A step after which the same invoices spend, or fewer.
LEMMA NoNewSpend ==
    ASSUME SpendOK, Spending' \subseteq Spending, calls' = calls
    PROVE  SpendOK'
<1>1. IsFiniteSet(Spending') /\ Cardinality(Spending') <= Cardinality(Spending)
  BY FS_Subset DEF SpendOK
<1>2. Cardinality(Spending') \in Nat /\ Cardinality(Spending) \in Nat
  BY <1>1, FS_CardinalityType DEF SpendOK
<1> QED BY <1>1, <1>2 DEF SpendOK

\* A call is the only step that adds a spending invoice, and it adds one.
LEMMA CallSpendsOnce == ASSUME IInv, SpendOK, NEW i \in Invoices, CallProvider(i) PROVE SpendOK'
<1>1. Spending' \subseteq Spending \union {i} /\ calls' = calls + 1
  BY DEF CallProvider, Goto, Spending, IInv, TypeOK
<1>2. /\ IsFiniteSet(Spending \union {i})
      /\ Cardinality(Spending \union {i}) <= Cardinality(Spending) + 1
  BY FS_AddElement, FS_CardinalityType DEF SpendOK
<1>3. IsFiniteSet(Spending') /\ Cardinality(Spending') <= Cardinality(Spending \union {i})
  BY <1>1, <1>2, FS_Subset
<1>4. /\ Cardinality(Spending') \in Nat /\ Cardinality(Spending) \in Nat
      /\ Cardinality(Spending \union {i}) \in Nat
  BY <1>2, <1>3, FS_CardinalityType DEF SpendOK
<1> QED BY <1>1, <1>2, <1>3, <1>4 DEF SpendOK

\* A reused vector is copied without its cost, and storing moves the spend from
\* the result to the row.
LEMMA StepSpends == ASSUME IInv, SpendOK, Next PROVE SpendOK'
<1>1. ASSUME NEW i \in Invoices, ReuseEmbedding(i) PROVE SpendOK'
  <2>1. PICK j \in Reusable(i) : result' = [result EXCEPT ![i] = ReusedResult(i, j)]
    BY <1>1 DEF ReuseEmbedding
  <2>2. embedding[j] \in Embeddings
    BY <2>1 DEF Reusable, IInv, TypeOK
  <2>3. ~result'[i].paid /\ \A k \in Invoices \ {i} : result'[k] = result[k]
    BY <2>1, <2>2 DEF ReusedResult, Embeddings, IInv, TypeOK
  <2>4. Spending' \subseteq Spending /\ calls' = calls
    BY <1>1, <2>3 DEF ReuseEmbedding, Goto, Spending, IInv, TypeOK
  <2> QED BY <2>4, NoNewSpend
<1>2. ASSUME NEW i \in Invoices, CallProvider(i) PROVE SpendOK'
  BY <1>2, CallSpendsOnce
<1>3. ASSUME NEW i \in Invoices, StoreEmbedding(i) PROVE SpendOK'
  <2>1. Spending' \subseteq Spending /\ calls' = calls
    BY <1>3 DEF StoreEmbedding, Goto, Spending, IInv, TypeOK
  <2> QED BY <2>1, NoNewSpend
<1>4. ASSUME NEW i \in Invoices,
             \/ CommitExtraction(i) \/ NothingToReuse(i) \/ EmbeddingFails(i)
             \/ DetectAnomalies(i) \/ ApplyAnomalyFlags(i) \/ DetectionFails(i)
             \/ MaybeAutoApprove(i) \/ LeaveForReview(i) \/ Review(i)
      PROVE  SpendOK'
  <2>1. \A k \in Invoices : stage'[k] = "storing" => stage[k] = "storing"
    BY <1>4 DEF CommitExtraction, NothingToReuse, EmbeddingFails, DetectAnomalies, ApplyAnomalyFlags,
       DetectionFails, MaybeAutoApprove, LeaveForReview, Review, Goto, IInv, TypeOK
  <2>2. UNCHANGED <<embedding, result, calls>>
    BY <1>4 DEF CommitExtraction, NothingToReuse, EmbeddingFails, DetectAnomalies, ApplyAnomalyFlags,
       DetectionFails, MaybeAutoApprove, LeaveForReview, Review
  <2>3. Spending' \subseteq Spending
    BY <2>1, <2>2 DEF Spending
  <2> QED BY <2>2, <2>3, NoNewSpend
<1>5. ASSUME SwitchModel PROVE SpendOK'
  <2>1. Spending' \subseteq Spending /\ calls' = calls
    BY <1>5 DEF SwitchModel, Spending
  <2> QED BY <2>1, NoNewSpend
<1> QED BY <1>1, <1>2, <1>3, <1>4, <1>5 DEF Next

\* However many rows are copied from one another: the rows that record a spend
\* are never more than the provider calls that were made.
THEOREM SpendIsCountedOnce == Spec => []SpendCountedOnce
<1>1. Init => SpendOK
  <2>1. Init => Spending = {} /\ calls = 0
    BY DEF Init, Spending
  <2> QED BY <2>1, FS_EmptySet DEF SpendOK
<1>2. IInv /\ SpendOK /\ [Next]_vars => SpendOK'
  <2>1. UNCHANGED vars /\ SpendOK => SpendOK'
    BY NoNewSpend DEF vars, Spending
  <2> QED BY <2>1, StepSpends
<1>3. SpendOK => SpendCountedOnce
  <2>1. SUFFICES ASSUME SpendOK PROVE SpendCountedOnce
    OBVIOUS
  <2> DEFINE P == {i \in Invoices : embedding[i] # None /\ embedding[i].paid}
  <2>2. IsFiniteSet(P) /\ Cardinality(P) <= Cardinality(Spending)
    <3>1. P \subseteq Spending
      BY DEF Spending
    <3> QED BY <2>1, <3>1, FS_Subset DEF SpendOK
  <2>3. Cardinality(P) \in Nat /\ Cardinality(Spending) \in Nat /\ calls \in Nat /\ Cardinality(Spending) <= calls
    BY <2>1, <2>2, FS_CardinalityType DEF SpendOK
  <2>4. Cardinality(P) <= calls
    BY <2>2, <2>3
  <2> QED BY <2>4 DEF SpendCountedOnce
<1> QED BY <1>1, <1>2, <1>3, Invariance, PTL DEF Spec
=============================================================================
