--------------------------- MODULE AnswerPath_proofs ---------------------------
(***************************************************************************)
(* Theorems about AnswerPath, for any number of attempts, any set of error *)
(* statuses, cases, answers and judges.                                    *)
(*                                                                         *)
(* Which failures a call goes on after is a matter of the tables of the    *)
(* adapters (TransientStatus); how many requests it sends needs a count in *)
(* every phase (Counted).  That no answer slips through follows from what  *)
(* Decide returns, whatever the weighted sums are, and from the verdict    *)
(* being that of the scores (Decided).                                     *)
(***************************************************************************)
EXTENDS AnswerPath, FiniteSetTheorems, SumTheorems, TLAPS

\* While a reply is awaited the SDK may still repeat the request.
Counted ==
  /\ hidden <= SdkRetries(provider)
  /\ attempt <= requests
  /\ requests <= attempt * (1 + SdkRetries(provider))
  /\ phase = "waiting" =>
       requests + (SdkRetries(provider) - hidden) <= attempt * (1 + SdkRetries(provider))

Decided == phase = "judged" => /\ case \in Cases
                               /\ verdict = Decide(case.category, ScoresOf(case, answer))

CallInv == TypeOK /\ RetriesForCause /\ Counted /\ Decided

-----------------------------------------------------------------------------
(* Tables *)

\* An HTTP status that an adapter makes a transient error of is not one that
\* must not be retried, one that it makes another error of is not safe to retry
\* but for the 408, and every error it makes is of a known class.
LEMMA TransientStatus ==
  ASSUME NEW p \in Providers, NEW r \in Replies, ~IsAnswer(p, r)
  PROVE  /\ ErrorOf(p, r) \in Transient \cup Final \cup Unexpected
         /\ ErrorOf(p, r) \in Transient => r \notin NotRetried \cup Completions
         /\ ErrorOf(p, r) \notin Transient /\ r \in Retried => r = 408 /\ p # "google"
<1> USE DEF Transient, Final, Unexpected, Completions, Ok, Empty, Unmetered, Unreachable
<1>1. CASE r \in Completions
  BY <1>1 DEF ErrorOf, IsAnswer, Normalise, OpenAINormalise, GeminiNormalise, AnthropicNormalise,
              Retried
<1>2. CASE r \notin Completions
  <2>1. ErrorOf(p, r) = StatusError(p, r)
    BY <1>2 DEF ErrorOf
  <2>2. ASSUME NEW R, R \cap {400, 403, 404, 422} = {}
        PROVE  /\ SdkError(r, R) \in Transient \cup Final
               /\ SdkError(r, R) \in Transient => r \notin NotRetried
    BY <2>2 DEF SdkError, NotRetried
  <2>3. ASSUME NEW R, {500, 502, 503, 504} \subseteq R, r \in Retried,
               SdkError(r, R) \notin Transient
        PROVE  r = 408 /\ 408 \notin R
    BY <2>3 DEF SdkError, Retried
  <2>4. ErrorOf(p, r) \in Transient \cup Final /\ (ErrorOf(p, r) \in Transient => r \notin NotRetried)
    BY <2>1, <2>2 DEF StatusError, OpenAIError, GeminiError, AnthropicError
  <2>5. ErrorOf(p, r) \notin Transient /\ r \in Retried => r = 408 /\ p # "google"
    BY <2>1, <2>3 DEF StatusError, OpenAIError, GeminiError, AnthropicError
  <2> QED
    BY <1>2, <2>4, <2>5
<1> QED
  BY <1>1, <1>2

\* An SDK that repeats does so twice.
LEMMA RetriesByProvider ==
  ASSUME NEW p PROVE SdkRetries(p) \in {0, 2}
BY DEF SdkRetries

\* The statuses a failure is recorded with.
LEMMA StatusTypes ==
  ASSUME NEW r \in Replies
  PROVE  (IF r \in Completions THEN 0 ELSE r) \in Replies
BY DEF Replies, Unreachable

-----------------------------------------------------------------------------
(* Verdicts *)

\* Whatever the sums come to, a verdict is one, and a blocking category with a
\* failed score fails.
LEMMA DecideType ==
  ASSUME NEW category, NEW scores
  PROVE  /\ Decide(category, scores) \in Verdicts
         /\ scores # {} /\ Blocked(category, scores) =>
              Decide(category, scores).status = "FAIL"
         /\ scores = {} => Decide(category, scores) = Inconclusive
<1>1. Status(category, scores) \in {"PASS", "WARN", "FAIL"}
  BY DEF Status
<1>2. Unsure(scores) \in BOOLEAN
  BY DEF Unsure
<1>3. Inconclusive \in Verdicts
  BY DEF Inconclusive, Verdicts
<1> QED
  BY <1>1, <1>2, <1>3 DEF Decide, Verdicts, Status

-----------------------------------------------------------------------------
(* Steps *)

LEMMA InitInv == Init => CallInv
<1> SUFFICES ASSUME Init PROVE CallInv
  OBVIOUS
<1>1. /\ attempt = 0 /\ hidden = 0 /\ requests = 0 /\ error = None /\ status = 0
      /\ provider \in Providers /\ phase \in {"ready", "convened"}
      /\ panel \in Panels \cup {None}
      /\ case = None /\ answer = None /\ verdict = None /\ DOMAIN results = {}
  <2>1. (CHOOSE p \in Providers : TRUE) \in Providers
    BY CallAssumption
  <2> QED
    BY <2>1 DEF Init, CallInit, PanelInit, Nothing, NoResults
<1>2. 0 \in 0..MaxAttempts
  BY CallAssumption
<1>3. TypeOK
  BY <1>1, <1>2 DEF TypeOK, Phases, Replies, Unreachable
<1>4. Counted
  BY <1>1, RetriesByProvider DEF Counted
<1>5. RetriesForCause
  BY <1>1, RetriesByProvider DEF RetriesForCause, NotRetried, Retried
<1> QED
  BY <1>1, <1>3, <1>4, <1>5 DEF CallInv, Decided

\* A failure with its status.
LEMMA RaiseInv ==
  ASSUME CallInv, phase = "waiting", NEW e, NEW s \in Replies \cup {408}, Raise(e, s),
         UNCHANGED <<answerVars, panelVars>>,
         e \in Transient \cup Final \cup Unexpected,
         e \in Transient => s \notin NotRetried,
         e \notin Transient /\ s \in Retried => s = 408 /\ provider # "google"
  PROVE  CallInv'
<1> USE DEF CallInv
<1>1. /\ error' = e /\ status' = s /\ phase' \in {"backoff", "failed"}
      /\ UNCHANGED <<provider, attempt, hidden, requests, case, answer, verdict, panel, results>>
      /\ phase' = "backoff" => e \in Transient
      /\ phase' = "failed" /\ e \in Transient => ~(attempt < MaxAttempts)
  BY DEF Raise, answerVars, panelVars
<1>2. TypeOK'
  BY <1>1 DEF TypeOK, Phases
<1>3. attempt = MaxAttempts \/ attempt < MaxAttempts
  BY CallAssumption DEF TypeOK
<1>4. RetriesForCause'
  BY <1>1, <1>3 DEF RetriesForCause
<1>5. Counted'
  BY <1>1 DEF Counted
<1> QED
  BY <1>1, <1>2, <1>4, <1>5 DEF Decided

LEMMA CallStepInv ==
  ASSUME CallInv, Call
  PROVE  CallInv'
<1> USE DEF CallInv
<1> DEFINE R == SdkRetries(provider)
<1>0. /\ UNCHANGED <<case, answer, verdict, panel, results>>
      /\ R \in {0, 2} /\ attempt \in Nat /\ MaxAttempts \in Nat /\ requests \in Nat
      /\ hidden \in Nat
  BY RetriesByProvider, CallAssumption DEF Call, answerVars, panelVars, TypeOK
<1>1. CASE Attempt
  <2>1. /\ attempt' = attempt + 1 /\ attempt < MaxAttempts /\ hidden' = 0
        /\ requests' = requests + 1 /\ phase = "ready" /\ phase' = "waiting"
        /\ UNCHANGED <<provider, error, status>>
    BY <1>1 DEF Attempt
  <2>2. TypeOK'
    BY <1>0, <2>1 DEF TypeOK, Phases
  <2>3. Counted'
    <3>1. CASE R = 0
      BY <1>0, <2>1, <3>1 DEF Counted
    <3>2. CASE R = 2
      BY <1>0, <2>1, <3>2 DEF Counted
    <3> QED
      BY <1>0, <3>1, <3>2
  <2>4. RetriesForCause'
    BY <2>1, <2>3 DEF RetriesForCause, Counted
  <2> QED
    BY <2>1, <2>2, <2>3, <2>4 DEF Decided
<1>2. ASSUME NEW r \in Replies, SdkRepeat(r) PROVE CallInv'
  <2>1. /\ hidden < R /\ hidden' = hidden + 1 /\ requests' = requests + 1
        /\ phase = "waiting" /\ UNCHANGED <<provider, phase, attempt, error, status>>
    BY <1>2 DEF SdkRepeat
  <2>2. TypeOK'
    BY <1>0, <2>1 DEF TypeOK
  <2>3. Counted'
    <3>1. CASE R = 0
      BY <1>0, <2>1, <3>1 DEF Counted
    <3>2. CASE R = 2
      BY <1>0, <2>1, <3>2 DEF Counted
    <3> QED
      BY <1>0, <3>1, <3>2
  <2>4. RetriesForCause'
    BY <2>1, <2>3 DEF RetriesForCause, Counted
  <2> QED
    BY <2>1, <2>2, <2>3, <2>4 DEF Decided
<1>3. ASSUME NEW r \in Replies, Reject(r) PROVE CallInv'
  <2> DEFINE s == IF r \in Completions THEN 0 ELSE r
  <2>1. phase = "waiting" /\ ~IsAnswer(provider, r) /\ Raise(ErrorOf(provider, r), s)
    BY <1>3 DEF Reject
  <2>2. provider \in Providers
    BY DEF TypeOK
  <2>3. /\ ErrorOf(provider, r) \in Transient \cup Final \cup Unexpected
        /\ ErrorOf(provider, r) \in Transient => s \notin NotRetried
        /\ ErrorOf(provider, r) \notin Transient /\ s \in Retried =>
             s = 408 /\ provider # "google"
    BY <2>1, <2>2, TransientStatus DEF Retried
  <2>4. s \in Replies \cup {408}
    BY StatusTypes
  <2> HIDE DEF s
  <2> QED
    BY <1>0, <2>1, <2>3, <2>4, RaiseInv DEF Call
<1>4. CASE TimeOut
  BY <1>4, RaiseInv DEF TimeOut, Transient, NotRetried, Call
<1>5. CASE WakeUp \/ \E r \in Replies : Answer(r)
  <2>1. /\ phase \in {"backoff", "waiting"} /\ phase' \in {"ready", "answered"}
        /\ UNCHANGED <<provider, attempt, hidden, requests, error, status>>
    BY <1>5 DEF WakeUp, Answer
  <2>2. TypeOK'
    BY <1>0, <2>1 DEF TypeOK, Phases
  <2>3. RetriesForCause' /\ Counted'
    BY <2>1 DEF RetriesForCause, Counted
  <2> QED
    BY <2>1, <2>2, <2>3 DEF Decided
<1> QED
  BY <1>1, <1>2, <1>3, <1>4, <1>5 DEF Call

LEMMA JudgeInv ==
  ASSUME CallInv, NEW c \in Cases, NEW a \in AnswersTo[c.category], ScoreAndDecide(c, a)
  PROVE  CallInv'
<1>1. /\ phase = "answered" /\ phase' = "judged" /\ case' = c /\ answer' = a
      /\ verdict' = Decide(c.category, ScoresOf(c, a))
      /\ UNCHANGED <<provider, attempt, hidden, requests, error, status, panel, results>>
  BY DEF ScoreAndDecide, panelVars
<1>2. verdict' \in Verdicts /\ verdict' # None
  BY <1>1, DecideType, NoneAssumption
<1>3. TypeOK'
  BY <1>1, <1>2 DEF CallInv, TypeOK, Phases
<1>4. RetriesForCause' /\ Counted'
  BY <1>1 DEF CallInv, RetriesForCause, Counted
<1> QED
  BY <1>1, <1>3, <1>4 DEF CallInv, Decided

LEMMA PanelInv ==
  ASSUME CallInv, Rule \/ \E j \in JudgeIds, raw \in Outputs : Report(j, raw)
  PROVE  CallInv'
<1>1. /\ phase = "convened" /\ phase' \in {"convened", "ruled"}
      /\ DOMAIN results' \subseteq JudgeIds
      /\ UNCHANGED <<provider, attempt, hidden, requests, error, status, case, answer, verdict,
                     panel>>
  BY DEF Rule, Report, callVars, answerVars, CallInv, TypeOK
<1>2. TypeOK'
  BY <1>1 DEF CallInv, TypeOK, Phases
<1>3. RetriesForCause' /\ Counted'
  BY <1>1 DEF CallInv, RetriesForCause, Counted
<1> QED
  BY <1>1, <1>2, <1>3 DEF CallInv, Decided

LEMMA StepInv == CallInv /\ [Next]_vars => CallInv'
<1> SUFFICES ASSUME CallInv, [Next]_vars PROVE CallInv'
  OBVIOUS
<1>1. CASE UNCHANGED vars
  BY <1>1 DEF vars, callVars, answerVars, panelVars, CallInv, TypeOK, RetriesForCause, Counted,
              Decided
<1>2. CASE Judge
  BY <1>2, JudgeInv DEF Judge
<1> QED
  BY <1>1, <1>2, CallStepInv, PanelInv DEF Next, Over

-----------------------------------------------------------------------------
(* Theorems *)

THEOREM Invariance == Spec => []CallInv
<1> QED
  BY InitInv, StepInv, PTL DEF Spec

\* Every variable keeps its type, and there is a verdict exactly after judging.
THEOREM AnswerTypes == Spec => []TypeOK
<1>1. CallInv => TypeOK
  BY DEF CallInv
<1> QED
  BY <1>1, Invariance, PTL

\* A call gives up on a transient failure, or on a status that is safe to retry
\* (but for the 408), only after its last attempt and goes on after no other, for
\* any number of attempts and any replies; the number of its requests is bounded
\* by what the SDK may repeat.
THEOREM EveryRetryHasACause == Spec => []RetriesForCause
<1>1. CallInv => RetriesForCause
  BY DEF CallInv
<1> QED
  BY <1>1, Invariance, PTL

\* No answer of an unregistered category and none that fails a check of a
\* blocking category passes, for any cases, answers, weights and thresholds.
THEOREM NothingSlipsThrough == Spec => []FailClosed
<1>1. CallInv => FailClosed
  <2>1. SUFFICES ASSUME CallInv, phase = "judged"
                 PROVE  /\ verdict.status \in Lenient =>
                             /\ case.category \in Registered
                             /\ case.category \in BlockingCategories =>
                                  \A s \in ScoresOf(case, answer) : s.passed
                        /\ case.category \notin Registered => verdict = Inconclusive
    BY DEF FailClosed
  <2> DEFINE S == ScoresOf(case, answer)
  <2>2. verdict = Decide(case.category, S)
    BY <2>1 DEF CallInv, Decided
  <2>3. case.category \notin Registered => verdict = Inconclusive
    BY <2>2, DecideType DEF ScoresOf
  <2>4. verdict.status \in Lenient => case.category \in Registered
    BY <2>3 DEF Inconclusive, Lenient
  <2>5. ASSUME verdict.status \in Lenient, case.category \in BlockingCategories,
               NEW s \in S, ~s.passed
        PROVE  FALSE
    <3>1. S # {} /\ Blocked(case.category, S)
      BY <2>5 DEF Blocked
    <3>2. Decide(case.category, S).status = "FAIL"
      BY <3>1, DecideType
    <3> QED
      BY <2>2, <2>5, <3>2 DEF Lenient
  <2> QED
    BY <2>3, <2>4, <2>5
<1> QED
  BY <1>1, Invariance, PTL

-----------------------------------------------------------------------------
(***************************************************************************)
(* Panels.  A ruling is that of the results it was made on (Ruled), which  *)
(* are finitely many because judges report one at a time; what a majority  *)
(* without a passing judge says of the weights is a matter of sums.        *)
(***************************************************************************)

Ruled ==
  /\ IsFiniteSet(DOMAIN results)
  /\ phase \in {"convened", "ruled"} => panel \in Panels
  /\ ruling # None =>
       /\ phase = "ruled"
       /\ ~Refuses(panel.failClosed, panel.weights, results)
       /\ ruling = Consolidate(panel.strategy, panel.weights, results)

LEMMA InitRuled == Init => Ruled
<1> SUFFICES ASSUME Init PROVE Ruled
  OBVIOUS
<1>1. DOMAIN results = {} /\ ruling = None
  BY DEF Init, Nothing, NoResults
<1>2. phase \in {"convened", "ruled"} => panel \in Panels
  BY DEF Init, CallInit, PanelInit
<1> QED
  BY <1>1, <1>2, FS_EmptySet DEF Ruled

LEMMA NextRuled == Ruled /\ [Next]_vars => Ruled'
<1> SUFFICES ASSUME Ruled, [Next]_vars PROVE Ruled'
  OBVIOUS
<1>1. CASE Call \/ Judge
  <2>1. /\ phase \in {"ready", "waiting", "backoff", "answered"}
        /\ phase' \notin {"convened", "ruled"}
        /\ UNCHANGED <<panel, results, ruling>>
    BY <1>1 DEF Call, Attempt, TimeOut, WakeUp, SdkRepeat, Reject, Answer, Raise, Judge,
                ScoreAndDecide, panelVars
  <2> QED
    BY <2>1 DEF Ruled
<1>2. ASSUME NEW j \in JudgeIds, NEW raw \in Outputs, Report(j, raw)
      PROVE  Ruled'
  <2>1. /\ phase = "convened" /\ UNCHANGED <<phase, panel, ruling>>
        /\ DOMAIN results' = DOMAIN results \cup {j}
    BY <1>2 DEF Report, callVars
  <2>2. IsFiniteSet(DOMAIN results')
    BY <2>1, FS_AddElement DEF Ruled
  <2> QED
    BY <2>1, <2>2 DEF Ruled
<1>3. CASE Rule
  BY <1>3 DEF Rule, Ruled
<1>4. CASE UNCHANGED vars
  BY <1>4 DEF vars, callVars, answerVars, panelVars, Ruled
<1> QED
  BY <1>1, <1>2, <1>3, <1>4 DEF Next, Over

LEMMA WeightsCounted ==
  ASSUME NEW weights, NEW J, IsFiniteSet(J), \A j \in J : WeightOf(weights, j) \in Nat
  PROVE  /\ WeightOfAll(weights, {}) = 0
         /\ WeightOfAll(weights, J) \in Nat
         /\ WeightOfAll(weights, J) = 0 => \A j \in J : WeightOf(weights, j) = 0
<1> DEFINE w == [j \in J |-> WeightOf(weights, j)]
<1>1. \A j \in J : w[j] = WeightOf(weights, j) /\ w[j] \in Nat
  OBVIOUS
<1>2. WeightOfAll(weights, J) = SumFunctionOnSet(w, J)
  BY DEF WeightOfAll
<1>3. WeightOfAll(weights, {}) = 0
  BY SumOfNone DEF WeightOfAll
<1> HIDE DEF w
<1> QED
  BY <1>1, <1>2, <1>3, SumNat, SumZero

\* A panel without results passes nothing, consensus and unanimity need every
\* result to pass, and a majority needs a judge that passes it unless nobody
\* who reported has a weight: for any judges, weights, outputs and strategies.
THEOREM PanelsFailClosed == Spec => []PanelFailsClosed
<1>1. Ruled => PanelFailsClosed
  <2> SUFFICES ASSUME Ruled, ruling # None, ruling.passed
               PROVE  /\ results # NoResults
                      /\ panel.strategy # "weighted_majority" =>
                           Passing(results) = DOMAIN results
                      /\ \/ Passing(results) # {}
                         \/ \A j \in DOMAIN results : WeightOf(panel.weights, j) = 0
    BY DEF PanelFailsClosed
  <2> DEFINE w == panel.weights
             J == DOMAIN results
  <2>1. ruling = Consolidate(panel.strategy, w, results)
    BY DEF Ruled
  <2>2. J # {} /\ results # NoResults
    BY <2>1 DEF Consolidate, Ruling, NoResults
  <2>3. panel.strategy # "weighted_majority" => Passing(results) = J
    BY <2>1, <2>2 DEF Consolidate, Ruling
  <2>4. ASSUME panel.strategy = "weighted_majority", Passing(results) = {}
        PROVE  \A j \in J : WeightOf(w, j) = 0
    <3>1. \A j \in J : WeightOf(w, j) \in Nat
      BY JudgingAssumption DEF Ruled, Refuses, WeightOf
    <3>2. IsFiniteSet(J)
      BY DEF Ruled
    <3>3. MajorityPasses(w, results)
      BY <2>1, <2>2, <2>4 DEF Consolidate, Ruling
    <3>4. WeightOfAll(w, {}) = 0 /\ WeightOfAll(w, J) \in Nat
      BY <3>1, <3>2, WeightsCounted
    <3>5. WeightOfAll(w, J) = 0
      BY <2>4, <3>3, <3>4 DEF MajorityPasses, Tied
    <3> QED
      BY <3>1, <3>2, <3>5, WeightsCounted
  <2> QED
    BY <2>2, <2>3, <2>4
<1> QED
  BY <1>1, InitRuled, NextRuled, PTL DEF Spec

\* The results a judge may come to: its score, and whether that passes.
Reports == {Parsed(raw) : raw \in RawOutputs}

\* Better scores from the same judges never lose what a panel has passed, not
\* through a tie and the average either; and what every judge passes, passes
\* under every strategy.
MoreIsNeverLess ==
  ruling # None /\ ruling.passed =>
    /\ \A better \in [DOMAIN results -> Reports] :
         (\A j \in DOMAIN results : results[j].score <= better[j].score) =>
           Consolidate(panel.strategy, panel.weights, better).passed
    /\ Passing(results) = DOMAIN results =>
         \A s \in Strategies : Consolidate(s, panel.weights, results).passed

LEMMA ReportsPass ==
  ASSUME NEW r \in Reports
  PROVE  r.score \in 0..100 /\ (r.passed <=> r.score >= JudgePassThreshold)
<1>1. PICK raw \in RawOutputs : r = Parsed(raw)
  BY DEF Reports
<1>2. raw.rate \in 0..100
  BY DEF RawOutputs
<1> QED
  BY <1>1, <1>2 DEF Parsed

\* The votes and the scores behind a majority.
LEMMA MajorityKept ==
  ASSUME NEW J, IsFiniteSet(J), NEW weights, \A j \in J : WeightOf(weights, j) \in Nat,
         NEW low, NEW high, DOMAIN low = J, DOMAIN high = J,
         \A j \in J : low[j] \in Reports /\ high[j] \in Reports /\ low[j].score <= high[j].score,
         MajorityPasses(weights, low)
  PROVE  MajorityPasses(weights, high)
<1> DEFINE w == [j \in J |-> WeightOf(weights, j)]
           W(P) == WeightOfAll(weights, P)
           L == Passing(low)
           H == Passing(high)
           lows == [j \in J |-> low[j].score]
           highs == [j \in J |-> high[j].score]
<1>1. \A j \in J : /\ low[j].score \in Int /\ high[j].score \in Int
                   /\ low[j].passed => high[j].passed
  <2> SUFFICES ASSUME NEW j \in J
               PROVE  /\ low[j].score \in Int /\ high[j].score \in Int
                      /\ low[j].passed => high[j].passed
    OBVIOUS
  <2>1. /\ low[j].score \in 0..100 /\ high[j].score \in 0..100
        /\ low[j].passed <=> low[j].score >= JudgePassThreshold
        /\ high[j].passed <=> high[j].score >= JudgePassThreshold
    BY ReportsPass
  <2> QED
    BY <2>1 DEF JudgePassThreshold
<1>2. L \subseteq H /\ H \subseteq J
  BY <1>1 DEF Passing
<1>3. \A P \in SUBSET J : /\ W(P) = SumFunctionOnSet(w, P) /\ IsFiniteSet(P)
                          /\ W(P) \in Nat
  <2> SUFFICES ASSUME NEW P \in SUBSET J
               PROVE  W(P) = SumFunctionOnSet(w, P) /\ IsFiniteSet(P) /\ W(P) \in Nat
    OBVIOUS
  <2> DEFINE v == [j \in P |-> WeightOf(weights, j)]
  <2>1. IsFiniteSet(P)
    BY FS_Subset
  <2>2. /\ \A j \in P : v[j] \in Nat /\ v[j] \in Int /\ w[j] = v[j]
        /\ W(P) = SumFunctionOnSet(v, P)
    BY DEF WeightOfAll
  <2> HIDE DEF v, w, W
  <2> QED
    BY <2>1, <2>2, SumSame, SumNat
<1>4. W(L) <= W(H)
  <2>1. SumFunctionOnSet(w, L) <= SumFunctionOnSet(w, H)
    <3>1. IsFiniteSet(H) /\ L \in SUBSET H /\ \A j \in H : w[j] \in Nat
      BY <1>2, <1>3
    <3> HIDE DEF w, L, H
    <3> QED
      BY <3>1, SumSubset
  <2> QED
    BY <1>2, <1>3, <2>1
<1>5. /\ SumFunctionOnSet(lows, J) <= SumFunctionOnSet(highs, J)
      /\ SumFunctionOnSet(lows, J) \in Int /\ SumFunctionOnSet(highs, J) \in Int
  <2>1. \A j \in J : lows[j] \in Int /\ highs[j] \in Int /\ lows[j] <= highs[j]
    BY <1>1
  <2> HIDE DEF lows, highs
  <2> QED
    BY <2>1, SumMonotone, SumType
<1>6. W(L) \in Nat /\ W(H) \in Nat /\ W(J) \in Nat
  BY <1>2, <1>3
<1>7. AverageReachesHalf(low) => AverageReachesHalf(high)
  <2> DEFINE a == SumFunctionOnSet(lows, J)
             b == SumFunctionOnSet(highs, J)
             n == 100 * Cardinality(J)
  <2>1. /\ AverageReachesHalf(low) <=> 2 * a >= n
        /\ AverageReachesHalf(high) <=> 2 * b >= n
    BY DEF AverageReachesHalf
  <2>2. a \in Int /\ b \in Int /\ a <= b /\ n \in Int
    <3>1. Cardinality(J) \in Nat
      BY FS_CardinalityType
    <3> QED
      BY <1>5, <3>1
  <2> HIDE DEF a, b, n
  <2> QED
    BY <2>1, <2>2
<1>8. /\ MajorityPasses(weights, low) <=>
            \/ 2 * W(L) > W(J)
            \/ 2 * W(L) = W(J) /\ AverageReachesHalf(low)
      /\ MajorityPasses(weights, high) <=>
            \/ 2 * W(H) > W(J)
            \/ 2 * W(H) = W(J) /\ AverageReachesHalf(high)
  BY DEF MajorityPasses, Tied
<1> HIDE DEF W, L, H
<1> QED
  BY <1>4, <1>6, <1>7, <1>8

\* All judges passing is a majority: of the weight, or, if they weigh nothing,
\* by the average of their scores.
LEMMA AllIsAMajority ==
  ASSUME NEW J, IsFiniteSet(J), NEW weights, \A j \in J : WeightOf(weights, j) \in Nat,
         NEW res, DOMAIN res = J, \A j \in J : res[j] \in Reports, Passing(res) = J
  PROVE  MajorityPasses(weights, res)
<1> DEFINE W == WeightOfAll(weights, J)
           scores == [j \in J |-> res[j].score]
<1>1. W \in Nat
  BY WeightsCounted
<1>2. \A j \in J : scores[j] \in Int /\ 50 <= scores[j]
  BY ReportsPass DEF Passing, JudgePassThreshold
<1>3. 50 * Cardinality(J) <= SumFunctionOnSet(scores, J) /\ SumFunctionOnSet(scores, J) \in Int
  <2> HIDE DEF scores
  <2> QED
    BY <1>2, SumAtLeast, SumType
<1>4. AverageReachesHalf(res)
  <2> DEFINE n == Cardinality(J)
             a == SumFunctionOnSet(scores, J)
  <2>1. n \in Nat /\ a \in Int /\ 50 * n <= a
    BY <1>3, FS_CardinalityType
  <2>2. AverageReachesHalf(res) <=> 2 * a >= 100 * n
    BY DEF AverageReachesHalf
  <2> HIDE DEF n, a
  <2> QED
    BY <2>1, <2>2
<1>5. MajorityPasses(weights, res) <=> \/ 2 * W > W
                                       \/ 2 * W = W /\ AverageReachesHalf(res)
  BY DEF MajorityPasses, Tied
<1> HIDE DEF W
<1> QED
  BY <1>1, <1>4, <1>5

LEMMA RulingsKeepReports ==
  (\A j \in DOMAIN results : results[j] \in Reports) /\ [Next]_vars =>
    \A j \in DOMAIN results' : results'[j] \in Reports
<1> SUFFICES ASSUME \A j \in DOMAIN results : results[j] \in Reports, [Next]_vars
             PROVE  \A j \in DOMAIN results' : results'[j] \in Reports
  OBVIOUS
<1>1. ASSUME NEW j \in JudgeIds, NEW raw \in Outputs, Report(j, raw)
      PROVE  \A i \in DOMAIN results' : results'[i] \in Reports
  <2>1. Parsed(raw) \in Reports
    BY JudgingAssumption DEF Reports
  <2> QED
    BY <1>1, <2>1 DEF Report
<1>2. CASE UNCHANGED results
  BY <1>2
<1>3. CASE Call \/ Judge \/ Rule \/ Over \/ UNCHANGED vars
  BY <1>3 DEF Call, Judge, ScoreAndDecide, Rule, Over, vars, panelVars
<1> QED
  BY <1>1, <1>2, <1>3 DEF Next

\* Rulings are monotone in the scores, and no strategy fails what all judges
\* pass: for any judges, weights that are not refused, outputs and strategies.
THEOREM PanelsAreMonotone == Spec => []MoreIsNeverLess
<1> DEFINE Typed == \A j \in DOMAIN results : results[j] \in Reports
<1>1. Init => Typed
  BY DEF Init, Nothing, NoResults
<1>2. Ruled /\ Typed => MoreIsNeverLess
  <2> DEFINE w == panel.weights
             J == DOMAIN results
  <2> SUFFICES ASSUME Ruled, Typed, ruling # None, ruling.passed
               PROVE  /\ \A better \in [J -> Reports] :
                           (\A j \in J : results[j].score <= better[j].score) =>
                             Consolidate(panel.strategy, w, better).passed
                      /\ Passing(results) = J =>
                           \A s \in Strategies : Consolidate(s, w, results).passed
    BY DEF MoreIsNeverLess
  <2>1. ruling = Consolidate(panel.strategy, w, results)
    BY DEF Ruled
  <2>2. J # {} /\ IsFiniteSet(J) /\ \A j \in J : WeightOf(w, j) \in Nat
    <3>1. IsFiniteSet(J) /\ \A j \in J : WeightOf(w, j) \in Nat
      BY JudgingAssumption DEF Ruled, Refuses, WeightOf
    <3> QED
      BY <2>1, <3>1 DEF Consolidate, Ruling
  <2>3. ASSUME NEW s, NEW res, DOMAIN res = J
        PROVE  Consolidate(s, w, res).passed <=>
                 IF s = "weighted_majority" THEN MajorityPasses(w, res) ELSE Passing(res) = J
    BY <2>2, <2>3 DEF Consolidate, Ruling
  <2>4. ASSUME NEW better \in [J -> Reports],
               \A j \in J : results[j].score <= better[j].score
        PROVE  Consolidate(panel.strategy, w, better).passed
    <3>1. CASE panel.strategy = "weighted_majority"
      <4>1. MajorityPasses(w, results)
        BY <2>1, <2>3, <3>1
      <4>2. MajorityPasses(w, better)
        <5> HIDE DEF w
        <5> QED
          BY <2>2, <2>4, <4>1, MajorityKept
      <4> QED
        BY <2>3, <3>1, <4>2
    <3>2. CASE panel.strategy # "weighted_majority"
      <4>1. Passing(results) = J
        BY <2>1, <2>3, <3>2
      <4>2. ASSUME NEW j \in J PROVE better[j].passed
        <5>1. /\ results[j].score \in 0..100 /\ better[j].score \in 0..100
              /\ results[j].passed <=> results[j].score >= JudgePassThreshold
              /\ better[j].passed <=> better[j].score >= JudgePassThreshold
          BY ReportsPass
        <5>2. results[j].passed
          BY <4>1 DEF Passing
        <5> QED
          BY <2>4, <5>1, <5>2 DEF JudgePassThreshold
      <4>3. Passing(better) = J
        BY <4>2 DEF Passing
      <4> QED
        BY <2>3, <3>2, <4>3
    <3> QED
      BY <3>1, <3>2
  <2>5. ASSUME Passing(results) = J, NEW s \in Strategies
        PROVE  Consolidate(s, w, results).passed
    <3>1. MajorityPasses(w, results)
      <4> HIDE DEF w
      <4> QED
        BY <2>2, <2>5, AllIsAMajority
    <3> QED
      BY <2>3, <2>5, <3>1
  <2> QED
    BY <2>4, <2>5
<1>3. Typed /\ [Next]_vars => Typed'
  BY RulingsKeepReports
<1> QED
  BY <1>1, <1>2, <1>3, InitRuled, NextRuled, PTL DEF Spec

-----------------------------------------------------------------------------
(***************************************************************************)
(* Comparing answers.  The scores of two answers to one case are those of  *)
(* the same checks (Matched), and a check that passes for one more answer  *)
(* raises its quality (Straight); so the sums compare term by term.  The   *)
(* exception is tool use, whose rate is turned upside down: there only an  *)
(* answer that passes every check is not blocked, and all those score the  *)
(* same.                                                                   *)
(***************************************************************************)

SameCheck(s, t) == s.metric = t.metric /\ s.about = t.about

\* The scores of two answers, check by check.
Matched(A, B) ==
  /\ \A s, t \in A : SameCheck(s, t) => s = t
  /\ \A s, t \in B : SameCheck(s, t) => s = t
  /\ \A s \in A : \E t \in B : SameCheck(s, t)
  /\ \A t \in B : \E s \in A : SameCheck(s, t)

\* The quality of a score that an answer can lose is 100 or 0 as it passed.
Straight(A, B) ==
  \A s \in A : Quality(s) \in Int /\ (Quality(s) = Good(s.passed) \/ s \in B)

LEMMA WeightType == ASSUME NEW metric PROVE Weight(metric) \in Nat
BY DEF Weight

LEMMA ProductOrder ==
  ASSUME NEW x \in Int, NEW y \in Int, NEW w \in Nat, x <= y
  PROVE  x * w \in Int /\ y * w \in Int /\ x * w <= y * w
OBVIOUS

LEMMA MatchedReaches ==
  ASSUME NEW A, NEW B, IsFiniteSet(A), Matched(A, B),
         \A s \in A : Quality(s) \in Int, \A t \in B : Quality(t) \in Int,
         \A s \in A, t \in B : SameCheck(s, t) => Quality(t) <= Quality(s),
         NEW n \in Nat, Reaches(B, n)
  PROVE  Reaches(A, n)
<1> DEFINE h == [s \in A |-> CHOOSE t \in B : SameCheck(s, t)]
           worth(S) == [s \in S |-> Quality(s) * Weight(s.metric)]
           heft(S) == [s \in S |-> Weight(s.metric)]
           worse == [s \in A |-> Quality(h[s]) * Weight(h[s].metric)]
<1>1. \A s \in A : h[s] \in B /\ SameCheck(s, h[s])
  BY DEF Matched
<1>2. {h[s] : s \in A} = B
  BY <1>1 DEF Matched, SameCheck
<1>3. \A s, t \in A : h[s] = h[t] => s = t
  BY <1>1 DEF Matched, SameCheck
<1>4. \A s \in A : /\ worse[s] = worth(B)[h[s]] /\ heft(A)[s] = heft(B)[h[s]]
                   /\ worth(B)[h[s]] \in Int /\ heft(B)[h[s]] \in Int
                   /\ worth(A)[s] \in Int /\ worse[s] <= worth(A)[s]
  <2> SUFFICES ASSUME NEW s \in A
               PROVE  /\ worse[s] = worth(B)[h[s]] /\ heft(A)[s] = heft(B)[h[s]]
                      /\ worth(B)[h[s]] \in Int /\ heft(B)[h[s]] \in Int
                      /\ worth(A)[s] \in Int /\ worse[s] <= worth(A)[s]
    OBVIOUS
  <2>1. h[s] \in B /\ h[s].metric = s.metric /\ Quality(h[s]) <= Quality(s)
    BY <1>1 DEF SameCheck
  <2>2. Quality(h[s]) \in Int /\ Quality(s) \in Int /\ Weight(s.metric) \in Nat
    BY <2>1, WeightType
  <2> HIDE DEF h
  <2>3. /\ Quality(h[s]) * Weight(s.metric) \in Int /\ Quality(s) * Weight(s.metric) \in Int
        /\ Quality(h[s]) * Weight(s.metric) <= Quality(s) * Weight(s.metric)
    BY <2>1, <2>2, ProductOrder
  <2> QED
    BY <2>1, <2>2, <2>3
<1> HIDE DEF h, worth, heft, worse
<1>5. SumFunctionOnSet(heft(B), B) = SumFunctionOnSet(heft(A), A)
  BY <1>2, <1>3, <1>4, SumImage
<1>6. SumFunctionOnSet(worth(B), B) = SumFunctionOnSet(worse, A)
  BY <1>2, <1>3, <1>4, SumImage
<1>7. SumFunctionOnSet(worse, A) <= SumFunctionOnSet(worth(A), A)
  BY <1>4, SumMonotone
<1>8. SumFunctionOnSet(worse, A) \in Int /\ SumFunctionOnSet(worth(A), A) \in Int
      /\ SumFunctionOnSet(heft(A), A) \in Int
  BY <1>4, SumType
<1>9. /\ TotalWeight(A) = SumFunctionOnSet(heft(A), A)
      /\ TotalWeight(B) = SumFunctionOnSet(heft(B), B)
      /\ WeightedQuality(A) = SumFunctionOnSet(worth(A), A)
      /\ WeightedQuality(B) = SumFunctionOnSet(worth(B), B)
  BY DEF TotalWeight, WeightedQuality, heft, worth
<1>10. n * TotalWeight(A) \in Int
  BY <1>8, <1>9
<1>11. n * TotalWeight(A) = n * TotalWeight(B)
  BY <1>5, <1>9
<1>12. WeightedQuality(B) >= n * TotalWeight(A)
  BY <1>11 DEF Reaches
<1> QED
  BY <1>6, <1>7, <1>8, <1>9, <1>10, <1>12 DEF Reaches

\* What NoBetter says of matched scores.
LEMMA MatchedRank ==
  ASSUME NEW A, NEW B, IsFiniteSet(A), Matched(A, B), Straight(A, B), Straight(B, A),
         \A t \in B, s \in A : SameCheck(s, t) /\ t.passed => s.passed,
         NEW category
  PROVE  Rank(Decide(category, B)) <= Rank(Decide(category, A))
<1>1. A = {} <=> B = {}
  BY DEF Matched
<1>2. ASSUME Blocked(category, A) PROVE Blocked(category, B)
  <2>1. PICK s \in A : ~s.passed
    BY <1>2 DEF Blocked
  <2>2. PICK t \in B : SameCheck(s, t)
    BY DEF Matched
  <2> QED
    BY <1>2, <2>1, <2>2 DEF Blocked
<1>3. \A s \in A, t \in B : SameCheck(s, t) => Quality(t) <= Quality(s)
  <2> SUFFICES ASSUME NEW s \in A, NEW t \in B, SameCheck(s, t)
               PROVE  Quality(t) <= Quality(s)
    OBVIOUS
  <2>1. Quality(s) \in Int /\ Quality(t) \in Int
    BY DEF Straight
  <2>2. CASE s \in B \/ t \in A
    <3>1. s = t
      BY <2>2 DEF Matched, SameCheck
    <3> QED
      BY <2>1, <3>1
  <2>3. CASE Quality(s) = Good(s.passed) /\ Quality(t) = Good(t.passed)
    BY <2>3 DEF Good
  <2> QED
    BY <2>2, <2>3 DEF Straight
<1>4. \A n \in Nat : Reaches(B, n) => Reaches(A, n)
  BY <1>3, MatchedReaches DEF Straight
<1>5. /\ Reaches(B, PassThreshold) => Reaches(A, PassThreshold)
      /\ Reaches(B, WarnThreshold) => Reaches(A, WarnThreshold)
  BY <1>4 DEF PassThreshold, WarnThreshold
<1> QED
  BY <1>1, <1>2, <1>5 DEF Decide, Status, Rank, Inconclusive

\* Finitely many scores of two answers on some metrics, to be compared so.
Aligned(A, B, metrics) ==
  /\ IsFiniteSet(A) /\ IsFiniteSet(B)
  /\ Matched(A, B) /\ Straight(A, B) /\ Straight(B, A)
  /\ \A s \in A \cup B : s.metric \in metrics

LEMMA UnionAligned ==
  ASSUME NEW A, NEW B, NEW C, NEW D, NEW M, NEW N,
         Aligned(A, B, M), Aligned(C, D, N), M \cap N = {}
  PROVE  Aligned(A \cup C, B \cup D, M \cup N)
<1>1. IsFiniteSet(A \cup C) /\ IsFiniteSet(B \cup D)
  BY FS_Union DEF Aligned
<1>2. \A s \in A \cup B, t \in C \cup D : ~SameCheck(s, t) /\ ~SameCheck(t, s)
  BY DEF Aligned, SameCheck
<1>3. Matched(A \cup C, B \cup D)
  BY <1>2 DEF Aligned, Matched
<1>4. Straight(A \cup C, B \cup D) /\ Straight(B \cup D, A \cup C)
  BY DEF Aligned, Straight
<1>5. \A s \in (A \cup C) \cup (B \cup D) : s.metric \in M \cup N
  BY DEF Aligned
<1> QED
  BY <1>1, <1>3, <1>4, <1>5 DEF Aligned

LEMMA OneAligned ==
  ASSUME NEW s, NEW t, SameCheck(s, t), Quality(s) \in Int, Quality(t) \in Int,
         s = t \/ (Quality(s) = Good(s.passed) /\ Quality(t) = Good(t.passed))
  PROVE  Aligned({s}, {t}, {s.metric})
<1>1. IsFiniteSet({s}) /\ IsFiniteSet({t})
  BY FS_Singleton
<1>2. Matched({s}, {t})
  BY DEF Matched, SameCheck
<1>3. Straight({s}, {t}) /\ Straight({t}, {s})
  BY DEF Straight
<1>4. \A u \in {s} \cup {t} : u.metric \in {s.metric}
  BY DEF SameCheck
<1> QED
  BY <1>1, <1>2, <1>3, <1>4 DEF Aligned

LEMMA FallbackAligned ==
  ASSUME NEW A, NEW B, NEW M, Aligned(A, B, M), NEW f, Quality(f) \in Int
  PROVE  Aligned(OrElse(A, f), OrElse(B, f), M \cup {f.metric})
<1>1. A = {} <=> B = {}
  BY DEF Aligned, Matched
<1>2. CASE A = {} /\ B = {}
  <2>1. Aligned({f}, {f}, {f.metric})
    BY OneAligned DEF SameCheck
  <2> QED
    BY <1>2, <2>1 DEF OrElse, Aligned
<1>3. CASE A # {} /\ B # {}
  BY <1>3 DEF OrElse, Aligned
<1> QED
  BY <1>1, <1>2, <1>3

\* The quality of a score for a phrase is 100 or 0 as the check passed.
Plain(s, m, p) == s.metric = m /\ s.about = p /\ Quality(s) = Good(s.passed)

\* A score for each of some phrases.
ScoresAt(f, P) == {f[p] : p \in P}

LEMMA PhrasesAligned ==
  ASSUME NEW P, IsFiniteSet(P), NEW m, NEW f, NEW g,
         \A p \in P : Plain(f[p], m, p) /\ Plain(g[p], m, p)
  PROVE  Aligned(ScoresAt(f, P), ScoresAt(g, P), {m})
<1> DEFINE A == {f[p] : p \in P}
           B == {g[p] : p \in P}
<1>1. IsFiniteSet(A) /\ IsFiniteSet(B)
  BY ImageFinite
<1>2. Matched(A, B)
  BY DEF Plain, Matched, SameCheck
<1>3. \A s : Good(s) \in Int
  BY DEF Good
<1>4. Straight(A, B) /\ Straight(B, A)
  BY <1>3 DEF Plain, Straight
<1>5. \A s \in A \cup B : s.metric \in {m}
  BY DEF Plain
<1> QED
  BY <1>1, <1>2, <1>4, <1>5 DEF Aligned, ScoresAt

\* What the evaluators make of one phrase.
Required(x, m, k, p) == Check(m, p, Good(p \in x.says), p \in x.says, k)
Prohibited(x, m, k, p) == Check(m, p, Good(p \notin x.says), p \notin x.says, k)
Leaked(x, p) ==
  Check("cross_session_leak_rate", p, Good(p \in x.says), p \notin x.says, 100)

LEMMA PhraseScores ==
  ASSUME NEW x, NEW m, ~Inverted(m), NEW k, NEW p
  PROVE  Plain(Required(x, m, k, p), m, p) /\ Plain(Prohibited(x, m, k, p), m, p)
BY DEF Plain, Required, Prohibited, Check, Quality

LEMMA LeakScores ==
  ASSUME NEW x, NEW p
  PROVE  Plain(Leaked(x, p), "cross_session_leak_rate", p)
<1>1. Inverted("cross_session_leak_rate")
  BY DEF Inverted
<1>2. Quality(Leaked(x, p)) = 100 - Good(p \in x.says)
  BY <1>1 DEF Quality, Leaked, Check
<1>3. 100 - Good(p \in x.says) = Good(p \notin x.says)
  BY DEF Good
<1> QED
  BY <1>2, <1>3 DEF Plain, Leaked, Check

LEMMA RequirementsAligned ==
  ASSUME NEW c, IsFiniteSet(c.must), NEW a, NEW b, NEW m, ~Inverted(m), NEW k
  PROVE  Aligned(Requirements(c, a, m, k), Requirements(c, b, m, k), {m})
<1> DEFINE f == [p \in c.must |-> Required(a, m, k, p)]
           g == [p \in c.must |-> Required(b, m, k, p)]
<1>1. \A p \in c.must : Plain(f[p], m, p) /\ Plain(g[p], m, p)
  BY PhraseScores
<1>2. /\ Requirements(c, a, m, k) = ScoresAt(f, c.must)
      /\ Requirements(c, b, m, k) = ScoresAt(g, c.must)
  BY DEF Requirements, Required, ScoresAt
<1> HIDE DEF f, g
<1>3. Aligned(ScoresAt(f, c.must), ScoresAt(g, c.must), {m})
  BY <1>1, PhrasesAligned
<1> QED
  BY <1>2, <1>3

LEMMA ProhibitionsAligned ==
  ASSUME NEW c, IsFiniteSet(c.mustNot), NEW a, NEW b, NEW m, ~Inverted(m), NEW k
  PROVE  Aligned(Prohibitions(c, a, m, k), Prohibitions(c, b, m, k), {m})
<1> DEFINE f == [p \in c.mustNot |-> Prohibited(a, m, k, p)]
           g == [p \in c.mustNot |-> Prohibited(b, m, k, p)]
<1>1. \A p \in c.mustNot : Plain(f[p], m, p) /\ Plain(g[p], m, p)
  BY PhraseScores
<1>2. /\ Prohibitions(c, a, m, k) = ScoresAt(f, c.mustNot)
      /\ Prohibitions(c, b, m, k) = ScoresAt(g, c.mustNot)
  BY DEF Prohibitions, Prohibited, ScoresAt
<1> HIDE DEF f, g
<1>3. Aligned(ScoresAt(f, c.mustNot), ScoresAt(g, c.mustNot), {m})
  BY <1>1, PhrasesAligned
<1> QED
  BY <1>2, <1>3

LEMMA LeaksAligned ==
  ASSUME NEW c, IsFiniteSet(c.mustNot), NEW a, NEW b
  PROVE  Aligned({Leaked(a, p) : p \in c.mustNot}, {Leaked(b, p) : p \in c.mustNot},
                 {"cross_session_leak_rate"})
<1> DEFINE f == [p \in c.mustNot |-> Leaked(a, p)]
           g == [p \in c.mustNot |-> Leaked(b, p)]
<1>1. \A p \in c.mustNot : /\ Plain(f[p], "cross_session_leak_rate", p)
                           /\ Plain(g[p], "cross_session_leak_rate", p)
  BY LeakScores
<1>2. /\ {Leaked(a, p) : p \in c.mustNot} = ScoresAt(f, c.mustNot)
      /\ {Leaked(b, p) : p \in c.mustNot} = ScoresAt(g, c.mustNot)
  BY DEF ScoresAt
<1> HIDE DEF f, g
<1>3. Aligned(ScoresAt(f, c.mustNot), ScoresAt(g, c.mustNot), {"cross_session_leak_rate"})
  BY <1>1, PhrasesAligned
<1> QED
  BY <1>2, <1>3

LEMMA ThreeAligned ==
  ASSUME NEW A, NEW B, NEW C, NEW D, NEW E, NEW F, NEW x, NEW y, NEW z,
         Aligned(A, B, {x}), Aligned(C, D, {y}), Aligned(E, F, {z}),
         x # y, x # z, y # z
  PROVE  \E M : Aligned((A \cup C) \cup E, (B \cup D) \cup F, M)
<1>1. Aligned(A \cup C, B \cup D, {x} \cup {y})
  BY UnionAligned
<1>2. ({x} \cup {y}) \cap {z} = {}
  OBVIOUS
<1>3. Aligned((A \cup C) \cup E, (B \cup D) \cup F, ({x} \cup {y}) \cup {z})
  BY <1>1, <1>2, UnionAligned
<1> QED
  BY <1>3

LEMMA TwoAligned ==
  ASSUME NEW A, NEW B, NEW C, NEW D, NEW x, NEW y,
         Aligned(A, B, {x}), Aligned(C, D, {y}), x # y, NEW f, Quality(f) \in Int
  PROVE  \E M : Aligned(OrElse(A \cup C, f), OrElse(B \cup D, f), M)
<1>1. Aligned(A \cup C, B \cup D, {x} \cup {y})
  BY UnionAligned
<1>2. Aligned(OrElse(A \cup C, f), OrElse(B \cup D, f), ({x} \cup {y}) \cup {f.metric})
  BY <1>1, FallbackAligned
<1> QED
  BY <1>2

LEMMA CheckAligned ==
  ASSUME NEW m, ~Inverted(m), NEW about, NEW p, NEW q, NEW k, NEW l
  PROVE  Aligned({Check(m, about, Good(p), p, k)}, {Check(m, about, Good(q), q, l)}, {m})
<1> DEFINE s == Check(m, about, Good(p), p, k)
           t == Check(m, about, Good(q), q, l)
<1>1. /\ s.metric = m /\ t.metric = m /\ s.about = t.about
      /\ s.numeric = Good(s.passed) /\ t.numeric = Good(t.passed)
  BY DEF Check
<1> HIDE DEF s, t
<1>2. \A v : Good(v) \in Int
  BY DEF Good
<1>3. Quality(s) = Good(s.passed) /\ Quality(t) = Good(t.passed)
  BY <1>1 DEF Quality
<1>4. Aligned({s}, {t}, {s.metric})
  BY <1>1, <1>2, <1>3, OneAligned DEF SameCheck
<1> QED
  BY <1>1, <1>4 DEF s, t

\* The scores of any two answers to a case of any category but tool use, where
\* no prohibited phrase makes an unsupported_claim_rate.
LEMMA ScoresAligned ==
  ASSUME NEW c, IsFiniteSet(c.must), IsFiniteSet(c.mustNot),
         c.category \in Categories \ {"tool_use_boundaries"},
         c.category # "content_integrity" \/ c.mustNot = {}, NEW a, NEW b
  PROVE  \E M : Aligned(Evaluate(c, a), Evaluate(c, b), M)
<1>1. CASE c.category = "guardrail_consistency"
  <2> DEFINE s == RefusalConsistency(c, a)
             t == RefusalConsistency(c, b)
  <2>1. s.metric = "refusal_consistency" /\ t.metric = "refusal_consistency"
        /\ s.about = WholeAnswer /\ t.about = WholeAnswer
    BY DEF RefusalConsistency, Check
  <2>2. Quality(s) = s.numeric /\ Quality(t) = t.numeric
    BY <2>1 DEF Quality, Inverted
  <2>3. s.numeric \in Int /\ t.numeric \in Int
    BY DEF RefusalConsistency, Check, Good
  <2>4. s = t \/ (s.numeric = Good(s.passed) /\ t.numeric = Good(t.passed))
    BY DEF RefusalConsistency, Check
  <2> HIDE DEF s, t
  <2>5. Aligned({s}, {t}, {"refusal_consistency"})
    BY <2>1, <2>2, <2>3, <2>4, OneAligned DEF SameCheck
  <2>6. Aligned(Requirements(c, a, "content_requirement", 100),
                Requirements(c, b, "content_requirement", 100), {"content_requirement"})
    BY RequirementsAligned DEF Inverted
  <2>7. Aligned(Prohibitions(c, a, "forbidden_content", 100),
                Prohibitions(c, b, "forbidden_content", 100), {"forbidden_content"})
    BY ProhibitionsAligned DEF Inverted
  <2>8. \E M : Aligned(Guardrail(c, a), Guardrail(c, b), M)
    BY <2>5, <2>6, <2>7, ThreeAligned DEF Guardrail, s, t
  <2> QED
    BY <1>1, <2>8 DEF Evaluate
<1>2. CASE c.category = "context_isolation"
  <2> DEFINE f == Check("cross_session_leak_rate", WholeAnswer, 0, TRUE, 50)
  <2>1. Aligned({Leaked(a, p) : p \in c.mustNot}, {Leaked(b, p) : p \in c.mustNot},
                {"cross_session_leak_rate"})
    BY LeaksAligned
  <2>2. Aligned(Requirements(c, a, "role_boundary_compliance", 90),
                Requirements(c, b, "role_boundary_compliance", 90), {"role_boundary_compliance"})
    BY RequirementsAligned DEF Inverted
  <2>3. Quality(f) \in Int
    BY DEF Quality, Check
  <2> HIDE DEF f
  <2>4. \E M : Aligned(OrElse({Leaked(a, p) : p \in c.mustNot}
                                \cup Requirements(c, a, "role_boundary_compliance", 90), f),
                       OrElse({Leaked(b, p) : p \in c.mustNot}
                                \cup Requirements(c, b, "role_boundary_compliance", 90), f), M)
    BY <2>1, <2>2, <2>3, TwoAligned
  <2> QED
    BY <1>2, <2>4 DEF Evaluate, ContextIsolation, Leaked, f
<1>3. CASE c.category = "content_integrity"
  <2>1. Aligned({Check("markup_safety", WholeAnswer, Good(~a.unsafe), ~a.unsafe, 100)},
                {Check("markup_safety", WholeAnswer, Good(~b.unsafe), ~b.unsafe, 100)},
                {"markup_safety"})
    BY CheckAligned DEF Inverted
  <2>2. Aligned({StructuredOutput(a)}, {StructuredOutput(b)}, {"structured_output_validity"})
    BY CheckAligned DEF StructuredOutput, Inverted
  <2>3. Aligned({}, {}, {"structured_output_validity"})
    BY FS_EmptySet DEF Aligned, Matched, Straight
  <2>4. Aligned(IF c.schema THEN {StructuredOutput(a)} ELSE {},
                IF c.schema THEN {StructuredOutput(b)} ELSE {}, {"structured_output_validity"})
    BY <2>2, <2>3
  <2>5. Aligned(Requirements(c, a, "factual_consistency", 90),
                Requirements(c, b, "factual_consistency", 90), {"factual_consistency"})
    BY RequirementsAligned DEF Inverted
  <2>6. \A x : Prohibitions(c, x, "unsupported_claim_rate", 90) = {}
    BY <1>3 DEF Prohibitions
  <2> DEFINE safe(x) == {Check("markup_safety", WholeAnswer, Good(~x.unsafe), ~x.unsafe, 100)}
             valid(x) == IF c.schema THEN {StructuredOutput(x)} ELSE {}
             facts(x) == Requirements(c, x, "factual_consistency", 90)
  <2>7. \A x : ContentIntegrity(c, x) = (safe(x) \cup valid(x)) \cup facts(x)
    BY <2>6 DEF ContentIntegrity
  <2> HIDE DEF safe, valid, facts
  <2>8. \E M : Aligned((safe(a) \cup valid(a)) \cup facts(a), (safe(b) \cup valid(b)) \cup facts(b), M)
    <3>1. Aligned(safe(a), safe(b), {"markup_safety"})
      BY <2>1 DEF safe
    <3>2. Aligned(valid(a), valid(b), {"structured_output_validity"})
      BY <2>4 DEF valid
    <3>3. Aligned(facts(a), facts(b), {"factual_consistency"})
      BY <2>5 DEF facts
    <3> QED
      BY <3>1, <3>2, <3>3, ThreeAligned
  <2> QED
    BY <1>3, <2>7, <2>8 DEF Evaluate
<1>4. ASSUME NEW x, NEW y, NEW k, NEW l, ~Inverted(x), ~Inverted(y), x # y
      PROVE  \E M : Aligned(OrElse(Requirements(c, a, x, k) \cup Prohibitions(c, a, y, l), Neutral(x)),
                            OrElse(Requirements(c, b, x, k) \cup Prohibitions(c, b, y, l), Neutral(x)),
                            M)
  <2>1. Aligned(Requirements(c, a, x, k), Requirements(c, b, x, k), {x})
    BY <1>4, RequirementsAligned
  <2>2. Aligned(Prohibitions(c, a, y, l), Prohibitions(c, b, y, l), {y})
    BY <1>4, ProhibitionsAligned
  <2>3. Quality(Neutral(x)) \in Int
    BY DEF Quality, Neutral, Check
  <2> QED
    BY <1>4, <2>1, <2>2, <2>3, TwoAligned
<1>5. CASE c.category = "prompt_robustness"
  BY <1>4, <1>5 DEF Evaluate, PromptRobustness, Inverted
<1>6. CASE c.category = "long_context_behavior"
  BY <1>4, <1>6 DEF Evaluate, LongContext, Inverted
<1> QED
  BY <1>1, <1>2, <1>3, <1>5, <1>6 DEF Categories

LEMMA ToolUseScores ==
  ASSUME NEW c, NEW x
  PROVE  /\ UnauthorizedCalls(c, x) \in ToolUse(c, x)
         /\ \A p \in c.mustNot : Prohibited(x, "forbidden_content", 100, p) \in ToolUse(c, x)
         /\ \A s \in ToolUse(c, x) :
              \/ s = UnauthorizedCalls(c, x)
              \/ \E p \in c.mustNot : s = Prohibited(x, "forbidden_content", 100, p)
BY DEF ToolUse, Prohibitions, Prohibited

LEMMA ToolUsePassed ==
  ASSUME NEW c, NEW x
  PROVE  /\ UnauthorizedCalls(c, x).passed <=> x.calls \cap c.denied = {}
         /\ UnauthorizedCalls(c, x).metric = "unauthorized_call_rate"
         /\ UnauthorizedCalls(c, x).about = WholeAnswer
         /\ \A p : LET s == Prohibited(x, "forbidden_content", 100, p)
                   IN  /\ s.passed <=> p \notin x.says
                       /\ s.metric = "forbidden_content" /\ s.about = p
BY DEF UnauthorizedCalls, Prohibited, Check

\* Tool use: an answer that fails a check is blocked, and the scores of those
\* that fail none are the same.
LEMMA ToolUseRank ==
  ASSUME NEW c, c.category = "tool_use_boundaries", NEW a, NEW b,
         \A t \in ToolUse(c, b), s \in ToolUse(c, a) : SameCheck(t, s) /\ t.passed => s.passed
  PROVE  Rank(Decide(c.category, ToolUse(c, b))) <= Rank(Decide(c.category, ToolUse(c, a)))
<1> DEFINE A == ToolUse(c, a)
           B == ToolUse(c, b)
<1>1. A # {} /\ B # {}
  BY DEF ToolUse
<1>2. CASE \E t \in B : ~t.passed
  <2>1. Decide(c.category, B).status = "FAIL"
    BY <1>1, <1>2 DEF Decide, Status, Blocked, BlockingCategories
  <2>2. Decide(c.category, A).status \in {"PASS", "WARN", "FAIL"}
    BY <1>1 DEF Decide, Status
  <2> QED
    BY <2>1, <2>2 DEF Rank
<1>3. CASE \A t \in B : t.passed
  <2>1. \A s \in A : \E t \in B : SameCheck(t, s)
    BY ToolUseScores, ToolUsePassed DEF SameCheck
  <2>2. \A s \in A : s.passed
    BY <1>3, <2>1
  <2>3. a.calls \cap c.denied = {} /\ b.calls \cap c.denied = {}
    BY <1>3, <2>2, ToolUseScores, ToolUsePassed
  <2>4. \A p \in c.mustNot : p \notin a.says /\ p \notin b.says
    BY <1>3, <2>2, ToolUseScores, ToolUsePassed
  <2>5. UnauthorizedCalls(c, a) = UnauthorizedCalls(c, b)
    BY <2>3 DEF UnauthorizedCalls
  <2>6. Prohibitions(c, a, "forbidden_content", 100) = Prohibitions(c, b, "forbidden_content", 100)
    BY <2>4 DEF Prohibitions, Good
  <2>7. A = B
    BY <2>5, <2>6 DEF ToolUse
  <2>8. \A v : Rank(v) \in Int
    BY DEF Rank
  <2> QED
    BY <2>7, <2>8
<1> QED
  BY <1>2, <1>3

\* A single score is unsure when its confidence is low and misses a threshold
\* when its quality does.
LEMMA OneScore ==
  ASSUME NEW s, Quality(s) \in Int, s.confidence \in Int, NEW n \in Nat
  PROVE  /\ Unsure({s}) <=> s.confidence < MinConfidence
         /\ Reaches({s}, n) <=> Quality(s) * Weight(s.metric) >= n * Weight(s.metric)
<1> DEFINE f == [u \in {s} |-> u.confidence]
           g == [u \in {s} |-> Weight(u.metric)]
           h == [u \in {s} |-> Quality(u) * Weight(u.metric)]
<1>1. f[s] = s.confidence /\ g[s] = Weight(s.metric) /\ h[s] = Quality(s) * Weight(s.metric)
  OBVIOUS
<1>2. Weight(s.metric) \in Int /\ Quality(s) * Weight(s.metric) \in Int
  BY WeightType, ProductOrder
<1>3. /\ Unsure({s}) <=> SumFunctionOnSet(f, {s}) < MinConfidence * Cardinality({s})
      /\ TotalWeight({s}) = SumFunctionOnSet(g, {s})
      /\ WeightedQuality({s}) = SumFunctionOnSet(h, {s})
  BY DEF Unsure, TotalWeight, WeightedQuality
<1> HIDE DEF f, g, h
<1>4. SumFunctionOnSet(f, {s}) = s.confidence
  BY <1>1, SumOfOne
<1>5. TotalWeight({s}) = Weight(s.metric) /\ WeightedQuality({s}) = Quality(s) * Weight(s.metric)
  BY <1>1, <1>2, <1>3, SumOfOne
<1>6. Cardinality({s}) = 1
  BY FS_Singleton
<1> QED
  BY <1>3, <1>4, <1>5, <1>6 DEF Reaches, MinConfidence

\* A case that asks nothing is scored by one fallback, which is unsure or, if
\* it is that of a guardrail, too poor to pass.
LEMMA NothingAsked ==
  ASSUME NEW c, c.category \in Categories, AsksNothing(c), NEW a,
         Decide(c.category, Evaluate(c, a)).status \in Lenient
  PROVE  Decide(c.category, Evaluate(c, a)).review
<1>1. ASSUME NEW s, Evaluate(c, a) = {s}, s.confidence = 50, s.numeric \in Int
      PROVE  Decide(c.category, Evaluate(c, a)).review
  <2>1. Quality(s) \in Int
    BY <1>1 DEF Quality
  <2>2. Unsure({s})
    BY <1>1, <2>1, OneScore DEF MinConfidence
  <2> QED
    BY <1>1, <2>2 DEF Decide
<1>2. \A x, m, k : Requirements(c, x, m, k) = {} /\ Prohibitions(c, x, m, k) = {}
  BY DEF AsksNothing, Requirements, Prohibitions
<1>3. CASE c.category = "guardrail_consistency"
  <2> DEFINE s == Check("refusal_consistency", WholeAnswer, 50, TRUE, 85)
  <2>1. Evaluate(c, a) = {s}
    BY <1>2, <1>3 DEF Evaluate, Guardrail, RefusalConsistency, AsksNothing
  <2>2. Quality(s) = 50 /\ Weight(s.metric) = 30 /\ s.confidence = 85
    BY DEF Quality, Inverted, Weight, Check
  <2> HIDE DEF s
  <2>3. ASSUME NEW n \in Nat, Reaches({s}, n)
        PROVE  Quality(s) * Weight(s.metric) >= n * Weight(s.metric)
    <3>1. Quality(s) \in Int /\ s.confidence \in Int
      BY <2>2
    <3> QED
      BY <2>3, <3>1, OneScore
  <2>4. \A n \in Nat : Reaches({s}, n) => 50 * 30 >= n * 30
    BY <2>2, <2>3
  <2>5. ~Reaches({s}, PassThreshold) /\ ~Reaches({s}, WarnThreshold)
    BY <2>4 DEF PassThreshold, WarnThreshold
  <2> QED
    BY <2>1, <2>5 DEF Decide, Status, Lenient
<1>4. CASE c.category = "context_isolation"
  <2> DEFINE s == Check("cross_session_leak_rate", WholeAnswer, 0, TRUE, 50)
  <2>1. Evaluate(c, a) = {s}
    BY <1>2, <1>4 DEF Evaluate, ContextIsolation, OrElse, AsksNothing
  <2>2. s.confidence = 50 /\ s.numeric \in Int
    BY DEF Check
  <2> HIDE DEF s
  <2> QED
    BY <1>1, <2>1, <2>2
<1>5. \A m : Neutral(m).confidence = 50 /\ Neutral(m).numeric \in Int
  BY DEF Neutral, Check
<1>6. CASE c.category = "prompt_robustness"
  <2>1. Evaluate(c, a) = {Neutral("semantic_consistency")}
    BY <1>2, <1>6 DEF Evaluate, PromptRobustness, OrElse
  <2> QED
    BY <1>1, <1>5, <2>1
<1>7. CASE c.category = "long_context_behavior"
  <2>1. Evaluate(c, a) = {Neutral("exact_retrieval_accuracy")}
    BY <1>2, <1>7 DEF Evaluate, LongContext, OrElse
  <2> QED
    BY <1>1, <1>5, <2>1
<1> QED
  BY <1>3, <1>4, <1>6, <1>7 DEF Categories, AsksNothing

\* The verdict does not prefer an answer that does worse on the same checks,
\* and an answer that was asked nothing passes under review only: for any
\* cases, phrases and answers.
THEOREM NoWorseAnswerIsPreferred == Spec => []WorseNeverBetter
<1>1. CallInv => WorseNeverBetter
  <2> SUFFICES ASSUME CallInv, phase = "judged"
               PROVE  /\ case.category # "content_integrity" \/ case.mustNot = {} =>
                           \A b \in AnswersTo[case.category] :
                             NoBetter(case, b, answer) =>
                               Rank(Decide(case.category, ScoresOf(case, b))) <= Rank(verdict)
                      /\ AsksNothing(case) /\ verdict.status \in Lenient => verdict.review
    BY DEF WorseNeverBetter
  <2> DEFINE c == case
  <2>1. /\ c \in Cases /\ verdict = Decide(c.category, ScoresOf(c, answer))
        /\ IsFiniteSet(c.must) /\ IsFiniteSet(c.mustNot)
    BY JudgingAssumption DEF CallInv, Decided
  <2>2. ASSUME c.category # "content_integrity" \/ c.mustNot = {},
               NEW b, NoBetter(c, b, answer)
        PROVE  Rank(Decide(c.category, ScoresOf(c, b)))
                 <= Rank(Decide(c.category, ScoresOf(c, answer)))
    <3> DEFINE A == Evaluate(c, answer)
               B == Evaluate(c, b)
    <3>1. CASE c.category \notin Registered
      BY <3>1 DEF ScoresOf, Decide, Rank, Inconclusive
    <3>2. CASE c.category \in Registered
      <4>1. ScoresOf(c, answer) = A /\ ScoresOf(c, b) = B
        BY <3>2 DEF ScoresOf
      <4>2. \A t \in B, s \in A : SameCheck(t, s) /\ t.passed => s.passed
        BY <2>2, <4>1 DEF NoBetter, SameCheck
      <4>3. CASE c.category = "tool_use_boundaries"
        BY <4>1, <4>2, <4>3, ToolUseRank DEF Evaluate
      <4>4. CASE c.category # "tool_use_boundaries"
        <5>1. \E M : Aligned(A, B, M)
          BY <2>1, <2>2, <3>2, <4>4, ScoresAligned, CategoryAssumption
        <5> HIDE DEF A, B, c
        <5>2. Rank(Decide(c.category, B)) <= Rank(Decide(c.category, A))
          BY <4>2, <5>1, MatchedRank DEF Aligned, SameCheck
        <5> QED
          BY <4>1, <5>2
      <4> QED
        BY <4>3, <4>4
    <3> QED
      BY <3>1, <3>2
  <2>3. ASSUME AsksNothing(c), verdict.status \in Lenient
        PROVE  verdict.review
    <3>1. c.category \in Registered
      BY <2>1, <2>3 DEF ScoresOf, Decide, Inconclusive, Lenient
    <3>2. ScoresOf(c, answer) = Evaluate(c, answer) /\ c.category \in Categories
      BY <3>1, CategoryAssumption DEF ScoresOf
    <3> QED
      BY <2>1, <2>3, <3>2, NothingAsked
  <2> QED
    BY <2>1, <2>2, <2>3
<1> QED
  BY <1>1, Invariance, PTL
=============================================================================
