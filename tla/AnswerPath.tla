----------------------------- MODULE AnswerPath -----------------------------
(***************************************************************************)
(* What becomes of one request: the call of the provider, the scores of    *)
(* its answer and the verdict on it, as in steps 8 to 14 of Runner.run     *)
(* (module Dispatch interleaves the calls, RunPersistence stores what      *)
(* comes of them).  A behaviour that starts with phase "convened" is that  *)
(* of the other judging component, a panel of judges: their outputs come   *)
(* in, are parsed, and the panel rules on what it has.                     *)
(***************************************************************************)
EXTENDS ProviderCall, VerdictEngine, Judges

CONSTANTS Cases,     \* test cases as the evaluators see them
          AnswersTo, \* by category: answers as its evaluator sees them
          JudgeIds,  \* the judges of a panel
          Outputs,   \* raw outputs a judge may return
          Panels     \* strategy, policy and weights a panel may have

\* A test case lists its phrases; outputs are as the parser tells them apart;
\* the weights are numbers.
ASSUME JudgingAssumption ==
  /\ \A c \in Cases : IsFiniteSet(c.must) /\ IsFiniteSet(c.mustNot)
  /\ Outputs \subseteq RawOutputs
  /\ \A q \in Panels : \A j \in DOMAIN q.weights : q.weights[j] \in Int

VARIABLES case, answer,     \* the case and the answer to it, once there is one
          verdict,          \* what VerdictEngine.decide returned
          panel,            \* the panel, in a behaviour that convenes one
          results,          \* results of the judges whose output was accepted
          ruling            \* what JudgeEnsemble.consolidate returned

answerVars == <<case, answer, verdict>>
panelVars == <<panel, results, ruling>>
vars == <<callVars, answerVars, panelVars>>

NoResults == [j \in {} |-> None]

-----------------------------------------------------------------------------
(* An answer of the provider *)

Call == /\ \/ Attempt \/ TimeOut \/ WakeUp
           \/ \E r \in Replies : SdkRepeat(r) \/ Reject(r) \/ Answer(r)
        /\ UNCHANGED <<answerVars, panelVars>>

\* The body of the scoring loop.  The case is that of the request, which says
\* nothing to the call; it is named where it is first read.
ScoreAndDecide_SkipsUnscored(c, a) ==
  /\ phase = "answered"
  /\ phase' = "judged"
  /\ case' = c /\ answer' = a
  /\ verdict' = IF ScoresOf(c, a) = {} THEN None
                ELSE Decide(c.category, ScoresOf(c, a))
  /\ UNCHANGED <<provider, attempt, hidden, requests, error, status, panelVars>>
ScoreAndDecide(c, a) ==
  /\ phase = "answered"
  /\ phase' = "judged"
  /\ case' = c /\ answer' = a
  /\ verdict' = Decide(c.category, ScoresOf(c, a))
  /\ UNCHANGED <<provider, attempt, hidden, requests, error, status, panelVars>>

-----------------------------------------------------------------------------
(* A panel *)

\* A judge's output is parsed.  One the parser raises for leaves the judge
\* without a result.
Report(j, raw) ==
  /\ phase = "convened"
  /\ j \notin DOMAIN results
  /\ Accepted(raw)
  /\ results' = [i \in DOMAIN results \cup {j} |->
                   IF i = j THEN Parsed(raw) ELSE results[i]]
  /\ UNCHANGED <<callVars, answerVars, panel, ruling>>

Rule ==
  /\ phase = "convened"
  /\ phase' = "ruled"
  /\ ruling' = IF Refuses(panel.failClosed, panel.weights, results) THEN None
               ELSE Consolidate(panel.strategy, panel.weights, results)
  /\ UNCHANGED <<provider, attempt, hidden, requests, error, status,
                 answerVars, panel, results>>

-----------------------------------------------------------------------------
Nothing == /\ case = None /\ answer = None /\ verdict = None
           /\ results = NoResults /\ ruling = None

PanelInit == /\ provider = CHOOSE p \in Providers : TRUE
             /\ phase = "convened"
             /\ attempt = 0 /\ hidden = 0 /\ requests = 0
             /\ error = None /\ status = 0
             /\ panel \in Panels

Init == /\ \/ CallInit /\ panel = None
           \/ PanelInit
        /\ Nothing

Over == phase \in {"failed", "judged", "ruled"} /\ UNCHANGED vars

Judge == \E c \in Cases : \E a \in AnswersTo[c.category] : ScoreAndDecide(c, a)

Next == \/ Call \/ Judge \/ Rule \/ Over
        \/ \E j \in JudgeIds, raw \in Outputs : Report(j, raw)

\* An attempt ends within its timeout, and the event loop runs what is ready.
Spec == Init /\ [][Next]_vars /\ WF_vars(Call) /\ WF_vars(Judge)

-----------------------------------------------------------------------------
(* Properties *)

Phases == {"ready", "waiting", "backoff", "failed", "answered", "judged",
           "convened", "ruled"}
Verdicts == [status : {"PASS", "WARN", "FAIL", "INCONCLUSIVE"}, review : BOOLEAN]

ASSUME NoneAssumption == None \notin Verdicts

\* Every variable holds a value of its type, and there is a verdict exactly
\* after judging.
TypeOK ==
  /\ provider \in Providers /\ phase \in Phases
  /\ attempt \in 0..MaxAttempts /\ hidden \in 0..2 /\ requests \in Nat
  /\ error \in Transient \cup Final \cup Unexpected \cup {None}
  /\ status \in Replies \cup {408}
  /\ case \in Cases \cup {None}
  /\ answer # None => answer \in AnswersTo[case.category]
  /\ verdict \in Verdicts \cup {None}
  /\ panel \in Panels \cup {None}
  /\ DOMAIN results \subseteq JudgeIds
  /\ phase = "judged" <=> verdict # None

\* retry.yaml, "safe to retry" and "must NOT be retried"
Retried == {408, 429, 500, 502, 503, 504}
NotRetried == {400, 401, 403, 404, 422}

\* Whichever adapter makes the call: it gives up on a transient failure or on a
\* status that is safe to retry only when its attempts are used up, but for a
\* 408 sent to an adapter other than Google's; it goes on after no other failure
\* and never after a status that must not be retried; and it sends one request
\* per attempt besides those its SDK repeats.
RetriesForCause ==
  /\ phase = "failed" /\ attempt < MaxAttempts =>
       /\ error \notin Transient
       /\ status \in Retried => status = 408 /\ provider # "google"
  /\ phase # "failed" => /\ error \in Transient \cup {None}
                         /\ status \notin NotRetried
  /\ attempt <= requests /\ requests <= attempt * (1 + SdkRetries(provider))

\* Verdicts that let an answer pass, warned about or not.
Lenient == {"PASS", "WARN"}

\* No answer slips through unexamined: one without scores is inconclusive and
\* goes to a human, and one that fails any check of a blocking category fails,
\* however good the rest of it is.
FailClosed ==
  phase = "judged" =>
    /\ verdict.status \in Lenient =>
         /\ case.category \in Registered
         /\ case.category \in BlockingCategories =>
              \A s \in ScoresOf(case, answer) : s.passed
    /\ case.category \notin Registered => verdict = Inconclusive

\* The case asks nothing of the answer: its evaluator finds nothing to check.
AsksNothing(c) == /\ c.must = {} /\ c.mustNot = {}
                  /\ c.category \notin {"content_integrity", "tool_use_boundaries"}
                  /\ c.category = "guardrail_consistency" => c.expects = "nothing"
NoBetter(c, b, a) ==
  \A t \in ScoresOf(c, b), s \in ScoresOf(c, a) :
    t.metric = s.metric /\ t.about = s.about /\ t.passed => s.passed
Rank(v) == CASE v.status = "PASS" -> 3 [] v.status = "WARN" -> 2
             [] v.status = "FAIL" -> 1 [] OTHER -> 0

\* The verdict on an answer is at least as good as that on an answer to the
\* same case which passes none of the checks the first one fails, and one that
\* was asked nothing does not pass without review.  (Not where a prohibited
\* phrase makes an unsupported_claim_rate: see CleanAnswersCount.)
WorseNeverBetter ==
  phase = "judged" =>
    /\ case.category # "content_integrity" \/ case.mustNot = {} =>
         \A b \in AnswersTo[case.category] :
           NoBetter(case, b, answer) =>
             Rank(Decide(case.category, ScoresOf(case, b))) <= Rank(verdict)
    /\ AsksNothing(case) /\ verdict.status \in Lenient => verdict.review

\* A panel passes nothing on the word of nobody: without results it fails,
\* unanimity and consensus need every result to pass, and a majority needs a
\* judge that passes it unless the judges that reported all weigh nothing.
PanelFailsClosed ==
  ruling # None /\ ruling.passed =>
    /\ results # NoResults
    /\ panel.strategy # "weighted_majority" => Passing(results) = DOMAIN results
    /\ \/ Passing(results) # {}
       \/ \A j \in DOMAIN results : WeightOf(panel.weights, j) = 0

\* Every call ends in an answer that is judged or in an exception.
CallEnds == (phase = "ready") ~> (phase \in {"judged", "failed"})

-----------------------------------------------------------------------------
(* What the repository's text says and the code does not do *)

\* verdict_engine.py:111: every metric is converted "to a higher-is-better
\* quality score", so the best quality goes to a check that passed and the
\* worst to one that failed.
CleanAnswersCount ==
  phase = "judged" =>
    \A s \in ScoresOf(case, answer) : /\ Quality(s) = 100 => s.passed
                                      /\ Quality(s) = 0 => ~s.passed
=============================================================================
