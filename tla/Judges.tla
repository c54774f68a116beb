------------------------------- MODULE Judges -------------------------------
(***************************************************************************)
(* A panel of judges: what parse_evaluator_result makes of a judge's raw   *)
(* output, and how JudgeEnsemble.consolidate rules on the results.  Rates  *)
(* are percentages.  Nothing under src/ calls either but the tests, so how *)
(* a parsed output becomes the result of a judge is left to module         *)
(* AnswerPath, which convenes the panel.                                   *)
(***************************************************************************)
EXTENDS Integers, FiniteSets, FiniteSetsExt

JudgePassThreshold == 80

-----------------------------------------------------------------------------
(* parse_evaluator_result *)

\* What the parser tells apart in an output: the document (one bare JSON
\* object, or that with whitespace, fences, prose around it, or no object),
\* its keys, the schema version, the score member, and the reason.
RawOutputs ==
  [document : {"bare", "padded", "fenced", "trailing", "broken"},
   keys : {"exact", "missing", "unknown", "duplicate"},
   version : BOOLEAN,
   number : {"rate", "outside", "infinite", "constant", "boolean", "text", "huge"},
   rate : 0..100,
   reason : {"given", "blank", "long"}]

\* Everything but the score and the reason, in the order of the checks.
WellFormed(raw) == raw.document = "bare" /\ raw.keys = "exact" /\ raw.version

Accepted(raw) == /\ WellFormed(raw)
                 /\ raw.number = "rate"
                 /\ raw.reason = "given"

\* An integer beyond the floats is not caught by the parser: float() raises.
ParseError(raw) == IF WellFormed(raw) /\ raw.number = "huge" THEN "OverflowError"
                   ELSE "EvaluationIntegrityError"

\* The result's passed is computed here and never read from the output.
Parsed(raw) == [score |-> raw.rate, passed |-> raw.rate >= JudgePassThreshold]

-----------------------------------------------------------------------------
(* JudgeEnsemble *)

Strategies == {"weighted_majority", "consensus", "unanimous"}

\* weights.get(judge_id, 1.0)
WeightOf(weights, j) == IF j \in DOMAIN weights THEN weights[j] ELSE 1

Passing(results) == {j \in DOMAIN results : results[j].passed}
WeightOfAll(weights, judges) ==
  SumFunctionOnSet([j \in judges |-> WeightOf(weights, j)], judges)

\* The average of the scores is at least one half.
AverageReachesHalf(results) ==
  2 * SumFunctionOnSet([j \in DOMAIN results |-> results[j].score], DOMAIN results)
    >= 100 * Cardinality(DOMAIN results)

Tied(weights, results) ==
  2 * WeightOfAll(weights, Passing(results)) = WeightOfAll(weights, DOMAIN results)

MajorityPasses(weights, results) ==
  \/ 2 * WeightOfAll(weights, Passing(results)) > WeightOfAll(weights, DOMAIN results)
  \/ Tied(weights, results) /\ AverageReachesHalf(results)

Ruling(passed, disagreement, tie) ==
  [passed |-> passed, disagreement |-> disagreement, tie |-> tie]
Disagree(results) == Passing(results) \notin {{}, DOMAIN results}

\* ConfigurationError instead of a ruling.
Refuses(failClosed, weights, results) ==
  \/ DOMAIN results = {} /\ ~failClosed
  \/ \E j \in DOMAIN results : WeightOf(weights, j) < 0

\* The ruling on the results of the judges that have one.  A judge without a
\* result is not missed: the policy is about a panel without any.
Consolidate_EmptyPanelVotes(strategy, weights, results) ==
  IF strategy = "weighted_majority"
  THEN Ruling(MajorityPasses(weights, results), Disagree(results), Tied(weights, results))
  ELSE Ruling(Passing(results) = DOMAIN results, Disagree(results), FALSE)
Consolidate(strategy, weights, results) ==
  IF DOMAIN results = {} THEN Ruling(FALSE, TRUE, FALSE)
  ELSE IF strategy = "weighted_majority"
  THEN Ruling(MajorityPasses(weights, results), Disagree(results), Tied(weights, results))
  ELSE Ruling(Passing(results) = DOMAIN results, Disagree(results), FALSE)
=============================================================================
