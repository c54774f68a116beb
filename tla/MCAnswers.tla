------------------------------ MODULE MCAnswers ------------------------------
EXTENDS AnswerPath

CONSTANTS p1, p2, tool, j1, j2

\* Cases that differ only in what their evaluator does not read are one case.
CaseOf(category, must, mustNot, denied, expects, schema) ==
  [category |-> category, must |-> must, mustNot |-> mustNot, denied |-> denied,
   expects |-> expects, schema |-> schema]

PhrasePairs == {<<m, n>> \in (SUBSET Phrases) \X (SUBSET Phrases) : m \cap n = {}}

MCCases ==
  {CaseOf(c, mn[1], mn[2], {}, "nothing", FALSE) :
     c \in {"prompt_robustness", "context_isolation", "long_context_behavior", "retired"},
     mn \in PhrasePairs}
  \cup {CaseOf("guardrail_consistency", mn[1], mn[2], {}, e, FALSE) :
          mn \in PhrasePairs, e \in {"refusal", "benign", "nothing"}}
  \cup {CaseOf("tool_use_boundaries", {}, n, d, "nothing", FALSE) :
          n \in SUBSET Phrases, d \in SUBSET Tools}
  \cup {CaseOf("content_integrity", mn[1], mn[2], {}, "nothing", s) :
          mn \in PhrasePairs, s \in BOOLEAN}

\* Likewise for answers.
MCAnswersTo ==
  [c \in Categories \cup {"retired"} |->
     [says : SUBSET Phrases,
      calls : IF c = "tool_use_boundaries" THEN SUBSET Tools ELSE {{}},
      refuses : IF c = "guardrail_consistency" THEN BOOLEAN ELSE {FALSE},
      unsafe : IF c = "content_integrity" THEN BOOLEAN ELSE {FALSE},
      json : IF c = "content_integrity" THEN {"container", "scalar", "none"}
             ELSE {"none"}]]

MCOutputs ==
  {[document |-> d, keys |-> k, version |-> TRUE, number |-> n, rate |-> r,
    reason |-> "given"] :
     d \in {"bare", "fenced"}, k \in {"exact", "unknown"},
     n \in {"rate", "huge"}, r \in {20, 60, 90}}

MCPanels == [strategy : {"weighted_majority", "unanimous"}, failClosed : BOOLEAN,
             weights : [{j1, j2} -> {-1, 0, 1, 2}] \cup {[j \in {} |-> 1]}]
=============================================================================
