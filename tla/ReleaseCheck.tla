---------------------------- MODULE ReleaseCheck ----------------------------
(***************************************************************************)
(* The CLI command release-check: ten groups of checks one after the       *)
(* other, the exceptions each of them swallows, and the verdict.  What a   *)
(* group looks at (the sources, the tests, the cases, the database, the    *)
(* telemetry and provenance packages, the working tree) is sound or not;   *)
(* the gates with a logic of their own, the evaluation-integrity report,   *)
(* the object authorization and the evaluator's child process, are         *)
(* evaluated as they are.                                                  *)
(***************************************************************************)
EXTENDS Integers, Sequences, FiniteSets, FiniteSetsExt

CONSTANTS Reports,   \* contents reports/judge_resistance.json may have
          MaxFaults  \* bounds how much is wrong at once

ASSUME ReleaseAssumption ==
  \A r \in Reports : /\ r.total \in Int /\ r.passed \in Int /\ r.failed \in Int
                     /\ r.cases \in Seq([id : STRING, passed : BOOLEAN])

VARIABLES faults,   \* what is unsound, by the check that looks at it
          raising,  \* groups that raise
          world,    \* the report, the database file, the host's environment
          group,    \* number of the next group
          checks,   \* results so far
          probed,   \* history: a child was seen to run to its end without a key
          outcome   \* how the command ends

releaseVars == <<faults, raising, world, group, checks, probed, outcome>>

Groups == <<"compilation", "unit_tests", "validation", "database_integrity",
            "telemetry", "evaluation_integrity", "object_authorization",
            "provenance", "isolation", "git_clean">>

TelemetryChecks == {"telemetry_import", "telemetry_noop", "metrics_registry",
                    "telemetry_secret_safety"}
ProvenanceChecks ==
  {"decision_schema_validation", "decision_canonicalization",
   "decision_digest_verification", "decision_signature_verification",
   "decision_ed25519_verification", "decision_append_only_persistence",
   "decision_chain_integrity", "decision_sequence_validation",
   "decision_duplicate_rejection", "decision_sensitive_field_exclusion"}
IsolationChecks == {"evaluator_environment_scrubbing", "evaluator_subprocess_isolation",
                    "evaluator_credential_leak_prevention"}

\* Without --strict only these four count.
Required == {"compilation", "unit_tests", "validation", "database_integrity"}

-----------------------------------------------------------------------------
(* assert_evaluation_integrity *)

\* A case is an id and a result, or no object at all: NotAnObject.
NotAnObject == [id |-> "none", passed |-> FALSE]
Count(cases, passed) == Cardinality({k \in DOMAIN cases : cases[k].passed = passed})

Countable(r) == /\ r.total > 0 /\ r.passed >= 0 /\ r.failed >= 0
                /\ r.passed + r.failed = r.total
                /\ Len(r.cases) = r.total
Recounted(r) == Count(r.cases, TRUE) = r.passed /\ Count(r.cases, FALSE) = r.failed
Distinct(r) == \A k, l \in DOMAIN r.cases :
                 k # l /\ r.cases[k].id = r.cases[l].id => r.cases[k] = NotAnObject

\* The score is a percentage, or a value no comparison is true of.
NaN == -1
ScoreFits(r) == r.score = NaN \/ r.score * r.total = 100 * r.passed
ScoreSuffices(r) == (r.score = NaN \/ r.score >= 100) /\ r.failed = 0

\* Every way not to meet these raises ReleaseGateError, or an error of the
\* conversion that the caller swallows as well.
IntegrityHolds_TrustsTotals(r) ==
  /\ r.present /\ r.exact /\ r.age = "fresh"
  /\ Countable(r) /\ Distinct(r) /\ ScoreFits(r) /\ ScoreSuffices(r)
IntegrityHolds(r) ==
  /\ r.present /\ r.exact /\ r.age = "fresh"
  /\ Countable(r) /\ Recounted(r) /\ Distinct(r) /\ ScoreFits(r) /\ ScoreSuffices(r)

-----------------------------------------------------------------------------
(* ObjectAuthorizationGate.authorize *)

Mutating == {"UPDATE", "DELETE", "CANCEL", "ADMIN"}
Authorize(identity, resource, action, requestedParent) ==
  IF \/ identity.tenant # resource.tenant
     \/ resource.parentTenant \notin {"", identity.tenant}
  THEN 404
  ELSE IF \/ /\ requestedParent # "" /\ resource.parent # ""
             /\ requestedParent # resource.parent
          \/ /\ ~identity.admin /\ identity.user # resource.owner
             /\ action \in Mutating
  THEN 403 ELSE 200

\* A stranger's read, as the group tries it.
ForeignRead ==
  Authorize([tenant |-> "t_a", user |-> "u_a", admin |-> FALSE],
            [tenant |-> "t_b", owner |-> "u_b", parent |-> "", parentTenant |-> ""],
            "READ", "")

-----------------------------------------------------------------------------
(* The evaluator's child process *)

\* scrub_environment over the variables the gate is about.
Secrets == {"OPENAI_API_KEY", "ANTHROPIC_API_KEY"}
Scrub(env) == (env \ Secrets) \cup {"HARNESS_EVALUATOR_SANDBOX"}

\* run_evaluator_code: a child that is late, fails or prints something else
\* than one object with the two members it must have raises.  An answer that
\* comes after the timeout is an answer that did not come.
ChildResult(late, exitCode, output) ==
  IF late \/ exitCode # 0 \/ output.form # "object" \/ ~output.complete \/ ~output.numeric
  THEN "EvaluatorIsolationError" ELSE "result"
Printed == [form |-> "object", complete |-> TRUE, numeric |-> TRUE]

\* The two children of the gate: one asserts that it has no key, the other
\* reports a result if it has one and raises if not.
Probe(env, late) == ChildResult(late, IF "OPENAI_API_KEY" \in env THEN 1 ELSE 0, Printed)
Leak(env, late) == ChildResult(late, IF "OPENAI_API_KEY" \in env THEN 0 ELSE 1, Printed)

\* The leak counts as prevented whatever the child failed of.
IsolationResults(lateProbe, lateLeak) ==
  LET env == Scrub(world.env)
      clean == Scrub(Secrets \cup {"PATH", "USER"})
  IN  [n \in IsolationChecks |->
         CASE n = "evaluator_environment_scrubbing" -> clean \cap Secrets = {} /\ "PATH" \in clean
           [] n = "evaluator_subprocess_isolation" -> Probe(env, lateProbe) = "result"
           [] OTHER -> Leak(env, lateLeak) = "EvaluatorIsolationError"]

-----------------------------------------------------------------------------
(* The groups *)

Sound(n) == n \notin faults
SoundEach(names) == [n \in names |-> Sound(n)]
FalseEach(names) == [n \in names |-> FALSE]
Only(name, value) == [n \in {name} |-> value]

\* connect creates a database that is missing: it is in order, and ignored by
\* git.  pytest is not started from inside a test.
ResultsOf(g, lateProbe, lateLeak) ==
  CASE g = "unit_tests" -> Only(g, world.nested \/ Sound(g))
    [] g = "validation" ->
         [n \in {"validation", "benchmark_dsl"} |->
            Sound("benchmark_dsl") /\ (n = "validation" => Sound("validation"))]
    [] g = "database_integrity" -> Only(g, world.noDatabase \/ Sound(g))
    [] g = "telemetry" -> SoundEach(TelemetryChecks)
    [] g = "evaluation_integrity" -> Only(g, IntegrityHolds(world.report))
    [] g = "object_authorization" -> Only(g, ForeignRead = 404)
    [] g = "provenance" ->
         [n \in ProvenanceChecks \cup {"decision_provenance"} |->
            IF n = "decision_provenance" THEN \A m \in ProvenanceChecks : Sound(m)
            ELSE Sound(n)]
    [] g = "isolation" -> IsolationResults(lateProbe, lateLeak)
    [] OTHER -> Only(g, Sound(g))

\* A group that raises fails all of its checks, but for the validation: it
\* leaves benchmark_dsl unbound.
ResultsIfRaised_ForgetsOne(g) ==
  CASE g = "validation" -> FalseEach({"validation"})
    [] g = "telemetry" -> FalseEach(TelemetryChecks)
    [] g = "provenance" -> FalseEach(ProvenanceChecks)
    [] g = "isolation" -> FalseEach(IsolationChecks)
    [] OTHER -> FalseEach({g})
ResultsIfRaised(g) ==
  CASE g = "validation" -> FalseEach({"validation"})
    [] g = "telemetry" -> FalseEach(TelemetryChecks)
    [] g = "provenance" -> FalseEach(ProvenanceChecks \cup {"decision_provenance"})
    [] g = "isolation" -> FalseEach(IsolationChecks)
    [] OTHER -> FalseEach({g})

AllChecks == Required \cup TelemetryChecks \cup ProvenanceChecks \cup IsolationChecks
               \cup {"benchmark_dsl", "git_clean", "evaluation_integrity",
                     "object_authorization", "decision_provenance"}

Report(exact, age, total, passed, failed, score, cases) ==
  [present |-> TRUE, exact |-> exact, age |-> age, total |-> total, passed |-> passed,
   failed |-> failed, score |-> score, cases |-> cases]

\* What can be unsound apart from the gates that are evaluated.
Faulty == Required \cup {"benchmark_dsl", "git_clean"} \cup TelemetryChecks \cup ProvenanceChecks
UpTo(n, S) == UNION {kSubset(k, S) : k \in 0..n}

ReleaseInit ==
  /\ faults \in UpTo(MaxFaults, Faulty)
  /\ raising \in UpTo(MaxFaults - Cardinality(faults), {Groups[k] : k \in DOMAIN Groups})
  /\ world \in [report : Reports, noDatabase : BOOLEAN, nested : BOOLEAN,
                env : {{"PATH"}, {"PATH", "OPENAI_API_KEY"}}]
  /\ world.noDatabase => "database_integrity" \notin faults
  /\ group = 1 /\ checks = [n \in {} |-> FALSE] /\ probed = FALSE /\ outcome = "none"

Check(lateProbe, lateLeak) ==
  LET g == Groups[group]
      new == IF g \in raising THEN ResultsIfRaised(g) ELSE ResultsOf(g, lateProbe, lateLeak)
  IN  /\ group <= Len(Groups)
      /\ g = "git_clean" => g \notin raising
      /\ checks' = [n \in DOMAIN checks \cup DOMAIN new |->
                      IF n \in DOMAIN new THEN new[n] ELSE checks[n]]
      /\ probed' = (probed \/ (g = "isolation" /\ g \notin raising
                                /\ Probe(Scrub(world.env), lateProbe) = "result"))
      /\ group' = group + 1
      /\ UNCHANGED <<faults, raising, world, outcome>>

\* git is started outside of a try.
GitRaises == /\ group = Len(Groups) /\ "git_clean" \in raising /\ outcome = "none"
             /\ outcome' = "exception"
             /\ UNCHANGED <<faults, raising, world, group, checks, probed>>

\* The dictionary of results names benchmark_dsl, bound or not.
Conclude(strict) ==
  /\ group > Len(Groups) /\ outcome = "none"
  /\ outcome' = IF "benchmark_dsl" \notin DOMAIN checks THEN "exception"
                ELSE IF \A n \in IF strict THEN DOMAIN checks ELSE Required : checks[n]
                THEN IF strict THEN "strictly ready" ELSE "ready"
                ELSE "failed"
  /\ UNCHANGED <<faults, raising, world, group, checks, probed>>

ReleaseStep == \/ \E lateProbe, lateLeak \in BOOLEAN : Check(lateProbe, lateLeak)
               \/ GitRaises
               \/ \E strict \in BOOLEAN : Conclude(strict)

-----------------------------------------------------------------------------
(* Properties *)

ReleaseTypeOK ==
  /\ group \in 1..Len(Groups) + 1 /\ probed \in BOOLEAN
  /\ DOMAIN checks \subseteq AllChecks
  /\ outcome \in {"none", "ready", "strictly ready", "failed", "exception"}
  /\ outcome \in {"ready", "strictly ready", "failed"} => DOMAIN checks = AllChecks

\* Every judge held out in a report of this day, and the report says so.
Resisted(r) == /\ r.age = "fresh" /\ r.cases # <<>>
               /\ \A k \in DOMAIN r.cases : r.cases[k].passed
               /\ \A k, l \in DOMAIN r.cases : r.cases[k].id = r.cases[l].id => k = l

\* The command declares nothing ready that it has not checked: strictly ready
\* means that nothing is unsound, no group raised, the report is one of a full
\* resistance and a child was seen to run without a key, which one that ran out
\* of time was not; ready that the four required groups are sound.  A unit test
\* excuses the unit tests.
ReadyIsEarned ==
  /\ outcome \in {"ready", "strictly ready"} =>
       /\ faults \cap (Required \cup {"benchmark_dsl"})
            \subseteq IF world.nested THEN {"unit_tests"} ELSE {}
       /\ raising \cap Required = {}
  /\ outcome = "strictly ready" =>
       /\ faults \subseteq IF world.nested THEN {"unit_tests"} ELSE {}
       /\ raising = {}
       /\ Resisted(world.report) /\ probed
=============================================================================
