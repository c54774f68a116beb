# A TLA+ model of the multi-model harness

The harness sends test cases to several language-model providers under budget
and rate limits, scores the answers, stores the results in SQLite, and keeps a
signed log of decisions. These modules model the parts of it whose correctness
depends on interleaving, failure or accounting, and the decisions it makes about
each answer. TLC checks them on small
instances; the theorems in the `*_proofs` modules are checked by TLAPS for
every value of the constants.

## 1. The system

| Component | State it keeps | Operations | What is hard about it |
|---|---|---|---|
| **Runner, dispatch** (`runner/runner.py` 184-236, `adapters/base_adapter.py`, `runner/execution_plan.py`, `runner/metrics.py`) | semaphore, result list, metrics, attempts | one task per plan item: take a slot, wait for the limiter, ask the guard, call the provider with retries, record | tasks interleave at four awaits; six ways out of a task |
| **Cost guard** (`runner/cost_guard.py`) | spend per provider, global spend | `check_provider`, `record_spend` | checked before an await, recorded after it |
| **Rate limiter** (`adapters/rate_limiter.py`) | tokens, time of last refill, a lock per bucket | `acquire` | sleeps outside the lock, tasks wake late and race latecomers |
| **Run lifecycle, persistence** (`runner/runner.py` 104-367, `database/repository.py`, `database/transactions.py`, `runner/exporter.py`) | two files per run; rows of runs, executions, scores, verdicts | `run`: early returns, dispatch, scoring, export, one transaction per row | every statement can fail or be the last one; several runs share the file |
| **Provenance store** (`security/provenance_store.py`) | rows of a SQLite table, one chain per stream | `append`, `get_stream_head`, `get_stream_records`, `verify_stored_stream` | read, check, insert across processes; relies on SQLite's locks |
| **Decision records** (`security/decision_provenance.py`) | none (immutable records) | `create`, `verify_signature`, `validate_chain` | links by digest; what append checks step by step must add up to what validation checks at once |
| **Provider adapters** (`adapters/*_adapter.py`, `adapters/base_adapter.py`, `src/security_harness/errors.py`) | attempt counter | one `generate` call: attempts, replies to exception classes, normalised responses | four adapters with four lists of what is transient; an SDK that repeats by itself |
| **Category evaluators, scorer, verdict engine** (`categories/*/evaluator.py`, `runner/scorer.py`, `runner/verdict_engine.py`) | none | `evaluate`, `score`, `decide` | two components must agree which end of a rate is good; empty score lists |
| **Judges** (`evaluators/evaluation_integrity.py`, `evaluators/ensemble.py`) | none | `parse_evaluator_result`, `consolidate` | fail closed on malformed, missing and disagreeing results |
| **Pre-flight** (`runner/runner.py` 104-184, `adapters/auth.py`, `adapters/provider_factory.py`, `adapters/cost_estimator.py`, `runner/execution_plan.py`, `cli/main.py` `run`) | configuration, adapters, cases, plan | credentials, cases, adapters, budget check, plan | checked in two places by two different estimates; providers dropped with a log line |
| **Schema and migrations** (`scripts/bootstrap.py`, `database/sqlite.py`, `database/*.sql`) | tables, columns, `_migrations` | `apply_schema`, `apply_migrations` | commits statement by statement, not idempotent |
| **`backfill-costs`** (`cli/main.py`, `adapters/cost_estimator.py`) | costs of stored executions, a price cache | read, price, update | reads outside the transaction it updates in |
| **`release-check`** (`cli/main.py`, `security/evaluation_integrity_gate.py`, `security/object_authorization.py`, `runner/sandboxed_evaluator.py`) | results of ten groups of checks | each group, the gates, the conclusion | exceptions swallowed group by group; a child's answer against a timeout |
| **Telemetry, plugins** (`telemetry/`, `src/security_harness/plugins/`) | current span, caches | span context manager, `load_plugin` | left out, see section 7 |
| Manifest and replay, capability flags of requests, redaction, benchmark DSL, analytics, dashboard, scripts | none | pure text or number processing, and the remaining commands | left out, see section 7 |

How they meet: `Runner.run` builds the plan and starts one asyncio task per
item; each makes one `generate` call of an adapter. The tasks share the guard,
the limiter, the semaphore, the result list and the metrics, all in one thread,
so they interleave only at awaits. The result list is then scored and judged,
exported to two files, and written to `harness.db`, which runs and tools of
other processes use at the same time. The provenance store has a database file
of its own, also shared between processes. `bootstrap.py`, `backfill-costs` and
`release-check` are processes beside the runs: the first creates the tables a
run writes to, the second rewrites the costs a run has stored, the third reads
a report and starts two children.

What makes each part correct:

* dispatch: every item is settled once, slots come back, the books agree, the
  caps are exceeded by no more than the concurrency explains;
* limiter: a bounded rate over every stretch of time, no needless wait, no
  starvation;
* persistence: a complete row means a complete run, a partial one is cut at a
  known place, nothing is filed under a stranger's answer;
* provenance: chains stay intact whoever appends and whoever dies, an
  acknowledged decision is in the log for good and once;
* a call and its verdict: a failure is retried for a reason, an answer passes
  only if it was examined, and a worse answer is never judged better;
* pre-flight: who is left out of a run is left out for a reason, and what the
  check before the run admits is not refused later without one;
* tools: what is recorded is whole, what is committed stands, and what is
  declared ready has been checked.

## 2. Modules

| Module | What it is |
|---|---|
| `BudgetedDispatch` | abstract: what the dispatch promises its caller |
| `Dispatch` | the tasks of `Runner.run._dispatch` with `CostGuard`, `BaseAdapter.generate`, semaphore, result list, metrics |
| `Dispatch_proofs` | types, slots, results, overshoot bounds, refusals, books, refinement of `BudgetedDispatch`, progress |
| `TokenBucket`, `TokenBucket_proofs` | one provider's bucket and the tasks that acquire from it |
| `RunPersistence`, `RunPersistence_proofs` | `Runner.run` around the dispatch: returns, artifacts, rows, transactions, crashes |
| `ProvenanceLog` | abstract: an append-only log per stream |
| `ProvenanceStore`, `ProvenanceStore_proofs` | `ProvenanceStore.append` as its SQL statements under SQLite's locks |
| `ProviderCall` | one `generate` call of one of four adapters |
| `Evaluators`, `VerdictEngine` | the scores of an answer and the verdict on them |
| `Judges` | a panel's results and its ruling |
| `AnswerPath`, `AnswerPath_proofs` | composes the four: call, scores, verdict; or a panel |
| `PreFlight`, `PreFlight_proofs` | `Runner.run` from the command line to the last item of the plan |
| `Migrations`, `Backfill`, `ReleaseCheck` | the tools beside a run |
| `Operations`, `Operations_proofs` | the three tools in one specification |
| `SumTheorems` | induction over finite sets, sums over them, least members: what the proofs need and the library has not |
| `MC*` | constants for TLC |

`Dispatch` and `BudgetedDispatch` compose the dispatch with the guard;
`ProvenanceStore` composes the store with the record checks. `TokenBucket` is
joined to `Dispatch` by an abstraction: `Dispatch` lets a task wait in
"acquiring" for any time, and `WaitersServed` says that the wait ends, which is
what the fairness of `Dispatch` assumes. `RunPersistence` takes the result list
`Dispatch` produces as an input (`ResultLists`); `OneResultPerItem` and
`EveryItemSettles` of `Dispatch` are why a list has one entry per item.
`ProviderCall` is the inside of what `Dispatch` calls an attempt: `Dispatch` lets
an attempt end in an answer, a transient or a final failure, `ProviderCall` says
which reply ends it how. `PreFlight` says what the plan, the estimates and the
caps are that `Dispatch` takes as constants; it keeps the guard's check and the
answer of an item as two steps in any order, and leaves slots, limiter and
retries to `Dispatch`.

### Dispatch

An action is what a task does between two suspending awaits. The event loop
runs one task at a time, so `check_provider` and the sending of the first
attempt are one step (`Send`), and so are `record_spend`, the append to the
result list, the metrics and the release of the slot (`Succeed`, `Settle`).
`pc` is where the task waits: "queued" (semaphore), "acquiring" (limiter),
"calling" (provider), "backoff" (sleep between attempts), "done".

| Action | Code |
|---|---|
| `Enter` | `async with semaphore`; asyncio's semaphore is first come, first served, and `gather` starts tasks in plan order |
| `Refuse` | `check_provider` raises; the item gets a result, no request is sent |
| `Send`, `Resend` | first and later attempts; a later one asks neither limiter nor guard |
| `Succeed` | answer: spend, store, results, metrics |
| `FailForGood`, `GiveUp`, `BackOff` | the except clauses of `generate` and the end of its loop |

Amounts are integers; the code adds floats, so its totals are off by rounding,
which the model leaves out. The response store is written beside the result
list and not read in a run; the list stands for both.

### TokenBucket

The critical section has no await: refill and grant (`Grant`), or refill and
the length of the sleep (`Wait`), are one action each. Time is discrete, `Minute`
ticks to the minute, and tokens are counted in 1/`Minute` of a request so that
refills are integers. The sleep ends at the first tick at which a request would
be there; the event loop may run the woken task up to `MaxLate` ticks late. A
provider with 0 requests per minute has no bucket.

### RunPersistence

Every row is a transaction of its own (`Execute`, then `Commit`), as in
`HarnessRepository`. Instead of a program counter over statements, `Due(r)` is
the set of rows the run will write and `Precedes` the order in which the code
writes them; the next row is the first one missing. `Violates` is the primary key
of executions and the foreign key of scores and verdicts; `Conflict` and
`DatabaseFails` are the two kinds of exception, both caught by the handler at
`runner.py` 326 that logs a warning and goes on to report the run by its
results. `DatabaseFails` covers the schema, the connection, lock timeouts and
I/O. The rows inserted OR IGNORE with an execution share its transaction and are
part of its row; scores of one answer are one row, because they are written one
after the other and fail for the same reasons. `apply_schema` changes nothing on
an existing database. The status in the status row is `FinalStatus`.

### ProvenanceStore

`append` in its statements: the signature check, `SELECT` of the head, the link
checks, `INSERT`, commit, return. SQLite is external; from the code the model
takes that each call opens a connection with the default rollback journal and a
timeout of ten seconds. The `SELECT` takes SHARED, which the transaction keeps;
the `INSERT` takes RESERVED or fails at once if another has it; the commit
waits as PENDING, which bars new readers, for the old ones. A writer may crash
at any point: locks go, and what was not committed is rolled back. Callers read
a head, build a record and call `append` later; others may append in between,
and a caller may retry a decision it saw no answer for. SHA-256 is taken as
injective over the fields that are kept; secret detection and canonical JSON are
left out. `StreamRecords` is the list of a stream's rows whose sequences ascend,
as its query asks for it.

### AnswerPath: ProviderCall, Evaluators, VerdictEngine, Judges

`ProviderCall` has a phase for where `generate` stands ("ready" for an attempt,
"waiting" for its reply, "backoff", "answered", "failed"), the attempt counter,
and the class and status of the last exception. A reply is an HTTP error status,
no connection, or a completion that is whole, empty or without usage.
`StatusError` and `Normalise` are what each adapter makes of it, clause by
clause; xAI inherits from OpenAI. `requests` counts what is really sent: the
Anthropic client is built with its SDK's default of two repeats (`SdkRepeat`),
the others with none. The SDK clients are external.

`Evaluators` gives the metric, value, result and confidence each of the six
evaluators attaches to what it finds; whether a text contains a phrase or sounds
like a refusal is a field of the answer. `VerdictEngine` is `decide` under
`scoring.yaml`, with the rules of the metrics the evaluators emit. Averages are
compared by multiplying out, in integers. `Judges` is `parse_evaluator_result`
by what it tells apart in an output and `consolidate` for its three strategies.

`AnswerPath` makes one behaviour of them: a call, then the scoring and the
verdict of its answer (`ScoreAndDecide`), as in steps 8 to 14 of `Runner.run`.
Nothing under `src/` but the tests calls the panel, so it is the other kind of
behaviour, chosen by `Init`: outputs come in one by one or not at all, and the
panel rules.

### PreFlight

| Action | Code |
|---|---|
| `CheckCredentials` | `available_providers`, the missing ones, `allow_partial` |
| `LoadCategory` | one category after the other, cut to `max_cases_per_model` |
| `BuildAdapters` | `build_all_adapters`: skips a provider without its `env_key`, logs one whose constructor raises |
| `Admit` | `estimate_run_cost_usd` and the guard, provider by provider; dry run |
| `BuildPlan` | `build_plan` and the estimates of its items |
| `CheckItem`, `AnswerItem`, `FailItem`, `Finish` | what `Dispatch` has in detail |

Environment variables are a set of names. Estimates are the code's formulas
over 500 input tokens and a number of output tokens: the configured one before
the run (`RunEstimate`), the model's own limit in the dispatch (`ItemEstimate`).

### Operations: Migrations, Backfill, ReleaseCheck

The three tools share no state, so that an interleaving of them is one of each;
`Init` chooses the tool of a behaviour, and the interleavings that matter, of
several processes of one tool, are all there.

* `Migrations`: `bootstrap.py`. `executescript` commits every statement by
  itself, so that a statement is a step; several processes run the script, again
  and again, and may stop before any statement: killed, or because the statement fails
  for a reason that is not in the script, such as a locked file (`Stop`).
  `disturbed` remembers that one stopped inside the third script, or two were
  inside it at once.
* `Backfill`: `SELECT` without a transaction (`Read`), prices loaded into the
  cache (`LoadPrices`), updates in one transaction (`Commit`); meanwhile runs store
  executions (`Record`), prices are edited (`Edit`), other backfills commit.
  `crossed` remembers the price lists these have committed since a `Read`.
* `ReleaseCheck`: ten groups in order (`Check`), each of which may raise and has
  its own `except` clause. What a group looks at is sound or not; the integrity
  gate, the authorization and the two sandboxed children are evaluated as they
  are, a child in time or late. `Conclude` is the conjunction with or without
  `--strict`. `probed` remembers that a child was seen to run to its end
  without a key.

## 3. Runs

| Run | Instance | What it shows |
|---|---|---|
| `dispatch` | 4 items, 2 providers, 2 slots, 2 attempts; estimates 1 and 2, answers cost 1 or 2; caps 2 and 1, global 4 less 1 | all properties of `Dispatch`, liveness, refinement |
| `token_bucket` | 5 tasks, bucket of 2, refill 2/3 per tick, wake-ups up to 1 tick late | all properties of `TokenBucket` |
| `persistence` | 2 runs of 2 results, 2 ids, six result lists | all properties of `RunPersistence` |
| `provenance` | 2 processes, 2 streams, 2 decision ids, 2 signers, 1 key | all properties of `ProvenanceStore`, liveness, refinement |
| `answers` | 3 adapters, statuses 400, 401, 408, 409, 429, 503, 529, no connection and three completions, 2 attempts; every case and answer over 2 phrases and 1 tool; panels of 2 judges with weights -1 to 2 or none | all properties of `AnswerPath`, liveness |
| `preflight` | 97 command lines by 5 sets of keys; openai with 2 models, google with 1, xai with 1 dear one, anthropic with none; openai's second model dearer than its first; caps 8 and 4, global 8 | all properties of `PreFlight` |
| `operations` | 2 bootstraps and 1 stop; 2 backfills, 2 rows, 3 price lists; every report of a small set with at most 1 fault or raising group | all properties of `Operations` |
| `no_overspend` | as `dispatch`, every answer costs exactly its estimate | **violation**: section 6 |
| `limiter_skipped` | as `dispatch` | **violation**: section 6 |
| `per_minute` | as `token_bucket` | **violation**: section 6 |
| `not_persisted` | as `persistence`, one list with an unscored answer | **violation**: section 6 |
| `rates_inverted` | as `answers` | **violation**: section 6 |

The properties:

* `SlotsConserved`, `OneResultPerItem`, `SpendAccounted`: the six ways out of a
  task leave slots, results, guard and metrics in agreement.
* `ProviderOvershootBounded`, `GlobalOvershootBounded`: tasks that pass the
  check before others have recorded their spend carry it over the cap; by how
  much is bounded by the dearest answer times the slots, less the estimate
  that had to fit.
* `RefusalStands`: an item refused for want of budget would be refused at any
  later time, so that refusing loses nothing against waiting.
* `EveryItemSettles`, `ImplementsPromise`: `gather` returns; the whole is what
  `BudgetedDispatch` says.
* `RateBounded`, `NoOversleep`, `WaitersServed`: see the comments in the module.
* `CompletedRunIsWhole`, `StagesVisible`, `FiledUnderOwnAnswer`,
  `ReportAgrees`, `RejectedForCause`, `RecordSettles`: what a reader of
  `harness.db` may conclude from what it finds, and what `run` returns.
* `HeadStable`, `ChainIntact`, `RecordedOnce`, `StreamsValidate`,
  `AppendReturns`, `ImplementsLog`: the chain between processes.
* `RetriesForCause`, `CallEnds`: a call gives up on a transient failure, or on a
  status `retry.yaml` calls safe to retry, only with its attempts used up (but for
  a 408, section 6); it goes on after no other, never after a status `retry.yaml`
  forbids to retry, and its requests are its attempts and what its SDK repeats.
* `FailClosed`, `WorseNeverBetter`: an answer without scores is inconclusive, a
  failed check of a blocking category is not averaged away, and no verdict is
  worse than that on an answer which fails more checks of the same case.
* `PanelFailsClosed`: no panel passes an answer on the word of nobody.
* `DropsExplained`: every requested provider takes part, was declared optional,
  or has its key where one place looks and the other does not.
* `RefusalsForeseen`: an admitted run loses an item to its provider's cap or to
  the global one for one of two reasons, whatever the order of checks and
  answers. Either an answer was billed for more than its request was taken to
  cost, or the requests that have been answered and this one are worth more than
  the cap, although the check before the run found each provider within it. The
  second is not rare: section 6 says what it comes to with the shipped
  configuration. What the property rules out is any other loss: budget used up
  by items that were refused, failed or are on their way, or by the estimate
  before the run.
* `MigrationsWhole`: a recorded migration is there as a whole and in order, and a
  script fails on its own columns only after a kill, another failure or a race
  inside it.
* `BackfillStands`: once a backfill has committed, every row it read costs what
  its price list says or the one of another backfill that committed since its
  `SELECT`, although it chose the rows to update by stale costs. Backfills that
  cross under one `models.yaml` do each other no harm. If it is edited between
  them they may: the earlier prices can be the last to be committed, or some rows
  keep the prices of one and some those of the other; the property lets this
  pass, and running the command once more mends it.
* `ReadyIsEarned`: "strictly ready" means that nothing was unsound, nothing raised,
  the report shows full resistance and a child was seen to run without a key.

Why the bounds are enough. `dispatch` has more items of one provider than slots,
so that a check is made while others are in flight, after one has recorded and
before another has; one estimate above and one answer above the others meet both
caps on either side, and two attempts are one retry. In `token_bucket` the bucket
drains, sleeps end between ticks, and there are more waiting tasks than tokens, so
that latecomers can overtake. In `persistence` the six lists have every kind of
answer (scored, unscored, without an id, an id met twice, an error), in two runs
that share ids; a third run would only be one more holder of the same lock. In
`answers` every list of transient errors is met on both sides by each adapter that
has one of its own (xAI shares OpenAI's), two attempts are one retry, and a case
over two phrases has up to four scores, whose averages lie on both sides of both
thresholds; two judges disagree and tie, and a weight of each sign and none is
there. In `preflight` the caps lie between the estimates of one and of several
cases, so that a run is admitted and refused, and its items are, for either cap
and for either reason: a model dearer than the first, requests dearer than a case
was taken to be, providers that fit the global cap one by one; no, some and all
keys, each provider's second place to look, a category met twice and one that is
not there are among the command lines. In `operations` one stop or two processes
are what disturb a migration, and the script is run again on what they have left.
Two backfills are one that crosses another, and prices rise, fall and vanish. In
the release check one fault at a time shows that each is noticed, since results
are a conjunction and a fault never mends another; what the gates judge themselves
varies besides. In `provenance` two processes are what a race needs, two streams
let one decision id be met in both, and a retry is the same id again. The clock of
`TokenBucket` stops at `Horizon` unless a task waits; no other counter is
unbounded.

Every property has a mutant in `PROJECT.json`: a plausible slip in one
definition, kept beside it as `<Definition>_<Slip>`, under which TLC finds the
property violated.

## 4. Fairness

* `Dispatch`: weak fairness of each task. The event loop runs whatever is ready;
  the limiter's wait ends (`WaitersServed`), `asyncio.wait_for` bounds a
  provider call, the backoff is a finite sleep.
* `TokenBucket`: time passes and a task whose sleep is over is run. Nobody must
  call `acquire`.
* `RunPersistence`: a process runs on unless it dies. Statements and commits
  need not fail, and `RecordSettles` does not count on the lock timeout.
* `AnswerPath`: a call goes on (`asyncio.wait_for` ends an attempt that nobody
  answers, the backoff is a finite sleep), and an answer that is there is
  judged. Nobody must convene a panel.
* `PreFlight`, `Operations`: none; they have no liveness property. An operator
  need not run a tool, and a run's progress is that of `Dispatch` and
  `RunPersistence`.
* `ProvenanceStore`: a process runs its statements. `AppendReturns` does not
  count on the commit timeout either: readers leave by themselves.

No fairness is assumed of crashes, calls, provider outcomes or failures.

## 5. Proofs

Every safety invariant, action property and refinement that a passing run checks
is a theorem for every value of the constants. Assumptions are those named in the
modules (`PlanAssumption`, `CostAssumption`, `ConfigAssumption`,
`BucketAssumption`, `PersistenceAssumption`, `CallAssumption`,
`CategoryAssumption`, `JudgingAssumption`, `NoneAssumption`,
`PreFlightAssumption`, `MigrationsAssumption`, `BackfillAssumption`,
`ReleaseAssumption`): types of the constants, the reserve within the global cap,
an estimate bound that an answer may reach, in `RunPersistence` that the empty id
is no id, in `AnswerPath` that a test case lists finitely many phrases, that the
evaluators in use are among the six there are, that judges' outputs are of the
kinds the parser tells apart, that weights are integers and that no verdict is the
absence of one, and in `Backfill` that there is some content of `models.yaml`.
`ProvenanceStore` needs none.

* **SumTheorems.** The library's induction theorems take an operator, which the
  provers cannot instantiate. `SubsetInduction` takes a set `Good` instead: if
  some subset of a finite set were not in it, a smallest one would not be,
  since strict inclusion is well founded on finite sets. From it follow that the
  recursion behind `SumFunctionOnSet` has a value (`SumUnfolds`), that any
  member may be taken out of a sum first (`SumRemove`, `SumAdd`; the recursion
  takes one that CHOOSE picks), that sums grow with their terms and their sets,
  and that finite sets of integers have a least member. The modules add up with
  `SumFunctionOnSet` for this reason.
* **Dispatch.** `SlotInv` joins `TypeOK`, `SlotsConserved` and "a task in backoff
  has attempts left": the slot counter stays in range only because it
  complements the tasks that hold a slot, and attempts only because of the
  third. `BudgetInv` is both overshoot bounds. They are inductive as stated
  because `Bounded` charges every item in flight at the dearest price: sending
  one is covered by the estimate the guard has just admitted and by the slot
  it holds, and an answer turns a charge into spend. From there
  `OneResultPerItem`, `RefusalStands` (spends never shrink), and
  `DispatchImplementsPromise`: each action maps to an action of
  `BudgetedDispatch` or to a stutter. `SpendIsAccounted` is inductive as stated:
  a result appended adds one index to the set a sum is over, for its own
  provider and for the whole, and to no other.
* **TokenBucket.** `RateBounded` compares two past grants. Inductive is
  `Headroom`, the same for one past grant and the present, charging what the
  bucket could hand out now. `NoOversleep` becomes inductive as
  `ShortUntilWake`, which speaks of the last tick of a sleep.
* **ProvenanceStore.** `StoreInv` joins the properties with `LastRowExists` (each
  stream has a maximal row, which makes `HeadOf` meaningful) and `Checked` (what
  a transaction compared at its insert still holds). `HeadStable` is the core: a
  commit waits for every other reader, so no head moves under a transaction.
  `StreamsAreValid` and `StoreImplementsLog` add `ListInv`: the sequences of a
  stream are 1 to the number of its rows (`Numbered`), so that there is exactly
  one ascending list of them and a commit appends to it (`CommitAppends`); a
  stored row was signed with the key it was appended under (`Authentic`); and
  what a writer is about to acknowledge is in the table (`Stored`).
  `AcknowledgedStays` says that it stays there.
* **RunPersistence.** `DbInv` says of each committed row that it is due, that
  what precedes it is there and that the keys admit it (`Placed`, `Keyed`);
  `Pending` carries what a statement checked across the lock to its commit;
  `Told` and `Blank` tie rows to what a run has reported and to its results. A
  complete run is whole because its verdicts precede its status, a verdict's
  foreign key needs a stored execution, and a stored execution has an id that is
  not empty.
* **AnswerPath.** `RetriesForCause` is proved with `Counted`, which counts the
  requests of the attempt under way, and lemmas on the tables (no adapter calls
  a status transient that must not be retried, whatever the set of statuses).
  `FailClosed` follows from `Decided`: the verdict is `Decide` of the scores of
  the answer, and `Blocked` is asked before the average.
  `NoWorseAnswerIsPreferred` pairs the scores of two answers to one case by
  their checks (`Aligned`): the weights of a pair are equal and the qualities in
  order, so the weighted sums are, whatever the number of phrases. For tool use,
  whose rate is inverted, two answers that are not blocked have the same scores.
  `PanelsFailClosed` and `PanelsAreMonotone` rest on `Ruled`: a ruling is
  `Consolidate` of the finitely many results that are in. The second says that
  the panel's ties and averages are no trap: a judge who scores an answer higher
  never turns a pass into a fail.
* **PreFlight.** `RefusalsForeseen` needs `Accounted`: as long as no answer cost
  more than its request was taken to, what is spent, on a provider and
  altogether, is at most the sum of what the answered requests are worth, so
  that an item which would carry the spend over a cap carries this sum over it
  as well; and `Admitted`, what the check before the run compared. The reasons
  stay (`OutgrownStays`): later answers only add to the sum.
* **Operations.** While nothing has disturbed the third script, the columns are
  exactly those before the line of the one process inside it (`ColumnsBefore`), so
  its next statement cannot fail; and a recorded migration is one whose script has
  been passed (`Passed`), each process having passed those before (`Placed`).
  `AsRead` says that a row a backfill has read still costs what it read, or what
  another has committed since. `ReleaseInv` says that a check is true only if its
  group did not raise and what it looks at is sound, and that a group seen is one
  whose checks are all there; a failed count of 0 that was recounted is a
  cardinality of 0, so every case held.

Liveness (`EveryItemSettles`, `WaitersServed`, `RecordSettles`, `AppendReturns`,
`CallEnds`) is only model-checked: ENABLED and fairness are out of the prover's
reach. What the arguments for it need besides fairness is proved:

* there is always a step to take: some task's (`DispatchNeverStuck`), some run's
  (`RunsNeverLockUp`: there is a first row among those left, and the holder of
  the lock can commit), some appender's (`LocksNeverLockUp`: a commit waits only
  for transactions that hold no more than SHARED, because RESERVED is one
  transaction's, and those wait for nobody);
* there are only so many: each step of the dispatch lowers a sum over its items
  (`DispatchRunsDown`), each commit of a run takes one of finitely many rows off
  its list, which no step lengthens (`PersistenceRunsDown`);
* a task that finds no token has a sleep of at most a minute to go into, and is
  back at the lock within the lateness of the event loop
  (`EveryWaiterTriesAgain`).

These speak of the guards of the actions, restated in the proof modules beside
them (`HasStep`, `CanWork`, `CanStep`, `SleepIsComputed`), in place of ENABLED.

## 6. What the code does and its text does not say

Shown by a run:

* `no_overspend`: `cost_guard.py` 4-6 promises that a request that would exceed
  a cap is never sent, "so there is no overspend". Two tasks that pass the check
  before either has recorded its spend overspend, even when every request costs
  its estimate.
* `limiter_skipped`: `rate_limiter.py` 5-6 says the limiter is consulted before
  every request dispatch. Retries inside `BaseAdapter.generate` do not ask it.
* `per_minute`: `providers.yaml` 9 speaks of requests per minute. The bucket
  starts full and refills meanwhile, so nearly twice as many pass in the first.
* `not_persisted`: `runner.py` 267 persists a run "if database connection is
  available". A verdict over no scores has an empty execution id and breaks a
  foreign key; later verdicts and the final status are lost, the row stays
  "running", and `run` reports the run as completed.
* `rates_inverted`: `verdict_engine.py` 111 says that every metric is converted to
  "a higher-is-better quality score". The evaluator of tool use reports 1.0 for
  an answer that calls no denied tool, under the name of a rate the engine
  inverts: this check counts 0 for a clean answer, which fails unless its other
  checks make up for it. `unsupported_claim_rate` has the same fault.
  `WorseNeverBetter` excepts the cases where the latter makes a worse answer
  better; for tool use an answer that calls a denied tool fails anyway, since
  the category is a blocking one.

Seen while reading, with no run of their own: `max_concurrent_requests`
(`providers.yaml` 7-8) and `stop_on_budget_exhaustion` (`budgets.yaml` 9-10) are
not enforced; retries are not "counted against provider budget" (`budgets.yaml`
32), since the cost of an attempt that failed or timed out is never recorded;
a model without a price is estimated at 0, which no cap can
refuse; the run row is created after the dispatch, not before it as the
lifecycle in the head of `runner.py` has it; warn and inconclusive verdicts
count as neither passed nor failed; a stream appended to under two keys
validates under neither; neither the OpenAI adapter (with
xAI's) nor the Anthropic adapter takes 408 for transient, which `retry.yaml` lists
as retryable: the loop of attempts ends at once, and only the Anthropic SDK
repeats such a request, inside the one attempt.

The check before the run and the dispatch reckon with different requests.
`budgets.yaml` 34-35 calls `maximum_output_tokens: 800` a "Hard cap on output
tokens (overrides model defaults)", `cost_estimator.py` 90 and 95 repeat it
("Hard output cap from budgets.yaml", "Worst-case estimated cost in USD"), and
`runner.py` 9 has the lifecycle "estimate maximum cost". Only the check before
the run uses the 800; a request carries its model's own limit
(`request_normalizer.py` 60; 4096 and 8192 in `models.yaml`) and the guard prices
it so. Besides, the check looks at the first model of each provider, and adds
nothing up over providers. With the shipped files a case is admitted for
Anthropic at 2 x (500 x 3 + 800 x 15) / 10^6 = 0.027 USD, and its two requests
are then estimated at 0.124 and 0.622: the cap of 8 USD admits 296 cases, and the
estimates of 11 exceed it. For OpenAI it is 0.029 against 0.066. The retry
factor of 2 does not make up for it. This is the second reason of
`RefusalsForeseen`, which holds because it names it; a run that did what the
comment says would need it only for further models and the global cap.

In the parts modelled later: the xAI adapter runs the constructor of the OpenAI
adapter first and so needs a key for OpenAI too; Google's second variable,
`GEMINI_API_KEY`, passes the check of the credentials but is not where
`build_all_adapters` looks; both providers are then left out with a log line
(`DropsExplained` names these two). The cap of cases is applied per category, and a
negative one cuts from the end (`runner.py` 144). `estimate-cost` prices every
provider but OpenAI as `claude-sonnet-4-5`, which `models.yaml` does not list, and
so at nothing (`cli/main.py` 110). The adapters extract Retry-After and no
backoff reads it. The Anthropic client repeats requests on its own, up to three
per attempt. An integer too large for a float raises `OverflowError` out of
`parse_evaluator_result` instead of its own error. A bootstrap that stops in the third
migration, killed or for want of a lock, or is raced there, makes every later one
fail on a column that exists.
In `release-check`, a validation group that raises leaves `benchmark_dsl` unbound
and the command ends in an exception; a child that ran out of time counts as a
leak prevented, and only the other child of its group keeps this from being
believed. Three of four phrases at weight 0.35 come to 0.7499..., a warning
instead of a pass.

## 7. Not modelled

* Cancellation of a task and Ctrl-C inside the dispatch: a run that is
  interrupted there leaves nothing (the row is created later); in
  `RunPersistence` it is a crash.
* Power loss: with `synchronous = NORMAL` the last commits may be lost. A
  process crash loses none.
* Floats: amounts, averages and thresholds are integers, so that rounding is not
  there (sections 2 and 6 name where it shows).
* The payloads of requests, the parameter names a model takes, response headers
  and the closing of clients; how an evaluator finds a phrase, a refusal or an
  unsafe tag in a text. These are conversions of text without state.
* Manifest and replay, redaction and scanning, the benchmark DSL, analytics: pure
  functions over texts and numbers that no other modelled part reads.
* Telemetry and plugins: optional exporters that no part reads, and a registry
  that only tests call. `RetryManager` is constructed by the runner and never
  called.
* The commands of the CLI that print, list, validate or compare; dashboard,
  deployment and developer scripts except `bootstrap.py`.
* Key rotation of the provenance store: `StreamsValidate` is about streams
  appended under one key.
* The routes that object authorization would guard; they are not in this
  repository. `authorize` is evaluated as the release check calls it.
* The two prices an execution has, by the name requested and by the name
  returned: no text says that they agree.

## 8. What is left

* Progress of a provider call and of the tools in the manner of
  `DispatchRunsDown`; a shared variant for several runs needs a finite set of
  them.
* One specification of `PreFlight`, `Dispatch` and `RunPersistence`. They meet at
  the plan and at the result list, which each side now takes as any value of
  its type; a composition would only restrict these.
