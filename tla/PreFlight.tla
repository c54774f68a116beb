------------------------------ MODULE PreFlight ------------------------------
(***************************************************************************)
(* A run from its command line to the end of its dispatch: which of the    *)
(* providers asked for get an adapter, which cases they are sent, what the *)
(* budget check before the run admits, and what the same check refuses     *)
(* later, item by item.  Module Dispatch interleaves the items in detail   *)
(* for a plan, estimates and caps it takes as given; here an item is       *)
(* checked, sent and answered, in any order, and the question is what the  *)
(* plan, the estimates and the caps were.  Costs are in whole units.       *)
(***************************************************************************)
EXTENDS Integers, Sequences, FiniteSetsExt

CONSTANTS
  Suite,         \* by category that is registered and can be read: its cases
  Models,        \* models.yaml, by provider: a sequence of models
  ProviderCap,   \* budgets.yaml maximum_usd by provider
  GlobalCap,     \* CostGuard.effective_global_cap
  OutputCap,     \* RunConfig.max_output_tokens, 800: the CLI does not set it
  Requests,      \* command lines
  KeySets        \* sets of API key variables that may be set

VARIABLES
  keys,      \* the API key variables that are set
  asked,     \* the RunConfig made of the command line
  phase,     \* where Runner.run stands
  loaded,    \* number of categories whose cases are loaded
  cases,     \* all_cases
  adapters,  \* providers with an adapter
  plan,      \* items of the execution plan
  sent,      \* items whose request is on its way
  settled,   \* the outcome of each settled item
  spent      \* the guard's recorded spend, by provider

vars == <<keys, asked, phase, loaded, cases, adapters, plan, sent, settled, spent>>

Providers == {"openai", "anthropic", "google", "xai"}

\* A model has the cost of 500 input tokens and of an output token, its own
\* output limit, and a flag; a case has a tag.
ModelRecords == [input : Nat, output : Nat, limit : Nat, tools : BOOLEAN]
CaseRecords == [id : Nat, toolUse : BOOLEAN]
Names == Providers \cup UNION {r.providers : r \in Requests}
RunConfigs == [providers : SUBSET Names, categories : Seq(STRING), cap : Int,
               partial : BOOLEAN, dryRun : BOOLEAN]

ASSUME PreFlightAssumption ==
  /\ Suite \in [DOMAIN Suite -> Seq(CaseRecords)]
  /\ Models \in [Providers -> Seq(ModelRecords)]
  /\ ProviderCap \in [Providers -> Nat]
  /\ GlobalCap \in Nat /\ OutputCap \in Nat
  /\ \A r \in Requests : r \in RunConfigs

-----------------------------------------------------------------------------
(* Credentials *)

\* auth.available_providers, and the variables the adapters' constructors
\* load a key from.
Alternatives(p) == CASE p = "openai" -> {"OPENAI_API_KEY"}
                     [] p = "anthropic" -> {"ANTHROPIC_API_KEY"}
                     [] p = "google" -> {"GOOGLE_API_KEY", "GEMINI_API_KEY"}
                     [] OTHER -> {"XAI_API_KEY"}

\* providers.yaml env_key, where build_all_adapters looks.
EnvKey(p) == CASE p = "openai" -> "OPENAI_API_KEY"
               [] p = "anthropic" -> "ANTHROPIC_API_KEY"
               [] p = "google" -> "GOOGLE_API_KEY"
               [] OTHER -> "XAI_API_KEY"

HasKey(p) == keys \cap Alternatives(p) # {}
Available == {p \in Providers : HasKey(p)}

\* The xAI adapter first runs the constructor of the OpenAI adapter, which
\* wants a key of its own.
Constructs(p) == /\ HasKey(p)
                 /\ p = "xai" => HasKey("openai")

\* build_all_adapters: a provider without its key is skipped, one whose
\* constructor raises is logged; both are left out.
Built(requested) == {p \in requested : EnvKey(p) \in keys /\ Constructs(p)}

\* The CLI knows Google by two names.
Aliased(names) == {IF n = "gemini" THEN "google" ELSE n : n \in names}

-----------------------------------------------------------------------------
(* Cases and costs *)

\* Python's cases[:n]
Upto(s, n) == IF n >= 0 THEN SubSeq(s, 1, IF n < Len(s) THEN n ELSE Len(s))
              ELSE SubSeq(s, 1, Len(s) + n)

\* estimate_cost_usd of a request with 500 input tokens.
Estimate(m, outputTokens) == m.input + outputTokens * m.output

\* estimate_run_cost_usd: every case twice to the provider's first model.
RunEstimate(p) == 2 * Len(cases) * Estimate(Models[p][1], OutputCap)

\* build_plan: every case to every model of every adapter, but for a case
\* that is tagged for tools and a model without them.
ModelOf(i) == Models[i[1]][i[2]]
Items == {i \in UNION {{p} \X (DOMAIN Models[p]) \X (DOMAIN cases) : p \in adapters} :
            cases[i[3]].toolUse => ModelOf(i).tools}

\* What the check before its dispatch takes an item to cost: the request
\* carries the model's own output limit.
ItemEstimate(i) == Estimate(ModelOf(i), ModelOf(i).limit)

\* CostGuard.check_provider; the global spend is that of all providers.
GlobalSpend == spent["openai"] + spent["anthropic"] + spent["google"] + spent["xai"]
OverCap(p, estimate) == spent[p] + estimate > ProviderCap[p]
OverGlobal(estimate) == GlobalSpend + estimate > GlobalCap
OverBudget(p, estimate) == OverCap(p, estimate) \/ OverGlobal(estimate)

-----------------------------------------------------------------------------
(* Runner.run *)

Init == /\ keys \in KeySets
        /\ asked \in {[r EXCEPT !.providers = Aliased(@)] : r \in Requests}
        /\ phase = "start"
        /\ loaded = 0 /\ cases = <<>>
        /\ adapters = {} /\ plan = {} /\ sent = {}
        /\ settled = [i \in {} |-> 0]
        /\ spent = [p \in Providers |-> 0]

configured == <<keys, asked>>
dispatched == <<plan, sent, settled, spent>>

\* A requested provider without a key ends the run, unless partial runs are
\* allowed and another one has its key.
CheckCredentials_AlwaysPartial ==
  /\ phase = "start"
  /\ phase' = IF asked.providers \cap Available # {} THEN "loading" ELSE "failed"
  /\ UNCHANGED <<configured, loaded, cases, adapters, dispatched>>
CheckCredentials ==
  /\ phase = "start"
  /\ phase' = IF /\ asked.providers \subseteq Available \/ asked.partial
                 /\ asked.providers \cap Available # {}
              THEN "loading" ELSE "failed"
  /\ UNCHANGED <<configured, loaded, cases, adapters, dispatched>>

\* One category after the other, each cut to the cap of cases: one that is
\* not registered or cannot be read ends the run.
LoadCategory ==
  LET c == asked.categories[loaded + 1]
  IN  /\ phase = "loading" /\ loaded < Len(asked.categories)
      /\ IF c \in DOMAIN Suite
         THEN /\ cases' = cases \o Upto(Suite[c], asked.cap)
              /\ loaded' = loaded + 1
              /\ UNCHANGED phase
         ELSE /\ phase' = "failed"
              /\ UNCHANGED <<cases, loaded>>
      /\ UNCHANGED <<configured, adapters, dispatched>>

BuildAdapters ==
  /\ phase = "loading" /\ loaded = Len(asked.categories)
  /\ adapters' = Built(asked.providers \cap Available)
  /\ phase' = "admitting"
  /\ UNCHANGED <<configured, loaded, cases, dispatched>>

\* Steps 5 and 6, provider by provider, each on its own: nothing is spent yet
\* and no estimate is recorded.
Admit ==
  /\ phase = "admitting"
  /\ phase' = IF \E p \in adapters : Models[p] # <<>> /\ OverBudget(p, RunEstimate(p))
              THEN "failed"
              ELSE IF asked.dryRun THEN "dry" ELSE "planning"
  /\ UNCHANGED <<configured, loaded, cases, adapters, dispatched>>

BuildPlan ==
  /\ phase = "planning"
  /\ plan' = Items
  /\ phase' = "dispatching"
  /\ UNCHANGED <<configured, loaded, cases, adapters, sent, settled, spent>>

-----------------------------------------------------------------------------
(* The dispatch of an item *)

Open == plan \ (sent \cup DOMAIN settled)
SettleAs(i, outcome) ==
  settled' = [j \in DOMAIN settled \cup {i} |-> IF j = i THEN outcome ELSE settled[j]]
Refused == [kind |-> "BudgetExceeded", cost |-> 0]
GloballyRefused == [kind |-> "GlobalBudgetExceeded", cost |-> 0]
Failed == [kind |-> "error", cost |-> 0]
Answered(c) == [kind |-> "answer", cost |-> c]
Cost(i) == settled[i].cost

CheckItem_Reserves(i) ==
  /\ i \in Open
  /\ IF OverCap(i[1], ItemEstimate(i)) THEN SettleAs(i, Refused) /\ UNCHANGED <<sent, spent>>
     ELSE IF OverGlobal(ItemEstimate(i))
     THEN SettleAs(i, GloballyRefused) /\ UNCHANGED <<sent, spent>>
     ELSE /\ sent' = sent \cup {i} /\ UNCHANGED settled
          /\ spent' = [spent EXCEPT ![i[1]] = @ + ItemEstimate(i)]
  /\ UNCHANGED <<configured, phase, loaded, cases, adapters, plan>>
CheckItem(i) ==
  /\ i \in Open
  /\ IF OverCap(i[1], ItemEstimate(i)) THEN SettleAs(i, Refused) /\ UNCHANGED sent
     ELSE IF OverGlobal(ItemEstimate(i)) THEN SettleAs(i, GloballyRefused) /\ UNCHANGED sent
     ELSE sent' = sent \cup {i} /\ UNCHANGED settled
  /\ UNCHANGED <<configured, phase, loaded, cases, adapters, plan, spent>>

\* The tokens an answer was billed for are the provider's word: it may cost
\* less than estimated, or more.
AnswerItem_StaysSent(i, c) ==
  /\ i \in sent
  /\ SettleAs(i, Answered(c))
  /\ spent' = [spent EXCEPT ![i[1]] = @ + c]
  /\ UNCHANGED <<configured, phase, loaded, cases, adapters, plan, sent>>
AnswerItem(i, c) ==
  /\ i \in sent
  /\ sent' = sent \ {i}
  /\ SettleAs(i, Answered(c))
  /\ spent' = [spent EXCEPT ![i[1]] = @ + c]
  /\ UNCHANGED <<configured, phase, loaded, cases, adapters, plan>>

FailItem(i) ==
  /\ i \in sent
  /\ sent' = sent \ {i}
  /\ SettleAs(i, Failed)
  /\ UNCHANGED <<configured, phase, loaded, cases, adapters, plan, spent>>

Finish ==
  /\ phase = "dispatching" /\ DOMAIN settled = plan
  /\ phase' = "done"
  /\ UNCHANGED <<configured, loaded, cases, adapters, dispatched>>

Over == phase \in {"failed", "dry", "done"} /\ UNCHANGED vars

\* What the answer to an item may cost.
Bills(i) == {0, ItemEstimate(i), 2 * ItemEstimate(i)}

Next == \/ CheckCredentials \/ LoadCategory \/ BuildAdapters \/ Admit \/ BuildPlan
        \/ \E i \in plan : \/ CheckItem(i) \/ FailItem(i)
                           \/ \E c \in Bills(i) : AnswerItem(i, c)
        \/ Finish \/ Over

Spec == Init /\ [][Next]_vars

-----------------------------------------------------------------------------
(* Properties *)

Phases == {"start", "loading", "admitting", "planning", "dispatching",
           "failed", "dry", "done"}
Outcomes == [kind : {"answer", "error", "BudgetExceeded", "GlobalBudgetExceeded"},
             cost : Nat]

\* Every variable holds a value of its type, nothing is sent or settled that
\* is not in the plan, and nothing is both.
TypeOK ==
  /\ asked \in RunConfigs /\ phase \in Phases
  /\ loaded \in 0..Len(asked.categories)
  /\ cases \in Seq(CaseRecords)
  /\ adapters \subseteq Providers
  /\ plan # {} => plan = Items
  /\ sent \subseteq plan /\ DOMAIN settled \subseteq plan
  /\ sent \cap DOMAIN settled = {}
  /\ \A i \in DOMAIN settled : settled[i] \in Outcomes
  /\ spent \in [Providers -> Nat]

\* The run got past the credentials.
Started == phase \in {"admitting", "planning", "dispatching", "dry", "done"}

\* The two keys build_all_adapters looks for in another place than the check
\* of the credentials.
KeyElsewhere(p) == \/ p = "google" /\ keys \cap Alternatives(p) = {"GEMINI_API_KEY"}
                   \/ p = "xai" /\ "OPENAI_API_KEY" \notin keys

\* A run that was to have all its providers has them all, but for Google with
\* its second key only and xAI without a key for OpenAI, which are left out
\* without an error; no run has a provider it was not asked for.
DropsExplained ==
  Started =>
    /\ adapters \subseteq asked.providers
    /\ \A p \in asked.providers \ adapters :
         KeyElsewhere(p) \/ (asked.partial /\ (p \in Providers => ~HasKey(p)))

\* What a set of items was taken to cost, each just before it was sent.
Worth(is) == SumFunctionOnSet([i \in is |-> ItemEstimate(i)], is)

AnswersOf(ps) == {i \in DOMAIN settled : i[1] \in ps /\ settled[i].kind = "answer"}

\* Why one item more of these providers would not fit a cap: an answer was
\* billed for more than its request was taken to cost, or the check before the
\* run, which found each provider within the cap, reckoned with less than the
\* requests that have been answered and this one are worth.
Outgrown(ps, i, cap) ==
  \/ \E j \in AnswersOf(ps) : Cost(j) > ItemEstimate(j)
  \/ /\ \A p \in ps \cap adapters : Models[p] # <<>> => RunEstimate(p) <= cap
     /\ Worth(AnswersOf(ps) \cup {i}) > cap

\* An admitted run loses an item to a cap only for those two reasons, whatever
\* the order of checks and answers: items refused, failed or on their way use
\* up no budget, and a provider or a plan whose requests fit their cap at the
\* models' own output limits is answered in full.
RefusalsForeseen ==
  \A i \in DOMAIN settled :
    /\ settled[i] = Refused => Outgrown({i[1]}, i, ProviderCap[i[1]])
    /\ settled[i] = GloballyRefused => Outgrown(Providers, i, GlobalCap)
=============================================================================
