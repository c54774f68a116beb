---------------------------- MODULE ProviderCall ----------------------------
(***************************************************************************)
(* One call of BaseAdapter.generate by the four adapters: the attempts of  *)
(* its loop, the HTTP requests each attempt sends, the replies, and the    *)
(* exception classes the adapters make of them.  Module Dispatch models    *)
(* the calls of all tasks and takes the class of a failure as given; this  *)
(* module is about which failure gets which class.                         *)
(*                                                                         *)
(* The SDK clients (external) sit between an attempt and the network.  The *)
(* OpenAI client of openai, google and xai is built with max_retries=0,    *)
(* the Anthropic client with the SDK's default of two, so one attempt of   *)
(* anthropic sends up to three requests inside one wait_for.  The backoff  *)
(* only takes time; it does not look at the Retry-After the providers      *)
(* send, and no length of it changes what happens next.                    *)
(***************************************************************************)
EXTENDS Integers

CONSTANTS Providers,    \* names of adapters
          Statuses,     \* HTTP error statuses a provider may answer with
          MaxAttempts,  \* retry.yaml max_attempts
          None          \* no reply, no error

VARIABLES provider,  \* whose adapter makes the call
          phase,     \* where generate stands
          attempt,   \* its attempt counter
          hidden,    \* requests the SDK has repeated in this attempt
          requests,  \* HTTP requests sent so far (history)
          error,     \* class of the last exception in generate, or None
          status     \* its status_code, 0 where it has none

callVars == <<provider, phase, attempt, hidden, requests, error, status>>

ASSUME CallAssumption ==
  /\ Providers # {} /\ Providers \subseteq {"openai", "anthropic", "google", "xai"}
  /\ Statuses \subseteq 400..599
  /\ MaxAttempts \in Nat \ {0}

-----------------------------------------------------------------------------
(* Replies and the exceptions made of them *)

\* A reply is an error status, no connection, or a completion: one that is
\* whole, one without choices or content, one without the usage.
Unreachable == 0
Ok == 200
Empty == 204
Unmetered == 206
Completions == {Ok, Empty, Unmetered}
Replies == Statuses \cup Completions \cup {Unreachable}

\* Subclasses of RetryableProviderError and of NonRetryableProviderError.
Transient == {"RetryableProviderError", "ProviderTimeoutError", "RateLimitError"}
Final == {"NonRetryableProviderError", "AuthenticationError"}
\* What generate treats as final because it knows nothing about it.
Unexpected == {"IndexError", "AttributeError"}

\* The except clauses around the SDK call, in their order: the SDK has a class
\* of its own for 401 and for 429, so these never reach the list of statuses.
SdkError(s, retryable) == CASE s = 401 -> "AuthenticationError"
                            [] s = 429 -> "RateLimitError"
                            [] s \in retryable \ {401, 429} -> "RetryableProviderError"
                            [] OTHER -> "NonRetryableProviderError"
OpenAIError(s) == SdkError(s, {Unreachable, 500, 502, 503, 504})
GeminiError(s) == SdkError(s, {Unreachable, 408, 429, 500, 502, 503, 504})
AnthropicError(s) == SdkError(s, {Unreachable, 500, 502, 503, 504, 529})

\* What _normalise makes of a completion: a response, or what it raises.  A
\* completion of Google or OpenAI without usage is one of no tokens.
OpenAINormalise(r) == IF r = Empty THEN "IndexError" ELSE "response"
GeminiNormalise(r) == IF r = Empty THEN "NonRetryableProviderError" ELSE "response"
AnthropicNormalise(r) == IF r = Unmetered THEN "AttributeError" ELSE "response"

\* The xAI adapter inherits from the one for OpenAI.
Normalise(p, r) == CASE p = "google" -> GeminiNormalise(r)
                     [] p = "anthropic" -> AnthropicNormalise(r)
                     [] OTHER -> OpenAINormalise(r)
StatusError_ClientErrorsRetried(p, s) ==
  IF s = 429 THEN "RateLimitError" ELSE "RetryableProviderError"
StatusError(p, s) == CASE p = "google" -> GeminiError(s)
                       [] p = "anthropic" -> AnthropicError(s)
                       [] OTHER -> OpenAIError(s)

IsAnswer(p, r) == r \in Completions /\ Normalise(p, r) = "response"
ErrorOf(p, r) == IF r \in Completions THEN Normalise(p, r) ELSE StatusError(p, r)

\* External: what the Anthropic SDK repeats on its own.
SdkRetries(p) == IF p = "anthropic" THEN 2 ELSE 0
SdkRepeats(r) == r \in {Unreachable, 408, 409, 429} \cup 500..599

-----------------------------------------------------------------------------
(* generate *)

CallInit == /\ provider \in Providers
            /\ phase = "ready"
            /\ attempt = 0 /\ hidden = 0 /\ requests = 0
            /\ error = None /\ status = 0

Attempt == /\ phase = "ready" /\ attempt < MaxAttempts
           /\ attempt' = attempt + 1
           /\ hidden' = 0
           /\ requests' = requests + 1
           /\ phase' = "waiting"
           /\ UNCHANGED <<provider, error, status>>

\* The SDK sleeps and sends again, unseen by generate.
SdkRepeat(r) == /\ phase = "waiting"
                /\ SdkRepeats(r) /\ hidden < SdkRetries(provider)
                /\ hidden' = hidden + 1
                /\ requests' = requests + 1
                /\ UNCHANGED <<provider, phase, attempt, error, status>>

\* An exception leaves the attempt: a transient one backs off while there are
\* attempts left, any other leaves generate at once.
Raise(e, s) == /\ error' = e /\ status' = s
               /\ phase' = IF e \in Transient /\ attempt < MaxAttempts
                           THEN "backoff" ELSE "failed"
               /\ UNCHANGED <<provider, attempt, hidden, requests>>

\* Neither a lost connection nor a completion that lacks something has a status.
Reject(r) == /\ phase = "waiting"
             /\ ~IsAnswer(provider, r)
             /\ SdkRepeats(r) => hidden = SdkRetries(provider)
             /\ Raise(ErrorOf(provider, r), IF r \in Completions THEN 0 ELSE r)

\* wait_for, or the timeout of the SDK client: the request may still be served
\* and billed, its answer goes nowhere.
TimeOut == phase = "waiting" /\ Raise("ProviderTimeoutError", 408)

\* asyncio.sleep is over.
WakeUp_SleepsAgain == phase = "backoff" /\ UNCHANGED callVars
WakeUp == /\ phase = "backoff"
          /\ phase' = "ready"
          /\ UNCHANGED <<provider, attempt, hidden, requests, error, status>>

\* A normalised response: generate returns.
Answer(r) == /\ phase = "waiting"
             /\ IsAnswer(provider, r)
             /\ phase' = "answered"
             /\ UNCHANGED <<provider, attempt, hidden, requests, error, status>>
=============================================================================
