----------------------------- MODULE LLMFallback -----------------------------
(***************************************************************************)
(* One request of an agent to the model providers                          *)
(* (app/llm/fallback_client.py): the configurations are tried in order,    *)
(* one whose answer was all reasoning a second time with more tokens, until *)
(* an answer is usable.  An action is one call to a provider and what the   *)
(* client makes of its result.                                             *)
(***************************************************************************)
EXTENDS Naturals, Sequences

CONSTANTS
  Config,          \* provider, model and reasoning budget
  Configurations,  \* the lists of them that settings can produce
  Limits,          \* LLM_MAX_ATTEMPTS_PER_REQUEST; 0 stands for no limit
  MaxTokens,       \* token limits of the agents; 0 stands for none
  DefaultTokens,   \* what the client takes for no limit
  Cap              \* no relaxed limit is above it

VARIABLES
  configs, limit, json, max_tokens,  \* the request
  index,
  retried,   \* positions that were given a second call
  calls,     \* call_attempts
  outcome

vars == <<configs, limit, json, max_tokens, index, retried, calls, outcome>>
request == <<configs, limit, json, max_tokens>>

ASSUME ConfigAssumption == \A c \in Config : c.budget \in Nat
ASSUME ConfigurationAssumption ==
  \A cs \in Configurations :
    /\ cs \in Seq(Config)
    /\ \A i, j \in DOMAIN cs :
         (cs[i].provider = cs[j].provider /\ cs[i].model = cs[j].model) => i = j
ASSUME TokenAssumption ==
  /\ Limits \subseteq Nat /\ MaxTokens \subseteq Nat
  /\ DefaultTokens \in Nat /\ DefaultTokens > 0
  /\ Cap \in Nat /\ DefaultTokens < Cap
  /\ \A m \in MaxTokens : m < Cap

Results == {"reasoning", "error", "garbled", "clean"}

Init ==
  /\ configs \in Configurations
  /\ limit \in Limits
  /\ json \in BOOLEAN
  /\ max_tokens \in MaxTokens
  /\ index = 1
  /\ retried = {}
  /\ calls = <<>>
  /\ outcome = "trying"

\* Mutant of Attempts: the limit is not applied.
AttemptsUnlimited == Len(configs)

\* How many configurations the request may try.
Attempts == IF limit # 0 /\ limit < Len(configs) THEN limit ELSE Len(configs)

Base(tokens) == IF tokens = 0 THEN DefaultTokens ELSE tokens

\* Mutant of RelaxedMaxTokens: the limit is not doubled.
RelaxedMaxTokensSame(config) ==
  IF config.budget = 0 THEN 0 ELSE IF Base(max_tokens) < Cap THEN Base(max_tokens) ELSE Cap

\* _relaxed_max_tokens, 0 for None.
RelaxedMaxTokens(config) ==
  LET relaxed == 2 * Base(max_tokens) + config.budget
  IN IF config.budget = 0 THEN 0 ELSE IF relaxed < Cap THEN relaxed ELSE Cap

\* The max_tokens of the HTTP request, which adds the budget once more.
Payload(config, tokens) == Base(tokens) + config.budget

\* A configuration gets one second call, if its answer was all reasoning.
MayRelax == index \notin retried /\ RelaxedMaxTokens(configs[index]) # 0

\* Mutant of Following: a second call is counted as a configuration of its own.
FollowingSkips == IF index \in retried THEN index + 2 ELSE index + 1

\* Where the request goes on after a call that failed for good.
Following == index + 1

\* An agent that asked for JSON has no use for anything else.
Usable(result) == result = "clean" \/ (result = "garbled" /\ ~json)

Call(result) ==
  /\ outcome = "trying" /\ index <= Attempts
  /\ LET config == configs[index]
         tokens == IF index \in retried THEN RelaxedMaxTokens(config) ELSE max_tokens
     IN calls' = Append(calls, [at |-> index, tokens |-> Payload(config, tokens),
                                success |-> Usable(result)])
  /\ outcome' = IF Usable(result) THEN "answered" ELSE "trying"
  /\ IF result = "reasoning" /\ MayRelax
     THEN retried' = retried \cup {index} /\ UNCHANGED index
     ELSE index' = (IF Usable(result) THEN index ELSE Following) /\ UNCHANGED retried
  /\ UNCHANGED request

\* All failed, or none was configured: LLMProviderError.
GiveUp ==
  /\ outcome = "trying" /\ index > Attempts
  /\ outcome' = "failed"
  /\ UNCHANGED <<request, index, retried, calls>>

\* The turn that waits for the answer is cancelled or times out.
Cancelled ==
  /\ outcome = "trying" /\ index <= Attempts
  /\ outcome' = "cancelled"
  /\ UNCHANGED <<request, index, retried, calls>>

Next == (\E result \in Results : Call(result)) \/ GiveUp \/ Cancelled

Spec == Init /\ [][Next]_vars

-----------------------------------------------------------------------------
(* Properties.                                                             *)

\* The types of a request.
TypeOK ==
  /\ configs \in Configurations /\ limit \in Limits
  /\ json \in BOOLEAN /\ max_tokens \in MaxTokens
  /\ index \in 1..(Len(configs) + 1)
  /\ retried \subseteq DOMAIN configs
  /\ calls \in Seq([at : DOMAIN configs, tokens : Nat, success : BOOLEAN])
  /\ outcome \in {"trying", "answered", "failed", "cancelled"}

\* A request never costs more than two calls for each configuration its limit
\* allows, whatever the providers answer and however often one exhausts its
\* reasoning budget (fallback_client.py:42-49, 84-88).
CostBound ==
  /\ Len(calls) <= 2 * Len(configs)
  /\ (limit > 0) => (Len(calls) <= 2 * limit)

SameModel(i, j) ==
  /\ configs[calls[i].at].provider = configs[calls[j].at].provider
  /\ configs[calls[i].at].model = configs[calls[j].at].model

\* No model of a provider is asked a third time, also when the settings name it
\* twice or name its provider twice (fallback_client.py:45-47, providers.py:146-150, 194-199).
NoThirdCall ==
  \A i, j, k \in DOMAIN calls : (i < j /\ j < k) => ~(SameModel(i, j) /\ SameModel(j, k))

\* An agent is told that all providers failed only after each allowed one was
\* asked and none answered (fallback_client.py:150-156).
AllWereAsked ==
  outcome = "failed" =>
    /\ \A c \in DOMAIN configs :
         (limit = 0 \/ c <= limit) => \E i \in DOMAIN calls : calls[i].at = c
    /\ \A i \in DOMAIN calls : ~calls[i].success

\* A second call to a model grants it more tokens than the first, up to the cap
\* as well: otherwise it would only fail in the same way again
\* (fallback_client.py:159-171, http_client.py:78-80).
RetryAsksMore ==
  \A i, j \in DOMAIN calls : (i < j /\ SameModel(i, j)) => (calls[i].tokens < calls[j].tokens)
=============================================================================
