---------------------------- MODULE LLMProviders ----------------------------
(***************************************************************************)
(* The configurations a request may try, as app/llm/providers.py builds    *)
(* them from the settings: providers in order, each with its models.       *)
(***************************************************************************)
EXTENDS Orders, Sequences, Functions

\* list(dict.fromkeys(s)) keeps the first of each.
Place(s, x) == CHOOSE i \in DOMAIN s : s[i] = x /\ \A j \in DOMAIN s : s[j] = x => i <= j

\* The primary provider before its fallbacks, which may name it again.
OrderedProviders(settings) == <<settings.primary>> \o settings.fallback

\* The single model comes before the listed ones; "" is no model.
SplitModels(settings, provider) ==
  (IF settings.single[provider] = "" THEN <<>> ELSE <<settings.single[provider]>>)
    \o settings.models[provider]

\* Only "claude" is built without a reasoning budget.
ProviderConfig(settings, provider, model) ==
  [provider |-> provider, model |-> model,
   budget |-> IF provider = "claude" THEN 0 ELSE settings.budget]

\* The models of the providers with a key; one that nobody knows is skipped.
Expanded(settings) ==
  UNION {{<<p, m>> : m \in Range(SplitModels(settings, p))} :
           p \in {p \in Range(OrderedProviders(settings)) :
                    p \in DOMAIN settings.keyed /\ settings.keyed[p]}}

\* One provider after the other, and a provider's models in their order.
TriedBefore(settings, a, b) ==
  \/ Place(OrderedProviders(settings), a[1]) < Place(OrderedProviders(settings), b[1])
  \/ /\ a[1] = b[1]
     /\ Place(SplitModels(settings, a[1]), a[2]) < Place(SplitModels(settings, b[1]), b[2])

FallbackConfigs(settings) ==
  LET expanded == Expanded(settings)
      list == Ranked(expanded,
                     {e \in expanded \X expanded : TriedBefore(settings, e[1], e[2])})
  IN [n \in DOMAIN list |-> ProviderConfig(settings, list[n][1], list[n][2])]
=============================================================================
