---------------------------- MODULE MCLLMFallback ----------------------------
(* Model checking of LLMFallback for the settings of two known providers and *)
(* one unknown, with models listed twice and providers that fall back on     *)
(* themselves.                                                               *)
EXTENDS LLMFallback, LLMProviders, SequencesExt

Known == {"deepseek", "claude"}

MCSettings ==
  [primary  : {"deepseek", "unknown"},
   fallback : {<<>>, <<"claude">>, <<"unknown", "claude", "deepseek", "claude">>},
   keyed    : {[p \in Known |-> TRUE], [p \in Known |-> p = "claude"]},
   models   : [Known -> {<<"m1">>, <<"m1", "m2", "m1">>}],
   single   : {[p \in Known |-> m] : m \in {"", "m2"}},
   budget   : {0, 3}]

MCConfigurations == {FallbackConfigs(s) : s \in MCSettings}
MCConfig == UNION {ToSet(cs) : cs \in MCConfigurations}
=============================================================================
