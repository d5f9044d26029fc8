-------------------------- MODULE LLMFallbackProofs --------------------------
(***************************************************************************)
(* Proofs about a request to the providers, for every list of              *)
(* configurations, every limit and every token limit below the cap.        *)
(*                                                                         *)
(* Trail says how the calls made so far follow one another, Progress how   *)
(* they relate to the place a request that still tries has reached.  That  *)
(* the lists of configurations are what LLMFallback assumes of them is     *)
(* proved at the end, from the settings they are built of.                 *)
(***************************************************************************)
EXTENDS LLMFallback, LLMProviders, FiniteSetTheorems, WellFoundedInduction, TLAPS

Trail ==
  /\ \A i \in DOMAIN calls : calls[i].at \in 1..Attempts
  /\ \A i, j \in DOMAIN calls : i < j => calls[i].at <= calls[j].at
  /\ \A i, j, k \in DOMAIN calls : (i < j /\ j < k) => calls[i].at < calls[k].at
  /\ \A i, j \in DOMAIN calls :
       (i < j /\ calls[i].at = calls[j].at) => calls[i].tokens < calls[j].tokens
  /\ Len(calls) <= 2 * Attempts

\* The last call was the first one to the configuration at hand.
FirstOfTwo(i) ==
  /\ i = Len(calls) /\ calls[i].at = index
  /\ index \in retried
  /\ calls[i].tokens = Payload(configs[index], max_tokens)
  /\ RelaxedMaxTokens(configs[index]) # 0

Progress ==
  /\ index \in 1..(Attempts + 1)
  /\ \A r \in retried : r <= index
  /\ \A i \in DOMAIN calls : calls[i].at < index \/ FirstOfTwo(i)
  /\ index \in retried => index <= Attempts
  /\ \A c \in 1..(index - 1) : \E i \in DOMAIN calls : calls[i].at = c
  /\ \A i \in DOMAIN calls : ~calls[i].success
  /\ Len(calls) <= 2 * index - 1
  /\ index \notin retried => Len(calls) <= 2 * index - 2

Inv == TypeOK /\ Trail /\ (outcome = "trying" => Progress) /\ AllWereAsked

LEMMA ConfigType ==
  ASSUME configs \in Configurations
  PROVE  /\ Len(configs) \in Nat
         /\ DOMAIN configs = 1..Len(configs)
         /\ \A c \in DOMAIN configs : configs[c].budget \in Nat
BY ConfigAssumption, ConfigurationAssumption

LEMMA AttemptsType ==
  ASSUME configs \in Configurations, limit \in Limits
  PROVE  /\ Attempts \in Nat
         /\ Attempts <= Len(configs)
         /\ limit > 0 => Attempts <= limit
         /\ \A c \in DOMAIN configs : (limit = 0 \/ c <= limit) => c <= Attempts
<1>1. limit \in Nat
  BY TokenAssumption
<1> QED
  BY <1>1, ConfigType DEF Attempts

\* The payload of either call is a number of tokens.
LEMMA TokenType ==
  ASSUME NEW config, config.budget \in Nat, max_tokens \in MaxTokens
  PROVE  /\ RelaxedMaxTokens(config) \in Nat
         /\ Payload(config, max_tokens) \in Nat
         /\ Payload(config, RelaxedMaxTokens(config)) \in Nat
<1>1. max_tokens \in Nat /\ DefaultTokens \in Nat /\ Cap \in Nat
  BY TokenAssumption
<1>2. Base(max_tokens) \in Nat
  BY <1>1 DEF Base
<1>3. RelaxedMaxTokens(config) \in Nat
  BY <1>1, <1>2 DEF RelaxedMaxTokens
<1>4. Base(RelaxedMaxTokens(config)) \in Nat
  BY <1>1, <1>3 DEF Base
<1> QED
  BY <1>2, <1>3, <1>4 DEF Payload

\* A limit below the cap leaves room for more, also after the cap.
LEMMA RelaxedIsMore ==
  ASSUME NEW config, config.budget \in Nat, max_tokens \in MaxTokens,
         RelaxedMaxTokens(config) # 0
  PROVE  Payload(config, max_tokens) < Payload(config, RelaxedMaxTokens(config))
<1>1. /\ max_tokens \in Nat /\ max_tokens < Cap
      /\ DefaultTokens \in Nat /\ DefaultTokens > 0 /\ DefaultTokens < Cap
      /\ Cap \in Nat
  BY TokenAssumption
<1>2. Base(max_tokens) \in Nat /\ Base(max_tokens) > 0 /\ Base(max_tokens) < Cap
  BY <1>1 DEF Base
<1>3. RelaxedMaxTokens(config) \in Nat /\ RelaxedMaxTokens(config) > Base(max_tokens)
  BY <1>1, <1>2 DEF RelaxedMaxTokens
<1>4. Base(RelaxedMaxTokens(config)) = RelaxedMaxTokens(config)
  BY <1>3, <1>2 DEF Base
<1> QED
  BY <1>2, <1>3, <1>4 DEF Payload

LEMMA ElementType ==
  ASSUME NEW S, NEW s \in Seq(S)
  PROVE  \A i \in DOMAIN s : s[i] \in S
OBVIOUS

\* Every call was made to a configuration of the list.
LEMMA CallsType ==
  ASSUME TypeOK
  PROVE  \A i \in DOMAIN calls : /\ calls[i] \in [at : DOMAIN configs, tokens : Nat, success : BOOLEAN]
                               /\ calls[i].at \in DOMAIN configs
<1>1. calls \in Seq([at : DOMAIN configs, tokens : Nat, success : BOOLEAN])
  BY DEF TypeOK
<1>2. \A i \in DOMAIN calls : calls[i] \in [at : DOMAIN configs, tokens : Nat, success : BOOLEAN]
  BY <1>1, ElementType
<1> QED
  BY <1>2

LEMMA InitInv == Init => Inv
<1> SUFFICES ASSUME Init PROVE Inv
  OBVIOUS
<1> USE DEF Init
<1>1. TypeOK
  BY ConfigType DEF TypeOK
<1>2. Trail
  BY AttemptsType DEF Trail
<1>3. Progress
  BY AttemptsType DEF Progress
<1>4. AllWereAsked
  BY DEF AllWereAsked
<1> QED
  BY <1>1, <1>2, <1>3, <1>4 DEF Inv

\* One call more: what it adds to the trail, and where it leads.
LEMMA CallInv ==
  ASSUME Inv, NEW result \in Results, Call(result)
  PROVE  Inv'
<1> DEFINE config == configs[index]
           tokens == IF index \in retried THEN RelaxedMaxTokens(config) ELSE max_tokens
           new == [at |-> index, tokens |-> Payload(config, tokens), success |-> Usable(result)]
           n == Len(calls)
<1> USE DEF Inv
<1>1. /\ outcome = "trying" /\ index <= Attempts
      /\ calls' = Append(calls, new)
      /\ UNCHANGED request
  BY DEF Call
<1>2. Progress /\ TypeOK /\ Trail
  BY <1>1
<1>3. /\ configs \in Configurations /\ limit \in Limits /\ max_tokens \in MaxTokens
      /\ Attempts \in Nat /\ Attempts <= Len(configs)
      /\ Len(configs) \in Nat /\ DOMAIN configs = 1..Len(configs)
  BY <1>2, AttemptsType, ConfigType DEF TypeOK
<1>4. index \in 1..Attempts /\ index \in DOMAIN configs
  BY <1>1, <1>2, <1>3 DEF Progress
<1>5. config.budget \in Nat
  BY <1>3, <1>4, ConfigType
<1>6. Payload(config, tokens) \in Nat
  BY <1>3, <1>5, TokenType
<1>7. Usable(result) \in BOOLEAN
  BY <1>2 DEF Usable, TypeOK
<1>8. calls \in Seq([at : DOMAIN configs, tokens : Nat, success : BOOLEAN])
  BY <1>2 DEF TypeOK
<1>9. new \in [at : DOMAIN configs, tokens : Nat, success : BOOLEAN]
  BY <1>4, <1>6, <1>7
<1>10. /\ n \in Nat /\ DOMAIN calls = 1..n
       /\ calls' \in Seq([at : DOMAIN configs, tokens : Nat, success : BOOLEAN])
       /\ DOMAIN calls' = 1..(n + 1) /\ Len(calls') = n + 1
       /\ calls'[n + 1] = new
       /\ \A i \in 1..n : calls'[i] = calls[i]
  BY <1>1, <1>8, <1>9
<1>11. Attempts' = Attempts
  BY <1>1 DEF Attempts, request
<1>12. \A i \in 1..n : /\ calls[i].at \in Nat /\ calls[i].tokens \in Nat
                       /\ calls[i].at <= index
  <2> TAKE i \in 1..n
  <2>0. calls[i] \in [at : DOMAIN configs, tokens : Nat, success : BOOLEAN]
    BY <1>2, <1>10, CallsType
  <2>1. calls[i].at \in Nat /\ calls[i].tokens \in Nat
    BY <2>0, <1>3
  <2>2. calls[i].at < index \/ FirstOfTwo(i)
    BY <1>2, <1>10 DEF Progress
  <2> QED
    BY <2>1, <2>2, <1>4 DEF FirstOfTwo
<1>13. Trail'
  <2>1. \A i \in DOMAIN calls' : calls'[i].at \in 1..Attempts
    BY <1>2, <1>4, <1>10 DEF Trail
  <2>2. \A i, j \in DOMAIN calls' : i < j => calls'[i].at <= calls'[j].at
    BY <1>2, <1>10, <1>12 DEF Trail
  <2>3. \A i, j, k \in DOMAIN calls' : (i < j /\ j < k) => calls'[i].at < calls'[k].at
    <3> TAKE i, j, k \in DOMAIN calls'
    <3> HAVE i < j /\ j < k
    <3>1. i \in 1..n /\ j \in 1..n /\ i # n
      BY <1>10
    <3>2. CASE k \in 1..n
      BY <3>1, <3>2, <1>2, <1>10 DEF Trail
    <3>3. CASE k = n + 1
      <4>1. calls[i].at < index
        BY <3>1, <1>2, <1>10 DEF Progress, FirstOfTwo
      <4> QED
        BY <4>1, <3>1, <3>3, <1>10
    <3> QED
      BY <3>2, <3>3, <1>10
  <2>4. \A i, j \in DOMAIN calls' :
          (i < j /\ calls'[i].at = calls'[j].at) => calls'[i].tokens < calls'[j].tokens
    <3> TAKE i, j \in DOMAIN calls'
    <3> HAVE i < j /\ calls'[i].at = calls'[j].at
    <3>1. i \in 1..n
      BY <1>10
    <3>2. CASE j \in 1..n
      BY <3>1, <3>2, <1>2, <1>10 DEF Trail
    <3>3. CASE j = n + 1
      <4>1. calls[i].at = index
        BY <3>1, <3>3, <1>10
      <4>2. FirstOfTwo(i)
        BY <4>1, <3>1, <1>2, <1>10, <1>4 DEF Progress
      <4>3. /\ calls[i].tokens = Payload(config, max_tokens)
            /\ new.tokens = Payload(config, RelaxedMaxTokens(config))
        BY <4>2 DEF FirstOfTwo
      <4>4. Payload(config, max_tokens) < Payload(config, RelaxedMaxTokens(config))
        BY <4>2, <1>3, <1>5, RelaxedIsMore DEF FirstOfTwo
      <4> QED
        BY <4>3, <4>4, <3>1, <3>3, <1>10
    <3> QED
      BY <3>2, <3>3, <1>10
  <2>5. Len(calls') <= 2 * Attempts
    BY <1>2, <1>3, <1>4, <1>10 DEF Progress
  <2> QED
    BY <2>1, <2>2, <2>3, <2>4, <2>5, <1>11 DEF Trail
<1>14. CASE Usable(result)
  <2>1. outcome' = "answered" /\ UNCHANGED index /\ retried' \in {retried, retried \cup {index}}
    BY <1>14 DEF Call
  <2>2. TypeOK'
    BY <2>1, <1>1, <1>2, <1>4, <1>10 DEF TypeOK, request
  <2> QED
    BY <2>1, <2>2, <1>13 DEF AllWereAsked
<1>15. CASE ~Usable(result) /\ result = "reasoning" /\ MayRelax
  <2>1. outcome' = "trying" /\ UNCHANGED index /\ retried' = retried \cup {index}
    BY <1>15 DEF Call
  <2>2. TypeOK'
    BY <2>1, <1>1, <1>2, <1>4, <1>10 DEF TypeOK, request
  <2>3. index \notin retried /\ RelaxedMaxTokens(config) # 0
    BY <1>15 DEF MayRelax
  <2>4. /\ n + 1 = Len(calls') /\ calls'[n + 1].at = index' /\ index' \in retried'
        /\ calls'[n + 1].tokens = Payload(configs'[index'], max_tokens')
        /\ RelaxedMaxTokens(config)' # 0
    <3>1. new.tokens = Payload(config, max_tokens)
      BY <2>3
    <3>2. Payload(configs'[index'], max_tokens') = Payload(config, max_tokens)
      BY <2>1, <1>1 DEF request
    <3>3. RelaxedMaxTokens(config)' = RelaxedMaxTokens(config)
      BY <2>1, <1>1 DEF RelaxedMaxTokens, Base, request
    <3> QED
      BY <3>1, <3>2, <3>3, <2>1, <2>3, <1>10
  <2>5. \A i \in 1..n : calls[i].at < index
    BY <2>3, <1>2, <1>10 DEF Progress, FirstOfTwo
  <2>6. Progress'
    <3>1. (\A i \in DOMAIN calls : calls[i].at < index \/ FirstOfTwo(i))'
      <4>1. \A i \in DOMAIN calls' : calls'[i].at < index' \/ i = n + 1
        BY <2>1, <2>5, <1>10
      <4> QED
        BY <4>1, <2>4, <1>10 DEF FirstOfTwo
    <3>2. (\A c \in 1..(index - 1) : \E i \in DOMAIN calls : calls[i].at = c)'
      <4>1. \A c \in 1..(index - 1) : \E i \in 1..n : calls[i].at = c
        BY <1>2, <1>10 DEF Progress
      <4> QED
        BY <4>1, <2>1, <1>10
    <3>3. (\A i \in DOMAIN calls : ~calls[i].success)'
      <4>1. \A i \in 1..n : ~calls[i].success
        BY <1>2, <1>10 DEF Progress
      <4> QED
        BY <4>1, <1>10, <1>15
    <3>4. Len(calls') <= 2 * index' - 1 /\ index' \in retried'
      BY <2>1, <2>3, <1>2, <1>4, <1>10 DEF Progress
    <3>5. (index \in 1..(Attempts + 1) /\ index <= Attempts /\ \A r \in retried : r <= index)'
      BY <2>1, <1>2, <1>3, <1>4, <1>11 DEF Progress
    <3> QED
      BY <3>1, <3>2, <3>3, <3>4, <3>5 DEF Progress
  <2> QED
    BY <2>1, <2>2, <2>6, <1>13 DEF AllWereAsked
<1>16. CASE ~Usable(result) /\ ~(result = "reasoning" /\ MayRelax)
  <2>1. outcome' = "trying" /\ index' = index + 1 /\ retried' = retried
    BY <1>16 DEF Call, Following
  <2>2. TypeOK'
    BY <2>1, <1>1, <1>2, <1>3, <1>4, <1>10 DEF TypeOK, request
  <2>3. Progress'
    <3>1. (\A i \in DOMAIN calls : calls[i].at < index \/ FirstOfTwo(i))'
      <4>1. \A i \in DOMAIN calls' : calls'[i].at < index'
        BY <2>1, <1>4, <1>10, <1>12
      <4> QED
        BY <4>1
    <3>2. (\A c \in 1..(index - 1) : \E i \in DOMAIN calls : calls[i].at = c)'
      <4> SUFFICES ASSUME NEW c \in 1..index PROVE \E i \in 1..(n + 1) : calls'[i].at = c
        BY <2>1, <1>4, <1>10
      <4>1. CASE c = index
        BY <4>1, <1>10
      <4>2. CASE c # index
        <5>0. c \in 1..(index - 1)
          BY <4>2, <1>4
        <5>1. PICK i \in 1..n : calls[i].at = c
          BY <5>0, <1>2, <1>10 DEF Progress
        <5> QED
          BY <5>1, <1>10
      <4> QED
        BY <4>1, <4>2
    <3>3. (\A i \in DOMAIN calls : ~calls[i].success)'
      <4>1. \A i \in 1..n : ~calls[i].success
        BY <1>2, <1>10 DEF Progress
      <4> QED
        BY <4>1, <1>10, <1>16
    <3>4. index' \notin retried'
      BY <2>1, <1>2, <1>4 DEF Progress
    <3>5. Len(calls') <= 2 * index' - 2
      BY <2>1, <1>2, <1>4, <1>10 DEF Progress
    <3>6. (index \in 1..(Attempts + 1))'
      BY <2>1, <1>3, <1>4, <1>11
    <3>7. (\A r \in retried : r <= index)'
      <4>1. \A r \in retried : r \in Nat /\ r <= index
        BY <1>2, <1>3 DEF Progress, TypeOK
      <4> QED
        BY <4>1, <2>1, <1>4
    <3>8. Len(calls') <= 2 * index' - 1
      BY <3>5, <2>1, <1>4, <1>10
    <3> QED
      BY <3>1, <3>2, <3>3, <3>4, <3>5, <3>6, <3>7, <3>8 DEF Progress
  <2> QED
    BY <2>1, <2>2, <2>3, <1>13 DEF AllWereAsked
<1> QED
  BY <1>14, <1>15, <1>16

LEMMA NextInv == Inv /\ [Next]_vars => Inv'
<1> SUFFICES ASSUME Inv, [Next]_vars PROVE Inv'
  OBVIOUS
<1>1. ASSUME NEW result \in Results, Call(result) PROVE Inv'
  BY <1>1, CallInv
<1>2. CASE GiveUp
  <2>1. /\ outcome = "trying" /\ index > Attempts /\ outcome' = "failed"
        /\ UNCHANGED <<configs, limit, json, max_tokens, index, retried, calls>>
    BY <1>2 DEF GiveUp, request
  <2>2. TypeOK' /\ Trail'
    BY <2>1 DEF Inv, TypeOK, Trail, Attempts
  <2>3. configs \in Configurations /\ limit \in Limits
    BY DEF Inv, TypeOK
  <2>4. Progress
    BY <2>1 DEF Inv
  <2>5. \A c \in DOMAIN configs :
          (limit = 0 \/ c <= limit) => \E i \in DOMAIN calls : calls[i].at = c
    <3> TAKE c \in DOMAIN configs
    <3> HAVE limit = 0 \/ c <= limit
    <3>1. c \in 1..(index - 1)
      BY <2>1, <2>3, <2>4, AttemptsType, ConfigType DEF Progress
    <3> QED
      BY <3>1, <2>4 DEF Progress
  <2>6. AllWereAsked'
    BY <2>1, <2>4, <2>5 DEF AllWereAsked, Progress
  <2> QED
    BY <2>1, <2>2, <2>6 DEF Inv
<1>3. CASE Cancelled
  BY <1>3 DEF Cancelled, Inv, TypeOK, Trail, AllWereAsked, Attempts, request
<1>4. CASE UNCHANGED vars
  BY <1>4 DEF vars, Inv, TypeOK, Trail, Progress, FirstOfTwo, AllWereAsked, Attempts,
              Payload, RelaxedMaxTokens, Base
<1> QED
  BY <1>1, <1>2, <1>3, <1>4 DEF Next

THEOREM Invariance == Spec => []Inv
<1>1. Init => Inv
  BY InitInv
<1>2. Inv /\ [Next]_vars => Inv'
  BY NextInv
<1> QED
  BY <1>1, <1>2, PTL DEF Spec

\* A request keeps its types, for every list of configurations.
THEOREM TypeCorrect == Spec => []TypeOK
<1>1. Inv => TypeOK
  BY DEF Inv
<1> QED
  BY <1>1, Invariance, PTL

\* Two calls for each allowed configuration are all a request ever costs
\* (fallback_client.py:42-49, 84-88).
THEOREM CostIsBounded == Spec => []CostBound
<1>1. Inv => CostBound
  <2> SUFFICES ASSUME Inv PROVE CostBound
    OBVIOUS
  <2>1. configs \in Configurations /\ limit \in Limits /\ Len(calls) <= 2 * Attempts
    BY DEF Inv, TypeOK, Trail
  <2>2. Len(calls) \in Nat /\ limit \in Nat
    BY <2>1, TokenAssumption DEF Inv, TypeOK
  <2> QED
    BY <2>1, <2>2, AttemptsType, ConfigType DEF CostBound
<1> QED
  BY <1>1, Invariance, PTL

\* No model of a provider is asked a third time (fallback_client.py:45-47).
THEOREM NobodyIsAskedThrice == Spec => []NoThirdCall
<1>1. Inv => NoThirdCall
  <2> SUFFICES ASSUME Inv, NEW i \in DOMAIN calls, NEW j \in DOMAIN calls, NEW k \in DOMAIN calls,
                      i < j, j < k, SameModel(i, j), SameModel(j, k)
               PROVE  FALSE
    BY DEF NoThirdCall
  <2>1. /\ configs \in Configurations
        /\ \A x \in DOMAIN calls : calls[x].at \in DOMAIN configs
    BY CallsType DEF Inv, TypeOK
  <2>2. calls[i].at = calls[j].at /\ calls[j].at = calls[k].at
    BY <2>1, ConfigurationAssumption DEF SameModel
  <2>3. calls[i].at < calls[k].at
    BY DEF Inv, Trail
  <2>4. calls[k].at \in Nat
    BY <2>1, ConfigType
  <2> QED
    BY <2>2, <2>3, <2>4
<1> QED
  BY <1>1, Invariance, PTL

\* Failure is reported only after every allowed configuration was asked
\* (fallback_client.py:150-156).
THEOREM AllAreAsked == Spec => []AllWereAsked
<1>1. Inv => AllWereAsked
  BY DEF Inv
<1> QED
  BY <1>1, Invariance, PTL

\* A second call asks for more tokens than the first
\* (fallback_client.py:159-171, http_client.py:78-80).
THEOREM RetriesAskMore == Spec => []RetryAsksMore
<1>1. Inv => RetryAsksMore
  <2> SUFFICES ASSUME Inv, NEW i \in DOMAIN calls, NEW j \in DOMAIN calls, i < j, SameModel(i, j)
               PROVE  calls[i].tokens < calls[j].tokens
    BY DEF RetryAsksMore
  <2>1. /\ configs \in Configurations
        /\ calls[i].at \in DOMAIN configs /\ calls[j].at \in DOMAIN configs
    BY CallsType DEF Inv, TypeOK
  <2>2. calls[i].at = calls[j].at
    BY <2>1, ConfigurationAssumption DEF SameModel
  <2> QED
    BY <2>2 DEF Inv, Trail
<1> QED
  BY <1>1, Invariance, PTL

-----------------------------------------------------------------------------
(* The configurations that settings give.                                  *)

LEMMA Least ==
  ASSUME NEW T, T \subseteq Nat, T # {}
  PROVE  \E x \in T : \A y \in T : x <= y
<1>1. \E x \in T : \A y \in T : ~ (<<y, x>> \in OpToRel(<, Nat))
  BY NatLessThanWellFounded, WFMin
<1>2. \A x, y \in Nat : <<y, x>> \in OpToRel(<, Nat) <=> y < x
  BY DEF OpToRel
<1>3. PICK x \in T : \A y \in T : ~ (<<y, x>> \in OpToRel(<, Nat))
  BY <1>1
<1>4. \A y \in T : y \in Nat /\ x \in Nat
  OBVIOUS
<1>5. \A y \in T : ~(y < x)
  BY <1>2, <1>3, <1>4
<1>6. \A y \in T : x <= y
  BY <1>4, <1>5
<1> QED BY <1>6

\* R orders S, and tells any two of its elements apart.
StrictOrder(S, R) ==
  /\ \A s \in S : <<s, s>> \notin R
  /\ \A s, t, u \in S : <<s, t>> \in R /\ <<t, u>> \in R => <<s, u>> \in R
  /\ \A s, t \in S : s = t \/ <<s, t>> \in R \/ <<t, s>> \in R

\* A finite set in a strict order is listed once, and in that order: as many
\* elements as places, and no two with as many before them.
LEMMA RankedLists ==
  ASSUME NEW S, IsFiniteSet(S), NEW R, StrictOrder(S, R)
  PROVE  /\ Cardinality(S) \in Nat
         /\ Ranked(S, R) \in [1..Cardinality(S) -> S]
         /\ \A s \in S : \E n \in 1..Cardinality(S) : Ranked(S, R)[n] = s
         /\ \A m, n \in 1..Cardinality(S) :
              m < n <=> <<Ranked(S, R)[m], Ranked(S, R)[n]>> \in R
<1> DEFINE Below(s) == {t \in S : <<t, s>> \in R}
           place == [s \in S |-> Cardinality(Below(s)) + 1]
           N == Cardinality(S)
<1>1. N \in Nat
  BY FS_CardinalityType
<1>2. ASSUME NEW s \in S PROVE IsFiniteSet(Below(s)) /\ Cardinality(Below(s)) \in 0..(N - 1)
  <2>1. Below(s) \in SUBSET S /\ Below(s) # S
    BY DEF StrictOrder
  <2>2. IsFiniteSet(Below(s)) /\ Cardinality(Below(s)) <= N /\ Cardinality(Below(s)) # N
    BY <2>1, FS_Subset
  <2>3. Cardinality(Below(s)) \in Nat
    BY <2>2, FS_CardinalityType
  <2> QED BY <1>1, <2>2, <2>3
<1>3. ASSUME NEW s \in S, NEW t \in S, <<s, t>> \in R PROVE place[s] < place[t]
  <2>1. Below(s) \in SUBSET Below(t) /\ Below(s) # Below(t)
    BY <1>3 DEF StrictOrder
  <2>2. Cardinality(Below(s)) <= Cardinality(Below(t)) /\ Cardinality(Below(s)) # Cardinality(Below(t))
    BY <1>2, <2>1, FS_Subset
  <2>3. place[s] = Cardinality(Below(s)) + 1 /\ place[t] = Cardinality(Below(t)) + 1
    OBVIOUS
  <2> HIDE DEF Below, place
  <2> QED BY <1>2, <2>2, <2>3
<1>4. \A s \in S : place[s] \in 1..N
  <2> SUFFICES ASSUME NEW s \in S PROVE place[s] \in 1..N
    OBVIOUS
  <2>1. place[s] = Cardinality(Below(s)) + 1
    OBVIOUS
  <2> HIDE DEF Below, place
  <2> QED BY <1>1, <1>2, <2>1
<1>5. place \in [S -> 1..N]
  BY <1>4
<1> HIDE DEF place
<1>6. ASSUME NEW s \in S, NEW t \in S, place[s] = place[t] PROVE s = t
  <2>1. place[s] \in Nat /\ place[t] \in Nat
    BY <1>1, <1>4
  <2>2. <<s, t>> \notin R /\ <<t, s>> \notin R
    BY <1>3, <1>6, <2>1
  <2> QED BY <2>2 DEF StrictOrder
<1>7. place \in Injection(S, 1..N)
  BY <1>5, <1>6 DEF Injection, IsInjective
<1>8. IsFiniteSet(1..N) /\ Cardinality(1..N) = N
  BY <1>1, FS_Interval
<1>9. place \in Surjection(S, 1..N)
  BY <1>7, <1>8, FS_Injection
<1>10. \A n \in 1..N : \E s \in S : place[s] = n
  BY <1>9 DEF Surjection
<1>11. ASSUME NEW n \in 1..N PROVE Ranked(S, R)[n] \in S /\ place[Ranked(S, R)[n]] = n
  <2>1. \A s \in S : place[s] = n <=> Cardinality({t \in S : <<t, s>> \in R}) = n - 1
    <3> SUFFICES ASSUME NEW s \in S
                 PROVE  place[s] = n <=> Cardinality(Below(s)) = n - 1
      OBVIOUS
    <3>1. place[s] = Cardinality(Below(s)) + 1
      BY DEF place
    <3> HIDE DEF Below
    <3> QED BY <1>1, <1>2, <3>1
  <2>2. Ranked(S, R)[n] = CHOOSE s \in S : Cardinality({t \in S : <<t, s>> \in R}) = n - 1
    BY DEF Ranked
  <2> QED BY <1>10, <2>1, <2>2
<1>12. Ranked(S, R) \in [1..N -> S]
  <2> DEFINE at(n) == CHOOSE s \in S : Cardinality({t \in S : <<t, s>> \in R}) = n - 1
  <2>1. Ranked(S, R) = [n \in 1..N |-> at(n)]
    BY DEF Ranked
  <2> HIDE DEF at
  <2> QED BY <1>11, <2>1
<1>13. \A s \in S : Ranked(S, R)[place[s]] = s
  BY <1>4, <1>6, <1>11
<1>14. \A m, n \in 1..N : m < n <=> <<Ranked(S, R)[m], Ranked(S, R)[n]>> \in R
  <2> SUFFICES ASSUME NEW m \in 1..N, NEW n \in 1..N
               PROVE  m < n <=> <<Ranked(S, R)[m], Ranked(S, R)[n]>> \in R
    OBVIOUS
  <2> DEFINE a == Ranked(S, R)[m]
             b == Ranked(S, R)[n]
  <2>1. a \in S /\ b \in S /\ place[a] = m /\ place[b] = n
    BY <1>11
  <2> HIDE DEF a, b
  <2>2. <<a, b>> \in R => m < n
    BY <1>3, <2>1
  <2>3. <<b, a>> \in R => n < m
    BY <1>3, <2>1
  <2>4. a = b \/ <<a, b>> \in R \/ <<b, a>> \in R
    BY <2>1 DEF StrictOrder
  <2>5. m < n <=> <<a, b>> \in R
    BY <1>1, <2>1, <2>2, <2>3, <2>4
  <2> QED BY <2>5 DEF a, b
<1> QED BY <1>1, <1>4, <1>12, <1>13, <1>14

\* The first place of an element holds it, and no other element.
LEMMA PlaceHolds ==
  ASSUME NEW T, NEW s \in Seq(T), NEW x \in Range(s)
  PROVE  Place(s, x) \in Nat /\ Place(s, x) \in DOMAIN s /\ s[Place(s, x)] = x
<1> DEFINE I == {i \in DOMAIN s : s[i] = x}
<1>1. DOMAIN s \subseteq Nat
  OBVIOUS
<1>2. I \subseteq Nat /\ I # {}
  BY <1>1 DEF Range
<1>3. \E i \in DOMAIN s : s[i] = x /\ \A j \in DOMAIN s : s[j] = x => i <= j
  BY <1>2, Least
<1> QED BY <1>1, <1>3 DEF Place

LEMMA FiniteImage ==
  ASSUME NEW S, IsFiniteSet(S), NEW T, NEW f \in [S -> T]
  PROVE  IsFiniteSet(Range(f))
<1>1. f \in Surjection(S, Range(f))
  BY DEF Surjection, Range
<1> QED BY <1>1, FS_Surjection

LEMMA FiniteRange ==
  ASSUME NEW T, NEW s \in Seq(T)
  PROVE  IsFiniteSet(Range(s))
<1>1. Len(s) \in Nat /\ s \in [1..Len(s) -> T]
  OBVIOUS
<1>2. IsFiniteSet(1..Len(s))
  BY <1>1, FS_Interval
<1> QED BY <1>1, <1>2, FiniteImage

\* Settings as they are read: words, and lists of words.
IsSettings(settings) ==
  /\ settings.primary \in STRING /\ settings.fallback \in Seq(STRING)
  /\ \A p \in DOMAIN settings.keyed :
       settings.models[p] \in Seq(STRING) /\ settings.single[p] \in STRING
  /\ settings.budget \in Nat

LEMMA SettingsLists ==
  ASSUME NEW settings, IsSettings(settings)
  PROVE  /\ OrderedProviders(settings) \in Seq(STRING)
         /\ \A p \in DOMAIN settings.keyed : SplitModels(settings, p) \in Seq(STRING)
<1>1. OrderedProviders(settings) \in Seq(STRING)
  BY DEF IsSettings, OrderedProviders
<1>2. ASSUME NEW p \in DOMAIN settings.keyed PROVE SplitModels(settings, p) \in Seq(STRING)
  <2>1. settings.models[p] \in Seq(STRING) /\ settings.single[p] \in STRING
    BY DEF IsSettings
  <2> DEFINE single == IF settings.single[p] = "" THEN <<>> ELSE <<settings.single[p]>>
  <2>2. single \in Seq(STRING)
    <3>1. <<>> \in Seq(STRING)
      OBVIOUS
    <3>2. <<settings.single[p]>> \in Seq(STRING)
      BY <2>1
    <3> QED BY <3>1, <3>2
  <2> HIDE DEF single
  <2>3. single \o settings.models[p] \in Seq(STRING)
    BY <2>1, <2>2
  <2> QED BY <2>3 DEF SplitModels, single
<1> QED BY <1>1, <1>2

\* What is tried, in terms of a provider and a model.
LEMMA ExpandedPairs ==
  ASSUME NEW settings, IsSettings(settings)
  PROVE  /\ IsFiniteSet(Expanded(settings))
         /\ \A a \in Expanded(settings) :
              /\ a = <<a[1], a[2]>> /\ a[1] \in STRING /\ a[2] \in STRING
              /\ a[1] \in Range(OrderedProviders(settings))
              /\ a[1] \in DOMAIN settings.keyed
              /\ a[2] \in Range(SplitModels(settings, a[1]))
         /\ \A p, m : <<p, m>> \in Expanded(settings) <=>
              /\ p \in Range(OrderedProviders(settings))
              /\ p \in DOMAIN settings.keyed /\ settings.keyed[p]
              /\ m \in Range(SplitModels(settings, p))
<1> DEFINE Keyed == {p \in Range(OrderedProviders(settings)) :
                       p \in DOMAIN settings.keyed /\ settings.keyed[p]}
           of(p) == {<<p, m>> : m \in Range(SplitModels(settings, p))}
           family == {of(p) : p \in Keyed}
<1>1. Expanded(settings) = UNION family
  BY DEF Expanded
<1>2. IsFiniteSet(Keyed)
  <2>1. IsFiniteSet(Range(OrderedProviders(settings)))
    BY SettingsLists, FiniteRange
  <2> QED BY <2>1, FS_Subset
<1>3. IsFiniteSet(family)
  <2> DEFINE f == [p \in Keyed |-> of(p)]
  <2> HIDE DEF of, Keyed
  <2>1. f \in [Keyed -> family]
    OBVIOUS
  <2>2. Range(f) = family
    BY DEF Range
  <2> HIDE DEF f, family
  <2> QED BY <1>2, <2>1, <2>2, FiniteImage
<1>4. ASSUME NEW p \in Keyed PROVE IsFiniteSet(of(p))
  <2> DEFINE M == Range(SplitModels(settings, p))
             f == [m \in M |-> <<p, m>>]
  <2>1. IsFiniteSet(M)
    BY SettingsLists, FiniteRange
  <2> HIDE DEF M
  <2>2. f \in [M -> {<<p, m>> : m \in M}]
    OBVIOUS
  <2>3. Range(f) = {<<p, m>> : m \in M}
    BY DEF Range
  <2> HIDE DEF f
  <2>4. IsFiniteSet({<<p, m>> : m \in M})
    BY <2>1, <2>2, <2>3, FiniteImage
  <2> QED BY <2>4 DEF M
<1>5. IsFiniteSet(UNION family)
  <2>1. \A f \in family : IsFiniteSet(f)
    BY <1>4
  <2> HIDE DEF family
  <2> QED BY <1>3, <2>1, FS_UNION
<1>6. \A p, m : <<p, m>> \in Expanded(settings) <=>
              /\ p \in Range(OrderedProviders(settings))
              /\ p \in DOMAIN settings.keyed /\ settings.keyed[p]
              /\ m \in Range(SplitModels(settings, p))
  BY <1>1
<1>7. \A a \in Expanded(settings) : a = <<a[1], a[2]>>
  BY <1>1
<1>8. ASSUME NEW T, NEW s \in Seq(T), NEW x \in Range(s) PROVE x \in T
  BY <1>8 DEF Range
<1> HIDE DEF Keyed, of, family
<1>9. ASSUME NEW a \in Expanded(settings)
      PROVE  /\ a[1] \in STRING /\ a[2] \in STRING
             /\ a[1] \in Range(OrderedProviders(settings))
             /\ a[1] \in DOMAIN settings.keyed
             /\ a[2] \in Range(SplitModels(settings, a[1]))
  <2>1. /\ a[1] \in Range(OrderedProviders(settings))
        /\ a[1] \in DOMAIN settings.keyed
        /\ a[2] \in Range(SplitModels(settings, a[1]))
    BY <1>6, <1>7
  <2> QED BY <1>8, <2>1, SettingsLists
<1> QED BY <1>1, <1>5, <1>6, <1>7, <1>9

LEMMA TriedInOrder ==
  ASSUME NEW settings, IsSettings(settings)
  PROVE  StrictOrder(Expanded(settings),
                     {e \in Expanded(settings) \X Expanded(settings) :
                        TriedBefore(settings, e[1], e[2])})
<1> DEFINE E == Expanded(settings)
           R == {e \in E \X E : TriedBefore(settings, e[1], e[2])}
           at(a) == Place(OrderedProviders(settings), a[1])
           within(a) == Place(SplitModels(settings, a[1]), a[2])
<1>1. \A a, b \in E : <<a, b>> \in R <=> TriedBefore(settings, a, b)
  OBVIOUS
<1>2. ASSUME NEW a \in E PROVE at(a) \in Nat /\ OrderedProviders(settings)[at(a)] = a[1]
  BY PlaceHolds, SettingsLists, ExpandedPairs
<1>3. ASSUME NEW a \in E PROVE within(a) \in Nat /\ SplitModels(settings, a[1])[within(a)] = a[2]
  BY PlaceHolds, SettingsLists, ExpandedPairs
<1>4. \A a, b \in E : TriedBefore(settings, a, b) <=>
                        at(a) < at(b) \/ (a[1] = b[1] /\ within(a) < within(b))
  BY DEF TriedBefore
<1>5. \A a, b \in E : a[1] = b[1] => at(a) = at(b)
  OBVIOUS
<1>6. ASSUME NEW a \in E, NEW b \in E, at(a) = at(b) PROVE a[1] = b[1]
  BY <1>2, <1>6
<1>7. ASSUME NEW a \in E, NEW b \in E, a[1] = b[1], within(a) = within(b) PROVE a = b
  <2>1. a[2] = b[2]
    BY <1>3, <1>7
  <2> QED BY <1>7, <2>1, ExpandedPairs
<1> HIDE DEF E, R, at, within
<1>8. \A a \in E : ~TriedBefore(settings, a, a)
  BY <1>2, <1>3, <1>4
<1>9. ASSUME NEW a \in E, NEW b \in E, NEW c \in E,
             TriedBefore(settings, a, b), TriedBefore(settings, b, c)
      PROVE  TriedBefore(settings, a, c)
  <2>1. at(a) \in Nat /\ at(b) \in Nat /\ at(c) \in Nat
    BY <1>2
  <2>2. within(a) \in Nat /\ within(b) \in Nat /\ within(c) \in Nat
    BY <1>3
  <2> QED BY <1>4, <1>5, <1>9, <2>1, <2>2
<1>10. ASSUME NEW a \in E, NEW b \in E
       PROVE  a = b \/ TriedBefore(settings, a, b) \/ TriedBefore(settings, b, a)
  <2>1. at(a) \in Nat /\ at(b) \in Nat /\ within(a) \in Nat /\ within(b) \in Nat
    BY <1>2, <1>3
  <2>2. CASE at(a) # at(b)
    BY <1>4, <2>1, <2>2
  <2>3. CASE at(a) = at(b)
    <3>1. a[1] = b[1] /\ (within(a) = within(b) => a = b)
      BY <1>6, <1>7, <2>3
    <3> QED BY <1>4, <2>1, <3>1
  <2> QED BY <2>2, <2>3
<1>11. StrictOrder(E, R)
  BY <1>1, <1>8, <1>9, <1>10 DEF StrictOrder
<1> QED BY <1>11 DEF E, R

\* Whatever the settings, a request has every model of every provider with a key
\* that they name once, and in their order: what ConfigurationAssumption takes
\* for granted (build_llm_fallback_configs).
THEOREM ConfigurationsListed ==
  ASSUME NEW settings, IsSettings(settings)
  PROVE  LET cs == FallbackConfigs(settings)
             named(p) == /\ p \in Range(OrderedProviders(settings))
                         /\ p \in DOMAIN settings.keyed /\ settings.keyed[p]
         IN /\ cs \in Seq([provider : STRING, model : STRING, budget : Nat])
            /\ \A i, j \in DOMAIN cs :
                 cs[i].provider = cs[j].provider /\ cs[i].model = cs[j].model => i = j
            /\ \A p, m :
                 (\E i \in DOMAIN cs : cs[i].provider = p /\ cs[i].model = m)
                   <=> named(p) /\ m \in Range(SplitModels(settings, p))
            /\ \A i, j \in DOMAIN cs :
                 i < j <=> TriedBefore(settings, <<cs[i].provider, cs[i].model>>,
                                       <<cs[j].provider, cs[j].model>>)
<1> DEFINE E == Expanded(settings)
           R == {e \in E \X E : TriedBefore(settings, e[1], e[2])}
           list == Ranked(E, R)
           N == Cardinality(E)
           config(e) == ProviderConfig(settings, e[1], e[2])
           cs == [n \in DOMAIN list |-> config(list[n])]
           named(p) == /\ p \in Range(OrderedProviders(settings))
                       /\ p \in DOMAIN settings.keyed /\ settings.keyed[p]
<1>1. FallbackConfigs(settings) = cs
  BY DEF FallbackConfigs
<1>2. IsFiniteSet(E) /\ StrictOrder(E, R)
  BY ExpandedPairs, TriedInOrder
<1>3. \A a, b \in E : <<a, b>> \in R <=> TriedBefore(settings, a, b)
  OBVIOUS
<1>4. \A a \in E : /\ a = <<a[1], a[2]>>
                   /\ config(a) \in [provider : STRING, model : STRING, budget : Nat]
                   /\ config(a).provider = a[1] /\ config(a).model = a[2]
  BY ExpandedPairs DEF ProviderConfig, IsSettings
<1>5. \A p, m : <<p, m>> \in E <=> named(p) /\ m \in Range(SplitModels(settings, p))
  BY ExpandedPairs
<1> HIDE DEF E, R
<1>6. /\ N \in Nat /\ list \in [1..N -> E]
      /\ \A e \in E : \E n \in 1..N : list[n] = e
      /\ \A m, n \in 1..N : m < n <=> <<list[m], list[n]>> \in R
  BY <1>2, RankedLists
<1> HIDE DEF list, N, config
<1>7. /\ DOMAIN cs = 1..N
      /\ \A n \in 1..N : /\ cs[n] = config(list[n]) /\ list[n] \in E
                         /\ list[n] = <<cs[n].provider, cs[n].model>>
  BY <1>4, <1>6
<1>8. cs \in Seq([provider : STRING, model : STRING, budget : Nat])
  <2>1. \A n \in 1..N : cs[n] \in [provider : STRING, model : STRING, budget : Nat]
    BY <1>4, <1>7
  <2>2. cs = [n \in 1..N |-> cs[n]]
    BY <1>7
  <2> QED BY <1>6, <2>1, <2>2
<1>9. ASSUME NEW i \in DOMAIN cs, NEW j \in DOMAIN cs
      PROVE  i < j <=> TriedBefore(settings, <<cs[i].provider, cs[i].model>>,
                                   <<cs[j].provider, cs[j].model>>)
  BY <1>3, <1>6, <1>7
<1>10. ASSUME NEW i \in DOMAIN cs, NEW j \in DOMAIN cs,
              cs[i].provider = cs[j].provider, cs[i].model = cs[j].model
       PROVE  i = j
  <2>1. list[i] = list[j]
    BY <1>7, <1>10
  <2>2. ~(i < j) /\ ~(j < i)
    <3>1. <<list[i], list[i]>> \notin R
      BY <1>2, <1>7 DEF StrictOrder
    <3> QED BY <1>6, <1>7, <2>1, <3>1
  <2> QED BY <1>6, <1>7, <2>2
<1>11. ASSUME NEW p, NEW m
       PROVE  (\E i \in DOMAIN cs : cs[i].provider = p /\ cs[i].model = m)
                <=> named(p) /\ m \in Range(SplitModels(settings, p))
  <2>1. ASSUME NEW i \in DOMAIN cs, cs[i].provider = p, cs[i].model = m
        PROVE  <<p, m>> \in E
    BY <1>7, <2>1
  <2>2. ASSUME <<p, m>> \in E
        PROVE  \E i \in DOMAIN cs : cs[i].provider = p /\ cs[i].model = m
    <3>1. PICK i \in 1..N : list[i] = <<p, m>>
      BY <1>6, <2>2
    <3>2. cs[i].provider = p /\ cs[i].model = m
      BY <1>4, <1>7, <3>1
    <3> QED BY <1>7, <3>2
  <2> QED BY <1>5, <2>1, <2>2
<1> HIDE DEF cs
<1> QED BY <1>1, <1>8, <1>9, <1>10, <1>11
=============================================================================
