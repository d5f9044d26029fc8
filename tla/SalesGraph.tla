----------------------------- MODULE SalesGraph -----------------------------
(***************************************************************************)
(* One run of the sales graph: app/graph/sales_graph.py, its nodes and     *)
(* routers (nodes.py) and the deterministic rules they ask                 *)
(* (supervisor_router.py, routing_rules.py).                               *)
(*                                                                         *)
(* An action is a node that completes.  The nodes of one superstep run in  *)
(* parallel; the next superstep starts when all of them are done.  What an *)
(* agent answers is chosen freely among the cases the code tells apart.    *)
(* Texts are known by where they come from.                                *)
(***************************************************************************)
EXTENDS Naturals

CONSTANTS
  Stages,         \* names an agent or a stored session may use for a stage
  Options,        \* sop_stage_options: the stages of the knowledge base
  Terminal,       \* the words for a finished or transferred session
  NoStage,        \* the empty stage
  MaxReviews,     \* safety_max_review_count
  IncludeMemory,  \* include_memory_update
  VectorReview    \* safety_vector_enabled, with vectors in the rules table

ASSUME StagesAssumption ==
  Options \subseteq Stages /\ Terminal \subseteq Stages /\ NoStage \notin Stages
ASSUME ReviewsAssumption == MaxReviews \in Nat
ASSUME SwitchesAssumption == IncludeMemory \in BOOLEAN /\ VectorReview \in BOOLEAN

VARIABLES
  message,        \* the rules the customer's message matches
  enrolled,       \* the profile says the customer has bought
  transfer_flag,
  stage,          \* current_stage
  at,             \* nodes of the current superstep that are not done
  sop,            \* the SOP decision
  knowledge,      \* what the knowledge agent found
  draft,          \* draft_reply
  verdict,        \* safety: the answer of the last review
  reviewed,       \* the last review was of the current draft
  safety_retry_count,
  reply,          \* where the reply's text comes from
  sent_reply,
  called,         \* agents called in this run
  plan,           \* supervisor.run_agents: the agents said to run
  failed          \* the run ended with an exception

session == <<message, enrolled>>
evidence == <<sop, knowledge>>
review == <<draft, verdict, reviewed, safety_retry_count>>
vars == <<message, enrolled, transfer_flag, stage, at, sop, knowledge, draft, verdict,
          reviewed, safety_retry_count, reply, sent_reply, called, plan, failed>>

Rules == {"strong", "emotion", "knowledge", "profile", "small_talk", "purchase"}
Agents == {"intent", "sop", "knowledge", "conversation", "safety", "memory_update"}
Context == {"knowledge", "sop", "sales_case_rag"}
Nodes == Agents \cup Context \cup
  {"init", "supervisor_router", "context_gate", "rewrite_reply", "handover",
   "final_reply", "send", "finalize"}

\* SafetyAgent's output; "missing" stands for an action the router does not know,
\* or none at all, as when its JSON lacks the key.
Verdict == [action : {"none", "pass", "revise", "block", "transfer", "missing"},
            approved : BOOLEAN, revised : BOOLEAN]

SOP == [transfer : BOOLEAN, stage : Stages \cup {NoStage}]

Init ==
  /\ message \in SUBSET Rules
  /\ enrolled \in BOOLEAN
  /\ transfer_flag \in BOOLEAN
  /\ stage \in Stages
  /\ at = {"init"}
  /\ sop = [transfer |-> FALSE, stage |-> NoStage]
  /\ knowledge = "none"
  /\ draft = "none"
  /\ verdict = [action |-> "none", approved |-> FALSE, revised |-> FALSE]
  /\ reviewed = FALSE
  /\ safety_retry_count = 0
  /\ reply = "none"
  /\ sent_reply = FALSE
  /\ called = {}
  /\ plan = {}
  /\ failed = FALSE

-----------------------------------------------------------------------------
(* Rules.                                                                  *)

\* decide_supervisor_route, its four priorities from the highest.
Route ==
  IF transfer_flag THEN "manual_control"
  ELSE IF message \cap {"strong", "emotion"} # {} THEN "force_handover"
  ELSE IF "small_talk" \in message /\ message \cap {"knowledge", "profile"} = {}
       THEN "direct_reply"
  ELSE "full_auto"

\* run_agents of the decision.
AgentPlan(route) ==
  CASE route = "full_auto"    -> IF "knowledge" \in message THEN Agents
                                 ELSE Agents \ {"knowledge"}
    [] route = "direct_reply" -> {"conversation", "safety"}
    [] OTHER                  -> {}

\* Mutant of RouteAfterSupervisor: only a human's session skips the intent agent.
RouteAfterSupervisorAsksIntent(route) ==
  CASE route = "manual_control" -> {"handover"}
    [] route = "direct_reply"   -> {"conversation"}
    [] OTHER                    -> {"intent"}

RouteAfterSupervisor(route) ==
  CASE route = "full_auto"    -> {"intent"}
    [] route = "direct_reply" -> {"conversation"}
    [] OTHER                  -> {"handover"}

\* intent_handover_reasons: the reasons that come from the category and the
\* purchase intent do not count for a customer who has bought already.
IntentHandsOver(intent) ==
  \/ intent.should_transfer
  \/ intent.emotion = "impatient"
  \/ /\ intent.category = "high_intent" \/ intent.purchase = "high"
     /\ ~enrolled \/ "purchase" \in message

RouteAfterIntent(intent) ==
  IF IntentHandsOver(intent) THEN {"handover"}
  ELSE IF intent.category \in {"greeting", "off_topic"} THEN {"conversation"}
  ELSE IF intent.category = "inquiry" \/ "knowledge" \in message THEN Context
  ELSE {"conversation"}

RouteAfterKnowledge ==
  IF sop.transfer \/ knowledge \in {"error", "lacking"} THEN {"handover"} ELSE {"conversation"}

\* Mutant of RetryExceeded: one review more.
RetryExceededLate == safety_retry_count > MaxReviews

RetryExceeded == safety_retry_count >= MaxReviews

\* Mutant of RouteAfterSafety: a transfer is treated as an output.
RouteAfterSafetyIgnoresTransfer(action) ==
  IF RetryExceeded THEN {"handover"}
  ELSE IF action = "revise" THEN {"rewrite_reply"} ELSE {"final_reply"}

\* Mutant of RouteAfterSafety: the last draft is dropped without a handover.
RouteAfterSafetyGivesUp(action) ==
  IF RetryExceeded THEN {"finalize"}
  ELSE IF action = "transfer" THEN {"handover"}
  ELSE IF action = "revise" THEN {"rewrite_reply"} ELSE {"final_reply"}

\* Any action that is not known is an output: pass, block or nothing at all.
RouteAfterSafety(action) ==
  IF RetryExceeded \/ action = "transfer" THEN {"handover"}
  ELSE IF action = "revise" THEN {"rewrite_reply"} ELSE {"final_reply"}

\* Mutant of NormalizeStage: what the agent asked for is taken as it is.
NormalizeStageNever(requested) == requested

\* _normalize_sop_stage.
NormalizeStage(requested) ==
  IF requested \in Options THEN requested
  ELSE IF requested \in Terminal THEN stage
  ELSE IF Options = {} THEN requested
  ELSE IF stage \in Options THEN stage ELSE NoStage

-----------------------------------------------------------------------------
(* The nodes.                                                              *)

At(n) == n \in at

InitNode ==
  /\ At("init")
  /\ at' = {"supervisor_router"}
  /\ UNCHANGED <<session, transfer_flag, stage, evidence, review, reply, sent_reply,
                 called, plan, failed>>

SupervisorRouter ==
  /\ At("supervisor_router")
  /\ at' = RouteAfterSupervisor(Route)
  /\ plan' = AgentPlan(Route)
  /\ UNCHANGED <<session, transfer_flag, stage, evidence, review, reply, sent_reply,
                 called, failed>>

Intent ==
  /\ At("intent")
  /\ \E intent \in [should_transfer : BOOLEAN,
                    category : {"high_intent", "greeting", "off_topic", "inquiry", "other"},
                    purchase : {"high", "other"}, emotion : {"impatient", "other"}] :
       at' = RouteAfterIntent(intent)
  /\ called' = called \cup {"intent"}
  /\ UNCHANGED <<session, transfer_flag, stage, evidence, review, reply, sent_reply,
                 plan, failed>>

\* Mutant of Join: the first node that is done opens the fan-in.
JoinFirst(n) == {"context_gate"}

\* A node of the fan-out is done; the last one opens the fan-in.
Join(n) == IF at = {n} THEN {"context_gate"} ELSE at \ {n}

\* The SOP agent may ask for any stage; what it gets is the stage of the turn.
Sop ==
  /\ At("sop")
  /\ \E transfer \in BOOLEAN, requested \in Stages \cup {NoStage} :
       LET normalized == NormalizeStage(requested)
       IN IF normalized # NoStage
          THEN /\ sop' = [transfer |-> transfer, stage |-> normalized]
               /\ stage' = normalized
          ELSE /\ sop' = [transfer |-> transfer, stage |-> requested]
               /\ UNCHANGED stage
  /\ at' = Join("sop")
  /\ called' = called \cup {"sop"}
  /\ UNCHANGED <<session, transfer_flag, knowledge, review, reply, sent_reply, plan, failed>>

Knowledge ==
  /\ At("knowledge")
  /\ knowledge' \in {"error", "lacking", "usable"}
  /\ at' = Join("knowledge")
  /\ called' = called \cup {"knowledge"}
  /\ UNCHANGED <<session, transfer_flag, stage, sop, review, reply, sent_reply, plan, failed>>

SalesCaseRAG ==
  /\ At("sales_case_rag")
  /\ at' = Join("sales_case_rag")
  /\ UNCHANGED <<session, transfer_flag, stage, evidence, review, reply, sent_reply,
                 called, plan, failed>>

ContextGate ==
  /\ At("context_gate")
  /\ at' = RouteAfterKnowledge
  /\ UNCHANGED <<session, transfer_flag, stage, evidence, review, reply, sent_reply,
                 called, plan, failed>>

\* The draft may turn out empty.
Conversation ==
  /\ At("conversation")
  /\ draft' \in {"empty", "text"}
  /\ reviewed' = FALSE
  /\ safety_retry_count' = safety_retry_count + 1
  /\ stage' = IF sop.stage # NoStage THEN sop.stage ELSE stage
  /\ at' = {"safety"}
  /\ called' = called \cup {"conversation"}
  /\ UNCHANGED <<session, transfer_flag, evidence, verdict, reply, sent_reply, plan, failed>>

\* The vector review asks for a revision itself, or leaves it to SafetyAgent.
Safety ==
  /\ At("safety")
  /\ \/ /\ VectorReview /\ draft = "text"
        /\ verdict' = [action |-> "revise", approved |-> FALSE, revised |-> FALSE]
        /\ UNCHANGED called
     \/ /\ verdict' \in {v \in Verdict : v.action # "none"}
        /\ called' = called \cup {"safety"}
  /\ reviewed' = TRUE
  /\ at' = RouteAfterSafety(verdict'.action)
  /\ UNCHANGED <<session, transfer_flag, stage, evidence, draft, safety_retry_count, reply,
                 sent_reply, plan, failed>>

\* Mutant of Counted: a rewritten draft is not counted.
CountedOnce == safety_retry_count

Counted == safety_retry_count + 1

\* A revised text of the review is taken, else another draft is written.
RewriteReply ==
  /\ At("rewrite_reply")
  /\ IF verdict.revised
     THEN draft' = "text" /\ UNCHANGED called
     ELSE draft' \in {"empty", "text"} /\ called' = called \cup {"conversation"}
  /\ reviewed' = FALSE
  /\ safety_retry_count' = Counted
  /\ at' = {"safety"}
  /\ UNCHANGED <<session, transfer_flag, stage, evidence, verdict, reply, sent_reply,
                 plan, failed>>

Handover ==
  /\ At("handover")
  /\ transfer_flag' = TRUE
  /\ reply' = "none"
  /\ sent_reply' = FALSE
  /\ at' = {"finalize"}
  /\ UNCHANGED <<session, stage, evidence, review, called, plan, failed>>

FinalReply ==
  /\ At("final_reply")
  /\ reply' = IF verdict.action = "block" THEN "safe"
              ELSE IF verdict.approved THEN "approved"
              ELSE IF verdict.revised THEN "revised"
              ELSE IF draft = "text" THEN "draft" ELSE "none"
  /\ at' = {"send"}
  /\ UNCHANGED <<session, transfer_flag, stage, evidence, review, sent_reply, called,
                 plan, failed>>

Send ==
  /\ At("send")
  /\ sent_reply' = (reply # "none")
  /\ at' = IF IncludeMemory THEN {"finalize", "memory_update"} ELSE {"finalize"}
  /\ UNCHANGED <<session, transfer_flag, stage, evidence, review, reply, called, plan, failed>>

Finalize ==
  /\ At("finalize")
  /\ at' = at \ {"finalize"}
  /\ UNCHANGED <<session, transfer_flag, stage, evidence, review, reply, sent_reply,
                 called, plan, failed>>

MemoryUpdate ==
  /\ At("memory_update")
  /\ called' = IF reply = "none" THEN called ELSE called \cup {"memory_update"}
  /\ at' = at \ {"memory_update"}
  /\ UNCHANGED <<session, transfer_flag, stage, evidence, review, reply, sent_reply,
                 plan, failed>>

\* The nodes of this superstep that ask an agent: a text the review revised is
\* not written again, and without a reply there is nothing to remember.
Asking ==
  {n \in at \cap (Agents \cup {"rewrite_reply"}) :
     /\ n = "rewrite_reply" => ~verdict.revised
     /\ n = "memory_update" => reply # "none"}

\* No provider answers one of them: the run ends here.
ProviderError ==
  /\ Asking # {}
  /\ at' = {}
  /\ failed' = TRUE
  /\ UNCHANGED <<session, transfer_flag, stage, evidence, review, reply, sent_reply,
                 called, plan>>

Node ==
  \/ InitNode \/ SupervisorRouter \/ Intent \/ Sop \/ Knowledge \/ SalesCaseRAG
  \/ ContextGate \/ Conversation \/ Safety \/ RewriteReply \/ Handover \/ FinalReply
  \/ Send \/ Finalize \/ MemoryUpdate

Next == Node \/ ProviderError

Spec == Init /\ [][Next]_vars

\* Every agent answers or raises within the request timeout of the turn.
FairSpec == Spec /\ WF_vars(Next)

-----------------------------------------------------------------------------
(* Properties.                                                             *)

\* The types of one run's state.
TypeOK ==
  /\ message \subseteq Rules
  /\ enrolled \in BOOLEAN
  /\ transfer_flag \in BOOLEAN
  /\ stage \in Stages
  /\ at \subseteq Nodes
  /\ sop \in SOP
  /\ knowledge \in {"none", "error", "lacking", "usable"}
  /\ draft \in {"none", "empty", "text"}
  /\ verdict \in Verdict
  /\ reviewed \in BOOLEAN
  /\ safety_retry_count \in Nat
  /\ reply \in {"none", "draft", "approved", "revised", "safe"}
  /\ sent_reply \in BOOLEAN
  /\ called \subseteq Agents
  /\ plan \subseteq Agents
  /\ failed \in BOOLEAN

\* However often a draft is rewritten, what is sent went through the review
\* last, and that review neither rejected it nor asked for a human
\* (nodes.py:647-664, 488-518 and the edges of sales_graph.py:152-176).
SentWasReviewed ==
  sent_reply => /\ reviewed
                /\ verdict.action \notin {"none", "revise", "transfer"}
                /\ safety_retry_count < MaxReviews

\* No endless rewriting: at most MaxReviews drafts are submitted
\* (safety_retry_count, "避免风控改写死循环", state.py:125-128).
ReviewBound == safety_retry_count <= IF MaxReviews = 0 THEN 1 ELSE MaxReviews

\* A session a human owns and a message with a forbidden keyword cost no
\* agent call and get no automatic reply: their decision runs no agent
\* (supervisor_router.py:72-98).
NoAgentForHumans == plan = {} => called = {} /\ ~sent_reply

\* A stage of the knowledge base is only ever left for another one of it: an
\* agent's answer never puts a session into a stage nobody knows
\* (nodes.py:670-690, 325-332).
StageStaysKnown == [][(stage \in Options) => (stage' \in Options)]_vars

\* A run that completes either answers, leaves the session to a human, or had
\* no text to send.
NoSilentTurn ==
  at = {} /\ ~failed => sent_reply \/ transfer_flag \/ draft = "empty"

\* A reply that looked for facts rests on all it looked for: the fan-in waited
\* for every branch, and none of them failed or asked for a human
\* (nodes.py:621-644, sales_graph.py:136-152).
RepliesOnFacts ==
  sent_reply /\ called \cap {"sop", "knowledge"} # {} => knowledge = "usable" /\ ~sop.transfer

\* Every run ends, through all rewriting.
RunEnds == <>(at = {})

\* "审核通过后发送" (docs/ARCHITECTURE.md:9): what is sent was passed by the review,
\* or is the safe text for what it blocked.
SentWasPassed == sent_reply => verdict.action \in {"pass", "block"}

\* "revised_reply 不是直接发送内容，仍需经 rewrite_reply 写回 draft_reply 后再次审核"
\* (state.py:142).
RevisedIsReviewedAgain == sent_reply => reply # "revised"

\* Where the draft stands, as ReviewGate sees it.
Phase ==
  CASE sent_reply -> "published"
    [] ~sent_reply /\ (failed \/ transfer_flag \/ At("handover")) -> "human"
    [] OTHER -> CASE At("safety")                    -> "reviewing"
                  [] At("rewrite_reply")             -> "rejected"
                  [] At("final_reply") \/ At("send") -> "cleared"
                  [] OTHER -> IF safety_retry_count = 0 THEN "open" ELSE "silent"

Gate == INSTANCE ReviewGate WITH
  Limit <- MaxReviews, submitted <- safety_retry_count, phase <- Phase

\* Every path through the graph keeps to the gate: nothing is published
\* around the review, and never more drafts are submitted than allowed.
KeepsGate == Gate!Spec
=============================================================================
