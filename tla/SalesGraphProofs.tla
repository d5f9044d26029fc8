-------------------------- MODULE SalesGraphProofs --------------------------
(***************************************************************************)
(* What SalesGraph's runs show on a small instance, for all stages, any    *)
(* number of reviews and both switches.                                    *)
(*                                                                         *)
(* The inductive invariant Inv divides a run into phases, one disjunct     *)
(* each, and says of every phase what the later ones rely on: how many     *)
(* drafts were submitted, what the last review said of the current one,    *)
(* and who owns the session.                                               *)
(***************************************************************************)
EXTENDS SalesGraph, TLAPS

Bound == IF MaxReviews = 0 THEN 1 ELSE MaxReviews

\* Nodes that run alone before there is a draft.
Before == {{"supervisor_router"}, {"intent"}, {"context_gate"}, {"conversation"}}

\* The turn's draft passed its last review in time.
DraftCleared ==
  /\ reviewed
  /\ verdict.action \notin {"none", "revise", "transfer"}
  /\ safety_retry_count < MaxReviews

Unsent == ~sent_reply /\ reply = "none" /\ ~failed

\* No draft yet; a session a human owns is still on its way to the handover.
Drafting ==
  /\ at = {"init"} \/ at \in Before \/ (at # {} /\ at \subseteq Context)
  /\ transfer_flag => at \in {{"init"}, {"supervisor_router"}}
  /\ safety_retry_count = 0
  /\ Unsent

Reviewing ==
  /\ at = {"safety"}
  /\ safety_retry_count \in 1..Bound
  /\ Unsent /\ ~transfer_flag

Rejected ==
  /\ at = {"rewrite_reply"}
  /\ safety_retry_count \in 1..Bound /\ safety_retry_count < MaxReviews
  /\ Unsent /\ ~transfer_flag

Cleared ==
  /\ (at = {"final_reply"} /\ reply = "none") \/ at = {"send"}
  /\ safety_retry_count \in 1..Bound
  /\ DraftCleared
  /\ ~sent_reply /\ ~failed /\ ~transfer_flag

Leaving ==
  /\ at = {"handover"}
  /\ safety_retry_count \in 0..Bound
  /\ Unsent

\* Published, left to a human, broken off or silent.
Closing ==
  /\ at \subseteq {"finalize", "memory_update"}
  /\ safety_retry_count \in 0..Bound
  /\ sent_reply => (DraftCleared /\ ~transfer_flag)
  /\ ~sent_reply => (failed \/ (reply = "none" /\ (transfer_flag \/ safety_retry_count > 0)))
  /\ failed => at = {}

Inv == Drafting \/ Reviewing \/ Rejected \/ Cleared \/ Leaving \/ Closing

-----------------------------------------------------------------------------
(* Types.                                                                  *)

\* The rules answer with nodes and agents.
LEMMA RoutesAreNodes ==
  /\ \A route : RouteAfterSupervisor(route) \subseteq Nodes
  /\ \A route : AgentPlan(route) \subseteq Agents
  /\ \A intent : RouteAfterIntent(intent) \subseteq Nodes
  /\ RouteAfterKnowledge \subseteq Nodes
  /\ \A action : RouteAfterSafety(action) \subseteq Nodes
<1>1. \A route : RouteAfterSupervisor(route) \subseteq Nodes
  BY DEF RouteAfterSupervisor, Nodes, Agents
<1>2. \A route : AgentPlan(route) \subseteq Agents
  BY DEF AgentPlan, Agents
<1>3. \A intent : RouteAfterIntent(intent) \subseteq Nodes
  BY DEF RouteAfterIntent, Nodes, Agents, Context
<1>4. RouteAfterKnowledge \subseteq Nodes
  BY DEF RouteAfterKnowledge, Nodes, Agents
<1>5. \A action : RouteAfterSafety(action) \subseteq Nodes
  BY DEF RouteAfterSafety, Nodes, Agents
<1> QED BY <1>1, <1>2, <1>3, <1>4, <1>5

\* Whatever the agent asks for, the result is a stage or none.
LEMMA NormalizedIsStage ==
  ASSUME stage \in Stages, NEW requested \in Stages \cup {NoStage}
  PROVE  NormalizeStage(requested) \in Stages \cup {NoStage}
BY DEF NormalizeStage

LEMMA JoinsNodes ==
  ASSUME at \subseteq Nodes, NEW n
  PROVE  Join(n) \subseteq Nodes
BY DEF Join, Nodes

LEMMA TypeStep == TypeOK /\ [Next]_vars => TypeOK'
<1> SUFFICES ASSUME TypeOK, [Next]_vars PROVE TypeOK'
  OBVIOUS
<1> USE StagesAssumption DEF session, evidence, review
<1>1. CASE InitNode
  BY <1>1 DEF InitNode, TypeOK, Nodes, Agents
<1>2. CASE SupervisorRouter
  BY <1>2, RoutesAreNodes DEF SupervisorRouter, TypeOK
<1>3. CASE Intent
  <2>1. at' \subseteq Nodes
    BY <1>3, RoutesAreNodes DEF Intent
  <2>2. called' \subseteq Agents
    BY <1>3 DEF Intent, TypeOK, Agents
  <2> QED BY <1>3, <2>1, <2>2 DEF Intent, TypeOK
<1>4. CASE Sop
  <2>1. at' \subseteq Nodes /\ called' \subseteq Agents
    BY <1>4, JoinsNodes DEF Sop, TypeOK, Agents
  <2>2. sop' \in SOP /\ stage' \in Stages
    BY <1>4, NormalizedIsStage DEF Sop, SOP, TypeOK
  <2> QED BY <1>4, <2>1, <2>2 DEF Sop, TypeOK
<1>5. CASE Knowledge
  <2>1. at' \subseteq Nodes /\ called' \subseteq Agents
    BY <1>5, JoinsNodes DEF Knowledge, TypeOK, Agents
  <2> QED BY <1>5, <2>1 DEF Knowledge, TypeOK
<1>6. CASE SalesCaseRAG
  BY <1>6, JoinsNodes DEF SalesCaseRAG, TypeOK
<1>7. CASE ContextGate
  BY <1>7, RoutesAreNodes DEF ContextGate, TypeOK
<1>8. CASE Conversation
  <2>1. at' \subseteq Nodes /\ called' \subseteq Agents
    BY <1>8 DEF Conversation, TypeOK, Agents, Nodes
  <2>2. stage' \in Stages
    BY <1>8 DEF Conversation, TypeOK, SOP
  <2>3. draft' \in {"none", "empty", "text"} /\ reviewed' \in BOOLEAN
    BY <1>8 DEF Conversation
  <2>4. safety_retry_count' \in Nat
    BY <1>8 DEF Conversation, TypeOK
  <2>5. UNCHANGED <<session, transfer_flag, evidence, verdict, reply, sent_reply, plan, failed>>
    BY <1>8 DEF Conversation
  <2> QED BY <2>1, <2>2, <2>3, <2>4, <2>5 DEF TypeOK
<1>9. CASE Safety
  <2>1. at' \subseteq Nodes
    BY <1>9, RoutesAreNodes DEF Safety
  <2>2. verdict' \in Verdict
    <3>1. CASE verdict' \in {v \in Verdict : v.action # "none"}
      BY <3>1
    <3>2. CASE verdict' = [action |-> "revise", approved |-> FALSE, revised |-> FALSE]
      BY <3>2 DEF Verdict
    <3> QED BY <1>9, <3>1, <3>2 DEF Safety
  <2>3. called' \subseteq Agents
    BY <1>9 DEF Safety, TypeOK, Agents
  <2> QED BY <1>9, <2>1, <2>2, <2>3 DEF Safety, TypeOK
<1>10. CASE RewriteReply
  <2>1. at' \subseteq Nodes /\ called' \subseteq Agents
    BY <1>10 DEF RewriteReply, TypeOK, Agents, Nodes
  <2>2. draft' \in {"none", "empty", "text"}
    BY <1>10 DEF RewriteReply
  <2>3. safety_retry_count' = safety_retry_count + 1 /\ reviewed' = FALSE
    BY <1>10 DEF RewriteReply, Counted
  <2>4. safety_retry_count' \in Nat
    <3>1. safety_retry_count \in Nat
      BY DEF TypeOK
    <3> QED BY <2>3, <3>1
  <2>5. UNCHANGED <<session, transfer_flag, stage, evidence, verdict, reply, sent_reply,
                    plan, failed>>
    BY <1>10 DEF RewriteReply
  <2> QED BY <2>1, <2>2, <2>3, <2>4, <2>5 DEF TypeOK
<1>11. CASE Handover
  BY <1>11 DEF Handover, TypeOK, Nodes
<1>12. CASE FinalReply
  BY <1>12 DEF FinalReply, TypeOK, Nodes
<1>13. CASE Send
  BY <1>13 DEF Send, TypeOK, Nodes, Agents
<1>14. CASE Finalize
  BY <1>14 DEF Finalize, TypeOK
<1>15. CASE MemoryUpdate
  BY <1>15 DEF MemoryUpdate, TypeOK, Agents
<1>16. CASE ProviderError
  BY <1>16 DEF ProviderError, TypeOK
<1>17. CASE UNCHANGED vars
  BY <1>17 DEF vars, TypeOK
<1> QED
  BY <1>1, <1>2, <1>3, <1>4, <1>5, <1>6, <1>7, <1>8, <1>9, <1>10, <1>11, <1>12, <1>13,
     <1>14, <1>15, <1>16, <1>17 DEF Next, Node

LEMMA InitType == Init => TypeOK
<1> SUFFICES ASSUME Init PROVE TypeOK
  OBVIOUS
<1>1. sop \in SOP
  BY DEF Init, SOP
<1>2. verdict \in Verdict
  BY DEF Init, Verdict
<1>3. at \subseteq Nodes
  BY DEF Init, Nodes
<1> QED BY <1>1, <1>2, <1>3 DEF Init, TypeOK

\* The run's state keeps its type (state.py, the channels of SalesGraphState).
THEOREM TypeCorrect == Spec => []TypeOK
<1>1. Init => TypeOK
  BY InitType
<1>2. TypeOK /\ [Next]_vars => TypeOK'
  BY TypeStep
<1> QED BY <1>1, <1>2, PTL DEF Spec

-----------------------------------------------------------------------------
(* The phases of a run.  A phase is left only for one of those its lemma   *)
(* names: a node that is not in the superstep at hand does nothing.        *)

LEMMA BoundIsPositive == Bound \in Nat /\ Bound >= 1 /\ MaxReviews <= Bound
BY ReviewsAssumption DEF Bound

LEMMA InitInv == Init => Drafting
BY DEF Init, Drafting, Unsent

\* The step was an exception of a turn that had sent nothing.
BrokenOff == Closing' /\ failed' /\ ~sent_reply' /\ UNCHANGED safety_retry_count

LEMMA DraftingStep ==
  ASSUME TypeOK, Drafting, Next
  PROVE  \/ Drafting' /\ UNCHANGED <<transfer_flag, safety_retry_count>>
         \/ Reviewing' /\ ~transfer_flag /\ safety_retry_count' = safety_retry_count + 1
         \/ Leaving' /\ UNCHANGED safety_retry_count
         \/ BrokenOff
<1> USE BoundIsPositive DEF session, evidence, review, At, Unsent
<1>1. CASE InitNode
  BY <1>1 DEF InitNode, Drafting, Before
<1>2. CASE SupervisorRouter
  <2>1. at = {"supervisor_router"} /\ safety_retry_count = 0
    BY <1>2 DEF SupervisorRouter, Drafting, Before, Context
  <2>2. transfer_flag => at' = {"handover"}
    BY <1>2 DEF SupervisorRouter, Route, RouteAfterSupervisor
  <2>3. at' \in {{"intent"}, {"conversation"}, {"handover"}}
    BY <1>2 DEF SupervisorRouter, RouteAfterSupervisor
  <2> QED BY <1>2, <2>1, <2>2, <2>3 DEF SupervisorRouter, Drafting, Before, Leaving
<1>3. CASE Intent
  <2>1. at = {"intent"} /\ safety_retry_count = 0 /\ ~transfer_flag
    BY <1>3 DEF Intent, Drafting, Before, Context
  <2>2. at' \in {{"conversation"}, {"handover"}, Context}
    BY <1>3 DEF Intent, RouteAfterIntent
  <2>3. Context # {}
    BY DEF Context
  <2> QED BY <1>3, <2>1, <2>2, <2>3 DEF Intent, Drafting, Before, Leaving
<1>4. ASSUME NEW n \in Context, n \in at, at' = Join(n),
             UNCHANGED <<transfer_flag, safety_retry_count, reply, sent_reply, failed>>
      PROVE  Drafting' /\ UNCHANGED <<transfer_flag, safety_retry_count>>
  <2>1. at \subseteq Context /\ ~transfer_flag
    BY <1>4 DEF Drafting, Before, Context
  <2>2. CASE at = {n}
    BY <1>4, <2>1, <2>2 DEF Join, Drafting, Before
  <2>3. CASE at # {n}
    <3>1. at' = at \ {n} /\ at' # {} /\ at' \subseteq Context
      BY <1>4, <2>1, <2>3 DEF Join
    <3> QED BY <1>4, <2>1, <3>1 DEF Drafting
  <2> QED BY <2>2, <2>3
<1>5. CASE Sop
  BY <1>4, <1>5 DEF Sop, Context
<1>6. CASE Knowledge
  BY <1>4, <1>6 DEF Knowledge, Context
<1>7. CASE SalesCaseRAG
  BY <1>4, <1>7 DEF SalesCaseRAG, Context
<1>8. CASE ContextGate
  <2>1. at = {"context_gate"} /\ safety_retry_count = 0 /\ ~transfer_flag
    BY <1>8 DEF ContextGate, Drafting, Before, Context
  <2>2. at' \in {{"conversation"}, {"handover"}}
    BY <1>8 DEF ContextGate, RouteAfterKnowledge
  <2> QED BY <1>8, <2>1, <2>2 DEF ContextGate, Drafting, Before, Leaving
<1>9. CASE Conversation
  <2>1. at = {"conversation"} /\ safety_retry_count = 0 /\ ~transfer_flag
    BY <1>9 DEF Conversation, Drafting, Before, Context
  <2>2. at' = {"safety"} /\ safety_retry_count' = 1
    BY <1>9, <2>1 DEF Conversation
  <2> QED BY <1>9, <2>1, <2>2 DEF Conversation, Reviewing, Drafting
<1>10. CASE ProviderError
  <2>1. at' = {} /\ failed' /\ safety_retry_count' = 0 /\ ~sent_reply'
    BY <1>10 DEF ProviderError, Drafting
  <2>2. UNCHANGED safety_retry_count
    BY <1>10 DEF ProviderError
  <2> QED BY <2>1, <2>2 DEF Closing, BrokenOff
<1>11. ~(Safety \/ RewriteReply \/ Handover \/ FinalReply \/ Send \/ Finalize \/ MemoryUpdate)
  BY DEF Drafting, Before, Context, Safety, RewriteReply, Handover, FinalReply, Send,
         Finalize, MemoryUpdate
<1> QED
  BY <1>1, <1>2, <1>3, <1>5, <1>6, <1>7, <1>8, <1>9, <1>10, <1>11 DEF Next, Node

LEMMA ReviewingStep ==
  ASSUME TypeOK, Reviewing, Next
  PROVE  \/ (Rejected \/ Cleared \/ Leaving)' /\ UNCHANGED safety_retry_count
         \/ BrokenOff
<1> USE BoundIsPositive, ReviewsAssumption DEF session, evidence, review, At, Unsent
<1>1. CASE Safety
  <2>1. /\ reviewed' = TRUE
        /\ at' = RouteAfterSafety(verdict'.action)
        /\ verdict'.action # "none"
        /\ UNCHANGED <<transfer_flag, safety_retry_count, reply, sent_reply, failed>>
    BY <1>1 DEF Safety
  <2>2. CASE RetryExceeded \/ verdict'.action = "transfer"
    <3>1. at' = {"handover"}
      BY <2>1, <2>2 DEF RouteAfterSafety
    <3> QED BY <2>1, <3>1 DEF Reviewing, Leaving
  <2>3. CASE ~RetryExceeded /\ verdict'.action = "revise"
    <3>1. at' = {"rewrite_reply"} /\ safety_retry_count < MaxReviews
      BY <2>1, <2>3 DEF RouteAfterSafety, RetryExceeded, TypeOK
    <3> QED BY <2>1, <3>1 DEF Reviewing, Rejected
  <2>4. CASE ~RetryExceeded /\ verdict'.action \notin {"revise", "transfer"}
    <3>1. at' = {"final_reply"} /\ safety_retry_count < MaxReviews
      BY <2>1, <2>4 DEF RouteAfterSafety, RetryExceeded, TypeOK
    <3> QED BY <2>1, <2>4, <3>1 DEF Reviewing, Cleared, DraftCleared
  <2> QED BY <2>2, <2>3, <2>4
<1>2. CASE ProviderError
  BY <1>2 DEF ProviderError, Reviewing, Closing, BrokenOff
<1>3. Safety \/ ProviderError
  BY DEF Next, Node, Reviewing, Join, InitNode, SupervisorRouter, Intent, Sop, Knowledge,
         SalesCaseRAG, ContextGate, Conversation, RewriteReply, Handover, FinalReply, Send,
         Finalize, MemoryUpdate
<1> QED BY <1>1, <1>2, <1>3

LEMMA RejectedStep ==
  ASSUME TypeOK, Rejected, Next
  PROVE  \/ Reviewing' /\ safety_retry_count' = safety_retry_count + 1
         \/ BrokenOff
<1> USE BoundIsPositive, ReviewsAssumption DEF session, evidence, review, At, Unsent
<1>1. CASE RewriteReply
  <2>1. /\ at' = {"safety"}
        /\ safety_retry_count' = safety_retry_count + 1
        /\ UNCHANGED <<transfer_flag, reply, sent_reply, failed>>
    BY <1>1 DEF RewriteReply, Counted
  <2> QED BY <2>1 DEF Rejected, Reviewing
<1>2. CASE ProviderError
  BY <1>2 DEF ProviderError, Rejected, Closing, BrokenOff
<1>3. RewriteReply \/ ProviderError
  BY DEF Next, Node, Rejected, InitNode, SupervisorRouter, Intent, Sop, Knowledge,
         SalesCaseRAG, ContextGate, Conversation, Safety, Handover, FinalReply, Send,
         Finalize, MemoryUpdate
<1> QED BY <1>1, <1>2, <1>3

LEMMA ClearedStep ==
  ASSUME TypeOK, Cleared, Next
  PROVE  /\ Cleared' \/ Closing'
         /\ ~failed' /\ ~transfer_flag'
         /\ UNCHANGED safety_retry_count
<1> USE BoundIsPositive, ReviewsAssumption DEF session, evidence, review, At
<1>1. CASE FinalReply
  <2>1. /\ at' = {"send"}
        /\ UNCHANGED <<transfer_flag, reviewed, verdict, safety_retry_count, sent_reply, failed>>
    BY <1>1 DEF FinalReply
  <2> QED BY <2>1 DEF Cleared, DraftCleared
<1>2. CASE Send
  <2>1. /\ at' \subseteq {"finalize", "memory_update"}
        /\ sent_reply' = (reply # "none")
        /\ UNCHANGED <<transfer_flag, reviewed, verdict, safety_retry_count, reply, failed>>
    BY <1>2 DEF Send
  <2>2. safety_retry_count' > 0 /\ safety_retry_count' \in 0..Bound
    BY <2>1 DEF Cleared
  <2> QED BY <2>1, <2>2 DEF Cleared, DraftCleared, Closing
<1>3. FinalReply \/ Send
  BY DEF Next, Node, Cleared, InitNode, SupervisorRouter, Intent, Sop, Knowledge,
         SalesCaseRAG, ContextGate, Conversation, Safety, RewriteReply, Handover,
         Finalize, MemoryUpdate, ProviderError, Asking, Agents
<1> QED BY <1>1, <1>2, <1>3

LEMMA LeavingStep ==
  ASSUME TypeOK, Leaving, Next
  PROVE  Closing' /\ transfer_flag' /\ ~sent_reply' /\ UNCHANGED safety_retry_count
<1> USE BoundIsPositive DEF session, evidence, review, At, Unsent
<1>1. CASE Handover
  BY <1>1 DEF Handover, Leaving, Closing
<1>2. Handover
  BY DEF Next, Node, Leaving, InitNode, SupervisorRouter, Intent, Sop, Knowledge,
         SalesCaseRAG, ContextGate, Conversation, Safety, RewriteReply, FinalReply, Send,
         Finalize, MemoryUpdate, ProviderError, Asking, Agents
<1> QED BY <1>1, <1>2

LEMMA ClosingStep ==
  ASSUME TypeOK, Closing, Next
  PROVE  /\ Closing'
         /\ UNCHANGED <<transfer_flag, safety_retry_count, sent_reply>>
         /\ failed' # failed => sent_reply
<1> USE DEF session, evidence, review, At
<1>1. CASE Finalize \/ MemoryUpdate
  <2>1. /\ at' \subseteq at
        /\ UNCHANGED <<transfer_flag, reviewed, verdict, safety_retry_count, reply,
                       sent_reply, failed>>
    BY <1>1 DEF Finalize, MemoryUpdate
  <2> QED BY <2>1 DEF Closing, DraftCleared
<1>2. CASE ProviderError
  <2>1. "memory_update" \in Asking
    BY <1>2 DEF ProviderError, Asking, Closing, Agents
  <2>2. reply # "none" /\ at # {}
    BY <2>1 DEF Asking
  <2>3. sent_reply
    BY <2>2 DEF Closing, TypeOK
  <2>4. /\ at' = {}
        /\ UNCHANGED <<transfer_flag, reviewed, verdict, safety_retry_count, sent_reply>>
    BY <1>2 DEF ProviderError
  <2> QED BY <2>3, <2>4 DEF Closing, DraftCleared
<1>3. Finalize \/ MemoryUpdate \/ ProviderError
  BY DEF Next, Node, Closing, InitNode, SupervisorRouter, Intent, Sop, Knowledge,
         SalesCaseRAG, ContextGate, Conversation, Safety, RewriteReply, Handover,
         FinalReply, Send
<1> QED BY <1>1, <1>2, <1>3

LEMMA InvStep == TypeOK /\ Inv /\ [Next]_vars => Inv'
<1> SUFFICES ASSUME TypeOK, Inv, [Next]_vars PROVE Inv'
  OBVIOUS
<1>1. CASE Next
  BY <1>1, DraftingStep, ReviewingStep, RejectedStep, ClearedStep, LeavingStep, ClosingStep
     DEF Inv, BrokenOff
<1>2. CASE UNCHANGED vars
  BY <1>2 DEF vars, Inv, Drafting, Reviewing, Rejected, Cleared, Leaving, Closing,
              DraftCleared, Unsent
<1> QED BY <1>1, <1>2

\* Of every run: its types and its phase.
LEMMA Invariant == Spec => [](TypeOK /\ Inv)
<1>1. Init => TypeOK /\ Inv
  BY InitType, InitInv DEF Inv
<1>2. TypeOK /\ Inv /\ [Next]_vars => (TypeOK /\ Inv)'
  BY TypeStep, InvStep
<1> QED BY <1>1, <1>2, PTL DEF Spec

\* Whatever the agents answer and however often they are asked, only text that
\* its last review let through is sent (nodes.py:647-664, 488-518).
THEOREM SentReplyWasReviewed == Spec => []SentWasReviewed
<1>1. TypeOK /\ Inv => SentWasReviewed
  BY DEF Inv, Drafting, Reviewing, Rejected, Cleared, Leaving, Closing, DraftCleared, Unsent,
         SentWasReviewed
<1> QED BY <1>1, Invariant, PTL

\* Rewriting is bounded for every safety_max_review_count
\* (routing_rules.py:408-412, nodes.py:416-450).
THEOREM ReviewsAreBounded == Spec => []ReviewBound
<1>1. TypeOK /\ Inv => ReviewBound
  BY ReviewsAssumption DEF Inv, Drafting, Reviewing, Rejected, Cleared, Leaving, Closing,
         Bound, ReviewBound
<1> QED BY <1>1, Invariant, PTL

-----------------------------------------------------------------------------
(* Whom a run asks, what it answers and what the answer rests on.          *)

\* Only the fan-out and the end of a run have more than one node.
Alone == Nodes \ (Context \cup {"finalize", "memory_update"})

LEMMA NodesAlone ==
  ASSUME Inv
  PROVE  /\ \A n \in Alone : At(n) => at = {n}
         /\ at \cap Context # {} => at \subseteq Context
         /\ at \cap {"finalize", "memory_update"} # {} => at \subseteq {"finalize", "memory_update"}
<1> USE DEF At, Alone
<1>1. CASE Drafting
  BY <1>1 DEF Drafting, Before, Context
<1>2. CASE Reviewing \/ Rejected \/ Cleared \/ Leaving
  BY <1>2 DEF Reviewing, Rejected, Cleared, Leaving, Context
<1>3. CASE Closing
  BY <1>3 DEF Closing, Context
<1> QED BY <1>1, <1>2, <1>3 DEF Inv

LEMMA JoinsContext ==
  ASSUME NEW n \in Context, at \subseteq Context, n \in at
  PROVE  Join(n) = {"context_gate"} \/ (Join(n) = at \ {n} /\ at \ {n} # {})
BY DEF Join

\* Before its decision a run has asked nobody, and a decision without agents
\* leads to nodes that ask nobody.
Undecided == {"init", "supervisor_router"}
Attended ==
  /\ at \cap Undecided # {} \/ plan = {} => called = {} /\ ~sent_reply
  /\ plan = {} => at \subseteq Undecided \cup {"handover", "finalize"}

LEMMA AttendedStep == Inv /\ Attended /\ [Next]_vars => Attended'
<1> SUFFICES ASSUME Inv, Attended, [Next]_vars PROVE Attended'
  OBVIOUS
<1> USE DEF At, Undecided
<1>1. CASE InitNode
  <2>1. at' = {"supervisor_router"} /\ UNCHANGED <<called, sent_reply, plan>>
    BY <1>1 DEF InitNode
  <2> QED BY <1>1, <2>1 DEF InitNode, Attended
<1>2. CASE SupervisorRouter
  <2>1. called = {} /\ ~sent_reply /\ UNCHANGED <<called, sent_reply>>
    BY <1>2 DEF SupervisorRouter, Attended
  <2>2. at' = RouteAfterSupervisor(Route) /\ plan' = AgentPlan(Route)
    BY <1>2 DEF SupervisorRouter
  <2>3. plan' = {} => at' = {"handover"}
    BY <2>2 DEF RouteAfterSupervisor, AgentPlan, Agents
  <2> QED BY <2>1, <2>3 DEF Attended
<1>3. CASE Intent \/ ContextGate \/ Conversation \/ Safety \/ RewriteReply \/ FinalReply \/ Send
  <2>1. plan' = plan /\ plan # {}
    BY <1>3 DEF Intent, ContextGate, Conversation, Safety, RewriteReply, FinalReply, Send,
                Attended
  <2>2. at' \cap Undecided = {}
    BY <1>3 DEF Intent, ContextGate, Conversation, Safety, RewriteReply, FinalReply, Send,
                RouteAfterIntent, RouteAfterKnowledge, RouteAfterSafety, Context
  <2> QED BY <2>1, <2>2 DEF Attended
<1>4. CASE Sop \/ Knowledge \/ SalesCaseRAG
  <2>1. PICK n \in Context : n \in at /\ at' = Join(n) /\ plan' = plan
    BY <1>4 DEF Sop, Knowledge, SalesCaseRAG, Context
  <2>2. at \subseteq Context
    BY <2>1, NodesAlone
  <2>3. at' \cap Undecided = {}
    BY <2>1, <2>2, JoinsContext DEF Context
  <2>4. plan # {}
    BY <2>1, <2>2 DEF Attended, Context
  <2> QED BY <2>1, <2>3, <2>4 DEF Attended
<1>5. CASE Handover
  <2>1. at' = {"finalize"} /\ ~sent_reply' /\ UNCHANGED <<called, plan>>
    BY <1>5 DEF Handover
  <2> QED BY <2>1 DEF Attended
<1>6. CASE Finalize
  <2>1. at' \subseteq at /\ UNCHANGED <<called, plan, sent_reply>>
    BY <1>6 DEF Finalize
  <2> QED BY <2>1 DEF Attended
<1>7. CASE MemoryUpdate
  <2>1. at' \subseteq at /\ UNCHANGED <<plan, sent_reply>> /\ plan # {}
    BY <1>7 DEF MemoryUpdate, Attended
  <2>2. at' \cap Undecided = {}
    <3>1. at \subseteq {"finalize", "memory_update"}
      BY <1>7, NodesAlone DEF MemoryUpdate
    <3> QED BY <2>1, <3>1
  <2> QED BY <2>1, <2>2 DEF Attended
<1>8. CASE ProviderError
  <2>1. at' = {} /\ UNCHANGED <<called, plan, sent_reply>>
    BY <1>8 DEF ProviderError
  <2> QED BY <2>1 DEF Attended
<1>9. CASE UNCHANGED vars
  BY <1>9 DEF vars, Attended
<1> QED BY <1>1, <1>2, <1>3, <1>4, <1>5, <1>6, <1>7, <1>8, <1>9 DEF Next, Node

\* A session of a human and a forbidden message cost no agent call and get no
\* automatic reply (supervisor_router.py:72-98).
THEOREM HumansCostNothing == Spec => []NoAgentForHumans
<1>1. Init => Attended
  BY DEF Init, Attended, Undecided
<1>2. Inv /\ Attended /\ [Next]_vars => Attended'
  BY AttendedStep
<1>3. Attended => NoAgentForHumans
  BY DEF Attended, NoAgentForHumans
<1> QED BY <1>1, <1>2, <1>3, Invariant, PTL DEF Spec

\* From the first draft on there is a text, or a draft that turned out empty.
AfterDraft == {"safety", "rewrite_reply", "final_reply", "send"}
Answering ==
  /\ at \cap AfterDraft # {} => draft \in {"empty", "text"}
  /\ "send" \in at => reply # "none" \/ draft = "empty"
  /\ at \subseteq {"finalize", "memory_update"}
       => sent_reply \/ transfer_flag \/ failed \/ draft = "empty"

LEMMA AnsweringStep == TypeOK /\ Inv /\ Answering /\ [Next]_vars => Answering'
<1> SUFFICES ASSUME TypeOK, Inv, Answering, [Next]_vars PROVE Answering'
  OBVIOUS
<1> USE DEF At, AfterDraft
<1>1. CASE InitNode \/ SupervisorRouter \/ Intent \/ ContextGate
  <2>1. at' \in {{"supervisor_router"}, {"intent"}, {"conversation"}, {"handover"}, Context}
    BY <1>1 DEF InitNode, SupervisorRouter, Intent, ContextGate, RouteAfterSupervisor,
                RouteAfterIntent, RouteAfterKnowledge
  <2> QED BY <2>1 DEF Answering, Context
<1>2. CASE Sop \/ Knowledge \/ SalesCaseRAG
  <2>1. PICK n \in Context : n \in at /\ at' = Join(n)
    BY <1>2 DEF Sop, Knowledge, SalesCaseRAG, Context
  <2>2. at' # {} /\ (at' = {"context_gate"} \/ at' \subseteq Context)
    BY <2>1, NodesAlone, JoinsContext
  <2> QED BY <2>2 DEF Answering, Context
<1>3. CASE Conversation \/ RewriteReply
  <2>1. at' = {"safety"} /\ draft' \in {"empty", "text"}
    BY <1>3 DEF Conversation, RewriteReply
  <2> QED BY <2>1 DEF Answering
<1>4. CASE Safety
  <2>1. draft \in {"empty", "text"} /\ draft' = draft
    BY <1>4 DEF Safety, Answering, review
  <2>2. at' \in {{"handover"}, {"rewrite_reply"}, {"final_reply"}}
    BY <1>4 DEF Safety, RouteAfterSafety
  <2> QED BY <2>1, <2>2 DEF Answering
<1>5. CASE FinalReply
  <2>1. draft \in {"empty", "text"} /\ draft' = draft /\ at' = {"send"}
    BY <1>5 DEF FinalReply, Answering, review
  <2>2. reply' # "none" \/ draft = "empty"
    BY <1>5, <2>1 DEF FinalReply
  <2> QED BY <2>1, <2>2 DEF Answering
<1>6. CASE Send
  <2>1. at' \subseteq {"finalize", "memory_update"} /\ draft' = draft
    BY <1>6 DEF Send, review
  <2>2. sent_reply' \/ draft = "empty"
    BY <1>6 DEF Send, Answering
  <2> QED BY <2>1, <2>2 DEF Answering
<1>7. CASE Handover
  BY <1>7 DEF Handover, Answering
<1>8. CASE Finalize \/ MemoryUpdate
  <2>1. at \subseteq {"finalize", "memory_update"} /\ at' \subseteq at
    BY <1>8, NodesAlone DEF Finalize, MemoryUpdate
  <2>2. UNCHANGED <<sent_reply, transfer_flag, failed, draft>>
    BY <1>8 DEF Finalize, MemoryUpdate, review
  <2> QED BY <2>1, <2>2 DEF Answering
<1>9. CASE ProviderError
  BY <1>9 DEF ProviderError, Answering
<1>10. CASE UNCHANGED vars
  BY <1>10 DEF vars, Answering
<1> QED BY <1>1, <1>2, <1>3, <1>4, <1>5, <1>6, <1>7, <1>8, <1>9, <1>10 DEF Next, Node

\* No run that completes leaves the customer without an answer, unless a human
\* has the session or the draft was empty.
THEOREM RunsAnswer == Spec => []NoSilentTurn
<1>1. Init => Answering
  BY DEF Init, Answering, AfterDraft
<1>2. TypeOK /\ Inv /\ Answering /\ [Next]_vars => Answering'
  BY AnsweringStep
<1>3. Answering => NoSilentTurn
  BY DEF Answering, NoSilentTurn
<1> QED BY <1>1, <1>2, <1>3, Invariant, PTL DEF Spec

\* Whoever passed the gate of the fan-in has usable facts, and no agent that
\* asked for a human.
Asked == called \cap {"sop", "knowledge"} # {}
Drafted == {"conversation"} \cup AfterDraft
Facts ==
  /\ at \cap {"init", "supervisor_router", "intent"} # {} => ~Asked
  /\ at # {} /\ at \subseteq Context /\ "knowledge" \notin at => knowledge # "none"
  /\ "context_gate" \in at => knowledge # "none"
  /\ (at \cap Drafted # {} \/ sent_reply) /\ Asked => knowledge = "usable" /\ ~sop.transfer

LEMMA FactsStep == TypeOK /\ Inv /\ Facts /\ [Next]_vars => Facts'
<1> SUFFICES ASSUME TypeOK, Inv, Facts, [Next]_vars PROVE Facts'
  OBVIOUS
<1> USE DEF At, AfterDraft, Drafted
<1>1. CASE InitNode \/ SupervisorRouter
  <2>1. ~Asked /\ UNCHANGED <<called, sent_reply, knowledge, sop>>
    BY <1>1 DEF InitNode, SupervisorRouter, Facts, evidence
  <2>2. at' \in {{"supervisor_router"}, {"intent"}, {"conversation"}, {"handover"}}
    BY <1>1 DEF InitNode, SupervisorRouter, RouteAfterSupervisor
  <2> QED BY <2>1, <2>2 DEF Facts, Asked, Context
<1>2. CASE Intent
  <2>1. ~Asked' /\ UNCHANGED <<sent_reply, knowledge, sop>>
    BY <1>2 DEF Intent, Facts, Asked, evidence
  <2>2. at' \in {{"conversation"}, {"handover"}, Context}
    BY <1>2 DEF Intent, RouteAfterIntent
  <2> QED BY <2>1, <2>2 DEF Facts, Asked, Context
<1>3. CASE Sop \/ Knowledge \/ SalesCaseRAG
  <2>1. PICK n \in Context : /\ n \in at /\ at' = Join(n)
                             /\ n = "knowledge" => knowledge' # "none"
                             /\ n # "knowledge" => knowledge' = knowledge
    BY <1>3 DEF Sop, Knowledge, SalesCaseRAG, Context, evidence
  <2>2. at \subseteq Context
    BY <2>1, NodesAlone
  <2>3. ~sent_reply'
    <3>1. Drafting
      BY <2>1, <2>2 DEF Inv, Reviewing, Rejected, Cleared, Leaving, Closing, Context
    <3> QED BY <1>3, <3>1 DEF Sop, Knowledge, SalesCaseRAG, Drafting, Unsent
  <2>4. CASE Join(n) = {"context_gate"}
    <3>1. at = {n}
      BY <2>1, <2>2, <2>4 DEF Join, Context
    <3>2. knowledge' # "none"
      BY <2>1, <2>2, <3>1 DEF Facts
    <3> QED BY <2>1, <2>3, <2>4, <3>2 DEF Facts, Context
  <2>5. CASE Join(n) = at \ {n} /\ at \ {n} # {}
    <3>1. "knowledge" \notin at' => knowledge' # "none"
      BY <2>1, <2>2, <2>5 DEF Facts
    <3> QED BY <2>1, <2>2, <2>3, <2>5, <3>1 DEF Facts, Context
  <2> QED BY <2>1, <2>2, <2>4, <2>5, JoinsContext
<1>4. CASE ContextGate
  <2>1. knowledge # "none" /\ UNCHANGED <<called, sent_reply, knowledge, sop>>
    BY <1>4 DEF ContextGate, Facts, evidence
  <2>2. at' = RouteAfterKnowledge
    BY <1>4 DEF ContextGate
  <2>3. CASE at' = {"handover"}
    BY <2>1, <2>3 DEF Facts, Asked, Context
  <2>4. CASE at' = {"conversation"} /\ ~sop.transfer /\ knowledge \notin {"error", "lacking"}
    <3>1. knowledge = "usable"
      BY <2>1, <2>4 DEF TypeOK
    <3> QED BY <2>1, <2>4, <3>1 DEF Facts, Asked, Context
  <2> QED BY <2>2, <2>3, <2>4 DEF RouteAfterKnowledge
<1>5. CASE Conversation \/ Safety \/ RewriteReply \/ FinalReply \/ Send
  <2>1. Asked => knowledge = "usable" /\ ~sop.transfer
    BY <1>5 DEF Conversation, Safety, RewriteReply, FinalReply, Send, Facts
  <2>2. Asked' = Asked /\ UNCHANGED <<knowledge, sop>>
    BY <1>5 DEF Conversation, Safety, RewriteReply, FinalReply, Send, Asked, evidence
  <2>3. /\ at' \cap {"init", "supervisor_router", "intent", "context_gate"} = {}
        /\ ~(at' \subseteq Context)
    BY <1>5 DEF Conversation, Safety, RewriteReply, FinalReply, Send, RouteAfterSafety, Context
  <2> QED BY <2>1, <2>2, <2>3 DEF Facts
<1>6. CASE Handover
  <2>1. at' = {"finalize"} /\ ~sent_reply'
    BY <1>6 DEF Handover
  <2> QED BY <2>1 DEF Facts, Context
<1>7. CASE Finalize \/ MemoryUpdate
  <2>1. at \subseteq {"finalize", "memory_update"} /\ at' \subseteq at
    BY <1>7, NodesAlone DEF Finalize, MemoryUpdate
  <2>2. Asked' = Asked /\ UNCHANGED <<sent_reply, knowledge, sop>>
    BY <1>7 DEF Finalize, MemoryUpdate, Asked, evidence
  <2>3. ~(at' # {} /\ at' \subseteq Context)
    BY <2>1 DEF Context
  <2> QED BY <2>1, <2>2, <2>3 DEF Facts
<1>8. CASE ProviderError
  <2>1. at' = {} /\ UNCHANGED <<called, sent_reply, knowledge, sop>>
    BY <1>8 DEF ProviderError, evidence
  <2> QED BY <2>1 DEF Facts, Asked
<1>9. CASE UNCHANGED vars
  BY <1>9 DEF vars, Facts, Asked
<1> QED BY <1>1, <1>2, <1>3, <1>4, <1>5, <1>6, <1>7, <1>8, <1>9 DEF Next, Node

\* A reply that looked for facts rests on all of them
\* (nodes.py:621-644, sales_graph.py:136-152).
THEOREM RepliesRestOnFacts == Spec => []RepliesOnFacts
<1>1. Init => Facts
  BY DEF Init, Facts, Asked, Drafted, AfterDraft, Context
<1>2. TypeOK /\ Inv /\ Facts /\ [Next]_vars => Facts'
  BY FactsStep
<1>3. Facts => RepliesOnFacts
  BY DEF Facts, Asked, RepliesOnFacts
<1> QED BY <1>1, <1>2, <1>3, Invariant, PTL DEF Spec

\* In a known stage the SOP decision names a known one, or none.
DecidedStageIsKnown == stage \in Options => sop.stage \in Options \cup {NoStage}

LEMMA KnownStageStep ==
  ASSUME TypeOK, DecidedStageIsKnown, [Next]_vars
  PROVE  DecidedStageIsKnown' /\ (stage \in Options => stage' \in Options)
<1>1. CASE Sop
  <2>1. PICK transfer \in BOOLEAN, requested \in Stages \cup {NoStage} :
          IF NormalizeStage(requested) # NoStage
          THEN /\ sop' = [transfer |-> transfer, stage |-> NormalizeStage(requested)]
               /\ stage' = NormalizeStage(requested)
          ELSE /\ sop' = [transfer |-> transfer, stage |-> requested]
               /\ UNCHANGED stage
    BY <1>1 DEF Sop
  <2>2. stage \in Options => NormalizeStage(requested) \in Options
    BY DEF NormalizeStage
  <2>3. NoStage \notin Options
    BY StagesAssumption
  <2>4. CASE NormalizeStage(requested) # NoStage
    <3>1. sop'.stage = stage' /\ stage' = NormalizeStage(requested)
      BY <2>1, <2>4
    <3> QED BY <2>2, <3>1 DEF DecidedStageIsKnown
  <2>5. CASE NormalizeStage(requested) = NoStage
    <3>1. stage \notin Options /\ stage' = stage
      BY <2>1, <2>2, <2>3, <2>5
    <3> QED BY <3>1 DEF DecidedStageIsKnown
  <2> QED BY <2>4, <2>5
<1>2. CASE Conversation
  <2>1. sop' = sop /\ stage' = IF sop.stage # NoStage THEN sop.stage ELSE stage
    BY <1>2 DEF Conversation, evidence
  <2> QED BY <2>1 DEF DecidedStageIsKnown
<1>3. CASE UNCHANGED <<stage, sop>>
  BY <1>3 DEF DecidedStageIsKnown
<1>4. Sop \/ Conversation \/ UNCHANGED <<stage, sop>>
  BY DEF Next, Node, InitNode, SupervisorRouter, Intent, Knowledge, SalesCaseRAG, ContextGate,
         Safety, RewriteReply, Handover, FinalReply, Send, Finalize, MemoryUpdate,
         ProviderError, evidence, vars
<1> QED BY <1>1, <1>2, <1>3, <1>4

\* No agent's answer puts a session into a stage nobody knows
\* (nodes.py:670-690, 325-332).
THEOREM StagesStayKnown == Spec => StageStaysKnown
<1>1. Init => DecidedStageIsKnown
  BY DEF Init, DecidedStageIsKnown
<1>2. TypeOK /\ DecidedStageIsKnown /\ [Next]_vars => DecidedStageIsKnown'
  BY KnownStageStep
<1>3. TypeOK /\ DecidedStageIsKnown /\ [Next]_vars
        => [(stage \in Options) => (stage' \in Options)]_vars
  BY KnownStageStep
<1> QED BY <1>1, <1>2, <1>3, Invariant, PTL DEF Spec, StageStaysKnown

-----------------------------------------------------------------------------
(* The gate: every phase of a run is one of ReviewGate.                    *)

PhaseTable ==
  /\ Drafting  => Phase = IF transfer_flag THEN "human" ELSE "open"
  /\ Reviewing => Phase = "reviewing"
  /\ Rejected  => Phase = "rejected"
  /\ Cleared   => Phase = "cleared"
  /\ Leaving   => Phase = "human"
  /\ Closing   => Phase = IF sent_reply THEN "published"
                          ELSE IF failed \/ transfer_flag THEN "human" ELSE "silent"

LEMMA PhaseOf == TypeOK => PhaseTable
<1> SUFFICES ASSUME TypeOK PROVE PhaseTable
  OBVIOUS
<1> USE DEF Phase, At, Unsent, TypeOK
<1>1. Drafting => Phase = IF transfer_flag THEN "human" ELSE "open"
  BY DEF Drafting, Before, Context
<1>2. Reviewing => Phase = "reviewing"
  BY DEF Reviewing
<1>3. Rejected => Phase = "rejected"
  BY DEF Rejected
<1>4. Cleared => Phase = "cleared"
  BY DEF Cleared
<1>5. Leaving => Phase = "human"
  BY DEF Leaving
<1>6. Closing => Phase = IF sent_reply THEN "published"
                         ELSE IF failed \/ transfer_flag THEN "human" ELSE "silent"
  BY DEF Closing
<1> QED BY <1>1, <1>2, <1>3, <1>4, <1>5, <1>6 DEF PhaseTable

LEMMA PhaseOfNext == TypeOK' => PhaseTable'
BY PhaseOf, PTL

LEMMA GateStep == TypeOK /\ TypeOK' /\ Inv /\ [Next]_vars => [Gate!Next]_(Gate!vars)
<1> SUFFICES ASSUME TypeOK, TypeOK', Inv, [Next]_vars PROVE [Gate!Next]_(Gate!vars)
  OBVIOUS
<1> DEFINE Stutters == Phase' = Phase /\ safety_retry_count' = safety_retry_count
<1>1. ASSUME Stutters PROVE [Gate!Next]_(Gate!vars)
  BY <1>1 DEF Gate!vars
<1>2. ASSUME Phase \in {"open", "reviewing", "rejected", "cleared"}, Phase' = "human",
             UNCHANGED safety_retry_count
      PROVE  [Gate!Next]_(Gate!vars)
  BY <1>2 DEF Gate!Next, Gate!GiveUp
<1>3. CASE Drafting /\ Next
  <2>1. Phase = IF transfer_flag THEN "human" ELSE "open"
    BY <1>3, PhaseOf DEF PhaseTable
  <2>2. CASE Drafting' /\ UNCHANGED <<transfer_flag, safety_retry_count>>
    BY <1>1, <2>1, <2>2, PhaseOfNext DEF PhaseTable
  <2>3. CASE Reviewing' /\ ~transfer_flag /\ safety_retry_count' = safety_retry_count + 1
    BY <1>3, <2>1, <2>3, PhaseOfNext DEF PhaseTable, Gate!Next, Gate!Submit, Drafting
  <2>4. CASE (Leaving' \/ (Closing' /\ failed' /\ ~sent_reply')) /\ UNCHANGED safety_retry_count
    BY <1>1, <1>2, <2>1, <2>4, PhaseOfNext DEF PhaseTable
  <2> QED BY <1>3, <2>2, <2>3, <2>4, DraftingStep DEF BrokenOff
<1>4. CASE Reviewing /\ Next
  <2>1. Phase = "reviewing"
    BY <1>4, PhaseOf DEF PhaseTable
  <2>2. CASE Rejected' /\ UNCHANGED safety_retry_count
    BY <2>1, <2>2, PhaseOfNext DEF PhaseTable, Gate!Next, Gate!Reject, Rejected
  <2>3. CASE Cleared' /\ UNCHANGED safety_retry_count
    BY <2>1, <2>3, PhaseOfNext DEF PhaseTable, Gate!Next, Gate!Clear, Cleared, DraftCleared
  <2>4. CASE (Leaving' \/ (Closing' /\ failed' /\ ~sent_reply')) /\ UNCHANGED safety_retry_count
    BY <1>2, <2>1, <2>4, PhaseOfNext DEF PhaseTable
  <2> QED BY <1>4, <2>2, <2>3, <2>4, ReviewingStep DEF BrokenOff
<1>5. CASE Rejected /\ Next
  <2>1. Phase = "rejected" /\ safety_retry_count < MaxReviews
    BY <1>5, PhaseOf DEF PhaseTable, Rejected
  <2>2. CASE Reviewing' /\ safety_retry_count' = safety_retry_count + 1
    BY <2>1, <2>2, PhaseOfNext DEF PhaseTable, Gate!Next, Gate!Submit
  <2>3. CASE BrokenOff
    BY <1>2, <2>1, <2>3, PhaseOfNext DEF PhaseTable, BrokenOff
  <2> QED BY <1>5, <2>2, <2>3, RejectedStep
<1>6. CASE Cleared /\ Next
  <2>1. Phase = "cleared"
    BY <1>6, PhaseOf DEF PhaseTable
  <2>2. /\ Cleared' \/ Closing'
        /\ ~failed' /\ ~transfer_flag' /\ UNCHANGED safety_retry_count
    BY <1>6, ClearedStep
  <2>3. CASE Cleared'
    BY <1>1, <2>1, <2>2, <2>3, PhaseOfNext DEF PhaseTable
  <2>4. CASE Closing'
    <3>1. Phase' \in {"published", "silent"}
      BY <2>2, <2>4, PhaseOfNext DEF PhaseTable
    <3> QED BY <2>1, <2>2, <3>1 DEF Gate!Next, Gate!Publish
  <2> QED BY <2>2, <2>3, <2>4
<1>7. CASE Leaving /\ Next
  BY <1>1, <1>7, PhaseOf, PhaseOfNext, LeavingStep DEF PhaseTable
<1>8. CASE Closing /\ Next
  <2>1. /\ Closing'
        /\ UNCHANGED <<transfer_flag, safety_retry_count, sent_reply>>
        /\ failed' # failed => sent_reply
    BY <1>8, ClosingStep
  <2>2. Phase' = Phase
    BY <1>8, <2>1, PhaseOf, PhaseOfNext DEF PhaseTable
  <2> QED BY <1>1, <2>1, <2>2
<1>9. CASE UNCHANGED vars
  BY <1>1, <1>9 DEF vars, Phase, At
<1> QED BY <1>3, <1>4, <1>5, <1>6, <1>7, <1>8, <1>9 DEF Inv

\* The graph implements the gate: no path publishes around the review, none
\* submits more drafts than allowed, and a turn left to a human stays there.
THEOREM GateIsKept == Spec => KeepsGate
<1>1. Init => Gate!Init
  <2> SUFFICES ASSUME Init PROVE Gate!Init
    OBVIOUS
  <2>1. Drafting /\ TypeOK
    BY InitInv, InitType
  <2>2. Phase \in {"open", "human"}
    BY <2>1, PhaseOf DEF PhaseTable
  <2> QED BY <2>1, <2>2 DEF Gate!Init, Drafting
<1>2. TypeOK /\ TypeOK' /\ Inv /\ [Next]_vars => [Gate!Next]_(Gate!vars)
  BY GateStep
<1>3. Spec => [](TypeOK /\ Inv)
  BY Invariant
<1> QED BY <1>1, <1>2, <1>3, PTL DEF Spec, KeepsGate, Gate!Spec
=============================================================================
