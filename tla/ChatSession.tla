---------------------------- MODULE ChatSession ----------------------------
(***************************************************************************)
(* What one chat session keeps in the database, and everybody who writes   *)
(* it: the turns of POST /chat (process_message) and of the web socket     *)
(* (stream_message), the memory updates that follow them, the operators'   *)
(* messages, take-overs and releases, scheduled messages and the reset.    *)
(* The code is in app/graph/service.py and chat_repository.py.             *)
(*                                                                         *)
(* A service call loads the whole session into a ConversationState, waits  *)
(* for the agents, and stores all columns of its copy.  The code between   *)
(* two awaits is one action.  A summary or a profile is the set of what    *)
(* was said that it tells of; the cut at 3000 characters is left out.      *)
(* How the web socket queues, cancels and delivers is in AutoReply.        *)
(***************************************************************************)
EXTENDS Naturals, SequencesExt, FiniteSetsExt

CONSTANTS
  Rest,        \* requests of POST /chat
  Streams,     \* turns of the web socket's worker
  AskOf,       \* the client_message_id each of them was sent with
  Humans,      \* messages of the human operators
  Broadcasts,  \* scheduled messages that reach the session
  Stages,      \* the SOP stages of the knowledge base
  FirstStage,  \* the first of them
  DefaultStage, \* the stage of a new ConversationState
  \* bounds: take-overs, resets, messages of humans and schedules in the session
  MaxTakeOvers, MaxResets, MaxPersisted

Requests == Rest \cup Streams
Asks == {AskOf[r] : r \in Requests}
Said == Asks \cup Humans \cup Broadcasts \cup {"welcome"}

ASSUME RequestsAssumption == Rest \cap Streams = {}
\* A request also names its reply, whose id no other message has.
ASSUME IdsAssumption == Requests \cap Said = {}
ASSUME StageAssumption == FirstStage \in Stages
ASSUME LimitsAssumption == {MaxTakeOvers, MaxResets, MaxPersisted} \subseteq Nat

VARIABLES
  session,    \* the ConversationSession row
  profile,    \* what the CustomerRecord of each customer id tells
  memory,     \* what ConversationMemory.memory_summary tells
  messages,   \* the Message rows in the order of created_at
  turn,       \* the ConversationTurn of each request
  request,    \* where each request is
  view,       \* its copy of the session
  update,     \* where the memory update after each web socket turn is
  updateView, \* its copy of the session
  cancelled,  \* streams whose task was cancelled
  release,    \* a set_handover(False) that waits for the memory agent
  \* what the properties speak about
  stored,     \* number of messages ever stored, the clock of created_at
  epoch,      \* resets so far, which is the newest customer id
  quiet,      \* nothing was under way at the last reset
  before,     \* what was stored before it
  takeovers

vars == <<session, profile, memory, messages, turn, request, view, update,
          updateView, cancelled, release, stored, epoch, quiet, before, takeovers>>

ghosts == <<epoch, quiet, before>>

Customers == 0 .. MaxResets  \* each reset draws a new customer id
Session == [customer : Customers, stage : Stages \cup {DefaultStage},
            talked : BOOLEAN, transfer_flag : BOOLEAN]
State == [session : Session, profile : SUBSET Said, memory : SUBSET Said]
Message == [id : Said \cup Requests, sender : {"customer", "salesagent", "human"}, at : Nat]

-----------------------------------------------------------------------------
(* The repository.                                                         *)

\* get_state: the session with the profile of its customer and its memory.
Loaded == [session |-> session, profile |-> profile[session.customer], memory |-> memory]

\* _align_initial_stage: a session without messages starts at a known stage.
Aligned(s) ==
  IF ~s.session.talked /\ s.session.stage \notin Stages
  THEN [s EXCEPT !.session.stage = FirstStage] ELSE s

\* save_session_state: every column of the row.
SaveSession(s) == session' = s.session

\* save_customer_profile: every field, in the row of the copy's customer id.
SaveProfile(s) == profile' = [profile EXCEPT ![s.session.customer] = s.profile]

\* save_memory.
SaveMemory(s) == memory' = s.memory

\* Mutant of IsStored: message_exists is not asked.
IsStoredNever(id) == FALSE

\* _message_exists: the client's id is already in the session.
IsStored(id) == \E i \in DOMAIN messages : messages[i].id = id

\* save_message: a message with a known client id is dropped.
SaveMessage(id, sender) ==
  IF IsStored(id)
  THEN UNCHANGED <<messages, stored>>
  ELSE /\ messages' = Append(messages, [id |-> id, sender |-> sender, at |-> stored + 1])
       /\ stored' = stored + 1

\* update_turn: a turn that a reset has deleted is left alone.  Which of the
\* final statuses it gets is in AutoReply.
CloseTurn(r) ==
  turn' = IF turn[r] = "none" THEN turn ELSE [turn EXCEPT ![r] = "closed"]

HandedOver(s) == [s EXCEPT !.session.transfer_flag = TRUE]
Counted(s) == [s EXCEPT !.session.talked = TRUE]
Learnt(s, id) == [s EXCEPT !.profile = @ \cup {id}, !.memory = @ \cup {id}]

\* A copy nobody has made yet.
NoCopy == [session |-> [customer |-> 0, stage |-> FirstStage, talked |-> FALSE,
                        transfer_flag |-> FALSE],
           profile |-> {}, memory |-> {}]
Idle == [waits |-> FALSE, copy |-> NoCopy, heard |-> {}]

\* create_welcome_session: one welcome message, stored and in the history.
Init ==
  /\ session = [customer |-> 0, stage |-> FirstStage, talked |-> TRUE,
                transfer_flag |-> FALSE]
  /\ profile = [c \in Customers |-> {}]
  /\ memory = {"welcome"}
  /\ messages = <<[id |-> "welcome", sender |-> "salesagent", at |-> 1]>>
  /\ turn = [r \in Requests |-> "none"]
  /\ request = [r \in Requests |-> "none"]
  /\ view = [r \in Requests |-> NoCopy]
  /\ update = [r \in Streams |-> "none"]
  /\ updateView = [r \in Streams |-> NoCopy]
  /\ cancelled = {}
  /\ release = Idle
  /\ stored = 1
  /\ epoch = 0 /\ quiet = TRUE /\ before = 0
  /\ takeovers = 0

-----------------------------------------------------------------------------
(* Messages that are stored in one go, with their history line.            *)

\* _append_history_line.
WithLine(s, id) == [Counted(s) EXCEPT !.memory = @ \cup {id}]

Persisted == Cardinality({i \in DOMAIN messages : messages[i].id \in Humans \cup Broadcasts})

\* persist_messages with one message.
Persist(id, sender) ==
  LET s == IF IsStored(id) THEN Aligned(Loaded) ELSE WithLine(Aligned(Loaded), id)
  IN /\ IsStored(id) \/ Persisted < MaxPersisted
     /\ SaveMessage(id, sender)
     /\ SaveSession(s) /\ SaveProfile(s) /\ SaveMemory(s)
     /\ UNCHANGED <<turn, request, view, update, updateView, cancelled,
                    release, ghosts, takeovers>>

\* persist_human_message: whoever owns the session, and as often as the
\* client sends it.
HumanMessage(h) == Persist(h, "human")

\* _process_scheduled_task for this session, whoever owns it.
ScheduledMessage(b) == ~IsStored(b) /\ Persist(b, "salesagent")

-----------------------------------------------------------------------------
(* POST /chat.                                                             *)

\* process_message up to the graph: the turn is opened, the customer's
\* message stored, and the session loaded.
BeginRest(r) ==
  /\ request[r] = "none"
  /\ request' = [request EXCEPT ![r] = "running"]
  /\ turn' = [turn EXCEPT ![r] = "running"]
  /\ view' = [view EXCEPT ![r] = Aligned(Loaded)]
  /\ SaveSession(Aligned(Loaded))
  /\ SaveMessage(AskOf[r], "customer")
  /\ UNCHANGED <<profile, memory, update, updateView, cancelled, release,
                 ghosts, takeovers>>

\* Mutant of TakenOver: the flag of the copy is all that is looked at.
TakenOverUnseen(s) == FALSE

\* The flag is read again after the wait: a human came during the turn.
TakenOver(s) == session.transfer_flag /\ ~s.session.transfer_flag

\* The call returns and its copy is gone.
Over(r) ==
  /\ request' = [request EXCEPT ![r] = "done"]
  /\ view' = [view EXCEPT ![r] = NoCopy]

Ended(r) == Over(r) /\ CloseTurn(r)

\* The end of a turn stores all of its copy.
SaveAll(s) == SaveSession(s) /\ SaveProfile(s) /\ SaveMemory(s) 

RestStep(r) ==
  /\ request[r] = "running"
  /\ UNCHANGED <<update, updateView, cancelled, release, ghosts, takeovers>>

\* The graph sent a reply, and its last node learnt from the exchange.
RestReplies(r) ==
  /\ RestStep(r)
  /\ ~view[r].session.transfer_flag /\ ~TakenOver(view[r])
  /\ \E stage \in Stages :
       SaveAll(Learnt(Counted([view[r] EXCEPT !.session.stage = stage]), AskOf[r]))
  /\ SaveMessage(r, "salesagent")
  /\ Ended(r)

\* The graph handed over, as it does with every session of a human, or it
\* timed out or found no provider (_fallback_result).
RestHandsOver(r) ==
  /\ RestStep(r)
  /\ \E s \in {view[r], Counted(view[r])} : SaveAll(HandedOver(s))
  /\ Ended(r)
  /\ UNCHANGED <<messages, stored>>

\* The graph left no reply to send.
RestIsSilent(r) ==
  /\ RestStep(r)
  /\ ~view[r].session.transfer_flag /\ ~TakenOver(view[r])
  /\ SaveAll(Counted(view[r]))
  /\ Ended(r)
  /\ UNCHANGED <<messages, stored>>

\* The session as the human has it is left alone.
RestInterrupted(r) ==
  /\ RestStep(r)
  /\ TakenOver(view[r])
  /\ Ended(r)
  /\ UNCHANGED <<session, profile, memory, messages, stored>>

\* Any other exception of the graph leaves process_message, and the turn as
\* it is.
RestBreaks(r) ==
  /\ RestStep(r)
  /\ Over(r)
  /\ UNCHANGED <<session, profile, memory, messages, turn, stored>>

-----------------------------------------------------------------------------
(* The web socket.                                                         *)

Streaming(r) == request[r] \in {"running", "replied"}

\* persist_customer_message, then the flag decides about an automatic reply.
CustomerMessage(r) ==
  /\ request[r] = "none"
  /\ SaveMessage(AskOf[r], "customer")
  /\ SaveSession(Aligned(Loaded))
  /\ request' = [request EXCEPT ![r] = IF session.transfer_flag THEN "left" ELSE "queued"]
  /\ UNCHANGED <<profile, memory, turn, view, update, updateView, cancelled,
                 release, ghosts, takeovers>>

\* The worker opens the turn, and stream_message loads the session and
\* cancels the stream before it.  One that has begun to reply is not disturbed.
BeginStream(r) ==
  /\ request[r] = "queued"
  /\ \A q \in Streams : request[q] = "replied" => q \in cancelled
  /\ request' = [request EXCEPT ![r] = "running"]
  /\ turn' = [turn EXCEPT ![r] = "running"]
  /\ view' = [view EXCEPT ![r] = Aligned(Loaded)]
  /\ cancelled' = cancelled \cup {q \in Streams : Streaming(q)}
  /\ UNCHANGED <<session, profile, memory, messages, update, updateView,
                 release, stored, ghosts, takeovers>>

StreamStep(r) ==
  /\ Streaming(r) /\ r \notin cancelled
  /\ UNCHANGED <<updateView, cancelled, release, ghosts, takeovers>>

\* persist_progress after a node of the graph: the row as the turn has it.
StreamNode(r) ==
  /\ StreamStep(r) /\ ~TakenOver(view[r])
  /\ \E s \in {[view[r] EXCEPT !.session.stage = stage] : stage \in Stages}
              \cup (IF request[r] = "running" THEN {HandedOver(view[r])} ELSE {}) :
       /\ view' = [view EXCEPT ![r] = s]
       /\ SaveSession(s) 
  /\ UNCHANGED <<profile, memory, messages, stored, turn, request, update>>

\* _send_reply_chunks.
StreamReplies(r) ==
  /\ StreamStep(r)
  /\ request[r] = "running" /\ ~view[r].session.transfer_flag
  /\ request' = [request EXCEPT ![r] = "replied"]
  /\ SaveMessage(r, "salesagent")
  /\ UNCHANGED <<session, profile, memory, turn, view, update>>

\* _schedule_memory_update, for a turn that has replied.
ScheduleUpdate(r) ==
  update' = IF request[r] = "replied" THEN [update EXCEPT ![r] = "queued"] ELSE update

\* The end of stream_message.
StreamEnds(r) ==
  /\ StreamStep(r) /\ ~TakenOver(view[r])
  /\ SaveAll(Counted(view[r]))
  /\ Ended(r)
  /\ ScheduleUpdate(r)
  /\ UNCHANGED <<messages, stored>>

\* A timeout or any error of the graph hands the session over.
StreamFails(r) ==
  /\ StreamStep(r)
  /\ SaveAll(HandedOver(view[r]))
  /\ Ended(r)
  /\ UNCHANGED <<messages, stored, update>>

StreamStops(r) ==
  /\ Streaming(r)
  /\ Over(r)
  /\ UNCHANGED <<session, profile, memory, messages, updateView, cancelled,
                 release, stored, ghosts, takeovers>>

\* The human who took over is found; nobody closes the turn.
StreamInterrupted(r) ==
  /\ StreamStops(r)
  /\ IF r \in cancelled THEN session.transfer_flag ELSE TakenOver(view[r])
  /\ ScheduleUpdate(r)
  /\ UNCHANGED turn

\* The cancellation, or a timeout in the worker's own body, ends the turn.
StreamCancelled(r) ==
  /\ StreamStops(r)
  /\ CloseTurn(r)
  /\ UNCHANGED update

-----------------------------------------------------------------------------
(* Memory updates after the web socket's turns, one at a time.             *)

\* _MEMORY_LOCKS, then update_memory_for_exchange up to the memory agent.
BeginUpdate(r) ==
  /\ update[r] = "queued"
  /\ \A q \in Streams : update[q] # "agent"
  /\ update' = [update EXCEPT ![r] = "agent"]
  /\ updateView' = [updateView EXCEPT ![r] = Loaded]
  /\ UNCHANGED <<session, profile, memory, messages, turn, request, view,
                 cancelled, release, stored, ghosts, takeovers>>

\* Its end.  The error of an agent is logged and changes nothing.
EndUpdate(r) ==
  LET s == Learnt(updateView[r], AskOf[r])
  IN /\ update[r] = "agent"
     /\ update' = [update EXCEPT ![r] = "done"]
     /\ updateView' = [updateView EXCEPT ![r] = NoCopy]
     /\ \/ SaveProfile(s) /\ SaveMemory(s) 
        \/ UNCHANGED <<profile, memory>>
     /\ UNCHANGED <<session, messages, turn, request, view,
                    cancelled, release, stored, ghosts, takeovers>>

-----------------------------------------------------------------------------
(* Operators, readers and the reset.                                       *)

\* set_handover(True): the stream of the session is cancelled.
TakeOver ==
  /\ takeovers < MaxTakeOvers
  /\ takeovers' = takeovers + 1
  /\ SaveSession(HandedOver(Loaded))
  /\ cancelled' = cancelled \cup {r \in Streams : Streaming(r)}
  /\ UNCHANGED <<profile, memory, messages, turn, request, view, update,
                 updateView, release, stored, ghosts>>

\* _handover_context_messages: what customer and humans said from the first
\* customer message after the last automatic one, or else from the last
\* customer message.
Context ==
  LET by(sender) == {i \in DOMAIN messages : messages[i].sender = sender}
      after == {i \in by("customer") : \A j \in by("salesagent") : j < i}
      talk  == by("customer") \cup by("human")
      said(from) == {messages[i].id : i \in {j \in talk : j >= from}}
  IN CASE after # {} -> said(Min(after))
       [] after = {} /\ by("customer") # {} -> said(Max(by("customer")))
       [] OTHER -> said(0)

\* set_handover(False) for a session of a human: the memory agent is asked
\* about the conversation, if there was one.
BeginRelease ==
  /\ release = Idle /\ session.transfer_flag
  /\ IF Context = {}
     THEN session' = [session EXCEPT !.transfer_flag = FALSE] /\ UNCHANGED release
     ELSE release' = [waits |-> TRUE, copy |-> Loaded, heard |-> Context]
          /\ UNCHANGED session
  /\ UNCHANGED <<profile, memory, messages, turn, request, view, update,
                 updateView, cancelled, stored, ghosts, takeovers>>

\* Its end: the whole copy is stored, with what the agent has learnt if it
\* did not fail.
EndRelease ==
  /\ release # Idle
  /\ release' = Idle
  /\ \E heard \in {{}, release.heard} :
       SaveAll([release.copy EXCEPT !.session.transfer_flag = FALSE,
                                    !.profile = @ \cup heard])
  /\ UNCHANGED <<messages, turn, request, view, update, updateView, cancelled,
                 stored, ghosts, takeovers>>

\* Mutant of Cleared: the messages stay.
ClearedButMessages == UNCHANGED messages /\ turn' = [r \in Requests |-> "none"]

\* clear_session_activity.
Cleared == messages' = <<>> /\ turn' = [r \in Requests |-> "none"]

Quiet ==
  /\ \A r \in Requests : request[r] \in {"none", "left", "done"}
  /\ \A r \in Streams : update[r] \in {"none", "done"}
  /\ release = Idle

\* reset_session: everything is deleted, and a new customer
\* id is drawn; what runs for the session runs on.
Reset ==
  LET fresh == [session |-> [customer |-> epoch + 1, stage |-> DefaultStage,
                             talked |-> FALSE, transfer_flag |-> FALSE],
                profile |-> {}, memory |-> {}]
  IN /\ epoch < MaxResets
     /\ Cleared
     /\ SaveSession(Aligned(fresh)) /\ SaveProfile(fresh) /\ SaveMemory(fresh)
     /\ epoch' = epoch + 1
     /\ quiet' = Quiet
     /\ before' = stored
     /\ UNCHANGED <<request, view, update, updateView, cancelled, release,
                    stored, takeovers>>

-----------------------------------------------------------------------------
Next ==
  \/ \E h \in Humans : HumanMessage(h)
  \/ \E b \in Broadcasts : ScheduledMessage(b)
  \/ \E r \in Rest : BeginRest(r) \/ RestReplies(r) \/ RestHandsOver(r) \/ RestIsSilent(r)
                     \/ RestInterrupted(r) \/ RestBreaks(r)
  \/ \E r \in Streams : CustomerMessage(r) \/ BeginStream(r) \/ StreamNode(r)
                        \/ StreamReplies(r) \/ StreamEnds(r) \/ StreamFails(r)
                        \/ StreamInterrupted(r) \/ StreamCancelled(r)
                        \/ BeginUpdate(r) \/ EndUpdate(r)
  \/ TakeOver \/ BeginRelease \/ EndRelease
  \/ Reset

Spec == Init /\ [][Next]_vars

-----------------------------------------------------------------------------
(* Properties.                                                             *)

\* Every row and every copy has its type.  (db/models.py, ConversationState)
TypeOK ==
  /\ session \in Session
  /\ profile \in [Customers -> SUBSET Said]
  /\ memory \subseteq Said
  /\ messages \in Seq(Message)
  /\ turn \in [Requests -> {"none", "running", "closed"}]
  /\ request \in [Requests -> {"none", "queued", "left", "running", "replied", "done"}]
  /\ view \in [Requests -> State]
  /\ update \in [Streams -> {"none", "queued", "agent", "done"}]
  /\ updateView \in [Streams -> State]
  /\ cancelled \subseteq Streams
  /\ release \in [waits : BOOLEAN, copy : State, heard : SUBSET Said]
  /\ stored \in Nat /\ before \in Nat
  /\ epoch \in Customers /\ quiet \in BOOLEAN
  /\ takeovers \in 0 .. MaxTakeOvers

\* However often a client sends a message again, and on whichever way, the
\* session has it once.  (save_message)
OneCopy ==
  \A i, j \in DOMAIN messages : messages[i].id = messages[j].id => i = j

\* If nothing was under way for the session when it was reset, nothing of the
\* old conversation comes back: customer, messages, and what profile and
\* memory tell are all of the new one.  (reset_session)
ResetHolds ==
  quiet => /\ session.customer = epoch
           /\ \A i \in DOMAIN messages : messages[i].at > before
           /\ memory \cup profile[session.customer]
                \subseteq {messages[i].id : i \in DOMAIN messages}

\* A turn that stores a stale copy does not take the session from a human:
\* only an operator's release and the reset do.  (process_message,
\* persist_progress)
HumanKeepsSession ==
  [][session.transfer_flag /\ ~session'.transfer_flag
       => BeginRelease \/ EndRelease \/ Reset]_vars

\* POST /chat stores no reply in the session of a human.  (process_message)
RestRespectsHuman ==
  [][\A r \in Rest : ~IsStored(r) /\ IsStored(r)' => ~session.transfer_flag]_vars

\* What a memory update has learnt from an exchange stays in the summary.
\* (memory_update is the one that writes it, says finalize in nodes.py)
LearntStays ==
  [][\A r \in Streams : /\ update[r] = "done" /\ epoch' = epoch
                          /\ AskOf[r] \in memory
                          => AskOf[r] \in memory']_vars
=============================================================================
