--------------------------- MODULE ScheduledTask ---------------------------
(***************************************************************************)
(* Scheduled messages: tasks an operator keeps through the REST endpoints  *)
(* of app/api/chat.py, which the scheduler of                              *)
(* app/services/sop_followup_scheduler.py claims and sends to the sessions *)
(* they are meant for, next to everything else that happens there.         *)
(*                                                                         *)
(* A tick claims what is due and commits; then it takes one task after the *)
(* other.  The loop over the targets of a task awaits nothing, so a task   *)
(* is one action, and the broadcasts of its snapshots, which are awaited,  *)
(* are a second one.  The loop refreshes the database session before every *)
(* target, which discards what was changed, and not yet flushed, for the   *)
(* target before: only rows it has added survive.  Of the follow-ups of a  *)
(* session only the number of waiting ones is kept; FollowUp has the rest. *)
(*                                                                         *)
(* A turn, a memory update and a release load the session, await agents,   *)
(* and store what they loaded with what they learnt: of all that only the  *)
(* scheduled messages a stored memory knows are kept; ChatSession has the  *)
(* rest.                                                                   *)
(***************************************************************************)
EXTENDS Naturals, FiniteSets

CONSTANTS
  Tasks, Sessions,
  Stages, FirstStage,
  Timed,       \* stages whose SOP row asks for a follow-up
  Payloads,    \* what operators write into a task
  Limit,       \* sop_followup_batch_size
  MaxEdits, MaxEvents, MaxRestarts  \* bounds

Payload == [enabled : BOOLEAN, mode : {"all", "manual", "stage"}, stage : Stages,
            selected : SUBSET Sessions]

ASSUME PayloadsAssumption == Payloads \subseteq Payload
ASSUME StagesAssumption == FirstStage \in Stages /\ Timed \subseteq Stages
ASSUME LimitsAssumption ==
  Limit \in Nat \ {0} /\ {MaxEdits, MaxEvents, MaxRestarts} \subseteq Nat

VARIABLES
  status,    \* ScheduledMessageTask.status, "none" before it is created
  payload,   \* its other columns an operator writes
  sent,      \* sent_session_ids_json
  due,       \* scheduled_at has come
  todo,      \* tasks the running tick has claimed and not yet sent
  telling,   \* the task whose snapshots are being broadcast
  handling,  \* the broadcast is the one of the exception handler
  stage, transfer_flag, \* of each session
  sop,       \* sessions with a ConversationSOPState
  waiting,   \* pending follow-up jobs of each session
  got,       \* tasks whose message is among the messages of the session
  told,      \* tasks whose message is in its memory and message count
  open,      \* tasks whose turn is left running
  turns,     \* the memories that those under way in a session have loaded
  \* what the properties speak about
  chosen,    \* the selection an operator saved last
  overrun,   \* sessions whose changes a refresh discarded
  outdated,  \* sessions in which a memory was stored that is not the latest
  orphans,   \* tasks that were claimed when their tick ended early
  edits, events, restarts

operators == <<status, payload, due, chosen>>
scheduler == <<todo, telling, handling>>
chat == <<stage, transfer_flag, sop, waiting, got, told, open, turns, outdated>>
vars == <<operators, sent, scheduler, chat, overrun, orphans, edits, events, restarts>>

Status == {"none", "pending", "running", "sent", "failed", "cancelled"}

\* Of a task that is not created yet.
NoPayload == [enabled |-> FALSE, mode |-> "manual", stage |-> FirstStage, selected |-> {}]

Init ==
  /\ status = [k \in Tasks |-> "none"]
  /\ payload = [k \in Tasks |-> NoPayload]
  /\ sent = [k \in Tasks |-> {}]
  /\ due = [k \in Tasks |-> FALSE]
  /\ todo = {} /\ telling = {} /\ handling = FALSE
  /\ stage = [s \in Sessions |-> FirstStage]
  /\ transfer_flag = [s \in Sessions |-> FALSE]
  /\ sop = {}
  /\ waiting = [s \in Sessions |-> 0]
  /\ got = [s \in Sessions |-> {}] /\ told = [s \in Sessions |-> {}]
  /\ open = [s \in Sessions |-> {}] /\ turns = [s \in Sessions |-> {}]
  /\ chosen = [k \in Tasks |-> {}]
  /\ overrun = {} /\ outdated = {} /\ orphans = {}
  /\ edits = 0 /\ events = 0 /\ restarts = 0

-----------------------------------------------------------------------------
(* The operators' endpoints.                                               *)

Written(k, p) ==
  /\ edits < MaxEdits
  /\ edits' = edits + 1
  /\ payload' = [payload EXCEPT ![k] = p]
  /\ chosen' = [chosen EXCEPT ![k] = p.selected]
  /\ \E now \in BOOLEAN : due' = [due EXCEPT ![k] = now]
  /\ UNCHANGED <<sent, scheduler, chat, overrun, orphans, events, restarts>>

\* create_scheduled_message_task: a disabled task is pending, too.
Create(k, p) ==
  /\ status[k] = "none"
  /\ status' = [status EXCEPT ![k] = "pending"]
  /\ Written(k, p)

\* Mutant of Editable: a task that was sent may be edited.
EditableWhenSent(k) == status[k] # "running"

\* The early return of update_ and cancel_scheduled_message_task.
Editable(k) == status[k] \notin {"sent", "running"}

\* update_scheduled_message_task, which also takes up again what has failed
\* or was cancelled.
Update(k, p) ==
  /\ status[k] # "none" /\ Editable(k)
  /\ status' = [status EXCEPT ![k] = IF p.enabled THEN "pending" ELSE "cancelled"]
  /\ Written(k, p)

\* cancel_scheduled_message_task.
CancelTask(k) ==
  /\ status[k] # "none" /\ Editable(k)
  /\ edits < MaxEdits
  /\ edits' = edits + 1
  /\ status' = [status EXCEPT ![k] = "cancelled"]
  /\ payload' = [payload EXCEPT ![k].enabled = FALSE]
  /\ UNCHANGED <<due, chosen, sent, scheduler, chat, overrun, orphans, events, restarts>>

TimePasses(k) ==
  /\ ~due[k]
  /\ due' = [due EXCEPT ![k] = TRUE]
  /\ UNCHANGED <<status, payload, chosen, sent, scheduler, chat, overrun, orphans,
                 edits, events, restarts>>

-----------------------------------------------------------------------------
(* The scheduler.                                                          *)

\* claim_due_scheduled_message_tasks.
Claimable(k) == status[k] = "pending" /\ payload[k].enabled /\ due[k]

\* One tick at a time: at most Limit tasks are marked as running.
Claim ==
  LET ready == {k \in Tasks : Claimable(k)}
  IN /\ todo = {} /\ telling = {} /\ ready # {}
     /\ \E batch \in SUBSET ready :
          /\ Cardinality(batch) = IF Cardinality(ready) < Limit THEN Cardinality(ready)
                                  ELSE Limit
          /\ todo' = batch
          /\ status' = [k \in Tasks |-> IF k \in batch THEN "running" ELSE status[k]]
     /\ UNCHANGED <<payload, due, chosen, sent, telling, handling, chat, overrun, orphans,
                    edits, events, restarts>>

\* Mutant of Targets: an empty selection of a manual task means everybody.
TargetsOfEmpty(k) ==
  LET p == payload[k]
  IN {s \in Sessions : /\ p.mode = "stage" => stage[s] = p.stage
                       /\ p.selected # {} => s \in p.selected}

\* resolve_scheduled_message_targets: a manual task has the sessions that are
\* selected; for the others an empty selection means no restriction.
Targets(k) ==
  LET p == payload[k]
  IN {s \in Sessions : /\ p.mode = "stage" => stage[s] = p.stage
                       /\ p.selected # {} \/ p.mode = "manual" => s \in p.selected}

\* Mutant of Rescheduled: the jobs that wait are not cancelled.
RescheduledOnTop(s, stored) ==
  IF transfer_flag[s] \/ stage[s] \notin Timed THEN waiting[s] ELSE waiting[s] + 1

\* What schedule_followup_after_sales_message leaves waiting for s, if the
\* jobs it cancels are stored as cancelled, or else come back.
Rescheduled(s, stored) ==
  LET left == IF stored THEN 0 ELSE waiting[s]
  IN IF transfer_flag[s] THEN left
     ELSE IF stage[s] \in Timed THEN left + 1 ELSE waiting[s]

\* The changes for the last target are committed, those for one without an
\* SOP state are flushed with the state that is added for it.
Stored(s, last) == s = last \/ s \notin sop

\* One round of the loop for every target in reached, the last one last.
Sent(k, reached, last) ==
  LET stored == {s \in reached : Stored(s, last)}
      with(f, group) == [s \in Sessions |-> IF s \in group THEN f[s] \cup {k} ELSE f[s]]
  IN /\ got' = with(got, reached)
     /\ told' = with(told, stored)
     /\ open' = with(open, reached \ stored)
     /\ sop' = sop \cup reached
     /\ waiting' = [s \in Sessions |-> IF s \in reached THEN Rescheduled(s, s \in stored)
                                       ELSE waiting[s]]
     /\ overrun' = overrun \cup (reached \ stored)
     /\ UNCHANGED <<stage, transfer_flag, turns, outdated>>

\* Mutant of Settled: the task is left as it was claimed.
SettledNever(k, outcome) == UNCHANGED <<status, payload>>

\* mark_scheduled_message_task_sent and _failed.
Settled(k, outcome) ==
  /\ status' = [status EXCEPT ![k] = outcome]
  /\ payload' = [payload EXCEPT ![k].enabled = FALSE]

TaskStep(k) ==
  /\ k \in todo /\ telling = {}
  /\ todo' = todo \ {k}
  /\ UNCHANGED <<due, chosen, orphans, edits, events, restarts>>

\* no_targets.
NoTargets(k) ==
  /\ TaskStep(k)
  /\ Targets(k) = {}
  /\ Settled(k, "failed")
  /\ UNCHANGED <<sent, telling, handling, chat, overrun>>

SendTask(k) ==
  /\ TaskStep(k)
  /\ \E last \in Targets(k) : Sent(k, Targets(k), last)
  /\ Settled(k, "sent")
  /\ sent' = [sent EXCEPT ![k] = Targets(k)]
  /\ telling' = {k} /\ handling' = FALSE

\* An exception in the loop: what was done so far is committed, and told.
SendBreaks(k) ==
  /\ TaskStep(k)
  /\ \E reached \in SUBSET Targets(k) :
       /\ reached # Targets(k)
       /\ IF reached = {}
          THEN UNCHANGED <<chat, overrun, telling, handling>>
          ELSE /\ \E last \in reached : Sent(k, reached, last)
               /\ telling' = {k} /\ handling' = TRUE
  /\ Settled(k, "failed")
  /\ UNCHANGED sent

\* The snapshots were broadcast.
TellTask(k) ==
  /\ k \in telling
  /\ telling' = {} /\ handling' = FALSE
  /\ UNCHANGED <<operators, sent, todo, chat, overrun, orphans, edits, events, restarts>>

\* A broadcast raises: the task that was sent is marked as failed, and its
\* snapshots are broadcast once more.
TellBreaks(k) ==
  /\ k \in telling /\ ~handling
  /\ Settled(k, "failed")
  /\ handling' = TRUE
  /\ UNCHANGED <<due, chosen, sent, todo, telling, chat, overrun, orphans, edits,
                 events, restarts>>

\* The tick ends with what it has claimed still running.
TickEnds ==
  /\ orphans' = orphans \cup todo
  /\ todo' = {} /\ telling' = {} /\ handling' = FALSE
  /\ UNCHANGED <<operators, sent, overrun, edits, events>>

\* An exception leaves the handler of a task, or of a follow-up job, which
\* the tick processes first.
TickBreaks ==
  /\ handling \/ (todo # {} /\ telling = {})
  /\ TickEnds
  /\ UNCHANGED <<chat, restarts>>

\* The process stops; the new one starts with an empty tick and no turns.
Restart ==
  /\ restarts < MaxRestarts
  /\ restarts' = restarts + 1
  /\ TickEnds
  /\ turns' = [s \in Sessions |-> {}]
  /\ UNCHANGED <<stage, transfer_flag, sop, waiting, got, told, open, outdated>>

-----------------------------------------------------------------------------
(* What else happens in a session, each committed on its own.              *)

Beside == UNCHANGED <<status, due, chosen, scheduler, orphans, edits, restarts>>

Event(s) ==
  /\ events < MaxEvents
  /\ events' = events + 1
  /\ Beside

\* note_customer_message_for_sop.
CustomerMessage(s) ==
  /\ Event(s)
  /\ sop' = sop \cup {s}
  /\ waiting' = [waiting EXCEPT ![s] = 0]
  /\ UNCHANGED <<payload, sent, stage, transfer_flag, got, told, open, turns, overrun, outdated>>

\* A message is stored, with the memory as it is then, and followed up.
SalesMessage(s) ==
  /\ Event(s)
  /\ sop' = sop \cup {s}
  /\ waiting' = [waiting EXCEPT ![s] = Rescheduled(s, TRUE)]
  /\ UNCHANGED <<payload, sent, stage, transfer_flag, got, told, open, turns, overrun, outdated>>

\* set_handover(True).
TakeOver(s) ==
  /\ Event(s)
  /\ transfer_flag' = [transfer_flag EXCEPT ![s] = TRUE]
  /\ waiting' = [waiting EXCEPT ![s] = 0]
  /\ UNCHANGED <<payload, sent, stage, sop, got, told, open, turns, overrun, outdated>>

\* A turn, a memory update or a release loads the session and awaits an agent.
TurnBegins(s) ==
  /\ Event(s)
  /\ turns' = [turns EXCEPT ![s] = @ \cup {told[s]}]
  /\ UNCHANGED <<payload, sent, stage, transfer_flag, sop, waiting, got, told, open, overrun,
                 outdated>>

Ended(s, memory) == [turns EXCEPT ![s] = @ \ {memory}]

\* It stores what it loaded, whatever was stored since, for good or as progress,
\* with its own stage and flag; only process_message cancels the jobs of a
\* session it hands over.
TurnStores(s) ==
  \E memory \in turns[s], to \in Stages, flag \in BOOLEAN :
    /\ Beside
    /\ told' = [told EXCEPT ![s] = memory]
    /\ outdated' = IF memory = told[s] THEN outdated ELSE outdated \cup {s}
    /\ stage' = [stage EXCEPT ![s] = to]
    /\ transfer_flag' = [transfer_flag EXCEPT ![s] = flag]
    /\ waiting' \in {waiting} \cup (IF flag THEN {[waiting EXCEPT ![s] = 0]} ELSE {})
    /\ \/ turns' = Ended(s, memory) /\ UNCHANGED events
       \/ turns' = turns /\ events < MaxEvents /\ events' = events + 1
    /\ UNCHANGED <<payload, sent, sop, got, open, overrun>>

\* It was interrupted by a human and stores what it finds.
TurnDropped(s) ==
  \E memory \in turns[s] :
    /\ Beside /\ UNCHANGED events
    /\ turns' = Ended(s, memory)
    /\ waiting' \in {waiting} \cup (IF transfer_flag[s] THEN {[waiting EXCEPT ![s] = 0]} ELSE {})
    /\ UNCHANGED <<payload, sent, stage, transfer_flag, sop, got, told, open, overrun, outdated>>

\* Mutant of WithoutSession: a task keeps the sessions it was sent to.
WithoutSessionSelected(s) ==
  /\ payload' = [k \in Tasks |-> [payload[k] EXCEPT !.selected = @ \ {s}]]
  /\ UNCHANGED sent

\* The end of clear_session_activity: every task forgets the session.
WithoutSession(s) ==
  /\ payload' = [k \in Tasks |-> [payload[k] EXCEPT !.selected = @ \ {s}]]
  /\ sent' = [k \in Tasks |-> sent[k] \ {s}]

\* reset_session: turns under way go on.
Reset(s) ==
  /\ Event(s)
  /\ WithoutSession(s)
  /\ stage' = [stage EXCEPT ![s] = FirstStage]
  /\ transfer_flag' = [transfer_flag EXCEPT ![s] = FALSE]
  /\ sop' = sop \ {s}
  /\ waiting' = [waiting EXCEPT ![s] = 0]
  /\ got' = [got EXCEPT ![s] = {}] /\ told' = [told EXCEPT ![s] = {}]
  /\ open' = [open EXCEPT ![s] = {}]
  /\ overrun' = overrun \ {s} /\ outdated' = outdated \ {s}
  /\ UNCHANGED turns

-----------------------------------------------------------------------------
Next ==
  \/ \E k \in Tasks, p \in Payloads : Create(k, p) \/ Update(k, p)
  \/ \E k \in Tasks : \/ CancelTask(k) \/ TimePasses(k) \/ NoTargets(k) \/ SendTask(k)
                      \/ SendBreaks(k) \/ TellTask(k) \/ TellBreaks(k)
  \/ Claim \/ TickBreaks \/ Restart
  \/ \E s \in Sessions : \/ CustomerMessage(s) \/ SalesMessage(s) \/ TakeOver(s) \/ Reset(s)
                         \/ TurnBegins(s) \/ TurnStores(s) \/ TurnDropped(s)

Spec == Init /\ [][Next]_vars

\* The worker ticks for ever and every task of a tick comes to an end.
FairSpec ==
  /\ Spec
  /\ WF_vars(Claim)
  /\ \A k \in Tasks : WF_vars(NoTargets(k) \/ SendTask(k) \/ SendBreaks(k))
                      /\ WF_vars(TellTask(k))

-----------------------------------------------------------------------------
(* Properties.                                                             *)

\* Every column has its type, and a claimed task is running.
\* (ScheduledMessageTask)
TypeOK ==
  /\ status \in [Tasks -> Status]
  /\ payload \in [Tasks -> Payload]
  /\ sent \in [Tasks -> SUBSET Sessions] /\ chosen \in [Tasks -> SUBSET Sessions]
  /\ due \in [Tasks -> BOOLEAN]
  /\ todo \subseteq Tasks /\ telling \subseteq Tasks /\ orphans \subseteq Tasks
  /\ handling \in BOOLEAN
  /\ stage \in [Sessions -> Stages] /\ transfer_flag \in [Sessions -> BOOLEAN]
  /\ sop \subseteq Sessions /\ overrun \subseteq Sessions /\ outdated \subseteq Sessions
  /\ waiting \in [Sessions -> Nat]
  /\ {got, told, open} \subseteq [Sessions -> SUBSET Tasks]
  /\ turns \in [Sessions -> SUBSET SUBSET Tasks]
  /\ {edits, events, restarts} \subseteq Nat

\* A manual task reaches nobody but the sessions the operator selected, also
\* when they are reset before it is sent.  (resolve_scheduled_message_targets)
ManualReachesChosen ==
  [][\A s \in Sessions, k \in Tasks :
       k \in got'[s] \ got[s] /\ payload[k].mode = "manual" => s \in chosen[k]]_vars

\* The sessions a task says it was sent to have its message, unless they were
\* reset since.  (mark_scheduled_message_task_sent, clear_session_activity)
SentAsReported ==
  \A k \in Tasks : \A s \in sent[k] : k \in got[s]

\* A task that is reported as sent is not sent again: nobody may edit it.
\* (update_scheduled_message_task)
SentIsFinal ==
  [][\A k \in Tasks : status[k] = "sent" =>
       /\ status'[k] \in {"sent", "failed"}
       /\ \A s \in Sessions : k \in got'[s] => k \in got[s]]_vars

\* Only a task that is due and switched on sends anything, however late it was
\* switched off.  (claim_due_, update_ and cancel_scheduled_message_task)
SwitchedOffStays ==
  [][\A s \in Sessions, k \in Tasks :
       k \in got'[s] \ got[s] => payload[k].enabled /\ due[k]]_vars

\* A scheduled message leaves its session with one waiting follow-up and its turn
\* closed, unless its changes were discarded by the refresh for a later target of
\* the same task; and it is in the memory and the message count, unless somebody
\* who had loaded them before stored them afterwards: until the session is reset.
\* (_process_scheduled_message_task, get_state, save_memory)
WholeUnlessOverrun ==
  \A s \in Sessions \ overrun :
    /\ waiting[s] <= 1 /\ open[s] = {}
    /\ s \notin outdated => told[s] = got[s]

With(values) == {k \in Tasks : status[k] \in values}

Promise == INSTANCE Mailing WITH
  standing <- {k \in With({"pending"}) : payload[k].enabled},
  held     <- todo,
  lost     <- With({"running"}) \ todo,
  reported <- With({"sent"}),
  meant    <- [k \in Tasks |-> IF payload[k].mode = "manual" THEN chosen[k] ELSE Sessions]

\* However operators, the clock, failing ticks and restarts interleave, a task
\* is an order that is carried out once at most each time it is placed, for
\* those it is meant for, and stays as it is once it is claimed or reported.
\* (update_scheduled_message_task, claim_due_scheduled_message_tasks)
KeepsOrders == Promise!Spec

\* A task that is due and enabled is claimed, and one that is claimed is
\* settled, unless its tick ends early.  (_run_once)
TasksSettle ==
  \A k \in Tasks :
    /\ Claimable(k) ~> ~Claimable(k)
    /\ (status[k] = "running") ~> (status[k] # "running" \/ k \in orphans)
=============================================================================
