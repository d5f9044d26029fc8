------------------------ MODULE ScheduledTaskProofs ------------------------
(***************************************************************************)
(* What holds of scheduled messages for any tasks, sessions, payloads and  *)
(* limits: what a task may be claimed, sent and reported for, what it      *)
(* leaves in the sessions, and that it keeps the promise of Mailing.       *)
(***************************************************************************)
EXTENDS ScheduledTask, TLAPS

-----------------------------------------------------------------------------
(* Types.                                                                  *)

LEMMA InitType == Init => TypeOK
<1> SUFFICES ASSUME Init PROVE TypeOK
  OBVIOUS
<1>1. payload \in [Tasks -> Payload] /\ chosen \in [Tasks -> SUBSET Sessions]
  <2>1. payload \in [Tasks -> Payload]
    BY StagesAssumption DEF Init, NoPayload, Payload
  <2> QED BY <2>1 DEF Init
<1>2. status \in [Tasks -> Status]
  BY DEF Init, Status
<1>3. /\ sent \in [Tasks -> SUBSET Sessions] /\ due \in [Tasks -> BOOLEAN]
      /\ stage \in [Sessions -> Stages] /\ transfer_flag \in [Sessions -> BOOLEAN]
      /\ waiting \in [Sessions -> Nat]
      /\ {got, told, open} \subseteq [Sessions -> SUBSET Tasks]
      /\ turns \in [Sessions -> SUBSET SUBSET Tasks]
  BY StagesAssumption DEF Init
<1>4. /\ todo \subseteq Tasks /\ telling \subseteq Tasks /\ orphans \subseteq Tasks
      /\ handling \in BOOLEAN /\ sop \subseteq Sessions /\ overrun \subseteq Sessions
      /\ outdated \subseteq Sessions
  BY DEF Init
<1>5. {edits, events, restarts} \subseteq Nat
  BY DEF Init
<1> QED BY <1>1, <1>2, <1>3, <1>4, <1>5 DEF TypeOK

\* Switching a task off leaves its other columns, and all other tasks.
LEMMA SwitchedOff ==
  ASSUME TypeOK, NEW k \in Tasks, payload' = [payload EXCEPT ![k].enabled = FALSE]
  PROVE  /\ payload' \in [Tasks -> Payload]
         /\ \A j \in Tasks \ {k} : payload'[j] = payload[j]
         /\ \A j \in Tasks : /\ payload'[j].selected = payload[j].selected
                            /\ payload'[j].mode = payload[j].mode
<1>1. payload \in [Tasks -> Payload]
  BY DEF TypeOK
<1>2. payload' = [payload EXCEPT ![k] = [payload[k] EXCEPT !.enabled = FALSE]]
  OBVIOUS
<1> DEFINE off == [payload[k] EXCEPT !.enabled = FALSE]
<1>3. off \in Payload /\ off.selected = payload[k].selected /\ off.mode = payload[k].mode
  <2>1. payload[k] \in Payload
    BY <1>1
  <2> QED BY <2>1, Zenon DEF Payload
<1> HIDE DEF off
<1>4. payload' = [payload EXCEPT ![k] = off]
  BY <1>2 DEF off
<1> QED BY <1>1, <1>3, <1>4

\* Settling a task leaves statuses and payloads.
LEMMA SettledType ==
  ASSUME TypeOK, NEW k \in Tasks, NEW outcome \in Status, Settled(k, outcome)
  PROVE  status' \in [Tasks -> Status] /\ payload' \in [Tasks -> Payload]
BY SwitchedOff DEF Settled, TypeOK

LEMMA TargetsType == ASSUME NEW k \in Tasks PROVE Targets(k) \subseteq Sessions
BY DEF Targets

\* What is waiting is a number.
LEMMA RescheduledType ==
  ASSUME TypeOK, NEW s \in Sessions, NEW stored
  PROVE  Rescheduled(s, stored) \in Nat
BY DEF Rescheduled, TypeOK

\* Sending to some sessions leaves the chat with its types.
LEMMA SentType ==
  ASSUME TypeOK, NEW k \in Tasks, NEW reached \in SUBSET Sessions, NEW last \in reached,
         Sent(k, reached, last)
  PROVE  /\ stage' \in [Sessions -> Stages] /\ transfer_flag' \in [Sessions -> BOOLEAN]
         /\ sop' \subseteq Sessions /\ overrun' \subseteq Sessions
         /\ waiting' \in [Sessions -> Nat]
         /\ {got', told', open'} \subseteq [Sessions -> SUBSET Tasks]
         /\ UNCHANGED <<turns, outdated>>
<1>1. waiting' \in [Sessions -> Nat]
  <2> DEFINE left(s) == Rescheduled(s, s \in {t \in reached : Stored(t, last)})
  <2>1. waiting' = [s \in Sessions |-> IF s \in reached THEN left(s) ELSE waiting[s]]
    BY DEF Sent
  <2>2. \A s \in Sessions : left(s) \in Nat /\ waiting[s] \in Nat
    BY RescheduledType DEF TypeOK
  <2> HIDE DEF left
  <2> QED BY <2>1, <2>2
<1>2. {got', told', open'} \subseteq [Sessions -> SUBSET Tasks]
  <2>1. got' \in [Sessions -> SUBSET Tasks]
    BY DEF Sent, TypeOK
  <2>2. told' \in [Sessions -> SUBSET Tasks]
    BY DEF Sent, TypeOK
  <2>3. open' \in [Sessions -> SUBSET Tasks]
    BY DEF Sent, TypeOK
  <2> QED BY <2>1, <2>2, <2>3
<1>3. /\ stage' \in [Sessions -> Stages] /\ transfer_flag' \in [Sessions -> BOOLEAN]
      /\ sop' \subseteq Sessions /\ overrun' \subseteq Sessions /\ UNCHANGED <<turns, outdated>>
  BY DEF Sent, TypeOK
<1> QED BY <1>1, <1>2, <1>3

\* An operator's edit leaves payloads, selections and dates.
LEMMA WrittenType ==
  ASSUME TypeOK, NEW k \in Tasks, NEW p \in Payloads, Written(k, p)
  PROVE  /\ payload' \in [Tasks -> Payload] /\ chosen' \in [Tasks -> SUBSET Sessions]
         /\ due' \in [Tasks -> BOOLEAN] /\ edits' \in Nat
<1>1. p \in Payload /\ p.selected \in SUBSET Sessions
  BY PayloadsAssumption DEF Payload
<1> QED BY <1>1, LimitsAssumption DEF Written, TypeOK

\* What happens in a session beside the scheduler, but for a reset.
Talk(s) ==
  \/ CustomerMessage(s) \/ SalesMessage(s) \/ TakeOver(s)
  \/ TurnBegins(s) \/ TurnStores(s) \/ TurnDropped(s)

\* It leaves tasks, reports and messages, and the memory as it is, or one that
\* was loaded before; and one follow-up waiting more only if it cancels the others.
TalkLeaves(s) ==
  /\ Beside /\ UNCHANGED <<payload, sent, got, open, overrun>>
  /\ \E n : n \in {waiting[s], 0, Rescheduled(s, TRUE)} /\ waiting' = [waiting EXCEPT ![s] = n]
  /\ \/ UNCHANGED <<told, outdated>>
     \/ \E memory \in turns[s] :
          /\ told' = [told EXCEPT ![s] = memory]
          /\ outdated' = IF memory = told[s] THEN outdated ELSE outdated \cup {s}

LEMMA TalkSteps ==
  ASSUME TypeOK, NEW s \in Sessions, Talk(s)
  PROVE  TalkLeaves(s)
<1> DEFINE Waits == \E n : /\ n \in {waiting[s], 0, Rescheduled(s, TRUE)}
                           /\ waiting' = [waiting EXCEPT ![s] = n]
<1>1. waiting = [waiting EXCEPT ![s] = waiting[s]]
  BY DEF TypeOK
<1>2. CASE CustomerMessage(s) \/ SalesMessage(s) \/ TakeOver(s)
  <2>1. Waits
    BY <1>2 DEF CustomerMessage, SalesMessage, TakeOver
  <2> QED BY <1>2, <2>1 DEF CustomerMessage, SalesMessage, TakeOver, Event, TalkLeaves
<1>3. CASE TurnBegins(s)
  <2>1. Waits
    BY <1>1, <1>3 DEF TurnBegins
  <2> QED BY <1>3, <2>1 DEF TurnBegins, Event, TalkLeaves
<1>4. CASE TurnStores(s)
  <2>1. waiting' = waiting \/ waiting' = [waiting EXCEPT ![s] = 0]
    BY <1>4 DEF TurnStores
  <2>2. Waits
    BY <1>1, <2>1
  <2> QED BY <1>4, <2>2 DEF TurnStores, TalkLeaves
<1>5. CASE TurnDropped(s)
  <2>1. waiting' = waiting \/ waiting' = [waiting EXCEPT ![s] = 0]
    BY <1>5 DEF TurnDropped
  <2>2. Waits
    BY <1>1, <2>1
  <2> QED BY <1>5, <2>2 DEF TurnDropped, TalkLeaves
<1> QED BY <1>2, <1>3, <1>4, <1>5 DEF Talk

TalkType(s) ==
  /\ Beside /\ UNCHANGED <<payload, sent, got, open, overrun>>
  /\ stage' \in [Sessions -> Stages] /\ transfer_flag' \in [Sessions -> BOOLEAN]
  /\ sop' \subseteq Sessions /\ outdated' \subseteq Sessions
  /\ waiting' \in [Sessions -> Nat] /\ told' \in [Sessions -> SUBSET Tasks]
  /\ turns' \in [Sessions -> SUBSET SUBSET Tasks]
  /\ events' \in Nat

LEMMA TalkTypes ==
  ASSUME TypeOK, NEW s \in Sessions, Talk(s)
  PROVE  TalkType(s)
<1>1. TalkLeaves(s)
  BY TalkSteps
<1>2. waiting' \in [Sessions -> Nat]
  <2> DEFINE more == Rescheduled(s, TRUE)
  <2>1. waiting \in [Sessions -> Nat] /\ more \in Nat
    BY RescheduledType DEF TypeOK
  <2>2. PICK n : n \in {waiting[s], 0, more} /\ waiting' = [waiting EXCEPT ![s] = n]
    BY <1>1 DEF TalkLeaves
  <2> HIDE DEF more
  <2>3. n \in Nat
    BY <2>1, <2>2
  <2> QED BY <2>1, <2>2, <2>3
<1>3. told' \in [Sessions -> SUBSET Tasks] /\ outdated' \subseteq Sessions
  BY <1>1 DEF TalkLeaves, TypeOK
<1>4. /\ stage' \in [Sessions -> Stages] /\ transfer_flag' \in [Sessions -> BOOLEAN]
      /\ sop' \subseteq Sessions
  <2>1. /\ stage \in [Sessions -> Stages] /\ transfer_flag \in [Sessions -> BOOLEAN]
        /\ sop \subseteq Sessions
    BY DEF TypeOK
  <2>2. CASE CustomerMessage(s) \/ SalesMessage(s) \/ TakeOver(s)
    BY <2>1, <2>2 DEF CustomerMessage, SalesMessage, TakeOver
  <2>3. CASE TurnBegins(s) \/ TurnDropped(s)
    BY <2>1, <2>3 DEF TurnBegins, TurnDropped
  <2>4. CASE TurnStores(s)
    BY <2>1, <2>4 DEF TurnStores
  <2> QED BY <2>2, <2>3, <2>4 DEF Talk
<1>5. turns' \in [Sessions -> SUBSET SUBSET Tasks]
  <2>1. told[s] \in SUBSET Tasks /\ turns \in [Sessions -> SUBSET SUBSET Tasks]
    BY DEF TypeOK
  <2>2. \/ turns' = turns \/ turns' = [turns EXCEPT ![s] = @ \cup {told[s]}]
        \/ \E memory \in turns[s] : turns' = [turns EXCEPT ![s] = @ \ {memory}]
    <3>1. CASE CustomerMessage(s) \/ SalesMessage(s) \/ TakeOver(s)
      BY <3>1 DEF CustomerMessage, SalesMessage, TakeOver
    <3>2. CASE TurnBegins(s)
      BY <3>2 DEF TurnBegins
    <3>3. CASE TurnStores(s)
      BY <3>3, Zenon DEF TurnStores, Ended
    <3>4. CASE TurnDropped(s)
      BY <3>4, Zenon DEF TurnDropped, Ended
    <3> QED BY <3>1, <3>2, <3>3, <3>4 DEF Talk
  <2> QED BY <2>1, <2>2
<1>6. events' \in Nat
  <2>1. events \in Nat
    BY DEF TypeOK
  <2>2. events' = events \/ events' = events + 1
    <3>1. CASE CustomerMessage(s) \/ SalesMessage(s) \/ TakeOver(s)
      BY <3>1 DEF CustomerMessage, SalesMessage, TakeOver, Event
    <3>2. CASE TurnBegins(s)
      BY <3>2 DEF TurnBegins, Event
    <3>3. CASE TurnStores(s)
      BY <3>3 DEF TurnStores
    <3>4. CASE TurnDropped(s)
      BY <3>4 DEF TurnDropped
    <3> QED BY <3>1, <3>2, <3>3, <3>4 DEF Talk
  <2> QED BY <2>1, <2>2
<1> QED BY <1>1, <1>2, <1>3, <1>4, <1>5, <1>6 DEF TalkLeaves, TalkType

THEOREM TypeStep == TypeOK /\ [Next]_vars => TypeOK'
<1> SUFFICES ASSUME TypeOK, [Next]_vars PROVE TypeOK'
  OBVIOUS
<1>1. CASE \E k \in Tasks, p \in Payloads : Create(k, p) \/ Update(k, p)
  <2> PICK k \in Tasks, p \in Payloads : Create(k, p) \/ Update(k, p)
    BY <1>1
  <2>1. Written(k, p) /\ status' \in [Tasks -> Status]
    BY DEF Create, Update, TypeOK, Status
  <2>2. UNCHANGED <<sent, scheduler, chat, overrun, orphans, events, restarts>>
    BY <2>1 DEF Written
  <2> QED BY <2>1, <2>2, WrittenType DEF TypeOK, scheduler, chat
<1>2. CASE \E k \in Tasks : CancelTask(k) \/ TimePasses(k)
  <2> PICK k \in Tasks : CancelTask(k) \/ TimePasses(k)
    BY <1>2
  <2>1. status' \in [Tasks -> Status]
    BY DEF CancelTask, TimePasses, TypeOK, Status
  <2>2. payload' \in [Tasks -> Payload]
    <3>1. [payload[k] EXCEPT !.enabled = FALSE] \in Payload
      <4>1. payload[k] \in Payload
        BY DEF TypeOK
      <4> QED BY <4>1, Zenon DEF Payload
    <3>2. \/ payload' = payload
          \/ payload' = [payload EXCEPT ![k] = [payload[k] EXCEPT !.enabled = FALSE]]
      BY DEF CancelTask, TimePasses
    <3> QED BY <3>1, <3>2 DEF TypeOK
  <2>3. due' \in [Tasks -> BOOLEAN]
    BY DEF CancelTask, TimePasses, TypeOK
  <2>4. {edits', events', restarts'} \subseteq Nat
    BY DEF CancelTask, TimePasses, TypeOK
  <2>5. UNCHANGED <<sent, chosen, scheduler, chat, overrun, orphans>>
    BY DEF CancelTask, TimePasses
  <2> QED BY <2>1, <2>2, <2>3, <2>4, <2>5 DEF TypeOK, scheduler, chat
<1>3. CASE \E k \in Tasks : NoTargets(k) \/ SendTask(k) \/ SendBreaks(k)
  <2> PICK k \in Tasks : NoTargets(k) \/ SendTask(k) \/ SendBreaks(k)
    BY <1>3
  <2>1. status' \in [Tasks -> Status] /\ payload' \in [Tasks -> Payload]
    BY SettledType DEF NoTargets, SendTask, SendBreaks, Status
  <2>2. /\ due' \in [Tasks -> BOOLEAN] /\ chosen' \in [Tasks -> SUBSET Sessions]
        /\ orphans' \subseteq Tasks /\ {edits', events', restarts'} \subseteq Nat
        /\ todo' \subseteq Tasks
    BY DEF NoTargets, SendTask, SendBreaks, TaskStep, TypeOK
  <2>3. /\ sent' \in [Tasks -> SUBSET Sessions]
        /\ telling' \subseteq Tasks /\ handling' \in BOOLEAN
    <3>1. Targets(k) \in SUBSET Sessions
      BY TargetsType
    <3>2. /\ sent' = sent \/ sent' = [sent EXCEPT ![k] = Targets(k)]
          /\ telling' = telling \/ telling' = {k}
          /\ handling' = handling \/ handling' = FALSE \/ handling' = TRUE
      BY DEF NoTargets, SendTask, SendBreaks
    <3>3. sent \in [Tasks -> SUBSET Sessions] /\ telling \subseteq Tasks /\ handling \in BOOLEAN
      BY DEF TypeOK
    <3> QED BY <3>1, <3>2, <3>3
  <2>4. \/ UNCHANGED <<chat, overrun>>
        \/ \E reached \in SUBSET Sessions : \E last \in reached : Sent(k, reached, last)
    BY TargetsType DEF NoTargets, SendTask, SendBreaks
  <2>5. CASE UNCHANGED <<chat, overrun>>
    BY <2>1, <2>2, <2>3, <2>5 DEF TypeOK, chat
  <2>6. CASE \E reached \in SUBSET Sessions : \E last \in reached : Sent(k, reached, last)
    BY <2>1, <2>2, <2>3, <2>6, SentType DEF TypeOK
  <2> QED BY <2>4, <2>5, <2>6
<1>4. CASE \E k \in Tasks : TellTask(k) \/ TellBreaks(k)
  <2>1. status' \in [Tasks -> Status] /\ payload' \in [Tasks -> Payload]
    BY <1>4, SettledType DEF TellTask, TellBreaks, Status, TypeOK, operators
  <2> QED BY <1>4, <2>1 DEF TellTask, TellBreaks, TypeOK, operators, chat
<1>5. CASE Claim
  BY <1>5 DEF Claim, TypeOK, Status, Claimable, chat
<1>6. CASE TickBreaks \/ Restart
  <2>1. TickEnds /\ restarts' \in Nat
    BY <1>6 DEF TickBreaks, Restart, TypeOK
  <2>2. /\ turns' \in [Sessions -> SUBSET SUBSET Tasks]
        /\ UNCHANGED <<stage, transfer_flag, sop, waiting, got, told, open, outdated>>
    BY <1>6 DEF TickBreaks, Restart, TypeOK, chat
  <2> QED BY <2>1, <2>2 DEF TickEnds, TypeOK, operators
<1>7. CASE \E s \in Sessions : Talk(s)
  <2> PICK s \in Sessions : Talk(s)
    BY <1>7
  <2>1. TalkType(s)
    BY TalkTypes
  <2> QED BY <2>1 DEF TalkType, Beside, TypeOK, scheduler
<1>8. CASE \E s \in Sessions : Reset(s)
  <2> PICK s \in Sessions : Reset(s)
    BY <1>8
  <2>1. payload' \in [Tasks -> Payload] /\ sent' \in [Tasks -> SUBSET Sessions]
    <3>1. \A p \in Payload : [p EXCEPT !.selected = @ \ {s}] \in Payload
      BY Zenon DEF Payload
    <3> QED BY <3>1 DEF Reset, WithoutSession, TypeOK
  <2>2. {got', told', open'} \subseteq [Sessions -> SUBSET Tasks]
    BY DEF Reset, TypeOK
  <2> QED BY <2>1, <2>2, StagesAssumption DEF Reset, Event, Beside, TypeOK, scheduler
<1>9. CASE UNCHANGED vars
  BY <1>9 DEF TypeOK, vars, operators, scheduler, chat
<1> QED BY <1>1, <1>2, <1>3, <1>4, <1>5, <1>6, <1>7, <1>8, <1>9 DEF Next, Talk

\* Every column of tasks and sessions keeps its type.
THEOREM TypeCorrect == Spec => []TypeOK
<1>1. Init => TypeOK
  BY InitType
<1>2. TypeOK /\ [Next]_vars => TypeOK'
  BY TypeStep
<1> QED BY <1>1, <1>2, PTL DEF Spec

-----------------------------------------------------------------------------
(* What a tick has claimed.                                                *)

\* A task the tick has still to send is running, switched on and due; the one
\* that is being told of is not among them; what a task has selected, the
\* operator had chosen.
InHand == \A k \in todo : status[k] = "running" /\ payload[k].enabled /\ due[k]
ToldApart == telling \cap todo = {}
SelectedWasChosen == \A k \in Tasks : payload[k].selected \subseteq chosen[k]
Claimed == InHand /\ ToldApart /\ SelectedWasChosen

LEMMA ClaimedInit == Init => Claimed
BY DEF Init, NoPayload, Claimed, InHand, ToldApart, SelectedWasChosen

\* What is done to one task in hand leaves the others as they are.
LEMMA SettledOthers ==
  ASSUME TypeOK, NEW k \in Tasks, NEW outcome, Settled(k, outcome)
  PROVE  /\ \A j \in Tasks \ {k} : status'[j] = status[j] /\ payload'[j] = payload[j]
         /\ \A j \in Tasks : payload'[j].selected = payload[j].selected
<1>1. \A j \in Tasks \ {k} : status'[j] = status[j]
  BY DEF Settled, TypeOK
<1> QED BY <1>1, SwitchedOff DEF Settled

\* An edit of a task that is not in hand.
LEMMA EditKeepsClaimed ==
  ASSUME TypeOK, Claimed, NEW k \in Tasks, NEW p \in Payloads,
         Create(k, p) \/ Update(k, p)
  PROVE  Claimed'
<1>1. k \notin todo
  BY DEF Create, Update, Editable, Claimed, InHand
<1>2. todo' = todo /\ telling' = telling
  BY DEF Create, Update, Written, scheduler
<1>3. \A j \in Tasks \ {k} : /\ status'[j] = status[j] /\ payload'[j] = payload[j]
                            /\ due'[j] = due[j] /\ chosen'[j] = chosen[j]
  BY DEF Create, Update, Written, TypeOK
<1>4. payload'[k] = p /\ chosen'[k] = p.selected
  BY DEF Create, Update, Written, TypeOK
<1>5. todo \subseteq Tasks
  BY DEF TypeOK
<1>6. InHand'
  BY <1>1, <1>2, <1>3, <1>5 DEF Claimed, InHand
<1>7. ToldApart'
  BY <1>2 DEF Claimed, ToldApart
<1>8. SelectedWasChosen'
  BY <1>3, <1>4 DEF Claimed, SelectedWasChosen
<1> QED BY <1>6, <1>7, <1>8 DEF Claimed

THEOREM ClaimedStep == TypeOK /\ Claimed /\ [Next]_vars => Claimed'
<1> SUFFICES ASSUME TypeOK, Claimed, [Next]_vars PROVE Claimed'
  OBVIOUS
<1>1. CASE \E k \in Tasks, p \in Payloads : Create(k, p) \/ Update(k, p)
  BY <1>1, EditKeepsClaimed
<1>2. CASE \E k \in Tasks : CancelTask(k)
  <2> PICK k \in Tasks : CancelTask(k)
    BY <1>2
  <2>1. k \notin todo
    BY DEF CancelTask, Editable, Claimed, InHand
  <2>2. \A j \in Tasks \ {k} : status'[j] = status[j] /\ payload'[j] = payload[j]
    BY DEF CancelTask, TypeOK
  <2>3. \A j \in Tasks : payload'[j].selected = payload[j].selected
    BY SwitchedOff DEF CancelTask
  <2>4. todo' = todo /\ telling' = telling /\ due' = due /\ chosen' = chosen
    BY DEF CancelTask, scheduler
  <2>5. todo \subseteq Tasks
    BY DEF TypeOK
  <2> QED BY <2>1, <2>2, <2>3, <2>4, <2>5
          DEF Claimed, InHand, ToldApart, SelectedWasChosen
<1>3. CASE \E k \in Tasks : TimePasses(k)
  BY <1>3 DEF TimePasses, Claimed, InHand, ToldApart, SelectedWasChosen, TypeOK, scheduler
<1>4. CASE \E k \in Tasks : NoTargets(k) \/ SendTask(k) \/ SendBreaks(k)
  <2> PICK k \in Tasks : NoTargets(k) \/ SendTask(k) \/ SendBreaks(k)
    BY <1>4
  <2>1. /\ todo' = todo \ {k} /\ due' = due /\ chosen' = chosen
        /\ telling' \subseteq telling \cup {k}
    BY DEF NoTargets, SendTask, SendBreaks, TaskStep
  <2>2. /\ \A j \in Tasks \ {k} : status'[j] = status[j] /\ payload'[j] = payload[j]
        /\ \A j \in Tasks : payload'[j].selected = payload[j].selected
    BY SettledOthers DEF NoTargets, SendTask, SendBreaks
  <2>3. todo \subseteq Tasks
    BY DEF TypeOK
  <2> QED BY <2>1, <2>2, <2>3 DEF Claimed, InHand, ToldApart, SelectedWasChosen
<1>5. CASE \E k \in Tasks : TellTask(k)
  BY <1>5 DEF TellTask, Claimed, InHand, ToldApart, SelectedWasChosen, operators
<1>6. CASE \E k \in Tasks : TellBreaks(k)
  <2> PICK k \in Tasks : TellBreaks(k)
    BY <1>6
  <2>1. /\ k \in telling /\ telling' = telling /\ todo' = todo
        /\ due' = due /\ chosen' = chosen
    BY DEF TellBreaks
  <2>2. /\ \A j \in Tasks \ {k} : status'[j] = status[j] /\ payload'[j] = payload[j]
        /\ \A j \in Tasks : payload'[j].selected = payload[j].selected
    BY SettledOthers DEF TellBreaks
  <2>3. todo \subseteq Tasks /\ k \notin todo
    BY <2>1 DEF TypeOK, Claimed, ToldApart
  <2> QED BY <2>1, <2>2, <2>3 DEF Claimed, InHand, ToldApart, SelectedWasChosen
<1>7. CASE Claim
  BY <1>7 DEF Claim, Claimable, Claimed, InHand, ToldApart, SelectedWasChosen, TypeOK
<1>8. CASE TickBreaks \/ Restart
  <2>1. TickEnds
    BY <1>8 DEF TickBreaks, Restart
  <2> QED BY <2>1 DEF TickEnds, Claimed, InHand, ToldApart, SelectedWasChosen, operators
<1>9. CASE \E s \in Sessions : Talk(s)
  <2>1. UNCHANGED <<status, payload, due, chosen, todo, telling>>
    BY <1>9, TalkSteps DEF TalkLeaves, Beside, scheduler
  <2> QED BY <2>1 DEF Claimed, InHand, ToldApart, SelectedWasChosen
<1>10. CASE \E s \in Sessions : Reset(s)
  <2> PICK s \in Sessions : Reset(s)
    BY <1>10
  <2>1. UNCHANGED <<status, due, chosen, todo, telling>>
    BY DEF Reset, Event, Beside, scheduler
  <2>2. \A k \in Tasks : /\ payload'[k].enabled = payload[k].enabled
                        /\ payload'[k].selected \subseteq payload[k].selected
    <3>1. \A k \in Tasks : payload[k] \in Payload
      BY DEF TypeOK
    <3>2. payload' = [k \in Tasks |-> [payload[k] EXCEPT !.selected = @ \ {s}]]
      BY DEF Reset, WithoutSession
    <3> QED BY <3>1, <3>2 DEF Payload
  <2>3. todo \subseteq Tasks
    BY DEF TypeOK
  <2> QED BY <2>1, <2>2, <2>3 DEF Claimed, InHand, ToldApart, SelectedWasChosen
<1>11. CASE UNCHANGED vars
  BY <1>11 DEF Claimed, InHand, ToldApart, SelectedWasChosen, vars, operators, scheduler
<1> QED BY <1>1, <1>2, <1>3, <1>4, <1>5, <1>6, <1>7, <1>8, <1>9, <1>10, <1>11 DEF Next, Talk

LEMMA ClaimedAlways == Spec => [](TypeOK /\ Claimed)
<1>1. Init => TypeOK /\ Claimed
  BY InitType, ClaimedInit
<1>2. TypeOK /\ Claimed /\ [Next]_vars => (TypeOK /\ Claimed)'
  BY TypeStep, ClaimedStep
<1> QED BY <1>1, <1>2, PTL DEF Spec

-----------------------------------------------------------------------------
(* Who gets a message.                                                     *)

\* A message is new in a session only because its task was in hand and the
\* session is one of its targets.
LEMMA OnlyTargetsGet ==
  ASSUME TypeOK, [Next]_vars, NEW k \in Tasks, NEW s \in Sessions, k \in got'[s] \ got[s]
  PROVE  k \in todo /\ s \in Targets(k)
<1>1. CASE \E j \in Tasks : SendTask(j) \/ SendBreaks(j)
  <2> PICK j \in Tasks : SendTask(j) \/ SendBreaks(j)
    BY <1>1
  <2>1. j \in todo
    BY DEF SendTask, SendBreaks, TaskStep
  <2>2. \/ got' = got
        \/ \E reached \in SUBSET Targets(j) : \E last \in reached : Sent(j, reached, last)
    BY DEF SendTask, SendBreaks, chat
  <2>3. PICK reached \in SUBSET Targets(j) :
          got' = [t \in Sessions |-> IF t \in reached THEN got[t] \cup {j} ELSE got[t]]
    BY <2>2 DEF Sent
  <2> QED BY <2>1, <2>3
<1>2. CASE \E t \in Sessions : Reset(t)
  BY <1>2 DEF Reset, TypeOK
<1>3. CASE got' = got
  BY <1>3
<1>4. CASE \E j \in Tasks, p \in Payloads : Create(j, p) \/ Update(j, p)
  <2>1. got' = got
    BY <1>4 DEF Create, Update, Written, chat
  <2> QED BY <2>1, <1>3
<1>5. CASE \E j \in Tasks : \/ CancelTask(j) \/ TimePasses(j) \/ NoTargets(j)
                           \/ TellTask(j) \/ TellBreaks(j)
  <2>1. got' = got
    BY <1>5 DEF CancelTask, TimePasses, NoTargets, TellTask, TellBreaks, chat
  <2> QED BY <2>1, <1>3
<1>6. CASE Claim \/ TickBreaks \/ Restart
  <2>1. got' = got
    BY <1>6 DEF Claim, TickBreaks, Restart, TickEnds, chat
  <2> QED BY <2>1, <1>3
<1>7. CASE \E t \in Sessions : Talk(t)
  <2>1. got' = got
    BY <1>7, TalkSteps DEF TalkLeaves
  <2> QED BY <2>1, <1>3
<1>8. CASE UNCHANGED vars
  <2>1. got' = got
    BY <1>8 DEF vars, chat
  <2> QED BY <2>1, <1>3
<1> QED BY <1>1, <1>2, <1>4, <1>5, <1>6, <1>7, <1>8 DEF Next, Talk

\* A manual task reaches nobody the operator did not select.
THEOREM ManualTasksReachChosen == Spec => ManualReachesChosen
<1>1. TypeOK /\ Claimed /\ [Next]_vars =>
        [\A s \in Sessions, k \in Tasks :
           k \in got'[s] \ got[s] /\ payload[k].mode = "manual" => s \in chosen[k]]_vars
  <2> SUFFICES ASSUME TypeOK, Claimed, [Next]_vars, NEW s \in Sessions, NEW k \in Tasks,
                      k \in got'[s] \ got[s], payload[k].mode = "manual"
               PROVE  s \in chosen[k]
    OBVIOUS
  <2>1. s \in Targets(k)
    BY OnlyTargetsGet
  <2>2. s \in payload[k].selected
    BY <2>1 DEF Targets
  <2> QED BY <2>2 DEF Claimed, SelectedWasChosen
<1> QED BY <1>1, ClaimedAlways, PTL DEF Spec, ManualReachesChosen

\* Only a task that is due and switched on sends anything.
THEOREM SwitchedOffSendsNothing == Spec => SwitchedOffStays
<1>1. TypeOK /\ Claimed /\ [Next]_vars =>
        [\A s \in Sessions, k \in Tasks :
           k \in got'[s] \ got[s] => payload[k].enabled /\ due[k]]_vars
  <2> SUFFICES ASSUME TypeOK, Claimed, [Next]_vars, NEW s \in Sessions, NEW k \in Tasks,
                      k \in got'[s] \ got[s]
               PROVE  payload[k].enabled /\ due[k]
    OBVIOUS
  <2>1. k \in todo
    BY OnlyTargetsGet
  <2> QED BY <2>1 DEF Claimed, InHand
<1> QED BY <1>1, ClaimedAlways, PTL DEF Spec, SwitchedOffStays

\* The status of a sent task can only turn into failed.
LEMMA SentStaysSettled ==
  ASSUME TypeOK, Claimed, [Next]_vars, NEW k \in Tasks, status[k] = "sent"
  PROVE  status'[k] \in {"sent", "failed"}
<1>1. CASE \E j \in Tasks, p \in Payloads : Create(j, p) \/ Update(j, p)
  BY <1>1 DEF Create, Update, Editable, TypeOK
<1>2. CASE \E j \in Tasks : CancelTask(j) \/ TimePasses(j)
  BY <1>2 DEF CancelTask, TimePasses, Editable, TypeOK
<1>3. CASE \E j \in Tasks : NoTargets(j) \/ SendTask(j) \/ SendBreaks(j)
  <2>1. PICK j \in Tasks, outcome \in {"sent", "failed"} : Settled(j, outcome)
    BY <1>3 DEF NoTargets, SendTask, SendBreaks
  <2> QED BY <2>1 DEF Settled, TypeOK
<1>4. CASE \E j \in Tasks : TellTask(j) \/ TellBreaks(j)
  BY <1>4 DEF TellTask, TellBreaks, Settled, TypeOK, operators
<1>5. CASE Claim
  BY <1>5 DEF Claim, Claimable
<1>6. CASE TickBreaks \/ Restart
  BY <1>6 DEF TickBreaks, Restart, TickEnds, operators
<1>7. CASE \E s \in Sessions : Talk(s) \/ Reset(s)
  BY <1>7, TalkSteps DEF TalkLeaves, Reset, Event, Beside
<1>8. CASE UNCHANGED vars
  BY <1>8 DEF vars, operators
<1> QED BY <1>1, <1>2, <1>3, <1>4, <1>5, <1>6, <1>7, <1>8 DEF Next, Talk

\* A task that is reported as sent is never sent again.
THEOREM SentTasksAreFinal == Spec => SentIsFinal
<1>1. TypeOK /\ Claimed /\ [Next]_vars =>
        [\A k \in Tasks : status[k] = "sent" =>
           /\ status'[k] \in {"sent", "failed"}
           /\ \A s \in Sessions : k \in got'[s] => k \in got[s]]_vars
  <2> SUFFICES ASSUME TypeOK, Claimed, [Next]_vars, NEW k \in Tasks, status[k] = "sent"
               PROVE  /\ status'[k] \in {"sent", "failed"}
                      /\ \A s \in Sessions : k \in got'[s] => k \in got[s]
    OBVIOUS
  <2>1. k \notin todo
    BY DEF Claimed, InHand
  <2>2. \A s \in Sessions : k \in got'[s] => k \in got[s]
    BY <2>1, OnlyTargetsGet
  <2> QED BY <2>2, SentStaysSettled
<1> QED BY <1>1, ClaimedAlways, PTL DEF Spec, SentIsFinal

-----------------------------------------------------------------------------
(* What a session is left with.                                            *)

\* What a step can do to the sessions: nothing, send a task, an event of its
\* own, or a reset.
LEMMA SessionSteps ==
  ASSUME [Next]_vars
  PROVE  \/ UNCHANGED <<got, told, open, waiting, overrun, outdated, sent>>
         \/ \E k \in Tasks : \E reached \in SUBSET Sessions : \E last \in reached :
              /\ Sent(k, reached, last)
              /\ sent' = sent \/ sent' = [sent EXCEPT ![k] = reached]
         \/ \E s \in Sessions : Talk(s)
         \/ \E s \in Sessions : Reset(s)
<1> DEFINE Still == UNCHANGED <<got, told, open, waiting, overrun, outdated, sent>>
           Sending == \E k \in Tasks : \E reached \in SUBSET Sessions : \E last \in reached :
                        /\ Sent(k, reached, last)
                        /\ sent' = sent \/ sent' = [sent EXCEPT ![k] = reached]
<1>1. CASE \E k \in Tasks, p \in Payloads : Create(k, p) \/ Update(k, p)
  <2>1. Still
    BY <1>1 DEF Create, Update, Written, chat
  <2> QED BY <2>1
<1>2. CASE \E k \in Tasks : \/ CancelTask(k) \/ TimePasses(k) \/ NoTargets(k)
                           \/ TellTask(k) \/ TellBreaks(k)
  <2>1. Still
    BY <1>2 DEF CancelTask, TimePasses, NoTargets, TellTask, TellBreaks, chat
  <2> QED BY <2>1
<1>3. CASE \E k \in Tasks : SendTask(k)
  <2> PICK k \in Tasks : SendTask(k)
    BY <1>3
  <2>1. PICK last \in Targets(k) : Sent(k, Targets(k), last)
    BY DEF SendTask
  <2>2. sent' = [sent EXCEPT ![k] = Targets(k)] /\ Targets(k) \in SUBSET Sessions
    BY TargetsType DEF SendTask
  <2>3. Sending
    BY <2>1, <2>2
  <2> QED BY <2>3
<1>4. CASE \E k \in Tasks : SendBreaks(k)
  <2> PICK k \in Tasks : SendBreaks(k)
    BY <1>4
  <2>1. sent' = sent
    BY DEF SendBreaks
  <2>2. \/ UNCHANGED <<chat, overrun>>
        \/ \E reached \in SUBSET Sessions : \E last \in reached : Sent(k, reached, last)
    BY TargetsType DEF SendBreaks
  <2>3. CASE UNCHANGED <<chat, overrun>>
    BY <2>1, <2>3 DEF chat
  <2>4. CASE \E reached \in SUBSET Sessions : \E last \in reached : Sent(k, reached, last)
    <3>1. Sending
      BY <2>1, <2>4
    <3> QED BY <3>1
  <2> QED BY <2>2, <2>3, <2>4
<1>5. CASE Claim \/ TickBreaks \/ Restart
  <2>1. Still
    BY <1>5 DEF Claim, TickBreaks, Restart, TickEnds, chat
  <2> QED BY <2>1
<1>6. CASE UNCHANGED vars
  <2>1. Still
    BY <1>6 DEF vars, chat
  <2> QED BY <2>1
<1> QED BY <1>1, <1>2, <1>3, <1>4, <1>5, <1>6 DEF Next, Talk

\* The report of a task stays below what the sessions have.
LEMMA SentAsReportedStep == TypeOK /\ SentAsReported /\ [Next]_vars => SentAsReported'
<1> SUFFICES ASSUME TypeOK, SentAsReported, [Next]_vars PROVE SentAsReported'
  OBVIOUS
<1> SUFFICES ASSUME NEW k \in Tasks, NEW s \in Sessions, s \in sent'[k]
             PROVE  k \in got'[s]
  <2>1. sent' \in [Tasks -> SUBSET Sessions]
    <3>1. TypeOK'
      BY TypeStep
    <3> QED BY <3>1 DEF TypeOK
  <2> QED BY <2>1 DEF SentAsReported
<1>1. s \in sent[k] => k \in got[s]
  BY DEF SentAsReported
<1>2. CASE \E j \in Tasks : \E reached \in SUBSET Sessions : \E last \in reached :
             Sent(j, reached, last) /\ (sent' = sent \/ sent' = [sent EXCEPT ![j] = reached])
  <2> PICK j \in Tasks, reached \in SUBSET Sessions : \E last \in reached :
        Sent(j, reached, last) /\ (sent' = sent \/ sent' = [sent EXCEPT ![j] = reached])
    BY <1>2
  <2>1. got' = [t \in Sessions |-> IF t \in reached THEN got[t] \cup {j} ELSE got[t]]
    BY DEF Sent
  <2>2. s \in sent[k] \/ (k = j /\ s \in reached)
    BY DEF TypeOK
  <2> QED BY <1>1, <2>1, <2>2
<1>3. CASE UNCHANGED <<got, sent>>
  BY <1>1, <1>3
<1>4. CASE \E t \in Sessions : Talk(t)
  BY <1>4, <1>3, TalkSteps DEF TalkLeaves
<1>5. CASE \E t \in Sessions : Reset(t)
  <2> PICK t \in Sessions : Reset(t)
    BY <1>5
  <2>1. s # t /\ s \in sent[k]
    BY DEF Reset, WithoutSession
  <2>2. got'[s] = got[s]
    BY <2>1 DEF Reset, TypeOK
  <2> QED BY <1>1, <2>1, <2>2
<1> QED BY <1>2, <1>3, <1>4, <1>5, SessionSteps

\* Whoever a task says it reached has its message.
THEOREM ReportsAreTrue == Spec => []SentAsReported
<1>1. Init => TypeOK /\ SentAsReported
  <2>1. Init => SentAsReported
    BY DEF Init, SentAsReported
  <2> QED BY <2>1, InitType
<1>2. TypeOK /\ SentAsReported /\ [Next]_vars => (TypeOK /\ SentAsReported)'
  BY TypeStep, SentAsReportedStep
<1> QED BY <1>1, <1>2, PTL DEF Spec

\* A follow-up that is scheduled is the only one, if the cancellation of the
\* others is stored.
LEMMA RescheduledIsOne ==
  ASSUME TypeOK, NEW s \in Sessions, waiting[s] <= 1
  PROVE  Rescheduled(s, TRUE) <= 1
BY DEF Rescheduled, TypeOK

\* A session is whole in each of its steps, or its changes were discarded.
LEMMA WholeStep == TypeOK /\ WholeUnlessOverrun /\ [Next]_vars => WholeUnlessOverrun'
<1> SUFFICES ASSUME TypeOK, WholeUnlessOverrun, [Next]_vars,
                    NEW s \in Sessions, s \notin overrun'
             PROVE  /\ waiting'[s] <= 1 /\ open'[s] = {}
                    /\ s \notin outdated' => told'[s] = got'[s]
  BY DEF WholeUnlessOverrun
<1> DEFINE Whole == /\ s \notin overrun /\ waiting[s] <= 1 /\ open[s] = {}
                    /\ s \notin outdated => told[s] = got[s]
<1>1. s \notin overrun => Whole
  BY DEF WholeUnlessOverrun
<1>2. CASE \E k \in Tasks : \E reached \in SUBSET Sessions : \E last \in reached :
             Sent(k, reached, last)
  <2> PICK k \in Tasks, reached \in SUBSET Sessions : \E last \in reached :
        Sent(k, reached, last)
    BY <1>2
  <2> PICK last \in reached : Sent(k, reached, last)
    OBVIOUS
  <2> DEFINE stored == {t \in reached : Stored(t, last)}
  <2>1. overrun' = overrun \cup (reached \ stored)
    BY DEF Sent
  <2>2. Whole /\ (s \in reached => s \in stored)
    BY <1>1, <2>1
  <2>3. open'[s] = IF s \in reached \ stored THEN open[s] \cup {k} ELSE open[s]
    BY DEF Sent
  <2>4. /\ got'[s] = IF s \in reached THEN got[s] \cup {k} ELSE got[s]
        /\ told'[s] = IF s \in stored THEN told[s] \cup {k} ELSE told[s]
    BY DEF Sent
  <2>5. waiting'[s] = IF s \in reached THEN Rescheduled(s, s \in stored) ELSE waiting[s]
    BY DEF Sent
  <2>6. stored \subseteq reached
    OBVIOUS
  <2>7. s \in stored => (s \in stored) = TRUE
    OBVIOUS
  <2> HIDE DEF stored
  <2>8. waiting'[s] <= 1
    <3>1. CASE s \in reached
      <4>1. waiting'[s] = Rescheduled(s, TRUE)
        BY <2>2, <2>5, <2>7, <3>1
      <4> QED BY <4>1, <2>2, RescheduledIsOne
    <3>2. CASE s \notin reached
      BY <2>2, <2>5, <3>2
    <3> QED BY <3>1, <3>2
  <2>9. outdated' = outdated
    BY DEF Sent
  <2> QED BY <2>2, <2>3, <2>4, <2>6, <2>8, <2>9
<1>3. CASE UNCHANGED <<got, told, open, waiting, overrun, outdated>>
  BY <1>1, <1>3
<1>4. CASE \E t \in Sessions : Talk(t)
  <2> PICK t \in Sessions : Talk(t)
    BY <1>4
  <2>0. TalkLeaves(t)
    BY TalkSteps
  <2>1. UNCHANGED <<got, open, overrun>>
    BY <2>0 DEF TalkLeaves
  <2>2. Whole
    BY <1>1, <2>1
  <2>3. waiting'[s] = waiting[s] \/ waiting'[s] = 0 \/ waiting'[s] = Rescheduled(s, TRUE)
    BY <2>0 DEF TalkLeaves, TypeOK
  <2>5. s \notin outdated' => s \notin outdated /\ told'[s] = told[s]
    BY <2>0 DEF TalkLeaves, TypeOK
  <2>4. waiting'[s] <= 1
    <3>1. Rescheduled(s, TRUE) <= 1
      BY <2>2, RescheduledIsOne
    <3>2. waiting[s] <= 1
      BY <2>2
    <3>3. CASE waiting'[s] = 0
      BY <3>3
    <3> QED BY <2>3, <3>1, <3>2, <3>3
  <2> QED BY <2>1, <2>2, <2>4, <2>5
<1>5. CASE \E t \in Sessions : Reset(t)
  <2> PICK t \in Sessions : Reset(t)
    BY <1>5
  <2>1. s # t => Whole /\ (s \notin outdated' => s \notin outdated)
    BY <1>1 DEF Reset
  <2>2. /\ got'[s] = IF s = t THEN {} ELSE got[s]
        /\ told'[s] = IF s = t THEN {} ELSE told[s]
        /\ open'[s] = IF s = t THEN {} ELSE open[s]
    BY DEF Reset, TypeOK
  <2>3. waiting'[s] = IF s = t THEN 0 ELSE waiting[s]
    BY DEF Reset, TypeOK
  <2> QED BY <2>1, <2>2, <2>3
<1> QED BY <1>2, <1>3, <1>4, <1>5, SessionSteps

\* Unless a refresh discarded its changes, a session has one follow-up waiting
\* at most and no turn left open; and every message is in its memory, unless a
\* turn, a memory update or a release stored one it had loaded before.
THEOREM SessionsAreWhole == Spec => []WholeUnlessOverrun
<1>1. Init => TypeOK /\ WholeUnlessOverrun
  <2>1. Init => WholeUnlessOverrun
    BY DEF Init, WholeUnlessOverrun
  <2> QED BY <2>1, InitType
<1>2. TypeOK /\ WholeUnlessOverrun /\ [Next]_vars => (TypeOK /\ WholeUnlessOverrun)'
  BY TypeStep, WholeStep
<1> QED BY <1>1, <1>2, PTL DEF Spec

-----------------------------------------------------------------------------
(* Tasks as the orders of Mailing.                                         *)

\* A report is broadcast, and can fail to be, only while the task is sent.
ToldWasSent == ~handling => \A k \in telling : status[k] = "sent"

LEMMA ToldStep ==
  ASSUME TypeOK, Claimed, ToldWasSent, [Next]_vars
  PROVE  ToldWasSent'
<1>1. CASE \E k \in Tasks : NoTargets(k) \/ SendTask(k) \/ SendBreaks(k)
  <2>1. PICK k \in Tasks : NoTargets(k) \/ SendTask(k) \/ SendBreaks(k)
    BY <1>1
  <2>2. telling = {}
    BY <2>1 DEF NoTargets, SendTask, SendBreaks, TaskStep
  <2>3. CASE SendTask(k)
    BY <2>3 DEF SendTask, Settled, ToldWasSent, TypeOK
  <2>4. CASE NoTargets(k) \/ SendBreaks(k)
    BY <2>2, <2>4 DEF NoTargets, SendBreaks, ToldWasSent
  <2> QED BY <2>1, <2>3, <2>4
<1>2. CASE Claim
  BY <1>2 DEF Claim, ToldWasSent
<1>3. CASE \E k \in Tasks : TellTask(k) \/ TellBreaks(k)
  BY <1>3 DEF TellTask, TellBreaks, ToldWasSent
<1>4. CASE TickBreaks \/ Restart
  BY <1>4 DEF TickBreaks, Restart, TickEnds, ToldWasSent
<1>5. CASE \/ \E k \in Tasks, p \in Payloads : Create(k, p) \/ Update(k, p)
           \/ \E k \in Tasks : CancelTask(k) \/ TimePasses(k)
  <2>1. telling' = telling /\ handling' = handling
    BY <1>5 DEF Create, Update, Written, CancelTask, TimePasses, scheduler
  <2>2. \A k \in Tasks : status[k] = "sent" => status'[k] = "sent"
    BY <1>5 DEF Create, Update, CancelTask, TimePasses, Editable, TypeOK
  <2> QED BY <2>1, <2>2 DEF ToldWasSent, TypeOK
<1>6. CASE \E s \in Sessions : Talk(s) \/ Reset(s)
  <2>1. UNCHANGED <<status, telling, handling>>
    BY <1>6, TalkSteps DEF TalkLeaves, Reset, Event, Beside, scheduler
  <2> QED BY <2>1 DEF ToldWasSent
<1>7. CASE UNCHANGED vars
  BY <1>7 DEF vars, operators, scheduler, ToldWasSent
<1> QED BY <1>1, <1>2, <1>3, <1>4, <1>5, <1>6, <1>7 DEF Next, Talk

Standing == {k \in With({"pending"}) : payload[k].enabled}
Lost == With({"running"}) \ todo
Reported == With({"sent"})
Reach(k) == IF payload[k].mode = "manual" THEN chosen[k] ELSE Sessions
Meant == [k \in Tasks |-> Reach(k)]

\* Unchanged statuses, switches, modes and selections are unchanged orders.
LEMMA SameOrders ==
  ASSUME status' = status, todo' = todo, chosen' = chosen,
         \A k \in Tasks : payload'[k].mode = payload[k].mode
                            /\ payload'[k].enabled = payload[k].enabled
  PROVE  UNCHANGED <<Standing, todo, Lost, Reported, Meant>>
BY DEF Standing, Lost, Reported, Meant, Reach, With

LEMMA ReachType ==
  ASSUME TypeOK, NEW k \in Tasks
  PROVE  Reach(k) \in SUBSET Sessions
BY DEF Reach, TypeOK

\* What an edit makes of one task, and of its order.
LEMMA EditsChange ==
  ASSUME TypeOK, TypeOK', Claimed, NEW k \in Tasks,
         (\E p \in Payloads : Create(k, p) \/ Update(k, p)) \/ CancelTask(k)
  PROVE  Promise!Change(k)
<1>1. /\ status[k] \notin {"running", "sent"} /\ status'[k] \notin {"running", "sent"}
      /\ \A j \in Tasks \ {k} : status'[j] = status[j] /\ payload'[j] = payload[j]
                                  /\ chosen'[j] = chosen[j]
      /\ todo' = todo /\ got' = got
  BY DEF Create, Update, Written, CancelTask, Editable, TypeOK, scheduler, chat
<1>2. todo \subseteq Tasks /\ k \notin todo
  BY <1>1 DEF TypeOK, Claimed, InHand
<1>3. Lost' = Lost /\ Reported' = Reported
  BY <1>1 DEF Lost, Reported, With
<1>4. Standing' \in {Standing \cup {k}, Standing \ {k}}
  <2>1. CASE status'[k] = "pending" /\ payload'[k].enabled
    <3>1. Standing' = Standing \cup {k}
      BY <1>1, <2>1 DEF Standing, With
    <3> QED BY <3>1
  <2>2. CASE ~(status'[k] = "pending" /\ payload'[k].enabled)
    <3>1. Standing' = Standing \ {k}
      BY <1>1, <2>2 DEF Standing, With
    <3> QED BY <3>1
  <2> QED BY <2>1, <2>2
<1>5. Meant' = [Meant EXCEPT ![k] = Reach(k)'] /\ Reach(k)' \in SUBSET Sessions
  <2>1. \A j \in Tasks \ {k} : Reach(j)' = Reach(j)
    BY <1>1 DEF Reach
  <2>2. Reach(k)' \in SUBSET Sessions
    BY DEF Reach, TypeOK
  <2>3. Meant' = [j \in Tasks |-> Reach(j)']
    BY DEF Meant
  <2> HIDE DEF Reach
  <2> QED BY <2>1, <2>2, <2>3 DEF Meant
<1>6. k \notin todo \cup Lost \cup Reported
  BY <1>1, <1>2 DEF Lost, Reported, With
<1>7. UNCHANGED <<todo, Lost, Reported, got>>
  BY <1>1, <1>3
<1>8. \E reach \in SUBSET Sessions : Meant' = [Meant EXCEPT ![k] = reach]
  BY <1>5
<1> QED BY <1>4, <1>6, <1>7, <1>8
        DEF Promise!Change, Standing, Lost, Reported, Meant, Reach

\* A task is carried out for none, some or all of those it is meant for.
LEMMA SendsCarryOut ==
  ASSUME TypeOK, Claimed, NEW k \in Tasks, NoTargets(k) \/ SendTask(k) \/ SendBreaks(k)
  PROVE  Promise!CarryOut(k)
<1>1. /\ k \in todo /\ todo' = todo \ {k} /\ chosen' = chosen
  BY DEF NoTargets, SendTask, SendBreaks, TaskStep
<1>2. PICK outcome \in {"sent", "failed"} : Settled(k, outcome)
  BY DEF NoTargets, SendTask, SendBreaks
<1>3. status[k] = "running" /\ status' = [status EXCEPT ![k] = outcome]
  BY <1>1, <1>2 DEF Claimed, InHand, Settled
<1>4. status'[k] = outcome /\ \A j \in Tasks \ {k} : status'[j] = status[j]
  BY <1>3 DEF TypeOK
<1>5. \A j \in Tasks : payload'[j].mode = payload[j].mode
  BY <1>2, SwitchedOff DEF Settled
<1>6. \A j \in Tasks \ {k} : payload'[j] = payload[j]
  BY <1>2 DEF Settled, TypeOK
<1>7. Standing' = Standing
  BY <1>3, <1>4, <1>6 DEF Standing, With
<1>8. Lost' = Lost
  BY <1>1, <1>3, <1>4 DEF Lost, With
<1>9. Reported' \in {Reported, Reported \cup {k}}
  <2>1. CASE outcome = "sent"
    <3>1. Reported' = Reported \cup {k}
      BY <1>3, <1>4, <2>1 DEF Reported, With
    <3> QED BY <3>1
  <2>2. CASE outcome = "failed"
    <3>1. Reported' = Reported
      BY <1>3, <1>4, <2>2 DEF Reported, With
    <3> QED BY <3>1
  <2> QED BY <2>1, <2>2
<1>10. Meant' = Meant
  BY <1>1, <1>5 DEF Meant, Reach
<1>11. Targets(k) \subseteq Meant[k]
  BY DEF Targets, Meant, Reach, Claimed, SelectedWasChosen
<1>12. \E reached \in SUBSET Meant[k] :
         got' = [s \in Sessions |-> IF s \in reached THEN got[s] \cup {k} ELSE got[s]]
  <2>1. CASE got' = got
    <3> DEFINE none == [s \in Sessions |-> IF s \in {} THEN got[s] \cup {k} ELSE got[s]]
    <3>1. none = [s \in Sessions |-> got[s]]
      OBVIOUS
    <3>2. got \in [Sessions -> SUBSET Tasks]
      BY DEF TypeOK
    <3>3. got' = none
      BY <2>1, <3>1, <3>2
    <3>4. {} \in SUBSET Meant[k]
      OBVIOUS
    <3> QED BY <3>3, <3>4
  <2>2. CASE \E reached \in SUBSET Targets(k) : \E last \in reached : Sent(k, reached, last)
    BY <1>11, <2>2 DEF Sent
  <2> QED BY <2>1, <2>2 DEF NoTargets, SendTask, SendBreaks, chat
<1> QED BY <1>1, <1>7, <1>8, <1>9, <1>10, <1>12
        DEF Promise!CarryOut, Standing, Lost, Reported, Meant, Reach

\* A broadcast that fails takes the report back.
LEMMA BreakRetracts ==
  ASSUME TypeOK, Claimed, ToldWasSent, NEW k \in Tasks, TellBreaks(k)
  PROVE  Promise!Retract(k)
<1>1. status[k] = "sent" /\ UNCHANGED <<todo, chosen, got>>
  BY DEF TellBreaks, ToldWasSent, chat
<1>2. Settled(k, "failed")
  BY DEF TellBreaks
<1>3. status'[k] = "failed" /\ \A j \in Tasks \ {k} : status'[j] = status[j] /\ payload'[j] = payload[j]
  BY <1>2 DEF Settled, TypeOK
<1>4. \A j \in Tasks : payload'[j].mode = payload[j].mode
  BY <1>2, SwitchedOff DEF Settled
<1>5. k \in Reported /\ Reported' = Reported \ {k}
  BY <1>1, <1>3 DEF Reported, With
<1>6. Standing' = Standing /\ Lost' = Lost
  BY <1>1, <1>3 DEF Standing, Lost, With
<1>7. Meant' = Meant
  BY <1>1, <1>4 DEF Meant, Reach
<1> QED BY <1>1, <1>5, <1>6, <1>7
        DEF Promise!Retract, Standing, Lost, Reported, Meant, Reach

LEMMA ClaimTakes ==
  ASSUME TypeOK, Claimed, Claim
  PROVE  Promise!Take
<1>1. PICK batch \in SUBSET {k \in Tasks : Claimable(k)} :
        /\ todo' = batch
        /\ status' = [k \in Tasks |-> IF k \in batch THEN "running" ELSE status[k]]
  BY DEF Claim
<1>2. todo = {} /\ UNCHANGED <<payload, chosen, got>>
  BY DEF Claim, chat
<1>3. \A k \in batch : k \in Tasks /\ status[k] = "pending" /\ payload[k].enabled
  BY DEF Claimable
<1>4. todo' \subseteq Standing /\ Standing' = Standing \ todo'
  BY <1>1, <1>2, <1>3 DEF Standing, With
<1>5. Lost' = Lost /\ Reported' = Reported
  BY <1>1, <1>2, <1>3 DEF Lost, Reported, With
<1>6. Meant' = Meant
  BY <1>2 DEF Meant, Reach
<1> QED BY <1>2, <1>4, <1>5, <1>6
        DEF Promise!Take, Standing, Lost, Reported, Meant, Reach

LEMMA EndsLose ==
  ASSUME TypeOK, Claimed, TickEnds, got' = got
  PROVE  Promise!Lose
<1>1. todo' = {} /\ UNCHANGED <<status, payload, chosen, got>>
  BY DEF TickEnds, operators
<1>2. \A k \in todo : k \in Tasks /\ status[k] = "running"
  BY DEF Claimed, InHand, TypeOK
<1>3. Lost' = Lost \cup todo
  BY <1>1, <1>2 DEF Lost, With
<1>4. Standing' = Standing /\ Reported' = Reported /\ Meant' = Meant
  BY <1>1 DEF Standing, Reported, Meant, Reach, With
<1> QED BY <1>1, <1>3, <1>4 DEF Promise!Lose, Standing, Lost, Reported, Meant, Reach

LEMMA ResetForgets ==
  ASSUME TypeOK, NEW s \in Sessions, Reset(s)
  PROVE  Promise!Forget(s)
<1>1. /\ UNCHANGED <<status, chosen, todo>> /\ got' = [got EXCEPT ![s] = {}]
  BY DEF Reset, Event, Beside, scheduler
<1>2. \A k \in Tasks : payload'[k].mode = payload[k].mode
                         /\ payload'[k].enabled = payload[k].enabled
  <2>1. \A k \in Tasks : payload[k] \in Payload
    BY DEF TypeOK
  <2>2. payload' = [k \in Tasks |-> [payload[k] EXCEPT !.selected = @ \ {s}]]
    BY DEF Reset, WithoutSession
  <2> QED BY <2>1, <2>2 DEF Payload
<1>3. UNCHANGED <<Standing, todo, Lost, Reported, Meant>>
  BY <1>1, <1>2, SameOrders
<1> QED BY <1>1, <1>3 DEF Promise!Forget, Standing, Lost, Reported, Meant, Reach

LEMMA StillOrders ==
  ASSUME UNCHANGED <<status, payload, chosen, todo, got>>
  PROVE  UNCHANGED Promise!vars
BY DEF Promise!vars, With

LEMMA PromiseStep ==
  ASSUME TypeOK, Claimed, ToldWasSent, [Next]_vars
  PROVE  [Promise!Next]_(Promise!vars)
<1>1. ASSUME NEW k \in Tasks,
             (\E p \in Payloads : Create(k, p) \/ Update(k, p)) \/ CancelTask(k)
      PROVE  Promise!Next
  <2>1. TypeOK'
    BY TypeStep
  <2> QED BY <1>1, <2>1, EditsChange DEF Promise!Next
<1>2. ASSUME NEW k \in Tasks, NoTargets(k) \/ SendTask(k) \/ SendBreaks(k)
      PROVE  Promise!Next
  BY <1>2, SendsCarryOut DEF Promise!Next
<1>3. ASSUME NEW k \in Tasks, TellBreaks(k)
      PROVE  Promise!Next
  BY <1>3, BreakRetracts DEF Promise!Next
<1>4. ASSUME NEW k \in Tasks, TimePasses(k) \/ TellTask(k)
      PROVE  UNCHANGED Promise!vars
  <2>1. UNCHANGED <<status, payload, chosen, todo, got>>
    BY <1>4 DEF TimePasses, TellTask, operators, scheduler, chat
  <2> QED BY <2>1, StillOrders
<1>5. ASSUME Claim PROVE Promise!Next
  BY <1>5, ClaimTakes DEF Promise!Next
<1>6. ASSUME TickBreaks \/ Restart PROVE Promise!Next
  <2>1. TickEnds /\ got' = got
    BY <1>6 DEF TickBreaks, Restart, chat
  <2> QED BY <2>1, EndsLose DEF Promise!Next
<1>7. ASSUME NEW s \in Sessions, Reset(s) PROVE Promise!Next
  BY <1>7, ResetForgets DEF Promise!Next
<1>8. ASSUME NEW s \in Sessions, Talk(s)
      PROVE  UNCHANGED Promise!vars
  <2>1. UNCHANGED <<status, payload, chosen, todo, got>>
    BY <1>8, TalkSteps DEF TalkLeaves, Beside, scheduler
  <2> QED BY <2>1, StillOrders
<1>9. ASSUME UNCHANGED vars PROVE UNCHANGED Promise!vars
  <2>1. UNCHANGED <<status, payload, chosen, todo, got>>
    BY <1>9 DEF vars, operators, scheduler, chat
  <2> QED BY <2>1, StillOrders
<1> QED BY <1>1, <1>2, <1>3, <1>4, <1>5, <1>6, <1>7, <1>8, <1>9 DEF Next, Talk

LEMMA PromiseInit == Init => Promise!Init
<1> SUFFICES ASSUME Init PROVE Promise!Init
  OBVIOUS
<1>1. TypeOK
  BY InitType
<1>2. \A k \in Tasks : Reach(k) \in SUBSET Sessions
  BY <1>1, ReachType
<1>3. Meant \in [Tasks -> SUBSET Sessions]
  BY <1>2 DEF Meant
<1>4. Standing = {} /\ todo = {} /\ Lost = {} /\ Reported = {}
  BY DEF Init, Standing, Lost, Reported, With
<1>5. got = [s \in Sessions |-> {}]
  BY DEF Init
<1> QED BY <1>3, <1>4, <1>5 DEF Promise!Init, Standing, Lost, Reported, Meant, Reach

\* For any tasks, sessions and payloads: an order is carried out once at most
\* each time it is placed, and for nobody it is not meant for (KeepsOrders).
THEOREM OrdersAreKept == Spec => KeepsOrders
<1>1. Init => ToldWasSent
  BY DEF Init, ToldWasSent
<1>2. Spec => []ToldWasSent
  <2>1. TypeOK /\ Claimed /\ ToldWasSent /\ [Next]_vars => ToldWasSent'
    BY ToldStep
  <2> QED BY <1>1, <2>1, ClaimedAlways, PTL DEF Spec
<1>3. TypeOK /\ Claimed /\ ToldWasSent /\ [Next]_vars => [Promise!Next]_(Promise!vars)
  BY PromiseStep
<1> QED BY <1>2, <1>3, PromiseInit, ClaimedAlways, PTL DEF Spec, KeepsOrders, Promise!Spec

=============================================================================
