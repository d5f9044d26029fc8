----------------------------- MODULE AutoReply -----------------------------
(***************************************************************************)
(* The automatic reply to customer messages of one session, as the web     *)
(* socket endpoint runs it: app/api/ws.py together with the streaming      *)
(* service of app/graph/service.py.                                        *)
(*                                                                         *)
(* One asyncio event loop runs everything, so the code between two awaits  *)
(* is atomic; every action below is such a section.  A customer message is *)
(* stored, then queued in the session's tracker; a worker task takes the   *)
(* queued messages as one batch, opens a turn, iterates over the events of *)
(* stream_message and delivers the reply in chunks.  A message that comes  *)
(* before the first chunk cancels the worker and starts another one; a     *)
(* human who takes the session over cancels the stream; the request        *)
(* timeout of the stream cancels whatever the worker is waiting for.       *)
(* Cancellation is delivered when the task next runs, which is what makes  *)
(* the old and the new worker coexist.                                     *)
(***************************************************************************)
EXTENDS Naturals, Sequences

CONSTANTS
  Msgs,         \* the customer messages of the session
  Generations,  \* the values the tracker's generation may take (a bound)
  MaxBatch,     \* chat_merge_max_messages
  MaxUpdates,   \* node updates of one graph run besides its outcome (a bound)
  MaxChunks,    \* chunks of one reply (a bound)
  MaxTakeOvers, \* human take-overs (a bound)
  MaxFailures   \* broadcasts that raise in a worker (a bound)

ASSUME GenerationsAssumption == Generations \subseteq Nat \ {0}
ASSUME BoundsAssumption ==
  /\ MaxBatch \in Nat \ {0}
  /\ MaxChunks \in Nat \ {0}
  /\ MaxUpdates \in Nat
  /\ MaxTakeOvers \in Nat
  /\ MaxFailures \in Nat

VARIABLES
  \* the database
  transfer_flag,  \* ConversationSession.transfer_flag: a human owns the session
  turn,           \* status of the turn that took each message
  saved,          \* reply chunks stored for the turn of each message
  \* SessionAutoReplyState
  pending,
  task,           \* generation of the tracker's task, NoTask for None
  first_reply_sent,
  generation,
  \* the event loop
  active,         \* _ACTIVE_STREAM_TASKS: the worker that streams, or NoTask
  worker,         \* the worker task of each generation
  handler,        \* where the web socket handler of each message is
  releasing,      \* a set_handover(False) waits for its memory catch-up
  remembered,     \* messages whose memory update was scheduled
  \* bounds
  takeovers, failures

vars == <<transfer_flag, turn, saved, pending, task, first_reply_sent,
          generation, active, worker, handler, releasing, remembered,
          takeovers, failures>>

tracker == <<pending, task, first_reply_sent, generation>>
human == <<releasing, takeovers>>

NoTask == 0

TurnStatus == {"none", "running", "sent", "handover", "completed", "cancelled"}

(***************************************************************************)
(* pc says what the task waits for: its first step, the debounce, the next *)
(* event inside the generator, a broadcast or a delay in the worker's own  *)
(* body, or the broadcast of one of its except clauses.  stage says how    *)
(* far the turn is: the graph runs, a reply is being delivered, the graph  *)
(* finishes after its outcome, it was left through a fallback, the final   *)
(* event is out, the generator is closed.  view is the transfer flag of    *)
(* the state the stream carries and stores with every node; drafted that   *)
(* the worker's latest_graph holds a reply.                                *)
(***************************************************************************)
Stages == {"graph", "reply", "after", "fallback", "final", "tail"}
Worker == [pc : {"none", "new", "debounce", "gen", "body", "closing"},
           stage : Stages, view : BOOLEAN, batch : Seq(Msgs), updates : Nat,
           drafted : BOOLEAN, cancelled : BOOLEAN, expired : BOOLEAN]

Absent == [pc |-> "none", stage |-> "graph", view |-> FALSE, batch |-> <<>>,
           updates |-> 0, drafted |-> FALSE, cancelled |-> FALSE, expired |-> FALSE]
Created == [Absent EXCEPT !.pc = "new"]

Members(s) == {s[i] : i \in DOMAIN s}
BatchOf(g) == Members(worker[g].batch)
Done(g) == worker[g].pc = "none"
Live(g) == g # NoTask /\ ~Done(g)

\* Mutant of Cancel: the call is forgotten.
CancelForgotten(g) == worker

\* task.cancel() on a task that is not done: CancelledError is thrown into it
\* when it next runs.
Cancel(g) == IF Live(g) THEN [worker EXCEPT ![g].cancelled = TRUE] ELSE worker

Init ==
  /\ transfer_flag = FALSE
  /\ turn = [m \in Msgs |-> "none"]
  /\ saved = [m \in Msgs |-> 0]
  /\ pending = <<>>
  /\ task = NoTask
  /\ first_reply_sent = FALSE
  /\ generation = 0
  /\ active = NoTask
  /\ worker = [g \in Generations |-> Absent]
  /\ handler = [m \in Msgs |-> "none"]
  /\ releasing = FALSE
  /\ remembered = {}
  /\ takeovers = 0
  /\ failures = 0

-----------------------------------------------------------------------------
(* Customer messages.                                                      *)

\* _handle_customer_message up to its first await: the message is stored and
\* the flag that decides about the reply is read.
PersistCustomerMessage(m) ==
  /\ handler[m] = "none"
  /\ handler' = [handler EXCEPT ![m] = IF transfer_flag THEN "left" ELSE "stored"]
  /\ UNCHANGED <<transfer_flag, turn, saved, tracker, active, worker, human,
                 remembered, failures>>

\* Mutant of Restarts: the tracker forgets that a reply has begun.
RestartsAlways == TRUE

Restarts == ~Live(task) \/ ~first_reply_sent

\* _enqueue_customer_auto_reply, with the flag read before the await.
EnqueueAutoReply(m) ==
  LET next == generation + (IF Live(task) THEN 2 ELSE 1)
  IN /\ handler[m] = "stored"
     /\ handler' = [handler EXCEPT ![m] = "queued"]
     /\ pending' = Append(pending, m)
     /\ IF Restarts
        THEN /\ next \in Generations
             /\ generation' = next
             /\ task' = next
             /\ first_reply_sent' = FALSE
             /\ worker' = [Cancel(task) EXCEPT ![next] = Created]
        ELSE UNCHANGED <<generation, task, first_reply_sent, worker>>
     /\ UNCHANGED <<transfer_flag, turn, saved, active, human, remembered, failures>>

-----------------------------------------------------------------------------
(* The worker's loop.                                                      *)

\* Mutant of Exit: the finally clause gives the tracker back and nothing else.
ExitWithoutSuccessor(g) ==
  /\ worker' = [worker EXCEPT ![g] = Absent]
  /\ task' = IF task = g THEN NoTask ELSE task
  /\ first_reply_sent' = (first_reply_sent /\ task # g)
  /\ UNCHANGED generation

\* The finally clause of _run_auto_reply_worker: the current task gives the
\* tracker back and starts a successor when messages are waiting.
Exit(g) ==
  LET next == generation + 1
      gone == [worker EXCEPT ![g] = Absent]
  IN IF task # g
     THEN /\ worker' = gone
          /\ UNCHANGED <<task, first_reply_sent, generation>>
     ELSE /\ first_reply_sent' = FALSE
          /\ IF pending = <<>>
             THEN /\ task' = NoTask
                  /\ worker' = gone
                  /\ UNCHANGED generation
             ELSE /\ next \in Generations
                  /\ task' = next
                  /\ generation' = next
                  /\ worker' = [gone EXCEPT ![next] = Created]

LoopTop(g) ==
  IF generation # g \/ pending = <<>>
  THEN Exit(g)
  ELSE /\ worker' = [worker EXCEPT ![g] = [Absent EXCEPT !.pc = "debounce"]]
       /\ UNCHANGED <<task, first_reply_sent, generation>>

\* The first step of a task.  A task cancelled before it never enters the
\* coroutine, so not even its finally clause runs.
StartWorker(g) ==
  /\ worker[g].pc = "new"
  /\ IF worker[g].cancelled
     THEN worker' = [worker EXCEPT ![g] = Absent]
          /\ UNCHANGED <<task, first_reply_sent, generation>>
     ELSE LoopTop(g)
  /\ UNCHANGED <<transfer_flag, turn, saved, pending, active, handler, human,
                 remembered, failures>>

\* Mutant of Rest: the slice that is deleted is one message short.
RestOffByOne(n) == SubSeq(pending, n, Len(pending))

Rest(n) == SubSeq(pending, n + 1, Len(pending))

\* The debounce is over: the batch leaves the queue, its turn is opened and
\* stream_message loads the session and registers the task, cancelling the
\* stream that was registered before.
TakeBatch(g) ==
  LET n     == IF Len(pending) < MaxBatch THEN Len(pending) ELSE MaxBatch
      batch == SubSeq(pending, 1, n)
      others == IF active # g THEN Cancel(active) ELSE worker
  IN /\ worker[g].pc = "debounce"
     /\ ~worker[g].cancelled
     /\ pending' = Rest(n)
     /\ first_reply_sent' = FALSE
     /\ turn' = [m \in Msgs |-> IF m \in Members(batch) THEN "running" ELSE turn[m]]
     /\ worker' = [others EXCEPT ![g] = [Absent EXCEPT !.pc = "body",
                                         !.view = transfer_flag, !.batch = batch]]
     /\ active' = g
     /\ UNCHANGED <<transfer_flag, saved, task, generation, handler, human,
                    remembered, failures>>

DebounceCancelled(g) ==
  /\ worker[g].pc = "debounce"
  /\ worker[g].cancelled
  /\ Exit(g)
  /\ UNCHANGED <<transfer_flag, turn, saved, pending, active, handler, human,
                 remembered, failures>>

-----------------------------------------------------------------------------
(* The worker inside stream_message: the graph's updates.                  *)

InGraph(g) == worker[g].pc = "gen" /\ ~worker[g].cancelled /\ ~worker[g].expired

\* A human took over since the state was loaded (_handover_enabled).
TakenOver(g) == ~worker[g].view /\ transfer_flag

Closed(g) == IF active = g THEN NoTask ELSE active

\* The turn leaves the loop with the interrupted final event; the latest
\* state is stored back, the turn keeps its status.
Interrupt(g) ==
  /\ worker' = [worker EXCEPT ![g] = [@ EXCEPT !.pc = "body", !.stage = "final",
                                     !.cancelled = FALSE, !.expired = FALSE]]
  /\ UNCHANGED <<transfer_flag, turn, first_reply_sent>>

Advance(g, stage, view) ==
  /\ transfer_flag' = view
  /\ worker' = [worker EXCEPT ![g] = [@ EXCEPT !.pc = "body", !.stage = stage, !.view = view]]

\* An update of the graph reaches the stream; persist_progress stores the
\* carried state.  A state loaded under human control never leads to send.
NodeUpdate(g) ==
  /\ worker[g].updates < MaxUpdates
  /\ transfer_flag' = worker[g].view
  /\ worker' = [worker EXCEPT ![g] = [@ EXCEPT !.pc = "body",
                                               !.updates = worker[g].updates + 1]]
  /\ UNCHANGED <<turn, first_reply_sent>>

FinalReply(g) ==
  /\ worker[g].stage = "graph"
  /\ ~worker[g].view /\ ~worker[g].drafted
  /\ transfer_flag' = FALSE
  /\ worker' = [worker EXCEPT ![g] = [@ EXCEPT !.pc = "body", !.drafted = TRUE]]
  /\ UNCHANGED <<turn, first_reply_sent>>

SendReply(g) ==
  /\ worker[g].stage = "graph"
  /\ worker[g].drafted
  /\ Advance(g, "reply", FALSE)
  /\ first_reply_sent' = TRUE
  /\ UNCHANGED turn

SendNothing(g) ==
  /\ worker[g].stage = "graph"
  /\ ~worker[g].view /\ ~worker[g].drafted
  /\ Advance(g, "after", FALSE)
  /\ UNCHANGED <<turn, first_reply_sent>>

HandOver(g) ==
  /\ worker[g].stage = "graph"
  /\ ~worker[g].drafted
  /\ Advance(g, "after", TRUE)
  /\ UNCHANGED <<turn, first_reply_sent>>

\* _fallback_result: a provider error, a timeout or any other exception
\* hands the session over.
Fallback(g) ==
  /\ transfer_flag' = TRUE
  /\ worker' = [worker EXCEPT ![g] = [@ EXCEPT !.pc = "body", !.stage = "fallback", !.view = TRUE,
                                     !.drafted = FALSE, !.expired = FALSE]]
  /\ UNCHANGED <<turn, first_reply_sent>>

\* The end of stream_message: the state and the turn's status are stored.
Outcome(g) ==
  IF worker[g].stage = "after" /\ \E m \in BatchOf(g) : saved[m] > 0 THEN "sent"
  ELSE IF worker[g].view THEN "handover" ELSE "completed"

Finish(g) ==
  IF TakenOver(g)
  THEN Interrupt(g)
  ELSE /\ turn' = [m \in Msgs |-> IF m \in BatchOf(g) THEN Outcome(g) ELSE turn[m]]
       /\ Advance(g, "final", worker[g].view)
       /\ UNCHANGED first_reply_sent

GraphEvent(g) ==
  /\ InGraph(g)
  /\ IF TakenOver(g)
     THEN Interrupt(g)
     ELSE \/ NodeUpdate(g)
          \/ FinalReply(g)
          \/ SendReply(g)
          \/ SendNothing(g)
          \/ HandOver(g)
          \/ worker[g].stage = "after" /\ Finish(g)
  /\ UNCHANGED <<saved, pending, task, generation, active, handler, human,
                 remembered, failures>>

GraphError(g) ==
  /\ InGraph(g)
  /\ Fallback(g)
  /\ UNCHANGED <<saved, pending, task, generation, active, handler, human,
                 remembered, failures>>

GraphTimeout(g) ==
  /\ worker[g].pc = "gen" /\ worker[g].expired /\ ~worker[g].cancelled
  /\ Fallback(g)
  /\ UNCHANGED <<saved, pending, task, generation, active, handler, human,
                 remembered, failures>>

\* CancelledError inside the generator: swallowed when a human took over,
\* else raised again once the worker has broadcast a last event.
GraphCancelled(g) ==
  /\ worker[g].pc = "gen"
  /\ worker[g].cancelled
  /\ IF transfer_flag
     THEN Interrupt(g)
     ELSE /\ worker' = [worker EXCEPT ![g].pc = "body"]
          /\ UNCHANGED <<transfer_flag, turn, first_reply_sent>>
  /\ UNCHANGED <<saved, pending, task, generation, active, handler, human,
                 remembered, failures>>

-----------------------------------------------------------------------------
(* The worker's own body: broadcasts, reply chunks, the end of a turn.     *)

InBody(g) == worker[g].pc = "body" /\ ~worker[g].cancelled /\ ~worker[g].expired

\* The event is broadcast; the worker asks the generator for the next one.
NextEvent(g) ==
  /\ InBody(g)
  /\ worker[g].stage \in {"graph", "after"}
  /\ worker' = [worker EXCEPT ![g].pc = "gen"]
  /\ UNCHANGED <<transfer_flag, turn, saved, tracker, active, handler, human,
                 remembered, failures>>

\* One round of _send_reply_chunks: a chunk is stored and broadcast.
SaveChunk(g) ==
  /\ InBody(g)
  /\ worker[g].stage = "reply"
  /\ \A m \in BatchOf(g) : saved[m] < MaxChunks
  /\ saved' = [m \in Msgs |-> IF m \in BatchOf(g) THEN saved[m] + 1 ELSE saved[m]]
  /\ \E stage \in {"reply", "after"} :
       /\ stage = "reply" => \A m \in BatchOf(g) : saved[m] + 1 < MaxChunks
       /\ worker' = [worker EXCEPT ![g].stage = stage]
  /\ UNCHANGED <<transfer_flag, turn, tracker, active, handler, human,
                 remembered, failures>>

\* After the fallback event the generator goes straight to its end.
FinishFallback(g) ==
  /\ InBody(g)
  /\ worker[g].stage = "fallback"
  /\ Finish(g)
  /\ UNCHANGED <<saved, pending, task, generation, active, handler, human,
                 remembered, failures>>

\* The final event is broadcast and the generator returns.
CloseStream(g) ==
  /\ InBody(g)
  /\ worker[g].stage = "final"
  /\ worker' = [worker EXCEPT ![g].stage = "tail"]
  /\ active' = Closed(g)
  /\ UNCHANGED <<transfer_flag, turn, saved, tracker, handler, human,
                 remembered, failures>>

\* The last snapshot is broadcast: the memory update is scheduled for a turn
\* whose reply went out and the loop starts over.
EndTurn(g) ==
  /\ InBody(g)
  /\ worker[g].stage = "tail"
  /\ remembered' = IF first_reply_sent /\ worker[g].drafted
                    THEN remembered \cup BatchOf(g) ELSE remembered
  /\ LoopTop(g)
  /\ UNCHANGED <<transfer_flag, turn, saved, pending, active, handler, human, failures>>

\* CancelledError in the body, from a restart, a take-over or the request
\* timeout: the turn is recorded as cancelled whatever its status was.
AbortTurn(g) ==
  /\ worker[g].pc = "body"
  /\ worker[g].cancelled \/ worker[g].expired
  /\ turn' = [m \in Msgs |-> IF m \in BatchOf(g) THEN "cancelled" ELSE turn[m]]
  /\ worker' = [worker EXCEPT ![g] = [@ EXCEPT !.pc = "closing", !.expired = FALSE]]
  /\ active' = Closed(g)
  /\ UNCHANGED <<transfer_flag, saved, tracker, handler, human, remembered, failures>>

\* A broadcast raises something else than RuntimeError: the worker reports
\* the failure and stops, the turn stays as it is.
BroadcastFails(g) ==
  /\ failures < MaxFailures
  /\ InBody(g)
  /\ failures' = failures + 1
  /\ worker' = [worker EXCEPT ![g].pc = "closing"]
  /\ active' = Closed(g)
  /\ UNCHANGED <<transfer_flag, turn, saved, tracker, handler, human, remembered>>

\* The except clause's own broadcast is over: raise or return, then finally.
CloseWorker(g) ==
  /\ worker[g].pc = "closing"
  /\ Exit(g)
  /\ UNCHANGED <<transfer_flag, turn, saved, pending, active, handler, human,
                 remembered, failures>>

\* asyncio.timeout fires while the graph loop is open: it cancels the task
\* wherever it waits, also outside the generator.
RequestTimeout(g) ==
  /\ worker[g].pc \in {"gen", "body"}
  /\ \/ worker[g].stage \in {"reply", "after"}
     \/ worker[g].stage = "graph" /\ (worker[g].pc = "gen" \/ worker[g].updates > 0)
  /\ ~worker[g].expired
  /\ worker' = [worker EXCEPT ![g].expired = TRUE]
  /\ UNCHANGED <<transfer_flag, turn, saved, tracker, active, handler, human,
                 remembered, failures>>

-----------------------------------------------------------------------------
(* The human side: set_handover.                                           *)

\* Enabling stores the flag and cancels the active stream in one section.
TakeOver ==
  /\ takeovers < MaxTakeOvers
  /\ takeovers' = takeovers + 1
  /\ transfer_flag' = TRUE
  /\ worker' = Cancel(active)
  /\ UNCHANGED <<turn, saved, tracker, active, handler, releasing, remembered, failures>>

\* Disabling first waits for the memory catch-up of the human conversation.
BeginRelease ==
  /\ transfer_flag
  /\ ~releasing
  /\ releasing' = TRUE
  /\ UNCHANGED <<transfer_flag, turn, saved, tracker, active, worker, handler,
                 takeovers, remembered, failures>>

EndRelease ==
  /\ releasing
  /\ releasing' = FALSE
  /\ transfer_flag' = FALSE
  /\ UNCHANGED <<turn, saved, tracker, active, worker, handler, takeovers,
                 remembered, failures>>

-----------------------------------------------------------------------------
\* What the event loop does with a worker when nothing goes wrong around it.
WorkerStep(g) ==
  \/ StartWorker(g)
  \/ TakeBatch(g)
  \/ DebounceCancelled(g)
  \/ GraphEvent(g)
  \/ GraphTimeout(g)
  \/ GraphCancelled(g)
  \/ NextEvent(g)
  \/ SaveChunk(g)
  \/ FinishFallback(g)
  \/ CloseStream(g)
  \/ EndTurn(g)
  \/ AbortTurn(g)
  \/ CloseWorker(g)

WorkerFault(g) == GraphError(g) \/ BroadcastFails(g) \/ RequestTimeout(g)

Next ==
  \/ \E m \in Msgs : PersistCustomerMessage(m) \/ EnqueueAutoReply(m)
  \/ \E g \in Generations : WorkerStep(g) \/ WorkerFault(g)
  \/ TakeOver
  \/ BeginRelease
  \/ EndRelease

Spec == Init /\ [][Next]_vars

\* The event loop runs every task that is ready; a graph run is finite.
Fairness ==
  /\ \A m \in Msgs : WF_vars(EnqueueAutoReply(m))
  /\ \A g \in Generations : WF_vars(WorkerStep(g))

FairSpec == Spec /\ Fairness

-----------------------------------------------------------------------------
(* Properties.                                                             *)

\* The types of all variables: the tracker, the tasks of the event loop, the
\* rows of the database.
TypeOK ==
  /\ transfer_flag \in BOOLEAN
  /\ turn \in [Msgs -> TurnStatus]
  /\ saved \in [Msgs -> Nat]
  /\ pending \in Seq(Msgs)
  /\ task \in Generations \cup {NoTask}
  /\ first_reply_sent \in BOOLEAN
  /\ generation \in Generations \cup {0}
  /\ active \in Generations \cup {NoTask}
  /\ worker \in [Generations -> Worker]
  /\ handler \in [Msgs -> {"none", "stored", "left", "queued"}]
  /\ releasing \in BOOLEAN
  /\ remembered \subseteq Msgs
  /\ takeovers \in Nat
  /\ failures \in Nat

\* A worker that may still take a batch or send a reply: it is not about to
\* be cancelled and its turn is not over.
MayReply(g) ==
  /\ worker[g].pc \in {"new", "debounce", "gen", "body"}
  /\ ~worker[g].cancelled
  /\ worker[g].stage \notin {"final", "tail"}

\* Old and new worker tasks overlap after a restart, yet only the tracker's
\* task may still reply: cancelling before replacing it (ws.py:186-196) and
\* the generation check at the top of the loop (ws.py:210) leave no second one.
OneReplier == \A g \in Generations : MayReply(g) => g = task /\ g = generation

\* No reply chunk is stored while a human owns the session, although the
\* chunk loop never looks at the flag: set_handover cancels the registered
\* stream in the section that stores the flag (service.py:984-985).
NoReplyUnderHuman == [][saved' # saved => ~transfer_flag]_vars

\* Queued messages are never stranded: while any waits, the tracker has a
\* task that has not ended, whatever way its predecessors ended
\* (ws.py:190-196 and the finally clause, ws.py:332-341).
QueueServed == pending # <<>> => task # NoTask /\ ~Done(task)

\* A new customer message never cancels a worker whose reply has begun, in
\* none of the awaits between the first chunk and the end of the turn
\* (first_reply_sent, ws.py:187, 247, 334).
RestartSparesReply ==
  [][\A m \in Msgs : handler[m] = "stored" /\ handler'[m] = "queued" =>
       \A g \in Generations :
         worker'[g].cancelled /\ ~worker[g].cancelled
           => \A x \in BatchOf(g) : saved[x] = 0]_vars

\* Long-term memory is only updated from turns whose reply reached the
\* customer, so that no failed draft enters it (方案说明.md:23); the worker asks
\* the shared tracker whether its reply was sent (ws.py:323-330).
MemoryFollowsReply == \A m \in remembered : saved[m] > 0

\* Every message queued for an automatic reply is eventually taken by a turn,
\* through restarts, take-overs, timeouts and failing broadcasts.
MessageTaken == \A m \in Msgs : handler[m] = "queued" ~> turn[m] # "none"

\* A turn cancelled with the text "merged into a re-run by a new customer
\* message" (ws.py:289) has its messages waiting or in another worker's turn.
CancelledIsRerun ==
  \A m \in Msgs : turn[m] = "cancelled" =>
    \/ m \in Members(pending)
    \/ \E g \in Generations : worker[g].pc # "closing" /\ m \in BatchOf(g)

\* The session's automatic reply implements the turn taking promised to the
\* customer: the batch at work is the one of the worker that may reply.
Contract == INSTANCE TurnTaking WITH
  queue    <- pending,
  current  <- IF task # NoTask /\ MayReply(task) THEN worker[task].batch ELSE <<>>,
  answered <- {m \in Msgs : saved[m] > 0},
  human    <- transfer_flag

KeepsTurns == Contract!Spec
=============================================================================
