-------------------------- MODULE AutoReplyProofs --------------------------
(***************************************************************************)
(* Theorems about AutoReply for any set of messages, any batch size, any   *)
(* number of chunks, node updates, take-overs and failures, and any set of *)
(* generations.                                                            *)
(*                                                                         *)
(* OneReplier is not inductive by itself.  What carries it is that the     *)
(* tracker's task is always the newest generation, that the newest task is *)
(* the tracker's until it has ended, and that a task which may reply is    *)
(* registered as the active stream from the moment it has a batch: a       *)
(* take-over therefore always reaches the one task that could store a      *)
(* chunk.                                                                  *)
(*                                                                         *)
(* Two more invariants carry what becomes of the messages, and with it the *)
(* refinement of TurnTaking.  The tracker's task has not ended, because    *)
(* only a stream can be cancelled from outside, and a stream is past its   *)
(* first step.  And a message is in one place: queued once, or taken by    *)
(* batches and never queued again.                                         *)
(***************************************************************************)
EXTENDS AutoReply, SequenceTheorems, TLAPS

\* The tracker's task is the newest one.
TaskIsNewest == task # NoTask => task = generation

\* No task is newer than the tracker's generation.
NoneNewer == \A g \in Generations : ~Done(g) => g <= generation

\* The newest task stays the tracker's until it is done.
NewestIsTask == \A g \in Generations : ~Done(g) /\ g = generation => task = g

\* Which stages the waits of a worker may be in.
StageOfWait ==
  \A g \in Generations :
    /\ worker[g].pc \in {"new", "debounce"} => worker[g].stage = "graph"
    /\ worker[g].pc = "gen" => worker[g].stage \in {"graph", "after"}

\* A worker that may reply and has a batch is the registered stream.
StreamRegistered ==
  \A g \in Generations : MayReply(g) /\ worker[g].pc \in {"gen", "body"} => active = g

\* A worker about to store a chunk works for a session no human owns.
ReplyIsAutomatic ==
  \A g \in Generations : InBody(g) /\ worker[g].stage = "reply" => ~transfer_flag

IInv == /\ TypeOK
        /\ TaskIsNewest
        /\ NoneNewer
        /\ NewestIsTask
        /\ StageOfWait
        /\ OneReplier
        /\ StreamRegistered
        /\ ReplyIsAutomatic

-----------------------------------------------------------------------------
(* Types.                                                                  *)

\* The record of a task that is not there, or was just created, is a worker.
LEMMA FreshWorkers ==
  /\ Absent \in Worker
  /\ Created \in Worker
  /\ [Absent EXCEPT !.pc = "debounce"] \in Worker
BY EmptySeq DEF Absent, Created, Worker, Stages

\* Cancelling a task keeps the types.
LEMMA CancelType ==
  ASSUME TypeOK, NEW g \in Generations \cup {NoTask}
  PROVE  Cancel(g) \in [Generations -> Worker]
BY GenerationsAssumption DEF TypeOK, Cancel, Live, NoTask, Worker

\* The finally clause keeps the types.
LEMMA ExitType ==
  ASSUME TypeOK, NEW g \in Generations, Exit(g)
  PROVE  /\ worker' \in [Generations -> Worker]
         /\ task' \in Generations \cup {NoTask}
         /\ generation' \in Generations \cup {0}
         /\ first_reply_sent' \in BOOLEAN
BY FreshWorkers DEF TypeOK, Exit

LEMMA LoopTopType ==
  ASSUME TypeOK, NEW g \in Generations, LoopTop(g)
  PROVE  /\ worker' \in [Generations -> Worker]
         /\ task' \in Generations \cup {NoTask}
         /\ generation' \in Generations \cup {0}
         /\ first_reply_sent' \in BOOLEAN
BY ExitType, FreshWorkers DEF TypeOK, LoopTop

\* The batch and what stays in the queue are sequences of messages.
LEMMA BatchType ==
  ASSUME TypeOK, NEW n \in Nat, n <= Len(pending)
  PROVE  SubSeq(pending, 1, n) \in Seq(Msgs) /\ Rest(n) \in Seq(Msgs)
<1>1. \A i \in 1 .. n : pending[i] \in Msgs
  BY DEF TypeOK
<1>2. \A i \in n + 1 .. Len(pending) : pending[i] \in Msgs
  BY DEF TypeOK
<1>3. Len(pending) \in Nat
  BY DEF TypeOK
<1>. QED
  BY <1>1, <1>2, <1>3, SubSeqProperties DEF Rest

\* Every way the stream moves a worker on keeps its record a worker.
LEMMA WorkerMoves ==
  ASSUME NEW w \in Worker, NEW s \in Stages, NEW v \in BOOLEAN
  PROVE  /\ [w EXCEPT !.pc = "body", !.stage = "final", !.cancelled = FALSE, !.expired = FALSE] \in Worker
         /\ [w EXCEPT !.pc = "body", !.stage = s, !.view = v] \in Worker
         /\ [w EXCEPT !.pc = "body", !.updates = w.updates + 1] \in Worker
         /\ [w EXCEPT !.pc = "body", !.drafted = TRUE] \in Worker
         /\ [w EXCEPT !.pc = "body", !.stage = "fallback", !.view = TRUE,
                      !.drafted = FALSE, !.expired = FALSE] \in Worker
         /\ [w EXCEPT !.pc = "body"] \in Worker
         /\ [w EXCEPT !.pc = "gen"] \in Worker
         /\ [w EXCEPT !.pc = "closing"] \in Worker
         /\ [w EXCEPT !.pc = "closing", !.expired = FALSE] \in Worker
         /\ [w EXCEPT !.stage = s] \in Worker
         /\ [w EXCEPT !.cancelled = TRUE] \in Worker
         /\ [w EXCEPT !.expired = TRUE] \in Worker
<1>1. w.updates + 1 \in Nat
  BY DEF Worker
<1>2. [w EXCEPT !.pc = "body", !.stage = "final", !.cancelled = FALSE, !.expired = FALSE] \in Worker
  BY DEF Worker, Stages
<1>3. [w EXCEPT !.pc = "body", !.stage = s, !.view = v] \in Worker
  BY DEF Worker
<1>4. [w EXCEPT !.pc = "body", !.updates = w.updates + 1] \in Worker
  BY <1>1 DEF Worker
<1>5. [w EXCEPT !.pc = "body", !.drafted = TRUE] \in Worker
  BY DEF Worker
<1>6. [w EXCEPT !.pc = "body", !.stage = "fallback", !.view = TRUE,
                !.drafted = FALSE, !.expired = FALSE] \in Worker
  BY DEF Worker, Stages
<1>7. \A pc \in {"body", "gen", "closing"} : [w EXCEPT !.pc = pc] \in Worker
  BY DEF Worker
<1>8. [w EXCEPT !.pc = "closing", !.expired = FALSE] \in Worker
  BY DEF Worker
<1>9. [w EXCEPT !.stage = s] \in Worker
  BY DEF Worker
<1>10. [w EXCEPT !.cancelled = TRUE] \in Worker /\ [w EXCEPT !.expired = TRUE] \in Worker
  BY DEF Worker
<1>. QED
  BY <1>2, <1>3, <1>4, <1>5, <1>6, <1>7, <1>8, <1>9, <1>10

\* The stages the stream moves to.
LEMMA StageNames == {"graph", "reply", "after", "fallback", "final", "tail"} = Stages
BY DEF Stages

\* Interrupting, advancing and falling back keep the types of what they change.
LEMMA InterruptType ==
  ASSUME TypeOK, NEW g \in Generations, Interrupt(g)
  PROVE  /\ worker' \in [Generations -> Worker]
         /\ transfer_flag' \in BOOLEAN /\ first_reply_sent' \in BOOLEAN
         /\ turn' \in [Msgs -> TurnStatus]
<1>1. worker[g] \in Worker
  BY DEF TypeOK
<1>2. [worker[g] EXCEPT !.pc = "body", !.stage = "final", !.cancelled = FALSE, !.expired = FALSE] \in Worker
  BY <1>1, WorkerMoves, StageNames
<1>. QED
  BY <1>2 DEF TypeOK, Interrupt

LEMMA AdvanceType ==
  ASSUME TypeOK, NEW g \in Generations, NEW s \in Stages, NEW v \in BOOLEAN, Advance(g, s, v)
  PROVE  worker' \in [Generations -> Worker] /\ transfer_flag' \in BOOLEAN
<1>1. worker[g] \in Worker
  BY DEF TypeOK
<1>2. [worker[g] EXCEPT !.pc = "body", !.stage = s, !.view = v] \in Worker
  BY <1>1, WorkerMoves
<1>. QED
  BY <1>2 DEF TypeOK, Advance

LEMMA FallbackType ==
  ASSUME TypeOK, NEW g \in Generations, Fallback(g)
  PROVE  /\ worker' \in [Generations -> Worker]
         /\ transfer_flag' \in BOOLEAN /\ first_reply_sent' \in BOOLEAN
         /\ turn' \in [Msgs -> TurnStatus]
<1>1. worker[g] \in Worker
  BY DEF TypeOK
<1>2. [worker[g] EXCEPT !.pc = "body", !.stage = "fallback", !.view = TRUE,
                       !.drafted = FALSE, !.expired = FALSE] \in Worker
  BY <1>1, WorkerMoves, StageNames
<1>. QED
  BY <1>2 DEF TypeOK, Fallback

LEMMA FinishType ==
  ASSUME TypeOK, NEW g \in Generations, Finish(g)
  PROVE  /\ worker' \in [Generations -> Worker]
         /\ transfer_flag' \in BOOLEAN /\ first_reply_sent' \in BOOLEAN
         /\ turn' \in [Msgs -> TurnStatus]
<1>1. CASE TakenOver(g)
  BY <1>1, InterruptType DEF Finish
<1>2. CASE ~TakenOver(g)
  <2>1. worker[g].view \in BOOLEAN
    BY DEF TypeOK, Worker
  <2>2. Outcome(g) \in TurnStatus
    BY DEF Outcome, TurnStatus
  <2>3. turn' \in [Msgs -> TurnStatus]
    BY <1>2, <2>2 DEF Finish, TypeOK
  <2>4. worker' \in [Generations -> Worker] /\ transfer_flag' \in BOOLEAN
    BY <1>2, <2>1, AdvanceType, StageNames DEF Finish
  <2>. QED
    BY <1>2, <2>3, <2>4 DEF Finish, TypeOK
<1>. QED
  BY <1>1, <1>2

LEMMA GraphEventType ==
  ASSUME TypeOK, NEW g \in Generations, GraphEvent(g)
  PROVE  /\ worker' \in [Generations -> Worker]
         /\ transfer_flag' \in BOOLEAN /\ first_reply_sent' \in BOOLEAN
         /\ turn' \in [Msgs -> TurnStatus]
<1>1. worker[g] \in Worker /\ worker[g].view \in BOOLEAN
  BY DEF TypeOK, Worker
<1>2. CASE TakenOver(g)
  BY <1>2, InterruptType DEF GraphEvent
<1>3. CASE NodeUpdate(g)
  <2>1. [worker[g] EXCEPT !.pc = "body", !.updates = worker[g].updates + 1] \in Worker
    BY <1>1, WorkerMoves, StageNames
  <2>. QED
    BY <1>1, <1>3, <2>1 DEF NodeUpdate, TypeOK
<1>4. CASE FinalReply(g)
  <2>1. [worker[g] EXCEPT !.pc = "body", !.drafted = TRUE] \in Worker
    BY <1>1, WorkerMoves, StageNames
  <2>. QED
    BY <1>4, <2>1 DEF FinalReply, TypeOK
<1>5. CASE SendReply(g)
  BY <1>5, AdvanceType, StageNames DEF SendReply, TypeOK
<1>6. CASE SendNothing(g)
  BY <1>6, AdvanceType, StageNames DEF SendNothing, TypeOK
<1>7. CASE HandOver(g)
  BY <1>7, AdvanceType, StageNames DEF HandOver, TypeOK
<1>8. CASE Finish(g)
  BY <1>8, FinishType
<1>. QED
  BY <1>2, <1>3, <1>4, <1>5, <1>6, <1>7, <1>8 DEF GraphEvent

LEMMA TypeStepWorker ==
  ASSUME TypeOK, NEW g \in Generations, WorkerStep(g) \/ WorkerFault(g)
  PROVE  TypeOK'
<1>1. CASE StartWorker(g)
  BY <1>1, FreshWorkers, LoopTopType DEF TypeOK, StartWorker, human
<1>2. CASE TakeBatch(g)
  <2>. DEFINE n == IF Len(pending) < MaxBatch THEN Len(pending) ELSE MaxBatch
              batch == SubSeq(pending, 1, n)
              others == IF active # g THEN Cancel(active) ELSE worker
  <2>1. n \in Nat /\ n <= Len(pending)
    BY BoundsAssumption DEF TypeOK
  <2>2. batch \in Seq(Msgs) /\ Rest(n) \in Seq(Msgs)
    BY <2>1, BatchType
  <2>3. others \in [Generations -> Worker]
    BY CancelType DEF TypeOK
  <2>4. [Absent EXCEPT !.pc = "body", !.view = transfer_flag, !.batch = batch] \in Worker
    BY <2>2 DEF Absent, Worker, Stages, TypeOK
  <2>5. worker' \in [Generations -> Worker] /\ pending' \in Seq(Msgs)
    BY <1>2, <2>2, <2>3, <2>4 DEF TakeBatch
  <2>6. turn' \in [Msgs -> TurnStatus]
    BY <1>2 DEF TakeBatch, TypeOK, TurnStatus
  <2>. QED
    BY <1>2, <2>5, <2>6 DEF TakeBatch, TypeOK, human
<1>3. CASE DebounceCancelled(g)
  BY <1>3, ExitType DEF TypeOK, DebounceCancelled, human
<1>. worker[g] \in Worker
  BY DEF TypeOK
<1>4. CASE GraphEvent(g)
  BY <1>4, GraphEventType DEF TypeOK, GraphEvent, human
<1>5. CASE GraphTimeout(g) \/ GraphError(g)
  BY <1>5, FallbackType DEF TypeOK, GraphTimeout, GraphError, human
<1>6. CASE GraphCancelled(g)
  <2>1. [worker[g] EXCEPT !.pc = "body"] \in Worker
    BY WorkerMoves, StageNames
  <2>2. /\ worker' \in [Generations -> Worker]
        /\ transfer_flag' \in BOOLEAN /\ first_reply_sent' \in BOOLEAN
        /\ turn' \in [Msgs -> TurnStatus]
    BY <1>6, <2>1, InterruptType DEF GraphCancelled, TypeOK
  <2>. QED
    BY <1>6, <2>2 DEF TypeOK, GraphCancelled, human
<1>7. CASE NextEvent(g)
  BY <1>7 DEF TypeOK, NextEvent, Worker, tracker, human
<1>8. CASE SaveChunk(g)
  <2>1. worker' \in [Generations -> Worker]
    <3>1. PICK stage \in {"reply", "after"} : worker' = [worker EXCEPT ![g].stage = stage]
      BY <1>8 DEF SaveChunk
    <3>2. [worker[g] EXCEPT !.stage = stage] \in Worker
      BY <3>1, WorkerMoves, StageNames
    <3>. QED
      BY <3>1, <3>2 DEF TypeOK
  <2>2. saved' \in [Msgs -> Nat]
    BY <1>8 DEF SaveChunk, TypeOK
  <2>. QED
    BY <1>8, <2>1, <2>2 DEF TypeOK, SaveChunk, tracker, human
<1>9. CASE FinishFallback(g)
  BY <1>9, FinishType DEF TypeOK, FinishFallback, human
<1>10. CASE CloseStream(g)
  BY <1>10 DEF TypeOK, CloseStream, Closed, Worker, Stages, tracker, human, NoTask
<1>11. CASE EndTurn(g)
  <2>1. remembered' \subseteq Msgs
    BY <1>11 DEF TypeOK, EndTurn, BatchOf, Members, Worker
  <2>. QED
    BY <1>11, <2>1, LoopTopType DEF TypeOK, EndTurn, human
<1>12. CASE AbortTurn(g)
  BY <1>12 DEF TypeOK, AbortTurn, Closed, Worker, TurnStatus, tracker, human, NoTask
<1>13. CASE CloseWorker(g)
  BY <1>13, ExitType DEF TypeOK, CloseWorker, human
<1>14. CASE BroadcastFails(g)
  <2>1. worker' \in [Generations -> Worker]
    BY <1>14, WorkerMoves, StageNames DEF BroadcastFails, TypeOK
  <2>2. active' \in Generations \cup {NoTask}
    BY <1>14 DEF BroadcastFails, Closed, TypeOK
  <2>3. failures' \in Nat
    BY <1>14 DEF BroadcastFails, TypeOK
  <2>. QED
    BY <1>14, <2>1, <2>2, <2>3 DEF TypeOK, BroadcastFails, tracker, human
<1>15. CASE RequestTimeout(g)
  BY <1>15 DEF TypeOK, RequestTimeout, Worker, tracker, human
<1>. QED
  BY <1>1, <1>2, <1>3, <1>4, <1>5, <1>6, <1>7, <1>8, <1>9, <1>10, <1>11, <1>12, <1>13,
     <1>14, <1>15 DEF WorkerStep, WorkerFault

LEMMA TypeStep == TypeOK /\ [Next]_vars => TypeOK'
<1>. SUFFICES ASSUME TypeOK, [Next]_vars PROVE TypeOK'
  OBVIOUS
<1>1. ASSUME NEW m \in Msgs, PersistCustomerMessage(m) PROVE TypeOK'
  BY <1>1 DEF TypeOK, PersistCustomerMessage, tracker, human
<1>2. ASSUME NEW m \in Msgs, EnqueueAutoReply(m) PROVE TypeOK'
  <2>1. Cancel(task) \in [Generations -> Worker]
    BY CancelType DEF TypeOK
  <2>2. worker' \in [Generations -> Worker]
    BY <1>2, <2>1, FreshWorkers DEF EnqueueAutoReply, TypeOK
  <2>3. pending' \in Seq(Msgs)
    BY <1>2 DEF EnqueueAutoReply, TypeOK
  <2>4. handler' \in [Msgs -> {"none", "stored", "left", "queued"}]
    BY <1>2 DEF EnqueueAutoReply, TypeOK
  <2>5. /\ task' \in Generations \cup {NoTask}
        /\ generation' \in Generations \cup {0}
        /\ first_reply_sent' \in BOOLEAN
    BY <1>2 DEF EnqueueAutoReply, TypeOK
  <2>. QED
    BY <1>2, <2>2, <2>3, <2>4, <2>5 DEF TypeOK, EnqueueAutoReply, human
<1>3. ASSUME NEW g \in Generations, WorkerStep(g) \/ WorkerFault(g) PROVE TypeOK'
  BY <1>3, TypeStepWorker
<1>4. CASE TakeOver
  BY <1>4, CancelType DEF TypeOK, TakeOver, tracker
<1>5. CASE BeginRelease \/ EndRelease
  BY <1>5 DEF TypeOK, BeginRelease, EndRelease, tracker
<1>6. CASE UNCHANGED vars
  BY <1>6 DEF TypeOK, vars
<1>. QED
  BY <1>1, <1>2, <1>3, <1>4, <1>5, <1>6 DEF Next

LEMMA InitType == Init => TypeOK
<1>. SUFFICES ASSUME Init PROVE TypeOK
  OBVIOUS
<1>1. turn \in [Msgs -> TurnStatus] /\ handler \in [Msgs -> {"none", "stored", "left", "queued"}]
  BY DEF Init, TurnStatus
<1>2. saved \in [Msgs -> Nat]
  BY DEF Init
<1>3. worker \in [Generations -> Worker]
  BY FreshWorkers DEF Init
<1>4. pending \in Seq(Msgs)
  BY EmptySeq DEF Init
<1>5. /\ task \in Generations \cup {NoTask} /\ active \in Generations \cup {NoTask}
      /\ generation \in Generations \cup {0}
  BY DEF Init
<1>6. /\ transfer_flag \in BOOLEAN /\ first_reply_sent \in BOOLEAN /\ releasing \in BOOLEAN
      /\ remembered \subseteq Msgs /\ takeovers \in Nat /\ failures \in Nat
  BY DEF Init
<1>. QED
  BY <1>1, <1>2, <1>3, <1>4, <1>5, <1>6 DEF TypeOK

\* Every reachable state of the session's tracker, tasks and rows is
\* well typed, whatever the bounds are.
THEOREM TypeCorrect == Spec => []TypeOK
BY InitType, TypeStep, PTL DEF Spec

-----------------------------------------------------------------------------
(* The inductive invariant.                                                *)

\* A step in which only worker g moves, by itself, keeps the invariant if it
\* does not win back the right to reply and owns the flag it stores.
LEMMA LocalStep ==
  ASSUME IInv, TypeOK', NEW g \in Generations,
         task' = task, generation' = generation,
         \A h \in Generations : h # g => worker'[h] = worker[h],
         ~Done(g), MayReply(g)' => MayReply(g),
         /\ worker'[g].pc \in {"new", "debounce"} => worker'[g].stage = "graph"
         /\ worker'[g].pc = "gen" => worker'[g].stage \in {"graph", "after"},
         active' = active \/ (active' = Closed(g) /\ ~MayReply(g)'),
         MayReply(g)' => worker[g].pc \in {"gen", "body"},
         InBody(g)' /\ worker'[g].stage = "reply" => ~transfer_flag',
         transfer_flag' = transfer_flag \/ MayReply(g)
  PROVE  IInv'
<1>1. TaskIsNewest' /\ NoneNewer' /\ NewestIsTask'
  BY DEF IInv, TaskIsNewest, NoneNewer, NewestIsTask, Done
<1>2. StageOfWait'
  BY DEF IInv, StageOfWait
<1>3. \A h \in Generations : MayReply(h)' => MayReply(h)
  BY DEF MayReply
<1>4. OneReplier'
  BY <1>3 DEF IInv, OneReplier
<1>5. StreamRegistered'
  BY <1>3 DEF IInv, StreamRegistered, OneReplier, MayReply, Closed
<1>6. ReplyIsAutomatic'
  BY <1>3 DEF IInv, ReplyIsAutomatic, OneReplier, MayReply, InBody
<1>. QED
  BY <1>1, <1>2, <1>4, <1>5, <1>6 DEF IInv

\* The finally clause keeps the invariant: the successor it starts is the
\* newest task, and the one that ended was the only one that could reply.
LEMMA ExitStep ==
  ASSUME IInv, TypeOK', NEW g \in Generations, ~Done(g), Exit(g),
         active' = active, transfer_flag' = transfer_flag
  PROVE  IInv'
<1>. TypeOK
  BY DEF IInv
<1>. generation \in Nat /\ \A h \in Generations : h \in Nat /\ h # NoTask
  BY GenerationsAssumption DEF TypeOK, NoTask
<1>1. CASE task # g \/ pending = <<>>
  <2>1. worker' = [worker EXCEPT ![g] = Absent] /\ generation' = generation
    BY <1>1 DEF Exit
  <2>2. task' = task \/ (task = g /\ task' = NoTask)
    BY <1>1 DEF Exit
  <2>3. Done(g)' /\ \A h \in Generations : h # g => worker'[h] = worker[h]
    BY <2>1 DEF TypeOK, Done, Absent
  <2>4. TaskIsNewest' /\ NoneNewer' /\ NewestIsTask'
    BY <2>1, <2>2, <2>3 DEF IInv, TaskIsNewest, NoneNewer, NewestIsTask, Done
  <2>5. StageOfWait'
    BY <2>3 DEF IInv, StageOfWait, Done
  <2>6. OneReplier'
    BY <2>1, <2>2, <2>3 DEF IInv, OneReplier, MayReply, Done
  <2>7. StreamRegistered' /\ ReplyIsAutomatic'
    BY <2>3 DEF IInv, StreamRegistered, ReplyIsAutomatic, MayReply, InBody, Done
  <2>. QED
    BY <2>4, <2>5, <2>6, <2>7 DEF IInv
<1>2. CASE task = g /\ pending # <<>>
  <2>. DEFINE next == generation + 1
  <2>1. /\ next \in Generations /\ task' = next /\ generation' = next
        /\ worker' = [[worker EXCEPT ![g] = Absent] EXCEPT ![next] = Created]
    BY <1>2 DEF Exit
  <2>2. g # next /\ g = generation
    BY <1>2, <2>1 DEF IInv, TaskIsNewest
  <2>3. /\ worker'[g] = Absent /\ worker'[next] = Created
        /\ \A h \in Generations : h # g /\ h # next => worker'[h] = worker[h]
    BY <2>1, <2>2 DEF TypeOK
  <2>4. worker'[g].pc = "none" /\ worker'[next].pc = "new" /\ worker'[next].stage = "graph"
    BY <2>3 DEF Absent, Created
  <2>5. TaskIsNewest'
    BY <2>1 DEF TaskIsNewest
  <2>6. NoneNewer' /\ NewestIsTask'
    <3>1. ASSUME NEW h \in Generations, ~Done(h)' PROVE h = next \/ h <= generation
      BY <2>3, <2>4, <3>1 DEF IInv, NoneNewer, Done
    <3>. QED
      BY <2>1, <3>1 DEF NoneNewer, NewestIsTask
  <2>7. StageOfWait'
    BY <2>3, <2>4 DEF IInv, StageOfWait
  <2>8. OneReplier'
    BY <1>2, <2>1, <2>3, <2>4 DEF IInv, OneReplier, MayReply
  <2>9. StreamRegistered' /\ ReplyIsAutomatic'
    BY <2>3, <2>4 DEF IInv, StreamRegistered, ReplyIsAutomatic, MayReply, InBody
  <2>. QED
    BY <2>5, <2>6, <2>7, <2>8, <2>9 DEF IInv
<1>. QED
  BY <1>1, <1>2

\* The top of the loop keeps it: a worker of the newest generation is the
\* tracker's task, so the next batch is its to take.
LEMMA LoopTopStep ==
  ASSUME IInv, TypeOK', NEW g \in Generations, ~Done(g), LoopTop(g),
         active' = active, transfer_flag' = transfer_flag
  PROVE  IInv'
<1>. TypeOK
  BY DEF IInv
<1>1. CASE generation # g \/ pending = <<>>
  BY <1>1, ExitStep DEF LoopTop
<1>2. CASE ~(generation # g \/ pending = <<>>)
  <2>1. /\ task' = task /\ generation' = generation
        /\ worker' = [worker EXCEPT ![g] = [Absent EXCEPT !.pc = "debounce"]]
    BY <1>2 DEF LoopTop
  <2>2. task = g /\ generation = g
    BY <1>2 DEF IInv, NewestIsTask
  <2>3. /\ worker'[g].pc = "debounce" /\ worker'[g].stage = "graph"
        /\ \A h \in Generations : h # g => worker'[h] = worker[h]
    BY <2>1 DEF TypeOK, Absent
  <2>4. TaskIsNewest' /\ NoneNewer' /\ NewestIsTask'
    BY <2>1, <2>2, <2>3 DEF IInv, TaskIsNewest, NoneNewer, NewestIsTask, Done
  <2>5. StageOfWait'
    BY <2>3 DEF IInv, StageOfWait
  <2>6. OneReplier'
    BY <2>1, <2>2, <2>3 DEF IInv, OneReplier, MayReply
  <2>7. StreamRegistered' /\ ReplyIsAutomatic'
    BY <2>3 DEF IInv, StreamRegistered, ReplyIsAutomatic, MayReply, InBody
  <2>. QED
    BY <2>4, <2>5, <2>6, <2>7 DEF IInv
<1>. QED
  BY <1>1, <1>2

\* A queued message keeps it: the worker that is replaced is cancelled first,
\* and the new one is the newest.
LEMMA EnqueueStep ==
  ASSUME IInv, TypeOK', NEW m \in Msgs, EnqueueAutoReply(m)
  PROVE  IInv'
<1>. TypeOK
  BY DEF IInv
<1>. generation \in Nat /\ \A h \in Generations : h \in Nat /\ h # NoTask
  BY GenerationsAssumption DEF TypeOK, NoTask
<1>1. CASE ~Restarts
  BY <1>1 DEF EnqueueAutoReply, IInv, TaskIsNewest, NoneNewer, NewestIsTask, StageOfWait,
              OneReplier, StreamRegistered, ReplyIsAutomatic, MayReply, InBody, Done
<1>2. CASE Restarts
  <2>. DEFINE next == generation + (IF Live(task) THEN 2 ELSE 1)
  <2>1. /\ next \in Generations /\ task' = next /\ generation' = next
        /\ worker' = [Cancel(task) EXCEPT ![next] = Created]
        /\ active' = active /\ transfer_flag' = transfer_flag
    BY <1>2 DEF EnqueueAutoReply
  <2>2. next > generation
    OBVIOUS
  <2>3. Cancel(task) \in [Generations -> Worker]
    BY CancelType DEF TypeOK
  <2>4. worker'[next].pc = "new" /\ worker'[next].stage = "graph"
    BY <2>1, <2>3 DEF Absent, Created
  <2>5. ASSUME NEW h \in Generations, h # next
        PROVE  /\ worker'[h] = Cancel(task)[h]
               /\ worker'[h].pc = worker[h].pc /\ worker'[h].stage = worker[h].stage
               /\ h = task /\ ~Done(h) => worker'[h].cancelled
    <3>1. worker'[h] = Cancel(task)[h]
      BY <2>1, <2>3, <2>5
    <3>2. CASE h = task /\ ~Done(h)
      <4>1. worker'[h] = [worker[h] EXCEPT !.cancelled = TRUE]
        BY <3>1, <3>2 DEF Cancel, Live, TypeOK
      <4>2. worker[h] \in Worker
        BY DEF TypeOK
      <4>. QED
        BY <3>1, <4>1, <4>2 DEF Worker
    <3>3. CASE h # task \/ Done(h)
      BY <3>1, <3>3 DEF Cancel, Live, Done, TypeOK
    <3>. QED
      BY <3>1, <3>2, <3>3
  <2>6. ASSUME NEW h \in Generations, h # next PROVE ~MayReply(h)'
    <3>1. CASE h = task
      BY <2>5, <2>6, <3>1 DEF MayReply, Done
    <3>2. CASE h # task
      <4>1. ~MayReply(h)
        BY <3>2 DEF IInv, OneReplier
      <4>2. worker'[h] = worker[h]
        BY <2>5, <2>6, <3>2 DEF Cancel, TypeOK
      <4>. QED
        BY <4>1, <4>2 DEF MayReply
    <3>. QED
      BY <3>1, <3>2
  <2>7. TaskIsNewest'
    BY <2>1 DEF TaskIsNewest
  <2>8. NoneNewer' /\ NewestIsTask'
    <3>1. ASSUME NEW h \in Generations, ~Done(h)' PROVE h = next \/ h <= generation
      BY <2>5, <3>1 DEF IInv, NoneNewer, Done
    <3>. QED
      BY <2>1, <2>2, <3>1 DEF NoneNewer, NewestIsTask
  <2>9. StageOfWait'
    BY <2>4, <2>5 DEF IInv, StageOfWait
  <2>10. OneReplier'
    BY <2>1, <2>6 DEF OneReplier
  <2>11. StreamRegistered'
    BY <2>4, <2>6 DEF StreamRegistered
  <2>12. ReplyIsAutomatic'
    BY <2>4, <2>6 DEF ReplyIsAutomatic, InBody, MayReply
  <2>. QED
    BY <2>7, <2>8, <2>9, <2>10, <2>11, <2>12 DEF IInv
<1>. QED
  BY <1>1, <1>2

\* Taking over keeps it: the one worker that could store a chunk is the
\* registered stream and is cancelled with the flag.
LEMMA TakeOverStep ==
  ASSUME IInv, TypeOK', TakeOver
  PROVE  IInv'
<1>. TypeOK
  BY DEF IInv
<1>1. /\ task' = task /\ generation' = generation /\ active' = active
      /\ worker' = Cancel(active)
  BY DEF TakeOver, tracker
<1>2. ASSUME NEW h \in Generations
      PROVE  /\ worker'[h].pc = worker[h].pc /\ worker'[h].stage = worker[h].stage
             /\ MayReply(h)' => MayReply(h) /\ h # active
             /\ InBody(h)' => InBody(h)
  <2>1. h # NoTask
    BY GenerationsAssumption DEF NoTask
  <2>2. CASE h # active \/ Done(h)
    <3>1. worker'[h] = worker[h]
      BY <1>1, <2>2 DEF Cancel, Live, Done, TypeOK
    <3>. QED
      BY <2>2, <3>1 DEF MayReply, InBody, Done
  <2>3. CASE h = active /\ ~Done(h)
    <3>1. worker'[h] = [worker[h] EXCEPT !.cancelled = TRUE]
      BY <1>1, <2>1, <2>3 DEF Cancel, Live, TypeOK
    <3>2. worker[h] \in Worker
      BY DEF TypeOK
    <3>3. /\ worker'[h].pc = worker[h].pc /\ worker'[h].stage = worker[h].stage
          /\ worker'[h].cancelled
      BY <3>1, <3>2 DEF Worker
    <3>. QED
      BY <3>3 DEF MayReply, InBody
  <2>. QED
    BY <2>2, <2>3
<1>3. TaskIsNewest' /\ NoneNewer' /\ NewestIsTask'
  BY <1>1, <1>2 DEF IInv, TaskIsNewest, NoneNewer, NewestIsTask, Done
<1>4. StageOfWait'
  BY <1>2 DEF IInv, StageOfWait
<1>5. OneReplier'
  BY <1>1, <1>2 DEF IInv, OneReplier
<1>6. StreamRegistered'
  BY <1>1, <1>2 DEF IInv, StreamRegistered
<1>7. ReplyIsAutomatic'
  <2>1. ASSUME NEW h \in Generations, InBody(h)', worker'[h].stage = "reply" PROVE FALSE
    <3>1. MayReply(h)'
      BY <2>1 DEF InBody, MayReply
    <3>2. h # active /\ MayReply(h) /\ worker[h].pc = "body"
      BY <1>2, <2>1, <3>1 DEF InBody
    <3>. QED
      BY <3>2 DEF IInv, StreamRegistered
  <2>. QED
    BY <2>1 DEF ReplyIsAutomatic
<1>. QED
  BY <1>3, <1>4, <1>5, <1>6, <1>7 DEF IInv

\* Taking a batch keeps it: the worker that does is the only one that may.
LEMMA TakeBatchStep ==
  ASSUME IInv, TypeOK', NEW g \in Generations, TakeBatch(g)
  PROVE  IInv'
<1>. TypeOK
  BY DEF IInv
<1>. DEFINE batch == SubSeq(pending, 1, IF Len(pending) < MaxBatch THEN Len(pending) ELSE MaxBatch)
            others == IF active # g THEN Cancel(active) ELSE worker
<1>1. /\ task' = task /\ generation' = generation /\ active' = g
      /\ transfer_flag' = transfer_flag
      /\ worker[g].pc = "debounce" /\ ~worker[g].cancelled
      /\ worker' = [others EXCEPT ![g] = [Absent EXCEPT !.pc = "body", !.view = transfer_flag,
                                                       !.batch = batch]]
  BY DEF TakeBatch
<1>2. MayReply(g) /\ g = task /\ g = generation
  BY <1>1 DEF IInv, StageOfWait, OneReplier, MayReply
<1>3. others \in [Generations -> Worker]
  BY CancelType DEF TypeOK
<1>4. worker'[g].pc = "body" /\ worker'[g].stage = "graph"
  BY <1>1, <1>3 DEF Absent
<1>5. ASSUME NEW h \in Generations, h # g
      PROVE  /\ worker'[h].pc = worker[h].pc /\ worker'[h].stage = worker[h].stage
             /\ ~MayReply(h)'
  <2>1. ~MayReply(h)
    BY <1>2, <1>5 DEF IInv, OneReplier
  <2>2. worker'[h] = worker[h] \/ worker'[h] = [worker[h] EXCEPT !.cancelled = TRUE]
    BY <1>1, <1>3, <1>5 DEF Cancel, TypeOK
  <2>3. worker[h] \in Worker
    BY DEF TypeOK
  <2>. QED
    BY <2>1, <2>2, <2>3 DEF MayReply, Worker
<1>6. TaskIsNewest' /\ NoneNewer' /\ NewestIsTask'
  BY <1>1, <1>2, <1>4, <1>5 DEF IInv, TaskIsNewest, NoneNewer, NewestIsTask, Done
<1>7. StageOfWait'
  BY <1>4, <1>5 DEF IInv, StageOfWait
<1>8. OneReplier'
  BY <1>1, <1>2, <1>5 DEF OneReplier
<1>9. StreamRegistered'
  BY <1>1, <1>5 DEF StreamRegistered
<1>10. ReplyIsAutomatic'
  BY <1>4, <1>5 DEF ReplyIsAutomatic, InBody, MayReply
<1>. QED
  BY <1>6, <1>7, <1>8, <1>9, <1>10 DEF IInv

\* What the moves of the stream change in a worker.
LEMMA MovedWorker ==
  ASSUME TypeOK, NEW g \in Generations
  PROVE  /\ Interrupt(g) =>
              /\ worker'[g].pc = "body" /\ worker'[g].stage = "final"
              /\ \A h \in Generations : h # g => worker'[h] = worker[h]
         /\ \A s \in Stages, v \in BOOLEAN : Advance(g, s, v) =>
              /\ worker'[g].pc = "body" /\ worker'[g].stage = s /\ transfer_flag' = v
              /\ worker'[g].cancelled = worker[g].cancelled
              /\ \A h \in Generations : h # g => worker'[h] = worker[h]
         /\ Fallback(g) =>
              /\ worker'[g].pc = "body" /\ worker'[g].stage = "fallback"
              /\ worker'[g].cancelled = worker[g].cancelled
              /\ \A h \in Generations : h # g => worker'[h] = worker[h]
<1>. worker[g] \in Worker
  BY DEF TypeOK
<1>1. ASSUME Interrupt(g)
      PROVE  /\ worker'[g].pc = "body" /\ worker'[g].stage = "final"
             /\ \A h \in Generations : h # g => worker'[h] = worker[h]
  BY <1>1 DEF Interrupt, TypeOK, Worker
<1>2. ASSUME NEW s \in Stages, NEW v \in BOOLEAN, Advance(g, s, v)
      PROVE  /\ worker'[g].pc = "body" /\ worker'[g].stage = s /\ transfer_flag' = v
             /\ worker'[g].cancelled = worker[g].cancelled
             /\ \A h \in Generations : h # g => worker'[h] = worker[h]
  BY <1>2 DEF Advance, TypeOK, Worker
<1>3. ASSUME Fallback(g)
      PROVE  /\ worker'[g].pc = "body" /\ worker'[g].stage = "fallback"
             /\ worker'[g].cancelled = worker[g].cancelled
             /\ \A h \in Generations : h # g => worker'[h] = worker[h]
  BY <1>3 DEF Fallback, TypeOK, Worker
<1>. QED
  BY <1>1, <1>2, <1>3

\* An update of the graph keeps the invariant: only the worker that may reply
\* gets one, and it starts to reply under a flag it has just cleared itself.
LEMMA GraphEventStep ==
  ASSUME IInv, TypeOK', NEW g \in Generations, GraphEvent(g)
  PROVE  IInv'
<1>. TypeOK /\ worker[g] \in Worker /\ worker[g].view \in BOOLEAN
  BY DEF IInv, TypeOK, Worker
<1>1. /\ task' = task /\ generation' = generation /\ active' = active
      /\ worker[g].pc = "gen" /\ ~worker[g].cancelled
  BY DEF GraphEvent, InGraph
<1>2. MayReply(g) /\ ~Done(g) /\ worker[g].stage \in {"graph", "after"}
  BY <1>1 DEF IInv, StageOfWait, MayReply, Done
<1>3. ASSUME worker'[g].pc = "body",
             \A h \in Generations : h # g => worker'[h] = worker[h],
             worker'[g].stage = "reply" => ~transfer_flag'
      PROVE  IInv'
  BY <1>1, <1>2, <1>3, LocalStep DEF InBody
<1>4. CASE Interrupt(g)
  BY <1>3, <1>4, MovedWorker
<1>5. CASE NodeUpdate(g) \/ FinalReply(g)
  <2>1. /\ worker'[g].pc = "body" /\ worker'[g].stage = worker[g].stage
        /\ \A h \in Generations : h # g => worker'[h] = worker[h]
    <3>1. CASE NodeUpdate(g)
      BY <3>1 DEF NodeUpdate, TypeOK, Worker
    <3>2. CASE FinalReply(g)
      BY <3>2 DEF FinalReply, TypeOK, Worker
    <3>. QED
      BY <1>5, <3>1, <3>2
  <2>. QED
    BY <1>2, <1>3, <2>1
<1>6. CASE SendReply(g)
  BY <1>3, <1>6, MovedWorker, StageNames DEF SendReply
<1>7. CASE SendNothing(g) \/ HandOver(g)
  BY <1>3, <1>7, MovedWorker, StageNames DEF SendNothing, HandOver
<1>8. CASE Finish(g)
  BY <1>3, <1>8, MovedWorker, StageNames DEF Finish
<1>. QED
  BY <1>4, <1>5, <1>6, <1>7, <1>8 DEF GraphEvent

\* Every step of a worker keeps the invariant.
LEMMA WorkerKeepsInv ==
  ASSUME IInv, NEW g \in Generations, WorkerStep(g) \/ WorkerFault(g)
  PROVE  IInv'
<1>. TypeOK /\ TypeOK' /\ worker[g] \in Worker
  BY TypeStepWorker DEF IInv, TypeOK
<1>1. CASE StartWorker(g)
  <2>1. CASE worker[g].cancelled
    <3>1. /\ task' = task /\ generation' = generation /\ active' = active
          /\ transfer_flag' = transfer_flag
          /\ worker' = [worker EXCEPT ![g] = Absent] /\ ~Done(g)
      BY <1>1, <2>1 DEF StartWorker, Done
    <3>2. worker'[g].pc = "none" /\ \A h \in Generations : h # g => worker'[h] = worker[h]
      BY <3>1 DEF TypeOK, Absent
    <3>3. ~MayReply(g)' /\ ~InBody(g)'
      BY <3>2 DEF MayReply, InBody
    <3>. QED
      BY <3>1, <3>2, <3>3, LocalStep
  <2>2. CASE ~worker[g].cancelled
    BY <1>1, <2>2, LoopTopStep DEF StartWorker, Done
  <2>. QED
    BY <2>1, <2>2
<1>2. CASE TakeBatch(g)
  BY <1>2, TakeBatchStep
<1>3. CASE DebounceCancelled(g)
  BY <1>3, ExitStep DEF DebounceCancelled, Done
<1>4. CASE GraphEvent(g)
  BY <1>4, GraphEventStep
<1>5. CASE GraphTimeout(g) \/ GraphError(g)
  <2>1. /\ task' = task /\ generation' = generation /\ active' = active /\ Fallback(g)
        /\ worker[g].pc = "gen" /\ ~worker[g].cancelled
    BY <1>5 DEF GraphTimeout, GraphError, InGraph
  <2>2. MayReply(g) /\ ~Done(g)
    BY <2>1 DEF IInv, StageOfWait, MayReply, Done
  <2>. QED
    BY <2>1, <2>2, MovedWorker, LocalStep
<1>6. CASE GraphCancelled(g)
  <2>1. /\ task' = task /\ generation' = generation /\ active' = active
        /\ transfer_flag' = transfer_flag
        /\ worker[g].pc = "gen" /\ worker[g].cancelled /\ ~Done(g)
    BY <1>6 DEF GraphCancelled, Interrupt, Done
  <2>2. /\ worker'[g].pc = "body"
        /\ worker'[g].cancelled \/ worker'[g].stage = "final"
        /\ \A h \in Generations : h # g => worker'[h] = worker[h]
    BY <1>6, MovedWorker DEF GraphCancelled, TypeOK, Worker
  <2>3. ~MayReply(g)' /\ (InBody(g)' => worker'[g].stage = "final")
    BY <2>2 DEF MayReply, InBody
  <2>. QED
    BY <2>1, <2>2, <2>3, LocalStep
<1>7. CASE NextEvent(g)
  <2>1. /\ task' = task /\ generation' = generation /\ active' = active
        /\ transfer_flag' = transfer_flag /\ InBody(g) /\ ~Done(g)
        /\ worker[g].stage \in {"graph", "after"}
        /\ worker' = [worker EXCEPT ![g].pc = "gen"]
    BY <1>7 DEF NextEvent, tracker, InBody, Done
  <2>2. /\ worker'[g].pc = "gen" /\ worker'[g].stage = worker[g].stage
        /\ \A h \in Generations : h # g => worker'[h] = worker[h]
    BY <2>1 DEF TypeOK, Worker
  <2>3. MayReply(g)
    BY <2>1 DEF MayReply, InBody
  <2>. QED
    BY <2>1, <2>2, <2>3, LocalStep DEF InBody
<1>8. CASE SaveChunk(g)
  <2>1. /\ task' = task /\ generation' = generation /\ active' = active
        /\ transfer_flag' = transfer_flag /\ InBody(g) /\ ~Done(g)
        /\ worker[g].stage = "reply"
    BY <1>8 DEF SaveChunk, tracker, InBody, Done
  <2>2. PICK stage \in {"reply", "after"} : worker' = [worker EXCEPT ![g].stage = stage]
    BY <1>8 DEF SaveChunk
  <2>3. worker'[g].pc = "body" /\ \A h \in Generations : h # g => worker'[h] = worker[h]
    BY <2>1, <2>2 DEF InBody, TypeOK, Worker
  <2>4. MayReply(g) /\ ~transfer_flag
    BY <2>1 DEF IInv, ReplyIsAutomatic, MayReply, InBody
  <2>. QED
    BY <2>1, <2>3, <2>4, LocalStep DEF InBody
<1>9. CASE FinishFallback(g)
  <2>1. /\ task' = task /\ generation' = generation /\ active' = active
        /\ InBody(g) /\ ~Done(g) /\ worker[g].stage = "fallback" /\ Finish(g)
    BY <1>9 DEF FinishFallback, InBody, Done
  <2>2. MayReply(g) /\ worker[g].view \in BOOLEAN
    BY <2>1 DEF MayReply, InBody, Worker
  <2>3. /\ worker'[g].pc = "body" /\ worker'[g].stage = "final"
        /\ \A h \in Generations : h # g => worker'[h] = worker[h]
    BY <2>1, <2>2, MovedWorker, StageNames DEF Finish
  <2>. QED
    BY <2>1, <2>2, <2>3, LocalStep DEF InBody
<1>10. CASE CloseStream(g)
  <2>1. /\ task' = task /\ generation' = generation /\ active' = Closed(g)
        /\ transfer_flag' = transfer_flag /\ InBody(g) /\ ~Done(g)
        /\ worker' = [worker EXCEPT ![g].stage = "tail"]
    BY <1>10 DEF CloseStream, tracker, InBody, Done
  <2>2. /\ worker'[g].pc = "body" /\ worker'[g].stage = "tail"
        /\ \A h \in Generations : h # g => worker'[h] = worker[h]
    BY <2>1 DEF InBody, TypeOK, Worker
  <2>3. ~MayReply(g)'
    BY <2>2 DEF MayReply
  <2>. QED
    BY <2>1, <2>2, <2>3, LocalStep
<1>11. CASE EndTurn(g)
  BY <1>11, LoopTopStep DEF EndTurn, InBody, Done
<1>12. CASE AbortTurn(g) \/ BroadcastFails(g)
  <2>1. /\ task' = task /\ generation' = generation /\ active' = Closed(g)
        /\ transfer_flag' = transfer_flag /\ worker[g].pc = "body" /\ ~Done(g)
    BY <1>12 DEF AbortTurn, BroadcastFails, tracker, InBody, Done
  <2>2. /\ worker'[g].pc = "closing"
        /\ \A h \in Generations : h # g => worker'[h] = worker[h]
    <3>1. CASE AbortTurn(g)
      BY <3>1 DEF AbortTurn, TypeOK, Worker
    <3>2. CASE BroadcastFails(g)
      BY <3>2 DEF BroadcastFails, TypeOK, Worker
    <3>. QED
      BY <1>12, <3>1, <3>2
  <2>3. ~MayReply(g)' /\ ~InBody(g)'
    BY <2>2 DEF MayReply, InBody
  <2>. QED
    BY <2>1, <2>2, <2>3, LocalStep
<1>13. CASE CloseWorker(g)
  BY <1>13, ExitStep DEF CloseWorker, Done
<1>14. CASE RequestTimeout(g)
  <2>1. /\ task' = task /\ generation' = generation /\ active' = active
        /\ transfer_flag' = transfer_flag /\ worker[g].pc \in {"gen", "body"} /\ ~Done(g)
        /\ worker' = [worker EXCEPT ![g].expired = TRUE]
    BY <1>14 DEF RequestTimeout, tracker, Done
  <2>2. /\ worker'[g] = [worker[g] EXCEPT !.expired = TRUE]
        /\ \A h \in Generations : h # g => worker'[h] = worker[h]
    BY <2>1 DEF TypeOK
  <2>3. /\ worker'[g].pc = worker[g].pc /\ worker'[g].stage = worker[g].stage
        /\ worker'[g].cancelled = worker[g].cancelled /\ worker'[g].expired
    BY <2>2 DEF Worker
  <2>4. worker[g].pc = "gen" => worker[g].stage \in {"graph", "after"}
    BY DEF IInv, StageOfWait
  <2>5. (MayReply(g)' => MayReply(g)) /\ ~InBody(g)'
    BY <2>3 DEF MayReply, InBody
  <2>6. worker[g].pc \notin {"new", "debounce"}
    BY <2>1
  <2>. QED
    BY <2>1, <2>2, <2>3, <2>4, <2>5, <2>6, LocalStep
<1>. QED
  BY <1>1, <1>2, <1>3, <1>4, <1>5, <1>6, <1>7, <1>8, <1>9, <1>10, <1>11, <1>12, <1>13,
     <1>14 DEF WorkerStep, WorkerFault

LEMMA InvStep == IInv /\ [Next]_vars => IInv'
<1>. SUFFICES ASSUME IInv, [Next]_vars PROVE IInv'
  OBVIOUS
<1>. TypeOK /\ TypeOK'
  BY TypeStep DEF IInv
<1>1. ASSUME NEW m \in Msgs, PersistCustomerMessage(m) PROVE IInv'
  BY <1>1 DEF PersistCustomerMessage, tracker, IInv, TaskIsNewest, NoneNewer, NewestIsTask,
              StageOfWait, OneReplier, StreamRegistered, ReplyIsAutomatic, MayReply, InBody, Done
<1>2. ASSUME NEW m \in Msgs, EnqueueAutoReply(m) PROVE IInv'
  BY <1>2, EnqueueStep
<1>3. ASSUME NEW g \in Generations, WorkerStep(g) \/ WorkerFault(g) PROVE IInv'
  BY <1>3, WorkerKeepsInv
<1>4. CASE TakeOver
  BY <1>4, TakeOverStep
<1>5. CASE BeginRelease \/ EndRelease
  BY <1>5 DEF BeginRelease, EndRelease, tracker, IInv, TaskIsNewest, NoneNewer, NewestIsTask,
              StageOfWait, OneReplier, StreamRegistered, ReplyIsAutomatic, MayReply, InBody, Done
<1>6. CASE UNCHANGED vars
  BY <1>6 DEF vars, IInv, TaskIsNewest, NoneNewer, NewestIsTask, StageOfWait, OneReplier,
              StreamRegistered, ReplyIsAutomatic, MayReply, InBody, Done
<1>. QED
  BY <1>1, <1>2, <1>3, <1>4, <1>5, <1>6 DEF Next

LEMMA InitInv == Init => IInv
<1>. SUFFICES ASSUME Init PROVE IInv
  OBVIOUS
<1>1. TypeOK
  BY InitType
<1>2. \A g \in Generations : worker[g].pc = "none" /\ worker[g].stage = "graph"
  BY DEF Init, Absent
<1>3. task = NoTask
  BY DEF Init
<1>. QED
  BY <1>1, <1>2, <1>3 DEF IInv, TaskIsNewest, NoneNewer, NewestIsTask, StageOfWait, OneReplier,
                          StreamRegistered, ReplyIsAutomatic, MayReply, InBody, Done

-----------------------------------------------------------------------------
\* However many tasks a burst of messages leaves behind, only the tracker's
\* newest one may still take a batch or store a reply (ws.py:186-213).
THEOREM OnlyOneReplier == Spec => []OneReplier
<1>1. IInv => OneReplier
  BY DEF IInv
<1>. QED
  BY InitInv, InvStep, <1>1, PTL DEF Spec

\* No step ever stores a reply chunk while a human owns the session
\* (ws.py:349-385 against service.py:984-985).
THEOREM HumanSilencesReplies == Spec => NoReplyUnderHuman
<1>1. IInv /\ [Next]_vars => [saved' # saved => ~transfer_flag]_vars
  <2>. SUFFICES ASSUME IInv, [Next]_vars, saved' # saved PROVE ~transfer_flag
    OBVIOUS
  <2>1. PICK g \in Generations : SaveChunk(g)
    BY DEF Next, vars, WorkerStep, WorkerFault, PersistCustomerMessage, EnqueueAutoReply,
           StartWorker, TakeBatch, DebounceCancelled, GraphEvent, GraphTimeout, GraphError,
           GraphCancelled, NextEvent, FinishFallback, CloseStream, EndTurn, AbortTurn,
           CloseWorker, BroadcastFails, RequestTimeout, TakeOver, BeginRelease, EndRelease
  <2>. QED
    BY <2>1 DEF SaveChunk, IInv, ReplyIsAutomatic
<1>. QED
  BY InitInv, InvStep, <1>1, PTL DEF Spec, NoReplyUnderHuman


-----------------------------------------------------------------------------
(* How a step moves the workers.                                           *)

\* Worker g goes on within its turn, up to the except clauses; the stream is
\* registered until it is closed.
Within(g) ==
  /\ worker[g].pc \in {"gen", "body"}
  /\ worker'[g].pc \in {"gen", "body", "closing"}
  /\ worker'[g].batch = worker[g].batch
  /\ \A h \in Generations \ {g} : worker'[h] = worker[h]
  /\ MayReply(g)' => MayReply(g)
  /\ worker'[g].stage = "reply" => first_reply_sent' \/ worker[g].stage = "reply"
  /\ first_reply_sent => first_reply_sent'
  /\ \/ active' = Closed(g)
     \/ /\ active' = active /\ worker'[g].pc # "closing"
        /\ worker'[g].stage = "tail" => worker[g].stage = "tail"
  /\ UNCHANGED <<pending, task, generation, handler>>

\* A cancellation changes nothing else in a worker.
LEMMA CancelledWorkers ==
  ASSUME TypeOK, NEW x \in Generations \cup {NoTask}, NEW h \in Generations
  PROVE  /\ Cancel(x)[h].pc = worker[h].pc /\ Cancel(x)[h].stage = worker[h].stage
         /\ Cancel(x)[h].batch = worker[h].batch
         /\ Cancel(x)[h].cancelled => worker[h].cancelled \/ h = x
         /\ worker[h].cancelled => Cancel(x)[h].cancelled
<1>1. worker[h] \in Worker
  BY DEF TypeOK
<1>2. \/ Cancel(x)[h] = worker[h]
      \/ h = x /\ Cancel(x)[h] = [worker[h] EXCEPT !.cancelled = TRUE]
  <2>1. CASE Live(x)
    <3>1. x \in Generations /\ Cancel(x) = [worker EXCEPT ![x].cancelled = TRUE]
      BY <2>1 DEF Cancel, Live
    <3> QED BY <3>1 DEF TypeOK
  <2>2. CASE ~Live(x)
    BY <2>2 DEF Cancel
  <2> QED BY <2>1, <2>2
<1>3. CASE Cancel(x)[h] = worker[h]
  BY <1>3
<1>4. CASE h = x /\ Cancel(x)[h] = [worker[h] EXCEPT !.cancelled = TRUE]
  BY <1>1, <1>4 DEF Worker
<1> QED BY <1>2, <1>3, <1>4

\* The moves of the stream keep the batch.
LEMMA MovedBatch ==
  ASSUME TypeOK, NEW g \in Generations
  PROVE  /\ Interrupt(g) => worker'[g].batch = worker[g].batch
         /\ \A s \in Stages, v \in BOOLEAN :
              Advance(g, s, v) => worker'[g].batch = worker[g].batch
         /\ Fallback(g) => worker'[g].batch = worker[g].batch
<1> worker[g] \in Worker
  BY DEF TypeOK
<1>1. ASSUME Interrupt(g) PROVE worker'[g].batch = worker[g].batch
  BY <1>1 DEF Interrupt, TypeOK, Worker
<1>2. ASSUME NEW s \in Stages, NEW v \in BOOLEAN, Advance(g, s, v)
      PROVE  worker'[g].batch = worker[g].batch
  BY <1>2 DEF Advance, TypeOK, Worker
<1>3. ASSUME Fallback(g) PROVE worker'[g].batch = worker[g].batch
  BY <1>3 DEF Fallback, TypeOK, Worker
<1> QED BY <1>1, <1>2, <1>3

\* The end of a turn's graph is a step within the turn.
LEMMA FinishWithin ==
  ASSUME IInv, NEW g \in Generations, Finish(g), worker[g].pc \in {"gen", "body"},
         active' = active, UNCHANGED <<pending, task, generation, handler>>
  PROVE  Within(g)
<1> TypeOK /\ worker[g] \in Worker
  BY DEF IInv, TypeOK
<1>1. worker[g].view \in BOOLEAN
  BY DEF Worker
<1>2. /\ worker'[g].pc = "body" /\ worker'[g].stage = "final"
      /\ worker'[g].batch = worker[g].batch
      /\ \A h \in Generations : h # g => worker'[h] = worker[h]
  BY <1>1, MovedWorker, MovedBatch, StageNames DEF Finish
<1>3. ~MayReply(g)'
  BY <1>2 DEF MayReply
<1>4. first_reply_sent' = first_reply_sent
  BY DEF Finish, Interrupt
<1> QED BY <1>2, <1>3, <1>4 DEF Within

LEMMA GraphEventWithin ==
  ASSUME IInv, NEW g \in Generations, GraphEvent(g)
  PROVE  Within(g)
<1> TypeOK /\ worker[g] \in Worker
  BY DEF IInv, TypeOK
<1>1. /\ worker[g].pc = "gen" /\ ~worker[g].cancelled
      /\ active' = active /\ UNCHANGED <<pending, task, generation, handler>>
  BY DEF GraphEvent, InGraph
<1>2. MayReply(g) /\ worker[g].stage \in {"graph", "after"}
  BY <1>1 DEF IInv, StageOfWait, MayReply
<1>3. ASSUME worker'[g].pc = "body", worker'[g].batch = worker[g].batch,
             \A h \in Generations : h # g => worker'[h] = worker[h],
             worker'[g].stage = "reply" => first_reply_sent',
             worker'[g].stage # "tail",
             first_reply_sent => first_reply_sent'
      PROVE  Within(g)
  BY <1>1, <1>2, <1>3 DEF Within
<1>4. CASE Interrupt(g)
  BY <1>3, <1>4, MovedWorker, MovedBatch DEF Interrupt
<1>5. CASE NodeUpdate(g)
  <2>1. /\ worker'[g].pc = "body" /\ worker'[g].stage = worker[g].stage
        /\ worker'[g].batch = worker[g].batch
        /\ \A h \in Generations : h # g => worker'[h] = worker[h]
    BY <1>5 DEF NodeUpdate, TypeOK, Worker
  <2> QED BY <1>2, <1>3, <1>5, <2>1 DEF NodeUpdate
<1>6. CASE FinalReply(g)
  <2>1. /\ worker'[g].pc = "body" /\ worker'[g].stage = worker[g].stage
        /\ worker'[g].batch = worker[g].batch
        /\ \A h \in Generations : h # g => worker'[h] = worker[h]
    BY <1>6 DEF FinalReply, TypeOK, Worker
  <2> QED BY <1>2, <1>3, <1>6, <2>1 DEF FinalReply
<1>7. CASE SendReply(g)
  BY <1>3, <1>7, MovedWorker, MovedBatch, StageNames DEF SendReply
<1>8. CASE SendNothing(g) \/ HandOver(g)
  BY <1>3, <1>8, MovedWorker, MovedBatch, StageNames DEF SendNothing, HandOver
<1>9. CASE Finish(g)
  BY <1>1, <1>9, FinishWithin
<1> QED BY <1>4, <1>5, <1>6, <1>7, <1>8, <1>9 DEF GraphEvent

\* All steps within a turn; only SaveChunk stores something of the reply.
LEMMA WithinTurn ==
  ASSUME IInv, NEW g \in Generations,
         \/ GraphEvent(g) \/ GraphTimeout(g) \/ GraphError(g) \/ GraphCancelled(g)
         \/ NextEvent(g) \/ FinishFallback(g) \/ CloseStream(g) \/ AbortTurn(g)
         \/ BroadcastFails(g) \/ RequestTimeout(g) \/ SaveChunk(g)
  PROVE  Within(g) /\ (saved' = saved \/ SaveChunk(g))
<1> TypeOK /\ worker[g] \in Worker
  BY DEF IInv, TypeOK
<1>1. CASE GraphEvent(g)
  BY <1>1, GraphEventWithin DEF GraphEvent
<1>2. CASE GraphTimeout(g) \/ GraphError(g)
  <2>1. /\ worker[g].pc = "gen" /\ ~worker[g].cancelled /\ Fallback(g)
        /\ active' = active /\ saved' = saved /\ UNCHANGED <<pending, task, generation, handler>>
    BY <1>2 DEF GraphTimeout, GraphError, InGraph
  <2>2. MayReply(g)
    BY <2>1 DEF IInv, StageOfWait, MayReply
  <2>3. /\ worker'[g].pc = "body" /\ worker'[g].stage = "fallback"
        /\ worker'[g].batch = worker[g].batch
        /\ \A h \in Generations : h # g => worker'[h] = worker[h]
    BY <2>1, MovedWorker, MovedBatch
  <2> QED BY <2>1, <2>2, <2>3 DEF Within, Fallback
<1>3. CASE GraphCancelled(g)
  <2>1. /\ worker[g].pc = "gen" /\ worker[g].cancelled
        /\ active' = active /\ saved' = saved /\ UNCHANGED <<pending, task, generation, handler>>
        /\ first_reply_sent' = first_reply_sent
    BY <1>3 DEF GraphCancelled, Interrupt
  <2>2. worker[g].stage \in {"graph", "after"}
    BY <2>1 DEF IInv, StageOfWait
  <2>3. CASE Interrupt(g)
    <3>1. /\ worker'[g].pc = "body" /\ worker'[g].stage = "final"
          /\ worker'[g].batch = worker[g].batch
          /\ \A h \in Generations : h # g => worker'[h] = worker[h]
      BY <2>3, MovedWorker, MovedBatch
    <3> QED BY <2>1, <3>1 DEF Within, MayReply
  <2>4. CASE worker' = [worker EXCEPT ![g].pc = "body"]
    <3>1. /\ worker'[g].pc = "body" /\ worker'[g].stage = worker[g].stage
          /\ worker'[g].batch = worker[g].batch /\ worker'[g].cancelled
          /\ \A h \in Generations : h # g => worker'[h] = worker[h]
      BY <2>1, <2>4 DEF TypeOK, Worker
    <3> QED BY <2>1, <2>2, <3>1 DEF Within, MayReply
  <2> QED BY <1>3, <2>3, <2>4 DEF GraphCancelled
<1>4. CASE NextEvent(g)
  <2>1. /\ worker[g].pc = "body" /\ worker' = [worker EXCEPT ![g].pc = "gen"]
        /\ active' = active /\ saved' = saved /\ UNCHANGED <<pending, task, generation, handler>>
        /\ first_reply_sent' = first_reply_sent
    BY <1>4 DEF NextEvent, InBody, tracker
  <2>2. /\ worker'[g].pc = "gen" /\ worker'[g].stage = worker[g].stage
        /\ worker'[g].batch = worker[g].batch /\ worker'[g].cancelled = worker[g].cancelled
        /\ \A h \in Generations : h # g => worker'[h] = worker[h]
    BY <2>1 DEF TypeOK, Worker
  <2> QED BY <2>1, <2>2 DEF Within, MayReply
<1>5. CASE FinishFallback(g)
  <2>1. /\ worker[g].pc = "body" /\ Finish(g)
        /\ active' = active /\ saved' = saved /\ UNCHANGED <<pending, task, generation, handler>>
    BY <1>5 DEF FinishFallback, InBody
  <2> QED BY <2>1, FinishWithin
<1>6. CASE CloseStream(g)
  <2>1. /\ worker[g].pc = "body" /\ worker' = [worker EXCEPT ![g].stage = "tail"]
        /\ active' = Closed(g) /\ saved' = saved
        /\ UNCHANGED <<pending, task, generation, handler>>
        /\ first_reply_sent' = first_reply_sent
    BY <1>6 DEF CloseStream, InBody, tracker
  <2>2. /\ worker'[g].pc = "body" /\ worker'[g].stage = "tail"
        /\ worker'[g].batch = worker[g].batch
        /\ \A h \in Generations : h # g => worker'[h] = worker[h]
    BY <2>1 DEF TypeOK, Worker
  <2> QED BY <2>1, <2>2 DEF Within, MayReply
<1>7. CASE AbortTurn(g) \/ BroadcastFails(g)
  <2>1. /\ worker[g].pc = "body" /\ active' = Closed(g) /\ saved' = saved
        /\ UNCHANGED <<pending, task, generation, handler>>
        /\ first_reply_sent' = first_reply_sent
    BY <1>7 DEF AbortTurn, BroadcastFails, InBody, tracker
  <2>2. /\ worker'[g].pc = "closing" /\ worker'[g].stage = worker[g].stage
        /\ worker'[g].batch = worker[g].batch
        /\ \A h \in Generations : h # g => worker'[h] = worker[h]
    <3>1. CASE AbortTurn(g)
      BY <3>1 DEF AbortTurn, TypeOK, Worker
    <3>2. CASE BroadcastFails(g)
      BY <3>2 DEF BroadcastFails, TypeOK, Worker
    <3> QED BY <1>7, <3>1, <3>2
  <2> QED BY <2>1, <2>2 DEF Within, MayReply
<1>8. CASE RequestTimeout(g)
  <2>1. /\ worker[g].pc \in {"gen", "body"} /\ worker' = [worker EXCEPT ![g].expired = TRUE]
        /\ active' = active /\ saved' = saved
        /\ UNCHANGED <<pending, task, generation, handler>>
        /\ first_reply_sent' = first_reply_sent
    BY <1>8 DEF RequestTimeout, tracker
  <2>2. /\ worker'[g].pc = worker[g].pc /\ worker'[g].stage = worker[g].stage
        /\ worker'[g].batch = worker[g].batch /\ worker'[g].cancelled = worker[g].cancelled
        /\ \A h \in Generations : h # g => worker'[h] = worker[h]
    BY <2>1 DEF TypeOK, Worker
  <2> QED BY <2>1, <2>2 DEF Within, MayReply
<1>9. CASE SaveChunk(g)
  <2>1. /\ worker[g].pc = "body" /\ worker[g].stage = "reply" /\ MayReply(g)
        /\ active' = active /\ UNCHANGED <<pending, task, generation, handler>>
        /\ first_reply_sent' = first_reply_sent
    BY <1>9 DEF SaveChunk, InBody, MayReply, tracker
  <2>2. PICK stage \in {"reply", "after"} : worker' = [worker EXCEPT ![g].stage = stage]
    BY <1>9 DEF SaveChunk
  <2>3. /\ worker'[g].pc = "body" /\ worker'[g].stage = stage
        /\ worker'[g].batch = worker[g].batch
        /\ \A h \in Generations : h # g => worker'[h] = worker[h]
    BY <2>1, <2>2 DEF TypeOK, Worker
  <2> QED BY <1>9, <2>1, <2>3 DEF Within
<1> QED BY <1>1, <1>2, <1>3, <1>4, <1>5, <1>6, <1>7, <1>8, <1>9

-----------------------------------------------------------------------------
(* The tracker's task.                                                     *)

Served == pending # <<>> => task # NoTask
TaskLives == task # NoTask => ~Done(task)

\* A task that is cancelled before its first step is no longer the tracker's.
TaskStarts ==
  \A g \in Generations : worker[g].pc = "new" /\ worker[g].cancelled => g # task

\* The registered stream belongs to a worker in its turn.
StreamsRun ==
  \A g \in Generations :
    active = g => worker[g].pc \in {"gen", "body"} /\ worker[g].stage # "tail"

Waiting == Served /\ TaskLives /\ TaskStarts /\ StreamsRun

LEMMA WaitingWithin ==
  ASSUME IInv, Waiting, NEW g \in Generations, Within(g)
  PROVE  Waiting'
<1>1. Served'
  BY DEF Waiting, Served, Within
<1>2. \A h \in Generations : h # g => worker'[h] = worker[h]
  BY DEF Within
<1>3. TaskLives'
  BY <1>2 DEF Waiting, TaskLives, Within, Done, IInv, TypeOK
<1>4. TaskStarts'
  BY <1>2 DEF Waiting, TaskStarts, Within
<1>5. StreamsRun'
  <2>1. g # NoTask
    BY GenerationsAssumption DEF NoTask
  <2>2. ASSUME NEW h \in Generations, h # g, active' = h
        PROVE  worker'[h].pc \in {"gen", "body"} /\ worker'[h].stage # "tail"
    <3>1. h # NoTask
      BY GenerationsAssumption DEF NoTask
    <3>2. active = h
      BY <2>2, <3>1 DEF Within, Closed
    <3> QED BY <1>2, <2>2, <3>2 DEF Waiting, StreamsRun
  <2>3. CASE active' = g
    <3>1. active = g /\ worker'[g].pc # "closing"
          /\ (worker'[g].stage = "tail" => worker[g].stage = "tail")
      BY <2>1, <2>3 DEF Within, Closed
    <3> QED BY <2>2, <3>1 DEF Waiting, StreamsRun, Within
  <2> QED BY <2>2, <2>3 DEF StreamsRun
<1> QED BY <1>1, <1>3, <1>4, <1>5 DEF Waiting

LEMMA WaitingExit ==
  ASSUME IInv, Waiting, NEW g \in Generations, ~Done(g), Exit(g), active # g,
         active' = active, pending' = pending
  PROVE  Waiting'
<1> TypeOK
  BY DEF IInv
<1> generation \in Nat /\ \A h \in Generations : h \in Nat /\ h # NoTask
  BY GenerationsAssumption DEF TypeOK, NoTask
<1>1. CASE task # g \/ pending = <<>>
  <2>1. worker' = [worker EXCEPT ![g] = Absent]
    BY <1>1 DEF Exit
  <2>2. \/ task' = task /\ task # g
        \/ pending = <<>> /\ task' = NoTask
    BY <1>1 DEF Exit
  <2>3. worker'[g].pc = "none" /\ \A h \in Generations : h # g => worker'[h] = worker[h]
    BY <2>1 DEF TypeOK, Absent
  <2>4. Served'
    BY <2>2 DEF Waiting, Served
  <2>5. TaskLives'
    BY <2>2, <2>3 DEF Waiting, TaskLives, Done, TypeOK
  <2>6. TaskStarts'
    BY <2>2, <2>3 DEF Waiting, TaskStarts
  <2>7. StreamsRun'
    BY <2>3 DEF Waiting, StreamsRun
  <2> QED BY <2>4, <2>5, <2>6, <2>7 DEF Waiting
<1>2. CASE task = g /\ pending # <<>>
  <2> DEFINE next == generation + 1
  <2>1. /\ next \in Generations /\ task' = next
        /\ worker' = [[worker EXCEPT ![g] = Absent] EXCEPT ![next] = Created]
    BY <1>2 DEF Exit
  <2>2. Done(next)
    BY <2>1 DEF IInv, NoneNewer
  <2>3. g # next
    BY <2>2
  <2>4. /\ worker'[next].pc = "new" /\ ~worker'[next].cancelled /\ worker'[g].pc = "none"
        /\ \A h \in Generations : h # g /\ h # next => worker'[h] = worker[h]
    BY <2>1, <2>3 DEF TypeOK, Absent, Created
  <2>5. Served' /\ TaskLives'
    BY <2>1, <2>4 DEF Served, TaskLives, Done
  <2>6. TaskStarts'
    BY <2>1, <2>4 DEF TaskStarts
  <2>7. StreamsRun'
    BY <2>2, <2>4 DEF Waiting, StreamsRun, Done
  <2> QED BY <2>5, <2>6, <2>7 DEF Waiting
<1> QED BY <1>1, <1>2

LEMMA WaitingLoopTop ==
  ASSUME IInv, Waiting, NEW g \in Generations, ~Done(g), LoopTop(g), active # g,
         active' = active, pending' = pending
  PROVE  Waiting'
<1>1. CASE generation # g \/ pending = <<>>
  BY <1>1, WaitingExit DEF LoopTop
<1>2. CASE ~(generation # g \/ pending = <<>>)
  <2>1. task' = task /\ worker' = [worker EXCEPT ![g] = [Absent EXCEPT !.pc = "debounce"]]
    BY <1>2 DEF LoopTop
  <2>2. worker'[g].pc = "debounce" /\ \A h \in Generations : h # g => worker'[h] = worker[h]
    BY <2>1 DEF IInv, TypeOK, Absent
  <2>3. Served' /\ TaskLives'
    BY <2>1, <2>2 DEF Waiting, Served, TaskLives, Done, IInv, TypeOK
  <2>4. TaskStarts' /\ StreamsRun'
    BY <2>1, <2>2 DEF Waiting, TaskStarts, StreamsRun
  <2> QED BY <2>3, <2>4 DEF Waiting
<1> QED BY <1>1, <1>2

LEMMA WaitingEnqueue ==
  ASSUME IInv, Waiting, NEW m \in Msgs, EnqueueAutoReply(m)
  PROVE  Waiting'
<1> TypeOK
  BY DEF IInv
<1> generation \in Nat /\ \A h \in Generations : h \in Nat /\ h # NoTask
  BY GenerationsAssumption DEF TypeOK, NoTask
<1>1. CASE ~Restarts
  <2>1. UNCHANGED <<task, worker, active>> /\ Live(task)
    BY <1>1 DEF EnqueueAutoReply, Restarts
  <2> QED BY <2>1 DEF Waiting, Served, TaskLives, TaskStarts, StreamsRun, Done, Live
<1>2. CASE Restarts
  <2> DEFINE next == generation + (IF Live(task) THEN 2 ELSE 1)
  <2>1. /\ next \in Generations /\ task' = next /\ active' = active
        /\ worker' = [Cancel(task) EXCEPT ![next] = Created]
    BY <1>2 DEF EnqueueAutoReply
  <2>2. Done(next)
    BY <2>1 DEF IInv, NoneNewer
  <2>3. Cancel(task) \in [Generations -> Worker]
    BY CancelType DEF TypeOK
  <2>4. worker'[next].pc = "new" /\ ~worker'[next].cancelled
    BY <2>1, <2>3 DEF Absent, Created
  <2>5. \A h \in Generations : h # next =>
          worker'[h].pc = worker[h].pc /\ worker'[h].stage = worker[h].stage
    BY <2>1, <2>3, CancelledWorkers DEF TypeOK
  <2>6. Served' /\ TaskLives' /\ TaskStarts'
    BY <2>1, <2>4 DEF Served, TaskLives, TaskStarts, Done
  <2>7. StreamsRun'
    BY <2>1, <2>2, <2>5 DEF Waiting, StreamsRun, Done
  <2> QED BY <2>6, <2>7 DEF Waiting
<1> QED BY <1>1, <1>2

\* A cancellation of the registered stream only.
LEMMA WaitingTakeOver == ASSUME IInv, Waiting, TakeOver PROVE Waiting'
<1> TypeOK
  BY DEF IInv
<1>1. /\ task' = task /\ active' = active /\ pending' = pending /\ worker' = Cancel(active)
  BY DEF TakeOver, tracker
<1>2. \A h \in Generations :
        /\ worker'[h].pc = worker[h].pc /\ worker'[h].stage = worker[h].stage
        /\ worker'[h].cancelled => worker[h].cancelled \/ h = active
  BY <1>1, CancelledWorkers DEF TypeOK
<1>3. Served' /\ TaskLives'
  BY <1>1, <1>2 DEF Waiting, Served, TaskLives, Done, TypeOK
<1>4. TaskStarts' /\ StreamsRun'
  BY <1>1, <1>2 DEF Waiting, TaskStarts, StreamsRun
<1> QED BY <1>3, <1>4 DEF Waiting

\* Who takes a batch, and what it makes of the workers.
LEMMA BatchTaken ==
  ASSUME IInv, NEW g \in Generations, TakeBatch(g)
  PROVE  /\ g = task /\ MayReply(g) /\ worker[g].pc = "debounce"
         /\ worker'[g].pc = "body" /\ worker'[g].stage = "graph"
         /\ MayReply(g)'
         /\ worker'[g].batch =
              SubSeq(pending, 1, IF Len(pending) < MaxBatch THEN Len(pending) ELSE MaxBatch)
         /\ \A h \in Generations : h # g =>
              /\ worker'[h].pc = worker[h].pc /\ worker'[h].stage = worker[h].stage
              /\ worker'[h].batch = worker[h].batch
              /\ worker'[h].cancelled => worker[h].cancelled \/ h = active
<1> TypeOK
  BY DEF IInv
<1> DEFINE n == IF Len(pending) < MaxBatch THEN Len(pending) ELSE MaxBatch
           others == IF active # g THEN Cancel(active) ELSE worker
<1>1. /\ worker[g].pc = "debounce" /\ ~worker[g].cancelled
      /\ worker' = [others EXCEPT ![g] = [Absent EXCEPT !.pc = "body",
                                         !.view = transfer_flag, !.batch = SubSeq(pending, 1, n)]]
  BY DEF TakeBatch
<1>2. MayReply(g) /\ g = task
  BY <1>1 DEF IInv, StageOfWait, OneReplier, MayReply
<1>3. others \in [Generations -> Worker]
  BY CancelType DEF TypeOK
<1>4. /\ worker'[g].pc = "body" /\ worker'[g].stage = "graph" /\ ~worker'[g].cancelled
      /\ worker'[g].batch = SubSeq(pending, 1, n)
  BY <1>1, <1>3 DEF Absent
<1>5. ASSUME NEW h \in Generations, h # g
      PROVE  /\ worker'[h].pc = worker[h].pc /\ worker'[h].stage = worker[h].stage
             /\ worker'[h].batch = worker[h].batch
             /\ worker'[h].cancelled => worker[h].cancelled \/ h = active
  <2>1. worker'[h] = others[h]
    BY <1>1, <1>3, <1>5
  <2> QED BY <2>1, CancelledWorkers DEF TypeOK
<1>6. MayReply(g)'
  BY <1>4 DEF MayReply
<1> QED BY <1>1, <1>2, <1>4, <1>5, <1>6

LEMMA WaitingTakeBatch ==
  ASSUME IInv, Waiting, NEW g \in Generations, TakeBatch(g)
  PROVE  Waiting'
<1>1. task' = task /\ active' = g
  BY DEF TakeBatch
<1>2. g # NoTask
  BY GenerationsAssumption DEF NoTask
<1>3. Served' /\ TaskLives'
  BY <1>1, <1>2, BatchTaken DEF Served, TaskLives, Done
<1>4. TaskStarts' /\ StreamsRun'
  BY <1>1, BatchTaken DEF Waiting, TaskStarts, StreamsRun
<1> QED BY <1>3, <1>4 DEF Waiting

\* A task that is cancelled before its first step goes like one that has been
\* replaced.
LEMMA NeverStarted ==
  ASSUME Waiting, NEW g \in Generations, StartWorker(g), worker[g].cancelled
  PROVE  Exit(g)
BY DEF Waiting, TaskStarts, StartWorker, Exit

\* The steps that end a worker's round: back to the top of its loop, or out.
LEMMA TrackerSteps ==
  ASSUME IInv, Waiting, NEW g \in Generations,
         StartWorker(g) \/ DebounceCancelled(g) \/ CloseWorker(g) \/ EndTurn(g)
  PROVE  /\ LoopTop(g) \/ Exit(g)
         /\ ~Done(g) /\ active # g
         /\ ~MayReply(g) \/ worker[g].pc = "new"
         /\ UNCHANGED <<active, pending, handler, saved, transfer_flag>>
<1>1. CASE StartWorker(g)
  <2>1. LoopTop(g) \/ Exit(g)
    BY <1>1, NeverStarted DEF StartWorker
  <2>2. worker[g].pc = "new" /\ active # g
    BY <1>1 DEF StartWorker, Waiting, StreamsRun
  <2> QED BY <1>1, <2>1, <2>2 DEF StartWorker, Done
<1>2. CASE DebounceCancelled(g) \/ CloseWorker(g)
  BY <1>2 DEF DebounceCancelled, CloseWorker, Done, MayReply, Waiting, StreamsRun
<1>3. CASE EndTurn(g)
  BY <1>3 DEF EndTurn, InBody, Done, MayReply, Waiting, StreamsRun
<1> QED BY <1>1, <1>2, <1>3

LEMMA WaitingStep == IInv /\ Waiting /\ [Next]_vars => Waiting'
<1> SUFFICES ASSUME IInv, Waiting, [Next]_vars PROVE Waiting'
  OBVIOUS
<1>1. CASE \E m \in Msgs : EnqueueAutoReply(m)
  BY <1>1, WaitingEnqueue
<1>2. CASE TakeOver
  BY <1>2, WaitingTakeOver
<1>3. CASE UNCHANGED <<pending, task, active, worker>>
  BY <1>3 DEF Waiting, Served, TaskLives, TaskStarts, StreamsRun, Done
<1>4. ASSUME NEW g \in Generations, WorkerStep(g) \/ WorkerFault(g) PROVE Waiting'
  <2>1. CASE StartWorker(g) \/ DebounceCancelled(g) \/ CloseWorker(g) \/ EndTurn(g)
    BY <2>1, TrackerSteps, WaitingExit, WaitingLoopTop
  <2>2. CASE TakeBatch(g)
    BY <2>2, WaitingTakeBatch
  <2> QED BY <1>4, <2>1, <2>2, WithinTurn, WaitingWithin
          DEF WorkerStep, WorkerFault
<1> QED BY <1>1, <1>2, <1>3, <1>4
        DEF Next, vars, PersistCustomerMessage, BeginRelease, EndRelease, tracker

LEMMA WaitingInit == Init => Waiting
<1> SUFFICES ASSUME Init PROVE Waiting
  OBVIOUS
<1>1. /\ pending = <<>> /\ task = NoTask /\ active = NoTask
      /\ \A g \in Generations : worker[g].pc = "none"
  BY DEF Init, Absent
<1>2. \A g \in Generations : g # NoTask
  BY GenerationsAssumption DEF NoTask
<1> QED BY <1>1, <1>2 DEF Waiting, Served, TaskLives, TaskStarts, StreamsRun

\* No message waits without a task that has still to run, however its
\* predecessors ended (ws.py:190-196, 332-341).
THEOREM QueueIsServed == Spec => []QueueServed
<1>1. Waiting => QueueServed
  BY DEF Waiting, Served, TaskLives, QueueServed
<1> QED BY <1>1, InitInv, InvStep, WaitingInit, WaitingStep, PTL DEF Spec

-----------------------------------------------------------------------------
(* Where a message is.                                                     *)

\* A message waits once, and was given to the tracker.
QueuedOnce ==
  /\ \A i \in DOMAIN pending : handler[pending[i]] = "queued"
  /\ \A i, j \in DOMAIN pending : pending[i] = pending[j] => i = j

\* What a batch has, or a reply answered, no longer waits.
TakenOnce ==
  \A g \in Generations : \A m \in BatchOf(g) :
    handler[m] = "queued" /\ m \notin Members(pending)
AnsweredIsTaken ==
  \A m \in Msgs : saved[m] > 0 => handler[m] = "queued" /\ m \notin Members(pending)

\* A worker has a batch when it is in its turn and not before, and waits for
\* the debounce only while a batch is there for it.
BatchOfWait ==
  \A g \in Generations :
    /\ worker[g].pc \in {"none", "new", "debounce"} => worker[g].batch = <<>>
    /\ MayReply(g) /\ worker[g].pc \in {"gen", "body"} => worker[g].batch # <<>>
    /\ MayReply(g) /\ worker[g].pc = "debounce" => pending # <<>>

\* The tracker knows of the reply its task has begun, or is about to.
ReplyIsTold ==
  \A g \in Generations : MayReply(g) /\ worker[g].stage = "reply" => first_reply_sent
BegunIsTold ==
  task # NoTask => \A m \in BatchOf(task) : saved[m] > 0 => first_reply_sent

Placed ==
  QueuedOnce /\ TakenOnce /\ AnsweredIsTaken /\ BatchOfWait /\ ReplyIsTold /\ BegunIsTold

LEMMA NoMembers == Members(<<>>) = {}
BY DEF Members

LEMMA BatchMsgs == ASSUME TypeOK, NEW g \in Generations PROVE BatchOf(g) \subseteq Msgs
<1>1. worker[g].batch \in Seq(Msgs)
  BY DEF TypeOK, Worker
<1>2. \A i \in DOMAIN worker[g].batch : worker[g].batch[i] \in Msgs
  BY <1>1
<1> QED BY <1>2 DEF BatchOf, Members

\* The batch and the rest of the queue, by position.
LEMMA QueueSplit ==
  ASSUME TypeOK, NEW n \in Nat, n <= Len(pending)
  PROVE  /\ SubSeq(pending, 1, n) \in Seq(Msgs) /\ Rest(n) \in Seq(Msgs)
         /\ Len(SubSeq(pending, 1, n)) = n
         /\ Members(SubSeq(pending, 1, n)) = {pending[i] : i \in 1 .. n}
         /\ Len(Rest(n)) = Len(pending) - n
         /\ \A i \in 1 .. Len(pending) - n : Rest(n)[i] = pending[n + i]
<1>1. Len(pending) \in Nat /\ pending \in Seq(Msgs)
  BY DEF TypeOK
<1>2. \A i \in 1 .. n : pending[i] \in Msgs
  BY <1>1
<1>3. \A i \in n + 1 .. Len(pending) : pending[i] \in Msgs
  BY <1>1
<1>4. /\ SubSeq(pending, 1, n) \in Seq(Msgs) /\ Len(SubSeq(pending, 1, n)) = n
      /\ \A i \in 1 .. n : SubSeq(pending, 1, n)[i] = pending[i]
  <2>1. 1 \in Int /\ n \in Int /\ 1 <= n + 1
    OBVIOUS
  <2> QED BY <1>1, <1>2, <2>1, SubSeqProperties
<1>5. /\ Rest(n) \in Seq(Msgs) /\ Len(Rest(n)) = Len(pending) - n
      /\ \A i \in 1 .. Len(pending) - n : Rest(n)[i] = pending[n + i]
  <2>1. n + 1 \in Int /\ Len(pending) \in Int /\ n + 1 <= Len(pending) + 1
    BY <1>1
  <2>2. Len(pending) - (n + 1) + 1 = Len(pending) - n
    BY <1>1
  <2>3. /\ Rest(n) \in Seq(Msgs)
        /\ Len(Rest(n)) = IF n + 1 <= Len(pending) THEN Len(pending) - (n + 1) + 1 ELSE 0
        /\ \A i \in 1 .. Len(pending) - (n + 1) + 1 : Rest(n)[i] = pending[n + 1 + i - 1]
    BY <1>1, <1>3, <2>1, SubSeqProperties DEF Rest
  <2>4. Len(Rest(n)) = Len(pending) - n
    BY <1>1, <2>3
  <2>5. ASSUME NEW i \in 1 .. Len(pending) - n
        PROVE  Rest(n)[i] = pending[n + i]
    <3>1. n + 1 + i - 1 = n + i
      OBVIOUS
    <3> QED BY <2>2, <2>3, <3>1
  <2> QED BY <2>3, <2>4, <2>5
<1>6. DOMAIN SubSeq(pending, 1, n) = 1 .. n
  BY <1>4
<1> QED BY <1>4, <1>5, <1>6 DEF Members

LEMMA PlacedWithin ==
  ASSUME IInv, Placed, NEW g \in Generations, Within(g), saved' = saved \/ SaveChunk(g)
  PROVE  Placed'
<1> TypeOK
  BY DEF IInv
<1>1. /\ \A h \in Generations : worker'[h].batch = worker[h].batch
      /\ \A h \in Generations : BatchOf(h)' = BatchOf(h)
      /\ \A h \in Generations : MayReply(h)' => MayReply(h)
      /\ UNCHANGED <<pending, task, handler>>
  BY DEF Within, MayReply, BatchOf
<1>2. QueuedOnce' /\ TakenOnce'
  BY <1>1 DEF Placed, QueuedOnce, TakenOnce
<1>3. CASE saved' = saved
  <2>1. AnsweredIsTaken'
    BY <1>1, <1>3 DEF Placed, AnsweredIsTaken
  <2>2. BegunIsTold'
    BY <1>1, <1>3 DEF Placed, BegunIsTold, Within, TypeOK
  <2>3. BatchOfWait' /\ ReplyIsTold'
    BY <1>1 DEF Placed, BatchOfWait, ReplyIsTold, Within
  <2> QED BY <1>2, <2>1, <2>2, <2>3 DEF Placed
<1>4. CASE SaveChunk(g)
  <2>1. MayReply(g) /\ worker[g].stage = "reply" /\ first_reply_sent
    BY <1>4 DEF SaveChunk, InBody, MayReply, Placed, ReplyIsTold
  <2>2. first_reply_sent'
    BY <2>1 DEF Within
  <2>3. AnsweredIsTaken'
    <3>1. \A m \in Msgs : saved'[m] = saved[m] \/ m \in BatchOf(g)
      BY <1>4 DEF SaveChunk, TypeOK
    <3> QED BY <1>1, <3>1 DEF Placed, AnsweredIsTaken, TakenOnce
  <2>4. BegunIsTold' /\ ReplyIsTold'
    BY <2>2 DEF BegunIsTold, ReplyIsTold
  <2>5. BatchOfWait'
    BY <1>1 DEF Placed, BatchOfWait, Within
  <2> QED BY <1>2, <2>3, <2>4, <2>5 DEF Placed
<1> QED BY <1>3, <1>4

LEMMA PlacedExit ==
  ASSUME IInv, IInv', Placed, NEW g \in Generations, ~Done(g), Exit(g),
         UNCHANGED <<pending, handler, saved>>
  PROVE  Placed'
<1> TypeOK
  BY DEF IInv
<1> generation \in Nat /\ \A h \in Generations : h \in Nat /\ h # NoTask
  BY GenerationsAssumption DEF TypeOK, NoTask
<1>1. QueuedOnce' /\ AnsweredIsTaken'
  BY DEF Placed, QueuedOnce, AnsweredIsTaken
<1>2. CASE task # g \/ pending = <<>>
  <2>1. worker' = [worker EXCEPT ![g] = Absent]
    BY <1>2 DEF Exit
  <2>2. \/ task' = task /\ task # g /\ first_reply_sent' = first_reply_sent
        \/ task = g /\ task' = NoTask
    BY <1>2 DEF Exit
  <2>3. /\ worker'[g].pc = "none" /\ worker'[g].batch = <<>>
        /\ \A h \in Generations : h # g => worker'[h] = worker[h]
    BY <2>1 DEF TypeOK, Absent
  <2>4. BatchOf(g)' = {} /\ \A h \in Generations : h # g => BatchOf(h)' = BatchOf(h)
    BY <2>3, NoMembers DEF BatchOf
  <2>5. TakenOnce'
    BY <2>4 DEF Placed, TakenOnce
  <2>6. BatchOfWait'
    BY <2>3 DEF Placed, BatchOfWait, MayReply
  <2>7. ReplyIsTold'
    BY <2>2, <2>3 DEF Placed, ReplyIsTold, MayReply, IInv, OneReplier
  <2>8. BegunIsTold'
    BY <2>2, <2>4 DEF Placed, BegunIsTold, TypeOK
  <2> QED BY <1>1, <2>5, <2>6, <2>7, <2>8 DEF Placed
<1>3. CASE task = g /\ pending # <<>>
  <2>1. PICK next \in Generations :
          /\ next = generation + 1 /\ task' = next
          /\ worker' = [[worker EXCEPT ![g] = Absent] EXCEPT ![next] = Created]
    BY <1>3 DEF Exit
  <2>2. g # next
    BY <2>1 DEF IInv, NoneNewer
  <2>3. /\ worker'[next].pc = "new" /\ worker'[next].batch = <<>>
        /\ worker'[next].stage = "graph"
        /\ worker'[g].pc = "none" /\ worker'[g].batch = <<>>
        /\ \A h \in Generations : h # g /\ h # next => worker'[h] = worker[h]
    BY <2>1, <2>2 DEF TypeOK, Absent, Created
  <2>4. /\ BatchOf(g)' = {} /\ BatchOf(next)' = {}
        /\ \A h \in Generations : h # g /\ h # next => BatchOf(h)' = BatchOf(h)
    BY <2>1, <2>3, NoMembers DEF BatchOf
  <2>5. TakenOnce'
    BY <2>4 DEF Placed, TakenOnce
  <2>6. BatchOfWait'
    BY <2>3 DEF Placed, BatchOfWait, MayReply
  <2>7. ReplyIsTold'
    BY <2>1, <2>3 DEF ReplyIsTold, IInv, OneReplier
  <2>8. BegunIsTold'
    BY <2>1, <2>4 DEF BegunIsTold
  <2> QED BY <1>1, <2>5, <2>6, <2>7, <2>8 DEF Placed
<1> QED BY <1>2, <1>3

LEMMA PlacedLoopTop ==
  ASSUME IInv, IInv', Placed, NEW g \in Generations, ~Done(g), LoopTop(g),
         UNCHANGED <<pending, handler, saved>>
  PROVE  Placed'
<1>1. CASE generation # g \/ pending = <<>>
  BY <1>1, PlacedExit DEF LoopTop
<1>2. CASE ~(generation # g \/ pending = <<>>)
  <2>1. /\ task' = task /\ task = g /\ pending # <<>>
        /\ worker' = [worker EXCEPT ![g] = [Absent EXCEPT !.pc = "debounce"]]
    BY <1>2 DEF LoopTop, IInv, NewestIsTask
  <2>2. /\ worker'[g].pc = "debounce" /\ worker'[g].batch = <<>> /\ worker'[g].stage = "graph"
        /\ \A h \in Generations : h # g => worker'[h] = worker[h]
    BY <2>1 DEF IInv, TypeOK, Absent
  <2>3. BatchOf(g)' = {} /\ \A h \in Generations : h # g => BatchOf(h)' = BatchOf(h)
    BY <2>2, NoMembers DEF BatchOf
  <2>4. QueuedOnce' /\ AnsweredIsTaken' /\ TakenOnce'
    BY <2>3 DEF Placed, QueuedOnce, AnsweredIsTaken, TakenOnce
  <2>5. BatchOfWait'
    BY <2>1, <2>2 DEF Placed, BatchOfWait, MayReply
  <2>6. ReplyIsTold'
    BY <2>1, <2>2 DEF ReplyIsTold, IInv, OneReplier
  <2>7. BegunIsTold'
    BY <2>1, <2>3 DEF BegunIsTold
  <2> QED BY <2>4, <2>5, <2>6, <2>7 DEF Placed
<1> QED BY <1>1, <1>2

LEMMA PlacedEnqueue ==
  ASSUME IInv, IInv', Placed, NEW m \in Msgs, EnqueueAutoReply(m)
  PROVE  Placed'
<1> TypeOK
  BY DEF IInv
<1> generation \in Nat /\ \A h \in Generations : h \in Nat /\ h # NoTask
  BY GenerationsAssumption DEF TypeOK, NoTask
<1>1. /\ handler[m] = "stored" /\ handler' = [handler EXCEPT ![m] = "queued"]
      /\ pending' = Append(pending, m) /\ saved' = saved
  BY DEF EnqueueAutoReply
<1>2. /\ handler'[m] = "queued"
      /\ \A x \in Msgs : handler[x] = "queued" => x # m /\ handler'[x] = "queued"
  BY <1>1 DEF TypeOK
<1>3. /\ pending' # <<>>
      /\ Len(pending) \in Nat /\ DOMAIN pending = 1 .. Len(pending)
      /\ DOMAIN pending' = 1 .. Len(pending) + 1
      /\ pending'[Len(pending) + 1] = m
      /\ \A i \in DOMAIN pending : pending'[i] = pending[i] /\ pending[i] \in Msgs
  BY <1>1 DEF TypeOK
<1>4. \A i \in DOMAIN pending' : i \in DOMAIN pending \/ i = Len(pending) + 1
  BY <1>3
<1>5. Members(pending') \subseteq Members(pending) \cup {m}
  BY <1>3, <1>4 DEF Members
<1>6. QueuedOnce'
  BY <1>2, <1>3, <1>4 DEF Placed, QueuedOnce
<1>7. AnsweredIsTaken'
  BY <1>1, <1>2, <1>5 DEF Placed, AnsweredIsTaken
<1>8. ASSUME NEW h \in Generations, BatchOf(h)' = BatchOf(h), NEW x \in BatchOf(h)'
      PROVE  handler'[x] = "queued" /\ x \notin Members(pending')
  <2>1. x \in Msgs
    BY <1>8, BatchMsgs
  <2> QED BY <1>2, <1>5, <1>8, <2>1 DEF Placed, TakenOnce
<1>9. CASE ~Restarts
  <2>1. UNCHANGED <<task, worker, first_reply_sent>>
    BY <1>9 DEF EnqueueAutoReply
  <2>2. \A h \in Generations : BatchOf(h)' = BatchOf(h)
    BY <2>1 DEF BatchOf
  <2>3. TakenOnce'
    BY <1>8, <2>2 DEF TakenOnce, Members
  <2>4. BatchOfWait' /\ ReplyIsTold'
    BY <1>3, <2>1 DEF Placed, BatchOfWait, ReplyIsTold, MayReply
  <2>5. BegunIsTold'
    BY <1>1, <2>1 DEF Placed, BegunIsTold, BatchOf
  <2> QED BY <1>6, <1>7, <2>3, <2>4, <2>5 DEF Placed
<1>10. CASE Restarts
  <2>1. PICK next \in Generations :
          /\ next > generation /\ task' = next
          /\ worker' = [Cancel(task) EXCEPT ![next] = Created]
    BY <1>10 DEF EnqueueAutoReply
  <2>2. Cancel(task) \in [Generations -> Worker]
    BY CancelType DEF TypeOK
  <2>3. /\ worker'[next].pc = "new" /\ worker'[next].batch = <<>>
        /\ worker'[next].stage = "graph"
    BY <2>1, <2>2 DEF Absent, Created
  <2>4. \A h \in Generations : h # next =>
          /\ worker'[h].pc = worker[h].pc /\ worker'[h].stage = worker[h].stage
          /\ worker'[h].batch = worker[h].batch
          /\ worker[h].cancelled => worker'[h].cancelled
    BY <2>1, <2>2, CancelledWorkers DEF TypeOK
  <2>5. /\ BatchOf(next)' = {}
        /\ \A h \in Generations : h # next => BatchOf(h)' = BatchOf(h)
    BY <2>3, <2>4, NoMembers DEF BatchOf
  <2>6. TakenOnce'
    BY <1>8, <2>5 DEF TakenOnce, Members
  <2>7. BatchOfWait'
    BY <1>3, <2>3, <2>4 DEF Placed, BatchOfWait, MayReply
  <2>8. ReplyIsTold'
    BY <2>1, <2>3 DEF ReplyIsTold, IInv, OneReplier
  <2>9. BegunIsTold'
    BY <2>1, <2>5 DEF BegunIsTold
  <2> QED BY <1>6, <1>7, <2>6, <2>7, <2>8, <2>9 DEF Placed
<1> QED BY <1>9, <1>10

LEMMA PlacedTakeOver == ASSUME IInv, Placed, TakeOver PROVE Placed'
<1> TypeOK
  BY DEF IInv
<1>1. /\ UNCHANGED <<task, pending, handler, saved, first_reply_sent>>
      /\ worker' = Cancel(active)
  BY DEF TakeOver, tracker
<1>2. \A h \in Generations :
        /\ worker'[h].pc = worker[h].pc /\ worker'[h].stage = worker[h].stage
        /\ worker'[h].batch = worker[h].batch
        /\ worker[h].cancelled => worker'[h].cancelled
  BY <1>1, CancelledWorkers DEF TypeOK
<1>3. \A h \in Generations : BatchOf(h)' = BatchOf(h) /\ (MayReply(h)' => MayReply(h))
  BY <1>2 DEF BatchOf, MayReply
<1>4. QueuedOnce' /\ TakenOnce' /\ AnsweredIsTaken'
  BY <1>1, <1>3 DEF Placed, QueuedOnce, TakenOnce, AnsweredIsTaken
<1>5. BatchOfWait' /\ ReplyIsTold'
  BY <1>1, <1>2, <1>3 DEF Placed, BatchOfWait, ReplyIsTold
<1>6. BegunIsTold'
  BY <1>1, <1>3 DEF Placed, BegunIsTold, TypeOK
<1> QED BY <1>4, <1>5, <1>6 DEF Placed

\* The batch that is taken is not empty, was never answered, and does not
\* wait any more.
LEMMA PlacedTakeBatch ==
  ASSUME IInv, IInv', Placed, NEW g \in Generations, TakeBatch(g)
  PROVE  /\ Placed'
         /\ \E n \in 1 .. Len(pending) :
              worker'[g].batch = SubSeq(pending, 1, n) /\ pending' = Rest(n)
         /\ worker'[g].batch # <<>>
<1> TypeOK
  BY DEF IInv
<1> DEFINE n == IF Len(pending) < MaxBatch THEN Len(pending) ELSE MaxBatch
<1>1. /\ pending' = Rest(n) /\ task' = task
      /\ handler' = handler /\ saved' = saved
  BY DEF TakeBatch, tracker
<1>2. worker'[g].batch = SubSeq(pending, 1, n)
  BY BatchTaken
<1>3. pending # <<>>
  BY BatchTaken DEF Placed, BatchOfWait
<1>4. n \in 1 .. Len(pending) /\ n \in Nat /\ n <= Len(pending)
  BY <1>3, BoundsAssumption DEF TypeOK
<1> HIDE DEF n
<1>5. Len(pending) \in Nat /\ DOMAIN pending = 1 .. Len(pending)
  BY DEF TypeOK
<1>6. BatchOf(g)' = {pending[i] : i \in 1 .. n} /\ worker'[g].batch # <<>>
  <2>1. Len(SubSeq(pending, 1, n)) = n /\ n # 0
    BY <1>4, QueueSplit
  <2>2. worker'[g].batch # <<>>
    <3>1. Len(worker'[g].batch) # 0
      BY <1>2, <2>1
    <3> QED BY <3>1, EmptySeq
  <2>3. BatchOf(g)' = Members(SubSeq(pending, 1, n))
    BY <1>2 DEF BatchOf, Members
  <2> QED BY <1>4, <2>2, <2>3, QueueSplit
<1>7. /\ DOMAIN pending' = 1 .. Len(pending) - n
      /\ \A i \in DOMAIN pending' : pending'[i] = pending[n + i] /\ n + i \in DOMAIN pending
  <2>1. DOMAIN pending' = 1 .. Len(pending) - n
    BY <1>1, <1>4, QueueSplit
  <2>2. \A i \in 1 .. Len(pending) - n : n + i \in 1 .. Len(pending)
    BY <1>4, <1>5
  <2> QED BY <1>1, <1>4, <1>5, <2>1, <2>2, QueueSplit
<1>8. Members(pending') \subseteq Members(pending)
  BY <1>7 DEF Members
<1>9. \A i \in 1 .. n : i \in DOMAIN pending /\ pending[i] \notin Members(pending')
  <2>1. ASSUME NEW i \in 1 .. n, NEW j \in DOMAIN pending'
        PROVE  i \in DOMAIN pending /\ pending[i] # pending'[j]
    <3>1. i \in DOMAIN pending /\ j \in 1 .. Len(pending) - n
      BY <1>4, <1>5, <1>7
    <3>2. i # n + j
      BY <1>4, <1>5, <3>1
    <3> QED BY <1>7, <3>1, <3>2 DEF Placed, QueuedOnce
  <2>2. 1 .. n \subseteq DOMAIN pending
    BY <1>4, <1>5
  <2> QED BY <2>1, <2>2 DEF Members
<1>10. QueuedOnce'
  <2>1. ASSUME NEW i \in DOMAIN pending', NEW j \in DOMAIN pending', pending'[i] = pending'[j]
        PROVE  i = j
    <3>1. n + i = n + j
      BY <1>7, <2>1 DEF Placed, QueuedOnce
    <3>2. i \in Nat /\ j \in Nat
      BY <1>7
    <3> QED BY <1>4, <3>1, <3>2
  <2> QED BY <1>1, <1>7, <2>1 DEF Placed, QueuedOnce
<1>11. \A h \in Generations : h # g => BatchOf(h)' = BatchOf(h)
  BY BatchTaken DEF BatchOf
<1>12. TakenOnce'
  <2>1. ASSUME NEW x \in BatchOf(g)' PROVE handler'[x] = "queued" /\ x \notin Members(pending')
    BY <1>1, <1>6, <1>9 DEF Placed, QueuedOnce
  <2>2. ASSUME NEW h \in Generations, h # g, NEW x \in BatchOf(h)'
        PROVE  handler'[x] = "queued" /\ x \notin Members(pending')
    BY <1>1, <1>8, <1>11, <2>2 DEF Placed, TakenOnce
  <2> QED BY <2>1, <2>2 DEF TakenOnce, Members
<1>13. AnsweredIsTaken'
  BY <1>1, <1>8 DEF Placed, AnsweredIsTaken
<1>14. \A h \in Generations : MayReply(h)' => h = g
  BY <1>1, BatchTaken DEF IInv, OneReplier
<1>15. BatchOfWait'
  BY <1>6, <1>14, BatchTaken DEF Placed, BatchOfWait
<1>16. ReplyIsTold'
  BY <1>14, BatchTaken DEF ReplyIsTold
<1>17. BegunIsTold'
  <2>1. task' = g
    BY <1>1, BatchTaken
  <2>2. ASSUME NEW x \in BatchOf(g)' PROVE ~(saved'[x] > 0)
    <3>1. x \in Members(pending) /\ x \in Msgs
      BY <1>5, <1>6, <1>9 DEF Members, TypeOK
    <3> QED BY <1>1, <3>1 DEF Placed, AnsweredIsTaken
  <2> QED BY <2>1, <2>2 DEF BegunIsTold
<1> QED BY <1>1, <1>2, <1>4, <1>6, <1>10, <1>12, <1>13, <1>15, <1>16, <1>17 DEF Placed

LEMMA PlacedStep == IInv /\ Waiting /\ Placed /\ [Next]_vars => Placed'
<1> SUFFICES ASSUME IInv, Waiting, Placed, [Next]_vars PROVE Placed'
  OBVIOUS
<1> TypeOK /\ IInv'
  BY InvStep DEF IInv
<1>1. CASE \E m \in Msgs : EnqueueAutoReply(m)
  BY <1>1, PlacedEnqueue
<1>2. CASE TakeOver
  BY <1>2, PlacedTakeOver
<1>3. CASE \E m \in Msgs : PersistCustomerMessage(m)
  <2>1. /\ UNCHANGED <<pending, saved, task, worker, first_reply_sent>>
        /\ \A x \in Msgs : handler[x] = "queued" => handler'[x] = "queued"
    BY <1>3 DEF PersistCustomerMessage, tracker, TypeOK
  <2>2. \A g \in Generations : BatchOf(g)' = BatchOf(g) /\ BatchOf(g) \subseteq Msgs
    BY <2>1, BatchMsgs DEF BatchOf
  <2>3. \A i \in DOMAIN pending : pending[i] \in Msgs
    BY DEF TypeOK
  <2>4. QueuedOnce' /\ TakenOnce' /\ AnsweredIsTaken'
    BY <2>1, <2>2, <2>3 DEF Placed, QueuedOnce, TakenOnce, AnsweredIsTaken
  <2>5. BatchOfWait' /\ ReplyIsTold' /\ BegunIsTold'
    BY <2>1 DEF Placed, BatchOfWait, ReplyIsTold, BegunIsTold, MayReply, BatchOf
  <2> QED BY <2>4, <2>5 DEF Placed
<1>4. CASE UNCHANGED <<pending, saved, task, worker, first_reply_sent, handler>>
  BY <1>4 DEF Placed, QueuedOnce, TakenOnce, AnsweredIsTaken, BatchOfWait, ReplyIsTold,
              BegunIsTold, MayReply, BatchOf
<1>5. ASSUME NEW g \in Generations, WorkerStep(g) \/ WorkerFault(g) PROVE Placed'
  <2>1. CASE StartWorker(g) \/ DebounceCancelled(g) \/ CloseWorker(g) \/ EndTurn(g)
    BY <2>1, TrackerSteps, PlacedExit, PlacedLoopTop
  <2>2. CASE TakeBatch(g)
    BY <2>2, PlacedTakeBatch
  <2> QED BY <1>5, <2>1, <2>2, WithinTurn, PlacedWithin DEF WorkerStep, WorkerFault
<1> QED BY <1>1, <1>2, <1>3, <1>4, <1>5 DEF Next, vars, BeginRelease, EndRelease, tracker

LEMMA PlacedInit == Init => Placed
<1> SUFFICES ASSUME Init PROVE Placed
  OBVIOUS
<1>1. /\ pending = <<>> /\ task = NoTask /\ \A m \in Msgs : saved[m] = 0
      /\ \A g \in Generations : /\ worker[g].pc = "none" /\ worker[g].batch = <<>>
                                /\ worker[g].stage = "graph"
  BY DEF Init, Absent
<1>2. \A g \in Generations : BatchOf(g) = {}
  BY <1>1, NoMembers DEF BatchOf
<1>3. QueuedOnce /\ TakenOnce /\ AnsweredIsTaken
  BY <1>1, <1>2 DEF QueuedOnce, TakenOnce, AnsweredIsTaken
<1>4. BatchOfWait /\ ReplyIsTold /\ BegunIsTold
  BY <1>1 DEF BatchOfWait, ReplyIsTold, BegunIsTold, MayReply
<1> QED BY <1>3, <1>4 DEF Placed

LEMMA TurnInv == Spec => [](IInv /\ Waiting /\ Placed)
BY InitInv, InvStep, WaitingInit, WaitingStep, PlacedInit, PlacedStep, PTL DEF Spec

\* A message that restarts the worker cancels no reply that has begun, in no
\* await between its first chunk and the end of the turn (ws.py:187, 247, 334).
THEOREM RestartsSpareReplies == Spec => RestartSparesReply
<1>1. IInv /\ Placed /\ [Next]_vars =>
        [\A m \in Msgs : handler[m] = "stored" /\ handler'[m] = "queued" =>
           \A g \in Generations :
             worker'[g].cancelled /\ ~worker[g].cancelled
               => \A x \in BatchOf(g) : saved[x] = 0]_vars
  <2> SUFFICES ASSUME IInv, Placed, [Next]_vars,
                      NEW m \in Msgs, handler[m] = "stored", handler'[m] = "queued",
                      NEW g \in Generations, worker'[g].cancelled, ~worker[g].cancelled,
                      NEW x \in BatchOf(g)
               PROVE  saved[x] = 0
    OBVIOUS
  <2> TypeOK
    BY DEF IInv
  <2> \A h \in Generations : h # NoTask
    BY GenerationsAssumption DEF NoTask
  <2>1. PICK y \in Msgs : EnqueueAutoReply(y)
    <3>1. ASSUME NEW y \in Msgs, PersistCustomerMessage(y) PROVE FALSE
      BY <3>1 DEF PersistCustomerMessage, TypeOK
    <3> QED BY <3>1 DEF Next, vars, WorkerStep, WorkerFault, StartWorker, TakeBatch,
           DebounceCancelled, GraphEvent, GraphTimeout, GraphError, GraphCancelled, NextEvent,
           SaveChunk, FinishFallback, CloseStream, EndTurn, AbortTurn, CloseWorker,
           BroadcastFails, RequestTimeout, TakeOver, BeginRelease, EndRelease
  <2>2. PICK next \in Generations : Restarts /\ worker' = [Cancel(task) EXCEPT ![next] = Created]
    BY <2>1 DEF EnqueueAutoReply
  <2>3. Cancel(task) \in [Generations -> Worker]
    BY CancelType DEF TypeOK
  <2>4. g # next
    BY <2>2, <2>3 DEF Created, Absent
  <2>5. worker'[g] = Cancel(task)[g]
    BY <2>2, <2>3, <2>4
  <2>6. g = task /\ Live(task)
    BY <2>5, CancelledWorkers DEF Cancel, TypeOK
  <2>7. ~first_reply_sent
    BY <2>2, <2>6 DEF Restarts
  <2>8. ~(saved[x] > 0)
    BY <2>6, <2>7 DEF Placed, BegunIsTold
  <2>9. saved[x] \in Nat
    BY BatchMsgs DEF TypeOK
  <2> QED BY <2>8, <2>9
<1> QED BY <1>1, TurnInv, PTL DEF Spec, RestartSparesReply

-----------------------------------------------------------------------------
(* The turn taking promised to the customer.                               *)

Current == IF task # NoTask /\ MayReply(task) THEN worker[task].batch ELSE <<>>
Answered == {m \in Msgs : saved[m] > 0}

LEMMA TaskIsThere == \A g \in Generations : g # NoTask
BY GenerationsAssumption DEF NoTask

\* Nothing moves but the batch, which may be given up, and the flag.
LEMMA GivesUpOrChangesHands ==
  ASSUME TypeOK, TypeOK', Current' \in {Current, <<>>},
         pending' = pending, Answered' = Answered
  PROVE  [Contract!Next]_(Contract!vars)
<1>1. transfer_flag' = transfer_flag \/ transfer_flag' = ~transfer_flag
  BY Zenon DEF TypeOK
<1>2. CASE transfer_flag' = transfer_flag /\ Current' = Current
  BY <1>2 DEF Contract!vars, Current, Answered
<1>3. CASE transfer_flag' = transfer_flag /\ Current' = <<>>
  BY <1>3 DEF Contract!Next, Contract!Drop, Current, Answered
<1>4. CASE transfer_flag' = ~transfer_flag
  BY <1>4 DEF Contract!Next, Contract!ChangeHands, Current, Answered
<1> QED BY <1>1, <1>2, <1>3, <1>4

\* A step in which nobody wins the right to reply.
LEMMA CurrentKept ==
  ASSUME TypeOK, task' = task,
         \A h \in Generations :
           worker'[h].batch = worker[h].batch /\ (MayReply(h)' => MayReply(h))
  PROVE  Current' \in {Current, <<>>}
<1>1. CASE task = NoTask
  BY <1>1 DEF Current
<1>2. CASE task # NoTask
  <2>1. task \in Generations
    BY <1>2 DEF TypeOK
  <2>2. worker'[task].batch = worker[task].batch /\ (MayReply(task)' => MayReply(task))
    BY <2>1
  <2> QED BY <1>2, <2>2 DEF Current, MayReply
<1> QED BY <1>1, <1>2

\* A worker between two rounds has no batch, and gets none at the top of its
\* loop or on its way out.
LEMMA CurrentBetweenRounds ==
  ASSUME IInv, Placed, Placed', NEW g \in Generations,
         ~Done(g), LoopTop(g) \/ Exit(g), ~MayReply(g) \/ worker[g].pc = "new"
  PROVE  Current' = Current
<1> TypeOK
  BY DEF IInv
<1>1. CASE task = g
  <2>1. Current = <<>>
    BY <1>1 DEF Current, Placed, BatchOfWait
  <2>2. task' \in Generations => worker'[task'].pc \in {"none", "new", "debounce"}
    <3>1. CASE Exit(g) /\ pending = <<>>
      BY <1>1, <3>1, TaskIsThere DEF Exit, NoTask, TypeOK
    <3>2. CASE Exit(g) /\ pending # <<>>
      <4>1. PICK next \in Generations :
              /\ task' = next
              /\ worker' = [[worker EXCEPT ![g] = Absent] EXCEPT ![next] = Created]
        BY <1>1, <3>2 DEF Exit
      <4> QED BY <4>1 DEF TypeOK, Created, Absent
    <3>3. CASE LoopTop(g) /\ ~Exit(g)
      <4>1. task' = g /\ worker' = [worker EXCEPT ![g] = [Absent EXCEPT !.pc = "debounce"]]
        BY <1>1, <3>3 DEF LoopTop
      <4> QED BY <4>1 DEF TypeOK, Absent
    <3> QED BY <3>1, <3>2, <3>3
  <2>3. task' \in Generations \cup {NoTask}
    BY ExitType, LoopTopType
  <2>4. Current' = <<>>
    BY <2>2, <2>3 DEF Current, Placed, BatchOfWait
  <2> QED BY <2>1, <2>4
<1>2. CASE task # g
  <2>1. Exit(g)
    BY <1>2 DEF LoopTop, IInv, NewestIsTask
  <2>2. task' = task /\ worker' = [worker EXCEPT ![g] = Absent]
    BY <1>2, <2>1 DEF Exit
  <2>3. task # NoTask => worker'[task] = worker[task]
    BY <1>2, <2>2 DEF TypeOK
  <2> QED BY <2>2, <2>3 DEF Current, MayReply
<1> QED BY <1>1, <1>2

\* A chunk is an answer of the batch at work, in a session no human owns.
LEMMA ChunkAnswers ==
  ASSUME IInv, Placed, NEW g \in Generations, SaveChunk(g)
  PROVE  [Contract!Next]_(Contract!vars)
<1> TypeOK /\ worker[g] \in Worker /\ g # NoTask
  BY TaskIsThere DEF IInv, TypeOK
<1>1. /\ worker[g].pc = "body" /\ worker[g].stage = "reply" /\ ~worker[g].cancelled
      /\ InBody(g) /\ task' = task /\ pending' = pending /\ transfer_flag' = transfer_flag
      /\ saved' = [m \in Msgs |-> IF m \in BatchOf(g) THEN saved[m] + 1 ELSE saved[m]]
  BY DEF SaveChunk, InBody, tracker
<1>2. MayReply(g) /\ task = g /\ ~transfer_flag /\ worker[g].batch # <<>>
  BY <1>1 DEF MayReply, IInv, OneReplier, ReplyIsAutomatic, Placed, BatchOfWait
<1>3. PICK stage \in {"reply", "after"} : worker' = [worker EXCEPT ![g].stage = stage]
  BY DEF SaveChunk
<1>4. /\ worker'[g].pc = "body" /\ worker'[g].stage = stage /\ ~worker'[g].cancelled
      /\ worker'[g].batch = worker[g].batch
  BY <1>1, <1>3 DEF TypeOK, Worker
<1>5. Current = worker[g].batch /\ Current' = Current
  BY <1>1, <1>2, <1>4 DEF Current, MayReply
<1>6. Answered' = Answered \cup BatchOf(g)
  <2>1. \A m \in Msgs : saved[m] \in Nat
    BY DEF TypeOK
  <2>2. \A m \in Msgs : saved'[m] > 0 <=> saved[m] > 0 \/ m \in BatchOf(g)
    BY <1>1, <2>1
  <2> QED BY <2>2, BatchMsgs DEF Answered
<1>7. BatchOf(g) = Contract!Elements(Current)
  BY <1>5 DEF BatchOf, Members, Contract!Elements
<1>8. Current # <<>>
  BY <1>2, <1>5
<1> QED BY <1>1, <1>2, <1>5, <1>6, <1>7, <1>8
        DEF Contract!Next, Contract!Answer, Current, Answered

LEMMA BatchIsTaken ==
  ASSUME IInv, IInv', Placed, NEW g \in Generations, TakeBatch(g)
  PROVE  [Contract!Next]_(Contract!vars)
<1> TypeOK /\ g # NoTask
  BY TaskIsThere DEF IInv
<1>1. /\ task' = task /\ transfer_flag' = transfer_flag /\ saved' = saved
  BY DEF TakeBatch
<1>2. g = task /\ MayReply(g) /\ MayReply(g)' /\ worker[g].pc = "debounce"
  BY BatchTaken
<1>3. Current = <<>>
  BY <1>2 DEF Current, Placed, BatchOfWait
<1>4. PICK n \in 1 .. Len(pending) :
        worker'[g].batch = SubSeq(pending, 1, n) /\ pending' = Rest(n)
  BY PlacedTakeBatch
<1>5. Current' = SubSeq(pending, 1, n) /\ pending' = SubSeq(pending, n + 1, Len(pending))
  BY <1>1, <1>2, <1>4 DEF Current, Rest
<1>6. Answered' = Answered
  BY <1>1 DEF Answered
<1> QED BY <1>1, <1>3, <1>5, <1>6 DEF Contract!Next, Contract!Take, Current, Answered

\* A queued message interrupts the batch at work only before its reply began.
LEMMA MessageArrives ==
  ASSUME IInv, Placed, NEW m \in Msgs, EnqueueAutoReply(m)
  PROVE  [Contract!Next]_(Contract!vars)
<1> TypeOK
  BY DEF IInv
<1>1. pending' = Append(pending, m) /\ transfer_flag' = transfer_flag /\ saved' = saved
  BY DEF EnqueueAutoReply
<1>2. Answered' = Answered
  BY <1>1 DEF Answered
<1>3. CASE ~Restarts
  <2>1. Current' = Current
    BY <1>3 DEF EnqueueAutoReply, Current, MayReply
  <2> QED BY <1>1, <1>2, <2>1 DEF Contract!Next, Contract!Arrive, Current, Answered
<1>4. CASE Restarts
  <2>1. PICK next \in Generations :
          task' = next /\ worker' = [Cancel(task) EXCEPT ![next] = Created]
    BY <1>4 DEF EnqueueAutoReply
  <2>2. Cancel(task) \in [Generations -> Worker]
    BY CancelType DEF TypeOK
  <2>3. worker'[next].batch = <<>>
    BY <2>1, <2>2 DEF Absent, Created
  <2>4. Current' = <<>>
    BY <2>1, <2>3 DEF Current
  <2>5. Contract!Elements(Current) \cap Answered = {}
    <3>1. CASE Current = <<>>
      BY <3>1 DEF Contract!Elements
    <3>2. CASE Current # <<>>
      <4>1. Live(task) /\ Current = worker[task].batch
        BY <3>2 DEF Current, Live, MayReply, Done
      <4>2. ~first_reply_sent /\ task # NoTask
        BY <1>4, <4>1 DEF Restarts, Live
      <4>3. Contract!Elements(Current) = BatchOf(task)
        BY <4>1 DEF Contract!Elements, BatchOf, Members
      <4> QED BY <4>2, <4>3 DEF Placed, BegunIsTold, Answered
    <3> QED BY <3>1, <3>2
  <2> QED BY <1>1, <1>2, <2>4, <2>5
          DEF Contract!Next, Contract!Arrive, Contract!Begun, Current, Answered
<1> QED BY <1>3, <1>4

LEMMA ContractStep ==
  IInv /\ Waiting /\ Placed /\ [Next]_vars => [Contract!Next]_(Contract!vars)
<1> SUFFICES ASSUME IInv, Waiting, Placed, [Next]_vars
             PROVE  [Contract!Next]_(Contract!vars)
  OBVIOUS
<1> TypeOK /\ TypeOK' /\ IInv' /\ Placed'
  BY InvStep, PlacedStep DEF IInv
<1>1. CASE \E m \in Msgs : EnqueueAutoReply(m)
  BY <1>1, MessageArrives
<1>2. CASE TakeOver
  <2>1. /\ UNCHANGED <<task, pending, saved>> /\ worker' = Cancel(active)
    BY <1>2 DEF TakeOver, tracker
  <2>2. \A h \in Generations :
          worker'[h].batch = worker[h].batch /\ (MayReply(h)' => MayReply(h))
    BY <2>1, CancelledWorkers DEF MayReply, TypeOK
  <2>3. Current' \in {Current, <<>>} /\ Answered' = Answered
    BY <2>1, <2>2, CurrentKept DEF Answered
  <2> QED BY <2>1, <2>3, GivesUpOrChangesHands
<1>3. CASE UNCHANGED <<pending, saved, task, worker>>
  <2>1. Current' = Current /\ Answered' = Answered
    BY <1>3 DEF Current, Answered, MayReply
  <2> QED BY <1>3, <2>1, GivesUpOrChangesHands
<1>4. ASSUME NEW g \in Generations, WorkerStep(g) \/ WorkerFault(g)
      PROVE  [Contract!Next]_(Contract!vars)
  <2>1. CASE StartWorker(g) \/ DebounceCancelled(g) \/ CloseWorker(g) \/ EndTurn(g)
    <3>1. Current' = Current
      BY <2>1, TrackerSteps, CurrentBetweenRounds
    <3>2. pending' = pending /\ Answered' = Answered
      BY <2>1, TrackerSteps DEF Answered
    <3> QED BY <3>1, <3>2, GivesUpOrChangesHands
  <2>2. CASE TakeBatch(g)
    BY <2>2, BatchIsTaken
  <2>3. CASE SaveChunk(g)
    BY <2>3, ChunkAnswers
  <2>4. ASSUME Within(g), saved' = saved PROVE [Contract!Next]_(Contract!vars)
    <3>1. Current' \in {Current, <<>>}
      BY <2>4, CurrentKept DEF Within, MayReply
    <3>2. pending' = pending /\ Answered' = Answered
      BY <2>4 DEF Within, Answered
    <3> QED BY <3>1, <3>2, GivesUpOrChangesHands
  <2> QED BY <1>4, <2>1, <2>2, <2>3, <2>4, WithinTurn DEF WorkerStep, WorkerFault
<1> QED BY <1>1, <1>2, <1>3, <1>4
        DEF Next, vars, PersistCustomerMessage, BeginRelease, EndRelease, tracker

\* Tasks, cancellations, timeouts and flags implement what the customer is
\* promised: batches in order, one at a time, each answered by itself and by
\* no reply while a human owns the session, and no reply that has begun is
\* interrupted by the next message.
THEOREM TurnsAreKept == Spec => KeepsTurns
<1>1. Init => Contract!Init
  <2> SUFFICES ASSUME Init PROVE Contract!Init
    OBVIOUS
  <2>1. Current = <<>> /\ Answered = {} /\ pending = <<>> /\ transfer_flag = FALSE
    BY DEF Init, Current, Answered
  <2> QED BY <2>1 DEF Contract!Init, Current, Answered
<1> QED BY <1>1, TurnInv, ContractStep, PTL DEF Spec, KeepsTurns, Contract!Spec
=============================================================================
