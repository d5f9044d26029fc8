------------------------------ MODULE FollowUp ------------------------------
(***************************************************************************)
(* Follow-ups of one session whose customer stays silent: the jobs of      *)
(* app/repositories/chat_repository.py and the scheduler that sends them   *)
(* (app/services/sop_followup_scheduler.py), next to the customer, the     *)
(* sales side and the operator who takes over and releases.                *)
(*                                                                         *)
(* An action is one synchronous section.  The scheduler waits for the      *)
(* safety agent between BeginJob and the end of the job, and for other     *)
(* sessions' jobs between Claim and BeginJob; an automatic reply waits for *)
(* the pages between the last chunk it stores and the follow-up it         *)
(* schedules.  Everybody else may run then.                                *)
(* The database stores of a row only what a transaction changed in it.     *)
(***************************************************************************)
EXTENDS Naturals, Sequences, FiniteSets

CONSTANTS
  StageList,    \* stages of the knowledge base, in the order of their rows
  Unlisted,     \* a stage that is no longer there
  ActionOf,     \* timeout_action of a stage
  Timed,        \* stages with a waiting time and a script
  MaxJobs,      \* bound: jobs ever created
  MaxRestarts   \* bound: restarts of the process and ticks that break

VARIABLES
  transfer_flag,
  current_stage,
  silent,       \* history: the sales side spoke last
  replying,     \* an automatic reply has stored a chunk and scheduled nothing yet
  crossed,      \* history: the customer answered before that reply scheduled
  sop_state,
  jobs,
  batch,        \* claimed jobs the scheduler has not begun
  work,         \* the job at the safety agent, with the stage read before
  restarts

reply == <<replying, crossed>>
vars == <<transfer_flag, current_stage, silent, replying, crossed, sop_state, jobs, batch, work,
          restarts>>

Listed == {StageList[i] : i \in DOMAIN StageList}
Stages == Listed \cup {Unlisted}
Actions == {"next", "pause", "stop"}

ASSUME StageAssumption ==
  /\ StageList \in Seq(Listed) /\ Len(StageList) > 0
  /\ Unlisted \notin Listed
  /\ ActionOf \in [Listed -> Actions]
  /\ Timed \subseteq Listed
ASSUME BoundAssumption == MaxJobs \in Nat /\ MaxRestarts \in Nat

SOPStatus == {"none", "active", "paused", "finished", "handover"}
JobStatus == {"pending", "running", "sent", "failed", "cancelled"}
JobIds == 1..MaxJobs
NoWork == [job |-> 0, stage |-> Unlisted]

Job(stage) == [status |-> "pending", stage |-> stage]

Init ==
  /\ transfer_flag = FALSE
  /\ current_stage = StageList[1]
  /\ silent = FALSE
  /\ replying = FALSE /\ crossed = FALSE
  /\ sop_state = [stage |-> StageList[1], status |-> "none", next |-> FALSE, latest |-> 0]
  /\ jobs = <<>>
  /\ batch = {}
  /\ work = NoWork
  /\ restarts = 0

\* Room for one job more, and one for every job in hand.
Room == Len(jobs) + Cardinality(batch) + (IF work = NoWork THEN 0 ELSE 1) < MaxJobs

-----------------------------------------------------------------------------
(* The repository's operations on jobs and on the SOP state.               *)

\* next_sop_stage: the last stage follows itself.
NextStage(stage) ==
  IF stage \notin Listed THEN StageList[1]
  ELSE LET i == CHOOSE n \in DOMAIN StageList : StageList[n] = stage
       IN IF i = Len(StageList) THEN stage ELSE StageList[i + 1]

StatusFor(action) ==
  CASE action = "pause" -> "paused" [] action = "stop" -> "finished" [] OTHER -> "active"

\* ensure_sop_state: a paused or finished stage stays so until it is left.
Ensured(sop, flag, stage) ==
  [sop EXCEPT !.stage = stage,
              !.status = IF flag THEN "handover"
                         ELSE IF sop.stage = stage /\ sop.status \in {"paused", "finished"}
                              THEN sop.status ELSE "active"]

\* Mutant of Cancelled: nothing is cancelled.
CancelledNone(js, statuses) == js

\* Mutant of Cancelled: whatever is there is cancelled.
CancelledAll(js, statuses) == [j \in DOMAIN js |-> [js[j] EXCEPT !.status = "cancelled"]]

\* cancel_pending_followups
Cancelled(js, statuses) ==
  [j \in DOMAIN js |-> IF js[j].status \in statuses
                       THEN [js[j] EXCEPT !.status = "cancelled"] ELSE js[j]]

Open == {"pending", "running"}

\* schedule_followup_after_sales_message, for the flag and the stage that its
\* caller has at hand.
Scheduled(js, sop, flag, stage) ==
  LET ensured == Ensured(sop, flag, stage)
  IN IF flag
     THEN [jobs |-> Cancelled(js, Open), sop |-> [ensured EXCEPT !.next = FALSE]]
     ELSE IF ensured.status \in {"paused", "finished"} \/ stage \notin Timed
     THEN [jobs |-> js, sop |-> [ensured EXCEPT !.next = FALSE]]
     ELSE [jobs |-> Append(Cancelled(js, {"pending"}), Job(stage)),
           sop  |-> [ensured EXCEPT !.next = TRUE, !.latest = Len(js) + 1]]

-----------------------------------------------------------------------------
(* The conversation.                                                       *)

\* note_customer_message_for_sop: it cancels the jobs, and a reply whose first
\* chunk is out goes on.
CustomerMessage ==
  /\ silent' = FALSE /\ crossed' = FALSE
  /\ sop_state' = [Ensured(sop_state, transfer_flag, current_stage) EXCEPT !.next = FALSE]
  /\ jobs' = Cancelled(jobs, Open)
  /\ UNCHANGED <<transfer_flag, current_stage, replying, batch, work, restarts>>

\* A follow-up is scheduled for the flag and the stage the session has.
ScheduleNow ==
  LET s == Scheduled(jobs, sop_state, transfer_flag, current_stage)
  IN jobs' = s.jobs /\ sop_state' = s.sop

\* A welcome, a reply over REST, a scheduled message or a human's message is
\* stored and followed up at once.
SalesMessage ==
  /\ Room
  /\ silent' = TRUE /\ crossed' = FALSE
  /\ ScheduleNow
  /\ UNCHANGED <<transfer_flag, current_stage, replying, batch, work, restarts>>

\* An automatic reply stores a chunk; the pages are told before anything else.
ReplyChunk ==
  /\ silent' = TRUE /\ crossed' = FALSE
  /\ replying' = TRUE
  /\ UNCHANGED <<transfer_flag, current_stage, sop_state, jobs, batch, work, restarts>>

\* After its last chunk it reads the session again and schedules, whoever spoke
\* while the pages were told.
ScheduleReply ==
  /\ replying /\ Room
  /\ replying' = FALSE
  /\ crossed' = ~silent
  /\ ScheduleNow
  /\ UNCHANGED <<transfer_flag, current_stage, silent, batch, work, restarts>>

\* A failing broadcast ends it without a follow-up.
ReplyBreaks ==
  /\ replying
  /\ replying' = FALSE
  /\ UNCHANGED <<transfer_flag, current_stage, silent, crossed, sop_state, jobs, batch, work,
                 restarts>>

\* A turn stores its progress: another stage, or a handover of its own, which
\* leaves jobs and SOP state alone.
TurnProgress ==
  /\ ~transfer_flag
  /\ current_stage' \in Stages
  /\ transfer_flag' \in BOOLEAN
  /\ UNCHANGED <<silent, reply, sop_state, jobs, batch, work, restarts>>

\* set_handover(True): it also cancels the reply under way.
TakeOver ==
  /\ transfer_flag' = TRUE
  /\ replying' = FALSE
  /\ jobs' = Cancelled(jobs, Open)
  /\ sop_state' = [sop_state EXCEPT !.next = FALSE,
                     !.status = IF sop_state.status = "none" THEN "none" ELSE "handover"]
  /\ UNCHANGED <<current_stage, silent, crossed, batch, work, restarts>>

\* set_handover(False)
Release ==
  /\ transfer_flag
  /\ transfer_flag' = FALSE
  /\ UNCHANGED <<current_stage, silent, reply, sop_state, jobs, batch, work, restarts>>

-----------------------------------------------------------------------------
(* The scheduler.                                                          *)

\* Mutant of Claim: the jobs are sent, and not marked as running.
ClaimUnmarked ==
  /\ batch = {} /\ work = NoWork /\ Room
  /\ batch' = {j \in DOMAIN jobs : jobs[j].status = "pending"}
  /\ batch' # {}
  /\ UNCHANGED <<transfer_flag, current_stage, silent, reply, sop_state, jobs, work, restarts>>

\* A tick claims the jobs that are due.
Claim ==
  /\ batch = {} /\ work = NoWork /\ Room
  /\ batch' = {j \in DOMAIN jobs : jobs[j].status = "pending"}
  /\ batch' # {}
  /\ jobs' = [j \in DOMAIN jobs |-> IF j \in batch' THEN [jobs[j] EXCEPT !.status = "running"]
                                    ELSE jobs[j]]
  /\ UNCHANGED <<transfer_flag, current_stage, silent, reply, sop_state, work, restarts>>

\* Mutant of StillNext: the date of a job that is settled stays.
StillNextAlways(j) == sop_state.next

\* A job that is settled without being sent takes its date with it.
StillNext(j) == sop_state.next /\ sop_state.latest # j

\* The session is read again, the job's status is not.
BeginJob(j) ==
  /\ work = NoWork /\ j \in batch
  /\ batch' = batch \ {j}
  /\ IF transfer_flag
     THEN /\ jobs' = [jobs EXCEPT ![j].status = "cancelled"]
          /\ sop_state' = [sop_state EXCEPT !.next = StillNext(j)]
          /\ UNCHANGED work
     ELSE /\ work' = [job |-> j, stage |-> current_stage]
          /\ UNCHANGED <<jobs, sop_state>>
  /\ UNCHANGED <<transfer_flag, current_stage, silent, reply, restarts>>

\* Mutant of Failed: the job is given up and not marked.
FailedUnmarked(j) == jobs

\* mark_followup_failed
Failed(j) == [jobs EXCEPT ![j].status = "failed"]

\* The safety agent blocked it, left no text, or broke.
FailJob ==
  /\ work # NoWork
  /\ jobs' = Failed(work.job)
  /\ sop_state' = [sop_state EXCEPT !.next = StillNext(work.job)]
  /\ work' = NoWork
  /\ UNCHANGED <<transfer_flag, current_stage, silent, reply, batch, restarts>>

\* The script is sent.  With "next" the session moves to the stage after the
\* job's, and the next job is scheduled for a session that was not handed over
\* when the job began.
SendJob ==
  /\ work # NoWork
  /\ LET job    == jobs[work.job]
         action == ActionOf[job.stage]
         stage  == NextStage(job.stage)
         sent   == [jobs EXCEPT ![work.job].status = "sent"]
         marked == [sop_state EXCEPT !.next = FALSE, !.status = StatusFor(action)]
         next   == Scheduled(sent, [marked EXCEPT !.stage = stage], FALSE, stage)
     IN IF action = "next"
        THEN /\ jobs' = next.jobs
             /\ sop_state' = next.sop
             /\ current_stage' = IF stage = work.stage THEN current_stage ELSE stage
        ELSE /\ jobs' = sent
             /\ sop_state' = marked
             /\ UNCHANGED current_stage
  /\ silent' = TRUE /\ crossed' = FALSE
  /\ work' = NoWork
  /\ UNCHANGED <<transfer_flag, replying, batch, restarts>>

\* The process restarts, with it the reply, or an exception outside of a job ends
\* the tick.
Restart ==
  /\ restarts < MaxRestarts
  /\ restarts' = restarts + 1
  /\ batch' = {} /\ work' = NoWork
  /\ replying' \in {replying, FALSE}
  /\ UNCHANGED <<transfer_flag, current_stage, silent, crossed, sop_state, jobs>>

Next ==
  \/ CustomerMessage \/ SalesMessage \/ ReplyChunk \/ ScheduleReply \/ ReplyBreaks
  \/ TurnProgress \/ TakeOver \/ Release
  \/ Claim \/ (\E j \in batch : BeginJob(j)) \/ FailJob \/ SendJob \/ Restart

Spec == Init /\ [][Next]_vars

\* The worker polls, a tick works off its batch, and the safety agent answers or
\* raises.
FairSpec ==
  /\ Spec
  /\ WF_vars(Claim) /\ WF_vars(\E j \in batch : BeginJob(j)) /\ WF_vars(FailJob \/ SendJob)

-----------------------------------------------------------------------------
(* Properties.                                                             *)

\* The types of a session's follow-ups.
TypeOK ==
  /\ transfer_flag \in BOOLEAN
  /\ current_stage \in Stages
  /\ silent \in BOOLEAN /\ replying \in BOOLEAN /\ crossed \in BOOLEAN
  /\ sop_state \in [stage : Stages, status : SOPStatus, next : BOOLEAN, latest : Nat]
  /\ jobs \in Seq([status : JobStatus, stage : Listed])
  /\ batch \subseteq DOMAIN jobs
  /\ work \in [job : {0} \cup DOMAIN jobs, stage : Stages]
  /\ restarts \in Nat

\* However messages, follow-ups and restarts interleave, at most one follow-up
\* waits for a session (chat_repository.py:526-530).
OneWaiting ==
  \A i, j \in DOMAIN jobs : (jobs[i].status = "pending" /\ jobs[j].status = "pending") => i = j

\* A follow-up waits for a customer who has answered only if the answer came
\* between the last chunk of an automatic reply and its follow-up (app/api/
\* ws.py:377); whatever else is sent, scheduled, claimed or restarted, an answer
\* leaves none (note_customer_message_for_sop, chat_repository.py:492-500).
OnlySilentCustomers ==
  (\E j \in DOMAIN jobs : jobs[j].status = "pending") => silent \/ crossed

\* The next follow-up an operator is shown is really under way
\* (next_followup_at and latest_job_id, chat_repository.py:542-549, 569-613).
ShownFollowUpExists ==
  sop_state.next => sop_state.latest \in DOMAIN jobs /\ jobs[sop_state.latest].status \in Open

\* What was sent or has failed stays so: no later cancellation rewrites the
\* record of what the customer got (chat_repository.py:468-490).
HistoryStays ==
  [][\A j \in DOMAIN jobs : (jobs[j].status \in {"sent", "failed"}) =>
       (jobs'[j].status = jobs[j].status)]_vars

Running(j) == j \in DOMAIN jobs /\ jobs[j].status = "running"

\* Whatever the safety agent answers and whoever cancels meanwhile, only a restart
\* can keep a claimed job from being settled (sop_followup_scheduler.py:64-80).
JobsSettle == \A j \in JobIds : Running(j) ~> (~Running(j) \/ restarts > 0)

With(status) == {j \in DOMAIN jobs : jobs[j].status = status}

Promise == INSTANCE Outreach WITH
  created <- Len(jobs),
  waiting <- With("pending"),
  held    <- batch \cup (IF work = NoWork THEN {} ELSE {work.job}),
  sent    <- With("sent"),
  failed  <- With("failed"),
  telling <- replying

\* Jobs and scheduler keep the promise of Outreach: each follow-up is sent at most
\* once, by the tick that claimed it, and a new one replaces the one that waits
\* (schedule_followup_after_sales_message, claim_due_followup_jobs, _process_job).
KeepsPromise == Promise!Spec

Sends == \E j \in DOMAIN jobs : jobs[j].status # "sent" /\ jobs'[j].status = "sent"

\* "接管期间自动回复和后续触达暂停" (docs/ARCHITECTURE.md:9): no follow-up is sent while a
\* human owns the session.
PausedUnderHuman == [][Sends => ~transfer_flag]_vars

\* "Customer has not replied for a while" (sop_followup_scheduler.py:118): who
\* gets a follow-up has not spoken since the sales side did.
SentToSilentOnly == [][Sends => silent]_vars

\* "持久化跟进任务单独保存，服务重启后仍可继续调度" (submission/preliminary/方案说明.md:23): a
\* restart delays a job, but does not lose it.
RestartKeepsJobs == \A j \in JobIds : Running(j) ~> ~Running(j)
=============================================================================
