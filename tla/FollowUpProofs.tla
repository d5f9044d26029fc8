--------------------------- MODULE FollowUpProofs ---------------------------
(***************************************************************************)
(* Theorems about FollowUp for any stages, actions and scripts, any number *)
(* of jobs and restarts.                                                   *)
(*                                                                         *)
(* The three invariants about waiting follow-ups hold together; the one    *)
(* about history needs that a job the scheduler has in hand is neither     *)
(* sent nor failed (InHand): it was running when it was claimed, only a    *)
(* cancellation can have changed it since, and no other job in hand is it. *)
(* The refinement of Outreach stands on the same invariant.                *)
(***************************************************************************)
EXTENDS FollowUp, TLAPS

JobType == [status : JobStatus, stage : Listed]
SopType == [stage : Stages, status : SOPStatus, next : BOOLEAN, latest : Nat]

InHand ==
  /\ \A j \in batch : jobs[j].status \in {"running", "cancelled"}
  /\ work # NoWork => /\ work.job \in DOMAIN jobs
                      /\ jobs[work.job].status \in {"running", "cancelled"}
                      /\ work.job \notin batch

Inv == TypeOK /\ OneWaiting /\ OnlySilentCustomers /\ ShownFollowUpExists /\ InHand

-----------------------------------------------------------------------------
(* The repository's operations.                                            *)

LEMMA ListType ==
  ASSUME NEW S, NEW s \in Seq(S)
  PROVE  /\ Len(s) \in Nat /\ DOMAIN s = 1..Len(s)
         /\ \A i \in DOMAIN s : s[i] \in S
OBVIOUS

\* A list of the same length whose elements have the type is of the type.
LEMMA SameLength ==
  ASSUME NEW S, NEW n \in Nat, NEW s, s = [i \in 1..n |-> s[i]], \A i \in 1..n : s[i] \in S
  PROVE  s \in Seq(S)
<1>1. s \in [1..n -> S]
  OBVIOUS
<1> QED
  BY <1>1

LEMMA StagesType ==
  /\ StageList[1] \in Listed
  /\ \A stage : NextStage(stage) \in Stages
  /\ \A stage \in Listed : ActionOf[stage] \in Actions
<1>1. /\ Len(StageList) \in Nat /\ DOMAIN StageList = 1..Len(StageList) /\ Len(StageList) > 0
      /\ \A i \in DOMAIN StageList : StageList[i] \in Listed
  BY StageAssumption, ListType DEF Listed
<1>2. StageList[1] \in Listed
  BY <1>1
<1>3. ASSUME NEW stage PROVE NextStage(stage) \in Stages
  <2>1. CASE stage \notin Listed
    BY <2>1, <1>2 DEF NextStage, Stages
  <2>2. CASE stage \in Listed
    <3> DEFINE i == CHOOSE n \in DOMAIN StageList : StageList[n] = stage
    <3>1. i \in DOMAIN StageList
      BY <2>2 DEF Listed
    <3>2. i = Len(StageList) \/ i + 1 \in DOMAIN StageList
      BY <3>1, <1>1
    <3>3. NextStage(stage) = IF i = Len(StageList) THEN stage ELSE StageList[i + 1]
      BY <2>2 DEF NextStage
    <3> HIDE DEF i
    <3> QED
      BY <3>2, <3>3, <2>2, <1>1 DEF Stages
  <2> QED
    BY <2>1, <2>2
<1> QED
  BY <1>2, <1>3, StageAssumption

LEMMA EnsuredType ==
  ASSUME NEW sop \in SopType, NEW flag \in BOOLEAN, NEW stage \in Stages
  PROVE  Ensured(sop, flag, stage) \in SopType
BY DEF Ensured, SopType, SOPStatus

LEMMA StatusType == \A action : StatusFor(action) \in SOPStatus
BY DEF StatusFor, SOPStatus

\* Cancelling touches the jobs of the given statuses and no other.
LEMMA CancelledJobs ==
  ASSUME NEW js \in Seq(JobType), NEW statuses
  PROVE  /\ Cancelled(js, statuses) \in Seq(JobType)
         /\ DOMAIN Cancelled(js, statuses) = DOMAIN js
         /\ Len(Cancelled(js, statuses)) = Len(js)
         /\ \A j \in DOMAIN js :
              Cancelled(js, statuses)[j].status =
                IF js[j].status \in statuses THEN "cancelled" ELSE js[j].status
<1> DEFINE c == Cancelled(js, statuses)
<1>1. /\ Len(js) \in Nat /\ DOMAIN js = 1..Len(js)
      /\ \A j \in DOMAIN js : js[j] \in JobType
  BY ListType
<1>2. c = [j \in 1..Len(js) |-> c[j]]
  BY <1>1 DEF Cancelled
<1>3. ASSUME NEW j \in DOMAIN js
      PROVE  /\ c[j] \in JobType
             /\ c[j].status = IF js[j].status \in statuses THEN "cancelled" ELSE js[j].status
  <2>1. js[j] \in JobType
    BY <1>1
  <2>2. c[j] = IF js[j].status \in statuses THEN [js[j] EXCEPT !.status = "cancelled"] ELSE js[j]
    BY DEF Cancelled
  <2> HIDE DEF c
  <2> QED
    BY <2>1, <2>2 DEF JobType, JobStatus
<1>4. c \in Seq(JobType)
  <2> HIDE DEF c
  <2> QED
    BY <1>1, <1>2, <1>3, SameLength
<1>5. DOMAIN c = DOMAIN js
  BY DEF Cancelled
<1>6. Len(c) = Len(js)
  <2> HIDE DEF c
  <2> QED
    BY <1>1, <1>4, <1>5, ListType
<1> QED
  BY <1>3, <1>4, <1>5, <1>6

\* Marking one job keeps the list.
LEMMA MarkedJobs ==
  ASSUME NEW js \in Seq(JobType), NEW k \in DOMAIN js, NEW status \in JobStatus
  PROVE  LET m == [js EXCEPT ![k].status = status]
         IN /\ m \in Seq(JobType)
            /\ DOMAIN m = DOMAIN js
            /\ Len(m) = Len(js)
            /\ \A j \in DOMAIN js : m[j].status = IF j = k THEN status ELSE js[j].status
<1> DEFINE m == [js EXCEPT ![k].status = status]
<1>1. /\ Len(js) \in Nat /\ DOMAIN js = 1..Len(js)
      /\ \A j \in DOMAIN js : js[j] \in JobType
  BY ListType
<1>2. m = [j \in 1..Len(js) |-> m[j]]
  BY <1>1
<1>3. ASSUME NEW j \in DOMAIN js
      PROVE  m[j] \in JobType /\ m[j].status = IF j = k THEN status ELSE js[j].status
  <2>1. js[j] \in JobType
    BY <1>1
  <2>2. m[j] = IF j = k THEN [js[j] EXCEPT !.status = status] ELSE js[j]
    OBVIOUS
  <2> HIDE DEF m
  <2> QED
    BY <2>1, <2>2 DEF JobType
<1>4. m \in Seq(JobType)
  <2> HIDE DEF m
  <2> QED
    BY <1>1, <1>2, <1>3, SameLength
<1>5. DOMAIN m = DOMAIN js
  OBVIOUS
<1>6. Len(m) = Len(js)
  <2> HIDE DEF m
  <2> QED
    BY <1>1, <1>4, <1>5, ListType
<1> QED
  BY <1>3, <1>4, <1>5, <1>6

\* What scheduling does: it cancels everything, leaves everything, or replaces
\* the waiting job by a new one; only then a date is shown.
LEMMA ScheduledJobs ==
  ASSUME NEW js \in Seq(JobType), NEW sop \in SopType, NEW flag \in BOOLEAN, NEW stage \in Stages
  PROVE  LET s == Scheduled(js, sop, flag, stage)
         IN /\ s.jobs \in Seq(JobType) /\ s.sop \in SopType
            /\ \/ s.jobs = Cancelled(js, Open) /\ ~s.sop.next
               \/ s.jobs = js /\ ~s.sop.next
               \/ /\ s.jobs = Append(Cancelled(js, {"pending"}), Job(stage))
                  /\ s.sop.latest = Len(js) + 1
                  /\ stage \in Listed
<1> DEFINE s == Scheduled(js, sop, flag, stage)
           e == Ensured(sop, flag, stage)
           hidden == [e EXCEPT !.next = FALSE]
           shown == [e EXCEPT !.next = TRUE, !.latest = Len(js) + 1]
<1>1. e \in SopType
  BY EnsuredType
<1>2. Len(js) \in Nat
  BY ListType
<1>3. hidden \in SopType /\ ~hidden.next
  <2> HIDE DEF e
  <2> QED
    BY <1>1 DEF SopType
<1>4. shown \in SopType /\ shown.latest = Len(js) + 1
  <2> DEFINE n == Len(js) + 1
  <2>1. n \in Nat
    BY <1>2
  <2> HIDE DEF e, n
  <2>2. [e EXCEPT !.next = TRUE, !.latest = n] \in SopType
    BY <1>1, <2>1 DEF SopType
  <2>3. [e EXCEPT !.next = TRUE, !.latest = n].latest = n
    BY <1>1 DEF SopType
  <2> QED
    BY <2>2, <2>3 DEF n
<1>5. CASE flag
  <2>1. s.jobs = Cancelled(js, Open) /\ s.sop = hidden
    BY <1>5 DEF Scheduled
  <2> QED
    BY <2>1, <1>3, CancelledJobs
<1>6. CASE ~flag /\ (e.status \in {"paused", "finished"} \/ stage \notin Timed)
  <2>1. s.jobs = js /\ s.sop = hidden
    BY <1>6 DEF Scheduled
  <2> QED
    BY <2>1, <1>3
<1>7. CASE ~flag /\ ~(e.status \in {"paused", "finished"} \/ stage \notin Timed)
  <2>1. s.jobs = Append(Cancelled(js, {"pending"}), Job(stage)) /\ s.sop = shown
    BY <1>7 DEF Scheduled
  <2>2. Job(stage) \in JobType
    BY <1>7, StageAssumption DEF Job, JobType, JobStatus
  <2>3. Append(Cancelled(js, {"pending"}), Job(stage)) \in Seq(JobType)
    BY <2>2, CancelledJobs
  <2> QED
    BY <2>1, <2>3, <1>4, <1>7, StageAssumption
<1> QED
  BY <1>5, <1>6, <1>7

-----------------------------------------------------------------------------
(* The invariant.                                                          *)

LEMMA InitInv == Init => Inv
<1> SUFFICES ASSUME Init PROVE Inv
  OBVIOUS
<1> USE DEF Init
<1>1. jobs \in Seq(JobType) /\ DOMAIN jobs = {}
  OBVIOUS
<1>2. sop_state \in SopType
  BY StagesType DEF SopType, SOPStatus, Stages
<1>3. TypeOK
  BY <1>1, <1>2, StagesType DEF TypeOK, JobType, SopType, NoWork, Stages
<1>4. OneWaiting /\ OnlySilentCustomers /\ ShownFollowUpExists /\ InHand
  BY <1>1 DEF OneWaiting, OnlySilentCustomers, ShownFollowUpExists, InHand
<1> QED
  BY <1>3, <1>4 DEF Inv

\* The scheduler's part of the types: claimed jobs are jobs.
HandType ==
  /\ batch \subseteq DOMAIN jobs
  /\ work \in [job : {0} \cup DOMAIN jobs, stage : Stages]

LEMMA TypeParts ==
  TypeOK <=> /\ transfer_flag \in BOOLEAN /\ current_stage \in Stages /\ silent \in BOOLEAN
             /\ replying \in BOOLEAN /\ crossed \in BOOLEAN
             /\ sop_state \in SopType /\ jobs \in Seq(JobType) /\ restarts \in Nat
             /\ HandType
BY DEF TypeOK, SopType, JobType, HandType

\* Jobs that are only cancelled by somebody else stay as they should.
LEMMA CancelKeeps ==
  ASSUME TypeOK, InHand, NEW statuses, jobs' = Cancelled(jobs, statuses),
         UNCHANGED <<batch, work>>
  PROVE  jobs' \in Seq(JobType) /\ HandType' /\ InHand'
<1>1. /\ jobs \in Seq(JobType) /\ HandType
  BY TypeParts
<1>2. /\ jobs' \in Seq(JobType) /\ DOMAIN jobs' = DOMAIN jobs
      /\ \A j \in DOMAIN jobs :
           jobs'[j].status = IF jobs[j].status \in statuses THEN "cancelled" ELSE jobs[j].status
  BY <1>1, CancelledJobs
<1> QED
  BY <1>1, <1>2 DEF HandType, InHand

\* Appending a pending job to the list disturbs no job in hand.
LEMMA AppendKeeps ==
  ASSUME NEW js \in Seq(JobType), NEW stage, stage \in Listed
  PROVE  LET a == Append(js, Job(stage))
         IN /\ a \in Seq(JobType)
            /\ DOMAIN a = DOMAIN js \cup {Len(js) + 1}
            /\ Len(a) = Len(js) + 1
            /\ \A j \in DOMAIN js : a[j] = js[j]
            /\ a[Len(js) + 1].status = "pending"
<1>1. Job(stage) \in JobType /\ Job(stage).status = "pending"
  BY DEF Job, JobType, JobStatus
<1> HIDE DEF Job
<1> QED
  BY <1>1, ListType

\* A step that makes no job wait keeps what is said of waiting jobs.
LEMMA NoneAdded ==
  ASSUME DOMAIN jobs' = DOMAIN jobs,
         \A j \in DOMAIN jobs : jobs'[j].status = "pending" => jobs[j].status = "pending"
  PROVE  /\ OneWaiting => OneWaiting'
         /\ (OnlySilentCustomers /\ UNCHANGED <<silent, crossed>>) => OnlySilentCustomers'
BY DEF OneWaiting, OnlySilentCustomers

\* What a scheduled follow-up makes of the jobs, for a list js in which at
\* most one job waits and no job that is in hand afterwards is sent or failed.
LEMMA ScheduleKeeps ==
  ASSUME NEW js \in Seq(JobType), NEW sop \in SopType, NEW flag \in BOOLEAN, NEW stage \in Stages,
         \A i, j \in DOMAIN js : (js[i].status = "pending" /\ js[j].status = "pending") => i = j,
         jobs' = Scheduled(js, sop, flag, stage).jobs,
         sop_state' = Scheduled(js, sop, flag, stage).sop,
         silent' \/ crossed'
  PROVE  /\ jobs' \in Seq(JobType) /\ sop_state' \in SopType
         /\ OneWaiting' /\ OnlySilentCustomers' /\ ShownFollowUpExists'
         /\ DOMAIN js \subseteq DOMAIN jobs'
         /\ \A j \in DOMAIN js : jobs'[j].status = js[j].status
                               \/ (js[j].status \in Open /\ jobs'[j].status = "cancelled")
<1>1. /\ jobs' \in Seq(JobType) /\ sop_state' \in SopType
      /\ \/ jobs' = Cancelled(js, Open) /\ ~sop_state'.next
         \/ jobs' = js /\ ~sop_state'.next
         \/ /\ jobs' = Append(Cancelled(js, {"pending"}), Job(stage))
            /\ sop_state'.latest = Len(js) + 1
            /\ stage \in Listed
  BY ScheduledJobs
<1>2. OnlySilentCustomers'
  BY DEF OnlySilentCustomers
<1>3. CASE jobs' = Cancelled(js, Open) /\ ~sop_state'.next
  <2>1. /\ DOMAIN jobs' = DOMAIN js
        /\ \A j \in DOMAIN js :
             jobs'[j].status = IF js[j].status \in Open THEN "cancelled" ELSE js[j].status
    BY <1>3, CancelledJobs
  <2>2. OneWaiting'
    BY <2>1 DEF OneWaiting, Open
  <2>3. ShownFollowUpExists'
    BY <1>3, Zenon DEF ShownFollowUpExists
  <2>4. \A j \in DOMAIN js : jobs'[j].status = js[j].status
                          \/ (js[j].status \in Open /\ jobs'[j].status = "cancelled")
    BY <2>1, Zenon
  <2> QED
    BY <1>1, <1>2, <2>1, <2>2, <2>3, <2>4, Zenon
<1>4. CASE jobs' = js /\ ~sop_state'.next
  <2>1. OneWaiting'
    BY <1>4 DEF OneWaiting
  <2>2. ShownFollowUpExists'
    BY <1>4, Zenon DEF ShownFollowUpExists
  <2> QED
    BY <1>1, <1>2, <1>4, <2>1, <2>2, Zenon
<1>5. CASE /\ jobs' = Append(Cancelled(js, {"pending"}), Job(stage))
           /\ sop_state'.latest = Len(js) + 1
           /\ stage \in Listed
  <2> DEFINE c == Cancelled(js, {"pending"})
  <2>1. /\ c \in Seq(JobType) /\ DOMAIN c = DOMAIN js /\ Len(c) = Len(js)
        /\ \A j \in DOMAIN js :
             c[j].status = IF js[j].status \in {"pending"} THEN "cancelled" ELSE js[j].status
    BY CancelledJobs
  <2> HIDE DEF c
  <2>2. /\ DOMAIN jobs' = DOMAIN js \cup {Len(js) + 1}
        /\ \A j \in DOMAIN js : jobs'[j] = c[j]
        /\ jobs'[Len(js) + 1].status = "pending"
    BY <1>5, <2>1, AppendKeeps DEF c
  <2>3. \A j \in DOMAIN js : jobs'[j].status # "pending"
    BY <2>1, <2>2
  <2>4. OneWaiting'
    BY <2>2, <2>3 DEF OneWaiting
  <2>5. ShownFollowUpExists'
    BY <1>5, <2>2 DEF ShownFollowUpExists, Open
  <2>6. \A j \in DOMAIN js : jobs'[j].status = js[j].status
                          \/ (js[j].status \in Open /\ jobs'[j].status = "cancelled")
    <3> TAKE j \in DOMAIN js
    <3>1. jobs'[j] = c[j]
      BY <2>2
    <3>2. CASE js[j].status = "pending"
      BY <2>1, <3>1, <3>2 DEF Open
    <3>3. CASE js[j].status # "pending"
      BY <2>1, <3>1, <3>3
    <3> QED
      BY <3>2, <3>3
  <2> QED
    BY <1>1, <1>2, <2>2, <2>4, <2>5, <2>6, Zenon
<1> QED
  BY <1>1, <1>3, <1>4, <1>5

\* One job changes, to a status in which it does not wait.
LEMMA MarkKeeps ==
  ASSUME TypeOK, OneWaiting, NEW k \in DOMAIN jobs, NEW status \in JobStatus, status # "pending",
         jobs' = [jobs EXCEPT ![k].status = status]
  PROVE  /\ jobs' \in Seq(JobType) /\ DOMAIN jobs' = DOMAIN jobs
         /\ \A j \in DOMAIN jobs : jobs'[j].status = IF j = k THEN status ELSE jobs[j].status
         /\ OneWaiting'
         /\ (OnlySilentCustomers /\ UNCHANGED <<silent, crossed>>) => OnlySilentCustomers'
<1>1. jobs \in Seq(JobType)
  BY TypeParts
<1>2. /\ jobs' \in Seq(JobType) /\ DOMAIN jobs' = DOMAIN jobs
      /\ \A j \in DOMAIN jobs : jobs'[j].status = IF j = k THEN status ELSE jobs[j].status
  BY <1>1, MarkedJobs
<1>3. \A j \in DOMAIN jobs : jobs'[j].status = "pending" => jobs[j].status = "pending"
  BY <1>2
<1> QED
  BY <1>2, <1>3, NoneAdded, Zenon

\* A job that is settled takes its own date with it, and no other.
LEMMA SettledDate ==
  ASSUME TypeOK, ShownFollowUpExists, NEW k \in DOMAIN jobs,
         DOMAIN jobs' = DOMAIN jobs,
         \A j \in DOMAIN jobs : j # k => jobs'[j].status = jobs[j].status,
         sop_state' = [sop_state EXCEPT !.next = StillNext(k)]
  PROVE  sop_state' \in SopType /\ ShownFollowUpExists'
<1>1. sop_state \in SopType
  BY TypeParts
<1>2. StillNext(k) \in BOOLEAN
  BY <1>1 DEF StillNext, SopType
<1>3. StillNext(k) => sop_state.next /\ sop_state.latest # k
  BY DEF StillNext
<1> HIDE DEF StillNext
<1>4. sop_state' \in SopType
  BY <1>1, <1>2 DEF SopType
<1>5. sop_state'.next = StillNext(k) /\ sop_state'.latest = sop_state.latest
  BY <1>1 DEF SopType
<1>6. SUFFICES ASSUME sop_state'.next
               PROVE  sop_state'.latest \in DOMAIN jobs' /\ jobs'[sop_state'.latest].status \in Open
  BY <1>4 DEF ShownFollowUpExists
<1>7. sop_state.next /\ sop_state.latest # k
  BY <1>3, <1>5, <1>6
<1> QED
  BY <1>5, <1>7 DEF ShownFollowUpExists

\* The conjuncts of the invariant, with the types taken apart.
Parts ==
  /\ transfer_flag \in BOOLEAN /\ current_stage \in Stages /\ silent \in BOOLEAN
  /\ replying \in BOOLEAN /\ crossed \in BOOLEAN
  /\ sop_state \in SopType /\ jobs \in Seq(JobType) /\ restarts \in Nat
  /\ HandType
  /\ OneWaiting /\ OnlySilentCustomers /\ ShownFollowUpExists /\ InHand

LEMMA InvParts == Inv <=> Parts
BY TypeParts DEF Inv, Parts

\* The conversation's steps.
Conversation ==
  \/ CustomerMessage \/ SalesMessage \/ ReplyChunk \/ ScheduleReply \/ ReplyBreaks
  \/ TurnProgress \/ TakeOver \/ Release

\* What was told is followed up: the messages that are, at once, and the reply that
\* is when its last chunk is out.
Follows == SalesMessage \/ ScheduleReply

LEMMA FollowsSchedule ==
  ASSUME Inv, Follows
  PROVE  /\ jobs' = Scheduled(jobs, sop_state, transfer_flag, current_stage).jobs
         /\ sop_state' = Scheduled(jobs, sop_state, transfer_flag, current_stage).sop
         /\ silent' \/ crossed'
         /\ replying' \in BOOLEAN /\ crossed' \in BOOLEAN /\ silent' \in BOOLEAN
         /\ UNCHANGED <<transfer_flag, current_stage, batch, work, restarts>>
<1>1. silent \in BOOLEAN /\ replying \in BOOLEAN
  BY InvParts DEF Parts
<1>2. CASE SalesMessage
  BY <1>1, <1>2 DEF SalesMessage, ScheduleNow
<1>3. CASE ScheduleReply
  BY <1>1, <1>3 DEF ScheduleReply, ScheduleNow
<1> QED
  BY <1>2, <1>3 DEF Follows

LEMMA ConversationInv ==
  ASSUME Inv, Conversation
  PROVE  Inv'
<1> SUFFICES Parts'
  BY InvParts, PTL
<1> USE DEF Parts
<1>0. Parts /\ TypeOK
  BY InvParts DEF Inv
<1>1. CASE CustomerMessage
  <2> USE <1>1 DEF CustomerMessage
  <2>1. jobs' \in Seq(JobType) /\ HandType' /\ InHand'
    BY <1>0, CancelKeeps
  <2>2. /\ DOMAIN jobs' = DOMAIN jobs
        /\ \A j \in DOMAIN jobs : jobs'[j].status # "pending"
    BY <1>0, CancelledJobs DEF Open
  <2>3. OneWaiting' /\ OnlySilentCustomers'
    BY <2>2 DEF OneWaiting, OnlySilentCustomers
  <2> DEFINE e == Ensured(sop_state, transfer_flag, current_stage)
  <2>4. e \in SopType
    BY <1>0, EnsuredType
  <2>5. sop_state' \in SopType /\ ~sop_state'.next
    <3>1. sop_state' = [e EXCEPT !.next = FALSE]
      OBVIOUS
    <3> HIDE DEF e
    <3> QED
      BY <2>4, <3>1 DEF SopType
  <2>6. ShownFollowUpExists'
    BY <2>5, Zenon DEF ShownFollowUpExists
  <2> QED
    BY <1>0, <2>1, <2>3, <2>5, <2>6
<1>2. CASE Follows
  <2>1. /\ jobs' = Scheduled(jobs, sop_state, transfer_flag, current_stage).jobs
        /\ sop_state' = Scheduled(jobs, sop_state, transfer_flag, current_stage).sop
        /\ silent' \/ crossed'
        /\ replying' \in BOOLEAN /\ crossed' \in BOOLEAN /\ silent' \in BOOLEAN
        /\ UNCHANGED <<transfer_flag, current_stage, batch, work, restarts>>
    BY <1>2, FollowsSchedule
  <2>2. /\ jobs' \in Seq(JobType) /\ sop_state' \in SopType
        /\ OneWaiting' /\ OnlySilentCustomers' /\ ShownFollowUpExists'
        /\ DOMAIN jobs \subseteq DOMAIN jobs'
        /\ \A j \in DOMAIN jobs : jobs'[j].status = jobs[j].status
                                \/ (jobs[j].status \in Open /\ jobs'[j].status = "cancelled")
    BY <1>0, <2>1, ScheduleKeeps DEF OneWaiting
  <2>3. HandType'
    BY <1>0, <2>1, <2>2 DEF HandType
  <2>4. InHand'
    BY <1>0, <2>1, <2>2 DEF HandType, InHand
  <2> QED
    BY <1>0, <2>1, <2>2, <2>3, <2>4
<1>3. CASE ReplyChunk \/ ReplyBreaks \/ TurnProgress
  BY <1>0, <1>3 DEF ReplyChunk, ReplyBreaks, TurnProgress, reply, HandType, OneWaiting,
                    OnlySilentCustomers, ShownFollowUpExists, InHand
<1>4. CASE TakeOver
  <2> USE <1>4 DEF TakeOver
  <2>1. jobs' \in Seq(JobType) /\ HandType' /\ InHand'
    BY <1>0, CancelKeeps
  <2>2. /\ DOMAIN jobs' = DOMAIN jobs
        /\ \A j \in DOMAIN jobs : jobs'[j].status # "pending"
    BY <1>0, CancelledJobs DEF Open
  <2>3. OneWaiting' /\ OnlySilentCustomers'
    BY <2>2 DEF OneWaiting, OnlySilentCustomers
  <2>4. sop_state' \in SopType /\ ~sop_state'.next
    BY <1>0 DEF SopType, SOPStatus
  <2>5. ShownFollowUpExists'
    BY <2>4, Zenon DEF ShownFollowUpExists
  <2> QED
    BY <1>0, <2>1, <2>3, <2>4, <2>5
<1>5. CASE Release
  BY <1>0, <1>5 DEF Release, reply, HandType, OneWaiting, OnlySilentCustomers,
                    ShownFollowUpExists, InHand
<1> QED
  BY <1>1, <1>2, <1>3, <1>4, <1>5 DEF Conversation, Follows

\* The scheduler's steps.
LEMMA ClaimInv ==
  ASSUME Inv, Claim
  PROVE  Inv'
<1> SUFFICES Parts'
  BY InvParts, PTL
<1> USE DEF Parts, Claim, reply
<1>0. Parts /\ TypeOK
  BY InvParts DEF Inv
<1>1. /\ Len(jobs) \in Nat /\ DOMAIN jobs = 1..Len(jobs)
      /\ \A j \in DOMAIN jobs : jobs[j] \in JobType
  BY <1>0, ListType
<1>2. /\ jobs' = [j \in 1..Len(jobs) |-> jobs'[j]]
      /\ DOMAIN jobs' = DOMAIN jobs
  BY <1>1
<1>3. ASSUME NEW j \in DOMAIN jobs
      PROVE  /\ jobs'[j] \in JobType
             /\ jobs'[j].status = IF j \in batch' THEN "running" ELSE jobs[j].status
  <2>1. jobs'[j] = IF j \in batch' THEN [jobs[j] EXCEPT !.status = "running"] ELSE jobs[j]
    BY <1>2
  <2> QED
    BY <1>1, <2>1 DEF JobType, JobStatus
<1>4. jobs' \in Seq(JobType)
  <2> HIDE DEF Claim
  <2> QED
    BY <1>1, <1>2, <1>3, SameLength
<1>5. batch' \subseteq DOMAIN jobs
  OBVIOUS
<1>6. HandType' /\ InHand'
  BY <1>0, <1>2, <1>3, <1>5 DEF HandType, InHand
<1>7. OneWaiting' /\ OnlySilentCustomers'
  BY <1>0, <1>2, <1>3, NoneAdded
<1>8. ShownFollowUpExists'
  BY <1>0, <1>2, <1>3 DEF ShownFollowUpExists, Open
<1> QED
  BY <1>0, <1>4, <1>6, <1>7, <1>8

LEMMA BeginJobInv ==
  ASSUME Inv, NEW k \in batch, BeginJob(k)
  PROVE  Inv'
<1> SUFFICES Parts'
  BY InvParts, PTL
<1> USE DEF Parts, BeginJob, reply
<1>0. Parts /\ TypeOK
  BY InvParts DEF Inv
<1>1. k \in DOMAIN jobs /\ jobs[k].status \in {"running", "cancelled"}
  BY <1>0 DEF HandType, InHand
<1>2. CASE transfer_flag
  <2>1. /\ jobs' = [jobs EXCEPT ![k].status = "cancelled"]
        /\ sop_state' = [sop_state EXCEPT !.next = StillNext(k)]
        /\ work' = work /\ work = NoWork
    BY <1>2
  <2>2. /\ jobs' \in Seq(JobType) /\ DOMAIN jobs' = DOMAIN jobs
        /\ \A j \in DOMAIN jobs : jobs'[j].status = IF j = k THEN "cancelled" ELSE jobs[j].status
        /\ OneWaiting' /\ OnlySilentCustomers'
    BY <1>0, <1>1, <2>1, MarkKeeps DEF JobStatus
  <2>3. sop_state' \in SopType /\ ShownFollowUpExists'
    BY <1>0, <1>1, <2>1, <2>2, SettledDate
  <2>4. HandType' /\ InHand'
    BY <1>0, <2>1, <2>2 DEF HandType, InHand
  <2> QED
    BY <1>0, <2>2, <2>3, <2>4
<1>3. CASE ~transfer_flag
  <2>1. /\ work' = [job |-> k, stage |-> current_stage]
        /\ UNCHANGED <<jobs, sop_state>>
    BY <1>3
  <2>2. HandType' /\ InHand'
    BY <1>0, <1>1, <2>1 DEF HandType, InHand
  <2>3. OneWaiting' /\ OnlySilentCustomers' /\ ShownFollowUpExists'
    BY <1>0, <2>1 DEF OneWaiting, OnlySilentCustomers, ShownFollowUpExists
  <2> QED
    BY <1>0, <2>1, <2>2, <2>3
<1> QED
  BY <1>0, <1>2, <1>3

LEMMA FailJobInv ==
  ASSUME Inv, FailJob
  PROVE  Inv'
<1> SUFFICES Parts'
  BY InvParts, PTL
<1> DEFINE k == work.job
<1> USE DEF Parts, FailJob, reply
<1>0. Parts /\ TypeOK
  BY InvParts DEF Inv
<1>1. k \in DOMAIN jobs /\ k \notin batch
  BY <1>0 DEF InHand
<1>2. /\ jobs' = [jobs EXCEPT ![k].status = "failed"]
      /\ sop_state' = [sop_state EXCEPT !.next = StillNext(k)]
      /\ work' = NoWork /\ batch' = batch
  BY DEF Failed
<1> HIDE DEF k
<1>3. /\ jobs' \in Seq(JobType) /\ DOMAIN jobs' = DOMAIN jobs
      /\ \A j \in DOMAIN jobs : jobs'[j].status = IF j = k THEN "failed" ELSE jobs[j].status
      /\ OneWaiting' /\ OnlySilentCustomers'
  BY <1>0, <1>1, <1>2, MarkKeeps DEF JobStatus
<1>4. sop_state' \in SopType /\ ShownFollowUpExists'
  BY <1>0, <1>1, <1>2, <1>3, SettledDate
<1>5. HandType'
  BY <1>0, <1>2, <1>3 DEF HandType, NoWork, Stages
<1>6. InHand'
  BY <1>0, <1>1, <1>2, <1>3 DEF HandType, InHand
<1> QED
  BY <1>0, <1>3, <1>4, <1>5, <1>6

LEMMA SendJobInv ==
  ASSUME Inv, SendJob
  PROVE  Inv'
<1> SUFFICES Parts'
  BY InvParts, PTL
<1> DEFINE k == work.job
           action == ActionOf[jobs[k].stage]
           stage == NextStage(jobs[k].stage)
           sent == [jobs EXCEPT ![k].status = "sent"]
           marked == [sop_state EXCEPT !.next = FALSE, !.status = StatusFor(action)]
           moved == [marked EXCEPT !.stage = stage]
           next == Scheduled(sent, moved, FALSE, stage)
<1> USE DEF Parts
<1>0. Parts /\ TypeOK
  BY InvParts DEF Inv
<1>1. k \in DOMAIN jobs /\ k \notin batch
  BY <1>0 DEF InHand, SendJob
<1>2. stage \in Stages
  BY StagesType
<1>3. marked \in SopType /\ ~marked.next
  <2>1. StatusFor(action) \in SOPStatus
    BY StatusType
  <2> HIDE DEF action
  <2> QED
    BY <1>0, <2>1 DEF SopType
<1>4. moved \in SopType
  <2> HIDE DEF marked, stage
  <2> QED
    BY <1>2, <1>3 DEF SopType
<1>5. /\ silent' = TRUE /\ crossed' = FALSE /\ work' = NoWork
      /\ UNCHANGED <<transfer_flag, replying, batch, restarts>>
      /\ \/ /\ jobs' = next.jobs /\ sop_state' = next.sop
            /\ current_stage' = IF stage = work.stage THEN current_stage ELSE stage
         \/ jobs' = sent /\ sop_state' = marked /\ UNCHANGED current_stage
  BY DEF SendJob
<1>6. current_stage' \in Stages
  BY <1>0, <1>2, <1>5
<1>7. /\ sent \in Seq(JobType) /\ DOMAIN sent = DOMAIN jobs
      /\ \A j \in DOMAIN jobs : sent[j].status = IF j = k THEN "sent" ELSE jobs[j].status
  BY <1>0, <1>1, MarkedJobs DEF JobStatus
<1> HIDE DEF k, action, stage, sent, marked, moved
<1>8. \A i, j \in DOMAIN sent : (sent[i].status = "pending" /\ sent[j].status = "pending") => i = j
  BY <1>0, <1>7 DEF OneWaiting
<1>9. /\ jobs' \in Seq(JobType) /\ sop_state' \in SopType
      /\ OneWaiting' /\ OnlySilentCustomers' /\ ShownFollowUpExists'
      /\ DOMAIN sent \subseteq DOMAIN jobs'
      /\ \A j \in DOMAIN sent : jobs'[j].status = sent[j].status
                              \/ (sent[j].status \in Open /\ jobs'[j].status = "cancelled")
  <2>1. CASE jobs' = next.jobs /\ sop_state' = next.sop
    BY <1>2, <1>4, <1>5, <1>7, <1>8, <2>1, ScheduleKeeps
  <2>2. CASE jobs' = sent /\ sop_state' = marked
    <3>1. OneWaiting' /\ OnlySilentCustomers'
      BY <1>5, <1>8, <2>2 DEF OneWaiting, OnlySilentCustomers
    <3>2. ShownFollowUpExists'
      BY <1>3, <2>2, Zenon DEF ShownFollowUpExists
    <3> QED
      BY <1>3, <1>7, <2>2, <3>1, <3>2
  <2> QED
    BY <1>5, <2>1, <2>2
<1>10. HandType'
  BY <1>0, <1>5, <1>7, <1>9 DEF HandType, NoWork, Stages
<1>11. InHand'
  BY <1>0, <1>1, <1>5, <1>7, <1>9 DEF HandType, InHand
<1> QED
  BY <1>0, <1>5, <1>6, <1>9, <1>10, <1>11

LEMMA RestartInv ==
  ASSUME Inv, Restart \/ UNCHANGED vars
  PROVE  Inv'
<1> SUFFICES Parts'
  BY InvParts, PTL
<1>1. Parts
  BY InvParts
<1>2. CASE Restart
  <2>1. replying' \in BOOLEAN
    BY <1>1, <1>2 DEF Parts, Restart
  <2> QED
    BY <1>1, <1>2, <2>1 DEF Parts, Restart, HandType, OneWaiting, OnlySilentCustomers,
                            ShownFollowUpExists, InHand, NoWork, Stages
<1>3. CASE UNCHANGED vars
  BY <1>1, <1>3 DEF Parts, vars, HandType, OneWaiting, OnlySilentCustomers,
                    ShownFollowUpExists, InHand
<1> QED
  BY <1>2, <1>3

LEMMA NextInv == Inv /\ [Next]_vars => Inv'
<1> SUFFICES ASSUME Inv, [Next]_vars PROVE Inv'
  OBVIOUS
<1>1. CASE Conversation
  BY <1>1, ConversationInv
<1>2. CASE Claim
  BY <1>2, ClaimInv
<1>3. CASE \E j \in batch : BeginJob(j)
  BY <1>3, BeginJobInv
<1>4. CASE FailJob
  BY <1>4, FailJobInv
<1>5. CASE SendJob
  BY <1>5, SendJobInv
<1>6. CASE Restart \/ UNCHANGED vars
  BY <1>6, RestartInv
<1> QED
  BY <1>1, <1>2, <1>3, <1>4, <1>5, <1>6 DEF Next, Conversation

LEMMA AlwaysInv == Spec => []Inv
BY InitInv, NextInv, PTL DEF Spec

-----------------------------------------------------------------------------
(* The theorems.                                                           *)

\* Types: claimed jobs and the job in hand are jobs of the list.
THEOREM TypeCorrect == Spec => []TypeOK
<1>1. Inv => TypeOK
  BY DEF Inv
<1> QED
  BY <1>1, AlwaysInv, PTL

\* At most one follow-up waits for a session: scheduling replaces the waiting
\* one, and no step of the scheduler makes a job wait again.
THEOREM OneIsWaiting == Spec => []OneWaiting
<1>1. Inv => OneWaiting
  BY DEF Inv
<1> QED
  BY <1>1, AlwaysInv, PTL

\* A follow-up waits only for a customer who has not answered the last message
\* of the sales side, or whose answer crossed an automatic reply that had its last
\* chunk out and its follow-up still to schedule.
THEOREM OnlySilentAreFollowedUp == Spec => []OnlySilentCustomers
<1>1. Inv => OnlySilentCustomers
  BY DEF Inv
<1> QED
  BY <1>1, AlwaysInv, PTL

\* The follow-up an operator is shown is pending or running, whoever cancelled
\* or settled what in between.
THEOREM ShownExists == Spec => []ShownFollowUpExists
<1>1. Inv => ShownFollowUpExists
  BY DEF Inv
<1> QED
  BY <1>1, AlwaysInv, PTL

\* A job keeps what it is when the list is cancelled in part, when a job of the
\* batch is begun, and when the job in hand, another one, is settled.
LEMMA StepKeepsHistory ==
  ASSUME Inv, [Next]_vars
  PROVE  \A j \in DOMAIN jobs : (jobs[j].status \in {"sent", "failed"}) =>
                                 (jobs'[j].status = jobs[j].status)
<1> DEFINE Kept(j) == jobs'[j].status = jobs[j].status
<1> SUFFICES ASSUME NEW j \in DOMAIN jobs, jobs[j].status \in {"sent", "failed"}
             PROVE  Kept(j)
  OBVIOUS
<1>0. Parts /\ TypeOK /\ jobs \in Seq(JobType)
  BY InvParts DEF Inv, Parts
<1>1. \A k \in batch : k \in DOMAIN jobs /\ k # j
  BY <1>0 DEF Parts, HandType, InHand
<1>2. work # NoWork => work.job \in DOMAIN jobs /\ work.job # j
  BY <1>0 DEF Parts, InHand
<1>3. CASE CustomerMessage \/ TakeOver
  BY <1>0, <1>3, CancelledJobs DEF CustomerMessage, TakeOver, Open
<1>4. CASE Follows
  <2>1. /\ jobs' = Scheduled(jobs, sop_state, transfer_flag, current_stage).jobs
        /\ sop_state' = Scheduled(jobs, sop_state, transfer_flag, current_stage).sop
        /\ silent' \/ crossed'
    BY <1>4, FollowsSchedule
  <2>2. \/ Kept(j)
        \/ jobs[j].status \in Open
    BY <1>0, <2>1, ScheduleKeeps DEF Parts, OneWaiting
  <2> QED
    BY <2>2 DEF Open
<1>5. CASE ReplyChunk \/ ReplyBreaks \/ TurnProgress \/ Release \/ Restart \/ UNCHANGED vars
  BY <1>5 DEF ReplyChunk, ReplyBreaks, TurnProgress, Release, Restart, vars
<1>6. CASE Claim
  BY <1>6 DEF Claim
<1>7. ASSUME NEW k \in batch, BeginJob(k) PROVE Kept(j)
  BY <1>1, <1>7 DEF BeginJob
<1>8. CASE FailJob
  BY <1>2, <1>8 DEF FailJob, Failed
<1>9. CASE SendJob
  <2> DEFINE sent == [jobs EXCEPT ![work.job].status = "sent"]
             action == ActionOf[jobs[work.job].stage]
             stage == NextStage(jobs[work.job].stage)
             moved == [[sop_state EXCEPT !.next = FALSE, !.status = StatusFor(action)]
                         EXCEPT !.stage = stage]
  <2>1. /\ work # NoWork
        /\ jobs' = sent \/ jobs' = Scheduled(sent, moved, FALSE, stage).jobs
    BY <1>9 DEF SendJob
  <2>2. sent[j] = jobs[j]
    BY <1>2, <2>1
  <2>3. sent \in Seq(JobType) /\ j \in DOMAIN sent
    BY <1>0, <1>2, <2>1, MarkedJobs DEF JobStatus
  <2>4. moved \in SopType
    <3>1. StatusFor(action) \in SOPStatus /\ stage \in Stages /\ sop_state \in SopType
      BY <1>0, StatusType, StagesType DEF Parts
    <3> HIDE DEF action, stage
    <3> QED
      BY <3>1 DEF SopType
  <2>5. stage \in Stages
    BY StagesType
  <2> HIDE DEF sent, action, stage, moved
  <2>6. CASE jobs' = sent
    BY <2>2, <2>6
  <2>7. CASE jobs' = Scheduled(sent, moved, FALSE, stage).jobs
    <3>1. \/ jobs' = Cancelled(sent, Open)
          \/ jobs' = sent
          \/ /\ jobs' = Append(Cancelled(sent, {"pending"}), Job(stage))
             /\ stage \in Listed
      BY <2>3, <2>4, <2>5, <2>7, ScheduledJobs
    <3>2. CASE jobs' = Cancelled(sent, Open)
      BY <2>2, <2>3, <3>2, CancelledJobs DEF Open
    <3>3. CASE /\ jobs' = Append(Cancelled(sent, {"pending"}), Job(stage))
               /\ stage \in Listed
      <4> DEFINE c == Cancelled(sent, {"pending"})
      <4>1. c \in Seq(JobType) /\ j \in DOMAIN c /\ c[j].status = sent[j].status
        BY <2>2, <2>3, CancelledJobs
      <4> HIDE DEF c
      <4>2. jobs'[j] = c[j]
        BY <3>3, <4>1, AppendKeeps DEF c
      <4> QED
        BY <2>2, <4>1, <4>2
    <3> QED
      BY <3>1, <3>2, <3>3, <2>6
  <2> QED
    BY <2>1, <2>6, <2>7
<1> QED
  BY <1>3, <1>4, <1>5, <1>6, <1>7, <1>8, <1>9 DEF Next, Follows

\* What the customer got and what went wrong stays in the record: no step
\* changes a job that was sent or has failed.
THEOREM HistoryIsKept == Spec => HistoryStays
<1>1. Inv /\ [Next]_vars =>
        [\A j \in DOMAIN jobs : (jobs[j].status \in {"sent", "failed"}) =>
           (jobs'[j].status = jobs[j].status)]_vars
  BY StepKeepsHistory
<1> QED
  BY <1>1, AlwaysInv, PTL DEF Spec, HistoryStays

-----------------------------------------------------------------------------
(* The refinement of Outreach: what each step does to the sets of jobs     *)
(* that wait, are in hand, were sent and have failed.                      *)

InStatus(js, status) == {j \in DOMAIN js : js[j].status = status}
Held == batch \cup (IF work = NoWork THEN {} ELSE {work.job})

\* Cancelling leaves what was sent or has failed, and in the given statuses nothing.
LEMMA CancelledSets ==
  ASSUME NEW js \in Seq(JobType), NEW statuses, statuses \subseteq Open
  PROVE  LET c == Cancelled(js, statuses)
         IN /\ Len(c) = Len(js)
            /\ InStatus(c, "sent") = InStatus(js, "sent")
            /\ InStatus(c, "failed") = InStatus(js, "failed")
            /\ "pending" \in statuses => InStatus(c, "pending") = {}
<1> DEFINE c == Cancelled(js, statuses)
<1>1. /\ DOMAIN c = DOMAIN js /\ Len(c) = Len(js)
      /\ \A j \in DOMAIN js :
           c[j].status = IF js[j].status \in statuses THEN "cancelled" ELSE js[j].status
  BY CancelledJobs
<1> HIDE DEF c
<1> QED
  BY <1>1 DEF InStatus, Open, c

\* Scheduling leaves what was sent or has failed; it leaves the waiting follow-up,
\* cancels it, or replaces it by a new one.
LEMMA ScheduledSets ==
  ASSUME NEW js \in Seq(JobType), NEW sop \in SopType, NEW flag \in BOOLEAN, NEW stage \in Stages
  PROVE  LET n == Scheduled(js, sop, flag, stage).jobs
         IN /\ InStatus(n, "sent") = InStatus(js, "sent")
            /\ InStatus(n, "failed") = InStatus(js, "failed")
            /\ \/ Len(n) = Len(js) /\ InStatus(n, "pending") \in {InStatus(js, "pending"), {}}
               \/ Len(n) = Len(js) + 1 /\ InStatus(n, "pending") = {Len(n)}
<1> DEFINE n == Scheduled(js, sop, flag, stage).jobs
<1>1. \/ n = Cancelled(js, Open)
      \/ n = js
      \/ n = Append(Cancelled(js, {"pending"}), Job(stage)) /\ stage \in Listed
  BY ScheduledJobs
<1> HIDE DEF n
<1>2. CASE n = Cancelled(js, Open)
  BY <1>2, CancelledSets DEF Open, n
<1>3. CASE n = js
  BY <1>3 DEF n
<1>4. CASE n = Append(Cancelled(js, {"pending"}), Job(stage)) /\ stage \in Listed
  <2> DEFINE c == Cancelled(js, {"pending"})
  <2>1. /\ c \in Seq(JobType) /\ Len(c) = Len(js)
        /\ InStatus(c, "sent") = InStatus(js, "sent")
        /\ InStatus(c, "failed") = InStatus(js, "failed")
        /\ InStatus(c, "pending") = {}
    BY CancelledJobs, CancelledSets DEF Open
  <2> HIDE DEF c
  <2>2. /\ DOMAIN n = DOMAIN c \cup {Len(c) + 1} /\ Len(n) = Len(c) + 1
        /\ \A j \in DOMAIN c : n[j] = c[j]
        /\ n[Len(c) + 1].status = "pending"
    BY <1>4, <2>1, AppendKeeps DEF c
  <2>3. Len(c) \in Nat /\ DOMAIN c = 1..Len(c)
    BY <2>1, ListType
  <2>4. InStatus(n, "sent") = InStatus(c, "sent") /\ InStatus(n, "failed") = InStatus(c, "failed")
    BY <2>2, <2>3 DEF InStatus
  <2>5. InStatus(n, "pending") = {Len(n)}
    BY <2>1, <2>2, <2>3 DEF InStatus
  <2> QED
    BY <2>1, <2>2, <2>4, <2>5 DEF n
<1> QED
  BY <1>1, <1>2, <1>3, <1>4 DEF n

\* Marking a job that did not wait leaves the waiting one.
LEMMA MarkedSets ==
  ASSUME NEW js \in Seq(JobType), NEW k \in DOMAIN js,
         js[k].status \in {"running", "cancelled"}, NEW status \in {"sent", "failed", "cancelled"}
  PROVE  LET m == [js EXCEPT ![k].status = status]
         IN /\ m \in Seq(JobType) /\ Len(m) = Len(js)
            /\ InStatus(m, "pending") = InStatus(js, "pending")
            /\ InStatus(m, "sent") = IF status = "sent" THEN InStatus(js, "sent") \cup {k}
                                     ELSE InStatus(js, "sent")
            /\ InStatus(m, "failed") = IF status = "failed" THEN InStatus(js, "failed") \cup {k}
                                       ELSE InStatus(js, "failed")
<1> DEFINE m == [js EXCEPT ![k].status = status]
<1>1. /\ m \in Seq(JobType) /\ DOMAIN m = DOMAIN js /\ Len(m) = Len(js)
      /\ \A j \in DOMAIN js : m[j].status = IF j = k THEN status ELSE js[j].status
  <2>1. status \in JobStatus
    BY DEF JobStatus
  <2> QED
    BY <2>1, MarkedJobs
<1> HIDE DEF m
<1> QED
  BY <1>1 DEF InStatus, m

LEMMA ConversationPromise ==
  ASSUME Inv, Conversation
  PROVE  [Promise!Next]_(Promise!vars)
<1>0. Parts
  BY InvParts
<1> USE DEF With, Promise!vars
<1>1. CASE CustomerMessage
  <2>1. Promise!Answer
    BY <1>0, <1>1, CancelledSets
       DEF Parts, CustomerMessage, Promise!Answer, InStatus, Open
  <2> QED
    BY <2>1 DEF Promise!Next
<1>2. CASE Follows
  <2>1. /\ jobs' = Scheduled(jobs, sop_state, transfer_flag, current_stage).jobs
        /\ UNCHANGED <<batch, work>>
    BY <1>2, FollowsSchedule
  <2>2. /\ InStatus(jobs', "sent") = InStatus(jobs, "sent")
        /\ InStatus(jobs', "failed") = InStatus(jobs, "failed")
        /\ \/ /\ Len(jobs') = Len(jobs)
              /\ InStatus(jobs', "pending") \in {InStatus(jobs, "pending"), {}}
           \/ Len(jobs') = Len(jobs) + 1 /\ InStatus(jobs', "pending") = {Len(jobs')}
    BY <1>0, <2>1, ScheduledSets DEF Parts
  <2>3. CASE SalesMessage
    <3>1. Promise!Speak
      BY <2>1, <2>2, <2>3 DEF SalesMessage, Promise!Speak, Promise!FollowedUp, InStatus
    <3> QED
      BY <3>1 DEF Promise!Next
  <2>4. CASE ScheduleReply
    <3>1. Promise!Told
      BY <2>1, <2>2, <2>4 DEF ScheduleReply, Promise!Told, Promise!FollowedUp, InStatus
    <3> QED
      BY <3>1 DEF Promise!Next
  <2> QED
    BY <1>2, <2>3, <2>4 DEF Follows
<1>3. CASE TurnProgress \/ Release
  BY <1>3 DEF TurnProgress, Release, reply
<1>5. CASE ReplyChunk
  <2>1. Promise!Tell
    BY <1>5 DEF ReplyChunk, Promise!Tell
  <2> QED
    BY <2>1 DEF Promise!Next
<1>6. CASE ReplyBreaks
  <2>1. Promise!Told
    BY <1>6 DEF ReplyBreaks, Promise!Told, Promise!FollowedUp
  <2> QED
    BY <2>1 DEF Promise!Next
<1>4. CASE TakeOver
  <2>1. Promise!Stop
    BY <1>0, <1>4, CancelledSets DEF Parts, TakeOver, Promise!Stop, InStatus, Open
  <2> QED
    BY <2>1 DEF Promise!Next
<1> QED
  BY <1>1, <1>2, <1>3, <1>4, <1>5, <1>6 DEF Conversation, Follows

LEMMA ClaimPromise ==
  ASSUME Inv, Claim
  PROVE  Promise!Take
<1>1. /\ DOMAIN jobs' = DOMAIN jobs
      /\ \A j \in DOMAIN jobs :
           jobs'[j].status = IF jobs[j].status = "pending" THEN "running" ELSE jobs[j].status
  <2>1. \A j \in DOMAIN jobs : jobs[j] \in JobType
    BY InvParts, ListType DEF Parts
  <2> QED
    BY <2>1 DEF Claim, JobType
<1>2. jobs' \in Seq(JobType) /\ jobs \in Seq(JobType)
  <2>1. Inv'
    BY ClaimInv
  <2>2. Parts'
    BY <2>1, InvParts, PTL
  <2> QED
    BY <2>2, InvParts DEF Parts
<1>3. Len(jobs') = Len(jobs)
  BY <1>1, <1>2, ListType
<1> QED
  BY <1>1, <1>3 DEF Claim, reply, Promise!Take, With

\* The job in hand is settled: as sent, failed or cancelled.
LEMMA SettledPromise ==
  ASSUME Inv, NEW k \in Held
  PROVE  /\ k \in DOMAIN jobs /\ jobs[k].status \in {"running", "cancelled"}
         /\ k \notin With("sent") \cup With("failed")
BY InvParts DEF Parts, Held, HandType, InHand, With

LEMMA BeginJobPromise ==
  ASSUME Inv, NEW k \in batch, BeginJob(k)
  PROVE  [Promise!Next]_(Promise!vars)
<1>0. jobs \in Seq(JobType) /\ work = NoWork /\ k \in Held /\ batch' = batch \ {k}
  BY InvParts DEF Parts, BeginJob, Held
<1>1. CASE transfer_flag
  <2>1. /\ jobs' = [jobs EXCEPT ![k].status = "cancelled"]
        /\ UNCHANGED <<work, silent, replying>>
    BY <1>1 DEF BeginJob, reply
  <2>2. k \in DOMAIN jobs /\ jobs[k].status \in {"running", "cancelled"}
    BY <1>0, SettledPromise
  <2>3. /\ Len(jobs') = Len(jobs)
        /\ InStatus(jobs', "pending") = InStatus(jobs, "pending")
        /\ InStatus(jobs', "sent") = InStatus(jobs, "sent")
        /\ InStatus(jobs', "failed") = InStatus(jobs, "failed")
    BY <1>0, <2>1, <2>2, MarkedSets
  <2>4. Promise!GiveUp(k)
    BY <1>0, <2>1, <2>3, SettledPromise DEF Promise!GiveUp, InStatus, With
  <2> QED
    BY <1>0, <2>4 DEF Promise!Next
<1>2. CASE ~transfer_flag
  <2>1. work' = [job |-> k, stage |-> current_stage] /\ UNCHANGED <<jobs, silent, replying>>
    BY <1>2 DEF BeginJob, reply
  <2>2. work' # NoWork /\ work'.job = k
    BY <1>0, <2>1, SettledPromise, InvParts, ListType DEF NoWork, Parts
  <2> QED
    BY <1>0, <2>1, <2>2 DEF Promise!vars, With
<1> QED
  BY <1>1, <1>2

LEMMA FailJobPromise ==
  ASSUME Inv, FailJob
  PROVE  Promise!GiveUp(work.job) /\ work.job \in Held
<1> DEFINE k == work.job
<1>1. /\ work # NoWork /\ work' = NoWork /\ UNCHANGED <<batch, silent, replying>>
      /\ jobs' = [jobs EXCEPT ![k].status = "failed"]
  BY DEF FailJob, Failed, reply
<1>2. jobs \in Seq(JobType) /\ k \in Held /\ k \notin batch
  BY <1>1, InvParts DEF Parts, Held, InHand
<1> HIDE DEF k
<1>3. k \in DOMAIN jobs /\ jobs[k].status \in {"running", "cancelled"}
  BY <1>2, SettledPromise
<1>4. /\ Len(jobs') = Len(jobs)
      /\ InStatus(jobs', "pending") = InStatus(jobs, "pending")
      /\ InStatus(jobs', "sent") = InStatus(jobs, "sent")
      /\ InStatus(jobs', "failed") = InStatus(jobs, "failed") \cup {k}
  BY <1>1, <1>2, <1>3, MarkedSets
<1> QED
  BY <1>1, <1>2, <1>4, SettledPromise DEF Promise!GiveUp, InStatus, With, k

LEMMA SendJobPromise ==
  ASSUME Inv, SendJob
  PROVE  Promise!Send(work.job) /\ work.job \in Held
<1> DEFINE k == work.job
           action == ActionOf[jobs[k].stage]
           stage == NextStage(jobs[k].stage)
           sent == [jobs EXCEPT ![k].status = "sent"]
           moved == [[sop_state EXCEPT !.next = FALSE, !.status = StatusFor(action)]
                       EXCEPT !.stage = stage]
<1>1. /\ work # NoWork /\ work' = NoWork /\ batch' = batch /\ silent' = TRUE
      /\ replying' = replying
      /\ jobs' = sent \/ jobs' = Scheduled(sent, moved, FALSE, stage).jobs
  BY DEF SendJob
<1>2. jobs \in Seq(JobType) /\ k \in Held /\ k \notin batch
  BY <1>1, InvParts DEF Parts, Held, InHand
<1>3. stage \in Stages
  BY StagesType
<1>4. moved \in SopType
  <2>1. StatusFor(action) \in SOPStatus /\ sop_state \in SopType
    BY StatusType, InvParts DEF Parts
  <2> HIDE DEF action, stage
  <2> QED
    BY <1>3, <2>1 DEF SopType
<1> HIDE DEF k, action, stage, moved
<1>5. k \in DOMAIN jobs /\ jobs[k].status \in {"running", "cancelled"}
  BY <1>2, SettledPromise
<1>6. /\ sent \in Seq(JobType) /\ Len(sent) = Len(jobs)
      /\ InStatus(sent, "pending") = InStatus(jobs, "pending")
      /\ InStatus(sent, "sent") = InStatus(jobs, "sent") \cup {k}
      /\ InStatus(sent, "failed") = InStatus(jobs, "failed")
  BY <1>2, <1>5, MarkedSets
<1> HIDE DEF sent
<1>7. /\ InStatus(jobs', "sent") = InStatus(sent, "sent")
      /\ InStatus(jobs', "failed") = InStatus(sent, "failed")
      /\ \/ /\ Len(jobs') = Len(sent)
            /\ InStatus(jobs', "pending") \in {InStatus(sent, "pending"), {}}
         \/ Len(jobs') = Len(sent) + 1 /\ InStatus(jobs', "pending") = {Len(jobs')}
  <2>1. CASE jobs' = sent
    BY <2>1
  <2>2. CASE jobs' = Scheduled(sent, moved, FALSE, stage).jobs
    BY <1>3, <1>4, <1>6, <2>2, ScheduledSets
  <2> QED
    BY <1>1, <2>1, <2>2
<1> QED
  BY <1>1, <1>2, <1>6, <1>7, SettledPromise
     DEF Promise!Send, Promise!FollowedUp, InStatus, With, k

\* Every step of jobs, conversation and scheduler is one of Outreach, or changes
\* nothing it speaks of.
LEMMA PromiseStep == Inv /\ [Next]_vars => [Promise!Next]_(Promise!vars)
<1> SUFFICES ASSUME Inv, [Next]_vars PROVE [Promise!Next]_(Promise!vars)
  OBVIOUS
<1>1. CASE Conversation
  BY <1>1, ConversationPromise
<1>2. CASE Claim
  BY <1>2, ClaimPromise DEF Promise!Next
<1>3. ASSUME NEW k \in batch, BeginJob(k) PROVE [Promise!Next]_(Promise!vars)
  BY <1>3, BeginJobPromise
<1>4. CASE FailJob
  BY <1>4, FailJobPromise DEF Promise!Next, Held
<1>5. CASE SendJob
  BY <1>5, SendJobPromise DEF Promise!Next, Held
<1>6. CASE Restart
  <2>1. Promise!Forget
    BY <1>6 DEF Restart, Promise!Forget, With
  <2> QED
    BY <2>1 DEF Promise!Next
<1>7. CASE UNCHANGED vars
  BY <1>7 DEF vars, Promise!vars, With
<1> QED
  BY <1>1, <1>2, <1>3, <1>4, <1>5, <1>6, <1>7 DEF Next, Conversation

\* FollowUp implements Outreach: whoever cancels, schedules, claims and restarts,
\* a follow-up is sent at most once and only after it was taken while it waited;
\* an answer leaves none, and only a reply still being told can make one wait then.
THEOREM PromiseIsKept == Spec => KeepsPromise
<1>1. Init => Promise!Init
  <2> SUFFICES ASSUME Init PROVE Promise!Init
    OBVIOUS
  <2>1. jobs = <<>> /\ DOMAIN jobs = {} /\ Len(jobs) = 0
    BY DEF Init
  <2> QED
    BY <2>1 DEF Init, Promise!Init, With
<1> QED
  BY <1>1, AlwaysInv, PromiseStep, PTL DEF Spec, KeepsPromise, Promise!Spec
=============================================================================
