# A TLA+ model of SalesAgentTeams

SalesAgentTeams is a FastAPI service for sales conversations: customers and a
sales person talk over web sockets, a LangGraph workflow of LLM agents drafts
and reviews the automatic replies, a human may take a session over, and
background jobs send follow-ups and scheduled messages. This directory holds
TLA+ modules of the parts whose correctness is a matter of ordering, failure or
case distinction, the TLC configurations that check them and the proofs of what
holds for every value of the constants.

Everything runs in one process on one asyncio event loop. Code between two
`await`s is atomic, and every `await` is a place where any other handler, worker
or job may run; that is the granularity of the actions in all modules. Each web
socket request, worker and job opens its own database session, reads a
`ConversationState` snapshot and writes columns of it back later, which is where
most of the hard behaviour comes from.

## Inventory

| Component | Source | State it keeps | Operations |
|---|---|---|---|
| Automatic reply over the web socket | `app/api/ws.py`, `app/graph/service.py` (`stream_message`, `set_handover`) | tracker per session (`pending`, `task`, `first_reply_sent`, `generation`), `_ACTIVE_STREAM_TASKS`, turns, messages | customer message, worker loop, chunk delivery, restart, take-over, release, timeout |
| Turn and session service | `app/graph/service.py` | `ConversationState` copies, messages, turns, profile, memory, read cursors | `process_message`, `reset_session`, `update_memory_for_exchange`, `mark_session_read`, snapshots |
| Sales graph | `app/graph/{sales_graph,nodes,routing_rules,supervisor_router}.py` | `SalesGraphState` of one run (verdict, retry count, reply) | thirteen nodes and four routers |
| Follow-ups | `app/services/sop_followup_scheduler.py`, `app/repositories/chat_repository.py` | `conversation_sop_states`, `conversation_followup_jobs` | schedule, claim, process, cancel, mark sent or failed |
| Scheduled messages | same files | `scheduled_message_tasks` | create, update, cancel, claim, send to each target |
| LLM fallback client | `app/llm/{fallback_client,http_client,llm_client}.py` | attempts of one request | try the configurations in order, retry per configuration |
| Realtime manager | `app/realtime.py` | open sockets per viewer | connect, disconnect, broadcast |
| Repository | `app/repositories/chat_repository.py` | all tables | load and store a state, turns, messages, cursors |
| Knowledge, safety rules and sales cases | `app/knowledge/*.py`, `app/sales_rag/*.py`, `app/demo_data.py`, `app/main.py`, `app/llm/embedding.py` | the knowledge tables, rules and cases with a vector per provider | import of the files, indexing, start of the server, seed, stages, review, look-up |
| Web client | `web/customer.js`, `web/app.js`, `web/admin.js` | one socket and its timer, the sessions shown, marks under way | connect, show snapshots, load, select, mark as read |
| Admin, auth and configuration | `app/services/admin_*.py`, `app/core/*.py`, `app/api/chat.py` | - | REST endpoints over the repository |
| Agents | `app/agents/*.py` | - | one prompt and one LLM call each |
| AgentTeams bridge, scripts, evaluation | `sales_agent_teams`, `agentteams`, `scripts`, `evaluation` | files | deployment, offline evaluation |

### How the parts interact

A customer message is stored by the socket handler and queued in the session's
tracker. A worker task takes a batch of queued messages, opens a turn and pulls
the events of `stream_message`, which runs the sales graph, stores every node's
result and yields an event that the worker broadcasts. At the `send` node the
worker splits the reply into chunks, stores and broadcasts them one by one,
schedules a follow-up job, and after the turn a memory update. A human who takes
the session over sets `transfer_flag`, cancels pending follow-ups and cancels the
task registered as the session's active stream. The follow-up scheduler polls
its tables, lets an agent review the message and sends it; then it sends the
scheduled messages that are due, without an agent.

`POST /chat` runs the same graph in one request, on its own copy of the session.
The handlers of the web sockets, the worker and the scheduler broadcast a snapshot
of a session they have changed to all open pages; the REST endpoints under
`/chat` store messages and marks and tell no page. A page shows the last snapshot
it was sent, loads one itself when it starts, and asks the server to move the
read cursor when the customer looks at the session. The
knowledge tables are written by imports, at the start of the server and by the
seed script, and read by agents of every turn.

### What is hard

- *Task replacement.* A cancelled asyncio task runs on until the cancellation is
  delivered, may swallow it, and shares the tracker with its successor.
- *Stale snapshots.* State read before an `await` (LLM call, broadcast, memory
  catch-up) is written back after it.
- *Take-over races.* Replies, follow-ups and scheduled messages against a human
  who has just taken the session.
- *Partial failure.* A turn consists of several commits; a broadcast, a timeout
  or a provider error may end it between any two.
- *Two writers of everything.* Each service call stores all columns of its copy,
  so turns, memory updates, operators and resets overwrite each other's.
- *Two processes.* The seed script imports while the server serves or indexes;
  embeddings are awaited between two transactions, and a statement of one process
  may run between two statements of the other's.
- *Store, tell, schedule.* An automatic reply is stored, then broadcast, then followed
  up: a customer's message, a cancellation or a dead socket comes in between.
- *The network between server and page.* Snapshots overtake each other, are
  missed while a page is not connected, and requests are lost.
- *Case distinctions.* Which path through the graph may end in a sent reply, how
  often a rejected draft is rewritten, how many provider calls a request costs.

### What makes each component correct

- **Automatic reply.** Of all overlapping worker tasks one may reply; a queued
  message always has a task that will take it; no reply chunk is stored while a
  human owns the session; a message never interrupts a reply that has begun;
  batches are taken in order, one at a time, and answered once; every queued
  message is eventually taken.
- **Sales graph.** Nothing is sent that its last review did not let through;
  rewriting is bounded; forbidden messages and human sessions cost no agent call;
  a run ends, and never without an answer, a handover or an empty text; a reply
  rests on all the facts it asked for; the stage stays one of the known ones.
- **Follow-ups.** One follow-up waits per session, and only for a customer who is
  silent or whose answer crossed the reply under way; what the operator is shown exists; what was sent stays on record; a
  claimed job is settled.
- **LLM fallback.** A request's cost is bounded whatever the providers answer; no
  model is called a third time; failure is only reported when nobody is left; a
  second call asks for more.
- **Session service.** A message is stored once however often it is sent; a human
  who has the session keeps it, whatever stale copies are stored; REST stores no
  reply in a human's session; nothing of the old conversation survives the reset
  of a quiet session; what was learnt stays (it does not, see below).
- **Scheduled messages.** Nobody but the chosen sessions gets a manual task; what a
  task reports was sent; a sent task is not sent again; one that is off sends
  nothing; each session is left whole, up to what a refresh discards and a turn
  under way stores over it; each claimed task settles.
- **Knowledge.** The vector of a case is that of its text, is kept while the text
  stays, and a serving server has all of them (each with exceptions, see below); a
  draft similar to a rule is never passed; the stages and their order are the same
  with and without the database, for files numbered unambiguously;
  every start ends. An import that fails leaves the tables, being one transaction.
- **Page.** When all has arrived a page shows what was announced, never hides an unread
  message, and a lost connection is tried again.

## Modules

| Module | Models | Runs |
|---|---|---|
| `TurnTaking` | abstract: what customers are promised about batches, order and humans | refined by `AutoReply` |
| `AutoReply` | `ws.py` tracker and worker, `stream_message`, `set_handover` | `auto_reply`, `auto_reply_live` |
| `AutoReplyProofs` | theorems about `AutoReply`: its worker tasks, its messages, and the refinement of `TurnTaking` | |
| `ReviewGate` | abstract: nothing is published around the review | refined by `SalesGraph` |
| `SalesGraph` | graph, nodes, routers and rules of one turn | `sales_graph` |
| `SalesGraphProofs` | theorems about `SalesGraph` | |
| `Outreach` | abstract: what a silent customer is promised about follow-ups | refined by `FollowUp` |
| `FollowUp` | follow-up jobs and SOP state of a session | `follow_up`, `follow_up_answered` |
| `FollowUpProofs` | theorems about `FollowUp` | |
| `Orders` | a finite set listed in an order, for lists that are sorted or rid of repetitions | with `LLMProviders`, `Knowledge` |
| `LLMProviders` | the list of configurations settings produce | with `LLMFallback` |
| `LLMFallback` | the attempts of one request | `llm_fallback` |
| `LLMFallbackProofs` | theorems about `LLMFallback` | |
| `ChatSession` | the rows of a session and everybody who writes them | `chat_session`, `chat_session_memory` |
| `ChatSessionProofs` | theorems about `ChatSession` | |
| `Mailing` | abstract: what operators are promised of the messages they schedule | refined by `ScheduledTask` |
| `ScheduledTask` | scheduled messages from form to session | `scheduled_task` |
| `ScheduledTaskProofs` | theorems about `ScheduledTask` | |
| `Knowledge` | imports, vectors, stages, the two searches by vector | `knowledge`, `knowledge_reindex` |
| `KnowledgeProofs` | theorems about `Knowledge` | |
| `Workspace` | snapshots, broadcasts, read cursor and a customer's page | `workspace` |
| `WorkspaceProofs` | theorems about `Workspace` | |
| `MC*` | constants and symmetry for TLC | |

### AutoReply

State: the rows (`transfer_flag`, `turn`, `saved`), the tracker (`pending`,
`task`, `first_reply_sent`, `generation`, as in `SessionAutoReplyState`), the
event loop (`active` for `_ACTIVE_STREAM_TASKS`, one `worker` record per
generation with the place it waits at, and a pending cancellation), and the web
socket handler of each message, which reads the flag before a broadcast and
queues the message after it.

A worker's step is the code from one `await` to the next: `LoopTop` (the
generation check), `TakeBatch`, `GraphEvent` and `NodeUpdate` inside the
generator, `SendReply`/`SaveChunk` in the body, `Outcome`, `Finish`,
`CloseStream`, `EndTurn`, and `Exit` for the `finally` clause that starts a
successor. `Cancel` only marks a task; the next step delivers the error, to the
generator (`GraphCancelled`, which swallows it if a human has just taken over),
to the debounce (`DebounceCancelled`) or to the body (`AbortTurn`, `CloseWorker`).
Faults are `RequestTimeout`, `GraphError`, `GraphTimeout` and `BroadcastFails`.

Simplifications: an asynchronous generator that is abandoned is closed one loop
iteration later than in the model, which matters to nobody else; the REST stream,
which would register as active stream too, is left out.

### SalesGraph

State: the channels the routers read (`transfer_flag`, `stage`, `sop`, `draft`,
`verdict`, `safety_retry_count`, `reply`, `sent_reply`), `at` for the nodes of the
current superstep that are not done, and the histories `reviewed`, `called` and
`plan`. An action is a node that completes; its agent's answer is any of the
cases the code tells apart. `sop` holds the requested stage before its
normalisation, since `nodes.py:330` reads it that way. `ProviderError` ends the
run at any node that asks an agent. The SOP node's updates are visible
at the fan-in, where the graph applies them.

### FollowUp

State: `jobs` and `sop_state` (the rows), `transfer_flag`, `current_stage`, the
scheduler's `batch` of claimed jobs and the job it has given to the safety agent
(`work`, with the stage it read before), whether an automatic reply is `replying`,
and the histories `silent` and `crossed`. A message of a sales person or over REST
is stored and followed up at once (`SalesMessage`); a reply of the worker is stored
with its last chunk (`ReplyChunk`), and followed up after the pages were told
(`ScheduleReply`), unless it breaks off there (`ReplyBreaks`). The operators
`Ensured`, `Cancelled`, `Scheduled` and `NextStage` are the repository's functions
of those names; `BeginJob`, `FailJob` and `SendJob` are `_process_job` before and
after its only `await`. A row column that a transaction did not change is not
written, so `SendJob` leaves alone what others wrote meanwhile, unless it changes
it. `Promise` maps jobs and scheduler to `Outreach`: the follow-ups that wait, were
sent or have failed are the jobs of that status, those in hand are the batch and
the job at the safety agent, and a cancelled job is none of them. `Outreach` says
of the await between the two, too, what a customer may rely on: an answer leaves no
follow-up, and until the sales side speaks again only a reply that was being told
when the answer came can make one wait, once.

### LLMFallback

State: the request (its configurations, limit, response format and token limit,
chosen initially), `index`, `retried`, the recorded `calls` and the `outcome`. One
action is a call with any of four results: only reasoning, an error, text that is
no JSON, a clean answer. `LLMProviders` computes the configurations from the
settings, as the set of providers and models listed in the order they are tried;
`LLMFallback` assumes of them only that no provider and model occurs twice, which
TLC evaluates on the lists of its instance and `ConfigurationsListed` proves for
every settings.

### ChatSession

State: the rows of one session (`session`, `profile` by customer, `memory`,
`messages`, `turn`), and for every service call under way where it waits and the
copy it loaded (`request` and `view`, `update` and `updateView`, `release`). What
a profile or a summary says is the set of utterances it tells of. A request of
`POST /chat` is `BeginRest`, the graph, and its end, with the flag read anew; a
turn of the web socket stores its copy with each node (`persist_progress`) and at
its end; the memory update loads its copy when it starts and stores profile and
summary after the agent's answer. `save_message` skips a `client_message_id` the
session has. How the socket queues and cancels is in `AutoReply`; here a stream
may be cancelled at any await.

### ScheduledTask

State: the rows of the tasks (`status`, `payload`, `sent`), what is due, the tick
(`todo`, `telling`, `handling`), and of every session what a scheduled message
touches. `SendTask` is the loop over the targets, which awaits nothing:
`get_state(refresh=True)` expires the database session before each target, and
what the target before changed without a flush is gone (`overrun`), except for
rows that were added. A turn, a memory update or a release (`TurnBegins`) loads a
session's memory, awaits agents, and stores it with its stage and flag, as progress
or for good (`TurnStores`): a scheduled message that came meanwhile is no longer in
the memory and the message count (`outdated`). Only a turn interrupted by a human
loads the session anew (`TurnDropped`). `TellTask` is the broadcast, and `TellBreaks` its exception,
which marks a sent task as failed; `TickEnds` is what a second exception or a
restart leaves: claimed tasks that nobody settles (`orphans`). `Promise` maps the
rows to `Mailing`: an order stands while its task is pending and enabled, is held
while it is in the tick, is lost when it is running and in no tick, and is meant
for the chosen sessions, or for all if the task is not manual. A form that is
edited changes an order, a broadcast that raises takes its report back, and what a
task's sending reached is part of one `CarryOut`.

### Knowledge

State: the `files` an operator edits, the tables (`sop`, `rules`, and `cases` with
one vector per provider), and of each process where it is (`phase`) and what it
holds: the files and cases its import has read, the cases it has yet to ask a vector
for, the vector it is about to write. The database shows each statement what is
committed by then, so an import is two steps of one transaction, `Read` and `Commit`
(or `CommitFails`), with whatever others commit in between; two imports at once wait
for each other's rows, and while there are none the keys refuse the later one. A
vector is asked for and checked (`Check`), and then written (`Write`), to the row of
that id whatever it holds by now. `GoesOn` and `Failed` are `app.main`: the automatic
import, whose exceptions are swallowed, then the seed, if `DEMO_SEED_DATA` is on, whose
exceptions end the process, then serving; the script only seeds. A text
is a model value and its vector is the text, so that "the vector of another text"
can be said; similar means equal. The rows of products and FAQ are left out but for
their power to make an import fail. `SALES_RAG_ENABLED` is on. `Reviewed` and
`Retrieved` are the two searches, which await the provider and then read the table.

A row of the SOP file has a number or none in each of the six columns the code reads
numbers from (`xuhao` and `bianhao` stand for 序号 and 编号); `SopRows` is the
import, which makes a `sop_id` of four of them or of the position, `RowOrder` and
`MappingOrder` are what the table's and the file's rows are sorted by, and the
table returns its rows in any order.

### Workspace

State: the stored `messages` and `cursor`, the `conn`ections of the manager, the
coroutines of the server (`handler`), among them the endpoint of each socket,
which handles its requests in order, and the variables of the page in
`customer.js`. `Build` makes the snapshot after the sales pages were told,
`SendTo` sends it to one socket, `SendDone` drops the sockets that raised.
`StoreByRest` is a message stored by an endpoint under `/chat`, which tells nobody.
`Abandon` is a broadcast that does not come to its end: a worker cancelled between
the commit and the last socket, or a send that raises what `realtime.py` does not
catch. `announced` is what the newest broadcast had to tell.
`Becomes`, `Rendered` and `MarkSeen` are what every event of the page does at its
end. A socket is accepted, registered and opened in three steps in any order;
when it closes, what was on its way is lost, and requests perhaps.
A send to a lost socket does nothing, raises a `RuntimeError`, which drops the socket,
or anything else, which ends the broadcast.

## Runs

| Run | Instance | Shows |
|---|---|---|
| `auto_reply` | 3 messages, batches of 2, 2 chunks, 1 take-over, 1 failing broadcast | `OneReplier`, `QueueServed`, `NoReplyUnderHuman`, `RestartSparesReply`, refinement of `TurnTaking` |
| `auto_reply_live` | 2 messages, 1 node update, same faults | `MessageTaken` |
| `sales_graph` | all message classes, 3 reviews | the graph's invariants, refinement of `ReviewGate`, `RunEnds` |
| `follow_up` | 3 stages (one per timeout action), 3 jobs, 1 restart | `OneWaiting`, `OnlySilentCustomers`, `ShownFollowUpExists`, `HistoryStays`, refinement of `Outreach`, `JobsSettle` |
| `follow_up_answered` | 2 jobs | violated: a follow-up is sent although the customer answered |
| `llm_fallback` | 2 known providers and an unknown one, up to 4 configurations, limits 0 to 3 | cost, order and tokens of a request |
| `chat_session` | a REST request and a stream with the same message, a human's message, a scheduled message, 1 take-over, 1 reset | `OneCopy`, `ResetHolds`, `HumanKeepsSession` |
| `chat_session_memory` | 2 streams with different messages | `LearntStays` violated: the second turn stores the summary it loaded before the first's update |
| `scheduled_task` | 2 tasks, 2 sessions, 4 payloads, 2 edits, 2 events in the sessions, 1 restart, one task per tick | `ManualReachesChosen`, `SentAsReported`, `WholeUnlessOverrun`, refinement of `Mailing`, `TasksSettle` |
| `knowledge` | server (automatic import, with and without the seed) and seed script, 2 providers, 2 texts, 11 edits of which one happens, 2 starts, 1 search | `VectorsFresh`, `KeptVectors`, `ServesIndexed`, `StagesAgree`, `RiskIsRevised`, `StartsEnd` |
| `knowledge_reindex` | same with 3 starts | `TextIsReindexed` violated: a changed text gets the vector that was awaited for the old one |
| `workspace` | 1 page, 2 coroutines and the sockets' endpoints, 2 messages (one may be there at first), 1 lost connection, 1 switch of session | `PagesCatchUp`, `BadgeAgrees`, `ClosedRetries` |

Properties that are proved for every instance are not all run as well. The type
invariants of the modules with a proof module, `RestRespectsHuman`, `SwitchedOffStays`,
`SentIsFinal` (which the refinement of `Mailing` contains) and `NoThirdCall` are in no configuration: they are stated in the modules, and a
configuration may name them to look at a changed model before its proofs are mended.

**Bounds.** Three messages are the least with which one worker is superseded, its
successor works, and a third message waits or restarts it again; a message takes
at most three generations, so `Generations` never stops anything. Batches of two
make both a full and a partial batch. Two chunks put awaits before, between and
after them. `MaxUpdates` node updates let a worker store its flag between other
actions. Three jobs let one be claimed while another is pending, and one be settled
or cancelled (300 000 states).
Three reviews are the program's default. Messages are interchangeable, so the
`auto_reply` run uses them as a symmetry set (it checks no liveness); only its
`KeepsTurns` compares sequences of them, without naming any. In
`chat_session` one request of each kind overlaps with everybody else once, which is
every pair of writers and most triples; a second stream only matters to
`LearntStays`, which has a run of its own. Two tasks and two sessions are the least
with which one task is sent while another is claimed, and one target's refresh
discards another's changes; two events let a turn begin before a task is sent, store
its memory as progress and end after it (1.2 million states). In `knowledge` two texts and one edit make every case
of a text that changes, stays, or moves to another file, and stage files without
numbers, or numbered in columns the two lists read differently; two starts, of up to two imports each, let the server meet
the script at any step, or fail and start again on what it left (370 000 states);
the safety properties are proved for any number of starts. In
`workspace` two coroutines let snapshots overtake each other, one lost connection leaves a dead and a living
socket of the page, and one switch lets it come to or leave the session. The
coroutines are interchangeable and the run checks no liveness, so they are a
symmetry set (6.3 million states). Deadlock is not
checked where the system may come to rest: all messages answered, the run over,
the request done.

**Fairness.** `AutoReply` assumes weak fairness of each handler and of each
worker's steps: the event loop runs a task whose await has completed, and every
await in a worker is bounded by a request timeout. Nothing is assumed of faults,
take-overs and customers. `SalesGraph` assumes that a node completes, which the
request timeout of each model call ensures. `FollowUp` assumes that the polling
worker claims, works off its batch, and that the safety agent answers or raises.
`ScheduledTask` assumes the same of the worker. `Knowledge` assumes that a process
that is importing or indexing goes on or is stopped: the calls of the embedding
client are bounded by its timeout. `ChatSession` and `Workspace` state no fairness and
have no liveness properties: nothing in the code makes a connection open.

## Proofs

TLAPS proves for every value of the constants:

- `AutoReplyProofs`: `TypeCorrect`, `OnlyOneReplier`, `HumanSilencesReplies`.
  `OneReplier` is not inductive: that the replier is the tracker's task follows
  only with *the tracker's task is the newest generation* (`TaskIsNewest`,
  `NoneNewer`) and *the newest task stays the tracker's until it is done*
  (`NewestIsTask`), and with the stages a waiting task can be in (`StageOfWait`).
  For the human, every task that may reply and has a batch is the registered
  stream (`StreamRegistered`), so the take-over's cancellation reaches it, and a
  task about to store a chunk serves a session without a human
  (`ReplyIsAutomatic`). The assumptions are that batch size and chunks are
  positive and generations are positive numbers.
  The same module proves `QueueIsServed`, `RestartsSpareReplies` and `TurnsAreKept`, that
  `AutoReply` implements `TurnTaking`, with two more invariants. `Waiting` says why a queued message is served: the tracker's task
  has not ended, since only a registered stream is cancelled from outside, a stream is
  past its first step, and whoever ends otherwise looks at the queue first. `Placed`
  says where a message is: it is queued once, a batch that was taken no longer waits,
  and what is answered was taken. The refinement is one case per action: a batch is
  taken, an answer begins or ends, or nothing of it changes (`Within`).
- `SalesGraphProofs`: `TypeCorrect`, `SentReplyWasReviewed`, `ReviewsAreBounded`,
  `HumansCostNothing`, `RunsAnswer`, `RepliesRestOnFacts`, `StagesStayKnown` and
  `GateIsKept`, which are all safety properties of the module. The inductive invariant divides a run into six phases
  (drafting, reviewing, rejected, cleared, leaving, closing) and states for each
  how many drafts were submitted, what the last review said and who owns the
  session; each node leads from phases to phases, and `PhaseTable` maps them to
  the phases of `ReviewGate`, which turns the same case distinction into the
  refinement. Four smaller invariants carry the rest: who owns the session decides
  which nodes are asked (`Attended`), which way a run may end (`Answering`), which
  facts are still to come (`Facts`), and which stage a decision may name
  (`DecidedStageIsKnown`). The assumptions are a natural review limit and stages
  that contain the options.
- `FollowUpProofs`: `TypeCorrect`, `OneIsWaiting`, `OnlySilentAreFollowedUp`,
  `ShownExists`, `HistoryIsKept` and `PromiseIsKept`. That a customer who has spoken
  is followed up only if the answer crossed a reply is inductive with the types:
  `crossed` is set only by a reply that schedules when the customer has spoken last. Each invariant about jobs says what any one
  scheduling or cancelling does to the list, which `ScheduledJobs`, `CancelledJobs`
  and `MarkedJobs` state once for every list. History needs more: a job the
  scheduler has in hand was running when it was claimed and only a cancellation
  can have touched it since (`InHand`), so what the scheduler settles, without
  looking, was never sent or failed before. `PromiseIsKept`, that `FollowUp` implements
  `Outreach`, needs the same: a follow-up is sent at most once because a job in
  hand was not sent, and one waits at a time because scheduling, whatever it finds,
  keeps, cancels or replaces the one that waits (`ScheduledSets`). The assumptions are that the stages
  are the rows of the list and that the timed ones are among them.
- `LLMFallbackProofs`: `TypeCorrect`, `CostIsBounded`, `NobodyIsAskedThrice`,
  `AllAreAsked`, `RetriesAskMore` and `ConfigurationsListed`. The invariant `Trail` orders the recorded calls
  (positions never fall, no position three times, a repeated one has more
  tokens), `Progress` ties them to `index` and `retried`. The assumptions are that
  no provider and model occurs twice in a list and that token limits are below
  the cap, which they are in the code (at most 1200 against 32768).
  `ConfigurationsListed` discharges the first from `LLMProviders`: for every
  settings, with whatever repetitions, the list holds each model of each provider
  with a key once, in the order they are to be tried. It rests on `RankedLists`,
  that counting predecessors lists a finite set in its order.
- `ChatSessionProofs`: `TypeCorrect`, `OnlyReleasesTakeBack`, `RepliesLeaveHumansAlone`,
  `MessagesAreStoredOnce` and `ResetsHold`. The types hold only with `Heard`: what a
  row or a copy tells of was said to the service. `OwnSession` is the invariant behind
  the reset: once a quiet session was reset, every row and every copy under way
  belongs to the new customer and tells only of messages that are stored. That a
  human keeps the session and that REST stores nothing in it need the types alone,
  one case per writer. The assumptions are that the ids of requests and of other
  messages differ, that no request is made both ways, that the first stage is one
  of the stages, and natural limits.
- `ScheduledTaskProofs`: `TypeCorrect`, `ManualTasksReachChosen`, `SwitchedOffSendsNothing`,
  `SentTasksAreFinal`, `ReportsAreTrue`, `SessionsAreWhole` and `OrdersAreKept`. As with follow-ups, a
  claimed task is as the claim left it until it is sent (`InHand`), the one whose
  sending is being told to the operators is no longer waiting (`ToldApart`), and the
  sessions a task selects were chosen by the operator (`SelectedWasChosen`); together
  they are `Claimed`. What a task reports and
  whether a session is whole are inductive with the types; `SessionSteps` names the
  only steps that touch a session. Whole means one waiting follow-up and closed turns
  unless a refresh discarded changes (`overrun`), and a complete memory unless
  somebody stored an older one that was loaded before (`outdated`). `OrdersAreKept`, that `ScheduledTask` implements
  `Mailing`, is one case per kind of step (`EditsChange`, `ClaimTakes`,
  `SendsCarryOut`, `BreakRetracts`, `EndsLose`, `ResetForgets`, `StillOrders`) and
  needs `Claimed`, and that a task is reported as sent as long as its sending is told
  and no exception is handled (`ToldWasSent`): so a failing broadcast only takes a
  report back, and an operator must place the order anew to have it taken again.
- `KnowledgeProofs`: `TypeCorrect`, `VectorsAreFresh`, `ServingIsIndexed`, `VectorsAreKept`,
  `RisksAreRevised`, `StagesAlwaysAgree` and `StagesListedOnce`. The first two safety properties meet in `Listed`: as long as no
  other process has imported, the list of an index run, and the vector it is about
  to write, hold every case without a vector, with the text the case still has. So
  what it writes is the vector of the text, and when nothing is left all cases have
  theirs. What an import has read has no vector of another text either (`ReadFresh`),
  so nothing but a disturbed process brings one in. That a vector is lost only with
  an import that read the row before it was there is one case per statement. That
  `TopK` hides no risk is the order of the matches: nothing ranks before the first
  similar rule (`Least`).
  For the stages, `StagesListedOnce` says what the two sort orders and
  `_dedupe_sop_stages` make of any rows, and `SameOrderSameStages` that lists are
  equal when they sort the same stages alike. `KeysAgree` and `UnnumberedKeys` are
  the two kinds of files for which the keys of the table's rows sort as the file's:
  each row has a number of its own that both lists read, or no row has one and the
  position became the `sop_id`. The
  assumptions are that the files are readable (a line of sales cases has an id and a
  text or none), that edits leave them so, and that at least one match is looked at.
- `WorkspaceProofs`: `TypeCorrect`, `PagesDoCatchUp`, `BadgesAgree`, `ClosedPagesRetry`,
  `SnapshotsAreHonest` and `MarksInOrder`. What a page shows at rest follows from what is
  on its way before. `Coming` says where the newest announced snapshot is for a page that is
  behind what was announced: with a coroutine that has the page's socket still to do,
  or on the wire; so a broadcast that drops a dead socket, or one that overtakes
  another, leaves a page behind only if it is marked as stale, and a broadcast that
  breaks off marks the pages it had not come to (`AbandonCatchUp`). A page that hides an
  unread message has a mark_read under way that was not answered (`Marking`). That
  holds only with two more invariants: no snapshot conceals what is unread now
  (`Snapshots`: all messages shown and none unread was true when the snapshot was made,
  and the cursor never falls), and the operations of a page are asked and answered
  in their order over all sockets it ever opened (`Ordered`), since
  else the answer to an older mark_read could end a newer one. Of `Ordered`, that no
  operation is known to the server before the page has begun it (`Begun`) keeps a
  page that waits for its socket from being answered; `Increasing` orders the requests
  of dead and living sockets; with both holds that an endpoint which has answered the
  last operation has no request left (`AnsweredLast`). The assumption is that the
  bounds are natural numbers.

Only model-checked: all liveness (`MessageTaken`, `RunEnds`, `JobsSettle`, `TasksSettle`,
`StartsEnd`), which the prover does not reach. Every safety property and every
refinement that a passing run checks is proved as well.

## Disagreements between code and documents

Three violation runs are explained under "findings" in `PROJECT.json`:
`follow_up_answered`, `chat_session_memory` and `knowledge_reindex`. Six more
statements of the documents are defined in the modules as properties, and TLC
finds a counterexample when one of them replaces the properties of the module's
configuration:

- `AutoReply!CancelledIsRerun`: a cancelled turn is recorded as merged into a re-run
  (`ws.py:289`), but its messages were deleted from the queue (`ws.py:217`) and are
  given to no later turn.
- `AutoReply!MemoryFollowsReply`: a superseded worker reads the `first_reply_sent` of
  its successor (`ws.py:323`) and schedules memory for a draft nobody was sent
  (`方案说明.md:23` says that memory follows the visible reply).
- `SalesGraph!SentWasPassed`: a review without a known action counts as a pass
  (`nodes.py:659`), `ARCHITECTURE.md:9` has it sent after the review passed it.
- `SalesGraph!RevisedIsReviewedAgain`: the final reply prefers the review's own text
  (`nodes.py:505`), which `state.py:142` says is always reviewed again.
- `FollowUp!PausedUnderHuman`: a take-over while the safety agent is asked does not
  stop the follow-up (`ARCHITECTURE.md:9`: outreach pauses).
- `FollowUp!RestartKeepsJobs`: a running job is never claimed again after a restart
  (`方案说明.md:23`: persisted follow-ups go on).

Observations without a property of their own:

- A session in a stage that was removed from the knowledge base takes whatever
  stage an agent asks for (`nodes.py:332`); the routers after intent and send do not
  read `run_agents` (`nodes.py:593`).
- The interrupted turn of a web socket keeps the status `running`; a release stores
  a copy that is as old as the memory agent's answer took; messages a customer
  sends meanwhile get neither a reply nor a place in the catch-up
  (`service.py:382`, `service.py:968`).
- `.env.example:53-54` says each model configuration is called at most once; lines
  58-62 of the same file document the second call after a reasoning-only answer,
  which `fallback_client.py:84` makes and `LLMFallback` models.
- A customer's message that arrives while the pages are told of the last chunk of an
  automatic reply (`ws.py:377`) cancels the jobs and, since `first_reply_sent` is set,
  not the worker, which then schedules a follow-up for a customer who has answered
  (`FollowUp!OnlySilentCustomers` states it as its exception).
- A scheduled message is sent without a look at the transfer flag, also to a session
  a human has taken over (`sop_followup_scheduler.py:239`). A turn, memory update or
  release that had loaded the session before stores its older memory and message
  count over it, so the scheduled line is in the messages and not in the memory
  (`service.py:783-808`; the exception of `ScheduledTask!WholeUnlessOverrun`). Editing a failed task that had
  reached some of its targets sends it to them again (`chat_repository.py:669`).
  Resetting the last selected session of a task for everybody selected leaves a
  task for everybody (`chat_repository.py:975`).
- With both `KNOWLEDGE_AUTO_IMPORT` and `DEMO_SEED_DATA` every start replaces the
  team's own knowledge by the examples and embeds the cases of both anew, since
  their chunk_ids contain the file; the seed's exceptions are not caught
  (`main.py:55`), so that an embedding outage keeps the server from starting after
  the tables were committed.
- With `DEMO_SEED_DATA` off, an automatic import that fails is swallowed, also when
  its tables are committed and only the vectors are missing: the server serves cases
  that no search finds, until the next start (`main.py:53-55`; the exception of
  `Knowledge!ServesIndexed`).
- An import reads the vectors and deletes the rows in two statements: a vector that
  the other process commits in between is lost, though the text stays
  (`sales_rag/importer.py:106-114`). Index runs check and write in two statements,
  too, so two of them may both write a case, in the columns of different providers
  (lines 189-193).
- The table and the file order the stages differently when rows are numbered by 编号
  (the import makes it the `sop_id`, `importer.py:224`, `_sop_mapping_order` does not
  read it, `loader.py:498-506`), when a `sort_order` is 0 (a string in the table, a
  missing value in the file) or when numbers repeat, as the table is read without
  ORDER BY (`loader.py:110`).
- A header-only SOP file empties the stages of the table, whose readers then
  disagree: `list_sop_stages` falls back on the files, a query answers nothing.
- When the embedding provider changes, the review passes drafts and the look-up
  finds nothing, since the column of the new provider is empty
  (`safety_vector.py:131`).
- `POST /chat`, `/chat/sales/messages`, `/chat/messages` and the REST streams store
  messages the customer sees and broadcast nothing (`chat.py:380-463`, `502-512`); a
  worker cancelled after it stored a chunk sends no snapshot of it (`ws.py:293`); an
  exception other than `RuntimeError` ends a broadcast at the socket that raised it
  (`realtime.py:45`). An open page then stays behind until the next broadcast.
- `customer.js` retries a failed `mark_read` neither when the session is selected nor
  with the next snapshot (its comment at line 344 says both), unless new messages
  are unread; it does not load anew after a reconnect, keeps a snapshot older than
  the one it shows, and a page that was hidden when its connection closed stays
  disconnected until it sends something.

## Not modelled, and why

- Admin pages, authentication, configuration, dashboards: reads and single-row
  writes without a protocol.
- Evaluation, bridges to agent teams, MCP servers, deployment scripts: tools outside
  the running server, which call one agent or one service operation at a time.
- What knowledge queries return (products, FAQ, catalogue) and how rows of files
  are parsed: data the agents read as text.
- The pages of operators (`app.js`, `admin.js`), and on the customer's page the
  sending of messages and the typing indicator.
- Logs of node and model calls: written next to the state, read by nobody but
  operators' pages.
- Texts: prompts, drafts and messages appear by origin and class only.

## Plan

1. Composition: `ScheduledTask`'s sending with `FollowUp`'s jobs in one module, and
   `ChatSession`'s releases with `AutoReply`'s queue.
2. `AutoReply`: the REST stream as a second kind of active stream.
3. Proofs: the theorems of the parts carried over to those compositions.
