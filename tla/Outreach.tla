------------------------------ MODULE Outreach -------------------------------
(***************************************************************************)
(* What the follow-ups promise a silent customer, however jobs, statuses   *)
(* and scheduler are made: one follow-up waits at a time; an answer leaves *)
(* none, and until the sales side speaks again only a message that was     *)
(* still being told when the answer came can make one wait; only one that  *)
(* waited is taken; what was taken is sent or given up once, by whoever    *)
(* took it; what became of it stays.                                       *)
(***************************************************************************)
EXTENDS Naturals

VARIABLES
  created,  \* how many follow-ups there have been
  waiting,  \* the one that waits for its time
  held,     \* those taken, not yet sent or given up
  sent, failed,
  silent,   \* the sales side spoke last
  telling   \* a message is being told and will be followed up afterwards

vars == <<created, waiting, held, sent, failed, silent, telling>>

Init ==
  /\ created = 0 /\ silent = FALSE /\ telling = FALSE
  /\ waiting = {} /\ held = {} /\ sent = {} /\ failed = {}

\* What the sales side has said may be followed up: nothing changes, nothing is
\* to follow any more, or a new follow-up replaces the one that waits.
FollowedUp ==
  \/ waiting' \in {waiting, {}} /\ created' = created
  \/ created' = created + 1 /\ waiting' = {created'}

Speak == silent' = TRUE /\ FollowedUp /\ UNCHANGED <<held, sent, failed, telling>>

\* A message that is followed up later, once, or not at all.
Tell == silent' = TRUE /\ telling' = TRUE /\ UNCHANGED <<created, waiting, held, sent, failed>>

Told == telling /\ telling' = FALSE /\ FollowedUp /\ UNCHANGED <<held, sent, failed, silent>>

Answer == silent' = FALSE /\ waiting' = {} /\ UNCHANGED <<created, held, sent, failed, telling>>

\* A human takes over.
Stop ==
  /\ waiting' = {} /\ telling' = FALSE
  /\ UNCHANGED <<created, held, sent, failed, silent>>

Take ==
  /\ held = {} /\ held' = waiting
  /\ waiting' = {}
  /\ UNCHANGED <<created, sent, failed, silent, telling>>

Send(f) ==
  /\ f \in held /\ f \notin sent \cup failed
  /\ held' = held \ {f} /\ sent' = sent \cup {f}
  /\ silent' = TRUE /\ FollowedUp
  /\ UNCHANGED <<failed, telling>>

GiveUp(f) ==
  /\ f \in held /\ f \notin sent \cup failed
  /\ held' = held \ {f}
  /\ failed' \in {failed, failed \cup {f}}
  /\ UNCHANGED <<created, waiting, sent, silent, telling>>

\* What was taken is forgotten.
Forget ==
  /\ held' = {} /\ telling' \in {telling, FALSE}
  /\ UNCHANGED <<created, waiting, sent, failed, silent>>

Next ==
  \/ Speak \/ Tell \/ Told \/ Answer \/ Stop
  \/ Take \/ (\E f \in held : Send(f) \/ GiveUp(f)) \/ Forget

Spec == Init /\ [][Next]_vars
=============================================================================
