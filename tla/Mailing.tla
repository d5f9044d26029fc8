------------------------------- MODULE Mailing -------------------------------
(***************************************************************************)
(* What operators are promised of the messages they schedule, however      *)
(* tasks, statuses and ticks are made: an order is carried out once at     *)
(* most, by who took it while it stood, and for nobody but those it is     *)
(* meant for; it is not changed while it is carried out, nor after it was  *)
(* reported as sent; and an order that is lost on the way is never sent.   *)
(***************************************************************************)
CONSTANTS Tasks, Sessions

VARIABLES
  standing,  \* orders that may be taken
  held,      \* those taken, not yet carried out
  lost,      \* those taken that nobody will carry out
  reported,  \* those that are said to be sent
  meant,     \* the sessions an order may reach
  got        \* the orders each session has the message of

vars == <<standing, held, lost, reported, meant, got>>

Init ==
  /\ standing = {} /\ held = {} /\ lost = {} /\ reported = {}
  /\ meant \in [Tasks -> SUBSET Sessions]
  /\ got = [s \in Sessions |-> {}]

\* An operator places, changes or withdraws an order.
Change(k) ==
  /\ k \notin held \cup lost \cup reported
  /\ standing' \in {standing \cup {k}, standing \ {k}}
  /\ \E reach \in SUBSET Sessions : meant' = [meant EXCEPT ![k] = reach]
  /\ UNCHANGED <<held, lost, reported, got>>

Take ==
  /\ held = {} /\ held' \subseteq standing
  /\ standing' = standing \ held'
  /\ UNCHANGED <<lost, reported, meant, got>>

\* For all, some or none of its sessions, with or without a report.
CarryOut(k) ==
  /\ k \in held /\ held' = held \ {k}
  /\ reported' \in {reported, reported \cup {k}}
  /\ \E reached \in SUBSET meant[k] :
       got' = [s \in Sessions |-> IF s \in reached THEN got[s] \cup {k} ELSE got[s]]
  /\ UNCHANGED <<standing, lost, meant>>

\* The report is taken back: the order may be placed again.
Retract(k) ==
  /\ k \in reported /\ reported' = reported \ {k}
  /\ UNCHANGED <<standing, held, lost, meant, got>>

Lose ==
  /\ lost' = lost \cup held /\ held' = {}
  /\ UNCHANGED <<standing, reported, meant, got>>

\* The messages of a session are deleted.
Forget(s) ==
  /\ got' = [got EXCEPT ![s] = {}]
  /\ UNCHANGED <<standing, held, lost, reported, meant>>

Next ==
  \/ \E k \in Tasks : Change(k) \/ CarryOut(k) \/ Retract(k)
  \/ Take \/ Lose
  \/ \E s \in Sessions : Forget(s)

Spec == Init /\ [][Next]_vars
=============================================================================
