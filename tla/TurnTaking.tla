----------------------------- MODULE TurnTaking -----------------------------
(***************************************************************************)
(* What the automatic reply promises the customers of a session, whatever  *)
(* tasks, cancellations and timeouts it is made of: messages are taken in  *)
(* the order they were queued, one batch at a time; a message is answered  *)
(* by one batch only and never while a human owns the session; a new       *)
(* message may interrupt the batch at work only before its reply began.    *)
(***************************************************************************)
EXTENDS Naturals, Sequences

CONSTANT Msgs

VARIABLES
  queue,     \* messages waiting for a reply, oldest first
  current,   \* the batch at work, <<>> when there is none
  answered,  \* messages of batches whose reply has begun
  human      \* a human owns the session

vars == <<queue, current, answered, human>>

Elements(s) == {s[i] : i \in DOMAIN s}
Begun == Elements(current) \cap answered # {}

Init == queue = <<>> /\ current = <<>> /\ answered = {} /\ human = FALSE

\* A message is queued, interrupting a batch that has not been answered yet.
Arrive(m) ==
  /\ queue' = Append(queue, m)
  /\ current' = current \/ (current' = <<>> /\ ~Begun)
  /\ UNCHANGED <<answered, human>>

\* The oldest waiting messages become the batch at work.
Take ==
  /\ current = <<>>
  /\ \E n \in 1 .. Len(queue) :
       /\ current' = SubSeq(queue, 1, n)
       /\ queue' = SubSeq(queue, n + 1, Len(queue))
  /\ UNCHANGED <<answered, human>>

Answer ==
  /\ current # <<>> /\ ~human
  /\ answered' = answered \cup Elements(current)
  /\ UNCHANGED <<queue, current, human>>

\* The batch ends, or is given up.
Drop ==
  /\ current' = <<>>
  /\ UNCHANGED <<queue, answered, human>>

\* The session changes hands: a human takes it over, which stops the batch,
\* or releases it, or the batch itself is left to a human.
ChangeHands ==
  /\ human' = ~human
  /\ current' \in {current, <<>>}
  /\ UNCHANGED <<queue, answered>>

Next == (\E m \in Msgs : Arrive(m)) \/ Take \/ Answer \/ Drop \/ ChangeHands

Spec == Init /\ [][Next]_vars
=============================================================================
