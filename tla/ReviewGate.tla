----------------------------- MODULE ReviewGate -----------------------------
(***************************************************************************)
(* What the sales graph promises of one turn: a reply is only published    *)
(* after a draft of it went through the review, a rejected draft is        *)
(* submitted again, no more than Limit drafts are submitted, the last of   *)
(* them goes to a human whatever the review says, and a turn left to a     *)
(* human stays there.                                                      *)
(***************************************************************************)
EXTENDS Naturals

CONSTANT Limit

VARIABLES phase, submitted

vars == <<phase, submitted>>

\* A session that a human owns already is never drafted for.
Init == phase \in {"open", "human"} /\ submitted = 0

\* A first or a corrected draft goes to the review.
Submit ==
  /\ phase \in {"open", "rejected"}
  /\ submitted = 0 \/ submitted < Limit
  /\ phase' = "reviewing"
  /\ submitted' = submitted + 1

Reject ==
  /\ phase = "reviewing" /\ submitted < Limit
  /\ phase' = "rejected"
  /\ UNCHANGED submitted

Clear ==
  /\ phase = "reviewing" /\ submitted < Limit
  /\ phase' = "cleared"
  /\ UNCHANGED submitted

\* What was cleared is published, unless there is no text.
Publish ==
  /\ phase = "cleared"
  /\ phase' \in {"published", "silent"}
  /\ UNCHANGED submitted

\* A turn is left to a human, or breaks off, before anything was published.
GiveUp ==
  /\ phase \in {"open", "reviewing", "rejected", "cleared"}
  /\ phase' = "human"
  /\ UNCHANGED submitted

Next == Submit \/ Reject \/ Clear \/ Publish \/ GiveUp

Spec == Init /\ [][Next]_vars
=============================================================================
