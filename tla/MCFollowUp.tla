----------------------------- MODULE MCFollowUp -----------------------------
(* Model checking of FollowUp: one stage for each timeout action.  Three     *)
(* jobs let one be at work while another waits, was settled or cancelled.    *)
EXTENDS FollowUp

MCStageList == <<"opening", "offer", "closing">>
MCActionOf ==
  [s \in {"opening", "offer", "closing"} |->
     CASE s = "opening" -> "next" [] s = "offer" -> "pause" [] OTHER -> "stop"]
MCTimed == {"opening", "offer", "closing"}
=============================================================================
