-------------------------- MODULE MCScheduledTask --------------------------
(* Two tasks over two sessions.  The payloads: to everybody selected, to a *)
(* selection, to a stage, and switched off.                                *)
EXTENDS ScheduledTask

CONSTANTS a, b  \* the sessions

P(on, mode, chosenOnes) ==
  [enabled |-> on, mode |-> mode, stage |-> "opening", selected |-> chosenOnes]

MCPayloads == {P(TRUE, "all", {a}), P(TRUE, "manual", {b}), P(TRUE, "stage", {}),
               P(FALSE, "manual", {b})}
=============================================================================
