---------------------------- MODULE MCWorkspace ----------------------------
(***************************************************************************)
(* Two coroutines of the server, which are interchangeable, and one page   *)
(* for TLC.                                                                *)
(***************************************************************************)
EXTENDS Workspace

HandlerSymmetry == Permutations(Handlers)

=============================================================================
