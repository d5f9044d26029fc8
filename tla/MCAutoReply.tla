---------------------------- MODULE MCAutoReply ----------------------------
(* Model checking of AutoReply.  Each queued message takes at most three    *)
(* generations: two when it restarts the worker, one when a finally clause  *)
(* starts a successor for it; with 3 * |Msgs| generations the bound never   *)
(* stops anything.                                                          *)
EXTENDS AutoReply, TLC

MsgSymmetry == Permutations(Msgs)
=============================================================================
