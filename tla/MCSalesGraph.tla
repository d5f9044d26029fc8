---------------------------- MODULE MCSalesGraph ----------------------------
(* Model checking of SalesGraph: two stages of the knowledge base, one that *)
(* was removed from it, and one word for a finished session.  Every message *)
(* class, profile and answer of an agent occurs, so the only bound that     *)
(* matters is MaxReviews, which is the program's own default.               *)
EXTENDS SalesGraph
=============================================================================
