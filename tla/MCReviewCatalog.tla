---------------------------- MODULE MCReviewCatalog ----------------------------
(***************************************************************************)
(* Two processes and two sessions, one of which has also been sealed on    *)
(* another runtime in the second in which the first seal here is made.     *)
(***************************************************************************)
EXTENDS ReviewCatalog

CONSTANTS k1, k2

MCKeys    == {k1, k2}
MCForeign == {[key |-> k1, at |-> 1]}
=============================================================================
