--------------------------- MODULE MCReviewSession ---------------------------
(***************************************************************************)
(* A queue of two rows and one decision of another reviewer on the first.  *)
(***************************************************************************)
EXTENDS ReviewSession

CONSTANTS d1, d2, d3, f1

MCOwn     == {d1, d2, d3}
MCForeign == {f1}
=============================================================================
