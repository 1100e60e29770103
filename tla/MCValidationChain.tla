------------------------- MODULE MCValidationChain -------------------------
(***************************************************************************)
(* Sessions that race on one prediction: two would-be roots v1 and v2, two *)
(* successors of v1, and a second decision under the UUID v1.              *)
(***************************************************************************)
EXTENDS ValidationChain

CONSTANTS v1, v2, v3, p1, p2

Dec(v, p, w) == [id |-> v, prediction |-> p, supersedes |-> w]

MCDecisions ==
    {Dec(v1, p1, Null), Dec(v2, p1, Null), Dec(v2, p1, v1), Dec(v3, p1, v1), Dec(v1, p2, Null)}
=============================================================================
