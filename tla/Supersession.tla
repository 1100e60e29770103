----------------------------- MODULE Supersession -----------------------------
(***************************************************************************)
(* The order in which decisions on a prediction supersede each other, used *)
(* by the refinement mappings to DecisionHistory.                          *)
(***************************************************************************)
EXTENDS Naturals, FiniteSets

CONSTANT Null

\* The orders of the decisions S in which each supersedes the one before it and
\* the first supersedes nothing.
Chains(S) ==
    {s \in [1 .. Cardinality(S) -> S] :
        \A i \in DOMAIN s : s[i].supersedes = IF i = 1 THEN Null ELSE s[i - 1].id}

\* The only one, or the empty history when S is no chain.
Chain(S) == IF Chains(S) = {} THEN <<>> ELSE CHOOSE s \in Chains(S) : TRUE
=============================================================================
