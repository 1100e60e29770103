---------------------------- MODULE MCRunLedger ----------------------------
(***************************************************************************)
(* A small instance of the ledger: a role that writes reviews and one that *)
(* writes inferences compete for run r1; the first also opens r2; r2 and   *)
(* r3 can both be claimed as the reconciliation of r1.  The reviewer calls *)
(* through the package, the analyst writes SQL and may pass NULLs.  Two    *)
(* contents, one model revision and counts 0 and 1 make every conflict     *)
(* possible.                                                               *)
(***************************************************************************)
EXTENDS RunLedger, TLC

CONSTANTS reviewer, analyst, r1, r2, r3, app, m1

MCGrants == {<<reviewer, "review">>, <<analyst, "inference">>}

MCReview    == [workflow |-> "review", app |-> app, input |-> 1]
MCInference == [workflow |-> "inference", app |-> app, input |-> 1]

MCOpenings ==
    {[user |-> reviewer, run |-> r, meta |-> MCReview, revision |-> Null] : r \in {r1, r2}}
        \cup {[user |-> analyst, run |-> r1, meta |-> MCInference, revision |-> m1]}
=============================================================================
