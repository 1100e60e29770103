---------------------- MODULE MCValidationPersistence ----------------------
(***************************************************************************)
(* Small instances of the HITL write path.  Two processes work on one      *)
(* prediction: v1 may be decided in two ways, and v2 either succeeds v1 or *)
(* claims to be another root.                                              *)
(***************************************************************************)
EXTENDS ValidationPersistence, TLC

CONSTANTS alice, bob, reviewer, colleague, notebook, v1, v2, p1, free, congested

Root(v, label) == [id |-> v, prediction |-> p1, label |-> label, supersedes |-> Null]
After(v, w)    == [id |-> v, prediction |-> p1, label |-> free, supersedes |-> w]

MCDecisions    == {Root(v1, free), Root(v1, congested), After(v2, v1), Root(v2, free)}
MCOneReviewer  == [c \in Clients |-> reviewer]
MCTwoReviewers == alice :> reviewer @@ bob :> colleague
MCOneApp       == [c \in Clients |-> notebook]

\* Every failure of every transaction, and crashes.
MCAnyFault == Calls \X Kinds

\* What docs/operations/postgresql-guide.md:195 allows for: only the closing of
\* the run fails, or its answer or the process is lost there.
MCFinishFaults == {"finish"} \X Kinds

\* The two ways in which the transaction that stores the decision can fail.
MCLostCommit == {<<"data", "lostanswer">>}
MCRolledBack == {<<"data", "rollback">>}

\* One way to decide each UUID, so no two clients contradict each other.
MCOneDecision  == {Root(v1, free)}
MCOwnDecisions == {Root(v1, free), After(v2, v1)}
=============================================================================
