----------------------------- MODULE MCTrainingRuns -----------------------------
(***************************************************************************)
(* Two Colab processes with a workspace each and one Drive.  Two clips are *)
(* reviewed at first, too few; then a third; then it gets one more minute  *)
(* and three more clips arrive; then one of its labels changes.            *)
(***************************************************************************)
EXTENDS TrainingRuns, TLC

CONSTANTS ana, ben, workspaceA, workspaceB, drive

MCStates == <<0, 1, 2>>

\* random.Random(42).shuffle, for sequences of up to eight.
Permutations42 == <<<<1>>, <<2, 1>>, <<2, 1, 3>>, <<3, 2, 4, 1>>, <<4, 2, 3, 5, 1>>,
                    <<4, 2, 3, 5, 1, 6>>, <<2, 4, 5, 3, 7, 1, 6>>, <<4, 5, 7, 8, 3, 6, 1, 2>>>>
MCShuffled(s) == IF s = <<>> THEN s ELSE [i \in DOMAIN s |-> s[Permutations42[Len(s)][i]]]

\* A clip with one minute of every state, and its first minute seen otherwise.
Clip(g) == {[group |-> g, minute |-> m, state |-> m] : m \in 0 .. 2}
Corrected(g) == {[group |-> g, minute |-> 0, state |-> 1]}
Extended(g) == {[group |-> g, minute |-> 3, state |-> 0]}

MCReviews == <<Clip(1) \cup Clip(2),
               Clip(3),
               Extended(3) \cup Clip(4) \cup Clip(5) \cup Clip(6),
               Corrected(3)>>

MCConfigs == {[frozen |-> TRUE, create |-> FALSE], [frozen |-> TRUE, create |-> TRUE],
              [frozen |-> FALSE, create |-> FALSE]}
MCWorkspaceOf == [t \in {ana, ben} |-> IF t = ana THEN workspaceA ELSE workspaceB]

\* The two processes, each with its workspace, are alike.
Alike == {ana :> ben @@ ben :> ana @@ workspaceA :> workspaceB @@ workspaceB :> workspaceA}

\* One thing at a time: a third execution or a trouble; and a single execution when
\* it does without the holdout, or while there are two clips.
Unfrozen ==
    \/ \E r \in DOMAIN runs : runs[r].holdout = 0 /\ runs[r].train # {}
    \/ \E t \in Publishers : ~At(t, "closed") /\ ~Nb(t).config.frozen
Bounded ==
    /\ reviews = 1 => Len(runs) <= 1
    /\ Unfrozen => Len(runs) <= 1
    /\ troubles > 0 => Len(runs) <= 2
=============================================================================
