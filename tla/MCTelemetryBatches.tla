-------------------------- MODULE MCTelemetryBatches --------------------------
(***************************************************************************)
(* Two processes and two clips.  The frames of p1 and p2 overlap in two    *)
(* minutes and list the clips in opposite orders, p2 may also contradict   *)
(* one of these minutes, and p2 writes classified minutes too, of which    *)
(* one frame has a value that no classified minute has.                    *)
(***************************************************************************)
EXTENDS TelemetryBatches, TLC

CONSTANTS p1, p2, r1, r2, clipA, clipB, bundle, x, y

Row(clip, time, value) == [clip |-> clip, time |-> time, id |-> NoId, value |-> value]

MCOrder  == <<clipA, clipB>>
MCRunsOf == p1 :> {r1} @@ p2 :> {r2}

MCFramesOf ==
    p1 :> {[kind |-> "raw", rows |-> <<Row(clipB, 0, x), Row(clipA, 0, x), Row(clipB, 60, x)>>]}
    @@ p2 :> {[kind |-> "raw", rows |-> <<Row(clipA, 0, x), Row(clipB, 0, x)>>],
              [kind |-> "raw", rows |-> <<Row(clipB, 0, y)>>],
              [kind |-> "classified", rows |-> <<Row(clipA, 0, x), Row(clipA, 60, x)>>],
              [kind |-> "classified", rows |-> <<Row(clipA, 0, y)>>]}

MCFaults == {<<"data", "rollback">>, <<"data", "lostanswer">>, <<"data", "crash">>,
             <<"finish", "rollback">>, <<"finish", "lostanswer">>, <<"start", "lostanswer">>,
             <<"reconcile", "lostanswer">>, <<"reconcile", "rollback">>}
=============================================================================
