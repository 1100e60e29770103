---------------------------- MODULE MinuteFeatures ----------------------------
(***************************************************************************)
(* From the minutes of a clip to what is decided on each of them, as far   *)
(* as it looks at other minutes: features/engineering.py,                  *)
(* features/labeling.py and the strength of an incident in                 *)
(* inference/policy.py.  The video asks for each minute as it ends, with   *)
(* the minutes so far; the notebook classifies the whole clip afterwards   *)
(* and stops if the two differ (assert_progressive_batch_parity).          *)
(*                                                                         *)
(* A row is one of Continuity with what was measured: speed, vehicles,     *)
(* heavy vehicles, tracks with a speed, with a rejected speed, standing,   *)
(* with almost no motion, and the quality of flow.  Ratios are percentages.*)
(***************************************************************************)
EXTENDS Continuity, Integers, SequencesExt, FiniteSetsExt

CONSTANTS
    RollingWindow,        \* rolling_window
    Persistence,   \* accident_persistence and congested_persistence
    Slow,          \* accident_speed_max
    Braking,       \* accident_delta_min, as a positive number
    Brakings,      \* accident_cumulative_delta_min, as a positive number
    CongestedMax, CongestedVehicles,         \* congested_*
    ReducedSpeeds, ReducedVehicles,          \* reduced_*, both intervals
    TransitionSpeed, TransitionCount,        \* transition_*
    QualityMin, NearZeroMin, StandingMin, FlowMin \* the minimal ratios

Unknown == -1

\* _safe_ratio in percent.
Ratio(part, whole) == IF whole <= 0 THEN Unknown
                      ELSE IF part > whole THEN 100 ELSE (100 * part) \div whole

-----------------------------------------------------------------------------
(* Groups of rows.  Everything below is computed inside the continuous       *)
(* segment of a row.                                                        *)

Segmented(a, b) == a.clip = b.clip /\ a.id = b.id

\* Mutant: a window has minutes on both sides.
LastCentred(rows, i, w) ==
    {j \in DOMAIN rows : Segmented(rows[j], rows[i]) /\ j \in i - (w \div 2) .. i + (w \div 2)}
\* The last w rows of the segment of row i, up to row i.
LastOf(rows, i, w) ==
    LET segment == {j \in 1 .. i : Segmented(rows[j], rows[i])}
    IN  {j \in segment : Cardinality({k \in segment : k > j}) < w}

\* groupby(...).diff(): the row before in the segment.
HasPrevious(rows, i) == Cardinality(LastOf(rows, i, 2)) = 2
Previous(rows, i) == Min(LastOf(rows, i, 2))

SumOf(rows, S, of(_)) == MapThenSumSet(LAMBDA j : of(rows[j]), S)

-----------------------------------------------------------------------------
(* engineer_features, for one row; the first row of a segment has no deltas *)
(* and is dropped.                                                          *)

SpeedDelta(rows, i) == rows[i].speed - rows[Previous(rows, i)].speed
CountDelta(rows, i) == rows[i].vehicles - rows[Previous(rows, i)].vehicles

Magnitude(n) == IF n < 0 THEN -n ELSE n

Cumulative(rows, i) ==
    MapThenSumSet(LAMBDA j : SpeedDelta(rows, j),
                  {j \in LastOf(rows, i, RollingWindow) : HasPrevious(rows, j)})

\* The tracks a ratio refers to: the sum of the exclusive outcomes, or the vehicles
\* with almost no motion if those are more.
ObservedTracks(row) ==
    LET sum == row.samples + row.rejected + row.standing IN
    IF row.near > sum THEN row.near ELSE sum

FeatureRow(rows, i) ==
    [clip |-> rows[i].clip, id |-> rows[i].id, time |-> rows[i].time,
     speed |-> rows[i].speed, vehicles |-> rows[i].vehicles, flow |-> rows[i].flow,
     heavy |-> Ratio(rows[i].heavy, IF rows[i].vehicles < 1 THEN 1 ELSE rows[i].vehicles),
     delta |-> SpeedDelta(rows, i), count |-> CountDelta(rows, i),
     transition |-> /\ Magnitude(SpeedDelta(rows, i)) > TransitionSpeed
                    /\ Magnitude(CountDelta(rows, i)) > TransitionCount,
     speeds |-> {<<rows[j].time, rows[j].speed>> : j \in LastOf(rows, i, RollingWindow)}, \* of the variance
     cumulative |-> Cumulative(rows, i),
     low |-> Cardinality({j \in LastOf(rows, i, IF Persistence > 2 THEN Persistence ELSE 2) :
                             rows[j].speed < Slow}),
     quality |-> Ratio(rows[i].samples, rows[i].samples + rows[i].rejected),
     near |-> Ratio(rows[i].near, ObservedTracks(rows[i])),
     standing |-> Ratio(rows[i].standing, ObservedTracks(rows[i]))]

Features(frame) ==
    LET rows == Normalized(frame)
        kept == SetToSortSeq({i \in DOMAIN rows : HasPrevious(rows, i)}, LAMBDA a, b : a < b)
    IN  [n \in DOMAIN kept |-> FeatureRow(rows, kept[n])]

-----------------------------------------------------------------------------
(* build_accident_signal_frame and build_accident_mask, for one row.        *)

\* rolling(window = n, min_periods = n).sum() >= n.
AllOfLast(rows, i, n, holds(_)) ==
    LET last == LastOf(rows, i, n)
    IN  Cardinality(last) = n /\ \A j \in last : holds(rows[j])

LowSpeed(row)      == row.speed < Slow
RecentBraking(rows, i) == \E j \in LastOf(rows, i, RollingWindow) : rows[j].delta < -Braking
CumulativeBraking(rows, i) ==
    SumOf(rows, LastOf(rows, i, RollingWindow), LAMBDA row : row.delta) < -Brakings
PersistentLow(rows, i) == AllOfLast(rows, i, Persistence, LowSpeed)
QualityOk(row)     == row.quality >= QualityMin
NearZero(row)      == row.near >= NearZeroMin
Standing(row)      == row.standing >= StandingMin
MotionEvidence(row) == NearZero(row) \/ Standing(row)

Points(holds, n) == IF holds THEN n ELSE 0
Evidence(rows, i) ==
    Points(LowSpeed(rows[i]), 30) + Points(RecentBraking(rows, i), 20)
    + Points(CumulativeBraking(rows, i), 15) + Points(PersistentLow(rows, i), 20)
    + Points(QualityOk(rows[i]), 5) + Points(NearZero(rows[i]), 5)
    + Points(Standing(rows[i]), 5)

AccidentMask(rows, i) ==
    /\ LowSpeed(rows[i]) /\ PersistentLow(rows, i)
    /\ RecentBraking(rows, i) \/ CumulativeBraking(rows, i)
    /\ QualityOk(rows[i]) /\ MotionEvidence(rows[i])

\* _incident_strength of the policy.
Strong(rows, i) ==
    /\ Evidence(rows, i) >= 75
    /\ RecentBraking(rows, i) \/ CumulativeBraking(rows, i)
    /\ MotionEvidence(rows[i]) /\ QualityOk(rows[i])
    /\ rows[i].flow >= FlowMin /\ rows[i].vehicles > 0

\* assign_stable_traffic_state.
Congestion(row) == row.speed < CongestedMax /\ row.vehicles >= CongestedVehicles
StableState(rows, i) ==
    IF Congestion(rows[i]) /\ AllOfLast(rows, i, Persistence, Congestion) THEN 2
    ELSE IF rows[i].speed \in ReducedSpeeds /\ rows[i].vehicles \in ReducedVehicles THEN 1
    ELSE 0

\* assign_instant_state, for the sprint mode.
InstantState(row) ==
    IF row.speed < 15 /\ row.vehicles > 0 THEN 2
    ELSE IF row.speed \in 15 .. 30 THEN 1 ELSE 0

\* What is decided of each minute with features (classify_raw_telemetry before the
\* probabilities of the model, and the proxy label of training).
Decided(frame) ==
    LET rows == Features(frame) IN
    [i \in DOMAIN rows |->
        [row |-> rows[i], score |-> Evidence(rows, i), strong |-> Strong(rows, i),
         label |-> StableState(rows, i), mask |-> AccidentMask(rows, i)]]

\* predict_latest: the last decision there is for the minutes it is given.
Latest(rows) == LET d == Decided(rows) IN IF d = <<>> THEN <<>> ELSE <<Last(d)>>

\* The minutes the video hands over when minute n ends: those of its segment, and
\* nothing while there is only one (VideoMinutes, ContextOfMinute).
Handed(frame, n) ==
    SelectSeq(SubSeq(frame, 1, n), LAMBDA row : Segmented(row, frame[n]))

-----------------------------------------------------------------------------
\* Asking minute by minute gives what the whole clip gives: no feature, label or
\* incident signal of a minute depends on a later one or on another segment
\* (assert_progressive_batch_parity would stop the notebook otherwise).
ProgressiveIsBatch(frame) ==
    LET rows == Normalized(frame)
        answer(n) == IF Len(Handed(rows, n)) < 2 THEN <<>> ELSE Latest(Handed(rows, n))
    IN  FlattenSeq([n \in DOMAIN rows |-> answer(n)]) = Decided(frame)

\* What training calls an accident the policy of serving can raise: the mask on a
\* visible, occupied minute reaches the score of the gate
\* (ACCIDENT_GATE_MIN_EVIDENCE_SCORE), and no strong minute lacks a speed that broke.
MaskReachesGate(frame) ==
    LET rows == Features(frame) IN
    \A i \in DOMAIN rows :
        AccidentMask(rows, i) /\ rows[i].flow >= FlowMin /\ rows[i].vehicles > 0
            => Strong(rows, i)
=============================================================================
