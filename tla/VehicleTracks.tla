----------------------------- MODULE VehicleTracks -----------------------------
(***************************************************************************)
(* The chain from the detections of a frame to what is known of each       *)
(* vehicle: vision/tracking.py (SORTTracker), vision/speed.py (reliability *)
(* of a speed, near-zero motion, hysteresis of standing vehicles) and      *)
(* VisionPipelineSession._measure_motion.  Places are points of a line in  *)
(* pixels, and a speed is the path of the recent history per frame.        *)
(*                                                                         *)
(* The module has no variables: it gives the successor of the tracks and   *)
(* of the motion memory for one frame; VideoMinutes drives it.             *)
(***************************************************************************)
EXTENDS Integers, Sequences, FiniteSets, SequencesExt

CONSTANTS
    MaxDistance,    \* TRACKER_MAX_DISTANCE: farthest pair that is one vehicle
    MaxLost,        \* TRACKER_MAX_LOST: frames a vehicle may be out of sight
    HistoryLen,     \* TRACKER_HISTORY_MAXLEN: places remembered
    MinTrackLength, \* SPEED_MIN_TRACK_LENGTH: places a speed needs
    NoiseFloor,     \* SPEED_DISPLACEMENT_NOISE_FLOOR
    SlowestSpeed,   \* SPEED_LIMITS_PER_TYPE: the paths per frame that are a speed
    FastestSpeed,
    StationaryMax,  \* STATIONARY_*: paths below it are standing
    NearZeroMax,    \* NEAR_ZERO_*: paths below it are almost no motion
    EntryFrames,    \* STATIONARY_ENTRY_FRAMES
    ExitFrames,     \* STATIONARY_EXIT_FRAMES
    ExitSpeed       \* STATIONARY_EXIT_SPEED_MIN, path per frame

ASSUME TrackConstants ==
    /\ {MaxDistance, MaxLost, NoiseFloor, SlowestSpeed, FastestSpeed, ExitSpeed} \subseteq Nat
    /\ {HistoryLen, MinTrackLength, EntryFrames, ExitFrames} \subseteq Nat \ {0}
    /\ {StationaryMax, NearZeroMax} \subseteq Nat \ {0}
    /\ EntryFrames <= HistoryLen

None == -1

Gap(a, b) == IF a < b THEN b - a ELSE a - b

-----------------------------------------------------------------------------
(* SORTTracker.  A track is a vehicle in sight or lost for a while.         *)

\* Every fresh tracker numbers its vehicles from 1.
FreshTracker == [tracks |-> {}, next |-> 1, pruned |-> {}]

\* Track.update: the vehicle is seen again.
Seen(track, place) ==
    LET places == Append(track.history, place) IN
    [track EXCEPT
        !.history = IF Len(places) > HistoryLen THEN Tail(places) ELSE places,
        !.gap  = track.lost,
        !.lost = 0]

\* _mark_unmatched_tracks and _append_unmatched_detections.
Missed(track) == [track EXCEPT !.lost = @ + 1]
Started(id, detection) ==
    [id |-> id, kind |-> detection.kind, history |-> <<detection.place>>,
     lost |-> 0, gap |-> 0, counted |-> FALSE]

\* The pairs of a known vehicle and a detection that may be one, with the
\* distance to the place where the vehicle was last seen.
Distance(track, detection) == Gap(Last(track.history), detection.place)
Pairs(tracks, detections) ==
    {p \in tracks \X DOMAIN detections :
        /\ Distance(p[1], detections[p[2]]) <= MaxDistance
        /\ p[1].kind = detections[p[2]].kind}

Shares(p, q) == p[1] = q[1] \/ p[2] = q[2]

\* _match_existing_tracks takes pairs by growing distance, each vehicle and each
\* detection once: the results are the matchings in which every pair left out
\* shares a side with a taken pair that is as near.  Equal distances leave more
\* than one.
Matchings(tracks, detections) ==
    LET all == Pairs(tracks, detections)
        near(p) == Distance(p[1], detections[p[2]])
    IN  {taken \in SUBSET all :
            /\ \A p, q \in taken : Shares(p, q) => p = q
            /\ \A p \in all \ taken : \E q \in taken : Shares(p, q) /\ near(q) <= near(p)}

\* The identifiers of the detections that start a vehicle, in their order.
NewIds(tracker, fresh) ==
    [d \in fresh |-> tracker.next + Cardinality({e \in fresh : e < d})]

\* SORTTracker.update with the matching it found: the last step prunes the
\* vehicles lost for too long.
Tracked(tracker, detections, taken) ==
    LET seen  == {Seen(p[1], detections[p[2]].place) : p \in taken}
        lost  == {Missed(t) : t \in tracker.tracks \ {p[1] : p \in taken}}
        fresh == DOMAIN detections \ {p[2] : p \in taken}
        ids   == NewIds(tracker, fresh)
        all   == seen \cup lost \cup {Started(ids[d], detections[d]) : d \in fresh}
    IN  [tracks |-> {t \in all : t.lost <= MaxLost},
         next   |-> tracker.next + Cardinality(fresh),
         pruned |-> {t.id : t \in {u \in all : u.lost > MaxLost}}]

Active(tracker) == {t \in tracker.tracks : t.lost = 0}

-----------------------------------------------------------------------------
(* Motion of one history.                                                   *)

Steps(history) == [i \in 1 .. Len(history) - 1 |-> Gap(history[i], history[i + 1])]
Path(history) ==
    LET steps == Steps(history) IN FoldLeft(LAMBDA sum, s : sum + s, 0, steps)

\* is_stationary and is_near_zero_motion: their other limits (longest step, mean,
\* deviation) are taken together with the limit on the path.  A history of one
\* place has no path and is below every limit.
IsStationary(history)     == Path(history) < StationaryMax
IsNearZeroMotion(history) == Path(history) < NearZeroMax

\* The middle of a non-empty collection of numbers, the lower one of two.
MedianOf(s) ==
    LET sorted == SortSeq(s, LAMBDA a, b : a < b) IN sorted[(Len(s) + 1) \div 2]

Larger(a, b) == IF a < b THEN b ELSE a
Longest(steps) == FoldLeft(Larger, 0, steps)

\* is_speed_measurement_reliable: no speed from a short history, just after a gap,
\* with an optical flow that lost its points, or with one step out of proportion.
Reliable(track, flowOk) ==
    LET steps  == Steps(track.history)
        moving == SelectSeq(steps, LAMBDA s : s > 0)
    IN  /\ Len(track.history) >= Larger(2, MinTrackLength)
        /\ track.gap = 0
        /\ flowOk
        /\ Len(steps) >= 3 /\ moving # <<>> =>
              Longest(steps) <= Larger(4 * MedianOf(moving), 3 * NoiseFloor)

\* estimate_speed: steps below the noise count nothing and, from three on, none
\* counts more than three times the middle one; the path per frame of the window
\* is a speed if it is one of a vehicle.
CleanSteps(history) ==
    LET loud   == [i \in 1 .. Len(history) - 1 |->
                     IF Steps(history)[i] < NoiseFloor THEN 0 ELSE Steps(history)[i]]
        moving == SelectSeq(loud, LAMBDA s : s > 0)
        clip   == IF Len(loud) >= 3 /\ moving # <<>> THEN 3 * MedianOf(moving) ELSE Longest(loud)
    IN  [i \in DOMAIN loud |-> IF loud[i] > clip THEN clip ELSE loud[i]]

EstimateSpeed(history) ==
    LET path   == FoldLeft(LAMBDA sum, s : sum + s, 0, CleanSteps(history))
        frames == Len(history) - 1
    IN  IF Len(history) >= Larger(2, MinTrackLength)
           /\ path \in SlowestSpeed * frames .. FastestSpeed * frames
        THEN path \div frames ELSE None

-----------------------------------------------------------------------------
(* TrackMotionStateTracker: standing is confirmed after EntryFrames frames  *)
(* without motion in a row, and left after ExitFrames frames with a speed,  *)
(* none of them without motion.                                             *)

AtRest == [standing |-> FALSE, entry |-> 0, exit |-> 0]

Votes(memory, history, speed) ==
    IF IsStationary(history) THEN [memory EXCEPT !.entry = @ + 1, !.exit = 0]
    ELSE [memory EXCEPT
            !.entry = 0,
            !.exit  = IF speed # None /\ speed >= ExitSpeed THEN @ + 1 ELSE @]

\* The votes are counters without a limit; beyond the thresholds they only say
\* that those are reached.
Capped(memory) ==
    [memory EXCEPT !.entry = IF @ > EntryFrames THEN EntryFrames ELSE @,
                   !.exit  = IF @ > ExitFrames THEN ExitFrames ELSE @]

Motion(memory, history, speed) ==
    LET votes == Capped(Votes(memory, history, speed)) IN
    [votes EXCEPT !.standing = IF @ THEN votes.exit < ExitFrames
                               ELSE votes.entry >= EntryFrames]
=============================================================================
