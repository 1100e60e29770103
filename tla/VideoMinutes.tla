------------------------------ MODULE VideoMinutes ------------------------------
(***************************************************************************)
(* VisionPipelineSession (vision/pipeline.py) on one video: frames in      *)
(* order, the view plan that may switch the camera on any frame, the       *)
(* telemetry of each minute (vision/telemetry.py), the prediction that     *)
(* closes it and the report that analyze_video returns.  One step is one   *)
(* frame with everything the session does for it.                          *)
(***************************************************************************)
EXTENDS VehicleTracks

CONSTANTS
    RateFrames,      \* the frame rate of the video: so many frames
    RateMinutes,     \*   in so many minutes (29.97 per second is 8991 in 5)
    FramesPerMinute, \* frames that the session takes for a minute
    MaxFrames,       \* bound: frames of the video
    Scenes,          \* what a frame may show: detections and whether flow is good
    Kinds,           \* VEHICLE_TYPES
    Plans,           \* view plans that may be handed in, with NoPlan
    Profiles,        \* camera profiles that exist
    Fitting          \* those calibrated for the size of this video's frames

ASSUME VideoConstants ==
    /\ RateFrames \in Nat \ {0} /\ RateMinutes \in Nat \ {0}
    /\ FramesPerMinute \in Nat \ {0} /\ MaxFrames \in Nat
    /\ Fitting \subseteq Profiles /\ IsFiniteSet(Kinds)
    /\ Scenes \subseteq [detections : Seq([kind : Kinds, place : Int]), flow : BOOLEAN]
    /\ Plans \subseteq Seq([start : Nat, end : Nat, profile : STRING])

\* round(fps * 60), half to even, and at least one frame.
RoundedRate ==
    LET whole == RateFrames \div RateMinutes
        twice == 2 * (RateFrames % RateMinutes)
        up    == twice > RateMinutes \/ (twice = RateMinutes /\ whole % 2 = 1)
    IN  IF up THEN whole + 1 ELSE IF whole = 0 THEN 1 ELSE whole

ASSUME MinutesAreRounded == FramesPerMinute = RoundedRate

NoPlan == <<>>
Open   == 0        \* end_frame of the last segment

VARIABLES
    plan,        \* the view plan of the session
    phase,       \* "running", "done" or "failed"
    frame,       \* frames processed
    view,        \* _active_view_index, _continuity_sequence, _skip_current_minute
    tracker, motion, speeds, \* the state of the vehicles in sight
    acc,         \* MinuteTelemetryAccumulator without its cumulative counts
    cumulative,  \* cumulative_counts
    records,     \* _records
    context,     \* _prediction_context_records, as positions in records
    classified,  \* _classification_records
    latest,      \* _latest_prediction: position of its record, or 0
    reports,     \* _view_progress
    earlier      \* history: vehicles numbered by the trackers of earlier views

videoVars == <<plan, phase, frame, view, tracker, motion, speeds, acc, cumulative, records,
          context, classified, latest, reports, earlier>>

-----------------------------------------------------------------------------
(* The plan: contiguous segments [start, end) from frame 1 on, the last one *)
(* open, each with a profile that exists.                                   *)

WellFormed(p) ==
    p = NoPlan \/
    /\ p[1].start = 1 /\ p[Len(p)].end = Open
    /\ \A i \in DOMAIN p : p[i].profile \in Profiles
    /\ \A i \in 1 .. Len(p) - 1 :
          p[i].end > p[i].start /\ p[i + 1].start = p[i].end

Covers(segment, f) == segment.start <= f /\ (segment.end = Open \/ f < segment.end)

SegmentIndex(f) == CHOOSE i \in DOMAIN plan :
                      Covers(plan[i], f) /\ \A j \in 1 .. i - 1 : ~Covers(plan[j], f)

StartsMinute(f) == (f - 1) % FramesPerMinute = 0
EndsMinute(f)   == f % FramesPerMinute = 0

\* The frame that comes next, whether a new view begins with it, and whether
\* that view may be measured.
Coming   == frame + 1
Switches == plan # NoPlan /\ SegmentIndex(Coming) # view.active
Turns    == Switches /\ view.active # 0
Resolved == plan # NoPlan => plan[SegmentIndex(Coming)].profile \in Fitting

\* Mutant: a view that begins inside a minute does not spoil the minute.
MixesNever == FALSE
\* The view begins inside a minute, whose telemetry is then of two views.
Mixes == Turns /\ ~StartsMinute(Coming)

Skipping == view.skip \/ Mixes

-----------------------------------------------------------------------------
(* The telemetry of a minute.                                               *)

NoCounts == [k \in Kinds |-> 0]
EmptyMinute == [counts |-> NoCounts, counted |-> {}, observed |-> {}, nearZero |-> {},
                standing |-> {}, rejected |-> {}, recovered |-> {}, reliable |-> {}]

\* The sum of the numbers of a finite function, as the size of a union of disjoint sets.
Units(f) == UNION {{k} \X (1 .. f[k]) : k \in DOMAIN f}
Total(f) == Cardinality(Units(f))
Plus(a, b) == [k \in Kinds |-> a[k] + b[k]]

Ids(tracks) == {t.id : t \in tracks}

\* observe_track for every vehicle in sight: seen are the tracks of the frame, with
\* what _measure_motion found of each.
\* Mutant: a vehicle is counted once in each minute.
NewlyCountedByMinute(minute, seen) == {t \in seen : t.id \notin minute.counted}
NewlyCounted(minute, seen) == {t \in seen : t.id \notin minute.counted /\ ~t.counted}

Observed(minute, seen, standing, reliable, smoothed) ==
    LET moving == {t \in seen : t.id \notin standing}
        bad    == {t \in moving : t.id \notin reliable}
        new    == NewlyCounted(minute, seen)
    IN  [counts    |-> [k \in Kinds |->
                          minute.counts[k] + Cardinality({t \in new : t.kind = k})],
         counted   |-> minute.counted \cup Ids(new),
         observed  |-> minute.observed \cup Ids(seen),
         nearZero  |-> minute.nearZero \cup Ids({t \in seen : IsNearZeroMotion(t.history)}),
         standing  |-> minute.standing \cup (standing \cap Ids(seen)),
         rejected  |-> minute.rejected \cup Ids(bad),
         recovered |-> minute.recovered \cup Ids({t \in bad : t.gap > 0}),
         reliable  |-> minute.reliable \cup (Ids(moving \ bad) \cap smoothed)]

\* build_record.
Record(minute, cont, f) ==
    [to |-> f, cont |-> cont, total |-> Total(minute.counts),
     near |-> Cardinality(minute.nearZero), standing |-> Cardinality(minute.standing),
     rejected |-> Cardinality(minute.rejected \ minute.reliable),
     recovered |-> Cardinality(minute.recovered), samples |-> Cardinality(minute.reliable)]

-----------------------------------------------------------------------------
VideoInit ==
    /\ plan \in {p \in Plans : WellFormed(p)}
    /\ phase = "running" /\ frame = 0
    /\ view = [active |-> 0, sequence |-> 1, skip |-> FALSE, discarding |-> FALSE]
    /\ tracker = FreshTracker /\ motion = <<>> /\ speeds = {}
    /\ acc = EmptyMinute /\ cumulative = NoCounts
    /\ records = <<>> /\ context = <<>> /\ classified = <<>> /\ latest = 0
    /\ reports = <<>> /\ earlier = 0

\* Mutant: _reset_for_view_transition keeps the votes of the vehicles.
KeptMotionAlways == motion
\* _reset_for_view_transition: nothing known of a vehicle outlives its view.
KeptTracker == IF Turns THEN FreshTracker ELSE tracker
KeptMotion == IF Turns THEN <<>> ELSE motion
KeptSpeeds == IF Turns THEN {} ELSE speeds
KeptMinute == IF Mixes THEN EmptyMinute ELSE acc
KeptContext == IF Turns THEN <<>> ELSE context
KeptLatest == IF Turns THEN 0 ELSE latest

\* A fresh OpticalFlowEstimator has no points to lose.
FlowIsGood(scene) == frame = 0 \/ Turns \/ scene.flow

\* _apply_view_plan on its own fields and on the reports.
NextView ==
    [active     |-> IF plan = NoPlan THEN 0 ELSE SegmentIndex(Coming),
     sequence   |-> view.sequence + (IF Turns THEN 1 ELSE 0),
     skip       |-> Skipping,
     discarding |-> IF Switches THEN view.discarding \/ Skipping ELSE view.discarding]

NextReports ==
    IF plan = NoPlan THEN reports
    ELSE IF Switches
         THEN Append(reports, [start |-> plan[SegmentIndex(Coming)].start, end |-> Coming,
                               valid |-> 0, discarded |-> 0])
         ELSE [reports EXCEPT ![Len(reports)].end = Coming]

\* _complete_minute of a minute that two views share.
DiscardMinute ==
    /\ view' = [NextView EXCEPT !.skip = FALSE, !.discarding = FALSE]
    /\ acc' = EmptyMinute
    /\ reports' = IF NextView.discarding
                  THEN [NextReports EXCEPT ![Len(NextReports)].discarded = @ + 1]
                  ELSE NextReports
    /\ context' = KeptContext /\ latest' = KeptLatest
    /\ UNCHANGED <<cumulative, records, classified>>

\* _request_minute_prediction: with a plan only the minutes of the view count, and
\* one alone is not enough.
ContextOfMinute ==
    IF plan = NoPlan THEN [i \in 1 .. Len(records) + 1 |-> i]
    ELSE Append(KeptContext, Len(records) + 1)

\* _complete_minute of a minute of one view; the provider may have no answer.
CloseMinute(minute, answered) ==
    LET n == Len(records) + 1 IN
    /\ answered => plan = NoPlan \/ Len(ContextOfMinute) >= 2
    /\ view' = NextView
    /\ records' = Append(records, Record(minute, NextView.sequence, Coming))
    /\ reports' = IF NextReports = <<>> THEN NextReports
                  ELSE [NextReports EXCEPT ![Len(NextReports)].valid = @ + 1]
    /\ context' = IF plan = NoPlan THEN context ELSE Append(KeptContext, n)
    /\ classified' = IF answered
                     THEN Append(classified, [record |-> n, context |-> ContextOfMinute])
                     ELSE classified
    /\ latest' = IF answered THEN n ELSE 0
    /\ cumulative' = Plus(cumulative, minute.counts)
    /\ acc' = EmptyMinute

\* A frame inside a minute.
KeepMinute(minute) ==
    /\ view' = NextView /\ reports' = NextReports /\ acc' = minute
    /\ context' = KeptContext /\ latest' = KeptLatest
    /\ UNCHANGED <<cumulative, records, classified>>

\* What one frame makes of the vehicles: found is the tracker after the frame, good
\* those whose speed may be measured.
History(found, i) == (CHOOSE t \in Active(found) : t.id = i).history
SpeedOf(found, good, i) == IF i \in good THEN EstimateSpeed(History(found, i)) ELSE None

\* The motion remembered of each vehicle: a pruned one is forgotten, one in sight votes.
Remembered(found, good) ==
    LET known == DOMAIN KeptMotion \ found.pruned
        ids   == Ids(Active(found))
    IN  [i \in known \cup ids |->
            LET before == IF i \in known THEN KeptMotion[i] ELSE AtRest IN
            IF i \in ids THEN Motion(before, History(found, i), SpeedOf(found, good, i))
                         ELSE before]

MinuteBefore(found) == [KeptMinute EXCEPT !.counted = @ \ found.pruned]
CountedNow(found) == IF Skipping THEN {} ELSE NewlyCounted(MinuteBefore(found), Active(found))
MarkCounted(tracks, new) == (tracks \ new) \cup {[t EXCEPT !.counted = TRUE] : t \in new}

\* process_frame and, after the last frame of a minute, _complete_minute.
ProcessFrame(scene) ==
    /\ phase = "running" /\ frame < MaxFrames /\ Resolved
    /\ \E taken \in Matchings(KeptTracker.tracks, scene.detections), answered \in BOOLEAN :
        LET found    == Tracked(KeptTracker, scene.detections, taken)
            ids      == Ids(Active(found))
            good     == Ids({t \in Active(found) : Reliable(t, FlowIsGood(scene))})
            memory   == Remembered(found, good)
            standing == {i \in ids : memory[i].standing}
            smoothed == {i \in ids \ standing : SpeedOf(found, good, i) # None}
            minute   == IF Skipping THEN MinuteBefore(found)
                        ELSE Observed(MinuteBefore(found), Active(found), standing, good, smoothed)
        IN  /\ tracker' = [found EXCEPT !.tracks = MarkCounted(@, CountedNow(found))]
            /\ motion' = memory
            /\ speeds' = (KeptSpeeds \ (found.pruned \cup ids)) \cup smoothed
            /\ \/ ~EndsMinute(Coming) /\ ~answered /\ KeepMinute(minute)
               \/ EndsMinute(Coming) /\ Skipping /\ ~answered /\ DiscardMinute
               \/ EndsMinute(Coming) /\ ~Skipping /\ CloseMinute(minute, answered)
    /\ frame' = Coming
    /\ earlier' = IF Turns THEN earlier + tracker.next - 1 ELSE earlier
    /\ UNCHANGED <<plan, phase>>

\* The profile of the view is not for frames of this size: the session raises and
\* returns nothing.
RejectFrame ==
    /\ phase = "running" /\ frame < MaxFrames /\ ~Resolved
    /\ phase' = "failed"
    /\ UNCHANGED <<plan, frame, view, tracker, motion, speeds, acc, cumulative, records,
                   context, classified, latest, reports, earlier>>

\* The video ends, or max_frames is reached.
Finish ==
    /\ phase = "running" /\ phase' = "done"
    /\ UNCHANGED <<plan, frame, view, tracker, motion, speeds, acc, cumulative, records,
                   context, classified, latest, reports, earlier>>

VideoNext == Finish \/ RejectFrame \/ \E scene \in Scenes : ProcessFrame(scene)

VideoSpec == VideoInit /\ [][VideoNext]_videoVars

-----------------------------------------------------------------------------
\* What analyze_video reports of the video, in time: a frame lasts RateMinutes units,
\* a minute of the clock RateFrames of them.
ProcessedTime == frame * RateMinutes
PartialTime ==
    LET left == ProcessedTime - Len(records) * RateFrames IN
    IF plan # NoPlan THEN ProcessedTime % RateFrames
    ELSE IF left > 0 THEN left ELSE 0

\* The title of the HUD (_status_values): a state only with a prediction.
Status == IF latest = 0 THEN "ANALIZANDO" ELSE "ESTADO ESTABLE"

SumOver(s, of(_)) == Total([i \in DOMAIN s |-> of(s[i])])
Discarded == SumOver(reports, LAMBDA r : r.discarded)

\* Types of the state.
VideoTypeOK ==
    /\ phase \in {"running", "done", "failed"} /\ frame \in 0 .. MaxFrames
    /\ view \in [active : Nat, sequence : Nat, skip : BOOLEAN, discarding : BOOLEAN]
    /\ speeds \subseteq DOMAIN motion
    /\ cumulative \in [Kinds -> Nat] /\ acc.counts \in [Kinds -> Nat]
    /\ latest \in 0 .. Len(records)

\* No vehicle is counted twice, in two minutes or after it was lost for a while
\* (mark_counted, counted_tracks): all counts together are the vehicles that the
\* trackers have numbered, short only of those that a discarded minute hid, and the
\* counts of the HUD are those of the telemetry.
VehiclesCountOnce ==
    LET counted == Total(cumulative) + Total(acc.counts)
        started == earlier + tracker.next - 1
    IN  /\ Total(cumulative) = SumOver(records, LAMBDA r : r.total)
        /\ counted <= started
        /\ Discarded = 0 /\ ~view.skip => counted = started

\* Part of ViewsStayApart: a minute of telemetry never mixes two views, and two views
\* never share a continuity identifier.
MinutesStayInOneView ==
    \A i, j \in DOMAIN records :
        LET first(r) == r.to - FramesPerMinute + 1 IN
        plan # NoPlan =>
            /\ SegmentIndex(first(records[i])) = SegmentIndex(records[i].to)
            /\ (records[i].cont = records[j].cont) <=>
                  (SegmentIndex(records[i].to) = SegmentIndex(records[j].to))
\* Part of ViewsStayApart: every complete minute is either a record or declared
\* discarded in the report of a view.  With the seconds reported as partial they make up
\* the time of the video exactly while the rounding of the minutes (drift) has not eaten
\* the rest of the last one, nor, under a plan, added another minute to it; with a whole
\* number of frames in a minute there is no drift and they always do.
MinutesAreAccounted ==
    LET minutes == Len(records) + Discarded
        drift   == minutes * (RateFrames - FramesPerMinute * RateMinutes)
        rest    == (frame % FramesPerMinute) * RateMinutes - drift
    IN  /\ minutes = frame \div FramesPerMinute
        /\ minutes * RateFrames + PartialTime = ProcessedTime
           <=> rest >= 0 /\ (plan # NoPlan => rest < RateFrames)
\* Part of ViewsStayApart: a prediction is made from minutes of its own view, all of
\* them up to its own, and the HUD shows no state of an earlier view.
PredictionsStayInView ==
    /\ \A n \in DOMAIN classified :
          LET c == classified[n] IN
          ToSet(c.context) = {i \in 1 .. c.record : records[i].cont = records[c.record].cont}
    /\ Status # "ANALIZANDO" => records[latest].cont = view.sequence
\* No view of the camera reaches into another, wherever the plan turns
\* (_apply_view_plan, _complete_minute, _request_minute_prediction,
\* _reset_for_view_transition).
ViewsStayApart == MinutesStayInOneView /\ MinutesAreAccounted /\ PredictionsStayInView

\* What is remembered of a vehicle is its own: votes and speeds belong to a vehicle
\* that is still followed and has been seen as often as it has voted, although a
\* tracker numbers the vehicles of every view from 1 (remove_track, reset).
MotionIsOwn ==
    \A i \in DOMAIN motion :
        \E t \in tracker.tracks :
            /\ t.id = i
            /\ motion[i].entry <= Len(t.history)
            /\ motion[i].standing => Len(t.history) >= EntryFrames
=============================================================================
