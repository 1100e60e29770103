--------------------------- MODULE MCTrafficPolicy ---------------------------
(***************************************************************************)
(* The policy with the defaults of vaaet.settings over every sequence of   *)
(* six minutes drawn from eight kinds: each confident code with and without *)
(* incident evidence where that matters, a doubtful minute, and minutes    *)
(* that open a segment.                                                    *)
(*                                                                         *)
(* Before the first minute one question may be asked of the functions that *)
(* surround the policy, on one of the inputs below: what they answer is    *)
(* compared with what their callers rely on.                               *)
(***************************************************************************)
EXTENDS TrafficPolicy, FiniteSets, TLC

CONSTANTS clipA, clipB, idA, idB
VARIABLE input     \* the question, or None

Min(b_, c, accepted, s) == [breaks |-> b_, code |-> c, accepted |-> accepted, strong |-> s]

MCMinutes ==
    {Min(FALSE, c, TRUE, FALSE) : c \in {0, 1, 2}} \cup
    {Min(FALSE, 2, TRUE, TRUE), Min(FALSE, 0, TRUE, TRUE), Min(FALSE, 2, FALSE, FALSE),
     Min(TRUE, 2, TRUE, TRUE), Min(TRUE, 0, TRUE, FALSE)}

-----------------------------------------------------------------------------
(* Minutes of clips, with the defaults of SpecialistConfig; a window of     *)
(* three instead of five, and gaps above one minute.                        *)

F == INSTANCE MinuteFeatures WITH
       MaxGap <- 1, ClipOrder <- <<clipA, clipB>>,
       RollingWindow <- 3, Persistence <- 2, Slow <- 2, Braking <- 15, Brakings <- 18,
       CongestedMax <- 7, CongestedVehicles <- 5,
       ReducedSpeeds <- 7 .. 25, ReducedVehicles <- 5 .. 12,
       TransitionSpeed <- 8, TransitionCount <- 3,
       QualityMin <- 45, NearZeroMin <- 20, StandingMin <- 10, FlowMin <- 35

\* A minute with moving traffic, with less, and one that stands still, seen or not.
Moving  == [speed |-> 20, vehicles |-> 6, heavy |-> 1, samples |-> 5, rejected |-> 1,
            near |-> 0, standing |-> 0, flow |-> 60]
Kinds == {Moving, [Moving EXCEPT !.speed = 12],
          [Moving EXCEPT !.speed = 1, !.near = 3, !.standing = 1],
          [Moving EXCEPT !.speed = 1, !.near = 3, !.flow = 10]}
At(clip, time, id, kind) == [clip |-> clip, time |-> time, id |-> id] @@ kind

\* One clip of four minutes, with gaps; and three minutes of two clips, in any order
\* and with the identifiers a source may give.
OneClip == {[n \in 1 .. 4 |-> At(clipA, n + 2 * Cardinality({g \in gaps : g <= n}),
                                 F!NoId, kinds[n])] :
               gaps \in SUBSET (2 .. 4), kinds \in [1 .. 4 -> Kinds]}
Stamps == {At(clip, time, id, Moving) :
              clip \in {clipA, clipB}, time \in {0, 1, 4},
              id \in {F!NoId, F!Given(idA), F!Given(idB)}}
Frames == OneClip \cup [1 .. 3 -> Stamps]

-----------------------------------------------------------------------------
(* References of a camera and speeds of a minute.                           *)

S == INSTANCE SpeedScale WITH
       NearLine <- 66, MidLine <- 33, NearFactor <- 18, MidFactor <- 10, FarFactor <- 6,
       Blend <- 5, TrimPercent <- 15

Reference == [depth : {0, 4, 9}, scale : {1, 5, 12}]
Scales == {[references |-> r, y |-> y] :
              r \in [1 .. 2 -> Reference] \cup [1 .. 3 -> Reference], y \in 0 .. 9}
Speeds == {[speeds |-> s, spike |-> spike] :
              s \in UNION {[1 .. n -> {10, 11, 13, 20}] : n \in 1 .. 4}, spike \in {40, 95}}

-----------------------------------------------------------------------------
(* Five clips, each with some of the states, three or more with each.       *)

\* random.Random(42).shuffle, for sequences of up to five.
Permutations42 == <<<<1>>, <<2, 1>>, <<2, 1, 3>>, <<3, 2, 4, 1>>, <<4, 2, 3, 5, 1>>>>
MCShuffled(s) == IF s = <<>> THEN s ELSE [i \in DOMAIN s |-> s[Permutations42[Len(s)][i]]]

H == INSTANCE HoldoutPartitions WITH
       States <- <<0, 1, 2>>, TestPercent <- 40, ValidationPercent <- 40,
       Shuffled <- MCShuffled

Clips(of) == UNION {{[group |-> g, minute |-> s, state |-> s] : s \in of[g]} : g \in DOMAIN of}
Reviews ==
    {rows \in {Clips(of) : of \in [1 .. 5 -> SUBSET (0 .. 2)]} : H!EnoughSupport(rows)}

\* Five clips with three of each state that can be divided, and are refused.
Refused == Clips(<<{0, 1, 2}, {1, 2}, {0, 2}, {0, 1}, {0}>>)
ASSUME ThreeClipsMayNotSuffice == ~H!ThreeClipsSuffice(Refused) /\ H!Divisible(Refused)

-----------------------------------------------------------------------------
(* A model that passes every gate at its limit, and what differs from it in  *)
(* the evidence of one metric, or in several of the other conditions.        *)

E == INSTANCE ModelEligibility

AtLimit(metric) ==
    IF metric \in DOMAIN E!MinimumLow
    THEN [point |-> 99, low |-> E!MinimumLow[metric], high |-> 100, fraction |-> 95]
    ELSE [point |-> 0, low |-> 0, high |-> E!MaximumHigh[metric], fraction |-> 95]
Evidence == [s \in E!Scopes |-> [m \in E!Required(s) |-> E!Grouped(AtLimit(m), 2)]]
Defects(metric) ==
    LET i == AtLimit(metric) IN
    {[i EXCEPT !.low = @ - 1], [i EXCEPT !.high = @ + 1, !.point = @ + 1],
     [i EXCEPT !.fraction = 94],
     [i EXCEPT !.point = E!Unknown, !.low = E!Unknown, !.high = E!Unknown]}

Candidate ==
    [mode |-> "hitl-retraining", proxies |-> {0}, support |-> [s \in 0 .. 2 |-> 300],
     schemas |-> {"v3"}, frozen |-> TRUE, coverage |-> 95000, fields |-> 95000,
     minutes |-> 100, clips |-> 20, alerts |-> 0, hours |-> 300, intervals |-> Evidence]
Trainings ==
    {[Candidate EXCEPT !.mode = mode, !.support[0] = support, !.schemas = schemas,
                       !.frozen = frozen] :
        mode \in {"seed-bootstrap", "hitl-retraining"}, support \in {299, 300},
        schemas \in {{"v2"}, {"v2", "v3"}, {"v3"}}, frozen \in BOOLEAN}
Models ==
    UNION {{[Candidate EXCEPT !.intervals[s][m] = E!Grouped(i, groups)] :
               i \in Defects(m) \cup {AtLimit(m)}, groups \in {1, 2}} :
           <<s, m>> \in {x \in E!Scopes \X DOMAIN (E!MinimumLow @@ E!MaximumHigh) :
                          x[2] \in E!Required(x[1])}}
    \cup {[c EXCEPT !.minutes = support[1], !.clips = support[2],
                    !.alerts = exposure[1], !.hours = exposure[2],
                    !.coverage = coverage, !.fields = fields] :
              c \in Trainings, support \in {<<100, 20>>, <<99, 20>>, <<100, 19>>},
              exposure \in {<<0, 0>>, <<0, 299>>, <<0, 300>>, <<1, 300>>, <<1, 474>>, <<1, 475>>},
              coverage \in {94994, 94996, 95000}, fields \in {94994, 94996}}

-----------------------------------------------------------------------------
(* Trainings with none, some or enough reviews of each state, and synthetic  *)
(* rows of Congested.                                                       *)

W == INSTANCE SupervisionWeights WITH
       Target <- [s \in 0 .. 2 |-> IF s = 2 THEN 2 ELSE 3], Unit <- 12000,
       SyntheticPercent <- 35, MaxClassWeight <- 4

Compositions ==
    {[mode |-> mode,
      rows |-> W!Table([s \in 0 .. 2 |-> human[s + 1]], [s \in 0 .. 2 |-> proxy[s + 1]],
                       [s \in 0 .. 2 |-> IF s = 2 THEN synthetic ELSE 0])] :
        mode \in {"seed-bootstrap", "hitl-retraining"},
        human \in {0, 2, 4} \X {0, 1, 3} \X {0, 1, 2},
        proxy \in {0, 6, 20} \X {0, 1} \X {0, 1}, synthetic \in {0, 1, 12}}

-----------------------------------------------------------------------------
(* Two sources of reviews, the second of them without what happened in other  *)
(* places; at most one has a defect.  The database's trigger keeps forks and   *)
(* rivals out of it, and only what no receipt binds is known by two names.     *)

R == INSTANCE FeedbackResolution

Chains == {{}, {"d1"}, {"d1", "d2"}, {"d1", "d2", "d3"}}
Held == {chain \cup fork \cup rest :
            chain \in Chains, fork \in {{}, {"d1", "fork"}, {"rival"}},
            rest \in {{}, {"twin"}, {"twin", "crash"}}}
Defective(has) == {R!Sound, <<"speed", R!Root>>}
                     \cup {<<kind, d>> : kind \in {"pending", "altered", "undeclared"}, d \in has}
Portable == {R!Holds("package", has, names, R!Sound) :
                has \in Held, names \in {"own", "again", "local"}}
Operated(helds) ==
    {R!Holds("package", has, names, R!Sound) : has \in helds, names \in {"own", "local"}}
    \cup {R!Holds(kind, has, "own", R!Sound) :
             kind \in {"database", "backup"},
             has \in {h \in helds : h # {} /\ h \cap {"fork", "rival"} = {}}}
Broken == {[s EXCEPT !.defect = d] : <<s, d>> \in
              {y \in Operated({{"d1"}, {"d1", "d2"}}) \X Defective({"d1", "d2"}) :
                  /\ y[2][2] \in y[1].has \cup {R!Root}
                  /\ y[2][1] = "undeclared" => y[1].kind = "package"}}
Sources ==
    {[origin |-> "portable", sources |-> {s, t}] : s \in Portable, t \in Portable}
    \cup {[origin |-> "postgresql", sources |-> {s, t}] :
             s \in Operated(Held), t \in Operated(Chains) \cup Broken}

-----------------------------------------------------------------------------
Ask(question, inputs) ==
    /\ minutes = <<>> /\ input = None
    /\ \E x \in inputs : input' = [asks |-> question, of |-> x]
    /\ UNCHANGED vars

AskFrame   == Ask("frame", Frames)
AskHeight  == Ask("height", 0 .. 99)
AskScale   == Ask("scale", Scales)
AskSpeed   == Ask("speed", Speeds)
AskHoldout == Ask("holdout", Reviews)
AskModel   == Ask("model", Models)
AskWeight  == Ask("weight", Compositions)
AskReviews == Ask("reviews", Sources)

MCInit == Init /\ input = None
MCNext ==
    \/ input = None /\ Next /\ UNCHANGED input
    \/ AskFrame \/ AskHeight \/ AskScale \/ AskSpeed \/ AskHoldout
    \/ AskModel \/ AskWeight \/ AskReviews
MCSpec == MCInit /\ [][MCNext]_<<vars, input>>

Asked(question) == input # None /\ input.asks = question

\* A second normalisation changes nothing, and two minutes share a segment exactly
\* if no gap and no change of identifier lies between them (continuity.py: raw
\* persistence, reconciliation, features and policy each normalise again).
ContinuityHolds ==
    Asked("frame") => F!NormalizesOnce(input.of) /\ F!SegmentsAreExact(input.of)

\* What is decided of a minute while the video runs is what the notebook decides of
\* the whole clip, and an accident of the training labels is one the policy can
\* raise (assert_progressive_batch_parity, ACCIDENT_GATE_MIN_EVIDENCE_SCORE).
MinutesDecideAlike ==
    Asked("frame") /\ F!Accepted(input.of) =>
        F!ProgressiveIsBatch(input.of) /\ F!MaskReachesGate(input.of)

\* No scale jumps on the way of a vehicle or is one nobody measured, and no isolated
\* reading makes the speed of a minute (get_perspective_factor, CameraCalibration,
\* robust_speed_summary).
SpeedsAreMeasured ==
    /\ Asked("height") => S!PerspectiveIsGradual(input.of)
    /\ Asked("scale") /\ S!Calibrated(input.of.references, 10)
         => S!ScaleIsMeasured(input.of.references, input.of.y)
    /\ Asked("speed") => S!SpikeIsIgnored(input.of.speeds, input.of.spike)

\* The first holdout leaves every state to training and to both of its partitions,
\* divides no clip, and is refused only for lack of clips or for clips that skip a
\* state (_select_groups reserves greedily, one state after another); and however what
\* is left is balanced, a person's label outweighs a rule's and synthetic rows never
\* carry the fit (build_supervision_weights, capped again after the balance).
TrainingIsFair ==
    /\ Asked("holdout") => H!SelectionIsFair(input.of)
    /\ Asked("weight") => W!PeopleOutweighRules(input.of)

\* However many sources hold the reviews, under whatever names and however late each
\* was taken, a training takes the last decision of each minute, or none at all if
\* people disagree, a decision is not audited or a source is a backup, whose audit is
\* not restored (resolve_effective_human_feedback, _frames_from_backup).
FeedbackIsResolved == Asked("reviews") => R!FeedbackIsOfTheLedger(input.of)

\* A model that calls itself production has earned every gate, and the trainer and
\* every reader of the bundle agree on it (the gates are written twice, in
\* training/eligibility.py and in the core's eligibility.py).
ProductionIsEarned ==
    Asked("model") => E!TrainerAndReaderAgree(input.of) /\ E!ServingIsEarned(input.of)
=============================================================================
