---------------------------- MODULE ModelEligibility ----------------------------
(***************************************************************************)
(* When a trained model may call itself a production model.  The question   *)
(* is answered twice by code that shares only its thresholds: by the         *)
(* trainer, which turns its evidence into blockers and a lifecycle           *)
(* (training/eligibility.py, lifecycle.py), and by the manifest validator    *)
(* every reader of a bundle runs (artifact_validation.py, core               *)
(* eligibility.py).                                                         *)
(*                                                                         *)
(* Rates are integers in hundredths, coverage in hundred-thousandths.       *)
(* Unknown is a value that is not finite: NaN to the trainer, null in the   *)
(* manifest.  A digest is its content.                                      *)
(***************************************************************************)
EXTENDS Integers, FiniteSets, TLC

Unknown == -1
NoAlgorithm == "none"

Scopes == {"direct", "final"}
\* The least lower limit of a metric, and the greatest upper one.
MinimumLow == [f1_macro |-> 88,
               precision_normal |-> 93, precision_reduced |-> 88, precision_congested |-> 90,
               recall_normal |-> 93, recall_reduced |-> 90, recall_congested |-> 85]
MaximumHigh == [normal_congested_error |-> 1, ece |-> 5]
Required(scope) ==
    DOMAIN MinimumLow \cup (IF scope = "final" THEN DOMAIN MaximumHigh ELSE {"normal_congested_error"})

\* The lower limit of a rate that should be high, the upper one of an error.
PassesGate(metric, i) ==
    IF metric \in DOMAIN MinimumLow THEN i.low >= MinimumLow[metric]
                                    ELSE i.high <= MaximumHigh[metric]

\* grouped_classification_intervals: whole clips are drawn, and at least 95 % of the
\* samples must have been able to compute the metric.
Grouped(interval, groups) ==
    interval @@ [groups |-> groups, sufficient |-> groups >= 2 /\ interval.fraction >= 95]

\* false_alert_rate_upper_bound: half the 95 % quantile of chi-square, in
\* ten-thousandths, for none, one and two alerts.
UpperCount == <<29957, 47439, 62958>>
\* Without exposure there is no bound, and it passes no limit.
UpperBound(alerts, hours) ==
    [count |-> IF hours = 0 THEN 0 ELSE UpperCount[alerts + 1], hours |-> hours]
\* Below one false candidate in a hundred hours.
BelowLimit(upper) == upper.count * 100 < upper.hours * 10000

-----------------------------------------------------------------------------
(* The trainer.  A candidate has: mode; proxies, the states of its proxy    *)
(* rows, and support, its human rows of each state; schemas, of its          *)
(* training rows; frozen, whether its test is a frozen human one; coverage   *)
(* and fields, of the audit; minutes and clips of Congested; alerts and      *)
(* hours of reliable exposure; groups; intervals of each scope and metric.   *)

HumanSupportTargets == <<300, 300, 100>>

\* In thousandths: 0.5 * max(0, 1 - support / target).
ProxyMemoryWeight(state, support) ==
    LET target == HumanSupportTargets[state + 1]
        left == target - support[state]
    IN  IF left <= 0 THEN 0 ELSE (500 * left) \div target

InputPolicy(c) ==
    IF c.mode = "seed-bootstrap" \/ \E s \in c.proxies : ProxyMemoryWeight(s, c.support) > 0
    THEN "legacy-v1-bootstrap"
    ELSE IF c.schemas = {"v2"} THEN "canonical-v2" ELSE "canonical-v3"

\* round(coverage, 4), as the report keeps it.
Rounded(coverage) == ((coverage + 5) \div 10) * 10

\* The names of the conditions that hold.
Holding(conditions) == {<<name>> : name \in {n \in DOMAIN conditions : conditions[n]}}

\* audit_training_dataset judges the exact coverage of the schema and the rounded
\* one of the quality fields.
DatasetBlockers(c) ==
    Holding([schema |-> c.coverage < 95000, fields |-> Rounded(c.fields) < 95000])

ValidIntervalRow(i) ==
    /\ i.groups >= 2
    /\ 0 <= i.low /\ i.low <= i.point /\ i.point <= i.high /\ i.high <= 100

\* Evidence that is not well formed is an error, not a blocker.
Evaluable(c) == \A s \in Scopes : \A m \in Required(s) : ValidIntervalRow(c.intervals[s][m])

FailedGates(c) ==
    {x \in Scopes \X (DOMAIN MinimumLow \cup DOMAIN MaximumHigh) :
        LET i == c.intervals[x[1]][x[2]] IN
        x[2] \in Required(x[1]) /\ ~(i.sufficient /\ PassesGate(x[2], i))}

\* Mutant: the rate of false candidates is judged instead of its upper bound.
CandidateBlockersByRate(c) ==
    Holding([seed      |-> c.mode = "seed-bootstrap",
             holdout   |-> ~c.frozen,
             support   |-> c.minutes < 100 \/ c.clips < 20,
             exposure  |-> c.hours < 300,
             alerts    |-> c.hours >= 300 /\ c.alerts * 100 >= c.hours])
CandidateBlockers(c) ==
    Holding([seed      |-> c.mode = "seed-bootstrap",
             holdout   |-> ~c.frozen,
             support   |-> c.minutes < 100 \/ c.clips < 20,
             exposure  |-> c.hours < 300,
             alerts    |-> c.hours >= 300 /\ ~BelowLimit(UpperBound(c.alerts, c.hours))])

\* evaluate_candidate_eligibility.
PromotionBlockers(c) == DatasetBlockers(c) \cup FailedGates(c) \cup CandidateBlockers(c)

Eligible(c) == Evaluable(c) /\ PromotionBlockers(c) = {} /\ c.mode = "hitl-retraining"

\* build_training_lifecycle.
Lifecycle(c) ==
    LET seed == c.mode = "seed-bootstrap" IN
    [mode |-> c.mode, input |-> InputPolicy(c),
     supervision |-> IF seed THEN "weak-proxy" ELSE "human-validated-with-proxy-memory",
     stage |-> IF seed THEN "pilot" ELSE IF Eligible(c) THEN "production" ELSE "candidate",
     eligible |-> ~seed /\ Eligible(c)]

-----------------------------------------------------------------------------
(* The bundle.                                                              *)

\* calculate_model_revision: what serving depends on, and nothing else.
Revision(entries, policy, lock, input) ==
    [entries |-> entries, policy |-> policy, lock |-> lock, input |-> input]

\* create_manifest over the files, thresholds and input lock of the training.
Bundle(c) ==
    LET lifecycle == Lifecycle(c) IN
    [files |-> "trained", entries |-> "trained", policy |-> "chosen", lock |-> "sealed",
     algorithm |-> "v2", lifecycle |-> lifecycle,
     revision |-> Revision("trained", "chosen", "sealed", lifecycle.input),
     intervals |-> c.intervals,
     points |-> [f1_macro |-> c.intervals["final"]["f1_macro"].point,
                 ece |-> c.intervals["final"]["ece"].point],
     minutes |-> c.minutes, clips |-> c.clips, hours |-> c.hours, alerts |-> c.alerts,
     rate |-> [count |-> c.alerts, hours |-> c.hours],
     upper |-> UpperBound(c.alerts, c.hours),
     holdout |-> c.frozen, descriptor |-> c.frozen, whole |-> TRUE, coverage |-> Rounded(c.coverage),
     blockers |-> PromotionBlockers(c),
     metricEligible |-> Eligible(c), provenanceEligible |-> Eligible(c)]

\* _interval_errors: the manifest alone, without the vectors it was computed from.
IntervalIsProven(metric, i) ==
    /\ i.sufficient /\ i.groups >= 2 /\ i.fraction >= 95
    /\ ValidIntervalRow(i) /\ PassesGate(metric, i)

\* production_evidence_errors finds none.
ProductionEvidence(b) ==
    /\ b.lifecycle.mode = "hitl-retraining" /\ b.lifecycle.input = "canonical-v3"
    /\ b.holdout /\ b.blockers = {}
    /\ b.coverage >= 95000 /\ b.minutes >= 100 /\ b.clips >= 20 /\ b.hours >= 300
    /\ BelowLimit(b.upper)
    /\ b.rate.count * b.hours = b.alerts * b.rate.hours
    /\ \A s \in Scopes : \A m \in Required(s) : IntervalIsProven(m, b.intervals[s][m])
    /\ \A m \in DOMAIN b.points : b.points[m] = b.intervals["final"][m].point

\* A revision from before the algorithm was declared is read for history alone.
Historical(b) == b.algorithm = NoAlgorithm

LifecycleIsLawful(l) ==
    /\ l.stage \in {"pilot", "candidate", "production"}
    /\ l.mode = "seed-bootstrap" =>
         /\ l.stage = "pilot" /\ ~l.eligible
         /\ l.supervision = "weak-proxy" /\ l.input = "legacy-v1-bootstrap"
    /\ l.mode = "hitl-retraining" =>
         /\ l.stage \in {"candidate", "production"}
         /\ l.supervision = "human-validated-with-proxy-memory"
         /\ l.eligible => l.input = "canonical-v3"

EligibilityIsLawful(b) ==
    /\ b.metricEligible = b.provenanceEligible /\ b.lifecycle.eligible = b.metricEligible
    /\ b.lifecycle.stage = "production" => b.metricEligible
    /\ b.metricEligible /\ ~Historical(b) => ProductionEvidence(b)

FilesAreExact(b) ==
    /\ b.files = b.entries
    /\ Historical(b) \/ b.revision = Revision(b.entries, b.policy, b.lock, b.lifecycle.input)

\* Every section there, with the fields and types that its readers take for granted.
SectionsAreWhole(b) == b.whole /\ b.points.f1_macro # Unknown

\* The descriptor of the snapshot goes with the claim of a frozen holdout.
HoldoutIsDescribed(b) == b.holdout = b.descriptor

\* validate_manifest.
ManifestIsValid(b, history) ==
    /\ Historical(b) => history
    /\ SectionsAreWhole(b) /\ HoldoutIsDescribed(b)
    /\ LifecycleIsLawful(b.lifecycle) /\ EligibilityIsLawful(b) /\ FilesAreExact(b)

\* authorize_bundle.
Authorized(b, session) ==
    /\ b.lifecycle.stage = "pilot" => session.pilots
    /\ b.lifecycle.stage = "candidate" => session.experiments /\ ~session.persists

\* load_traffic_bundle.
Loads(b, session) ==
    /\ ~(session.history /\ session.persists)
    /\ ManifestIsValid(b, session.history) /\ Authorized(b, session)

-----------------------------------------------------------------------------
(* A bundle some time after it was written.                                 *)

Changes == {"none", "file", "retrained file", "thresholds", "input", "lock",
            "promoted", "cleared", "alerts", "points", "undescribed", "incomplete",
            "before algorithms"}
Changed(b, change) ==
    CASE change = "none"           -> b
      [] change = "file"           -> [b EXCEPT !.files = "other"]
      [] change = "retrained file" -> [b EXCEPT !.files = "other", !.entries = "other"]
      [] change = "thresholds"     -> [b EXCEPT !.policy = "other"]
      [] change = "lock"           -> [b EXCEPT !.lock = "other"]
      [] change = "input"          -> [b EXCEPT !.lifecycle.input = "canonical-v3"]
      [] change = "promoted" ->
            [b EXCEPT !.lifecycle.stage = "production", !.lifecycle.eligible = TRUE,
                      !.metricEligible = TRUE, !.provenanceEligible = TRUE]
      [] change = "cleared" ->
            [b EXCEPT !.lifecycle.stage = "production", !.lifecycle.eligible = TRUE,
                      !.metricEligible = TRUE, !.provenanceEligible = TRUE, !.blockers = {}]
      [] change = "alerts" -> [b EXCEPT !.alerts = @ + 1]
      [] change = "points" -> [b EXCEPT !.points.f1_macro = @ + 1]
      [] change = "undescribed" -> [b EXCEPT !.descriptor = ~@]
      [] change = "incomplete"  -> [b EXCEPT !.whole = FALSE]
      [] change = "before algorithms" -> [b EXCEPT !.algorithm = NoAlgorithm]

Sessions == [history : BOOLEAN, pilots : BOOLEAN, experiments : BOOLEAN, persists : BOOLEAN]

\* What the gates say of the training itself, whoever judges them.
Earned(c) ==
    /\ c.mode = "hitl-retraining" /\ c.frozen
    /\ Rounded(c.coverage) >= 95000 /\ c.minutes >= 100 /\ c.clips >= 20
    /\ c.hours >= 300 /\ UpperCount[c.alerts + 1] < 100 * c.hours
    /\ \A s \in Scopes : \A m \in Required(s) :
         LET i == c.intervals[s][m] IN
         /\ i.groups >= 2 /\ i.fraction >= 95 /\ i.low # Unknown
         /\ i.low >= IF m \in DOMAIN MinimumLow THEN MinimumLow[m] ELSE 0
         /\ i.high <= IF m \in DOMAIN MaximumHigh THEN MaximumHigh[m] ELSE 100

\* Whatever the trainer makes of a candidate is a bundle the validator accepts, with
\* the stage the trainer chose; but for the one input policy the trainer does not
\* look at, which the validator refuses (build_training_lifecycle,
\* _validate_lifecycle_values).
TrainerAndReaderAgree(c) ==
    Evaluable(c) =>
        (ManifestIsValid(Bundle(c), FALSE)
           <=> (Lifecycle(c).eligible => InputPolicy(c) = "canonical-v3"))

\* What serves as production has earned it, though its manifest was edited; what
\* persists predictions is that or a pilot someone allowed; and what serves outside
\* history is, byte for byte and threshold for threshold, what was trained.
ServingIsEarned(c) ==
    Evaluable(c) =>
        \A change \in Changes, session \in Sessions :
            LET b == Changed(Bundle(c), change) IN
            Loads(b, session) =>
                /\ b.lifecycle.stage = "production" /\ ~session.history => Earned(c)
                /\ session.persists =>
                     \/ b.lifecycle.stage = "production" /\ Earned(c)
                     \/ b.lifecycle.stage = "pilot" /\ session.pilots
                /\ ~session.history =>
                     /\ <<b.files, b.policy, b.lock>> = <<"trained", "chosen", "sealed">>
                     /\ b.lifecycle.input = InputPolicy(c)
=============================================================================
