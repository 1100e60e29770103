--------------------------- MODULE FeedbackResolution ---------------------------
(***************************************************************************)
(* From what several sources hold of the human reviews to the one label a    *)
(* training takes for each minute.  A source is the database, a backup of it  *)
(* or a package of the catalog; each holds features, predictions of a model   *)
(* on them, and decisions, a decision superseding at most one earlier one.    *)
(* Sources overlap: one was taken later than the other, names the same row     *)
(* otherwise, or was written by a session that knew nothing of the other.      *)
(*                                                                         *)
(* Code: review_frames.py (packages), operational_frames.py and queries.py    *)
(* (database), review_audit.py (evidence), hitl_catalog.py (resolution).       *)
(*                                                                         *)
(* A schema, a clip and a continuity are the same throughout and left out of   *)
(* the identities; a fingerprint is what it is taken of.  The order of rows     *)
(* and packages matters to no row that survives the checks, so rows are sets.  *)
(***************************************************************************)
EXTENDS Integers, FiniteSets, Sequences, TLC

Missing == <<"missing">>
Components(features, predictions, validations) ==
    [features |-> features, predictions |-> predictions, validations |-> validations]
Ids(rows) == {r.id : r \in rows}

\* stable_uuid.
FeatureId(f) == <<"feature", f.run, f.minute>>
PredictionId(p) == <<"prediction", p.run, p.feature, p.revision>>

-----------------------------------------------------------------------------
(* What happened: models classified minutes and people decided.  d1 was      *)
(* corrected by d2 and d2 by d3; another session, apart, superseded d1 too    *)
(* (fork) or decided as if nobody had (rival).  twin is of another model's    *)
(* prediction of the minute, crash of another minute.                        *)

Run == <<"run">>
Prediction == [p1 |-> [minute |-> 1, revision |-> "A"], p2 |-> [minute |-> 1, revision |-> "B"],
               p3 |-> [minute |-> 2, revision |-> "A"]]
Root == "none"
Decided(p, state, parent) == [of |-> p, state |-> state, parent |-> parent]
Decision == [d1    |-> Decided("p1", 0, Root),  d2   |-> Decided("p1", 1, "d1"),
             d3    |-> Decided("p1", 2, "d2"),  fork |-> Decided("p1", 1, "d1"),
             rival |-> Decided("p1", 0, Root),  twin |-> Decided("p2", 2, Root),
             crash |-> Decided("p3", 3, Root)]

(* A source has a kind, the decisions it holds (and their predecessors), and  *)
(* perhaps a defect: a decision whose audit never finished, one changed        *)
(* after it was audited, one its manifest leaves out, another speed; "again"    *)
(* names the decisions, and "local" the other rows, with identifiers of its own.*)
Holds(kind, has, names, defect) ==
    [kind |-> kind, has |-> has, names |-> names, defect |-> defect]
Sound == <<"none", Root>>

Operational(p) == <<"row", p>>
Named(s, d) == IF d = Root THEN Missing ELSE IF s.names = "again" THEN <<d, "again">> ELSE <<d>>
State(s, d) == IF s.defect = <<"altered", d>> THEN 3 - Decision[d].state ELSE Decision[d].state
Complete(s, d) == s.defect # <<"pending", d>>
Speed(s) == IF s.defect[1] = "speed" THEN 2 ELSE 1
ReviewRun(d) == <<"review", d>>

-----------------------------------------------------------------------------
(* Evidence.                                                                *)

\* _decision_receipt_payload.
Payload(v, operational) ==
    <<v.id, operational, v.state, v.context, v.parent, v.run>>

\* What the receipt of a decision was taken of, when it was stored.
Receipt(s, d) ==
    <<Named(s, d), Operational(Decision[d].of), Decision[d].state, TRUE,
      Named(s, Decision[d].parent), ReviewRun(d)>>

\* ReviewAuditEvidence and validate_review_audit.
IsAudited(v, predictions) ==
    /\ v.complete
    /\ IF v.origin = "postgresql"
       THEN \E p \in predictions : p.id = v.prediction /\ v.receipt = Payload(v, p.operational)
       ELSE v.receipt = Missing
ReviewIsAudited(c) == \A v \in c.validations : IsAudited(v, c.predictions)

\* build_review_audit_manifest; validate_review_audit_manifest compares it.
Manifest(validations) ==
    {[validation |-> v.id, origin |-> v.origin, complete |-> v.complete, run |-> v.run,
      receipt |-> v.receipt] : v \in validations}

-----------------------------------------------------------------------------
(* A package: normalize_review_frames of a session.                         *)

NormalizedFeatures(s) ==
    {LET f == [run |-> Run, minute |-> m, speed |-> IF m = 1 THEN Speed(s) ELSE 1]
     IN  f @@ [id |-> FeatureId(f)] : m \in {1, 2}}
NormalizedPredictions(s, features) ==
    {LET p == Prediction[n]
         of == CHOOSE f \in features : f.minute = p.minute
         row == [feature |-> of.id, run |-> Run, revision |-> p.revision,
                 operational |-> Operational(n)]
     IN  row @@ [id |-> PredictionId(row)] : n \in DOMAIN Prediction}
\* A decision takes the portable identity of the prediction it names, which must be
\* of the session; an accident needs its context.
NormalizedValidations(s, origin, predictions) ==
    {[id |-> Named(s, d), parent |-> Named(s, Decision[d].parent), run |-> ReviewRun(d),
      prediction |-> (CHOOSE p \in predictions : p.operational = Operational(Decision[d].of)).id,
      state |-> State(s, d), context |-> TRUE, at |-> d,
      origin |-> origin, complete |-> Complete(s, d),
      receipt |-> IF origin = "postgresql" THEN Receipt(s, d) ELSE Missing] : d \in s.has}
Packaged(s, origin) ==
    LET features == NormalizedFeatures(s)
        predictions == NormalizedPredictions(s, features)
    IN  Components(features, predictions, NormalizedValidations(s, origin, predictions))

\* The identifiers an earlier version gave to the rows of a package.
Localized(c) ==
    LET local(id) == <<"local">> \o id IN
    Components({[f EXCEPT !.id = local(@)] : f \in c.features},
               {[p EXCEPT !.id = local(@), !.feature = local(@)] : p \in c.predictions},
               {[v EXCEPT !.prediction = local(@)] : v \in c.validations})

-----------------------------------------------------------------------------
(* The database, or a backup: rows under their keys and a run of each review. *)

Table(s) ==
    LET c == Packaged(s, "postgresql") IN
    Components({[f EXCEPT !.id = <<"row", f.minute>>] : f \in c.features},
               {[p EXCEPT !.id = p.operational,
                          !.feature = <<"row", (CHOOSE f \in c.features : f.id = p.feature).minute>>] :
                   p \in c.predictions},
               {[v EXCEPT !.prediction = Operational(Decision[v.at].of)] : v \in c.validations})
\* The run of a review in the ledger: a decision whose audit never finished has one
\* without a receipt.
Ledger(s) ==
    [r \in {ReviewRun(d) : d \in s.has} |->
        LET d == CHOOSE d \in s.has : ReviewRun(d) = r IN
        [status |-> IF Complete(s, d) THEN "succeeded" ELSE "started",
         receipt |-> IF Complete(s, d) THEN Receipt(s, d) ELSE Missing]]

\* _raise_for_pending_human_audits and _verified_review_fingerprints.
DatabaseIsAudited(c, ledger) ==
    \A v \in c.validations :
        v.run \in DOMAIN ledger /\ ledger[v.run].status = "succeeded"
        /\ ledger[v.run].receipt # Missing
\* Of a backup only the recognized tables are restored (_RECOGNIZED_BACKUP_TABLES,
\* _frames_from_backup), and those of the ledger are asked for but not among them.
FeedbackTables == {"features", "predictions", "validations", "runs", "receipts"}
RecognizedTables == {"raw", "features", "predictions", "validations"}
Restored(s) ==
    IF {"runs", "receipts"} \subseteq FeedbackTables \cap RecognizedTables
    THEN Ledger(s) ELSE [r \in {} |-> Missing]

\* verify_backup_review_audit: the receipt must also be of this very row.
BackupIsAudited(c, ledger) ==
    /\ c.validations # {}
    /\ DatabaseIsAudited(c, ledger)
    /\ \A v \in c.validations : ledger[v.run].receipt = Payload(v, v.prediction)

\* load_human_feedback_components attaches the evidence; portable_feedback_components
\* replaces the keys.
PortableComponents(c, ledger) ==
    LET feature(key) == FeatureId(CHOOSE f \in c.features : f.id = key)
        portable(p) == [p EXCEPT !.feature = feature(@),
                                 !.id = PredictionId([p EXCEPT !.feature = feature(@)])]
        prediction(key) == portable(CHOOSE p \in c.predictions : p.id = key).id
    IN  Components({[f EXCEPT !.id = FeatureId(f)] : f \in c.features},
                   {portable(p) : p \in c.predictions},
                   {[v EXCEPT !.prediction = prediction(@), !.origin = "postgresql",
                              !.complete = TRUE, !.receipt = ledger[v.run].receipt] :
                       v \in c.validations})

-----------------------------------------------------------------------------
(* _load_feedback_components.                                               *)

Loaded(s, origin) ==
    LET table == Table(s)
        package == Packaged(s, origin)
    IN  CASE s.kind \in {"database", "backup"} -> PortableComponents(table, Ledger(s))
          [] s.kind = "package" -> IF s.names = "local" THEN Localized(package) ELSE package
LoadAccepts(s, origin) ==
    LET audited == ReviewIsAudited(Loaded(s, origin))
        declared == {v \in Packaged(s, origin).validations : s.defect # <<"undeclared", v.at>>}
    IN  CASE s.kind = "database" -> DatabaseIsAudited(Table(s), Ledger(s)) /\ audited
          [] s.kind = "backup" -> BackupIsAudited(Table(s), Restored(s)) /\ audited
          [] s.kind = "package" ->
               audited /\ Manifest(declared) = Manifest(Loaded(s, origin).validations)

-----------------------------------------------------------------------------
(* resolve_effective_human_feedback.                                        *)

\* _deduplicate_uuid_rows: rows of one identifier must not contradict each other.
OneRowPerId(rows) == Cardinality(Ids(rows)) = Cardinality(rows)

\* _canonicalize_feature_identities, _canonicalize_prediction_identities: the row a
\* source named otherwise is the one it describes; its own name stays as lineage.
FeatureAlias(features) == [id \in Ids(features) |-> FeatureId(CHOOSE f \in features : f.id = id)]
CanonicalFeatures(features) == {[f EXCEPT !.id = FeatureId(f)] : f \in features}
Referring(predictions, alias) ==
    {[id |-> p.id, feature |-> IF p.feature \in DOMAIN alias THEN alias[p.feature] ELSE p.feature,
      run |-> p.run, revision |-> p.revision] : p \in predictions}
PredictionAlias(predictions) ==
    [id \in Ids(predictions) |-> PredictionId(CHOOSE p \in predictions : p.id = id)]
CanonicalPredictions(predictions) == {[p EXCEPT !.id = PredictionId(p)] : p \in predictions}

\* _deduplicate_equivalent_validations: decisions with the same content, their
\* predecessor included, are one; whoever superseded one of them supersedes it.
Equivalent(v, w) ==
    \A field \in DOMAIN v \ {"id", "run", "sources"} : v[field] = w[field]
Layer(validations) ==
    LET same(v) == {w \in validations : Equivalent(v, w)}
        head(v) == CHOOSE w \in same(v) : TRUE
        alias(id) == IF id = Missing THEN id
                     ELSE LET named == {v \in validations : v.id = id}
                          IN  IF named = {} THEN id ELSE head(CHOOSE v \in named : TRUE).id
    IN  {[head(v) EXCEPT !.sources = UNION {w.sources : w \in same(v)},
                         !.parent = alias(@)] : v \in validations}

\* Mutant: corrections of a decision known by two names are not looked at again.
LayersOnce(validations) == Layer(validations)
\* _deduplicate_validation_alias_layers: from the roots to their corrections.
Layers(validations) ==
    LET pass[n \in 0 .. Cardinality(validations)] ==
            IF n = 0 THEN validations ELSE Layer(pass[n - 1])
    IN  pass[Cardinality(validations)]

\* _resolve_validation_graph and what it calls.
Children(v, validations) == {w \in validations : w.parent = v.id}
Roots(validations) == {v \in validations : v.parent = Missing}
Reached(validations) ==
    LET from[n \in 0 .. Cardinality(validations)] ==
            IF n = 0 THEN Roots(validations)
            ELSE from[n - 1] \cup UNION {Children(v, validations) : v \in from[n - 1]}
    IN  from[Cardinality(validations)]
\* The domain of a decision: an accident was reviewed in its temporal context.
Decidable(v) == v.state \in 0 .. 3 /\ (v.state = 3 => v.context)
IsGraph(validations) ==
    /\ \A v \in validations : v.parent # Missing =>
          \E w \in validations : w.id = v.parent /\ w.prediction = v.prediction
    /\ \A v \in validations : Cardinality(Children(v, validations)) <= 1
    /\ \A v \in validations :
          Cardinality({w \in Roots(validations) : w.prediction = v.prediction}) = 1
    /\ Reached(validations) = validations
Leaves(validations) == {v \in validations : Children(v, validations) = {}}

Refused == [ok |-> FALSE, rows |-> {}]
\* _join_lineage_values over a minute.
Joined(rows, field) == UNION {r[field] : r \in rows}
ByMinute(rows) ==
    LET of(r) == {q \in rows : q.minute = r.minute}
    IN  {[r EXCEPT !.predictions = Joined(of(r), "predictions"),
                   !.validations = Joined(of(r), "validations")] : r \in rows}

Resolve(c) ==
    LET features == CanonicalFeatures(c.features)
        referring == Referring(c.predictions, FeatureAlias(c.features))
        predictions == CanonicalPredictions(referring)
        alias == PredictionAlias(referring)
        decisions == {[v EXCEPT !.prediction = IF @ \in DOMAIN alias THEN alias[@] ELSE @] :
                         v \in c.validations}
        history == Layers({v @@ [sources |-> {v.id}] : v \in decisions})
        names(p) == {id \in DOMAIN alias : alias[id] = p.id}
        row(v, p, f) == [minute |-> f.minute, speed |-> f.speed, state |-> v.state,
                         predictions |-> names(p), validations |-> v.sources]
        feedback == {row(v, CHOOSE p \in predictions : p.id = v.prediction,
                         CHOOSE f \in features :
                            f.id = (CHOOSE p \in predictions : p.id = v.prediction).feature) :
                        v \in Leaves(history)}
    IN  IF c.validations = {} THEN [ok |-> TRUE, rows |-> {}]
        ELSE IF \/ \E rows \in {c.features, features, referring, predictions, decisions} :
                        ~OneRowPerId(rows)
                \/ ~({p.feature : p \in predictions} \subseteq Ids(features))
                \/ ~({v.prediction : v \in history} \subseteq Ids(predictions))
                \/ ~(\A v \in history : Decidable(v))
                \/ ~IsGraph(history)
                \/ \E r, q \in feedback :
                        r.minute = q.minute /\ <<r.speed, r.state>> # <<q.speed, q.state>>
        THEN Refused
        ELSE [ok |-> TRUE, rows |-> ByMinute(feedback)]

\* load_training_inputs: all the sources are resolved as one.
Feedback(x) ==
    LET loaded == {Loaded(s, x.origin) : s \in x.sources} IN
    IF \A s \in x.sources : LoadAccepts(s, x.origin)
    THEN Resolve(Components(UNION {c.features : c \in loaded},
                            UNION {c.predictions : c \in loaded},
                            UNION {c.validations : c \in loaded}))
    ELSE Refused

-----------------------------------------------------------------------------
(* What a training is owed.                                                 *)

Known(x) == UNION {s.has : s \in x.sources}
Latest(x) == {d \in Known(x) : \A e \in Known(x) : Decision[e].parent # d}
Minute(d) == Prediction[Decision[d].of].minute

\* Nobody decided apart from the others, the models' minutes agree, and every
\* source is whole.
Unanimous(x) ==
    /\ \A s \in x.sources : s.defect[1] \in {"none", "speed"}
    /\ \A d, e \in Known(x) : d # e => <<Decision[d].of, Decision[d].parent>>
                                          # <<Decision[e].of, Decision[e].parent>>
    /\ \A d, e \in Latest(x) : Minute(d) = Minute(e) => Decision[d].state = Decision[e].state
    /\ Known(x) # {} => Cardinality({Speed(s) : s \in x.sources}) = 1

\* No backup shows the receipts of its decisions.
Verifiable(x) == \A s \in x.sources : s.kind # "backup"

\* Whatever the sources are and however they overlap, a training takes the last
\* decision of every minute, of one correction chain, under every name a source gave
\* it; and it takes nothing at all as soon as two people disagree without one having
\* seen the other, an audit is unfinished, a row was changed after it was audited, or
\* one of the sources is a backup, a sound one too
\* (resolve_effective_human_feedback over the sources of load_training_inputs).
FeedbackIsOfTheLedger(x) ==
    LET result == Feedback(x) IN
    /\ result.ok <=> Unanimous(x) /\ Verifiable(x)
    /\ result.ok =>
        /\ {<<r.minute, r.state>> : r \in result.rows}
             = {<<Minute(d), Decision[d].state>> : d \in Latest(x)}
        /\ \A r \in result.rows :
             r.validations = {Named(s, d) : <<s, d>> \in
                                {y \in x.sources \X Latest(x) : y[2] \in y[1].has /\ Minute(y[2]) = r.minute}}
=============================================================================
