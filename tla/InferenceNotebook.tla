--------------------------- MODULE InferenceNotebook ---------------------------
(***************************************************************************)
(* The inference notebook: a video is analysed, classified, stored, reviewed  *)
(* and its review sealed, each in a cell.  Cells may be run again, left out,    *)
(* run out of order, fail or be interrupted, and what an earlier one left on    *)
(* the screen (a form, a function) can still be used.                          *)
(*                                                                         *)
(* A cell is one action: the kernel runs one at a time and serves the forms in  *)
(* between.  A reading of the database is as good as its answer; a decision is   *)
(* one per session (module ReviewSession has the many), and the transactions   *)
(* are those of RunLedger and TelemetryBatches, reduced to how they may end.    *)
(*                                                                         *)
(* Code: analyze_traffic_video.ipynb, workflow_state.py, review_orchestration.  *)
(***************************************************************************)
EXTENDS Naturals, Sequences, FiniteSets

CONSTANTS
    Models,       \* the bundles the notebook may load
    Candidates,   \* those without approval
    Configs,      \* the configurations of the editable cell
    MaxRuns, MaxAttempts, MaxSessions,   \* bounds on what is numbered
    MaxPackages,  \* and on the packages, which nothing here reads again
    Null

VARIABLES
    config,       \* WORKFLOW_CONFIG
    bundle,       \* the model loaded, if any
    analysis,     \* LOCAL_INFERENCE_RUN_ID, the run of analysis_result
    state,        \* INFERENCE_STATE
    pipelineRun,  \* INFERENCE_PIPELINE_RUN_ID
    sessions,     \* every review session so far, those of forms still on screen
    exported,     \* the session of REVIEW_EXPORT_FRAME, if any
    functions,    \* the functions the cells have defined: recover, finalize
    manifests,    \* the runs with a manifest of a persistence stage that succeeded
    db,           \* vaaet_ops.pipeline_runs with the receipt of each
    packages,     \* the sealed packages
    used          \* runs and attempts numbered so far

notebook == <<config, bundle, analysis, state, pipelineRun, sessions, exported, functions>>
vars == <<notebook, manifests, db, packages, used>>

Runs == 1 .. MaxRuns
\* The rows of a classification: the telemetry of a run and the model that read it.
Rows == [run : Runs, model : Models]

ASSUME ConstantsAreSound ==
    /\ Candidates \subseteq Models
    /\ {MaxRuns, MaxAttempts, MaxSessions, MaxPackages} \subseteq Nat \ {0}
    /\ Configs \subseteq [experimental : BOOLEAN, persist : BOOLEAN, review : BOOLEAN]
    /\ Null \notin Rows

NoRun == [status |-> "absent", model |-> Null, receipt |-> Null]
NoFunctions == [recover |-> Null, finalize |-> Null]

-----------------------------------------------------------------------------
(* InferenceExecutionState.                                                 *)

Attempt(number, run) ==
    [attempt |-> number, run |-> run, status |-> "classifying", rows |-> Null,
     persistence |-> "not-requested", audit |-> FALSE]
Failed(s) == [s EXCEPT !.status = "failed", !.rows = Null,
                       !.persistence = "not-requested", !.audit = FALSE]
CanPersist(s) == s # Null /\ s.status = "ready"

Begin(s) == [s EXCEPT !.persistence = "running", !.audit = FALSE]
\* Mutant: whatever was stored counts as audited.
CompleteAsStored(s, audit) == [s EXCEPT !.persistence = "succeeded", !.audit = TRUE]
Complete(s, audit) == [s EXCEPT !.persistence = "succeeded", !.audit = audit]
FailPersistence(s) == [s EXCEPT !.persistence = "failed", !.audit = FALSE]

CanReview(s, required) ==
    CanPersist(s) /\ (required => s.persistence = "succeeded" /\ s.audit)

-----------------------------------------------------------------------------
(* The database, as persist_classified_telemetry under pipeline_run sees it. *)

Opens(entry, model) == entry.status = "absent" \/ entry.model = model
Opened(entry, model) ==
    IF entry.status = "absent" THEN [status |-> "running", model |-> model, receipt |-> Null]
    ELSE entry
\* The rows are of the model the run declares, and their receipt is new or the one
\* there is.
Stores(entry, rows) ==
    /\ rows.model = entry.model
    /\ entry.receipt = rows \/ (entry.receipt = Null /\ entry.status = "running")
Closed(entry, status) ==
    IF entry.status = "running" THEN [entry EXCEPT !.status = status] ELSE entry
Closes(entry) == entry.status \in {"running", "succeeded"}

\* Where the work of the persistence cell may end, and as what: "cut" is the
\* interruption of the user, which no `except Exception` sees.
Endings(entry, rows, model) ==
    LET run == Opened(entry, model)
        full == [run EXCEPT !.receipt = rows]
        stopped(e) == {<<e, "cut">>, <<e, "error">>, <<Closed(e, "failed"), "error">>}
    IN  {<<entry, "cut">>, <<entry, "error">>}
        \cup (IF Opens(entry, model) THEN stopped(run) ELSE {})
        \cup (IF Opens(entry, model) /\ Stores(run, rows)
              THEN stopped(full) \cup {<<full, "unaudited">>} ELSE {})
        \cup (IF Opens(entry, model) /\ Stores(run, rows) /\ Closes(full)
              THEN {Closed(full, "succeeded")} \X {"cut", "unaudited", "audited"} ELSE {})

-----------------------------------------------------------------------------
(* The sessions.                                                            *)

Session(attempt, run, rows, origin) ==
    [attempt |-> attempt, run |-> run, rows |-> rows, origin |-> origin, reviewed |-> "none"]

\* Mutant: a form belongs to whatever was classified last.
IsCurrentOfAny(s) == CanReview(state, config.persist)
\* _review_is_current, the guard of every use of a session.
IsCurrent(s) ==
    /\ state # Null /\ state.attempt = s.attempt
    /\ CanReview(state, config.persist)

-----------------------------------------------------------------------------
(* The cells.                                                               *)

Init ==
    /\ config \in Configs /\ bundle = Null /\ analysis = Null /\ state = Null
    /\ pipelineRun = Null /\ sessions = <<>> /\ exported = Null /\ functions = NoFunctions
    /\ manifests = {} /\ db = [r \in Runs |-> NoRun] /\ packages = {}
    /\ used = [runs |-> 0, attempts |-> 0]

\* The editable cell: what is loaded, classified or on screen stays as it is.
Configure(c) ==
    /\ config' = c
    /\ UNCHANGED <<bundle, analysis, state, pipelineRun, sessions, exported, functions,
                   manifests, db, packages, used>>

\* load_traffic_bundle; a refused bundle leaves the last one in place.  Pilots are
\* allowed by every configuration here.
Authorized(m) == m \in Candidates => config.experimental /\ ~config.persist
LoadBundle(m) ==
    /\ Authorized(m)
    /\ bundle' = m
    /\ UNCHANGED <<config, analysis, state, pipelineRun, sessions, exported, functions,
                   manifests, db, packages, used>>

\* The analysis cell forgets the last video first, and may get no further.
Analyze ==
    /\ bundle # Null
    /\ state' = Null /\ pipelineRun' = Null /\ exported' = Null
    /\ functions' = NoFunctions
    /\ \/ analysis' = Null /\ UNCHANGED used
       \/ /\ used.runs < MaxRuns
          /\ used' = [used EXCEPT !.runs = @ + 1]
          /\ analysis' = used.runs + 1
    /\ UNCHANGED <<config, bundle, sessions, manifests, db, packages>>

\* What a classification ends as: interrupted, failed, without a minute that can be
\* classified, or published.  It is published only if the states of the HUD are those
\* of the batch, and two models may agree on them.
Verdicts(s) ==
    {s, Failed(s), [s EXCEPT !.status = "insufficient-context"],
     [s EXCEPT !.status = "ready", !.rows = [run |-> analysis, model |-> bundle]]}

\* The classification cell.
Classify ==
    /\ pipelineRun' = Null /\ exported' = Null /\ functions' = NoFunctions
    /\ \/ analysis = Null /\ UNCHANGED <<state, used>>
       \/ /\ analysis # Null /\ used.attempts < MaxAttempts
          /\ used' = [used EXCEPT !.attempts = @ + 1]
          /\ \E verdict \in Verdicts(Attempt(used'.attempts, analysis)) : state' = verdict
    /\ UNCHANGED <<config, bundle, analysis, sessions, manifests, db, packages>>

\* local_stage_attempt: the local manifest of the stage may be left unfinished after any
\* ending, and only work that was done is filed as succeeded, perhaps just before the
\* user interrupts.
MayFile(ending, rows) == ending[2] # "error" /\ ending[1].receipt = rows

\* The persistence cell.
Store ==
    /\ config.persist /\ CanPersist(state)
    /\ \E ending \in Endings(db[state.run], state.rows, bundle), filed \in BOOLEAN :
          LET how == ending[2] IN
          /\ filed => MayFile(ending, state.rows)
          /\ manifests' = IF filed THEN manifests \cup {state.run} ELSE manifests
          /\ db' = [db EXCEPT ![state.run] = ending[1]]
          /\ state' = CASE how = "cut" -> Begin(state)
                        [] how = "error" -> FailPersistence(Begin(state))
                        [] OTHER -> Complete(Begin(state), how = "audited" /\ filed)
          /\ pipelineRun' = IF how \in {"audited", "unaudited"} THEN analysis ELSE Null
    /\ UNCHANGED <<config, bundle, analysis, sessions, exported, functions, packages, used>>
\* Nothing to store, or not asked for (record_stage_not_requested).
StoreNothing ==
    /\ ~config.persist \/ ~CanPersist(state)
    /\ pipelineRun' = Null
    /\ UNCHANGED <<config, bundle, analysis, state, sessions, exported, functions,
                   manifests, db, packages, used>>

RunOfReview == IF pipelineRun # Null THEN pipelineRun ELSE analysis
\* The review cell stops where the rows it needs are not stored and audited, or the
\* queue of the database is not that of the classification.
Prepare ==
    LET ready == config.review /\ CanReview(state, config.persist) IN
    /\ config.review /\ CanPersist(state) => ready
    /\ IF ready
       THEN /\ Len(sessions) < MaxSessions
            /\ config.persist => db[RunOfReview].receipt = state.rows
            /\ sessions' = Append(sessions,
                   Session(state.attempt, RunOfReview, state.rows,
                           IF config.persist THEN "postgresql" ELSE "portable"))
            /\ exported' = Len(sessions')
       ELSE exported' = Null /\ UNCHANGED sessions
    /\ UNCHANGED <<config, bundle, analysis, state, pipelineRun, functions, manifests,
                   db, packages, used>>

\* The cells that define the functions bind them to what there is.
Bound(n) == [session |-> n, attempt |-> state.attempt]
DefineRecover ==
    /\ exported # Null /\ state # Null
    /\ functions' = [functions EXCEPT !.recover = Bound(exported)]
    /\ UNCHANGED <<config, bundle, analysis, state, pipelineRun, sessions, exported,
                   manifests, db, packages, used>>
DefineFinalize ==
    /\ exported # Null /\ state # Null
    /\ functions' = [functions EXCEPT !.finalize = Bound(exported)]
    /\ UNCHANGED <<config, bundle, analysis, state, pipelineRun, sessions, exported,
                   manifests, db, packages, used>>

-----------------------------------------------------------------------------
(* What is still on the screen.                                             *)

Reviewed(n, how) ==
    /\ sessions' = [sessions EXCEPT ![n].reviewed = how]
    /\ UNCHANGED <<config, bundle, analysis, state, pipelineRun, exported, functions,
                   manifests, db, packages, used>>

\* A decision of the form of a session; its audit may be left pending.
Decide(n) ==
    /\ IsCurrent(sessions[n]) /\ sessions[n].reviewed = "none"
    /\ \/ Reviewed(n, "confirmed")
       \/ sessions[n].origin = "postgresql" /\ Reviewed(n, "pending")
\* recover_pending_validation.
Recover ==
    LET f == functions.recover IN
    /\ f # Null /\ state # Null /\ state.attempt = f.attempt
    /\ IsCurrent(sessions[f.session])
    /\ sessions[f.session].origin = "postgresql" /\ sessions[f.session].reviewed = "pending"
    /\ Reviewed(f.session, "confirmed")

\* finalize_current_review.
Finalize ==
    LET f == functions.finalize
        s == sessions[f.session]
    IN  /\ f # Null /\ state # Null /\ state.attempt = f.attempt
        /\ CanReview(state, config.persist)
        /\ IsCurrent(s) /\ s.reviewed # "pending"
        /\ s.run = RunOfReview /\ s.rows.model = bundle
        /\ Cardinality(packages) < MaxPackages
        /\ packages' = packages \cup
              {[run |-> RunOfReview, rows |-> s.rows, origin |-> s.origin,
                reviewed |-> s.reviewed]}
        /\ UNCHANGED <<notebook, manifests, db, used>>

-----------------------------------------------------------------------------
(* Elsewhere: reconcile_classified_telemetry, and a new kernel.              *)

Reconcile(r) ==
    /\ db[r].status = "running" /\ db[r].receipt # Null
    /\ db' = [db EXCEPT ![r].status = "succeeded"]
    /\ UNCHANGED <<notebook, manifests, packages, used>>

Restart ==
    /\ config' \in Configs /\ bundle' = Null /\ analysis' = Null /\ state' = Null
    /\ pipelineRun' = Null /\ sessions' = <<>> /\ exported' = Null /\ functions' = NoFunctions
    /\ UNCHANGED <<manifests, db, packages, used>>

Next ==
    \/ \E c \in Configs : Configure(c)
    \/ \E m \in Models : LoadBundle(m)
    \/ Analyze \/ Classify \/ Store \/ StoreNothing
    \/ Prepare \/ DefineRecover \/ DefineFinalize
    \/ \E n \in DOMAIN sessions : Decide(n)
    \/ Recover \/ Finalize
    \/ \E r \in Runs : Reconcile(r)
    \/ Restart

Spec == Init /\ [][Next]_vars

-----------------------------------------------------------------------------
Stored(rows) == db[rows.run].receipt = rows
StoredAndAudited(rows) == Stored(rows) /\ db[rows.run].status = "succeeded"

\* Whatever cells were run again, skipped or interrupted: a form that still takes
\* decisions shows the rows of the classification in force and names their run; a
\* review in the database is of rows stored whole under a succeeded run; and a sealed
\* package holds the rows of one classification under the run they were counted in
\* (require_attempt, can_review, _review_is_current, require_finalizable).
ReviewsAreTraceable ==
    /\ \A n \in DOMAIN sessions :
          LET s == sessions[n] IN
          /\ s.run = s.rows.run
          /\ IsCurrent(s) => s.rows = state.rows /\ s.run = analysis
          /\ s.origin = "postgresql" => StoredAndAudited(s.rows)
    /\ \A p \in packages :
          /\ p.run = p.rows.run
          /\ p.origin = "postgresql" => StoredAndAudited(p.rows)

\* What the notebook and its manifests say of the database is so, after any failure:
\* an audit that is complete has its succeeded run, its receipt of these very rows and
\* its manifest; a manifest that succeeded has its rows; and where only the audit is
\* missing, storing again with the same model would complete it, as the cell promises,
\* unless the run was closed as failed (complete_persistence, local_stage_attempt).
AuditsAreTrue ==
    /\ \A r \in manifests : db[r].receipt # Null
    /\ state # Null /\ state.persistence = "succeeded" =>
          /\ Stored(state.rows)
          /\ state.audit =>
                /\ StoredAndAudited(state.rows)
                /\ state.run \in manifests
          /\ bundle = state.rows.model /\ db[state.run].status # "failed" =>
                \E ending \in Endings(db[state.run], state.rows, bundle) : ending[2] = "audited"
=============================================================================
