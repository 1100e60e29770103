# Formal models of VAAET

VAAET turns traffic video into per-minute telemetry, classifies each minute, lets
people review the result, stores everything in PostgreSQL and trains its next model
on the reviews. These modules describe the parts of it whose correctness depends on
*order* (of transactions, failures, callbacks, notebook cells, frames and minutes)
and the pure decisions in between whose answers other parts rely on. TLC checks them
on small instances and TLAPS proves the main theorems for every value of the
constants.

Paths below are relative to the repository: `P` is
`src/vaaet-persistence/src/vaaet_persistence`, `M` is `src/vaaet-ml/src/vaaet_ml`,
`C` is `src/vaaet-core/src/vaaet`. Migrations are named by their number (`0006`).

## The system

| Component | State | Operations | Talks to |
|---|---|---|---|
| Operational ledger (`P/migrations` 0002-0006, `pipeline_runs.py`, `receipts.py`) | `pipeline_runs`, `persistence_receipts` | start, finish, record receipt, complete reconciliation | every writer of the database |
| Human validation persistence (`P/review_persistence.py`) | `human_validations` | persist, load, reconcile | the ledger, the trigger |
| Validation trigger (0004, 0005) | advisory locks, unique indexes | validate on insert | concurrent transactions |
| Telemetry persistence (`P/persistence.py`) | raw and classified rows | persist and reconcile in batches | the ledger, continuity |
| Video session (`C/vision`) | tracks, motion memory, counts of the minute, view | one frame, close a minute | engine, telemetry |
| Continuity and features (`C/continuity.py`, `C/features`) | none (functions of a frame) | segment, features, rule labels | policy, persistence, training |
| Decision policy (`C/inference/policy.py`) | hysteresis and incident memory | one minute | classifier, continuity |
| Inference notebook (`M/workflow_state.py`, `C/inference/bundle.py`, the notebook) | configuration, bundle, attempt, sessions, functions on screen | one cell each | all of the above |
| Review session (`M/data/review_orchestration.py`, `review_widgets.py`) | decisions of the session, form, listeners | save, skip, recover, finalize, invalidate | persistence, the catalog |
| HITL catalog (`M/data/hitl_catalog.py`, `review_finalization.py`) | package files, `catalog.json`, lock file | seal, copy, register, set status | review session, training |
| Feedback resolution (`M/data/review_frames.py`, `review_audit.py`, `hitl_catalog.py`) | none | sources to labels | training |
| Holdout store (`M/training/holdout_*.py`) | snapshot files, pointer | write a generation, load the current | training |
| Training (`M/training`, the notebook) | holdout, weights, bundle, run | cells | store, bundles, ledger, Drive |
| Bundle publication (`M/training/bundle_export.py`) | directories, lock file | replace with rollback | inference, Drive |
| Eligibility (`M/training/eligibility.py`, `C/eligibility.py`) | none | trainer's gates, reader's gates | training, every loader |
| Reports, presets, evaluation, DVC registry, settings | data frames, DVC, options | numeric or declarative | |

What makes these hard: a human decision takes up to four transactions, any of
which can fail, lose its answer or be the last thing a process does; other
processes and reviewers run in between; the form, a recovery cell and an export
cell act on one session in any order; cells of a notebook are run again while forms
of the last attempt are still on screen; the policy depends on runs of consecutive
minutes that a break in the video cuts; files and directories are replaced in
several steps; trainings share a store that has no lock; and the same review
reaches a training by several ways and under several names.

What makes each component correct:

- ledger: a terminal run and a receipt never change; evidence exists only for
  work done while its run was open; at most one reconciliation per run, and only
  on matching evidence;
- validation persistence: an answer never claims more than the database holds;
  decision and receipt are one; what is stored can get its audit completed;
- trigger: one linear history per prediction under any interleaving, and nobody
  waits for ever;
- telemetry: every row is accounted for by one receipt, an answer never overstates
  the table, and overlapping writers do not block each other;
- video: a vehicle is counted once, a minute or a prediction never mixes two views,
  and what is remembered of a vehicle is its own;
- continuity and features: a second normalisation changes nothing, and a minute is
  decided alike while the video runs and afterwards;
- policy: the state moves after exactly the minutes declared, inside a segment;
  an alert starts once per episode;
- inference notebook: what is reviewed and sealed is of one attempt, under the run
  its rows were stored in, and an audit called complete is so;
- session: one decision per row, none lost, none exported before its audit is
  complete, a confirmation is final, a blocked session does nothing;
- catalog: a package that is named is in place, no file is ever replaced, no
  entry lost, and what was sealed is published in the end;
- feedback: the label of a minute is the last audited decision on it, or none;
- holdout and training: no comparison uses clips a model was trained on, clips keep
  their roles, people outweigh rules;
- bundles: the last valid one can always be found; Drive has only what is audited;
- eligibility: trainer and reader agree, and production has passed every gate.

## Modules

| Module | Models | State and actions |
|---|---|---|
| `RunLedger` | the two ledger tables and the four `SECURITY DEFINER` functions | `runs`, `receipts`; `StartRun`, `FinishRun`, `RecordReceipt`, `Reconcile`, one step per call, by any role with any arguments, NULL ones where a function lets them through |
| `ValidationPersistence` | `persist_human_validation_record`, `load_...`, `reconcile_human_validation` inside `pipeline_run` | adds `stored`, `client` (the next transaction of each call), `faults`; one step per transaction; uses the actions of `RunLedger` through an instance `L` |
| `ValidationChain` | the statements of the data transaction and of its trigger | `table` (committed), `tx` (next statement), `lock`; one step per statement |
| `DecisionHistory` | abstract: what the store promises | `history` per prediction, `audited` |
| `Supersession` | the refinement mapping from a set of rows to its order | no state |
| `TelemetryBatches` | `persist_raw_telemetry`, `persist_classified_telemetry` and their reconciliations | `table`, the open transaction of each client with its uncommitted rows, `runs`, `receipts`; one step per row inserted or statement; extends `Continuity` |
| `Continuity` | `normalize_continuity_frame` | functions of a sequence of rows |
| `MinuteFeatures` | features, rule labels and the strength of an incident, as far as they look at other minutes | functions; extends `Continuity` |
| `VideoMinutes` | `VisionPipelineSession` and `analyze_video` | one step per frame, with everything the session does for it |
| `VehicleTracks` | `SORTTracker`, `SmoothedSpeedTracker`, `TrackMotionStateTracker` | functions: the tracks and memory after one more frame |
| `SpeedScale` | perspective factor, calibration, robust speed of a minute | functions |
| `TrafficPolicy` | `_StableStateMachine`, `_IncidentStateMachine`, resets | `machine`, `incident` and the minutes and results so far; one step per minute |
| `InferenceNotebook` | the cells of the inference notebook with `InferenceExecutionState`, `local_stage_attempt`, `authorize_bundle` | one step per cell or use of a form; transactions reduced to how they may end |
| `ReviewSession` | widget, controller, managed session, recovery, finalization gate | one step per callback or cell |
| `ReviewCatalog` | sealing, synchronisation, registration, quarantine, publisher lock, catalog reader | `pending`, `canonical`, `catalog`, `lock` and the call of each process; one step per file operation |
| `FeedbackResolution` | packages, their validation, database evidence, `resolve_effective_human_feedback` | functions of a set of sources |
| `HoldoutPartitions` | selection and update of the frozen holdout, the split without one | functions of a set of reviewed minutes |
| `SupervisionWeights` | weights of human, proxy and synthetic rows before and after the balance | functions of a composition |
| `ModelEligibility` | gates of the trainer, lifecycle, manifest validation, serving | functions of a model's evidence |
| `BundleDirectories` | `_replace_validated_directory` | `target`, `lock`, `backups`; one step per move |
| `TrainingRuns` | the training notebook, the store of generations, ledger run, copy to Drive | one step per cell or file operation; extends `HoldoutPartitions` and `BundleDirectories` |
| `RunLedgerProofs`, `ValidationPersistenceProofs`, `ValidationChainProofs`, `ReviewSessionProofs`, `ReviewCatalogProofs` | theorems about the module each is named for | |
| `InferenceProofs` | theorems about `InferenceNotebook`, `VideoMinutes` and the perspective of `SpeedScale` | |
| `TelemetryProofs` | theorems about `Continuity`, the mask of `MinuteFeatures`, `TrafficPolicy` and `TelemetryBatches`: how a minute is ordered, decided and written | |
| `TrainingRunsProofs` | theorems about `TrainingRuns`, `ModelEligibility` and `SupervisionWeights` | |
| `MC...` | instances for TLC | |

How they fit together. `ValidationPersistence` instantiates `RunLedger` and every
step of it is a step of the ledger (`LedgerRefined`, proved). It takes the data
transaction as one step; `ValidationChain` shows why that is right, statement by
statement, and refines `DecisionHistory`: the table, read as the chain in which
decisions supersede each other, is one sequence per prediction that only grows
at its end. `TelemetryBatches` is the other writer, with a ledger of its own, another
instance of `RunLedger`. `ReviewSession` takes the database calls as
outcomes (`PersistOutcomes`, `ReconcileOutcomes`), which are those that
`ValidationPersistence` produces for one client. `InferenceNotebook` stands around
both: it has the transactions of `TelemetryBatches` as their possible endings
(`Endings`) and one decision for the many of `ReviewSession`, and asks which rows,
run and attempt they belong to. `ReviewCatalog` begins where `ReviewSession` ends: a
decision list that passed `Finalizable` is a session key here. `FeedbackResolution`
takes the packages up again, with their content. `TrainingRuns` composes the
functions of `HoldoutPartitions` with the moves of `BundleDirectories`.
`VideoMinutes` ends where `MinuteFeatures` and `TrafficPolicy` begin.

The pure functions have no run of their own. `MCTrafficPolicy` extends the policy
with questions: before the first minute one question may be asked of one of these
modules on any of its bounded inputs, and the property compares the answer with a
definition that says what the callers rely on (`NormalizesOnce`,
`ProgressiveIsBatch`, `SelectionIsFair`, ...).

Abstractions worth knowing:

- A content fingerprint is the content itself (SHA-256 is taken as injective), an
  error category is a class name, and counts have the bound `MaxRows`.
- The keys of `pg_advisory_xact_lock` for UUIDs are hashes; two UUIDs that
  collide would only wait for each other, so they are taken as different.
- A call with an explicit `pipeline_run_id` is its data transaction only.
- `KeyboardInterrupt` and a killed process are `Crash`, in the session the reply
  `interrupt` and in the notebook the ending `cut`: no `except Exception` handler
  runs. In the session it may come during a database call or after the lists were
  updated; the two statements of recovery that release and record a decision are
  taken as one.
- A cell may edit `REVIEW_VALIDATIONS`, since the notebook exposes that very list
  (`EditValidations`), and may change and restore the exported frame
  (`ChangeFrame`).
- SHA-256 of a ZIP is its seal: the session and the instant of `finalized_at`, which
  is what two sealings of one session differ in. Two instants are one second,
  because the canonical directory is named by seconds. Temporary files have unique
  names and are left out; `os.link` and `os.replace` are atomic.
- The frame rate is the fraction `RateFrames` by `RateMinutes`, and time is counted in
  the part of a minute that one frame takes of it; the code has floats.
- The key of a holdout row has a clip and a minute. The one of the code has a
  `continuity_id` too (holdout_contract.py:33), which is derived again from the rows
  reviewed so far (:139), so a minute whose segment changes with a later review would
  count as another row; here segments stay as they are.
- The scores of a minute are two Booleans: thresholds reached, incident evidence
  strong. The network and the scaler are functions of a row.
- A vehicle is a point on a line and its speed the path of its recent history;
  optical flow is good or not; a frame shows what the scene says.
- Thresholds of the features are scaled to small integers, ratios are percentages,
  rates hundredths, weights multiples of one unit rounded down.
- `random.Random(42).shuffle` is the table of the permutations it gives for short
  lists (`MCShuffled`).
- In `FeedbackResolution` a schema, a clip and a continuity are the same throughout.
  A package without a pipeline run keeps its own prediction ids; that case is left
  out. An alias of a decision only arises where no receipt binds its name.
- In `ModelEligibility` manifests of contract version 2 are left out.
- In `InferenceNotebook` a fresh attempt or run is the next number, pilots are
  always allowed, and a package that was sealed is never read again
  (`MaxPackages` is 1).

## Runs

| Run | Instance | Shows |
|---|---|---|
| `RunLedger` | 2 roles, one of which calls through the package alone, 3 run ids, 2 contents, counts to 1, collection/inference/review grants | the ledger's promises against the most general client |
| `ValidationPersistence` | 2 processes of one reviewer, 2 UUIDs, 1 prediction, 4 contradictory decisions, any 2 failures | answers never overstate the database; decision and receipt together |
| `ValidationRecovery` | 2 reviewers with a decision each, failures only in the closing of runs | every stored decision is finally audited |
| `PendingReconcilable` | one lost answer of the data transaction | violation, see Findings |
| `ValidationChain` | 3 transactions, 3 UUIDs, 2 predictions, 5 decisions | one linear history (refinement of `DecisionHistory`), no wait on the index, every transaction ends |
| `TelemetryBatches` | 2 processes, 2 clips, batches of 2, frames that overlap in opposite order or contradict each other, 1 failure anywhere | rows accounted for, answers true, no circle of waits |
| `VideoMinutes` | 3 minutes of 2 frames at 7 frames in 3 minutes, up to 2 vehicles, 5 plans and none | counts, views and memories stay apart |
| `TrafficPolicy` | the shipped persistences 2, 3, 2, 3; 6 minutes; and eight families of questions | exact reaction times and incident episodes; the pure functions against what their callers rely on |
| `InferenceNotebook` | 2 bundles, 2 configurations, 2 videos, 2 classifications, 2 sessions | reviews traceable, audits true |
| `ReviewSession` | 2 rows, 3 own decisions, 1 foreign, 2 failed calls, 1 edit | nothing lost, duplicated or exported too early |
| `ReviewCatalog` | 2 processes, 2 sessions, 3 instants, one ZIP from another runtime, 2 failures or kills | catalog always backed by files, nothing replaced or lost, pending packages published |
| `TrainingRuns` | 2 processes with a workspace each, 1 Drive, 4 publications of reviews, 3 executions or 1 trouble | bundles, comparisons, roles and Drive |

Why the bounds are enough. Two processes and two failures are what a lost answer
followed by a failed or concurrent retry needs, and with one more UUID also a
supersession in between. Three transactions give a waiting one behind two that
conflict. Two queue rows let the form leave a row with a decision behind, and the
third own UUID would be the second decision on one of them. Two failures are a
kill between the copy and the registration followed by a failing retry; three
instants let two processes seal one session in different seconds, and the foreign
ZIP falls into the second of a local one, so that their canonical paths meet. Six
minutes hold a full change in both directions, or an incident, its end and a new
one; the theorems of `TelemetryProofs` remove that bound. `MCMinutes` has eight
kinds of minute: each confident code without incident evidence, Congested and Free
flow with it, a doubtful minute, and two kinds that open a segment.

Three rows in batches of two leave one batch written and one to come at every
failure, and rows in opposite order of the clips are what a circle of waits takes.
Minutes of two frames with a tracker that keeps a lost vehicle for one frame let it
leave and come back in the next minute; plans turn at the start of a minute, inside
one, twice inside one, onto a profile that does not fit and with a gap. Four frames
of one clip with gaps anywhere hold a window of three and its end; three rows of two
clips with any identifiers hold every order. Five clips are three for the support of
each state and two more to choose from; shares of 40 % let the partitions grow past
what the support of the states asks for, as the shipped ones do with more clips. Seven
frames in three minutes round to minutes of two frames that fall short of a minute. Two videos, attempts and sessions are the
old and the new one of each; the configuration that stores and reviews and the one
for candidates with portable review differ in every guard of the cells. `Bounded` of
`MCTrainingRuns` allows one complication at a time: a third execution or a failure,
and only one execution while there are two clips or no holdout; two executions with
a failure, or three without, are what a lost generation and its successor need.

`CHECK_DEADLOCK FALSE` is set where the system really stops: a video ends
(`TrafficPolicy`, `VideoMinutes`), the executions of `TrainingRuns` are numbered, and
in `TelemetryBatches` every process has used its run ids. There `CallsEnd` says more
than the absence of a deadlock: a circle of two waits would be a violation even while
a third process goes on.

Fairness. `ValidationChain` and `TelemetryBatches`: every session goes on with its
next statement, and since PostgreSQL serves the waiters of a lock in order, strongly
fair even when others take the lock in between. `ValidationPersistence`: a call in
progress goes on, and a reviewer with an unconfirmed decision submits it and
reconciles it again (postgresql-guide.md:195-213 instructs so); failures are bounded
and have no fairness. Strong fairness is for the reviewer, whose process is busy every
other moment. `ReviewSession`: the reviewer presses the button of the form again.
`ReviewCatalog`: a call goes on, a `with` block ends, and a pending ZIP is given to
a publisher again and again (colab-guide.md:149-150); strongly fair, since the
processes take turns at the lock. A killed publisher leaves its lock file, which no
code removes, so `PendingIsPublished` holds where such a file does not stay for ever.
The notebooks and the video have no fairness: nobody has to run a cell.

Every property has a mutant, a plausible bug in one definition, that TLC shows
to violate it under the same configuration.

## Findings

**A stored decision that cannot be reconciled** (`PendingReconcilable`). The
data transaction commits, its answer is lost, the client sees an exception, and
`pipeline_run` closes the run as failed (`P/pipeline_runs.py:372`). Reconciliation
demands a *running* run (0006:364). ADR-0033:40: "El reintento reconcilia esa
misma decisión." The decision stays stored and never audited, and it is
the root of its prediction, so the only later decision is one that supersedes it.

Further divergences that the models contain but no run is kept for:

- *A retry that can never succeed* (`RetryFindsItsRun` in `ValidationPersistence`).
  The data transaction rolls back, the run named by the decision's UUID is closed as
  failed, and a retry finds that run: its receipt is refused (0006:216).
  `review_persistence.py:438` promises a retry on the same run, and
  colab-guide.md:157-158 allows an explicit retry once the UUID has been consulted. In
  the session such a decision can be neither confirmed nor dropped, so the form does
  not advance and nothing can be exported (`DecisionsResolve` therefore assumes
  `Recoverable`); a new session is the way out. The telemetry of an inference has the
  same fate: its run is named by the analysis, so a cell that failed once cannot store
  the rows before the video is analysed again (`Endings`, `Closes`).
- *Provenance of two catalogs* (`DescriptorIsExact` in `ReviewCatalog`).
  `load_hitl_catalog_components` takes the revision from the document it selected
  from and hashes `catalog.json` after all packages are loaded
  (`M/data/hitl_catalog.py:452-463`). A package registered meanwhile leaves an input
  lock with the revision of one catalog and the checksum of the next, where
  data-lineage.md:126-127 promises "revisión exacta del catálogo".
- *A candidate's predictions can be stored.* `authorize_bundle` looks at the
  configuration when the bundle is loaded (`C/inference/bundle.py:65`). If the editable
  cell is then run with a configuration that persists, the next cells classify and
  store with the candidate, although workflow_presets.py:611 says "los candidatos
  experimentales nunca se persisten" (`Configure` keeps `bundle`; `Store` does not ask).
- *A backup is never accepted as feedback* (`Restored`, `Verifiable` in
  `FeedbackResolution`). `_load_feedback_components` asks the backup for runs and
  receipts, but `_frames_from_backup` selects only tables that `inspect_backup_catalog`
  lists (`M/data/ingestion.py:293-312`), and `_RECOGNIZED_BACKUP_TABLES`
  (`M/data/database_backup.py:27-35`) has neither; so `verify_backup_review_audit`
  raises for every backup with reviews (`M/data/review_audit.py:244-247`). ADR-0034:20
  says "Backups se verifican con las tablas originales de corridas y comprobantes antes
  de adaptar sus IDs", ADR-0015:35 that training can combine "raw y feedback desde
  PostgreSQL, backup o paquete CSV contractual". test_ingestion.py:523 puts a list of
  its own in place of the catalog.
- *Three clips of each state may not suffice* (`ThreeClipsSuffice` in
  `HoldoutPartitions`). ADR-0018:23: "La primera ejecución con `REUSE_OR_CREATE` crea el
  snapshot si existen al menos tres grupos independientes por estado estable."
  `_select_groups` takes one clip for each state in turn and never takes one back
  (`M/training/holdout_resolution.py:143-177`), so it refuses some sets of clips that
  could be divided fairly: the assumption `ThreeClipsMayNotSuffice` of `MCTrafficPolicy`
  has five clips with the states {0,1,2}, {1,2}, {0,2}, {0,1} and {0}. `SelectionIsFair`
  says what does hold: what is created is fair, and nothing is refused that has three
  clips of each state, none of them Free and Congested without Dense minutes
  (`Gradual`). The second half is checked on five clips, not proved.
- *A reconciliation that names no operation* (`EvidenceMatches` in `RunLedger`).
  `complete_verified_reconciliation` is not STRICT and compares with `<>`
  (0006:321-342): with a NULL `p_operation` neither the operation nor any count is
  compared, and with a NULL `p_content_fingerprint` the content is not. A role that writes
  its own SQL can so close its own run with the rows it declared, although its receipt
  counts others; ADR-0033:32-34 says: "Antes de cerrar la corrida original, verifica
  propietario, workflow, metadata, comprobante, soporte y contenido almacenado".
  `vaaet_persistence` names all of them, and for the roles that call through it alone
  (`PackageUsers`) `ProvenBy` still says that the receipt counts the rows of the output,
  whatever the other roles do.
- *Partial seconds at a fractional frame rate* (`PartialTime` in `VideoMinutes`). A minute
  is `round(fps * 60)` frames, while the report takes the seconds left over from minutes
  of the clock (`C/vision/analysis.py:135`, `:154-160`). At 29.97 frames per second a
  video of 1798 frames under a view plan reports one complete minute and 59.99 s
  discarded; without one, nothing is missing but the drift. `MinutesAreAccounted` says
  exactly when the report adds up to the time of the video, which it always does with a
  whole number of frames in a minute.

Related behaviours the models show, within what is documented: two processes of
one user share the run of a UUID, so the one whose content is refused can close the
other's run as failed; a process that loses the race of `os.link` publishes the
other's ZIP under its own `finalized_at`, so `created_at` and the directory of the
entry need not be those in the package's manifest; `start_pipeline_run` of an id
that exists with the same metadata returns it whatever its status; two trainings may
each write a generation of the holdout with one number, of which the pointer keeps
the last, so only the fingerprint tells whether two models may be compared
(`Comparable`).

## Proofs

TLAPS proves that every safety property of the runs but the questions of
`MCTrafficPolicy` holds for all values of the constants, and so of any number of
processes, rows, videos and failures, and for behaviours of any length. The
questions compare functions on the inputs their run enumerates, in twelve ways; seven
of these are theorems about every input (below).

The assumptions are named in the modules that declare the constants, and TLC evaluates
each on a run: `LedgerConstants`, `NullIsNoValue`, `PersistenceConstants`,
`ChainConstants`, `SessionConstants`, `CatalogConstants`, `ConstantsAreSound`
(`InferenceNotebook`), `DirectoryConstants`, `TrainingConstants`, `PolicyConstants`,
`ContinuityConstants`, `VideoConstants`, `MinutesAreRounded`, `TrackConstants`, `BatchConstants` and
`RowsAreValues` (`ValidationPersistence`, `TelemetryBatches`). They say that constants
have their types, that `Null` is no value, and what the code makes so: processes have
UUIDs, run ids and workspaces of their own, a frame has at least one row, clips are
ordered without repetition, and a track remembers at least as many frames as make it
an entry (`C/settings.py:157` and `:231`). The facts about functions carry their hypotheses
themselves: `IsRow`, `IsCandidate`, `WeightConstants`, `PerspectiveConstants`.

Every safety theorem has one form: an invariant that is inductive, one lemma for each
step that keeps it, and the property from it. Hardly a property that a run checks is
inductive as it stands; what each invariant has to add is the argument:

- `RunLedgerProofs`. Types, then `ReceiptsAreGrounded` on its own; an invariant of
  running runs, reconciliations and receipts carries `ReconciliationsAreProven` and
  `OneReconciliation`, which are `ReconciliationsHold` (a reconciliation closes the
  original in the same step, so no later call of any function can pass its guard
  again). A claim may have NULLs; that the receipt counts the rows of the output is
  proved for the roles of the package, whose claims have none where it matters. `TerminalRunsFrozen` and `ReceiptsPermanent`, together `LedgerStands`, are
  action properties proved from types and the guards.
- `ValidationPersistenceProofs`. `LedgerIsRefined`: each step is a ledger step or
  leaves it alone, and the ledger theorems hold of the clients. The inductive invariant
  then says, for every client at `succeed`, that its decision and receipt are stored;
  for every run that succeeded, that its decision is; and that stored and receipted
  coincide. `RepliesAreKept` needs to know what a client about to close its run has
  already committed, and that nobody else can undo it; `EvidenceIsWhole` needs the
  same of a run that is reported as succeeded.
- `ValidationChainProofs`. `ChainInv` is about what a transaction has read:
  from each query of the trigger on, what it found is still so of the committed table
  (`ReadingsHold`), because the transaction holds the locks of its UUID and its
  prediction (`LocksAreHeld`); so the checks are as good at the commit as when they
  were made (`LocksSuffice`), and the committed rows of a prediction are one history.
  From this follows the refinement `HistoryRefined`: every commit appends one decision
  to one history, and every other statement is a stutter. The mapping chooses an order
  of a set of rows; since a table that the invariant allows has one such order, the
  proof needs no induction over its length. It also showed an error of the model: the
  INSERT stops at the arbiter index of `ON CONFLICT (id)` first, so a rival on
  `supersedes` is met only by a row whose id is new (`Rivals`).
- `ReviewSessionProofs`. `SessionInv` ties the statuses of the decisions, those that are
  unresolved, the row the form shows and the database together: a decision has a
  status from the moment the form gives it a row, rows not yet shown have no decision,
  and a confirmation is of an audit that is complete. One decision per row needs to
  know what the form shows, and the form advances because a status is a confirmation,
  so all parts are one induction; the action properties follow from it.
- `ReviewCatalogProofs`. One process at a time is between taking and giving back the
  lock (`OnePublisher`), so what it read of the catalog is what the catalog is
  (`CallIsSound`), and the catalog it writes keeps every entry (`HistoryIsKept`) and
  names only files that are in place (`CatalogIsTrue`): a file has been linked before
  its entry is written, and no step removes or replaces one.
- `TrainingRunsProofs`. `TrainingInv` has a part for the directories (what the holder
  of a lock has moved and can move back), one for what each notebook remembers of the
  generation it loaded, one for the ledger and Drive, and one for the generations. The
  holdout of a model is what the pointer named at its start and not what it names now;
  `HoldoutsAreKept` says that every later generation keeps it, which `ComparisonsAreFair`
  and `RolesAreKept` rest on.
- `InferenceProofs`, the notebook. `NotebookInv`: a run in the database keeps its receipt
  and its success, the state is of the last attempt, and a form has the rows and the
  run it was made with, which are those of the state as long as its attempt is the last
  one. A form of an older attempt satisfies it too, so `ReviewsAreTraceable` and
  `AuditsAreTrue` say what such a form can still do after cells were run again.
- `InferenceProofs`, the video. `VideoInv`: what was counted, in records and in the open
  minute, and the tracked vehicles that are still to be counted are together no more than
  the numbers the trackers have given, and exactly as many, with none to be counted, while
  no minute was discarded; an open minute that was not spoiled began in the view of its
  last frame; and the number of a view is that of its segment. The first gives
  `VehiclesCountOnce`; a sum over minutes or kinds is defined as the size of a disjoint
  union (`Units`), so that what a frame adds to it is a fact about finite sets and needs
  no induction. The other two give `ViewsStayApart`; that the report adds up is then arithmetic
  (`DriftOfTime`, `TimeInMinute`), for any frame rate. `MotionIsOwn` is inductive with
  them, because what is remembered of a vehicle is dropped with the tracker that
  numbered it.
- `TelemetryProofs`, the policy. Types include that a pending change has fewer minutes
  than it needs. The invariant adds two converse halves: a pending change has that many
  minutes of evidence behind it (`PendingIsEvidence`), and evidence the state has
  been held through is pending (`EvidenceIsPending`). The first gives
  `MovesAreEarned`, the second with the bound on the count gives `EvidenceMoves`. For
  the episodes, `EpisodeInv` says that while one stands the count of weak minutes is the
  number of minutes since the last strong one, so the episode ends exactly at the
  last of `IncidentRecovery` of them (`EpisodesExact`).
- `TelemetryProofs`, the batches. `TelemetryInv`: a transaction in progress has written
  rows of its own frame under its own run; all minutes it is past, which are earlier
  batches, and the feature of a batch whose predictions it is at, are there with their
  content, committed or its own; no two rows have one key, those not committed
  included; and the receipts divide the committed rows. A commit then adds its rows to
  none that were there (`RowsAreAccounted`); features and predictions are equally many
  because they have one key; a run that has a receipt inserts nothing, as its rows are
  there already. For `AnswersAreStored` the committed part is never undone.

Facts about functions, proved of every input:

- `SegmentsExact` and `NormalizedOnce` (`Continuity`; `ContinuityHolds` on bounded
  frames). The code carries an identifier along the rows; the model names the row that
  opens a row's segment (`Opening`), so a proof needs no induction but a least
  counterexample: the last opening at or before a row, and the first row that would
  leave the clip of its opening. Segments are then exact because the names of two
  openings of a clip differ (`NamesApart`); this uses that no given identifier comes
  back, and that a gap is named by its minute. A second pass finds the first one's
  openings again (`AssignedOpens`): every gap it meets comes with a change of identifier,
  so it names none of them. `IsRow` asks for a clip of the plan, an integer time and
  an identifier that is missing or of the source. Identifiers that look made by the code
  itself come from an earlier normalisation, which is what `NormalizedOnce` is about.
- `ServingEarned` and `TrainerAndReaderAgreed` (`ModelEligibility`; `ProductionIsEarned`
  on evidence at the limits). The gates are written in two modules with different
  comparisons, so the proof goes metric by metric, and the rounding of coverage and the
  exposure to alerts in integers. `IsCandidate` says what the trainer computes: an
  interval is sufficient exactly with two clips and 95 % of its samples, and alerts are
  0, 1 or 2, for which the upper bound is tabulated.
- `PeopleAlwaysOutweigh` (`SupervisionWeights`, part of `TrainingIsFair`). The order
  of the weights of people, rules and synthesis survives the balance, which scales the
  three of a state by one function that never falls; the share of the synthetic rows
  does not, and holds because the cap is applied again after it.
- `MaskAlwaysReachesGate` (`MinuteFeatures`, part of `MinutesDecideAlike`), for all
  thresholds: whatever marks a label contributes enough points to the policy's score.
- `PerspectiveAlwaysGradual` (`SpeedScale`, part of `SpeedsAreMeasured`), for all lines
  and factors whose blending bands do not overlap.

Only model-checked:

- liveness (`StoredIsAudited`, `TransactionsEnd`, `CallsEnd`, `DecisionsResolve`,
  `PendingIsPublished`), which with fairness and ENABLED is beyond this prover;
- of the questions of `MCTrafficPolicy`, those about functions that fold over or sort
  a sequence of any length, for which an induction over data is needed:
  `ProgressiveIsBatch`, `ScaleIsMeasured`, `SpikeIsIgnored`, `SelectionIsFair`; and
  `FeedbackIsResolved`, whose ledgers are the finite ones `FeedbackResolution` names.

## Plan

1. Done: ledger, validation persistence, trigger, session, catalog, policy, with
   proofs of the ledger, the persistence and the hysteresis.
2. Done: telemetry batches, continuity and features, the video session, feedback
   resolution, holdout and training, bundles, eligibility, the inference notebook.
3. Done: proofs of the trigger and its refinement, the session, the catalog, training
   and bundles, the inference notebook, the incident episodes and the telemetry batches.
4. Done: the safety of `VideoMinutes`, the gates of `ModelEligibility`, the caps of
   `SupervisionWeights`, `Continuity`, the mask of the labels and the perspective.
5. A later candidate: promotion over DVC and git (`dvc_registry/service.py`,
   `champion_challenger.py`).

## Not modelled

- Detection, optical flow as image processing, drawing and encoding of the video, the
  network, its fitting, calibration and cross validation: numeric functions of images
  and frames with no protocol to check.
- Reports, plots and summaries (`observability.py`, `workflow_presets.py` beyond the
  choice of a configuration): wording and layout.
- Connection settings and TLS: validation of options; time limits appear as failures
  of the transactions.
- The DVC registry and the comparison of champions decide over external repositories.
- Of the review session, the selection of the queue; of the catalog, the sealing to an
  exact destination by the command line and the legacy import; of the notebooks,
  uploads and dashboards.
