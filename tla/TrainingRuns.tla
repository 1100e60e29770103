------------------------------ MODULE TrainingRuns ------------------------------
(***************************************************************************)
(* Executions of the training notebook                                     *)
(* (train_traffic_state_classifier.ipynb) that share a Drive: each loads   *)
(* what has been reviewed, resolves the frozen holdout in the store        *)
(* (training/holdout_storage.py), trains on what is left, publishes its    *)
(* bundle in its workspace, closes its run in the ledger and copies the    *)
(* bundle to Drive.  The store has no lock; the directories have one each. *)
(***************************************************************************)
EXTENDS HoldoutPartitions, BundleDirectories

CONSTANTS
    Reviews,       \* what the reviewers publish, one set of rows after the other
    Configs,       \* [frozen, create]: human_holdout_frozen, human_holdout_action
    WorkspaceOf,   \* the directory of artifacts of each process
    Drive,         \* DRIVE_ARTIFACT_DIR
    MaxRuns        \* bound of the number of executions

\* A Colab runtime has its own disk, and Drive is none of them.
ASSUME TrainingConstants ==
    /\ Drive \in Directories
    /\ WorkspaceOf \in [Publishers -> Directories \ {Drive}]
    /\ \A t, u \in Publishers : WorkspaceOf[t] = WorkspaceOf[u] => t = u

VARIABLES
    reviews,       \* how many of Reviews are published
    snapshots,     \* the ZIPs of the store, in the order in which they were written
    pointer,       \* current.json: the position of a snapshot, or 0
    runs,          \* one record for each execution: its run in the ledger and its model
    notebook       \* where each process is

vars == <<directoryVars, reviews, snapshots, pointer, runs, notebook>>

\* Everything reviewed when n reviews are published.
Reviewed(n) == FoldLeft(Replaced, {}, SubSeq(Reviews, 1, n))

Closed == [at |-> "closed", config |-> CHOOSE c \in Configs : TRUE, reviews |-> 0,
           run |-> 0, next |-> Nobody, holdout |-> 0, audited |-> FALSE]

Init ==
    /\ DirectoriesInit
    /\ reviews = 1
    /\ snapshots = <<>> /\ pointer = 0
    /\ runs = <<>>
    /\ notebook = [t \in Publishers |-> Closed]

-----------------------------------------------------------------------------
At(t, point) == notebook[t].at = point
Nb(t)        == notebook[t]
Rows(t)      == Reviewed(Nb(t).reviews)
Go(t, point) == notebook' = [notebook EXCEPT ![t].at = point]

\* A cell raises, or there is nothing left to do.
Stop(t) == notebook' = [notebook EXCEPT ![t] = Closed]
StopPublishing(t) == Stop(t) /\ publication' = [publication EXCEPT ![t] = Idle]

StoreStays == UNCHANGED <<reviews, snapshots, pointer>>
DirectoriesStay == UNCHANGED <<target, lock, backups, publication, validated>>

\* The catalog of reviewed packages grows.
Review ==
    /\ reviews < Len(Reviews)
    /\ reviews' = reviews + 1
    /\ UNCHANGED <<directoryVars, snapshots, pointer, runs, notebook>>

\* The notebook is configured and loads its sources.
Begin(t, config) ==
    /\ At(t, "closed") /\ Len(runs) < MaxRuns
    /\ runs' = Append(runs, [status |-> "none", train |-> {}, holdout |-> 0])
    /\ notebook' = [notebook EXCEPT ![t] =
          [Closed EXCEPT !.at = IF config.frozen THEN "resolve" ELSE "partition",
                         !.config = config, !.reviews = reviews, !.run = Len(runs) + 1]]
    /\ StoreStays /\ DirectoriesStay /\ Fine

-----------------------------------------------------------------------------
(* resolve_human_holdout.                                                   *)

Parts2(s) == [validation |-> s.validation, test |-> s.test]

Snapshot(p, generation, previous, seen, source) ==
    [validation |-> p.validation, test |-> p.test, generation |-> generation,
     previous |-> previous, seen |-> seen, source |-> source]

\* What resolve_human_holdout does with the snapshot the pointer names: it raises,
\* reuses it, or has another one to write.
Raises == Nobody
Resolution(t) ==
    LET current == snapshots[pointer]
        first   == InitialPartitions(Rows(t))
        updated == UpdatedPartitions(Parts2(current), Rows(t), current.seen)
    IN  IF pointer = 0
        THEN IF Nb(t).config.create \/ first = NoPartitions THEN Raises
             ELSE Snapshot(first, 1, 0, GroupsOf(Rows(t)), Rows(t))
        ELSE IF ~Nb(t).config.create
        THEN IF Conflicts(Parts2(current), Rows(t)) # {} THEN Raises ELSE current
        ELSE IF current.source = Rows(t) \/ updated = Parts2(current) THEN current
        ELSE IF ~ValidPartitions(updated) THEN Raises
        ELSE Snapshot(updated, current.generation + 1, pointer,
                      current.seen \cup GroupsOf(Rows(t)), Rows(t))

Resolve(t) ==
    /\ At(t, "resolve")
    /\ LET r == Resolution(t) IN
       IF r = Raises THEN Stop(t)
       ELSE IF pointer # 0 /\ r = snapshots[pointer]
       THEN notebook' = [notebook EXCEPT ![t].at = "partition", ![t].holdout = pointer]
       ELSE notebook' = [notebook EXCEPT ![t].at = "zip", ![t].next = r]
    /\ UNCHANGED runs /\ StoreStays /\ DirectoriesStay /\ Fine

\* write_snapshot: the ZIP has a name of its own, so it replaces none.
WriteZip(t) ==
    /\ At(t, "zip")
    /\ snapshots' = Append(snapshots, Nb(t).next)
    /\ notebook' = [notebook EXCEPT ![t].at = "point", ![t].next = Nobody,
                                    ![t].holdout = Len(snapshots) + 1]
    /\ UNCHANGED <<reviews, pointer, runs>> /\ DirectoriesStay /\ Fine

\* _write_current_pointer, whatever the pointer names by now.
WritePointer(t) ==
    /\ At(t, "point")
    /\ pointer' = Nb(t).holdout
    /\ Go(t, "partition")
    /\ UNCHANGED <<reviews, snapshots, runs>> /\ DirectoriesStay /\ Fine

-----------------------------------------------------------------------------
(* build_training_partitions and the run.                                   *)

\* The partitions a notebook works with.
PartitionsOf(t) ==
    IF Nb(t).config.frozen THEN {Parts2(snapshots[Nb(t).holdout])} ELSE TemporalSplits(Rows(t))

\* validate_training_partitions; and there must be rows to fit the scaler to.
Partition(t) ==
    /\ At(t, "partition")
    /\ \/ \E p \in PartitionsOf(t) :
            /\ TrainingRows(p, Rows(t)) # {}
            /\ runs' = [runs EXCEPT ![Nb(t).run].train = GroupsOf(TrainingRows(p, Rows(t))),
                                    ![Nb(t).run].holdout = Nb(t).holdout]
            /\ Go(t, "start")
       \/ /\ \A p \in PartitionsOf(t) : TrainingRows(p, Rows(t)) = {}
          /\ Stop(t) /\ UNCHANGED runs
    /\ StoreStays /\ DirectoriesStay /\ Fine

Status(t, status) == runs' = [runs EXCEPT ![Nb(t).run].status = status]

\* start_pipeline_run, after the input lock is sealed; it raises when the ledger
\* cannot be reached, or when only its answer is lost.
StartRun(t) ==
    /\ At(t, "start")
    /\ \/ Status(t, "started") /\ Go(t, "select") /\ Fine
       \/ Stop(t) /\ Trouble /\ (Status(t, "started") \/ UNCHANGED runs)
    /\ StoreStays /\ DirectoriesStay

\* select_balance_candidate; if it raises, the run is closed as failed.
Select(t) ==
    /\ At(t, "select")
    /\ \/ Go(t, "evaluate") /\ UNCHANGED runs /\ Fine
       \/ Status(t, "failed") /\ Stop(t) /\ Trouble
    /\ StoreStays /\ DirectoriesStay

\* Evaluation and eligibility are outside every try: if they raise, the run stays
\* as it is.  Otherwise the bundle is built in a staging directory.
Evaluate(t) ==
    /\ At(t, "evaluate") /\ UNCHANGED runs
    /\ \/ /\ Stage(t, WorkspaceOf[t], Nb(t).run) /\ Go(t, "publish") /\ Fine
          /\ UNCHANGED <<target, lock, backups, validated>>
       \/ Stop(t) /\ Trouble /\ DirectoriesStay
    /\ StoreStays

\* One step of build_and_publish_bundle or of publish_bundle_copy.
PublishStep(t) ==
    /\ At(t, "publish") \/ At(t, "copy")
    /\ Publish(t)
    /\ StoreStays /\ UNCHANGED <<runs, notebook>>

\* Mutant: the outcome of the ledger is not looked at.
FinalizeAlwaysAudited(t) ==
    /\ At(t, "publish") /\ Published(t)
    /\ notebook' = [notebook EXCEPT ![t].at = "closing", ![t].audited = TRUE]
    /\ \/ Status(t, "succeeded") /\ Fine
       \/ Trouble /\ UNCHANGED runs
    /\ StoreStays /\ DirectoriesStay
\* finalize_pipeline_run_outcome(work_succeeded = True): the audit is complete, or
\* the ledger could not be asked, or its answer was lost.
Finalize(t) ==
    /\ At(t, "publish") /\ Published(t)
    /\ \E audited \in BOOLEAN :
        /\ notebook' = [notebook EXCEPT ![t].at = "closing", ![t].audited = audited]
        /\ IF audited THEN Status(t, "succeeded") /\ Fine
           ELSE Trouble /\ (Status(t, "succeeded") \/ UNCHANGED runs)
    /\ StoreStays /\ DirectoriesStay

\* The publication raised: the run is closed as failed, if the process lives.
FinalizeFailed(t) ==
    /\ At(t, "publish") /\ NotPublished(t)
    /\ Status(t, "failed") /\ StopPublishing(t)
    /\ StoreStays /\ Fine /\ UNCHANGED <<target, lock, backups, validated>>

\* The last cell: a complete audit lets the validated bundle of the workspace be
\* copied to Drive.
CopyToDrive(t) ==
    /\ At(t, "closing")
    /\ LET workspace == target[WorkspaceOf[t]] IN
       IF Nb(t).audited /\ workspace # Nobody /\ workspace.whole
       THEN Stage(t, Drive, workspace.bundle) /\ Go(t, "copy")
       ELSE StopPublishing(t)
    /\ StoreStays /\ UNCHANGED <<runs, target, lock, backups, validated>> /\ Fine

CopyDone(t) ==
    /\ At(t, "copy") /\ (Published(t) \/ NotPublished(t))
    /\ StopPublishing(t)
    /\ StoreStays /\ UNCHANGED <<runs, target, lock, backups, validated>> /\ Fine

\* The process dies outside a publication, or died inside one.
Crash(t) ==
    /\ ~At(t, "closed")
    /\ \/ ~Locked(t) /\ ~PubAt(t, "crashed") /\ Trouble
       \/ PubAt(t, "crashed") /\ Fine
    /\ StopPublishing(t)
    /\ StoreStays /\ UNCHANGED <<runs, target, lock, backups, validated>>

\* Somebody deletes the lock that a process has left.
DeleteLock(d) ==
    /\ lock[d] = "left"
    /\ lock' = [lock EXCEPT ![d] = Nobody]
    /\ StoreStays /\ Fine
    /\ UNCHANGED <<runs, notebook, target, backups, publication, validated>>

Next ==
    \/ Review
    \/ \E d \in Directories : DeleteLock(d)
    \/ \E t \in Publishers :
        \/ \E config \in Configs : Begin(t, config)
        \/ Resolve(t) \/ WriteZip(t) \/ WritePointer(t) \/ Partition(t)
        \/ StartRun(t) \/ Select(t) \/ Evaluate(t) \/ PublishStep(t)
        \/ Finalize(t) \/ FinalizeFailed(t) \/ CopyToDrive(t) \/ CopyDone(t)
        \/ Crash(t)

Spec == Init /\ [][Next]_vars

-----------------------------------------------------------------------------
(* Properties.                                                              *)

\* Mutant: generations are compared, not contents.
ComparableByGeneration(a, b) ==
    /\ a # 0 /\ b # 0
    /\ snapshots[a].generation = snapshots[b].generation
\* require_comparable_holdouts: both models declare a holdout with one fingerprint.
Comparable(a, b) ==
    /\ a # 0 /\ b # 0
    /\ Parts2(snapshots[a]) = Parts2(snapshots[b])

\* Models that may be compared are compared on clips that neither was trained on,
\* although two notebooks may write one generation each and the pointer keep only
\* one of them (require_comparable_holdouts, build_training_partitions).
ComparisonsAreFair ==
    \A r, s \in DOMAIN runs :
        Comparable(runs[r].holdout, runs[s].holdout) =>
            runs[r].train \cap Reserved(snapshots[runs[s].holdout]) = {}

\* A generation keeps every clip of the one it follows in its partition, whatever
\* the new labels are, and takes in no clip that was there to be trained on when an
\* earlier one was made (_updated_partitions, source_groups).
RolesAreKept ==
    \A n \in DOMAIN snapshots :
        snapshots[n].previous # 0 =>
            LET s == snapshots[n]  p == snapshots[s.previous] IN
            /\ GroupsOf(p.validation) \subseteq GroupsOf(s.validation)
            /\ GroupsOf(p.test) \subseteq GroupsOf(s.test)
            /\ Reserved(s) \cap p.seen = Reserved(p)
            /\ ValidPartitions(Parts2(s))

\* What is on Drive can be accounted for: the run of its bundle has succeeded in the
\* ledger ("La copia a Drive esta bloqueada porque la auditoria de entrenamiento
\* quedo incompleta").
DriveIsAudited ==
    \A copy \in BackupsOf(Drive) \cup {target[Drive]} :
        copy # Nobody => runs[copy.bundle].status = "succeeded"
=============================================================================
