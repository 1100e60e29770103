------------------------------ MODULE RunLedger ------------------------------
(***************************************************************************)
(* The operational ledger of vaaet-db-v3: the tables                       *)
(* vaaet_ops.pipeline_runs and vaaet_ops.persistence_receipts, and the     *)
(* four SECURITY DEFINER functions that are the only way to write them     *)
(* (start_pipeline_run, finish_pipeline_run, record_persistence_receipt,   *)
(* complete_verified_reconciliation).                                      *)
(*                                                                         *)
(* Next is the most general client: any role calls any function with any   *)
(* arguments in any order, which is all a database role can do; Openings   *)
(* bounds the runs it opens.  The functions are not STRICT, so an argument *)
(* may be NULL: the columns of a receipt and a status refuse it, and a     *)
(* reconciliation compares with it as SQL does.  PackageUsers are the      *)
(* roles that call through vaaet_persistence alone, which never passes the *)
(* NULLs a reconciliation would let through.                               *)
(*                                                                         *)
(* One call is one step: each function takes the run's transaction-level   *)
(* advisory lock or its row lock before it reads and keeps it until        *)
(* commit, and PostgreSQL gives each statement of a volatile function a    *)
(* fresh READ COMMITTED snapshot.  A call that raises rolls back, so it    *)
(* changes nothing; the ...Accepted operators are the calls that do not.   *)
(***************************************************************************)
EXTENDS Naturals

CONSTANTS
    Users,      \* database roles (SESSION_USER)
    PackageUsers, \* those of them that only call through vaaet_persistence
    Grants,     \* the workflows each role may start: a set of <<user, workflow>>
    RunIds,     \* pipeline run UUIDs
    Apps,       \* application name and version, commit, schemas, source and clip
    Revisions,  \* model revisions (SHA-256)
    Contents,   \* contractual contents, told apart by their fingerprint
    Errors,     \* exception class names kept as error_category
    Openings,   \* the start_pipeline_run calls the clients make
    MaxRows,    \* bound of every row count
    Null        \* SQL NULL; also "no such row"

VARIABLES
    runs,       \* vaaet_ops.pipeline_runs: run id -> row
    receipts    \* vaaet_ops.persistence_receipts: run id -> row

vars == <<runs, receipts>>

Workflows  == {"collection", "inference", "training", "review"}
Operations == {"raw-telemetry", "classified-telemetry", "human-validation"}
Terminal   == {"succeeded", "failed"}
Counts     == 0 .. MaxRows

\* The application name complete_verified_reconciliation writes in its own row.
Reconciler == "vaaet-persistence-reconciliation"

\* The immutable identity a caller declares when it opens a run.
Metadata ==
    [workflow : Workflows, app : Apps \cup {Reconciler}, input : Counts \cup {Null}]

\* What finish_pipeline_run is told about the end of a run.
Closings ==
    [status : Terminal, output : Counts \cup {Null},
     error : Errors \cup {Null}, revision : Revisions \cup {Null}]

Run ==
    [owner : Users, meta : Metadata, status : {"running"} \cup Terminal,
     output : Counts \cup {Null}, error : Errors \cup {Null},
     revision : Revisions \cup {Null}, reconciles : RunIds \cup {Null}]

\* A receipt; rows and inserted stand for the counts of every entity written
\* (counts that differ between entities are, as rows, no number of a claim).
\* Its owner is the run's.
Receipt ==
    [operation : Operations, content : Contents, rows : Counts,
     inserted : Counts, revision : Revisions \cup {Null}]

\* What a reconciliation claims of the receipt: any argument may be NULL.
Claim ==
    [operation : Operations \cup {Null}, content : Contents \cup {Null},
     rows : Counts \cup {Null}, revision : Revisions \cup {Null}]

\* complete_reconciled_pipeline_run: the package names all but the revision.
NamesAll(e) == e.operation # Null /\ e.content # Null /\ e.rows # Null

\* One call of start_pipeline_run.
Opening ==
    [user : Users, run : RunIds, meta : Metadata, revision : Revisions \cup {Null}]

ASSUME LedgerConstants ==
    /\ MaxRows \in Nat
    /\ Openings \subseteq Opening
    /\ PackageUsers \subseteq Users
    /\ Grants \subseteq Users \X Workflows
    /\ Reconciler \notin Apps

ASSUME NullIsNoValue ==
    Null \notin Run \cup Receipt \cup RunIds \cup Counts \cup Revisions
                  \cup Contents \cup Operations

WorkflowOf(operation) ==
    CASE operation = "raw-telemetry"        -> "collection"
      [] operation = "classified-telemetry" -> "inference"
      [] operation = "human-validation"     -> "review"

Exists(r) == runs[r] # Null
Owns(u, r) == Exists(r) /\ runs[r].owner = u
Running(r) == runs[r].status = "running"

TypeOK ==
    /\ runs \in [RunIds -> Run \cup {Null}]
    /\ receipts \in [RunIds -> Receipt \cup {Null}]

Init ==
    /\ runs = [r \in RunIds |-> Null]
    /\ receipts = [r \in RunIds |-> Null]

-----------------------------------------------------------------------------
(* start_pipeline_run: an unknown id becomes a running run; the id of a run *)
(* with the same immutable metadata is returned whatever its status is.     *)

NewRun(u, m, v) ==
    [owner |-> u, meta |-> m, status |-> "running", output |-> Null,
     error |-> Null, revision |-> v, reconciles |-> Null]

StartAccepted(u, r, m, v) ==
    /\ <<u, m.workflow>> \in Grants
    /\ Exists(r) => Owns(u, r) /\ runs[r].meta = m /\ runs[r].revision = v

StartRun(u, r, m, v) ==
    /\ StartAccepted(u, r, m, v)
    /\ runs' = IF Exists(r) THEN runs ELSE [runs EXCEPT ![r] = NewRun(u, m, v)]
    /\ UNCHANGED receipts

-----------------------------------------------------------------------------
(* finish_pipeline_run: closes a running run; a terminal one only confirms  *)
(* the identical outcome.                                                   *)

ErrorOf(f) == IF f.status = "failed" THEN f.error ELSE Null
Coalesce(a, b) == IF a = Null THEN b ELSE a

Closed(r, f) ==
    [runs[r] EXCEPT !.status = f.status, !.output = f.output,
                    !.error = ErrorOf(f),
                    !.revision = Coalesce(f.revision, @)]

\* Mutant: a terminal run may be closed again.
FinishAcceptedAgain(u, r, f) == Owns(u, r)

FinishAccepted(u, r, f) ==
    /\ Owns(u, r)
    /\ ~Running(r) => runs[r] = Closed(r, f)

FinishRun(u, r, f) ==
    /\ FinishAccepted(u, r, f)
    /\ runs' = [runs EXCEPT ![r] = Closed(r, f)]
    /\ UNCHANGED receipts

-----------------------------------------------------------------------------
(* record_persistence_receipt: one receipt per run, written while it runs;  *)
(* repeating it returns the first one, whatever its inserted counts were.   *)

SameEvidence(old, new) == [old EXCEPT !.inserted = new.inserted] = new

\* Mutant: the operation is not compared with the run's workflow.
ReceiptAcceptedAnyWorkflow(u, r, e) ==
    /\ e.inserted <= e.rows
    /\ Owns(u, r)
    /\ IF receipts[r] # Null THEN SameEvidence(receipts[r], e) ELSE Running(r)

ReceiptAccepted(u, r, e) ==
    /\ e.inserted <= e.rows
    /\ Owns(u, r)
    /\ runs[r].meta.workflow = WorkflowOf(e.operation)
    /\ IF receipts[r] # Null THEN SameEvidence(receipts[r], e) ELSE Running(r)

RecordReceipt(u, r, e) ==
    /\ ReceiptAccepted(u, r, e)
    /\ receipts' = IF receipts[r] # Null THEN receipts ELSE [receipts EXCEPT ![r] = e]
    /\ UNCHANGED runs

-----------------------------------------------------------------------------
(* complete_verified_reconciliation: closes the running run r on the        *)
(* evidence of its receipt, under the id q of a separate linked run.        *)

Reconciling(r) == {q \in RunIds : Exists(q) /\ runs[q].reconciles = r}

\* a <> b is not true when either is NULL, and IF only takes what is true;
\* IS DISTINCT FROM is # here.
Differ(a, b) == a # Null /\ b # Null /\ a # b

\* Mutant: the counts of the receipt are not compared.
EvidenceMatchesUncounted(r, e) ==
    /\ receipts[r] # Null
    /\ ~Differ(receipts[r].operation, e.operation)
    /\ ~Differ(receipts[r].content, e.content)
    /\ receipts[r].revision = e.revision
    /\ runs[r].meta.input = e.rows
    /\ runs[r].revision = e.revision

\* Which count of the receipt is compared depends on the claimed operation: a
\* NULL one compares none.
EvidenceMatches(r, e) ==
    /\ receipts[r] # Null
    /\ ~Differ(receipts[r].operation, e.operation)
    /\ ~Differ(receipts[r].content, e.content)
    /\ receipts[r].revision = e.revision
    /\ runs[r].meta.input = e.rows
    /\ runs[r].revision = e.revision
    /\ e.operation # Null => ~Differ(receipts[r].rows, e.rows)

ReconcileAccepted(u, r, q, e) ==
    /\ Owns(u, r)
    /\ EvidenceMatches(r, e)
    /\ runs[r].status = "succeeded" => runs[r].output = e.rows
    /\ IF Reconciling(r) # {}
       THEN q \in Reconciling(r) /\ runs[q].status = "succeeded"
       ELSE runs[r].status = "succeeded" \/ (Running(r) /\ ~Exists(q))

\* Mutant: the output counts the first insertions again.
ReconciliationRunCountingTwice(u, r, e) ==
    [owner |-> u, meta |-> [runs[r].meta EXCEPT !.app = Reconciler],
     status |-> "succeeded", output |-> receipts[r].rows + receipts[r].inserted, error |-> Null,
     revision |-> runs[r].revision, reconciles |-> r]

ReconciliationRun(u, r, e) ==
    [owner |-> u, meta |-> [runs[r].meta EXCEPT !.app = Reconciler],
     status |-> "succeeded", output |-> e.rows, error |-> Null,
     revision |-> runs[r].revision, reconciles |-> r]

Reconcile(u, r, q, e) ==
    /\ ReconcileAccepted(u, r, q, e)
    /\ runs' = IF Reconciling(r) # {} \/ ~Running(r)
               THEN runs
               ELSE [runs EXCEPT ![q] = ReconciliationRun(u, r, e),
                                 ![r] = [@ EXCEPT !.status = "succeeded",
                                                  !.output = e.rows,
                                                  !.error = Null]]
    /\ UNCHANGED receipts

-----------------------------------------------------------------------------
Next ==
    \/ \E o \in Openings : StartRun(o.user, o.run, o.meta, o.revision)
    \/ \E u \in Users, r \in RunIds :
        \/ \E f \in Closings : FinishRun(u, r, f)
        \/ \E e \in Receipt : RecordReceipt(u, r, e)
        \/ \E q \in RunIds, e \in Claim :
                (u \in PackageUsers => NamesAll(e)) /\ Reconcile(u, r, q, e)

Spec == Init /\ [][Next]_vars

-----------------------------------------------------------------------------
(* What the ledger promises whatever its clients do.                        *)

\* A receipt is evidence of a run of the right workflow, and never claims
\* more first insertions than rows (the checks of record_persistence_receipt
\* survive every later start, finish and reconciliation).
ReceiptsAreGrounded ==
    \A r \in RunIds :
        receipts[r] # Null =>
            /\ Exists(r)
            /\ runs[r].meta.workflow = WorkflowOf(receipts[r].operation)
            /\ receipts[r].inserted <= receipts[r].rows

ProvenBy(q, r) ==
    /\ q # r /\ receipts[q] = Null
    /\ runs[q].status = "succeeded"
    /\ Exists(r) /\ receipts[r] # Null
    /\ runs[r].status = "succeeded" /\ runs[r].reconciles = Null
    /\ runs[r].owner = runs[q].owner
    /\ runs[r].meta.workflow = runs[q].meta.workflow
    /\ runs[r].output = runs[r].meta.input /\ runs[q].output = runs[r].output
    /\ runs[r].revision = receipts[r].revision /\ runs[q].revision = runs[r].revision
    /\ runs[r].owner \in PackageUsers => runs[r].output = receipts[r].rows

\* A reconciliation run is the trace of an original that was closed on a receipt
\* of its own: same owner, workflow and revision, and one row count in what the
\* original declared and in both outputs.  It writes no data itself.  When the
\* role calls through the package the receipt counts these rows too, whatever
\* the roles that write their own SQL do to their runs; for those it need not,
\* because a claim without operation is compared with no count.
ReconciliationsAreProven ==
    \A q, r \in RunIds : q \in Reconciling(r) => ProvenBy(q, r)

\* uq_pipeline_runs_reconciles_run: concurrent and repeated recoveries leave
\* at most one reconciliation run per original.
OneReconciliation ==
    \A r, p, q \in RunIds : p \in Reconciling(r) /\ q \in Reconciling(r) => p = q

\* A run is reconciled once, and on a receipt of its own, whoever tries again or
\* at the same time (complete_verified_reconciliation).
ReconciliationsHold == ReconciliationsAreProven /\ OneReconciliation

\* Runs are never deleted, a terminal run never changes again, and the
\* identity a run was opened with survives its end ("no reabre estados
\* terminales", docs/architecture/decisions/0033-*.md:56).
RunsAreFinal ==
    \A r \in RunIds : Exists(r) =>
        /\ Exists(r)'
        /\ runs[r].status \in Terminal => runs'[r] = runs[r]
        /\ runs'[r].owner = runs[r].owner /\ runs'[r].meta = runs[r].meta
TerminalRunsFrozen == [][RunsAreFinal]_vars

\* A receipt is immutable, and one appears only while its run is running: no
\* evidence is fabricated for a run that already ended.
ReceiptsAreFinal ==
    \A r \in RunIds :
        /\ receipts[r] # Null => receipts'[r] = receipts[r]
        /\ receipts'[r] # receipts[r] => Exists(r) /\ Running(r)
ReceiptsPermanent == [][ReceiptsAreFinal]_vars

\* The ledger is an archive: what it says of a run that has ended, and the evidence
\* it has of any run, stay as they are.
LedgerStands == [][RunsAreFinal /\ ReceiptsAreFinal]_vars
=============================================================================
