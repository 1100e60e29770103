--------------------------- MODULE TelemetryBatches ---------------------------
(***************************************************************************)
(* persist_raw_telemetry, persist_classified_telemetry and their           *)
(* reconciliations: a frame of minutes is written by one transaction of    *)
(* several statements per batch, under a run of the ledger.                *)
(*                                                                         *)
(* The statements of concurrent transactions interleave under READ         *)
(* COMMITTED: a query sees what is committed, and an INSERT ... ON         *)
(* CONFLICT DO NOTHING takes its rows one by one and waits at a row that   *)
(* another transaction has inserted and not ended.  Each process writes    *)
(* under run ids of its own (a fresh uuid4 or the id of its attempt), so   *)
(* the locks on a run's row never conflict and are left out.               *)
(***************************************************************************)
EXTENDS Continuity

CONSTANTS
    Clients,        \* processes that write telemetry, each with a role of its own
    RunsOf,         \* the run ids each process uses
    FramesOf,       \* the frames each process submits: [kind, rows]
    Revision,       \* the model revision of a bundle
    RawValues,      \* the values a raw minute may have,
    ClassifiedValues, \* and a classified one
    BatchSize,      \* DEFAULT_BATCH_SIZE
    MaxRows,        \* bound of the rows of a frame
    FaultPoints,    \* the failures that may occur: a set of <<call, kind>>
    MaxFaults,      \* bound of the number of failures
    Null

VARIABLES
    runs,           \* vaaet_ops.pipeline_runs
    receipts,       \* vaaet_ops.persistence_receipts
    table,          \* committed rows: a set of [entity, key, content, run]
    call,           \* where each process is in its call
    faults          \* failures so far

batchVars == <<runs, receipts, table, call, faults>>

Submitted == UNION {FramesOf[c] : c \in Clients}
Stored    == {[f EXCEPT !.rows = Normalized(@)] : f \in Submitted}
Runs      == UNION {RunsOf[c] : c \in Clients}

ReconciliationId(r, f) == <<r, f>>
RunIds == Runs \cup {ReconciliationId(r, f) : r \in Runs, f \in Stored}

WorkflowFor(f) == IF f.kind = "raw" THEN "collection" ELSE "inference"
RevisionOf(f)  == IF f.kind = "raw" THEN Null ELSE Revision
Meta(f) == [workflow |-> WorkflowFor(f), app |-> f.kind, input |-> Len(f.rows)]

L == INSTANCE RunLedger WITH
       Users     <- Clients,
       PackageUsers <- Clients,
       Grants    <- Clients \X {"collection", "inference"},
       Apps      <- {"raw", "classified"},
       Revisions <- {Revision},
       Contents  <- Stored,
       Errors    <- {"conflict", "error"},
       Openings  <- {}

ASSUME BatchConstants ==
    /\ BatchSize \in Nat \ {0} /\ MaxRows \in Nat /\ MaxFaults \in Nat
    /\ \A c, d \in Clients : c # d => RunsOf[c] \cap RunsOf[d] = {}
    /\ \A f \in Submitted :
          /\ DOMAIN f = {"kind", "rows"} /\ f.kind \in {"raw", "classified"}
          /\ f.rows \in Seq({f.rows[i] : i \in DOMAIN f.rows}) /\ Len(f.rows) \in 1 .. MaxRows

ASSUME RowsAreValues == Null \notin L!Run \cup L!Receipt \cup RunIds \cup Stored

\* A call in progress is at its next statement; "fail" closes a run whose work
\* raised.  next counts the rows of the batch that were inserted.
Points == {"idle", "start", "read", "insert", "compare", "receipt", "succeed", "fail"}

Nothing == [at |-> "idle", frame |-> Null, run |-> Null, batch |-> 1, entity |-> 1,
            next |-> 0, wrote |-> {}, reply |-> "none"]

BatchInit ==
    /\ L!Init
    /\ table = {}
    /\ call = [c \in Clients |-> Nothing]
    /\ faults = 0

-----------------------------------------------------------------------------
At(c, point) == call[c].at = point
Frame(c) == call[c].frame
Change(c, new) == call' = [call EXCEPT ![c] = new]
Go(c, point) == Change(c, [call[c] EXCEPT !.at = point])

\* The end of a transaction forgets what it had not committed.
Leave(c, point, reply) ==
    Change(c, [Nothing EXCEPT !.at = point, !.frame = Frame(c), !.run = call[c].run,
                              !.reply = reply])

\* Raw minutes are one table for everybody; features and their predictions are
\* rows of their run.
Entities(f) == IF f.kind = "raw" THEN <<"raw">> ELSE <<"feature", "prediction">>

RowFor(entity, row, run) ==
    [entity  |-> entity,
     key     |-> IF entity = "raw" THEN <<row.clip, row.time>> ELSE <<row.clip, row.time, run>>,
     content |-> row, run |-> run]

Entity(c) == Entities(Frame(c))[call[c].entity]

\* _batches: the rows of the batch, in the order of the frame.
Batches(f) == (Len(f.rows) + BatchSize - 1) \div BatchSize

BatchRows(c) ==
    LET first == (call[c].batch - 1) * BatchSize
        size  == IF Len(Frame(c).rows) - first < BatchSize
                 THEN Len(Frame(c).rows) - first ELSE BatchSize
    IN  [i \in 1 .. size |-> RowFor(Entity(c), Frame(c).rows[first + i], call[c].run)]

\* What a query of the transaction sees: committed rows and its own.
Visible(c, row) == {x \in table \cup call[c].wrote : x.entity = row.entity /\ x.key = row.key}

\* _assert_idempotent: the columns of the minute, and not the raw row's run.
SameContent(x, row) == x.content = row.content

-----------------------------------------------------------------------------
(* Exceptions and failures, as in pipeline_run.                             *)

Working(c) == call[c].at \in {"read", "insert", "compare", "receipt"}

\* Mutant: whatever fails is taken for an audit that is not complete.
RaiseAsPending(c, e) ==
    Leave(c, IF Working(c) THEN "fail" ELSE "idle", "pending")
Raise(c, e) ==
    CASE Working(c)       -> Leave(c, "fail", e)
      [] At(c, "succeed") -> Leave(c, "idle", "pending")
      [] At(c, "fail")    -> Leave(c, "idle", call[c].reply)
      [] OTHER            -> Leave(c, "idle", e)

Fault(point, kind) ==
    /\ <<point, kind>> \in FaultPoints
    /\ faults < MaxFaults
    /\ faults' = faults + 1

CallAt(c) == CASE At(c, "start") -> "start" [] Working(c) -> "data" [] OTHER -> "finish"

Answer(c, point, next, reply) ==
    \/ Leave(c, next, reply) /\ UNCHANGED faults
    \/ Fault(point, "lostanswer") /\ Raise(c, "error")

Rollback(c) ==
    /\ ~At(c, "idle")
    /\ Fault(CallAt(c), "rollback")
    /\ Raise(c, "error")
    /\ UNCHANGED <<runs, receipts, table>>

Crash(c) ==
    /\ ~At(c, "idle")
    /\ Fault(CallAt(c), "crash")
    /\ Change(c, Nothing)
    /\ UNCHANGED <<runs, receipts, table>>

-----------------------------------------------------------------------------
(* One call: validate, start the run, write the batches, record, finish.    *)

\* _validate_raw_row, _validate_classified_row: the values a minute may have.
RawRowIsValid(row)        == row.value \in RawValues
ClassifiedRowIsValid(row) == row.value \in ClassifiedValues
Valid(f) ==
    /\ Accepted(f.rows)
    /\ \A i \in DOMAIN f.rows :
          IF f.kind = "raw" THEN RawRowIsValid(f.rows[i]) ELSE ClassifiedRowIsValid(f.rows[i])

\* The frame is normalised and validated before any connection is opened.
Submit(c, f, r) ==
    /\ At(c, "idle")
    /\ IF Valid(f)
       THEN Change(c, [Nothing EXCEPT !.at = "start", !.run = r,
                                      !.frame = [f EXCEPT !.rows = Normalized(@)]])
       ELSE Change(c, [Nothing EXCEPT !.reply = "error"])
    /\ UNCHANGED <<runs, receipts, table, faults>>

OpenRun(c) ==
    /\ At(c, "start")
    /\ L!StartRun(c, call[c].run, Meta(Frame(c)), RevisionOf(Frame(c)))
    /\ Answer(c, "start", "read", "none")
    /\ UNCHANGED table

RunRefused(c) ==
    /\ At(c, "start")
    /\ ~L!StartAccepted(c, call[c].run, Meta(Frame(c)), RevisionOf(Frame(c)))
    /\ Raise(c, "conflict")
    /\ UNCHANGED <<runs, receipts, table, faults>>

\* The rows of the batch that are already there must have its content.
ReadExisting(c) ==
    /\ At(c, "read")
    /\ IF \A i \in DOMAIN BatchRows(c) :
            \A x \in Visible(c, BatchRows(c)[i]) : SameContent(x, BatchRows(c)[i])
       THEN Change(c, [call[c] EXCEPT !.at = "insert", !.next = 0])
       ELSE Raise(c, "conflict")
    /\ UNCHANGED <<runs, receipts, table, faults>>

Rivals(c, row) ==
    {d \in Clients \ {c} : \E x \in call[d].wrote : x.entity = row.entity /\ x.key = row.key}

\* The next row of the INSERT: it waits for a rival's row, leaves a row that is
\* there alone, and writes one that is not.
InsertRow(c) ==
    /\ At(c, "insert")
    /\ LET n == call[c].next + 1  row == BatchRows(c)[n] IN
       /\ Rivals(c, row) = {}
       /\ Change(c, [call[c] EXCEPT
              !.next  = n,
              !.wrote = IF Visible(c, row) = {} THEN @ \cup {row} ELSE @,
              !.at    = IF n = Len(BatchRows(c)) THEN "compare" ELSE @])
    /\ UNCHANGED <<runs, receipts, table, faults>>

\* Every row of the batch is there with its content: go on with the predictions
\* of these features, with the next batch, or with the receipt.
Compare(c) ==
    /\ At(c, "compare")
    /\ IF \E i \in DOMAIN BatchRows(c) :
            ~\E x \in Visible(c, BatchRows(c)[i]) : SameContent(x, BatchRows(c)[i])
       THEN Raise(c, "conflict")
       ELSE IF call[c].entity < Len(Entities(Frame(c)))
       THEN Change(c, [call[c] EXCEPT !.entity = @ + 1, !.at = "read"])
       ELSE IF call[c].batch < Batches(Frame(c))
       THEN Change(c, [call[c] EXCEPT !.batch = @ + 1, !.entity = 1, !.at = "read"])
       ELSE Go(c, "receipt")
    /\ UNCHANGED <<runs, receipts, table, faults>>

\* Rows first inserted, of each entity: a feature and its prediction have one
\* run and one transaction, so they are first inserted together.
Inserted(c) == Cardinality({x \in call[c].wrote : x.entity = Entities(Frame(c))[1]})

OperationOf(f) == IF f.kind = "raw" THEN "raw-telemetry" ELSE "classified-telemetry"

Evidence(f, inserted) ==
    [operation |-> OperationOf(f), content |-> f, rows |-> Len(f.rows),
     inserted |-> inserted, revision |-> RevisionOf(f)]

\* What a reconciliation claims of the receipt.
Claim(f) ==
    [operation |-> OperationOf(f), content |-> f, rows |-> Len(f.rows),
     revision |-> RevisionOf(f)]

\* Mutant: each batch is committed, and its receipt counts the last one.
RecordOneBatch(c) ==
    /\ At(c, "receipt")
    /\ L!RecordReceipt(c, call[c].run, Evidence(Frame(c), call[c].next))
    /\ table' = table \cup call[c].wrote
    /\ Answer(c, "data", "succeed", "none")

\* record_persistence_receipt, then COMMIT.
Record(c) ==
    /\ At(c, "receipt")
    /\ L!RecordReceipt(c, call[c].run, Evidence(Frame(c), Inserted(c)))
    /\ table' = table \cup call[c].wrote
    /\ Answer(c, "data", "succeed", "none")

RecordRefused(c) ==
    /\ At(c, "receipt")
    /\ ~L!ReceiptAccepted(c, call[c].run, Evidence(Frame(c), Inserted(c)))
    /\ Raise(c, "conflict")
    /\ UNCHANGED <<runs, receipts, table, faults>>

Closing(c) ==
    IF At(c, "succeed")
    THEN [status |-> "succeeded", output |-> Len(Frame(c).rows), error |-> Null,
          revision |-> Null]
    ELSE [status |-> "failed", output |-> Null, error |-> call[c].reply, revision |-> Null]

CloseRun(c) ==
    /\ At(c, "succeed") \/ At(c, "fail")
    /\ L!FinishRun(c, call[c].run, Closing(c))
    /\ Answer(c, "finish", "idle",
              IF At(c, "succeed") THEN "confirmed" ELSE call[c].reply)
    /\ UNCHANGED table

CloseRefused(c) ==
    /\ At(c, "succeed") \/ At(c, "fail")
    /\ ~L!FinishAccepted(c, call[c].run, Closing(c))
    /\ Raise(c, "error")
    /\ UNCHANGED <<runs, receipts, table, faults>>

-----------------------------------------------------------------------------
(* reconcile_raw_telemetry and reconcile_classified_telemetry: one          *)
(* transaction that reads and completes the audit.                          *)

\* Every row of the frame is committed with its content, and the features and
\* predictions under that run.
IsStored(f, r) ==
    \A i \in DOMAIN f.rows, e \in DOMAIN Entities(f) :
        LET row == RowFor(Entities(f)[e], f.rows[i], r) IN
        \E x \in table : x.entity = row.entity /\ x.key = row.key /\ SameContent(x, row)

\* _assert_reconciliation_state compares what the ledger compares again, and the
\* workflow and the declared metadata.
Reconcilable(c, f, r) ==
    /\ L!Exists(r) /\ runs[r].meta = Meta(f)
    /\ IsStored(f, r)
    /\ L!ReconcileAccepted(c, r, ReconciliationId(r, f), Claim(f))

Reconcile(c, g, r) ==
    /\ At(c, "idle")
    /\ Valid(g)
    /\ LET f == [g EXCEPT !.rows = Normalized(@)]
           done(reply) == Change(c, [Nothing EXCEPT !.frame = f, !.run = r, !.reply = reply])
       IN
       \/ /\ Reconcilable(c, f, r)
          /\ L!Reconcile(c, r, ReconciliationId(r, f), Claim(f))
          /\ \/ done("confirmed") /\ UNCHANGED faults
             \/ Fault("reconcile", "lostanswer") /\ done("error")
       \/ /\ ~Reconcilable(c, f, r)
          /\ done("conflict")
          /\ UNCHANGED <<runs, receipts, faults>>
       \/ /\ Fault("reconcile", "rollback")
          /\ done("error")
          /\ UNCHANGED <<runs, receipts>>
    /\ UNCHANGED table

-----------------------------------------------------------------------------
Proceed(c) ==
    \/ OpenRun(c) \/ RunRefused(c)
    \/ ReadExisting(c) \/ InsertRow(c) \/ Compare(c)
    \/ Record(c) \/ RecordRefused(c)
    \/ CloseRun(c) \/ CloseRefused(c)

BatchNext ==
    \E c \in Clients :
        \/ \E f \in FramesOf[c], r \in RunsOf[c] : Submit(c, f, r) \/ Reconcile(c, f, r)
        \/ Proceed(c)
        \/ Rollback(c) \/ Crash(c)

\* A process goes on with its call, and PostgreSQL serves the waiters of a row
\* in order; failures have no fairness.
Fairness == \A c \in Clients : SF_batchVars(Proceed(c))

FairSpec == BatchInit /\ [][BatchNext]_batchVars /\ Fairness

-----------------------------------------------------------------------------
(* Properties.                                                              *)

RowsOf(r, entity) == {x \in table : x.run = r /\ x.entity = entity}

\* Frames are stored whole or not at all, and the receipts divide the table:
\* the rows a run first inserted are as many as its receipt says, a run without
\* a receipt inserted none, and every minute a receipt vouches for is there
\* with the content it vouches for, whoever inserted it.  (The transaction of
\* _persist_raw_rows and _persist_classified_rows with its receipt.)
RowsAreAccounted ==
    \A r \in Runs :
        IF receipts[r] = Null
        THEN \A x \in table : x.run # r
        ELSE LET f == receipts[r].content IN
             /\ IsStored(f, r)
             /\ \A e \in DOMAIN Entities(f) :
                  Cardinality(RowsOf(r, Entities(f)[e])) = receipts[r].inserted

\* A natural key has one row, and no answer overstates the database: a frame
\* that was confirmed has a succeeded run with a receipt, and one whose audit is
\* pending is stored (PersistResult.audit_complete, PipelineAuditIncompleteError).
AnswersAreStored ==
    /\ \A x, y \in table : x.entity = y.entity /\ x.key = y.key => x = y
    /\ \A c \in Clients :
        call[c].reply \in {"confirmed", "pending"} =>
            LET r == call[c].run IN
            /\ IsStored(Frame(c), r)
            /\ receipts[r] # Null /\ receipts[r].content = Frame(c)
            /\ call[c].reply = "confirmed" => runs[r].status = "succeeded"

\* No circle of transactions that wait for each other's rows: every call ends.
\* normalize_continuity_frame sorts all frames alike, so the rows are locked in
\* one order.
CallsEnd == \A c \in Clients : ~At(c, "idle") ~> At(c, "idle")
=============================================================================
