------------------------ MODULE ValidationPersistence ------------------------
(***************************************************************************)
(* How a human decision reaches PostgreSQL: the clients of                 *)
(* review_persistence.py and the context manager pipeline_run, over the    *)
(* ledger of RunLedger and the table vaaet_feedback.human_validations.     *)
(*                                                                         *)
(* A call of persist_human_validation_record is up to four transactions    *)
(* (look the decision up, start the run named by its UUID, write decision  *)
(* and receipt together, finish the run); other clients run between any    *)
(* two.  Each transaction is one step: it may commit, be refused, roll     *)
(* back, or commit and lose its answer, and the client may crash instead.  *)
(* FaultPoints says which of these failures occur and MaxFaults how many.  *)
(***************************************************************************)
EXTENDS Naturals

CONSTANTS
    Clients,      \* processes that call review_persistence
    Users,        \* database roles with the reviewer grant
    Trainers,     \* those that may also read other users' runs
    UserOf,       \* the role each client connects with
    Apps,         \* application name, version and review source
    AppOf,        \* the application each client declares
    Validations,  \* validation UUIDs, which also name their runs
    Predictions,  \* predictions under review
    Labels,       \* what a reviewer decides, notes and instant included
    Decisions,    \* the HumanValidation values that may be submitted
    FaultPoints,  \* the failures that may occur: a set of <<call, kind>>
    MaxFaults,    \* bound of the number of failures
    Null

VARIABLES
    runs,         \* vaaet_ops.pipeline_runs
    receipts,     \* vaaet_ops.persistence_receipts
    stored,       \* vaaet_feedback.human_validations: UUID -> decision
    client,       \* where each client is in its call, and its last reply
    faults        \* failures so far

vars == <<runs, receipts, stored, client, faults>>

Decision ==
    [id : Validations, prediction : Predictions, label : Labels,
     supersedes : Validations \cup {Null}]

\* The run of a decision has its UUID; its reconciliation has the uuid5 of that
\* and of the content fingerprint.
ReconciliationId(d) == <<d.id, d>>
RunIds == Validations \cup {ReconciliationId(d) : d \in Decisions}

Calls == {"lookup", "audit", "start", "data", "finish", "reconcile"}
Kinds == {"rollback", "lostanswer", "crash"}

\* A call in progress is at its next transaction; "fail" is the finish of a run
\* whose work raised.
Points  == {"idle", "audit", "start", "data", "succeed", "fail"}
Replies == {"none", "confirmed", "pending", "conflict", "error"}

\* What finish_pipeline_run keeps of an exception is its class name.
Errors == {"conflict", "error"}

ReviewMeta(c) == [workflow |-> "review", app |-> AppOf[c], input |-> 1]

ASSUME PersistenceConstants ==
    /\ Decisions \subseteq Decision
    /\ UserOf \in [Clients -> Users] /\ AppOf \in [Clients -> Apps]
    /\ Trainers \subseteq Users
    /\ FaultPoints \subseteq Calls \X Kinds
    /\ MaxFaults \in Nat
    /\ Null \notin Validations \cup Decisions
    /\ \A d \in Decisions : ReconciliationId(d) \notin Validations

L == INSTANCE RunLedger WITH
       PackageUsers <- Users,
       Grants    <- Users \X {"review"},
       Revisions <- {},
       Contents  <- Decisions,
       MaxRows   <- 1,
       Openings  <- {[user |-> UserOf[c], run |-> d.id, meta |-> ReviewMeta(c),
                      revision |-> Null] : c \in Clients, d \in Decisions}

ASSUME RowsAreValues ==
    /\ L!Reconciler \notin Apps
    /\ Null \notin L!Run \cup L!Receipt \cup RunIds \cup L!Counts \cup L!Operations

Session == [at : Points, decision : Decisions \cup {Null}, reply : Replies]

TypeOK ==
    /\ L!TypeOK
    /\ stored \in [Validations -> Decisions \cup {Null}]
    /\ client \in [Clients -> Session]
    /\ faults \in 0 .. MaxFaults

Init ==
    /\ L!Init
    /\ stored = [v \in Validations |-> Null]
    /\ client = [c \in Clients |-> [at |-> "idle", decision |-> Null, reply |-> "none"]]
    /\ faults = 0

-----------------------------------------------------------------------------
(* The table and its trigger.                                               *)

StoredFor(p) == {v \in Validations : stored[v] # Null /\ stored[v].prediction = p}
Successors(v) == {w \in Validations : stored[w] # Null /\ stored[w].supersedes = v}

\* validate_superseded_validation: the first decision on a prediction is its
\* only root; any other supersedes one of the same prediction that nothing
\* superseded before.
Fits(d) ==
    IF d.supersedes = Null
    THEN StoredFor(d.prediction) = {}
    ELSE /\ d.supersedes \in StoredFor(d.prediction)
         /\ Successors(d.supersedes) = {}

Audited(v) == L!Exists(v) /\ runs[v].status = "succeeded" /\ receipts[v] # Null

Evidence(d, inserted) ==
    [operation |-> "human-validation", content |-> d, rows |-> 1,
     inserted |-> inserted, revision |-> Null]

\* What a reconciliation claims of the receipt.
Claim(d) == [operation |-> "human-validation", content |-> d, rows |-> 1, revision |-> Null]

-----------------------------------------------------------------------------
(* A call's progress, its exceptions and its failures.                      *)

Idle(c) == client[c].at = "idle"
At(c, point) == client[c].at = point
Deciding(c) == client[c].decision

Begin(c, d, point, reply) ==
    client' = [client EXCEPT ![c] = [at |-> point, decision |-> d, reply |-> reply]]

Go(c, point, reply) == Begin(c, Deciding(c), point, reply)

\* Mutant: a failed finish is answered as if the audit were complete.
RaiseConfirming(c, e) ==
    CASE At(c, "data")    -> Go(c, "fail", e)
      [] At(c, "succeed") -> Go(c, "idle", "confirmed")
      [] At(c, "fail")    -> Go(c, "idle", client[c].reply)
      [] OTHER            -> Go(c, "idle", e)

\* The exception e leaves the transaction the call is at.  Inside the body of
\* pipeline_run it goes through the finish of a failed run; the finish itself
\* never raises, so a decision already written is answered as pending audit.
Raise(c, e) ==
    CASE At(c, "data")    -> Go(c, "fail", e)
      [] At(c, "succeed") -> Go(c, "idle", "pending")
      [] At(c, "fail")    -> Go(c, "idle", client[c].reply)
      [] OTHER            -> Go(c, "idle", e)

Fault(call, kind) ==
    /\ <<call, kind>> \in FaultPoints
    /\ faults < MaxFaults
    /\ faults' = faults + 1

\* A committed transaction is answered, or its answer is lost.
Answer(c, call, point, reply) ==
    \/ Go(c, point, reply) /\ UNCHANGED faults
    \/ Fault(call, "lostanswer") /\ Raise(c, "error")

CallAt(c) == CASE At(c, "audit") -> "audit" [] At(c, "start") -> "start"
               [] At(c, "data") -> "data" [] OTHER -> "finish"

Rollback(c) ==
    /\ ~Idle(c)
    /\ Fault(CallAt(c), "rollback")
    /\ Raise(c, "error")
    /\ UNCHANGED <<runs, receipts, stored>>

\* A killed process or a KeyboardInterrupt: no finish, no answer.
Crash(c) ==
    /\ ~Idle(c)
    /\ Fault(CallAt(c), "crash")
    /\ Go(c, "idle", "none")
    /\ UNCHANGED <<runs, receipts, stored>>

-----------------------------------------------------------------------------
(* persist_human_validation_record without an explicit run.                 *)

\* _load_existing_validation: a stored decision is compared and its audit state
\* read next; an unknown one opens its run.
Lookup(c, d) ==
    /\ Idle(c)
    /\ \/ /\ UNCHANGED faults
          /\ CASE stored[d.id] = Null -> Begin(c, d, "start", "none")
               [] stored[d.id] = d    -> Begin(c, d, "audit", "none")
               [] OTHER               -> Begin(c, d, "idle", "conflict")
       \/ Fault("lookup", "rollback") /\ Begin(c, d, "idle", "error")
    /\ UNCHANGED <<runs, receipts, stored>>

\* load_human_validation_record: the same two reads from the UUID alone.
LoadRecord(c, v) ==
    /\ Idle(c)
    /\ stored[v] # Null
    /\ Begin(c, stored[v], "audit", "none")
    /\ UNCHANGED <<runs, receipts, stored, faults>>

\* _load_audit_state, with the visibility rule of read_pipeline_run_audit_state.
Visible(u, v) == runs[v].owner = u \/ u \in Trainers

ReadAudit(c) ==
    /\ At(c, "audit")
    /\ LET v == Deciding(c).id IN
       Go(c, "idle", IF ~Visible(UserOf[c], v) THEN "error"
                     ELSE IF Audited(v) THEN "confirmed" ELSE "pending")
    /\ UNCHANGED <<runs, receipts, stored, faults>>

OpenRun(c) ==
    /\ At(c, "start")
    /\ L!StartRun(UserOf[c], Deciding(c).id, ReviewMeta(c), Null)
    /\ Answer(c, "start", "data", "none")
    /\ UNCHANGED stored

RunRefused(c) ==
    /\ At(c, "start")
    /\ ~L!StartAccepted(UserOf[c], Deciding(c).id, ReviewMeta(c), Null)
    /\ Raise(c, "conflict")
    /\ UNCHANGED <<runs, receipts, stored, faults>>

\* One transaction: insert unless the UUID is taken, compare, write the receipt.
DecisionAccepted(c) ==
    LET d == Deciding(c) IN
    /\ IF stored[d.id] = Null THEN Fits(d) ELSE stored[d.id] = d
    /\ L!ReceiptAccepted(UserOf[c], d.id, Evidence(d, IF stored[d.id] = Null THEN 1 ELSE 0))

\* Mutant: the receipt is left for a later transaction.
StoreDecisionOnly(c) ==
    /\ At(c, "data")
    /\ DecisionAccepted(c)
    /\ stored' = [stored EXCEPT ![Deciding(c).id] = Deciding(c)]
    /\ Answer(c, "data", "succeed", "none")
    /\ UNCHANGED <<runs, receipts>>

StoreDecision(c) ==
    /\ At(c, "data")
    /\ DecisionAccepted(c)
    /\ LET d == Deciding(c) IN
       /\ stored' = [stored EXCEPT ![d.id] = d]
       /\ L!RecordReceipt(UserOf[c], d.id,
                          Evidence(d, IF stored[d.id] = Null THEN 1 ELSE 0))
    /\ Answer(c, "data", "succeed", "none")

DecisionRefused(c) ==
    /\ At(c, "data")
    /\ ~DecisionAccepted(c)
    /\ Raise(c, "conflict")
    /\ UNCHANGED <<runs, receipts, stored, faults>>

\* finalize_pipeline_run_outcome: an audit failure is swallowed.
Closing(c) ==
    [status   |-> IF At(c, "succeed") THEN "succeeded" ELSE "failed",
     output   |-> IF At(c, "succeed") THEN 1 ELSE Null,
     error    |-> IF At(c, "succeed") THEN Null ELSE client[c].reply,
     revision |-> Null]

CloseRun(c) ==
    /\ At(c, "succeed") \/ At(c, "fail")
    /\ L!FinishRun(UserOf[c], Deciding(c).id, Closing(c))
    /\ Answer(c, "finish", "idle",
              IF At(c, "succeed") THEN "confirmed" ELSE client[c].reply)
    /\ UNCHANGED stored

CloseRefused(c) ==
    /\ At(c, "succeed") \/ At(c, "fail")
    /\ ~L!FinishAccepted(UserOf[c], Deciding(c).id, Closing(c))
    /\ Raise(c, "error")
    /\ UNCHANGED <<runs, receipts, stored, faults>>

-----------------------------------------------------------------------------
(* reconcile_human_validation: one transaction that compares the stored     *)
(* decision and its receipt and completes only the audit.                   *)

\* Mutant: reconciliation insists on a run that is already closed.
ReconcilableOnceClosed(c, d) ==
    /\ stored[d.id] = d
    /\ Audited(d.id)
    /\ L!ReconcileAccepted(UserOf[c], d.id, ReconciliationId(d), Claim(d))

Reconcilable(c, d) ==
    /\ stored[d.id] = d
    /\ L!ReconcileAccepted(UserOf[c], d.id, ReconciliationId(d), Claim(d))

\* Another user's run is refused as unauthorised, anything else as a conflict.
Refusal(c, d) ==
    IF stored[d.id] = d /\ ~L!Owns(UserOf[c], d.id) THEN "error" ELSE "conflict"

Reconcile(c, d) ==
    /\ Idle(c)
    /\ \/ /\ Reconcilable(c, d)
          /\ L!Reconcile(UserOf[c], d.id, ReconciliationId(d), Claim(d))
          /\ \/ Begin(c, d, "idle", "confirmed") /\ UNCHANGED faults
             \/ Fault("reconcile", "lostanswer") /\ Begin(c, d, "idle", "error")
       \/ /\ ~Reconcilable(c, d)
          /\ Begin(c, d, "idle", Refusal(c, d))
          /\ UNCHANGED <<runs, receipts, faults>>
       \/ /\ Fault("reconcile", "rollback")
          /\ Begin(c, d, "idle", "error")
          /\ UNCHANGED <<runs, receipts>>
    /\ UNCHANGED stored

-----------------------------------------------------------------------------
Proceed(c) ==
    \/ ReadAudit(c)
    \/ OpenRun(c) \/ RunRefused(c)
    \/ StoreDecision(c) \/ DecisionRefused(c)
    \/ CloseRun(c) \/ CloseRefused(c)

Next ==
    \E c \in Clients :
        \/ \E d \in Decisions : Lookup(c, d) \/ Reconcile(c, d)
        \/ \E v \in Validations : LoadRecord(c, v)
        \/ Proceed(c)
        \/ Rollback(c) \/ Crash(c)

Spec == Init /\ [][Next]_vars

\* A client that began a call carries on with it, and a reviewer who has a
\* decision without a confirmation submits it again and reconciles it, as
\* docs/operations/postgresql-guide.md:195-213 tells him to.
Fairness ==
    \A c \in Clients :
        /\ WF_vars(Proceed(c))
        /\ \A d \in Decisions : SF_vars(Lookup(c, d)) /\ SF_vars(Reconcile(c, d))

FairSpec == Spec /\ Fairness

-----------------------------------------------------------------------------
(* What persistence promises.                                               *)

\* A reply that says confirmed is about a decision that is in the database
\* exactly as submitted, under a succeeded run that keeps its receipt
\* ("Una validacion humana solo se considera confirmada...", ADR-0033:37).
ConfirmedIsDurable ==
    \A c \in Clients :
        client[c].reply = "confirmed" =>
            /\ stored[Deciding(c).id] = Deciding(c)
            /\ Audited(Deciding(c).id)

\* A pending reply is as sure of the decision; only its audit may be missing.
PendingIsStored ==
    \A c \in Clients :
        client[c].reply = "pending" =>
            /\ stored[Deciding(c).id] = Deciding(c)
            /\ receipts[Deciding(c).id] # Null

\* Decision and receipt are committed or rolled back together, and a receipt
\* vouches for the content stored under its run.
DataAndReceiptTogether ==
    \A v \in Validations :
        /\ stored[v] # Null <=> receipts[v] # Null
        /\ stored[v] # Null => receipts[v].content = stored[v]

\* No run is reported as succeeded without the decision it was opened for.
SucceededHasEvidence ==
    \A v \in Validations :
        L!Exists(v) /\ runs[v].status = "succeeded" => stored[v] # Null /\ receipts[v] # Null

\* What a reply says is so, and stays so whatever the other clients and failures do
\* (PersistedHumanValidation.status).
RepliesAreKept == ConfirmedIsDurable /\ PendingIsStored

\* Evidence and data are one: neither a receipt, nor a success, without its decision
\* (record_persistence_receipt in the transaction of the INSERT).
EvidenceIsWhole == DataAndReceiptTogether /\ SucceededHasEvidence

\* The clients of this module are clients of the ledger: every step is a call
\* of one of its functions or leaves it alone.
LedgerRefined == L!Spec


-----------------------------------------------------------------------------
(* What the documents say of recovery, and the code does not always do.     *)

\* ADR-0033:38-40: a decision that is stored with its audit pending is
\* reconciled by trying again.
PendingIsReconcilable ==
    \A v \in Validations :
        stored[v] # Null /\ ~Audited(v) =>
            \E u \in Users :
                L!ReconcileAccepted(u, v, ReconciliationId(stored[v]), Claim(stored[v]))

\* review_persistence.py:438-439: trying a decision again uses the run it has.
\* So the run of a decision that was never stored still takes its receipt.
RetryFindsItsRun ==
    \A d \in Decisions :
        L!Exists(d.id) /\ stored[d.id] = Null =>
            \E u \in Users : L!ReceiptAccepted(u, d.id, Evidence(d, 1))

-----------------------------------------------------------------------------
(* The abstract specification: DecisionHistory, with the validations of a   *)
(* prediction in the order in which they supersede each other.              *)

O == INSTANCE Supersession

H == INSTANCE DecisionHistory WITH
       history <- [p \in Predictions |-> O!Chain({stored[v] : v \in StoredFor(p)})],
       audited <- {v \in Validations : Audited(v)}

HistoryRefined == H!Spec

\* Every stored decision is eventually audited: the promise of the recovery
\* procedure where only the closing of runs fails.
StoredIsAudited ==
    \A v \in Validations : stored[v] # Null ~> Audited(v)
=============================================================================
