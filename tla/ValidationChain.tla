--------------------------- MODULE ValidationChain ---------------------------
(***************************************************************************)
(* Why the data transaction of ValidationPersistence may be one step: the  *)
(* statements of concurrent transactions that insert human decisions under *)
(* READ COMMITTED, with the advisory lock on the validation UUID that the  *)
(* client takes, the one on the prediction that the trigger                *)
(* validate_superseded_validation takes, and the unique indexes on id and  *)
(* on supersedes_validation_id.  Every query of the trigger takes a fresh  *)
(* snapshot: it sees what has been committed by then and nothing else.     *)
(***************************************************************************)
EXTENDS Supersession

CONSTANTS
    Transactions,   \* database sessions
    Validations,    \* validation UUIDs
    Predictions,    \* predictions under review
    Decisions       \* [id, prediction, supersedes]

VARIABLES
    table,          \* the committed rows of human_validations, by UUID
    tx,             \* the statement each transaction is at, and its decision
    lock            \* advisory lock -> the transaction that holds it

vars == <<table, tx, lock>>

Decision ==
    [id : Validations, prediction : Predictions, supersedes : Validations \cup {Null}]

ASSUME ChainConstants ==
    /\ Decisions \subseteq Decision
    /\ Null \notin Validations \cup Decisions \cup Transactions

\* Advisory locks on a UUID (a hash of it) and on a prediction have different keys.
Locks == {<<"id", v>> : v \in Validations} \cup {<<"prediction", p>> : p \in Predictions}

\* The next statement of a transaction.  "written" is after its INSERT.
Statements == {"none", "lockid", "lockprediction", "known", "root", "parent",
               "successor", "insert", "written"}

\* The types; and a lock belongs to a transaction that has not ended.
TypeOK ==
    /\ table \in [Validations -> Decisions \cup {Null}]
    /\ tx \in [Transactions -> [at : Statements, decision : Decisions \cup {Null}, wrote : BOOLEAN]]
    /\ lock \in [Locks -> {t \in Transactions : tx[t].at # "none"} \cup {Null}]

Nothing == [at |-> "none", decision |-> Null, wrote |-> FALSE]

Init ==
    /\ table = [v \in Validations |-> Null]
    /\ tx = [t \in Transactions |-> Nothing]
    /\ lock = [k \in Locks |-> Null]

-----------------------------------------------------------------------------
At(t, statement) == tx[t].at = statement
Row(t) == tx[t].decision
Continue(t, statement) == tx' = [tx EXCEPT ![t].at = statement]

\* A transaction-level advisory lock: taken when free, held until the end.
Take(t, k) ==
    /\ lock[k] \in {Null, t}
    /\ lock' = [lock EXCEPT ![k] = t]

\* Mutant: session-level locks (pg_advisory_lock), which a commit does not release.
EndKeepingLocks(t) ==
    /\ tx' = [tx EXCEPT ![t] = Nothing]
    /\ UNCHANGED lock

End(t) ==
    /\ tx' = [tx EXCEPT ![t] = Nothing]
    /\ lock' = [k \in Locks |-> IF lock[k] = t THEN Null ELSE lock[k]]

\* Committed rows, as a query sees them.
RowsFor(p) == {v \in Validations : table[v] # Null /\ table[v].prediction = p}
SuccessorsOf(v) == {w \in Validations : table[w] # Null /\ table[w].supersedes = v}

Begin(t, d) ==
    /\ At(t, "none")
    /\ tx' = [tx EXCEPT ![t] = [Nothing EXCEPT !.at = "lockid", !.decision = d]]
    /\ UNCHANGED <<table, lock>>

LockValidationId(t) ==
    /\ At(t, "lockid")
    /\ Take(t, <<"id", Row(t).id>>)
    /\ Continue(t, "lockprediction")
    /\ UNCHANGED table

\* Mutant: the trigger goes on without waiting for the prediction.
SkipPredictionLock(t) ==
    /\ At(t, "lockprediction")
    /\ Continue(t, "known")
    /\ UNCHANGED <<table, lock>>

LockPrediction(t) ==
    /\ At(t, "lockprediction")
    /\ Take(t, <<"prediction", Row(t).prediction>>)
    /\ Continue(t, "known")
    /\ UNCHANGED table

-----------------------------------------------------------------------------
(* The queries of the trigger.                                              *)

\* The UUID is already there: nothing to validate, the insert will do nothing.
FindId(t) ==
    /\ At(t, "known")
    /\ Continue(t, IF table[Row(t).id] # Null THEN "insert"
                   ELSE IF Row(t).supersedes = Null THEN "root" ELSE "parent")
    /\ UNCHANGED <<table, lock>>

Raise(t) == End(t) /\ UNCHANGED table

FindRoot(t) ==
    /\ At(t, "root")
    /\ IF RowsFor(Row(t).prediction) = {}
       THEN Continue(t, "insert") /\ UNCHANGED <<table, lock>>
       ELSE Raise(t)

FindParent(t) ==
    /\ At(t, "parent")
    /\ IF Row(t).supersedes \in RowsFor(Row(t).prediction)
       THEN Continue(t, "successor") /\ UNCHANGED <<table, lock>>
       ELSE Raise(t)

FindSuccessor(t) ==
    /\ At(t, "successor")
    /\ IF SuccessorsOf(Row(t).supersedes) = {}
       THEN Continue(t, "insert") /\ UNCHANGED <<table, lock>>
       ELSE Raise(t)

-----------------------------------------------------------------------------
(* The insert: a unique index waits for a rival that wrote the same key and *)
(* has not ended.  A row that is already there under the UUID ends the       *)
(* statement before the other index is looked at.                           *)

Rivals(t) ==
    {u \in Transactions \ {t} :
        /\ tx[u].wrote
        /\ \/ Row(u).id = Row(t).id
           \/ /\ table[Row(t).id] = Null
              /\ Row(u).supersedes = Row(t).supersedes /\ Row(t).supersedes # Null}

\* ON CONFLICT (id) DO NOTHING keeps the row that is there; a second successor
\* violates uq_human_validations_superseded.
Insert(t) ==
    /\ At(t, "insert")
    /\ Rivals(t) = {}
    /\ \/ /\ table[Row(t).id] # Null
          /\ Continue(t, "written")
          /\ UNCHANGED <<table, lock>>
       \/ /\ table[Row(t).id] = Null
          /\ Row(t).supersedes # Null /\ SuccessorsOf(Row(t).supersedes) # {}
          /\ Raise(t)
       \/ /\ table[Row(t).id] = Null
          /\ Row(t).supersedes = Null \/ SuccessorsOf(Row(t).supersedes) = {}
          /\ tx' = [tx EXCEPT ![t].at = "written", ![t].wrote = TRUE]
          /\ UNCHANGED <<table, lock>>

\* Mutant: an upsert, which would overwrite the first decision of a UUID.
CommitUpsert(t) ==
    /\ At(t, "written")
    /\ table' = [table EXCEPT ![Row(t).id] = Row(t)]
    /\ End(t)

\* The row of the UUID is the submitted one: it was inserted or found to be equal.
Commit(t) ==
    /\ At(t, "written")
    /\ tx[t].wrote \/ table[Row(t).id] = Row(t)
    /\ table' = [table EXCEPT ![Row(t).id] = Row(t)]
    /\ End(t)

\* A row that differs from the submitted one fails _assert_same_validation.
Differs(t) ==
    /\ At(t, "written")
    /\ ~tx[t].wrote /\ table[Row(t).id] # Row(t)
    /\ Raise(t)

\* The receipt is refused, a lock or a statement times out, or the connection
\* breaks.
Abort(t) ==
    /\ ~At(t, "none")
    /\ End(t)
    /\ UNCHANGED table

-----------------------------------------------------------------------------
Advance(t) ==
    \/ LockValidationId(t) \/ LockPrediction(t)
    \/ FindId(t) \/ FindRoot(t) \/ FindParent(t) \/ FindSuccessor(t)
    \/ Insert(t)
    \/ Commit(t) \/ Differs(t)

Next ==
    \E t \in Transactions :
        \/ \E d \in Decisions : Begin(t, d)
        \/ Advance(t)
        \/ Abort(t)

Spec == Init /\ [][Next]_vars

\* A session executes its next statement, and PostgreSQL grants a lock in the
\* order of the requests: a transaction that waits for one is served.
Fairness == \A t \in Transactions : SF_vars(Advance(t))

FairSpec == Spec /\ Fairness

-----------------------------------------------------------------------------
(* Properties.                                                              *)

\* An uncommitted root is alone on its prediction: no committed row and no
\* other uncommitted one.  No index enforces this; the lock of the trigger does.
RootsAreAlone ==
    \A t \in Transactions :
        tx[t].wrote /\ Row(t).supersedes = Null =>
            /\ RowsFor(Row(t).prediction) = {}
            /\ \A u \in Transactions \ {t} :
                 tx[u].wrote => Row(u).prediction # Row(t).prediction

\* The locks make the unique index on supersedes_validation_id redundant: an
\* insert never has to wait for a rival or be refused by it.
IndexNeverWaits == \A t \in Transactions : At(t, "insert") => Rivals(t) = {}

\* The advisory locks alone keep the decisions of a prediction apart
\* (validate_superseded_validation).
LocksSuffice == RootsAreAlone /\ IndexNeverWaits

\* A transaction never waits for ever: the two locks are always taken in the
\* same order, so no circle of waiting transactions forms.
TransactionsEnd == \A t \in Transactions : ~At(t, "none") ~> At(t, "none")

H == INSTANCE DecisionHistory WITH
       history <- [p \in Predictions |-> Chain({table[v] : v \in RowsFor(p)})],
       audited <- {}

\* Committed decisions form one linear history per prediction which grows at
\* its end, whatever the transactions overlap.
HistoryRefined == H!Spec
=============================================================================
