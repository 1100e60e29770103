--------------------------- MODULE RunLedgerProofs ---------------------------
(***************************************************************************)
(* Proofs about RunLedger for every set of users, runs, contents and every *)
(* bound.  LedgerInv is the conjunction of the ledger's state properties;  *)
(* it is inductive, and the two action properties follow from it.          *)
(***************************************************************************)
EXTENDS RunLedger, TLAPS

\* A run can be closed by a reconciliation only while it is running, so the
\* proof that the original and the reconciliation run stay as they were needs
\* all four parts together.
LedgerInv ==
    /\ TypeOK
    /\ ReceiptsAreGrounded
    /\ ReconciliationsAreProven
    /\ OneReconciliation

-----------------------------------------------------------------------------
\* The rows the functions build are rows of the tables.
LEMMA RowTypes ==
    /\ \A u \in Users, m \in Metadata, v \in Revisions \cup {Null} : NewRun(u, m, v) \in Run
    /\ TypeOK => \A r \in RunIds, f \in Closings : Exists(r) => Closed(r, f) \in Run
    /\ TypeOK => \A u \in Users, r \in RunIds, e \in Claim :
                    Owns(u, r) => ReconciliationRun(u, r, e) \in Run
<1>1. \A u \in Users, m \in Metadata, v \in Revisions \cup {Null} : NewRun(u, m, v) \in Run
  BY DEF NewRun, Run
<1>2. ASSUME TypeOK, NEW r \in RunIds, NEW f \in Closings, Exists(r)
      PROVE  Closed(r, f) \in Run
  <2>1. runs[r] \in Run
    BY <1>2 DEF TypeOK, Exists
  <2>2. /\ f.status \in Terminal /\ f.output \in Counts \cup {Null}
        /\ f.error \in Errors \cup {Null} /\ f.revision \in Revisions \cup {Null}
    BY <1>2 DEF Closings
  <2>3. /\ ErrorOf(f) \in Errors \cup {Null}
        /\ Coalesce(f.revision, runs[r].revision) \in Revisions \cup {Null}
    BY <2>1, <2>2 DEF ErrorOf, Coalesce, Run
  <2>4. Closed(r, f) = [runs[r] EXCEPT !.status = f.status, !.output = f.output,
                          !.error = ErrorOf(f), !.revision = Coalesce(f.revision, runs[r].revision)]
    BY <2>1 DEF Closed, Run
  <2> QED
    BY <2>1, <2>2, <2>3, <2>4 DEF Run
<1>3. ASSUME TypeOK, NEW u \in Users, NEW r \in RunIds, NEW e \in Claim, Owns(u, r)
      PROVE  ReconciliationRun(u, r, e) \in Run
  <2>1. runs[r] \in Run
    BY <1>3 DEF TypeOK, Exists, Owns
  <2>2. [runs[r].meta EXCEPT !.app = Reconciler] \in Metadata
    BY <2>1 DEF Run, Metadata
  <2> QED
    BY <2>1, <2>2, <1>3 DEF ReconciliationRun, Run, Claim, Terminal
<1> QED
  BY <1>1, <1>2, <1>3

\* The arguments of every call of Next are of the right type.
LEMMA CallsAreTyped ==
    ASSUME Next
    PROVE  \/ \E u \in Users, r \in RunIds, m \in Metadata, v \in Revisions \cup {Null} :
                StartRun(u, r, m, v)
           \/ \E u \in Users, r \in RunIds, f \in Closings : FinishRun(u, r, f)
           \/ \E u \in Users, r \in RunIds, e \in Receipt : RecordReceipt(u, r, e)
           \/ \E u \in Users, r \in RunIds, q \in RunIds, e \in Claim :
                /\ u \in PackageUsers => NamesAll(e)
                /\ Reconcile(u, r, q, e)
BY LedgerConstants DEF Next, Opening

LEMMA TypeStep == TypeOK /\ [Next]_vars => TypeOK'
<1> SUFFICES ASSUME TypeOK, [Next]_vars PROVE TypeOK'
  OBVIOUS
<1>1. ASSUME NEW u \in Users, NEW r \in RunIds, NEW m \in Metadata,
             NEW v \in Revisions \cup {Null}, StartRun(u, r, m, v)
      PROVE  TypeOK'
  BY <1>1, RowTypes DEF StartRun, TypeOK
<1>2. ASSUME NEW u \in Users, NEW r \in RunIds, NEW f \in Closings, FinishRun(u, r, f)
      PROVE  TypeOK'
  BY <1>2, RowTypes DEF FinishRun, FinishAccepted, Owns, TypeOK
<1>3. ASSUME NEW u \in Users, NEW r \in RunIds, NEW e \in Receipt, RecordReceipt(u, r, e)
      PROVE  TypeOK'
  BY <1>3 DEF RecordReceipt, TypeOK
<1>4. ASSUME NEW u \in Users, NEW r \in RunIds, NEW q \in RunIds, NEW e \in Claim,
             Reconcile(u, r, q, e)
      PROVE  TypeOK'
  <2>1. CASE runs' = runs
    BY <2>1, <1>4 DEF Reconcile, TypeOK
  <2>2. CASE runs' # runs
    <3>1. Owns(u, r) /\ Running(r) /\ ~Exists(q) /\ receipts' = receipts
      BY <1>4, <2>2 DEF Reconcile, ReconcileAccepted, Running
    <3>2. runs[r] \in Run /\ r # q
      BY <3>1 DEF TypeOK, Owns, Exists
    <3>3. [runs[r] EXCEPT !.status = "succeeded", !.output = e.rows, !.error = Null] \in Run
      BY <3>2, <1>4 DEF Run, Terminal, Claim
    <3>4. ReconciliationRun(u, r, e) \in Run
      BY <3>1, <1>4, RowTypes
    <3> QED
      BY <1>4, <2>2, <3>1, <3>2, <3>3, <3>4 DEF Reconcile, TypeOK
  <2> QED
    BY <2>1, <2>2
<1>5. CASE UNCHANGED vars
  BY <1>5 DEF vars, TypeOK
<1> QED
  BY <1>1, <1>2, <1>3, <1>4, <1>5, CallsAreTyped

\* Every column of the two tables keeps its domain: what the CHECK constraints
\* and the arguments the functions validate add up to.
THEOREM TypeCorrect == Spec => []TypeOK
<1>1. Init => TypeOK
  BY DEF Init, TypeOK
<1> QED
  BY <1>1, TypeStep, PTL DEF Spec

-----------------------------------------------------------------------------
(* What the calls do to the rows, in the form the invariant proofs use.     *)

\* Opening a run touches no existing row.
LEMMA StartEffect ==
    ASSUME TypeOK, NEW u, NEW r \in RunIds, NEW m, NEW v, StartRun(u, r, m, v)
    PROVE  /\ receipts' = receipts
           /\ \A x \in RunIds : Exists(x) => runs'[x] = runs[x]
           /\ \A x \in RunIds : Exists(x)' => Exists(x) \/ runs'[x].reconciles = Null
BY DEF StartRun, NewRun, Exists, TypeOK

\* Closing a run changes no terminal row, no identity and no link.
LEMMA FinishEffect ==
    ASSUME TypeOK, NEW u, NEW r \in RunIds, NEW f \in Closings, FinishRun(u, r, f)
    PROVE  /\ receipts' = receipts
           /\ \A x \in RunIds : Exists(x)' <=> Exists(x)
           /\ \A x \in RunIds : Exists(x) =>
                /\ ~Running(x) => runs'[x] = runs[x]
                /\ runs'[x].owner = runs[x].owner
                /\ runs'[x].meta = runs[x].meta
                /\ runs'[x].reconciles = runs[x].reconciles
<1>1. Exists(r) /\ (~Running(r) => runs[r] = Closed(r, f))
  BY DEF FinishRun, FinishAccepted, Owns
<1>2. runs[r] \in Run
  BY <1>1 DEF TypeOK, Exists
<1>3. /\ Closed(r, f) \in Run
      /\ Closed(r, f).owner = runs[r].owner
      /\ Closed(r, f).meta = runs[r].meta
      /\ Closed(r, f).reconciles = runs[r].reconciles
  BY <1>1, <1>2, RowTypes DEF Closed, Run
<1>4. receipts' = receipts /\ runs' = [runs EXCEPT ![r] = Closed(r, f)]
  BY DEF FinishRun
<1> QED
  BY <1>1, <1>3, <1>4, NullIsNoValue DEF TypeOK, Exists, Running

\* A reconciliation that changes anything inserts q and closes the running r.
Closes(u, r, q, e) ==
    /\ receipts' = receipts
    /\ Exists(r) /\ Running(r) /\ ~Exists(q) /\ q # r
    /\ Reconciling(r) = {}
    /\ EvidenceMatches(r, e)
    /\ Exists(r)' /\ Exists(q)'
    /\ runs'[q] = ReconciliationRun(u, r, e)
    /\ runs'[r].status = "succeeded"
    /\ runs'[r].output = e.rows
    /\ runs'[r].owner = u /\ runs[r].owner = u
    /\ runs'[r].meta = runs[r].meta
    /\ runs'[r].revision = runs[r].revision
    /\ runs'[r].reconciles = runs[r].reconciles
    /\ \A x \in RunIds \ {q, r} : runs'[x] = runs[x]

LEMMA ReconcileEffect ==
    ASSUME TypeOK, NEW u, NEW r \in RunIds, NEW q \in RunIds, NEW e \in Claim,
           Reconcile(u, r, q, e), runs' # runs
    PROVE  Closes(u, r, q, e)
<1> DEFINE closed == [runs[r] EXCEPT !.status = "succeeded", !.output = e.rows, !.error = Null]
<1>1. /\ receipts' = receipts
      /\ Owns(u, r) /\ Running(r) /\ ~Exists(q) /\ q # r
      /\ Reconciling(r) = {}
      /\ EvidenceMatches(r, e)
  BY DEF Reconcile, ReconcileAccepted, Running, Owns
<1>2. runs[r] \in Run
  BY <1>1 DEF TypeOK, Owns, Exists
<1>3. /\ closed # Null
      /\ closed.status = "succeeded" /\ closed.output = e.rows
      /\ closed.owner = runs[r].owner /\ closed.meta = runs[r].meta
      /\ closed.revision = runs[r].revision
      /\ closed.reconciles = runs[r].reconciles
  <2>1. closed \in Run
    BY <1>2 DEF Run, Terminal, Claim
  <2> QED
    BY <1>2, <2>1, NullIsNoValue DEF Run
<1>4. /\ runs'[q] = ReconciliationRun(u, r, e)
      /\ runs'[r] = closed
      /\ \A x \in RunIds \ {q, r} : runs'[x] = runs[x]
  BY <1>1 DEF Reconcile, TypeOK
<1>5. ReconciliationRun(u, r, e) # Null
  <2>1. runs[r].owner = u /\ u \in Users
    BY <1>1, <1>2 DEF Owns, Run
  <2> QED
    BY <2>1, <1>1, RowTypes, NullIsNoValue
<1> QED
  BY <1>1, <1>3, <1>4, <1>5 DEF Closes, Owns, Exists

-----------------------------------------------------------------------------
(* The state properties are preserved.  Each lemma takes the calls in turn. *)

LEMMA GroundedStep == LedgerInv /\ [Next]_vars => ReceiptsAreGrounded'
<1> SUFFICES ASSUME LedgerInv, [Next]_vars PROVE ReceiptsAreGrounded'
  OBVIOUS
<1> USE DEF LedgerInv
<1>1. ASSUME NEW u \in Users, NEW r \in RunIds, NEW m \in Metadata,
             NEW v \in Revisions \cup {Null}, StartRun(u, r, m, v)
      PROVE  ReceiptsAreGrounded'
  BY <1>1, StartEffect DEF ReceiptsAreGrounded, Exists
<1>2. ASSUME NEW u \in Users, NEW r \in RunIds, NEW f \in Closings, FinishRun(u, r, f)
      PROVE  ReceiptsAreGrounded'
  BY <1>2, FinishEffect DEF ReceiptsAreGrounded
<1>3. ASSUME NEW u \in Users, NEW r \in RunIds, NEW e \in Receipt, RecordReceipt(u, r, e)
      PROVE  ReceiptsAreGrounded'
  BY <1>3 DEF RecordReceipt, ReceiptAccepted, Owns, ReceiptsAreGrounded, Exists, TypeOK
<1>4. ASSUME NEW u \in Users, NEW r \in RunIds, NEW q \in RunIds, NEW e \in Claim,
             Reconcile(u, r, q, e)
      PROVE  ReceiptsAreGrounded'
  <2>1. CASE runs' = runs
    BY <2>1, <1>4 DEF Reconcile, ReceiptsAreGrounded, Exists
  <2>2. CASE runs' # runs
    <3> HIDE DEF LedgerInv
    <3>1. TypeOK /\ ReceiptsAreGrounded
      BY DEF LedgerInv
    <3>2. Closes(u, r, q, e)
      BY <1>4, <2>2, <3>1, ReconcileEffect
    <3>3. receipts[q] = Null
      BY <3>1, <3>2 DEF Closes, ReceiptsAreGrounded
    <3> QED
      BY <3>1, <3>2, <3>3 DEF Closes, ReceiptsAreGrounded, Exists
  <2> QED
    BY <2>1, <2>2
<1>5. CASE UNCHANGED vars
  BY <1>5 DEF vars, ReceiptsAreGrounded, Exists
<1> QED
  BY <1>1, <1>2, <1>3, <1>4, <1>5, CallsAreTyped

LEMMA ProvenStep == LedgerInv /\ [Next]_vars => ReconciliationsAreProven'
<1> SUFFICES ASSUME TypeOK, ReceiptsAreGrounded, ReconciliationsAreProven, [Next]_vars,
                    NEW q \in RunIds, NEW r \in RunIds,
                    Exists(q)', runs'[q].reconciles = r
             PROVE  ProvenBy(q, r)'
  BY DEF LedgerInv, ReconciliationsAreProven, Reconciling, Exists
<1> USE DEF Reconciling
<1>1. r # Null
  BY NullIsNoValue
<1>2. ASSUME runs'[q] = runs[q], Exists(q), receipts' = receipts,
             \A x \in RunIds : Exists(x) /\ ~Running(x) => runs'[x] = runs[x]
      PROVE  ProvenBy(q, r)'
  <2>1. ProvenBy(q, r)
    BY <1>2 DEF ReconciliationsAreProven
  <2> QED
    BY <1>2, <2>1 DEF ProvenBy, Exists, Running
<1>3. ASSUME NEW u \in Users, NEW s \in RunIds, NEW m \in Metadata,
             NEW v \in Revisions \cup {Null}, StartRun(u, s, m, v)
      PROVE  ProvenBy(q, r)'
  BY <1>1, <1>2, <1>3, StartEffect
<1>4. ASSUME NEW u \in Users, NEW s \in RunIds, NEW f \in Closings, FinishRun(u, s, f)
      PROVE  ProvenBy(q, r)'
  <2>1. Exists(q) /\ runs[q].reconciles = r
    BY <1>4, FinishEffect
  <2>2. ~Running(q)
    BY <2>1 DEF ReconciliationsAreProven, ProvenBy, Running
  <2> QED
    BY <1>2, <1>4, <2>1, <2>2, FinishEffect
<1>5. ASSUME NEW u \in Users, NEW s \in RunIds, NEW e \in Receipt, RecordReceipt(u, s, e)
      PROVE  ProvenBy(q, r)'
  <2>1. /\ runs' = runs /\ Exists(q)
        /\ receipts'[q] = receipts[q] \/ Running(q)
        /\ receipts[r] # Null => receipts'[r] = receipts[r]
    BY <1>5 DEF RecordReceipt, ReceiptAccepted, TypeOK, Exists
  <2> QED
    BY <2>1 DEF ReconciliationsAreProven, ProvenBy, Exists, Running
<1>6. ASSUME NEW u \in Users, NEW s \in RunIds, NEW p \in RunIds, NEW e \in Claim,
             u \in PackageUsers => NamesAll(e), Reconcile(u, s, p, e), runs' # runs
      PROVE  ProvenBy(q, r)'
  <2>1. Closes(u, s, p, e)
    BY <1>6, ReconcileEffect
  <2>2. runs[s] \in Run
    BY <2>1 DEF Closes, TypeOK, Exists
  <2>3. runs[s].reconciles = Null
    BY <2>1, <2>2 DEF ReconciliationsAreProven, ProvenBy, Closes, Running, Run
  <2>4. receipts[p] = Null
    BY <2>1 DEF Closes, ReceiptsAreGrounded
  <2>5. CASE q = p
    <3>1. r = s
      BY <2>1, <2>5 DEF Closes, ReconciliationRun
    <3>2. ReconciliationRun(u, s, e).meta.workflow = runs[s].meta.workflow
      BY <2>2 DEF ReconciliationRun, Run, Metadata
    <3>3. /\ runs'[q].owner = u /\ runs'[q].status = "succeeded"
          /\ runs'[q].output = e.rows /\ runs'[q].revision = runs[s].revision
          /\ runs'[q].meta.workflow = runs[s].meta.workflow
      BY <2>1, <2>5, <3>2 DEF Closes, ReconciliationRun
    <3>4. /\ receipts[s] # Null /\ receipts[s] \in Receipt
          /\ receipts[s].revision = runs[s].revision
          /\ runs[s].meta.input = e.rows
      BY <2>1 DEF Closes, EvidenceMatches, TypeOK
    \* Whoever calls through the package has its count compared.
    <3>5. u \in PackageUsers => receipts[s].rows = e.rows
      <4>1. receipts[s].rows # Null
        BY <3>4, NullIsNoValue DEF Receipt
      <4> QED
        BY <1>6, <2>1, <4>1 DEF Closes, EvidenceMatches, NamesAll, Differ
    <3>6. /\ runs'[s].revision = runs[s].revision /\ runs'[s].output = e.rows
          /\ runs'[s].status = "succeeded" /\ runs'[s].owner = u
          /\ runs'[s].meta = runs[s].meta /\ runs'[s].reconciles = Null
      BY <2>1, <2>3 DEF Closes
    <3>7. receipts' = receipts /\ Exists(s)' /\ p # s
      BY <2>1 DEF Closes
    <3> QED
      BY <2>4, <2>5, <3>1, <3>3, <3>4, <3>5, <3>6, <3>7 DEF ProvenBy
  <2>6. CASE q # p
    <3>1. q # s /\ runs'[q] = runs[q] /\ Exists(q)
      BY <1>1, <2>1, <2>3, <2>6 DEF Closes, Exists
    <3>2. ProvenBy(q, r)
      BY <3>1 DEF ReconciliationsAreProven
    <3>3. r # s /\ r # p
      BY <2>1, <3>2 DEF Closes, ProvenBy, Running
    <3> QED
      BY <2>1, <3>1, <3>2, <3>3 DEF Closes, ProvenBy, Exists
  <2> QED
    BY <2>5, <2>6
<1>7. CASE runs' = runs /\ receipts' = receipts
  BY <1>2, <1>7 DEF Exists
<1> QED
  BY <1>3, <1>4, <1>5, <1>6, <1>7, CallsAreTyped DEF vars, Reconcile

\* A reconciliation inserts its run only when the original has none yet, and
\* no other call links a run.
LEMMA OneStep == LedgerInv /\ [Next]_vars => OneReconciliation'
<1> SUFFICES ASSUME LedgerInv, [Next]_vars,
                    NEW r \in RunIds, NEW p \in RunIds, NEW q \in RunIds,
                    p \in Reconciling(r)', q \in Reconciling(r)'
             PROVE  p = q
  BY DEF OneReconciliation
<1>1. TypeOK /\ OneReconciliation /\ r # Null
  BY NullIsNoValue DEF LedgerInv
<1>2. CASE Reconciling(r)' \subseteq Reconciling(r)
  BY <1>1, <1>2 DEF OneReconciliation
<1>3. ASSUME NEW u \in Users, NEW s \in RunIds, NEW m \in Metadata,
             NEW v \in Revisions \cup {Null}, StartRun(u, s, m, v)
      PROVE  Reconciling(r)' \subseteq Reconciling(r)
  BY <1>1, <1>3, StartEffect DEF Reconciling
<1>4. ASSUME NEW u \in Users, NEW s \in RunIds, NEW f \in Closings, FinishRun(u, s, f)
      PROVE  Reconciling(r)' \subseteq Reconciling(r)
  BY <1>1, <1>4, FinishEffect DEF Reconciling
<1>5. CASE runs' = runs
  BY <1>2, <1>5 DEF Reconciling, Exists
<1>6. ASSUME NEW u \in Users, NEW s \in RunIds, NEW x \in RunIds, NEW e \in Claim,
             Reconcile(u, s, x, e), runs' # runs
      PROVE  p = q
  <2>1. /\ Reconciling(s) = {}
        /\ Exists(s) /\ runs'[s].reconciles = runs[s].reconciles
        /\ runs'[x] = ReconciliationRun(u, s, e)
        /\ \A y \in RunIds \ {x, s} : runs'[y] = runs[y]
    BY <1>1, <1>6, ReconcileEffect DEF Closes
  <2>2. runs'[x].reconciles = s
    BY <2>1 DEF ReconciliationRun
  <2>3. Reconciling(r)' \subseteq Reconciling(r) \cup {x}
    BY <2>1 DEF Reconciling, Exists
  <2>4. CASE r = s
    BY <2>1, <2>3, <2>4
  <2>5. CASE r # s
    BY <1>2, <2>2, <2>3, <2>5 DEF Reconciling
  <2> QED
    BY <2>4, <2>5
<1>7. \A u, s, e : RecordReceipt(u, s, e) => runs' = runs
  BY DEF RecordReceipt
<1> QED
  BY <1>2, <1>3, <1>4, <1>5, <1>6, <1>7, CallsAreTyped DEF vars

-----------------------------------------------------------------------------
LEMMA LedgerInvariant == Spec => []LedgerInv
<1>1. Init => LedgerInv
  BY DEF Init, LedgerInv, TypeOK, ReceiptsAreGrounded, ReconciliationsAreProven,
         OneReconciliation, Reconciling, Exists
<1>2. LedgerInv /\ [Next]_vars => LedgerInv'
  <2>1. LedgerInv /\ [Next]_vars => TypeOK'
    BY TypeStep DEF LedgerInv
  <2> QED
    BY <2>1, GroundedStep, ProvenStep, OneStep DEF LedgerInv
<1> QED
  BY <1>1, <1>2, PTL DEF Spec

\* A receipt in the table is evidence of an existing run of its workflow, for
\* every client and every sequence of calls.
THEOREM ReceiptsGrounded == Spec => []ReceiptsAreGrounded
<1>1. LedgerInv => ReceiptsAreGrounded
  BY DEF LedgerInv
<1> QED
  BY <1>1, LedgerInvariant, PTL

\* A reconciliation run vouches for a run that ended as it declared, on a receipt
\* of its own, and one that counts the same rows for every role of the package.
THEOREM ReconciliationsProven == Spec => []ReconciliationsAreProven
<1>1. LedgerInv => ReconciliationsAreProven
  BY DEF LedgerInv
<1> QED
  BY <1>1, LedgerInvariant, PTL

\* complete_verified_reconciliation keeps the unique index satisfied without
\* ever relying on it to refuse.
THEOREM AtMostOneReconciliation == Spec => []OneReconciliation
<1>1. LedgerInv => OneReconciliation
  BY DEF LedgerInv
<1> QED
  BY <1>1, LedgerInvariant, PTL

\* No call reopens, rewrites or deletes a terminal run.
THEOREM TerminalFrozen == Spec => TerminalRunsFrozen
<1> DEFINE Frozen(r) == /\ Exists(r)'
                        /\ runs[r].status \in Terminal => runs'[r] = runs[r]
                        /\ runs'[r].owner = runs[r].owner
                        /\ runs'[r].meta = runs[r].meta
<1>1. ASSUME TypeOK, [Next]_vars, NEW r \in RunIds, Exists(r)
      PROVE  Frozen(r)
  <2>1. ASSUME NEW u \in Users, NEW s \in RunIds, NEW m \in Metadata,
               NEW v \in Revisions \cup {Null}, StartRun(u, s, m, v)
        PROVE  runs'[r] = runs[r]
    BY <1>1, <2>1, StartEffect
  <2>2. ASSUME NEW u \in Users, NEW s \in RunIds, NEW f \in Closings, FinishRun(u, s, f)
        PROVE  Frozen(r)
    BY <1>1, <2>2, FinishEffect DEF Terminal, Running
  <2>3. ASSUME NEW u \in Users, NEW s \in RunIds, NEW q \in RunIds, NEW e \in Claim,
               Reconcile(u, s, q, e), runs' # runs
        PROVE  Frozen(r)
    <3>1. Closes(u, s, q, e)
      BY <1>1, <2>3, ReconcileEffect
    <3> QED
      BY <1>1, <3>1 DEF Closes, Terminal, Running, Exists
  <2>4. CASE runs'[r] = runs[r]
    BY <1>1, <2>4 DEF Exists
  <2>5. \A u, s, e : RecordReceipt(u, s, e) => runs' = runs
    BY DEF RecordReceipt
  <2> QED
    BY <1>1, <2>1, <2>2, <2>3, <2>4, <2>5, CallsAreTyped DEF vars
<1>2. TypeOK /\ [Next]_vars =>
        [RunsAreFinal]_vars
  BY <1>1 DEF RunsAreFinal
<1> QED
  BY <1>2, TypeCorrect, PTL DEF Spec, TerminalRunsFrozen

\* No call edits a receipt or adds one to a run that has ended.
THEOREM ReceiptsImmutable == Spec => ReceiptsPermanent
<1> DEFINE Kept(r) == /\ receipts[r] # Null => receipts'[r] = receipts[r]
                      /\ receipts'[r] # receipts[r] => Exists(r) /\ Running(r)
<1>1. ASSUME TypeOK, [Next]_vars, NEW r \in RunIds
      PROVE  Kept(r)
  <2>1. ASSUME NEW u, NEW s \in RunIds, NEW e, RecordReceipt(u, s, e)
        PROVE  Kept(r)
    BY <1>1, <2>1 DEF RecordReceipt, ReceiptAccepted, Owns, TypeOK
  <2>2. CASE receipts' = receipts
    BY <2>2
  <2> QED
    BY <1>1, <2>1, <2>2, CallsAreTyped DEF vars, StartRun, FinishRun, Reconcile
<1>2. TypeOK /\ [Next]_vars =>
        [ReceiptsAreFinal]_vars
  BY <1>1 DEF ReceiptsAreFinal
<1> QED
  BY <1>2, TypeCorrect, PTL DEF Spec, ReceiptsPermanent

\* A run is reconciled once, and on a receipt of its own, whatever calls the other
\* roles make, the ones with NULL arguments included.
THEOREM ReconciliationsAreSound == Spec => []ReconciliationsHold
<1>1. ReconciliationsAreProven /\ OneReconciliation => ReconciliationsHold
  BY DEF ReconciliationsHold
<1> QED
  BY <1>1, ReconciliationsProven, AtMostOneReconciliation, PTL

\* Neither a run that has ended nor a receipt is ever rewritten.
THEOREM LedgerIsPermanent == Spec => LedgerStands
<1>1. [RunsAreFinal]_vars /\ [ReceiptsAreFinal]_vars
        => [RunsAreFinal /\ ReceiptsAreFinal]_vars
  OBVIOUS
<1> QED
  BY <1>1, TerminalFrozen, ReceiptsImmutable, PTL
     DEF LedgerStands, TerminalRunsFrozen, ReceiptsPermanent
=============================================================================
