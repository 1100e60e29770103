--------------------- MODULE ValidationPersistenceProofs ---------------------
(***************************************************************************)
(* Proofs about ValidationPersistence for every number of clients, roles,  *)
(* validations, decisions and failures.  The module is a client of the     *)
(* ledger (LedgerIsRefined), so the theorems of RunLedgerProofs hold of    *)
(* its runs and receipts; StoreInv adds what the clients guarantee.        *)
(***************************************************************************)
EXTENDS ValidationPersistence, TLAPS

LP == INSTANCE RunLedgerProofs WITH
       PackageUsers <- Users,
       Grants    <- Users \X {"review"},
       Revisions <- {},
       Contents  <- Decisions,
       MaxRows   <- 1,
       Openings  <- {[user |-> UserOf[c], run |-> d.id, meta |-> ReviewMeta(c),
                      revision |-> Null] : c \in Clients, d \in Decisions}

\* The state of a call is well formed on its own, whatever the ledger holds.
CallsOK ==
    /\ stored \in [Validations -> Decisions \cup {Null}]
    /\ client \in [Clients -> Session]
    /\ \A c \in Clients :
        /\ ~Idle(c) => Deciding(c) \in Decisions
        /\ At(c, "fail") => client[c].reply \in Errors

-----------------------------------------------------------------------------
LEMMA DecisionFields ==
    \A d \in Decisions : /\ d.id \in Validations /\ d.prediction \in Predictions
                         /\ d.supersedes \in Validations \cup {Null}
                         /\ d # Null
BY PersistenceConstants DEF Decision

\* What any step of a client leaves of the calls in progress.
LEMMA CallStep ==
    ASSUME CallsOK, NEW c \in Clients,
           \/ \E point \in Points, reply \in Replies :
                Go(c, point, reply) /\ ~Idle(c) /\ (point = "fail" => reply \in Errors)
           \/ \E d \in Decisions, point \in Points \ {"fail"}, reply \in Replies :
                Begin(c, d, point, reply)
    PROVE  /\ client' \in [Clients -> Session]
           /\ \A x \in Clients : /\ ~Idle(x)' => Deciding(x)' \in Decisions
                                 /\ At(x, "fail")' => client'[x].reply \in Errors
<1>1. CASE \E point \in Points, reply \in Replies :
             Go(c, point, reply) /\ ~Idle(c) /\ (point = "fail" => reply \in Errors)
  <2>1. PICK point \in Points, reply \in Replies :
             Go(c, point, reply) /\ ~Idle(c) /\ (point = "fail" => reply \in Errors)
    BY <1>1
  <2>2. client' = [client EXCEPT ![c] = [at |-> point, decision |-> Deciding(c), reply |-> reply]]
    BY <2>1 DEF Go, Begin
  <2>3. Deciding(c) \in Decisions
    BY <2>1 DEF CallsOK
  <2>4. client' \in [Clients -> Session]
    BY <2>1, <2>2, <2>3 DEF CallsOK, Session
  <2>5. /\ client'[c].at = point /\ client'[c].reply = reply
        /\ client'[c].decision = Deciding(c)
        /\ \A x \in Clients \ {c} : client'[x] = client[x]
    BY <2>2 DEF CallsOK
  <2> QED
    BY <2>1, <2>3, <2>4, <2>5 DEF CallsOK, Idle, At, Deciding
<1>2. CASE \E d \in Decisions, point \in Points \ {"fail"}, reply \in Replies :
             Begin(c, d, point, reply)
  BY <1>2 DEF Begin, CallsOK, Session, Idle, At, Deciding
<1> QED
  BY <1>1, <1>2

\* Raise moves the call as CallStep requires.
LEMMA RaiseGoes ==
    ASSUME CallsOK, NEW c \in Clients, ~Idle(c), NEW e \in Errors, Raise(c, e)
    PROVE  \E point \in Points, reply \in Replies :
                Go(c, point, reply) /\ (point = "fail" => reply \in Errors)
<1>1. client[c] \in Session
  BY DEF CallsOK
<1>2. client[c].reply \in Replies /\ e \in Replies /\ "pending" \in Replies
  BY <1>1 DEF Session, Errors, Replies
<1>3. CASE At(c, "data")
  BY <1>2, <1>3 DEF Raise, Points
<1>4. CASE At(c, "succeed")
  BY <1>2, <1>4 DEF Raise, Points, At
<1>5. CASE At(c, "fail")
  BY <1>2, <1>5 DEF Raise, Points, At
<1>6. CASE ~(At(c, "data") \/ At(c, "succeed") \/ At(c, "fail"))
  BY <1>2, <1>6 DEF Raise, Points
<1> QED
  BY <1>3, <1>4, <1>5, <1>6

LEMMA AnswerGoes ==
    ASSUME CallsOK, NEW c \in Clients, ~Idle(c), NEW call, NEW point \in Points \ {"fail"},
           NEW reply \in Replies, Answer(c, call, point, reply)
    PROVE  \E p \in Points, r \in Replies : Go(c, p, r) /\ (p = "fail" => r \in Errors)
BY RaiseGoes DEF Answer, Errors

LEMMA CallsStep == CallsOK /\ [Next]_vars => CallsOK'
<1> SUFFICES ASSUME CallsOK, [Next]_vars PROVE CallsOK'
  OBVIOUS
<1>1. CASE UNCHANGED vars
  BY <1>1 DEF vars, CallsOK, Idle, At, Deciding
<1>2. ASSUME NEW c \in Clients, stored' = stored, ~Idle(c),
             \E p \in Points, r \in Replies : Go(c, p, r) /\ (p = "fail" => r \in Errors)
      PROVE  CallsOK'
  BY <1>2, CallStep DEF CallsOK
<1>3. ASSUME NEW c \in Clients, stored' = stored,
             \E d \in Decisions, p \in Points \ {"fail"}, r \in Replies : Begin(c, d, p, r)
      PROVE  CallsOK'
  BY <1>3, CallStep DEF CallsOK
<1>4. ASSUME NEW c \in Clients, NEW d \in Decisions, Lookup(c, d) PROVE CallsOK'
  <2>1. \E x \in Decisions, p \in Points \ {"fail"}, r \in Replies : Begin(c, x, p, r)
    BY <1>4 DEF Lookup, Points, Replies
  <2> QED
    BY <1>3, <1>4, <2>1 DEF Lookup
<1>5. ASSUME NEW c \in Clients, NEW d \in Decisions, Reconcile(c, d) PROVE CallsOK'
  <2>1. \E x \in Decisions, p \in Points \ {"fail"}, r \in Replies : Begin(c, x, p, r)
    BY <1>5 DEF Reconcile, Refusal, Points, Replies
  <2> QED
    BY <1>3, <1>5, <2>1 DEF Reconcile
<1>6. ASSUME NEW c \in Clients, NEW v \in Validations, LoadRecord(c, v) PROVE CallsOK'
  <2>1. stored[v] \in Decisions
    BY <1>6 DEF LoadRecord, CallsOK
  <2>2. \E x \in Decisions, p \in Points \ {"fail"}, r \in Replies : Begin(c, x, p, r)
    BY <1>6, <2>1 DEF LoadRecord, Points, Replies
  <2> QED
    BY <1>3, <1>6, <2>2 DEF LoadRecord
<1>7. ASSUME NEW c \in Clients, ReadAudit(c) PROVE CallsOK'
  <2>1. \E p \in Points, r \in Replies : Go(c, p, r) /\ p # "fail"
    BY <1>7 DEF ReadAudit, Points, Replies
  <2> QED
    BY <1>2, <1>7, <2>1 DEF ReadAudit, At, Idle
<1>8. ASSUME NEW c \in Clients, OpenRun(c) PROVE CallsOK'
  BY <1>2, <1>8, AnswerGoes DEF OpenRun, Points, Replies, At, Idle
<1>9. ASSUME NEW c \in Clients, RunRefused(c) \/ DecisionRefused(c) \/ CloseRefused(c) \/ Rollback(c)
      PROVE  CallsOK'
  <2>1. /\ ~Idle(c) /\ stored' = stored
        /\ \E e \in Errors : Raise(c, e)
    BY <1>9 DEF RunRefused, DecisionRefused, CloseRefused, Rollback, At, Idle, Errors
  <2> QED
    BY <1>2, <2>1, RaiseGoes
<1>10. ASSUME NEW c \in Clients, StoreDecision(c) PROVE CallsOK'
  <2>1. ~Idle(c) /\ \E p \in Points, r \in Replies : Go(c, p, r) /\ (p = "fail" => r \in Errors)
    BY <1>10, AnswerGoes DEF StoreDecision, Points, Replies, At, Idle
  <2>2. /\ client' \in [Clients -> Session]
        /\ \A x \in Clients : /\ ~Idle(x)' => Deciding(x)' \in Decisions
                              /\ At(x, "fail")' => client'[x].reply \in Errors
    BY <2>1, CallStep
  <2>3. stored' \in [Validations -> Decisions \cup {Null}]
    BY <1>10, <2>1 DEF StoreDecision, CallsOK
  <2> QED
    BY <2>2, <2>3 DEF CallsOK
<1>11. ASSUME NEW c \in Clients, CloseRun(c) PROVE CallsOK'
  <2>1. client[c].reply \in Replies /\ "confirmed" \in Replies /\ "idle" \in Points \ {"fail"}
    BY DEF CallsOK, Session, Points, Replies
  <2> QED
    BY <1>2, <1>11, <2>1, AnswerGoes DEF CloseRun, At, Idle
<1>12. ASSUME NEW c \in Clients, Crash(c) PROVE CallsOK'
  BY <1>2, <1>12 DEF Crash, Points, Replies
<1> QED
  BY <1>1, <1>4, <1>5, <1>6, <1>7, <1>8, <1>9, <1>10, <1>11, <1>12 DEF Next, Proceed

LEMMA CallsInvariant == Spec => []CallsOK
<1>1. Init => CallsOK
  BY DEF Init, CallsOK, Session, Points, Replies, Idle, At
<1> QED
  BY <1>1, CallsStep, PTL DEF Spec

-----------------------------------------------------------------------------
(* The clients use the ledger only through its functions.                   *)

LEMMA Arguments ==
    ASSUME NEW c \in Clients, NEW d \in Decisions
    PROVE  /\ UserOf[c] \in Users
           /\ d.id \in RunIds /\ ReconciliationId(d) \in RunIds
           /\ Evidence(d, 0) \in L!Receipt /\ Evidence(d, 1) \in L!Receipt
           /\ Claim(d) \in L!Claim /\ L!NamesAll(Claim(d))
<1>1. UserOf[c] \in Users
  BY PersistenceConstants
<1>2. d.id \in RunIds /\ ReconciliationId(d) \in RunIds
  BY DecisionFields DEF RunIds
<1>3. Evidence(d, 0) \in L!Receipt /\ Evidence(d, 1) \in L!Receipt
  BY DEF Evidence, L!Receipt, L!Operations, L!Counts
<1>4. Claim(d) \in L!Claim
  BY DEF Claim, L!Claim, L!Operations, L!Counts
<1>5. L!NamesAll(Claim(d))
  BY RowsAreValues, PersistenceConstants DEF Claim, L!NamesAll, L!Operations, L!Counts
<1> QED
  BY <1>1, <1>2, <1>3, <1>4, <1>5

LEMMA LedgerStep == CallsOK /\ [Next]_vars => [L!Next]_(L!vars)
<1> SUFFICES ASSUME CallsOK, [Next]_vars PROVE [L!Next]_(L!vars)
  OBVIOUS
<1>1. CASE UNCHANGED <<runs, receipts>>
  BY <1>1 DEF L!vars
<1>2. ASSUME NEW c \in Clients, OpenRun(c) PROVE L!Next
  <2>1. Deciding(c) \in Decisions
    BY <1>2 DEF OpenRun, CallsOK, Idle, At
  <2> DEFINE o == [user |-> UserOf[c], run |-> Deciding(c).id, meta |-> ReviewMeta(c),
                   revision |-> Null]
  <2>2. L!StartRun(o.user, o.run, o.meta, o.revision)
    BY <1>2 DEF OpenRun
  <2>3. o \in {[user |-> UserOf[x], run |-> d.id, meta |-> ReviewMeta(x),
                revision |-> Null] : x \in Clients, d \in Decisions}
    BY <2>1
  <2> HIDE DEF o
  <2> QED
    BY <2>2, <2>3 DEF L!Next
<1>3. ASSUME NEW c \in Clients, StoreDecision(c) PROVE L!Next
  <2>1. Deciding(c) \in Decisions
    BY <1>3 DEF StoreDecision, CallsOK, Idle, At
  <2>2. \E e \in L!Receipt : L!RecordReceipt(UserOf[c], Deciding(c).id, e)
    BY <1>3, <2>1, Arguments DEF StoreDecision
  <2> QED
    BY <2>1, <2>2, Arguments DEF L!Next
<1>4. ASSUME NEW c \in Clients, CloseRun(c) PROVE L!Next
  <2>1. /\ Deciding(c) \in Decisions
        /\ At(c, "succeed") \/ client[c].reply \in Errors
    BY <1>4 DEF CloseRun, CallsOK, Idle, At
  <2>2. Closing(c) \in L!Closings
    BY <2>1 DEF Closing, L!Closings, L!Terminal, L!Counts
  <2> QED
    BY <1>4, <2>1, <2>2, Arguments DEF CloseRun, L!Next
<1>5. ASSUME NEW c \in Clients, NEW d \in Decisions, Reconcile(c, d)
      PROVE  L!Next \/ UNCHANGED <<runs, receipts>>
  <2>1. CASE L!Reconcile(UserOf[c], d.id, ReconciliationId(d), Claim(d))
    <3>1. /\ UserOf[c] \in Users /\ d.id \in RunIds /\ ReconciliationId(d) \in RunIds
          /\ Claim(d) \in L!Claim /\ L!NamesAll(Claim(d))
      BY Arguments
    <3> HIDE DEF RunIds
    <3> QED
      BY <2>1, <3>1 DEF L!Next
  <2> QED
    BY <1>5, <2>1 DEF Reconcile
<1> QED
  BY <1>1, <1>2, <1>3, <1>4, <1>5
     DEF Next, Proceed, Lookup, LoadRecord, ReadAudit, RunRefused, DecisionRefused,
         CloseRefused, Rollback, Crash, vars

\* Whatever fails, is repeated or overlaps, the clients never touch the ledger
\* but by a call it accepts: everything RunLedger promises holds here.
THEOREM LedgerIsRefined == Spec => LedgerRefined
<1>1. Init => L!Init
  BY DEF Init
<1> QED
  BY <1>1, LedgerStep, CallsInvariant, PTL DEF Spec, LedgerRefined, L!Spec
\* LP is the same ledger as L, reached through the module that proves its theorems.
LEMMA SameLedger == L!Spec => LP!Spec
<1>1. L!Receipt = LP!Receipt /\ L!Claim = LP!Claim /\ L!Closings = LP!Closings
  BY DEF L!Receipt, LP!Receipt, L!Claim, LP!Claim, L!Closings, LP!Closings, L!Operations, LP!Operations, L!Counts, LP!Counts, L!Terminal, LP!Terminal
<1>2. ASSUME NEW u, NEW r, NEW m, NEW v, L!StartRun(u, r, m, v)
      PROVE  LP!StartRun(u, r, m, v)
  <2>1. L!NewRun(u, m, v) = LP!NewRun(u, m, v)
    BY DEF L!NewRun, LP!NewRun
  <2> QED
    BY <1>2, <2>1 DEF L!StartRun, LP!StartRun, L!StartAccepted, LP!StartAccepted, L!Exists, LP!Exists, L!Owns, LP!Owns
<1>3. ASSUME NEW u, NEW r, NEW f, L!FinishRun(u, r, f)
      PROVE  LP!FinishRun(u, r, f)
  <2>1. L!Closed(r, f) = LP!Closed(r, f)
    BY DEF L!Closed, LP!Closed, L!ErrorOf, LP!ErrorOf, L!Coalesce, LP!Coalesce
  <2> QED
    BY <1>3, <2>1 DEF L!FinishRun, LP!FinishRun, L!FinishAccepted, LP!FinishAccepted, L!Exists, LP!Exists, L!Owns, LP!Owns, L!Running, LP!Running
<1>4. ASSUME NEW u, NEW r, NEW e, L!RecordReceipt(u, r, e)
      PROVE  LP!RecordReceipt(u, r, e)
  <2>1. L!SameEvidence(receipts[r], e) = LP!SameEvidence(receipts[r], e)
    BY DEF L!SameEvidence, LP!SameEvidence
  <2>2. L!WorkflowOf(e.operation) = LP!WorkflowOf(e.operation)
    BY DEF L!WorkflowOf, LP!WorkflowOf
  <2> QED
    BY <1>4, <2>1, <2>2 DEF L!RecordReceipt, LP!RecordReceipt, L!ReceiptAccepted, LP!ReceiptAccepted, L!Exists, LP!Exists, L!Owns, LP!Owns, L!Running, LP!Running
<1>5. ASSUME NEW u, NEW r, NEW q, NEW e, L!Reconcile(u, r, q, e)
      PROVE  LP!Reconcile(u, r, q, e)
  <2>1. L!ReconciliationRun(u, r, e) = LP!ReconciliationRun(u, r, e)
    BY DEF L!ReconciliationRun, LP!ReconciliationRun, L!Reconciler, LP!Reconciler
  <2>2. L!Reconciling(r) = LP!Reconciling(r)
    BY DEF L!Reconciling, LP!Reconciling, L!Exists, LP!Exists
  <2>3. L!ReconcileAccepted(u, r, q, e) <=> LP!ReconcileAccepted(u, r, q, e)
    BY <2>2 DEF L!ReconcileAccepted, LP!ReconcileAccepted, L!EvidenceMatches, LP!EvidenceMatches, L!Differ, LP!Differ, L!Owns, LP!Owns, L!Exists, LP!Exists, L!Running, LP!Running
  <2> QED
    BY <1>5, <2>1, <2>2, <2>3 DEF L!Reconcile, LP!Reconcile, L!Running, LP!Running
<1>6. L!Next => LP!Next
  <2>1. \A e : L!NamesAll(e) = LP!NamesAll(e)
    BY DEF L!NamesAll, LP!NamesAll
  <2> QED
    BY <1>1, <1>2, <1>3, <1>4, <1>5, <2>1 DEF L!Next, LP!Next
<1>7. L!Init => LP!Init
  BY DEF L!Init, LP!Init
<1>8. L!vars = LP!vars
  BY DEF L!vars, LP!vars
<1>9. [L!Next]_(L!vars) => [LP!Next]_(LP!vars)
  BY <1>6 DEF L!vars, LP!vars
<1> QED
  BY <1>7, <1>9, PTL DEF L!Spec, LP!Spec

\* The constants of this module satisfy what RunLedger assumes of its own.
LEMMA LedgerAssumptions ==
    /\ /\ 1 \in Nat
       /\ {[user |-> UserOf[c], run |-> d.id, meta |-> ReviewMeta(c),
            revision |-> Null] : c \in Clients, d \in Decisions} \subseteq LP!Opening
       /\ Users \subseteq Users
       /\ Users \X {"review"} \subseteq Users \X LP!Workflows
       /\ LP!Reconciler \notin Apps
    /\ Null \notin LP!Run \cup LP!Receipt \cup RunIds \cup LP!Counts \cup {}
                     \cup Decisions \cup LP!Operations
<1>1. \A c \in Clients, d \in Decisions :
        [user |-> UserOf[c], run |-> d.id, meta |-> ReviewMeta(c), revision |-> Null]
            \in LP!Opening
  <2>1. \A c \in Clients : ReviewMeta(c) \in LP!Metadata
    BY PersistenceConstants DEF ReviewMeta, LP!Metadata, LP!Workflows, LP!Counts
  <2> QED
    BY <2>1, Arguments, PersistenceConstants DEF LP!Opening
<1>2. LP!Reconciler \notin Apps
  BY RowsAreValues DEF L!Reconciler, LP!Reconciler
<1>3. L!Metadata = LP!Metadata
  BY DEF L!Metadata, LP!Metadata, L!Workflows, LP!Workflows, L!Counts, LP!Counts, L!Reconciler, LP!Reconciler
<1>4. L!Run = LP!Run
  BY <1>3 DEF L!Run, LP!Run, L!Terminal, LP!Terminal, L!Counts, LP!Counts
<1>5. L!Receipt = LP!Receipt /\ L!Counts = LP!Counts /\ L!Operations = LP!Operations
  BY DEF L!Receipt, LP!Receipt, L!Operations, LP!Operations, L!Counts, LP!Counts
<1>6. Null \notin LP!Run \cup LP!Receipt \cup RunIds \cup LP!Counts \cup {}
                     \cup Decisions \cup LP!Operations
  BY <1>4, <1>5, RowsAreValues, PersistenceConstants
<1> QED
  BY <1>1, <1>2, <1>6 DEF LP!Workflows

\* What this module needs of the ledger, as facts of its own behaviours.
LedgerFacts == L!TypeOK /\ L!ReceiptsAreGrounded /\ L!ReconciliationsAreProven

LEMMA LedgerInvariant == Spec => []LedgerFacts
<1>1. LP!Spec => []LP!TypeOK /\ []LP!ReceiptsAreGrounded /\ []LP!ReconciliationsAreProven
  BY LP!TypeCorrect, LP!ReceiptsGrounded, LP!ReconciliationsProven, LedgerAssumptions
<1>2. LP!TypeOK => L!TypeOK
  <2>1. L!Receipt = LP!Receipt
    BY DEF L!Receipt, LP!Receipt, L!Operations, LP!Operations, L!Counts, LP!Counts
  <2>2. L!Metadata = LP!Metadata
    BY DEF L!Metadata, LP!Metadata, L!Workflows, LP!Workflows, L!Counts, LP!Counts,
           L!Reconciler, LP!Reconciler
  <2>3. L!Run = LP!Run
    BY <2>2 DEF L!Run, LP!Run, L!Terminal, LP!Terminal, L!Counts, LP!Counts
  <2> QED
    BY <2>1, <2>3 DEF L!TypeOK, LP!TypeOK
<1>3. LP!ReceiptsAreGrounded => L!ReceiptsAreGrounded
  BY DEF L!ReceiptsAreGrounded, LP!ReceiptsAreGrounded, L!Exists, LP!Exists,
         L!WorkflowOf, LP!WorkflowOf
<1>4. LP!ReconciliationsAreProven => L!ReconciliationsAreProven
  <2>1. \A r : L!Reconciling(r) = LP!Reconciling(r)
    BY DEF L!Reconciling, LP!Reconciling, L!Exists, LP!Exists
  <2>2. \A q, r : LP!ProvenBy(q, r) => L!ProvenBy(q, r)
    BY DEF L!ProvenBy, LP!ProvenBy, L!Exists, LP!Exists
  <2> QED
    BY <2>1, <2>2 DEF L!ReconciliationsAreProven, LP!ReconciliationsAreProven
<1> QED
  BY <1>1, <1>2, <1>3, <1>4, SameLedger, LedgerIsRefined, PTL DEF LedgerRefined, LedgerFacts

\* A step of the ledger keeps audited runs audited and receipts as they are.
LedgerKeeps ==
    \A r \in RunIds :
        /\ Audited(r) => Audited(r)'
        /\ receipts[r] # Null => receipts'[r] = receipts[r]

LEMMA LedgerStepsKeep == Spec => [][LedgerKeeps]_<<runs, receipts>>
<1>1. LP!Spec => LP!TerminalRunsFrozen /\ LP!ReceiptsPermanent
  BY LP!TerminalFrozen, LP!ReceiptsImmutable, LedgerAssumptions
<1>2. [LP!RunsAreFinal]_(LP!vars) /\ [LP!ReceiptsAreFinal]_(LP!vars)
        => [LedgerKeeps]_<<runs, receipts>>
  BY DEF LP!vars, LP!RunsAreFinal, LP!ReceiptsAreFinal, LP!Exists, LP!Terminal,
         LedgerKeeps, Audited, L!Exists
<1>3. LP!Spec => [][LP!RunsAreFinal]_(LP!vars) /\ [][LP!ReceiptsAreFinal]_(LP!vars)
  BY <1>1 DEF LP!TerminalRunsFrozen, LP!ReceiptsPermanent
<1> QED
  BY <1>2, <1>3, SameLedger, LedgerIsRefined, PTL DEF LedgerRefined

-----------------------------------------------------------------------------
(* What a client may know of the database at each point of its call.  A     *)
(* call that is past the data transaction knows that its decision is        *)
(* stored; nothing that other clients do, and no failure, takes that away.  *)

Knows(c) ==
    LET d == Deciding(c) IN
    /\ At(c, "audit") \/ At(c, "succeed") => stored[d.id] = d
    /\ client[c].reply = "confirmed" =>
         Idle(c) /\ d \in Decisions /\ stored[d.id] = d /\ Audited(d.id)
    /\ client[c].reply = "pending" =>
         Idle(c) /\ d \in Decisions /\ stored[d.id] = d /\ receipts[d.id] # Null

RowsKeyed == \A v \in Validations : stored[v] # Null => stored[v].id = v

StoreInv ==
    /\ RowsKeyed
    /\ DataAndReceiptTogether
    /\ SucceededHasEvidence
    /\ \A c \in Clients : Knows(c)

\* Everything the proof that StoreInv is preserved may use of the state.
Context == CallsOK /\ LedgerFacts /\ StoreInv

DecisionsKept == \A v \in Validations : stored[v] # Null => stored'[v] = stored[v]

LEMMA StoredStays == CallsOK /\ [Next]_vars => DecisionsKept
<1> SUFFICES ASSUME CallsOK, [Next]_vars, stored' # stored PROVE DecisionsKept
  BY DEF DecisionsKept
<1>1. PICK c \in Clients : StoreDecision(c)
  BY DEF Next, Proceed, Lookup, LoadRecord, ReadAudit, OpenRun, RunRefused, DecisionRefused,
         CloseRun, CloseRefused, Rollback, Crash, Reconcile, vars
<1> QED
  BY <1>1 DEF StoreDecision, DecisionAccepted, DecisionsKept, CallsOK

\* A client's knowledge survives the steps of others, and its own when the new
\* point or reply is justified by the new state.
LEMMA KnowledgeStep ==
    ASSUME Context, DecisionsKept, LedgerKeeps,
           NEW c \in Clients, NEW d \in Decisions, NEW point, NEW reply,
           Begin(c, d, point, reply),
           point \in {"audit", "succeed"} => stored'[d.id] = d,
           reply = "confirmed" => point = "idle" /\ stored'[d.id] = d /\ Audited(d.id)',
           reply = "pending" => point = "idle" /\ stored'[d.id] = d /\ receipts'[d.id] # Null
    PROVE  \A x \in Clients : Knows(x)'
<1> TAKE x \in Clients
<1>1. CASE x = c
  <2>1. client'[x] = [at |-> point, decision |-> d, reply |-> reply]
    BY <1>1 DEF Begin, Context, CallsOK
  <2> QED
    BY <1>1, <2>1 DEF Knows, Deciding, At, Idle
<1>2. CASE x # c
  <2>1. client'[x] = client[x]
    BY <1>2 DEF Begin, Context, CallsOK
  <2>2. Knows(x) /\ (~Idle(x) => Deciding(x) \in Decisions)
    BY DEF Context, StoreInv, CallsOK
  <2>3. \A e \in Decisions : e.id \in Validations /\ e.id \in RunIds /\ e # Null
    BY DecisionFields DEF RunIds
  <2>4. Deciding(x)' = Deciding(x) /\ (Idle(x)' <=> Idle(x))
        /\ (At(x, "audit")' <=> At(x, "audit")) /\ (At(x, "succeed")' <=> At(x, "succeed"))
    BY <2>1 DEF Deciding, Idle, At
  <2>5. \A e \in Decisions : stored[e.id] = e => stored'[e.id] = e
    BY <2>3 DEF DecisionsKept
  <2>6. \A e \in Decisions : /\ Audited(e.id) => Audited(e.id)'
                             /\ receipts[e.id] # Null => receipts'[e.id] # Null
    BY <2>3 DEF LedgerKeeps
  <2> DEFINE e == Deciding(x)
  <2>7. At(x, "audit")' \/ At(x, "succeed")' => stored'[e.id] = e
    BY <2>2, <2>4, <2>5 DEF Knows, At, Idle
  <2>8. client'[x].reply = "confirmed" =>
          Idle(x)' /\ e \in Decisions /\ stored'[e.id] = e /\ Audited(e.id)'
    BY <2>1, <2>2, <2>4, <2>5, <2>6 DEF Knows
  <2>9. client'[x].reply = "pending" =>
          Idle(x)' /\ e \in Decisions /\ stored'[e.id] = e /\ receipts'[e.id] # Null
    BY <2>1, <2>2, <2>4, <2>5, <2>6 DEF Knows
  <2> QED
    BY <2>4, <2>7, <2>8, <2>9 DEF Knows, Audited, L!Exists
<1> QED
  BY <1>1, <1>2

\* An exception leaves a client with what it already knew: only the finish of
\* a decision that is stored becomes a pending reply.
LEMMA RaiseKnows ==
    ASSUME Context, DecisionsKept, LedgerKeeps,
           NEW c \in Clients, ~Idle(c), NEW e \in Errors, Raise(c, e)
    PROVE  \A x \in Clients : Knows(x)'
<1> DEFINE d == Deciding(c)
<1>1. d \in Decisions /\ d.id \in Validations /\ d.id \in RunIds /\ d # Null /\ Knows(c)
  BY DecisionFields DEF Context, CallsOK, StoreInv, RunIds
<1>2. CASE At(c, "succeed")
  <2>1. Begin(c, d, "idle", "pending")
    BY <1>2 DEF Raise, Go, At
  <2>2. stored[d.id] = d /\ receipts[d.id] # Null
    BY <1>1, <1>2 DEF Knows, Context, StoreInv, DataAndReceiptTogether
  <2>3. stored'[d.id] = d /\ receipts'[d.id] # Null
    BY <1>1, <2>2 DEF DecisionsKept, LedgerKeeps
  <2> HIDE DEF d
  <2> QED
    BY <1>1, <2>1, <2>3, KnowledgeStep
<1>3. CASE ~At(c, "succeed")
  <2>1. \E point \in {"idle", "fail"}, reply \in Errors : Begin(c, d, point, reply)
    BY <1>3 DEF Raise, Go, At, Context, CallsOK
  <2> HIDE DEF d
  <2> QED
    BY <1>1, <2>1, KnowledgeStep DEF Errors
<1> QED
  BY <1>2, <1>3

\* The run a client closes after its data transaction is succeeded.
LEMMA ClosedIsSucceeded ==
    ASSUME Context, NEW c \in Clients, CloseRun(c), At(c, "succeed"),
           NEW d \in Decisions, d = Deciding(c)
    PROVE  L!Exists(d.id)' /\ runs'[d.id].status = "succeeded"
<1> DEFINE r == d.id
           f == Closing(c)
<1>1. r \in RunIds /\ runs \in [RunIds -> L!Run \cup {Null}]
  BY DecisionFields DEF RunIds, Context, LedgerFacts, L!TypeOK
<1>2. L!FinishRun(UserOf[c], r, f)
  BY DEF CloseRun
<1>3. runs[r] \in L!Run
  BY <1>1, <1>2 DEF L!FinishRun, L!FinishAccepted, L!Owns, L!Exists
<1>4. f.status = "succeeded" /\ f \in L!Closings
  BY DEF Closing, L!Closings, L!Terminal, L!Counts
<1> HIDE DEF f
<1>5. L!Closed(r, f).status = "succeeded" /\ L!Closed(r, f) # Null
  <2>1. L!Closed(r, f) \in L!Run
    BY <1>3, <1>4 DEF L!Closed, L!Closings, L!Run, L!Coalesce, L!ErrorOf
  <2>2. L!Closed(r, f).status = f.status
    BY <1>3 DEF L!Closed, L!Run
  <2> QED
    BY <1>4, <2>1, <2>2, RowsAreValues
<1> QED
  BY <1>1, <1>2, <1>5 DEF L!FinishRun, L!Exists

\* An accepted reconciliation leaves its original succeeded: it was, or it is
\* closed now.  (That an original with a reconciliation run is succeeded comes
\* from the ledger.)
LEMMA ReconciledIsSucceeded ==
    ASSUME Context, NEW u, NEW d \in Decisions, NEW e \in L!Claim,
           L!Reconcile(u, d.id, ReconciliationId(d), e)
    PROVE  L!Exists(d.id)' /\ runs'[d.id].status = "succeeded"
<1> DEFINE r == d.id
           q == ReconciliationId(d)
           closed == [runs[r] EXCEPT !.status = "succeeded", !.output = e.rows, !.error = Null]
<1>1. /\ r \in RunIds /\ q \in RunIds /\ r # q
      /\ runs \in [RunIds -> L!Run \cup {Null}]
  BY DecisionFields, PersistenceConstants DEF RunIds, Context, LedgerFacts, L!TypeOK
<1>2. L!Exists(r) /\ runs[r] \in L!Run
  BY <1>1 DEF L!Reconcile, L!ReconcileAccepted, L!Owns, L!Exists
<1>3. CASE L!Reconciling(r) # {} \/ ~L!Running(r)
  <2>1. runs' = runs
    BY <1>3 DEF L!Reconcile
  <2>2. runs[r].status = "succeeded"
    BY <1>1, <1>2, <1>3 DEF L!Reconcile, L!ReconcileAccepted, Context, LedgerFacts,
       L!ReconciliationsAreProven, L!ProvenBy
  <2> QED
    BY <1>2, <2>1, <2>2 DEF L!Exists
<1>4. CASE ~(L!Reconciling(r) # {} \/ ~L!Running(r))
  <2>1. closed.status = "succeeded" /\ closed # Null
    <3>1. closed \in L!Run
      BY <1>2 DEF L!Run, L!Terminal, L!Claim
    <3> QED
      BY <1>2, <3>1, RowsAreValues DEF L!Run
  <2>2. runs'[r] = closed
    BY <1>1, <1>4 DEF L!Reconcile
  <2> QED
    BY <2>1, <2>2 DEF L!Exists
<1> QED
  BY <1>3, <1>4

LEMMA KnowsStep ==
    ASSUME Context, DecisionsKept, LedgerKeeps, Next
    PROVE  \A x \in Clients : Knows(x)'
<1>1. ASSUME NEW c \in Clients, NEW d \in Decisions, Lookup(c, d)
      PROVE  \A x \in Clients : Knows(x)'
  <2>1. \E point \in {"idle", "start", "audit"}, reply \in Errors \cup {"none"} :
          Begin(c, d, point, reply) /\ (point = "audit" => stored[d.id] = d)
    BY <1>1 DEF Lookup, Errors
  <2>2. stored' = stored
    BY <1>1 DEF Lookup
  <2> QED
    BY <2>1, <2>2, KnowledgeStep DEF Errors
<1>2. ASSUME NEW c \in Clients, NEW v \in Validations, LoadRecord(c, v)
      PROVE  \A x \in Clients : Knows(x)'
  <2>1. stored[v] \in Decisions /\ stored' = stored /\ Begin(c, stored[v], "audit", "none")
    BY <1>2 DEF LoadRecord, Context, CallsOK
  <2>2. stored[stored[v].id] = stored[v]
    BY <1>2 DEF LoadRecord, Context, StoreInv, RowsKeyed
  <2> QED
    BY <2>1, <2>2, KnowledgeStep
<1>3. ASSUME NEW c \in Clients, ReadAudit(c)
      PROVE  \A x \in Clients : Knows(x)'
  <2>1. PICK d \in Decisions : d = Deciding(c)
    BY <1>3 DEF ReadAudit, At, Idle, Context, CallsOK
  <2>2. d.id \in Validations /\ d # Null /\ stored[d.id] = d
    BY <1>3, <2>1, DecisionFields DEF ReadAudit, Context, StoreInv, Knows
  <2>3. receipts[d.id] # Null
    BY <2>2 DEF Context, StoreInv, DataAndReceiptTogether
  <2>4. \E reply \in {"error", "confirmed", "pending"} :
          Begin(c, d, "idle", reply) /\ (reply = "confirmed" => Audited(d.id))
    BY <1>3, <2>1 DEF ReadAudit, Go
  <2>5. stored' = stored /\ receipts' = receipts /\ (Audited(d.id) => Audited(d.id)')
    BY <1>3 DEF ReadAudit, Audited, L!Exists
  <2> QED
    BY <2>2, <2>3, <2>4, <2>5, KnowledgeStep
<1>4. ASSUME NEW c \in Clients, OpenRun(c)
      PROVE  \A x \in Clients : Knows(x)'
  <2>1. ~Idle(c) /\ Deciding(c) \in Decisions
    BY <1>4 DEF OpenRun, At, Idle, Context, CallsOK
  <2>2. Begin(c, Deciding(c), "data", "none") \/ Raise(c, "error")
    BY <1>4 DEF OpenRun, Answer, Go
  <2> QED
    BY <2>1, <2>2, KnowledgeStep, RaiseKnows DEF Errors
<1>5. ASSUME NEW c \in Clients, RunRefused(c) \/ DecisionRefused(c) \/ CloseRefused(c) \/ Rollback(c)
      PROVE  \A x \in Clients : Knows(x)'
  <2>1. ~Idle(c) /\ \E e \in Errors : Raise(c, e)
    BY <1>5 DEF RunRefused, DecisionRefused, CloseRefused, Rollback, At, Idle, Errors
  <2> QED
    BY <2>1, RaiseKnows
<1>6. ASSUME NEW c \in Clients, StoreDecision(c)
      PROVE  \A x \in Clients : Knows(x)'
  <2>1. ~Idle(c) /\ Deciding(c) \in Decisions /\ Deciding(c).id \in Validations
    BY <1>6, DecisionFields DEF StoreDecision, At, Idle, Context, CallsOK
  <2>2. stored'[Deciding(c).id] = Deciding(c)
    BY <1>6, <2>1 DEF StoreDecision, Context, CallsOK
  <2>3. Begin(c, Deciding(c), "succeed", "none") \/ Raise(c, "error")
    BY <1>6 DEF StoreDecision, Answer, Go
  <2> QED
    BY <2>1, <2>2, <2>3, KnowledgeStep, RaiseKnows DEF Errors
<1>7. ASSUME NEW c \in Clients, CloseRun(c)
      PROVE  \A x \in Clients : Knows(x)'
  <2>0. PICK d \in Decisions : d = Deciding(c)
    BY <1>7 DEF CloseRun, At, Idle, Context, CallsOK
  <2>1. ~Idle(c) /\ d.id \in Validations /\ d.id \in RunIds /\ d # Null
    BY <1>7, DecisionFields DEF CloseRun, At, Idle, RunIds
  <2>2. CASE Raise(c, "error")
    BY <2>1, <2>2, RaiseKnows DEF Errors
  <2>3. CASE At(c, "fail") /\ Begin(c, d, "idle", client[c].reply)
    <3>1. client[c].reply \in Errors
      BY <2>3 DEF Context, CallsOK
    <3> QED
      BY <2>1, <2>3, <3>1, KnowledgeStep DEF Errors
  <2>4. CASE At(c, "succeed") /\ Begin(c, d, "idle", "confirmed")
    <3>1. stored[d.id] = d /\ receipts[d.id] # Null
      BY <2>0, <2>1, <2>4 DEF Context, StoreInv, Knows, DataAndReceiptTogether
    <3>2. stored'[d.id] = d /\ receipts'[d.id] # Null
      BY <2>1, <3>1 DEF DecisionsKept, LedgerKeeps
    <3>3. L!Exists(d.id)' /\ runs'[d.id].status = "succeeded"
      BY <1>7, <2>0, <2>4, ClosedIsSucceeded
    <3>4. Audited(d.id)'
      BY <3>2, <3>3 DEF Audited
    <3> QED
      BY <2>1, <2>4, <3>2, <3>4, KnowledgeStep
  <2>5. \/ Raise(c, "error")
        \/ At(c, "fail") /\ Begin(c, d, "idle", client[c].reply)
        \/ At(c, "succeed") /\ Begin(c, d, "idle", "confirmed")
    BY <1>7, <2>0 DEF CloseRun, Answer, Go, At
  <2> QED
    BY <2>2, <2>3, <2>4, <2>5
<1>8. ASSUME NEW c \in Clients, NEW d \in Decisions, Reconcile(c, d)
      PROVE  \A x \in Clients : Knows(x)'
  <2>1. d.id \in Validations /\ d # Null /\ stored' = stored
    BY <1>8, DecisionFields DEF Reconcile
  <2>2. CASE \E reply \in Errors : Begin(c, d, "idle", reply)
    BY <2>2, KnowledgeStep DEF Errors
  <2>3. CASE /\ Reconcilable(c, d) /\ Begin(c, d, "idle", "confirmed")
             /\ L!Reconcile(UserOf[c], d.id, ReconciliationId(d), Claim(d))
    <3>1. stored[d.id] = d /\ receipts[d.id] # Null
      BY <2>3 DEF Reconcilable, L!ReconcileAccepted, L!EvidenceMatches
    <3>2. receipts' = receipts
      BY <2>3 DEF L!Reconcile
    <3>3. L!Exists(d.id)' /\ runs'[d.id].status = "succeeded"
      BY <2>3, Arguments, ReconciledIsSucceeded
    <3>4. Audited(d.id)'
      BY <3>1, <3>2, <3>3 DEF Audited
    <3> QED
      BY <2>1, <2>3, <3>1, <3>4, KnowledgeStep
  <2> QED
    BY <1>8, <2>2, <2>3 DEF Reconcile, Refusal, Errors
<1>9. ASSUME NEW c \in Clients, Crash(c)
      PROVE  \A x \in Clients : Knows(x)'
  <2>1. Deciding(c) \in Decisions /\ Begin(c, Deciding(c), "idle", "none")
    BY <1>9 DEF Crash, Go, Context, CallsOK
  <2> QED
    BY <2>1, KnowledgeStep
<1> QED
  BY <1>1, <1>2, <1>3, <1>4, <1>5, <1>6, <1>7, <1>8, <1>9 DEF Next, Proceed

-----------------------------------------------------------------------------
(* The tables: only the data transaction writes decisions and receipts.     *)

LEMMA TablesStep ==
    ASSUME Context, Next
    PROVE  RowsKeyed' /\ DataAndReceiptTogether'
<1>1. CASE stored' = stored /\ receipts' = receipts
  BY <1>1 DEF Context, StoreInv, RowsKeyed, DataAndReceiptTogether
<1>2. ASSUME NEW c \in Clients, StoreDecision(c)
      PROVE  RowsKeyed' /\ DataAndReceiptTogether'
  <2>1. PICK d \in Decisions : d = Deciding(c)
    BY <1>2 DEF StoreDecision, At, Idle, Context, CallsOK
  <2>2. d.id \in Validations /\ d.id \in RunIds /\ d # Null
    BY DecisionFields DEF RunIds
  <2>3. stored' = [stored EXCEPT ![d.id] = d] /\ (stored[d.id] = Null \/ stored[d.id] = d)
    BY <1>2, <2>1 DEF StoreDecision, DecisionAccepted
  <2>4. PICK n \in {0, 1} : L!RecordReceipt(UserOf[c], d.id, Evidence(d, n))
    BY <1>2, <2>1 DEF StoreDecision
  <2>5. Evidence(d, n) # Null /\ Evidence(d, n).content = d
    <3>1. Evidence(d, n) \in L!Receipt
      BY Arguments, <1>2
    <3> QED
      BY <3>1, RowsAreValues DEF Evidence
  <2>6. RowsKeyed'
    BY <2>2, <2>3 DEF Context, StoreInv, CallsOK, RowsKeyed
  <2>7. receipts \in [RunIds -> L!Receipt \cup {Null}]
    BY DEF Context, LedgerFacts, L!TypeOK
  <2>8. receipts'[d.id] # Null /\ receipts'[d.id].content = d
    BY <2>2, <2>3, <2>4, <2>5, <2>7
       DEF L!RecordReceipt, Context, StoreInv, DataAndReceiptTogether
  <2>9. \A v \in Validations \ {d.id} : receipts'[v] = receipts[v] /\ stored'[v] = stored[v]
    BY <2>2, <2>3, <2>4, <2>7 DEF L!RecordReceipt, RunIds, Context, CallsOK
  <2>10. stored'[d.id] = d
    BY <2>2, <2>3 DEF Context, CallsOK
  <2> QED
    BY <2>2, <2>6, <2>8, <2>9, <2>10 DEF Context, StoreInv, DataAndReceiptTogether
<1>3. (stored' = stored /\ receipts' = receipts) \/ \E c \in Clients : StoreDecision(c)
  BY DEF Next, Proceed, Lookup, LoadRecord, ReadAudit, OpenRun, RunRefused, DecisionRefused,
         CloseRun, CloseRefused, Rollback, Crash, Reconcile,
         L!StartRun, L!FinishRun, L!Reconcile
<1> QED
  BY <1>1, <1>2, <1>3

\* A validation's run becomes succeeded only by the finish of a client whose
\* decision is stored, or by a reconciliation that found its receipt.
LEMMA SucceededStep ==
    ASSUME Context, DecisionsKept, LedgerKeeps, Next
    PROVE  SucceededHasEvidence'
<1> SUFFICES ASSUME NEW v \in Validations, L!Exists(v)', runs'[v].status = "succeeded"
             PROVE  stored'[v] # Null /\ receipts'[v] # Null
  BY DEF SucceededHasEvidence
<1>0. v \in RunIds /\ runs \in [RunIds -> L!Run \cup {Null}]
  BY DEF RunIds, Context, LedgerFacts, L!TypeOK
<1>1. ASSUME stored[v] # Null \/ receipts[v] # Null
      PROVE  stored'[v] # Null /\ receipts'[v] # Null
  BY <1>0, <1>1 DEF Context, StoreInv, DataAndReceiptTogether, DecisionsKept, LedgerKeeps
<1>2. CASE runs'[v] = runs[v]
  BY <1>1, <1>2 DEF Context, StoreInv, SucceededHasEvidence, L!Exists
<1>3. ASSUME NEW c \in Clients, OpenRun(c)
      PROVE  runs'[v] = runs[v]
  BY <1>0, <1>3 DEF OpenRun, L!StartRun, L!NewRun
<1>4. ASSUME NEW c \in Clients, CloseRun(c), runs'[v] # runs[v]
      PROVE  stored[v] # Null
  <2>1. PICK d \in Decisions : d = Deciding(c)
    BY <1>4 DEF CloseRun, At, Idle, Context, CallsOK
  <2>2. v = d.id /\ runs'[v] = L!Closed(v, Closing(c)) /\ runs[v] \in L!Run
    BY <1>0, <1>4, <2>1 DEF CloseRun, L!FinishRun, L!FinishAccepted, L!Owns, L!Exists
  <2>3. L!Closed(v, Closing(c)).status = Closing(c).status
    BY <2>2 DEF L!Closed, L!Run
  <2>4. At(c, "succeed")
    BY <1>4, <2>2, <2>3 DEF Closing, CloseRun
  <2> QED
    BY <2>1, <2>2, <2>4, DecisionFields DEF Context, StoreInv, Knows
<1>5. ASSUME NEW c \in Clients, NEW d \in Decisions, Reconcile(c, d), runs'[v] # runs[v]
      PROVE  receipts[v] # Null
  <2>1. L!Reconcile(UserOf[c], d.id, ReconciliationId(d), Claim(d))
    BY <1>5 DEF Reconcile
  <2>2. v # ReconciliationId(d) /\ receipts[d.id] # Null
    BY <2>1, PersistenceConstants DEF L!Reconcile, L!ReconcileAccepted, L!EvidenceMatches
  <2>3. v = d.id
    BY <1>0, <1>5, <2>1, <2>2 DEF L!Reconcile
  <2> QED
    BY <2>2, <2>3
<1> QED
  BY <1>1, <1>2, <1>3, <1>4, <1>5
     DEF Next, Proceed, Lookup, LoadRecord, ReadAudit, RunRefused, StoreDecision,
         DecisionRefused, CloseRefused, Rollback, Crash, L!RecordReceipt

-----------------------------------------------------------------------------
LEMMA StoreInvariant == Spec => []StoreInv
<1>1. Init => StoreInv
  BY DEF Init, L!Init, StoreInv, RowsKeyed, DataAndReceiptTogether, SucceededHasEvidence,
         Knows, At, Idle, L!Exists, RunIds
<1>2. CallsOK /\ LedgerFacts /\ StoreInv /\ [Next]_vars /\ [LedgerKeeps]_<<runs, receipts>>
        => StoreInv'
  <2> SUFFICES ASSUME Context, [Next]_vars, [LedgerKeeps]_<<runs, receipts>>
               PROVE  StoreInv'
    BY DEF Context
  <2>1. CASE UNCHANGED vars
    BY <2>1 DEF vars, Context, StoreInv, RowsKeyed, DataAndReceiptTogether,
       SucceededHasEvidence, Knows, Deciding, At, Idle, Audited, L!Exists
  <2>2. CASE Next
    <3>1. DecisionsKept
      BY <2>2, StoredStays DEF Context
    <3>2. LedgerKeeps
      BY DEF LedgerKeeps, Audited, L!Exists
    <3> QED
      BY <2>2, <3>1, <3>2, KnowsStep, TablesStep, SucceededStep DEF StoreInv
  <2> QED
    BY <2>1, <2>2
<1> QED
  BY <1>1, <1>2, CallsInvariant, LedgerInvariant, LedgerStepsKeep, PTL DEF Spec

\* No client is ever told that a decision is confirmed which is not in the
\* database as submitted, with a succeeded run and its receipt.
THEOREM ConfirmationsAreDurable == Spec => []ConfirmedIsDurable
<1>1. StoreInv => ConfirmedIsDurable
  BY DEF StoreInv, Knows, ConfirmedIsDurable
<1> QED
  BY <1>1, StoreInvariant, PTL

\* A swallowed audit failure is only ever reported about a stored decision.
THEOREM PendingRepliesAreStored == Spec => []PendingIsStored
<1>1. StoreInv => PendingIsStored
  BY DEF StoreInv, Knows, PendingIsStored
<1> QED
  BY <1>1, StoreInvariant, PTL

\* No failure, crash or rival separates a decision from its receipt.
THEOREM DataAndReceiptAreAtomic == Spec => []DataAndReceiptTogether
<1>1. StoreInv => DataAndReceiptTogether
  BY DEF StoreInv
<1> QED
  BY <1>1, StoreInvariant, PTL

\* A review run that says succeeded has its decision.
THEOREM SuccessHasEvidence == Spec => []SucceededHasEvidence
<1>1. StoreInv => SucceededHasEvidence
  BY DEF StoreInv
<1> QED
  BY <1>1, StoreInvariant, PTL

\* A reply never says more than the database holds.
THEOREM RepliesKept == Spec => []RepliesAreKept
<1>1. ConfirmedIsDurable /\ PendingIsStored => RepliesAreKept
  BY DEF RepliesAreKept
<1> QED
  BY <1>1, ConfirmationsAreDurable, PendingRepliesAreStored, PTL

\* Neither a receipt nor a success stands without its decision.
THEOREM EvidenceWhole == Spec => []EvidenceIsWhole
<1>1. DataAndReceiptTogether /\ SucceededHasEvidence => EvidenceIsWhole
  BY DEF EvidenceIsWhole
<1> QED
  BY <1>1, DataAndReceiptAreAtomic, SuccessHasEvidence, PTL
=============================================================================
