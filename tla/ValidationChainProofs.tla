------------------------- MODULE ValidationChainProofs -------------------------
(***************************************************************************)
(* Proofs about ValidationChain for any number of transactions, decisions   *)
(* and predictions: the two advisory locks are enough, and the committed     *)
(* decisions implement DecisionHistory.  ChainInv is inductive: what a        *)
(* transaction has read stays so while it holds its locks, and the committed   *)
(* decisions on a prediction have one order in which each supersedes the one   *)
(* before it.                                                               *)
(***************************************************************************)
EXTENDS ValidationChain, FiniteSetTheorems, SequenceTheorems, TLAPS

\* The points at which a transaction holds its first lock, and its second.
PastPrediction == {"known", "root", "parent", "successor", "insert", "written"}
PastId == {"lockprediction"} \cup PastPrediction

ChainIsTyped ==
    /\ table \in [Validations -> Decisions \cup {Null}]
    /\ DOMAIN tx = Transactions /\ DOMAIN lock = Locks
    /\ \A v \in Validations : table[v] # Null => table[v].id = v
    /\ \A t \in Transactions :
        /\ DOMAIN tx[t] = {"at", "decision", "wrote"}
        /\ ~At(t, "none") => Row(t) \in Decisions
        /\ tx[t].wrote => At(t, "written")

LocksAreHeld ==
    \A t \in Transactions :
        /\ tx[t].at \in PastId => lock[<<"id", Row(t).id>>] = t
        /\ tx[t].at \in PastPrediction => lock[<<"prediction", Row(t).prediction>>] = t

\* The decision of a transaction may follow those that are committed.
Follows(t) ==
    /\ table[Row(t).id] = Null
    /\ Row(t).supersedes = Null => RowsFor(Row(t).prediction) = {}
    /\ Row(t).supersedes # Null =>
          /\ Row(t).supersedes \in RowsFor(Row(t).prediction)
          /\ SuccessorsOf(Row(t).supersedes) = {}

\* What the queries of a transaction have found is still so.
ReadingsHold(t) ==
    /\ tx[t].at \in {"root", "parent", "successor"} => table[Row(t).id] = Null
    /\ At(t, "root") => Row(t).supersedes = Null
    /\ tx[t].at \in {"parent", "successor"} => Row(t).supersedes # Null
    /\ At(t, "successor") => Row(t).supersedes \in RowsFor(Row(t).prediction)
    /\ (At(t, "insert") /\ table[Row(t).id] = Null) \/ tx[t].wrote => Follows(t)

\* A decision supersedes a committed decision on the same prediction.
ParentsAreThere ==
    \A v \in Validations :
        table[v] # Null /\ table[v].supersedes # Null =>
            table[v].supersedes \in RowsFor(table[v].prediction)

\* The committed decisions on a prediction have one order, and all are in it.
CommittedFor(p) == {table[v] : v \in RowsFor(p)}
IsHistory(s, S) ==
    /\ IsFiniteSet(S)
    /\ Chains(S) = {s}
    /\ \A e \in S : \E i \in DOMAIN s : s[i] = e

HistoriesAreLinear == \A p \in Predictions : \E s : IsHistory(s, CommittedFor(p))

ChainInv ==
    /\ ChainIsTyped
    /\ LocksAreHeld
    /\ \A t \in Transactions : ReadingsHold(t)
    /\ ParentsAreThere
    /\ HistoriesAreLinear
-----------------------------------------------------------------------------
(* How a history grows.                                                     *)

\* The decision in force, as Current of DecisionHistory has it.
Last(s) == IF s = <<>> THEN Null ELSE s[Len(s)].id

LEMMA HistoryIsSequence ==
  ASSUME NEW S, NEW s, IsHistory(s, S)
  PROVE  /\ Cardinality(S) \in Nat
         /\ s \in [1 .. Cardinality(S) -> S]
         /\ s \in Seq(S) /\ Len(s) = Cardinality(S)
         /\ \A i \in 1 .. Cardinality(S) :
                s[i].supersedes = IF i = 1 THEN Null ELSE s[i - 1].id
<1>1. Cardinality(S) \in Nat
  BY FS_CardinalityType DEF IsHistory
<1>2. s \in Chains(S)
  BY DEF IsHistory
<1>3. /\ s \in [1 .. Cardinality(S) -> S]
      /\ \A i \in DOMAIN s : s[i].supersedes = IF i = 1 THEN Null ELSE s[i - 1].id
  BY <1>2 DEF Chains
<1>4. s \in Seq(S)
  BY <1>1, <1>3, SeqDef
<1>5. Len(s) = Cardinality(S)
  BY <1>1, <1>3, <1>4, LenProperties
<1> QED
  BY <1>1, <1>3, <1>4, <1>5

LEMMA ChainIsHistory ==
  ASSUME NEW S, NEW s, IsHistory(s, S)
  PROVE  Chain(S) = s
  BY DEF IsHistory, Chain

LEMMA NoHistory == IsHistory(<<>>, {})
<1>1. IsFiniteSet({}) /\ Cardinality({}) = 0
  BY FS_EmptySet
<1>2. ASSUME NEW s \in Chains({}) PROVE s = <<>>
  <2>1. s \in [1 .. 0 -> {}]
    BY <1>1, <1>2 DEF Chains
  <2>2. s \in Seq({})
    BY <2>1, SeqDef
  <2>3. Len(s) = 0
    BY <2>1, <2>2, LenProperties
  <2> QED
    BY <2>2, <2>3, EmptySeq
<1>3. <<>> \in Chains({})
  <2>1. <<>> \in [1 .. 0 -> {}]
    BY EmptySeq, LenProperties
  <2>2. DOMAIN <<>> = {}
    BY <2>1
  <2> QED
    BY <1>1, <2>1, <2>2 DEF Chains
<1> QED
  BY <1>1, <1>2, <1>3 DEF IsHistory

\* A decision that supersedes the last one, and that no other supersedes, comes
\* next, and nothing else does.
LEMMA HistoryGrows ==
  ASSUME NEW S, NEW s, IsHistory(s, S), NEW d,
         d \notin S, d.supersedes = Last(s),
         d.supersedes # d.id, \A e \in S : e.supersedes # d.id,
         \A e \in S : e.supersedes # Last(s)
  PROVE  IsHistory(Append(s, d), S \cup {d})
<1> DEFINE n == Cardinality(S)
           T == S \cup {d}
           a == Append(s, d)
<1>1. /\ n \in Nat /\ s \in [1 .. n -> S] /\ s \in Seq(S) /\ Len(s) = n
      /\ \A i \in 1 .. n : s[i].supersedes = IF i = 1 THEN Null ELSE s[i - 1].id
  BY HistoryIsSequence
<1>2. IsFiniteSet(T) /\ Cardinality(T) = n + 1
  BY FS_AddElement DEF IsHistory
<1>3. Last(s) = IF n = 0 THEN Null ELSE s[n].id
  BY <1>1, EmptySeq DEF Last
<1>4. /\ a \in Seq(T) /\ Len(a) = n + 1 /\ DOMAIN a = 1 .. n + 1
      /\ \A i \in 1 .. n : a[i] = s[i]
      /\ a[n + 1] = d
  <2>1. s \in Seq(T)
    BY <1>1, SeqMonotonic
  <2>2. /\ a \in Seq(T) /\ Len(a) = n + 1
        /\ \A i \in 1 .. n : a[i] = s[i]
        /\ a[n + 1] = d
    BY <1>1, <2>1, AppendProperties
  <2> QED
    BY <2>2, LenProperties
<1> HIDE DEF n, T, a
<1>5. a \in Chains(T)
  <2>1. a \in [1 .. n + 1 -> T]
    BY <1>4, LenProperties
  <2>2. ASSUME NEW i \in 1 .. n + 1
        PROVE  a[i].supersedes = IF i = 1 THEN Null ELSE a[i - 1].id
    <3>1. CASE i \in 1 .. n
      <4>1. a[i] = s[i] /\ (i # 1 => a[i - 1] = s[i - 1])
        BY <1>1, <1>4, <3>1
      <4> QED
        BY <1>1, <3>1, <4>1
    <3>2. CASE i = n + 1
      <4>1. a[i] = d /\ (i # 1 => a[i - 1] = s[n] /\ n # 0)
        BY <1>1, <1>4, <3>2
      <4>2. i = 1 <=> n = 0
        BY <1>1, <3>2
      <4> QED
        BY <1>3, <4>1, <4>2
    <3> QED
      BY <1>1, <3>1, <3>2
  <2> QED
    BY <1>2, <2>1, <2>2 DEF Chains
<1>6. ASSUME NEW b \in Chains(T) PROVE b = a
  <2>1. /\ b \in [1 .. n + 1 -> T]
        /\ \A i \in 1 .. n + 1 : b[i].supersedes = IF i = 1 THEN Null ELSE b[i - 1].id
    BY <1>2, <1>6 DEF Chains
  <2>2. \A e \in T : e.supersedes # d.id
    BY DEF T
  <2>3. \A i \in 1 .. n : b[i] \in S
    <3> SUFFICES ASSUME NEW i \in 1 .. n PROVE b[i] \in S
      OBVIOUS
    <3>1. i + 1 \in 1 .. n + 1 /\ i + 1 # 1 /\ (i + 1) - 1 = i /\ i \in 1 .. n + 1
      BY <1>1
    <3>2. b[i + 1].supersedes = b[i].id /\ b[i + 1] \in T
      BY <2>1, <3>1
    <3>3. b[i] # d /\ b[i] \in T
      BY <2>1, <2>2, <3>1, <3>2
    <3> QED
      BY <3>3 DEF T
  <2> DEFINE r == [i \in 1 .. n |-> b[i]]
  <2>4. r \in Chains(S)
    <3>1. r \in [1 .. n -> S]
      BY <2>3
    <3>2. ASSUME NEW i \in 1 .. n
          PROVE  r[i].supersedes = IF i = 1 THEN Null ELSE r[i - 1].id
      <4>1. i \in 1 .. n + 1 /\ (i # 1 => i - 1 \in 1 .. n)
        BY <1>1
      <4> QED
        BY <2>1, <4>1
    <3> HIDE DEF r
    <3> QED
      BY <3>1, <3>2 DEF Chains, n
  <2>5. \A i \in 1 .. n : b[i] = s[i]
    <3>1. r = s
      BY <2>4 DEF IsHistory
    <3> QED
      BY <3>1
  <2>6. b[n + 1] = d
    <3>1. n + 1 \in 1 .. n + 1 /\ (n = 0 <=> n + 1 = 1) /\ (n + 1) - 1 = n /\ (n # 0 => n \in 1 .. n)
      BY <1>1
    <3>2. b[n + 1] \in T /\ b[n + 1].supersedes = Last(s)
      BY <1>3, <2>1, <2>5, <3>1
    <3> QED
      BY <3>2 DEF T
  <2>7. \A i \in 1 .. n + 1 : b[i] = a[i]
    BY <1>1, <1>4, <2>5, <2>6
  <2>8. b \in Seq(T)
    <3>1. n + 1 \in Nat
      BY <1>1
    <3> QED
      BY <2>1, <3>1, SeqDef
  <2>9. Len(b) = n + 1
    BY <1>1, <2>1, <2>8, LenProperties
  <2> QED
    BY <1>4, <2>7, <2>8, <2>9, SeqEqual
<1>7. ASSUME NEW e \in T PROVE \E i \in DOMAIN a : a[i] = e
  <2>1. CASE e \in S
    <3>1. PICK i \in DOMAIN s : s[i] = e
      BY <2>1 DEF IsHistory
    <3>2. i \in 1 .. n /\ i \in 1 .. n + 1
      BY <1>1, <3>1
    <3> QED
      BY <1>4, <3>1, <3>2
  <2>2. CASE e = d
    BY <1>1, <1>4, <2>2
  <2> QED
    BY <1>7, <2>1, <2>2 DEF T
<1>8. Chains(T) = {a}
  BY <1>5, <1>6
<1> QED
  BY <1>2, <1>7, <1>8 DEF IsHistory, T, a

\* The decision that nothing supersedes is the last one.
LEMMA LastOfHistory ==
  ASSUME NEW S, NEW s, IsHistory(s, S), NEW e \in S, \A f \in S : f.supersedes # e.id
  PROVE  Last(s) = e.id
<1>1. /\ Cardinality(S) \in Nat /\ s \in [1 .. Cardinality(S) -> S] /\ Len(s) = Cardinality(S)
      /\ \A i \in 1 .. Cardinality(S) :
             s[i].supersedes = IF i = 1 THEN Null ELSE s[i - 1].id
      /\ s \in Seq(S)
  BY HistoryIsSequence
<1> DEFINE n == Cardinality(S)
<1> HIDE DEF n
<1>2. PICK i \in 1 .. n : s[i] = e
  BY <1>1 DEF IsHistory, n
<1>3. ~(i < n)
  <2> SUFFICES ASSUME i < n PROVE FALSE
    OBVIOUS
  <2>1. i + 1 \in 1 .. n /\ i + 1 # 1 /\ (i + 1) - 1 = i
    BY <1>1, <1>2 DEF n
  <2>2. s[i + 1].supersedes = e.id /\ s[i + 1] \in S
    BY <1>1, <1>2, <2>1 DEF n
  <2> QED
    BY <2>2
<1>4. i = n /\ s # <<>>
  BY <1>1, <1>2, <1>3, EmptySeq DEF n
<1> QED
  BY <1>1, <1>2, <1>4 DEF Last, n
-----------------------------------------------------------------------------
(* The locks.                                                               *)

LEMMA Fields ==
  ASSUME NEW d \in Decisions
  PROVE  /\ d.id \in Validations /\ d.id # Null /\ d.prediction \in Predictions
         /\ d # Null
         /\ <<"id", d.id>> \in Locks /\ <<"prediction", d.prediction>> \in Locks
  BY ChainConstants DEF Decision, Locks

\* Two transactions past their locks decide under different UUIDs, and on
\* different predictions.
LEMMA LocksExclude ==
  ASSUME LocksAreHeld, NEW t \in Transactions, NEW u \in Transactions, t # u
  PROVE  /\ tx[t].at \in PastId /\ tx[u].at \in PastId => Row(t).id # Row(u).id
         /\ tx[t].at \in PastPrediction /\ tx[u].at \in PastPrediction =>
                Row(t).prediction # Row(u).prediction
  BY DEF LocksAreHeld

\* The ways a transaction moves.
LEMMA Moves ==
  ASSUME ChainIsTyped, NEW t \in Transactions
  PROVE  /\ \A point : Continue(t, point) =>
                /\ DOMAIN tx' = Transactions /\ \A u \in Transactions \ {t} : tx'[u] = tx[u]
                /\ DOMAIN tx'[t] = {"at", "decision", "wrote"}
                /\ tx'[t].at = point /\ tx'[t].decision = tx[t].decision
                /\ tx'[t].wrote = tx[t].wrote
         /\ End(t) =>
                /\ DOMAIN tx' = Transactions /\ \A u \in Transactions \ {t} : tx'[u] = tx[u]
                /\ DOMAIN tx'[t] = {"at", "decision", "wrote"}
                /\ tx'[t].at = "none" /\ ~tx'[t].wrote
                /\ DOMAIN lock' = Locks
                /\ \A k \in Locks : lock[k] # t => lock'[k] = lock[k]
<1>1. ASSUME NEW point, Continue(t, point)
      PROVE  /\ DOMAIN tx' = Transactions /\ \A u \in Transactions \ {t} : tx'[u] = tx[u]
             /\ DOMAIN tx'[t] = {"at", "decision", "wrote"}
             /\ tx'[t].at = point /\ tx'[t].decision = tx[t].decision
             /\ tx'[t].wrote = tx[t].wrote
  BY <1>1 DEF ChainIsTyped, Continue
<1>2. ASSUME End(t)
      PROVE  /\ DOMAIN tx' = Transactions /\ \A u \in Transactions \ {t} : tx'[u] = tx[u]
             /\ DOMAIN tx'[t] = {"at", "decision", "wrote"}
             /\ tx'[t].at = "none" /\ ~tx'[t].wrote
             /\ DOMAIN lock' = Locks
             /\ \A k \in Locks : lock[k] # t => lock'[k] = lock[k]
  <2>1. DOMAIN Nothing = {"at", "decision", "wrote"} /\ Nothing.at = "none"
    BY DEF Nothing
  <2>2. ~Nothing.wrote
    BY DEF Nothing
  <2>3. tx' = [tx EXCEPT ![t] = Nothing] /\ lock' = [k \in Locks |-> IF lock[k] = t THEN Null ELSE lock[k]]
    BY <1>2 DEF End
  <2>4. DOMAIN tx' = Transactions /\ tx'[t] = Nothing /\ \A u \in Transactions \ {t} : tx'[u] = tx[u]
    BY <2>3 DEF ChainIsTyped
  <2> QED
    BY <2>1, <2>2, <2>3, <2>4
<1> QED
  BY <1>1, <1>2

\* A step of one transaction: the others keep their locks and their decision.
OwnStep(t) ==
    /\ DOMAIN tx' = Transactions /\ DOMAIN lock' = Locks
    /\ \A u \in Transactions \ {t} : tx'[u] = tx[u]
    /\ \A k \in Locks : lock[k] \notin {Null, t} => lock'[k] = lock[k]

LEMMA OthersKeepLocks ==
  ASSUME ChainIsTyped, LocksAreHeld, NEW t \in Transactions, OwnStep(t), NEW u \in Transactions \ {t}
  PROVE  /\ tx'[u].at \in PastId => lock'[<<"id", Row(u)'.id>>] = u
         /\ tx'[u].at \in PastPrediction => lock'[<<"prediction", Row(u)'.prediction>>] = u
<1>1. u # Null
  BY ChainConstants
<1>2. tx[u].at \in PastId \cup PastPrediction => Row(u) \in Decisions
  BY DEF ChainIsTyped, At, PastId, PastPrediction
<1>3. tx[u].at \in PastId \cup PastPrediction =>
          <<"id", Row(u).id>> \in Locks /\ <<"prediction", Row(u).prediction>> \in Locks
  BY <1>2, Fields
<1>4. tx'[u] = tx[u] /\ Row(u)' = Row(u)
  BY DEF OwnStep, Row
<1> QED
  BY <1>1, <1>3, <1>4 DEF LocksAreHeld, OwnStep

\* While the table stays, what the others have read holds.
LEMMA QuietStep ==
  ASSUME ChainInv, NEW t \in Transactions, OwnStep(t), UNCHANGED table,
         DOMAIN tx'[t] = {"at", "decision", "wrote"},
         ~At(t, "none")' => Row(t)' \in Decisions,
         tx'[t].wrote => At(t, "written")',
         tx'[t].at \in PastId => lock'[<<"id", Row(t)'.id>>] = t,
         tx'[t].at \in PastPrediction => lock'[<<"prediction", Row(t)'.prediction>>] = t,
         ReadingsHold(t)'
  PROVE  ChainInv'
<1>1. ChainIsTyped'
  <2>1. \A u \in Transactions \ {t} : tx'[u] = tx[u] /\ Row(u)' = Row(u)
    BY DEF OwnStep, Row
  <2> QED
    BY <2>1 DEF ChainInv, ChainIsTyped, OwnStep, At
<1>2. LocksAreHeld'
  BY OthersKeepLocks DEF ChainInv, LocksAreHeld
<1>3. ASSUME NEW u \in Transactions \ {t} PROVE ReadingsHold(u)'
  <2>1. tx'[u] = tx[u] /\ Row(u)' = Row(u) /\ ReadingsHold(u)
    BY DEF OwnStep, Row, ChainInv
  <2> QED
    BY <2>1 DEF ReadingsHold, Follows, At, RowsFor, SuccessorsOf
<1>4. ParentsAreThere' /\ HistoriesAreLinear'
  BY DEF ChainInv, ParentsAreThere, HistoriesAreLinear, CommittedFor, RowsFor
<1> QED
  BY <1>1, <1>2, <1>3, <1>4 DEF ChainInv

\* A transaction that ends without a commit.
LEMMA EndKeeps ==
  ASSUME ChainInv, NEW t \in Transactions, End(t), UNCHANGED table
  PROVE  ChainInv'
<1>1. /\ DOMAIN tx'[t] = {"at", "decision", "wrote"}
      /\ tx'[t].at = "none" /\ ~tx'[t].wrote
      /\ OwnStep(t)
  BY Moves DEF ChainInv, OwnStep
<1>2. ReadingsHold(t)'
  BY <1>1 DEF ReadingsHold, At
<1> QED
  BY <1>1, <1>2, QuietStep DEF At, PastId, PastPrediction
-----------------------------------------------------------------------------
(* The statements up to the insert.                                         *)

LEMMA StatementsKeep ==
  ASSUME ChainInv, NEW t \in Transactions,
         \/ \E d \in Decisions : Begin(t, d)
         \/ LockValidationId(t) \/ LockPrediction(t) \/ FindId(t)
         \/ FindRoot(t) \/ FindParent(t) \/ FindSuccessor(t)
  PROVE  ChainInv'
<1>t. ChainIsTyped /\ LocksAreHeld /\ ReadingsHold(t)
  BY DEF ChainInv
<1>r. ~At(t, "none") => Row(t) \in Decisions
  BY <1>t DEF ChainIsTyped
\* A query that lets the transaction go on.
<1>q. ASSUME NEW point \in {"insert", "root", "parent", "successor"}, Continue(t, point),
             UNCHANGED <<table, lock>>,
             tx[t].at \in {"known", "root", "parent", "successor"},
             point \in {"root", "parent", "successor"} => table[Row(t).id] = Null,
             point = "root" => Row(t).supersedes = Null,
             point \in {"parent", "successor"} => Row(t).supersedes # Null,
             point = "successor" => Row(t).supersedes \in RowsFor(Row(t).prediction),
             point = "insert" /\ table[Row(t).id] = Null => Follows(t)
      PROVE  ChainInv'
  <2>1. /\ DOMAIN tx'[t] = {"at", "decision", "wrote"}
        /\ tx'[t].at = point /\ Row(t)' = Row(t) /\ tx'[t].wrote = tx[t].wrote
        /\ OwnStep(t)
    BY <1>q, <1>t, Moves DEF OwnStep, Row, ChainIsTyped
  <2>2. ~tx'[t].wrote /\ Row(t) \in Decisions
    BY <1>q, <1>t, <1>r, <2>1 DEF ChainIsTyped, At
  <2>3. ReadingsHold(t)'
    BY <1>q, <2>1, <2>2 DEF ReadingsHold, Follows, At, RowsFor, SuccessorsOf
  <2>4. lock[<<"id", Row(t).id>>] = t /\ lock[<<"prediction", Row(t).prediction>>] = t
    BY <1>q, <1>t DEF LocksAreHeld, PastId, PastPrediction
  <2> QED
    BY <1>q, <2>1, <2>2, <2>3, <2>4, QuietStep
<1>1. ASSUME NEW d \in Decisions, Begin(t, d) PROVE ChainInv'
  <2> DEFINE b == [Nothing EXCEPT !.at = "lockid", !.decision = d]
  <2>1. /\ DOMAIN b = {"at", "decision", "wrote"}
        /\ b.at = "lockid" /\ b.decision = d
    BY DEF Nothing
  <2>2. ~b.wrote
    BY DEF Nothing
  <2>3. tx' = [tx EXCEPT ![t] = b] /\ UNCHANGED <<table, lock>>
    BY <1>1 DEF Begin
  <2> HIDE DEF b
  <2>4. tx'[t] = b /\ OwnStep(t)
    BY <1>t, <2>3 DEF ChainIsTyped, OwnStep
  <2>5. ReadingsHold(t)'
    BY <2>1, <2>2, <2>4 DEF ReadingsHold, At
  <2> QED
    BY <2>1, <2>2, <2>3, <2>4, <2>5, QuietStep DEF At, Row, PastId, PastPrediction
<1>2. CASE LockValidationId(t)
  <2>1. /\ At(t, "lockid") /\ Take(t, <<"id", Row(t).id>>)
        /\ Continue(t, "lockprediction") /\ UNCHANGED table
    BY <1>2 DEF LockValidationId
  <2>2. /\ DOMAIN tx'[t] = {"at", "decision", "wrote"}
        /\ tx'[t].at = "lockprediction" /\ Row(t)' = Row(t) /\ tx'[t].wrote = tx[t].wrote
        /\ DOMAIN tx' = Transactions /\ \A u \in Transactions \ {t} : tx'[u] = tx[u]
    BY <1>t, <2>1, Moves DEF Row
  <2>3. ~tx'[t].wrote /\ Row(t) \in Decisions
    BY <1>t, <1>r, <2>1, <2>2 DEF ChainIsTyped, At
  <2>4. <<"id", Row(t).id>> \in Locks
    BY <2>3, Fields
  <2>5. lock'[<<"id", Row(t).id>>] = t /\ OwnStep(t)
    BY <1>t, <2>1, <2>2, <2>4 DEF Take, OwnStep, ChainIsTyped
  <2>6. ReadingsHold(t)'
    BY <2>2, <2>3 DEF ReadingsHold, At
  <2> QED
    BY <2>1, <2>2, <2>3, <2>5, <2>6, QuietStep DEF PastPrediction
<1>3. CASE LockPrediction(t)
  <2>1. /\ At(t, "lockprediction") /\ Take(t, <<"prediction", Row(t).prediction>>)
        /\ Continue(t, "known") /\ UNCHANGED table
    BY <1>3 DEF LockPrediction
  <2>2. /\ DOMAIN tx'[t] = {"at", "decision", "wrote"}
        /\ tx'[t].at = "known" /\ Row(t)' = Row(t) /\ tx'[t].wrote = tx[t].wrote
        /\ DOMAIN tx' = Transactions /\ \A u \in Transactions \ {t} : tx'[u] = tx[u]
    BY <1>t, <2>1, Moves DEF Row
  <2>3. ~tx'[t].wrote /\ Row(t) \in Decisions
    BY <1>t, <1>r, <2>1, <2>2 DEF ChainIsTyped, At
  <2>4. <<"prediction", Row(t).prediction>> \in Locks
    BY <2>3, Fields
  <2>5. /\ lock'[<<"prediction", Row(t).prediction>>] = t /\ OwnStep(t)
        /\ lock'[<<"id", Row(t).id>>] = lock[<<"id", Row(t).id>>]
    <3>1. <<"prediction", Row(t).prediction>> # <<"id", Row(t).id>>
      OBVIOUS
    <3> QED
      BY <1>t, <2>1, <2>2, <2>4, <3>1 DEF Take, OwnStep, ChainIsTyped
  <2>6. lock[<<"id", Row(t).id>>] = t
    BY <1>t, <2>1 DEF LocksAreHeld, At, PastId
  <2>7. ReadingsHold(t)'
    BY <2>2, <2>3 DEF ReadingsHold, At
  <2> QED
    BY <2>1, <2>2, <2>3, <2>5, <2>6, <2>7, QuietStep
<1>4. CASE FindId(t)
  <2>1. At(t, "known") /\ UNCHANGED <<table, lock>>
    BY <1>4 DEF FindId
  <2>2. CASE table[Row(t).id] # Null
    BY <1>4, <1>q, <2>1, <2>2 DEF FindId, At
  <2>3. CASE table[Row(t).id] = Null /\ Row(t).supersedes = Null
    BY <1>4, <1>q, <2>1, <2>3 DEF FindId, At
  <2>4. CASE table[Row(t).id] = Null /\ Row(t).supersedes # Null
    BY <1>4, <1>q, <2>1, <2>4 DEF FindId, At
  <2> QED
    BY <2>2, <2>3, <2>4
<1>5. CASE FindRoot(t)
  <2>1. /\ At(t, "root") /\ table[Row(t).id] = Null /\ Row(t).supersedes = Null
    BY <1>5, <1>t DEF FindRoot, ReadingsHold, At
  <2>2. CASE /\ RowsFor(Row(t).prediction) = {} /\ Continue(t, "insert")
             /\ UNCHANGED <<table, lock>>
    BY <1>q, <2>1, <2>2 DEF At, Follows
  <2> QED
    BY <1>5, <2>2, EndKeeps DEF FindRoot, Raise
<1>6. CASE FindParent(t)
  <2>1. /\ At(t, "parent") /\ table[Row(t).id] = Null /\ Row(t).supersedes # Null
    BY <1>6, <1>t DEF FindParent, ReadingsHold, At
  <2>2. CASE /\ Row(t).supersedes \in RowsFor(Row(t).prediction) /\ Continue(t, "successor")
             /\ UNCHANGED <<table, lock>>
    BY <1>q, <2>1, <2>2 DEF At
  <2> QED
    BY <1>6, <2>2, EndKeeps DEF FindParent, Raise
<1>7. CASE FindSuccessor(t)
  <2>1. /\ At(t, "successor") /\ table[Row(t).id] = Null /\ Row(t).supersedes # Null
        /\ Row(t).supersedes \in RowsFor(Row(t).prediction)
    BY <1>7, <1>t DEF FindSuccessor, ReadingsHold, At
  <2>2. CASE /\ SuccessorsOf(Row(t).supersedes) = {} /\ Continue(t, "insert")
             /\ UNCHANGED <<table, lock>>
    BY <1>q, <2>1, <2>2 DEF At, Follows
  <2> QED
    BY <1>7, <2>2, EndKeeps DEF FindSuccessor, Raise
<1> QED
  BY <1>1, <1>2, <1>3, <1>4, <1>5, <1>6, <1>7

LEMMA InsertKeeps ==
  ASSUME ChainInv, NEW t \in Transactions, Insert(t)
  PROVE  ChainInv'
<1>1. /\ At(t, "insert") /\ Row(t) \in Decisions /\ ~tx[t].wrote
      /\ lock[<<"id", Row(t).id>>] = t /\ lock[<<"prediction", Row(t).prediction>>] = t
  BY DEF Insert, ChainInv, ChainIsTyped, LocksAreHeld, At, PastId, PastPrediction
<1>2. CASE table[Row(t).id] # Null /\ Continue(t, "written") /\ UNCHANGED <<table, lock>>
  <2>1. /\ DOMAIN tx'[t] = {"at", "decision", "wrote"}
        /\ tx'[t].at = "written" /\ Row(t)' = Row(t) /\ tx'[t].wrote = tx[t].wrote
        /\ OwnStep(t)
    BY <1>2, Moves DEF ChainInv, OwnStep, Row, ChainIsTyped
  <2>2. ReadingsHold(t)'
    BY <1>1, <2>1 DEF ReadingsHold, At
  <2> QED
    BY <1>1, <1>2, <2>1, <2>2, QuietStep DEF At
<1>3. CASE /\ table[Row(t).id] = Null
           /\ tx' = [tx EXCEPT ![t].at = "written", ![t].wrote = TRUE]
           /\ UNCHANGED <<table, lock>>
  <2>1. /\ DOMAIN tx'[t] = {"at", "decision", "wrote"}
        /\ tx'[t].at = "written" /\ Row(t)' = Row(t)
        /\ OwnStep(t)
    BY <1>3 DEF ChainInv, OwnStep, Row, ChainIsTyped
  <2>2. ReadingsHold(t)'
    BY <1>1, <1>3, <2>1 DEF ChainInv, ReadingsHold, Follows, At, RowsFor, SuccessorsOf
  <2> QED
    BY <1>1, <1>3, <2>1, <2>2, QuietStep DEF At
<1>4. CASE Raise(t)
  BY <1>4, EndKeeps DEF Raise
<1> QED
  BY <1>2, <1>3, <1>4 DEF Insert

-----------------------------------------------------------------------------
(* The commit.                                                              *)

\* The commit of a decision that was inserted: the history of its prediction
\* grows by it, and the others stay.
LEMMA CommitGrows ==
  ASSUME ChainInv, NEW t \in Transactions, Commit(t), tx[t].wrote,
         NEW d, d = Row(t), NEW p, p = d.prediction
  PROVE  /\ Follows(t)
         /\ CommittedFor(p)' = CommittedFor(p) \cup {d}
         /\ \A q \in Predictions \ {p} :
                RowsFor(q)' = RowsFor(q) /\ CommittedFor(q)' = CommittedFor(q)
         /\ \A s : IsHistory(s, CommittedFor(p)) =>
                d.supersedes = Last(s) /\ IsHistory(Append(s, d), CommittedFor(p) \cup {d})
<1>1. /\ At(t, "written") /\ d \in Decisions /\ Follows(t)
      /\ table' = [table EXCEPT ![d.id] = d]
  BY DEF Commit, ChainInv, ChainIsTyped, ReadingsHold, At
<1>2. /\ d.id \in Validations /\ d.id # Null /\ p \in Predictions /\ d # Null
  BY <1>1, Fields
<1>3. /\ table'[d.id] = d /\ \A v \in Validations \ {d.id} : table'[v] = table[v]
      /\ table[d.id] = Null
  BY <1>1, <1>2 DEF ChainInv, ChainIsTyped, Follows
<1>4. RowsFor(p)' = RowsFor(p) \cup {d.id}
  BY <1>2, <1>3 DEF RowsFor
<1>5. ASSUME NEW q \in Predictions \ {p} PROVE RowsFor(q)' = RowsFor(q)
  BY <1>2, <1>3 DEF RowsFor
<1>6. \A v \in Validations : v \in RowsFor(p) => v # d.id
  BY <1>3 DEF RowsFor
<1>7. CommittedFor(p)' = CommittedFor(p) \cup {d}
  BY <1>2, <1>3, <1>4, <1>6 DEF CommittedFor, RowsFor
<1>8. ASSUME NEW q \in Predictions \ {p} PROVE CommittedFor(q)' = CommittedFor(q)
  <2>1. \A v \in RowsFor(q) : v \in Validations /\ v # d.id
    BY <1>3 DEF RowsFor
  <2> QED
    BY <1>3, <1>5, <2>1 DEF CommittedFor
<1>9. \A e \in CommittedFor(p) :
          e.id \in Validations /\ table[e.id] = e /\ e.id \in RowsFor(p) /\ e # Null
  BY DEF CommittedFor, RowsFor, ChainInv, ChainIsTyped
<1>10. ASSUME NEW s, IsHistory(s, CommittedFor(p))
       PROVE  d.supersedes = Last(s) /\ IsHistory(Append(s, d), CommittedFor(p) \cup {d})
  <2>1. d \notin CommittedFor(p)
    BY <1>2, <1>3, <1>9
  <2>2. d.supersedes # d.id
    BY <1>1, <1>2, <1>3 DEF Follows, RowsFor
  <2>3. \A e \in CommittedFor(p) : e.supersedes # d.id
    BY <1>2, <1>3, <1>9 DEF ChainInv, ParentsAreThere, RowsFor
  <2>4. CASE d.supersedes = Null
    <3>1. CommittedFor(p) = {}
      BY <1>1, <2>4 DEF Follows, CommittedFor
    <3>2. s = <<>>
      <4>1. IsHistory(<<>>, {}) /\ IsHistory(s, {})
        BY <1>10, <3>1, NoHistory
      <4> QED
        BY <4>1 DEF IsHistory
    <3>3. Last(s) = Null
      BY <3>2 DEF Last
    <3> QED
      BY <1>10, <2>1, <2>2, <2>3, <2>4, <3>1, <3>3, HistoryGrows
  <2>5. CASE d.supersedes # Null
    <3> DEFINE w == d.supersedes
               e == table[w]
    <3>1. w \in RowsFor(p) /\ SuccessorsOf(w) = {}
      BY <1>1, <2>5 DEF Follows
    <3>2. e \in CommittedFor(p) /\ e.id = w
      BY <3>1 DEF CommittedFor, RowsFor, ChainInv, ChainIsTyped
    <3>3. \A f \in CommittedFor(p) : f.supersedes # w
      BY <1>9, <3>1 DEF SuccessorsOf
    <3> HIDE DEF e
    <3>4. Last(s) = w
      BY <1>10, <3>2, <3>3, LastOfHistory
    <3> QED
      BY <1>10, <2>1, <2>2, <2>3, <3>3, <3>4, HistoryGrows
  <2> QED
    BY <2>4, <2>5
<1> QED
  BY <1>1, <1>5, <1>7, <1>8, <1>10

LEMMA CommitKeeps ==
  ASSUME ChainInv, NEW t \in Transactions, Commit(t)
  PROVE  ChainInv'
<1> SUFFICES ASSUME NEW d, d = Row(t) PROVE ChainInv'
  OBVIOUS
<1>1. /\ At(t, "written") /\ d \in Decisions /\ End(t)
      /\ table' = [table EXCEPT ![d.id] = d]
  BY DEF Commit, ChainInv, ChainIsTyped, At
<1>2. /\ d.id \in Validations /\ d.id # Null /\ d.prediction \in Predictions /\ d # Null
  BY <1>1, Fields
<1>3. CASE table[d.id] = d
  <2>1. UNCHANGED table
    BY <1>1, <1>2, <1>3 DEF ChainInv, ChainIsTyped
  <2> QED
    BY <1>1, <2>1, EndKeeps
<1>4. CASE tx[t].wrote
  <2>1. /\ Follows(t)
        /\ CommittedFor(d.prediction)' = CommittedFor(d.prediction) \cup {d}
        /\ \A p \in Predictions \ {d.prediction} :
               RowsFor(p)' = RowsFor(p) /\ CommittedFor(p)' = CommittedFor(p)
        /\ \A s : IsHistory(s, CommittedFor(d.prediction)) =>
               IsHistory(Append(s, d), CommittedFor(d.prediction) \cup {d})
    BY <1>4, CommitGrows DEF Row
  <2>2. /\ table'[d.id] = d /\ \A v \in Validations \ {d.id} : table'[v] = table[v]
        /\ table[d.id] = Null
        /\ DOMAIN table' = Validations
    BY <1>1, <1>2, <2>1 DEF ChainInv, ChainIsTyped, Follows
  <2>3. /\ DOMAIN tx' = Transactions /\ \A u \in Transactions \ {t} : tx'[u] = tx[u]
        /\ DOMAIN tx'[t] = {"at", "decision", "wrote"}
        /\ tx'[t].at = "none" /\ ~tx'[t].wrote
        /\ OwnStep(t)
    BY <1>1, Moves DEF ChainInv, OwnStep
  <2>4. ChainIsTyped'
    <3>1. \A u \in Transactions \ {t} : Row(u)' = Row(u)
      BY <2>3 DEF Row
    <3>2. DOMAIN lock' = Locks
      BY <2>3 DEF OwnStep
    <3>3. /\ table' \in [Validations -> Decisions \cup {Null}]
          /\ \A v \in Validations : table'[v] # Null => table'[v].id = v
      BY <1>1, <2>2 DEF ChainInv, ChainIsTyped
    <3> QED
      BY <2>2, <2>3, <3>1, <3>2, <3>3 DEF ChainInv, ChainIsTyped, At
  <2>5. LocksAreHeld'
    BY <2>3, OthersKeepLocks DEF ChainInv, LocksAreHeld, PastId, PastPrediction
  <2>6. ASSUME NEW u \in Transactions PROVE ReadingsHold(u)'
    <3>1. CASE u = t
      BY <2>3, <3>1 DEF ReadingsHold, At
    <3>2. CASE u # t
      <4> SUFFICES ASSUME NEW e, e = Row(u) PROVE ReadingsHold(u)'
        OBVIOUS
      <4>1. tx'[u] = tx[u] /\ Row(u)' = e /\ ReadingsHold(u)
        BY <2>3, <3>2 DEF Row, ChainInv
      <4>2. CASE tx[u].at \in PastPrediction
        <5>1. e.id # d.id /\ e.prediction # d.prediction /\ e \in Decisions
          BY <1>1, <3>2, <4>2, LocksExclude DEF ChainInv, ChainIsTyped, At, PastId, PastPrediction
        <5>2. e.id \in Validations /\ e.prediction \in Predictions
          BY <5>1, Fields
        <5>3. table'[e.id] = table[e.id] /\ RowsFor(e.prediction)' = RowsFor(e.prediction)
          BY <2>1, <2>2, <5>1, <5>2
        <5>4. e.supersedes \in RowsFor(e.prediction) =>
                  SuccessorsOf(e.supersedes)' = SuccessorsOf(e.supersedes)
          <6>1. d.supersedes # Null => d.supersedes \in RowsFor(d.prediction)
            BY <2>1 DEF Follows
          <6>2. e.supersedes \in RowsFor(e.prediction) => d.supersedes # e.supersedes
            BY <5>1, <6>1, ChainConstants DEF RowsFor
          <6> QED
            BY <2>2, <6>2 DEF SuccessorsOf
        <5> QED
          BY <4>1, <5>3, <5>4 DEF ReadingsHold, Follows, At
      <4>3. CASE tx[u].at \notin PastPrediction
        BY <4>1, <4>3 DEF ReadingsHold, At, PastPrediction, ChainInv, ChainIsTyped
      <4> QED
        BY <4>2, <4>3
    <3> QED
      BY <3>1, <3>2
  <2>7. ParentsAreThere'
    <3> SUFFICES ASSUME NEW v \in Validations, NEW e, e = table'[v], e # Null, e.supersedes # Null,
                        NEW p, p = e.prediction
                 PROVE  e.supersedes \in RowsFor(p)'
      BY DEF ParentsAreThere, RowsFor
    <3>1. \A w \in RowsFor(p) : w \in RowsFor(p)'
      BY <2>2 DEF RowsFor
    <3>2. CASE v = d.id
      BY <2>1, <2>2, <3>1, <3>2 DEF Follows
    <3>3. CASE v # d.id
      BY <2>2, <3>1, <3>3 DEF ChainInv, ParentsAreThere
    <3> QED
      BY <3>2, <3>3
  <2>8. HistoriesAreLinear'
    <3>1. ASSUME NEW p \in Predictions PROVE \E s : IsHistory(s, CommittedFor(p)')
      <4>1. PICK s : IsHistory(s, CommittedFor(p))
        BY DEF ChainInv, HistoriesAreLinear
      <4>2. CASE p = d.prediction
        BY <2>1, <4>1, <4>2
      <4>3. CASE p # d.prediction
        BY <2>1, <4>1, <4>3
      <4> QED
        BY <4>2, <4>3
    <3> QED
      BY <3>1 DEF HistoriesAreLinear, IsHistory
  <2> QED
    BY <2>4, <2>5, <2>6, <2>7, <2>8 DEF ChainInv
<1> QED
  BY <1>3, <1>4 DEF Commit
-----------------------------------------------------------------------------
(* The theorems.                                                            *)

LEMMA InitIsSound ==
  ASSUME Init
  PROVE  ChainInv
<1>1. ChainIsTyped
  BY DEF Init, ChainIsTyped, Nothing, At
<1>2. \A t \in Transactions : tx[t].at = "none" /\ ~tx[t].wrote
  BY DEF Init, Nothing
<1>3. LocksAreHeld /\ \A t \in Transactions : ReadingsHold(t)
  BY <1>2 DEF LocksAreHeld, ReadingsHold, At, PastId, PastPrediction
<1>4. ParentsAreThere
  BY DEF Init, ParentsAreThere
<1>5. HistoriesAreLinear
  <2>1. \A p \in Predictions : CommittedFor(p) = {}
    BY DEF Init, CommittedFor, RowsFor
  <2> QED
    BY <2>1, NoHistory DEF HistoriesAreLinear
<1> QED
  BY <1>1, <1>3, <1>4, <1>5 DEF ChainInv

LEMMA StepKeepsInv ==
  ASSUME ChainInv, [Next]_vars
  PROVE  ChainInv'
<1>1. CASE UNCHANGED vars
  <2>1. UNCHANGED <<table, tx, lock>>
    BY <1>1 DEF vars
  <2>2. ChainIsTyped' /\ LocksAreHeld'
    BY <2>1 DEF ChainInv, ChainIsTyped, LocksAreHeld, At, Row
  <2>3. \A t \in Transactions : ReadingsHold(t)'
    BY <2>1 DEF ChainInv, ReadingsHold, Follows, At, Row, RowsFor, SuccessorsOf
  <2>4. ParentsAreThere' /\ HistoriesAreLinear'
    BY <2>1 DEF ChainInv, ParentsAreThere, HistoriesAreLinear, CommittedFor, RowsFor
  <2> QED
    BY <2>2, <2>3, <2>4 DEF ChainInv
<1>2. ASSUME NEW t \in Transactions, Differs(t) \/ Abort(t) PROVE ChainInv'
  BY <1>2, EndKeeps DEF Differs, Abort, Raise
<1> QED
  BY <1>1, <1>2, StatementsKeep, InsertKeeps, CommitKeeps DEF Next, Advance

\* The invariant holds in every reachable state: what a transaction has read of
\* the table stays so while it holds its two advisory locks, and the committed
\* decisions on a prediction form one chain, which has them all
\* (validate_superseded_validation).
THEOREM ChainIsCoherent == Spec => []ChainInv
  BY InitIsSound, StepKeepsInv, PTL DEF Spec

\* The advisory locks alone keep the decisions of a prediction apart: an
\* uncommitted root is alone on it, and no insert waits for a rival at the unique
\* indexes (pg_advisory_xact_lock in the client and in the trigger).
THEOREM LocksAreEnough == Spec => []LocksSuffice
<1>1. ChainInv => LocksSuffice
  <2> SUFFICES ASSUME ChainInv PROVE LocksSuffice
    OBVIOUS
  <2>1. ASSUME NEW t \in Transactions, tx[t].wrote, Row(t).supersedes = Null
        PROVE  /\ RowsFor(Row(t).prediction) = {}
               /\ \A u \in Transactions \ {t} : tx[u].wrote => Row(u).prediction # Row(t).prediction
    <3>1. At(t, "written") /\ Follows(t)
      BY <2>1 DEF ChainInv, ChainIsTyped, ReadingsHold
    <3>2. \A u \in Transactions : tx[u].wrote => At(u, "written")
      BY DEF ChainInv, ChainIsTyped
    <3> QED
      BY <2>1, <3>1, <3>2, LocksExclude DEF ChainInv, Follows, At, PastPrediction
  <2>2. ASSUME NEW t \in Transactions, At(t, "insert"), NEW u \in Rivals(t) PROVE FALSE
    <3>1. /\ u \in Transactions /\ u # t /\ tx[u].wrote
          /\ \/ Row(u).id = Row(t).id
             \/ /\ table[Row(t).id] = Null
                /\ Row(u).supersedes = Row(t).supersedes /\ Row(t).supersedes # Null
      BY <2>2 DEF Rivals
    <3>2. At(u, "written") /\ Follows(u)
      BY <3>1 DEF ChainInv, ChainIsTyped, ReadingsHold
    <3>3. Row(t).id # Row(u).id /\ Row(t).prediction # Row(u).prediction
      BY <2>2, <3>1, <3>2, LocksExclude DEF ChainInv, At, PastId, PastPrediction
    <3>4. table[Row(t).id] = Null => Follows(t)
      BY <2>2 DEF ChainInv, ReadingsHold
    <3> QED
      BY <3>1, <3>2, <3>3, <3>4 DEF Follows, RowsFor
  <2>3. RootsAreAlone
    BY <2>1 DEF RootsAreAlone
  <2>4. IndexNeverWaits
    BY <2>2 DEF IndexNeverWaits
  <2> QED
    BY <2>3, <2>4 DEF LocksSuffice
<1> QED
  BY ChainIsCoherent, <1>1, PTL

\* The history that the committed decisions on a prediction stand for.
LEMMA HistoryOf ==
  ASSUME NEW p \in Predictions, NEW s, IsHistory(s, CommittedFor(p))
  PROVE  Chain({table[v] : v \in RowsFor(p)}) = s
  BY ChainIsHistory DEF CommittedFor

\* Every step of the transactions decides on the end of one history, or leaves
\* them all alone.
THEOREM HistoryIsRefined == Spec => HistoryRefined
<1> DEFINE hist == [p \in Predictions |-> Chain({table[v] : v \in RowsFor(p)})]
<1>1. Init => H!Init
  <2> SUFFICES ASSUME Init PROVE H!Init
    OBVIOUS
  <2>1. \A p \in Predictions : {table[v] : v \in RowsFor(p)} = {}
    BY DEF Init, RowsFor
  <2>2. Chain({}) = <<>>
    BY NoHistory, ChainIsHistory
  <2> QED
    BY <2>1, <2>2 DEF H!Init
<1>2. ChainInv /\ [Next]_vars => [H!Next]_<<hist, {}>>
  <2> SUFFICES ASSUME ChainInv, [Next]_vars PROVE [H!Next]_<<hist, {}>>
    OBVIOUS
  <2>1. CASE UNCHANGED table
    <3>1. hist' = hist
      BY <2>1 DEF RowsFor
    <3> QED
      BY <3>1
  <2>2. ASSUME NEW t \in Transactions, Commit(t), tx[t].wrote PROVE H!Next
    <3> SUFFICES ASSUME NEW d, d = Row(t), NEW p, p = d.prediction PROVE H!Next
      OBVIOUS
    <3>1. /\ d \in Decisions /\ Follows(t) /\ p \in Predictions /\ d.id \in Validations
      BY <2>2, CommitGrows, Fields DEF ChainInv, ChainIsTyped, Commit, At
    <3> SUFFICES ASSUME NEW s, IsHistory(s, CommittedFor(p)) PROVE H!Next
      BY <3>1 DEF ChainInv, HistoriesAreLinear
    <3>2. /\ CommittedFor(p)' = CommittedFor(p) \cup {d}
          /\ \A q \in Predictions \ {p} : CommittedFor(q)' = CommittedFor(q)
          /\ d.supersedes = Last(s)
          /\ IsHistory(Append(s, d), CommittedFor(p) \cup {d})
      BY <2>2, CommitGrows
    <3>3. DOMAIN hist = Predictions /\ DOMAIN hist' = Predictions /\ hist[p] = s
      BY <3>1, HistoryOf
    <3>4. hist'[p] = Append(s, d)
      BY <3>1, <3>2, ChainIsHistory DEF CommittedFor
    <3>5. \A q \in Predictions \ {p} : hist'[q] = hist[q]
      BY <3>2 DEF CommittedFor
    <3>6. ASSUME NEW q \in Predictions, NEW i \in DOMAIN hist[q] PROVE hist[q][i].id # d.id
      <4>1. PICK r : IsHistory(r, CommittedFor(q))
        BY DEF ChainInv, HistoriesAreLinear
      <4>2. hist[q] = r
        BY <4>1, HistoryOf
      <4>3. r[i] \in CommittedFor(q)
        BY <3>6, <4>1, <4>2, HistoryIsSequence
      <4> QED
        BY <3>1, <4>2, <4>3 DEF CommittedFor, RowsFor, Follows, ChainInv, ChainIsTyped
    <3> HIDE DEF hist
    <3>7. hist' = [hist EXCEPT ![p] = Append(@, d)]
      <4>1. hist = [q \in Predictions |-> hist[q]] /\ hist' = [q \in Predictions |-> hist'[q]]
        BY DEF hist
      <4> QED
        BY <3>1, <3>3, <3>4, <3>5, <4>1
    <3>8. H!Decide(d)
      <4>1. \A q \in Predictions : H!Decided(q) = {hist[q][i].id : i \in DOMAIN hist[q]}
        BY DEF H!Decided, hist
      <4>2. d.id \notin H!AllDecided
        BY <3>6, <4>1 DEF H!AllDecided
      <4>3. H!Current(p) = IF hist[p] = <<>> THEN Null ELSE hist[p][Len(hist[p])].id
        BY DEF H!Current, hist
      <4>4. d.supersedes = H!Current(p)
        BY <3>2, <3>3, <4>3 DEF Last
      <4>5. H!Decide(d) <=> /\ d.id \notin H!AllDecided
                            /\ d.supersedes = H!Current(d.prediction)
                            /\ hist' = [hist EXCEPT ![d.prediction] = Append(@, d)]
        BY DEF H!Decide, hist
      <4> QED
        BY <3>7, <4>2, <4>4, <4>5
    <3> QED
      BY <3>1, <3>8 DEF H!Next
  <2>3. ASSUME NEW t \in Transactions, Commit(t), ~tx[t].wrote PROVE UNCHANGED table
    BY <2>3, Fields DEF Commit, ChainInv, ChainIsTyped, At
  <2>4. ~(UNCHANGED table) => \E t \in Transactions : Commit(t)
    BY DEF Next, Advance, Begin, LockValidationId, LockPrediction, FindId, FindRoot, FindParent,
       FindSuccessor, Insert, Differs, Abort, Raise, vars
  <2> QED
    BY <2>1, <2>2, <2>3, <2>4
<1> QED
  BY ChainIsCoherent, <1>1, <1>2, PTL DEF Spec, HistoryRefined, H!Spec
===============================================================================
