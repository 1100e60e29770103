------------------------- MODULE ReviewSessionProofs -------------------------
(***************************************************************************)
(* Proofs about ReviewSession for every queue, every set of decisions and  *)
(* every number of failures: one decision for each row, confirmations that *)
(* the database bears out, faithful packages, a form that advances row by  *)
(* row, and blocked sessions that do nothing.  SessionInv ties together    *)
(* the lists of the session, the form and the database.                    *)
(***************************************************************************)
EXTENDS ReviewSession, TLAPS

\* A decision has a status exactly from the moment the form gives it a row, and
\* it is unresolved until that status is a confirmation.
StatusesAgree ==
    /\ \A i \in Ids : i \in unresolved <=> submissions[i] \notin {"none", "confirmed"}
    /\ \A i \in Own : row[i] = 0 <=> submissions[i] = "none"

\* A confirmation is of a decision whose audit is complete.
ConfirmedIsAudited ==
    origin = "postgresql" => \A i \in Ids : Confirmed(i) => db[i] = "audited"

\* The decision in the form is about the row on show; rows not yet shown have no
\* decision, and the row on show has no other than the one in the form.
FormIsOnItsRow ==
    /\ widget.decision # Null => row[widget.decision] = widget.position
    /\ widget.completed => widget.decision = Null
    /\ \A i \in Own :
        /\ row[i] <= widget.position
        /\ row[i] = widget.position => widget.decision = i \/ widget.completed

\* OneDecisionPerRow needs to know what the form shows, and the form may advance
\* because a status is a confirmation: none of the parts is inductive alone.
SessionInv ==
    /\ TypeOK
    /\ StatusesAgree
    /\ ConfirmedIsAudited
    /\ FormIsOnItsRow
    /\ OneDecisionPerRow
    /\ ExportIsAudited

-----------------------------------------------------------------------------
(* The calls on the database.                                               *)

\* However a call ends, it tells no more than the database then holds, and a
\* complete audit stays complete.
TellsTheTruth(s, o) ==
    /\ o.state \in DbStates /\ o.reply \in Replies
    /\ o.reply = "confirmed" => o.state = "audited"
    /\ s = "audited" => o.state = "audited"

LEMMA OutcomesAreTrue ==
  ASSUME NEW s \in DbStates
  PROVE  /\ \A o \in PersistOutcomes(s) : TellsTheTruth(s, o)
         /\ \A o \in ReconcileOutcomes(s) : TellsTheTruth(s, o)
         /\ \A o \in RecoverOutcomes(s) : TellsTheTruth(s, o)
<1>1. \A r \in Replies : (r = "confirmed" => s = "audited") =>
        \A o \in Unchanged(s, r) : TellsTheTruth(s, o)
  BY DEF Unchanged, Outcome, TellsTheTruth, Replies
<1>2. ASSUME NEW o \in PersistOutcomes(s) PROVE TellsTheTruth(s, o)
  <2>1. CASE s = "absent"
    <3>1. o \in {Outcome("audited", "confirmed", FALSE)}
               \cup {Outcome(t, "pending", TRUE) : t \in {"saved", "audited"}}
               \cup {Outcome(t, "raise", TRUE) : t \in {"absent", "dead", "saved", "stuck"}}
               \cup {Outcome(t, "interrupt", TRUE) : t \in {"absent", "saved", "audited"}}
      BY <2>1, <1>2, Zenon DEF PersistOutcomes
    <3> QED
      BY <3>1, <2>1 DEF Outcome, TellsTheTruth, DbStates, Replies
  <2>2. CASE s = "dead"
    <3>1. o \in {Outcome(s, "raise", FALSE)}
      BY <2>2, <1>2, Zenon DEF PersistOutcomes
    <3> QED
      BY <3>1, <2>2 DEF Outcome, TellsTheTruth, DbStates, Replies
  <2>3. CASE s \in {"saved", "stuck"}
    <3>1. o \in Unchanged(s, "pending")
      BY <2>3, <1>2, Zenon DEF PersistOutcomes
    <3> QED
      BY <3>1, <1>1, <2>3 DEF Replies
  <2>4. CASE s = "audited"
    <3>1. o \in Unchanged(s, "confirmed")
      BY <2>4, <1>2, Zenon DEF PersistOutcomes
    <3> QED
      BY <3>1, <1>1, <2>4 DEF Replies
  <2> QED
    BY <2>1, <2>2, <2>3, <2>4 DEF DbStates
<1>3. ASSUME NEW o \in ReconcileOutcomes(s) PROVE TellsTheTruth(s, o)
  <2>1. CASE s = "saved"
    <3>1. o \in {Outcome("audited", "confirmed", FALSE)}
               \cup {Outcome(t, "raise", TRUE) : t \in {"saved", "audited"}}
               \cup {Outcome(t, "interrupt", TRUE) : t \in {"saved", "audited"}}
      BY <2>1, <1>3, Zenon DEF ReconcileOutcomes
    <3> QED
      BY <3>1, <2>1 DEF Outcome, TellsTheTruth, DbStates, Replies
  <2>2. CASE s = "audited"
    <3>1. o \in Unchanged(s, "confirmed")
      BY <2>2, <1>3, Zenon DEF ReconcileOutcomes
    <3> QED
      BY <3>1, <1>1, <2>2 DEF Replies
  <2>3. CASE s \notin {"saved", "audited"}
    <3>1. o \in {Outcome(s, "raise", FALSE)}
      BY <2>3, <1>3, Zenon DEF ReconcileOutcomes
    <3> QED
      BY <3>1, <2>3 DEF Outcome, TellsTheTruth, DbStates, Replies
  <2> QED
    BY <2>1, <2>2, <2>3
<1>4. ASSUME NEW o \in RecoverOutcomes(s) PROVE TellsTheTruth(s, o)
  BY <1>3, <1>4 DEF RecoverOutcomes, Outcome, TellsTheTruth, DbStates, Replies
<1> QED
  BY <1>2, <1>3, <1>4

-----------------------------------------------------------------------------
(* What the two handlers that decide something do, whatever the database says. *)

\* A call on decision i leaves the other decisions of the database alone and
\* withdraws no audit.
DatabaseGrows ==
    /\ db' \in [Ids -> DbStates]
    /\ \A j \in Ids : db[j] = "audited" => db'[j] = "audited"
    /\ faults' \in 0 .. MaxFaults

\* The lists after a handler has dealt with decision i, which it may confirm only
\* on an audit.
Decides(i) ==
    /\ pending' \subseteq unresolved' /\ validations' \subseteq Ids
    /\ awaiting' \subseteq Own
    /\ \/ \E status \in Statuses \ {"none"} :
            /\ Record(i, status)
            /\ Confirmed(i) => status = "confirmed"
            /\ status = "confirmed" /\ origin = "postgresql" => db'[i] = "audited"
       \/ UNCHANGED <<submissions, unresolved>>

LEMMA EndsFacts ==
  ASSUME TypeOK, NEW i \in Ids, NEW o, NEW failed, TellsTheTruth(db[i], o),
         Ends(i, [o EXCEPT !.failed = failed]) \/ Ends(i, o)
  PROVE  DatabaseGrows /\ (o.reply = "confirmed" => db'[i] = "audited")
  BY DEF Ends, TellsTheTruth, DatabaseGrows, TypeOK

\* The lists take in what the answer says of decision i.
LEMMA ListedFacts ==
  ASSUME TypeOK, NEW i \in Own, NEW reply \in Replies, Listed(i, reply),
         NEW status \in Statuses, Record(i, status),
         status = "confirmed" => reply = "confirmed"
  PROVE  pending' \subseteq unresolved' /\ validations' \subseteq Ids /\ awaiting' \subseteq Own
<1>i. i \in Ids /\ Own \subseteq Ids
  BY DEF Ids
<1>1. CASE reply = "confirmed"
  BY <1>1, <1>i DEF Listed, Accept, Record, TypeOK
<1>2. CASE reply = "pending"
  BY <1>2, <1>i DEF Listed, Record, TypeOK
<1>3. CASE reply \notin {"confirmed", "pending"}
  <2>1. UNCHANGED <<validations, pending, awaiting>>
    BY <1>3, Zenon DEF Listed
  <2> QED
    BY <2>1, <1>3, <1>i DEF Record, TypeOK
<1> QED
  BY <1>1, <1>2, <1>3

LEMMA SendFacts ==
  ASSUME TypeOK, NEW i \in Own, ~Confirmed(i), Send(i)
  PROVE  /\ DatabaseGrows /\ Decides(i) /\ submissions'[i] # "none"
         /\ \/ Ended(i, "confirmed") /\ Confirmed(i)'
            \/ Ended(i, "interrupt")
<1>i. i \in Ids /\ db[i] \in DbStates
  BY DEF Ids, TypeOK
<1>1. PICK o \in Call(i) :
        \/ Ends(i, o) /\ Listed(i, o.reply) /\ Record(i, StatusOf(o.reply)) /\ Ended(i, o.reply)
        \/ /\ o.reply \in {"confirmed", "pending"}
           /\ Ends(i, [o EXCEPT !.failed = TRUE])
           /\ Listed(i, o.reply)
           /\ \E status \in {"sending", StatusOf(o.reply)} : Record(i, status)
           /\ Ended(i, "interrupt")
  BY DEF Send
<1>2. TellsTheTruth(db[i], o)
  BY <1>i, OutcomesAreTrue DEF Call
<1>3. o.reply \in Replies /\ DatabaseGrows /\ (o.reply = "confirmed" => db'[i] = "audited")
  BY <1>1, <1>2, <1>i, EndsFacts DEF TellsTheTruth
<1>4. /\ StatusOf(o.reply) \in Statuses \ {"none"}
      /\ StatusOf(o.reply) = "confirmed" <=> o.reply = "confirmed"
  BY <1>3 DEF StatusOf, Replies, Statuses
<1>5. PICK status \in {"sending", StatusOf(o.reply)} : Record(i, status)
  BY <1>1
<1>6. status \in Statuses \ {"none"} /\ (status = "confirmed" => o.reply = "confirmed")
  BY <1>4 DEF Statuses
<1>7. Listed(i, o.reply)
  BY <1>1
<1>8. Decides(i)
  BY <1>3, <1>5, <1>6, <1>7, ListedFacts DEF Decides
<1>9. submissions' = [submissions EXCEPT ![i] = status] /\ submissions'[i] = status
  BY <1>5, <1>i DEF Record, TypeOK
<1>10. CASE Ended(i, o.reply) /\ o.reply = "confirmed" /\ Record(i, StatusOf(o.reply))
  <2>1. submissions'[i] = "confirmed"
    BY <1>10, <1>4, <1>i DEF Record, TypeOK
  <2> QED
    BY <2>1, <1>10, <1>3, <1>8 DEF Confirmed
<1>11. CASE Ended(i, o.reply) /\ o.reply # "confirmed"
  <2>1. Ended(i, "interrupt")
    BY <1>11 DEF Ended
  <2> QED
    BY <2>1, <1>3, <1>6, <1>8, <1>9
<1>12. CASE Ended(i, "interrupt")
  BY <1>12, <1>3, <1>6, <1>8, <1>9
<1> QED
  BY <1>1, <1>10, <1>11, <1>12

LEMMA SaveFacts ==
  ASSUME TypeOK, Save
  PROVE  \E i \in Own :
           /\ i \in Prepared /\ ~widget.completed /\ Intact
           /\ DatabaseGrows /\ Decides(i) /\ submissions'[i] # "none"
           /\ row' = [row EXCEPT ![i] = widget.position]
           /\ \/ widget' = Advanced(widget) /\ Confirmed(i)'
              \/ widget' = [widget EXCEPT !.decision = i]
           /\ UNCHANGED <<origin, sealed, exported, edits>>
<1>1. PICK i \in Prepared :
        \/ ~Confirmed(i) /\ origin = "postgresql" /\ Send(i)
        \/ ~Confirmed(i) /\ origin = "portable" /\ SendPortable(i)
        \/ Confirmed(i) /\ Ended(i, "confirmed") /\ UNCHANGED <<db, records, faults>>
  BY DEF Save
<1>2. i \in Own /\ i \in Ids
  BY DEF Prepared, TypeOK, Ids
<1>3. ~widget.completed /\ Intact /\ UNCHANGED <<origin, sealed, exported, edits>>
  BY DEF Save
<1>4. ASSUME NEW reply, Ended(i, reply)
      PROVE  /\ row' = [row EXCEPT ![i] = widget.position]
             /\ \/ reply = "confirmed" /\ widget' = Advanced(widget)
                \/ reply # "confirmed" /\ widget' = [widget EXCEPT !.decision = i]
  BY <1>4 DEF Ended
<1>5. CASE ~Confirmed(i) /\ Send(i)
  BY <1>2, <1>3, <1>4, <1>5, SendFacts
<1>6. CASE ~Confirmed(i) /\ origin = "portable" /\ SendPortable(i)
  <2>1. Record(i, "confirmed") /\ Accept(i) /\ UNCHANGED <<db, awaiting, faults>>
    BY <1>6 DEF SendPortable
  <2>2. DatabaseGrows /\ Confirmed(i)' /\ submissions'[i] # "none"
    BY <2>1, <1>2 DEF DatabaseGrows, Record, Confirmed, TypeOK
  <2>3. pending' \subseteq unresolved' /\ validations' \subseteq Ids /\ awaiting' \subseteq Own
    BY <2>1, <1>2 DEF Accept, Record, TypeOK
  <2>4. Decides(i)
    BY <2>1, <2>3, <1>6 DEF Decides, Statuses
  <2>5. Ended(i, "confirmed")
    BY <1>6 DEF SendPortable
  <2> QED
    BY <1>2, <1>3, <1>4, <2>2, <2>4, <2>5
<1>7. CASE Confirmed(i) /\ Ended(i, "confirmed") /\ UNCHANGED <<db, records, faults>>
  <2>1. DatabaseGrows /\ Confirmed(i)' /\ submissions'[i] # "none"
    BY <1>7, <1>2 DEF DatabaseGrows, Confirmed, records, TypeOK
  <2>2. Decides(i)
    BY <1>7 DEF Decides, records, TypeOK
  <2> QED
    BY <1>2, <1>3, <1>4, <1>7, <2>1, <2>2
<1> QED
  BY <1>1, <1>5, <1>6, <1>7

\* A recovery confirms a decision, or leaves every status as it was.
LEMMA RecoverFacts ==
  ASSUME TypeOK, NEW i \in Ids, Recover(i)
  PROVE  /\ Intact /\ DatabaseGrows /\ Decides(i)
         /\ i \in Own => row[i] # 0
         /\ \/ widget' = Notified(i) /\ Confirmed(i)'
            \/ UNCHANGED <<submissions, unresolved, widget>>
         /\ UNCHANGED <<origin, row, sealed, exported, edits>>
<1>i. db[i] \in DbStates /\ awaiting \subseteq Own
  BY DEF TypeOK
<1>1. /\ Intact /\ (i \in Own => row[i] # 0)
      /\ UNCHANGED <<origin, row, awaiting, sealed, exported, edits>>
  BY DEF Recover
<1>2. PICK o \in RecoverOutcomes(db[i]) :
        /\ Ends(i, o)
        /\ \/ /\ o.reply = "confirmed"
              /\ Accept(i) /\ Record(i, "confirmed") /\ widget' = Notified(i)
           \/ /\ o.reply = "interrupt" /\ o.state = "audited"
              /\ Accept(i)
              /\ UNCHANGED <<submissions, unresolved, widget>>
           \/ /\ o.reply \in {"raise", "interrupt"}
              /\ UNCHANGED <<submissions, unresolved, pending, validations, widget>>
  BY DEF Recover
<1>3. DatabaseGrows /\ (o.reply = "confirmed" => db'[i] = "audited")
  BY <1>i, <1>2, OutcomesAreTrue, EndsFacts
<1>4. CASE /\ o.reply = "confirmed"
           /\ Accept(i) /\ Record(i, "confirmed") /\ widget' = Notified(i)
  <2>1. pending' \subseteq unresolved' /\ validations' \subseteq Ids /\ Confirmed(i)'
    BY <1>4 DEF Accept, Record, Confirmed, TypeOK
  <2>2. Decides(i)
    BY <1>1, <1>3, <1>4, <1>i, <2>1 DEF Decides, Statuses
  <2> QED
    BY <1>1, <1>3, <1>4, <2>1, <2>2
<1>5. CASE Accept(i) /\ UNCHANGED <<submissions, unresolved, widget>>
  BY <1>1, <1>3, <1>5, <1>i DEF Accept, Decides, TypeOK
<1>6. CASE UNCHANGED <<submissions, unresolved, pending, validations, widget>>
  BY <1>1, <1>3, <1>6, <1>i DEF Decides, TypeOK
<1> QED
  BY <1>2, <1>4, <1>5, <1>6

-----------------------------------------------------------------------------
\* Advancing the form keeps its types.
LEMMA AdvancedFacts ==
  ASSUME TypeOK
  PROVE  LET w == Advanced(widget) IN
         /\ w \in [position : 1 .. Rows, decision : Own \cup {Null},
                   completed : BOOLEAN, subscribed : BOOLEAN]
         /\ w.decision = Null
         /\ \/ w.position = widget.position + 1 /\ w.completed = widget.completed
            \/ w.position = widget.position /\ w.completed = TRUE
<1>1. /\ widget = [position |-> widget.position, decision |-> widget.decision,
                   completed |-> widget.completed, subscribed |-> widget.subscribed]
      /\ widget.position \in 1 .. Rows /\ Rows \in Nat /\ Null \in Own \cup {Null}
      /\ widget.completed \in BOOLEAN /\ widget.subscribed \in BOOLEAN
  BY SessionConstants DEF TypeOK
<1>2. CASE widget.position < Rows
  <2>1. Advanced(widget) = [position |-> widget.position + 1, decision |-> Null,
                            completed |-> widget.completed, subscribed |-> widget.subscribed]
    BY <1>1, <1>2 DEF Advanced
  <2>2. widget.position + 1 \in 1 .. Rows
    BY <1>1, <1>2
  <2> QED
    BY <2>1, <2>2, <1>1
<1>3. CASE ~(widget.position < Rows)
  <2>1. Advanced(widget) = [position |-> widget.position, decision |-> Null,
                            completed |-> TRUE, subscribed |-> FALSE]
    BY <1>1, <1>3 DEF Advanced
  <2> QED
    BY <2>1, <1>1
<1> QED
  BY <1>2, <1>3

-----------------------------------------------------------------------------
(* The parts of the invariant.                                              *)

\* What every handler may do to the lists and the database keeps the parts of the
\* invariant that are about them.
LEMMA DecidesKeeps ==
  ASSUME SessionInv, NEW i \in Ids, DatabaseGrows, Decides(i),
         UNCHANGED <<origin, exported>>,
         row' \in [Own -> 0 .. Rows],
         \A j \in Own : row'[j] = 0 <=> submissions'[j] = "none",
         i \in Foreign => submissions'[i] \in {"none", "confirmed"}
  PROVE  /\ submissions' \in [Ids -> Statuses] /\ unresolved' \subseteq Own
         /\ \A j \in Ids : Confirmed(j) => Confirmed(j)'
         /\ \A j \in Ids \ {i} : submissions'[j] = submissions[j]
         /\ StatusesAgree' /\ ConfirmedIsAudited' /\ ExportIsAudited'
<1>t. /\ submissions \in [Ids -> Statuses] /\ unresolved \subseteq Own
      /\ exported \subseteq Ids /\ Ids = Own \cup Foreign
  BY DEF SessionInv, TypeOK, Ids
<1>1. CASE UNCHANGED <<submissions, unresolved>>
  BY <1>1, <1>t DEF SessionInv, StatusesAgree, ConfirmedIsAudited, ExportIsAudited,
                    DatabaseGrows, Confirmed
<1>2. ASSUME NEW status \in Statuses \ {"none"}, Record(i, status),
             Confirmed(i) => status = "confirmed",
             status = "confirmed" /\ origin = "postgresql" => db'[i] = "audited"
      PROVE  /\ submissions' \in [Ids -> Statuses] /\ unresolved' \subseteq Own
             /\ \A j \in Ids : Confirmed(j) => Confirmed(j)'
             /\ \A j \in Ids \ {i} : submissions'[j] = submissions[j]
             /\ StatusesAgree' /\ ConfirmedIsAudited' /\ ExportIsAudited'
  <2>1. /\ submissions' \in [Ids -> Statuses] /\ submissions'[i] = status
        /\ \A j \in Ids \ {i} : submissions'[j] = submissions[j]
    BY <1>2, <1>t DEF Record
  <2>2. unresolved' = IF status = "confirmed" THEN unresolved \ {i} ELSE unresolved \cup {i}
    BY <1>2 DEF Record
  <2>3. unresolved' \subseteq Own
    BY <2>1, <2>2, <1>2, <1>t
  <2>4. \A j \in Ids : Confirmed(j) => Confirmed(j)'
    BY <2>1, <1>2 DEF Confirmed
  <2>5. StatusesAgree'
    BY <2>1, <2>2, <1>2 DEF SessionInv, StatusesAgree
  <2>6. ConfirmedIsAudited'
    BY <2>1, <1>2 DEF SessionInv, ConfirmedIsAudited, Confirmed, DatabaseGrows
  <2>7. ExportIsAudited'
    BY <1>t DEF SessionInv, ExportIsAudited, DatabaseGrows
  <2> QED
    BY <2>1, <2>3, <2>4, <2>5, <2>6, <2>7
<1> QED
  BY <1>1, <1>2 DEF Decides

\* The form after decision i, the one it has or a new one, of the row on show.
LEMMA SaveStep == SessionInv /\ Save => SessionInv'
<1> SUFFICES ASSUME SessionInv, Save PROVE SessionInv'
  OBVIOUS
<1>t. /\ TypeOK /\ row \in [Own -> 0 .. Rows] /\ Rows \in Nat \ {0} /\ Null \notin Own
      /\ widget.position \in 1 .. Rows /\ widget.decision \in Own \cup {Null}
      /\ \A j \in Own : j \in Ids /\ j \notin Foreign
  BY SessionConstants DEF SessionInv, TypeOK, Ids
<1>1. PICK i \in Own :
           /\ i \in Prepared /\ ~widget.completed /\ Intact
           /\ DatabaseGrows /\ Decides(i) /\ submissions'[i] # "none"
           /\ row' = [row EXCEPT ![i] = widget.position]
           /\ \/ widget' = Advanced(widget) /\ Confirmed(i)'
              \/ widget' = [widget EXCEPT !.decision = i]
           /\ UNCHANGED <<origin, sealed, exported, edits>>
  BY <1>t, SaveFacts
<1>2. /\ row' \in [Own -> 0 .. Rows] /\ row'[i] = widget.position
      /\ \A j \in Own \ {i} : row'[j] = row[j]
  BY <1>1, <1>t
<1>3. \A j \in Own : row'[j] = 0 <=> submissions'[j] = "none"
  <2>1. \A j \in Own \ {i} : submissions'[j] = submissions[j]
    BY <1>1, <1>t DEF Decides, Record, TypeOK
  <2> QED
    BY <2>1, <1>1, <1>2, <1>t DEF SessionInv, StatusesAgree
<1>4. /\ submissions' \in [Ids -> Statuses] /\ unresolved' \subseteq Own
      /\ \A j \in Ids : Confirmed(j) => Confirmed(j)'
      /\ StatusesAgree' /\ ConfirmedIsAudited' /\ ExportIsAudited'
  BY <1>1, <1>2, <1>3, <1>t, DecidesKeeps
<1>5. /\ widget.decision # Null => i = widget.decision
      /\ \A j \in Own \ {i} : row[j] < widget.position
      /\ \A j \in Own \ {i} : row[j] # 0 => Confirmed(j)
  BY <1>1, <1>t DEF Prepared, SessionInv, FormIsOnItsRow, OneDecisionPerRow
<1>6. TypeOK'
  <2>1. widget' \in [position : 1 .. Rows, decision : Own \cup {Null},
                     completed : BOOLEAN, subscribed : BOOLEAN]
    BY <1>1, <1>t, AdvancedFacts DEF TypeOK
  <2>2. /\ sealed' \in [current : BOOLEAN, intact : BOOLEAN, invalidated : BOOLEAN]
        /\ origin' \in {"postgresql", "portable"} /\ exported' \subseteq Ids
        /\ edits' \in 0 .. MaxEdits
    BY <1>1, <1>t, Zenon DEF TypeOK
  <2> QED
    BY <2>1, <2>2, <1>1, <1>2, <1>4 DEF TypeOK, DatabaseGrows, Decides
<1>7. FormIsOnItsRow'
  <2>1. CASE widget' = Advanced(widget)
    <3>1. /\ widget'.decision = Null
          /\ \/ widget'.position = widget.position + 1
             \/ widget'.position = widget.position /\ widget'.completed
      BY <2>1, <1>t, AdvancedFacts
    <3>2. \A j \in Own : row'[j] <= widget.position
      BY <1>2, <1>5, <1>t
    <3>3. \A j \in Own : row'[j] = widget'.position => widget'.completed
      BY <3>1, <3>2, <1>t
    <3> QED
      BY <3>1, <3>2, <3>3, <1>2, <1>t DEF FormIsOnItsRow
  <2>2. CASE widget' = [widget EXCEPT !.decision = i]
    <3>1. /\ widget'.decision = i /\ widget'.position = widget.position
          /\ widget'.completed = widget.completed
      BY <2>2 DEF TypeOK, SessionInv
    <3> QED
      BY <3>1, <1>1, <1>2, <1>5, <1>t DEF FormIsOnItsRow
  <2> QED
    BY <1>1, <2>1, <2>2
<1>8. OneDecisionPerRow'
  <2>1. \A j \in Own : row'[j] # 0 => \A k \in Own \ {j} : row'[k] # row'[j]
    BY <1>2, <1>5, <1>t DEF SessionInv, OneDecisionPerRow
  <2>2. \A j \in Own \ {i} : row'[j] # 0 => Confirmed(j)'
    BY <1>2, <1>4, <1>5, <1>t
  <2>3. ~Confirmed(i)' => widget'.decision = i /\ row'[i] = widget'.position
    BY <1>1, <1>2, <1>t DEF TypeOK
  <2> QED
    BY <2>1, <2>2, <2>3 DEF OneDecisionPerRow
<1> QED
  BY <1>4, <1>6, <1>7, <1>8 DEF SessionInv

\* A recovery moves the form only when it confirms the decision in it.
LEMMA RecoverStep ==
  ASSUME SessionInv, NEW i \in Ids, Recover(i)
  PROVE  SessionInv'
<1>t. /\ TypeOK /\ row \in [Own -> 0 .. Rows] /\ Rows \in Nat \ {0} /\ Null \notin Own
      /\ widget.position \in 1 .. Rows /\ widget.decision \in Own \cup {Null}
      /\ \A j \in Own : j \in Ids /\ j \notin Foreign
  BY SessionConstants DEF SessionInv, TypeOK, Ids
<1>1. /\ Intact /\ DatabaseGrows /\ Decides(i)
      /\ i \in Own => row[i] # 0
      /\ \/ widget' = Notified(i) /\ Confirmed(i)'
         \/ UNCHANGED <<submissions, unresolved, widget>>
      /\ UNCHANGED <<origin, row, sealed, exported, edits>>
  BY <1>t, RecoverFacts
<1>2. i \in Foreign => submissions'[i] \in {"none", "confirmed"}
  BY <1>1, <1>t, SessionConstants DEF SessionInv, StatusesAgree, TypeOK, Confirmed
<1>3. \A j \in Own : row'[j] = 0 <=> submissions'[j] = "none"
  BY <1>1, <1>t DEF SessionInv, StatusesAgree, Decides, Record, TypeOK
<1>4. /\ submissions' \in [Ids -> Statuses] /\ unresolved' \subseteq Own
      /\ \A j \in Ids : Confirmed(j) => Confirmed(j)'
      /\ StatusesAgree' /\ ConfirmedIsAudited' /\ ExportIsAudited'
  BY <1>1, <1>2, <1>3, <1>t, DecidesKeeps
<1>5. /\ origin' \in {"postgresql", "portable"} /\ row' \in [Own -> 0 .. Rows]
      /\ sealed' \in [current : BOOLEAN, intact : BOOLEAN, invalidated : BOOLEAN]
      /\ exported' \subseteq Ids /\ edits' \in 0 .. MaxEdits
  BY <1>1, <1>t, Zenon DEF TypeOK
<1>6. CASE widget' = widget
  <2>1. TypeOK'
    BY <1>1, <1>4, <1>5, <1>6 DEF SessionInv, TypeOK, DatabaseGrows, Decides
  <2>2. FormIsOnItsRow'
    BY <1>1, <1>6 DEF SessionInv, FormIsOnItsRow
  <2>3. OneDecisionPerRow'
    BY <1>1, <1>4, <1>6, <1>t DEF SessionInv, OneDecisionPerRow
  <2> QED
    BY <2>1, <2>2, <2>3, <1>4 DEF SessionInv
<1>7. CASE widget' # widget
  <2>1. widget' = Advanced(widget) /\ widget.decision = i /\ Confirmed(i)'
    BY <1>1, <1>7 DEF Notified
  <2>2. i \in Own /\ row[i] = widget.position /\ row' = row
    BY <2>1, <1>1, <1>t, SessionConstants DEF SessionInv, FormIsOnItsRow, Ids
  <2>3. /\ widget'.decision = Null
        /\ \/ widget'.position = widget.position + 1
           \/ widget'.position = widget.position /\ widget'.completed
    BY <2>1, <1>t, AdvancedFacts
  <2>4. TypeOK'
    <3>1. widget' \in [position : 1 .. Rows, decision : Own \cup {Null},
                       completed : BOOLEAN, subscribed : BOOLEAN]
      BY <2>1, <1>t, AdvancedFacts
    <3> QED
      BY <3>1, <1>1, <1>4, <1>5 DEF TypeOK, DatabaseGrows, Decides
  <2>5. FormIsOnItsRow'
    <3>1. \A j \in Own : row[j] <= widget.position
      BY DEF SessionInv, FormIsOnItsRow
    <3>2. \A j \in Own : row[j] = widget'.position => widget'.completed
      BY <2>3, <3>1, <1>t
    <3> QED
      BY <2>2, <2>3, <3>1, <3>2, <1>t DEF FormIsOnItsRow
  <2>6. OneDecisionPerRow'
    BY <2>1, <2>2, <1>4, <1>t DEF SessionInv, OneDecisionPerRow
  <2> QED
    BY <2>4, <2>5, <2>6, <1>4 DEF SessionInv
<1> QED
  BY <1>6, <1>7

\* A row is skipped only while the form has no decision, so all there are have
\* been confirmed.
LEMMA SkipStep == SessionInv /\ Skip => SessionInv'
<1> SUFFICES ASSUME SessionInv, Skip PROVE SessionInv'
  OBVIOUS
<1>t. /\ TypeOK /\ row \in [Own -> 0 .. Rows] /\ Rows \in Nat \ {0} /\ Null \notin Own
      /\ widget.position \in 1 .. Rows
  BY SessionConstants DEF SessionInv, TypeOK
<1>1. /\ widget.decision = Null /\ ~widget.completed /\ widget' = Advanced(widget)
      /\ UNCHANGED <<origin, db, row, submissions, unresolved, pending, validations,
                     awaiting, sealed, exported, faults, edits>>
  BY DEF Skip, records
<1>2. /\ widget'.decision = Null
      /\ \/ widget'.position = widget.position + 1
         \/ widget'.position = widget.position /\ widget'.completed
  BY <1>1, <1>t, AdvancedFacts
<1>3. TypeOK'
  <2>1. widget' \in [position : 1 .. Rows, decision : Own \cup {Null},
                     completed : BOOLEAN, subscribed : BOOLEAN]
    BY <1>1, <1>t, AdvancedFacts
  <2>2. sealed' \in [current : BOOLEAN, intact : BOOLEAN, invalidated : BOOLEAN]
    BY <1>1, <1>t, Zenon DEF TypeOK
  <2> QED
    BY <2>1, <2>2, <1>1, <1>t DEF TypeOK
<1>4. FormIsOnItsRow'
  BY <1>1, <1>2, <1>t DEF SessionInv, FormIsOnItsRow
<1>5. OneDecisionPerRow'
  BY <1>1, <1>t DEF SessionInv, OneDecisionPerRow, Confirmed
<1>6. StatusesAgree' /\ ConfirmedIsAudited' /\ ExportIsAudited'
  BY <1>1 DEF SessionInv, StatusesAgree, ConfirmedIsAudited, ExportIsAudited, Confirmed
<1> QED
  BY <1>3, <1>4, <1>5, <1>6 DEF SessionInv

\* A package is of a session without open decisions.
LEMMA FinalizeStep ==
  ASSUME SessionInv, Finalize
  PROVE  SessionInv' /\ ExportIsComplete
<1>1. /\ unresolved = {} /\ validations = {i \in Ids : Confirmed(i)}
      /\ exported' = validations
      /\ UNCHANGED <<origin, db, row, submissions, unresolved, pending, validations,
                     awaiting, widget, sealed, faults, edits>>
  BY DEF Finalize, Finalizable, records
<1>2. TypeOK'
  <2>1. /\ sealed' \in [current : BOOLEAN, intact : BOOLEAN, invalidated : BOOLEAN]
        /\ widget' \in [position : 1 .. Rows, decision : Own \cup {Null},
                        completed : BOOLEAN, subscribed : BOOLEAN]
    BY <1>1, Zenon DEF SessionInv, TypeOK
  <2> QED
    BY <2>1, <1>1 DEF SessionInv, TypeOK
<1>3. ExportIsAudited'
  BY <1>1 DEF SessionInv, ConfirmedIsAudited, ExportIsAudited
<1>4. ExportIsComplete
  <2>1. \A i \in Own : i \in Ids
    BY DEF Ids
  <2> QED
    BY <2>1, <1>1 DEF SessionInv, StatusesAgree, ExportIsComplete, Confirmed
<1>5. StatusesAgree' /\ ConfirmedIsAudited' /\ FormIsOnItsRow' /\ OneDecisionPerRow'
  BY <1>1 DEF SessionInv, StatusesAgree, ConfirmedIsAudited, FormIsOnItsRow,
              OneDecisionPerRow, Confirmed
<1> QED
  BY <1>2, <1>3, <1>4, <1>5 DEF SessionInv

\* The other cells touch neither the statuses, nor the rows, nor the database.
LEMMA ElsewhereStep ==
  ASSUME SessionInv,
         \/ Invalidate \/ NewAttempt \/ Detach \/ ChangeFrame \/ UNCHANGED vars
         \/ \E i \in Ids : EditValidations(i)
  PROVE  SessionInv'
<1>1. /\ UNCHANGED <<origin, db, row, submissions, unresolved, pending, awaiting, exported, faults>>
      /\ validations' \subseteq Ids /\ edits' \in 0 .. MaxEdits
      /\ sealed' \in [current : BOOLEAN, intact : BOOLEAN, invalidated : BOOLEAN]
      /\ widget' \in [position : 1 .. Rows, decision : Own \cup {Null},
                      completed : BOOLEAN, subscribed : BOOLEAN]
      /\ widget'.position = widget.position /\ widget'.decision = widget.decision
      /\ widget'.completed = widget.completed
  <2>t. /\ sealed \in [current : BOOLEAN, intact : BOOLEAN, invalidated : BOOLEAN]
        /\ widget \in [position : 1 .. Rows, decision : Own \cup {Null},
                       completed : BOOLEAN, subscribed : BOOLEAN]
        /\ validations \subseteq Ids /\ edits \in 0 .. MaxEdits /\ MaxEdits \in Nat
    BY SessionConstants DEF SessionInv, TypeOK
  <2>1. CASE Invalidate
    BY <2>1, <2>t DEF Invalidate, records
  <2>2. CASE NewAttempt
    BY <2>2, <2>t DEF NewAttempt, records
  <2>3. CASE Detach
    BY <2>3, <2>t DEF Detach, records
  <2>4. CASE ChangeFrame
    <3>1. sealed' \in [current : BOOLEAN, intact : BOOLEAN, invalidated : BOOLEAN]
      BY <2>4, <2>t DEF ChangeFrame
    <3> QED
      BY <3>1, <2>4, <2>t DEF ChangeFrame, records
  <2>5. CASE UNCHANGED vars
    BY <2>5, <2>t DEF vars, records
  <2>6. ASSUME NEW i \in Ids, EditValidations(i)
        PROVE  /\ UNCHANGED <<origin, db, row, submissions, unresolved, pending, awaiting,
                              exported, faults, widget, sealed>>
               /\ validations' \subseteq Ids /\ edits' \in 0 .. MaxEdits
    BY <2>6, <2>t DEF EditValidations
  <2> QED
    BY <2>1, <2>2, <2>3, <2>4, <2>5, <2>6, <2>t
<1>2. TypeOK'
  BY <1>1 DEF SessionInv, TypeOK
<1>3. StatusesAgree' /\ ConfirmedIsAudited' /\ FormIsOnItsRow' /\ OneDecisionPerRow'
      /\ ExportIsAudited'
  BY <1>1 DEF SessionInv, StatusesAgree, ConfirmedIsAudited, FormIsOnItsRow,
              OneDecisionPerRow, ExportIsAudited, Confirmed
<1> QED
  BY <1>2, <1>3 DEF SessionInv

-----------------------------------------------------------------------------
(* The theorems.                                                            *)

LEMMA InitHolds == Init => SessionInv
<1> SUFFICES ASSUME Init PROVE SessionInv
  OBVIOUS
<1>1. TypeOK
  BY SessionConstants DEF Init, TypeOK, Ids, DbStates, Statuses
<1>2. StatusesAgree /\ ConfirmedIsAudited /\ OneDecisionPerRow /\ ExportIsAudited
  BY DEF Init, StatusesAgree, ConfirmedIsAudited, OneDecisionPerRow, ExportIsAudited,
         Confirmed, Ids
<1>3. FormIsOnItsRow
  BY SessionConstants DEF Init, FormIsOnItsRow
<1> QED
  BY <1>1, <1>2, <1>3 DEF SessionInv

\* The handlers and cells by what they may touch.
LEMMA Handlers ==
  ASSUME [Next]_vars
  PROVE  \/ Save \/ Skip \/ Finalize \/ \E i \in Ids : Recover(i)
         \/ Invalidate \/ NewAttempt \/ Detach \/ ChangeFrame \/ UNCHANGED vars
         \/ \E i \in Ids : EditValidations(i)
  BY DEF Next

\* The lists of the session, the form and the database stay in step with each
\* other, whatever the reviewer does and whatever fails.
THEOREM SessionIsCoherent == Spec => []SessionInv
<1>1. SessionInv /\ [Next]_vars => SessionInv'
  BY Handlers, SaveStep, SkipStep, FinalizeStep, RecoverStep, ElsewhereStep
<1> QED
  BY <1>1, InitHolds, PTL DEF Spec

\* No row has two decisions, and no decision is left behind unconfirmed.
THEOREM RowsAreDecidedOnce == Spec => []OneDecisionPerRow
<1>1. SessionInv => OneDecisionPerRow
  BY DEF SessionInv
<1> QED
  BY <1>1, SessionIsCoherent, PTL

\* A package holds all decisions of the session that are stored, all audited.
THEOREM ExportsAreFaithful == Spec => ExportIsFaithful
<1>1. SessionInv /\ [Next]_vars => [ExportIsAudited' /\ ExportIsComplete]_vars
  <2> SUFFICES ASSUME SessionInv, [Next]_vars
               PROVE  ExportIsAudited' /\ ExportIsComplete
    OBVIOUS
  <2>1. SessionInv'
    BY Handlers, SaveStep, SkipStep, FinalizeStep, RecoverStep, ElsewhereStep
  <2>2. CASE Finalize
    BY <2>1, <2>2, FinalizeStep DEF SessionInv
  <2>3. CASE ~Finalize
    <3>1. exported' = exported
      BY <2>3 DEF Next, Save, Skip, Recover, EditValidations, Invalidate, NewAttempt,
                  Detach, ChangeFrame, vars, records
    <3> QED
      BY <2>1, <3>1 DEF ExportIsComplete, SessionInv
  <2> QED
    BY <2>1, <2>2, <2>3 DEF SessionInv
<1> QED
  BY <1>1, SessionIsCoherent, PTL DEF Spec, ExportIsFaithful

\* No handler takes a confirmation back.
LEMMA ConfirmedStays ==
  ASSUME SessionInv, [Next]_vars, NEW i \in Ids, Confirmed(i)
  PROVE  Confirmed(i)'
<1>t. TypeOK
  BY DEF SessionInv
<1>1. ASSUME NEW k \in Ids, Decides(k) PROVE Confirmed(i)'
  BY <1>1, <1>t DEF Decides, Record, Confirmed, TypeOK
<1>2. CASE Save
  BY <1>1, <1>2, <1>t, SaveFacts DEF Ids
<1>3. ASSUME NEW k \in Ids, Recover(k) PROVE Confirmed(i)'
  BY <1>1, <1>3, <1>t, RecoverFacts
<1>4. CASE ~Save /\ ~\E k \in Ids : Recover(k)
  <2>1. submissions' = submissions
    BY <1>4 DEF Next, Skip, Finalize, EditValidations, Invalidate, NewAttempt, Detach,
                ChangeFrame, vars, records
  <2> QED
    BY <2>1 DEF Confirmed
<1> QED
  BY <1>2, <1>3, <1>4

\* A confirmation is for good, and true of the database.
THEOREM ConfirmationsStand == Spec => ConfirmationsHold
<1>1. ASSUME SessionInv, [Next]_vars, NEW i \in Ids, Confirmed(i)
      PROVE  Confirmed(i)' /\ (origin = "postgresql" => db[i] = "audited")
  BY <1>1, ConfirmedStays DEF SessionInv, ConfirmedIsAudited
<1>2. SessionInv /\ [Next]_vars =>
        [\A i \in Ids : Confirmed(i) =>
            Confirmed(i)' /\ (origin = "postgresql" => db[i] = "audited")]_vars
  BY <1>1
<1> QED
  BY <1>2, SessionIsCoherent, PTL DEF Spec, ConfirmationsHold

\* The form goes on from a row only when the decision on it is confirmed.
THEOREM FormAdvancesOnce == Spec => AdvancesOnce
<1> DEFINE Earned == /\ widget'.position = widget.position + 1
                     /\ \A i \in Own : row'[i] = widget.position => Confirmed(i)'
<1>1. ASSUME SessionInv, [Next]_vars, widget'.position # widget.position
      PROVE  Earned
  <2>t. /\ TypeOK /\ row \in [Own -> 0 .. Rows] /\ Null \notin Own
        /\ widget.position \in 1 .. Rows /\ widget.decision \in Own \cup {Null}
        /\ \A i \in Own : i \in Ids
    BY <1>1, SessionConstants DEF SessionInv, TypeOK, Ids
  <2>1. ASSUME widget' = Advanced(widget),
               NEW i \in Own \cup {Null}, i # Null => Confirmed(i)',
               \A j \in Own : row'[j] = widget.position => j = i
        PROVE  Earned
    BY <2>1, <2>t, <1>1, AdvancedFacts
  <2>2. CASE Save
    <3>1. PICK i \in Own :
            /\ i \in Prepared /\ ~widget.completed
            /\ row' = [row EXCEPT ![i] = widget.position]
            /\ \/ widget' = Advanced(widget) /\ Confirmed(i)'
               \/ widget' = [widget EXCEPT !.decision = i]
      BY <2>t, <2>2, SaveFacts
    <3>2. \A j \in Own : row'[j] = widget.position => j = i
      BY <3>1, <2>t, <1>1 DEF Prepared, SessionInv, FormIsOnItsRow
    <3>3. widget' = Advanced(widget) /\ Confirmed(i)'
      BY <3>1, <2>t, <1>1 DEF TypeOK
    <3> QED
      BY <3>1, <3>2, <3>3, <2>1
  <2>3. ASSUME NEW i \in Ids, Recover(i) PROVE Earned
    <3>1. /\ row' = row
          /\ \/ widget' = Notified(i) /\ Confirmed(i)'
             \/ UNCHANGED <<submissions, unresolved, widget>>
      BY <2>t, <2>3, RecoverFacts
    <3>2. widget' = Advanced(widget) /\ widget.decision = i /\ Confirmed(i)'
      BY <3>1, <1>1 DEF Notified
    <3>3. i \in Own /\ ~widget.completed
      BY <3>2, <2>t, <1>1, SessionConstants DEF SessionInv, FormIsOnItsRow, Ids
    <3>4. \A j \in Own : row'[j] = widget.position => j = i
      BY <3>1, <3>2, <3>3, <2>t, <1>1 DEF SessionInv, FormIsOnItsRow
    <3> QED
      BY <3>2, <3>3, <3>4, <2>1
  <2>4. CASE Skip
    <3>1. widget.decision = Null /\ ~widget.completed /\ widget' = Advanced(widget) /\ row' = row
      BY <2>4 DEF Skip
    <3>2. \A j \in Own : row'[j] = widget.position => j = Null
      BY <3>1, <2>t, <1>1 DEF SessionInv, FormIsOnItsRow
    <3> QED
      BY <3>1, <3>2, <2>1
  <2>5. CASE ~Save /\ ~Skip /\ ~\E i \in Ids : Recover(i)
    <3>1. widget'.position = widget.position
      BY <2>5, <2>t, <1>1 DEF Next, Finalize, EditValidations, Invalidate, NewAttempt,
                              Detach, ChangeFrame, vars, TypeOK
    <3> QED
      BY <3>1, <1>1
  <2> QED
    BY <2>2, <2>3, <2>4, <2>5
<1>2. SessionInv /\ [Next]_vars =>
        [widget'.position # widget.position =>
            /\ widget'.position = widget.position + 1
            /\ \A i \in Own : row'[i] = widget.position => Confirmed(i)']_vars
  BY <1>1
<1> QED
  BY <1>2, SessionIsCoherent, PTL DEF Spec, AdvancesOnce

\* A session that is not current, or was seen to be altered, changes nothing.
THEOREM BlockedSessionsAreInert == Spec => BlockedSessionIsInert
<1>1. ASSUME SessionInv, [Next]_vars, ~sealed.current \/ sealed.invalidated
      PROVE  UNCHANGED <<db, submissions, exported, widget.position>>
  <2>1. ~Intact
    BY <1>1 DEF Intact
  <2>2. \/ Invalidate \/ NewAttempt \/ Detach \/ ChangeFrame \/ UNCHANGED vars
        \/ \E i \in Ids : EditValidations(i)
    BY <1>1, <2>1 DEF Next, Save, Skip, Recover, Finalize, Finalizable
  <2>3. widget \in [position : 1 .. Rows, decision : Own \cup {Null},
                    completed : BOOLEAN, subscribed : BOOLEAN]
    BY <1>1 DEF SessionInv, TypeOK
  <2> QED
    BY <2>2, <2>3 DEF EditValidations, Invalidate, NewAttempt, Detach, ChangeFrame,
                      vars, records
<1>2. SessionInv /\ [Next]_vars =>
        [~sealed.current \/ sealed.invalidated =>
            UNCHANGED <<db, submissions, exported, widget.position>>]_vars
  BY <1>1
<1> QED
  BY <1>2, SessionIsCoherent, PTL DEF Spec, BlockedSessionIsInert
=============================================================================
