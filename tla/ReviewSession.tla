---------------------------- MODULE ReviewSession ----------------------------
(***************************************************************************)
(* The review session of the inference notebook: the widget of             *)
(* review_widgets.py, the controller and the managed session of            *)
(* review_orchestration.py, recovery, and the export of the session.       *)
(*                                                                         *)
(* A notebook kernel runs one cell or one widget callback at a time, so    *)
(* each of them is one step; what interleaves is the order in which the    *)
(* reviewer invokes them, the failures of the database call inside, and a  *)
(* KeyboardInterrupt.  ReviewDatabase says how a call may end and what it  *)
(* leaves in PostgreSQL, as ValidationPersistence shows in detail.         *)
(***************************************************************************)
EXTENDS Naturals, FiniteSets

CONSTANTS
    Own,        \* UUIDs the widget may give to new decisions
    Foreign,    \* decisions on the same predictions stored by someone else
    Rows,       \* number of rows in the review queue
    MaxFaults,  \* bound of the number of failed calls
    MaxEdits,   \* bound of the number of edits of the exposed list
    Null

VARIABLES
    origin,       \* ReviewSessionContext.origin
    db,           \* what PostgreSQL holds of each decision
    row,          \* the queue row each own decision is about
    submissions,  \* session.submissions: the status of each decision
    unresolved,   \* session.unresolved
    pending,      \* session.pending_validations
    validations,  \* session.validations
    awaiting,     \* pending_by_id of persist_and_accumulate
    widget,       \* position, the controller's decision, completed, subscribed
    sealed,       \* is_current(), the frame's fingerprint, integrity_invalidated
    exported,     \* the decisions of the last sealed package
    faults, edits

records == <<submissions, unresolved, pending, validations, awaiting>>
vars == <<origin, db, row, records, widget, sealed, exported, faults, edits>>

ASSUME SessionConstants ==
    /\ Rows \in Nat \ {0} /\ MaxFaults \in Nat /\ MaxEdits \in Nat
    /\ Own \cap Foreign = {}
    /\ Null \notin Own \cup Foreign

Ids == Own \cup Foreign

\* "saved" is stored under a running run, "stuck" under a failed one; "dead" is
\* not stored and its run has failed.
DbStates == {"absent", "dead", "saved", "stuck", "audited"}
Replies  == {"confirmed", "pending", "raise", "interrupt"}
Statuses == {"none", "sending", "confirmed", "audit-pending", "unknown"}

TypeOK ==
    /\ origin \in {"postgresql", "portable"}
    /\ db \in [Ids -> DbStates]
    /\ row \in [Own -> 0 .. Rows]
    /\ submissions \in [Ids -> Statuses]
    /\ unresolved \subseteq Own /\ awaiting \subseteq Own
    /\ pending \subseteq unresolved
    /\ validations \subseteq Ids
    /\ widget \in [position : 1 .. Rows, decision : Own \cup {Null},
                   completed : BOOLEAN, subscribed : BOOLEAN]
    /\ sealed \in [current : BOOLEAN, intact : BOOLEAN, invalidated : BOOLEAN]
    /\ exported \subseteq Ids
    /\ faults \in 0 .. MaxFaults /\ edits \in 0 .. MaxEdits

Init ==
    /\ origin \in {"postgresql", "portable"}
    /\ db \in {f \in [Ids -> {"absent", "saved", "audited"}] :
                  \A i \in Ids : f[i] = "absent" <=> i \in Own}
    /\ row = [i \in Own |-> 0]
    /\ submissions = [i \in Ids |-> "none"]
    /\ unresolved = {} /\ pending = {} /\ validations = {} /\ awaiting = {}
    /\ widget = [position |-> 1, decision |-> Null, completed |-> FALSE, subscribed |-> TRUE]
    /\ sealed = [current |-> TRUE, intact |-> TRUE, invalidated |-> FALSE]
    /\ exported = {}
    /\ faults = 0 /\ edits = 0

-----------------------------------------------------------------------------
(* The calls of review_persistence: how a call on a decision in the state s *)
(* may end, and whether that is a failure.                                  *)

Outcome(state, reply, failed) == [state |-> state, reply |-> reply, failed |-> failed]

\* Reading a decision back or repeating a write that is already there.
Unchanged(s, reply) ==
    {Outcome(s, reply, FALSE), Outcome(s, "raise", TRUE), Outcome(s, "interrupt", TRUE)}

PersistOutcomes(s) ==
    CASE s = "absent" ->
           {Outcome("audited", "confirmed", FALSE)}
           \cup {Outcome(t, "pending", TRUE) : t \in {"saved", "audited"}}
           \cup {Outcome(t, "raise", TRUE) : t \in {"absent", "dead", "saved", "stuck"}}
           \cup {Outcome(t, "interrupt", TRUE) : t \in {"absent", "saved", "audited"}}
      [] s = "dead"              -> {Outcome(s, "raise", FALSE)}
      [] s \in {"saved", "stuck"} -> Unchanged(s, "pending")
      [] s = "audited"           -> Unchanged(s, "confirmed")

ReconcileOutcomes(s) ==
    CASE s = "saved" ->
           {Outcome("audited", "confirmed", FALSE)}
           \cup {Outcome(t, "raise", TRUE) : t \in {"saved", "audited"}}
           \cup {Outcome(t, "interrupt", TRUE) : t \in {"saved", "audited"}}
      [] s = "audited" -> Unchanged(s, "confirmed")
      [] OTHER         -> {Outcome(s, "raise", FALSE)}

\* load_human_validation_record and, when the audit is incomplete, the
\* reconciliation that recovery goes on with.
RecoverOutcomes(s) ==
    IF s \in {"saved", "audited"} THEN ReconcileOutcomes(s) ELSE {Outcome(s, "raise", FALSE)}

\* A call on decision i ends as o.
Ends(i, o) ==
    /\ db' = [db EXCEPT ![i] = o.state]
    /\ faults' = IF o.failed THEN faults + 1 ELSE faults
    /\ faults' <= MaxFaults

-----------------------------------------------------------------------------
(* The session.                                                             *)

\* Mutant: the invalidation of a session is not remembered.
IntactNow == sealed.current /\ sealed.intact

\* require_integrity passes.
Intact == sealed.current /\ ~sealed.invalidated /\ sealed.intact

Confirmed(i) == submissions[i] = "confirmed"

\* record_submission; Save and Recover never call it to withdraw a confirmation.
Record(i, status) ==
    /\ submissions' = [submissions EXCEPT ![i] = status]
    /\ unresolved' = IF status = "confirmed" THEN unresolved \ {i} ELSE unresolved \cup {i}

\* The entry of a confirmed decision replaces the pending one.
Accept(i) ==
    /\ validations' = validations \cup {i}
    /\ pending' = pending \ {i}

-----------------------------------------------------------------------------
(* The widget.                                                              *)

\* advance(): the next row, or the end, which also unsubscribes.
Advanced(w) ==
    IF w.position < Rows
    THEN [w EXCEPT !.position = @ + 1, !.decision = Null]
    ELSE [w EXCEPT !.completed = TRUE, !.subscribed = FALSE, !.decision = Null]

\* Mutant: a pending audit is shown as the end of the row.
EndedAsAnswered(i, reply) ==
    /\ widget' = IF reply \in {"confirmed", "pending"} THEN Advanced(widget)
                 ELSE [widget EXCEPT !.decision = i]
    /\ row' = [row EXCEPT ![i] = widget.position]

\* The form keeps its decision until it is confirmed.
Ended(i, reply) ==
    /\ widget' = IF reply = "confirmed" THEN Advanced(widget)
                 ELSE [widget EXCEPT !.decision = i]
    /\ row' = [row EXCEPT ![i] = widget.position]

\* prepare: the decision of the form, or a new one.
Prepared ==
    IF widget.decision # Null THEN {widget.decision}
    ELSE {i \in Own : row[i] = 0}

StatusOf(reply) ==
    CASE reply = "confirmed" -> "confirmed" [] reply = "pending" -> "audit-pending"
      [] reply = "raise" -> "unknown" [] reply = "interrupt" -> "sending"

\* Mutant: a pending decision is persisted again instead of reconciled.
PersistAgain(i) == PersistOutcomes(db[i])

\* The call that persist_and_accumulate makes.
Call(i) == IF i \in awaiting THEN ReconcileOutcomes(db[i]) ELSE PersistOutcomes(db[i])

\* The lists of the session after the call; awaiting is of this submitter.
Listed(i, reply) ==
    CASE reply = "confirmed" -> Accept(i) /\ awaiting' = awaiting \ {i}
      [] reply = "pending"   -> /\ pending' = pending \cup {i}
                                /\ awaiting' = awaiting \cup {i}
                                /\ UNCHANGED validations
      [] OTHER               -> UNCHANGED <<validations, pending, awaiting>>

\* persist_and_accumulate inside guarded_submit inside controller.submit.  A
\* KeyboardInterrupt after the call leaves the lists, and perhaps the status,
\* updated, and the form where it was.
Send(i) ==
    \E o \in Call(i) :
        \/ Ends(i, o) /\ Listed(i, o.reply) /\ Record(i, StatusOf(o.reply)) /\ Ended(i, o.reply)
        \/ /\ o.reply \in {"confirmed", "pending"}
           /\ Ends(i, [o EXCEPT !.failed = TRUE])
           /\ Listed(i, o.reply)
           /\ \E status \in {"sending", StatusOf(o.reply)} : Record(i, status)
           /\ Ended(i, "interrupt")

\* The submitter of a portable session only accumulates.
SendPortable(i) ==
    /\ Record(i, "confirmed")
    /\ Accept(i)
    /\ Ended(i, "confirmed")
    /\ UNCHANGED <<db, awaiting, faults>>

\* Mutant: a confirmed decision is sent again.
SaveAgain ==
    /\ ~widget.completed
    /\ Intact
    /\ \E i \in Prepared :
        \/ origin = "postgresql" /\ Send(i)
        \/ origin = "portable" /\ SendPortable(i)
    /\ UNCHANGED <<origin, sealed, exported, edits>>

\* submit_row; a decision that recovery confirmed meanwhile is not sent again.
Save ==
    /\ ~widget.completed
    /\ Intact
    /\ \E i \in Prepared :
        \/ ~Confirmed(i) /\ origin = "postgresql" /\ Send(i)
        \/ ~Confirmed(i) /\ origin = "portable" /\ SendPortable(i)
        \/ Confirmed(i) /\ Ended(i, "confirmed") /\ UNCHANGED <<db, records, faults>>
    /\ UNCHANGED <<origin, sealed, exported, edits>>

\* skip_row: only while the form has no decision.
Skip ==
    /\ ~widget.completed
    /\ Intact
    /\ widget.decision = Null
    /\ widget' = Advanced(widget)
    /\ UNCHANGED <<origin, db, row, records, sealed, exported, faults, edits>>

-----------------------------------------------------------------------------
(* The other cells of the notebook.                                         *)

\* Mutant: the form advances on any confirmed decision.
NotifiedOfAny(i) == IF widget.subscribed THEN Advanced(widget) ELSE widget

\* on_session_change: the form follows the recovery of its own decision.
Notified(i) ==
    IF widget.subscribed /\ widget.decision = i THEN Advanced(widget) ELSE widget

\* recover_pending_review_validation, on a decision whose UUID the reviewer
\* knows.  An interrupt may come after the lists; the statements that follow
\* them, which take the decision out of unresolved and record it, are one.
Recover(i) ==
    /\ Intact
    /\ origin = "postgresql"
    /\ i \in Own => row[i] # 0
    /\ \E o \in RecoverOutcomes(db[i]) :
        /\ Ends(i, o)
        /\ \/ /\ o.reply = "confirmed"
              /\ Accept(i) /\ Record(i, "confirmed") /\ widget' = Notified(i)
           \/ /\ o.reply = "interrupt" /\ o.state = "audited"
              /\ Accept(i)
              /\ UNCHANGED <<submissions, unresolved, widget>>
           \/ /\ o.reply \in {"raise", "interrupt"}
              /\ UNCHANGED <<submissions, unresolved, pending, validations, widget>>
    /\ UNCHANGED <<origin, row, awaiting, sealed, exported, edits>>

\* Mutant: decisions that are still open do not block the export.
FinalizableWithOpen ==
    /\ Intact
    /\ validations = {i \in Ids : Confirmed(i)}

\* require_finalizable.
Finalizable ==
    /\ Intact
    /\ unresolved = {} /\ pending = {}
    /\ validations = {i \in Ids : Confirmed(i)}

\* finalize_review_session seals the validations of the session.
Finalize ==
    /\ Finalizable
    /\ exported' = validations
    /\ UNCHANGED <<origin, db, row, records, widget, sealed, faults, edits>>

\* Any of these handlers on a changed frame: it raises and blocks the session.
Invalidate ==
    /\ sealed.current /\ ~sealed.invalidated /\ ~sealed.intact
    /\ sealed' = [sealed EXCEPT !.invalidated = TRUE]
    /\ UNCHANGED <<origin, db, row, records, widget, exported, faults, edits>>

-----------------------------------------------------------------------------
(* What else happens in the kernel.                                         *)

\* The inference cell starts another attempt.
NewAttempt ==
    /\ sealed.current
    /\ sealed' = [sealed EXCEPT !.current = FALSE]
    /\ UNCHANGED <<origin, db, row, records, widget, exported, faults, edits>>

\* The review cell is run again: detach_presentations.
Detach ==
    /\ widget.subscribed
    /\ widget' = [widget EXCEPT !.subscribed = FALSE]
    /\ UNCHANGED <<origin, db, row, records, sealed, exported, faults, edits>>

\* A cell changes the export frame, or undoes the change.
ChangeFrame ==
    /\ sealed' = [sealed EXCEPT !.intact = ~@]
    /\ UNCHANGED <<origin, db, row, records, widget, exported, faults, edits>>

\* A cell edits REVIEW_VALIDATIONS, the list of the session.
EditValidations(i) ==
    /\ edits < MaxEdits
    /\ edits' = edits + 1
    /\ validations' = IF i \in validations THEN validations \ {i} ELSE validations \cup {i}
    /\ UNCHANGED <<origin, db, row, submissions, unresolved, pending, awaiting,
                   widget, sealed, exported, faults>>

Next ==
    \/ Save \/ Skip
    \/ \E i \in Ids : Recover(i) \/ EditValidations(i)
    \/ Finalize \/ Invalidate
    \/ NewAttempt \/ Detach \/ ChangeFrame

Spec == Init /\ [][Next]_vars

\* The reviewer presses the button again until the row is done, as the label
\* of the button tells ("Complete audit", "Check same decision").
FairSpec == Spec /\ WF_vars(Save)

-----------------------------------------------------------------------------
(* Properties.                                                              *)

\* A package of a PostgreSQL session holds only decisions whose audit is
\* complete ("no se exporta", ADR-0033:40), whatever calls failed before.
ExportIsAudited ==
    origin = "postgresql" => \A i \in exported : db[i] = "audited"

\* A package leaves out no decision of the session that is in the database: a
\* write whose answer was lost blocks the export instead.
ExportIsComplete ==
    exported' # exported =>
        \A i \in Own : row[i] # 0 /\ db[i] \in {"saved", "stuck", "audited"} => i \in exported'

\* A package holds the decisions of the session that are in the database with their
\* audit, all of them and no others (finalize_review_session, require_finalizable).
ExportIsFaithful == [][ExportIsAudited' /\ ExportIsComplete]_vars

\* A confirmation is never withdrawn, and says what the database has.
ConfirmationsHold ==
    [][\A i \in Ids : Confirmed(i) =>
          Confirmed(i)' /\ (origin = "postgresql" => db[i] = "audited")]_vars

\* Each row has at most one decision, and only the row on show has one that is
\* not confirmed: the form never leaves an unanswered decision behind.
OneDecisionPerRow ==
    \A i \in Own :
        row[i] # 0 =>
            /\ \A j \in Own \ {i} : row[j] # row[i]
            /\ ~Confirmed(i) => widget.decision = i /\ row[i] = widget.position

\* The form advances one row at a time, and never past a decision of that row
\* that is not confirmed, whether the reviewer or a recovery moves it.
AdvancesOnce ==
    [][widget'.position # widget.position =>
          /\ widget'.position = widget.position + 1
          /\ \A i \in Own : row'[i] = widget.position => Confirmed(i)']_vars

\* A session of an earlier attempt, or one whose frame was seen to change,
\* sends nothing and exports nothing, even if the frame is restored.
BlockedSessionIsInert ==
    [][~sealed.current \/ sealed.invalidated =>
          UNCHANGED <<db, submissions, exported, widget.position>>]_vars

\* While the database keeps the decision recoverable and the session is not
\* blocked, a reviewer who insists gets every decision confirmed.
Recoverable ==
    /\ \A i \in Ids : db[i] \notin {"dead", "stuck"}
    /\ Intact

DecisionsResolve ==
    []Recoverable => \A i \in Own : i \in unresolved ~> Confirmed(i)
=============================================================================
