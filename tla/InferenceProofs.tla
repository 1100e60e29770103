---------------------------- MODULE InferenceProofs ----------------------------
(***************************************************************************)
(* Proofs about the analysis of a video and the notebook that drives it.   *)
(*                                                                         *)
(* InferenceNotebook, for any bundles, any configurations and any order of *)
(* the cells: what a form shows, what is sealed and what the notebook says *)
(* of the database is so.  NotebookInv is inductive: a run of the database *)
(* keeps its receipt and its success, an attempt has one number and keeps  *)
(* its rows, and a form keeps the rows of its attempt.                     *)
(*                                                                         *)
(* VideoMinutes, for any scenes, any plan and any length of minutes and of *)
(* histories: every vehicle is counted once, and no view of the camera     *)
(* reaches into another.  VideoInv is inductive: the vehicles not counted  *)
(* yet make up the difference between the numbers given and the counts,    *)
(* and a minute that is not spoiled began in the view of its last frame.   *)
(*                                                                         *)
(* SpeedScale, from which the speeds of a view come: the factor of the     *)
(* perspective grows with the height and nowhere jumps.                    *)
(***************************************************************************)
EXTENDS InferenceNotebook, VideoMinutes, FiniteSetTheorems, TLAPS

-----------------------------------------------------------------------------
(* The notebook (InferenceNotebook).                                        *)

Statuses == {"absent", "running", "succeeded", "failed"}

\* What is so of every row of pipeline_runs and its receipt.
EntryIsSound(entry) ==
    /\ DOMAIN entry = {"status", "model", "receipt"}
    /\ entry.status \in Statuses
    /\ entry.status = "absent" => entry.receipt = Null
    /\ entry.receipt # Null => entry.receipt \in Rows /\ entry.receipt.model = entry.model

\* A row that follows another keeps the receipt and the success it had.
EntryStands(before, after) ==
    /\ before.receipt # Null => after.receipt = before.receipt
    /\ before.status = "succeeded" => after.status = "succeeded"

DatabaseIsSound ==
    /\ DOMAIN db = Runs
    /\ \A r \in Runs : EntryIsSound(db[r])
    /\ \A r \in manifests : r \in Runs /\ db[r].receipt # Null

\* What the kernel has in memory belongs to the video and the model it last read.
KernelIsTyped ==
    /\ used.runs \in 0 .. MaxRuns /\ used.attempts \in Nat
    /\ DOMAIN used = {"runs", "attempts"}
    /\ DOMAIN functions = {"recover", "finalize"}
    /\ bundle # Null => bundle \in Models
    /\ analysis # Null => analysis \in Runs /\ bundle \in Models
    /\ pipelineRun # Null => pipelineRun = analysis

StateIsSound ==
    state # Null =>
        /\ DOMAIN state = {"attempt", "run", "status", "rows", "persistence", "audit"}
        /\ analysis # Null /\ state.run = analysis
        /\ state.attempt = used.attempts
        /\ state.status = "ready" => state.rows \in Rows /\ state.rows.run = state.run
        /\ state.persistence = "succeeded" =>
              /\ state.status = "ready"
              /\ Stored(state.rows)
              /\ state.audit => StoredAndAudited(state.rows) /\ state.run \in manifests

\* A form has the rows of its attempt, as long as the attempt is the last one.
FormIsSound(s) ==
    /\ s.rows \in Rows /\ s.run = s.rows.run
    /\ s.attempt \in Nat /\ s.attempt <= used.attempts
    /\ state # Null /\ state.attempt = s.attempt => s.rows = state.rows
    /\ s.origin = "postgresql" => StoredAndAudited(s.rows)

FormsAreSound ==
    /\ Len(sessions) \in Nat /\ DOMAIN sessions = 1 .. Len(sessions)
    /\ \A n \in DOMAIN sessions :
          /\ DOMAIN sessions[n] = {"attempt", "run", "rows", "origin", "reviewed"}
          /\ FormIsSound(sessions[n])
    /\ exported # Null => exported \in DOMAIN sessions
    /\ functions.recover # Null => functions.recover.session \in DOMAIN sessions
    /\ functions.finalize # Null => functions.finalize.session \in DOMAIN sessions

PackageIsSound(p) ==
    /\ p.rows \in Rows /\ p.run = p.rows.run
    /\ p.origin = "postgresql" => StoredAndAudited(p.rows)

NotebookInv ==
    /\ DatabaseIsSound
    /\ KernelIsTyped
    /\ StateIsSound
    /\ FormsAreSound
    /\ \A p \in packages : PackageIsSound(p)

-----------------------------------------------------------------------------
(* The database keeps what it has.                                          *)

LEMMA OpenedStands ==
  ASSUME NEW entry, EntryIsSound(entry), NEW model
  PROVE  /\ EntryIsSound(Opened(entry, model)) /\ EntryStands(entry, Opened(entry, model))
         /\ Opened(entry, model).status # "absent"
<1>1. CASE entry.status = "absent"
  <2> DEFINE run == [status |-> "running", model |-> model, receipt |-> Null]
  <2>1. Opened(entry, model) = run
    BY <1>1 DEF Opened
  <2>2. DOMAIN run = {"status", "model", "receipt"} /\ run.status = "running" /\ run.receipt = Null
    OBVIOUS
  <2> HIDE DEF run
  <2> QED
    BY <1>1, <2>1, <2>2 DEF EntryIsSound, EntryStands, Statuses
<1>2. CASE entry.status # "absent"
  BY <1>2 DEF Opened, EntryStands
<1> QED
  BY <1>1, <1>2

LEMMA ClosedStands ==
  ASSUME NEW entry, EntryIsSound(entry), entry.status # "absent",
         NEW status \in {"succeeded", "failed"}
  PROVE  /\ EntryIsSound(Closed(entry, status)) /\ EntryStands(entry, Closed(entry, status))
         /\ Closed(entry, status).receipt = entry.receipt
         /\ Closes(entry) => Closed(entry, "succeeded").status = "succeeded"
  BY DEF EntryIsSound, EntryStands, Closed, Closes, Statuses

\* However the work of the persistence cell ends.
LEMMA EndingFacts ==
  ASSUME NEW entry, EntryIsSound(entry), NEW rows \in Rows, NEW model,
         NEW ending \in Endings(entry, rows, model)
  PROVE  /\ EntryIsSound(ending[1]) /\ EntryStands(entry, ending[1])
         /\ ending[2] \in {"cut", "error", "unaudited", "audited"}
         /\ ending[2] \in {"unaudited", "audited"} => ending[1].receipt = rows
         /\ ending[2] = "audited" => ending[1].status = "succeeded"
<1> DEFINE run == Opened(entry, model)
           full == [run EXCEPT !.receipt = rows]
           Kept(e) == EntryIsSound(e) /\ EntryStands(entry, e)
<1>1. Kept(run) /\ run.status # "absent"
  BY OpenedStands
<1>2. Stores(run, rows) => /\ Kept(full) /\ full.status = run.status /\ full.receipt = rows
                           /\ run.status # "absent"
  <2> HIDE DEF run
  <2> QED
    BY <1>1 DEF Stores, EntryIsSound, EntryStands, Statuses
<1>3. Kept(Closed(run, "failed"))
  <2> HIDE DEF run
  <2> QED
    BY <1>1, ClosedStands DEF EntryStands
<1>4. Stores(run, rows) =>
          /\ \A status \in {"succeeded", "failed"} :
                Kept(Closed(full, status)) /\ Closed(full, status).receipt = rows
          /\ Closes(full) => Closed(full, "succeeded").status = "succeeded"
  <2> HIDE DEF run, full
  <2> QED
    BY <1>2, ClosedStands DEF EntryStands
<1>5. \/ ending \in {<<entry, "cut">>, <<entry, "error">>}
      \/ ending \in {<<run, "cut">>, <<run, "error">>, <<Closed(run, "failed"), "error">>}
      \/ /\ Stores(run, rows)
         /\ ending \in {<<full, "cut">>, <<full, "error">>, <<Closed(full, "failed"), "error">>,
                        <<full, "unaudited">>}
      \/ /\ Stores(run, rows) /\ Closes(full)
         /\ ending \in {Closed(full, "succeeded")} \X {"cut", "unaudited", "audited"}
  BY DEF Endings
<1> HIDE DEF run, full
<1>6. CASE ending \in {<<entry, "cut">>, <<entry, "error">>}
  BY <1>6 DEF EntryStands
<1>7. CASE ending \in {<<run, "cut">>, <<run, "error">>, <<Closed(run, "failed"), "error">>}
  BY <1>1, <1>3, <1>7
<1>8. CASE /\ Stores(run, rows)
           /\ ending \in {<<full, "cut">>, <<full, "error">>, <<Closed(full, "failed"), "error">>,
                          <<full, "unaudited">>}
  BY <1>2, <1>4, <1>8
<1>9. CASE /\ Stores(run, rows) /\ Closes(full)
           /\ ending \in {Closed(full, "succeeded")} \X {"cut", "unaudited", "audited"}
  BY <1>4, <1>9
<1> QED
  BY <1>5, <1>6, <1>7, <1>8, <1>9

\* Evidence, once there, stays.
LEMMA EvidenceStays ==
  ASSUME DatabaseIsSound, \A r \in Runs : EntryStands(db[r], db'[r]), NEW rows \in Rows
  PROVE  /\ Stored(rows) => Stored(rows)'
         /\ StoredAndAudited(rows) => StoredAndAudited(rows)'
<1>1. rows.run \in Runs /\ rows # Null
  BY ConstantsAreSound DEF Rows
<1> QED
  BY <1>1 DEF EntryStands, Stored, StoredAndAudited
-----------------------------------------------------------------------------
(* What a step leaves to the forms, the packages and the attempt.           *)

DatabaseStands == \A r \in Runs : EntryStands(db[r], db'[r])

LEMMA NothingStands ==
  ASSUME UNCHANGED db
  PROVE  DatabaseStands
  BY DEF DatabaseStands, EntryStands

LEMMA PackagesStay ==
  ASSUME NotebookInv, DatabaseStands, UNCHANGED packages
  PROVE  \A p \in packages' : PackageIsSound(p)'
<1> SUFFICES ASSUME NEW p \in packages PROVE PackageIsSound(p)'
  OBVIOUS
<1>1. PackageIsSound(p)
  BY DEF NotebookInv
<1> QED
  BY <1>1, EvidenceStays DEF NotebookInv, DatabaseStands, PackageIsSound

\* A form keeps its rows while the attempt keeps its own, or a new one begins.
AttemptStands ==
    /\ used'.attempts \in Nat /\ used.attempts <= used'.attempts
    /\ state' # Null =>
          \/ state'.attempt \in Nat /\ used.attempts < state'.attempt
          \/ state # Null /\ state'.attempt = state.attempt /\ state'.rows = state.rows

LEMMA FormStays ==
  ASSUME NotebookInv, DatabaseStands, AttemptStands, NEW s, FormIsSound(s)
  PROVE  FormIsSound(s)'
<1>1. used.attempts \in Nat
  BY DEF NotebookInv, KernelIsTyped
<1>2. state' # Null /\ state'.attempt = s.attempt => s.rows = state'.rows
  BY <1>1 DEF AttemptStands, FormIsSound
<1>3. s.origin = "postgresql" => StoredAndAudited(s.rows)'
  BY EvidenceStays DEF NotebookInv, DatabaseStands, FormIsSound
<1>4. s.attempt <= used'.attempts
  BY <1>1 DEF AttemptStands, FormIsSound
<1> QED
  BY <1>2, <1>3, <1>4 DEF FormIsSound

LEMMA FormsStay ==
  ASSUME NotebookInv, DatabaseStands, AttemptStands, UNCHANGED sessions,
         exported' # Null => exported' \in DOMAIN sessions,
         functions'.recover # Null => functions'.recover.session \in DOMAIN sessions,
         functions'.finalize # Null => functions'.finalize.session \in DOMAIN sessions
  PROVE  FormsAreSound'
<1>1. ASSUME NEW n \in DOMAIN sessions PROVE FormIsSound(sessions[n])'
  <2>1. FormIsSound(sessions[n])
    BY DEF NotebookInv, FormsAreSound
  <2> DEFINE s == sessions[n]
  <2>2. sessions'[n] = s
    OBVIOUS
  <2> HIDE DEF s
  <2> QED
    BY <2>1, <2>2, FormStays DEF s, FormIsSound
<1> QED
  BY <1>1 DEF NotebookInv, FormsAreSound

LEMMA StateStays ==
  ASSUME NotebookInv, DatabaseStands, UNCHANGED <<state, analysis, used>>, manifests \subseteq manifests'
  PROVE  StateIsSound' /\ AttemptStands
<1>1. ASSUME state # Null, state.persistence = "succeeded"
      PROVE  Stored(state.rows)' /\ (state.audit => StoredAndAudited(state.rows)')
  <2>1. state.rows \in Rows /\ Stored(state.rows)
    BY <1>1 DEF NotebookInv, StateIsSound
  <2>2. state.audit => StoredAndAudited(state.rows)
    BY <1>1 DEF NotebookInv, StateIsSound
  <2> QED
    BY <2>1, <2>2, EvidenceStays DEF NotebookInv, DatabaseStands, Stored, StoredAndAudited
<1>2. StateIsSound'
  BY <1>1 DEF NotebookInv, StateIsSound, Stored, StoredAndAudited
<1> QED
  BY <1>2 DEF NotebookInv, KernelIsTyped, AttemptStands, StateIsSound

\* A cell that stores nothing and classifies nothing.
LEMMA QuietCell ==
  ASSUME NotebookInv, UNCHANGED <<state, analysis, used, sessions, db, manifests, packages>>,
         KernelIsTyped',
         exported' # Null => exported' \in DOMAIN sessions,
         functions'.recover # Null => functions'.recover.session \in DOMAIN sessions,
         functions'.finalize # Null => functions'.finalize.session \in DOMAIN sessions
  PROVE  NotebookInv'
<1>1. DatabaseStands
  BY NothingStands
<1>2. DatabaseIsSound'
  BY DEF NotebookInv, DatabaseIsSound
<1> QED
  BY <1>1, <1>2, PackagesStay, FormsStay, StateStays DEF NotebookInv
-----------------------------------------------------------------------------
(* The cells.                                                               *)

LEMMA AnalyzeKeeps ==
  ASSUME NotebookInv, Analyze
  PROVE  NotebookInv'
<1>1. /\ UNCHANGED <<bundle, sessions, manifests, db, packages>>
      /\ state' = Null /\ pipelineRun' = Null /\ exported' = Null /\ functions' = NoFunctions
      /\ bundle # Null
  BY DEF Analyze
<1>2. /\ used'.runs \in 0 .. MaxRuns /\ used'.attempts = used.attempts
      /\ DOMAIN used' = {"runs", "attempts"}
      /\ analysis' # Null => analysis' \in Runs
  BY ConstantsAreSound DEF Analyze, NotebookInv, KernelIsTyped, Runs
<1>3. KernelIsTyped'
  BY <1>1, <1>2 DEF NotebookInv, KernelIsTyped, NoFunctions
<1>4. StateIsSound' /\ AttemptStands
  BY <1>1, <1>2 DEF StateIsSound, AttemptStands, NotebookInv, KernelIsTyped
<1>5. DatabaseIsSound' /\ DatabaseStands
  BY <1>1, NothingStands DEF NotebookInv, DatabaseIsSound
<1>6. FormsAreSound'
  BY <1>1, <1>4, <1>5, FormsStay DEF NoFunctions
<1> QED
  BY <1>1, <1>3, <1>4, <1>5, <1>6, PackagesStay DEF NotebookInv

LEMMA ClassifyKeeps ==
  ASSUME NotebookInv, Classify
  PROVE  NotebookInv'
<1>1. /\ UNCHANGED <<bundle, analysis, sessions, manifests, db, packages>>
      /\ pipelineRun' = Null /\ exported' = Null /\ functions' = NoFunctions
  BY DEF Classify
<1>2. DatabaseIsSound' /\ DatabaseStands
  BY <1>1, NothingStands DEF NotebookInv, DatabaseIsSound
<1>3. KernelIsTyped' /\ StateIsSound' /\ AttemptStands
  <2>1. CASE UNCHANGED <<state, used>>
    <3>1. KernelIsTyped'
      BY <1>1, <2>1 DEF NotebookInv, KernelIsTyped, NoFunctions
    <3> QED
      BY <1>1, <1>2, <2>1, <3>1, StateStays
  <2>2. CASE /\ analysis # Null
             /\ used' = [used EXCEPT !.attempts = @ + 1]
             /\ \E verdict \in Verdicts(Attempt(used'.attempts, analysis)) : state' = verdict
    <3>1. /\ used'.runs = used.runs /\ used'.attempts = used.attempts + 1
          /\ DOMAIN used' = {"runs", "attempts"}
      BY <2>2 DEF NotebookInv, KernelIsTyped
    <3>2. KernelIsTyped'
      BY <1>1, <3>1 DEF NotebookInv, KernelIsTyped, NoFunctions
    <3> DEFINE a == Attempt(used'.attempts, analysis)
               rows == [run |-> analysis, model |-> bundle]
    <3>3. state' \in {a, Failed(a), [a EXCEPT !.status = "insufficient-context"],
                      [a EXCEPT !.status = "ready", !.rows = rows]}
      BY <2>2 DEF Verdicts
    <3>4. rows \in Rows /\ rows.run = analysis
      BY <2>2 DEF NotebookInv, KernelIsTyped, Rows
    <3>5. /\ DOMAIN state' = {"attempt", "run", "status", "rows", "persistence", "audit"}
          /\ state'.attempt = used'.attempts /\ state'.run = analysis
          /\ state'.persistence = "not-requested"
          /\ state'.status = "ready" => state'.rows = rows
      <4>1. /\ DOMAIN a = {"attempt", "run", "status", "rows", "persistence", "audit"}
            /\ a.attempt = used'.attempts /\ a.run = analysis
            /\ a.persistence = "not-requested" /\ a.status = "classifying"
        BY DEF Attempt
      <4> HIDE DEF rows, a
      <4> QED
        BY <3>3, <4>1 DEF Failed
    <3> HIDE DEF rows
    <3>6. StateIsSound'
      BY <1>1, <2>2, <3>4, <3>5 DEF StateIsSound
    <3>7. AttemptStands
      BY <3>1, <3>5 DEF NotebookInv, KernelIsTyped, AttemptStands
    <3> QED
      BY <3>2, <3>6, <3>7
  <2> QED
    BY <2>1, <2>2 DEF Classify
<1>4. FormsAreSound'
  BY <1>1, <1>2, <1>3, FormsStay DEF NoFunctions
<1> QED
  BY <1>1, <1>2, <1>3, <1>4, PackagesStay DEF NotebookInv

LEMMA StoreKeeps ==
  ASSUME NotebookInv, Store
  PROVE  NotebookInv'
<1>1. /\ state # Null /\ state.status = "ready"
      /\ UNCHANGED <<bundle, analysis, sessions, exported, functions, packages, used>>
  BY DEF Store, CanPersist
<1>2. /\ state.run = analysis /\ state.run \in Runs /\ state.rows \in Rows
      /\ state.rows.run = state.run /\ state.attempt = used.attempts
      /\ DOMAIN state = {"attempt", "run", "status", "rows", "persistence", "audit"}
  BY <1>1 DEF NotebookInv, StateIsSound, KernelIsTyped
<1>3. PICK ending \in Endings(db[state.run], state.rows, bundle), filed \in BOOLEAN :
          LET how == ending[2] IN
          /\ filed => MayFile(ending, state.rows)
          /\ manifests' = IF filed THEN manifests \cup {state.run} ELSE manifests
          /\ db' = [db EXCEPT ![state.run] = ending[1]]
          /\ state' = CASE how = "cut" -> Begin(state)
                        [] how = "error" -> FailPersistence(Begin(state))
                        [] OTHER -> Complete(Begin(state), how = "audited" /\ filed)
          /\ pipelineRun' = IF how \in {"audited", "unaudited"} THEN analysis ELSE Null
  BY DEF Store
<1> DEFINE how == ending[2]
<1>4. /\ EntryIsSound(ending[1]) /\ EntryStands(db[state.run], ending[1])
      /\ how \in {"cut", "error", "unaudited", "audited"}
      /\ how \in {"unaudited", "audited"} => ending[1].receipt = state.rows
      /\ how = "audited" => ending[1].status = "succeeded"
  BY <1>2, EndingFacts DEF NotebookInv, DatabaseIsSound
<1>5. DatabaseStands /\ db'[state.run] = ending[1]
  BY <1>2, <1>3, <1>4 DEF NotebookInv, DatabaseIsSound, DatabaseStands, EntryStands
<1>6. manifests \subseteq manifests' /\ (filed => state.run \in manifests')
  BY <1>3
<1>7. DatabaseIsSound'
  <2>1. DOMAIN db' = Runs /\ \A r \in Runs : EntryIsSound(db'[r])
    BY <1>2, <1>3, <1>4 DEF NotebookInv, DatabaseIsSound
  <2>2. filed => ending[1].receipt = state.rows
    BY <1>3 DEF MayFile
  <2>3. state.rows # Null
    BY <1>2, ConstantsAreSound
  <2>4. \A r \in manifests' : r \in manifests \/ (r = state.run /\ filed)
    BY <1>3
  <2>5. \A r \in manifests : r \in Runs /\ db'[r].receipt # Null
    BY <1>5 DEF DatabaseStands, EntryStands, NotebookInv, DatabaseIsSound
  <2>6. \A r \in manifests' : r \in Runs /\ db'[r].receipt # Null
    BY <1>2, <1>5, <2>2, <2>3, <2>4, <2>5
  <2> QED
    BY <2>1, <2>6 DEF DatabaseIsSound
<1>8. KernelIsTyped'
  BY <1>1, <1>3 DEF NotebookInv, KernelIsTyped
<1>9. /\ DOMAIN state' = {"attempt", "run", "status", "rows", "persistence", "audit"}
      /\ state'.attempt = state.attempt /\ state'.run = state.run
      /\ state'.status = state.status /\ state'.rows = state.rows
      /\ state'.persistence = "succeeded" => how \in {"unaudited", "audited"}
      /\ state'.persistence = "succeeded" /\ state'.audit => how = "audited" /\ filed
  <2>1. CASE how = "cut"
    <3>1. state' = Begin(state)
      BY <1>3, <2>1
    <3> QED
      BY <1>2, <3>1 DEF Begin
  <2>2. CASE how = "error"
    <3>1. state' = FailPersistence(Begin(state))
      BY <1>3, <2>2
    <3> QED
      BY <1>2, <3>1 DEF Begin, FailPersistence
  <2>3. CASE how \in {"unaudited", "audited"}
    <3> DEFINE audit == how = "audited" /\ filed
    <3>1. state' = Complete(Begin(state), audit)
      BY <1>3, <2>3
    <3>2. audit => how = "audited" /\ filed
      OBVIOUS
    <3> HIDE DEF audit
    <3>3. DOMAIN Begin(state) = DOMAIN state /\ Begin(state).attempt = state.attempt
          /\ Begin(state).run = state.run /\ Begin(state).status = state.status
          /\ Begin(state).rows = state.rows
      BY <1>2 DEF Begin
    <3>4. /\ DOMAIN state' = {"attempt", "run", "status", "rows", "persistence", "audit"}
          /\ state'.attempt = state.attempt /\ state'.run = state.run
          /\ state'.status = state.status /\ state'.rows = state.rows
      BY <1>2, <3>1, <3>3 DEF Complete
    <3>5. state'.audit = audit
      BY <1>2, <3>1, <3>3 DEF Complete
    <3> QED
      BY <2>3, <3>2, <3>4, <3>5
  <2> QED
    BY <1>4, <2>1, <2>2, <2>3
<1>10. StateIsSound'
  <2>1. how \in {"unaudited", "audited"} => Stored(state.rows)'
    <3>1. how \in {"unaudited", "audited"} => db'[state.rows.run].receipt = state.rows
      BY <1>2, <1>4, <1>5
    <3> QED
      BY <1>9, <3>1 DEF Stored
  <2>2. how = "audited" => StoredAndAudited(state.rows)'
    <3>1. how = "audited" => db'[state.rows.run].status = "succeeded"
      BY <1>2, <1>4, <1>5
    <3> QED
      BY <1>9, <2>1, <3>1 DEF StoredAndAudited
  <2> QED
    BY <1>1, <1>2, <1>6, <1>9, <2>1, <2>2 DEF StateIsSound, NotebookInv
<1>11. AttemptStands
  BY <1>1, <1>9 DEF AttemptStands, NotebookInv, KernelIsTyped
<1>12. FormsAreSound'
  BY <1>1, <1>5, <1>11, FormsStay DEF NotebookInv, FormsAreSound
<1> QED
  BY <1>1, <1>5, <1>7, <1>8, <1>10, <1>12, PackagesStay DEF NotebookInv
LEMMA PrepareKeeps ==
  ASSUME NotebookInv, Prepare
  PROVE  NotebookInv'
<1>1. UNCHANGED <<config, bundle, analysis, state, pipelineRun, functions, manifests, db,
                  packages, used>>
  BY DEF Prepare
<1>2. KernelIsTyped'
  BY <1>1 DEF NotebookInv, KernelIsTyped
<1>3. CASE exported' = Null /\ UNCHANGED sessions
  BY <1>1, <1>2, <1>3, QuietCell DEF NotebookInv, FormsAreSound
<1>4. CASE /\ CanReview(state, config.persist)
           /\ sessions' = Append(sessions,
                 Session(state.attempt, RunOfReview, state.rows,
                         IF config.persist THEN "postgresql" ELSE "portable"))
           /\ exported' = Len(sessions')
  <2>1. DatabaseIsSound' /\ DatabaseStands /\ StateIsSound' /\ AttemptStands
    BY <1>1, NothingStands, StateStays DEF NotebookInv, DatabaseIsSound
  <2> DEFINE origin == IF config.persist THEN "postgresql" ELSE "portable"
             s == Session(state.attempt, RunOfReview, state.rows, origin)
  <2>2. /\ DOMAIN s = {"attempt", "run", "rows", "origin", "reviewed"}
        /\ s.attempt = state.attempt /\ s.run = RunOfReview /\ s.rows = state.rows
        /\ s.origin = origin
    BY DEF Session
  <2>3. /\ state # Null /\ state.rows \in Rows /\ state.rows.run = analysis
        /\ state.attempt = used.attempts /\ used.attempts \in Nat
        /\ RunOfReview = analysis
        /\ config.persist => StoredAndAudited(state.rows)
    BY <1>4 DEF CanReview, CanPersist, NotebookInv, StateIsSound, KernelIsTyped, RunOfReview
  <2>4. FormIsSound(s)
    BY <2>2, <2>3 DEF FormIsSound, StoredAndAudited, Stored
  <2>5. FormIsSound(s)'
    <3>1. /\ s' = s /\ UNCHANGED <<state, db, used>>
      BY <1>1, <2>4, <1>4 DEF RunOfReview, Session
    <3> HIDE DEF s
    <3> QED
      BY <2>4, <3>1 DEF FormIsSound, StoredAndAudited, Stored
  <2>6. sessions' = Append(sessions, s)
    BY <1>4
  <2> HIDE DEF s
  <2>7. /\ Len(sessions') = Len(sessions) + 1 /\ DOMAIN sessions' = 1 .. Len(sessions')
        /\ sessions'[Len(sessions')] = s
        /\ \A n \in DOMAIN sessions : n \in DOMAIN sessions' /\ sessions'[n] = sessions[n]
    BY <2>6 DEF NotebookInv, FormsAreSound
  <2>8. ASSUME NEW n \in DOMAIN sessions'
        PROVE  DOMAIN sessions'[n] = {"attempt", "run", "rows", "origin", "reviewed"}
               /\ FormIsSound(sessions[n])'
    <3>1. CASE n \in DOMAIN sessions
      <4>1. /\ DOMAIN sessions[n] = {"attempt", "run", "rows", "origin", "reviewed"}
            /\ FormIsSound(sessions[n]) /\ sessions'[n] = sessions[n]
        BY <2>7, <3>1 DEF NotebookInv, FormsAreSound
      <4> QED
        BY <1>1, <4>1 DEF FormIsSound, StoredAndAudited, Stored
    <3>2. CASE n = Len(sessions')
      BY <1>1, <2>2, <2>4, <2>7, <3>2 DEF FormIsSound, StoredAndAudited, Stored
    <3> QED
      BY <2>7, <3>1, <3>2 DEF NotebookInv, FormsAreSound
  <2>9. FormsAreSound'
    <3>1. Len(sessions') \in Nat /\ Len(sessions') \in DOMAIN sessions'
      BY <2>7 DEF NotebookInv, FormsAreSound
    <3>2. /\ functions'.recover # Null => functions'.recover.session \in DOMAIN sessions'
          /\ functions'.finalize # Null => functions'.finalize.session \in DOMAIN sessions'
      BY <1>1, <2>7 DEF NotebookInv, FormsAreSound
    <3> QED
      BY <1>4, <2>7, <2>8, <3>1, <3>2 DEF FormsAreSound
  <2> QED
    BY <1>1, <1>2, <2>1, <2>9, PackagesStay DEF NotebookInv
<1> QED
  BY <1>3, <1>4 DEF Prepare

\* Decide and Recover.
LEMMA ReviewedKeeps ==
  ASSUME NotebookInv, NEW n \in DOMAIN sessions, NEW how, Reviewed(n, how)
  PROVE  NotebookInv'
<1>1. UNCHANGED <<config, bundle, analysis, state, pipelineRun, exported, functions,
                  manifests, db, packages, used>>
  BY DEF Reviewed
<1>2. /\ DOMAIN sessions' = DOMAIN sessions /\ Len(sessions') = Len(sessions)
      /\ \A m \in DOMAIN sessions :
            /\ DOMAIN sessions'[m] = DOMAIN sessions[m]
            /\ sessions'[m].rows = sessions[m].rows /\ sessions'[m].run = sessions[m].run
            /\ sessions'[m].attempt = sessions[m].attempt
            /\ sessions'[m].origin = sessions[m].origin
  BY DEF Reviewed, NotebookInv, FormsAreSound
<1>3. FormsAreSound'
  <2>1. \A m \in DOMAIN sessions : FormIsSound(sessions[m])'
    BY <1>1, <1>2 DEF NotebookInv, FormsAreSound, FormIsSound, StoredAndAudited, Stored
  <2> QED
    BY <1>1, <1>2, <2>1 DEF NotebookInv, FormsAreSound
<1>4. KernelIsTyped' /\ DatabaseIsSound' /\ DatabaseStands
  BY <1>1, NothingStands DEF NotebookInv, KernelIsTyped, DatabaseIsSound
<1>5. StateIsSound'
  BY <1>1, <1>4, StateStays
<1> QED
  BY <1>1, <1>3, <1>4, <1>5, PackagesStay DEF NotebookInv

LEMMA FinalizeKeeps ==
  ASSUME NotebookInv, Finalize
  PROVE  NotebookInv'
<1> DEFINE s == sessions[functions.finalize.session]
           p == [run |-> RunOfReview, rows |-> s.rows, origin |-> s.origin, reviewed |-> s.reviewed]
<1>1. /\ packages' = packages \cup {p} /\ s.run = RunOfReview
      /\ UNCHANGED <<notebook, manifests, db, used>>
      /\ functions.finalize # Null
  BY DEF Finalize
<1>2. FormIsSound(s)
  BY <1>1 DEF NotebookInv, FormsAreSound
<1>3. p.rows = s.rows /\ p.run = s.run /\ p.origin = s.origin
  BY <1>1
<1> HIDE DEF p, s
<1>4. PackageIsSound(p)
  BY <1>2, <1>3 DEF FormIsSound, PackageIsSound
<1>5. \A q \in packages' : PackageIsSound(q)'
  BY <1>1, <1>4 DEF NotebookInv, PackageIsSound, StoredAndAudited, Stored
<1>6. DatabaseIsSound' /\ KernelIsTyped' /\ DatabaseStands
  BY <1>1, NothingStands DEF notebook, NotebookInv, DatabaseIsSound, KernelIsTyped
<1>7. StateIsSound' /\ AttemptStands
  BY <1>1, <1>6, StateStays DEF notebook
<1>8. FormsAreSound'
  BY <1>1, <1>6, <1>7, FormsStay DEF notebook, NotebookInv, FormsAreSound
<1> QED
  BY <1>5, <1>6, <1>7, <1>8 DEF NotebookInv

LEMMA ReconcileKeeps ==
  ASSUME NotebookInv, NEW r \in Runs, Reconcile(r)
  PROVE  NotebookInv'
<1>1. /\ db[r].status = "running" /\ db' = [db EXCEPT ![r].status = "succeeded"]
      /\ UNCHANGED <<notebook, manifests, packages, used>>
  BY DEF Reconcile
<1>2. /\ DOMAIN db' = Runs
      /\ \A q \in Runs \ {r} : db'[q] = db[q]
      /\ DOMAIN db'[r] = DOMAIN db[r] /\ db'[r].receipt = db[r].receipt
      /\ db'[r].model = db[r].model /\ db'[r].status = "succeeded"
  BY <1>1 DEF NotebookInv, DatabaseIsSound, EntryIsSound
<1>3. DatabaseStands /\ DatabaseIsSound'
  BY <1>1, <1>2 DEF NotebookInv, DatabaseIsSound, EntryIsSound, DatabaseStands, EntryStands, Statuses
<1>4. KernelIsTyped' /\ StateIsSound' /\ AttemptStands
  BY <1>1, <1>3, StateStays DEF notebook, NotebookInv, KernelIsTyped
<1>5. FormsAreSound'
  BY <1>1, <1>3, <1>4, FormsStay DEF notebook, NotebookInv, FormsAreSound
<1> QED
  BY <1>1, <1>3, <1>4, <1>5, PackagesStay DEF NotebookInv

LEMMA RestartKeeps ==
  ASSUME NotebookInv, Restart
  PROVE  NotebookInv'
<1>1. /\ bundle' = Null /\ analysis' = Null /\ state' = Null
      /\ pipelineRun' = Null /\ sessions' = <<>> /\ exported' = Null /\ functions' = NoFunctions
      /\ UNCHANGED <<manifests, db, packages, used>>
  BY DEF Restart
<1>2. DatabaseIsSound' /\ KernelIsTyped' /\ StateIsSound' /\ FormsAreSound'
  BY <1>1 DEF NotebookInv, DatabaseIsSound, KernelIsTyped, StateIsSound, FormsAreSound, NoFunctions
<1> QED
  BY <1>1, <1>2, NothingStands, PackagesStay DEF NotebookInv

-----------------------------------------------------------------------------
(* The theorems.                                                            *)

LEMMA InitIsSound ==
  ASSUME Init
  PROVE  NotebookInv
<1>1. DatabaseIsSound
  <2>1. /\ DOMAIN NoRun = {"status", "model", "receipt"}
        /\ NoRun.status = "absent" /\ NoRun.receipt = Null
    BY DEF NoRun
  <2>2. EntryIsSound(NoRun)
    BY <2>1 DEF EntryIsSound, Statuses
  <2> QED
    BY <2>2 DEF Init, DatabaseIsSound
<1>2. KernelIsTyped
  BY ConstantsAreSound DEF Init, KernelIsTyped, NoFunctions
<1> QED
  BY <1>1, <1>2 DEF Init, NotebookInv, StateIsSound, FormsAreSound, NoFunctions

LEMMA StepKeepsInv ==
  ASSUME NotebookInv, [Next]_vars
  PROVE  NotebookInv'
<1>1. ASSUME NEW c \in Configs, Configure(c) PROVE NotebookInv'
  BY <1>1, QuietCell DEF Configure, NotebookInv, KernelIsTyped, FormsAreSound
<1>2. ASSUME NEW m \in Models, LoadBundle(m) PROVE NotebookInv'
  BY <1>2, QuietCell DEF LoadBundle, NotebookInv, KernelIsTyped, FormsAreSound
<1>3. CASE StoreNothing
  BY <1>3, QuietCell DEF StoreNothing, NotebookInv, KernelIsTyped, FormsAreSound
<1>4. CASE DefineRecover
  <2>1. /\ functions' = [functions EXCEPT !.recover = Bound(exported)] /\ exported # Null
        /\ Bound(exported).session = exported
    BY <1>4 DEF DefineRecover, Bound
  <2>2. DOMAIN functions' = DOMAIN functions /\ functions'.recover.session = exported
        /\ functions'.finalize = functions.finalize
    BY <2>1 DEF NotebookInv, KernelIsTyped
  <2> QED
    BY <1>4, <2>1, <2>2, QuietCell DEF DefineRecover, NotebookInv, KernelIsTyped, FormsAreSound
<1>5. CASE DefineFinalize
  <2>1. /\ functions' = [functions EXCEPT !.finalize = Bound(exported)] /\ exported # Null
        /\ Bound(exported).session = exported
    BY <1>5 DEF DefineFinalize, Bound
  <2>2. DOMAIN functions' = DOMAIN functions /\ functions'.finalize.session = exported
        /\ functions'.recover = functions.recover
    BY <2>1 DEF NotebookInv, KernelIsTyped
  <2> QED
    BY <1>5, <2>1, <2>2, QuietCell DEF DefineFinalize, NotebookInv, KernelIsTyped, FormsAreSound
<1>6. ASSUME NEW n \in DOMAIN sessions, Decide(n) PROVE NotebookInv'
  BY <1>6, ReviewedKeeps DEF Decide
<1>7. CASE Recover
  BY <1>7, ReviewedKeeps DEF Recover, NotebookInv, FormsAreSound
<1>8. CASE UNCHANGED vars
  BY <1>8, QuietCell DEF vars, notebook, NotebookInv, KernelIsTyped, FormsAreSound
<1> QED
  BY <1>1, <1>2, <1>3, <1>4, <1>5, <1>6, <1>7, <1>8, AnalyzeKeeps, ClassifyKeeps, StoreKeeps,
     PrepareKeeps, FinalizeKeeps, ReconcileKeeps, RestartKeeps DEF Next

\* The invariant holds in every reachable state, whatever order the cells are run
\* in: runs keep their receipt and their success, forms keep the rows of their
\* attempt, and the kernel knows which video and which model it last read.
THEOREM NotebookIsCoherent == Spec => []NotebookInv
  BY InitIsSound, StepKeepsInv, PTL DEF Spec

\* A form that takes decisions shows the rows of the classification in force under
\* their run, a review in the database is of rows stored whole under a succeeded
\* run, and a sealed package holds the rows of one classification under their run
\* (require_attempt, can_review, _review_is_current, require_finalizable).
THEOREM ReviewsStayTraceable == Spec => []ReviewsAreTraceable
<1>1. NotebookInv => ReviewsAreTraceable
  <2> SUFFICES ASSUME NotebookInv PROVE ReviewsAreTraceable
    OBVIOUS
  <2>1. ASSUME NEW n \in DOMAIN sessions
        PROVE  LET s == sessions[n] IN
               /\ s.run = s.rows.run
               /\ IsCurrent(s) => s.rows = state.rows /\ s.run = analysis
               /\ s.origin = "postgresql" => StoredAndAudited(s.rows)
    <3>1. FormIsSound(sessions[n])
      BY DEF NotebookInv, FormsAreSound
    <3>2. IsCurrent(sessions[n]) =>
              /\ state # Null /\ state.attempt = sessions[n].attempt /\ state.status = "ready"
      BY DEF IsCurrent, CanReview, CanPersist
    <3>3. state # Null /\ state.status = "ready" => state.rows.run = analysis
      BY DEF NotebookInv, StateIsSound
    <3> QED
      BY <3>1, <3>2, <3>3 DEF FormIsSound
  <2>2. \A p \in packages : p.run = p.rows.run /\ (p.origin = "postgresql" => StoredAndAudited(p.rows))
    BY DEF NotebookInv, PackageIsSound
  <2> QED
    BY <2>1, <2>2 DEF ReviewsAreTraceable
<1> QED
  BY NotebookIsCoherent, <1>1, PTL

\* An audit that is complete has its succeeded run, its receipt of these very rows
\* and its manifest; a manifest that succeeded has its rows; and where only the
\* audit is missing, storing again with the same model can complete it
\* (complete_persistence, local_stage_attempt, the persistence cell).
THEOREM AuditsStayTrue == Spec => []AuditsAreTrue
<1>1. NotebookInv => AuditsAreTrue
  <2> SUFFICES ASSUME NotebookInv PROVE AuditsAreTrue
    OBVIOUS
  <2>1. \A r \in manifests : db[r].receipt # Null
    BY DEF NotebookInv, DatabaseIsSound
  <2>2. ASSUME state # Null, state.persistence = "succeeded",
               bundle = state.rows.model, db[state.run].status # "failed"
        PROVE  \E ending \in Endings(db[state.run], state.rows, bundle) : ending[2] = "audited"
    <3> DEFINE entry == db[state.run]
               full == [entry EXCEPT !.receipt = state.rows]
    <3>1. /\ state.run \in Runs /\ state.rows \in Rows /\ state.rows # Null
          /\ EntryIsSound(entry) /\ entry.receipt = state.rows
      BY <2>2, ConstantsAreSound DEF NotebookInv, StateIsSound, KernelIsTyped, Stored, DatabaseIsSound
    <3>2. /\ entry.status \in {"running", "succeeded"} /\ entry.model = bundle
          /\ Opened(entry, bundle) = entry
      BY <2>2, <3>1 DEF EntryIsSound, Statuses, Opened
    <3>3. Opens(entry, bundle) /\ Stores(entry, state.rows)
      BY <2>2, <3>1, <3>2 DEF Opens, Stores
    <3>4. full.status = entry.status
      BY <3>1 DEF EntryIsSound
    <3>5. Closes(full)
      BY <3>2, <3>4 DEF Closes
    <3>6. <<Closed(full, "succeeded"), "audited">> \in Endings(entry, state.rows, bundle)
      BY <3>2, <3>3, <3>5 DEF Endings
    <3> QED
      BY <3>6
  <2>3. ASSUME state # Null, state.persistence = "succeeded"
        PROVE  /\ Stored(state.rows)
               /\ state.audit => StoredAndAudited(state.rows) /\ state.run \in manifests
    BY <2>3 DEF NotebookInv, StateIsSound
  <2> QED
    BY <2>1, <2>2, <2>3 DEF AuditsAreTrue
<1> QED
  BY NotebookIsCoherent, <1>1, PTL

-----------------------------------------------------------------------------
(* The session of a video (VideoMinutes).  VideoInv is inductive.           *)

\* A track as SORTTracker keeps it.
TrackRecords ==
    [id : Nat \ {0}, kind : Kinds, history : Seq(Int), lost : Nat, gap : Nat, counted : BOOLEAN]

TrackerIsSound(t) ==
    /\ t \in [tracks : SUBSET TrackRecords, next : Nat \ {0}, pruned : SUBSET Nat]
    /\ IsFiniteSet(t.tracks)
    /\ \A a \in t.tracks : a.id < t.next /\ Len(a.history) \in 1 .. HistoryLen
    /\ \A a, b \in t.tracks : a.id = b.id => a = b

MotionRecords == [standing : BOOLEAN, entry : 0 .. EntryFrames, exit : Nat]

MinuteRecords(ids) ==
    [counts : [Kinds -> Nat], counted : SUBSET ids, observed : SUBSET ids,
     nearZero : SUBSET ids, standing : SUBSET ids, rejected : SUBSET ids,
     recovered : SUBSET ids, reliable : SUBSET ids]

TelemetryRecords ==
    [to : Nat, cont : Nat, total : Nat, near : Nat, standing : Nat, rejected : Nat,
     recovered : Nat, samples : Nat]

Reports == [start : Nat, end : Nat, valid : Nat, discarded : Nat]

\* The states of the session.
SessionIsTyped ==
    /\ plan \in Plans /\ WellFormed(plan)
    /\ phase \in {"running", "done", "failed"}
    /\ frame \in Nat /\ frame <= MaxFrames /\ earlier \in Nat
    /\ view \in [active : Nat, sequence : Nat, skip : BOOLEAN, discarding : BOOLEAN]
    /\ TrackerIsSound(tracker)
    /\ motion \in [DOMAIN motion -> MotionRecords] /\ speeds \subseteq DOMAIN motion
    /\ acc \in MinuteRecords(1 .. tracker.next - 1)
    /\ cumulative \in [Kinds -> Nat]
    /\ records \in Seq(TelemetryRecords) /\ reports \in Seq(Reports)
    /\ context \in Seq(Nat)
    /\ classified \in Seq([record : Nat, context : Seq(Nat)])
    /\ latest \in 0 .. Len(records)

\* Segment i of the plan is the one of frame f.
LocatedIn(p, i, f) ==
    /\ i \in DOMAIN p /\ p[i].start <= f
    /\ p[i].end = Open \/ f < p[i].end
    /\ \A j \in 1 .. i - 1 : p[j].end # Open /\ p[j].end <= f
Located(i, f) == LocatedIn(plan, i, f)

\* The current view and minute: the number of a view is that of its segment.
ViewIsSound ==
    /\ view.discarding = view.skip
    /\ plan = NoPlan \/ frame = 0 =>
          view.active = 0 /\ view.sequence = 1 /\ ~view.skip /\ reports = <<>>
    /\ plan # NoPlan /\ frame > 0 =>
          Located(view.active, frame) /\ view.sequence = view.active /\ reports # <<>>
    /\ frame % FramesPerMinute = 0 => ~view.skip /\ acc = EmptyMinute
    /\ plan # NoPlan /\ frame % FramesPerMinute # 0 /\ ~view.skip =>
          Located(view.active, (frame - (frame % FramesPerMinute)) + 1)

RecordsAreSound ==
    /\ \A n \in DOMAIN records :
          /\ records[n].to >= FramesPerMinute
          /\ records[n].cont <= view.sequence
          /\ plan = NoPlan => records[n].cont = 1
          /\ plan # NoPlan =>
                /\ Located(records[n].cont, records[n].to)
                /\ Located(records[n].cont, records[n].to - FramesPerMinute + 1)
    /\ Len(records) + Discarded = frame \div FramesPerMinute

PredictionsAreSound ==
    /\ plan # NoPlan => ToSet(context) = {n \in DOMAIN records : records[n].cont = view.sequence}
    /\ \A n \in DOMAIN classified : classified[n].record \in DOMAIN records
    /\ PredictionsStayInView

\* Vehicles not counted yet.
Uncounted(tracks) == {t \in tracks : ~t.counted}
VehiclesAreSound ==
    /\ \A i \in acc.counted : \E t \in tracker.tracks : t.id = i /\ t.counted
    /\ Total(cumulative) = SumOver(records, LAMBDA r : r.total)
    /\ Total(cumulative) + Total(acc.counts) + Cardinality(Uncounted(tracker.tracks))
          <= earlier + tracker.next - 1
    /\ Discarded = 0 /\ ~view.skip =>
          /\ Uncounted(tracker.tracks) = {}
          /\ Total(cumulative) + Total(acc.counts) = earlier + tracker.next - 1

VideoInv ==
    /\ SessionIsTyped
    /\ ViewIsSound
    /\ RecordsAreSound
    /\ PredictionsAreSound
    /\ VehiclesAreSound
    /\ MotionIsOwn

-----------------------------------------------------------------------------
(* Sizes and sums.                                                          *)

LEMMA SameSize ==
  ASSUME NEW S, NEW T, IsFiniteSet(S), NEW f \in [S -> T],
         \A x, y \in S : f[x] = f[y] => x = y,
         \A y \in T : \E x \in S : f[x] = y
  PROVE  IsFiniteSet(T) /\ Cardinality(T) = Cardinality(S)
<1>1. DOMAIN f = S
  OBVIOUS
<1>2. f \in Bijection(S, T)
  BY <1>1 DEF Bijection, Injection, Surjection, IsInjective
<1>3. ExistsBijection(S, T)
  BY <1>2 DEF ExistsBijection
<1> QED
  BY <1>3, FS_Bijection

LEMMA AtMost ==
  ASSUME NEW S, NEW T, IsFiniteSet(T), NEW f \in [S -> T],
         \A x, y \in S : f[x] = f[y] => x = y
  PROVE  IsFiniteSet(S) /\ Cardinality(S) <= Cardinality(T)
<1>1. DOMAIN f = S
  OBVIOUS
<1>2. f \in Injection(S, T)
  BY <1>1 DEF Injection, IsInjective
<1> QED
  BY <1>2, FS_Injection

LEMMA UnitOf ==
  ASSUME NEW f, NEW p
  PROVE  p \in Units(f) <=> \E k \in DOMAIN f : \E n \in 1 .. f[k] : p = <<k, n>>
BY DEF Units

LEMMA FiniteUnits ==
  ASSUME NEW K, IsFiniteSet(K), NEW f \in [K -> Nat]
  PROVE  IsFiniteSet(Units(f)) /\ Total(f) \in Nat
<1> DEFINE Column(k) == {k} \X (1 .. f[k])
           Columns == {Column(k) : k \in K}
           columns == [k \in K |-> Column(k)]
<1>1. columns \in Surjection(K, Columns)
  BY DEF Surjection
<1>2. IsFiniteSet(Columns)
  <2> HIDE DEF Columns, columns
  <2> QED
    BY <1>1, FS_Surjection
<1>3. ASSUME NEW c \in Columns PROVE IsFiniteSet(c)
  <2>1. PICK k \in K : c = Column(k)
    OBVIOUS
  <2>2. f[k] \in Int
    OBVIOUS
  <2>3. IsFiniteSet(1 .. f[k])
    BY <2>2, FS_Interval
  <2>4. IsFiniteSet({k})
    BY FS_Singleton
  <2> QED
    BY <2>1, <2>3, <2>4, FS_Product
<1>4. IsFiniteSet(UNION Columns)
  <2> HIDE DEF Columns
  <2> QED
    BY <1>2, <1>3, FS_UNION
<1>5. Units(f) = UNION Columns
  <2>1. DOMAIN f = K
    OBVIOUS
  <2> QED
    BY <2>1 DEF Units
<1> QED
  BY <1>4, <1>5, FS_CardinalityType DEF Total

\* The sum of two functions, point by point.
LEMMA TotalOfSum ==
  ASSUME NEW K, IsFiniteSet(K), NEW f \in [K -> Nat], NEW g \in [K -> Nat],
         NEW h \in [K -> Nat], \A k \in K : h[k] = f[k] + g[k]
  PROVE  Total(h) = Total(f) + Total(g)
<1> DEFINE above == {p \in Units(h) : p[2] > f[p[1]]}
           lift == [p \in Units(g) |-> <<p[1], p[2] + f[p[1]]>>]
<1>1. IsFiniteSet(Units(f)) /\ IsFiniteSet(Units(g))
  BY FiniteUnits
<1>2. \A p \in Units(g) : p[1] \in K /\ p[2] \in 1 .. g[p[1]] /\ p = <<p[1], p[2]>>
  BY UnitOf
<1>3. lift \in [Units(g) -> above]
  <2> SUFFICES ASSUME NEW p \in Units(g) PROVE <<p[1], p[2] + f[p[1]]>> \in above
    OBVIOUS
  <2>1. p[1] \in K /\ p[2] \in 1 .. g[p[1]] /\ f[p[1]] \in Nat /\ h[p[1]] = f[p[1]] + g[p[1]]
        /\ g[p[1]] \in Nat
    BY <1>2
  <2>2. p[2] + f[p[1]] \in 1 .. h[p[1]] /\ p[2] + f[p[1]] > f[p[1]]
    BY <2>1
  <2>3. <<p[1], p[2] + f[p[1]]>> \in Units(h)
    BY <2>1, <2>2, UnitOf
  <2> QED
    BY <2>2, <2>3
<1>4. ASSUME NEW p \in Units(g), NEW q \in Units(g), lift[p] = lift[q] PROVE p = q
  <2>1. PICK k \in K : \E n \in 1 .. g[k] : p = <<k, n>>
    BY UnitOf
  <2>2. PICK n \in 1 .. g[k] : p = <<k, n>>
    BY <2>1
  <2>3. PICK l \in K : \E m \in 1 .. g[l] : q = <<l, m>>
    BY UnitOf
  <2>4. PICK m \in 1 .. g[l] : q = <<l, m>>
    BY <2>3
  <2>5. lift[p] = <<k, n + f[k]>> /\ lift[q] = <<l, m + f[l]>>
    BY <2>2, <2>4
  <2>6. k = l /\ n + f[k] = m + f[l]
    BY <1>4, <2>5
  <2>7. n \in Int /\ m \in Int /\ f[k] \in Int
    BY <2>6
  <2> QED
    BY <2>2, <2>4, <2>6, <2>7
<1>5. ASSUME NEW q \in above PROVE \E p \in Units(g) : lift[p] = q
  <2>0. PICK k \in K : \E n \in 1 .. h[k] : q = <<k, n>>
    BY UnitOf
  <2>1. PICK n \in 1 .. h[k] : q = <<k, n>>
    BY <2>0
  <2>2. n > f[k] /\ f[k] \in Nat /\ g[k] \in Nat /\ h[k] = f[k] + g[k]
    BY <2>1
  <2>3. n - f[k] \in 1 .. g[k] /\ (n - f[k]) + f[k] = n
    BY <2>2
  <2>4. <<k, n - f[k]>> \in Units(g)
    BY <2>3, UnitOf
  <2>5. lift[<<k, n - f[k]>>] = <<k, (n - f[k]) + f[k]>>
    BY <2>4
  <2> QED
    BY <2>1, <2>3, <2>4, <2>5
<1>6. IsFiniteSet(above) /\ Cardinality(above) = Total(g)
  <2> HIDE DEF above, lift
  <2> QED
    BY <1>1, <1>3, <1>4, <1>5, SameSize DEF Total
<1>7. Units(h) = Units(f) \cup above /\ Units(f) \cap above = {}
  <2>1. ASSUME NEW p \in Units(h) PROVE p \in Units(f) \/ p \in above
    <3>0. PICK k \in K : \E n \in 1 .. h[k] : p = <<k, n>>
      BY UnitOf
    <3>1. PICK n \in 1 .. h[k] : p = <<k, n>>
      BY <3>0
    <3>2. CASE n > f[k]
      BY <3>1, <3>2
    <3>3. CASE n <= f[k]
      BY <3>1, <3>3, UnitOf
    <3> QED
      BY <3>1, <3>2, <3>3
  <2>2. ASSUME NEW p \in Units(f) PROVE p \in Units(h) /\ p \notin above
    <3>0. PICK k \in K : \E n \in 1 .. f[k] : p = <<k, n>>
      BY UnitOf
    <3>1. PICK n \in 1 .. f[k] : p = <<k, n>>
      BY <3>0
    <3>2. n \in 1 .. h[k] /\ ~(n > f[k])
      BY <3>1
    <3> QED
      BY <3>1, <3>2, UnitOf
  <2> QED
    BY <2>1, <2>2
<1>8. Cardinality(Units(h)) = Cardinality(Units(f)) + Cardinality(above)
                              - Cardinality(Units(f) \cap above)
  <2> HIDE DEF above
  <2> QED
    BY <1>1, <1>6, <1>7, FS_Union
<1>9. Cardinality(Units(f) \cap above) = 0
  <2> HIDE DEF above
  <2> QED
    BY <1>7, FS_EmptySet
<1>10. Total(f) \in Nat /\ Total(g) \in Nat
  BY FiniteUnits
<1> HIDE DEF above
<1> QED
  BY <1>6, <1>8, <1>9, <1>10 DEF Total

LEMMA TotalOfPoint ==
  ASSUME NEW K, NEW f \in [K -> Nat], NEW x \in K, \A k \in K \ {x} : f[k] = 0
  PROVE  Total(f) = f[x]
<1>1. Units(f) = {x} \X (1 .. f[x])
  <2>1. ASSUME NEW p \in Units(f) PROVE p \in {x} \X (1 .. f[x])
    <3>1. PICK k \in K : \E n \in 1 .. f[k] : p = <<k, n>>
      BY UnitOf
    <3>2. k = x
      BY <3>1
    <3> QED
      BY <3>1, <3>2
  <2>2. ASSUME NEW p \in {x} \X (1 .. f[x]) PROVE p \in Units(f)
    BY UnitOf
  <2> QED
    BY <2>1, <2>2
<1>2. IsFiniteSet({x}) /\ Cardinality({x}) = 1
  BY FS_Singleton
<1>3. f[x] \in Nat
  OBVIOUS
<1>4. IsFiniteSet(1 .. f[x]) /\ Cardinality(1 .. f[x]) = f[x]
  BY <1>3, FS_Interval
<1>5. Cardinality({x} \X (1 .. f[x])) = Cardinality({x}) * Cardinality(1 .. f[x])
  BY <1>2, <1>4, FS_Product
<1> QED
  BY <1>1, <1>2, <1>3, <1>4, <1>5 DEF Total

LEMMA TotalOfNothing ==
  ASSUME NEW f, \A k \in DOMAIN f : f[k] = 0
  PROVE  Total(f) = 0
<1>1. Units(f) = {}
  <2> SUFFICES ASSUME NEW p \in Units(f) PROVE FALSE
    OBVIOUS
  <2>1. PICK k \in DOMAIN f : \E n \in 1 .. f[k] : p = <<k, n>>
    BY UnitOf
  <2> QED
    BY <2>1
<1> QED
  BY <1>1, FS_EmptySet DEF Total

\* One more in one place.
LEMMA TotalRaised ==
  ASSUME NEW K, IsFiniteSet(K), NEW f \in [K -> Nat], NEW g \in [K -> Nat],
         NEW x \in K, g[x] = f[x] + 1, \A k \in K \ {x} : g[k] = f[k]
  PROVE  Total(g) = Total(f) + 1
<1> DEFINE one == [k \in K |-> IF k = x THEN 1 ELSE 0]
<1>1. one \in [K -> Nat] /\ one[x] = 1 /\ \A k \in K \ {x} : one[k] = 0
  OBVIOUS
<1>2. \A k \in K : g[k] = f[k] + one[k]
  OBVIOUS
<1> HIDE DEF one
<1>3. Total(one) = 1
  BY <1>1, TotalOfPoint
<1> QED
  BY <1>1, <1>2, <1>3, TotalOfSum

LEMMA TotalExtended ==
  ASSUME NEW K, IsFiniteSet(K), NEW x, x \notin K, NEW f \in [K -> Nat],
         NEW g \in [K \cup {x} -> Nat], \A k \in K : g[k] = f[k]
  PROVE  Total(g) = Total(f) + g[x]
<1> DEFINE wide == [k \in K \cup {x} |-> IF k = x THEN 0 ELSE f[k]]
           last == [k \in K \cup {x} |-> IF k = x THEN g[x] ELSE 0]
<1>1. wide \in [K \cup {x} -> Nat] /\ wide[x] = 0 /\ \A k \in K : wide[k] = f[k]
  OBVIOUS
<1>2. last \in [K \cup {x} -> Nat] /\ last[x] = g[x] /\ \A k \in (K \cup {x}) \ {x} : last[k] = 0
  OBVIOUS
<1>3. \A k \in K \cup {x} : g[k] = wide[k] + last[k]
  OBVIOUS
<1> HIDE DEF wide, last
<1>4. Units(wide) = Units(f)
  <2>1. DOMAIN wide = K \cup {x} /\ DOMAIN f = K
    BY <1>1
  <2>2. ASSUME NEW p \in Units(wide) PROVE p \in Units(f)
    <3>1. PICK k \in K \cup {x} : \E n \in 1 .. wide[k] : p = <<k, n>>
      BY <2>1, UnitOf
    <3>2. k \in K
      BY <1>1, <3>1
    <3>3. \E n \in 1 .. f[k] : p = <<k, n>>
      BY <1>1, <3>1, <3>2
    <3> QED
      BY <2>1, <3>2, <3>3, UnitOf
  <2>3. ASSUME NEW p \in Units(f) PROVE p \in Units(wide)
    <3>1. PICK k \in K : \E n \in 1 .. f[k] : p = <<k, n>>
      BY <2>1, UnitOf
    <3>2. \E n \in 1 .. wide[k] : p = <<k, n>>
      BY <1>1, <3>1
    <3> QED
      BY <2>1, <3>2, UnitOf
  <2> QED
    BY <2>2, <2>3
<1>5. Total(wide) = Total(f)
  BY <1>4 DEF Total
<1>6. Total(last) = g[x]
  BY <1>2, TotalOfPoint
<1>7. IsFiniteSet(K \cup {x})
  BY FS_AddElement
<1>8. ASSUME NEW L, L = K \cup {x} PROVE Total(g) = Total(wide) + Total(last)
  <2>1. IsFiniteSet(L) /\ wide \in [L -> Nat] /\ last \in [L -> Nat] /\ g \in [L -> Nat]
        /\ \A k \in L : g[k] = wide[k] + last[k]
    BY <1>1, <1>2, <1>3, <1>7, <1>8
  <2> QED
    BY <2>1, TotalOfSum
<1>9. Total(g) = Total(wide) + Total(last)
  BY <1>8
<1> QED
  BY <1>5, <1>6, <1>9

\* One more at the end of a sequence.
LEMMA TotalAppended ==
  ASSUME NEW n \in Nat, NEW f \in [1 .. n -> Nat], NEW g \in [1 .. n + 1 -> Nat],
         \A i \in 1 .. n : g[i] = f[i]
  PROVE  Total(g) = Total(f) + g[n + 1]
<1>1. 1 .. n + 1 = (1 .. n) \cup {n + 1} /\ n + 1 \notin 1 .. n
  OBVIOUS
<1>2. IsFiniteSet(1 .. n)
  BY FS_Interval
<1>3. IsFiniteSet(1 .. n) /\ n + 1 \notin 1 .. n /\ f \in [1 .. n -> Nat]
      /\ g \in [(1 .. n) \cup {n + 1} -> Nat] /\ \A i \in 1 .. n : g[i] = f[i]
  BY <1>1, <1>2
<1>4. \A K, x : IsFiniteSet(K) /\ x \notin K =>
         \A a \in [K -> Nat], b \in [K \cup {x} -> Nat] :
            (\A k \in K : b[k] = a[k]) => Total(b) = Total(a) + b[x]
  BY TotalExtended
<1>5. \A a \in [1 .. n -> Nat], b \in [(1 .. n) \cup {n + 1} -> Nat] :
         (\A k \in 1 .. n : b[k] = a[k]) => Total(b) = Total(a) + b[n + 1]
  <2>1. IsFiniteSet(1 .. n) /\ n + 1 \notin 1 .. n
    BY <1>3
  <2> QED
    BY <2>1, <1>4, Zenon
<1> QED
  BY <1>3, <1>5, Zenon

\* Counting by kind counts everything once.
LEMMA TotalByKind ==
  ASSUME NEW S, IsFiniteSet(S), NEW K, IsFiniteSet(K), \A t \in S : t.kind \in K
  PROVE  /\ [k \in K |-> Cardinality({t \in S : t.kind = k})] \in [K -> Nat]
         /\ Total([k \in K |-> Cardinality({t \in S : t.kind = k})]) = Cardinality(S)
<1> DEFINE of(k) == {t \in S : t.kind = k}
           sizes == [k \in K |-> Cardinality(of(k))]
           number == [k \in K |-> CHOOSE b : b \in Bijection(1 .. Cardinality(of(k)), of(k))]
           member == [p \in Units(sizes) |-> number[p[1]][p[2]]]
<1>1. ASSUME NEW k \in K
      PROVE  /\ IsFiniteSet(of(k)) /\ Cardinality(of(k)) \in Nat /\ sizes[k] = Cardinality(of(k))
             /\ number[k] \in Bijection(1 .. sizes[k], of(k))
  <2>1. of(k) \in SUBSET S
    OBVIOUS
  <2>2. sizes[k] = Cardinality(of(k))
    OBVIOUS
  <2>3. number[k] = CHOOSE b : b \in Bijection(1 .. Cardinality(of(k)), of(k))
    OBVIOUS
  <2> HIDE DEF of, sizes, number
  <2>4. IsFiniteSet(of(k))
    BY <2>1, FS_Subset
  <2>5. Cardinality(of(k)) \in Nat /\ ExistsBijection(1 .. Cardinality(of(k)), of(k))
    BY <2>4, FS_CardinalityType
  <2>6. \E b : b \in Bijection(1 .. Cardinality(of(k)), of(k))
    BY <2>5 DEF ExistsBijection
  <2>7. number[k] \in Bijection(1 .. Cardinality(of(k)), of(k))
    BY <2>3, <2>6
  <2> QED
    BY <2>2, <2>4, <2>5, <2>7
<1>2. sizes \in [K -> Nat]
  BY <1>1
<1>3. IsFiniteSet(Units(sizes))
  <2> HIDE DEF sizes
  <2> QED
    BY <1>2, FiniteUnits
<1>4. \A k \in K : \A t : t \in of(k) <=> t \in S /\ t.kind = k
  OBVIOUS
<1>5. \A p \in Units(sizes) : member[p] = number[p[1]][p[2]]
  OBVIOUS
<1>6. DOMAIN member = Units(sizes) /\ member = [p \in Units(sizes) |-> member[p]]
  OBVIOUS
<1> HIDE DEF of, sizes, number, member
<1>7. ASSUME NEW k \in K
      PROVE  /\ number[k] \in [1 .. sizes[k] -> of(k)]
             /\ \A m, n \in 1 .. sizes[k] : number[k][m] = number[k][n] => m = n
             /\ \A t \in of(k) : \E n \in 1 .. sizes[k] : number[k][n] = t
  <2>1. number[k] \in Bijection(1 .. sizes[k], of(k))
    BY <1>1
  <2>2. number[k] \in [1 .. sizes[k] -> of(k)] /\ IsInjective(number[k])
        /\ \A t \in of(k) : \E n \in 1 .. sizes[k] : number[k][n] = t
    BY <2>1 DEF Bijection, Injection, Surjection
  <2>3. DOMAIN number[k] = 1 .. sizes[k]
    BY <2>2
  <2> QED
    BY <2>2, <2>3 DEF IsInjective
<1>8. ASSUME NEW p \in Units(sizes)
      PROVE  \E k \in K : \E n \in 1 .. sizes[k] : p = <<k, n>> /\ member[p] = number[k][n]
                                                 /\ member[p] \in of(k)
  <2>0. DOMAIN sizes = K
    BY <1>2
  <2>1. PICK k \in K : \E n \in 1 .. sizes[k] : p = <<k, n>>
    BY <2>0, UnitOf
  <2>2. PICK n \in 1 .. sizes[k] : p = <<k, n>>
    BY <2>1
  <2>3. member[p] = number[k][n]
    BY <1>5, <2>2
  <2>4. number[k][n] \in of(k)
    BY <1>7
  <2> QED
    BY <2>2, <2>3, <2>4
<1>9. member \in [Units(sizes) -> S]
  <2>1. \A p \in Units(sizes) : member[p] \in S
    BY <1>4, <1>8
  <2> QED
    BY <1>6, <2>1
<1>10. ASSUME NEW p \in Units(sizes), NEW q \in Units(sizes), member[p] = member[q] PROVE p = q
  <2>1. PICK k \in K : \E n \in 1 .. sizes[k] : p = <<k, n>> /\ member[p] = number[k][n]
                                               /\ member[p] \in of(k)
    BY <1>8
  <2>2. PICK n \in 1 .. sizes[k] : p = <<k, n>> /\ member[p] = number[k][n] /\ member[p] \in of(k)
    BY <2>1
  <2>3. PICK l \in K : \E m \in 1 .. sizes[l] : q = <<l, m>> /\ member[q] = number[l][m]
                                               /\ member[q] \in of(l)
    BY <1>8
  <2>4. PICK m \in 1 .. sizes[l] : q = <<l, m>> /\ member[q] = number[l][m] /\ member[q] \in of(l)
    BY <2>3
  <2>5. k = l
    BY <1>4, <1>10, <2>2, <2>4
  <2> QED
    BY <1>7, <1>10, <2>2, <2>4, <2>5
<1>11. ASSUME NEW t \in S PROVE \E p \in Units(sizes) : member[p] = t
  <2>1. t.kind \in K /\ t \in of(t.kind)
    BY <1>4
  <2>2. PICK n \in 1 .. sizes[t.kind] : number[t.kind][n] = t
    BY <1>7, <2>1
  <2>3. DOMAIN sizes = K
    BY <1>2
  <2>4. <<t.kind, n>> \in Units(sizes)
    BY <2>1, <2>3, UnitOf
  <2>5. member[<<t.kind, n>>] = number[t.kind][n]
    BY <1>5, <2>4
  <2> QED
    BY <2>2, <2>4, <2>5
<1>12. Cardinality(S) = Cardinality(Units(sizes))
  BY <1>3, <1>9, <1>10, <1>11, SameSize
<1> QED
  BY <1>2, <1>12 DEF Total, sizes, of

-----------------------------------------------------------------------------
(* Minutes and segments.                                                    *)

LEMMA DivMod ==
  ASSUME NEW f \in Nat, NEW m \in Nat \ {0}
  PROVE  /\ f % m \in 0 .. m - 1 /\ f \div m \in Nat
         /\ f = m * (f \div m) + (f % m)
<1>1. f % m \in 0 .. m - 1
  OBVIOUS
<1>2. f \div m \in Int
  OBVIOUS
<1>3. f = m * (f \div m) + (f % m)
  OBVIOUS
<1>4. f \div m \in Nat
  OBVIOUS
<1> QED
  BY <1>1, <1>2, <1>3, <1>4

LEMMA DivModUnique ==
  ASSUME NEW m \in Nat \ {0}, NEW q \in Int, NEW r \in 0 .. m - 1, NEW p \in Int, NEW s \in 0 .. m - 1,
         m * q + r = m * p + s
  PROVE  q = p /\ r = s
<1>1. ~ (q >= p + 1)
  <2> SUFFICES ASSUME q >= p + 1 PROVE FALSE
    OBVIOUS
  <2>1. m * (q - p) >= m
    BY SMT
  <2>2. m * (q - p) = m * q - m * p
    BY SMT
  <2> QED
    BY <2>1, <2>2, SMT
<1>2. ~ (p >= q + 1)
  <2> SUFFICES ASSUME p >= q + 1 PROVE FALSE
    OBVIOUS
  <2>1. m * (p - q) >= m
    BY SMT
  <2>2. m * (p - q) = m * p - m * q
    BY SMT
  <2> QED
    BY <2>1, <2>2, SMT
<1>3. q = p
  BY <1>1, <1>2
<1> QED
  BY <1>3

\* The time of k minutes and r frames, by the clock and by the rounding of the minutes.
LEMMA DriftOfTime ==
  ASSUME NEW f \in Nat, NEW m \in Nat, NEW k \in Nat, NEW r \in Nat,
         NEW p \in Nat, NEW q \in Nat, f = m * k + r
  PROVE  /\ k * p \in Nat /\ r * q - k * (p - m * q) \in Int /\ f * q \in Nat
         /\ f * q = k * p + (r * q - k * (p - m * q))
<1>1. \A a, b \in Nat : a * b \in Nat
  BY SMT
<1>2. k * (p - m * q) = k * p - k * (m * q)
  BY SMT
<1>3. f * q = k * (m * q) + r * q
  BY SMT
<1>4. k * p \in Nat /\ r * q \in Nat /\ k * (m * q) \in Nat /\ f * q \in Nat
  BY <1>1
<1> QED
  BY <1>2, <1>3, <1>4

\* The rest of a time after k minutes is its remainder when it is less than a minute.
LEMMA TimeInMinute ==
  ASSUME NEW t \in Nat, NEW p \in Nat \ {0}, NEW k \in Nat, NEW rest \in Int,
         k * p \in Nat, t = k * p + rest
  PROVE  k * p + (t % p) = t <=> rest >= 0 /\ rest < p
<1>1. t % p \in 0 .. p - 1 /\ t \div p \in Nat /\ t = p * (t \div p) + (t % p)
  BY DivMod
<1>2. ASSUME k * p + (t % p) = t PROVE rest >= 0 /\ rest < p
  BY <1>1, <1>2
<1>3. ASSUME rest >= 0, rest < p PROVE k * p + (t % p) = t
  <2> DEFINE d == t \div p
             s == t % p
  <2>1. rest \in 0 .. p - 1
    BY <1>3
  <2>2. p * k = k * p
    BY SMT
  <2>3. s \in 0 .. p - 1 /\ d \in Int /\ t = p * d + s
    BY <1>1
  <2> HIDE DEF d, s
  <2>4. p * k + rest = p * d + s /\ k \in Int
    BY <2>2, <2>3
  <2>5. rest = s
    BY <2>1, <2>3, <2>4, DivModUnique
  <2> QED
    BY <2>5 DEF s
<1> QED
  BY <1>2, <1>3

\* The frame after f is in the same minute, or it is the last of it.
LEMMA NextMinute ==
  ASSUME NEW f \in Nat, NEW m \in Nat \ {0}
  PROVE  /\ f % m = m - 1 => (f + 1) % m = 0 /\ (f + 1) \div m = (f \div m) + 1
         /\ f % m # m - 1 => (f + 1) % m = (f % m) + 1 /\ (f + 1) \div m = f \div m
<1> DEFINE q == f \div m
           r == f % m
           p == (f + 1) \div m
           s == (f + 1) % m
<1>1. r \in 0 .. m - 1 /\ q \in Int /\ f = m * q + r
  BY DivMod
<1>2. s \in 0 .. m - 1 /\ p \in Int /\ f + 1 = m * p + s
  BY DivMod
<1> HIDE DEF q, r, p, s
<1>3. CASE r = m - 1
  <2>1. m * (q + 1) + 0 = m * p + s
    BY <1>1, <1>2, <1>3
  <2>2. 0 \in 0 .. m - 1 /\ q + 1 \in Int
    BY <1>1
  <2>3. q + 1 = p /\ 0 = s
    BY <1>2, <2>1, <2>2, DivModUnique
  <2> QED
    BY <1>1, <1>3, <2>3 DEF q, r, p, s
<1>4. CASE r # m - 1
  <2>1. m * q + (r + 1) = m * p + s
    BY <1>1, <1>2, <1>4
  <2>2. r + 1 \in 0 .. m - 1
    BY <1>1, <1>4
  <2>3. q = p /\ r + 1 = s
    BY <1>1, <1>2, <2>1, <2>2, DivModUnique
  <2> QED
    BY <1>4, <2>3 DEF q, r, p, s
<1> QED
  BY <1>3, <1>4

LEMMA ElementIn ==
  ASSUME NEW S, NEW s \in Seq(S)
  PROVE  DOMAIN s = 1 .. Len(s) /\ Len(s) \in Nat /\ \A i \in 1 .. Len(s) : s[i] \in S
OBVIOUS

LEMMA PlanFacts ==
  ASSUME plan \in Plans, WellFormed(plan), plan # NoPlan
  PROVE  /\ plan \in Seq([start : Nat, end : Nat, profile : STRING]) /\ Len(plan) \in Nat \ {0}
         /\ DOMAIN plan = 1 .. Len(plan)
         /\ \A i \in DOMAIN plan : plan[i].start \in Nat /\ plan[i].end \in Nat
         /\ plan[1].start = 1 /\ plan[Len(plan)].end = Open
         /\ \A i \in 1 .. Len(plan) - 1 :
               plan[i].end > plan[i].start /\ plan[i + 1].start = plan[i].end
<1>1. plan \in Seq([start : Nat, end : Nat, profile : STRING])
  BY VideoConstants
<1>2. Len(plan) \in Nat \ {0} /\ DOMAIN plan = 1 .. Len(plan)
  BY <1>1 DEF NoPlan
<1>3. \A i \in DOMAIN plan : plan[i].start \in Nat /\ plan[i].end \in Nat
  <2> TAKE i \in DOMAIN plan
  <2>1. i \in 1 .. Len(plan)
    BY <1>2
  <2>2. plan[i] \in [start : Nat, end : Nat, profile : STRING]
    BY <1>1, <2>1, ElementIn
  <2> QED
    BY <2>2
<1> QED
  BY <1>1, <1>2, <1>3 DEF WellFormed

\* A located segment is the one segment_index finds.
LEMMA LocatedIsIndex ==
  ASSUME plan \in Plans, WellFormed(plan), plan # NoPlan, NEW f \in Nat, NEW i, Located(i, f)
  PROVE  SegmentIndex(f) = i
<1> DEFINE Here(k) == Covers(plan[k], f) /\ \A j \in 1 .. k - 1 : ~Covers(plan[j], f)
<1>1. i \in DOMAIN plan /\ DOMAIN plan = 1 .. Len(plan) /\ Len(plan) \in Nat
      /\ \A k \in DOMAIN plan : plan[k].start \in Nat /\ plan[k].end \in Nat
  BY PlanFacts DEF Located, LocatedIn
<1>2. Here(i)
  BY <1>1 DEF Located, LocatedIn, Covers, Open
<1>3. ASSUME NEW k \in DOMAIN plan, Here(k) PROVE k = i
  BY <1>1, <1>2, <1>3
<1> HIDE DEF Here
<1>4. (CHOOSE k \in DOMAIN plan : Here(k)) = i
  BY <1>1, <1>2, <1>3
<1> QED
  BY <1>4 DEF SegmentIndex, Here

LEMMA FirstIsLocated ==
  ASSUME plan \in Plans, WellFormed(plan), plan # NoPlan
  PROVE  Located(1, 1)
<1>1. /\ Len(plan) \in Nat \ {0} /\ DOMAIN plan = 1 .. Len(plan) /\ plan[1].start = 1
      /\ plan[Len(plan)].end = Open
      /\ \A i \in DOMAIN plan : plan[i].end \in Nat
      /\ \A i \in 1 .. Len(plan) - 1 : plan[i].end > plan[i].start
  BY PlanFacts
<1>2. plan[1].end = Open \/ 1 < plan[1].end
  BY <1>1
<1> QED
  BY <1>1, <1>2 DEF Located, LocatedIn

\* From one frame to the next the segment is the same or the one that follows.
LEMMA NextIsLocated ==
  ASSUME plan \in Plans, WellFormed(plan), plan # NoPlan, NEW f \in Nat, NEW i, Located(i, f)
  PROVE  Located(i, f + 1) \/ Located(i + 1, f + 1)
<1>1. /\ Len(plan) \in Nat \ {0} /\ DOMAIN plan = 1 .. Len(plan)
      /\ \A k \in DOMAIN plan : plan[k].start \in Nat /\ plan[k].end \in Nat
      /\ plan[Len(plan)].end = Open
      /\ \A k \in 1 .. Len(plan) - 1 :
            plan[k].end > plan[k].start /\ plan[k + 1].start = plan[k].end
  BY PlanFacts
<1>2. i \in 1 .. Len(plan) /\ plan[i].start <= f /\ (plan[i].end = Open \/ f < plan[i].end)
      /\ \A j \in 1 .. i - 1 : plan[j].end # Open /\ plan[j].end <= f
  BY <1>1 DEF Located, LocatedIn
<1>3. CASE plan[i].end = Open \/ f + 1 < plan[i].end
  <2>1. ASSUME NEW j \in 1 .. i - 1 PROVE plan[j].end # Open /\ plan[j].end <= f + 1
    <3>1. j \in DOMAIN plan
      BY <1>1, <1>2
    <3>2. plan[j].end \in Nat
      BY <1>1, <3>1
    <3> QED
      BY <1>2, <3>2
  <2>2. i \in DOMAIN plan /\ plan[i].start <= f + 1
    BY <1>1, <1>2
  <2> QED
    BY <1>3, <2>1, <2>2 DEF Located, LocatedIn
<1>4. CASE plan[i].end # Open /\ ~(f + 1 < plan[i].end)
  <2>1. plan[i].end = f + 1 /\ i \in 1 .. Len(plan) - 1
    BY <1>1, <1>2, <1>4
  <2>2. plan[i + 1].start = f + 1 /\ i + 1 \in DOMAIN plan
    BY <1>1, <2>1
  <2>3. plan[i + 1].end = Open \/ f + 1 < plan[i + 1].end
    BY <1>1, <2>1, <2>2
  <2>4. \A j \in 1 .. (i + 1) - 1 : plan[j].end # Open /\ plan[j].end <= f + 1
    <3> TAKE j \in 1 .. (i + 1) - 1
    <3>1. CASE j = i
      BY <1>4, <2>1, <3>1
    <3>2. CASE j # i
      <4>1. j \in 1 .. i - 1 /\ plan[j].end \in Nat
        BY <1>1, <1>2, <3>2
      <4> QED
        BY <1>2, <4>1
    <3> QED
      BY <3>1, <3>2
  <2> QED
    BY <2>2, <2>3, <2>4 DEF Located, LocatedIn
<1> QED
  BY <1>3, <1>4

-----------------------------------------------------------------------------
(* The tracker.                                                             *)

\* u is what a frame made of the vehicle t.
Follows(u, t) ==
    /\ u.id = t.id /\ u.kind = t.kind /\ u.counted = t.counted
    /\ Len(u.history) >= Len(t.history)
    /\ u.lost = 0 => Len(u.history) = IF Len(t.history) < HistoryLen THEN Len(t.history) + 1
                                                                   ELSE HistoryLen

DetectionRecords == [kind : Kinds, place : Int]

\* A started vehicle has a number of its own.
LEMMA NewIdsDiffer ==
  ASSUME NEW tr, tr.next \in Nat \ {0}, NEW n \in Nat, NEW fresh \in SUBSET (1 .. n)
  PROVE  /\ IsFiniteSet(fresh) /\ Cardinality(fresh) \in Nat
         /\ \A d \in fresh :
               /\ NewIds(tr, fresh)[d] \in Nat
               /\ NewIds(tr, fresh)[d] >= tr.next
               /\ NewIds(tr, fresh)[d] < tr.next + Cardinality(fresh)
         /\ \A d, e \in fresh : NewIds(tr, fresh)[d] = NewIds(tr, fresh)[e] => d = e
<1> DEFINE earlierOf(d) == {e \in fresh : e < d}
           ids == NewIds(tr, fresh)
<1>1. IsFiniteSet(fresh)
  <2>1. IsFiniteSet(1 .. n)
    BY FS_Interval
  <2> QED
    BY <2>1, FS_Subset
<1>2. Cardinality(fresh) \in Nat
  BY <1>1, FS_CardinalityType
<1>3. ASSUME NEW d \in fresh
      PROVE  /\ IsFiniteSet(earlierOf(d)) /\ Cardinality(earlierOf(d)) \in Nat
             /\ Cardinality(earlierOf(d)) < Cardinality(fresh)
  <2>1. earlierOf(d) \in SUBSET fresh /\ earlierOf(d) # fresh
    OBVIOUS
  <2> HIDE DEF earlierOf
  <2>2. IsFiniteSet(earlierOf(d)) /\ Cardinality(earlierOf(d)) <= Cardinality(fresh)
        /\ Cardinality(fresh) # Cardinality(earlierOf(d))
    BY <1>1, <2>1, FS_Subset
  <2>3. Cardinality(earlierOf(d)) \in Nat
    BY <2>2, FS_CardinalityType
  <2> QED
    BY <1>2, <2>2, <2>3
<1>4. \A d \in fresh : ids[d] = tr.next + Cardinality(earlierOf(d))
  BY DEF NewIds
<1>5. ASSUME NEW d \in fresh, NEW e \in fresh, d < e
      PROVE  Cardinality(earlierOf(d)) < Cardinality(earlierOf(e))
  <2>1. earlierOf(d) \in SUBSET earlierOf(e) /\ earlierOf(d) # earlierOf(e)
    <3>1. d \in earlierOf(e) /\ d \notin earlierOf(d)
      BY <1>5
    <3>2. \A x \in earlierOf(d) : x \in earlierOf(e)
      BY <1>5
    <3> QED
      BY <3>1, <3>2
  <2> HIDE DEF earlierOf
  <2>2. Cardinality(earlierOf(d)) <= Cardinality(earlierOf(e))
        /\ Cardinality(earlierOf(d)) # Cardinality(earlierOf(e))
    BY <1>3, <2>1, FS_Subset
  <2> QED
    BY <1>3, <2>2
<1> HIDE DEF earlierOf, ids
<1>6. ASSUME NEW d \in fresh, NEW e \in fresh, ids[d] = ids[e] PROVE d = e
  <2>1. Cardinality(earlierOf(d)) = Cardinality(earlierOf(e))
    BY <1>3, <1>4, <1>6
  <2>2. ~(d < e) /\ ~(e < d)
    BY <1>3, <1>5, <2>1
  <2> QED
    BY <2>2
<1> QED
  BY <1>1, <1>2, <1>3, <1>4, <1>6 DEF ids

\* What becomes of a track that was there before the frame.
Becomes(x, t, detections, taken) ==
    \/ \E p \in taken : p[1] = t /\ x = Seen(t, detections[p[2]].place)
    \/ x = Missed(t) /\ \A p \in taken : p[1] # t

LEMMA SeenFollows ==
  ASSUME NEW t \in TrackRecords, Len(t.history) \in 1 .. HistoryLen, NEW place \in Int
  PROVE  /\ Seen(t, place) \in TrackRecords /\ Len(Seen(t, place).history) \in 1 .. HistoryLen
         /\ Follows(Seen(t, place), t) /\ Seen(t, place).lost = 0
<1> DEFINE places == Append(t.history, place)
           kept == IF Len(places) > HistoryLen THEN Tail(places) ELSE places
<1>1. t.history \in Seq(Int) /\ HistoryLen \in Nat \ {0} /\ t.lost \in Nat
  BY TrackConstants DEF TrackRecords
<1>2. places \in Seq(Int) /\ Len(places) = Len(t.history) + 1
  BY <1>1
<1>3. kept \in Seq(Int) /\ Len(kept) = IF Len(t.history) < HistoryLen THEN Len(t.history) + 1
                                                                   ELSE HistoryLen
  BY <1>1, <1>2
<1>4. Seen(t, place) = [t EXCEPT !.history = kept, !.gap = t.lost, !.lost = 0]
  BY DEF Seen
<1> HIDE DEF places, kept
<1>5. Seen(t, place) \in TrackRecords
  <2>1. \A a \in Seq(Int) : [t EXCEPT !.history = a] \in TrackRecords
    BY DEF TrackRecords
  <2>2. \A u \in TrackRecords, b \in Nat : [u EXCEPT !.gap = b] \in TrackRecords
    BY DEF TrackRecords
  <2>3. \A u \in TrackRecords : [u EXCEPT !.lost = 0] \in TrackRecords
    BY DEF TrackRecords
  <2>4. [[[t EXCEPT !.history = kept] EXCEPT !.gap = t.lost] EXCEPT !.lost = 0] \in TrackRecords
    BY <1>1, <1>3, <2>1, <2>2, <2>3, Zenon
  <2> QED
    BY <1>4, <2>4
<1>6. Seen(t, place).history = kept /\ Seen(t, place).lost = 0 /\ Seen(t, place).id = t.id
      /\ Seen(t, place).kind = t.kind /\ Seen(t, place).counted = t.counted
  BY <1>4 DEF TrackRecords
<1>7. Len(kept) \in 1 .. HistoryLen /\ Len(kept) >= Len(t.history)
  BY <1>1, <1>3
<1> QED
  BY <1>3, <1>5, <1>6, <1>7 DEF Follows

LEMMA MissedFollows ==
  ASSUME NEW t \in TrackRecords, Len(t.history) \in 1 .. HistoryLen
  PROVE  /\ Missed(t) \in TrackRecords /\ Missed(t).history = t.history
         /\ Follows(Missed(t), t) /\ Missed(t).lost # 0
<1>0. t.lost + 1 \in Nat /\ Missed(t) = [t EXCEPT !.lost = t.lost + 1]
  BY DEF Missed, TrackRecords
<1>1. Missed(t) \in TrackRecords /\ Missed(t).history = t.history
  BY <1>0 DEF TrackRecords
<1>2. Missed(t).lost = t.lost + 1 /\ t.lost \in Nat /\ Missed(t).id = t.id
      /\ Missed(t).kind = t.kind /\ Missed(t).counted = t.counted
  BY DEF Missed, TrackRecords
<1> QED
  BY <1>1, <1>2 DEF Follows

LEMMA BecomesOne ==
  ASSUME NEW tr, TrackerIsSound(tr), NEW detections \in Seq(DetectionRecords),
         NEW taken \in Matchings(tr.tracks, detections), NEW t \in tr.tracks
  PROVE  /\ \E x : Becomes(x, t, detections, taken)
         /\ \A x, y : Becomes(x, t, detections, taken) /\ Becomes(y, t, detections, taken) => x = y
         /\ \A x : Becomes(x, t, detections, taken) =>
               /\ x \in TrackRecords /\ Len(x.history) \in 1 .. HistoryLen
               /\ Follows(x, t)
<1>1. taken \subseteq tr.tracks \X DOMAIN detections
      /\ \A p, q \in taken : p[1] = q[1] => p = q
  BY DEF Matchings, Pairs, Shares
<1>2. t \in TrackRecords /\ Len(t.history) \in 1 .. HistoryLen
  BY DEF TrackerIsSound
<1>3. ASSUME NEW p \in taken PROVE detections[p[2]].place \in Int
  <2>1. p[2] \in DOMAIN detections
    BY <1>1
  <2>2. detections[p[2]] \in DetectionRecords
    BY <2>1, ElementIn
  <2> QED
    BY <2>2 DEF DetectionRecords
<1>4. ASSUME NEW x, Becomes(x, t, detections, taken)
      PROVE  x \in TrackRecords /\ Len(x.history) \in 1 .. HistoryLen /\ Follows(x, t)
  BY <1>2, <1>3, <1>4, SeenFollows, MissedFollows DEF Becomes
<1>5. ASSUME NEW x, NEW y, Becomes(x, t, detections, taken), Becomes(y, t, detections, taken)
      PROVE  x = y
  BY <1>1, <1>5 DEF Becomes
<1>6. \E x : Becomes(x, t, detections, taken)
  BY DEF Becomes
<1> QED
  BY <1>4, <1>5, <1>6

\* What a frame does to a tracker: the vehicles it had are followed or forgotten, the
\* others are new and in sight, one of each detection that matched none.
FrameOf(tr, found, new) ==
    /\ TrackerIsSound(found)
    /\ new \in Nat /\ found.next = tr.next + new
    /\ \A t \in tr.tracks : t.id \in found.pruned \/ \E u \in found.tracks : Follows(u, t)
    /\ \A u \in found.tracks :
          /\ u.id \notin found.pruned
          /\ \/ u.id >= tr.next /\ ~u.counted /\ u.lost = 0 /\ u.kind \in Kinds
             \/ \E t \in tr.tracks : Follows(u, t)
    /\ Cardinality({u \in found.tracks : u.id >= tr.next}) = new

LEMMA TrackedIsFrame ==
  ASSUME NEW tr, TrackerIsSound(tr), NEW detections \in Seq(DetectionRecords),
         NEW taken \in Matchings(tr.tracks, detections)
  PROVE  \E new : FrameOf(tr, Tracked(tr, detections, taken), new)
<1> DEFINE fresh == DOMAIN detections \ {p[2] : p \in taken}
           ids == NewIds(tr, fresh)
           begun(d) == Started(ids[d], detections[d])
           beguns == {begun(d) : d \in fresh}
           known == {Seen(p[1], detections[p[2]].place) : p \in taken}
                      \cup {Missed(t) : t \in tr.tracks \ {p[1] : p \in taken}}
           all == known \cup beguns
           found == Tracked(tr, detections, taken)
           after == [t \in tr.tracks |-> CHOOSE x : Becomes(x, t, detections, taken)]
<1>1. /\ tr.tracks \in SUBSET TrackRecords /\ tr.next \in Nat \ {0} /\ IsFiniteSet(tr.tracks)
      /\ \A t \in tr.tracks : t.id \in Nat \ {0} /\ t.id < tr.next
      /\ \A t, u \in tr.tracks : t.id = u.id => t = u
  BY DEF TrackerIsSound, TrackRecords
<1>2. fresh \in SUBSET (1 .. Len(detections)) /\ Len(detections) \in Nat
  OBVIOUS
<1>3. /\ IsFiniteSet(fresh) /\ Cardinality(fresh) \in Nat
      /\ \A d \in fresh : ids[d] \in Nat /\ ids[d] >= tr.next
                          /\ ids[d] < tr.next + Cardinality(fresh)
      /\ \A d, e \in fresh : ids[d] = ids[e] => d = e
  <2> HIDE DEF fresh
  <2> QED
    BY <1>1, <1>2, NewIdsDiffer
<1>4. /\ found.tracks = {t \in all : t.lost <= MaxLost}
      /\ found.next = tr.next + Cardinality(fresh)
      /\ found.pruned = {t.id : t \in {u \in all : u.lost > MaxLost}}
      /\ found = [tracks |-> found.tracks, next |-> found.next, pruned |-> found.pruned]
  BY DEF Tracked
<1>5. ASSUME NEW t \in tr.tracks
      PROVE  /\ Becomes(after[t], t, detections, taken)
             /\ after[t] \in TrackRecords /\ Len(after[t].history) \in 1 .. HistoryLen
             /\ Follows(after[t], t)
             /\ \A x : Becomes(x, t, detections, taken) => x = after[t]
  <2>1. after[t] = CHOOSE x : Becomes(x, t, detections, taken)
    OBVIOUS
  <2>2. Becomes(after[t], t, detections, taken)
    BY <2>1, BecomesOne
  <2> QED
    BY <2>2, BecomesOne
<1>6. taken \subseteq tr.tracks \X DOMAIN detections
  BY DEF Matchings, Pairs
<1>7. known = {after[t] : t \in tr.tracks}
  <2>1. ASSUME NEW x \in known PROVE \E t \in tr.tracks : x = after[t]
    <3>1. CASE \E p \in taken : x = Seen(p[1], detections[p[2]].place)
      <4>1. PICK p \in taken : x = Seen(p[1], detections[p[2]].place)
        BY <3>1
      <4>2. p[1] \in tr.tracks /\ Becomes(x, p[1], detections, taken)
        BY <1>6, <4>1 DEF Becomes
      <4> QED
        BY <1>5, <4>2
    <3>2. CASE \E t \in tr.tracks \ {p[1] : p \in taken} : x = Missed(t)
      <4>1. PICK t \in tr.tracks \ {p[1] : p \in taken} : x = Missed(t)
        BY <3>2
      <4>2. Becomes(x, t, detections, taken)
        BY <4>1 DEF Becomes
      <4> QED
        BY <1>5, <4>1, <4>2
    <3> QED
      BY <3>1, <3>2
  <2>2. ASSUME NEW t \in tr.tracks PROVE after[t] \in known
    <3>1. Becomes(after[t], t, detections, taken)
      BY <1>5
    <3>2. CASE \E p \in taken : p[1] = t /\ after[t] = Seen(t, detections[p[2]].place)
      BY <3>2
    <3>3. CASE after[t] = Missed(t) /\ \A p \in taken : p[1] # t
      BY <3>3
    <3> QED
      BY <3>1, <3>2, <3>3 DEF Becomes
  <2> HIDE DEF known, after
  <2> QED
    BY <2>1, <2>2
<1>8. ASSUME NEW d \in fresh
      PROVE  /\ begun(d) \in TrackRecords /\ Len(begun(d).history) \in 1 .. HistoryLen
             /\ begun(d).id = ids[d] /\ begun(d).lost = 0 /\ ~begun(d).counted
  <2>1. detections[d] \in DetectionRecords
    BY <1>2, ElementIn
  <2>2. detections[d].kind \in Kinds /\ detections[d].place \in Int
    BY <2>1 DEF DetectionRecords
  <2>3. ids[d] \in Nat \ {0}
    BY <1>1, <1>3
  <2>4. <<detections[d].place>> \in Seq(Int) /\ Len(<<detections[d].place>>) = 1
    BY <2>2
  <2>5. begun(d) = [id |-> ids[d], kind |-> detections[d].kind, history |-> <<detections[d].place>>,
                    lost |-> 0, gap |-> 0, counted |-> FALSE]
    BY DEF Started
  <2> HIDE DEF begun, ids
  <2>6. begun(d) \in TrackRecords
    BY <2>2, <2>3, <2>4, <2>5 DEF TrackRecords
  <2>7. HistoryLen \in Nat \ {0}
    BY TrackConstants
  <2> QED
    BY <2>4, <2>5, <2>6, <2>7
<1> HIDE DEF after, known, fresh, found, ids
<1>9. ASSUME NEW x \in all
      PROVE  /\ x \in TrackRecords /\ Len(x.history) \in 1 .. HistoryLen
             /\ x.id < tr.next + Cardinality(fresh)
             /\ \/ \E d \in fresh : x = begun(d) /\ x.id = ids[d]
                \/ \E t \in tr.tracks : x = after[t] /\ Follows(x, t)
  <2>1. CASE x \in beguns
    <3>1. PICK d \in fresh : x = begun(d)
      BY <2>1
    <3> QED
      BY <1>3, <1>8, <3>1
  <2>2. CASE x \in known
    <3>1. PICK t \in tr.tracks : x = after[t]
      BY <1>7, <2>2
    <3>2. x \in TrackRecords /\ Len(x.history) \in 1 .. HistoryLen /\ Follows(x, t)
      BY <1>5, <3>1
    <3>3. x.id < tr.next + Cardinality(fresh)
      BY <1>1, <1>3, <3>2 DEF Follows
    <3> QED
      BY <3>1, <3>2, <3>3
  <2> QED
    BY <2>1, <2>2
<1>10. ASSUME NEW x \in all, NEW y \in all, x.id = y.id PROVE x = y
  <2>1. ASSUME NEW d \in fresh, NEW t \in tr.tracks PROVE begun(d).id # after[t].id
    BY <1>1, <1>3, <1>5, <1>8 DEF Follows
  <2>2. CASE (\E d \in fresh : x = begun(d)) /\ (\E d \in fresh : y = begun(d))
    BY <1>3, <1>8, <1>10, <2>2
  <2>3. CASE (\E t \in tr.tracks : x = after[t] /\ Follows(x, t))
             /\ (\E t \in tr.tracks : y = after[t] /\ Follows(y, t))
    BY <1>1, <1>10, <2>3 DEF Follows
  <2> QED
    BY <1>9, <1>10, <2>1, <2>2, <2>3
<1>11. IsFiniteSet(all)
  <2>1. after \in Surjection(tr.tracks, known)
    <3>1. after = [t \in tr.tracks |-> after[t]]
      BY DEF after
    <3>2. \A t \in tr.tracks : after[t] \in known
      BY <1>7
    <3>3. \A x \in known : \E t \in tr.tracks : after[t] = x
      BY <1>7
    <3> QED
      BY <3>1, <3>2, <3>3 DEF Surjection
  <2>2. IsFiniteSet(known)
    BY <1>1, <2>1, FS_Surjection
  <2>3. [d \in fresh |-> begun(d)] \in Surjection(fresh, beguns)
    BY DEF Surjection
  <2>4. IsFiniteSet(beguns)
    <3> HIDE DEF beguns
    <3> QED
      BY <1>3, <2>3, FS_Surjection
  <2> HIDE DEF beguns
  <2> QED
    BY <2>2, <2>4, FS_Union
<1>12. TrackerIsSound(found)
  <2>1. found.tracks \in SUBSET all /\ found.tracks \in SUBSET TrackRecords
    BY <1>4, <1>9
  <2>2. found.pruned \in SUBSET Nat
    <3> SUFFICES ASSUME NEW i \in found.pruned PROVE i \in Nat
      OBVIOUS
    <3>1. PICK x \in all : i = x.id
      BY <1>4
    <3>2. x \in TrackRecords
      BY <1>9
    <3> QED
      BY <3>1, <3>2 DEF TrackRecords
  <2>3. found.next \in Nat \ {0}
    BY <1>1, <1>3, <1>4
  <2>4. found \in [tracks : SUBSET TrackRecords, next : Nat \ {0}, pruned : SUBSET Nat]
    <3>1. ASSUME NEW a \in SUBSET TrackRecords, NEW b \in Nat \ {0}, NEW c \in SUBSET Nat
          PROVE  [tracks |-> a, next |-> b, pruned |-> c]
                   \in [tracks : SUBSET TrackRecords, next : Nat \ {0}, pruned : SUBSET Nat]
      OBVIOUS
    <3> QED
      BY <1>4, <2>1, <2>2, <2>3, <3>1
  <2>5. IsFiniteSet(found.tracks)
    <3> HIDE DEF all
    <3> QED
      BY <1>11, <2>1, FS_Subset
  <2> HIDE DEF all
  <2> QED
    BY <1>4, <1>9, <1>10, <2>1, <2>4, <2>5 DEF TrackerIsSound
<1>13. ASSUME NEW t \in tr.tracks
       PROVE  t.id \in found.pruned \/ \E u \in found.tracks : Follows(u, t)
  <2>1. after[t] \in all /\ Follows(after[t], t) /\ after[t] \in TrackRecords
    BY <1>5, <1>7
  <2>2. after[t].lost \in Nat /\ after[t].id = t.id /\ MaxLost \in Nat
    BY <2>1, TrackConstants DEF TrackRecords, Follows
  <2> HIDE DEF all
  <2>3. CASE after[t].lost <= MaxLost
    BY <1>4, <2>1, <2>3
  <2>4. CASE after[t].lost > MaxLost
    BY <1>4, <2>1, <2>2, <2>4
  <2> QED
    BY <2>2, <2>3, <2>4
<1>14. ASSUME NEW u \in found.tracks
       PROVE  /\ u.id \notin found.pruned
              /\ \/ u.id >= tr.next /\ ~u.counted /\ u.lost = 0 /\ u.kind \in Kinds
                 \/ \E t \in tr.tracks : Follows(u, t)
  <2>1. u \in all /\ u.lost <= MaxLost /\ u \in TrackRecords /\ MaxLost \in Nat
    BY <1>4, <1>9, TrackConstants
  <2>2. u.id \notin found.pruned
    <3> SUFFICES ASSUME u.id \in found.pruned PROVE FALSE
      OBVIOUS
    <3> HIDE DEF all
    <3>1. PICK x \in all : x.lost > MaxLost /\ u.id = x.id
      BY <1>4
    <3>2. x = u
      BY <1>10, <2>1, <3>1
    <3>3. u.lost \in Nat
      BY <2>1 DEF TrackRecords
    <3> QED
      BY <2>1, <3>1, <3>2, <3>3
  <2>3. u.kind \in Kinds
    BY <2>1 DEF TrackRecords
  <2>4. CASE \E d \in fresh : u = begun(d) /\ u.id = ids[d]
    BY <1>3, <1>8, <2>2, <2>3, <2>4
  <2> QED
    BY <1>9, <2>1, <2>2, <2>4
<1>15. Cardinality({u \in found.tracks : u.id >= tr.next}) = Cardinality(fresh)
  <2> DEFINE news == {u \in found.tracks : u.id >= tr.next}
             start == [d \in fresh |-> begun(d)]
  <2>1. ASSUME NEW d \in fresh PROVE begun(d) \in news /\ start[d] = begun(d)
    <3>1. begun(d) \in all /\ begun(d).lost <= MaxLost /\ begun(d).id >= tr.next
      BY <1>3, <1>8, TrackConstants
    <3> HIDE DEF all, begun
    <3> QED
      BY <1>4, <3>1
  <2>2. ASSUME NEW u \in news PROVE \E d \in fresh : start[d] = u
    <3>1. u \in all /\ u.id >= tr.next
      BY <1>4
    <3>2. ASSUME NEW t \in tr.tracks, Follows(u, t) PROVE FALSE
      BY <1>1, <3>1, <3>2 DEF Follows
    <3>3. PICK d \in fresh : u = begun(d)
      BY <1>9, <3>1, <3>2
    <3> QED
      BY <2>1, <3>3
  <2>3. ASSUME NEW d \in fresh, NEW e \in fresh, start[d] = start[e] PROVE d = e
    BY <1>3, <1>8, <2>1, <2>3
  <2>4. start \in [fresh -> news]
    BY <2>1
  <2> HIDE DEF news, start
  <2>5. Cardinality(news) = Cardinality(fresh)
    BY <1>3, <2>2, <2>3, <2>4, SameSize
  <2> QED
    BY <2>5 DEF news
<1>16. FrameOf(tr, found, Cardinality(fresh))
  BY <1>3, <1>4, <1>12, <1>13, <1>14, <1>15 DEF FrameOf
<1> QED
  BY <1>16 DEF found

Marks(found, new, marked) ==
    \A u \in found.tracks : \E x \in marked.tracks :
        /\ x.id = u.id /\ x.history = u.history /\ x.lost = u.lost
        /\ u.counted \/ u \in new => x.counted

\* Counting vehicles changes nothing else about them.
LEMMA MarkingKeeps ==
  ASSUME NEW found, TrackerIsSound(found), NEW new \in SUBSET found.tracks,
         NEW marked, marked = [found EXCEPT !.tracks = MarkCounted(@, new)]
  PROVE  /\ TrackerIsSound(marked) /\ marked.next = found.next
         /\ Marks(found, new, marked)
         /\ Uncounted(marked.tracks) = Uncounted(found.tracks) \ new
<1> DEFINE mark(u) == IF u \in new THEN [u EXCEPT !.counted = TRUE] ELSE u
           tracks == MarkCounted(found.tracks, new)
           marks == [u \in found.tracks |-> mark(u)]
<1>1. /\ found.tracks \in SUBSET TrackRecords /\ found.next \in Nat \ {0}
      /\ found.pruned \in SUBSET Nat /\ IsFiniteSet(found.tracks)
      /\ \A a \in found.tracks : a.id < found.next /\ Len(a.history) \in 1 .. HistoryLen
      /\ \A a, b \in found.tracks : a.id = b.id => a = b
  BY DEF TrackerIsSound
<1>2. marked.tracks = tracks /\ marked.next = found.next /\ marked.pruned = found.pruned
      /\ marked = [tracks |-> tracks, next |-> found.next, pruned |-> found.pruned]
  BY DEF TrackerIsSound
<1>3. tracks = {mark(u) : u \in found.tracks}
  BY DEF MarkCounted
<1>4. ASSUME NEW u \in TrackRecords
      PROVE  /\ [u EXCEPT !.counted = TRUE] \in TrackRecords
             /\ [u EXCEPT !.counted = TRUE].id = u.id
             /\ [u EXCEPT !.counted = TRUE].history = u.history
             /\ [u EXCEPT !.counted = TRUE].lost = u.lost
             /\ [u EXCEPT !.counted = TRUE].counted
  BY DEF TrackRecords
<1>5. ASSUME NEW u \in found.tracks
      PROVE  /\ mark(u) \in TrackRecords /\ mark(u).id = u.id /\ mark(u).history = u.history
             /\ mark(u).lost = u.lost
             /\ u.counted \/ u \in new => mark(u).counted
  BY <1>1, <1>4
<1> HIDE DEF mark, tracks
<1>6. IsFiniteSet(tracks)
  <2>1. marks \in Surjection(found.tracks, tracks)
    BY <1>3 DEF Surjection
  <2> HIDE DEF marks
  <2> QED
    BY <1>1, <2>1, FS_Surjection
<1>7. TrackerIsSound(marked)
  <2>1. tracks \in SUBSET TrackRecords
    BY <1>3, <1>5
  <2>2. \A a \in tracks : a.id < found.next /\ Len(a.history) \in 1 .. HistoryLen
    BY <1>1, <1>3, <1>5
  <2>3. \A a, b \in tracks : a.id = b.id => a = b
    BY <1>1, <1>3, <1>5
  <2>4. marked \in [tracks : SUBSET TrackRecords, next : Nat \ {0}, pruned : SUBSET Nat]
    <3>1. ASSUME NEW a \in SUBSET TrackRecords, NEW b \in Nat \ {0}, NEW c \in SUBSET Nat
          PROVE  [tracks |-> a, next |-> b, pruned |-> c]
                   \in [tracks : SUBSET TrackRecords, next : Nat \ {0}, pruned : SUBSET Nat]
      OBVIOUS
    <3> QED
      BY <1>1, <1>2, <2>1, <3>1
  <2> QED
    BY <1>2, <1>6, <2>2, <2>3, <2>4 DEF TrackerIsSound
<1>8. ASSUME NEW u \in found.tracks
      PROVE  \E x \in tracks :
               /\ x.id = u.id /\ x.history = u.history /\ x.lost = u.lost
               /\ u.counted \/ u \in new => x.counted
  BY <1>3, <1>5
<1>9. Uncounted(tracks) = Uncounted(found.tracks) \ new
  <2>1. ASSUME NEW x \in Uncounted(tracks) PROVE x \in Uncounted(found.tracks) \ new
    <3>1. x \in tracks /\ ~x.counted
      BY DEF Uncounted
    <3>2. PICK u \in found.tracks : x = mark(u)
      BY <1>3, <3>1
    <3>3. u \notin new
      BY <1>5, <3>1, <3>2
    <3>4. x = u
      BY <3>2, <3>3 DEF mark
    <3> QED
      BY <3>1, <3>3, <3>4 DEF Uncounted
  <2>2. ASSUME NEW x \in Uncounted(found.tracks) \ new PROVE x \in Uncounted(tracks)
    <3>1. x \in found.tracks /\ ~x.counted /\ mark(x) = x
      BY DEF Uncounted, mark
    <3> QED
      BY <1>3, <3>1 DEF Uncounted
  <2> QED
    BY <2>1, <2>2
<1>10. Marks(found, new, marked)
  BY <1>2, <1>8 DEF Marks
<1> QED
  BY <1>2, <1>7, <1>9, <1>10

-----------------------------------------------------------------------------
(* The minute.                                                              *)

LEMMA EmptyMinuteIsTyped ==
  ASSUME NEW ids
  PROVE  EmptyMinute \in MinuteRecords(ids) /\ Total(NoCounts) = 0
         /\ EmptyMinute.counts = NoCounts /\ EmptyMinute.counted = {}
<1>1. NoCounts \in [Kinds -> Nat] /\ \A k \in DOMAIN NoCounts : NoCounts[k] = 0
  BY DEF NoCounts
<1>2. EmptyMinute \in MinuteRecords(ids)
  BY <1>1 DEF EmptyMinute, MinuteRecords
<1>3. Total(NoCounts) = 0
  BY <1>1, TotalOfNothing
<1> QED
  BY <1>2, <1>3 DEF EmptyMinute

\* What observe_track does to a minute, for any vehicles in sight.
LEMMA ObservedCounts ==
  ASSUME NEW ids, NEW minute \in MinuteRecords(ids), NEW seen, IsFiniteSet(seen),
         \A t \in seen : t.kind \in Kinds, Ids(seen) \subseteq ids,
         NEW standing, NEW good, NEW smoothed
  PROVE  LET m == Observed(minute, seen, standing, good, smoothed) IN
         /\ m \in MinuteRecords(ids)
         /\ m.counted = minute.counted \cup Ids(NewlyCounted(minute, seen))
         /\ Total(m.counts) = Total(minute.counts) + Cardinality(NewlyCounted(minute, seen))
<1> DEFINE new == NewlyCounted(minute, seen)
           m == Observed(minute, seen, standing, good, smoothed)
           byKind == [k \in Kinds |-> Cardinality({t \in new : t.kind = k})]
<1>1. new \in SUBSET seen /\ \A t \in new : t.kind \in Kinds
  BY DEF NewlyCounted
<1>2. minute.counts \in [Kinds -> Nat] /\ IsFiniteSet(Kinds)
  BY VideoConstants DEF MinuteRecords
<1>3. m.counts = [k \in Kinds |-> minute.counts[k] + Cardinality({t \in new : t.kind = k})]
      /\ m.counted = minute.counted \cup Ids(new)
  BY DEF Observed
<1> HIDE DEF new
<1>4. IsFiniteSet(new)
  BY <1>1, FS_Subset
<1>5. byKind \in [Kinds -> Nat] /\ Total(byKind) = Cardinality(new)
  BY <1>1, <1>2, <1>4, TotalByKind
<1>6. \A k \in Kinds : byKind[k] = Cardinality({t \in new : t.kind = k})
  OBVIOUS
<1>7. \A k \in Kinds : m.counts[k] = minute.counts[k] + byKind[k]
  <2> HIDE DEF m
  <2> QED
    BY <1>3, <1>6
<1>8. m.counts \in [Kinds -> Nat]
  <2> HIDE DEF m
  <2>1. \A k \in Kinds : minute.counts[k] + Cardinality({t \in new : t.kind = k}) \in Nat
    <3> TAKE k \in Kinds
    <3>1. byKind[k] \in Nat /\ minute.counts[k] \in Nat
      BY <1>2, <1>5
    <3> QED
      BY <1>6, <3>1
  <2> QED
    BY <1>3, <2>1
<1>9. Total(m.counts) = Total(minute.counts) + Total(byKind)
  <2> HIDE DEF m, byKind
  <2> QED
    BY <1>2, <1>5, <1>7, <1>8, TotalOfSum
<1>10. m \in MinuteRecords(ids)
  <2>1. /\ minute.counted \subseteq ids /\ minute.observed \subseteq ids
        /\ minute.nearZero \subseteq ids /\ minute.standing \subseteq ids
        /\ minute.rejected \subseteq ids /\ minute.recovered \subseteq ids
        /\ minute.reliable \subseteq ids
    BY DEF MinuteRecords
  <2>2. \A S : S \subseteq seen => Ids(S) \subseteq ids
    BY DEF Ids
  <2>3. \E a, b, c, d, e :
          /\ a \subseteq seen /\ b \subseteq seen /\ c \subseteq seen /\ d \subseteq seen
          /\ e \subseteq seen
          /\ m = [counts |-> m.counts, counted |-> minute.counted \cup Ids(a),
                  observed |-> minute.observed \cup Ids(seen),
                  nearZero |-> minute.nearZero \cup Ids(b),
                  standing |-> minute.standing \cup (standing \cap Ids(seen)),
                  rejected |-> minute.rejected \cup Ids(c),
                  recovered |-> minute.recovered \cup Ids(d),
                  reliable |-> minute.reliable \cup (Ids(e) \cap smoothed)]
    <3> WITNESS NewlyCounted(minute, seen), {t \in seen : IsNearZeroMotion(t.history)},
                {t \in {t \in seen : t.id \notin standing} : t.id \notin good},
                {t \in {t \in {t \in seen : t.id \notin standing} : t.id \notin good} : t.gap > 0},
                {t \in seen : t.id \notin standing}
                  \ {t \in {t \in seen : t.id \notin standing} : t.id \notin good}
    <3>1. m.counts = [k \in Kinds |-> minute.counts[k] + Cardinality({t \in new : t.kind = k})]
      BY <1>3
    <3> QED
      BY <3>1 DEF Observed, NewlyCounted, new
  <2> HIDE DEF m
  <2>4. PICK a, b, c, d, e :
          /\ Ids(a) \subseteq ids /\ Ids(b) \subseteq ids /\ Ids(c) \subseteq ids
          /\ Ids(d) \subseteq ids /\ Ids(e) \subseteq ids
          /\ m = [counts |-> m.counts, counted |-> minute.counted \cup Ids(a),
                  observed |-> minute.observed \cup Ids(seen),
                  nearZero |-> minute.nearZero \cup Ids(b),
                  standing |-> minute.standing \cup (standing \cap Ids(seen)),
                  rejected |-> minute.rejected \cup Ids(c),
                  recovered |-> minute.recovered \cup Ids(d),
                  reliable |-> minute.reliable \cup (Ids(e) \cap smoothed)]
    BY <2>2, <2>3
  <2>5. /\ minute.counted \cup Ids(a) \in SUBSET ids /\ minute.observed \cup Ids(seen) \in SUBSET ids
        /\ minute.nearZero \cup Ids(b) \in SUBSET ids
        /\ minute.standing \cup (standing \cap Ids(seen)) \in SUBSET ids
        /\ minute.rejected \cup Ids(c) \in SUBSET ids /\ minute.recovered \cup Ids(d) \in SUBSET ids
        /\ minute.reliable \cup (Ids(e) \cap smoothed) \in SUBSET ids
    BY <2>1, <2>4
  <2> HIDE DEF m
  <2>6. ASSUME NEW q \in [Kinds -> Nat], NEW r \in SUBSET ids, NEW s \in SUBSET ids,
               NEW t \in SUBSET ids, NEW u \in SUBSET ids, NEW v \in SUBSET ids,
               NEW w \in SUBSET ids, NEW x \in SUBSET ids
        PROVE  [counts |-> q, counted |-> r, observed |-> s, nearZero |-> t, standing |-> u,
                rejected |-> v, recovered |-> w, reliable |-> x] \in MinuteRecords(ids)
    BY DEF MinuteRecords
  <2> QED
    BY <1>8, <2>4, <2>5, <2>6
<1> QED
  BY <1>3, <1>5, <1>9, <1>10 DEF new

-----------------------------------------------------------------------------
(* The view, and the reports of the views.                                  *)

DiscardedIn(s) == Total([i \in DOMAIN s |-> s[i].discarded])
TotalsIn(s) == Total([i \in DOMAIN s |-> s[i].total])

LEMMA SumsAreTotals ==
  /\ Discarded = DiscardedIn(reports)
  /\ SumOver(records, LAMBDA r : r.total) = TotalsIn(records)
BY DEF Discarded, SumOver, DiscardedIn, TotalsIn

LEMMA DiscardedIsCount ==
  ASSUME NEW s \in Seq(Reports)
  PROVE  /\ [i \in DOMAIN s |-> s[i].discarded] \in [1 .. Len(s) -> Nat]
         /\ DiscardedIn(s) \in Nat
         /\ s = <<>> => DiscardedIn(s) = 0
<1> DEFINE f == [i \in DOMAIN s |-> s[i].discarded]
<1>1. DOMAIN s = 1 .. Len(s) /\ Len(s) \in Nat /\ \A i \in 1 .. Len(s) : s[i] \in Reports
  BY ElementIn
<1>2. \A i \in 1 .. Len(s) : s[i].discarded \in Nat
  BY <1>1 DEF Reports
<1>3. f \in [1 .. Len(s) -> Nat]
  BY <1>1, <1>2
<1>4. IsFiniteSet(1 .. Len(s))
  BY <1>1, FS_Interval
<1>5. s = <<>> => DOMAIN f = {}
  BY <1>1
<1> HIDE DEF f
<1>6. Total(f) \in Nat
  BY <1>3, <1>4, FiniteUnits
<1>7. s = <<>> => Total(f) = 0
  BY <1>5, TotalOfNothing
<1> QED
  BY <1>3, <1>6, <1>7 DEF DiscardedIn, f

LEMMA SameFunction ==
  ASSUME NEW A, NEW B, NEW f \in [A -> B], NEW g \in [A -> B], \A a \in A : f[a] = g[a]
  PROVE  f = g
OBVIOUS

\* The last report is amended in place.
Amended(s, r, t) ==
    s \in Seq(Reports) /\ s # <<>> /\ r \in Reports /\ t = [s EXCEPT ![Len(s)] = r]

LEMMA AmendedReports ==
  ASSUME NEW s, NEW r, NEW t, Amended(s, r, t)
  PROVE  /\ t \in Seq(Reports) /\ t # <<>> /\ Len(t) = Len(s) /\ t[Len(t)] = r
         /\ s[Len(s)] \in Reports
         /\ r.discarded = s[Len(s)].discarded => DiscardedIn(t) = DiscardedIn(s)
         /\ r.discarded = s[Len(s)].discarded + 1 => DiscardedIn(t) = DiscardedIn(s) + 1
<1> DEFINE f == [i \in DOMAIN s |-> s[i].discarded]
           g == [i \in DOMAIN t |-> t[i].discarded]
           n == Len(s)
<1>0. s \in Seq(Reports) /\ s # <<>> /\ r \in Reports /\ t = [s EXCEPT ![Len(s)] = r]
  BY DEF Amended
<1>1. DOMAIN s = 1 .. n /\ n \in Nat \ {0} /\ \A i \in 1 .. n : s[i] \in Reports
  BY <1>0, ElementIn
<1>2. t \in Seq(Reports) /\ t # <<>> /\ Len(t) = n /\ t[n] = r
  BY <1>0, <1>1
<1>3. DOMAIN t = 1 .. n /\ \A i \in (1 .. n) \ {n} : t[i] = s[i]
  BY <1>0, <1>1
<1>4. f \in [1 .. n -> Nat] /\ g \in [1 .. n -> Nat]
  <2> HIDE DEF f, g, n
  <2> QED
    BY <1>0, <1>2, DiscardedIsCount DEF f, g, n
<1>5. \A i \in 1 .. n : f[i] = s[i].discarded /\ g[i] = t[i].discarded
  <2> HIDE DEF n
  <2> QED
    BY <1>1, <1>3
<1>6. IsFiniteSet(1 .. n) /\ n \in 1 .. n
  BY <1>1, FS_Interval
<1> HIDE DEF f, g, n
<1>7. ASSUME r.discarded = s[n].discarded + 1 PROVE Total(g) = Total(f) + 1
  <2>1. g[n] = f[n] + 1 /\ \A i \in (1 .. n) \ {n} : g[i] = f[i]
    BY <1>2, <1>3, <1>5, <1>6, <1>7
  <2> QED
    BY <1>4, <1>6, <2>1, TotalRaised
<1>8. ASSUME r.discarded = s[n].discarded PROVE g = f
  <2>1. \A i \in 1 .. n : g[i] = f[i]
    <3> TAKE i \in 1 .. n
    <3>1. CASE i = n
      BY <1>2, <1>5, <1>8, <3>1
    <3>2. CASE i # n
      BY <1>3, <1>5, <3>2
    <3> QED
      BY <3>1, <3>2
  <2> QED
    <3>1. ASSUME NEW A, NEW x \in [A -> Nat], NEW y \in [A -> Nat], \A i \in A : y[i] = x[i]
          PROVE  y = x
      BY <3>1
    <3> QED
      BY <1>4, <2>1, <3>1
<1> QED
  BY <1>1, <1>2, <1>6, <1>7, <1>8 DEF DiscardedIn, f, g, n

LEMMA AddedReport ==
  ASSUME NEW s \in Seq(Reports), NEW r \in Reports, r.discarded = 0
  PROVE  /\ Append(s, r) \in Seq(Reports) /\ Append(s, r) # <<>>
         /\ DiscardedIn(Append(s, r)) = DiscardedIn(s)
<1> DEFINE t == Append(s, r)
           f == [i \in DOMAIN s |-> s[i].discarded]
           g == [i \in DOMAIN t |-> t[i].discarded]
           n == Len(s)
<1>1. DOMAIN s = 1 .. n /\ n \in Nat
  BY ElementIn
<1>2. t \in Seq(Reports) /\ t # <<>> /\ Len(t) = n + 1 /\ t[n + 1] = r
      /\ \A i \in 1 .. n : t[i] = s[i]
  BY <1>1
<1>3. f \in [1 .. n -> Nat] /\ g \in [1 .. n + 1 -> Nat] /\ Total(f) \in Nat
  <2> HIDE DEF f, g, n, t
  <2>1. Total(f) \in Nat
    BY DiscardedIsCount DEF DiscardedIn, f
  <2> QED
    BY <1>2, <2>1, DiscardedIsCount DEF f, g, n
<1>4. g[n + 1] = 0 /\ \A i \in 1 .. n : g[i] = f[i]
  <2> HIDE DEF t
  <2>1. DOMAIN t = 1 .. n + 1
    BY <1>1, <1>2
  <2>2. n + 1 \in DOMAIN t /\ \A i \in 1 .. n : i \in DOMAIN t /\ i \in DOMAIN s
    BY <1>1, <2>1
  <2> QED
    BY <1>2, <2>2
<1> HIDE DEF f, g
<1>5. Total(g) = Total(f) + g[n + 1]
  <2> HIDE DEF n
  <2> QED
    BY <1>1, <1>3, <1>4, TotalAppended
<1>6. Total(g) = Total(f)
  BY <1>3, <1>4, <1>5
<1> QED
  BY <1>2, <1>6 DEF DiscardedIn, f, g

\* _apply_view_plan: where the session is after it.
LEMMA ViewTurns ==
  ASSUME SessionIsTyped, ViewIsSound
  PROVE  /\ NextView \in [active : Nat, sequence : Nat, skip : BOOLEAN, discarding : BOOLEAN]
         /\ NextView.skip = Skipping /\ NextView.discarding = Skipping
         /\ plan = NoPlan =>
               /\ ~Switches /\ ~Turns /\ ~Mixes /\ ~Skipping
               /\ NextView.active = 0 /\ NextView.sequence = 1
         /\ plan # NoPlan =>
               /\ Located(NextView.active, Coming) /\ NextView.sequence = NextView.active
               /\ SegmentIndex(Coming) = NextView.active
               /\ frame > 0 /\ ~Turns => NextView.active = view.active
               /\ ~Switches => frame > 0
         /\ frame = 0 => ~Turns
         /\ NextView.sequence = view.sequence + IF Turns THEN 1 ELSE 0
         /\ Turns /\ ~Mixes => frame % FramesPerMinute = 0
         /\ Mixes => frame % FramesPerMinute # 0
<1>1. /\ plan \in Plans /\ WellFormed(plan) /\ frame \in Nat
      /\ view \in [active : Nat, sequence : Nat, skip : BOOLEAN, discarding : BOOLEAN]
  BY DEF SessionIsTyped
<1>2. /\ view.active \in Nat /\ view.sequence \in Nat
      /\ NextView.active = IF plan = NoPlan THEN 0 ELSE SegmentIndex(Coming)
      /\ NextView.sequence = view.sequence + IF Turns THEN 1 ELSE 0
      /\ NextView.skip = Skipping
      /\ NextView.discarding = IF Switches THEN view.discarding \/ Skipping ELSE view.discarding
  BY <1>1 DEF NextView
<1>3. view.discarding = view.skip /\ view.skip \in BOOLEAN
  BY <1>1 DEF ViewIsSound
<1>4. NextView.discarding = Skipping
  BY <1>2, <1>3 DEF Skipping, Mixes, Turns
<1>5. Skipping \in BOOLEAN
  BY <1>3 DEF Skipping, Mixes, Turns, Switches
<1>6. Coming - 1 = frame
  BY <1>1 DEF Coming
<1>7. (Turns /\ ~Mixes => frame % FramesPerMinute = 0) /\ (Mixes => frame % FramesPerMinute # 0)
  BY <1>6 DEF Mixes, StartsMinute
<1>8. CASE plan = NoPlan
  <2>1. ~Switches /\ ~Turns /\ ~Mixes /\ ~Skipping
    BY <1>8 DEF Switches, Turns, Mixes, Skipping, ViewIsSound
  <2>2. view.sequence = 1
    BY <1>8 DEF ViewIsSound
  <2>3. NextView.active = 0 /\ NextView.sequence = 1
    BY <1>2, <1>8, <2>1, <2>2
  <2>4. NextView = [active |-> 0, sequence |-> 1, skip |-> Skipping, discarding |-> Skipping]
    BY <1>2, <1>4, <2>3 DEF NextView
  <2> QED
    BY <1>2, <1>4, <1>5, <1>7, <1>8, <2>1, <2>3, <2>4
<1>9. CASE plan # NoPlan
  <2>1. Located(SegmentIndex(Coming), Coming) /\ SegmentIndex(Coming) \in Nat
        /\ view.sequence + (IF Turns THEN 1 ELSE 0) = SegmentIndex(Coming)
        /\ (frame > 0 /\ ~Turns => SegmentIndex(Coming) = view.active)
        /\ (frame = 0 => ~Turns) /\ (~Switches => frame > 0)
    <3>1. CASE frame = 0
      <4>1. Located(1, Coming) /\ Coming \in Nat
        BY <1>1, <1>9, <3>1, FirstIsLocated DEF Coming
      <4>2. SegmentIndex(Coming) = 1
        BY <1>1, <1>9, <4>1, LocatedIsIndex
      <4>3. view.active = 0 /\ view.sequence = 1
        BY <3>1 DEF ViewIsSound
      <4> QED
        BY <1>9, <3>1, <4>1, <4>2, <4>3 DEF Turns, Switches
    <3>2. CASE frame > 0
      <4>1. Located(view.active, frame) /\ view.sequence = view.active
        BY <1>9, <3>2 DEF ViewIsSound
      <4>2. view.active \in DOMAIN plan /\ DOMAIN plan = 1 .. Len(plan)
        BY <1>1, <1>9, <4>1, PlanFacts DEF Located, LocatedIn
      <4>3. view.active \in Nat \ {0}
        BY <1>1, <1>9, <4>2, PlanFacts
      <4>4. Located(view.active, frame + 1) \/ Located(view.active + 1, frame + 1)
        BY <1>1, <1>9, <4>1, NextIsLocated
      <4>5. frame + 1 \in Nat /\ Coming = frame + 1
        BY <1>1 DEF Coming
      <4>6. CASE Located(view.active, frame + 1)
        <5>1. SegmentIndex(Coming) = view.active
          BY <1>1, <1>9, <4>5, <4>6, LocatedIsIndex
        <5>2. ~Turns
          BY <5>1 DEF Turns, Switches
        <5> QED
          BY <1>2, <3>2, <4>1, <4>5, <4>6, <5>1, <5>2
      <4>7. CASE Located(view.active + 1, frame + 1)
        <5>1. SegmentIndex(Coming) = view.active + 1
          BY <1>1, <1>9, <4>5, <4>7, LocatedIsIndex
        <5>2. Turns
          BY <1>2, <1>9, <4>3, <5>1 DEF Turns, Switches
        <5> QED
          BY <1>2, <3>2, <4>1, <4>5, <4>7, <5>1, <5>2
      <4> QED
        BY <4>4, <4>6, <4>7
    <3> QED
      BY <1>1, <3>1, <3>2
  <2>2. NextView.active = SegmentIndex(Coming) /\ NextView.sequence = SegmentIndex(Coming)
    BY <1>2, <1>9, <2>1
  <2>3. ASSUME NEW a \in Nat, NEW b \in BOOLEAN
        PROVE  [active |-> a, sequence |-> a, skip |-> b, discarding |-> b]
                 \in [active : Nat, sequence : Nat, skip : BOOLEAN, discarding : BOOLEAN]
    OBVIOUS
  <2>4. NextView = [active |-> SegmentIndex(Coming), sequence |-> SegmentIndex(Coming),
                    skip |-> Skipping, discarding |-> Skipping]
    BY <1>2, <1>4, <1>9, <2>1, <2>2 DEF NextView
  <2>5. NextView \in [active : Nat, sequence : Nat, skip : BOOLEAN, discarding : BOOLEAN]
    BY <1>5, <2>1, <2>3, <2>4
  <2> QED
    BY <1>2, <1>4, <1>7, <1>9, <2>1, <2>2, <2>5
<1> QED
  BY <1>8, <1>9

LEMMA NextReportsKept ==
  ASSUME SessionIsTyped, ViewIsSound
  PROVE  /\ NextReports \in Seq(Reports) /\ DiscardedIn(NextReports) = DiscardedIn(reports)
         /\ plan = NoPlan => NextReports = <<>>
         /\ plan # NoPlan => NextReports # <<>>
<1>1. /\ plan \in Plans /\ WellFormed(plan) /\ frame \in Nat /\ reports \in Seq(Reports)
      /\ Coming \in Nat
  BY DEF SessionIsTyped, Coming
<1>2. CASE plan = NoPlan
  BY <1>1, <1>2 DEF NextReports, ViewIsSound
<1>3. CASE plan # NoPlan /\ Switches
  <2> DEFINE r == [start |-> plan[SegmentIndex(Coming)].start, end |-> Coming,
                   valid |-> 0, discarded |-> 0]
  <2>1. SegmentIndex(Coming) \in DOMAIN plan
    BY <1>3, ViewTurns DEF Located, LocatedIn
  <2>2. plan[SegmentIndex(Coming)].start \in Nat
    BY <1>1, <1>3, <2>1, PlanFacts
  <2>3. r \in Reports /\ r.discarded = 0
    BY <1>1, <2>2 DEF Reports
  <2>4. NextReports = Append(reports, r)
    BY <1>3 DEF NextReports
  <2> HIDE DEF r
  <2> QED
    BY <1>1, <1>3, <2>3, <2>4, AddedReport
<1>4. CASE plan # NoPlan /\ ~Switches
  <2> DEFINE r == [reports[Len(reports)] EXCEPT !.end = Coming]
  <2>1. reports # <<>>
    BY <1>4, ViewTurns DEF ViewIsSound
  <2>2. reports[Len(reports)] \in Reports
    BY <1>1, <2>1, ElementIn
  <2>3. r \in Reports /\ r.discarded = reports[Len(reports)].discarded
    BY <1>1, <2>2 DEF Reports
  <2>4. NextReports = [reports EXCEPT ![Len(reports)] = r]
    BY <1>4 DEF NextReports
  <2> HIDE DEF r
  <2> QED
    <3>1. Amended(reports, r, NextReports)
      BY <1>1, <2>1, <2>3, <2>4 DEF Amended
    <3> QED
      BY <1>1, <1>4, <2>3, <3>1, AmendedReports
<1> QED
  BY <1>2, <1>3, <1>4

-----------------------------------------------------------------------------
(* One frame.                                                               *)

\* How the frame leaves the telemetry of its minute.
Closing(minute, answered) ==
    \/ ~EndsMinute(Coming) /\ ~answered /\ KeepMinute(minute)
    \/ EndsMinute(Coming) /\ Skipping /\ ~answered /\ DiscardMinute
    \/ EndsMinute(Coming) /\ ~Skipping /\ CloseMinute(minute, answered)

MinuteAfter(found, minute) ==
    \E good, standing, smoothed :
        /\ motion' = Remembered(found, good)
        /\ smoothed \subseteq Ids(Active(found))
        /\ speeds' = (KeptSpeeds \ (found.pruned \cup Ids(Active(found)))) \cup smoothed
        /\ minute = IF Skipping THEN MinuteBefore(found)
                    ELSE Observed(MinuteBefore(found), Active(found), standing, good, smoothed)

FrameStep(found, new, minute, answered) ==
    /\ phase = "running" /\ frame < MaxFrames /\ answered \in BOOLEAN
    /\ FrameOf(KeptTracker, found, new)
    /\ MinuteAfter(found, minute)
    /\ tracker' = [found EXCEPT !.tracks = MarkCounted(@, CountedNow(found))]
    /\ Closing(minute, answered)
    /\ frame' = Coming
    /\ earlier' = IF Turns THEN earlier + tracker.next - 1 ELSE earlier
    /\ plan' = plan /\ phase' = phase

LEMMA KeptTrackerIsSound ==
  ASSUME SessionIsTyped
  PROVE  TrackerIsSound(KeptTracker) /\ TrackerIsSound(FreshTracker)
<1>1. TrackerIsSound(FreshTracker)
  BY FS_EmptySet DEF TrackerIsSound, FreshTracker
<1> QED
  BY <1>1 DEF SessionIsTyped, KeptTracker

LEMMA ProcessedFrame ==
  ASSUME SessionIsTyped, NEW scene \in Scenes, ProcessFrame(scene)
  PROVE  \E found, new, minute, answered : FrameStep(found, new, minute, answered)
<1>1. scene.detections \in Seq(DetectionRecords)
  BY VideoConstants DEF DetectionRecords
<1>2. PICK taken \in Matchings(KeptTracker.tracks, scene.detections), answered \in BOOLEAN :
        LET found    == Tracked(KeptTracker, scene.detections, taken)
            ids      == Ids(Active(found))
            good     == Ids({t \in Active(found) : Reliable(t, FlowIsGood(scene))})
            memory   == Remembered(found, good)
            standing == {i \in ids : memory[i].standing}
            smoothed == {i \in ids \ standing : SpeedOf(found, good, i) # None}
            minute   == IF Skipping THEN MinuteBefore(found)
                        ELSE Observed(MinuteBefore(found), Active(found), standing, good, smoothed)
        IN  /\ tracker' = [found EXCEPT !.tracks = MarkCounted(@, CountedNow(found))]
            /\ motion' = memory
            /\ speeds' = (KeptSpeeds \ (found.pruned \cup ids)) \cup smoothed
            /\ \/ ~EndsMinute(Coming) /\ ~answered /\ KeepMinute(minute)
               \/ EndsMinute(Coming) /\ Skipping /\ ~answered /\ DiscardMinute
               \/ EndsMinute(Coming) /\ ~Skipping /\ CloseMinute(minute, answered)
  BY DEF ProcessFrame
<1> DEFINE found    == Tracked(KeptTracker, scene.detections, taken)
           ids      == Ids(Active(found))
           good     == Ids({t \in Active(found) : Reliable(t, FlowIsGood(scene))})
           memory   == Remembered(found, good)
           standing == {i \in ids : memory[i].standing}
           smoothed == {i \in ids \ standing : SpeedOf(found, good, i) # None}
           minute   == IF Skipping THEN MinuteBefore(found)
                       ELSE Observed(MinuteBefore(found), Active(found), standing, good, smoothed)
<1>3. /\ tracker' = [found EXCEPT !.tracks = MarkCounted(@, CountedNow(found))]
      /\ motion' = memory
      /\ speeds' = (KeptSpeeds \ (found.pruned \cup ids)) \cup smoothed
      /\ Closing(minute, answered)
  BY <1>2 DEF Closing
<1>4. /\ phase = "running" /\ frame < MaxFrames /\ frame' = Coming
      /\ earlier' = IF Turns THEN earlier + tracker.next - 1 ELSE earlier
      /\ plan' = plan /\ phase' = phase
  BY DEF ProcessFrame
<1>5. PICK new : FrameOf(KeptTracker, found, new)
  <2>1. TrackerIsSound(KeptTracker)
    BY KeptTrackerIsSound
  <2> QED
    BY <1>1, <2>1, TrackedIsFrame
<1>6. smoothed \subseteq ids
  OBVIOUS
<1> HIDE DEF found, smoothed, standing, good
<1>7. MinuteAfter(found, minute)
  BY <1>3, <1>6 DEF MinuteAfter
<1> HIDE DEF minute
<1>8. FrameStep(found, new, minute, answered)
  BY <1>2, <1>3, <1>4, <1>5, <1>7 DEF FrameStep
<1> QED
  BY <1>8

\* What is known of the vehicles and of the minute when the frame has been observed.
LEMMA FrameObserved ==
  ASSUME SessionIsTyped, ViewIsSound,
         NEW found, NEW new, NEW minute, NEW answered, FrameStep(found, new, minute, answered)
  PROVE  /\ TrackerIsSound(found) /\ TrackerIsSound(tracker') /\ tracker'.next = found.next
         /\ new \in Nat /\ found.next = KeptTracker.next + new
         /\ CountedNow(found) \in SUBSET Active(found)
         /\ KeptMinute \in MinuteRecords(1 .. KeptTracker.next - 1)
         /\ minute \in MinuteRecords(1 .. found.next - 1)
         /\ minute.counted = (KeptMinute.counted \ found.pruned) \cup Ids(CountedNow(found))
         /\ Total(minute.counts) = Total(KeptMinute.counts) + Cardinality(CountedNow(found))
         /\ Cardinality(CountedNow(found)) \in Nat
<1> DEFINE counted == CountedNow(found)
           before == MinuteBefore(found)
           ids == 1 .. found.next - 1
           kept == 1 .. KeptTracker.next - 1
<1>1. FrameOf(KeptTracker, found, new) /\ MinuteAfter(found, minute)
      /\ tracker' = [found EXCEPT !.tracks = MarkCounted(@, counted)]
  BY DEF FrameStep
<1>2. TrackerIsSound(KeptTracker)
  BY KeptTrackerIsSound
<1>3. TrackerIsSound(found) /\ new \in Nat /\ found.next = KeptTracker.next + new
  BY <1>1 DEF FrameOf
<1>4. KeptTracker.next \in Nat \ {0} /\ found.next \in Nat \ {0}
  BY <1>2, <1>3 DEF TrackerIsSound
<1>5. counted \in SUBSET Active(found)
  BY DEF CountedNow, NewlyCounted
<1>6. Active(found) \in SUBSET found.tracks /\ IsFiniteSet(found.tracks)
      /\ found.tracks \in SUBSET TrackRecords /\ \A t \in found.tracks : t.id < found.next
  BY <1>3 DEF Active, TrackerIsSound
<1>7. IsFiniteSet(Active(found)) /\ (\A t \in Active(found) : t.kind \in Kinds)
      /\ Ids(Active(found)) \subseteq ids
  <2>1. IsFiniteSet(Active(found))
    BY <1>6, FS_Subset
  <2>2. ASSUME NEW t \in Active(found) PROVE t.kind \in Kinds /\ t.id \in ids
    <3>1. t \in TrackRecords /\ t.id < found.next
      BY <1>6
    <3> QED
      BY <1>4, <3>1 DEF TrackRecords
  <2> QED
    BY <2>1, <2>2 DEF Ids
<1>8. TrackerIsSound(tracker') /\ tracker'.next = found.next
  <2>1. counted \in SUBSET found.tracks
    BY <1>5, <1>6
  <2>2. \A marked : marked = [found EXCEPT !.tracks = MarkCounted(@, counted)] =>
            TrackerIsSound(marked) /\ marked.next = found.next
    <3> HIDE DEF counted
    <3> QED
      BY <1>3, <2>1, MarkingKeeps
  <2> QED
    BY <1>1, <2>2
<1>9. KeptMinute \in MinuteRecords(kept) /\ KeptMinute.counts \in [Kinds -> Nat]
  <2>1. CASE KeptMinute = EmptyMinute
    BY <2>1, EmptyMinuteIsTyped DEF MinuteRecords
  <2>2. CASE ~Turns
    BY <2>2 DEF KeptMinute, KeptTracker, Mixes, SessionIsTyped, MinuteRecords
  <2>3. CASE Turns /\ ~Mixes
    <3>1. frame % FramesPerMinute = 0
      BY <2>3, ViewTurns
    <3>2. KeptMinute = EmptyMinute
      BY <2>3, <3>1 DEF KeptMinute, ViewIsSound
    <3> QED
      BY <2>1, <3>2
  <2> QED
    BY <2>1, <2>2, <2>3 DEF KeptMinute
<1>10. before \in MinuteRecords(ids) /\ before.counts = KeptMinute.counts
       /\ before.counted = KeptMinute.counted \ found.pruned
  <2>1. KeptMinute \in MinuteRecords(ids)
    <3>1. kept \subseteq ids
      BY <1>3, <1>4
    <3> HIDE DEF kept, ids
    <3> QED
      BY <1>9, <3>1 DEF MinuteRecords
  <2>2. KeptMinute.counted \ found.pruned \in SUBSET ids
    BY <2>1 DEF MinuteRecords
  <2>3. before = [KeptMinute EXCEPT !.counted = KeptMinute.counted \ found.pruned]
    BY DEF MinuteBefore
  <2> HIDE DEF ids, before
  <2> QED
    BY <2>1, <2>2, <2>3 DEF MinuteRecords
<1>11. CASE Skipping
  <2>1. minute = before /\ counted = {}
    BY <1>1, <1>11 DEF MinuteAfter, CountedNow
  <2>2. Cardinality(counted) = 0 /\ Ids(counted) = {}
    BY <2>1, FS_EmptySet DEF Ids
  <2>3. Total(KeptMinute.counts) \in Nat
    BY <1>9, FiniteUnits, VideoConstants
  <2> HIDE DEF before, counted, ids, kept
  <2>4. minute.counted = (KeptMinute.counted \ found.pruned) \cup Ids(counted)
    BY <1>10, <2>1, <2>2
  <2>5. Total(minute.counts) = Total(KeptMinute.counts) + Cardinality(counted)
    BY <1>10, <2>1, <2>2, <2>3
  <2>6. minute \in MinuteRecords(ids) /\ Cardinality(counted) \in Nat
    BY <1>10, <2>1, <2>2
  <2> QED
    BY <1>3, <1>5, <1>8, <1>9, <2>4, <2>5, <2>6 DEF counted, ids, kept
<1>12. CASE ~Skipping
  <2>1. PICK good, standing, smoothed :
          minute = Observed(before, Active(found), standing, good, smoothed)
    BY <1>1, <1>12 DEF MinuteAfter
  <2>2. counted = NewlyCounted(before, Active(found))
    BY <1>12 DEF CountedNow
  <2>3. IsFiniteSet(counted)
    <3> HIDE DEF counted
    <3> QED
      BY <1>5, <1>7, FS_Subset
  <2>4. Cardinality(counted) \in Nat
    BY <2>3, FS_CardinalityType
  <2> HIDE DEF before, counted, ids, kept
  <2>5. /\ minute \in MinuteRecords(ids)
        /\ minute.counted = before.counted \cup Ids(counted)
        /\ Total(minute.counts) = Total(before.counts) + Cardinality(counted)
    BY <1>7, <1>10, <2>1, <2>2, ObservedCounts
  <2> QED
    BY <1>3, <1>5, <1>8, <1>9, <1>10, <2>4, <2>5 DEF counted, ids, kept
<1> QED
  BY <1>11, <1>12

-----------------------------------------------------------------------------
(* The motion remembered of a vehicle.                                      *)

LEMMA MotionVotes ==
  ASSUME NEW before \in MotionRecords, NEW history, NEW speed, NEW l \in 0 .. HistoryLen,
         Len(history) = IF l < HistoryLen THEN l + 1 ELSE HistoryLen,
         before.entry <= l, before.standing => l >= EntryFrames
  PROVE  /\ Motion(before, history, speed) \in MotionRecords
         /\ Motion(before, history, speed).entry <= Len(history)
         /\ Motion(before, history, speed).standing => Len(history) >= EntryFrames
<1> DEFINE voted == Votes(before, history, speed)
           votes == Capped(voted)
           stands == IF votes.standing THEN votes.exit < ExitFrames ELSE votes.entry >= EntryFrames
<1>1. /\ HistoryLen \in Nat \ {0} /\ EntryFrames \in Nat \ {0} /\ ExitFrames \in Nat \ {0}
      /\ EntryFrames <= HistoryLen
  BY TrackConstants
<1>2. PICK s \in BOOLEAN, e \in 0 .. EntryFrames, x \in Nat :
         before = [standing |-> s, entry |-> e, exit |-> x]
  <2>1. before = [standing |-> before.standing, entry |-> before.entry, exit |-> before.exit]
        /\ before.standing \in BOOLEAN /\ before.entry \in 0 .. EntryFrames /\ before.exit \in Nat
    BY DEF MotionRecords
  <2> QED
    BY <2>1
<1>3. \E a \in Nat, b \in Nat : a <= e + 1 /\ voted = [standing |-> s, entry |-> a, exit |-> b]
  <2>1. CASE IsStationary(history)
    <3>1. voted = [standing |-> s, entry |-> e + 1, exit |-> 0]
      BY <1>2, <2>1 DEF Votes
    <3>2. e + 1 \in Nat /\ 0 \in Nat /\ e + 1 <= e + 1
      BY <1>1
    <3> QED
      BY <3>1, <3>2
  <2>2. CASE ~IsStationary(history) /\ speed # None /\ speed >= ExitSpeed
    <3>1. voted = [standing |-> s, entry |-> 0, exit |-> x + 1]
      BY <1>2, <2>2 DEF Votes
    <3>2. x + 1 \in Nat /\ 0 \in Nat /\ 0 <= e + 1
      BY <1>1
    <3> QED
      BY <3>1, <3>2
  <2>3. CASE ~IsStationary(history) /\ ~(speed # None /\ speed >= ExitSpeed)
    <3>1. voted = [standing |-> s, entry |-> 0, exit |-> x]
      BY <1>2, <2>3 DEF Votes
    <3>2. x \in Nat /\ 0 \in Nat /\ 0 <= e + 1
      BY <1>1
    <3> QED
      BY <3>1, <3>2
  <2> QED
    BY <2>1, <2>2, <2>3
<1>4. PICK a \in Nat, b \in Nat : a <= e + 1 /\ voted = [standing |-> s, entry |-> a, exit |-> b]
  BY <1>3
<1>5. PICK c \in Nat, d \in Nat : c <= a /\ c <= EntryFrames
         /\ votes = [standing |-> s, entry |-> c, exit |-> d]
  <2> DEFINE y == IF a > EntryFrames THEN EntryFrames ELSE a
             z == IF b > ExitFrames THEN ExitFrames ELSE b
  <2>1. votes = [standing |-> s, entry |-> y, exit |-> z]
    <3>1. voted.entry = a /\ voted.exit = b
      BY <1>4
    <3>2. votes = [voted EXCEPT !.entry = y, !.exit = z]
      BY <3>1 DEF Capped
    <3> HIDE DEF y, z, voted, votes
    <3> QED
      BY <1>4, <3>2
  <2>2. y \in Nat /\ z \in Nat /\ y <= a /\ y <= EntryFrames
    BY <1>1, <1>4
  <2> HIDE DEF y, z, votes
  <2> QED
    BY <2>1, <2>2, Zenon
<1> HIDE DEF voted, votes
<1>6. /\ votes.entry = c /\ votes.exit = d /\ votes.standing = s
  BY <1>5
<1>7. Motion(before, history, speed) = [standing |-> stands, entry |-> c, exit |-> d]
  <2>1. Motion(before, history, speed) = [votes EXCEPT !.standing = stands]
    BY DEF Motion, votes, voted
  <2> HIDE DEF stands
  <2> QED
    BY <1>5, <2>1
<1>9. stands \in BOOLEAN
  <2>1. (votes.exit < ExitFrames) \in BOOLEAN /\ (votes.entry >= EntryFrames) \in BOOLEAN
    BY SMT
  <2> QED
    BY <2>1, Zenon
<1>10. c <= Len(history)
  <2>1. before.entry = e
    BY <1>2
  <2>2. c <= e + 1
    BY <1>4, <1>5
  <2> QED
    BY <1>1, <1>5, <2>1, <2>2
<1>11. stands => Len(history) >= EntryFrames
  <2>1. before.standing = s
    BY <1>2
  <2>2. s => Len(history) >= EntryFrames
    BY <1>1, <2>1
  <2>3. ~s /\ stands => c >= EntryFrames
    BY <1>6
  <2>4. c >= EntryFrames => Len(history) >= EntryFrames
    BY <1>1, <1>5, <1>10
  <2> HIDE DEF stands
  <2> QED
    BY <2>2, <2>3, <2>4
<1> HIDE DEF stands
<1>12. /\ Motion(before, history, speed).entry = c
       /\ Motion(before, history, speed).standing = stands
  BY <1>7
<1>13. Motion(before, history, speed) \in MotionRecords
  <2>1. \A p \in BOOLEAN, y \in 0 .. EntryFrames, z \in Nat :
          [standing |-> p, entry |-> y, exit |-> z] \in MotionRecords
    BY DEF MotionRecords
  <2>2. c \in 0 .. EntryFrames
    BY <1>1, <1>5
  <2> QED
    BY <1>5, <1>7, <1>9, <2>1, <2>2
<1> QED
  BY <1>10, <1>11, <1>12, <1>13

LEMMA MotionStays ==
  ASSUME SessionIsTyped, MotionIsOwn,
         NEW found, NEW new, NEW minute, NEW answered, FrameStep(found, new, minute, answered)
  PROVE  /\ motion' \in [DOMAIN motion' -> MotionRecords]
         /\ speeds' \subseteq DOMAIN motion'
         /\ MotionIsOwn'
<1> DEFINE ids == Ids(Active(found))
           known == DOMAIN KeptMotion \ found.pruned
<1>1. /\ FrameOf(KeptTracker, found, new) /\ MinuteAfter(found, minute)
      /\ tracker' = [found EXCEPT !.tracks = MarkCounted(@, CountedNow(found))]
  BY DEF FrameStep
<1>2. /\ TrackerIsSound(KeptTracker) /\ TrackerIsSound(found)
      /\ KeptMotion \in [DOMAIN KeptMotion -> MotionRecords]
      /\ KeptSpeeds \subseteq DOMAIN KeptMotion
  <2>1. <<>> \in [{} -> MotionRecords] /\ DOMAIN <<>> = {}
    OBVIOUS
  <2>2. motion \in [DOMAIN motion -> MotionRecords] /\ speeds \subseteq DOMAIN motion
    BY DEF SessionIsTyped
  <2>3. TrackerIsSound(KeptTracker) /\ TrackerIsSound(found)
    BY <1>1, KeptTrackerIsSound DEF FrameOf
  <2>4. KeptMotion \in [DOMAIN KeptMotion -> MotionRecords] /\ KeptSpeeds \subseteq DOMAIN KeptMotion
    BY <2>1, <2>2 DEF KeptMotion, KeptSpeeds
  <2> QED
    BY <2>3, <2>4
<1>3. ASSUME NEW i \in DOMAIN KeptMotion
      PROVE  \E t \in KeptTracker.tracks :
               /\ t.id = i /\ KeptMotion[i].entry <= Len(t.history)
               /\ KeptMotion[i].standing => Len(t.history) >= EntryFrames
  <2>1. ~Turns
    BY DEF KeptMotion
  <2>2. KeptMotion = motion /\ KeptTracker = tracker
    BY <2>1 DEF KeptMotion, KeptTracker
  <2> QED
    BY <2>2 DEF MotionIsOwn
<1>4. PICK good, smoothed :
        /\ motion' = Remembered(found, good) /\ smoothed \subseteq ids
        /\ speeds' = (KeptSpeeds \ (found.pruned \cup ids)) \cup smoothed
  BY <1>1 DEF MinuteAfter
<1>5. /\ DOMAIN motion' = known \cup ids
      /\ \A i \in known \ ids : motion'[i] = KeptMotion[i]
      /\ \A i \in ids : \E speed :
            motion'[i] = Motion(IF i \in known THEN KeptMotion[i] ELSE AtRest, History(found, i), speed)
  BY <1>4 DEF Remembered
<1>6. speeds' \subseteq DOMAIN motion'
  BY <1>2, <1>4, <1>5
<1>7. ASSUME NEW t \in found.tracks, t.lost = 0 PROVE t.id \in ids /\ History(found, t.id) = t.history
  <2>1. t \in Active(found) /\ t.id \in ids
    BY <1>7 DEF Active, Ids
  <2>2. \A u \in Active(found) : u.id = t.id => u = t
    BY <1>2 DEF TrackerIsSound, Active
  <2>3. (CHOOSE u \in Active(found) : u.id = t.id) = t
    BY <2>1, <2>2
  <2> QED
    BY <2>1, <2>3 DEF History
<1>8. ASSUME NEW u \in found.tracks
      PROVE  u.id \in Nat /\ u.lost \in Nat /\ Len(u.history) \in 1 .. HistoryLen
  BY <1>2 DEF TrackerIsSound, TrackRecords
<1>9. HistoryLen \in Nat \ {0} /\ EntryFrames \in Nat \ {0}
  BY TrackConstants
<1>10. ASSUME NEW i \in known
       PROVE  \E t \in KeptTracker.tracks, u \in found.tracks :
                /\ t.id = i /\ Follows(u, t)
                /\ KeptMotion[i].entry <= Len(t.history)
                /\ KeptMotion[i].standing => Len(t.history) >= EntryFrames
  <2>1. PICK t \in KeptTracker.tracks :
               /\ t.id = i /\ KeptMotion[i].entry <= Len(t.history)
               /\ KeptMotion[i].standing => Len(t.history) >= EntryFrames
    BY <1>3
  <2>2. PICK u \in found.tracks : Follows(u, t)
    BY <1>1, <2>1 DEF FrameOf
  <2> QED
    BY <2>1, <2>2
<1>11. ASSUME NEW i \in DOMAIN motion'
       PROVE  /\ motion'[i] \in MotionRecords
              /\ \E u \in found.tracks : /\ u.id = i /\ motion'[i].entry <= Len(u.history)
                                         /\ motion'[i].standing => Len(u.history) >= EntryFrames
  <2>1. CASE i \in known \ ids
    <3>1. PICK t \in KeptTracker.tracks, u \in found.tracks :
                /\ t.id = i /\ Follows(u, t)
                /\ KeptMotion[i].entry <= Len(t.history)
                /\ KeptMotion[i].standing => Len(t.history) >= EntryFrames
      BY <1>10, <2>1
    <3>2. motion'[i] = KeptMotion[i] /\ KeptMotion[i] \in MotionRecords
      BY <1>2, <1>5, <2>1
    <3>3. u.id = i /\ Len(u.history) >= Len(t.history)
      BY <3>1 DEF Follows
    <3>4. Len(t.history) \in Nat /\ Len(u.history) \in Nat /\ motion'[i].entry \in Nat
      BY <1>2, <1>8, <3>2 DEF TrackerIsSound, MotionRecords
    <3>5. motion'[i].entry <= Len(u.history)
      BY <3>1, <3>2, <3>3, <3>4
    <3>6. motion'[i].standing => Len(u.history) >= EntryFrames
      BY <1>9, <3>1, <3>2, <3>3, <3>4
    <3> QED
      BY <3>2, <3>3, <3>5, <3>6
  <2>2. CASE i \in ids
    <3>1. PICK u \in found.tracks : u.lost = 0 /\ u.id = i
      BY <2>2 DEF Ids, Active
    <3>2. History(found, i) = u.history /\ Len(u.history) \in 1 .. HistoryLen
      BY <1>7, <1>8, <3>1
    <3>3. PICK speed : motion'[i] = Motion(IF i \in known THEN KeptMotion[i] ELSE AtRest, u.history, speed)
      BY <1>5, <2>2, <3>2
    <3>4. CASE i \in known
      <4>1. PICK t \in KeptTracker.tracks, v \in found.tracks :
                /\ t.id = i /\ Follows(v, t)
                /\ KeptMotion[i].entry <= Len(t.history)
                /\ KeptMotion[i].standing => Len(t.history) >= EntryFrames
        BY <1>10, <3>4
      <4>2. v = u
        BY <1>2, <3>1, <4>1 DEF Follows, TrackerIsSound
      <4>3. Len(u.history) = IF Len(t.history) < HistoryLen THEN Len(t.history) + 1 ELSE HistoryLen
        BY <3>1, <4>1, <4>2 DEF Follows
      <4>4. Len(t.history) \in 0 .. HistoryLen
        BY <1>2, <1>9 DEF TrackerIsSound
      <4>5. KeptMotion[i] \in MotionRecords /\ motion'[i] = Motion(KeptMotion[i], u.history, speed)
        BY <1>2, <3>3, <3>4
      <4> QED
        BY <3>1, <4>1, <4>3, <4>4, <4>5, MotionVotes
    <3>5. CASE i \notin known
      <4>1. AtRest \in MotionRecords /\ AtRest.entry = 0 /\ ~AtRest.standing
        BY <1>9 DEF AtRest, MotionRecords
      <4>2. Len(u.history) - 1 \in 0 .. HistoryLen /\ Len(u.history) - 1 < HistoryLen
            /\ AtRest.entry <= Len(u.history) - 1
        BY <1>9, <3>2, <4>1
      <4>3. Len(u.history) = IF Len(u.history) - 1 < HistoryLen THEN (Len(u.history) - 1) + 1 ELSE HistoryLen
        BY <1>9, <3>2, <4>2
      <4>4. motion'[i] = Motion(AtRest, u.history, speed)
        BY <3>3, <3>5
      <4> QED
        BY <3>1, <4>1, <4>2, <4>3, <4>4, MotionVotes
    <3> QED
      BY <3>4, <3>5
  <2> QED
    BY <1>5, <2>1, <2>2
<1>12. motion' \in [DOMAIN motion' -> MotionRecords]
  <2>1. motion' = [i \in DOMAIN motion' |-> motion'[i]]
    BY <1>4 DEF Remembered
  <2> QED
    BY <1>11, <2>1
<1>13. ASSUME NEW u \in found.tracks
       PROVE  \E x \in tracker'.tracks : x.id = u.id /\ x.history = u.history
  <2> DEFINE counted == CountedNow(found)
  <2>1. counted \in SUBSET found.tracks
    BY DEF CountedNow, NewlyCounted, Active
  <2>2. ASSUME NEW marked, marked = [found EXCEPT !.tracks = MarkCounted(@, counted)]
        PROVE  Marks(found, counted, marked)
    <3> HIDE DEF counted
    <3> QED
      BY <1>2, <2>1, <2>2, MarkingKeeps
  <2>3. Marks(found, counted, tracker')
    BY <1>1, <2>2
  <2> QED
    BY <2>3 DEF Marks
<1>14. ASSUME NEW i \in DOMAIN motion'
       PROVE  \E x \in tracker'.tracks : /\ x.id = i /\ motion'[i].entry <= Len(x.history)
                                         /\ motion'[i].standing => Len(x.history) >= EntryFrames
  BY <1>11, <1>13
<1> QED
  BY <1>6, <1>12, <1>14 DEF MotionIsOwn

-----------------------------------------------------------------------------
(* What a frame leaves.                                                     *)

LEMMA RecordIsTyped ==
  ASSUME NEW ids, IsFiniteSet(ids), NEW minute \in MinuteRecords(ids), NEW c \in Nat, NEW f \in Nat
  PROVE  /\ Record(minute, c, f) \in TelemetryRecords
         /\ Record(minute, c, f).to = f /\ Record(minute, c, f).cont = c
         /\ Record(minute, c, f).total = Total(minute.counts)
<1>1. /\ minute.counts \in [Kinds -> Nat]
      /\ minute.nearZero \in SUBSET ids /\ minute.standing \in SUBSET ids
      /\ minute.rejected \ minute.reliable \in SUBSET ids
      /\ minute.recovered \in SUBSET ids /\ minute.reliable \in SUBSET ids
  BY DEF MinuteRecords
<1>2. ASSUME NEW S \in SUBSET ids PROVE Cardinality(S) \in Nat
  BY FS_Subset, FS_CardinalityType
<1>3. Total(minute.counts) \in Nat
  BY <1>1, FiniteUnits, VideoConstants
<1>4. /\ Cardinality(minute.nearZero) \in Nat /\ Cardinality(minute.standing) \in Nat
      /\ Cardinality(minute.rejected \ minute.reliable) \in Nat
      /\ Cardinality(minute.recovered) \in Nat /\ Cardinality(minute.reliable) \in Nat
  BY <1>1, <1>2
<1>5. \A t, a, b, d, e, g \in Nat :
        [to |-> f, cont |-> c, total |-> t, near |-> a, standing |-> b, rejected |-> d,
         recovered |-> e, samples |-> g] \in TelemetryRecords
  BY DEF TelemetryRecords
<1>6. Record(minute, c, f) \in TelemetryRecords
  BY <1>3, <1>4, <1>5 DEF Record
<1> QED
  BY <1>6 DEF Record

\* The three ways a frame ends, with the parts of the state each leaves.
LEMMA ClosingCases ==
  ASSUME SessionIsTyped, ViewIsSound, NEW minute, NEW answered \in BOOLEAN, Closing(minute, answered)
  PROVE  \/ /\ ~EndsMinute(Coming) /\ view' = NextView /\ reports' = NextReports /\ acc' = minute
            /\ context' = KeptContext /\ latest' = KeptLatest
            /\ cumulative' = cumulative /\ records' = records /\ classified' = classified
         \/ /\ EndsMinute(Coming) /\ Skipping /\ plan # NoPlan
            /\ view' = [NextView EXCEPT !.skip = FALSE, !.discarding = FALSE]
            /\ acc' = EmptyMinute
            /\ reports' = [NextReports EXCEPT ![Len(NextReports)].discarded = @ + 1]
            /\ context' = KeptContext /\ latest' = KeptLatest
            /\ cumulative' = cumulative /\ records' = records /\ classified' = classified
         \/ /\ EndsMinute(Coming) /\ ~Skipping /\ CloseMinute(minute, answered)
<1>1. CASE ~EndsMinute(Coming) /\ ~answered /\ KeepMinute(minute)
  BY <1>1 DEF KeepMinute
<1>2. CASE EndsMinute(Coming) /\ Skipping /\ ~answered /\ DiscardMinute
  <2>1. NextView.discarding = Skipping /\ plan # NoPlan
    BY <1>2, ViewTurns
  <2> QED
    BY <1>2, <2>1 DEF DiscardMinute
<1>3. CASE EndsMinute(Coming) /\ ~Skipping /\ CloseMinute(minute, answered)
  BY <1>3
<1> QED
  BY <1>1, <1>2, <1>3 DEF Closing

LEMMA ReportsStay ==
  ASSUME SessionIsTyped, ViewIsSound, NEW minute, NEW answered \in BOOLEAN, Closing(minute, answered)
  PROVE  /\ reports' \in Seq(Reports)
         /\ DiscardedIn(reports) \in Nat
         /\ DiscardedIn(reports') = DiscardedIn(reports)
                                    + IF EndsMinute(Coming) /\ Skipping THEN 1 ELSE 0
         /\ plan = NoPlan => reports' = <<>>
         /\ plan # NoPlan => reports' # <<>>
<1>1. /\ NextReports \in Seq(Reports) /\ DiscardedIn(NextReports) = DiscardedIn(reports)
      /\ plan = NoPlan => NextReports = <<>>
      /\ plan # NoPlan => NextReports # <<>>
  BY NextReportsKept
<1>2. DiscardedIn(reports) \in Nat
  BY DiscardedIsCount DEF SessionIsTyped
<1>3. NextReports # <<>> => NextReports[Len(NextReports)] \in Reports
  BY <1>1, ElementIn
<1>4. CASE ~EndsMinute(Coming)
  <2>1. reports' = NextReports
    BY <1>4 DEF Closing, KeepMinute
  <2> QED
    BY <1>1, <1>2, <1>4, <2>1
<1>5. CASE EndsMinute(Coming) /\ Skipping
  <2> DEFINE r == [NextReports[Len(NextReports)] EXCEPT !.discarded = @ + 1]
  <2>1. reports' = [NextReports EXCEPT ![Len(NextReports)].discarded = @ + 1] /\ plan # NoPlan
    BY <1>5, ClosingCases
  <2>2. reports' = [NextReports EXCEPT ![Len(NextReports)] = r]
    BY <2>1
  <2>3. NextReports # <<>> /\ NextReports[Len(NextReports)] \in Reports
    BY <1>1, <1>3, <2>1
  <2>4. r \in Reports /\ r.discarded = NextReports[Len(NextReports)].discarded + 1
    BY <2>3 DEF Reports
  <2> HIDE DEF r
  <2>5. /\ reports' \in Seq(Reports) /\ reports' # <<>>
        /\ DiscardedIn(reports') = DiscardedIn(NextReports) + 1
    <3>1. Amended(NextReports, r, reports')
      BY <1>1, <2>2, <2>3, <2>4 DEF Amended
    <3> QED
      BY <2>4, <3>1, AmendedReports
  <2> QED
    BY <1>1, <1>2, <1>5, <2>1, <2>5
<1>6. CASE EndsMinute(Coming) /\ ~Skipping
  <2>1. reports' = IF NextReports = <<>> THEN NextReports
                   ELSE [NextReports EXCEPT ![Len(NextReports)].valid = @ + 1]
    BY <1>6 DEF Closing, CloseMinute
  <2>2. CASE NextReports = <<>>
    BY <1>1, <1>2, <1>6, <2>1, <2>2
  <2>3. CASE NextReports # <<>>
    <3> DEFINE r == [NextReports[Len(NextReports)] EXCEPT !.valid = @ + 1]
    <3>1. reports' = [NextReports EXCEPT ![Len(NextReports)] = r]
      BY <2>1, <2>3
    <3>2. NextReports[Len(NextReports)] \in Reports
      BY <1>3, <2>3
    <3>3. r \in Reports /\ r.discarded = NextReports[Len(NextReports)].discarded
      BY <3>2 DEF Reports
    <3> HIDE DEF r
    <3>4. /\ reports' \in Seq(Reports) /\ reports' # <<>>
          /\ DiscardedIn(reports') = DiscardedIn(NextReports)
      <4>1. Amended(NextReports, r, reports')
        BY <1>1, <2>3, <3>1, <3>2, <3>3 DEF Amended
      <4> QED
        BY <3>3, <4>1, AmendedReports
    <3> QED
      BY <1>1, <1>2, <1>6, <2>3, <3>4
  <2> QED
    BY <2>2, <2>3
<1> QED
  BY <1>4, <1>5, <1>6

LEMMA TypesStay ==
  ASSUME SessionIsTyped, ViewIsSound, MotionIsOwn,
         NEW found, NEW new, NEW minute, NEW answered, FrameStep(found, new, minute, answered)
  PROVE  SessionIsTyped'
<1>1. /\ plan \in Plans /\ WellFormed(plan) /\ phase \in {"running", "done", "failed"}
      /\ frame \in Nat /\ frame < MaxFrames /\ earlier \in Nat /\ MaxFrames \in Nat
      /\ tracker.next \in Nat \ {0}
      /\ plan' = plan /\ phase' = phase /\ frame' = frame + 1
      /\ earlier' = IF Turns THEN earlier + tracker.next - 1 ELSE earlier
      /\ answered \in BOOLEAN /\ Closing(minute, answered)
  BY VideoConstants DEF SessionIsTyped, FrameStep, Coming, TrackerIsSound
<1>2. plan' \in Plans /\ WellFormed(plan') /\ phase' \in {"running", "done", "failed"}
      /\ frame' \in Nat /\ frame' <= MaxFrames /\ earlier' \in Nat
  BY <1>1
<1>3. /\ TrackerIsSound(tracker') /\ tracker'.next = found.next /\ found.next \in Nat \ {0}
      /\ minute \in MinuteRecords(1 .. found.next - 1)
  BY FrameObserved DEF TrackerIsSound
<1>4. motion' \in [DOMAIN motion' -> MotionRecords] /\ speeds' \subseteq DOMAIN motion'
  BY MotionStays
<1>5. reports' \in Seq(Reports)
  BY <1>1, ReportsStay
<1>6. /\ view \in [active : Nat, sequence : Nat, skip : BOOLEAN, discarding : BOOLEAN]
      /\ NextView \in [active : Nat, sequence : Nat, skip : BOOLEAN, discarding : BOOLEAN]
  BY ViewTurns DEF SessionIsTyped
<1>7. /\ cumulative \in [Kinds -> Nat] /\ records \in Seq(TelemetryRecords)
      /\ context \in Seq(Nat) /\ classified \in Seq([record : Nat, context : Seq(Nat)])
      /\ latest \in 0 .. Len(records) /\ Len(records) \in Nat
      /\ KeptContext \in Seq(Nat) /\ KeptLatest \in 0 .. Len(records)
  BY DEF SessionIsTyped, KeptContext, KeptLatest
<1>8. minute.counts \in [Kinds -> Nat]
  BY <1>3 DEF MinuteRecords
<1> DEFINE Rest == /\ view' \in [active : Nat, sequence : Nat, skip : BOOLEAN, discarding : BOOLEAN]
                   /\ acc' \in MinuteRecords(1 .. found.next - 1)
                   /\ cumulative' \in [Kinds -> Nat] /\ records' \in Seq(TelemetryRecords)
                   /\ context' \in Seq(Nat)
                   /\ classified' \in Seq([record : Nat, context : Seq(Nat)])
                   /\ latest' \in 0 .. Len(records')
<1>9. ASSUME ~EndsMinute(Coming) PROVE Rest
  <2>1. /\ view' = NextView /\ acc' = minute /\ context' = KeptContext /\ latest' = KeptLatest
        /\ cumulative' = cumulative /\ records' = records /\ classified' = classified
    BY <1>1, <1>9, ClosingCases
  <2> QED
    BY <1>3, <1>6, <1>7, <2>1
<1>10. ASSUME EndsMinute(Coming) /\ Skipping PROVE Rest
  <2>1. /\ view' = [NextView EXCEPT !.skip = FALSE, !.discarding = FALSE]
        /\ acc' = EmptyMinute /\ context' = KeptContext /\ latest' = KeptLatest
        /\ cumulative' = cumulative /\ records' = records /\ classified' = classified
    BY <1>1, <1>10, ClosingCases
  <2>2. view' \in [active : Nat, sequence : Nat, skip : BOOLEAN, discarding : BOOLEAN]
    <3>1. ASSUME NEW v \in [active : Nat, sequence : Nat, skip : BOOLEAN, discarding : BOOLEAN]
          PROVE  [v EXCEPT !.skip = FALSE, !.discarding = FALSE]
                   \in [active : Nat, sequence : Nat, skip : BOOLEAN, discarding : BOOLEAN]
      OBVIOUS
    <3> QED
      BY <1>6, <2>1, <3>1
  <2>3. acc' \in MinuteRecords(1 .. found.next - 1)
    BY <2>1, EmptyMinuteIsTyped
  <2> QED
    BY <1>7, <2>1, <2>2, <2>3
<1>11. ASSUME EndsMinute(Coming) /\ ~Skipping PROVE Rest
  <2> DEFINE n == Len(records) + 1
             r == Record(minute, NextView.sequence, Coming)
  <2>1. /\ view' = NextView /\ acc' = EmptyMinute
        /\ records' = Append(records, r)
        /\ context' = IF plan = NoPlan THEN context ELSE Append(KeptContext, n)
        /\ classified' = IF answered
                         THEN Append(classified, [record |-> n, context |-> ContextOfMinute])
                         ELSE classified
        /\ latest' = IF answered THEN n ELSE 0
        /\ cumulative' = Plus(cumulative, minute.counts)
    BY <1>1, <1>11 DEF Closing, CloseMinute
  <2>2. r \in TelemetryRecords
    <3>1. NextView.sequence \in Nat /\ Coming \in Nat
      BY <1>1, <1>6 DEF Coming
    <3>2. IsFiniteSet(1 .. found.next - 1)
      BY <1>3, FS_Interval
    <3> QED
      BY <1>3, <3>1, <3>2, RecordIsTyped
  <2> HIDE DEF r
  <2>3. records' \in Seq(TelemetryRecords) /\ Len(records') = n /\ n \in Nat
    BY <1>7, <2>1, <2>2
  <2>4. ContextOfMinute \in Seq(Nat)
    BY <1>7 DEF ContextOfMinute
  <2>5. classified' \in Seq([record : Nat, context : Seq(Nat)])
    <3>1. [record |-> n, context |-> ContextOfMinute] \in [record : Nat, context : Seq(Nat)]
      BY <2>3, <2>4
    <3>2. Append(classified, [record |-> n, context |-> ContextOfMinute])
            \in Seq([record : Nat, context : Seq(Nat)])
      <4>1. ASSUME NEW S, NEW s \in Seq(S), NEW e \in S PROVE Append(s, e) \in Seq(S)
        OBVIOUS
      <4> QED
        BY <1>7, <3>1, <4>1
    <3> QED
      BY <1>7, <2>1, <3>2
  <2>6. cumulative' \in [Kinds -> Nat]
    BY <1>7, <1>8, <2>1 DEF Plus
  <2>7. acc' \in MinuteRecords(1 .. found.next - 1)
    BY <2>1, EmptyMinuteIsTyped
  <2>8. context' \in Seq(Nat) /\ latest' \in 0 .. Len(records')
    BY <1>7, <2>1, <2>3
  <2> QED
    BY <1>6, <2>1, <2>3, <2>5, <2>6, <2>7, <2>8
<1>12. Rest
  BY <1>9, <1>10, <1>11
<1> QED
  BY <1>2, <1>3, <1>4, <1>5, <1>12 DEF SessionIsTyped, WellFormed

\* The minute of the coming frame began in the view of that frame, unless it is spoiled.
LEMMA MinuteOfView ==
  ASSUME SessionIsTyped, ViewIsSound
  PROVE  /\ frame % FramesPerMinute \in 0 .. FramesPerMinute - 1
         /\ frame - (frame % FramesPerMinute) \in Nat
         /\ EndsMinute(Coming) <=> frame % FramesPerMinute = FramesPerMinute - 1
         /\ EndsMinute(Coming) =>
               Coming - FramesPerMinute = frame - (frame % FramesPerMinute)
         /\ ~EndsMinute(Coming) =>
               Coming - (Coming % FramesPerMinute) = frame - (frame % FramesPerMinute)
         /\ plan # NoPlan /\ ~Skipping =>
               Located(NextView.active, (frame - (frame % FramesPerMinute)) + 1)
<1> DEFINE m == FramesPerMinute
           r == frame % m
<1>1. frame \in Nat /\ m \in Nat \ {0} /\ Coming = frame + 1
  BY VideoConstants DEF SessionIsTyped, Coming
<1>2. r \in 0 .. m - 1 /\ frame \div m \in Nat /\ frame = m * (frame \div m) + r
  BY <1>1, DivMod
<1>3. m * (frame \div m) \in Nat
  <2>1. ASSUME NEW a \in Nat, NEW b \in Nat PROVE a * b \in Nat
    OBVIOUS
  <2> QED
    BY <1>1, <1>2, <2>1
<1>4. frame - r \in Nat
  BY <1>1, <1>2, <1>3
<1>5. (r = m - 1 => Coming % m = 0) /\ (r # m - 1 => Coming % m = r + 1)
  BY <1>1, NextMinute
<1>6. EndsMinute(Coming) <=> Coming % m = 0
  BY DEF EndsMinute
<1> HIDE DEF r
<1>7. EndsMinute(Coming) <=> r = m - 1
  BY <1>1, <1>2, <1>5, <1>6
<1>8. EndsMinute(Coming) => Coming - m = frame - r
  BY <1>1, <1>2, <1>7
<1>9. ~EndsMinute(Coming) => Coming - (Coming % m) = frame - r
  BY <1>1, <1>2, <1>5, <1>7
<1>10. ASSUME plan # NoPlan, ~Skipping PROVE Located(NextView.active, (frame - r) + 1)
  <2>1. CASE r = 0
    <3>1. (frame - r) + 1 = Coming
      BY <1>1, <2>1
    <3> QED
      BY <1>10, <3>1, ViewTurns
  <2>2. CASE r # 0
    <3>1. ~Turns /\ ~view.skip
      BY <1>10, <2>2, ViewTurns DEF Skipping, r
    <3>2. frame > 0
      BY <1>1, <1>2, <1>4, <2>2
    <3>3. NextView.active = view.active
      BY <1>10, <3>1, <3>2, ViewTurns
    <3>4. Located(view.active, (frame - r) + 1)
      BY <1>10, <2>2, <3>1 DEF ViewIsSound, r
    <3> QED
      BY <3>3, <3>4
  <2> QED
    BY <2>1, <2>2
<1> QED
  BY <1>2, <1>4, <1>7, <1>8, <1>9, <1>10 DEF r

LEMMA ViewStays ==
  ASSUME SessionIsTyped, ViewIsSound,
         NEW found, NEW new, NEW minute, NEW answered, FrameStep(found, new, minute, answered)
  PROVE  ViewIsSound' /\ view'.sequence = NextView.sequence /\ view'.active = NextView.active
<1>1. /\ plan' = plan /\ frame' = Coming /\ Coming = frame + 1 /\ frame \in Nat
      /\ answered \in BOOLEAN /\ Closing(minute, answered)
  BY DEF SessionIsTyped, FrameStep, Coming
<1>2. /\ NextView \in [active : Nat, sequence : Nat, skip : BOOLEAN, discarding : BOOLEAN]
      /\ NextView.skip = Skipping /\ NextView.discarding = Skipping
      /\ plan = NoPlan => ~Skipping /\ NextView.active = 0 /\ NextView.sequence = 1
      /\ plan # NoPlan => Located(NextView.active, Coming) /\ NextView.sequence = NextView.active
  BY ViewTurns
<1>3. (plan = NoPlan => reports' = <<>>) /\ (plan # NoPlan => reports' # <<>>)
  BY <1>1, ReportsStay
<1>4. /\ view'.active = NextView.active /\ view'.sequence = NextView.sequence
      /\ view'.skip <=> Skipping /\ ~EndsMinute(Coming)
      /\ view'.discarding = view'.skip
      /\ EndsMinute(Coming) => acc' = EmptyMinute
  <2>1. CASE ~EndsMinute(Coming)
    <3>1. view' = NextView
      BY <1>1, <2>1, ClosingCases
    <3> QED
      BY <1>2, <2>1, <3>1
  <2>2. CASE EndsMinute(Coming) /\ Skipping
    <3>1. view' = [NextView EXCEPT !.skip = FALSE, !.discarding = FALSE] /\ acc' = EmptyMinute
      BY <1>1, <2>2, ClosingCases
    <3> QED
      BY <1>2, <2>2, <3>1
  <2>3. CASE EndsMinute(Coming) /\ ~Skipping
    <3>1. view' = NextView /\ acc' = EmptyMinute
      BY <1>1, <2>3 DEF Closing, CloseMinute
    <3> QED
      BY <1>2, <2>3, <3>1
  <2> QED
    BY <2>1, <2>2, <2>3
<1>5. (frame' % FramesPerMinute = 0) <=> EndsMinute(Coming)
  BY <1>1 DEF EndsMinute
<1>6. frame' # 0 /\ frame' > 0
  BY <1>1
<1>7. plan # NoPlan =>
        LocatedIn(plan', view'.active, frame') /\ view'.sequence = view'.active /\ reports' # <<>>
  BY <1>1, <1>2, <1>3, <1>4 DEF Located
<1>8. plan' = NoPlan \/ frame' = 0 =>
        view'.active = 0 /\ view'.sequence = 1 /\ ~view'.skip /\ reports' = <<>>
  BY <1>1, <1>2, <1>3, <1>4, <1>6
<1>9. ASSUME plan # NoPlan, frame' % FramesPerMinute # 0, ~view'.skip
      PROVE  LocatedIn(plan', view'.active, (frame' - (frame' % FramesPerMinute)) + 1)
  <2>1. ~EndsMinute(Coming) /\ ~Skipping
    BY <1>4, <1>5, <1>9
  <2>2. Located(NextView.active, (frame - (frame % FramesPerMinute)) + 1)
        /\ Coming - (Coming % FramesPerMinute) = frame - (frame % FramesPerMinute)
    BY <1>9, <2>1, MinuteOfView
  <2> QED
    BY <1>1, <1>4, <2>2 DEF Located
<1>10. frame' % FramesPerMinute = 0 => ~view'.skip /\ acc' = EmptyMinute
  BY <1>4, <1>5
<1> QED
  BY <1>1, <1>4, <1>7, <1>8, <1>9, <1>10 DEF ViewIsSound, Located

\* Records of a frame: as before, or one more, of the view of the frame.
LEMMA RecordsGrow ==
  ASSUME SessionIsTyped, ViewIsSound,
         NEW found, NEW new, NEW minute, NEW answered, FrameStep(found, new, minute, answered)
  PROVE  /\ ~(EndsMinute(Coming) /\ ~Skipping) =>
               records' = records /\ classified' = classified
               /\ context' = KeptContext /\ latest' = KeptLatest /\ cumulative' = cumulative
         /\ EndsMinute(Coming) /\ ~Skipping =>
               /\ Len(records') = Len(records) + 1
               /\ \A n \in 1 .. Len(records) : records'[n] = records[n]
               /\ records'[Len(records) + 1].to = Coming
               /\ records'[Len(records) + 1].cont = NextView.sequence
               /\ records'[Len(records) + 1].total = Total(minute.counts)
         /\ DOMAIN records = 1 .. Len(records) /\ Len(records) \in Nat
         /\ DOMAIN records' = 1 .. Len(records') /\ Len(records') \in Nat
<1>1. answered \in BOOLEAN /\ Closing(minute, answered)
  BY DEF FrameStep
<1>2. records \in Seq(TelemetryRecords) /\ DOMAIN records = 1 .. Len(records) /\ Len(records) \in Nat
  BY ElementIn DEF SessionIsTyped
<1>3. CASE ~(EndsMinute(Coming) /\ ~Skipping)
  BY <1>1, <1>2, <1>3, ClosingCases
<1>4. CASE EndsMinute(Coming) /\ ~Skipping
  <2> DEFINE r == Record(minute, NextView.sequence, Coming)
  <2>1. records' = Append(records, r)
    BY <1>1, <1>4 DEF Closing, CloseMinute
  <2>2. r \in TelemetryRecords /\ r.to = Coming /\ r.cont = NextView.sequence
        /\ r.total = Total(minute.counts)
    <3>1. NextView.sequence \in Nat /\ Coming \in Nat
      BY ViewTurns DEF SessionIsTyped, Coming
    <3>2. TrackerIsSound(found) /\ minute \in MinuteRecords(1 .. found.next - 1)
      BY FrameObserved
    <3>3. found.next \in Nat
      BY <3>2 DEF TrackerIsSound
    <3>4. IsFiniteSet(1 .. found.next - 1)
      BY <3>3, FS_Interval
    <3> QED
      BY <3>1, <3>2, <3>4, RecordIsTyped
  <2> HIDE DEF r
  <2>3. /\ Len(records') = Len(records) + 1 /\ records'[Len(records) + 1] = r
        /\ \A n \in 1 .. Len(records) : records'[n] = records[n]
        /\ DOMAIN records' = 1 .. Len(records') /\ Len(records') \in Nat
    BY <1>2, <2>1, <2>2
  <2> QED
    BY <1>2, <1>4, <2>2, <2>3
<1> QED
  BY <1>3, <1>4

LEMMA RecordsStay ==
  ASSUME SessionIsTyped, ViewIsSound, RecordsAreSound,
         NEW found, NEW new, NEW minute, NEW answered, FrameStep(found, new, minute, answered)
  PROVE  RecordsAreSound'
<1> DEFINE Sound(p, s, r) ==
             /\ r.to >= FramesPerMinute /\ r.cont <= s
             /\ p = NoPlan => r.cont = 1
             /\ p # NoPlan => /\ LocatedIn(p, r.cont, r.to)
                              /\ LocatedIn(p, r.cont, r.to - FramesPerMinute + 1)
<1>1. /\ plan' = plan /\ frame' = Coming /\ Coming = frame + 1 /\ frame \in Nat
      /\ FramesPerMinute \in Nat \ {0} /\ view.sequence \in Nat
      /\ answered \in BOOLEAN /\ Closing(minute, answered)
  BY VideoConstants DEF SessionIsTyped, FrameStep, Coming
<1>2. view'.sequence = NextView.sequence /\ NextView.sequence \in Nat
      /\ NextView.sequence >= view.sequence
  BY <1>1, ViewStays, ViewTurns
<1>3. ASSUME NEW n \in DOMAIN records PROVE Sound(plan', view'.sequence, records[n])
  <2>1. records[n] \in TelemetryRecords
    BY ElementIn DEF SessionIsTyped
  <2>2. records[n].cont \in Nat
    BY <2>1 DEF TelemetryRecords
  <2>3. records[n].cont <= view'.sequence
    BY <1>1, <1>2, <2>2 DEF RecordsAreSound
  <2> QED
    BY <1>1, <2>3 DEF RecordsAreSound, Located
<1>4. ASSUME NEW n \in DOMAIN records' PROVE Sound(plan', view'.sequence, records'[n])
  <2>1. CASE records' = records
    BY <1>3, <2>1
  <2>2. CASE EndsMinute(Coming) /\ ~Skipping /\ n \in 1 .. Len(records)
    <3>1. n \in DOMAIN records /\ records'[n] = records[n]
      BY <2>2, RecordsGrow
    <3> HIDE DEF Sound
    <3> QED
      BY <1>3, <3>1
  <2>3. CASE EndsMinute(Coming) /\ ~Skipping /\ n = Len(records) + 1
    <3>1. records'[n].to = Coming /\ records'[n].cont = NextView.sequence
      BY <2>3, RecordsGrow
    <3>2. Coming - FramesPerMinute = frame - (frame % FramesPerMinute)
          /\ frame - (frame % FramesPerMinute) \in Nat
      BY <2>3, MinuteOfView
    <3>3. plan # NoPlan => /\ Located(NextView.active, (frame - (frame % FramesPerMinute)) + 1)
                           /\ Located(NextView.active, Coming)
                           /\ NextView.sequence = NextView.active
      BY <2>3, MinuteOfView, ViewTurns
    <3>4. plan = NoPlan => NextView.sequence = 1
      BY ViewTurns
    <3>5. Coming >= FramesPerMinute
      BY <1>1, <3>2
    <3> QED
      BY <1>1, <1>2, <3>1, <3>2, <3>3, <3>4, <3>5 DEF Located
  <2>4. records' = records \/ (EndsMinute(Coming) /\ ~Skipping /\ n \in 1 .. Len(records) + 1)
    BY RecordsGrow
  <2>5. n \in 1 .. Len(records) + 1 => n \in 1 .. Len(records) \/ n = Len(records) + 1
    BY RecordsGrow
  <2> QED
    BY <2>1, <2>2, <2>3, <2>4, <2>5
<1>5. Len(records') + Discarded' = frame' \div FramesPerMinute
  <2>1. Discarded = DiscardedIn(reports) /\ Discarded' = DiscardedIn(reports')
    BY DEF Discarded, SumOver, DiscardedIn
  <2>2. Len(records) + Discarded = frame \div FramesPerMinute
    BY DEF RecordsAreSound
  <2>3. /\ EndsMinute(Coming) => frame' \div FramesPerMinute = (frame \div FramesPerMinute) + 1
        /\ ~EndsMinute(Coming) => frame' \div FramesPerMinute = frame \div FramesPerMinute
    BY <1>1, MinuteOfView, NextMinute
  <2>4. /\ DiscardedIn(reports) \in Nat
        /\ DiscardedIn(reports') = DiscardedIn(reports)
                                   + IF EndsMinute(Coming) /\ Skipping THEN 1 ELSE 0
    BY <1>1, ReportsStay
  <2>5. /\ Len(records) \in Nat
        /\ Len(records') = Len(records) + IF EndsMinute(Coming) /\ ~Skipping THEN 1 ELSE 0
    BY RecordsGrow
  <2> QED
    BY <2>1, <2>2, <2>3, <2>4, <2>5
<1> QED
  BY <1>4, <1>5 DEF RecordsAreSound, Located

LEMMA SetOfAppended ==
  ASSUME NEW s \in Seq(Nat), NEW e \in Nat
  PROVE  ToSet(Append(s, e)) = ToSet(s) \cup {e}
<1>1. DOMAIN s = 1 .. Len(s) /\ DOMAIN Append(s, e) = 1 .. Len(s) + 1 /\ Len(s) \in Nat
  OBVIOUS
<1>2. Append(s, e)[Len(s) + 1] = e /\ \A i \in 1 .. Len(s) : Append(s, e)[i] = s[i]
  OBVIOUS
<1>3. 1 .. Len(s) + 1 = (1 .. Len(s)) \cup {Len(s) + 1}
  BY <1>1
<1> QED
  BY <1>1, <1>2, <1>3 DEF ToSet

\* A prediction made from the minutes of its own view.
PredictionIsOf(c, s) ==
    /\ c.record \in DOMAIN s
    /\ ToSet(c.context) = {i \in 1 .. c.record : s[i].cont = s[c.record].cont}

\* With a plan, the kept context is the minutes of the view of the coming frame.
LEMMA ContextIsOfView ==
  ASSUME SessionIsTyped, ViewIsSound, RecordsAreSound, PredictionsAreSound, plan # NoPlan
  PROVE  ToSet(KeptContext) = {n \in DOMAIN records : records[n].cont = NextView.sequence}
<1>1. view.sequence \in Nat /\ NextView.sequence = view.sequence + IF Turns THEN 1 ELSE 0
  BY ViewTurns DEF SessionIsTyped
<1>2. CASE ~Turns
  BY <1>1, <1>2 DEF KeptContext, PredictionsAreSound
<1>3. CASE Turns
  <2>1. ToSet(KeptContext) = {}
    BY <1>3 DEF KeptContext, ToSet
  <2>2. ASSUME NEW n \in DOMAIN records PROVE records[n].cont # NextView.sequence
    <3>1. records[n] \in TelemetryRecords
      BY ElementIn DEF SessionIsTyped
    <3>2. records[n].cont \in Nat /\ records[n].cont <= view.sequence
      BY <3>1 DEF TelemetryRecords, RecordsAreSound
    <3> QED
      BY <1>1, <1>3, <3>2
  <2> QED
    BY <2>1, <2>2
<1> QED
  BY <1>2, <1>3

\* A frame leaves every prediction with the minutes of its view, its own included.
LEMMA PredictionsStay ==
  ASSUME SessionIsTyped, ViewIsSound, RecordsAreSound, PredictionsAreSound,
         NEW found, NEW new, NEW minute, NEW answered, FrameStep(found, new, minute, answered)
  PROVE  PredictionsAreSound'
<1> DEFINE n == Len(records) + 1
           Rest == /\ plan # NoPlan =>
                        ToSet(context') = {k \in DOMAIN records' : records'[k].cont = NextView.sequence}
                   /\ \A k \in DOMAIN classified' : PredictionIsOf(classified'[k], records')
                   /\ latest' # 0 => records'[latest'].cont = NextView.sequence
<1>1. plan' = plan /\ view'.sequence = NextView.sequence /\ answered \in BOOLEAN
      /\ Closing(minute, answered)
  BY ViewStays DEF FrameStep
<1>2. plan # NoPlan =>
        ToSet(KeptContext) = {k \in DOMAIN records : records[k].cont = NextView.sequence}
  BY ContextIsOfView
<1>3. \A k \in DOMAIN classified : PredictionIsOf(classified[k], records)
  BY DEF PredictionsAreSound, PredictionsStayInView, PredictionIsOf
<1>4. KeptLatest # 0 => records[KeptLatest].cont = NextView.sequence
  <2>1. view.sequence \in Nat /\ NextView.sequence = view.sequence + IF Turns THEN 1 ELSE 0
    BY ViewTurns DEF SessionIsTyped
  <2>2. latest # 0 => records[latest].cont = view.sequence
    BY DEF PredictionsAreSound, PredictionsStayInView, Status
  <2> QED
    BY <2>1, <2>2 DEF KeptLatest
<1>5. ASSUME ~(EndsMinute(Coming) /\ ~Skipping) PROVE Rest
  <2>1. records' = records /\ classified' = classified /\ context' = KeptContext
        /\ latest' = KeptLatest
    BY <1>5, RecordsGrow
  <2> QED
    BY <1>2, <1>3, <1>4, <2>1
<1>6. ASSUME EndsMinute(Coming), ~Skipping PROVE Rest
  <2>1. /\ context' = IF plan = NoPlan THEN context ELSE Append(KeptContext, n)
        /\ classified' = IF answered
                         THEN Append(classified, [record |-> n, context |-> ContextOfMinute])
                         ELSE classified
        /\ latest' = IF answered THEN n ELSE 0
    BY <1>1, <1>6 DEF Closing, CloseMinute
  <2>2. /\ Len(records) \in Nat /\ DOMAIN records = 1 .. Len(records)
        /\ DOMAIN records' = (1 .. Len(records)) \cup {n}
        /\ \A k \in 1 .. Len(records) : records'[k] = records[k]
        /\ records'[n].cont = NextView.sequence
    <3>1. /\ Len(records) \in Nat /\ DOMAIN records = 1 .. Len(records)
          /\ DOMAIN records' = 1 .. Len(records') /\ Len(records') = n
          /\ \A k \in 1 .. Len(records) : records'[k] = records[k]
          /\ records'[n].cont = NextView.sequence
      BY <1>6, RecordsGrow
    <3>2. 1 .. n = (1 .. Len(records)) \cup {n}
      BY <3>1
    <3> QED
      BY <3>1, <3>2
  <2>3. KeptContext \in Seq(Nat) /\ n \in Nat
    BY <2>2 DEF SessionIsTyped, KeptContext
  <2>4. plan # NoPlan => ToSet(Append(KeptContext, n)) =
                           {k \in DOMAIN records' : records'[k].cont = NextView.sequence}
    <3>1. ToSet(Append(KeptContext, n)) = ToSet(KeptContext) \cup {n}
      BY <2>3, SetOfAppended
    <3>2. \A k \in DOMAIN records : records'[k].cont = records[k].cont
      BY <2>2
    <3> HIDE DEF n
    <3> QED
      BY <1>2, <2>2, <3>1, <3>2
  <2>5. ASSUME NEW k \in DOMAIN classified PROVE PredictionIsOf(classified[k], records')
    <3> DEFINE c == classified[k]
    <3>1. PredictionIsOf(c, records)
      BY <1>3
    <3>2. c.record \in 1 .. Len(records)
      BY <2>2, <3>1 DEF PredictionIsOf
    <3>3. 1 .. c.record \subseteq 1 .. Len(records)
      BY <2>2, <3>2
    <3> HIDE DEF c, n
    <3>4. records'[c.record].cont = records[c.record].cont
          /\ \A i \in 1 .. c.record : records'[i].cont = records[i].cont
      BY <2>2, <3>2, <3>3
    <3>5. c.record \in DOMAIN records'
      BY <2>2, <3>2
    <3> QED
      BY <3>1, <3>4, <3>5 DEF PredictionIsOf, c
  <2>6. PredictionIsOf([record |-> n, context |-> ContextOfMinute], records')
    <3>1. ASSUME plan = NoPlan PROVE ToSet(ContextOfMinute) = {i \in 1 .. n : records'[i].cont = NextView.sequence}
      <4>1. ContextOfMinute = [i \in 1 .. n |-> i]
        BY <3>1 DEF ContextOfMinute
      <4>2. ToSet(ContextOfMinute) = 1 .. n
        <5> HIDE DEF n
        <5> QED
          BY <4>1 DEF ToSet
      <4>3. \A i \in 1 .. n : records'[i].cont = NextView.sequence
        <5>1. NextView.sequence = 1
          BY <3>1, ViewTurns
        <5>2. RecordsAreSound'
          BY RecordsStay
        <5>3. \A i \in DOMAIN records' : records'[i].cont = 1
          BY <1>1, <3>1, <5>2 DEF RecordsAreSound
        <5>4. \A i \in 1 .. n : i \in DOMAIN records'
          BY <2>2
        <5> QED
          BY <5>1, <5>3, <5>4
      <4> QED
        BY <4>2, <4>3
    <3>2. ASSUME plan # NoPlan PROVE ToSet(ContextOfMinute) = {i \in 1 .. n : records'[i].cont = NextView.sequence}
      <4>1. ContextOfMinute = Append(KeptContext, n)
        BY <3>2 DEF ContextOfMinute
      <4>2. DOMAIN records' = 1 .. n
        BY <2>2
      <4> HIDE DEF n
      <4> QED
        BY <2>4, <3>2, <4>1, <4>2
    <3>3. n \in DOMAIN records'
      BY <2>2
    <3> HIDE DEF n
    <3> QED
      BY <2>2, <3>1, <3>2, <3>3 DEF PredictionIsOf
  <2>7. ASSUME NEW k \in DOMAIN classified' PROVE PredictionIsOf(classified'[k], records')
    <3>1. CASE ~answered
      BY <2>1, <2>5, <3>1
    <3>2. CASE answered
      <4> DEFINE c == [record |-> n, context |-> ContextOfMinute]
      <4>1. classified' = Append(classified, c)
        BY <2>1, <3>2
      <4>2. classified \in Seq([record : Nat, context : Seq(Nat)])
        BY DEF SessionIsTyped
      <4> HIDE DEF c, n
      <4>3. DOMAIN classified = 1 .. Len(classified) /\ Len(classified) \in Nat
            /\ DOMAIN classified' = 1 .. Len(classified) + 1
            /\ classified'[Len(classified) + 1] = c
            /\ \A i \in 1 .. Len(classified) : classified'[i] = classified[i]
        BY <4>1, <4>2
      <4>4. k \in 1 .. Len(classified) \/ k = Len(classified) + 1
        BY <4>3
      <4> QED
        BY <2>5, <2>6, <4>3, <4>4 DEF c
    <3> QED
      BY <1>1, <3>1, <3>2
  <2>8. latest' # 0 => records'[latest'].cont = NextView.sequence
    BY <1>1, <2>1, <2>2
  <2> QED
    BY <2>1, <2>4, <2>7, <2>8
<1>7. Rest
  BY <1>5, <1>6
<1> HIDE DEF n
<1>8. Status' # "ANALIZANDO" => latest' # 0
  BY DEF Status
<1>9. PredictionsStayInView'
  BY <1>1, <1>7, <1>8 DEF PredictionsStayInView, PredictionIsOf
<1> QED
  BY <1>1, <1>7, <1>9 DEF PredictionsAreSound, PredictionIsOf

-----------------------------------------------------------------------------
(* Vehicles are counted once.                                               *)

\* What VehiclesAreSound says of a tracker t and a minute m, with e vehicles of earlier
\* views and c counted in closed minutes.
SoundIn(t, m, e, c, exact) ==
    /\ \A i \in m.counted : \E u \in t.tracks : u.id = i /\ u.counted
    /\ c + Total(m.counts) + Cardinality(Uncounted(t.tracks)) <= e + t.next - 1
    /\ exact => Uncounted(t.tracks) = {} /\ c + Total(m.counts) = e + t.next - 1

\* A view that begins takes nothing with it: the vehicles of the earlier ones are all
\* counted, or hidden in a minute that is discarded.
LEMMA KeptIsSound ==
  ASSUME SessionIsTyped, ViewIsSound, VehiclesAreSound
  PROVE  SoundIn(KeptTracker, KeptMinute, IF Turns THEN earlier + tracker.next - 1 ELSE earlier,
                 Total(cumulative), Discarded = 0 /\ ~Skipping)
<1> DEFINE c == Total(cumulative)
           a == Total(acc.counts)
           u == Cardinality(Uncounted(tracker.tracks))
<1>1. c \in Nat /\ a \in Nat
  BY FiniteUnits, VideoConstants DEF SessionIsTyped, MinuteRecords
<1>2. u \in Nat /\ tracker.next \in Nat /\ earlier \in Nat
  <2>1. IsFiniteSet(tracker.tracks) /\ tracker.next \in Nat /\ earlier \in Nat
    BY DEF SessionIsTyped, TrackerIsSound
  <2>2. IsFiniteSet(Uncounted(tracker.tracks))
    BY <2>1, FS_Subset DEF Uncounted
  <2> QED
    BY <2>1, <2>2, FS_CardinalityType
<1> HIDE DEF c, a, u
<1>3. /\ c + a + u <= earlier + tracker.next - 1
      /\ Discarded = 0 /\ ~view.skip =>
            Uncounted(tracker.tracks) = {} /\ c + a = earlier + tracker.next - 1
  BY DEF VehiclesAreSound, c, a, u
<1>4. CASE ~Turns
  <2>1. KeptTracker = tracker /\ KeptMinute = acc /\ (Skipping => view.skip)
        /\ (view.skip => Skipping)
    BY <1>4 DEF KeptTracker, KeptMinute, Mixes, Skipping
  <2> QED
    BY <1>3, <1>4, <2>1 DEF SoundIn, VehiclesAreSound, c, a, u
<1>5. CASE Turns
  <2>1. KeptTracker = FreshTracker
    BY <1>5 DEF KeptTracker
  <2>2. KeptMinute = EmptyMinute /\ (~Mixes => acc = EmptyMinute)
    <3>1. ~Mixes => acc = EmptyMinute
      BY <1>5, ViewTurns DEF ViewIsSound
    <3> QED
      BY <3>1 DEF KeptMinute
  <2>3. Total(EmptyMinute.counts) = 0 /\ EmptyMinute.counted = {}
    BY EmptyMinuteIsTyped
  <2>4. Uncounted(FreshTracker.tracks) = {} /\ FreshTracker.next = 1
        /\ Cardinality(Uncounted(FreshTracker.tracks)) = 0
    <3>1. Uncounted(FreshTracker.tracks) = {} /\ FreshTracker.next = 1
      BY DEF FreshTracker, Uncounted
    <3> QED
      BY <3>1, FS_EmptySet
  <2>5. c + 0 + 0 <= (earlier + tracker.next - 1) + 1 - 1
    BY <1>1, <1>2, <1>3
  <2>6. ASSUME Discarded = 0, ~Skipping PROVE c + 0 = (earlier + tracker.next - 1) + 1 - 1
    <3>1. ~view.skip /\ ~Mixes
      BY <2>6 DEF Skipping
    <3>2. a = 0
      BY <2>2, <2>3, <3>1 DEF a
    <3>3. c + a = earlier + tracker.next - 1
      BY <1>3, <2>6, <3>1
    <3> QED
      BY <1>1, <1>2, <3>2, <3>3
  <2> QED
    BY <1>5, <2>1, <2>2, <2>3, <2>4, <2>5, <2>6 DEF SoundIn, c
<1> QED
  BY <1>4, <1>5

\* After a frame at most the vehicles that were not counted, and the new ones, are not.
LEMMA FewUncounted ==
  ASSUME NEW tr, TrackerIsSound(tr), NEW found, NEW new, FrameOf(tr, found, new)
  PROVE  /\ IsFiniteSet(Uncounted(found.tracks)) /\ IsFiniteSet(Uncounted(tr.tracks))
         /\ Cardinality(Uncounted(found.tracks)) <= Cardinality(Uncounted(tr.tracks)) + new
<1> DEFINE S == Uncounted(found.tracks)
           T == Uncounted(tr.tracks)
           N == {u \in found.tracks : u.id >= tr.next}
           old == [u \in S \ N |-> CHOOSE t \in T : Follows(u, t)]
<1>1. /\ IsFiniteSet(tr.tracks) /\ IsFiniteSet(found.tracks)
      /\ \A x, y \in found.tracks : x.id = y.id => x = y
      /\ new \in Nat /\ Cardinality(N) = new
  BY DEF FrameOf, TrackerIsSound
<1>2. IsFiniteSet(S) /\ IsFiniteSet(T) /\ IsFiniteSet(N)
  BY <1>1, FS_Subset DEF Uncounted
<1>3. ASSUME NEW u \in S \ N PROVE \E t \in T : Follows(u, t)
  <2>1. u \in found.tracks /\ ~(u.id >= tr.next) /\ ~u.counted
    BY <1>3 DEF Uncounted
  <2>2. PICK t \in tr.tracks : Follows(u, t)
    BY <2>1 DEF FrameOf
  <2>3. t \in T
    BY <2>1, <2>2 DEF Follows, Uncounted
  <2> QED
    BY <2>2, <2>3
<1>4. \A u \in S \ N : old[u] \in T /\ u.id = old[u].id
  BY <1>3 DEF Follows
<1>5. old \in [S \ N -> T]
  BY <1>4
<1>6. \A x, y \in S \ N : old[x] = old[y] => x = y
  BY <1>1, <1>4 DEF Uncounted
<1> HIDE DEF old, N, S, T
<1>7. IsFiniteSet(S \ N) /\ Cardinality(S \ N) <= Cardinality(T)
  BY <1>2, <1>5, <1>6, AtMost
<1>8. IsFiniteSet(S \cap N) /\ Cardinality(S \cap N) <= new
  BY <1>1, <1>2, FS_Subset
<1>9. Cardinality(S \ N) = Cardinality(S) - Cardinality(S \cap N) /\ Cardinality(S) \in Nat
  BY <1>2, FS_Difference, FS_CardinalityType
<1>10. Cardinality(S \ N) \in Nat /\ Cardinality(S \cap N) \in Nat /\ Cardinality(T) \in Nat
  BY <1>2, <1>7, <1>8, FS_CardinalityType
<1>11. Cardinality(S) <= Cardinality(T) + new
  BY <1>1, <1>7, <1>8, <1>9, <1>10
<1> QED
  BY <1>2, <1>11 DEF S, T

\* The vehicles counted in a frame were not counted before; when every known vehicle
\* had been counted, and the minute is not skipped, they are the new ones.
LEMMA CountedAreNew ==
  ASSUME SessionIsTyped, ViewIsSound,
         NEW found, NEW new, NEW minute, NEW answered, FrameStep(found, new, minute, answered)
  PROVE  /\ CountedNow(found) \subseteq Uncounted(found.tracks)
         /\ Uncounted(KeptTracker.tracks) = {} /\ ~Skipping =>
               /\ Uncounted(found.tracks) = CountedNow(found)
               /\ Cardinality(CountedNow(found)) = new
<1> DEFINE counted == CountedNow(found)
           N == {u \in found.tracks : u.id >= KeptTracker.next}
<1>1. FrameOf(KeptTracker, found, new) /\ KeptMinute \in MinuteRecords(1 .. KeptTracker.next - 1)
  BY FrameObserved DEF FrameStep
<1>2. TrackerIsSound(KeptTracker)
  BY KeptTrackerIsSound
<1>3. counted \subseteq Uncounted(found.tracks)
  BY DEF CountedNow, NewlyCounted, Active, Uncounted
<1>4. ASSUME Uncounted(KeptTracker.tracks) = {}, ~Skipping
      PROVE  Uncounted(found.tracks) = counted /\ Cardinality(counted) = new
  <2>1. \A t \in KeptTracker.tracks : t.counted /\ t.id < KeptTracker.next
    <3>1. \A t \in KeptTracker.tracks : t.counted
      BY <1>4 DEF Uncounted
    <3> QED
      BY <1>2, <3>1 DEF TrackerIsSound
  <2>2. \A i \in KeptMinute.counted : i < KeptTracker.next /\ i \in Nat
    <3>1. KeptMinute.counted \subseteq 1 .. KeptTracker.next - 1 /\ KeptTracker.next \in Nat
      BY <1>1, <1>2 DEF MinuteRecords, TrackerIsSound
    <3> QED
      BY <3>1
  <2>3. counted = NewlyCounted(MinuteBefore(found), Active(found))
    BY <1>4 DEF CountedNow
  <2>4. MinuteBefore(found).counted \subseteq KeptMinute.counted
    <3>1. MinuteBefore(found) = [KeptMinute EXCEPT !.counted = KeptMinute.counted \ found.pruned]
      BY DEF MinuteBefore
    <3> QED
      BY <1>1, <3>1 DEF MinuteRecords
  <2>5. ASSUME NEW u \in found.tracks
        PROVE  /\ u.id >= KeptTracker.next => ~u.counted /\ u \in counted
               /\ ~u.counted => u.id >= KeptTracker.next
    <3>1. u.id \in Nat /\ KeptTracker.next \in Nat
      BY <1>1, <1>2 DEF FrameOf, TrackerIsSound, TrackRecords
    <3>2. \/ u.id >= KeptTracker.next /\ ~u.counted /\ u.lost = 0
          \/ \E t \in KeptTracker.tracks : Follows(u, t)
      BY <1>1 DEF FrameOf
    <3>3. CASE u.id >= KeptTracker.next /\ ~u.counted /\ u.lost = 0
      <4>1. u \in Active(found)
        BY <3>3 DEF Active
      <4>2. u.id \notin MinuteBefore(found).counted
        BY <2>2, <2>4, <3>1, <3>3
      <4> QED
        BY <2>3, <3>3, <4>1, <4>2 DEF NewlyCounted
    <3>4. CASE \E t \in KeptTracker.tracks : Follows(u, t)
      <4>1. PICK t \in KeptTracker.tracks : Follows(u, t)
        BY <3>4
      <4>2. u.id = t.id /\ u.counted = t.counted /\ t.id < KeptTracker.next /\ t.counted
        BY <2>1, <4>1 DEF Follows
      <4>3. u.counted
        BY <4>2
      <4> QED
        BY <3>1, <4>2, <4>3
    <3> QED
      BY <3>2, <3>3, <3>4
  <2>6. N = counted /\ Uncounted(found.tracks) = counted
    <3> HIDE DEF counted
    <3> QED
      BY <1>3, <2>5 DEF Uncounted
  <2> QED
    BY <1>1, <2>6 DEF FrameOf
<1> QED
  BY <1>3, <1>4

\* The vehicles of the minute that are counted remain known as counted, until they are
\* pruned.
LEMMA CountedAreKnown ==
  ASSUME SessionIsTyped, ViewIsSound, VehiclesAreSound,
         NEW found, NEW new, NEW minute, NEW answered, FrameStep(found, new, minute, answered)
  PROVE  \A i \in minute.counted : \E x \in tracker'.tracks : x.id = i /\ x.counted
<1>1. /\ FrameOf(KeptTracker, found, new) /\ TrackerIsSound(found)
      /\ CountedNow(found) \in SUBSET found.tracks
      /\ minute.counted = (KeptMinute.counted \ found.pruned) \cup Ids(CountedNow(found))
  BY FrameObserved DEF FrameStep, Active
<1>2. Marks(found, CountedNow(found), tracker')
  <2>1. tracker' = [found EXCEPT !.tracks = MarkCounted(@, CountedNow(found))]
    BY DEF FrameStep
  <2>2. ASSUME NEW c \in SUBSET found.tracks
        PROVE  \A marked : marked = [found EXCEPT !.tracks = MarkCounted(@, c)] =>
                  Marks(found, c, marked)
    BY <1>1, MarkingKeeps
  <2> QED
    BY <1>1, <2>1, <2>2
<1>3. \A i \in KeptMinute.counted : \E t \in KeptTracker.tracks : t.id = i /\ t.counted
  BY KeptIsSound DEF SoundIn
<1>4. TAKE i \in minute.counted
<1>5. CASE i \in KeptMinute.counted \ found.pruned
  <2>1. PICK t \in KeptTracker.tracks : t.id = i /\ t.counted
    BY <1>3, <1>5
  <2>2. PICK u \in found.tracks : Follows(u, t)
    BY <1>1, <1>5, <2>1 DEF FrameOf
  <2>3. u.id = i /\ u.counted
    BY <2>1, <2>2 DEF Follows
  <2> QED
    BY <1>2, <2>3 DEF Marks
<1>6. CASE i \in Ids(CountedNow(found))
  <2>1. PICK u \in CountedNow(found) : u.id = i
    BY <1>6 DEF Ids
  <2> QED
    BY <1>1, <1>2, <2>1 DEF Marks
<1> QED
  BY <1>1, <1>5, <1>6

\* A frame of the session: what was sound of the vehicles before it is after it.
LEMMA FrameCountsOnce ==
  ASSUME SessionIsTyped, ViewIsSound, VehiclesAreSound,
         NEW found, NEW new, NEW minute, NEW answered, FrameStep(found, new, minute, answered)
  PROVE  SoundIn(tracker', minute, earlier', Total(cumulative), Discarded = 0 /\ ~Skipping)
<1> DEFINE n == Cardinality(CountedNow(found))
           c == Total(cumulative)
           m == Total(KeptMinute.counts)
           U == Uncounted(found.tracks)
           K == Uncounted(KeptTracker.tracks)
<1>1. /\ TrackerIsSound(found) /\ tracker'.next = found.next /\ new \in Nat
      /\ found.next = KeptTracker.next + new
      /\ Total(minute.counts) = m + n /\ n \in Nat
      /\ KeptMinute \in MinuteRecords(1 .. KeptTracker.next - 1)
      /\ FrameOf(KeptTracker, found, new)
  BY FrameObserved DEF FrameStep
<1>2. TrackerIsSound(KeptTracker) /\ KeptTracker.next \in Nat
  BY KeptTrackerIsSound DEF TrackerIsSound
<1>3. c \in Nat /\ m \in Nat
  BY <1>1, FiniteUnits, VideoConstants DEF SessionIsTyped, MinuteRecords
<1>4. earlier' = IF Turns THEN earlier + tracker.next - 1 ELSE earlier
  BY DEF FrameStep
<1>5. earlier' \in Nat
  BY <1>4 DEF SessionIsTyped, TrackerIsSound
<1>6. SoundIn(KeptTracker, KeptMinute, earlier', c, Discarded = 0 /\ ~Skipping)
  BY <1>4, KeptIsSound
<1>7. Uncounted(tracker'.tracks) = U \ CountedNow(found)
  <2>1. tracker' = [found EXCEPT !.tracks = MarkCounted(@, CountedNow(found))]
        /\ CountedNow(found) \in SUBSET found.tracks
    BY FrameObserved DEF FrameStep, Active
  <2>2. ASSUME NEW k \in SUBSET found.tracks
        PROVE  \A marked : marked = [found EXCEPT !.tracks = MarkCounted(@, k)] =>
                  Uncounted(marked.tracks) = Uncounted(found.tracks) \ k
    BY <1>1, MarkingKeeps
  <2> QED
    BY <2>1, <2>2
<1>8. /\ IsFiniteSet(U) /\ IsFiniteSet(K) /\ Cardinality(U) <= Cardinality(K) + new
      /\ Cardinality(U) \in Nat /\ Cardinality(K) \in Nat
  <2>1. IsFiniteSet(U) /\ IsFiniteSet(K) /\ Cardinality(U) <= Cardinality(K) + new
    BY <1>1, <1>2, FewUncounted
  <2> QED
    BY <2>1, FS_CardinalityType
<1>9. Cardinality(U \ CountedNow(found)) = Cardinality(U) - n
  <2>1. CountedNow(found) \subseteq U
    BY CountedAreNew
  <2>2. U \cap CountedNow(found) = CountedNow(found)
    BY <2>1
  <2>3. \A S : Cardinality(U \ S) = Cardinality(U) - Cardinality(U \cap S)
    BY <1>8, FS_Difference
  <2> QED
    BY <2>2, <2>3
<1>10. \A i \in minute.counted : \E x \in tracker'.tracks : x.id = i /\ x.counted
  BY CountedAreKnown
<1>11. c + Total(minute.counts) + Cardinality(Uncounted(tracker'.tracks))
         <= earlier' + tracker'.next - 1
  <2>1. c + m + Cardinality(K) <= earlier' + KeptTracker.next - 1
    BY <1>6 DEF SoundIn
  <2>2. tracker'.next = KeptTracker.next + new /\ Total(minute.counts) = m + n
    BY <1>1
  <2>3. Cardinality(Uncounted(tracker'.tracks)) = Cardinality(U) - n
    BY <1>7, <1>9
  <2>4. /\ c \in Nat /\ m \in Nat /\ n \in Nat /\ new \in Nat /\ earlier' \in Nat
        /\ KeptTracker.next \in Nat /\ Cardinality(U) \in Nat /\ Cardinality(K) \in Nat
        /\ Cardinality(U) <= Cardinality(K) + new
    BY <1>1, <1>2, <1>3, <1>5, <1>8
  <2>5. \A a, b, d, x, e, t, u, k \in Nat :
           a + b + k <= e + t - 1 /\ u <= k + x => a + (b + d) + (u - d) <= e + (t + x) - 1
    OBVIOUS
  <2> HIDE DEF c, m, n, U, K
  <2>6. c + (m + n) + (Cardinality(U) - n) <= earlier' + (KeptTracker.next + new) - 1
    BY <2>1, <2>4, <2>5
  <2> QED
    BY <2>2, <2>3, <2>6
<1>12. ASSUME Discarded = 0, ~Skipping
       PROVE  /\ Uncounted(tracker'.tracks) = {}
              /\ c + Total(minute.counts) = earlier' + tracker'.next - 1
  <2>1. K = {} /\ c + m = earlier' + KeptTracker.next - 1
    BY <1>6, <1>12 DEF SoundIn
  <2>2. U = CountedNow(found) /\ n = new
    BY <1>12, <2>1, CountedAreNew
  <2>3. Uncounted(tracker'.tracks) = {}
    BY <1>7, <2>2
  <2>4. tracker'.next = KeptTracker.next + new /\ Total(minute.counts) = m + new
    BY <1>1, <2>2
  <2>5. /\ c \in Nat /\ m \in Nat /\ new \in Nat /\ earlier' \in Nat
        /\ KeptTracker.next \in Nat
    BY <1>1, <1>2, <1>3, <1>5
  <2>6. c + m = earlier' + KeptTracker.next - 1
    BY <2>1
  <2> DEFINE e == earlier'
             k == KeptTracker.next
  <2> HIDE DEF c, m, n, U, K, e, k
  <2>7. c \in Nat /\ m \in Nat /\ new \in Nat /\ e \in Nat /\ k \in Nat /\ c + m = e + k - 1
    BY <2>5, <2>6 DEF e, k
  <2>8. c + (m + new) = e + (k + new) - 1
    BY <2>7
  <2>9. c + (m + new) = earlier' + (KeptTracker.next + new) - 1
    BY <2>8 DEF e, k
  <2> QED
    BY <2>3, <2>4, <2>9
<1> QED
  BY <1>10, <1>11, <1>12 DEF SoundIn

LEMMA VehiclesStay ==
  ASSUME SessionIsTyped, ViewIsSound, VehiclesAreSound,
         NEW found, NEW new, NEW minute, NEW answered, FrameStep(found, new, minute, answered)
  PROVE  VehiclesAreSound'
<1> DEFINE e == earlier'
           t == tracker'
           c == Total(cumulative)
           m == Total(minute.counts)
<1>1. answered \in BOOLEAN /\ Closing(minute, answered)
      /\ SoundIn(tracker', minute, e, c, Discarded = 0 /\ ~Skipping)
  BY FrameCountsOnce DEF FrameStep
<1>2. /\ minute.counts \in [Kinds -> Nat] /\ cumulative \in [Kinds -> Nat]
      /\ IsFiniteSet(Kinds)
  <2>1. minute \in MinuteRecords(1 .. found.next - 1)
    BY FrameObserved
  <2> QED
    BY <2>1, VideoConstants DEF SessionIsTyped, MinuteRecords
<1>3. c \in Nat /\ m \in Nat
  BY <1>2, FiniteUnits
<1>4. Discarded = DiscardedIn(reports) /\ Discarded' = DiscardedIn(reports')
      /\ Discarded \in Nat
      /\ Discarded' = Discarded + IF EndsMinute(Coming) /\ Skipping THEN 1 ELSE 0
  <2>1. Discarded = DiscardedIn(reports) /\ Discarded' = DiscardedIn(reports')
    BY DEF Discarded, SumOver, DiscardedIn
  <2> QED
    BY <1>1, <2>1, ReportsStay
<1>5. TrackerIsSound(t) /\ e \in Nat /\ t.next \in Nat
      /\ Cardinality(Uncounted(t.tracks)) \in Nat
  <2>1. TrackerIsSound(t)
    BY FrameObserved
  <2>2. e \in Nat
    BY DEF FrameStep, SessionIsTyped, TrackerIsSound
  <2>3. IsFiniteSet(Uncounted(t.tracks)) /\ t.next \in Nat
    BY <2>1, FS_Subset DEF TrackerIsSound, Uncounted
  <2> QED
    BY <2>1, <2>2, <2>3, FS_CardinalityType
<1>6. TotalsIn(records) = c
  BY DEF VehiclesAreSound, SumOver, TotalsIn
<1> DEFINE Rest == /\ SoundIn(t, acc', e, Total(cumulative'), Discarded' = 0 /\ ~view'.skip)
                   /\ Total(cumulative') = TotalsIn(records')
<1>7. Total(EmptyMinute.counts) = 0 /\ EmptyMinute.counted = {}
  BY EmptyMinuteIsTyped
<1>8. ASSUME ~EndsMinute(Coming) PROVE Rest
  <2>1. view' = NextView /\ acc' = minute /\ cumulative' = cumulative /\ records' = records
    BY <1>1, <1>8, ClosingCases
  <2>2. NextView.skip = Skipping
    BY ViewTurns
  <2>3. Discarded' = Discarded
    BY <1>4, <1>8
  <2> QED
    BY <1>1, <1>6, <2>1, <2>2, <2>3 DEF SoundIn
<1>9. ASSUME EndsMinute(Coming), Skipping PROVE Rest
  <2>1. acc' = EmptyMinute /\ cumulative' = cumulative /\ records' = records
    BY <1>1, <1>9, ClosingCases
  <2>2. Discarded' # 0
    BY <1>4, <1>9
  <2>3. c + m + Cardinality(Uncounted(t.tracks)) <= e + t.next - 1
    BY <1>1 DEF SoundIn
  <2> HIDE DEF c, m, t, e
  <2>4. c + 0 + Cardinality(Uncounted(t.tracks)) <= e + t.next - 1
    BY <1>3, <1>5, <2>3
  <2> QED
    BY <1>6, <1>7, <2>1, <2>2, <2>4 DEF SoundIn, c
<1>10. ASSUME EndsMinute(Coming), ~Skipping PROVE Rest
  <2>1. acc' = EmptyMinute /\ cumulative' = Plus(cumulative, minute.counts)
    BY <1>1, <1>10 DEF Closing, CloseMinute
  <2>2. Total(cumulative') = c + m
    <3>1. Plus(cumulative, minute.counts) \in [Kinds -> Nat]
          /\ \A k \in Kinds : Plus(cumulative, minute.counts)[k] = cumulative[k] + minute.counts[k]
      BY <1>2 DEF Plus
    <3>2. ASSUME NEW K, IsFiniteSet(K), NEW f \in [K -> Nat], NEW g \in [K -> Nat]
          PROVE  \A h \in [K -> Nat] : (\A k \in K : h[k] = f[k] + g[k]) => Total(h) = Total(f) + Total(g)
      BY <3>2, TotalOfSum
    <3> QED
      BY <1>2, <2>1, <3>1, <3>2
  <2>3. TotalsIn(records') = c + m
    <3> DEFINE f == [i \in DOMAIN records |-> records[i].total]
               g == [i \in DOMAIN records' |-> records'[i].total]
               n == Len(records)
    <3>1. /\ n \in Nat /\ DOMAIN records = 1 .. n /\ DOMAIN records' = 1 .. n + 1
          /\ \A i \in 1 .. n : records'[i] = records[i]
          /\ records'[n + 1].total = m
      BY <1>10, RecordsGrow
    <3>2. \A i \in 1 .. n : records[i].total \in Nat
      <4>1. \A i \in 1 .. n : records[i] \in TelemetryRecords
        BY <3>1, ElementIn DEF SessionIsTyped
      <4> QED
        BY <4>1 DEF TelemetryRecords
    <3>3. \A i \in 1 .. n + 1 : i \in 1 .. n \/ i = n + 1
      BY <3>1
    <3>4. f \in [1 .. n -> Nat] /\ g \in [1 .. n + 1 -> Nat]
          /\ (\A i \in 1 .. n : g[i] = f[i]) /\ g[n + 1] = m
      <4> HIDE DEF n, m
      <4>1. \A i \in 1 .. n + 1 : records'[i].total \in Nat
        BY <1>3, <3>1, <3>2, <3>3
      <4>2. n + 1 \in 1 .. n + 1 /\ \A i \in 1 .. n : i \in 1 .. n + 1
        BY <3>1
      <4> QED
        BY <3>1, <3>2, <4>1, <4>2
    <3> HIDE DEF f, g, n
    <3>5. Total(g) = Total(f) + g[n + 1]
      BY <3>1, <3>4, TotalAppended
    <3> QED
      BY <1>6, <3>4, <3>5 DEF TotalsIn, f, g
  <2>4. SoundIn(t, EmptyMinute, e, c + m, Discarded' = 0 /\ ~view'.skip)
    <3> HIDE DEF t, e, c, m
    <3>1. c + m + Cardinality(Uncounted(t.tracks)) <= e + t.next - 1
      BY <1>1 DEF SoundIn, t, m
    <3>2. Discarded' = 0 => Uncounted(t.tracks) = {} /\ c + m = e + t.next - 1
      BY <1>1, <1>4, <1>10 DEF SoundIn, t, m
    <3>3. (c + m) + 0 + Cardinality(Uncounted(t.tracks)) <= e + t.next - 1
          /\ (c + m) + 0 = c + m
      BY <1>3, <1>5, <3>1
    <3> QED
      BY <1>7, <3>2, <3>3 DEF SoundIn
  <2> QED
    BY <2>1, <2>2, <2>3, <2>4
<1>11. Rest
  BY <1>8, <1>9, <1>10
<1>12. (Total(cumulative) = SumOver(records, LAMBDA r : r.total))'
  BY <1>11 DEF SumOver, TotalsIn
<1>13. /\ \A i \in acc'.counted : \E u \in tracker'.tracks : u.id = i /\ u.counted
       /\ Total(cumulative') + Total(acc'.counts) + Cardinality(Uncounted(tracker'.tracks))
             <= earlier' + tracker'.next - 1
       /\ Discarded' = 0 /\ ~view'.skip =>
             Uncounted(tracker'.tracks) = {}
             /\ Total(cumulative') + Total(acc'.counts) = earlier' + tracker'.next - 1
  BY <1>11 DEF SoundIn
<1> HIDE DEF t, e, c, m, Rest
<1> QED
  BY <1>12, <1>13 DEF VehiclesAreSound

-----------------------------------------------------------------------------
(* The invariant of the session.                                            *)

LEMMA VideoStart ==
  VideoInit => VideoInv
<1> SUFFICES ASSUME VideoInit PROVE VideoInv
  OBVIOUS
<1>1. /\ plan \in Plans /\ WellFormed(plan) /\ phase = "running" /\ frame = 0
      /\ view = [active |-> 0, sequence |-> 1, skip |-> FALSE, discarding |-> FALSE]
      /\ tracker = FreshTracker /\ motion = <<>> /\ speeds = {}
      /\ acc = EmptyMinute /\ cumulative = NoCounts
      /\ records = <<>> /\ context = <<>> /\ classified = <<>> /\ latest = 0
      /\ reports = <<>> /\ earlier = 0
  BY DEF VideoInit
<1>2. TrackerIsSound(FreshTracker)
  BY FS_EmptySet DEF TrackerIsSound, FreshTracker
<1>3. EmptyMinute \in MinuteRecords(1 .. tracker.next - 1) /\ Total(NoCounts) = 0
      /\ EmptyMinute.counts = NoCounts /\ EmptyMinute.counted = {}
      /\ NoCounts \in [Kinds -> Nat]
  BY EmptyMinuteIsTyped DEF NoCounts
<1>4. DOMAIN motion = {} /\ motion \in [DOMAIN motion -> MotionRecords]
  BY <1>1
<1>5. SessionIsTyped
  BY <1>1, <1>2, <1>3, <1>4, VideoConstants DEF SessionIsTyped
<1>6. /\ FramesPerMinute \in Nat \ {0} /\ 0 % FramesPerMinute = 0 /\ 0 \div FramesPerMinute = 0
  BY VideoConstants, SMT
<1>7. ViewIsSound
  BY <1>1, <1>6 DEF ViewIsSound
<1>8. DiscardedIn(reports) = 0 /\ Discarded = DiscardedIn(reports)
  BY <1>1, <1>5, DiscardedIsCount DEF SessionIsTyped, Discarded, SumOver, DiscardedIn
<1>9. RecordsAreSound
  BY <1>1, <1>6, <1>8 DEF RecordsAreSound
<1>10. PredictionsAreSound
  BY <1>1 DEF PredictionsAreSound, PredictionsStayInView, Status, ToSet
<1>11. VehiclesAreSound
  <2>1. Uncounted(tracker.tracks) = {} /\ tracker.next = 1 /\ earlier = 0
    BY <1>1 DEF FreshTracker, Uncounted
  <2>2. Cardinality(Uncounted(tracker.tracks)) = 0
    BY <2>1, FS_EmptySet
  <2>3. Total(cumulative) = 0 /\ Total(acc.counts) = 0 /\ acc.counted = {}
    BY <1>1, <1>3
  <2>4. Total(cumulative) = SumOver(records, LAMBDA r : r.total)
    <3>1. DOMAIN [i \in DOMAIN records |-> records[i].total] = {}
      BY <1>1
    <3>2. Total([i \in DOMAIN records |-> records[i].total]) = 0
      <4> DEFINE f == [i \in DOMAIN records |-> records[i].total]
      <4>1. \A k \in DOMAIN f : f[k] = 0
        BY <3>1
      <4> HIDE DEF f
      <4>2. Total(f) = 0
        BY <4>1, TotalOfNothing
      <4> QED
        BY <4>2 DEF f
    <3> QED
      BY <2>3, <3>2 DEF SumOver
  <2>5. Total(cumulative) + Total(acc.counts) = earlier + tracker.next - 1
        /\ Total(cumulative) + Total(acc.counts) + Cardinality(Uncounted(tracker.tracks))
             <= earlier + tracker.next - 1
    BY <2>1, <2>2, <2>3
  <2> QED
    BY <2>1, <2>3, <2>4, <2>5 DEF VehiclesAreSound
<1>12. MotionIsOwn
  BY <1>4 DEF MotionIsOwn
<1> QED
  BY <1>5, <1>7, <1>9, <1>10, <1>11, <1>12 DEF VideoInv

\* The end of the video and a rejected frame change the phase alone.
LEMMA OnlyPhase ==
  ASSUME VideoInv,
         UNCHANGED <<plan, frame, view, tracker, motion, speeds, acc, cumulative, records,
                     context, classified, latest, reports, earlier>>,
         phase' \in {"running", "done", "failed"}
  PROVE  VideoInv'
<1>1. SessionIsTyped'
  BY DEF VideoInv, SessionIsTyped, WellFormed
<1>2. Discarded' = Discarded
  BY DEF Discarded, SumOver
<1>3. ViewIsSound'
  BY DEF VideoInv, ViewIsSound, Located
<1>4. RecordsAreSound'
  BY <1>2 DEF VideoInv, RecordsAreSound, Located
<1>5. PredictionsAreSound'
  BY DEF VideoInv, PredictionsAreSound, PredictionsStayInView, Status
<1>6. VehiclesAreSound'
  BY <1>2 DEF VideoInv, VehiclesAreSound, SumOver
<1>7. MotionIsOwn'
  BY DEF VideoInv, MotionIsOwn
<1> QED
  BY <1>1, <1>3, <1>4, <1>5, <1>6, <1>7 DEF VideoInv

LEMMA VideoStep ==
  VideoInv /\ [VideoNext]_videoVars => VideoInv'
<1> SUFFICES ASSUME VideoInv, [VideoNext]_videoVars PROVE VideoInv'
  OBVIOUS
<1>1. CASE Finish \/ RejectFrame
  BY <1>1, OnlyPhase DEF Finish, RejectFrame
<1>2. ASSUME NEW scene \in Scenes, ProcessFrame(scene) PROVE VideoInv'
  <2>1. SessionIsTyped /\ ViewIsSound /\ RecordsAreSound /\ PredictionsAreSound
        /\ VehiclesAreSound /\ MotionIsOwn
    BY DEF VideoInv
  <2>2. PICK found, new, minute, answered : FrameStep(found, new, minute, answered)
    BY <1>2, <2>1, ProcessedFrame
  <2>3. SessionIsTyped'
    BY <2>1, <2>2, TypesStay
  <2>4. ViewIsSound'
    BY <2>1, <2>2, ViewStays
  <2>5. RecordsAreSound'
    BY <2>1, <2>2, RecordsStay
  <2>6. PredictionsAreSound'
    BY <2>1, <2>2, PredictionsStay
  <2>7. VehiclesAreSound'
    BY <2>1, <2>2, VehiclesStay
  <2>8. MotionIsOwn'
    BY <2>1, <2>2, MotionStays
  <2> QED
    BY <2>3, <2>4, <2>5, <2>6, <2>7, <2>8 DEF VideoInv
<1>3. CASE UNCHANGED videoVars
  <2>1. phase \in {"running", "done", "failed"}
    BY DEF VideoInv, SessionIsTyped
  <2> QED
    BY <1>3, <2>1, OnlyPhase DEF videoVars
<1> QED
  BY <1>1, <1>2, <1>3 DEF VideoNext

\* The session of a video keeps its state in order, whatever the scenes and the plan:
\* trackers that number their vehicles apart, a minute of the vehicles that were numbered,
\* records, reports and predictions of one view each (process_frame, _complete_minute).
THEOREM SessionStaysSound ==
  VideoSpec => []VideoInv
BY VideoStart, VideoStep, PTL DEF VideoSpec

\* The types of the session hold on every frame.
THEOREM VideoTypesHold ==
  VideoSpec => []VideoTypeOK
<1>1. VideoInv => VideoTypeOK
  BY VideoConstants DEF VideoInv, SessionIsTyped, VideoTypeOK, MinuteRecords
<1> QED
  BY <1>1, SessionStaysSound, PTL

\* The votes and speeds that are remembered are always those of a vehicle that is still
\* followed and has been seen as often as it has voted (_measure_motion, remove_track).
THEOREM MotionStaysOwn ==
  VideoSpec => []MotionIsOwn
<1>1. VideoInv => MotionIsOwn
  BY DEF VideoInv
<1> QED
  BY <1>1, SessionStaysSound, PTL

\* In every video each vehicle that a tracker numbered is counted at most once, and
\* exactly once as long as no minute was discarded; the counts of the HUD are those of
\* the telemetry (observe_track, mark_counted, build_record).
THEOREM EveryVehicleCountsOnce ==
  VideoSpec => []VehiclesCountOnce
<1>1. ASSUME VideoInv PROVE VehiclesCountOnce
  <2>1. SessionIsTyped /\ VehiclesAreSound
    BY <1>1 DEF VideoInv
  <2>2. /\ Total(cumulative) \in Nat /\ Total(acc.counts) \in Nat
        /\ earlier \in Nat /\ tracker.next \in Nat
    BY <2>1, FiniteUnits, VideoConstants DEF SessionIsTyped, MinuteRecords, TrackerIsSound
  <2>3. Cardinality(Uncounted(tracker.tracks)) \in Nat
    <3>1. IsFiniteSet(tracker.tracks)
      BY <2>1 DEF SessionIsTyped, TrackerIsSound
    <3>2. IsFiniteSet(Uncounted(tracker.tracks))
      BY <3>1, FS_Subset DEF Uncounted
    <3> QED
      BY <3>2, FS_CardinalityType
  <2>4. Total(cumulative) + Total(acc.counts) <= earlier + tracker.next - 1
    BY <2>1, <2>2, <2>3 DEF VehiclesAreSound
  <2> QED
    BY <2>1, <2>4 DEF VehiclesAreSound, VehiclesCountOnce
<1> QED
  BY <1>1, SessionStaysSound, PTL

\* Wherever the plan turns the camera, a minute of telemetry is of one view, views never
\* share a continuity identifier, every complete minute is a record or declared
\* discarded, a prediction is made from the minutes of its own view and the HUD shows no
\* state of an earlier one (_apply_view_plan, _complete_minute, _request_minute_prediction);
\* and for any frame rate the seconds reported as partial complete the time of the video
\* just when the rounding of the minutes has not drifted past them (analyze_video).
THEOREM ViewsAlwaysStayApart ==
  VideoSpec => []ViewsStayApart
<1>1. ASSUME VideoInv PROVE MinutesStayInOneView
  <2> DEFINE first(r) == r.to - FramesPerMinute + 1
  <2>1. ASSUME NEW i \in DOMAIN records, plan # NoPlan
        PROVE  /\ SegmentIndex(first(records[i])) = records[i].cont
               /\ SegmentIndex(records[i].to) = records[i].cont
    <3>1. records[i] \in TelemetryRecords
      BY <1>1, ElementIn DEF VideoInv, SessionIsTyped
    <3>2. records[i].to \in Nat /\ records[i].to >= FramesPerMinute /\ FramesPerMinute \in Nat
      BY <1>1, <3>1, VideoConstants DEF VideoInv, RecordsAreSound, TelemetryRecords
    <3>3. first(records[i]) \in Nat
      BY <3>2
    <3>4. Located(records[i].cont, records[i].to) /\ Located(records[i].cont, first(records[i]))
      BY <1>1, <2>1 DEF VideoInv, RecordsAreSound
    <3>5. plan \in Plans /\ WellFormed(plan)
      BY <1>1 DEF VideoInv, SessionIsTyped
    <3> HIDE DEF first
    <3> QED
      BY <2>1, <3>2, <3>3, <3>4, <3>5, LocatedIsIndex
  <2> QED
    BY <2>1 DEF MinutesStayInOneView
<1>2. ASSUME VideoInv PROVE MinutesAreAccounted
  <2> DEFINE m == FramesPerMinute
             k == Len(records) + Discarded
             r == frame % m
             e == k * RateFrames
             drift == k * (RateFrames - m * RateMinutes)
             rest == r * RateMinutes - drift
  <2>1. frame \in Nat /\ m \in Nat \ {0} /\ Len(records) \in Nat
    BY <1>2, ElementIn, VideoConstants DEF VideoInv, SessionIsTyped
  <2>2. RateFrames \in Nat \ {0} /\ RateMinutes \in Nat \ {0}
    BY VideoConstants
  <2>3. k = frame \div m
    BY <1>2 DEF VideoInv, RecordsAreSound
  <2>4. k \in Nat /\ r \in Nat /\ frame = m * k + r
    <3>1. frame % m \in 0 .. m - 1 /\ frame \div m \in Nat
          /\ frame = m * (frame \div m) + (frame % m)
      BY <2>1, DivMod
    <3>2. r \in Nat
      BY <2>1, <3>1
    <3> HIDE DEF k, m
    <3> QED
      BY <2>3, <3>1, <3>2
  <2>5. /\ e \in Nat /\ rest \in Int /\ ProcessedTime \in Nat
        /\ ProcessedTime = e + rest
    <3> HIDE DEF k, r, m
    <3> QED
      BY <2>1, <2>2, <2>4, DriftOfTime DEF ProcessedTime
  <2>6. ASSUME plan # NoPlan
        PROVE  e + PartialTime = ProcessedTime <=> rest >= 0 /\ rest < RateFrames
    <3>1. PartialTime = ProcessedTime % RateFrames
      BY <2>6 DEF PartialTime
    <3> HIDE DEF k, r, m, rest
    <3>2. e + (ProcessedTime % RateFrames) = ProcessedTime <=> rest >= 0 /\ rest < RateFrames
      BY <2>2, <2>4, <2>5, TimeInMinute
    <3> QED
      BY <3>1, <3>2
  <2>7. ASSUME plan = NoPlan
        PROVE  e + PartialTime = ProcessedTime <=> rest >= 0
    <3>1. reports = <<>>
      BY <1>2, <2>7 DEF VideoInv, ViewIsSound
    <3>2. Discarded = 0
      BY <1>2, <3>1, DiscardedIsCount DEF VideoInv, SessionIsTyped, Discarded, SumOver, DiscardedIn
    <3>3. k = Len(records)
      BY <2>1, <3>2
    <3>4. PartialTime = IF ProcessedTime - e > 0 THEN ProcessedTime - e ELSE 0
      BY <2>7, <3>3 DEF PartialTime
    <3> HIDE DEF e, rest
    <3> QED
      BY <2>5, <3>4
  <2>8. k * RateFrames + PartialTime = ProcessedTime
        <=> rest >= 0 /\ (plan # NoPlan => rest < RateFrames)
    <3> HIDE DEF rest, k
    <3> QED
      BY <2>6, <2>7
  <2> HIDE DEF k
  <2> QED
    BY <2>3, <2>8 DEF MinutesAreAccounted, k
<1>3. VideoInv => ViewsStayApart
  BY <1>1, <1>2 DEF VideoInv, PredictionsAreSound, ViewsStayApart
<1> QED
  BY <1>3, SessionStaysSound, PTL

-----------------------------------------------------------------------------
(***************************************************************************)
(* The factor that turns pixels into metres by the height in the image:    *)
(* SpeedScale, for any lines and factors whose bands do not overlap and    *)
(* whose zones shrink with the distance (settings.py:PERSPECTIVE_ZONES,    *)
(* PERSPECTIVE_BLEND_BAND).  Everything is counted in steps of a band.     *)
(***************************************************************************)
CONSTANTS NearLine, MidLine, NearFactor, MidFactor, FarFactor, Blend, TrimPercent

P == INSTANCE SpeedScale

PerspectiveConstants ==
    /\ Blend \in Nat \ {0} /\ NearLine \in Int /\ MidLine \in Int
    /\ MidLine + Blend <= NearLine - Blend
    /\ NearFactor \in Int /\ MidFactor \in Int /\ FarFactor \in Int
    /\ FarFactor <= MidFactor /\ MidFactor <= NearFactor

Band == 2 * Blend
\* The factor k steps into a band from a to b, times the steps of the band.
Ramp(a, b, k) == a * Band + (b - a) * k

LEMMA RampFacts ==
  ASSUME PerspectiveConstants, NEW a \in Int, NEW b \in Int, a <= b
  PROVE  /\ Ramp(a, b, 0) = a * Band /\ Ramp(a, b, Band) = b * Band
         /\ \A k \in Int : Ramp(a, b, k) \in Int /\ Ramp(a, b, k + 1) = Ramp(a, b, k) + (b - a)
         /\ \A k \in 0 .. Band : a * Band <= Ramp(a, b, k) /\ Ramp(a, b, k) <= b * Band
<1>1. Band \in Nat
  BY DEF Band, PerspectiveConstants
<1> DEFINE w == Band
           d == b - a
<1>2. w \in Nat /\ d \in Nat /\ b = a + d
  BY <1>1
<1>3. \A k : Ramp(a, b, k) = a * w + d * k
  BY DEF Ramp
<1> HIDE DEF w, d
<1>4. (a + d) * w = a * w + d * w /\ a * w \in Int /\ d * 0 = 0
  BY <1>2
<1>5. ASSUME NEW k \in Int PROVE d * k \in Int /\ d * (k + 1) = d * k + d
  BY <1>2
<1>6. ASSUME NEW k \in 0 .. w PROVE 0 <= d * k /\ d * k <= d * w /\ d * k \in Int /\ d * w \in Int
  BY <1>2
<1>7. b * w = a * w + d * w
  BY <1>2, <1>4
<1>8. Ramp(a, b, 0) = a * w /\ Ramp(a, b, w) = b * w
  BY <1>3, <1>4, <1>7
<1>9. ASSUME NEW k \in Int PROVE Ramp(a, b, k) \in Int /\ Ramp(a, b, k + 1) = Ramp(a, b, k) + d
  BY <1>2, <1>3, <1>4, <1>5
<1>10. ASSUME NEW k \in 0 .. w PROVE a * w <= Ramp(a, b, k) /\ Ramp(a, b, k) <= b * w
  BY <1>3, <1>4, <1>6, <1>7
<1> QED
  BY <1>8, <1>9, <1>10 DEF w, d

\* The factor at a height, times the steps of a band.
Level(y) ==
    IF y >= NearLine + Blend THEN NearFactor * Band
    ELSE IF y <= MidLine - Blend THEN FarFactor * Band
    ELSE IF y >= NearLine - Blend THEN Ramp(MidFactor, NearFactor, y - (NearLine - Blend))
    ELSE IF y <= MidLine + Blend THEN Ramp(FarFactor, MidFactor, y - (MidLine - Blend))
    ELSE MidFactor * Band

\* It grows with the height, by at most a step of both ramps together.
LEMMA LevelGrows ==
  ASSUME PerspectiveConstants, NEW y \in Int
  PROVE  /\ Level(y) \in Int /\ Level(y) <= Level(y + 1)
         /\ Level(y + 1) - Level(y) <= NearFactor - FarFactor
         /\ FarFactor * Band <= Level(y) /\ Level(y) <= NearFactor * Band
<1> DEFINE w == Band
           f == FarFactor * w
           m == MidFactor * w
           n == NearFactor * w
           up(k) == Ramp(MidFactor, NearFactor, k)
           low(k) == Ramp(FarFactor, MidFactor, k)
           i == y - (NearLine - Blend)
           j == y - (MidLine - Blend)
<1>1. w = 2 * Blend /\ w \in Nat \ {0}
  BY DEF Band, PerspectiveConstants
<1>2. /\ up(0) = m /\ up(w) = n
      /\ \A k \in Int : up(k) \in Int /\ up(k + 1) = up(k) + (NearFactor - MidFactor)
      /\ \A k \in 0 .. w : m <= up(k) /\ up(k) <= n
  BY RampFacts DEF PerspectiveConstants
<1>3. /\ low(0) = f /\ low(w) = m
      /\ \A k \in Int : low(k) \in Int /\ low(k + 1) = low(k) + (MidFactor - FarFactor)
      /\ \A k \in 0 .. w : f <= low(k) /\ low(k) <= m
  BY RampFacts DEF PerspectiveConstants
<1>4. f \in Int /\ m \in Int /\ n \in Int /\ f <= m /\ m <= n
  <2>1. f \in Int /\ m \in Int /\ n \in Int
    BY <1>1 DEF PerspectiveConstants
  <2>2. 0 \in 0 .. w
    BY <1>1
  <2> HIDE DEF f, m, n, up, low
  <2>3. up(0) <= n /\ low(0) <= m
    BY <1>2, <1>3, <2>2
  <2> QED
    BY <1>2, <1>3, <2>1, <2>3
<1>5. /\ Level(y) = IF i >= w THEN n ELSE IF j <= 0 THEN f ELSE IF i >= 0 THEN up(i)
                    ELSE IF j <= w THEN low(j) ELSE m
      /\ Level(y + 1) = IF i + 1 >= w THEN n ELSE IF j + 1 <= 0 THEN f ELSE IF i + 1 >= 0 THEN up(i + 1)
                        ELSE IF j + 1 <= w THEN low(j + 1) ELSE m
  <2> DEFINE at(k, l) == IF k >= w THEN n ELSE IF l <= 0 THEN f ELSE IF k >= 0 THEN up(k)
                         ELSE IF l <= w THEN low(l) ELSE m
  <2>1. ASSUME NEW x \in Int, NEW k \in Int, NEW l \in Int,
               k = x - (NearLine - Blend), l = x - (MidLine - Blend)
        PROVE  Level(x) = at(k, l)
    <3>1. /\ x >= NearLine + Blend <=> k >= w
          /\ x <= MidLine - Blend <=> l <= 0
          /\ x >= NearLine - Blend <=> k >= 0
          /\ x <= MidLine + Blend <=> l <= w
      BY <1>1, <2>1 DEF PerspectiveConstants
    <3>2. Level(x) = IF x >= NearLine + Blend THEN n ELSE IF x <= MidLine - Blend THEN f
                     ELSE IF x >= NearLine - Blend THEN up(k)
                     ELSE IF x <= MidLine + Blend THEN low(l) ELSE m
      BY <2>1, Zenon DEF Level
    <3> HIDE DEF f, m, n, w, up, low
    <3> QED
      BY <3>1, <3>2
  <2>2. /\ y \in Int /\ y + 1 \in Int /\ i \in Int /\ j \in Int /\ i + 1 \in Int /\ j + 1 \in Int
        /\ i + 1 = (y + 1) - (NearLine - Blend) /\ j + 1 = (y + 1) - (MidLine - Blend)
    BY DEF PerspectiveConstants
  <2> HIDE DEF at, f, m, n, w, up, low
  <2>3. Level(y) = at(i, j)
    BY <2>1, <2>2
  <2> HIDE DEF i, j
  <2>4. Level(y + 1) = at(i + 1, j + 1)
    BY <2>1, <2>2
  <2> QED
    BY <2>3, <2>4 DEF at
<1>6. i \in Int /\ j \in Int /\ i + w <= j
  BY <1>1 DEF PerspectiveConstants
<1>7. NearFactor \in Int /\ MidFactor \in Int /\ FarFactor \in Int
      /\ FarFactor <= MidFactor /\ MidFactor <= NearFactor
  BY DEF PerspectiveConstants
<1> SUFFICES /\ Level(y) \in Int /\ Level(y) <= Level(y + 1)
             /\ Level(y + 1) - Level(y) <= NearFactor - FarFactor
             /\ f <= Level(y) /\ Level(y) <= n
  OBVIOUS
<1> HIDE DEF w, f, m, n, up, low, i, j
<1>8. CASE i >= w
  BY <1>1, <1>4, <1>5, <1>6, <1>7, <1>8
<1>9. CASE j <= 0
  <2>1. Level(y) = f
    BY <1>1, <1>5, <1>6, <1>9
  <2>2. Level(y + 1) = f \/ (j = 0 /\ Level(y + 1) = low(1))
    <3>1. j = 0 => i + 1 < w
      BY <1>1, <1>6
    <3>2. CASE j < 0
      BY <1>1, <1>5, <1>6, <3>2
    <3>3. CASE j = 0
      <4>1. i + 1 >= 0 => i + 1 = 0 /\ w = 1
        BY <1>1, <1>6, <3>3
      <4>2. w # 1
        BY <1>1 DEF PerspectiveConstants
      <4> QED
        BY <1>1, <1>5, <1>6, <3>3, <4>1, <4>2
    <3> QED
      BY <1>6, <1>9, <3>2, <3>3
  <2>3. low(1) = f + (MidFactor - FarFactor)
    <3>1. low(0 + 1) = low(0) + (MidFactor - FarFactor)
      BY <1>3
    <3> QED
      BY <1>3, <3>1
  <2> QED
    BY <1>4, <1>7, <2>1, <2>2, <2>3
<1>10. CASE i \in 0 .. w - 1
  <2>1. Level(y) = up(i) /\ i \in 0 .. w
    BY <1>1, <1>5, <1>6, <1>10
  <2>2. up(i + 1) = up(i) + (NearFactor - MidFactor) /\ up(i) \in Int /\ m <= up(i) /\ up(i) <= n
    BY <1>2, <1>6, <2>1
  <2>3. Level(y + 1) = up(i + 1)
    <3>1. i + 1 = w \/ i + 1 < w
      BY <1>1, <1>10
    <3>2. CASE i + 1 = w
      BY <1>2, <1>5, <3>2, <1>1
    <3>3. CASE i + 1 < w
      BY <1>1, <1>5, <1>6, <1>10, <3>3
    <3> QED
      BY <3>1, <3>2, <3>3
  <2> QED
    BY <1>4, <1>7, <2>1, <2>2, <2>3
<1>11. CASE i < 0 /\ j \in 1 .. w
  <2>1. Level(y) = low(j) /\ j \in 0 .. w
    BY <1>1, <1>5, <1>6, <1>11
  <2>2. low(j + 1) = low(j) + (MidFactor - FarFactor) /\ low(j) \in Int /\ f <= low(j) /\ low(j) <= m
    BY <1>3, <1>6, <2>1
  <2>3. Level(y + 1) = low(j + 1) \/ (low(j) = m /\ Level(y + 1) = m)
    <3>1. CASE j < w
      <4>1. i + 1 < w /\ j + 1 > 0 /\ j + 1 <= w
        BY <1>1, <1>6, <1>11, <3>1
      <4>2. CASE i + 1 < 0
        BY <1>1, <1>5, <1>6, <4>1, <4>2
      <4>3. CASE i + 1 >= 0
        <5>1. i + 1 = 0 /\ j + 1 = w
          BY <1>1, <1>6, <1>11, <4>1, <4>3
        <5>2. Level(y + 1) = up(i + 1)
          BY <1>1, <1>5, <1>6, <4>1, <4>3
        <5>3. up(i + 1) = m /\ low(j + 1) = m
          BY <1>2, <1>3, <5>1
        <5> QED
          BY <5>2, <5>3
      <4> QED
        BY <1>6, <4>2, <4>3
    <3>2. CASE j = w
      <4>1. low(j) = m
        BY <1>3, <3>2
      <4>2. Level(y + 1) = m
        <5>1. CASE i + 1 >= 0
          <6>1. i + 1 = 0 /\ ~(i + 1 >= w) /\ ~(j + 1 <= 0)
            BY <1>1, <1>6, <1>11, <5>1
          <6> QED
            BY <1>2, <1>5, <5>1, <6>1
        <5>2. CASE i + 1 < 0
          BY <1>1, <1>5, <1>6, <3>2, <5>2
        <5> QED
          BY <1>6, <5>1, <5>2
      <4> QED
        BY <4>1, <4>2
    <3> QED
      BY <1>1, <1>11, <3>1, <3>2
  <2> QED
    BY <1>4, <1>7, <2>1, <2>2, <2>3
<1>12. CASE i < 0 /\ j > w
  <2>1. Level(y) = m
    BY <1>1, <1>5, <1>6, <1>12
  <2>2. Level(y + 1) = m
    <3>1. CASE i + 1 >= 0
      <4>1. i + 1 = 0 /\ ~(i + 1 >= w) /\ ~(j + 1 <= 0)
        BY <1>1, <1>6, <1>12, <3>1
      <4> QED
        BY <1>2, <1>5, <3>1, <4>1
    <3>2. CASE i + 1 < 0
      BY <1>1, <1>5, <1>6, <1>12, <3>2
    <3> QED
      BY <1>6, <3>1, <3>2
  <2> QED
    BY <1>4, <1>7, <2>1, <2>2
<1>13. i >= w \/ j <= 0 \/ i \in 0 .. w - 1 \/ (i < 0 /\ j \in 1 .. w) \/ (i < 0 /\ j > w)
  BY <1>1, <1>6
<1> QED
  BY <1>8, <1>9, <1>10, <1>11, <1>12, <1>13

\* A fraction of one or of a band's steps is one of the levels.
Scaled(p, v) == (p[2] = 1 /\ v = p[1] * Band) \/ (p[2] = Band /\ v = p[1])

LEMMA PerspectiveIsLevel ==
  ASSUME PerspectiveConstants, NEW y \in Int
  PROVE  Scaled(P!Perspective(y), Level(y)) /\ P!Perspective(y)[1] \in Int
<1> DEFINE p == P!Perspective(y)
           i == y - (NearLine - Blend)
           j == y - (MidLine - Blend)
<1>1. /\ Blend \in Nat \ {0} /\ NearLine \in Int /\ MidLine \in Int
      /\ NearFactor \in Int /\ MidFactor \in Int /\ FarFactor \in Int
      /\ FarFactor <= MidFactor /\ MidFactor <= NearFactor
  BY DEF PerspectiveConstants
<1>2. /\ P!Around(NearLine, y) <=> (NearLine - Blend <= y /\ y <= NearLine + Blend)
      /\ P!Around(MidLine, y) <=> (MidLine - Blend <= y /\ y <= MidLine + Blend)
  BY <1>1 DEF P!Around
<1>3. /\ P!Blended(MidFactor, NearFactor, NearLine, y) = <<Ramp(MidFactor, NearFactor, i), Band>>
      /\ P!Blended(FarFactor, MidFactor, MidLine, y) = <<Ramp(FarFactor, MidFactor, j), Band>>
  BY Zenon DEF P!Blended, P!Between, Ramp, Band
<1>4. /\ Ramp(MidFactor, NearFactor, i) \in Int /\ Ramp(FarFactor, MidFactor, j) \in Int
  <2>1. i \in Int /\ j \in Int
    BY <1>1
  <2> HIDE DEF i, j
  <2> QED
    BY <1>1, <2>1, RampFacts
<1>5. ~(Blend <= 0)
  BY <1>1
<1> HIDE DEF p
<1>6. CASE y >= NearLine + Blend
  <2>1. p = <<NearFactor, 1>> /\ Level(y) = NearFactor * Band
    BY <1>5, <1>6, Zenon DEF P!Perspective, P!Whole, Level, p
  <2> QED
    BY <1>1, <2>1 DEF Scaled, p
<1>7. CASE ~(y >= NearLine + Blend) /\ y <= MidLine - Blend
  <2>1. p = <<FarFactor, 1>> /\ Level(y) = FarFactor * Band
    BY <1>5, <1>7, Zenon DEF P!Perspective, P!Whole, Level, p
  <2> QED
    BY <1>1, <2>1 DEF Scaled, p
<1>8. CASE ~(y >= NearLine + Blend) /\ ~(y <= MidLine - Blend) /\ y >= NearLine - Blend
  <2>1. P!Around(NearLine, y)
    BY <1>1, <1>2, <1>8
  <2>2. p = <<Ramp(MidFactor, NearFactor, i), Band>> /\ Level(y) = Ramp(MidFactor, NearFactor, i)
    BY <1>3, <1>5, <1>8, <2>1, Zenon DEF P!Perspective, Level, p
  <2> HIDE DEF i
  <2> QED
    BY <1>4, <2>2 DEF Scaled, p
<1>9. CASE ~(y >= NearLine - Blend) /\ ~(y <= MidLine - Blend) /\ y <= MidLine + Blend
  <2>1. ~P!Around(NearLine, y) /\ P!Around(MidLine, y) /\ ~(y >= NearLine + Blend)
    BY <1>1, <1>2, <1>9
  <2>2. p = <<Ramp(FarFactor, MidFactor, j), Band>> /\ Level(y) = Ramp(FarFactor, MidFactor, j)
    BY <1>3, <1>5, <1>9, <2>1, Zenon DEF P!Perspective, Level, p
  <2> HIDE DEF j
  <2> QED
    BY <1>4, <2>2 DEF Scaled, p
<1>10. CASE ~(y >= NearLine - Blend) /\ ~(y <= MidLine + Blend)
  <2>1. ~P!Around(NearLine, y) /\ ~P!Around(MidLine, y)
        /\ ~(y >= NearLine + Blend) /\ ~(y <= MidLine - Blend) /\ y > MidLine
    BY <1>1, <1>2, <1>10
  <2>2. p = <<MidFactor, 1>> /\ Level(y) = MidFactor * Band
    BY <1>5, <1>10, <2>1, Zenon DEF P!Perspective, P!Whole, Level, p
  <2> QED
    BY <1>1, <2>2 DEF Scaled, p
<1>11. ~(y >= NearLine - Blend) => ~(y >= NearLine + Blend)
  BY <1>1
<1> QED
  BY <1>6, <1>7, <1>8, <1>9, <1>10, <1>11

\* Comparing fractions is comparing levels.
LEMMA LevelsCompare ==
  ASSUME NEW w \in Nat \ {0}, NEW p, NEW q, p[1] \in Int, q[1] \in Int,
         NEW v \in Int, NEW u \in Int, NEW d \in Int,
         (p[2] = 1 /\ v = p[1] * w) \/ (p[2] = w /\ v = p[1]),
         (q[2] = 1 /\ u = q[1] * w) \/ (q[2] = w /\ u = q[1])
  PROVE  /\ v <= u => p[1] * q[2] <= q[1] * p[2]
         /\ u - v <= d => (q[1] * p[2] - p[1] * q[2]) * w <= d * (p[2] * q[2])
<1> DEFINE a == p[1]
           b == q[1]
<1>1. a \in Int /\ b \in Int
  OBVIOUS
<1>2. \A x, y \in Int : x * w <= y * w <=> x <= y
  OBVIOUS
<1>3. \A x, y \in Int : (x - y) * w = x * w - y * w /\ x * w \in Int
  OBVIOUS
<1> HIDE DEF a, b
<1>4. CASE p[2] = 1 /\ v = a * w /\ q[2] = 1 /\ u = b * w
  <2>1. v <= u => a * 1 <= b * 1
    BY <1>1, <1>2, <1>4
  <2>2. (b * 1 - a * 1) * w = u - v
    BY <1>1, <1>3, <1>4
  <2>3. d * (1 * 1) = d
    OBVIOUS
  <2> QED
    BY <1>4, <2>1, <2>2, <2>3 DEF a, b
<1>5. CASE p[2] = 1 /\ v = a * w /\ q[2] = w /\ u = b
  <2>1. v <= u => a * w <= b * 1
    BY <1>1, <1>5
  <2>2. b * 1 - a * w = u - v /\ u - v \in Int
    BY <1>1, <1>3, <1>5
  <2>3. u - v <= d => (u - v) * w <= d * w
    BY <1>2, <2>2
  <2>4. 1 * w = w
    OBVIOUS
  <2> QED
    BY <1>5, <2>1, <2>2, <2>3, <2>4 DEF a, b
<1>6. CASE p[2] = w /\ v = a /\ q[2] = 1 /\ u = b * w
  <2>1. v <= u => a * 1 <= b * w
    BY <1>1, <1>6
  <2>2. b * w - a * 1 = u - v /\ u - v \in Int
    BY <1>1, <1>3, <1>6
  <2>3. u - v <= d => (u - v) * w <= d * w
    BY <1>2, <2>2
  <2>4. w * 1 = w
    OBVIOUS
  <2> QED
    BY <1>6, <2>1, <2>2, <2>3, <2>4 DEF a, b
<1>7. CASE p[2] = w /\ v = a /\ q[2] = w /\ u = b
  <2>1. v <= u => a * w <= b * w
    BY <1>1, <1>2, <1>7
  <2>2. b * w - a * w = (u - v) * w /\ u - v \in Int
    BY <1>1, <1>3, <1>7
  <2>3. u - v <= d => ((u - v) * w) * w <= (d * w) * w
    <3>1. u - v <= d => (u - v) * w <= d * w
      BY <1>2, <2>2
    <3>2. (u - v) * w \in Int /\ d * w \in Int
      BY <1>3, <2>2
    <3> QED
      BY <1>2, <3>1, <3>2
  <2>4. \A x \in Int : (x * w) * w = x * (w * w)
    OBVIOUS
  <2>5. (d * w) * w = d * (w * w)
    BY <2>4
  <2> QED
    BY <1>7, <2>1, <2>2, <2>3, <2>5 DEF a, b
<1> QED
  BY <1>4, <1>5, <1>6, <1>7 DEF a, b

\* Whatever the lines, the factors and the band: a vehicle that drives towards the camera
\* never shrinks, and a step of the image changes its factor by at most a step of a
\* band from the far factor to the near one (get_perspective_factor).
THEOREM PerspectiveAlwaysGradual ==
  ASSUME PerspectiveConstants, NEW y \in Int
  PROVE  P!PerspectiveIsGradual(y)
<1> DEFINE p == P!Perspective(y)
           q == P!Perspective(y + 1)
           v == Level(y)
           u == Level(y + 1)
           d == NearFactor - FarFactor
           far == <<FarFactor, 1>>
           near == <<NearFactor, 1>>
           w == Band
<1>1. /\ NearFactor \in Int /\ FarFactor \in Int /\ d \in Int /\ y + 1 \in Int
      /\ w \in Nat \ {0}
  BY DEF PerspectiveConstants, Band
<1>2. Scaled(p, v) /\ p[1] \in Int /\ Scaled(q, u) /\ q[1] \in Int
  BY <1>1, PerspectiveIsLevel
<1>3. /\ v \in Int /\ v <= u /\ u - v <= d /\ u \in Int
      /\ FarFactor * w <= v /\ v <= NearFactor * w
  BY <1>1, LevelGrows
<1>4. /\ far[1] = FarFactor /\ far[2] = 1 /\ near[1] = NearFactor /\ near[2] = 1
      /\ FarFactor * w \in Int /\ NearFactor * w \in Int
  BY <1>1
<1>5. /\ P!Whole(FarFactor) = far /\ P!Whole(NearFactor) = near
  BY DEF P!Whole
<1>6. /\ (p[2] = 1 /\ v = p[1] * w) \/ (p[2] = w /\ v = p[1])
      /\ (q[2] = 1 /\ u = q[1] * w) \/ (q[2] = w /\ u = q[1])
  BY <1>2 DEF Scaled
<1>7. 2 * Blend = w
  BY DEF Band
<1> HIDE DEF p, q, v, u, d, far, near, w
<1>8. p[1] * q[2] <= q[1] * p[2]
      /\ (q[1] * p[2] - p[1] * q[2]) * w <= d * (p[2] * q[2])
  BY <1>1, <1>2, <1>3, <1>6, LevelsCompare
<1>9. far[1] * p[2] <= p[1] * far[2]
  BY <1>1, <1>2, <1>3, <1>4, <1>6, LevelsCompare
<1>10. p[1] * near[2] <= near[1] * p[2]
  BY <1>1, <1>2, <1>3, <1>4, <1>6, LevelsCompare
<1>11. P!AtMost(p, q) /\ P!AtMost(far, p) /\ P!AtMost(p, near)
  BY <1>8, <1>9, <1>10 DEF P!AtMost
<1>12. P!AtMost(<<q[1] * p[2] - p[1] * q[2], p[2] * q[2]>>, <<d, w>>)
  BY <1>8 DEF P!AtMost
<1> QED
  BY <1>5, <1>7, <1>11, <1>12, Zenon DEF P!PerspectiveIsGradual, p, q, d
=============================================================================
