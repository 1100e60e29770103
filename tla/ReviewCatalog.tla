---------------------------- MODULE ReviewCatalog -----------------------------
(***************************************************************************)
(* The portable side of human review: sealing a session into a ZIP of the  *)
(* host's pending-sync directory, copying it to the canonical directory,   *)
(* and registering it in catalog.json (review_finalization.py and          *)
(* hitl_catalog.py), by processes of one host that may be killed at any    *)
(* step, next to a training run that reads the catalog without a lock.     *)
(*                                                                         *)
(* A session is a key: its run and the fingerprint of its content.  A seal *)
(* stands for the bytes of a ZIP; two seals of one session differ only in  *)
(* finalized_at, which is an instant, and whose second names the canonical *)
(* directory.  SHA-256 is the seal itself.                                 *)
(***************************************************************************)
EXTENDS Naturals, FiniteSets

CONSTANTS
    Procs,        \* processes of the host
    Keys,         \* finalized sessions
    Foreign,      \* seals that were made on other runtimes
    MaxInstant,   \* bound of the instants at which seals are made
    MaxRevision,  \* bound of the revision from which no status is changed
    MaxFaults,    \* bound of the number of failures
    Null

VARIABLES
    now,        \* the next instant
    pending,    \* local_root/pending-sync/<run>_<fingerprint>/
    canonical,  \* the packages under canonical_root
    catalog,    \* catalog.json
    lock,       \* the publisher's lock file exists
    proc,       \* each process: its publisher and the call it is in
    told,       \* history: the sessions some call has reported as synced
    reader,     \* the document a training run has selected packages from
    faults

vars == <<now, pending, canonical, catalog, lock, proc, told, reader, faults>>

Instants == 0 .. MaxInstant
Seals    == [key : Keys, at : Instants]

\* The canonical directory has finalized_at to the second: two instants.
Second(i) == i \div 2
Paths     == Keys \X {Second(i) : i \in Instants}

\* A package is copied to the path that the metadata of its call names.
PathOf(meta) == <<meta.key, Second(meta.at)>>

Entry    == [path : Paths, sha256 : Seals, created : Instants, status : {"active", "quarantined"}]
Document == [revision : Nat, entries : SUBSET Entry]
Points   == {"idle", "link", "find", "copy", "replace", "register", "write", "verify"}
Idle     == [at |-> "idle", seal |-> Null, meta |-> Null, document |-> Null]

ASSUME CatalogConstants ==
    /\ IsFiniteSet(Procs) /\ IsFiniteSet(Keys)
    /\ MaxInstant \in Nat /\ MaxRevision \in Nat /\ MaxFaults \in Nat
    /\ Foreign \subseteq Seals /\ Null \notin Seals

TypeOK ==
    /\ now \in 0 .. MaxInstant + 1
    /\ pending \in [Keys -> Seals \cup {Null}]
    /\ canonical \in [Paths -> Seals \cup {Null}]
    /\ \A path \in Paths : canonical[path] # Null => canonical[path].key = path[1]
    /\ catalog.revision \in 0 .. MaxRevision + Cardinality(Keys)
    /\ catalog.entries \subseteq Entry
    /\ lock \in BOOLEAN
    /\ DOMAIN proc = Procs
    /\ \A p \in Procs : proc[p].publisher => lock
    /\ \A p \in Procs : proc[p].call.at \in Points
    /\ told \subseteq Keys
    /\ faults \in 0 .. MaxFaults

Init ==
    /\ now = 0
    /\ pending = [k \in Keys |-> Null]
    /\ canonical = [path \in Paths |-> Null]
    /\ catalog = [revision |-> 0, entries |-> {}]
    /\ lock = FALSE
    /\ proc = [p \in Procs |-> [publisher |-> FALSE, call |-> Idle]]
    /\ told = {}
    /\ reader = Null
    /\ faults = 0

-----------------------------------------------------------------------------

Call(p)  == proc[p].call
At(p, s) == Call(p).at = s

\* Process p goes on with its call at the point s, or ends it.
GoTo(p, s) == proc' = [proc EXCEPT ![p].call.at = s]
End(p)     == proc' = [proc EXCEPT ![p].call = Idle]

\* The call of p ends with a result or with an exception, or fails.
Synced(p) == End(p) /\ told' = told \cup {Call(p).seal.key}
Other(p)  == End(p) /\ UNCHANGED told
Fail      == faults < MaxFaults /\ faults' = faults + 1

EntriesOf(document, key) == {e \in document.entries : e.path[1] = key}

\* _verified_catalog_package: the file of an entry exists and is what it says.
Verified(e) == canonical[e.path] = e.sha256

\* The catalog document after one change.
Revised(entries) == [revision |-> catalog.revision + 1, entries |-> entries]

-----------------------------------------------------------------------------
(* HitlCatalogPublisher.                                                    *)

\* __enter__ creates the lock file exclusively.
Enter(p) ==
    /\ At(p, "idle") /\ ~proc[p].publisher
    /\ ~lock
    /\ lock' = TRUE
    /\ proc' = [proc EXCEPT ![p].publisher = TRUE]
    /\ UNCHANGED <<now, pending, canonical, catalog, told, reader, faults>>

\* __exit__ removes it; a failure to do so is only logged.
Exit(p) ==
    /\ At(p, "idle") /\ proc[p].publisher
    /\ proc' = [proc EXCEPT ![p].publisher = FALSE]
    /\ \/ lock' = FALSE /\ UNCHANGED faults
       \/ UNCHANGED lock /\ Fail
    /\ UNCHANGED <<now, pending, canonical, catalog, told, reader>>

-----------------------------------------------------------------------------
(* Sealing.                                                                 *)

\* What a call does once it has its local package: without a publisher it
\* ends with pending-sync.
Published(p, seal, meta) ==
    \/ proc' = [proc EXCEPT ![p].call = Idle]
    \/ /\ proc[p].publisher
       /\ proc' = [proc EXCEPT ![p].call = [at |-> "find", seal |-> seal, meta |-> meta,
                                            document |-> Null]]

\* finalize_review_session up to the look at the local package: a new one is
\* written to a temporary file.
Finalize(p) ==
    /\ At(p, "idle")
    /\ \E k \in Keys :
        \/ pending[k] # Null /\ Published(p, pending[k], pending[k]) /\ UNCHANGED now
        \/ /\ pending[k] = Null
           /\ \E i \in now .. MaxInstant :
               LET meta == [key |-> k, at |-> i] IN
               /\ meta \notin Foreign
               /\ now' = i + 1
               /\ proc' = [proc EXCEPT ![p].call = [at |-> "link", seal |-> Null, meta |-> meta,
                                                    document |-> Null]]
    /\ UNCHANGED <<pending, canonical, catalog, lock, told, reader, faults>>

\* Mutant: the temporary file replaces whatever is there.
LinkReplacing(p) ==
    /\ At(p, "link")
    /\ LET meta == Call(p).meta IN
        pending' = [pending EXCEPT ![meta.key] = meta] /\ Published(p, meta, meta)
    /\ UNCHANGED <<now, canonical, catalog, lock, told, reader, faults>>

\* os.link gives the temporary file its name, or finds the package of another
\* process there, which is kept; the call goes on with its own metadata.
Link(p) ==
    /\ At(p, "link")
    /\ LET meta == Call(p).meta IN
        \/ /\ pending[meta.key] = Null
           /\ pending' = [pending EXCEPT ![meta.key] = meta]
           /\ Published(p, meta, meta) /\ UNCHANGED faults
        \/ /\ pending[meta.key] # Null
           /\ Published(p, pending[meta.key], meta) /\ UNCHANGED <<pending, faults>>
        \/ End(p) /\ Fail /\ UNCHANGED pending
    /\ UNCHANGED <<now, canonical, catalog, lock, told, reader>>

\* sync_finalized_review_session on a ZIP of this host or of another.
Sync(p, seal) ==
    /\ At(p, "idle") /\ proc[p].publisher
    /\ seal \in Foreign \/ pending[seal.key] = seal
    /\ proc' = [proc EXCEPT ![p].call = [at |-> "find", seal |-> seal, meta |-> seal,
                                         document |-> Null]]
    /\ UNCHANGED <<now, pending, canonical, catalog, lock, told, reader, faults>>

-----------------------------------------------------------------------------
(* _sync_to_catalog and _publish_to_catalog.                                *)

\* Mutant: a failure of the storage is reported as a success.
UnavailableAsSynced(p) == Fail /\ Synced(p)

\* A failure of the storage: the call ends with pending-sync.
Unavailable(p) == Fail /\ Other(p)

\* catalog.find: a session that is registered is not copied again.
Find(p) ==
    /\ At(p, "find")
    /\ LET existing == EntriesOf(catalog, Call(p).seal.key) IN
        \/ existing = {} /\ GoTo(p, "copy") /\ UNCHANGED <<told, faults>>
        \/ /\ existing # {} /\ UNCHANGED faults
           /\ IF \A e \in existing : Verified(e) THEN Synced(p) ELSE Other(p)
        \/ Unavailable(p)
    /\ UNCHANGED <<now, pending, canonical, catalog, lock, reader>>

\* Mutant: a copy that is already there is refused without a look at it.
CopyOnce(p) ==
    /\ At(p, "copy")
    /\ IF canonical[PathOf(Call(p).meta)] = Null
       THEN GoTo(p, "replace") /\ UNCHANGED told ELSE Other(p)
    /\ UNCHANGED <<now, pending, canonical, catalog, lock, reader, faults>>

\* _copy_immutable looks at its destination.
Copy(p) ==
    /\ At(p, "copy")
    /\ LET there == canonical[PathOf(Call(p).meta)] IN
        \/ there = Null /\ GoTo(p, "replace") /\ UNCHANGED <<told, faults>>
        \/ there = Call(p).seal /\ GoTo(p, "register") /\ UNCHANGED <<told, faults>>
        \/ there \notin {Null, Call(p).seal} /\ Other(p) /\ UNCHANGED faults
        \/ Unavailable(p)
    /\ UNCHANGED <<now, pending, canonical, catalog, lock, reader>>

\* Its os.replace of the verified temporary copy.
Replace(p) ==
    /\ At(p, "replace")
    /\ \/ /\ canonical' = [canonical EXCEPT ![PathOf(Call(p).meta)] = Call(p).seal]
          /\ GoTo(p, "register") /\ UNCHANGED <<told, faults>>
       \/ Unavailable(p) /\ UNCHANGED canonical
    /\ UNCHANGED <<now, pending, catalog, lock, reader>>

NewEntry(call) ==
    [path |-> PathOf(call.meta), sha256 |-> call.seal, created |-> call.meta.at,
     status |-> "active"]

\* HitlReviewCatalog.register up to the write: the document it will write.
Register(p) ==
    /\ At(p, "register")
    /\ LET entry    == NewEntry(Call(p))
           existing == EntriesOf(catalog, Call(p).seal.key) IN
        \/ existing = {entry} /\ Synced(p) /\ UNCHANGED faults
        \/ existing \notin {{}, {entry}} /\ Other(p) /\ UNCHANGED faults
        \/ existing = {} /\ ~Verified(entry) /\ Other(p) /\ UNCHANGED faults
        \/ /\ existing = {} /\ Verified(entry)
           /\ proc' = [proc EXCEPT ![p].call.at = "write",
                                   ![p].call.document = Revised(catalog.entries \cup {entry})]
           /\ UNCHANGED <<told, faults>>
        \/ Unavailable(p)
    /\ UNCHANGED <<now, pending, canonical, catalog, lock, reader>>

\* HitlReviewCatalog.set_status up to the write.
SetStatus(p) ==
    /\ At(p, "idle") /\ proc[p].publisher
    /\ catalog.revision < MaxRevision
    /\ \E e \in catalog.entries :
        LET status == IF e.status = "active" THEN "quarantined" ELSE "active" IN
        /\ status = "active" => Verified(e)
        /\ proc' = [proc EXCEPT ![p].call =
              [at |-> "write", seal |-> Null, meta |-> Null,
               document |-> Revised((catalog.entries \ {e}) \cup {[e EXCEPT !.status = status]})]]
    /\ UNCHANGED <<now, pending, canonical, catalog, lock, told, reader, faults>>

\* atomic_json_write: a failure may come before the replacement or after it.
Write(p) ==
    /\ At(p, "write")
    /\ \/ catalog' = Call(p).document /\ GoTo(p, "verify") /\ UNCHANGED <<told, faults>>
       \/ catalog' \in {catalog, Call(p).document} /\ Unavailable(p)
    /\ UNCHANGED <<now, pending, canonical, lock, reader>>

\* The document is read back.
Verify(p) ==
    /\ At(p, "verify")
    /\ \/ /\ catalog = Call(p).document /\ Call(p).seal # Null /\ Synced(p) /\ UNCHANGED faults
       \/ /\ catalog # Call(p).document \/ Call(p).seal = Null
          /\ Other(p) /\ UNCHANGED faults
       \/ Unavailable(p)
    /\ UNCHANGED <<now, pending, canonical, catalog, lock, reader>>

-----------------------------------------------------------------------------
(* The host.                                                                *)

\* A process is killed: its lock file stays.
Crash(p) ==
    /\ Fail
    /\ ~At(p, "idle") \/ proc[p].publisher
    /\ proc' = [proc EXCEPT ![p] = [publisher |-> FALSE, call |-> Idle]]
    /\ UNCHANGED <<now, pending, canonical, catalog, lock, told, reader>>

\* The lock file of a publisher that is no more.
Stale == lock /\ \A p \in Procs : ~proc[p].publisher

\* The runtime is replaced, and its local disk with it but for the ZIPs, which
\* are kept or downloaded before (the plan of 2026-09-13, line 39).
NewRuntime ==
    /\ Stale
    /\ lock' = FALSE
    /\ proc' = [p \in Procs |-> [publisher |-> FALSE, call |-> Idle]]
    /\ UNCHANGED <<now, pending, canonical, catalog, told, reader, faults>>

-----------------------------------------------------------------------------
(* load_hitl_catalog_components.                                            *)

\* selected_entries; an empty selection is refused.
Select ==
    /\ reader = Null
    /\ \E e \in catalog.entries : e.status = "active"
    /\ reader' = catalog
    /\ UNCHANGED <<now, pending, canonical, catalog, lock, proc, told, faults>>

\* The active packages are loaded and verified; then the provenance is made of
\* the selected document and of the checksum of the catalog's file.
Describe ==
    /\ reader # Null
    /\ \A e \in reader.entries : e.status = "active" => Verified(e)
    /\ reader' = Null
    /\ UNCHANGED <<now, pending, canonical, catalog, lock, proc, told, faults>>

-----------------------------------------------------------------------------

\* A call in progress.
Advance(p) ==
    \/ Link(p) \/ Find(p) \/ Copy(p) \/ Replace(p)
    \/ Register(p) \/ Write(p) \/ Verify(p)

Next ==
    \/ \E p \in Procs :
        \/ Enter(p) \/ Exit(p) \/ Finalize(p) \/ SetStatus(p) \/ Advance(p) \/ Crash(p)
        \/ \E seal \in Seals : Sync(p, seal)
    \/ NewRuntime \/ Select \/ Describe

Spec == Init /\ [][Next]_vars

\* A call in progress goes on and a with block ends; a ZIP that is pending is
\* given to a publisher again and again ("se puede reintentar sin reconstruir
\* la sesión", colab-guide.md:149-150).
Fairness ==
    /\ \A p \in Procs : WF_vars(Advance(p)) /\ WF_vars(Exit(p)) /\ SF_vars(Enter(p))
    /\ \A k \in Keys : SF_vars(\E p \in Procs : pending[k] # Null /\ Sync(p, pending[k]))
    /\ \A seal \in Foreign : SF_vars(\E p \in Procs : Sync(p, seal))

FairSpec == Spec /\ Fairness

-----------------------------------------------------------------------------
(* Properties.                                                              *)

\* Part of CatalogIsTrue: whatever step a process dies at, each package that catalog.json names, or
\* that a reader has selected from it, is in place with its checksum: the
\* catalog "no se actualiza hasta que el ZIP canónico exista" (ADR-0019:43).
CatalogIsBacked ==
    /\ \A e \in catalog.entries : Verified(e)
    /\ reader # Null => \A e \in reader.entries : Verified(e)

\* Part of CatalogIsTrue: a session has one entry, and is reported as synced only if
\* it has one.
SyncedIsCataloged ==
    /\ \A k \in Keys : Cardinality(EntriesOf(catalog, k)) <= 1
    /\ \A k \in told : EntriesOf(catalog, k) # {}

\* What the catalog names is on disk and what was reported as synced is in it, in any
\* interleaving of publishers, readers, failures and crashes (HitlCatalogPublisher,
\* _publish_to_catalog, _sync_to_catalog).
CatalogIsTrue == CatalogIsBacked /\ SyncedIsCataloged

\* The history is kept: no sealed or published ZIP is ever replaced, and each
\* new document is the last one with one entry added or one status changed, so
\* no publisher overwrites the work of another.
HistoryIsKept ==
    [][/\ \A k \in Keys : pending[k] # Null => pending'[k] = pending[k]
       /\ \A path \in Paths : canonical[path] # Null => canonical'[path] = canonical[path]
       /\ catalog' # catalog =>
            /\ catalog'.revision = catalog.revision + 1
            /\ \/ \E e \in catalog'.entries \ catalog.entries :
                     catalog'.entries = catalog.entries \cup {e}
               \/ \E e \in catalog.entries, f \in catalog'.entries :
                     /\ [f EXCEPT !.status = e.status] = e
                     /\ catalog'.entries = (catalog.entries \ {e}) \cup {f}]_vars

\* A sealed session is published in the end, whatever failed before, unless
\* the lock file of a killed publisher stays where it is.
PendingIsPublished ==
    ([]<>~Stale) => \A k \in Keys : pending[k] # Null ~> EntriesOf(catalog, k) # {}

\* The provenance of a training run names one catalog: the revision it selected
\* from and the checksum are those of the same document.
DescriptorIsExact ==
    [][reader # Null /\ reader' = Null => reader = catalog]_vars
=============================================================================
