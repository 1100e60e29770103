-------------------------- MODULE ReviewCatalogProofs --------------------------
(***************************************************************************)
(* Proofs about ReviewCatalog for any number of processes, sessions and    *)
(* failures: what the catalog names is on disk, what was reported is in    *)
(* the catalog, and nothing that was sealed or published is ever replaced. *)
(* CatalogInv is inductive: one process at most is the publisher, so the   *)
(* document it is about to write still follows the one that is there.      *)
(***************************************************************************)
EXTENDS ReviewCatalog, FiniteSetTheorems, TLAPS

\* The points of a call that only the publisher reaches.
Publishing == {"find", "copy", "replace", "register", "write", "verify"}

\* The catalog has each session once, and its packages are where it says.
Distinct(entries) == \A e, f \in entries : e.path[1] = f.path[1] => e = f
Backed(entries) == \A e \in entries : Verified(e)

\* One entry more, of a session that has none, or one status changed.
Adds(document) ==
    \E e \in Entry : /\ document.entries = catalog.entries \cup {e}
                     /\ EntriesOf(catalog, e.path[1]) = {}
                     /\ Verified(e)
Changes(document) ==
    \E e \in catalog.entries, status \in {"active", "quarantined"} :
        document.entries = (catalog.entries \ {e}) \cup {[e EXCEPT !.status = status]}

\* The document is one change away from the one that is there.
Follows(document) ==
    /\ document.revision = catalog.revision + 1
    /\ Adds(document) \/ Changes(document)

CatalogIsTyped ==
    /\ now \in Nat
    /\ DOMAIN pending = Keys /\ DOMAIN canonical = Paths
    /\ \A k \in Keys : pending[k] # Null => pending[k] \in Seals /\ pending[k].key = k
    /\ catalog.entries \subseteq Entry
    /\ DOMAIN proc = Procs
    /\ \A p \in Procs :
        /\ DOMAIN proc[p] = {"publisher", "call"}
        /\ DOMAIN Call(p) = {"at", "seal", "meta", "document"}

\* The lock file is that of the publisher, who alone gets past a local package.
OnePublisher ==
    /\ \A p \in Procs : proc[p].publisher => lock
    /\ \A p, q \in Procs : proc[p].publisher /\ proc[q].publisher => p = q
    /\ \A p \in Procs : Call(p).at \in Publishing => proc[p].publisher

\* What a call has found out and relies on.
CallIsSound(p) ==
    /\ At(p, "link") => Call(p).meta \in Seals
    /\ Call(p).at \in {"find", "copy", "replace", "register"} =>
          /\ Call(p).seal \in Seals /\ Call(p).meta \in Seals
          /\ Call(p).meta.key = Call(p).seal.key
    /\ At(p, "replace") => canonical[PathOf(Call(p).meta)] = Null
    /\ At(p, "write") =>
          /\ Follows(Call(p).document)
          /\ Call(p).seal # Null => EntriesOf(Call(p).document, Call(p).seal.key) # {}
    /\ At(p, "verify") /\ Call(p).seal # Null => EntriesOf(catalog, Call(p).seal.key) # {}

CatalogIsSound ==
    /\ Distinct(catalog.entries)
    /\ Backed(catalog.entries)
    /\ reader # Null => Backed(reader.entries) /\ reader.entries \subseteq Entry
    /\ \A k \in told : EntriesOf(catalog, k) # {}

CatalogInv ==
    /\ CatalogIsTyped
    /\ OnePublisher
    /\ \A p \in Procs : CallIsSound(p)
    /\ CatalogIsSound

-----------------------------------------------------------------------------
(* The document that a publisher has made.                                  *)

LEMMA ChangedEntry ==
  ASSUME NEW e \in Entry, NEW status \in {"active", "quarantined"}
  PROVE  LET f == [e EXCEPT !.status = status] IN
         /\ f \in Entry /\ f.path = e.path /\ f.sha256 = e.sha256
         /\ [f EXCEPT !.status = e.status] = e
  BY DEF Entry

LEMMA NextDocument ==
  ASSUME CatalogIsTyped, CatalogIsSound, NEW d, Follows(d)
  PROVE  /\ d.entries \subseteq Entry
         /\ Distinct(d.entries) /\ Backed(d.entries)
         /\ \A k : EntriesOf(catalog, k) # {} => EntriesOf(d, k) # {}
<1>1. CASE Adds(d)
  <2>1. PICK e \in Entry : /\ d.entries = catalog.entries \cup {e}
                          /\ EntriesOf(catalog, e.path[1]) = {}
                          /\ Verified(e)
    BY <1>1 DEF Adds
  <2>2. \A f \in catalog.entries : f.path[1] # e.path[1]
    BY <2>1 DEF EntriesOf
  <2> QED
    BY <2>1, <2>2 DEF CatalogIsTyped, CatalogIsSound, Distinct, Backed, EntriesOf
<1>2. CASE Changes(d)
  <2>1. PICK e \in catalog.entries, status \in {"active", "quarantined"} :
            d.entries = (catalog.entries \ {e}) \cup {[e EXCEPT !.status = status]}
    BY <1>2 DEF Changes
  <2> DEFINE f == [e EXCEPT !.status = status]
  <2>2. e \in Entry /\ f \in Entry /\ f.path = e.path /\ f.sha256 = e.sha256
    BY ChangedEntry DEF CatalogIsTyped
  <2>3. d.entries = (catalog.entries \ {e}) \cup {f}
    BY <2>1
  <2> HIDE DEF f
  <2> QED
    BY <2>2, <2>3 DEF CatalogIsTyped, CatalogIsSound, Distinct, Backed, Verified, EntriesOf
<1> QED
  BY <1>1, <1>2 DEF Follows

-----------------------------------------------------------------------------
(* What a step of one process leaves to the others.                         *)

OwnStep(p) ==
    /\ DOMAIN proc' = Procs
    /\ \A q \in Procs \ {p} : proc'[q] = proc[q]
    /\ DOMAIN proc'[p] = {"publisher", "call"}
    /\ DOMAIN Call(p)' = {"at", "seal", "meta", "document"}

\* Only the publisher writes to the canonical directory and to the catalog.
LEMMA OthersKeepTheirCalls ==
  ASSUME CatalogInv, NEW p \in Procs, OwnStep(p),
         UNCHANGED <<canonical, catalog>> \/ proc[p].publisher
  PROVE  \A q \in Procs \ {p} : CallIsSound(q)'
<1> SUFFICES ASSUME NEW q \in Procs \ {p} PROVE CallIsSound(q)'
  OBVIOUS
<1>1. CallIsSound(q) /\ Call(q)' = Call(q)
  BY DEF CatalogInv, OwnStep, Call
<1>2. CASE UNCHANGED <<canonical, catalog>>
  BY <1>1, <1>2 DEF CallIsSound, At, Follows, Adds, Changes, Verified, EntriesOf
<1>3. CASE proc[p].publisher
  <2>1. Call(q).at \notin Publishing
    BY <1>3 DEF CatalogInv, OnePublisher
  <2> QED
    BY <1>1, <2>1 DEF CallIsSound, At, Publishing
<1> QED
  BY <1>2, <1>3

\* Nothing on disk changes.
LEMMA DiskStays ==
  ASSUME CatalogInv, UNCHANGED <<canonical, catalog>>,
         reader' # Null => Backed(reader'.entries) /\ reader'.entries \subseteq Entry,
         \A k \in told' : EntriesOf(catalog, k) # {}
  PROVE  CatalogIsSound'
  BY DEF CatalogInv, CatalogIsSound, Backed, Verified, EntriesOf

\* The ways to write a call.
LEMMA CallFacts ==
  ASSUME CatalogIsTyped, NEW p \in Procs
  PROVE  /\ \A c : proc' = [proc EXCEPT ![p].call = c] =>
                  /\ DOMAIN proc' = Procs
                  /\ \A q \in Procs \ {p} : proc'[q] = proc[q]
                  /\ DOMAIN proc'[p] = {"publisher", "call"}
                  /\ proc'[p].publisher = proc[p].publisher /\ Call(p)' = c
         /\ \A s : GoTo(p, s) =>
                  /\ OwnStep(p)
                  /\ proc'[p].publisher = proc[p].publisher
                  /\ Call(p)'.at = s /\ Call(p)'.seal = Call(p).seal
                  /\ Call(p)'.meta = Call(p).meta /\ Call(p)'.document = Call(p).document
         /\ End(p) =>
                  /\ OwnStep(p)
                  /\ proc'[p].publisher = proc[p].publisher /\ Call(p)' = Idle
  BY DEF CatalogIsTyped, GoTo, End, OwnStep, Call, Idle

\* A step of a call of p keeps the invariant if p keeps its part.
LEMMA CallStep ==
  ASSUME CatalogInv, NEW p \in Procs, OwnStep(p),
         UNCHANGED lock, proc'[p].publisher = proc[p].publisher,
         Call(p)'.at \in Publishing => proc[p].publisher,
         CallIsSound(p)',
         UNCHANGED <<canonical, catalog>> \/ proc[p].publisher,
         CatalogIsSound',
         now' \in Nat, DOMAIN pending' = Keys, DOMAIN canonical' = Paths,
         \A k \in Keys : pending'[k] # Null => pending'[k] \in Seals /\ pending'[k].key = k,
         catalog'.entries \subseteq Entry
  PROVE  CatalogInv'
<1>1. CatalogIsTyped'
  BY DEF CatalogInv, CatalogIsTyped, OwnStep, Call
<1>2. OnePublisher'
  <2>1. \A q \in Procs : proc'[q].publisher = proc[q].publisher
    BY DEF OwnStep
  <2>2. \A q \in Procs \ {p} : Call(q)' = Call(q)
    BY DEF OwnStep, Call
  <2> QED
    BY <2>1, <2>2 DEF CatalogInv, OnePublisher
<1>3. \A q \in Procs : CallIsSound(q)'
  BY OthersKeepTheirCalls
<1> QED
  BY <1>1, <1>2, <1>3 DEF CatalogInv

\* A call that writes nothing to the disk goes on, or ends.
LEMMA QuietStep ==
  ASSUME CatalogInv, NEW p \in Procs, OwnStep(p),
         UNCHANGED <<pending, canonical, catalog, lock, reader>>, now' \in Nat,
         proc'[p].publisher = proc[p].publisher,
         Call(p)'.at \in Publishing => proc[p].publisher,
         CallIsSound(p)',
         \A k \in told' : EntriesOf(catalog, k) # {}
  PROVE  CatalogInv'
<1>1. CatalogIsSound'
  BY DiskStays DEF CatalogInv, CatalogIsSound
<1> QED
  BY <1>1, CallStep DEF CatalogInv, CatalogIsTyped

LEMMA IdleIsSound ==
  ASSUME NEW p \in Procs, Call(p)' = Idle
  PROVE  CallIsSound(p)' /\ Call(p)'.at \notin Publishing
  BY DEF CallIsSound, At, Idle, Publishing

\* A call ends: nothing changes but what has been reported.
LEMMA EndKeeps ==
  ASSUME CatalogInv, NEW p \in Procs, End(p),
         UNCHANGED <<pending, canonical, catalog, lock, reader, now>>,
         \A k \in told' : EntriesOf(catalog, k) # {}
  PROVE  CatalogInv'
  BY CallFacts, IdleIsSound, QuietStep DEF CatalogInv, CatalogIsTyped

-----------------------------------------------------------------------------
(* Every step keeps the invariant.                                          *)

LEMMA PathsOfSeals ==
  ASSUME NEW meta \in Seals
  PROVE  PathOf(meta) \in Paths /\ PathOf(meta)[1] = meta.key
  BY DEF Seals, PathOf, Paths

\* What a call does once it has its local package.
LEMMA PublishedKeeps ==
  ASSUME CatalogInv, NEW p \in Procs, NEW seal \in Seals, NEW meta \in Seals,
         meta.key = seal.key, Published(p, seal, meta)
  PROVE  /\ OwnStep(p) /\ proc'[p].publisher = proc[p].publisher
         /\ CallIsSound(p)' /\ (Call(p)'.at \in Publishing => proc[p].publisher)
<1>1. CASE proc' = [proc EXCEPT ![p].call = Idle]
  BY <1>1, CallFacts, IdleIsSound DEF CatalogInv, End
<1>2. CASE /\ proc[p].publisher
           /\ proc' = [proc EXCEPT ![p].call = [at |-> "find", seal |-> seal, meta |-> meta,
                                                document |-> Null]]
  <2> DEFINE c == [at |-> "find", seal |-> seal, meta |-> meta, document |-> Null]
  <2>1. /\ DOMAIN c = {"at", "seal", "meta", "document"}
        /\ c.at = "find" /\ c.seal = seal /\ c.meta = meta
    OBVIOUS
  <2>2. proc' = [proc EXCEPT ![p].call = c]
    BY <1>2
  <2> HIDE DEF c
  <2>3. OwnStep(p) /\ proc'[p].publisher = proc[p].publisher /\ Call(p)' = c
    BY <2>1, <2>2, CallFacts DEF CatalogInv, OwnStep, Call
  <2> QED
    BY <1>2, <2>1, <2>3 DEF CallIsSound, At
<1> QED
  BY <1>1, <1>2 DEF Published

LEMMA StepKeepsInv ==
  ASSUME CatalogInv, Next
  PROVE  CatalogInv'
<1>t. CatalogIsTyped
  BY DEF CatalogInv
<1>s. \A k \in told : EntriesOf(catalog, k) # {}
  BY DEF CatalogInv, CatalogIsSound
\* A call goes on to its copy, or to what follows it.
<1>e. ASSUME NEW p \in Procs, Call(p).at \in {"find", "copy", "replace"},
             NEW s \in {"copy", "replace", "register"}, GoTo(p, s),
             s = "replace" => canonical[PathOf(Call(p).meta)] = Null,
             UNCHANGED <<now, pending, canonical, catalog, lock, reader, told>>
      PROVE  CatalogInv'
  <2>1. /\ OwnStep(p) /\ proc'[p].publisher = proc[p].publisher
        /\ Call(p)'.at = s /\ Call(p)'.seal = Call(p).seal /\ Call(p)'.meta = Call(p).meta
    BY <1>t, <1>e, CallFacts
  <2>2. proc[p].publisher
    BY <1>e DEF CatalogInv, OnePublisher, Publishing
  <2>3. CallIsSound(p)'
    BY <1>e, <2>1 DEF CatalogInv, CallIsSound, At
  <2> QED
    BY <1>t, <1>s, <1>e, <2>1, <2>2, <2>3, QuietStep DEF CatalogIsTyped
<1>1. ASSUME NEW p \in Procs, Enter(p) PROVE CatalogInv'
  <2>1. DOMAIN proc' = Procs /\ (\A q \in Procs \ {p} : proc'[q] = proc[q])
        /\ DOMAIN proc'[p] = {"publisher", "call"} /\ Call(p)' = Call(p)
        /\ UNCHANGED <<now, pending, canonical, catalog, told, reader>> /\ lock'
    BY <1>1, <1>t DEF Enter, CatalogIsTyped, Call
  <2>2. \A q \in Procs : Call(q)' = Call(q)
    BY <2>1 DEF Call
  <2>3. \A q \in Procs : ~proc[q].publisher
    BY <1>1 DEF Enter, CatalogInv, OnePublisher
  <2>4. CatalogIsTyped'
    BY <2>1, <2>2, <1>t DEF CatalogIsTyped, Call
  <2>5. OnePublisher'
    <3>1. \A q \in Procs \ {p} : ~proc'[q].publisher
      BY <2>1, <2>3
    <3>2. \A q \in Procs : Call(q)'.at \notin Publishing
      BY <2>2, <2>3 DEF CatalogInv, OnePublisher
    <3> QED
      BY <2>1, <3>1, <3>2 DEF OnePublisher
  <2>6. \A q \in Procs : CallIsSound(q)'
    BY <2>1, <2>2 DEF CatalogInv, CallIsSound, At, Follows, Adds, Changes, Verified, EntriesOf
  <2>7. CatalogIsSound'
    BY <1>s, <2>1, DiskStays DEF CatalogInv, CatalogIsSound
  <2> QED
    BY <2>4, <2>5, <2>6, <2>7 DEF CatalogInv
<1>2. ASSUME NEW p \in Procs, Exit(p) PROVE CatalogInv'
  <2>1. DOMAIN proc' = Procs /\ (\A q \in Procs \ {p} : proc'[q] = proc[q])
        /\ DOMAIN proc'[p] = {"publisher", "call"} /\ Call(p)' = Call(p)
        /\ UNCHANGED <<now, pending, canonical, catalog, told, reader>>
    BY <1>2, <1>t DEF Exit, CatalogIsTyped, Call
  <2>2. (\A q \in Procs : Call(q)' = Call(q)) /\ ~proc'[p].publisher /\ Call(p).at = "idle"
    BY <2>1, <1>2, <1>t DEF Exit, CatalogIsTyped, Call, At
  <2>3. \A q \in Procs \ {p} : ~proc[q].publisher
    BY <1>2 DEF Exit, CatalogInv, OnePublisher
  <2>4. CatalogIsTyped'
    BY <2>1, <2>2, <1>t DEF CatalogIsTyped, Call
  <2>5. OnePublisher'
    <3>1. \A q \in Procs : ~proc'[q].publisher
      BY <2>1, <2>2, <2>3
    <3>2. \A q \in Procs : Call(q)'.at \notin Publishing
      BY <2>2, <2>3 DEF CatalogInv, OnePublisher, Publishing
    <3> QED
      BY <3>1, <3>2 DEF OnePublisher
  <2>6. \A q \in Procs : CallIsSound(q)'
    BY <2>1, <2>2 DEF CatalogInv, CallIsSound, At, Follows, Adds, Changes, Verified, EntriesOf
  <2>7. CatalogIsSound'
    BY <1>s, <2>1, DiskStays DEF CatalogInv, CatalogIsSound
  <2> QED
    BY <2>4, <2>5, <2>6, <2>7 DEF CatalogInv
<1>3. ASSUME NEW p \in Procs, Finalize(p) PROVE CatalogInv'
  <2>1. PICK k \in Keys :
            \/ pending[k] # Null /\ Published(p, pending[k], pending[k]) /\ UNCHANGED now
            \/ \E i \in now .. MaxInstant :
                  /\ now' = i + 1
                  /\ proc' = [proc EXCEPT ![p].call =
                        [at |-> "link", seal |-> Null, meta |-> [key |-> k, at |-> i],
                         document |-> Null]]
    BY <1>3 DEF Finalize
  <2>2. UNCHANGED <<pending, canonical, catalog, lock, told, reader>>
    BY <1>3 DEF Finalize
  <2>3. CASE pending[k] # Null /\ Published(p, pending[k], pending[k]) /\ UNCHANGED now
    BY <1>t, <1>s, <2>2, <2>3, PublishedKeeps, QuietStep DEF CatalogIsTyped
  <2>4. CASE \E i \in now .. MaxInstant :
                  /\ now' = i + 1
                  /\ proc' = [proc EXCEPT ![p].call =
                        [at |-> "link", seal |-> Null, meta |-> [key |-> k, at |-> i],
                         document |-> Null]]
    <3>1. PICK i \in now .. MaxInstant :
                  /\ now' = i + 1
                  /\ proc' = [proc EXCEPT ![p].call =
                        [at |-> "link", seal |-> Null, meta |-> [key |-> k, at |-> i],
                         document |-> Null]]
      BY <2>4
    <3> DEFINE m == [key |-> k, at |-> i]
               c == [at |-> "link", seal |-> Null, meta |-> m, document |-> Null]
    <3>2. m \in Seals /\ now' \in Nat
      BY <1>t, <3>1, CatalogConstants DEF CatalogIsTyped, Seals, Instants
    <3>3. DOMAIN c = {"at", "seal", "meta", "document"} /\ c.at = "link" /\ c.meta = m
      OBVIOUS
    <3>4. proc' = [proc EXCEPT ![p].call = c]
      BY <3>1
    <3> HIDE DEF c, m
    <3>5. OwnStep(p) /\ proc'[p].publisher = proc[p].publisher /\ Call(p)' = c
      BY <1>t, <3>3, <3>4, CallFacts DEF OwnStep, Call
    <3>6. CallIsSound(p)' /\ Call(p)'.at \notin Publishing
      BY <3>2, <3>3, <3>5 DEF CallIsSound, At, Publishing
    <3> QED
      BY <1>s, <2>2, <3>2, <3>5, <3>6, QuietStep
  <2> QED
    BY <2>1, <2>3, <2>4
<1>4. ASSUME NEW p \in Procs, SetStatus(p) PROVE CatalogInv'
  <2>1. PICK e \in catalog.entries, status \in {"active", "quarantined"} :
            proc' = [proc EXCEPT ![p].call =
                      [at |-> "write", seal |-> Null, meta |-> Null,
                       document |-> Revised((catalog.entries \ {e}) \cup {[e EXCEPT !.status = status]})]]
    BY <1>4 DEF SetStatus
  <2> DEFINE d == Revised((catalog.entries \ {e}) \cup {[e EXCEPT !.status = status]})
             c == [at |-> "write", seal |-> Null, meta |-> Null, document |-> d]
  <2>2. Follows(d)
    BY DEF Follows, Changes, Revised
  <2>3. proc' = [proc EXCEPT ![p].call = c]
    BY <2>1
  <2> HIDE DEF d
  <2>4. /\ DOMAIN c = {"at", "seal", "meta", "document"}
        /\ c.at = "write" /\ c.seal = Null /\ c.document = d
    OBVIOUS
  <2> HIDE DEF c
  <2>5. OwnStep(p) /\ proc'[p].publisher = proc[p].publisher /\ Call(p)' = c
    BY <1>t, <2>3, <2>4, CallFacts DEF OwnStep, Call
  <2>6. UNCHANGED <<now, pending, canonical, catalog, lock, told, reader>> /\ proc[p].publisher
    BY <1>4 DEF SetStatus
  <2>7. Follows(Call(p).document)'
    BY <2>2, <2>4, <2>5, <2>6 DEF Follows, Adds, Changes, Verified, EntriesOf
  <2>8. CallIsSound(p)'
    BY <2>4, <2>5, <2>7 DEF CallIsSound, At
  <2> QED
    BY <1>t, <1>s, <2>5, <2>6, <2>8, QuietStep DEF CatalogIsTyped
<1>5. ASSUME NEW p \in Procs, Link(p) PROVE CatalogInv'
  <2> DEFINE meta == Call(p).meta
  <2>1. /\ meta \in Seals /\ meta.key \in Keys
        /\ UNCHANGED <<now, canonical, catalog, lock, told, reader>>
    BY <1>5 DEF Link, CatalogInv, CallIsSound, Seals
  <2>2. CASE /\ pending[meta.key] = Null
             /\ pending' = [pending EXCEPT ![meta.key] = meta]
             /\ Published(p, meta, meta)
    <3>1. /\ DOMAIN pending' = Keys
          /\ \A k \in Keys : pending'[k] # Null => pending'[k] \in Seals /\ pending'[k].key = k
      BY <1>t, <2>1, <2>2 DEF CatalogIsTyped
    <3>2. /\ OwnStep(p) /\ proc'[p].publisher = proc[p].publisher
          /\ CallIsSound(p)' /\ (Call(p)'.at \in Publishing => proc[p].publisher)
      BY <2>1, <2>2, PublishedKeeps
    <3>3. CatalogIsSound'
      BY <1>s, <2>1, DiskStays DEF CatalogInv, CatalogIsSound
    <3> QED
      BY <1>t, <2>1, <3>1, <3>2, <3>3, CallStep DEF CatalogIsTyped
  <2>3. CASE pending[meta.key] # Null /\ Published(p, pending[meta.key], meta) /\ UNCHANGED pending
    <3>1. pending[meta.key] \in Seals /\ pending[meta.key].key = meta.key
      BY <1>t, <2>1, <2>3 DEF CatalogIsTyped
    <3>2. /\ OwnStep(p) /\ proc'[p].publisher = proc[p].publisher
          /\ CallIsSound(p)' /\ (Call(p)'.at \in Publishing => proc[p].publisher)
      BY <2>1, <2>3, <3>1, PublishedKeeps
    <3> QED
      BY <1>t, <1>s, <2>1, <2>3, <3>2, QuietStep DEF CatalogIsTyped
  <2>4. CASE End(p) /\ UNCHANGED pending
    BY <1>s, <2>1, <2>4, EndKeeps
  <2> QED
    BY <1>5, <2>2, <2>3, <2>4 DEF Link
<1>6. ASSUME NEW p \in Procs, Find(p) PROVE CatalogInv'
  <2>1. UNCHANGED <<now, pending, canonical, catalog, lock, reader>> /\ At(p, "find")
    BY <1>6 DEF Find
  <2>2. CASE GoTo(p, "copy") /\ UNCHANGED told
    BY <1>e, <2>1, <2>2 DEF At
  <2>3. CASE Synced(p) /\ EntriesOf(catalog, Call(p).seal.key) # {}
    BY <1>s, <2>1, <2>3, EndKeeps DEF Synced
  <2>4. CASE Other(p)
    BY <1>s, <2>1, <2>4, EndKeeps DEF Other
  <2> QED
    BY <1>6, <2>2, <2>3, <2>4 DEF Find, Unavailable
<1>7. ASSUME NEW p \in Procs, Copy(p) PROVE CatalogInv'
  <2>1. UNCHANGED <<now, pending, canonical, catalog, lock, reader>> /\ At(p, "copy")
    BY <1>7 DEF Copy
  <2>2. CASE GoTo(p, "replace") /\ canonical[PathOf(Call(p).meta)] = Null /\ UNCHANGED told
    BY <1>e, <2>1, <2>2 DEF At
  <2>3. CASE GoTo(p, "register") /\ UNCHANGED told
    BY <1>e, <2>1, <2>3 DEF At
  <2>4. CASE Other(p)
    BY <1>s, <2>1, <2>4, EndKeeps DEF Other
  <2> QED
    BY <1>7, <2>2, <2>3, <2>4 DEF Copy, Unavailable
<1>8. ASSUME NEW p \in Procs, Replace(p) PROVE CatalogInv'
  <2>1. UNCHANGED <<now, pending, catalog, lock, reader>> /\ At(p, "replace") /\ UNCHANGED told
    BY <1>8 DEF Replace, Unavailable, Other
  <2>2. CASE /\ canonical' = [canonical EXCEPT ![PathOf(Call(p).meta)] = Call(p).seal]
             /\ GoTo(p, "register")
    <3>1. /\ proc[p].publisher /\ Call(p).seal \in Seals /\ Call(p).meta \in Seals
          /\ Call(p).meta.key = Call(p).seal.key /\ canonical[PathOf(Call(p).meta)] = Null
      BY <2>1 DEF CatalogInv, OnePublisher, CallIsSound, At, Publishing
    <3>2. /\ OwnStep(p) /\ proc'[p].publisher = proc[p].publisher
          /\ Call(p)'.at = "register" /\ Call(p)'.seal = Call(p).seal
          /\ Call(p)'.meta = Call(p).meta
      BY <1>t, <2>2, CallFacts
    <3>3. CallIsSound(p)'
      BY <3>1, <3>2 DEF CallIsSound, At
    <3>4. \A e \in Entry : Verified(e) => Verified(e)'
      <4>1. \A e \in Entry : e.path \in Paths /\ e.sha256 \in Seals
        BY DEF Entry
      <4>2. \A path \in Paths : canonical[path] # Null => canonical'[path] = canonical[path]
        BY <1>t, <2>2, <3>1 DEF CatalogIsTyped
      <4> QED
        BY <4>1, <4>2, CatalogConstants DEF Verified
    <3>5. CatalogIsSound'
      BY <1>t, <2>1, <3>4 DEF CatalogInv, CatalogIsSound, CatalogIsTyped, Backed, EntriesOf
    <3>6. DOMAIN canonical' = Paths
      BY <1>t, <2>2 DEF CatalogIsTyped
    <3> QED
      BY <1>t, <2>1, <3>1, <3>2, <3>3, <3>5, <3>6, CallStep DEF CatalogIsTyped
  <2>3. CASE Other(p) /\ UNCHANGED canonical
    BY <1>s, <2>1, <2>3, EndKeeps DEF Other
  <2> QED
    BY <1>8, <2>2, <2>3 DEF Replace, Unavailable
<1>9. ASSUME NEW p \in Procs, Register(p) PROVE CatalogInv'
  <2>1. UNCHANGED <<now, pending, canonical, catalog, lock, reader>> /\ At(p, "register")
    BY <1>9 DEF Register
  <2> DEFINE entry == NewEntry(Call(p))
             key == Call(p).seal.key
  <2>2. CASE Synced(p) /\ EntriesOf(catalog, key) = {entry}
    BY <1>s, <2>1, <2>2, EndKeeps DEF Synced
  <2>3. CASE Other(p)
    BY <1>s, <2>1, <2>3, EndKeeps DEF Other
  <2>4. CASE /\ EntriesOf(catalog, key) = {} /\ Verified(entry) /\ UNCHANGED told
             /\ proc' = [proc EXCEPT ![p].call.at = "write",
                                     ![p].call.document = Revised(catalog.entries \cup {entry})]
    <3> DEFINE d == Revised(catalog.entries \cup {entry})
    <3>1. /\ proc[p].publisher /\ Call(p).seal \in Seals /\ Call(p).meta \in Seals
          /\ Call(p).meta.key = Call(p).seal.key
      BY <2>1 DEF CatalogInv, OnePublisher, CallIsSound, At, Publishing
    <3>2. entry \in Entry /\ entry.path[1] = key
      <4>1. Call(p).meta.at \in Instants
        BY <3>1 DEF Seals
      <4> QED
        BY <3>1, <4>1, PathsOfSeals DEF NewEntry, Entry
    <3>3. Follows(d) /\ EntriesOf(d, key) # {}
      <4> HIDE DEF entry, key
      <4> QED
        BY <2>4, <3>2 DEF Follows, Adds, Revised, EntriesOf
    <3> HIDE DEF entry, d
    <3>4. proc' = [proc EXCEPT ![p].call.at = "write", ![p].call.document = d]
      BY <2>4 DEF d, entry
    <3>5. /\ OwnStep(p) /\ proc'[p].publisher = proc[p].publisher
          /\ Call(p)'.at = "write" /\ Call(p)'.seal = Call(p).seal
          /\ Call(p)'.document = d
      BY <1>t, <3>4 DEF CatalogIsTyped, OwnStep, Call
    <3>6. CallIsSound(p)'
      BY <2>1, <3>3, <3>5 DEF CallIsSound, At, Follows, Adds, Changes, Verified, EntriesOf
    <3> QED
      BY <1>t, <1>s, <2>1, <2>4, <3>1, <3>5, <3>6, QuietStep DEF CatalogIsTyped
  <2> QED
    BY <1>9, <2>2, <2>3, <2>4 DEF Register, Unavailable
<1>10. ASSUME NEW p \in Procs, Write(p) PROVE CatalogInv'
  <2>1. UNCHANGED <<now, pending, canonical, lock, reader, told>> /\ At(p, "write")
    BY <1>10 DEF Write, Unavailable, Other
  <2> DEFINE d == Call(p).document
  <2>2. /\ proc[p].publisher /\ Follows(d)
        /\ Call(p).seal # Null => EntriesOf(d, Call(p).seal.key) # {}
    BY <2>1 DEF CatalogInv, OnePublisher, CallIsSound, At, Publishing
  <2>3. /\ d.entries \subseteq Entry
        /\ Distinct(d.entries) /\ Backed(d.entries)
        /\ \A k : EntriesOf(catalog, k) # {} => EntriesOf(d, k) # {}
    BY <2>2, NextDocument DEF CatalogInv
  <2>4. CASE catalog' = d /\ GoTo(p, "verify")
    <3>1. /\ OwnStep(p) /\ proc'[p].publisher = proc[p].publisher
          /\ Call(p)'.at = "verify" /\ Call(p)'.seal = Call(p).seal
      BY <1>t, <2>4, CallFacts
    <3>2. CallIsSound(p)'
      BY <2>2, <2>4, <3>1 DEF CallIsSound, At, EntriesOf
    <3>3. CatalogIsSound'
      BY <2>1, <2>3, <2>4 DEF CatalogInv, CatalogIsSound, Distinct, Backed, Verified, EntriesOf
    <3> QED
      BY <1>t, <2>1, <2>2, <2>3, <2>4, <3>1, <3>2, <3>3, CallStep DEF CatalogIsTyped
  <2>5. CASE catalog' = d /\ Other(p)
    <3>1. OwnStep(p) /\ proc'[p].publisher = proc[p].publisher /\ Call(p)' = Idle
      BY <1>t, <2>5, CallFacts DEF Other
    <3>2. CatalogIsSound'
      BY <2>1, <2>3, <2>5 DEF CatalogInv, CatalogIsSound, Distinct, Backed, Verified, EntriesOf
    <3> QED
      BY <1>t, <2>1, <2>2, <2>3, <2>5, <3>1, <3>2, IdleIsSound, CallStep DEF CatalogIsTyped
  <2>6. CASE UNCHANGED catalog /\ Other(p)
    BY <1>s, <2>1, <2>6, EndKeeps DEF Other
  <2> QED
    BY <1>10, <2>4, <2>5, <2>6 DEF Write, Unavailable
<1>11. ASSUME NEW p \in Procs, Verify(p) PROVE CatalogInv'
  <2>1. UNCHANGED <<now, pending, canonical, catalog, lock, reader>> /\ At(p, "verify")
    BY <1>11 DEF Verify
  <2>2. CASE Synced(p) /\ Call(p).seal # Null
    <3>1. EntriesOf(catalog, Call(p).seal.key) # {}
      BY <2>1, <2>2 DEF CatalogInv, CallIsSound
    <3> QED
      BY <1>s, <2>1, <2>2, <3>1, EndKeeps DEF Synced
  <2>3. CASE Other(p)
    BY <1>s, <2>1, <2>3, EndKeeps DEF Other
  <2> QED
    BY <1>11, <2>2, <2>3 DEF Verify, Unavailable
<1>12. ASSUME NEW p \in Procs, NEW seal \in Seals, Sync(p, seal) PROVE CatalogInv'
  <2> DEFINE c == [at |-> "find", seal |-> seal, meta |-> seal, document |-> Null]
  <2>1. /\ DOMAIN c = {"at", "seal", "meta", "document"}
        /\ c.at = "find" /\ c.seal = seal /\ c.meta = seal
    OBVIOUS
  <2>2. proc' = [proc EXCEPT ![p].call = c] /\ proc[p].publisher
        /\ UNCHANGED <<now, pending, canonical, catalog, lock, told, reader>>
    BY <1>12 DEF Sync
  <2> HIDE DEF c
  <2>3. OwnStep(p) /\ proc'[p].publisher = proc[p].publisher /\ Call(p)' = c
    BY <1>t, <2>1, <2>2, CallFacts DEF OwnStep, Call
  <2>4. CallIsSound(p)'
    BY <2>1, <2>3 DEF CallIsSound, At
  <2> QED
    BY <1>t, <1>s, <2>2, <2>3, <2>4, QuietStep DEF CatalogIsTyped
<1>13. ASSUME NEW p \in Procs, Crash(p) PROVE CatalogInv'
  <2>1. DOMAIN proc' = Procs /\ (\A q \in Procs \ {p} : proc'[q] = proc[q])
        /\ DOMAIN proc'[p] = {"publisher", "call"} /\ Call(p)' = Idle /\ ~proc'[p].publisher
        /\ UNCHANGED <<now, pending, canonical, catalog, lock, told, reader>>
    BY <1>13, <1>t DEF Crash, CatalogIsTyped, Call
  <2>2. OwnStep(p)
    BY <2>1 DEF OwnStep, Idle
  <2>3. CatalogIsTyped'
    BY <2>1, <2>2, <1>t DEF CatalogIsTyped, OwnStep, Call
  <2>4. OnePublisher'
    <3>1. \A q \in Procs \ {p} : Call(q)' = Call(q)
      BY <2>1 DEF Call
    <3> QED
      BY <2>1, <3>1, IdleIsSound DEF CatalogInv, OnePublisher
  <2>5. \A q \in Procs : CallIsSound(q)'
    BY <2>1, <2>2, OthersKeepTheirCalls, IdleIsSound
  <2>6. CatalogIsSound'
    BY <1>s, <2>1, DiskStays DEF CatalogInv, CatalogIsSound
  <2> QED
    BY <2>3, <2>4, <2>5, <2>6 DEF CatalogInv
<1>14. CASE NewRuntime
  <2>1. /\ proc' = [p \in Procs |-> [publisher |-> FALSE, call |-> Idle]]
        /\ UNCHANGED <<now, pending, canonical, catalog, told, reader>>
    BY <1>14 DEF NewRuntime
  <2>2. /\ DOMAIN proc' = Procs
        /\ \A p \in Procs : DOMAIN proc'[p] = {"publisher", "call"} /\ Call(p)' = Idle
        /\ \A p \in Procs : ~proc'[p].publisher
    BY <2>1 DEF Call
  <2>3. CatalogIsTyped'
    BY <1>t, <2>1, <2>2 DEF CatalogIsTyped, Call, Idle
  <2>4. OnePublisher' /\ \A p \in Procs : CallIsSound(p)'
    BY <2>2, IdleIsSound DEF OnePublisher
  <2>5. CatalogIsSound'
    BY <1>s, <2>1, DiskStays DEF CatalogInv, CatalogIsSound
  <2> QED
    BY <2>3, <2>4, <2>5 DEF CatalogInv
<1>15. CASE Select \/ Describe
  <2>1. UNCHANGED <<now, pending, canonical, catalog, lock, proc, told>> /\ reader' \in {catalog, Null}
    BY <1>15 DEF Select, Describe
  <2>2. CatalogIsSound'
    BY <1>s, <1>t, <2>1, DiskStays DEF CatalogInv, CatalogIsSound, CatalogIsTyped
  <2>3. CatalogIsTyped' /\ OnePublisher' /\ \A p \in Procs : CallIsSound(p)'
    BY <2>1 DEF CatalogInv, CatalogIsTyped, OnePublisher, CallIsSound, At, Call, Follows, Adds,
       Changes, Verified, EntriesOf
  <2> QED
    BY <2>2, <2>3 DEF CatalogInv
<1> QED
  BY <1>1, <1>2, <1>3, <1>4, <1>5, <1>6, <1>7, <1>8, <1>9, <1>10, <1>11, <1>12, <1>13, <1>14,
     <1>15 DEF Next, Advance

-----------------------------------------------------------------------------
(* The theorems.                                                            *)

LEMMA InitIsSound ==
  ASSUME Init
  PROVE  CatalogInv
<1>1. CatalogIsTyped
  BY DEF Init, CatalogIsTyped, Call, Idle
<1>2. OnePublisher /\ \A p \in Procs : CallIsSound(p)
  BY DEF Init, OnePublisher, CallIsSound, At, Call, Idle, Publishing
<1>3. CatalogIsSound
  BY DEF Init, CatalogIsSound, Distinct, Backed
<1> QED
  BY <1>1, <1>2, <1>3 DEF CatalogInv

\* The invariant holds in every reachable state: the publisher is one, what
\* each call of HitlCatalogPublisher and of finalize_review_session relies on is
\* so, the document a publisher is about to write is one change away from
\* catalog.json, and the catalog names what is on disk.
THEOREM CatalogIsCoherent == Spec => []CatalogInv
<1>1. CatalogInv /\ [Next]_vars => CatalogInv'
  <2> SUFFICES ASSUME CatalogInv, [Next]_vars PROVE CatalogInv'
    OBVIOUS
  <2>1. CASE Next
    BY <2>1, StepKeepsInv
  <2>2. CASE UNCHANGED vars
    BY <2>2 DEF vars, CatalogInv, CatalogIsTyped, OnePublisher, CallIsSound, At, Call, Follows, Adds,
       Changes, CatalogIsSound, Distinct, Backed, Verified, EntriesOf
  <2> QED
    BY <2>1, <2>2
<1> QED
  BY InitIsSound, <1>1, PTL DEF Spec

\* What catalog.json names is on disk with its checksum, a session has one entry,
\* and what was reported as synced has one, whatever step a process dies at and
\* however publishers, readers and failures interleave (_publish_to_catalog,
\* _sync_to_catalog, HitlReviewCatalog.register).
THEOREM CatalogStaysTrue == Spec => []CatalogIsTrue
<1>1. CatalogInv => CatalogIsTrue
  <2> SUFFICES ASSUME CatalogInv PROVE CatalogIsTrue
    OBVIOUS
  <2>1. CatalogIsBacked
    BY DEF CatalogInv, CatalogIsSound, Backed, CatalogIsBacked
  <2>2. ASSUME NEW k \in Keys PROVE Cardinality(EntriesOf(catalog, k)) <= 1
    <3>1. CASE EntriesOf(catalog, k) = {}
      BY <3>1, FS_EmptySet
    <3>2. ASSUME NEW e \in EntriesOf(catalog, k) PROVE Cardinality(EntriesOf(catalog, k)) <= 1
      <4>1. \A f \in EntriesOf(catalog, k) : f = e
        BY <3>2 DEF EntriesOf, CatalogInv, CatalogIsSound, Distinct
      <4>2. EntriesOf(catalog, k) = {e}
        BY <3>2, <4>1
      <4>3. Cardinality({e}) = 1
        BY FS_Singleton
      <4> QED
        BY <4>2, <4>3
    <3> QED
      BY <3>1, <3>2
  <2>3. \A k \in told : EntriesOf(catalog, k) # {}
    BY DEF CatalogInv, CatalogIsSound
  <2> QED
    BY <2>1, <2>2, <2>3 DEF CatalogIsTrue, SyncedIsCataloged
<1> QED
  BY CatalogIsCoherent, <1>1, PTL

\* A document that follows the catalog adds one entry or changes one status.
LEMMA OneChange ==
  ASSUME CatalogInv, NEW d, Follows(d)
  PROVE  /\ d.revision = catalog.revision + 1
         /\ \/ \E e \in d.entries \ catalog.entries : d.entries = catalog.entries \cup {e}
            \/ \E e \in catalog.entries, f \in d.entries :
                  /\ [f EXCEPT !.status = e.status] = e
                  /\ d.entries = (catalog.entries \ {e}) \cup {f}
<1>1. CASE Adds(d)
  <2>1. PICK e \in Entry : /\ d.entries = catalog.entries \cup {e}
                          /\ EntriesOf(catalog, e.path[1]) = {}
    BY <1>1 DEF Adds
  <2>2. e \in d.entries \ catalog.entries
    BY <2>1 DEF EntriesOf
  <2> QED
    BY <2>1, <2>2 DEF Follows
<1>2. CASE Changes(d)
  <2>1. PICK e \in catalog.entries, status \in {"active", "quarantined"} :
            d.entries = (catalog.entries \ {e}) \cup {[e EXCEPT !.status = status]}
    BY <1>2 DEF Changes
  <2> DEFINE f == [e EXCEPT !.status = status]
  <2>2. [f EXCEPT !.status = e.status] = e
    BY ChangedEntry DEF CatalogInv, CatalogIsTyped
  <2>3. d.entries = (catalog.entries \ {e}) \cup {f} /\ f \in d.entries
    BY <2>1
  <2> HIDE DEF f
  <2> QED
    BY <2>2, <2>3 DEF Follows
<1> QED
  BY <1>1, <1>2 DEF Follows

\* No sealed ZIP and no published ZIP is ever replaced, and each new catalog.json
\* is the one before it with one entry more or one status changed: no publisher
\* overwrites the work of another (_copy_immutable, os.link, atomic_json_write
\* under the lock of HitlCatalogPublisher).
THEOREM HistoryStays == Spec => HistoryIsKept
<1>1. ASSUME CatalogInv, Next
      PROVE  /\ \A k \in Keys : pending[k] # Null => pending'[k] = pending[k]
             /\ \A path \in Paths : canonical[path] # Null => canonical'[path] = canonical[path]
             /\ catalog' # catalog => Follows(catalog')
  <2>1. CASE \E p \in Procs : Link(p)
    <3>1. PICK p \in Procs : Link(p)
      BY <2>1
    <3>2. UNCHANGED <<canonical, catalog>>
      BY <3>1 DEF Link
    <3>3. \/ UNCHANGED pending
          \/ /\ pending[Call(p).meta.key] = Null
             /\ pending' = [pending EXCEPT ![Call(p).meta.key] = Call(p).meta]
      BY <3>1 DEF Link
    <3> QED
      BY <1>1, <3>2, <3>3 DEF CatalogInv, CatalogIsTyped
  <2>2. CASE \E p \in Procs : Replace(p)
    <3>1. PICK p \in Procs : Replace(p)
      BY <2>2
    <3>2. UNCHANGED <<pending, catalog>> /\ canonical[PathOf(Call(p).meta)] = Null
      BY <1>1, <3>1 DEF Replace, CatalogInv, CallIsSound
    <3>3. \/ UNCHANGED canonical
          \/ canonical' = [canonical EXCEPT ![PathOf(Call(p).meta)] = Call(p).seal]
      BY <3>1 DEF Replace
    <3> QED
      BY <1>1, <3>2, <3>3 DEF CatalogInv, CatalogIsTyped
  <2>3. CASE \E p \in Procs : Write(p)
    <3>1. PICK p \in Procs : Write(p)
      BY <2>3
    <3>2. UNCHANGED <<pending, canonical>> /\ catalog' \in {catalog, Call(p).document}
      BY <3>1 DEF Write
    <3>3. Follows(Call(p).document)
      BY <1>1, <3>1 DEF Write, CatalogInv, CallIsSound
    <3> QED
      BY <3>2, <3>3
  <2>4. CASE UNCHANGED <<pending, canonical, catalog>>
    BY <2>4
  <2> QED
    BY <1>1, <2>1, <2>2, <2>3, <2>4 DEF Next, Advance, Enter, Exit, Finalize, SetStatus, Crash, Sync,
       Find, Copy, Register, Verify, NewRuntime, Select, Describe
<1> DEFINE A == /\ \A k \in Keys : pending[k] # Null => pending'[k] = pending[k]
                /\ \A path \in Paths : canonical[path] # Null => canonical'[path] = canonical[path]
                /\ catalog' # catalog =>
                     /\ catalog'.revision = catalog.revision + 1
                     /\ \/ \E e \in catalog'.entries \ catalog.entries :
                              catalog'.entries = catalog.entries \cup {e}
                        \/ \E e \in catalog.entries, f \in catalog'.entries :
                              /\ [f EXCEPT !.status = e.status] = e
                              /\ catalog'.entries = (catalog.entries \ {e}) \cup {f}
<1>2. CatalogInv /\ [Next]_vars => [A]_vars
  BY <1>1, OneChange DEF vars
<1> QED
  BY CatalogIsCoherent, <1>2, PTL DEF Spec, HistoryIsKept
===============================================================================
