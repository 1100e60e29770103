-------------------------- MODULE TrainingRunsProofs --------------------------
(***************************************************************************)
(* Proofs about TrainingRuns for any number of notebooks, executions,      *)
(* reviews and failures: the last valid bundle of a destination can be     *)
(* found, what is on Drive is of runs that have succeeded, comparisons are *)
(* on clips that no model was trained on, and clips keep their roles.      *)
(* TrainingInv is inductive; its parts are about the directories, the      *)
(* notebooks, the runs and the store.                                      *)
(*                                                                         *)
(* And about ModelEligibility, for any evidence a training computes: what  *)
(* serves as production has earned it, and the trainer and the readers of  *)
(* the bundle agree.  And about SupervisionWeights, for any composition:   *)
(* people outweigh rules whatever balance is tried.                        *)
(***************************************************************************)
EXTENDS TrainingRuns, FiniteSetTheorems, TLAPS

\* A sequence, whatever it is of.
IsSequence(s) == s \in Seq({s[i] : i \in DOMAIN s})

-----------------------------------------------------------------------------
(* The directories.                                                         *)

\* Between the moves the lock is held and the last valid bundle may be out of place.
Between(p) == publication[p].at \in {"moved", "installed", "invalid", "removed"}
Working(p) == Between(p) \/ publication[p].at \in {"locked", "valid"}
Holding(p) == Working(p) \/ publication[p].at \in {"failed", "published"}

IsCopy(copy) == copy # Nobody => copy = [bundle |-> copy.bundle, whole |-> copy.whole]

DirectoriesAreTyped ==
    /\ DOMAIN target = Directories /\ DOMAIN lock = Directories
    /\ DOMAIN backups = Directories /\ DOMAIN validated = Directories
    /\ DOMAIN publication = Publishers
    /\ \A p \in Publishers :
        /\ publication[p] = [at |-> publication[p].at, into |-> publication[p].into,
                             bundle |-> publication[p].bundle, moved |-> publication[p].moved]
        /\ IF PubAt(p, "idle") THEN Into(p) = Nobody ELSE Into(p) \in Directories
        /\ IsCopy(Moved(p))
    /\ \A d \in Directories : IsCopy(target[d])

\* The lock is that of the publication at work, and of no other.
LockIsHeld ==
    /\ \A p \in Publishers : Working(p) => Locked(p)
    /\ \A d \in Directories, p \in Publishers : lock[d] = p => Into(p) = d /\ Holding(p)

\* What a publication finds at its destination.
CandidateIsOwn ==
    \A p \in Publishers :
        LET there == target[Into(p)]  own == Whole(publication[p].bundle) IN
        /\ PubAt(p, "staged") \/ PubAt(p, "locked") => Moved(p) = Nobody
        /\ PubAt(p, "moved") \/ PubAt(p, "removed") => there = Nobody
        /\ PubAt(p, "installed") \/ PubAt(p, "invalid") => there \in {own, Parts(own)}
        /\ PubAt(p, "valid") => there = own

\* The last valid bundle of a destination is in place, kept, or moved aside by the
\* publication at work; and while one is between its moves, in one of the last two.
LastBundleIsKept ==
    /\ \A d \in Directories : validated[d] # Nobody =>
        \/ target[d] = validated[d] \/ validated[d] \in backups[d]
        \/ \E p \in Publishers : Between(p) /\ Into(p) = d /\ Moved(p) = validated[d]
    /\ \A p \in Publishers : Between(p) /\ validated[Into(p)] # Nobody =>
        Moved(p) = validated[Into(p)] \/ validated[Into(p)] \in backups[Into(p)]

DirectoriesInv ==
    /\ DirectoriesAreTyped
    /\ LockIsHeld
    /\ CandidateIsOwn
    /\ LastBundleIsKept

-----------------------------------------------------------------------------
(* The store and the notebooks.                                             *)

NotebooksAreTyped ==
    /\ IsSequence(runs) /\ IsSequence(snapshots)
    /\ \A r \in DOMAIN runs : DOMAIN runs[r] = {"status", "train", "holdout"}
    /\ pointer \in 0 .. Len(snapshots)
    /\ DOMAIN notebook = Publishers
    /\ \A t \in Publishers :
        DOMAIN Nb(t) = {"at", "config", "reviews", "run", "next", "holdout", "audited"}

\* A notebook at work has a run of its own, which has not succeeded before its bundle
\* is published.
RunsAreOwn ==
    /\ \A t \in Publishers : ~At(t, "closed") => Nb(t).run \in DOMAIN runs
    /\ \A t, u \in Publishers :
        ~At(t, "closed") /\ ~At(u, "closed") /\ Nb(t).run = Nb(u).run => t = u
    /\ \A t \in Publishers :
        /\ Nb(t).at \notin {"closed", "closing", "copy"} =>
              runs[Nb(t).run].status # "succeeded"
        /\ At(t, "closing") /\ Nb(t).audited => runs[Nb(t).run].status = "succeeded"

Succeeded(bundle) == bundle \in DOMAIN runs /\ runs[bundle].status = "succeeded"

\* A notebook publishes in two of its cells only: its own bundle in its own workspace,
\* where nobody else does, and a bundle of a succeeded run on Drive.
PublicationIsOwn(t) ==
    /\ Nb(t).at \notin {"publish", "copy"} =>
          /\ \A d \in Directories : lock[d] # t
          /\ publication[t].at \in {"idle", "published"}
    /\ Into(t) # Nobody => Into(t) \in {WorkspaceOf[t], Drive}
    /\ At(t, "publish") =>
          Into(t) = WorkspaceOf[t] /\ publication[t].bundle = Nb(t).run
    /\ At(t, "copy") => Into(t) = Drive
    /\ Into(t) = Drive => Succeeded(publication[t].bundle)
    /\ At(t, "closing") \/ (At(t, "publish") /\ PubAt(t, "published")) =>
          target[WorkspaceOf[t]] = Whole(Nb(t).run)

PublicationsAreOwn == \A t \in Publishers : PublicationIsOwn(t)

DriveIsSucceeded ==
    /\ \A copy \in backups[Drive] \cup {target[Drive]} :
        copy # Nobody => Succeeded(copy.bundle)
    /\ \A t \in Publishers :
        Into(t) = Drive /\ Moved(t) # Nobody => Succeeded(Moved(t).bundle)

\* Snapshot s follows p: it has the groups of p where p has them and new ones besides.
Follows(s, p) ==
    /\ GroupsOf(p.validation) \subseteq GroupsOf(s.validation)
    /\ GroupsOf(p.test) \subseteq GroupsOf(s.test)
    /\ Reserved(s) \cap p.seen = Reserved(p)
    /\ ValidPartitions(Parts2(s))

Admissible(s) ==
    /\ Reserved(s) \subseteq s.seen
    /\ s.previous # 0 => s.previous \in DOMAIN snapshots /\ Follows(s, snapshots[s.previous])

\* Snapshots, those about to be written included, follow those that stay in the store,
\* and a model with a holdout was trained on no clip of it.
HoldoutIsKept(t) ==
    /\ Nb(t).at \in {"resolve", "zip", "point"} => Nb(t).config.frozen
    /\ At(t, "zip") => Admissible(Nb(t).next)
    /\ At(t, "point") => Nb(t).holdout \in DOMAIN snapshots
    /\ At(t, "partition") =>
          IF Nb(t).config.frozen THEN Nb(t).holdout \in DOMAIN snapshots
          ELSE Nb(t).holdout = 0

RunIsFair(r) == runs[r].holdout # 0 =>
    /\ runs[r].holdout \in DOMAIN snapshots
    /\ runs[r].train \cap Reserved(snapshots[runs[r].holdout]) = {}

HoldoutsAreKept ==
    /\ \A n \in DOMAIN snapshots : Admissible(snapshots[n])
    /\ \A t \in Publishers : HoldoutIsKept(t)
    /\ \A r \in DOMAIN runs : RunIsFair(r)

\* What is on Drive is of runs that nobody touches again, because a notebook works
\* on its own run, publishes its own bundle and holds the lock while it does: the
\* parts need each other.
TrainingInv ==
    /\ DirectoriesInv
    /\ NotebooksAreTyped
    /\ RunsAreOwn
    /\ PublicationsAreOwn
    /\ DriveIsSucceeded
    /\ HoldoutsAreKept

-----------------------------------------------------------------------------
(* Moves of one publication.                                                *)

\* What the publication p and its destination have to keep to, when p holds the
\* lock of it or nobody does.
LocalInv(p) ==
    LET d == Into(p)  own == Whole(publication[p].bundle) IN
    /\ publication[p] = [at |-> publication[p].at, into |-> d,
                         bundle |-> publication[p].bundle, moved |-> Moved(p)]
    /\ ~PubAt(p, "idle") /\ d \in Directories
    /\ IsCopy(Moved(p)) /\ IsCopy(target[d])
    /\ lock[d] \in {p, Nobody, "left"}
    /\ Working(p) => lock[d] = p
    /\ lock[d] = p => Holding(p)
    /\ PubAt(p, "staged") \/ PubAt(p, "locked") => Moved(p) = Nobody
    /\ PubAt(p, "moved") \/ PubAt(p, "removed") => target[d] = Nobody
    /\ PubAt(p, "installed") \/ PubAt(p, "invalid") => target[d] \in {own, Parts(own)}
    /\ PubAt(p, "valid") => target[d] = own
    /\ validated[d] # Nobody =>
        /\ \/ target[d] = validated[d] \/ validated[d] \in backups[d]
           \/ Between(p) /\ Moved(p) = validated[d]
        /\ Between(p) => Moved(p) = validated[d] \/ validated[d] \in backups[d]

LEMMA LocalFacts ==
  ASSUME DirectoriesInv, NEW p \in Publishers, Into(p) \in Directories,
         lock[Into(p)] \in {p, Nobody}
  PROVE  LocalInv(p)
<1>1. \A q \in Publishers : Between(q) /\ Into(q) = Into(p) => q = p
  BY DirectoryConstants DEF DirectoriesInv, LockIsHeld, Locked, Working
<1> QED
  BY <1>1, DirectoryConstants
     DEF DirectoriesInv, DirectoriesAreTyped, LockIsHeld, CandidateIsOwn, LastBundleIsKept,
         LocalInv, Locked, Into, Moved, PubAt

\* A step that changes p and its destination only, and keeps to LocalInv.
LocalChange(p) ==
    /\ DOMAIN target' = Directories /\ DOMAIN lock' = Directories
    /\ DOMAIN backups' = Directories /\ DOMAIN validated' = Directories
    /\ DOMAIN publication' = Publishers
    /\ \A q \in Publishers \ {p} : publication'[q] = publication[q]
    /\ Into(p)' = Into(p)
    /\ \A d \in Directories \ {Into(p)} :
        /\ target'[d] = target[d] /\ lock'[d] = lock[d]
        /\ backups'[d] = backups[d] /\ validated'[d] = validated[d]

LEMMA LocalStep ==
  ASSUME DirectoriesInv, NEW p \in Publishers, Into(p) \in Directories,
         lock[Into(p)] \in {p, Nobody},
         LocalChange(p), LocalInv(p)'
  PROVE  DirectoriesInv'
<1>1. \A q \in Publishers \ {p} : Working(q) => Into(q) # Into(p)
  BY DirectoryConstants DEF DirectoriesInv, LockIsHeld, Locked
<1>2. /\ \A q \in Publishers \ {p} : Into(q)' = Into(q) /\ Moved(q)' = Moved(q)
      /\ \A q \in Publishers \ {p} : (Working(q)' <=> Working(q)) /\ (Between(q)' <=> Between(q))
      /\ \A q \in Publishers \ {p} : Holding(q)' <=> Holding(q)
  BY DEF LocalChange, Into, Moved, Working, Between, Holding
<1>3. DirectoriesAreTyped'
  BY <1>2 DEF DirectoriesInv, DirectoriesAreTyped, LocalChange, LocalInv, Into, IsCopy, Moved, PubAt
<1>d. \A q \in Publishers \ {p} : Working(q) => Into(q) \in Directories \ {Into(p)}
  BY <1>1 DEF DirectoriesInv, DirectoriesAreTyped, Working, Between, PubAt
<1>4. LockIsHeld'
  <2>1. ASSUME NEW q \in Publishers, Working(q)' PROVE Locked(q)'
    <3>1. CASE q = p
      BY <2>1, <3>1, DirectoryConstants DEF LocalInv, Locked
    <3>2. CASE q # p
      BY <2>1, <3>2, <1>2, <1>d DEF DirectoriesInv, LockIsHeld, LocalChange, Locked
    <3> QED
      BY <3>1, <3>2
  <2>2. ASSUME NEW d \in Directories, NEW q \in Publishers, lock'[d] = q
        PROVE  Into(q)' = d /\ Holding(q)'
    <3>1. CASE d = Into(p)
      BY <2>2, <3>1, DirectoryConstants DEF LocalInv, LocalChange
    <3>2. CASE d # Into(p)
      <4>1. lock[d] = q
        BY <2>2, <3>2 DEF LocalChange
      <4>2. Into(q) = d /\ Holding(q)
        BY <4>1 DEF DirectoriesInv, LockIsHeld
      <4> QED
        BY <4>2, <3>2, <1>2
    <3> QED
      BY <3>1, <3>2
  <2> QED
    BY <2>1, <2>2 DEF LockIsHeld
<1>5. CandidateIsOwn'
  <2>1. ASSUME NEW q \in Publishers \ {p}, Working(q)
        PROVE  target'[Into(q)'] = target[Into(q)] /\ publication'[q] = publication[q]
    BY <2>1, <1>2, <1>d DEF LocalChange
  <2>2. \A q \in Publishers \ {p}, at \in {"moved", "removed", "installed", "invalid", "valid"} :
            PubAt(q, at)' => PubAt(q, at) /\ Working(q)
    BY DEF LocalChange, PubAt, Working, Between
  <2>3. ASSUME NEW q \in Publishers \ {p}
        PROVE  LET there == target'[Into(q)']  own == Whole(publication'[q].bundle) IN
               /\ PubAt(q, "staged")' \/ PubAt(q, "locked")' => Moved(q)' = Nobody
               /\ PubAt(q, "moved")' \/ PubAt(q, "removed")' => there = Nobody
               /\ PubAt(q, "installed")' \/ PubAt(q, "invalid")' => there \in {own, Parts(own)}
               /\ PubAt(q, "valid")' => there = own
    <3>1. PubAt(q, "staged")' \/ PubAt(q, "locked")' => Moved(q)' = Nobody
      BY <1>2, <2>3 DEF LocalChange, PubAt, DirectoriesInv, CandidateIsOwn
    <3> QED
      BY <2>1, <2>2, <2>3, <3>1, <1>2 DEF DirectoriesInv, CandidateIsOwn
  <2> QED
    BY <2>3 DEF LocalInv, CandidateIsOwn
<1>6. LastBundleIsKept'
  <2>1. ASSUME NEW d \in Directories, validated'[d] # Nobody
        PROVE  \/ target'[d] = validated'[d] \/ validated'[d] \in backups'[d]
               \/ \E q \in Publishers : Between(q)' /\ Into(q)' = d /\ Moved(q)' = validated'[d]
    <3>1. CASE d = Into(p)
      BY <2>1, <3>1 DEF LocalInv, LocalChange
    <3>2. CASE d # Into(p)
      BY <2>1, <3>2, <1>2 DEF DirectoriesInv, LastBundleIsKept, LocalChange
    <3> QED
      BY <3>1, <3>2
  <2>2. ASSUME NEW q \in Publishers, Between(q)', validated'[Into(q)'] # Nobody
        PROVE  Moved(q)' = validated'[Into(q)'] \/ validated'[Into(q)'] \in backups'[Into(q)']
    <3>1. CASE q = p
      BY <2>2, <3>1 DEF LocalInv
    <3>2. CASE q # p
      <4>1. Into(q) \in Directories \ {Into(p)} /\ Between(q)
        BY <2>2, <3>2, <1>2, <1>d DEF Working
      <4> QED
        BY <2>2, <3>2, <4>1, <1>2 DEF DirectoriesInv, LastBundleIsKept, LocalChange
    <3> QED
      BY <3>1, <3>2
  <2> QED
    BY <2>1, <2>2 DEF LastBundleIsKept
<1> QED
  BY <1>3, <1>4, <1>5, <1>6 DEF DirectoriesInv

\* What a step of p writes, in the terms of LocalInv.
LEMMA MoveFacts ==
  ASSUME DirectoriesAreTyped, NEW p \in Publishers, NEW point, Move(p, point)
  PROVE  /\ DOMAIN publication' = Publishers
         /\ \A q \in Publishers \ {p} : publication'[q] = publication[q]
         /\ publication'[p] = [at |-> point, into |-> Into(p),
                               bundle |-> publication[p].bundle, moved |-> Moved(p)]
<1>1. publication[p] = [at |-> publication[p].at, into |-> Into(p),
                        bundle |-> publication[p].bundle, moved |-> Moved(p)]
  BY DEF DirectoriesAreTyped, Into, Moved
<1>2. [publication[p] EXCEPT !.at = point] =
        [at |-> point, into |-> Into(p), bundle |-> publication[p].bundle, moved |-> Moved(p)]
  BY <1>1
<1> QED
  BY <1>2 DEF Move, DirectoriesAreTyped

\* A publication that holds no lock comes to stand where it needs none.
LEMMA LocklessStep ==
  ASSUME DirectoriesInv, NEW p \in Publishers,
         \A d \in Directories : lock[d] # p,
         UNCHANGED <<target, lock, backups, validated>>,
         DOMAIN publication' = Publishers,
         \A q \in Publishers \ {p} : publication'[q] = publication[q],
         publication'[p] = [at |-> publication'[p].at, into |-> Into(p)',
                            bundle |-> publication'[p].bundle, moved |-> Moved(p)'],
         publication'[p].at \in {"idle", "staged", "refused"},
         IF publication'[p].at = "idle" THEN Into(p)' = Nobody ELSE Into(p)' \in Directories,
         IsCopy(Moved(p)'),
         publication'[p].at = "staged" => Moved(p)' = Nobody
  PROVE  DirectoriesInv'
<1>1. ~Working(p) /\ ~Working(p)' /\ ~Between(p) /\ ~Between(p)'
  <2>1. ~Working(p)
    BY DEF DirectoriesInv, DirectoriesAreTyped, LockIsHeld, Locked, Working, Between
  <2> QED
    BY <2>1 DEF Working, Between
<1>2. /\ \A q \in Publishers \ {p} : Into(q)' = Into(q) /\ Moved(q)' = Moved(q)
      /\ \A q \in Publishers \ {p} : (Working(q)' <=> Working(q)) /\ (Between(q)' <=> Between(q))
      /\ \A q \in Publishers \ {p} : Holding(q)' <=> Holding(q)
  BY DEF Into, Moved, Working, Between, Holding
<1>3. DirectoriesAreTyped'
  BY <1>2 DEF DirectoriesInv, DirectoriesAreTyped, Into, IsCopy, Moved, PubAt
<1>4. LockIsHeld'
  BY <1>1, <1>2 DEF DirectoriesInv, LockIsHeld, Locked
<1>5. CandidateIsOwn'
  <2>1. ASSUME NEW q \in Publishers \ {p}
        PROVE  LET there == target'[Into(q)']  own == Whole(publication'[q].bundle) IN
               /\ PubAt(q, "staged")' \/ PubAt(q, "locked")' => Moved(q)' = Nobody
               /\ PubAt(q, "moved")' \/ PubAt(q, "removed")' => there = Nobody
               /\ PubAt(q, "installed")' \/ PubAt(q, "invalid")' => there \in {own, Parts(own)}
               /\ PubAt(q, "valid")' => there = own
    BY <1>2 DEF DirectoriesInv, CandidateIsOwn, PubAt
  <2> QED
    BY <2>1 DEF CandidateIsOwn, PubAt
<1>6. LastBundleIsKept'
  BY <1>1, <1>2 DEF DirectoriesInv, LastBundleIsKept
<1> QED
  BY <1>3, <1>4, <1>5, <1>6 DEF DirectoriesInv

LEMMA PublishStepKeeps ==
  ASSUME DirectoriesInv, NEW p \in Publishers, Publish(p)
  PROVE  /\ DirectoriesInv' /\ LocalChange(p)
         /\ publication'[p].bundle = publication[p].bundle
<1>t. DirectoriesAreTyped
  BY DEF DirectoriesInv
<1>1. CASE TakeLock(p)
  <2>1. Into(p) \in Directories /\ PubAt(p, "staged")
    BY <1>1, <1>t DEF TakeLock, PubAt, DirectoriesAreTyped
  <2>2. CASE lock[Into(p)] = Nobody
    <3>1. LocalInv(p)
      BY <2>1, <2>2, LocalFacts
    <3>2. Move(p, "locked") /\ lock' = [lock EXCEPT ![Into(p)] = p]
          /\ UNCHANGED <<target, backups, validated>>
      BY <1>1, <2>2 DEF TakeLock
    <3>3. /\ DOMAIN publication' = Publishers
          /\ \A q \in Publishers \ {p} : publication'[q] = publication[q]
          /\ publication'[p] = [at |-> "locked", into |-> Into(p),
                                bundle |-> publication[p].bundle, moved |-> Moved(p)]
      BY <1>t, <3>2, MoveFacts
    <3>4. LocalChange(p)
      BY <1>t, <3>2, <3>3 DEF LocalChange, Into, DirectoriesAreTyped
    <3>5. LocalInv(p)'
      BY <1>t, <2>1, <3>1, <3>2, <3>3
         DEF LocalInv, DirectoriesAreTyped, PubAt, Into, Moved, Working, Between, Holding
    <3> QED
      BY <2>1, <2>2, <3>3, <3>4, <3>5, LocalStep
  <2>3. CASE lock[Into(p)] # Nobody
    <3>1. Move(p, "refused") /\ UNCHANGED <<target, lock, backups, validated>>
      BY <1>1, <2>3 DEF TakeLock
    <3>2. /\ DOMAIN publication' = Publishers
          /\ \A q \in Publishers \ {p} : publication'[q] = publication[q]
          /\ publication'[p] = [at |-> "refused", into |-> Into(p),
                                bundle |-> publication[p].bundle, moved |-> Moved(p)]
      BY <1>t, <3>1, MoveFacts
    <3>3. \A d \in Directories : lock[d] # p
      BY <2>1 DEF DirectoriesInv, LockIsHeld, Holding, Working, Between, PubAt
    <3>4. DirectoriesInv'
      BY <1>t, <2>1, <3>1, <3>2, <3>3, LocklessStep DEF DirectoriesAreTyped, Into, Moved
    <3> QED
      BY <1>t, <3>1, <3>2, <3>4 DEF LocalChange, Into, DirectoriesAreTyped
  <2> QED
    BY <2>2, <2>3
<1>2. ASSUME Working(p) \/ Locked(p)
      PROVE  /\ Into(p) \in Directories /\ lock[Into(p)] = p
             /\ LocalInv(p)
  <2>1. Into(p) \in Directories /\ lock[Into(p)] = p
    BY <1>2, DirectoryConstants
       DEF DirectoriesInv, DirectoriesAreTyped, LockIsHeld, Locked, Into, Holding, Working, Between
  <2> QED
    BY <2>1, LocalFacts
<1>3. CASE MoveOld(p)
  <2>1. Into(p) \in Directories /\ lock[Into(p)] = p /\ LocalInv(p)
    BY <1>2, <1>3 DEF MoveOld, PubAt, Working, Between
  <2>2. CASE publication' = [publication EXCEPT ![p].at = "moved", ![p].moved = target[Into(p)]]
    <3>0. publication[p] = [at |-> publication[p].at, into |-> Into(p),
                            bundle |-> publication[p].bundle, moved |-> Moved(p)]
      BY <1>t DEF DirectoriesAreTyped, Into, Moved
    <3>1. [publication[p] EXCEPT !.at = "moved", !.moved = target[Into(p)]] =
            [at |-> "moved", into |-> Into(p),
             bundle |-> publication[p].bundle, moved |-> target[Into(p)]]
      <4> DEFINE aside == [publication[p] EXCEPT !.at = "moved"]
      <4>1. aside = [at |-> "moved", into |-> Into(p),
                     bundle |-> publication[p].bundle, moved |-> Moved(p)]
        BY <3>0
      <4>2. [publication[p] EXCEPT !.at = "moved", !.moved = target[Into(p)]] =
              [aside EXCEPT !.moved = target[Into(p)]]
        OBVIOUS
      <4> HIDE DEF aside
      <4> QED
        BY <4>1, <4>2
    <3>2. /\ DOMAIN publication' = Publishers
          /\ \A q \in Publishers \ {p} : publication'[q] = publication[q]
          /\ publication'[p] = [at |-> "moved", into |-> Into(p),
                                bundle |-> publication[p].bundle, moved |-> target[Into(p)]]
      BY <1>t, <2>2, <3>1 DEF DirectoriesAreTyped
    <3>o. ~Move(p, "failed")
      BY <1>t, <3>2, MoveFacts
    <3>3. LocalChange(p)
      BY <1>3, <1>t, <2>1, <3>2 DEF MoveOld, Becomes, LocalChange, Into, DirectoriesAreTyped
    <3>4. LocalInv(p)'
      BY <1>3, <1>t, <2>1, <3>2, <3>o, DirectoryConstants
         DEF MoveOld, Becomes, LocalInv, IsCopy, Whole, Parts,
             DirectoriesAreTyped, PubAt, Into, Moved, Working, Between, Holding
    <3> QED
      BY <2>1, <3>2, <3>3, <3>4, LocalStep
  <2>3. CASE Move(p, "failed") /\ UNCHANGED target
    <3>1. /\ DOMAIN publication' = Publishers
          /\ \A q \in Publishers \ {p} : publication'[q] = publication[q]
          /\ publication'[p] = [at |-> "failed", into |-> Into(p),
                                bundle |-> publication[p].bundle, moved |-> Moved(p)]
      BY <1>t, <2>3, MoveFacts
    <3>2. LocalChange(p)
      BY <1>3, <1>t, <2>1, <2>3, <3>1 DEF MoveOld, LocalChange, Into, DirectoriesAreTyped
    <3>3. LocalInv(p)'
      BY <1>3, <1>t, <2>1, <2>3, <3>1, DirectoryConstants
         DEF MoveOld, LocalInv, IsCopy, Whole, Parts,
             DirectoriesAreTyped, PubAt, Into, Moved, Working, Between, Holding
    <3> QED
      BY <2>1, <3>1, <3>2, <3>3, LocalStep
  <2> QED
    BY <1>3, <2>2, <2>3 DEF MoveOld
<1>4. CASE Install(p)
  <2>1. Into(p) \in Directories /\ lock[Into(p)] = p /\ LocalInv(p)
    BY <1>2, <1>4 DEF Install, PubAt, Working, Between
  <2>2. ASSUME Move(p, "installed") PROVE DirectoriesInv' /\ LocalChange(p) /\ publication'[p].bundle = publication[p].bundle
    <3>1. /\ DOMAIN publication' = Publishers
          /\ \A q \in Publishers \ {p} : publication'[q] = publication[q]
          /\ publication'[p] = [at |-> "installed", into |-> Into(p),
                                bundle |-> publication[p].bundle, moved |-> Moved(p)]
      BY <1>t, <2>2, MoveFacts
    <3>o. ~Move(p, "removed")
      BY <1>t, <3>1, MoveFacts
    <3>2. LocalChange(p)
      BY <1>4, <1>t, <2>1, <3>1 DEF Install, Becomes, LocalChange, Into, DirectoriesAreTyped
    <3>3. LocalInv(p)'
      BY <1>4, <1>t, <2>1, <2>2, <3>1, <3>o, DirectoryConstants
         DEF Install, Becomes, LocalInv, IsCopy, Whole, Parts,
             DirectoriesAreTyped, PubAt, Into, Moved, Working, Between, Holding
    <3> QED
      BY <2>1, <3>1, <3>2, <3>3, LocalStep
  <2>3. ASSUME Move(p, "removed") PROVE DirectoriesInv' /\ LocalChange(p) /\ publication'[p].bundle = publication[p].bundle
    <3>1. /\ DOMAIN publication' = Publishers
          /\ \A q \in Publishers \ {p} : publication'[q] = publication[q]
          /\ publication'[p] = [at |-> "removed", into |-> Into(p),
                                bundle |-> publication[p].bundle, moved |-> Moved(p)]
      BY <1>t, <2>3, MoveFacts
    <3>o. ~Move(p, "installed")
      BY <1>t, <3>1, MoveFacts
    <3>2. LocalChange(p)
      BY <1>4, <1>t, <2>1, <3>1 DEF Install, Becomes, LocalChange, Into, DirectoriesAreTyped
    <3>3. LocalInv(p)'
      BY <1>4, <1>t, <2>1, <2>3, <3>1, <3>o, DirectoryConstants
         DEF Install, Becomes, LocalInv, IsCopy, Whole, Parts,
             DirectoriesAreTyped, PubAt, Into, Moved, Working, Between, Holding
    <3> QED
      BY <2>1, <3>1, <3>2, <3>3, LocalStep
  <2> QED
    BY <1>4, <2>2, <2>3 DEF Install
<1>5. CASE Validate(p)
  <2>1. Into(p) \in Directories /\ lock[Into(p)] = p /\ LocalInv(p)
    BY <1>2, <1>5 DEF Validate, PubAt, Working, Between
  <2>2. ASSUME Move(p, "valid") PROVE DirectoriesInv' /\ LocalChange(p) /\ publication'[p].bundle = publication[p].bundle
    <3>1. /\ DOMAIN publication' = Publishers
          /\ \A q \in Publishers \ {p} : publication'[q] = publication[q]
          /\ publication'[p] = [at |-> "valid", into |-> Into(p),
                                bundle |-> publication[p].bundle, moved |-> Moved(p)]
      BY <1>t, <2>2, MoveFacts
    <3>o. ~Move(p, "invalid")
      BY <1>t, <3>1, MoveFacts
    <3>2. LocalChange(p)
      BY <1>5, <1>t, <2>1, <3>1 DEF Validate, LocalChange, Into, DirectoriesAreTyped
    <3>3. LocalInv(p)'
      BY <1>5, <1>t, <2>1, <2>2, <3>1, <3>o, DirectoryConstants
         DEF Validate, LocalInv, IsCopy, Whole, Parts,
             DirectoriesAreTyped, PubAt, Into, Moved, Working, Between, Holding
    <3> QED
      BY <2>1, <3>1, <3>2, <3>3, LocalStep
  <2>3. ASSUME Move(p, "invalid") PROVE DirectoriesInv' /\ LocalChange(p) /\ publication'[p].bundle = publication[p].bundle
    <3>1. /\ DOMAIN publication' = Publishers
          /\ \A q \in Publishers \ {p} : publication'[q] = publication[q]
          /\ publication'[p] = [at |-> "invalid", into |-> Into(p),
                                bundle |-> publication[p].bundle, moved |-> Moved(p)]
      BY <1>t, <2>3, MoveFacts
    <3>o. ~Move(p, "valid")
      BY <1>t, <3>1, MoveFacts
    <3>2. LocalChange(p)
      BY <1>5, <1>t, <2>1, <3>1 DEF Validate, LocalChange, Into, DirectoriesAreTyped
    <3>3. LocalInv(p)'
      BY <1>5, <1>t, <2>1, <2>3, <3>1, <3>o, DirectoryConstants
         DEF Validate, LocalInv, IsCopy, Whole, Parts,
             DirectoriesAreTyped, PubAt, Into, Moved, Working, Between, Holding
    <3> QED
      BY <2>1, <3>1, <3>2, <3>3, LocalStep
  <2> QED
    BY <1>5, <2>2, <2>3 DEF Validate
<1>6. CASE RemoveCandidate(p)
  <2>1. Into(p) \in Directories /\ lock[Into(p)] = p /\ LocalInv(p)
    BY <1>2, <1>6 DEF RemoveCandidate, PubAt, Working, Between
  <2>2. ASSUME Move(p, "removed") PROVE DirectoriesInv' /\ LocalChange(p) /\ publication'[p].bundle = publication[p].bundle
    <3>1. /\ DOMAIN publication' = Publishers
          /\ \A q \in Publishers \ {p} : publication'[q] = publication[q]
          /\ publication'[p] = [at |-> "removed", into |-> Into(p),
                                bundle |-> publication[p].bundle, moved |-> Moved(p)]
      BY <1>t, <2>2, MoveFacts
    <3>o. ~Move(p, "failed")
      BY <1>t, <3>1, MoveFacts
    <3>2. LocalChange(p)
      BY <1>6, <1>t, <2>1, <3>1 DEF RemoveCandidate, Becomes, Keep, LocalChange, Into, DirectoriesAreTyped
    <3>3. LocalInv(p)'
      BY <1>6, <1>t, <2>1, <2>2, <3>1, <3>o, DirectoryConstants
         DEF RemoveCandidate, Becomes, Keep, LocalInv, IsCopy, Whole, Parts,
             DirectoriesAreTyped, PubAt, Into, Moved, Working, Between, Holding
    <3> QED
      BY <2>1, <3>1, <3>2, <3>3, LocalStep
  <2>3. ASSUME Move(p, "failed") PROVE DirectoriesInv' /\ LocalChange(p) /\ publication'[p].bundle = publication[p].bundle
    <3>1. /\ DOMAIN publication' = Publishers
          /\ \A q \in Publishers \ {p} : publication'[q] = publication[q]
          /\ publication'[p] = [at |-> "failed", into |-> Into(p),
                                bundle |-> publication[p].bundle, moved |-> Moved(p)]
      BY <1>t, <2>3, MoveFacts
    <3>o. ~Move(p, "removed")
      BY <1>t, <3>1, MoveFacts
    <3>2. LocalChange(p)
      BY <1>6, <1>t, <2>1, <3>1 DEF RemoveCandidate, Becomes, Keep, LocalChange, Into, DirectoriesAreTyped
    <3>3. LocalInv(p)'
      BY <1>6, <1>t, <2>1, <2>3, <3>1, <3>o, DirectoryConstants
         DEF RemoveCandidate, Becomes, Keep, LocalInv, IsCopy, Whole, Parts,
             DirectoriesAreTyped, PubAt, Into, Moved, Working, Between, Holding
    <3> QED
      BY <2>1, <3>1, <3>2, <3>3, LocalStep
  <2> QED
    BY <1>6, <2>2, <2>3 DEF RemoveCandidate
<1>7. CASE Restore(p)
  <2>1. Into(p) \in Directories /\ lock[Into(p)] = p /\ LocalInv(p)
    BY <1>2, <1>7 DEF Restore, PubAt, Working, Between
  <2>2. ASSUME Move(p, "failed") PROVE DirectoriesInv' /\ LocalChange(p) /\ publication'[p].bundle = publication[p].bundle
    <3>1. /\ DOMAIN publication' = Publishers
          /\ \A q \in Publishers \ {p} : publication'[q] = publication[q]
          /\ publication'[p] = [at |-> "failed", into |-> Into(p),
                                bundle |-> publication[p].bundle, moved |-> Moved(p)]
      BY <1>t, <2>2, MoveFacts
    <3>2. LocalChange(p)
      BY <1>7, <1>t, <2>1, <3>1 DEF Restore, Becomes, Keep, LocalChange, Into, DirectoriesAreTyped
    <3>3. LocalInv(p)'
      BY <1>7, <1>t, <2>1, <2>2, <3>1, DirectoryConstants
         DEF Restore, Becomes, Keep, LocalInv, IsCopy, Whole, Parts,
             DirectoriesAreTyped, PubAt, Into, Moved, Working, Between, Holding
    <3> QED
      BY <2>1, <3>1, <3>2, <3>3, LocalStep
  <2> QED
    BY <1>7, <2>2 DEF Restore
<1>8. CASE DropBackup(p)
  <2>1. Into(p) \in Directories /\ lock[Into(p)] = p /\ LocalInv(p)
    BY <1>2, <1>8 DEF DropBackup, PubAt, Working, Between
  <2>2. ASSUME Move(p, "published") PROVE DirectoriesInv' /\ LocalChange(p) /\ publication'[p].bundle = publication[p].bundle
    <3>1. /\ DOMAIN publication' = Publishers
          /\ \A q \in Publishers \ {p} : publication'[q] = publication[q]
          /\ publication'[p] = [at |-> "published", into |-> Into(p),
                                bundle |-> publication[p].bundle, moved |-> Moved(p)]
      BY <1>t, <2>2, MoveFacts
    <3>2. LocalChange(p)
      BY <1>8, <1>t, <2>1, <3>1 DEF DropBackup, Keep, LocalChange, Into, DirectoriesAreTyped
    <3>3. LocalInv(p)'
      BY <1>8, <1>t, <2>1, <2>2, <3>1, DirectoryConstants
         DEF DropBackup, Keep, LocalInv, IsCopy, Whole, Parts,
             DirectoriesAreTyped, PubAt, Into, Moved, Working, Between, Holding
    <3> QED
      BY <2>1, <3>1, <3>2, <3>3, LocalStep
  <2> QED
    BY <1>8, <2>2 DEF DropBackup
<1>9. CASE ReleaseLock(p)
  <2>1. Into(p) \in Directories /\ lock[Into(p)] = p /\ LocalInv(p)
    <3>1. Into(p) \in Directories /\ lock[Into(p)] = p
      BY <1>9, <1>t DEF ReleaseLock, DirectoriesAreTyped, PubAt
    <3> QED
      BY <3>1, LocalFacts
  <2>2. LocalChange(p)
    BY <1>9, <1>t, <2>1 DEF ReleaseLock, Unlock, LocalChange, Into, DirectoriesAreTyped
  <2>3. LocalInv(p)'
    BY <1>9, <1>t, <2>1, DirectoryConstants
       DEF ReleaseLock, Unlock, LocalInv, IsCopy, Whole, Parts,
           DirectoriesAreTyped, PubAt, Into, Moved, Working, Between, Holding
  <2>4. publication'[p].bundle = publication[p].bundle
    BY <1>9 DEF ReleaseLock
  <2> QED
    BY <2>1, <2>2, <2>3, <2>4, LocalStep
<1>10. CASE InterruptPublication(p)
  <2>1. Into(p) \in Directories /\ lock[Into(p)] = p /\ LocalInv(p)
    BY <1>2, <1>10 DEF InterruptPublication, PubAt, Working, Between
  <2>2. ASSUME Move(p, "failed") PROVE DirectoriesInv' /\ LocalChange(p) /\ publication'[p].bundle = publication[p].bundle
    <3>1. /\ DOMAIN publication' = Publishers
          /\ \A q \in Publishers \ {p} : publication'[q] = publication[q]
          /\ publication'[p] = [at |-> "failed", into |-> Into(p),
                                bundle |-> publication[p].bundle, moved |-> Moved(p)]
      BY <1>t, <2>2, MoveFacts
    <3>2. LocalChange(p)
      BY <1>10, <1>t, <2>1, <3>1 DEF InterruptPublication, Abandon, Keep, Unlock, LocalChange, Into, DirectoriesAreTyped
    <3>3. LocalInv(p)'
      BY <1>10, <1>t, <2>1, <2>2, <3>1, DirectoryConstants
         DEF InterruptPublication, Abandon, Keep, Unlock, LocalInv, IsCopy, Whole, Parts,
             DirectoriesAreTyped, PubAt, Into, Moved, Working, Between, Holding
    <3> QED
      BY <2>1, <3>1, <3>2, <3>3, LocalStep
  <2> QED
    BY <1>10, <2>2 DEF InterruptPublication
<1>11. CASE CrashPublication(p)
  <2>1. Into(p) \in Directories /\ lock[Into(p)] = p /\ LocalInv(p)
    BY <1>2, <1>11 DEF CrashPublication, PubAt, Working, Between
  <2>2. ASSUME Move(p, "crashed") PROVE DirectoriesInv' /\ LocalChange(p) /\ publication'[p].bundle = publication[p].bundle
    <3>1. /\ DOMAIN publication' = Publishers
          /\ \A q \in Publishers \ {p} : publication'[q] = publication[q]
          /\ publication'[p] = [at |-> "crashed", into |-> Into(p),
                                bundle |-> publication[p].bundle, moved |-> Moved(p)]
      BY <1>t, <2>2, MoveFacts
    <3>2. LocalChange(p)
      BY <1>11, <1>t, <2>1, <3>1 DEF CrashPublication, Abandon, Keep, LocalChange, Into, DirectoriesAreTyped
    <3>3. LocalInv(p)'
      BY <1>11, <1>t, <2>1, <2>2, <3>1, DirectoryConstants
         DEF CrashPublication, Abandon, Keep, LocalInv, IsCopy, Whole, Parts,
             DirectoriesAreTyped, PubAt, Into, Moved, Working, Between, Holding
    <3> QED
      BY <2>1, <3>1, <3>2, <3>3, LocalStep
  <2> QED
    BY <1>11, <2>2 DEF CrashPublication
<1> QED
  BY <1>1, <1>3, <1>4, <1>5, <1>6, <1>7, <1>8, <1>9, <1>10, <1>11 DEF Publish

-----------------------------------------------------------------------------
(* Every step keeps the invariant of the directories.                       *)

\* A publication that is over holds no lock.
LEMMA OverIsUnlocked ==
  ASSUME TrainingInv, NEW t \in Publishers,
         NotPublished(t) \/ Published(t) \/ PubAt(t, "crashed") \/ ~Locked(t)
  PROVE  \A d \in Directories : lock[d] # t
BY DirectoryConstants
   DEF TrainingInv, DirectoriesInv, LockIsHeld, NotPublished, Published, PubAt, Locked, Holding,
       Working, Between

LEMMA DirectoriesStepKeeps ==
  ASSUME TrainingInv, Next
  PROVE  DirectoriesInv'
<1>u. ASSUME UNCHANGED <<target, lock, backups, publication, validated>> PROVE DirectoriesInv'
  BY <1>u DEF TrainingInv, DirectoriesInv, DirectoriesAreTyped, LockIsHeld, CandidateIsOwn,
     LastBundleIsKept, Working, Between, Holding, Into, Moved, PubAt, Locked
\* A notebook that ends, or stages a bundle, holds no lock.
<1>s. ASSUME NEW t \in Publishers, \A d \in Directories : lock[d] # t,
             UNCHANGED <<target, lock, backups, validated>>,
             \/ publication' = [publication EXCEPT ![t] = Idle]
             \/ \E d \in Directories : \E b : Stage(t, d, b)
      PROVE  DirectoriesInv'
  <2>1. DOMAIN publication = Publishers
    BY DEF TrainingInv, DirectoriesInv, DirectoriesAreTyped
  <2>2. CASE publication' = [publication EXCEPT ![t] = Idle]
    BY <1>s, <2>1, <2>2, LocklessStep DEF TrainingInv, Idle, Into, Moved, IsCopy
  <2>3. CASE \E d \in Directories : \E b : Stage(t, d, b)
    <3>d. PICK d \in Directories : \E b : Stage(t, d, b)
      BY <2>3
    <3>1. PICK b : Stage(t, d, b)
      BY <3>d
    <3>2. /\ publication'[t] = [at |-> "staged", into |-> d, bundle |-> b, moved |-> Nobody]
          /\ DOMAIN publication' = Publishers
          /\ \A q \in Publishers \ {t} : publication'[q] = publication[q]
      BY <2>1, <3>1 DEF Stage
    <3>3. /\ publication'[t].at = "staged" /\ Into(t)' = d /\ Moved(t)' = Nobody
          /\ publication'[t] = [at |-> publication'[t].at, into |-> Into(t)',
                                bundle |-> publication'[t].bundle, moved |-> Moved(t)']
          /\ IsCopy(Moved(t)')
      BY <3>2 DEF Into, Moved, IsCopy
    <3> QED
      BY <1>s, <3>2, <3>3, LocklessStep DEF TrainingInv
  <2> QED
    BY <1>s, <2>2, <2>3
<1>1. CASE Review
  BY <1>1, <1>u DEF Review, directoryVars
<1>2. CASE \E d \in Directories : DeleteLock(d)
  <2>1. PICK d \in Directories : DeleteLock(d)
    BY <1>2
  <2>2. /\ DOMAIN lock' = Directories /\ lock'[d] = Nobody
        /\ \A e \in Directories \ {d} : lock'[e] = lock[e]
        /\ \A p \in Publishers : (Locked(p)' <=> Locked(p)) /\ lock'[d] # p
    BY <2>1, DirectoryConstants
       DEF DeleteLock, TrainingInv, DirectoriesInv, DirectoriesAreTyped, Locked, Into
  <2> QED
    BY <2>1, <2>2
       DEF DeleteLock, TrainingInv, DirectoriesInv, DirectoriesAreTyped, LockIsHeld, CandidateIsOwn,
           LastBundleIsKept, Working, Between, Holding, Into, Moved, PubAt
<1> SUFFICES ASSUME NEW t \in Publishers,
                    \/ \E config \in Configs : Begin(t, config)
                    \/ Resolve(t) \/ WriteZip(t) \/ WritePointer(t) \/ Partition(t)
                    \/ StartRun(t) \/ Select(t) \/ Evaluate(t) \/ PublishStep(t)
                    \/ Finalize(t) \/ FinalizeFailed(t) \/ CopyToDrive(t) \/ CopyDone(t)
                    \/ Crash(t)
             PROVE  DirectoriesInv'
  BY <1>1, <1>2 DEF Next
<1>3. CASE \/ \E config \in Configs : Begin(t, config)
           \/ Resolve(t) \/ WriteZip(t) \/ WritePointer(t) \/ Partition(t)
           \/ StartRun(t) \/ Select(t) \/ Finalize(t)
  BY <1>3, <1>u DEF Begin, Resolve, WriteZip, WritePointer, Partition, StartRun, Select, Finalize,
     DirectoriesStay
<1>4. CASE Evaluate(t)
  <2>1. \A d \in Directories : lock[d] # t
    BY <1>4 DEF Evaluate, At, Nb, TrainingInv, PublicationsAreOwn, PublicationIsOwn
  <2>2. CASE DirectoriesStay
    BY <2>2, <1>u DEF DirectoriesStay
  <2>3. CASE ~DirectoriesStay
    BY <1>4, <2>1, <2>3, <1>s, TrainingConstants DEF Evaluate
  <2> QED
    BY <2>2, <2>3
<1>5. CASE PublishStep(t)
  BY <1>5, PublishStepKeeps DEF PublishStep, TrainingInv
<1>7. CASE FinalizeFailed(t) \/ CopyDone(t) \/ Crash(t)
  BY <1>7, <1>s, OverIsUnlocked DEF FinalizeFailed, CopyDone, Crash, StopPublishing
<1>8. CASE CopyToDrive(t)
  <2>1. \A d \in Directories : lock[d] # t
    BY <1>8 DEF CopyToDrive, At, Nb, TrainingInv, PublicationsAreOwn, PublicationIsOwn
  <2> QED
    BY <1>8, <2>1, <1>s, TrainingConstants DEF CopyToDrive, StopPublishing
<1> QED
  BY <1>3, <1>4, <1>5, <1>7, <1>8

-----------------------------------------------------------------------------
(* What the other parts need of a step of a publication.                    *)

LEMMA PublishStepWrites ==
  ASSUME DirectoriesInv, NEW p \in Publishers, Publish(p)
  PROVE  LET d == Into(p)  own == Whole(publication[p].bundle) IN
         /\ target'[d] \in {target[d], Nobody, own, Parts(own), Moved(p)}
         /\ Moved(p)' \in {Moved(p), target[d]}
         /\ backups'[d] \subseteq backups[d] \cup
               IF Moved(p) = Nobody THEN {} ELSE {Moved(p), Parts(Moved(p))}
         /\ lock'[d] \in {lock[d], p, Nobody, "left"}
         /\ PubAt(p, "published")' =>
               target'[d] = target[d] /\ (PubAt(p, "valid") \/ PubAt(p, "published"))
<1> DEFINE d == Into(p)
<1> DEFINE own == Whole(publication[p].bundle)
           Writes == /\ target'[d] \in {target[d], Nobody, own, Parts(own), Moved(p)}
                     /\ Moved(p)' \in {Moved(p), target[d]}
                     /\ backups'[d] \subseteq backups[d] \cup
                           IF Moved(p) = Nobody THEN {} ELSE {Moved(p), Parts(Moved(p))}
                     /\ lock'[d] \in {lock[d], p, Nobody, "left"}
                     /\ PubAt(p, "published")' =>
                           target'[d] = target[d] /\ (PubAt(p, "valid") \/ PubAt(p, "published"))
<1>t. DirectoriesAreTyped
  BY DEF DirectoriesInv
<1>d. d \in Directories
  BY <1>t DEF DirectoriesAreTyped, Publish, TakeLock, MoveOld, Install, Validate, RemoveCandidate,
     Restore, DropBackup, ReleaseLock, InterruptPublication, CrashPublication, Locked, PubAt, Into,
     DirectoriesInv, LockIsHeld, Working, Between
<1>m. ASSUME NEW point, Move(p, point)
      PROVE  publication'[p].at = point /\ publication'[p].moved = publication[p].moved
  <2>1. publication'[p] = [at |-> point, into |-> Into(p),
                           bundle |-> publication[p].bundle, moved |-> Moved(p)]
    BY <1>t, <1>m, MoveFacts
  <2> QED
    BY <2>1 DEF Moved
<1>k. ASSUME NEW copy, Keep(d, copy)
      PROVE  backups'[d] \subseteq backups[d] \cup IF copy = Nobody THEN {} ELSE {copy}
  <2>1. DOMAIN backups = Directories
    BY <1>t DEF DirectoriesAreTyped
  <2>2. CASE copy = Nobody
    BY <1>k, <2>2 DEF Keep
  <2>3. CASE copy # Nobody
    <3>1. backups' = [backups EXCEPT ![d] = backups[d] \cup {copy}]
      BY <1>k, <2>3 DEF Keep
    <3> QED
      BY <1>d, <2>1, <2>3, <3>1
  <2> QED
    BY <2>2, <2>3
<1>b. ASSUME NEW copy, Becomes(d, copy) PROVE target'[d] = copy
  BY <1>t, <1>d, <1>b DEF Becomes, DirectoriesAreTyped
<1>l. ASSUME NEW owner, lock' = [lock EXCEPT ![d] = owner] PROVE lock'[d] = owner
  BY <1>t, <1>d, <1>l DEF DirectoriesAreTyped
<1>u. ASSUME Unlock(d, p) PROVE lock'[d] \in {lock[d], Nobody}
  BY <1>t, <1>d, <1>u DEF DirectoriesAreTyped, Unlock
<1>1. CASE TakeLock(p)
  <2>1. lock'[d] \in {lock[d], p}
    BY <1>1, <1>l DEF TakeLock
  <2> QED
    BY <1>1, <1>m, <2>1 DEF TakeLock, Moved, PubAt
<1>2. CASE MoveOld(p)
  <2>1. CASE Move(p, "failed") /\ UNCHANGED target
    BY <1>2, <2>1, <1>m DEF MoveOld, Moved, PubAt
  <2>2. CASE /\ publication' = [publication EXCEPT ![p].at = "moved", ![p].moved = target[Into(p)]]
             /\ Becomes(Into(p), Nobody)
    <3>1. DOMAIN publication = Publishers /\ DOMAIN publication[p] = {"at", "into", "bundle", "moved"}
      BY <1>t DEF DirectoriesAreTyped
    <3>2. publication'[p].at = "moved" /\ publication'[p].moved = target[d]
      BY <2>2, <3>1
    <3>3. target'[d] = Nobody
      BY <2>2, <1>b
    <3> QED
      BY <1>2, <3>2, <3>3 DEF MoveOld, Moved, PubAt
  <2> QED
    BY <1>2, <2>1, <2>2 DEF MoveOld
<1>3. CASE Install(p)
  BY <1>3, <1>m, <1>b DEF Install, Moved, PubAt
<1>4. CASE Validate(p)
  BY <1>4, <1>m DEF Validate, Moved, PubAt
<1>5. CASE RemoveCandidate(p)
  <2>1. target[d] \in {own, Parts(own)} /\ Parts(Parts(own)) = Parts(own)
    BY <1>5 DEF RemoveCandidate, DirectoriesInv, CandidateIsOwn, Whole, Parts
  <2> QED
    BY <1>5, <1>m, <1>b, <1>k, <2>1 DEF RemoveCandidate, Moved, PubAt
<1>6. CASE Restore(p)
  BY <1>6, <1>m, <1>b, <1>k DEF Restore, Moved, PubAt
<1>7. CASE DropBackup(p)
  <2>1. CASE UNCHANGED backups
    BY <1>7, <2>1, <1>m DEF DropBackup, Moved, PubAt
  <2>2. CASE Moved(p) # Nobody /\ Keep(d, Parts(Moved(p)))
    BY <1>7, <2>2, <1>m, <1>k DEF DropBackup, Moved, PubAt
  <2> QED
    BY <1>7, <2>1, <2>2 DEF DropBackup
<1>8. CASE ReleaseLock(p)
  BY <1>8, <1>u, <1>l DEF ReleaseLock, Moved, PubAt
<1>9. CASE InterruptPublication(p)
  BY <1>9, <1>m, <1>k, <1>u DEF InterruptPublication, Abandon, Moved, PubAt
<1>10. CASE CrashPublication(p)
  BY <1>10, <1>m, <1>k, <1>l DEF CrashPublication, Abandon, Moved, PubAt
<1> QED
  BY <1>1, <1>2, <1>3, <1>4, <1>5, <1>6, <1>7, <1>8, <1>9, <1>10 DEF Publish

-----------------------------------------------------------------------------
(* Sequences and records that a step writes to.                             *)

LEMMA AppendKeeps ==
  ASSUME NEW s, IsSequence(s), NEW e
  PROVE  /\ Len(s) \in Nat /\ DOMAIN s = 1 .. Len(s)
         /\ IsSequence(Append(s, e))
         /\ Len(Append(s, e)) = Len(s) + 1
         /\ DOMAIN Append(s, e) = 1 .. Len(s) + 1
         /\ \A i \in DOMAIN s : Append(s, e)[i] = s[i]
         /\ Append(s, e)[Len(s) + 1] = e
<1> DEFINE S == {s[i] : i \in DOMAIN s}
           a == Append(s, e)
<1>1. s \in Seq(S) /\ s \in Seq(S \cup {e})
  BY DEF IsSequence
<1>2. /\ Len(s) \in Nat /\ DOMAIN s = 1 .. Len(s)
      /\ a \in Seq(S \cup {e}) /\ Len(a) = Len(s) + 1 /\ DOMAIN a = 1 .. Len(s) + 1
      /\ \A i \in 1 .. Len(s) : a[i] = s[i]
      /\ a[Len(s) + 1] = e
  <2> HIDE DEF S
  <2> QED
    BY <1>1
<1>3. a \in [1 .. Len(s) + 1 -> {a[i] : i \in DOMAIN a}]
  <2>1. a \in [1 .. Len(s) + 1 -> S \cup {e}]
    <3> HIDE DEF S, a
    <3> QED
      BY <1>2
  <2> HIDE DEF a
  <2> QED
    BY <1>2, <2>1
<1>4. a \in Seq({a[i] : i \in DOMAIN a})
  BY <1>2, <1>3
<1> QED
  BY <1>2, <1>4 DEF IsSequence

LEMMA RewriteKeeps ==
  ASSUME NEW s, IsSequence(s), NEW f, f = [i \in DOMAIN s |-> f[i]]
  PROVE  IsSequence(f) /\ DOMAIN f = DOMAIN s /\ Len(f) = Len(s)
<1>1. Len(s) \in Nat /\ DOMAIN s = 1 .. Len(s)
  BY AppendKeeps
<1>2. f \in [1 .. Len(s) -> {f[i] : i \in DOMAIN f}] /\ DOMAIN f = 1 .. Len(s)
  BY <1>1
<1>3. f \in Seq({f[i] : i \in DOMAIN f}) /\ Len(f) = Len(s)
  BY <1>1, <1>2
<1> QED
  BY <1>1, <1>2, <1>3 DEF IsSequence

\* A step of t that changes, of the notebooks and runs, its own only; it is at one of
\* the points of the definition of RunsAreOwn that its run allows, and what has
\* succeeded stays so.
KeepsToItsRun(t) ==
    /\ DOMAIN notebook' = Publishers
    /\ \A u \in Publishers \ {t} : notebook'[u] = notebook[u]
    /\ DOMAIN notebook'[t] = {"at", "config", "reviews", "run", "next", "holdout", "audited"}
    /\ ~At(t, "closed")
    /\ At(t, "closed")' \/ Nb(t)'.run = Nb(t).run
    /\ IsSequence(runs') /\ DOMAIN runs' = DOMAIN runs
    /\ \A r \in DOMAIN runs :
        /\ DOMAIN runs'[r] = {"status", "train", "holdout"}
        /\ r # Nb(t).run => runs'[r] = runs[r]
    /\ Nb(t)'.at \notin {"closed", "closing", "copy"} =>
          runs'[Nb(t).run].status # "succeeded"
    /\ At(t, "closing")' /\ Nb(t)'.audited => runs'[Nb(t).run].status = "succeeded"
    /\ runs[Nb(t).run].status = "succeeded" => runs'[Nb(t).run].status = "succeeded"

\* Every cell but the first keeps to its run.
LEMMA CellsKeepToTheirRuns ==
  ASSUME TrainingInv, NEW t \in Publishers,
         \/ Resolve(t) \/ WriteZip(t) \/ WritePointer(t) \/ Partition(t)
         \/ StartRun(t) \/ Select(t) \/ Evaluate(t)
         \/ Finalize(t) \/ FinalizeFailed(t) \/ CopyToDrive(t) \/ CopyDone(t) \/ Crash(t)
  PROVE  KeepsToItsRun(t)
<1>t. /\ DOMAIN notebook = Publishers
      /\ DOMAIN notebook[t] = {"at", "config", "reviews", "run", "next", "holdout", "audited"}
      /\ IsSequence(runs)
      /\ \A r \in DOMAIN runs : DOMAIN runs[r] = {"status", "train", "holdout"}
      /\ Nb(t).at # "closed" => Nb(t).run \in DOMAIN runs
      /\ Nb(t).at \notin {"closed", "closing", "copy"} => runs[Nb(t).run].status # "succeeded"
  BY DEF TrainingInv, NotebooksAreTyped, RunsAreOwn, Nb, At
\* The steps that leave the runs alone.
<1>r. ASSUME UNCHANGED runs, ~At(t, "closed"),
             DOMAIN notebook' = Publishers,
             \A u \in Publishers \ {t} : notebook'[u] = notebook[u],
             DOMAIN notebook'[t] = {"at", "config", "reviews", "run", "next", "holdout", "audited"},
             \/ At(t, "closed")'
             \/ /\ Nb(t)'.run = Nb(t).run
                /\ Nb(t)'.at \notin {"closed", "closing", "copy"}
                /\ Nb(t).at \notin {"closed", "closing", "copy"}
             \/ Nb(t)'.run = Nb(t).run /\ At(t, "copy")'
      PROVE  KeepsToItsRun(t)
  BY <1>t, <1>r DEF KeepsToItsRun, At, Nb
<1>c. ASSUME UNCHANGED runs, ~At(t, "closed"), Stop(t) PROVE KeepsToItsRun(t)
  <2>1. DOMAIN Closed = {"at", "config", "reviews", "run", "next", "holdout", "audited"}
        /\ Closed.at = "closed"
    BY DEF Closed
  <2> QED
    BY <1>r, <1>c, <1>t, <2>1 DEF Stop, At
\* A step that writes a status, and goes on or ends.
<1>w. ASSUME NEW status, Status(t, status), Nb(t).at \notin {"closed", "closing", "copy"},
             DOMAIN notebook' = Publishers,
             \A u \in Publishers \ {t} : notebook'[u] = notebook[u],
             DOMAIN notebook'[t] = {"at", "config", "reviews", "run", "next", "holdout", "audited"},
             \/ At(t, "closed")'
             \/ /\ Nb(t)'.run = Nb(t).run
                /\ \/ At(t, "closing")' /\ status = "succeeded"
                   \/ Nb(t)'.at \notin {"closed", "closing", "copy"} /\ status # "succeeded"
      PROVE  KeepsToItsRun(t)
  <2>1. runs' = [runs EXCEPT ![Nb(t).run].status = status]
    BY <1>w DEF Status
  <2>2. runs' = [r \in DOMAIN runs |-> runs'[r]]
    BY <2>1
  <2>3. IsSequence(runs') /\ DOMAIN runs' = DOMAIN runs
    BY <1>t, <2>2, RewriteKeeps
  <2>4. /\ \A r \in DOMAIN runs : DOMAIN runs'[r] = {"status", "train", "holdout"}
        /\ \A r \in DOMAIN runs : r # Nb(t).run => runs'[r] = runs[r]
        /\ runs'[Nb(t).run].status = status
    BY <1>t, <1>w, <2>1
  <2> QED
    BY <1>t, <1>w, <2>3, <2>4 DEF KeepsToItsRun, At, Nb
<1>k. ASSUME NEW status, Status(t, status), status # "succeeded", Stop(t),
             Nb(t).at \notin {"closed", "closing", "copy"}
      PROVE  KeepsToItsRun(t)
  <2>1. DOMAIN Closed = {"at", "config", "reviews", "run", "next", "holdout", "audited"}
        /\ Closed.at = "closed"
    BY DEF Closed
  <2> QED
    BY <1>w, <1>k, <1>t, <2>1 DEF Stop, At, Nb
<1>g. ASSUME NEW point, Go(t, point)
      PROVE  /\ DOMAIN notebook' = Publishers
             /\ \A u \in Publishers \ {t} : notebook'[u] = notebook[u]
             /\ DOMAIN notebook'[t] = {"at", "config", "reviews", "run", "next", "holdout", "audited"}
             /\ Nb(t)'.run = Nb(t).run /\ Nb(t)'.at = point
  BY <1>g, <1>t DEF Go, Nb
<1>1. CASE Resolve(t)
  <2>1. CASE Stop(t)
    BY <1>1, <1>c, <2>1 DEF Resolve, At
  <2>2. CASE notebook' = [notebook EXCEPT ![t].at = "partition", ![t].holdout = pointer]
    BY <1>1, <1>r, <1>t, <2>2 DEF Resolve, At, Nb
  <2>3. CASE \E r : notebook' = [notebook EXCEPT ![t].at = "zip", ![t].next = r]
    BY <1>1, <1>r, <1>t, <2>3 DEF Resolve, At, Nb
  <2> QED
    BY <1>1, <2>1, <2>2, <2>3 DEF Resolve
<1>2. CASE WriteZip(t)
  BY <1>2, <1>r, <1>t DEF WriteZip, At, Nb
<1>3. CASE WritePointer(t)
  BY <1>3, <1>r, <1>g DEF WritePointer, At, Nb
<1>4. CASE Partition(t)
  <2>1. CASE Stop(t) /\ UNCHANGED runs
    BY <1>4, <1>c, <2>1 DEF Partition, At
  <2>2. CASE /\ Go(t, "start")
             /\ \E train : runs' = [runs EXCEPT ![Nb(t).run].train = train,
                                               ![Nb(t).run].holdout = Nb(t).holdout]
    <3>1. PICK train : runs' = [runs EXCEPT ![Nb(t).run].train = train,
                                            ![Nb(t).run].holdout = Nb(t).holdout]
      BY <2>2
    <3>2. runs' = [r \in DOMAIN runs |-> runs'[r]]
      BY <3>1
    <3>3. IsSequence(runs') /\ DOMAIN runs' = DOMAIN runs
      BY <1>t, <3>2, RewriteKeeps
    <3>4. /\ \A r \in DOMAIN runs : DOMAIN runs'[r] = {"status", "train", "holdout"}
          /\ \A r \in DOMAIN runs : r # Nb(t).run => runs'[r] = runs[r]
          /\ Nb(t).run \in DOMAIN runs => runs'[Nb(t).run].status = runs[Nb(t).run].status
      BY <1>t, <3>1
    <3>5. At(t, "partition")
      BY <1>4 DEF Partition
    <3>6. /\ DOMAIN notebook' = Publishers
          /\ \A u \in Publishers \ {t} : notebook'[u] = notebook[u]
          /\ DOMAIN notebook'[t] = {"at", "config", "reviews", "run", "next", "holdout", "audited"}
          /\ Nb(t)'.run = Nb(t).run /\ Nb(t)'.at = "start"
      BY <1>g, <2>2
    <3> QED
      BY <1>t, <3>3, <3>4, <3>5, <3>6 DEF KeepsToItsRun, At, Nb
  <2> QED
    BY <1>4, <2>1, <2>2 DEF Partition
<1>5. CASE StartRun(t)
  <2>1. Nb(t).at \notin {"closed", "closing", "copy"}
    BY <1>5 DEF StartRun, At, Nb
  <2> QED
    BY <1>5, <1>c, <1>k, <1>w, <1>g, <2>1 DEF StartRun, At, Nb
<1>6. CASE Select(t)
  <2>1. Nb(t).at \notin {"closed", "closing", "copy"}
    BY <1>6 DEF Select, At, Nb
  <2> QED
    BY <1>6, <1>r, <1>k, <1>g, <2>1 DEF Select, At, Nb
<1>7. CASE Evaluate(t)
  BY <1>7, <1>r, <1>c, <1>g DEF Evaluate, At, Nb
<1>8. CASE Finalize(t)
  <2>1. Nb(t).at \notin {"closed", "closing", "copy"}
    BY <1>8 DEF Finalize, At, Nb
  <2>2. PICK audited \in BOOLEAN :
            /\ notebook' = [notebook EXCEPT ![t].at = "closing", ![t].audited = audited]
            /\ audited => Status(t, "succeeded")
            /\ Status(t, "succeeded") \/ UNCHANGED runs
    BY <1>8 DEF Finalize
  <2>3. /\ DOMAIN notebook' = Publishers
        /\ \A u \in Publishers \ {t} : notebook'[u] = notebook[u]
        /\ DOMAIN notebook'[t] = {"at", "config", "reviews", "run", "next", "holdout", "audited"}
        /\ Nb(t)'.run = Nb(t).run /\ Nb(t)'.at = "closing" /\ Nb(t)'.audited = audited
    BY <1>t, <2>2 DEF Nb
  <2>4. CASE Status(t, "succeeded")
    BY <1>w, <2>1, <2>3, <2>4 DEF At, Nb
  <2>5. CASE ~audited /\ UNCHANGED runs
    BY <1>t, <2>1, <2>3, <2>5 DEF KeepsToItsRun, At, Nb
  <2> QED
    BY <2>2, <2>4, <2>5
<1>9. CASE FinalizeFailed(t)
  BY <1>9, <1>k DEF FinalizeFailed, StopPublishing, At, Nb
<1>10. CASE CopyToDrive(t)
  BY <1>10, <1>r, <1>c, <1>g DEF CopyToDrive, StopPublishing, At, Nb
<1>11. CASE CopyDone(t) \/ Crash(t)
  BY <1>11, <1>c DEF CopyDone, Crash, StopPublishing, At
<1> QED
  BY <1>1, <1>2, <1>3, <1>4, <1>5, <1>6, <1>7, <1>8, <1>9, <1>10, <1>11

\* The first cell adds a run.
LEMMA BeginFacts ==
  ASSUME TrainingInv, NEW t \in Publishers, NEW config \in Configs, Begin(t, config)
  PROVE  /\ DOMAIN notebook' = Publishers
         /\ \A u \in Publishers \ {t} : notebook'[u] = notebook[u]
         /\ DOMAIN notebook'[t] = {"at", "config", "reviews", "run", "next", "holdout", "audited"}
         /\ Nb(t)'.at = IF config.frozen THEN "resolve" ELSE "partition"
         /\ Nb(t)'.run = Len(runs) + 1 /\ Nb(t)'.holdout = 0 /\ Nb(t)'.config = config
         /\ IsSequence(runs') /\ Len(runs) \in Nat
         /\ DOMAIN runs = 1 .. Len(runs) /\ DOMAIN runs' = 1 .. Len(runs) + 1
         /\ \A r \in DOMAIN runs : runs'[r] = runs[r]
         /\ DOMAIN runs'[Len(runs) + 1] = {"status", "train", "holdout"}
         /\ runs'[Len(runs) + 1].status = "none" /\ runs'[Len(runs) + 1].holdout = 0
<1>1. DOMAIN notebook = Publishers /\ IsSequence(runs)
  BY DEF TrainingInv, NotebooksAreTyped
<1>2. runs' = Append(runs, [status |-> "none", train |-> {}, holdout |-> 0])
  BY DEF Begin
<1>3. /\ IsSequence(runs') /\ Len(runs) \in Nat
      /\ DOMAIN runs = 1 .. Len(runs) /\ DOMAIN runs' = 1 .. Len(runs) + 1
      /\ \A r \in DOMAIN runs : runs'[r] = runs[r]
      /\ runs'[Len(runs) + 1] = [status |-> "none", train |-> {}, holdout |-> 0]
  BY <1>1, <1>2, AppendKeeps
<1> DEFINE point == IF config.frozen THEN "resolve" ELSE "partition"
           b == [Closed EXCEPT !.at = point, !.config = config, !.reviews = reviews,
                               !.run = Len(runs) + 1]
<1>4. /\ DOMAIN b = {"at", "config", "reviews", "run", "next", "holdout", "audited"}
      /\ b.at = point /\ b.config = config /\ b.run = Len(runs) + 1 /\ b.holdout = 0
  <2> HIDE DEF point
  <2> QED
    BY DEF Closed
<1>5. notebook' = [notebook EXCEPT ![t] = b]
  BY DEF Begin
<1> HIDE DEF b
<1> QED
  BY <1>1, <1>3, <1>4, <1>5 DEF Nb

LEMMA RunsStepKeeps ==
  ASSUME TrainingInv, Next
  PROVE  RunsAreOwn' /\ \A bundle : Succeeded(bundle) => Succeeded(bundle)'
<1>1. CASE UNCHANGED <<runs, notebook>>
  BY <1>1 DEF TrainingInv, RunsAreOwn, Succeeded, At, Nb
<1>2. ASSUME NEW t \in Publishers, NEW config \in Configs, Begin(t, config)
      PROVE  RunsAreOwn' /\ \A bundle : Succeeded(bundle) => Succeeded(bundle)'
  <2>1. Len(runs) + 1 \notin DOMAIN runs
    BY <1>2, BeginFacts
  <2>2. \A bundle : Succeeded(bundle) => Succeeded(bundle)'
    BY <1>2, BeginFacts DEF Succeeded
  <2>3. RunsAreOwn'
    <3>1. \A u \in Publishers : ~At(u, "closed")' => Nb(u).run' \in DOMAIN runs'
      BY <1>2, BeginFacts DEF TrainingInv, RunsAreOwn, At, Nb
    <3>2. \A u, v \in Publishers :
            ~At(u, "closed")' /\ ~At(v, "closed")' /\ Nb(u)'.run = Nb(v)'.run => u = v
      BY <1>2, <2>1, BeginFacts DEF TrainingInv, RunsAreOwn, At, Nb
    <3>3. \A u \in Publishers :
            /\ Nb(u)'.at \notin {"closed", "closing", "copy"} =>
                  runs'[Nb(u)'.run].status # "succeeded"
            /\ At(u, "closing")' /\ Nb(u)'.audited => runs'[Nb(u)'.run].status = "succeeded"
      <4>1. ASSUME NEW u \in Publishers \ {t}, Nb(u)'.at # "closed"
            PROVE  runs'[Nb(u)'.run] = runs[Nb(u).run] /\ notebook'[u] = notebook[u]
        BY <1>2, <4>1, BeginFacts DEF TrainingInv, RunsAreOwn, At, Nb
      <4>2. /\ runs'[Nb(t)'.run].status # "succeeded" /\ ~At(t, "closing")'
        BY <1>2, BeginFacts DEF At, Nb
      <4> QED
        BY <4>1, <4>2 DEF TrainingInv, RunsAreOwn, At, Nb
    <3> QED
      BY <3>1, <3>2, <3>3 DEF RunsAreOwn
  <2> QED
    BY <2>2, <2>3
<1>3. ASSUME NEW t \in Publishers, KeepsToItsRun(t)
      PROVE  RunsAreOwn' /\ \A bundle : Succeeded(bundle) => Succeeded(bundle)'
  <2>1. \A bundle : Succeeded(bundle) => Succeeded(bundle)'
    BY <1>3 DEF KeepsToItsRun, Succeeded
  <2>2. \A u \in Publishers : ~At(u, "closed")' => ~At(u, "closed") /\ Nb(u)'.run = Nb(u).run
    BY <1>3 DEF KeepsToItsRun, At, Nb
  <2>3. ASSUME NEW u \in Publishers \ {t}, ~At(u, "closed")'
        PROVE  runs'[Nb(u)'.run] = runs[Nb(u).run] /\ notebook'[u] = notebook[u]
    BY <1>3, <2>2, <2>3 DEF TrainingInv, RunsAreOwn, KeepsToItsRun
  <2>4. \A u \in Publishers :
            /\ Nb(u)'.at \notin {"closed", "closing", "copy"} =>
                  runs'[Nb(u)'.run].status # "succeeded"
            /\ At(u, "closing")' /\ Nb(u)'.audited => runs'[Nb(u)'.run].status = "succeeded"
    <3>1. ASSUME NEW u \in Publishers \ {t}
          PROVE  /\ Nb(u)'.at \notin {"closed", "closing", "copy"} =>
                       runs'[Nb(u)'.run].status # "succeeded"
                 /\ At(u, "closing")' /\ Nb(u)'.audited => runs'[Nb(u)'.run].status = "succeeded"
      BY <2>3 DEF TrainingInv, RunsAreOwn, At, Nb
    <3>2. /\ Nb(t)'.at \notin {"closed", "closing", "copy"} =>
                 runs'[Nb(t)'.run].status # "succeeded"
          /\ At(t, "closing")' /\ Nb(t)'.audited => runs'[Nb(t)'.run].status = "succeeded"
      BY <1>3 DEF KeepsToItsRun, At, Nb
    <3> QED
      BY <3>1, <3>2
  <2>5. /\ \A u \in Publishers : ~At(u, "closed")' => Nb(u)'.run \in DOMAIN runs'
        /\ \A u, v \in Publishers :
              ~At(u, "closed")' /\ ~At(v, "closed")' /\ Nb(u)'.run = Nb(v)'.run => u = v
    BY <1>3, <2>2 DEF TrainingInv, RunsAreOwn, KeepsToItsRun
  <2> QED
    BY <2>1, <2>4, <2>5 DEF RunsAreOwn
<1> QED
  BY <1>1, <1>2, <1>3, CellsKeepToTheirRuns DEF Next, Review, DeleteLock, PublishStep

LEMMA TypesStepKeeps ==
  ASSUME TrainingInv, Next
  PROVE  NotebooksAreTyped'
<1> DEFINE Fields == {"at", "config", "reviews", "run", "next", "holdout", "audited"}
<1>1. /\ IsSequence(runs') /\ \A r \in DOMAIN runs' : DOMAIN runs'[r] = {"status", "train", "holdout"}
      /\ DOMAIN notebook' = Publishers /\ \A t \in Publishers : DOMAIN notebook'[t] = Fields
  <2>1. CASE UNCHANGED <<runs, notebook>>
    BY <2>1 DEF TrainingInv, NotebooksAreTyped, Nb
  <2>2. ASSUME NEW t \in Publishers, NEW config \in Configs, Begin(t, config) PROVE <1>1
    <3>1. \A r \in DOMAIN runs' : DOMAIN runs'[r] = {"status", "train", "holdout"}
      <4>1. \A r \in DOMAIN runs' : r \in DOMAIN runs \/ r = Len(runs) + 1
        BY <2>2, BeginFacts
      <4> QED
        BY <2>2, <4>1, BeginFacts DEF TrainingInv, NotebooksAreTyped
    <3>2. \A u \in Publishers : DOMAIN notebook'[u] = Fields
      BY <2>2, BeginFacts DEF TrainingInv, NotebooksAreTyped, Nb
    <3> QED
      BY <2>2, <3>1, <3>2, BeginFacts
  <2>3. ASSUME NEW t \in Publishers, KeepsToItsRun(t) PROVE <1>1
    BY <2>3 DEF TrainingInv, NotebooksAreTyped, KeepsToItsRun, Nb
  <2> HIDE DEF Fields
  <2> QED
    BY <2>1, <2>2, <2>3, CellsKeepToTheirRuns DEF Next, Review, DeleteLock, PublishStep
<1>2. IsSequence(snapshots') /\ pointer' \in 0 .. Len(snapshots')
  <2>1. IsSequence(snapshots) /\ pointer \in 0 .. Len(snapshots)
        /\ Len(snapshots) \in Nat /\ DOMAIN snapshots = 1 .. Len(snapshots)
    BY AppendKeeps DEF TrainingInv, NotebooksAreTyped
  <2>2. CASE UNCHANGED <<snapshots, pointer>>
    BY <2>1, <2>2
  <2>3. ASSUME NEW t \in Publishers, WriteZip(t) PROVE <1>2
    BY <2>1, <2>3, AppendKeeps DEF WriteZip
  <2>4. ASSUME NEW t \in Publishers, WritePointer(t) PROVE <1>2
    BY <2>1, <2>4 DEF WritePointer, TrainingInv, HoldoutsAreKept, HoldoutIsKept, At, Nb
  <2> QED
    BY <2>2, <2>3, <2>4 DEF Next, Review, DeleteLock, PublishStep, StoreStays, Begin, Resolve,
       Partition, StartRun, Select, Evaluate, Finalize, FinalizeFailed, CopyToDrive, CopyDone, Crash
<1> QED
  BY <1>1, <1>2 DEF NotebooksAreTyped, Nb

-----------------------------------------------------------------------------
(* Every step keeps what notebooks publish their own.                       *)

\* What the steps outside a publication do to the directories.
LEMMA PublicationsOfOthers ==
  ASSUME TrainingInv, Next, NEW t \in Publishers,
         UNCHANGED <<target, lock>>,
         \A u \in Publishers \ {t} : publication'[u] = publication[u] /\ notebook'[u] = notebook[u],
         PublicationIsOwn(t)'
  PROVE  PublicationsAreOwn'
<1>1. ASSUME NEW u \in Publishers \ {t} PROVE PublicationIsOwn(u)'
  BY <1>1, RunsStepKeeps DEF TrainingInv, PublicationsAreOwn, PublicationIsOwn, Into, Nb, At, PubAt
<1> QED
  BY <1>1 DEF PublicationsAreOwn

LEMMA PublicationsStepKeeps ==
  ASSUME TrainingInv, Next
  PROVE  PublicationsAreOwn'
<1>d. DirectoriesInv /\ DOMAIN publication = Publishers /\ DOMAIN notebook = Publishers
      /\ \A t \in Publishers :
            DOMAIN notebook[t] = {"at", "config", "reviews", "run", "next", "holdout", "audited"}
  BY DEF TrainingInv, DirectoriesInv, DirectoriesAreTyped, NotebooksAreTyped, Nb
<1>1. CASE UNCHANGED <<target, publication, notebook>>
           /\ \A d \in Directories : lock'[d] \in {lock[d], Nobody}
  BY <1>1, RunsStepKeeps, DirectoryConstants
     DEF TrainingInv, PublicationsAreOwn, PublicationIsOwn, Into, Nb, At, PubAt
<1>2. CASE Review \/ \E d \in Directories : DeleteLock(d)
  BY <1>1, <1>2, <1>d DEF Review, DeleteLock, directoryVars, DirectoriesInv, DirectoriesAreTyped
<1> SUFFICES ASSUME NEW t \in Publishers,
                    \/ \E config \in Configs : Begin(t, config)
                    \/ Resolve(t) \/ WriteZip(t) \/ WritePointer(t) \/ Partition(t)
                    \/ StartRun(t) \/ Select(t) \/ Evaluate(t) \/ PublishStep(t)
                    \/ Finalize(t) \/ FinalizeFailed(t) \/ CopyToDrive(t) \/ CopyDone(t)
                    \/ Crash(t)
             PROVE  PublicationsAreOwn'
  BY <1>2 DEF Next
\* A cell before the publication, or the end of one.
<1>c. ASSUME DirectoriesStay, Nb(t).at \notin {"publish", "copy"},
             \A u \in Publishers \ {t} : notebook'[u] = notebook[u],
             Nb(t)'.at \notin {"publish", "copy", "closing"}
      PROVE  PublicationsAreOwn'
  <2>1. PublicationIsOwn(t)'
    BY <1>c, RunsStepKeeps
       DEF TrainingInv, PublicationsAreOwn, PublicationIsOwn, DirectoriesStay, Into, Nb, At, PubAt
  <2> QED
    BY <1>c, <2>1, PublicationsOfOthers DEF DirectoriesStay
<1>s. ASSUME Stop(t)
      PROVE  (\A u \in Publishers \ {t} : notebook'[u] = notebook[u]) /\ Nb(t)'.at = "closed"
  BY <1>d, <1>s DEF Stop, Closed, Nb
<1>g. ASSUME NEW point, Go(t, point)
      PROVE  /\ \A u \in Publishers \ {t} : notebook'[u] = notebook[u]
             /\ Nb(t)'.at = point /\ Nb(t)'.run = Nb(t).run
  BY <1>d, <1>g DEF Go, Nb
<1>3. CASE \E config \in Configs : Begin(t, config)
  <2>1. PICK config \in Configs : Begin(t, config)
    BY <1>3
  <2> QED
    BY <1>c, <2>1, BeginFacts DEF Begin, At, Nb
<1>4. CASE Resolve(t)
  <2>1. \/ Stop(t)
        \/ notebook' = [notebook EXCEPT ![t].at = "partition", ![t].holdout = pointer]
        \/ \E r : notebook' = [notebook EXCEPT ![t].at = "zip", ![t].next = r]
    BY <1>4 DEF Resolve
  <2>2. Nb(t)'.at \in {"closed", "partition", "zip"}
        /\ \A u \in Publishers \ {t} : notebook'[u] = notebook[u]
    BY <1>d, <1>s, <2>1 DEF Nb
  <2> QED
    BY <1>4, <1>c, <2>2 DEF Resolve, At, Nb
<1>5. CASE WriteZip(t)
  BY <1>5, <1>c, <1>d DEF WriteZip, At, Nb
<1>6. CASE WritePointer(t)
  BY <1>6, <1>c, <1>g DEF WritePointer, At, Nb
<1>7. CASE Partition(t)
  <2>1. Go(t, "start") \/ Stop(t)
    BY <1>7 DEF Partition
  <2> QED
    BY <1>7, <1>c, <1>g, <1>s, <2>1 DEF Partition, At, Nb
<1>8. CASE StartRun(t) \/ Select(t)
  BY <1>8, <1>c, <1>g, <1>s DEF StartRun, Select, At, Nb
\* The publication is staged, or is over.
<1>9. CASE Evaluate(t)
  <2>1. CASE Stop(t) /\ DirectoriesStay
    BY <1>9, <1>c, <1>s, <2>1 DEF Evaluate, At, Nb
  <2>2. CASE Stage(t, WorkspaceOf[t], Nb(t).run) /\ Go(t, "publish") /\ UNCHANGED <<target, lock>>
    <3>1. publication'[t] = [at |-> "staged", into |-> WorkspaceOf[t], bundle |-> Nb(t).run,
                             moved |-> Nobody]
      BY <1>d, <2>2 DEF Stage
    <3>2. WorkspaceOf[t] # Drive /\ Nb(t)'.at = "publish" /\ Nb(t)'.run = Nb(t).run
      BY <1>g, <2>2, TrainingConstants
    <3>3. PublicationIsOwn(t)'
      BY <3>1, <3>2 DEF PublicationIsOwn, Into, Nb, At, PubAt
    <3> QED
      BY <1>d, <1>g, <2>2, <3>3, PublicationsOfOthers DEF Stage
  <2> QED
    BY <1>9, <2>1, <2>2 DEF Evaluate
<1>10. CASE PublishStep(t)
  <2>1. /\ Publish(t) /\ UNCHANGED <<runs, notebook>>
        /\ At(t, "publish") \/ At(t, "copy")
    BY <1>10 DEF PublishStep
  <2>2. /\ LocalChange(t) /\ publication'[t].bundle = publication[t].bundle
        /\ lock'[Into(t)] \in {lock[Into(t)], t, Nobody, "left"}
        /\ PubAt(t, "published")' => /\ target'[Into(t)] = target[Into(t)]
                                     /\ PubAt(t, "valid") \/ PubAt(t, "published")
    BY <1>d, <2>1, PublishStepKeeps, PublishStepWrites
  <2>3. ASSUME NEW u \in Publishers \ {t} PROVE PublicationIsOwn(u)'
    <3>1. Into(t) # WorkspaceOf[u] /\ WorkspaceOf[u] \in Directories
      BY <2>1, TrainingConstants DEF TrainingInv, PublicationsAreOwn, PublicationIsOwn, At, Nb
    <3>2. target'[WorkspaceOf[u]] = target[WorkspaceOf[u]] /\ publication'[u] = publication[u]
      BY <2>2, <3>1 DEF LocalChange
    <3>3. \A d \in Directories : lock[d] # u => lock'[d] # u
      BY <2>2, DirectoryConstants DEF LocalChange
    <3> QED
      BY <2>1, <3>2, <3>3 DEF TrainingInv, PublicationsAreOwn, PublicationIsOwn, Succeeded, Into, Nb, At, PubAt
  <2>4. PublicationIsOwn(t)'
    <3>1. Into(t)' = Into(t)
      BY <2>2 DEF LocalChange
    <3>2. At(t, "publish") /\ PubAt(t, "published")' => target'[WorkspaceOf[t]] = Whole(Nb(t).run)
      BY <1>d, <2>2 DEF TrainingInv, PublicationsAreOwn, PublicationIsOwn, DirectoriesInv, CandidateIsOwn
    <3> QED
      BY <2>1, <2>2, <3>1, <3>2
         DEF TrainingInv, PublicationsAreOwn, PublicationIsOwn, Succeeded, Nb, At, PubAt
  <2> QED
    BY <2>3, <2>4 DEF PublicationsAreOwn
<1>11. CASE Finalize(t)
  <2>1. At(t, "publish") /\ Published(t) /\ DirectoriesStay
    BY <1>11 DEF Finalize
  <2>2. \A d \in Directories : lock[d] # t
    BY <2>1, OverIsUnlocked
  <2>3. /\ Nb(t)'.at = "closing" /\ Nb(t)'.run = Nb(t).run
        /\ \A u \in Publishers \ {t} : notebook'[u] = notebook[u]
    BY <1>11, <1>d DEF Finalize, Nb
  <2>4. PublicationIsOwn(t)'
    BY <2>1, <2>2, <2>3, RunsStepKeeps
       DEF TrainingInv, PublicationsAreOwn, PublicationIsOwn, DirectoriesStay, Published, Into, Nb, At, PubAt
  <2> QED
    BY <2>1, <2>3, <2>4, PublicationsOfOthers DEF DirectoriesStay
<1>12. ASSUME StopPublishing(t), UNCHANGED <<target, lock>>, \A d \in Directories : lock[d] # t
       PROVE  PublicationsAreOwn'
  <2>1. publication'[t] = Idle /\ Nb(t)'.at = "closed"
        /\ \A u \in Publishers \ {t} : publication'[u] = publication[u] /\ notebook'[u] = notebook[u]
    BY <1>d, <1>s, <1>12 DEF StopPublishing
  <2>2. Drive # Nobody
    BY TrainingConstants, DirectoryConstants
  <2>3. PublicationIsOwn(t)'
    BY <1>12, <2>1, <2>2 DEF PublicationIsOwn, Idle, Into, Nb, At, PubAt
  <2> QED
    BY <1>12, <2>1, <2>3, PublicationsOfOthers
<1>13. CASE FinalizeFailed(t) \/ CopyDone(t) \/ Crash(t)
  BY <1>12, <1>13, OverIsUnlocked DEF FinalizeFailed, CopyDone, Crash
<1>14. CASE CopyToDrive(t)
  <2>1. /\ At(t, "closing") /\ UNCHANGED <<target, lock>>
        /\ \A d \in Directories : lock[d] # t
    BY <1>14 DEF CopyToDrive, TrainingInv, PublicationsAreOwn, PublicationIsOwn, At, Nb
  <2>2. CASE StopPublishing(t)
    BY <1>12, <2>1, <2>2
  <2>3. CASE /\ Nb(t).audited /\ Go(t, "copy")
             /\ Stage(t, Drive, target[WorkspaceOf[t]].bundle)
    <3>1. publication'[t] = [at |-> "staged", into |-> Drive, moved |-> Nobody,
                             bundle |-> target[WorkspaceOf[t]].bundle]
      BY <1>d, <2>3 DEF Stage
    <3>2. target[WorkspaceOf[t]].bundle = Nb(t).run
      <4>1. PublicationIsOwn(t)
        BY DEF TrainingInv, PublicationsAreOwn
      <4>2. target[WorkspaceOf[t]] = Whole(Nb(t).run)
        BY <2>1, <4>1 DEF PublicationIsOwn
      <4> QED
        BY <4>2 DEF Whole
    <3>3. Succeeded(Nb(t).run)
      BY <2>1, <2>3 DEF TrainingInv, RunsAreOwn, Succeeded, At, Nb
    <3>4. publication'[t].bundle \in DOMAIN runs' /\ runs'[publication'[t].bundle].status = "succeeded"
      <4>1. publication'[t].bundle = Nb(t).run
        BY <3>1, <3>2
      <4>2. Nb(t).run \in DOMAIN runs' /\ runs'[Nb(t).run].status = "succeeded"
        BY <1>14, <3>3 DEF CopyToDrive, Succeeded
      <4> QED
        BY <4>1, <4>2
    <3>5. Nb(t)'.at = "copy"
      BY <1>g, <2>3
    <3>6. PublicationIsOwn(t)'
      BY <2>1, <3>1, <3>4, <3>5 DEF PublicationIsOwn, Into, Nb, At, PubAt, Succeeded
    <3> QED
      BY <1>d, <1>g, <2>1, <2>3, <3>6, PublicationsOfOthers DEF Stage
  <2> QED
    BY <1>14, <2>2, <2>3 DEF CopyToDrive
<1> QED
  BY <1>3, <1>4, <1>5, <1>6, <1>7, <1>8, <1>9, <1>10, <1>11, <1>13, <1>14

-----------------------------------------------------------------------------
(* Every step keeps Drive to bundles of runs that have succeeded.           *)

LEMMA DriveStepKeeps ==
  ASSUME TrainingInv, Next
  PROVE  DriveIsSucceeded'
<1>d. DirectoriesInv /\ DOMAIN publication = Publishers
  BY DEF TrainingInv, DirectoriesInv, DirectoriesAreTyped
\* Nothing is moved.
<1>1. ASSUME UNCHANGED <<target, backups>>,
             \A u \in Publishers : publication'[u] = publication[u] \/ Moved(u)' = Nobody
      PROVE  DriveIsSucceeded'
  BY <1>1, RunsStepKeeps DEF TrainingInv, DriveIsSucceeded, Into, Moved
<1>2. CASE UNCHANGED <<target, backups, publication>>
  BY <1>1, <1>2
<1>3. ASSUME NEW t \in Publishers, UNCHANGED <<target, backups>>,
             \/ StopPublishing(t)
             \/ \E d \in Directories : \E b : Stage(t, d, b)
      PROVE  DriveIsSucceeded'
  <2>1. /\ \A u \in Publishers \ {t} : publication'[u] = publication[u]
        /\ Moved(t)' = Nobody
    BY <1>d, <1>3 DEF StopPublishing, Stage, Idle, Moved
  <2> QED
    BY <1>1, <1>3, <2>1
<1>4. ASSUME NEW p \in Publishers, Publish(p), UNCHANGED runs
      PROVE  DriveIsSucceeded'
  <2>1. /\ LocalChange(p) /\ DirectoriesAreTyped
    BY <1>d, <1>4, PublishStepKeeps DEF DirectoriesInv
  <2>2. LET own == Whole(publication[p].bundle) IN
        /\ target'[Into(p)] \in {target[Into(p)], Nobody, own, Parts(own), Moved(p)}
        /\ Moved(p)' \in {Moved(p), target[Into(p)]}
        /\ backups'[Into(p)] \subseteq backups[Into(p)] \cup
              IF Moved(p) = Nobody THEN {} ELSE {Moved(p), Parts(Moved(p))}
    BY <1>d, <1>4, PublishStepWrites
  <2>3. CASE Into(p) # Drive
    <3>1. target'[Drive] = target[Drive] /\ backups'[Drive] = backups[Drive]
      BY <2>1, <2>3, TrainingConstants DEF LocalChange
    <3> QED
      BY <1>4, <2>1, <2>3, <3>1
         DEF LocalChange, TrainingInv, DriveIsSucceeded, Succeeded, Into, Moved
  <2>4. CASE Into(p) = Drive
    <3>1. Succeeded(publication[p].bundle)
      BY <2>4 DEF TrainingInv, PublicationsAreOwn, PublicationIsOwn
    <3>2. /\ Whole(publication[p].bundle).bundle = publication[p].bundle
          /\ Parts(Whole(publication[p].bundle)).bundle = publication[p].bundle
      BY DEF Whole, Parts
    <3>3. Moved(p) # Nobody => Succeeded(Moved(p).bundle) /\ Succeeded(Parts(Moved(p)).bundle)
      <4>1. Moved(p) # Nobody => Parts(Moved(p)).bundle = Moved(p).bundle
        BY <2>1 DEF DirectoriesAreTyped, IsCopy, Parts
      <4> QED
        BY <2>4, <4>1 DEF TrainingInv, DriveIsSucceeded
    <3>4. \A copy \in backups'[Drive] \cup {target'[Drive], Moved(p)'} :
             copy # Nobody => Succeeded(copy.bundle)
      BY <2>2, <2>4, <3>1, <3>2, <3>3 DEF TrainingInv, DriveIsSucceeded
    <3> QED
      BY <1>4, <2>1, <3>4 DEF LocalChange, TrainingInv, DriveIsSucceeded, Succeeded, Into, Moved
  <2> QED
    BY <2>3, <2>4
<1>5. CASE Review \/ \E d \in Directories : DeleteLock(d)
  BY <1>2, <1>5 DEF Review, DeleteLock, directoryVars
<1> SUFFICES ASSUME NEW t \in Publishers,
                    \/ \E config \in Configs : Begin(t, config)
                    \/ Resolve(t) \/ WriteZip(t) \/ WritePointer(t) \/ Partition(t)
                    \/ StartRun(t) \/ Select(t) \/ Evaluate(t) \/ PublishStep(t)
                    \/ Finalize(t) \/ FinalizeFailed(t) \/ CopyToDrive(t) \/ CopyDone(t)
                    \/ Crash(t)
             PROVE  DriveIsSucceeded'
  BY <1>5 DEF Next
<1>6. CASE \/ \E config \in Configs : Begin(t, config)
           \/ Resolve(t) \/ WriteZip(t) \/ WritePointer(t) \/ Partition(t)
           \/ StartRun(t) \/ Select(t) \/ Finalize(t)
  BY <1>2, <1>6 DEF Begin, Resolve, WriteZip, WritePointer, Partition, StartRun, Select, Finalize,
     DirectoriesStay
<1>7. CASE Evaluate(t)
  BY <1>2, <1>3, <1>7, TrainingConstants DEF Evaluate, DirectoriesStay
<1>8. CASE PublishStep(t)
  BY <1>4, <1>8 DEF PublishStep
<1>9. CASE FinalizeFailed(t) \/ CopyDone(t) \/ Crash(t)
  BY <1>3, <1>9 DEF FinalizeFailed, CopyDone, Crash
<1>10. CASE CopyToDrive(t)
  BY <1>3, <1>10, TrainingConstants DEF CopyToDrive
<1> QED
  BY <1>6, <1>7, <1>8, <1>9, <1>10

-----------------------------------------------------------------------------
(* Groups of the partitions.                                                *)

LEMMA TrainingRowsAreFree ==
  ASSUME NEW p, NEW rows
  PROVE  GroupsOf(TrainingRows(p, rows)) \cap Reserved(p) = {}
BY DEF GroupsOf, TrainingRows, InGroups

LEMMA GroupsOfUnions ==
  ASSUME NEW a, NEW b
  PROVE  GroupsOf(a \cup b) = GroupsOf(a) \cup GroupsOf(b)
BY DEF GroupsOf

LEMMA GroupsOfParts ==
  ASSUME NEW rows, NEW groups
  PROVE  /\ GroupsOf(InGroups(rows, groups)) \subseteq GroupsOf(rows)
         /\ GroupsOf(InGroups(rows, groups)) \subseteq groups
BY DEF GroupsOf, InGroups

LEMMA ReplacedGroups ==
  ASSUME NEW old, NEW new
  PROVE  GroupsOf(Replaced(old, new)) = GroupsOf(old) \cup GroupsOf(new)
BY DEF GroupsOf, Replaced, Keys, Key

LEMMA ReservedGroups ==
  ASSUME NEW p
  PROVE  Reserved(p) = GroupsOf(p.validation) \cup GroupsOf(p.test)
BY GroupsOfUnions DEF Reserved, Frozen

\* The first holdout is made of groups that are reviewed.
LEMMA FirstIsReviewed ==
  ASSUME NEW rows
  PROVE  Reserved(InitialPartitions(rows)) \subseteq GroupsOf(rows)
<1>1. \E a, b : InitialPartitions(rows) \in
          {NoPartitions, [validation |-> InGroups(rows, a), test |-> InGroups(rows, b)]}
  BY DEF InitialPartitions
<1>2. PICK a, b : InitialPartitions(rows) \in
          {NoPartitions, [validation |-> InGroups(rows, a), test |-> InGroups(rows, b)]}
  BY <1>1
<1>3. CASE InitialPartitions(rows) = NoPartitions
  BY <1>3, ReservedGroups DEF NoPartitions, GroupsOf
<1>4. CASE InitialPartitions(rows) = [validation |-> InGroups(rows, a), test |-> InGroups(rows, b)]
  BY <1>4, ReservedGroups, GroupsOfParts
<1> QED
  BY <1>2, <1>3, <1>4

\* A holdout that is brought up to date keeps its groups where they are, and takes in
\* reviewed groups that were not seen.
LEMMA UpdateKeepsGroups ==
  ASSUME NEW p, NEW rows, NEW seen, Reserved(p) \subseteq seen
  PROVE  LET u == UpdatedPartitions(p, rows, seen) IN
         /\ GroupsOf(p.validation) \subseteq GroupsOf(u.validation)
         /\ GroupsOf(p.test) \subseteq GroupsOf(u.test)
         /\ Reserved(u) \cap seen = Reserved(p)
         /\ Reserved(u) \subseteq seen \cup GroupsOf(rows)
<1> DEFINE new == {r \in rows : r.group \notin seen}
           refreshed == [validation |-> Replaced(p.validation, InGroups(rows, GroupsOf(p.validation))),
                         test       |-> Replaced(p.test, InGroups(rows, GroupsOf(p.test)))]
           u == UpdatedPartitions(p, rows, seen)
<1>1. /\ GroupsOf(refreshed.validation) = GroupsOf(p.validation)
      /\ GroupsOf(refreshed.test) = GroupsOf(p.test)
  <2>1. \A old : GroupsOf(Replaced(old, InGroups(rows, GroupsOf(old)))) = GroupsOf(old)
    <3> TAKE old
    <3>1. GroupsOf(InGroups(rows, GroupsOf(old))) \subseteq GroupsOf(old)
      BY GroupsOfParts
    <3>2. GroupsOf(Replaced(old, InGroups(rows, GroupsOf(old)))) =
            GroupsOf(old) \cup GroupsOf(InGroups(rows, GroupsOf(old)))
      BY ReplacedGroups
    <3> QED
      BY <3>1, <3>2
  <2> QED
    BY <2>1
<1>2. GroupsOf(new) \cap seen = {} /\ GroupsOf(new) \subseteq GroupsOf(rows)
  BY DEF GroupsOf
<1>3. u \in {refreshed, Appended(refreshed, new)}
  BY DEF UpdatedPartitions
<1>4. \E a, b : Appended(refreshed, new) =
                   [validation |-> refreshed.validation \cup InGroups(new, a),
                    test       |-> refreshed.test \cup InGroups(new, b)]
  BY DEF Appended
<1> HIDE DEF new, refreshed, u
<1>5. /\ GroupsOf(p.validation) \subseteq GroupsOf(u.validation)
      /\ GroupsOf(p.test) \subseteq GroupsOf(u.test)
      /\ GroupsOf(u.validation) \subseteq GroupsOf(p.validation) \cup GroupsOf(new)
      /\ GroupsOf(u.test) \subseteq GroupsOf(p.test) \cup GroupsOf(new)
  <2>1. CASE u = refreshed
    BY <1>1, <2>1
  <2>2. CASE u = Appended(refreshed, new)
    <3>1. PICK a, b : u = [validation |-> refreshed.validation \cup InGroups(new, a),
                           test       |-> refreshed.test \cup InGroups(new, b)]
      BY <1>4, <2>2
    <3>2. /\ GroupsOf(u.validation) = GroupsOf(p.validation) \cup GroupsOf(InGroups(new, a))
          /\ GroupsOf(u.test) = GroupsOf(p.test) \cup GroupsOf(InGroups(new, b))
      BY <1>1, <3>1, GroupsOfUnions
    <3> QED
      BY <3>2, GroupsOfParts
  <2> QED
    BY <1>3, <2>1, <2>2
<1>6. /\ Reserved(u) = GroupsOf(u.validation) \cup GroupsOf(u.test)
      /\ Reserved(p) = GroupsOf(p.validation) \cup GroupsOf(p.test)
  BY ReservedGroups
<1> QED
  BY <1>2, <1>5, <1>6 DEF u

-----------------------------------------------------------------------------
(* Every step keeps the holdouts.                                           *)

LEMMA PartsAreReserved ==
  ASSUME NEW s
  PROVE  Reserved(Parts2(s)) = Reserved(s)
BY ReservedGroups DEF Parts2

\* What is resolved and not in the store yet may be written there.
LEMMA ResolutionIsAdmissible ==
  ASSUME TrainingInv, NEW t \in Publishers,
         Resolution(t) # Raises, ~(pointer # 0 /\ Resolution(t) = snapshots[pointer])
  PROVE  Admissible(Resolution(t))
<1> DEFINE rows    == Rows(t)
           first   == InitialPartitions(rows)
           current == snapshots[pointer]
           updated == UpdatedPartitions(Parts2(current), rows, current.seen)
<1>1. CASE pointer = 0
  <2>1. Resolution(t) = Snapshot(first, 1, 0, GroupsOf(rows), rows)
    BY <1>1 DEF Resolution
  <2>2. Reserved(first) \subseteq GroupsOf(rows)
    BY FirstIsReviewed
  <2> HIDE DEF rows, first
  <2> QED
    BY <2>1, <2>2, ReservedGroups DEF Snapshot, Admissible
<1>2. CASE pointer # 0
  <2>1. /\ Resolution(t) = Snapshot(updated, current.generation + 1, pointer,
                                   current.seen \cup GroupsOf(rows), rows)
        /\ ValidPartitions(updated)
    BY <1>2 DEF Resolution
  <2>2. pointer \in DOMAIN snapshots /\ Admissible(current)
    <3>1. pointer \in DOMAIN snapshots
      BY <1>2, AppendKeeps DEF TrainingInv, NotebooksAreTyped
    <3> QED
      BY <3>1 DEF TrainingInv, HoldoutsAreKept
  <2>3. Reserved(Parts2(current)) \subseteq current.seen
    BY <2>2, PartsAreReserved DEF Admissible
  <2> DEFINE seen == current.seen
             p == Parts2(current)
  <2>4. /\ GroupsOf(p.validation) \subseteq GroupsOf(updated.validation)
        /\ GroupsOf(p.test) \subseteq GroupsOf(updated.test)
        /\ Reserved(updated) \cap seen = Reserved(p)
        /\ Reserved(updated) \subseteq seen \cup GroupsOf(rows)
    <3> HIDE DEF seen, rows, p
    <3>1. Reserved(p) \subseteq seen
      BY <2>3 DEF p, seen
    <3>2. updated = UpdatedPartitions(p, rows, seen)
      BY DEF p, seen
    <3> HIDE DEF updated
    <3> QED
      BY <3>1, <3>2, UpdateKeepsGroups
  <2> DEFINE s == Resolution(t)
  <2>5. /\ s.validation = updated.validation /\ s.test = updated.test
        /\ s.previous = pointer /\ s.seen = seen \cup GroupsOf(rows)
    <3> HIDE DEF updated, rows
    <3> QED
      BY <2>1 DEF Snapshot
  <2>6. /\ p.validation = current.validation /\ p.test = current.test
        /\ Reserved(p) = Reserved(current)
    BY PartsAreReserved DEF Parts2
  <2>7. Reserved(s) = Reserved(updated)
    <3> HIDE DEF updated, s
    <3> QED
      BY <2>5, ReservedGroups
  <2>8. ValidPartitions(Parts2(s))
    <3> HIDE DEF updated, s
    <3> QED
      BY <2>1, <2>5 DEF ValidPartitions, Parts2
  <2> HIDE DEF updated, s, rows, p, current
  <2>9. Follows(s, current)
    BY <2>4, <2>5, <2>6, <2>7, <2>8 DEF Follows
  <2> QED
    BY <2>2, <2>4, <2>5, <2>7, <2>9 DEF Admissible, current, s
<1> QED
  BY <1>1, <1>2

LEMMA HoldoutsStepKeeps ==
  ASSUME TrainingInv, Next
  PROVE  HoldoutsAreKept'
<1>d. /\ DOMAIN notebook = Publishers
      /\ \A t \in Publishers :
            DOMAIN notebook[t] = {"at", "config", "reviews", "run", "next", "holdout", "audited"}
      /\ IsSequence(runs) /\ IsSequence(snapshots)
      /\ pointer \in 0 .. Len(snapshots)
      /\ \A r \in DOMAIN runs : DOMAIN runs[r] = {"status", "train", "holdout"}
      /\ Len(snapshots) \in Nat /\ DOMAIN snapshots = 1 .. Len(snapshots)
  BY AppendKeeps DEF TrainingInv, NotebooksAreTyped, Nb
\* The snapshots stay, and what a run was trained on changes for one of t only.
<1>a. ASSUME UNCHANGED snapshots,
             \A u \in Publishers : notebook'[u] = notebook[u] \/ HoldoutIsKept(u)',
             \A r \in DOMAIN runs' :
                \/ r \in DOMAIN runs /\ runs'[r].holdout = runs[r].holdout /\ runs'[r].train = runs[r].train
                \/ RunIsFair(r)'
      PROVE  HoldoutsAreKept'
  <2>1. \A n \in DOMAIN snapshots' : Admissible(snapshots[n])'
    BY <1>a DEF TrainingInv, HoldoutsAreKept, Admissible
  <2>2. \A u \in Publishers : HoldoutIsKept(u)'
    BY <1>a DEF TrainingInv, HoldoutsAreKept, HoldoutIsKept, Admissible, Nb, At
  <2>3. \A r \in DOMAIN runs' : RunIsFair(r)'
    BY <1>a DEF TrainingInv, HoldoutsAreKept, RunIsFair
  <2> QED
    BY <2>1, <2>2, <2>3 DEF HoldoutsAreKept
<1>1. CASE UNCHANGED <<snapshots, notebook, runs>>
  BY <1>1, <1>a
<1> SUFFICES ASSUME NEW t \in Publishers,
                    \/ \E config \in Configs : Begin(t, config)
                    \/ Resolve(t) \/ WriteZip(t) \/ WritePointer(t) \/ Partition(t)
                    \/ StartRun(t) \/ Select(t) \/ Evaluate(t)
                    \/ Finalize(t) \/ FinalizeFailed(t) \/ CopyToDrive(t) \/ CopyDone(t)
                    \/ Crash(t)
             PROVE  HoldoutsAreKept'
  BY <1>1 DEF Next, Review, DeleteLock, PublishStep, StoreStays
\* A cell that ends, or goes on past the partition.
<1>b. ASSUME UNCHANGED snapshots,
             \A u \in Publishers \ {t} : notebook'[u] = notebook[u],
             Nb(t)'.at \notin {"resolve", "zip", "point", "partition"},
             \A r \in DOMAIN runs' :
                \/ r \in DOMAIN runs /\ runs'[r].holdout = runs[r].holdout /\ runs'[r].train = runs[r].train
                \/ RunIsFair(r)'
      PROVE  HoldoutsAreKept'
  <2>1. HoldoutIsKept(t)'
    BY <1>b DEF HoldoutIsKept, At, Nb
  <2> QED
    BY <1>a, <1>b, <2>1
<1>r. ASSUME NEW status, Status(t, status)
      PROVE  \A r \in DOMAIN runs' : r \in DOMAIN runs /\ runs'[r].holdout = runs[r].holdout
                                    /\ runs'[r].train = runs[r].train
  BY <1>d, <1>r DEF Status
<1>s. ASSUME Stop(t)
      PROVE  (\A u \in Publishers \ {t} : notebook'[u] = notebook[u]) /\ Nb(t)'.at = "closed"
  BY <1>d, <1>s DEF Stop, Closed, Nb
<1>g. ASSUME NEW point, Go(t, point)
      PROVE  /\ \A u \in Publishers \ {t} : notebook'[u] = notebook[u]
             /\ Nb(t)'.at = point /\ Nb(t)'.holdout = Nb(t).holdout
             /\ Nb(t)'.config = Nb(t).config
  BY <1>d, <1>g DEF Go, Nb
<1>t. HoldoutIsKept(t) /\ \A n \in DOMAIN snapshots : Admissible(snapshots[n])
  BY DEF TrainingInv, HoldoutsAreKept
<1>2. CASE \E config \in Configs : Begin(t, config)
  <2>1. PICK config \in Configs : Begin(t, config)
    BY <1>2
  <2>2. HoldoutIsKept(t)'
    BY <2>1, BeginFacts DEF HoldoutIsKept, At, Nb
  <2>3. \A r \in DOMAIN runs' : RunIsFair(r)' \/ (r \in DOMAIN runs /\ runs'[r] = runs[r])
    <3> TAKE r \in DOMAIN runs'
    <3>1. r \in DOMAIN runs \/ r = Len(runs) + 1
      BY <2>1, BeginFacts
    <3>2. r = Len(runs) + 1 => runs'[r].holdout = 0
      BY <2>1, BeginFacts
    <3> QED
      BY <2>1, <3>1, <3>2, BeginFacts DEF RunIsFair
  <2>4. \A u \in Publishers : notebook'[u] = notebook[u] \/ HoldoutIsKept(u)'
    BY <2>1, <2>2, BeginFacts
  <2> QED
    BY <1>a, <2>1, <2>3, <2>4 DEF Begin, StoreStays
<1>3. CASE Resolve(t)
  <2>1. UNCHANGED <<snapshots, runs>> /\ At(t, "resolve")
    BY <1>3 DEF Resolve, StoreStays
  <2>2. CASE Stop(t)
    BY <1>b, <1>s, <2>1, <2>2
  <2>3. CASE pointer # 0 /\ notebook' = [notebook EXCEPT ![t].at = "partition", ![t].holdout = pointer]
    <3>1. /\ \A u \in Publishers \ {t} : notebook'[u] = notebook[u]
          /\ Nb(t)'.at = "partition" /\ Nb(t)'.holdout = pointer /\ Nb(t)'.config = Nb(t).config
      BY <1>d, <2>3 DEF Nb
    <3>2. HoldoutIsKept(t)'
      BY <1>d, <1>t, <2>1, <2>3, <3>1 DEF HoldoutIsKept, At, Nb
    <3> QED
      BY <1>a, <2>1, <3>1, <3>2
  <2>4. CASE /\ Resolution(t) # Raises
             /\ ~(pointer # 0 /\ Resolution(t) = snapshots[pointer])
             /\ notebook' = [notebook EXCEPT ![t].at = "zip", ![t].next = Resolution(t)]
    <3>1. Admissible(Resolution(t))
      BY <2>4, ResolutionIsAdmissible
    <3> DEFINE r == Resolution(t)
    <3> HIDE DEF r
    <3>2. /\ \A u \in Publishers \ {t} : notebook'[u] = notebook[u]
          /\ Nb(t)'.at = "zip" /\ Nb(t)'.next = r /\ Nb(t)'.config = Nb(t).config
      BY <1>d, <2>4 DEF Nb, r
    <3>3. Admissible(r)
      BY <3>1 DEF r
    <3>4. HoldoutIsKept(t)'
      BY <1>t, <2>1, <3>2, <3>3 DEF HoldoutIsKept, Admissible, At, Nb
    <3> QED
      BY <1>a, <2>1, <3>2, <3>4
  <2> QED
    BY <1>3, <2>2, <2>3, <2>4 DEF Resolve
<1>4. CASE WriteZip(t)
  <2>1. /\ snapshots' = Append(snapshots, Nb(t).next) /\ UNCHANGED runs
        /\ Admissible(Nb(t).next) /\ Nb(t).config.frozen
    BY <1>4, <1>t DEF WriteZip, HoldoutIsKept, At, Nb
  <2>2. /\ DOMAIN snapshots' = 1 .. Len(snapshots) + 1
        /\ \A n \in DOMAIN snapshots : n \in DOMAIN snapshots' /\ snapshots'[n] = snapshots[n]
        /\ snapshots'[Len(snapshots) + 1] = Nb(t).next
        /\ \A n \in DOMAIN snapshots' : n \in DOMAIN snapshots \/ n = Len(snapshots) + 1
    BY <1>d, <2>1, AppendKeeps
  <2>3. \A s : Admissible(s) => Admissible(s)'
    BY <2>2 DEF Admissible
  <2>4. \A n \in DOMAIN snapshots' : Admissible(snapshots[n])'
    BY <1>t, <2>1, <2>2 DEF Admissible
  <2>5. /\ \A u \in Publishers \ {t} : notebook'[u] = notebook[u]
        /\ Nb(t)'.at = "point" /\ Nb(t)'.holdout = Len(snapshots) + 1
        /\ Nb(t)'.config = Nb(t).config
    BY <1>4, <1>d DEF WriteZip, Nb
  <2>6. \A u \in Publishers : HoldoutIsKept(u)'
    <3>1. HoldoutIsKept(t)'
      BY <1>d, <2>1, <2>2, <2>5 DEF HoldoutIsKept, At, Nb
    <3>2. ASSUME NEW u \in Publishers \ {t} PROVE HoldoutIsKept(u)'
      BY <2>2, <2>5 DEF TrainingInv, HoldoutsAreKept, HoldoutIsKept, Admissible, At, Nb
    <3> QED
      BY <3>1, <3>2
  <2>7. \A r \in DOMAIN runs' : RunIsFair(r)'
    BY <2>1, <2>2 DEF TrainingInv, HoldoutsAreKept, RunIsFair
  <2> QED
    BY <2>4, <2>6, <2>7 DEF HoldoutsAreKept
<1>5. CASE WritePointer(t)
  <2>1. /\ UNCHANGED <<snapshots, runs>> /\ Go(t, "partition")
        /\ Nb(t).holdout \in DOMAIN snapshots /\ Nb(t).config.frozen
    BY <1>5, <1>t DEF WritePointer, HoldoutIsKept, At, Nb
  <2>2. HoldoutIsKept(t)'
    BY <1>g, <2>1 DEF HoldoutIsKept, At, Nb
  <2> QED
    BY <1>a, <1>g, <2>1, <2>2
<1>6. CASE Partition(t)
  <2>1. UNCHANGED snapshots /\ At(t, "partition")
    BY <1>6 DEF Partition, StoreStays
  <2>2. CASE Stop(t) /\ UNCHANGED runs
    BY <1>b, <1>s, <2>1, <2>2
  <2>3. CASE \E p \in PartitionsOf(t) :
                /\ runs' = [runs EXCEPT ![Nb(t).run].train = GroupsOf(TrainingRows(p, Rows(t))),
                                        ![Nb(t).run].holdout = Nb(t).holdout]
                /\ Go(t, "start")
    <3>1. PICK p \in PartitionsOf(t) :
                /\ runs' = [runs EXCEPT ![Nb(t).run].train = GroupsOf(TrainingRows(p, Rows(t))),
                                        ![Nb(t).run].holdout = Nb(t).holdout]
                /\ Go(t, "start")
      BY <2>3
    <3> DEFINE train == GroupsOf(TrainingRows(p, Rows(t)))
               run == Nb(t).run
               holdout == Nb(t).holdout
    <3>2. holdout # 0 => /\ holdout \in DOMAIN snapshots
                         /\ train \cap Reserved(snapshots[holdout]) = {}
      <4>1. CASE Nb(t).config.frozen
        <5>1. p = Parts2(snapshots[holdout]) /\ holdout \in DOMAIN snapshots
          BY <1>t, <2>1, <4>1 DEF PartitionsOf, HoldoutIsKept
        <5> QED
          BY <5>1, TrainingRowsAreFree, PartsAreReserved
      <4>2. CASE ~Nb(t).config.frozen
        BY <1>t, <2>1, <4>2 DEF HoldoutIsKept
      <4> QED
        BY <4>1, <4>2
    <3> HIDE DEF train, run, holdout
    <3>3. runs' = [runs EXCEPT ![run].train = train, ![run].holdout = holdout]
      BY <3>1 DEF train, run, holdout
    <3>4. \A r \in DOMAIN runs' :
            /\ r \in DOMAIN runs
            /\ r # run => runs'[r] = runs[r]
            /\ r = run => runs'[r].train = train /\ runs'[r].holdout = holdout
      BY <1>d, <3>3
    <3>5. \A r \in DOMAIN runs' :
            \/ r \in DOMAIN runs /\ runs'[r].holdout = runs[r].holdout /\ runs'[r].train = runs[r].train
            \/ RunIsFair(r)'
      BY <2>1, <3>2, <3>4 DEF RunIsFair
    <3> QED
      BY <1>b, <1>g, <2>1, <3>1, <3>5
  <2> QED
    BY <1>6, <2>2, <2>3 DEF Partition
\* The other cells go on, or end, and write a status at most.
<1>7. CASE \/ StartRun(t) \/ Select(t) \/ Evaluate(t)
           \/ Finalize(t) \/ FinalizeFailed(t) \/ CopyToDrive(t) \/ CopyDone(t) \/ Crash(t)
  <2>1. UNCHANGED snapshots
    BY <1>7 DEF StartRun, Select, Evaluate, Finalize, FinalizeFailed, CopyToDrive, CopyDone, Crash, StoreStays
  <2>2. UNCHANGED runs \/ \E status : Status(t, status)
    BY <1>7 DEF StartRun, Select, Evaluate, Finalize, FinalizeFailed, CopyToDrive, CopyDone, Crash
  <2>3. \/ Stop(t) \/ \E point \in {"select", "evaluate", "publish", "copy"} : Go(t, point)
        \/ \E audited : notebook' = [notebook EXCEPT ![t].at = "closing", ![t].audited = audited]
    BY <1>7 DEF StartRun, Select, Evaluate, Finalize, FinalizeFailed, CopyToDrive, CopyDone, Crash,
       StopPublishing
  <2>4. /\ \A u \in Publishers \ {t} : notebook'[u] = notebook[u]
        /\ Nb(t)'.at \in {"closed", "select", "evaluate", "publish", "copy", "closing"}
    BY <1>d, <1>s, <1>g, <2>3 DEF Nb
  <2> QED
    BY <1>b, <1>r, <2>1, <2>2, <2>4
<1> QED
  BY <1>2, <1>3, <1>4, <1>5, <1>6, <1>7

-----------------------------------------------------------------------------
(* The theorems.                                                            *)

LEMMA InitIsSound == Init => TrainingInv
<1> SUFFICES ASSUME Init PROVE TrainingInv
  OBVIOUS
<1>1. /\ Drive \in Directories /\ Nobody \notin Publishers \cup Directories
      /\ \A t \in Publishers : WorkspaceOf[t] \in Directories \ {Drive}
  BY TrainingConstants, DirectoryConstants
<1>2. /\ target = [d \in Directories |-> Nobody] /\ lock = [d \in Directories |-> Nobody]
      /\ backups = [d \in Directories |-> {}] /\ validated = [d \in Directories |-> Nobody]
      /\ publication = [p \in Publishers |-> Idle]
      /\ snapshots = <<>> /\ pointer = 0 /\ runs = <<>>
      /\ notebook = [t \in Publishers |-> Closed]
  BY DEF Init, DirectoriesInit
<1>3. /\ \A p \in Publishers : publication[p] = Idle
      /\ \A t \in Publishers : notebook[t] = Closed
      /\ \A d \in Directories : target[d] = Nobody /\ lock[d] = Nobody
      /\ \A d \in Directories : backups[d] = {} /\ validated[d] = Nobody
  BY <1>2
<1>4. /\ Idle.at = "idle" /\ Idle.into = Nobody /\ Idle.moved = Nobody
      /\ Idle = [at |-> Idle.at, into |-> Idle.into, bundle |-> Idle.bundle, moved |-> Idle.moved]
  BY DEF Idle
<1>5. /\ Closed.at = "closed"
      /\ DOMAIN Closed = {"at", "config", "reviews", "run", "next", "holdout", "audited"}
  BY DEF Closed
<1>6. DirectoriesInv
  <2>1. DirectoriesAreTyped
    BY <1>2, <1>3, <1>4 DEF DirectoriesAreTyped, PubAt, Into, Moved, IsCopy
  <2>2. LockIsHeld
    BY <1>1, <1>3, <1>4 DEF LockIsHeld, Working, Between
  <2>3. CandidateIsOwn
    BY <1>3, <1>4 DEF CandidateIsOwn, PubAt
  <2>4. LastBundleIsKept
    BY <1>3, <1>4 DEF LastBundleIsKept, Between
  <2> QED
    BY <2>1, <2>2, <2>3, <2>4 DEF DirectoriesInv
<1>7. NotebooksAreTyped
  <2>1. IsSequence(runs) /\ IsSequence(snapshots) /\ pointer \in 0 .. Len(snapshots)
        /\ DOMAIN runs = {}
    BY <1>2 DEF IsSequence
  <2> QED
    BY <1>2, <1>3, <1>5, <2>1 DEF NotebooksAreTyped, Nb
<1>8. RunsAreOwn
  BY <1>3, <1>5 DEF RunsAreOwn, At, Nb
<1>9. PublicationsAreOwn
  BY <1>1, <1>3, <1>4, <1>5 DEF PublicationsAreOwn, PublicationIsOwn, Into, PubAt, At, Nb
<1>10. DriveIsSucceeded
  BY <1>1, <1>3, <1>4 DEF DriveIsSucceeded, Into, Moved
<1>11. HoldoutsAreKept
  BY <1>2, <1>3, <1>5 DEF HoldoutsAreKept, HoldoutIsKept, At, Nb
<1> QED
  BY <1>6, <1>7, <1>8, <1>9, <1>10, <1>11 DEF TrainingInv

\* TrainingInv holds at every moment, whoever publishes, fails or dies (the training
\* notebook, bundle_export.py, holdout_storage.py).
THEOREM TrainingIsCoherent == Spec => []TrainingInv
<1>1. TrainingInv /\ [Next]_vars => TrainingInv'
  <2> SUFFICES ASSUME TrainingInv, [Next]_vars PROVE TrainingInv'
    OBVIOUS
  <2>1. CASE Next
    BY <2>1, DirectoriesStepKeeps, TypesStepKeeps, RunsStepKeeps, PublicationsStepKeeps,
       DriveStepKeeps, HoldoutsStepKeeps DEF TrainingInv
  <2>2. CASE UNCHANGED vars
    BY <2>2 DEF vars, directoryVars, TrainingInv, DirectoriesInv, DirectoriesAreTyped, LockIsHeld,
       CandidateIsOwn, LastBundleIsKept, NotebooksAreTyped, RunsAreOwn, PublicationsAreOwn,
       PublicationIsOwn, DriveIsSucceeded, Succeeded, HoldoutsAreKept, HoldoutIsKept, RunIsFair,
       Admissible, Working, Between, Holding, Locked, Into, Moved, PubAt, At, Nb
  <2> QED
    BY <2>1, <2>2
<1> QED
  BY <1>1, InitIsSound, PTL DEF Spec

\* The last valid bundle of a destination is there or beside it, and no other
\* publication works on it, whatever fails and whoever dies between two moves
\* (_replace_validated_directory).
THEOREM BundlesSurvive == Spec => []BundlesAreSafe
<1>1. TrainingInv => BundlesAreSafe
  <2> SUFFICES ASSUME TrainingInv PROVE BundlesAreSafe
    OBVIOUS
  <2>1. BundleSurvives
    BY DEF TrainingInv, DirectoriesInv, LockIsHeld, LastBundleIsKept, BundleSurvives, BackupsOf,
       Working, Between, PubAt
  <2>2. PublicationsAreAlone
    <3>1. \A b : Whole(b).bundle = b /\ Parts(Whole(b)).bundle = b
      BY DEF Whole, Parts
    <3> QED
      BY <3>1 DEF TrainingInv, DirectoriesInv, LockIsHeld, CandidateIsOwn, PublicationsAreAlone,
         Working, Between, PubAt
  <2> QED
    BY <2>1, <2>2 DEF BundlesAreSafe
<1> QED
  BY <1>1, TrainingIsCoherent, PTL

\* No bundle on Drive, in place or in a backup, is of a run that has not succeeded
\* in the ledger (the last cell of the training notebook).
THEOREM DriveHoldsAuditedRuns == Spec => []DriveIsAudited
<1>1. TrainingInv => DriveIsAudited
  BY DEF TrainingInv, DriveIsSucceeded, DriveIsAudited, BackupsOf, Succeeded
<1> QED
  BY <1>1, TrainingIsCoherent, PTL

\* Two models with one holdout were trained on none of its clips, however many
\* notebooks resolve it at once (build_training_partitions, resolve_human_holdout).
THEOREM ComparisonsStayFair == Spec => []ComparisonsAreFair
<1>1. TrainingInv => ComparisonsAreFair
  <2> SUFFICES ASSUME TrainingInv, NEW r \in DOMAIN runs, NEW s \in DOMAIN runs,
                      Comparable(runs[r].holdout, runs[s].holdout)
               PROVE  runs[r].train \cap Reserved(snapshots[runs[s].holdout]) = {}
    BY DEF ComparisonsAreFair
  <2>1. Reserved(snapshots[runs[r].holdout]) = Reserved(snapshots[runs[s].holdout])
    BY PartsAreReserved DEF Comparable
  <2>2. runs[r].train \cap Reserved(snapshots[runs[r].holdout]) = {}
    BY DEF Comparable, TrainingInv, HoldoutsAreKept, RunIsFair
  <2> QED
    BY <2>1, <2>2
<1> QED
  BY <1>1, TrainingIsCoherent, PTL

\* A generation of the holdout keeps the roles of the clips of the one it follows
\* and reserves no clip that was seen before, also when two notebooks write one each
\* (_updated_partitions).
THEOREM ClipsKeepTheirRoles == Spec => []RolesAreKept
<1>1. TrainingInv => RolesAreKept
  BY DEF TrainingInv, HoldoutsAreKept, Admissible, Follows, RolesAreKept
<1> QED
  BY <1>1, TrainingIsCoherent, PTL

-----------------------------------------------------------------------------
(***************************************************************************)
(* When a model may call itself a production model: ModelEligibility, for  *)
(* any evidence.  Nothing is assumed of the numbers but what the trainer   *)
(* computes them with: an interval is sufficient exactly when two clips    *)
(* and 95 % of its samples back it (bootstrap of grouped clips), and the   *)
(* bound of the alerts is tabulated for none, one and two.                 *)
(***************************************************************************)
E == INSTANCE ModelEligibility

IsInterval(i) ==
    /\ i.low \in Int /\ i.high \in Int /\ i.point \in Int
    /\ i.groups \in Nat /\ i.fraction \in Nat
    /\ i.sufficient = (i.groups >= 2 /\ i.fraction >= 95)

IsCandidate(c) ==
    /\ c.mode \in {"seed-bootstrap", "hitl-retraining"} /\ c.frozen \in BOOLEAN
    /\ c.coverage \in Nat /\ c.fields \in Nat
    /\ c.minutes \in Nat /\ c.clips \in Nat /\ c.hours \in Nat
    /\ c.alerts \in 0 .. 2
    /\ \A s \in E!Scopes : \A m \in E!Required(s) : IsInterval(c.intervals[s][m])

\* A name that holds is one of the blockers.
LEMMA HoldingIsEmpty ==
  ASSUME NEW conditions, E!Holding(conditions) = {}
  PROVE  \A n \in DOMAIN conditions : ~conditions[n]
BY DEF E!Holding

\* What the trainer asks of an eligible candidate.
LEMMA EligibleMeans ==
  ASSUME NEW c, IsCandidate(c), E!Eligible(c)
  PROVE  /\ c.mode = "hitl-retraining" /\ c.frozen /\ c.coverage >= 95000
         /\ c.minutes >= 100 /\ c.clips >= 20 /\ c.hours >= 300
         /\ E!BelowLimit(E!UpperBound(c.alerts, c.hours))
         /\ \A s \in E!Scopes : \A m \in E!Required(s) : E!IntervalIsProven(m, c.intervals[s][m])
         /\ E!PromotionBlockers(c) = {}
<1>1. /\ E!Evaluable(c) /\ E!PromotionBlockers(c) = {} /\ c.mode = "hitl-retraining"
      /\ E!DatasetBlockers(c) = {} /\ E!FailedGates(c) = {} /\ E!CandidateBlockers(c) = {}
  BY DEF E!Eligible, E!PromotionBlockers
<1>2. c.coverage >= 95000
  <2> DEFINE few == c.coverage < 95000
             rare == E!Rounded(c.fields) < 95000
             conditions == [schema |-> few, fields |-> rare]
  <2>1. E!Holding(conditions) = {}
    BY <1>1 DEF E!DatasetBlockers
  <2> HIDE DEF few, rare
  <2>2. ~conditions["schema"]
    <3>1. "schema" \in DOMAIN conditions
      OBVIOUS
    <3> HIDE DEF conditions
    <3> QED
      BY <2>1, <3>1, HoldingIsEmpty
  <2>3. ~few
    BY <2>2, Zenon
  <2> QED
    BY <2>3 DEF IsCandidate, few
<1>3. /\ c.frozen /\ c.minutes >= 100 /\ c.clips >= 20 /\ c.hours >= 300
      /\ E!BelowLimit(E!UpperBound(c.alerts, c.hours))
  <2> DEFINE below == E!BelowLimit(E!UpperBound(c.alerts, c.hours))
             few == c.minutes < 100 \/ c.clips < 20
             short == c.hours < 300
             known == c.hours >= 300
             conditions == [seed |-> c.mode = "seed-bootstrap", holdout |-> ~c.frozen,
                            support |-> few, exposure |-> short, alerts |-> known /\ ~below]
  <2>1. E!Holding(conditions) = {}
    BY <1>1 DEF E!CandidateBlockers
  <2> HIDE DEF below, few, short, known
  <2>2. ~conditions["holdout"] /\ ~conditions["support"] /\ ~conditions["exposure"] /\ ~conditions["alerts"]
    <3>1. {"holdout", "support", "exposure", "alerts"} \subseteq DOMAIN conditions
      OBVIOUS
    <3> HIDE DEF conditions
    <3> QED
      BY <2>1, <3>1, HoldingIsEmpty
  <2>3. c.frozen /\ ~few /\ ~short /\ (known => below)
    BY <2>2, Zenon
  <2>4. c.frozen
    BY <2>3
  <2>5. ~few /\ ~short
    BY <2>3
  <2>6. c.minutes >= 100 /\ c.clips >= 20 /\ c.hours >= 300
    BY <2>5 DEF IsCandidate, few, short
  <2> QED
    BY <2>3, <2>6 DEF below, known
<1>4. ASSUME NEW s \in E!Scopes, NEW m \in E!Required(s)
      PROVE  E!IntervalIsProven(m, c.intervals[s][m])
  <2>1. m \in DOMAIN E!MinimumLow \cup DOMAIN E!MaximumHigh
    BY DEF E!Required, E!MinimumLow, E!MaximumHigh
  <2>2. c.intervals[s][m].sufficient /\ E!PassesGate(m, c.intervals[s][m])
    <3> DEFINE x == <<s, m>>
    <3>1. x \in E!Scopes \X (DOMAIN E!MinimumLow \cup DOMAIN E!MaximumHigh)
          /\ x[1] = s /\ x[2] = m
      BY <2>1
    <3> HIDE DEF x
    <3>2. \A y \in E!Scopes \X (DOMAIN E!MinimumLow \cup DOMAIN E!MaximumHigh) :
             y[2] \in E!Required(y[1]) =>
               /\ c.intervals[y[1]][y[2]].sufficient
               /\ E!PassesGate(y[2], c.intervals[y[1]][y[2]])
      BY <1>1, Zenon DEF E!FailedGates
    <3> QED
      BY <3>1, <3>2, Zenon
  <2>3. E!ValidIntervalRow(c.intervals[s][m])
    BY <1>1 DEF E!Evaluable
  <2>4. c.intervals[s][m].groups >= 2 /\ c.intervals[s][m].fraction >= 95
    BY <2>2 DEF IsCandidate, IsInterval
  <2> QED
    BY <2>2, <2>3, <2>4 DEF E!IntervalIsProven
<1> QED
  BY <1>1, <1>2, <1>3, <1>4

\* What the bundle of a candidate says, and what it keeps through every change.
Kept(b, c) ==
    /\ b.revision = E!Revision("trained", "chosen", "sealed", E!InputPolicy(c))
    /\ b.lifecycle.mode = c.mode
    /\ b.intervals = c.intervals
    /\ b.holdout = c.frozen
    /\ b.minutes = c.minutes /\ b.clips = c.clips /\ b.hours = c.hours
    /\ b.coverage = E!Rounded(c.coverage)
    /\ b.upper = E!UpperBound(c.alerts, c.hours)

LEMMA BundleKeeps ==
  ASSUME NEW c
  PROVE  Kept(E!Bundle(c), c)
<1> DEFINE low == E!UpperBound(c.alerts, c.hours)
           policy == E!InputPolicy(c)
           rounded == E!Rounded(c.coverage)
           b == E!Bundle(c)
<1>1. E!Lifecycle(c).mode = c.mode /\ E!Lifecycle(c).input = policy
  BY DEF E!Lifecycle
<1>2. b.lifecycle = E!Lifecycle(c)
  BY DEF E!Bundle
<1>3. b.revision = E!Revision("trained", "chosen", "sealed", E!Lifecycle(c).input)
  BY DEF E!Bundle
<1>4. b.intervals = c.intervals /\ b.holdout = c.frozen
      /\ b.minutes = c.minutes /\ b.clips = c.clips /\ b.hours = c.hours
      /\ b.coverage = rounded /\ b.upper = low
  BY Zenon DEF E!Bundle
<1> QED
  BY <1>1, <1>2, <1>3, <1>4 DEF Kept

\* Nobody rewrites these by changing a file, a threshold, the lock, the input, the
\* claims of eligibility, the counts, the points or the descriptor.
LEMMA ChangedKeeps ==
  ASSUME NEW c, NEW change \in E!Changes
  PROVE  Kept(E!Changed(E!Bundle(c), change), c)
<1> DEFINE b == E!Bundle(c)
           n == E!Changed(b, change)
           fields == {"files", "entries", "policy", "lock", "algorithm", "lifecycle", "revision",
                      "intervals", "points", "minutes", "clips", "hours", "alerts", "rate", "upper",
                      "holdout", "descriptor", "whole", "coverage", "blockers",
                      "metricEligible", "provenanceEligible"}
           kept == {"revision", "intervals", "holdout", "minutes", "clips", "hours", "coverage", "upper"}
<1>1. Kept(b, c)
  BY BundleKeeps
<1>2. DOMAIN b = fields
  BY DEF E!Bundle
<1>3. DOMAIN b.lifecycle = {"mode", "input", "supervision", "stage", "eligible"}
  BY DEF E!Bundle, E!Lifecycle
<1> HIDE DEF b
<1>4. /\ \A f \in kept : n[f] = b[f]
      /\ n.lifecycle.mode = b.lifecycle.mode
  <2>1. CASE change \in {"none", "file", "retrained file", "thresholds", "lock"}
    BY <1>2, <2>1 DEF E!Changed
  <2>2. CASE change \in {"alerts", "points", "undescribed", "incomplete", "before algorithms"}
    BY <1>2, <2>2 DEF E!Changed
  <2>3. CASE change = "input"
    BY <1>2, <1>3, <2>3 DEF E!Changed
  <2>4. CASE change = "promoted"
    BY <1>2, <1>3, <2>4 DEF E!Changed
  <2>5. CASE change = "cleared"
    BY <1>2, <1>3, <2>5 DEF E!Changed
  <2> QED
    BY <2>1, <2>2, <2>3, <2>4, <2>5 DEF E!Changes
<1> HIDE DEF n
<1> QED
  BY <1>1, <1>4 DEF Kept, b, n

\* The evidence a reader finds in a manifest is what the training earned.
LEMMA EvidenceIsEarned ==
  ASSUME NEW c, IsCandidate(c), NEW b, Kept(b, c), E!ProductionEvidence(b)
  PROVE  E!Earned(c)
<1>1. /\ c.mode = "hitl-retraining" /\ c.frozen /\ E!Rounded(c.coverage) >= 95000
      /\ c.minutes >= 100 /\ c.clips >= 20 /\ c.hours >= 300
  <2>1. c.mode = "hitl-retraining"
    BY DEF Kept, E!ProductionEvidence
  <2>2. c.frozen
    <3>1. b.holdout
      BY SMT DEF E!ProductionEvidence
    <3> QED
      BY <3>1, Zenon DEF Kept
  <2>3. E!Rounded(c.coverage) >= 95000 /\ c.minutes >= 100 /\ c.clips >= 20 /\ c.hours >= 300
    BY DEF Kept, E!ProductionEvidence
  <2> QED
    BY <2>1, <2>2, <2>3
<1>2. E!UpperCount[c.alerts + 1] < 100 * c.hours
  <2>1. E!BelowLimit(E!UpperBound(c.alerts, c.hours))
    BY DEF Kept, E!ProductionEvidence
  <2>2. c.hours \in Nat /\ c.hours # 0 /\ E!UpperCount[c.alerts + 1] \in Nat
    BY <1>1 DEF IsCandidate, E!UpperCount
  <2>3. E!UpperCount[c.alerts + 1] * 100 < c.hours * 10000
    BY <2>1, <2>2 DEF E!BelowLimit, E!UpperBound
  <2> QED
    BY <2>2, <2>3
<1>3. ASSUME NEW s \in E!Scopes, NEW m \in E!Required(s)
      PROVE  LET i == c.intervals[s][m] IN
             /\ i.groups >= 2 /\ i.fraction >= 95 /\ i.low # E!Unknown
             /\ i.low >= IF m \in DOMAIN E!MinimumLow THEN E!MinimumLow[m] ELSE 0
             /\ i.high <= IF m \in DOMAIN E!MaximumHigh THEN E!MaximumHigh[m] ELSE 100
  <2> DEFINE i == c.intervals[s][m]
  <2>1. E!IntervalIsProven(m, i)
    BY DEF Kept, E!ProductionEvidence
  <2>2. i.low \in Int /\ i.high \in Int /\ i.point \in Int
    BY DEF IsCandidate, IsInterval
  <2>3. m \in DOMAIN E!MinimumLow \cup DOMAIN E!MaximumHigh
        /\ DOMAIN E!MinimumLow \cap DOMAIN E!MaximumHigh = {}
    BY DEF E!Required, E!MinimumLow, E!MaximumHigh
  <2> HIDE DEF i
  <2>4. i.groups >= 2 /\ i.fraction >= 95 /\ 0 <= i.low /\ i.high <= 100 /\ E!PassesGate(m, i)
    BY <2>1 DEF E!IntervalIsProven, E!ValidIntervalRow
  <2>5. CASE m \in DOMAIN E!MinimumLow
    BY <2>2, <2>3, <2>4, <2>5 DEF E!PassesGate, E!Unknown, i
  <2>6. CASE m \in DOMAIN E!MaximumHigh
    BY <2>2, <2>3, <2>4, <2>6 DEF E!PassesGate, E!Unknown, i
  <2> QED
    BY <2>3, <2>5, <2>6
<1> QED
  BY <1>1, <1>2, <1>3 DEF E!Earned

\* Whatever evidence a training computes and whatever of thirteen changes its bundle
\* meets, what serves as production has earned every gate, what persists is that or an
\* allowed pilot, and what serves outside history is what was trained (authorize_bundle,
\* validate_manifest).
THEOREM ServingEarned ==
  ASSUME NEW c, IsCandidate(c)
  PROVE  E!ServingIsEarned(c)
<1> SUFFICES ASSUME NEW change \in E!Changes, NEW session \in E!Sessions,
                    E!Loads(E!Changed(E!Bundle(c), change), session)
             PROVE  LET b == E!Changed(E!Bundle(c), change) IN
                    /\ b.lifecycle.stage = "production" /\ ~session.history => E!Earned(c)
                    /\ session.persists =>
                         \/ b.lifecycle.stage = "production" /\ E!Earned(c)
                         \/ b.lifecycle.stage = "pilot" /\ session.pilots
                    /\ ~session.history =>
                         /\ <<b.files, b.policy, b.lock>> = <<"trained", "chosen", "sealed">>
                         /\ b.lifecycle.input = E!InputPolicy(c)
  BY DEF E!ServingIsEarned
<1> DEFINE b == E!Changed(E!Bundle(c), change)
<1>1. Kept(b, c)
  BY ChangedKeeps
<1>2. /\ ~(session.history /\ session.persists)
      /\ E!ManifestIsValid(b, session.history) /\ E!Authorized(b, session)
  BY DEF E!Loads
<1> HIDE DEF b
<1>3. session.persists => ~session.history
  BY <1>2
<1>4. ASSUME ~session.history PROVE ~E!Historical(b)
  BY <1>2, <1>4 DEF E!ManifestIsValid
<1>5. ASSUME ~session.history, b.lifecycle.stage = "production" PROVE E!Earned(c)
  <2>1. b.metricEligible
    BY <1>2, <1>5, Zenon DEF E!ManifestIsValid, E!EligibilityIsLawful
  <2>2. E!ProductionEvidence(b)
    BY <1>2, <1>4, <1>5, <2>1, Zenon DEF E!ManifestIsValid, E!EligibilityIsLawful
  <2> QED
    BY <1>1, <2>2, EvidenceIsEarned
<1>6. ASSUME session.persists
      PROVE  \/ b.lifecycle.stage = "production" /\ E!Earned(c)
             \/ b.lifecycle.stage = "pilot" /\ session.pilots
  <2>1. b.lifecycle.stage \in {"pilot", "candidate", "production"}
    BY <1>2 DEF E!ManifestIsValid, E!LifecycleIsLawful
  <2>2. b.lifecycle.stage = "pilot" => session.pilots
    BY <1>2, Zenon DEF E!Authorized
  <2>3. b.lifecycle.stage # "candidate"
    BY <1>2, <1>6, Zenon DEF E!Authorized
  <2> QED
    BY <1>3, <1>5, <1>6, <2>1, <2>2, <2>3
<1>7. ASSUME ~session.history
      PROVE  /\ <<b.files, b.policy, b.lock>> = <<"trained", "chosen", "sealed">>
             /\ b.lifecycle.input = E!InputPolicy(c)
  <2>1. b.files = b.entries /\ b.revision = E!Revision(b.entries, b.policy, b.lock, b.lifecycle.input)
    BY <1>2, <1>4, <1>7 DEF E!ManifestIsValid, E!FilesAreExact
  <2>2. E!Revision(b.entries, b.policy, b.lock, b.lifecycle.input)
          = E!Revision("trained", "chosen", "sealed", E!InputPolicy(c))
    BY <1>1, <2>1 DEF Kept
  <2>3. b.entries = "trained" /\ b.policy = "chosen" /\ b.lock = "sealed"
        /\ b.lifecycle.input = E!InputPolicy(c)
    BY <2>2 DEF E!Revision
  <2> QED
    BY <2>1, <2>3
<1> QED
  BY <1>5, <1>6, <1>7 DEF b

\* The bundle of an eligible candidate holds the evidence its readers ask for, if
\* its input policy is the one they expect.
LEMMA EvidenceIsWritten ==
  ASSUME NEW c, IsCandidate(c), E!Eligible(c), E!InputPolicy(c) = "canonical-v3"
  PROVE  E!ProductionEvidence(E!Bundle(c))
<1> DEFINE b == E!Bundle(c)
<1>1. /\ c.mode = "hitl-retraining" /\ c.frozen /\ c.coverage >= 95000
      /\ c.minutes >= 100 /\ c.clips >= 20 /\ c.hours >= 300
      /\ E!BelowLimit(E!UpperBound(c.alerts, c.hours))
      /\ \A s \in E!Scopes : \A m \in E!Required(s) : E!IntervalIsProven(m, c.intervals[s][m])
      /\ E!PromotionBlockers(c) = {}
  BY EligibleMeans
<1>2. Kept(b, c)
  BY BundleKeeps
<1>3. b.lifecycle.input = E!InputPolicy(c)
  BY DEF E!Bundle, E!Lifecycle
<1>4. b.blockers = E!PromotionBlockers(c)
  BY DEF E!Bundle
<1>5. b.alerts = c.alerts /\ b.rate = [count |-> c.alerts, hours |-> c.hours]
  BY DEF E!Bundle
<1>6. \A m \in DOMAIN b.points : b.points[m] = b.intervals["final"][m].point
  <2>1. b.points = [f1_macro |-> c.intervals["final"]["f1_macro"].point,
                    ece |-> c.intervals["final"]["ece"].point]
    BY DEF E!Bundle
  <2>2. b.intervals = c.intervals
    BY <1>2 DEF Kept
  <2> HIDE DEF b
  <2> QED
    BY <2>1, <2>2
<1> HIDE DEF b
<1>7. b.holdout
  <2>1. c.frozen
    BY <1>1, SMT
  <2> QED
    BY <1>2, <2>1, Zenon DEF Kept
<1>8. E!Rounded(c.coverage) >= 95000
  BY <1>1 DEF IsCandidate, E!Rounded
<1>9. /\ b.lifecycle.mode = "hitl-retraining" /\ b.lifecycle.input = "canonical-v3"
      /\ b.blockers = {}
      /\ b.coverage >= 95000 /\ b.minutes >= 100 /\ b.clips >= 20 /\ b.hours >= 300
      /\ b.upper = E!UpperBound(c.alerts, c.hours) /\ b.intervals = c.intervals
  BY <1>1, <1>2, <1>3, <1>4, <1>8 DEF Kept
<1>10. b.rate.count * b.hours = b.alerts * b.rate.hours
  BY <1>2, <1>5 DEF Kept
<1>11. E!BelowLimit(b.upper)
  BY <1>1, <1>9
<1>12. \A s \in E!Scopes : \A m \in E!Required(s) : E!IntervalIsProven(m, b.intervals[s][m])
  BY <1>1, <1>9
<1> QED
  BY <1>6, <1>7, <1>9, <1>10, <1>11, <1>12, SMT DEF E!ProductionEvidence, b

\* Whatever a training computes, its bundle is one the validator accepts and with the
\* stage the trainer chose, unless it calls a model eligible with an input policy that
\* the trainer does not look at (build_training_lifecycle, validate_manifest).
THEOREM TrainerAndReaderAgreed ==
  ASSUME NEW c, IsCandidate(c)
  PROVE  E!TrainerAndReaderAgree(c)
<1> SUFFICES ASSUME E!Evaluable(c)
             PROVE  E!ManifestIsValid(E!Bundle(c), FALSE)
                      <=> (E!Lifecycle(c).eligible => E!InputPolicy(c) = "canonical-v3")
  BY DEF E!TrainerAndReaderAgree
<1> DEFINE b == E!Bundle(c)
           l == E!Lifecycle(c)
           seed == c.mode = "seed-bootstrap"
           v3 == E!InputPolicy(c) = "canonical-v3"
<1>1. /\ b.lifecycle = l /\ b.files = b.entries /\ b.algorithm = "v2"
      /\ b.policy = "chosen" /\ b.lock = "sealed" /\ b.entries = "trained"
  BY DEF E!Bundle
<1>2. /\ b.metricEligible = E!Eligible(c) /\ b.provenanceEligible = E!Eligible(c)
      /\ b.holdout = c.frozen /\ b.descriptor = c.frozen /\ b.whole
  BY Zenon DEF E!Bundle
<1>3. Kept(b, c)
  BY BundleKeeps
<1>4. E!Eligible(c) => c.mode = "hitl-retraining"
  BY EligibleMeans
<1>5. l.eligible = (~seed /\ E!Eligible(c))
  BY Zenon DEF E!Lifecycle
<1>6. /\ l.mode = c.mode /\ l.input = E!InputPolicy(c)
      /\ l.supervision = IF seed THEN "weak-proxy" ELSE "human-validated-with-proxy-memory"
      /\ l.stage = IF seed THEN "pilot" ELSE IF E!Eligible(c) THEN "production" ELSE "candidate"
  BY DEF E!Lifecycle
<1>7. seed => E!InputPolicy(c) = "legacy-v1-bootstrap"
  BY DEF E!InputPolicy
<1>8. E!SectionsAreWhole(b)
  <2>1. b.points.f1_macro = c.intervals["final"]["f1_macro"].point
    BY DEF E!Bundle
  <2>2. E!ValidIntervalRow(c.intervals["final"]["f1_macro"]) /\ IsInterval(c.intervals["final"]["f1_macro"])
    <3>1. "final" \in E!Scopes /\ "f1_macro" \in E!Required("final")
      BY DEF E!Scopes, E!Required, E!MinimumLow
    <3> QED
      BY <3>1 DEF E!Evaluable, IsCandidate
  <2>3. b.points.f1_macro # E!Unknown
    <3> HIDE DEF b
    <3> QED
      BY <2>1, <2>2 DEF E!ValidIntervalRow, IsInterval, E!Unknown
  <2> QED
    BY <1>2, <2>3 DEF E!SectionsAreWhole
<1> HIDE DEF b, l
<1>9. ~E!Historical(b)
  BY <1>1 DEF E!Historical, E!NoAlgorithm
<1>10. E!HoldoutIsDescribed(b)
  BY <1>2, Zenon DEF E!HoldoutIsDescribed
<1>11. E!FilesAreExact(b)
  <2>1. b.revision = E!Revision("trained", "chosen", "sealed", E!InputPolicy(c))
    BY <1>3 DEF Kept
  <2> QED
    BY <1>1, <1>6, <2>1 DEF E!FilesAreExact
<1>12. c.mode = "seed-bootstrap" \/ c.mode = "hitl-retraining"
  BY DEF IsCandidate
<1>13. E!LifecycleIsLawful(l) <=> (l.eligible => v3)
  <2>1. CASE seed
    <3>1. ~l.eligible
      BY <1>5, <2>1, Zenon
    <3>2. l.mode = "seed-bootstrap" /\ l.stage = "pilot" /\ l.supervision = "weak-proxy"
          /\ l.input = "legacy-v1-bootstrap"
      BY <1>6, <1>7, <2>1
    <3>3. l.mode # "hitl-retraining" /\ l.stage \in {"pilot", "candidate", "production"}
      BY <3>2
    <3> QED
      BY <3>1, <3>2, <3>3, Zenon DEF E!LifecycleIsLawful
  <2>2. CASE ~seed
    <3>1. l.mode = "hitl-retraining" /\ l.supervision = "human-validated-with-proxy-memory"
          /\ l.stage \in {"candidate", "production"} /\ (l.input = "canonical-v3" <=> v3)
      BY <1>6, <1>12, <2>2
    <3>2. l.mode # "seed-bootstrap" /\ l.stage \in {"pilot", "candidate", "production"}
      BY <3>1
    <3> HIDE DEF v3
    <3> QED
      BY <3>1, <3>2, Zenon DEF E!LifecycleIsLawful
  <2> QED
    BY <2>1, <2>2
<1>14. ASSUME l.eligible => v3 PROVE E!EligibilityIsLawful(b)
  <2>1. b.metricEligible = b.provenanceEligible
    BY <1>2, Zenon
  <2>2. l.eligible = b.metricEligible
    <3>1. E!Eligible(c) => ~seed
      BY <1>4
    <3> HIDE DEF seed
    <3>2. (~seed /\ E!Eligible(c)) <=> E!Eligible(c)
      BY <3>1
    <3> QED
      BY <1>2, <1>5, <3>1, Zenon DEF E!Eligible
  <2>3. l.stage = "production" => b.metricEligible
    <3>1. l.stage = "production" => E!Eligible(c)
      BY <1>6
    <3> QED
      BY <1>2, <3>1, Zenon
  <2>4. b.metricEligible => E!ProductionEvidence(b)
    <3>1. ASSUME E!Eligible(c) PROVE E!ProductionEvidence(b)
      <4>1. ~seed
        BY <1>4, <3>1
      <4>2. l.eligible
        BY <1>5, <3>1, <4>1, Zenon
      <4> QED
        BY <1>14, <3>1, <4>2, EvidenceIsWritten DEF b
    <3> QED
      BY <1>2, <3>1, Zenon
  <2> QED
    BY <1>1, <2>1, <2>2, <2>3, <2>4, Zenon DEF E!EligibilityIsLawful
<1>15. E!ManifestIsValid(b, FALSE) <=> E!LifecycleIsLawful(l) /\ E!EligibilityIsLawful(b)
  BY <1>1, <1>8, <1>9, <1>10, <1>11, Zenon DEF E!ManifestIsValid
<1> HIDE DEF v3, seed
<1> QED
  BY <1>13, <1>14, <1>15, Zenon DEF b, l, v3

-----------------------------------------------------------------------------
(***************************************************************************)
(* What the rows of a training weigh: SupervisionWeights, for any numbers  *)
(* of human, proxy and synthetic rows of each state, any targets and any   *)
(* limits.  A quotient grows with what is divided, so a balance keeps the  *)
(* order of the weights; and the cap is put on after the balance.          *)
(***************************************************************************)
CONSTANTS Target, Unit, SyntheticPercent, MaxClassWeight

W == INSTANCE SupervisionWeights

\* What is asked of the targets and of the limits of a weight.
WeightConstants ==
    /\ Unit \in Nat /\ MaxClassWeight \in Nat /\ SyntheticPercent \in 0 .. 100
    /\ \A s \in 0 .. 2 : Target[s] \in Nat \ {0}

\* A number for each kind of row and each state: how many rows, or what one weighs.
Tables == [human : [0 .. 2 -> Nat], proxy : [0 .. 2 -> Nat], synthetic : [0 .. 2 -> Nat]]

\* A person outweighs a rule, and a rule what is made of its rows.
Ordered(w) == \A s \in 0 .. 2 : w.synthetic[s] <= w.proxy[s] /\ w.proxy[s] <= w.human[s]

LEMMA Quotient ==
  ASSUME NEW a \in Nat, NEW d \in Nat, d # 0
  PROVE  a \div d \in Nat /\ d * (a \div d) <= a /\ a < d * (a \div d) + d
OBVIOUS

LEMMA QuotientGrows ==
  ASSUME NEW a \in Nat, NEW b \in Nat, NEW d \in Nat, d # 0, a <= b
  PROVE  a \div d <= b \div d
<1> DEFINE p == a \div d
           q == b \div d
<1>1. p \in Nat /\ d * p <= a /\ q \in Nat /\ b < d * q + d
  BY Quotient
<1> HIDE DEF p, q
<1>2. d * p < d * (q + 1)
  BY <1>1
<1>3. p < q + 1
  <2>1. SUFFICES ASSUME q + 1 <= p PROVE FALSE
    BY <1>1
  <2>2. d * (q + 1) <= d * p
    BY <1>1, <2>1
  <2> QED
    BY <1>1, <1>2, <2>2
<1> QED
  BY <1>1, <1>3 DEF p, q

LEMMA QuotientBelow ==
  ASSUME NEW a \in Nat, NEW d \in Nat, NEW w \in Nat, d # 0, a <= d * w
  PROVE  a \div d <= w
<1> DEFINE p == a \div d
<1>1. p \in Nat /\ d * p <= a
  BY Quotient
<1> HIDE DEF p
<1>2. d * p <= d * w
  BY <1>1
<1>3. p <= w
  <2>1. SUFFICES ASSUME w + 1 <= p PROVE FALSE
    BY <1>1
  <2>2. d * (w + 1) <= d * p
    BY <1>1, <2>1
  <2> QED
    BY <1>1, <1>2, <2>2
<1> QED
  BY <1>3 DEF p

LEMMA TableFacts ==
  /\ \A r \in Tables, s \in 0 .. 2 : r.human[s] \in Nat /\ r.proxy[s] \in Nat /\ r.synthetic[s] \in Nat
  /\ \A h, p, y \in [0 .. 2 -> Nat] :
        /\ W!Table(h, p, y) \in Tables
        /\ W!Table(h, p, y).human = h /\ W!Table(h, p, y).proxy = p /\ W!Table(h, p, y).synthetic = y
BY DEF Tables, W!Table

\* What the rows of a state weigh together.
LEMMA SumFacts ==
  ASSUME NEW r \in Tables, NEW w \in Tables
  PROVE  /\ W!Sums(r, w) \in [0 .. 2 -> Nat]
         /\ W!Sums(r, w)[0] = r.human[0] * w.human[0] + r.proxy[0] * w.proxy[0]
                                + r.synthetic[0] * w.synthetic[0]
<1>1. ASSUME NEW s \in 0 .. 2
      PROVE  r.human[s] * w.human[s] + r.proxy[s] * w.proxy[s] + r.synthetic[s] * w.synthetic[s] \in Nat
  <2>1. \A a, b \in Nat : a * b \in Nat
    OBVIOUS
  <2>2. \A a, b, c \in Nat : a + b + c \in Nat
    OBVIOUS
  <2>3. /\ r.human[s] * w.human[s] \in Nat /\ r.proxy[s] * w.proxy[s] \in Nat
        /\ r.synthetic[s] * w.synthetic[s] \in Nat
    BY <2>1, TableFacts
  <2> QED
    BY <2>2, <2>3
<1> QED
  BY <1>1 DEF W!Sums, W!States

\* Half of what the Normal rows weigh is a limit for the synthetic ones, and lowering
\* their weight leaves everything else as it was.
LEMMA CappedHolds ==
  ASSUME NEW r \in Tables, NEW w \in Tables, Ordered(w)
  PROVE  LET c == W!Capped(r, w) IN
         /\ c \in Tables /\ Ordered(c)
         /\ 2 * r.synthetic[2] * c.synthetic[2] <= W!Sums(r, c)[0]
<1> DEFINE c == W!Capped(r, w)
           total == W!Sums(r, w)[0]
           limit == total \div 2
           count == r.synthetic[2]
           low == limit \div count
<1>1. total \in Nat /\ count \in Nat /\ w.synthetic[2] \in Nat
  BY SumFacts, TableFacts
<1>2. limit \in Nat /\ 2 * limit <= total
  <2> HIDE DEF total
  <2> QED
    BY <1>1
<1>3. c = IF count * w.synthetic[2] <= limit THEN w ELSE [w EXCEPT !.synthetic[2] = low]
  BY DEF W!Capped, W!Normal, W!Congested
<1> HIDE DEF c, total, limit, count, low
<1>4. CASE count * w.synthetic[2] <= limit
  <2>1. c = w
    BY <1>3, <1>4
  <2>2. 2 * (count * w.synthetic[2]) <= total
    <3>1. count * w.synthetic[2] \in Nat
      BY <1>1
    <3> QED
      BY <1>1, <1>2, <1>4, <3>1
  <2>3. 2 * count * w.synthetic[2] <= total
    <3>1. \A a, b \in Nat : 2 * a * b = 2 * (a * b)
      OBVIOUS
    <3> QED
      BY <1>1, <2>2, <3>1
  <2> QED
    BY <2>1, <2>3 DEF c, total, count
<1>5. CASE ~(count * w.synthetic[2] <= limit)
  <2>1. count # 0
    BY <1>1, <1>2, <1>5
  <2>2. low \in Nat /\ count * low <= limit
    BY <1>1, <1>2, <2>1, Quotient DEF low
  <2>3. low <= w.synthetic[2]
    <3>1. limit <= count * w.synthetic[2]
      <4>1. count * w.synthetic[2] \in Nat
        BY <1>1
      <4> QED
        BY <1>2, <1>5, <4>1
    <3> QED
      BY <1>1, <1>2, <2>1, <3>1, QuotientBelow DEF low
  <2>4. c = [w EXCEPT !.synthetic[2] = low]
    BY <1>3, <1>5
  <2>5. c \in Tables /\ c.human = w.human /\ c.proxy = w.proxy
        /\ c.synthetic = [w.synthetic EXCEPT ![2] = low]
    BY <2>2, <2>4 DEF Tables
  <2>6. c.synthetic[2] = low /\ \A s \in 0 .. 2 : c.synthetic[s] <= w.synthetic[s]
    <3>1. w.synthetic \in [0 .. 2 -> Nat]
      BY DEF Tables
    <3> QED
      BY <2>3, <2>5, <3>1
  <2>7. c.synthetic[0] = w.synthetic[0]
    <3>1. w.synthetic \in [0 .. 2 -> Nat]
      BY DEF Tables
    <3> QED
      BY <2>5, <3>1
  <2>8. Ordered(c)
    <3>1. ASSUME NEW s \in 0 .. 2 PROVE c.synthetic[s] <= c.proxy[s] /\ c.proxy[s] <= c.human[s]
      <4>1. /\ c.synthetic[s] \in Nat /\ w.synthetic[s] \in Nat /\ w.proxy[s] \in Nat
        BY <2>5, TableFacts
      <4>2. c.synthetic[s] <= w.synthetic[s] /\ w.synthetic[s] <= w.proxy[s] /\ w.proxy[s] <= w.human[s]
        BY <2>6 DEF Ordered
      <4>3. c.proxy[s] = w.proxy[s] /\ c.human[s] = w.human[s]
        BY <2>5
      <4>4. \A x, y, z \in Nat : x <= y /\ y <= z => x <= z
        OBVIOUS
      <4> QED
        BY <4>1, <4>2, <4>3, <4>4
    <3> QED
      BY <3>1 DEF Ordered
  <2>9. W!Sums(r, c)[0] = total
    <3>1. W!Sums(r, c)[0] = r.human[0] * w.human[0] + r.proxy[0] * w.proxy[0]
                              + r.synthetic[0] * w.synthetic[0]
      <4>1. W!Sums(r, c)[0] = r.human[0] * c.human[0] + r.proxy[0] * c.proxy[0]
                                + r.synthetic[0] * c.synthetic[0]
        BY <2>5, SumFacts
      <4>2. c.human = w.human /\ c.proxy = w.proxy
        BY <2>5
      <4> QED
        BY <4>1, <4>2, <2>7
    <3>2. total = r.human[0] * w.human[0] + r.proxy[0] * w.proxy[0]
                    + r.synthetic[0] * w.synthetic[0]
      BY SumFacts DEF total
    <3> QED
      BY <3>1, <3>2
  <2>10. 2 * count * low <= total
    <3>1. \A a, b \in Nat : 2 * a * b = 2 * (a * b) /\ a * b \in Nat
      OBVIOUS
    <3>2. 2 * (count * low) <= total
      BY <1>1, <1>2, <2>2, <3>1
    <3> QED
      BY <1>1, <2>2, <3>1, <3>2
  <2> QED
    BY <2>5, <2>6, <2>8, <2>9, <2>10 DEF c, count
<1> QED
  BY <1>4, <1>5

\* The weights of the supervision, of any mode and of any reviews.
LEMMA SupervisionIsOrdered ==
  ASSUME WeightConstants, NEW t, t.rows \in Tables
  PROVE  W!Supervision(t) \in Tables /\ Ordered(W!Supervision(t))
<1> DEFINE proxy == [s \in W!States |-> IF t.mode = "seed-bootstrap" THEN Unit
                                        ELSE W!ProxyWeight(s, t.rows.human)]
           human == [s \in W!States |-> Unit]
           made == [s \in W!States |-> (proxy[s] * SyntheticPercent) \div 100]
           w == W!Table(human, proxy, made)
<1>1. ASSUME NEW s \in 0 .. 2
      PROVE  W!ProxyWeight(s, t.rows.human) \in Nat /\ W!ProxyWeight(s, t.rows.human) <= Unit
  <2> DEFINE left == W!AtLeast(0, Target[s] - t.rows.human[s])
             goal == Target[s]
  <2>1. goal \in Nat /\ goal # 0 /\ t.rows.human[s] \in Nat /\ Unit \in Nat
    BY TableFacts DEF WeightConstants
  <2>2. left \in Nat /\ left <= goal
    BY <2>1 DEF W!AtLeast
  <2>3. W!ProxyWeight(s, t.rows.human) = (Unit * left) \div (2 * goal)
    BY DEF W!ProxyWeight
  <2> HIDE DEF left, goal
  <2>4. Unit * left \in Nat /\ 2 * goal \in Nat /\ 2 * goal # 0
    BY <2>1, <2>2
  <2>5. Unit * left <= (2 * goal) * Unit
    <3>1. Unit * left <= Unit * goal
      BY <2>1, <2>2
    <3>2. Unit * goal \in Nat /\ (2 * goal) * Unit = 2 * (Unit * goal)
      BY <2>1
    <3> QED
      BY <2>4, <3>1, <3>2
  <2> QED
    BY <2>1, <2>3, <2>4, <2>5, Quotient, QuotientBelow
<1>2. human \in [0 .. 2 -> Nat] /\ proxy \in [0 .. 2 -> Nat] /\ \A s \in 0 .. 2 : proxy[s] <= human[s]
  BY <1>1 DEF W!States, WeightConstants
<1> HIDE DEF human, proxy
<1>3. ASSUME NEW s \in 0 .. 2
      PROVE  /\ (proxy[s] * SyntheticPercent) \div 100 \in Nat
             /\ (proxy[s] * SyntheticPercent) \div 100 <= proxy[s]
  <2> DEFINE p == proxy[s]
             q == SyntheticPercent
  <2>1. p \in Nat /\ q \in Nat /\ q <= 100
    BY <1>2 DEF WeightConstants
  <2> HIDE DEF p, q
  <2>2. p * q \in Nat /\ p * q <= 100 * p
    BY <2>1
  <2>3. (p * q) \div 100 \in Nat /\ (p * q) \div 100 <= p
    BY <2>1, <2>2, Quotient, QuotientBelow
  <2> QED
    BY <2>3 DEF p, q
<1>4. made \in [0 .. 2 -> Nat] /\ \A s \in 0 .. 2 : made[s] <= proxy[s]
  BY <1>3 DEF W!States
<1> HIDE DEF made
<1>5. w \in Tables /\ Ordered(w)
  <2>1. w \in Tables /\ w.human = human /\ w.proxy = proxy /\ w.synthetic = made
    BY <1>2, <1>4, TableFacts
  <2> HIDE DEF w
  <2> QED
    BY <1>2, <1>4, <2>1 DEF Ordered
<1>6. W!Supervision(t) = W!Capped(t.rows, w)
  BY DEF W!Supervision, human, proxy, made
<1> HIDE DEF w
<1> QED
  BY <1>5, <1>6, CappedHolds

LEMMA ActiveIsTable ==
  ASSUME NEW r \in Tables, NEW w \in Tables
  PROVE  W!Active(r, w) \in Tables
<1> DEFINE a(kind) == [s \in W!States |-> IF w[kind][s] > 0 THEN r[kind][s] ELSE 0]
<1>1. DOMAIN r = {"human", "proxy", "synthetic"}
  BY DEF Tables
<1>2. \A kind \in {"human", "proxy", "synthetic"} : a(kind) \in [0 .. 2 -> Nat]
  BY DEF Tables, W!States
<1>3. W!Active(r, w) = [kind \in {"human", "proxy", "synthetic"} |-> a(kind)]
  BY <1>1 DEF W!Active
<1> HIDE DEF a
<1> QED
  BY <1>2, <1>3 DEF Tables

\* Weighing the states alike keeps the order within each of them.
LEMMA BalancedIsOrdered ==
  ASSUME WeightConstants, NEW r \in Tables, NEW w \in Tables, Ordered(w)
  PROVE  W!Balanced(r, w) \in Tables /\ Ordered(W!Balanced(r, w))
<1> DEFINE count == [s \in W!States |-> W!Real(r, s) + r.synthetic[s]]
           P == {s \in W!States : count[s] > 0}
           present == W!Cardinality(P)
           total == W!Total(count)
           of(s, v) == IF count[s] = 0 THEN 0
                       ELSE W!AtMost(v * MaxClassWeight, (v * total) \div (present * count[s]))
           b(kind) == [s \in W!States |-> of(s, w[kind][s])]
<1>1. count \in [0 .. 2 -> Nat]
  BY TableFacts DEF W!States, W!Real
<1>2. DOMAIN w = {"human", "proxy", "synthetic"}
  BY DEF Tables
<1>3. W!Balanced(r, w) = [kind \in DOMAIN w |-> b(kind)]
  BY DEF W!Balanced
<1> HIDE DEF count
<1>4. total \in Nat
  BY <1>1 DEF W!Total
<1>5. IsFiniteSet(P) /\ present \in Nat
  <2>1. \A m, n \in Int : IsFiniteSet(m .. n)
    BY FS_Interval
  <2>2. IsFiniteSet(P)
    <3>0. 0 \in Int /\ 2 \in Int
      OBVIOUS
    <3>1. IsFiniteSet(0 .. 2)
      BY <2>1, <3>0, Zenon
    <3>2. P \subseteq 0 .. 2
      BY DEF W!States
    <3> HIDE DEF P
    <3> QED
      BY <3>1, <3>2, FS_Subset
  <2> HIDE DEF P
  <2>3. W!Cardinality(P) = Cardinality(P)
    BY DEF W!Cardinality, Cardinality
  <2> QED
    BY <2>2, <2>3, FS_CardinalityType
<1>6. ASSUME NEW s \in 0 .. 2, count[s] # 0 PROVE present # 0
  <2>1. s \in P
    BY <1>1, <1>6 DEF W!States
  <2> HIDE DEF P
  <2>2. W!Cardinality(P) = Cardinality(P)
    BY DEF W!Cardinality, Cardinality
  <2> QED
    BY <1>5, <2>1, FS_EmptySet, <2>2
<1> HIDE DEF present, total
<1>7. ASSUME NEW s \in 0 .. 2, NEW v \in Nat, NEW x \in Nat, v <= x
      PROVE  of(s, v) \in Nat /\ of(s, v) <= of(s, x)
  <2>1. CASE count[s] = 0
    BY <2>1
  <2>2. CASE count[s] # 0
    <3> DEFINE d == present * count[s]
               m == MaxClassWeight
    <3>1. d \in Nat /\ d # 0 /\ m \in Nat
      BY <1>1, <1>5, <1>6, <2>2 DEF WeightConstants
    <3>2. of(s, v) = W!AtMost(v * m, (v * total) \div d)
          /\ of(s, x) = W!AtMost(x * m, (x * total) \div d)
      BY <2>2
    <3> HIDE DEF of, d, m
    <3>3. /\ v * m \in Nat /\ x * m \in Nat /\ v * m <= x * m
          /\ v * total \in Nat /\ x * total \in Nat /\ v * total <= x * total
      BY <1>4, <1>7, <3>1
    <3> DEFINE p == (v * total) \div d
               q == (x * total) \div d
    <3>4. p \in Nat /\ q \in Nat /\ p <= q
      BY <3>1, <3>3, Quotient, QuotientGrows
    <3> HIDE DEF p, q
    <3>5. W!AtMost(v * m, p) \in Nat /\ W!AtMost(v * m, p) <= W!AtMost(x * m, q)
      BY <3>3, <3>4 DEF W!AtMost
    <3> QED
      BY <3>2, <3>5 DEF p, q
  <2> QED
    BY <2>1, <2>2
<1> HIDE DEF of
<1>8. \A kind \in {"human", "proxy", "synthetic"} : \A s \in 0 .. 2 : w[kind][s] \in Nat
  BY DEF Tables
<1>9. \A kind \in {"human", "proxy", "synthetic"} :
         b(kind) \in [0 .. 2 -> Nat] /\ \A s \in 0 .. 2 : b(kind)[s] = of(s, w[kind][s])
  <2> TAKE kind \in {"human", "proxy", "synthetic"}
  <2>1. \A s \in 0 .. 2 : of(s, w[kind][s]) \in Nat
    <3> TAKE s \in 0 .. 2
    <3>1. w[kind][s] \in Nat
      BY <1>8
    <3>2. w[kind][s] <= w[kind][s]
      BY <3>1
    <3> QED
      BY <1>7, <3>1, <3>2
  <2>2. b(kind) = [s \in 0 .. 2 |-> of(s, w[kind][s])]
    BY DEF W!States
  <2> QED
    BY <2>1, <2>2
<1> HIDE DEF b
<1>10. /\ W!Balanced(r, w) \in Tables
       /\ W!Balanced(r, w).human = b("human") /\ W!Balanced(r, w).proxy = b("proxy")
       /\ W!Balanced(r, w).synthetic = b("synthetic")
  BY <1>2, <1>3, <1>9 DEF Tables
<1>11. ASSUME NEW s \in 0 .. 2
       PROVE  b("synthetic")[s] <= b("proxy")[s] /\ b("proxy")[s] <= b("human")[s]
  <2>1. w.synthetic[s] <= w.proxy[s] /\ w.proxy[s] <= w.human[s]
    BY DEF Ordered
  <2>2. w.synthetic[s] \in Nat /\ w.proxy[s] \in Nat /\ w.human[s] \in Nat
    BY TableFacts
  <2>3. of(s, w.synthetic[s]) <= of(s, w.proxy[s]) /\ of(s, w.proxy[s]) <= of(s, w.human[s])
    BY <1>7, <2>1, <2>2
  <2> QED
    BY <1>9, <2>3
<1> QED
  BY <1>10, <1>11 DEF Ordered

\* The rows of a strategy without synthetic ones weigh nothing beside the Normal ones.
LEMMA NoneMade ==
  ASSUME NEW r \in Tables, NEW w \in Tables, r.synthetic[2] = 0
  PROVE  2 * r.synthetic[2] * w.synthetic[2] <= W!Sums(r, w)[0]
<1>1. w.synthetic[2] \in Nat /\ W!Sums(r, w)[0] \in Nat
  BY TableFacts, SumFacts
<1>2. \A n \in Nat : 2 * 0 * n = 0
  OBVIOUS
<1>3. 2 * r.synthetic[2] * w.synthetic[2] = 0
  BY <1>1, <1>2
<1> QED
  BY <1>1, <1>3

\* Drawing again: how many rows there are afterwards.
LEMMA OversampledFacts ==
  ASSUME NEW r \in Tables, NEW d \in W!Draws(r)
  PROVE  LET o == W!Oversampled(r, d) IN
         /\ o \in Tables /\ o.synthetic[2] = 0
         /\ \A s \in 0 .. 2 \ {0} :
               \/ W!Real(o, s) = W!Real(r, s)
               \/ W!Real(o, s) <= W!AtLeast(1, W!Real(r, 0) \div 2)
<1> DEFINE o == W!Oversampled(r, d)
           e(s) == W!Extra(r, s)
           human == [s \in W!States |-> r.human[s] + d[s + 1]]
           proxy == [s \in W!States |-> r.proxy[s] + e(s) - d[s + 1]]
           none == [s \in W!States |-> 0]
           half == W!AtLeast(1, W!Real(r, 0) \div 2)
<1>1. \A s \in 0 .. 2 : r.human[s] \in Nat /\ r.proxy[s] \in Nat /\ W!Real(r, s) \in Nat
                        /\ W!Real(r, s) = r.human[s] + r.proxy[s]
  BY TableFacts DEF W!Real
<1>2. half \in Nat
  <2>1. W!Real(r, 0) \div 2 \in Nat
    BY <1>1
  <2> QED
    BY <2>1 DEF W!AtLeast
<1>3. ASSUME NEW s \in 0 .. 2
      PROVE  /\ e(s) \in Nat /\ (s = 0 => e(s) = 0)
             /\ s # 0 => e(s) = 0 \/ W!Real(r, s) + e(s) <= half
  <2>1. CASE s = 0 \/ W!Real(r, s) = 0
    <3>1. e(s) = 0
      BY <2>1 DEF W!Extra, W!Normal
    <3> HIDE DEF e
    <3> QED
      BY <3>1
  <2>2. CASE s # 0 /\ W!Real(r, s) # 0
    <3> DEFINE four == 4 * W!Real(r, s)
               reach == W!AtMost(half, four)
    <3>1. e(s) = W!AtLeast(0, reach - W!Real(r, s))
      BY <2>2 DEF W!Extra, W!Normal
    <3>2. W!Real(r, s) \in Nat /\ four \in Nat
      BY <1>1
    <3> HIDE DEF e, half, four
    <3>3. reach \in Nat /\ reach <= half
      BY <1>2, <3>2 DEF W!AtMost
    <3> HIDE DEF reach
    <3> QED
      BY <1>2, <2>2, <3>1, <3>2, <3>3 DEF W!AtLeast
  <2> QED
    BY <2>1, <2>2
<1> HIDE DEF half
<1>4. \A s \in 0 .. 2 : d[s + 1] \in 0 .. e(s)
  <2> HIDE DEF e
  <2>1. PICK n \in 0 .. e(1), m \in 0 .. e(2) : d = <<0, n, m>>
    BY DEF W!Draws, W!Congested, e
  <2>2. d[1] = 0 /\ d[2] = n /\ d[3] = m
    BY <2>1
  <2>3. d[0 + 1] \in 0 .. e(0) /\ d[1 + 1] \in 0 .. e(1) /\ d[2 + 1] \in 0 .. e(2)
    BY <1>3, <2>1, <2>2
  <2> QED
    BY <2>3
<1> HIDE DEF e
<1>5. human \in [0 .. 2 -> Nat] /\ proxy \in [0 .. 2 -> Nat] /\ none \in [0 .. 2 -> Nat]
  BY <1>1, <1>3, <1>4 DEF W!States
<1>6. o = W!Table(human, proxy, none)
  BY DEF W!Oversampled, e
<1>7. ASSUME NEW s \in 0 .. 2
      PROVE  human[s] + proxy[s] = W!Real(r, s) + e(s)
  <2>1. human[s] = r.human[s] + d[s + 1] /\ proxy[s] = r.proxy[s] + e(s) - d[s + 1]
    BY DEF W!States
  <2>2. d[s + 1] \in Nat /\ e(s) \in Nat
    BY <1>3, <1>4
  <2> HIDE DEF human, proxy
  <2> QED
    BY <1>1, <2>1, <2>2
<1>8. none[2] = 0
  BY DEF W!States
<1> HIDE DEF o, human, proxy, none
<1>9. o \in Tables /\ o.human = human /\ o.proxy = proxy /\ o.synthetic = none
  BY <1>5, <1>6, TableFacts
<1>10. \A s \in 0 .. 2 : W!Real(o, s) = W!Real(r, s) + e(s)
  BY <1>7, <1>9 DEF W!Real
<1>11. ASSUME NEW s \in 0 .. 2 \ {0}
       PROVE  W!Real(o, s) = W!Real(r, s) \/ W!Real(o, s) <= half
  BY <1>1, <1>3, <1>10
<1> QED
  BY <1>8, <1>9, <1>11 DEF o, half

\* However the rows are divided between people, rules and synthesis, and whatever the
\* targets and limits: synthetic rows weigh at most half of the Normal ones in the fit,
\* no row of a rule outweighs a person's of its state, and no draw makes a state
\* outnumber half of the Normal rows (build_supervision_weights,
\* build_balance_candidates, select_balance_candidate).
THEOREM PeopleAlwaysOutweigh ==
  ASSUME WeightConstants, NEW t, t.rows \in Tables
  PROVE  W!PeopleOutweighRules(t)
<1> DEFINE v == W!Supervision(t)
           rows == W!Active(t.rows, v)
           real == [rows EXCEPT !.synthetic = [s \in W!States |-> 0]]
<1>1. v \in Tables /\ Ordered(v) /\ rows \in Tables
  BY SupervisionIsOrdered, ActiveIsTable
<1> HIDE DEF v, rows
<1>2. real \in Tables /\ real.synthetic[2] = 0
  <2>1. [s \in W!States |-> 0] \in [0 .. 2 -> Nat] /\ [s \in W!States |-> 0][2] = 0
    BY DEF W!States
  <2> QED
    BY <1>1, <2>1 DEF Tables
<1> HIDE DEF real
<1>3. ASSUME NEW r \in Tables
      PROVE  W!Balanced(r, v) \in Tables /\ Ordered(W!Balanced(r, v))
  BY <1>1, BalancedIsOrdered
<1> DEFINE Fair(c, w) ==
             /\ 2 * c.rows.synthetic[2] * w.synthetic[2] <= W!Sums(c.rows, w)[0]
             /\ Ordered(w)
             /\ c.strategy = "moderate-oversampling" =>
                  \A s \in 0 .. 2 \ {0} :
                     \/ W!Real(c.rows, s) = W!Real(rows, s)
                     \/ W!Real(c.rows, s) <= W!AtLeast(1, W!Real(rows, 0) \div 2)
<1>4. ASSUME NEW c \in W!Candidates(rows) PROVE Fair(c, W!FitWeights(c, v))
  <2>1. CASE c = [strategy |-> "class-weights", rows |-> real]
    <3>1. c.strategy = "class-weights" /\ c.rows = real
      BY <2>1
    <3>2. W!FitWeights(c, v) = W!Balanced(real, v)
      BY <3>1 DEF W!FitWeights
    <3>3. 2 * real.synthetic[2] * W!Balanced(real, v).synthetic[2]
            <= W!Sums(real, W!Balanced(real, v))[0]
      BY <1>2, <1>3, NoneMade
    <3> QED
      BY <1>2, <1>3, <3>1, <3>2, <3>3
  <2>2. CASE c = [strategy |-> "synthetic-congestion", rows |-> rows]
    <3>1. c.strategy = "synthetic-congestion" /\ c.rows = rows
      BY <2>2
    <3> DEFINE b == W!Balanced(rows, v)
               w == W!Capped(rows, b)
    <3>2. W!FitWeights(c, v) = w
      BY <3>1 DEF W!FitWeights
    <3>3. b \in Tables /\ Ordered(b)
      BY <1>1, <1>3
    <3> HIDE DEF b
    <3>4. Ordered(w) /\ 2 * rows.synthetic[2] * w.synthetic[2] <= W!Sums(rows, w)[0]
      BY <1>1, <3>3, CappedHolds
    <3> HIDE DEF w
    <3> QED
      BY <3>1, <3>2, <3>4
  <2>3. ASSUME NEW d \in W!Draws(rows),
               c = [strategy |-> "moderate-oversampling", rows |-> W!Oversampled(rows, d)]
        PROVE  Fair(c, W!FitWeights(c, v))
    <3> DEFINE o == W!Oversampled(rows, d)
    <3>1. c.strategy = "moderate-oversampling" /\ c.rows = o
      BY <2>3
    <3>2. /\ o \in Tables /\ o.synthetic[2] = 0
          /\ \A s \in 0 .. 2 \ {0} :
                \/ W!Real(o, s) = W!Real(rows, s)
                \/ W!Real(o, s) <= W!AtLeast(1, W!Real(rows, 0) \div 2)
      BY <1>1, OversampledFacts
    <3> HIDE DEF o
    <3>3. W!FitWeights(c, v) = W!Balanced(o, v)
      BY <3>1 DEF W!FitWeights
    <3>4. 2 * o.synthetic[2] * W!Balanced(o, v).synthetic[2] <= W!Sums(o, W!Balanced(o, v))[0]
      BY <1>3, <3>2, NoneMade
    <3> QED
      BY <1>3, <3>1, <3>2, <3>3, <3>4
  <2>4. \/ c = [strategy |-> "class-weights", rows |-> real]
        \/ c = [strategy |-> "synthetic-congestion", rows |-> rows]
        \/ \E d \in W!Draws(rows) :
              c = [strategy |-> "moderate-oversampling", rows |-> W!Oversampled(rows, d)]
    BY DEF W!Candidates, W!OnlyReal, real
  <2> HIDE DEF Fair
  <2> QED
    BY <2>1, <2>2, <2>3, <2>4
<1> QED
  BY <1>4 DEF W!PeopleOutweighRules, W!Normal, W!Congested, W!States, Ordered, v, rows
=============================================================================
