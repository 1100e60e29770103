--------------------------- MODULE BundleDirectories ---------------------------
(***************************************************************************)
(* build_and_publish_bundle and publish_bundle_copy of                     *)
(* training/bundle_export.py, from a staged and validated bundle on:       *)
(* _replace_validated_directory moves directories, each move may fail, and *)
(* the process may be interrupted or die between any two of them.          *)
(***************************************************************************)
EXTENDS Naturals, FiniteSets

CONSTANTS
    Publishers,    \* processes that publish
    Directories,   \* destinations: a workspace or a directory of Drive
    MaxTroubles,   \* bound of failures, interruptions and crashes
    Nobody         \* no bundle, no owner

\* A lock that a process has left names none of those that still publish.
ASSUME DirectoryConstants ==
    /\ Nobody \notin Publishers \cup Directories
    /\ "left" \notin Publishers

VARIABLES
    target,        \* the bundle at each destination
    lock,          \* the owner of .publish.lock, whom a crash does not free
    backups,       \* backups that nobody will touch again
    publication,   \* where each publisher is
    validated,     \* history: the last bundle each destination was validated with
    troubles       \* failures, interruptions and crashes so far

directoryVars == <<target, lock, backups, publication, validated, troubles>>

\* A bundle on disk is whole, or a directory that some failure left in parts.
Whole(bundle) == [bundle |-> bundle, whole |-> TRUE]
Parts(copy)   == [copy EXCEPT !.whole = FALSE]

Idle == [at |-> "idle", into |-> Nobody, bundle |-> Nobody, moved |-> Nobody]

DirectoriesInit ==
    /\ target = [d \in Directories |-> Nobody]
    /\ lock = [d \in Directories |-> Nobody]
    /\ backups = [d \in Directories |-> {}]
    /\ publication = [p \in Publishers |-> Idle]
    /\ validated = [d \in Directories |-> Nobody]
    /\ troubles = 0

Into(p)    == publication[p].into
Moved(p)   == publication[p].moved
PubAt(p, point) == publication[p].at = point
Move(p, point) == publication' = [publication EXCEPT ![p].at = point]
Becomes(d, copy) == target' = [target EXCEPT ![d] = copy]

Trouble == troubles < MaxTroubles /\ troubles' = troubles + 1
Fine == UNCHANGED troubles

\* The backup of a publication that ends stays where it is.
Keep(d, copy) ==
    backups' = IF copy = Nobody THEN backups ELSE [backups EXCEPT ![d] = @ \cup {copy}]

-----------------------------------------------------------------------------
\* The bundle is built in a staging directory and validated there.
Stage(p, d, bundle) ==
    publication' = [publication EXCEPT
        ![p] = [at |-> "staged", into |-> d, bundle |-> bundle, moved |-> Nobody]]

\* Mutant: the lock is opened without O_EXCL.
TakeLockOfAnother(p) ==
    /\ PubAt(p, "staged")
    /\ lock' = [lock EXCEPT ![Into(p)] = p] /\ Move(p, "locked")
    /\ Fine /\ UNCHANGED <<target, backups, validated>>
\* os.open(lock, O_CREAT | O_EXCL); another owner refuses the publication.
TakeLock(p) ==
    /\ PubAt(p, "staged")
    /\ IF lock[Into(p)] = Nobody
       THEN lock' = [lock EXCEPT ![Into(p)] = p] /\ Move(p, "locked")
       ELSE Move(p, "refused") /\ UNCHANGED lock
    /\ Fine /\ UNCHANGED <<target, backups, validated>>

\* os.replace(target, backup), if there is a target.
MoveOld(p) ==
    /\ PubAt(p, "locked")
    /\ \/ /\ publication' = [publication EXCEPT ![p].at = "moved", ![p].moved = target[Into(p)]]
          /\ Becomes(Into(p), Nobody) /\ Fine
       \/ Trouble /\ target[Into(p)] # Nobody /\ Move(p, "failed") /\ UNCHANGED target
    /\ UNCHANGED <<lock, backups, validated>>

\* os.replace(staging, target); on a mounted Drive what arrives may not be whole.
Install(p) ==
    /\ PubAt(p, "moved")
    /\ \/ Becomes(Into(p), Whole(publication[p].bundle)) /\ Move(p, "installed") /\ Fine
       \/ Becomes(Into(p), Parts(Whole(publication[p].bundle))) /\ Move(p, "installed") /\ Trouble
       \/ Move(p, "removed") /\ Trouble /\ UNCHANGED target
    /\ UNCHANGED <<lock, backups, validated>>

\* Mutant: the backup is dropped as soon as the candidate is in place.
ValidateWithoutBackup(p) ==
    /\ PubAt(p, "installed")
    /\ \/ /\ target[Into(p)].whole
          /\ publication' = [publication EXCEPT ![p].at = "valid", ![p].moved = Nobody]
          /\ validated' = [validated EXCEPT ![Into(p)] = target[Into(p)]] /\ Fine
       \/ /\ publication' = [publication EXCEPT ![p].at = "invalid", ![p].moved = Nobody]
          /\ UNCHANGED validated
          /\ target[Into(p)].whole => Trouble
          /\ ~target[Into(p)].whole => Fine
    /\ UNCHANGED <<target, lock, backups>>

\* validate_manifest(target), which may also fail to read it.
Validate(p) ==
    /\ PubAt(p, "installed")
    /\ \/ /\ target[Into(p)].whole
          /\ Move(p, "valid")
          /\ validated' = [validated EXCEPT ![Into(p)] = target[Into(p)]] /\ Fine
       \/ /\ Move(p, "invalid") /\ UNCHANGED validated
          /\ target[Into(p)].whole => Trouble
          /\ ~target[Into(p)].whole => Fine
    /\ UNCHANGED <<target, lock, backups>>

\* rmtree(target) of an invalid candidate; if it fails the backup is kept.
RemoveCandidate(p) ==
    /\ PubAt(p, "invalid")
    /\ \/ /\ Becomes(Into(p), Nobody) /\ Move(p, "removed") /\ Fine
          /\ UNCHANGED backups
       \/ /\ Becomes(Into(p), Parts(target[Into(p)])) /\ Move(p, "failed") /\ Trouble
          /\ Keep(Into(p), Moved(p))
    /\ UNCHANGED <<lock, validated>>

\* os.replace(backup, target); if it fails the backup is kept.
Restore(p) ==
    /\ PubAt(p, "removed")
    /\ \/ Becomes(Into(p), Moved(p)) /\ Fine /\ UNCHANGED backups
       \/ Moved(p) # Nobody /\ Trouble /\ Keep(Into(p), Moved(p)) /\ UNCHANGED target
    /\ Move(p, "failed")
    /\ UNCHANGED <<lock, validated>>

\* rmtree(backup); if it fails there is a warning.
DropBackup(p) ==
    /\ PubAt(p, "valid")
    /\ \/ Fine /\ UNCHANGED backups
       \/ Moved(p) # Nobody /\ Trouble /\ Keep(Into(p), Parts(Moved(p)))
    /\ Move(p, "published")
    /\ UNCHANGED <<target, lock, validated>>

Unlock(d, p) == lock' = [lock EXCEPT ![d] = IF @ = p THEN Nobody ELSE @]

\* lock.unlink(); if it fails there is a warning, and the lock remains.
ReleaseLock(p) ==
    /\ PubAt(p, "published") \/ PubAt(p, "failed")
    /\ lock[Into(p)] = p
    /\ \/ Unlock(Into(p), p) /\ Fine
       \/ lock' = [lock EXCEPT ![Into(p)] = "left"] /\ Trouble
    /\ UNCHANGED <<target, backups, validated, publication>>

Locked(p) == Into(p) # Nobody /\ lock[Into(p)] = p

\* What a publication leaves behind when its process stops: the backup it has made,
\* unless it is no backup any more.
Abandon(p) ==
    Keep(Into(p), IF PubAt(p, "failed") \/ PubAt(p, "published") THEN Nobody ELSE Moved(p))

\* KeyboardInterrupt is no Exception: nothing is put back, and the lock is freed.
InterruptPublication(p) ==
    /\ Locked(p) /\ Trouble
    /\ Abandon(p) /\ Unlock(Into(p), p) /\ Move(p, "failed")
    /\ UNCHANGED <<target, validated>>

\* The process dies: the lock stays.
CrashPublication(p) ==
    /\ Locked(p) /\ Trouble
    /\ Abandon(p) /\ lock' = [lock EXCEPT ![Into(p)] = "left"] /\ Move(p, "crashed")
    /\ UNCHANGED <<target, validated>>

Publish(p) ==
    \/ TakeLock(p) \/ MoveOld(p) \/ Install(p) \/ Validate(p) \/ RemoveCandidate(p)
    \/ Restore(p) \/ DropBackup(p) \/ ReleaseLock(p)
    \/ InterruptPublication(p) \/ CrashPublication(p)

\* The publication has an outcome and nothing left to do.
Published(p) == PubAt(p, "published") /\ ~Locked(p)
NotPublished(p) == PubAt(p, "refused") \/ (PubAt(p, "failed") /\ ~Locked(p))

-----------------------------------------------------------------------------
\* The backups there are, those a publication still holds included.
BackupsOf(d) ==
    backups[d] \cup {Moved(p) : p \in {q \in Publishers : Into(q) = d /\ Locked(q)
                                        /\ ~PubAt(q, "published") /\ ~PubAt(q, "failed")}}

\* Part of BundlesAreSafe: the last bundle a destination was validated with is at
\* the destination or in a backup beside it, whatever failed and whoever died since; and a destination
\* without any bundle that once had one has a backup, or it was never validated
\* (_replace_validated_directory: "preserved backup").
BundleSurvives ==
    \A d \in Directories :
        validated[d] # Nobody =>
            target[d] = validated[d] \/ validated[d] \in BackupsOf(d)

\* Part of BundlesAreSafe: two publications never work on one destination: while one
\* is between its moves the lock is its own, and what is at the destination is its own candidate or
\* nothing (O_CREAT | O_EXCL).
PublicationsAreAlone ==
    \A p \in Publishers :
        PubAt(p, "moved") \/ PubAt(p, "installed") \/ PubAt(p, "removed") =>
            /\ Locked(p)
            /\ target[Into(p)] = Nobody \/ target[Into(p)].bundle = publication[p].bundle

\* Whatever fails and whoever dies between the moves of a publication, or publishes
\* at the same time, the last validated bundle of a destination can be found and no
\* other publisher touches it (_replace_validated_directory).
BundlesAreSafe == BundleSurvives /\ PublicationsAreAlone
=============================================================================
