---------------------------- MODULE TrafficPolicy ----------------------------
(***************************************************************************)
(* The decision policy that turns the model's reading of each minute into  *)
(* the published traffic state: hysteresis (_StableStateMachine) and the   *)
(* incident candidate (_IncidentStateMachine), both without memory across  *)
(* a continuity break.  One step is one minute of _stabilize_codes and of  *)
(* _incident_activity; the live pipeline and the batch run the same loops. *)
(***************************************************************************)
EXTENDS Integers, Sequences

CONSTANTS
    Worsening,    \* WORSENING_PERSISTENCE_MINUTES
    Recovery,     \* RECOVERY_PERSISTENCE_MINUTES
    IncidentPersistence,  \* INCIDENT_PERSISTENCE_MINUTES
    IncidentRecovery,     \* INCIDENT_RECOVERY_MINUTES
    Minutes,      \* the minutes that may be observed
    MaxMinutes,   \* bound of the number of minutes
    None

VARIABLES
    minutes,      \* the minutes so far
    results,      \* what the policy said of each
    machine,      \* _StableStateMachine
    incident      \* _IncidentStateMachine

vars == <<minutes, results, machine, incident>>

States == 0 .. 2    \* Normal, Reduced, Congested

\* A minute: whether its continuity key differs from the one before, the code
\* the model read, whether confidence and margin reach their thresholds, and
\* whether the incident evidence is strong.
Minute == [breaks : BOOLEAN, code : States, accepted : BOOLEAN, strong : BOOLEAN]

ASSUME PolicyConstants ==
    /\ Worsening \in Nat \ {0} /\ Recovery \in Nat \ {0}
    /\ IncidentPersistence \in Nat \ {0} /\ IncidentRecovery \in Nat \ {0}
    /\ Minutes \subseteq Minute
    /\ MaxMinutes \in Nat
    /\ None \notin Int

Machine  == [stable : States \cup {None}, pending : States \cup {None}, count : Nat]
Incident == [active : BOOLEAN, weak : Nat]

Result == [stable : States, abstained : BOOLEAN, candidate : BOOLEAN,
           started : BOOLEAN, state : States]

Required(target, stable) == IF target > stable THEN Worsening ELSE Recovery

\* The types; a pending change has fewer minutes than it needs, and an active
\* incident fewer weak ones than end it.
TypeOK ==
    /\ minutes \in Seq(Minutes) /\ results \in Seq(Result)
    /\ Len(results) = Len(minutes)
    /\ machine \in Machine /\ incident \in Incident
    /\ machine.stable = None <=> minutes = <<>>
    /\ machine.pending = None <=> machine.count = 0
    /\ machine.pending # None =>
         machine.stable # None /\ machine.count < Required(machine.pending, machine.stable)
    /\ incident.weak < IncidentRecovery

Fresh == [stable |-> None, pending |-> None, count |-> 0]
Quiet == [active |-> FALSE, weak |-> 0]

Init ==
    /\ minutes = <<>> /\ results = <<>>
    /\ machine = Fresh
    /\ incident = Quiet

-----------------------------------------------------------------------------
(* _StableStateMachine.advance.                                             *)

AdjacentTarget(target, stable) ==
    IF target > stable THEN stable + 1 ELSE IF target < stable THEN stable - 1 ELSE stable

Settled(s) == [stable |-> s, pending |-> None, count |-> 0]

\* _register_pending.
Counted(h, target) == IF h.pending = target THEN h.count + 1 ELSE 1

\* Mutant: the change waits for one minute more.
PersistedLate(h, target) == Counted(h, target) > Required(target, h.stable)

Persisted(h, target) == Counted(h, target) >= Required(target, h.stable)

\* Mutant: a minute below the thresholds does not interrupt a pending change.
StabilizedThroughDoubt(h, m) ==
    IF h.stable = None
    THEN Settled(IF m.accepted /\ m.code = 0 THEN 0 ELSE 1)
    ELSE LET target == AdjacentTarget(m.code, h.stable) IN
         IF ~m.accepted THEN h
         ELSE IF target = h.stable THEN Settled(h.stable)
         ELSE IF Persisted(h, target) THEN Settled(target)
         ELSE [stable |-> h.stable, pending |-> target, count |-> Counted(h, target)]

\* The first minute of a segment is Normal or Reduced at once, never Congested.
Stabilized(h, m) ==
    IF h.stable = None
    THEN Settled(IF m.accepted /\ m.code = 0 THEN 0 ELSE 1)
    ELSE LET target == AdjacentTarget(m.code, h.stable) IN
         IF ~m.accepted \/ target = h.stable THEN Settled(h.stable)
         ELSE IF Persisted(h, target) THEN Settled(target)
         ELSE [stable |-> h.stable, pending |-> target, count |-> Counted(h, target)]

Abstained(h, m) ==
    \/ ~m.accepted
    \/ h.stable = None /\ m.code = 2
    \/ h.stable # None /\ m.code # h.stable /\ ~Persisted(h, AdjacentTarget(m.code, h.stable))

-----------------------------------------------------------------------------
(* _persistent_incidents and _IncidentStateMachine.advance.                 *)

\* Minutes i to j belong to one continuity segment.
OneSegment(ms, i, j) == i \in DOMAIN ms /\ \A k \in i + 1 .. j : ~ms[k].breaks

\* The rolling sum over the window that ends at minute n, within its segment.
Persistent(ms, n) ==
    /\ OneSegment(ms, n - IncidentPersistence + 1, n)
    /\ \A k \in n - IncidentPersistence + 1 .. n : ms[k].strong

Observed(s, persistent, strong) ==
    LET weak == IF strong THEN 0 ELSE s.weak + 1 IN
    IF persistent THEN [active |-> TRUE, weak |-> 0]
    ELSE IF ~s.active \/ weak >= IncidentRecovery THEN Quiet
    ELSE [active |-> TRUE, weak |-> weak]

-----------------------------------------------------------------------------
\* Mutant: a continuity break keeps the memory of the segment before it.
RestartedNever(ms, memory, fresh) == memory

\* reset() at the first minute of a segment.
Restarted(ms, memory, fresh) ==
    IF Len(ms) = 1 \/ ms[Len(ms)].breaks THEN fresh ELSE memory

\* A candidate is published as Congested until a person decides.
Observe(m) ==
    LET ms         == Append(minutes, m)
        h          == Restarted(ms, machine, Fresh)
        s          == Restarted(ms, incident, Quiet)
        persistent == Persistent(ms, Len(ms))
    IN
    /\ Len(minutes) < MaxMinutes
    /\ minutes' = ms
    /\ machine' = Stabilized(h, m)
    /\ incident' = Observed(s, persistent, m.strong)
    /\ results' = Append(results,
           [stable    |-> machine'.stable,
            abstained |-> Abstained(h, m),
            candidate |-> incident'.active,
            started   |-> persistent /\ ~s.active,
            state     |-> IF incident'.active THEN 2 ELSE machine'.stable])

Next == \E m \in Minutes : Observe(m)

Spec == Init /\ [][Next]_vars

-----------------------------------------------------------------------------
(* Properties.                                                              *)

\* The minutes i to j are confident readings worse, or better, than state s.
AllWorse(i, j, s)  == \A k \in i .. j : minutes[k].accepted /\ minutes[k].code > s
AllBetter(i, j, s) == \A k \in i .. j : minutes[k].accepted /\ minutes[k].code < s

Window(n, s, t) == n - Required(t, s) + 1

\* A change of the stable state within a segment goes one step, and is earned
\* by as many consecutive confident minutes as the policy asks for, all of the
\* segment, all beyond the state it leaves and none before that state began.
EarnedAt(n) ==
    LET s == results[n - 1].stable
        t == results[n].stable
        i == Window(n, s, t)
    IN
    /\ t = s + 1 \/ t = s - 1
    /\ OneSegment(minutes, i, n)
    /\ t > s => AllWorse(i, n, s)
    /\ t < s => AllBetter(i, n, s)
    /\ \A k \in i .. n - 1 : results[k].stable = s

MovesAreEarned ==
    \A n \in 2 .. Len(minutes) :
        ~minutes[n].breaks /\ results[n].stable # results[n - 1].stable => EarnedAt(n)

\* The converse: the state does not stay through a window that asks for a
\* change, so the policy reacts after exactly the minutes it declares.
HeldThrough(i, n, s) ==
    /\ OneSegment(minutes, i - 1, n)
    /\ \A k \in i - 1 .. n : results[k].stable = s

EvidenceMoves ==
    \A n \in DOMAIN minutes, s \in States :
        /\ LET i == n - Worsening + 1 IN ~(HeldThrough(i, n, s) /\ AllWorse(i, n, s))
        /\ LET i == n - Recovery + 1  IN ~(HeldThrough(i, n, s) /\ AllBetter(i, n, s))

\* The incident episodes by their definition: a candidate at minute n is backed
\* by a window of strong minutes of its own segment that no run of
\* IncidentRecovery weak minutes has ended; an alert starts once per episode.
EndedBetween(j, n) ==
    \E k \in j + IncidentRecovery .. n :
        \A i \in k - IncidentRecovery + 1 .. k : ~minutes[i].strong

Backed(n) ==
    \E j \in 1 .. n :
        /\ OneSegment(minutes, j, n)
        /\ Persistent(minutes, j)
        /\ ~EndedBetween(j, n)

EpisodesExact ==
    \A n \in DOMAIN minutes :
        /\ results[n].candidate <=> Backed(n)
        /\ results[n].started <=>
             results[n].candidate /\ (n = 1 \/ minutes[n].breaks \/ ~results[n - 1].candidate)
=============================================================================
