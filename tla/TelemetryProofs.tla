------------------------- MODULE TelemetryProofs -------------------------
(***************************************************************************)
(* Proofs about the minutes of a video: how they are decided               *)
(* (TrafficPolicy) and how they are written (TelemetryBatches).  The two   *)
(* have no state in common, and each part stands alone.                    *)
(*                                                                         *)
(* TrafficPolicy, for every persistence, every set of minutes and every    *)
(* length: types, that the stable state changes exactly when the minutes   *)
(* of its segment ask for it (MovesAreEarned, EvidenceMoves), and that the *)
(* incident episodes are those the minutes back (EpisodesExact).           *)
(* PolicyInv says what a pending change is evidence of, EpisodeInv which   *)
(* minutes the count of weak ones stands for.                              *)
(*                                                                         *)
(* TelemetryBatches, for every process, frame, batch size and failure: the *)
(* receipts divide the rows (RowsAreAccounted), and no answer says more    *)
(* than the database holds (AnswersAreStored), by TelemetryInv.            *)
(*                                                                         *)
(* Continuity, which both rely on, for every frame: segments are exact     *)
(* (SegmentsAreExact) and normalising twice is normalising once            *)
(* (NormalizesOnce); and MinuteFeatures, which goes on from it: a minute   *)
(* the training labels call an accident is one the policy can raise.       *)
(***************************************************************************)
EXTENDS TrafficPolicy, TelemetryBatches, FiniteSetTheorems, WellFoundedInduction, TLAPS

\* What Append does to the positions it keeps and to the one it adds.
LEMMA AppendFacts ==
  ASSUME NEW S, NEW q \in Seq(S), NEW e \in S
  PROVE  /\ Append(q, e) \in Seq(S)
         /\ Len(Append(q, e)) = Len(q) + 1
         /\ Len(q) \in Nat
         /\ DOMAIN q = 1 .. Len(q)
         /\ DOMAIN Append(q, e) = 1 .. Len(q) + 1
         /\ \A k \in 1 .. Len(q) : Append(q, e)[k] = q[k]
         /\ Append(q, e)[Len(q) + 1] = e
  OBVIOUS

-----------------------------------------------------------------------------
(* One minute of the two machines.                                          *)

\* What advance() may do, in the terms the properties use: settle on a state,
\* keep the state with nothing pending, or count one more minute of a change.
LEMMA HysteresisStep ==
  ASSUME NEW h \in Machine, NEW m \in Minute,
         h.pending = None <=> h.count = 0,
         h.pending # None => h.stable # None /\ h.count < Required(h.pending, h.stable)
  PROVE  LET g == Stabilized(h, m) IN
         /\ g \in Machine
         /\ g.stable # None
         /\ g.pending = None <=> g.count = 0
         /\ g.pending # None => g.count < Required(g.pending, g.stable)
         /\ h.stable # None /\ g.stable # h.stable =>
              /\ m.accepted
              /\ \/ g.stable = h.stable + 1 /\ m.code > h.stable
                 \/ g.stable = h.stable - 1 /\ m.code < h.stable
              /\ g.pending = None
              /\ Counted(h, g.stable) >= Required(g.stable, h.stable)
         /\ g.pending # None =>
              /\ h.stable # None /\ g.stable = h.stable
              /\ m.accepted
              /\ \/ g.pending = h.stable + 1 /\ m.code > h.stable
                 \/ g.pending = h.stable - 1 /\ m.code < h.stable
              /\ g.count = Counted(h, g.pending)
         /\ h.stable # None /\ g.stable = h.stable /\ m.accepted /\ m.code # h.stable =>
              /\ g.pending = AdjacentTarget(m.code, h.stable)
              /\ g.count = Counted(h, g.pending)
<1> DEFINE t == AdjacentTarget(m.code, h.stable)
           g == Stabilized(h, m)
<1>c. /\ Worsening \in Nat \ {0} /\ Recovery \in Nat \ {0} /\ None \notin Int
  BY PolicyConstants
<1>h. /\ h.stable \in States \cup {None} /\ h.pending \in States \cup {None} /\ h.count \in Nat
      /\ m.code \in 0 .. 2 /\ m.accepted \in BOOLEAN
  BY DEF Machine, Minute, States
<1>1. CASE h.stable = None
  <2> DEFINE f == IF m.accepted /\ m.code = 0 THEN 0 ELSE 1
  <2>1. g = [stable |-> f, pending |-> None, count |-> 0]
    BY <1>1 DEF Stabilized, Settled
  <2>2. f \in States
    BY DEF States
  <2> QED
    BY <2>1, <2>2, <1>1, <1>h, <1>c DEF Machine
<1>2. CASE h.stable # None
  <2>1. h.stable \in 0 .. 2 /\ t \in 0 .. 2
    BY <1>2, <1>h DEF States, AdjacentTarget
  <2>2. /\ t = h.stable <=> m.code = h.stable
        /\ t > h.stable <=> m.code > h.stable
        /\ t # h.stable => t = h.stable + 1 \/ t = h.stable - 1
    BY <2>1, <1>h DEF AdjacentTarget
  <2>3. Counted(h, t) \in Nat \ {0} /\ Required(t, h.stable) \in Nat \ {0}
    BY <1>h, <1>c DEF Counted, Required
  <2>4. CASE ~m.accepted \/ t = h.stable
    <3>1. g = [stable |-> h.stable, pending |-> None, count |-> 0]
      BY <1>2, <2>4 DEF Stabilized, Settled
    <3> QED
      BY <3>1, <1>2, <2>1, <2>2, <2>4, <1>c DEF Machine, States
  <2>5. CASE m.accepted /\ t # h.stable /\ Persisted(h, t)
    <3>1. g = [stable |-> t, pending |-> None, count |-> 0]
      BY <1>2, <2>5 DEF Stabilized, Settled
    <3> QED
      BY <3>1, <1>2, <2>1, <2>2, <2>5, <1>h, <1>c DEF Machine, States, Persisted
  <2>6. CASE m.accepted /\ t # h.stable /\ ~Persisted(h, t)
    <3>1. g = [stable |-> h.stable, pending |-> t, count |-> Counted(h, t)]
      BY <1>2, <2>6 DEF Stabilized
    <3>2. Counted(h, t) < Required(t, h.stable)
      BY <2>3, <2>6 DEF Persisted
    <3> QED
      BY <3>1, <3>2, <1>2, <2>1, <2>2, <2>3, <2>6, <1>h, <1>c DEF Machine, States
  <2> QED
    BY <2>4, <2>5, <2>6
<1> QED
  BY <1>1, <1>2

\* What the incident machine may do.
LEMMA IncidentStep ==
  ASSUME NEW s \in Incident, s.weak < IncidentRecovery,
         NEW persistent \in BOOLEAN, NEW strong \in BOOLEAN
  PROVE  /\ Observed(s, persistent, strong) \in Incident
         /\ Observed(s, persistent, strong).weak < IncidentRecovery
  BY PolicyConstants DEF Observed, Incident, Quiet

-----------------------------------------------------------------------------
(* One minute of the policy.                                                *)

\* The memory of the hysteresis that the next minute m meets.
Memory(m) == IF minutes = <<>> \/ m.breaks THEN Fresh ELSE machine

\* Observe, in terms of the minutes and results before and after it.
LEMMA ObserveFacts ==
  ASSUME TypeOK, NEW m \in Minutes, Observe(m)
  PROVE  /\ Len(minutes) \in Nat /\ m \in Minute
         /\ minutes' \in Seq(Minutes) /\ Len(minutes') = Len(minutes) + 1
         /\ DOMAIN minutes = 1 .. Len(minutes) /\ DOMAIN minutes' = 1 .. Len(minutes) + 1
         /\ \A k \in 1 .. Len(minutes) : minutes'[k] = minutes[k]
         /\ minutes'[Len(minutes) + 1] = m
         /\ results' \in Seq(Result) /\ Len(results') = Len(minutes) + 1
         /\ \A k \in 1 .. Len(minutes) : results'[k] = results[k]
         /\ results'[Len(minutes) + 1].stable = machine'.stable
         /\ Memory(m) \in Machine
         /\ Memory(m).pending = None <=> Memory(m).count = 0
         /\ Memory(m).pending # None =>
              /\ Memory(m).stable # None
              /\ Memory(m).count < Required(Memory(m).pending, Memory(m).stable)
         /\ machine' = Stabilized(Memory(m), m)
         /\ incident' \in Incident /\ incident'.weak < IncidentRecovery
<1> DEFINE n == Len(minutes)
           ms == Append(minutes, m)
           h == Restarted(ms, machine, Fresh)
           s == Restarted(ms, incident, Quiet)
           r == [stable    |-> machine'.stable,
                 abstained |-> Abstained(h, m),
                 candidate |-> incident'.active,
                 started   |-> Persistent(ms, Len(ms)) /\ ~s.active,
                 state     |-> IF incident'.active THEN 2 ELSE machine'.stable]
<1>1. /\ minutes \in Seq(Minutes) /\ results \in Seq(Result) /\ Len(results) = n
      /\ machine \in Machine /\ incident \in Incident /\ incident.weak < IncidentRecovery
      /\ machine.pending = None <=> machine.count = 0
      /\ machine.pending # None =>
           machine.stable # None /\ machine.count < Required(machine.pending, machine.stable)
  BY DEF TypeOK
<1>2. m \in Minute
  BY PolicyConstants
<1>3. /\ minutes' = ms /\ machine' = Stabilized(h, m)
      /\ incident' = Observed(s, Persistent(ms, Len(ms)), m.strong)
      /\ results' = Append(results, r)
  BY DEF Observe
<1>4. /\ ms \in Seq(Minutes) /\ Len(ms) = n + 1 /\ n \in Nat
      /\ DOMAIN minutes = 1 .. n /\ DOMAIN ms = 1 .. n + 1
      /\ \A k \in 1 .. n : ms[k] = minutes[k]
      /\ ms[n + 1] = m
  BY <1>1, AppendFacts
<1>5. h = Memory(m)
  <2>1. minutes = <<>> <=> n = 0
    BY <1>1
  <2> QED
    BY <2>1, <1>4 DEF Restarted, Memory
<1>6. Fresh \in Machine /\ Quiet \in Incident /\ Quiet.weak < IncidentRecovery
  BY PolicyConstants DEF Fresh, Quiet, Machine, Incident
<1>7. /\ h \in Machine
      /\ h.pending = None <=> h.count = 0
      /\ h.pending # None => h.stable # None /\ h.count < Required(h.pending, h.stable)
  BY <1>1, <1>5, <1>6 DEF Memory, Fresh
<1>8. /\ machine' \in Machine /\ machine'.stable # None
  BY <1>2, <1>3, <1>7, HysteresisStep
<1>9. s \in Incident /\ s.weak < IncidentRecovery
  BY <1>1, <1>6 DEF Restarted
<1>10. m.strong \in BOOLEAN /\ Persistent(ms, Len(ms)) \in BOOLEAN
  BY <1>2 DEF Minute, Persistent, OneSegment
<1>11. incident' \in Incident /\ incident'.weak < IncidentRecovery
  BY <1>3, <1>9, <1>10, IncidentStep
<1>12. r \in Result
  <2>1. machine'.stable \in States /\ incident'.active \in BOOLEAN
    BY <1>8, <1>11 DEF Machine, Incident
  <2>2. Abstained(h, m) \in BOOLEAN /\ (Persistent(ms, Len(ms)) /\ ~s.active) \in BOOLEAN
    BY DEF Abstained
  <2>3. (IF incident'.active THEN 2 ELSE machine'.stable) \in States
    BY <2>1 DEF States
  <2> QED
    BY <2>1, <2>2, <2>3 DEF Result
<1>13. /\ results' \in Seq(Result) /\ Len(results') = n + 1
       /\ \A k \in 1 .. n : results'[k] = results[k]
       /\ results'[n + 1] = r
  BY <1>1, <1>3, <1>12, AppendFacts
<1> QED
  BY <1>2, <1>3, <1>4, <1>5, <1>7, <1>11, <1>13

-----------------------------------------------------------------------------
\* The types hold: a pending change never outlasts the minutes it needs.
THEOREM TypeCorrect == Spec => []TypeOK
<1>1. Init => TypeOK
  BY PolicyConstants DEF Init, TypeOK, Fresh, Quiet, Machine, Incident
<1>2. TypeOK /\ [Next]_vars => TypeOK'
  <2> SUFFICES ASSUME TypeOK, [Next]_vars PROVE TypeOK'
    OBVIOUS
  <2>1. CASE UNCHANGED vars
    BY <2>1 DEF TypeOK, vars
  <2>2. CASE Next
    <3>1. PICK m \in Minutes : Observe(m)
      BY <2>2 DEF Next
    <3>2. /\ Memory(m) \in Machine /\ m \in Minute
          /\ Memory(m).pending = None <=> Memory(m).count = 0
          /\ Memory(m).pending # None =>
               /\ Memory(m).stable # None
               /\ Memory(m).count < Required(Memory(m).pending, Memory(m).stable)
          /\ machine' = Stabilized(Memory(m), m)
          /\ minutes' \in Seq(Minutes) /\ Len(minutes') = Len(minutes) + 1 /\ Len(minutes) \in Nat
          /\ results' \in Seq(Result) /\ Len(results') = Len(minutes) + 1
          /\ incident' \in Incident /\ incident'.weak < IncidentRecovery
      BY <3>1, ObserveFacts
    <3>3. /\ machine' \in Machine /\ machine'.stable # None
          /\ machine'.pending = None <=> machine'.count = 0
          /\ machine'.pending # None => machine'.count < Required(machine'.pending, machine'.stable)
      BY <3>2, HysteresisStep
    <3>4. minutes' # <<>>
      BY <3>2
    <3> QED
      BY <3>2, <3>3, <3>4 DEF TypeOK
  <2> QED
    BY <2>1, <2>2
<1> QED
  BY <1>1, <1>2, PTL DEF Spec

-----------------------------------------------------------------------------
(* The strengthening: what a pending change is evidence of.                 *)

Now == Len(minutes)

\* The result of the last minute is the stable state of the machine.
MachineIsLast == minutes # <<>> => results[Now].stable = machine.stable

\* The minutes i to n are of one segment, seen in the stable state of h,
\* confident, and beyond that state in the direction h is about to change.
MinutesAsk(ms, rs, h, i, n) ==
  /\ i \in 1 .. n
  /\ \A k \in i .. n : ~ms[k].breaks /\ rs[k].stable = h.stable
  /\ \/ /\ h.pending = h.stable + 1
        /\ \A k \in i .. n : ms[k].accepted /\ ms[k].code > h.stable
     \/ /\ h.pending = h.stable - 1
        /\ \A k \in i .. n : ms[k].accepted /\ ms[k].code < h.stable

\* A pending change has count minutes of evidence behind it.
PendingIsEvidence ==
  machine.pending # None =>
    MinutesAsk(minutes, results, machine, Now - machine.count + 1, Now)

\* Conversely, evidence that the state has been held through is pending.
Above(ms, i, n, s) == \A k \in i .. n : ms[k].accepted /\ ms[k].code > s
Below(ms, i, n, s) == \A k \in i .. n : ms[k].accepted /\ ms[k].code < s

AsksForChange(ms, h, i, n, s) ==
  /\ Above(ms, i, n, s) => h.pending = s + 1 /\ h.count >= n - i + 1
  /\ Below(ms, i, n, s) => h.pending = s - 1 /\ h.count >= n - i + 1

Held(ms, rs, i, n, s) ==
  OneSegment(ms, i - 1, n) /\ \A k \in i - 1 .. n : rs[k].stable = s

EvidenceCounts(ms, rs, h, n) ==
  \A i \in 1 .. n, s \in States : Held(ms, rs, i, n, s) => AsksForChange(ms, h, i, n, s)

EvidenceIsPending == EvidenceCounts(minutes, results, machine, Now)

\* Minute k was the last of a window that asked to leave state s, in vain.
Ignored(ms, rs, k, s) ==
  \/ Held(ms, rs, k - Worsening + 1, k, s) /\ Above(ms, k - Worsening + 1, k, s)
  \/ Held(ms, rs, k - Recovery + 1, k, s) /\ Below(ms, k - Recovery + 1, k, s)

\* EvidenceMoves, of the minutes before the last.
PastHeeded == \A k \in 1 .. Now - 1, s \in States : ~Ignored(minutes, results, k, s)

PolicyInv ==
  TypeOK /\ MachineIsLast /\ PendingIsEvidence /\ EvidenceIsPending /\ MovesAreEarned
  /\ PastHeeded

\* What the step of ObserveFacts does to the parts of the invariant.
StepTo(m, n) ==
  /\ n = Len(minutes) /\ n \in Nat /\ m \in Minute
  /\ Len(minutes') = n + 1
  /\ DOMAIN minutes = 1 .. n /\ DOMAIN minutes' = 1 .. n + 1
  /\ \A k \in 1 .. n : minutes'[k] = minutes[k] /\ results'[k] = results[k]
  /\ minutes'[n + 1] = m /\ results'[n + 1].stable = machine'.stable
  /\ machine' = Stabilized(Memory(m), m)
  /\ Memory(m) \in Machine
  /\ Memory(m).pending = None <=> Memory(m).count = 0
  /\ Memory(m).pending # None =>
       Memory(m).stable # None /\ Memory(m).count < Required(Memory(m).pending, Memory(m).stable)
  /\ machine \in Machine /\ machine' \in Machine
  /\ (machine.stable = None <=> minutes = <<>>)
  /\ machine'.stable \in States

LEMMA StepHolds ==
  ASSUME TypeOK, NEW m \in Minutes, Observe(m)
  PROVE  StepTo(m, Len(minutes))
<1>1. machine \in Machine /\ (machine.stable = None <=> minutes = <<>>)
  BY DEF TypeOK
<1>2. machine' \in Machine /\ machine'.stable # None
  BY ObserveFacts, HysteresisStep
<1>3. machine'.stable \in States
  BY <1>2 DEF Machine
<1> QED
  BY <1>1, <1>2, <1>3, ObserveFacts DEF StepTo

\* A pending change after the step: the evidence before it and the new minute.
LEMMA PendingStep ==
  ASSUME NEW m, NEW n, StepTo(m, n), MachineIsLast, PendingIsEvidence
  PROVE  PendingIsEvidence'
<1> DEFINE h == Memory(m)
           g == machine'
           i == n + 1 - g.count + 1
<1> SUFFICES g.pending # None => MinutesAsk(minutes', results', g, i, n + 1)
  <2>1. Len(minutes') = n + 1 /\ n \in Nat /\ g.count \in Nat
    BY DEF StepTo, Machine
  <2>2. PendingIsEvidence' <=>
          (g.pending # None => MinutesAsk(minutes', results', g, Len(minutes') - g.count + 1, Len(minutes')))
    BY DEF PendingIsEvidence, Now, MinutesAsk
  <2>3. Len(minutes') - g.count + 1 = i
    BY <2>1
  <2> HIDE DEF g, i
  <2> QED
    BY <2>1, <2>2, <2>3
<1> HAVE g.pending # None
<1>1. /\ h.stable # None /\ g.stable = h.stable /\ m.accepted
      /\ \/ g.pending = h.stable + 1 /\ m.code > h.stable
         \/ g.pending = h.stable - 1 /\ m.code < h.stable
      /\ g.count = Counted(h, g.pending)
  BY HysteresisStep DEF StepTo
<1>2. /\ n \in Nat /\ n # 0 /\ ~m.breaks /\ h = machine /\ m \in Minute
      /\ h.stable \in 0 .. 2 /\ h.count \in Nat
  BY <1>1 DEF Memory, Fresh, StepTo, Machine, States
<1>3. minutes'[n + 1] = m /\ results'[n + 1].stable = g.stable
  BY DEF StepTo
<1>4. CASE h.pending # g.pending
  <2>1. g.count = 1 /\ i = n + 1
    BY <1>1, <1>2, <1>4 DEF Counted
  <2> QED
    BY <2>1, <1>1, <1>2, <1>3 DEF MinutesAsk
<1>5. CASE h.pending = g.pending
  <2>1. g.count = h.count + 1 /\ i = n - h.count + 1
    BY <1>1, <1>2, <1>5 DEF Counted
  <2>2. h.pending # None
    BY <1>5
  <2>3. /\ i \in 1 .. n
        /\ \A k \in i .. n : ~minutes[k].breaks /\ results[k].stable = h.stable
        /\ \/ /\ h.pending = h.stable + 1
              /\ \A k \in i .. n : minutes[k].accepted /\ minutes[k].code > h.stable
           \/ /\ h.pending = h.stable - 1
              /\ \A k \in i .. n : minutes[k].accepted /\ minutes[k].code < h.stable
    BY <1>2, <2>1, <2>2 DEF PendingIsEvidence, MinutesAsk, Now, StepTo
  <2>4. \A k \in i .. n + 1 : k = n + 1 \/ k \in i .. n
    BY <1>2, <2>3
  <2>5. \A k \in i .. n : minutes'[k] = minutes[k] /\ results'[k] = results[k]
    BY <1>2, <2>3 DEF StepTo
  <2>6. \A k \in i .. n + 1 : ~minutes'[k].breaks /\ results'[k].stable = g.stable
    BY <1>1, <1>2, <1>3, <2>3, <2>4, <2>5
  <2>7. CASE h.pending = h.stable + 1
    <3>1. \A k \in i .. n : minutes[k].accepted /\ minutes[k].code > h.stable
      BY <1>2, <2>3, <2>7
    <3>2. m.code > h.stable
      BY <1>1, <1>2, <1>5, <2>7
    <3>3. \A k \in i .. n + 1 : minutes'[k].accepted /\ minutes'[k].code > g.stable
      BY <1>1, <1>3, <2>4, <2>5, <3>1, <3>2
    <3> QED
      BY <1>1, <1>5, <2>3, <2>6, <2>7, <3>3, <1>2 DEF MinutesAsk
  <2>8. CASE h.pending = h.stable - 1
    <3>1. \A k \in i .. n : minutes[k].accepted /\ minutes[k].code < h.stable
      BY <1>2, <2>3, <2>8
    <3>2. m.code < h.stable
      BY <1>1, <1>2, <1>5, <2>8
    <3>3. \A k \in i .. n + 1 : minutes'[k].accepted /\ minutes'[k].code < g.stable
      BY <1>1, <1>3, <2>4, <2>5, <3>1, <3>2
    <3> QED
      BY <1>1, <1>5, <2>3, <2>6, <2>8, <3>3, <1>2 DEF MinutesAsk
  <2> QED
    BY <2>3, <2>7, <2>8
<1> QED
  BY <1>4, <1>5

\* The last minute of the step, when it belongs to the segment before it.
LEMMA SameSegment ==
  ASSUME NEW m, NEW n, StepTo(m, n), MachineIsLast, n # 0, ~m.breaks
  PROVE  /\ Memory(m) = machine /\ machine.stable \in States
         /\ results'[n].stable = machine.stable
         /\ results'[n + 1].stable = machine'.stable
         /\ minutes'[n + 1] = m
<1>1. n \in Nat /\ n = Len(minutes) /\ minutes # <<>>
  BY DEF StepTo
<1>2. Memory(m) = machine /\ results[n].stable = machine.stable
  BY <1>1 DEF Memory, MachineIsLast, Now
<1>3. results'[n] = results[n] /\ results'[n + 1].stable = machine'.stable /\ minutes'[n + 1] = m
  BY <1>1 DEF StepTo
<1>4. machine.stable \in States
  BY <1>1 DEF StepTo, Machine
<1> QED
  BY <1>2, <1>3, <1>4

\* MinutesAsk that lasts through the step was pending before it, or starts in it.
LEMMA EvidenceStep ==
  ASSUME NEW m, NEW n, StepTo(m, n), MachineIsLast, EvidenceIsPending
  PROVE  EvidenceIsPending'
<1> DEFINE g == machine'
<1>0. /\ n \in Nat /\ n = Len(minutes) /\ Len(minutes') = n + 1 /\ m \in Minute
      /\ DOMAIN minutes = 1 .. n /\ DOMAIN minutes' = 1 .. n + 1
      /\ \A k \in 1 .. n : minutes'[k] = minutes[k] /\ results'[k] = results[k]
      /\ g.count \in Nat
  BY DEF StepTo, Machine
<1>1. SUFFICES EvidenceCounts(minutes', results', g, n + 1)
  <2>1. Now' = n + 1
    BY <1>0 DEF Now
  <2>2. EvidenceIsPending' <=> EvidenceCounts(minutes', results', g, Now')
    BY DEF EvidenceIsPending, EvidenceCounts, Held, OneSegment, AsksForChange, Above, Below, Now
  <2> QED
    BY <2>1, <2>2
<1> SUFFICES ASSUME NEW i \in 1 .. n + 1, NEW s \in States, Held(minutes', results', i, n + 1, s)
             PROVE  AsksForChange(minutes', g, i, n + 1, s)
  BY DEF EvidenceCounts
<1>2. /\ i - 1 \in 1 .. n + 1
      /\ \A k \in i .. n + 1 : ~minutes'[k].breaks
      /\ \A k \in i - 1 .. n + 1 : results'[k].stable = s
  BY <1>0 DEF Held, OneSegment
<1>3. n # 0 /\ i \in 2 .. n + 1 /\ ~m.breaks /\ machine.stable = s /\ g.stable = s /\ Memory(m) = machine
  <2>1. n # 0 /\ i \in 2 .. n + 1
    BY <1>0, <1>2
  <2>2. ~minutes'[n + 1].breaks /\ results'[n].stable = s /\ results'[n + 1].stable = s
    BY <2>1, <1>0, <1>2
  <2>3. minutes'[n + 1] = m
    BY DEF StepTo
  <2> QED
    BY <2>1, <2>2, <2>3, SameSegment
<1>4. i # n + 1 => Held(minutes, results, i, n, s)
  <2>1. CASE i # n + 1
    <3>1. i - 1 \in DOMAIN minutes
      BY <1>0, <1>3
    <3>2. \A k \in i - 1 + 1 .. n : ~minutes[k].breaks
      BY <1>0, <1>2, <1>3
    <3>3. \A k \in i - 1 .. n : results[k].stable = s
      BY <1>0, <1>2, <1>3
    <3> QED
      BY <3>1, <3>2, <3>3 DEF Held, OneSegment
  <2> QED
    BY <2>1
<1>5. m.accepted /\ m.code # s => g.pending = AdjacentTarget(m.code, s) /\ g.count = Counted(machine, g.pending)
  BY <1>3, HysteresisStep DEF StepTo, States
<1>6. minutes'[n + 1] = m /\ m.code \in 0 .. 2 /\ machine.count \in Nat /\ s \in 0 .. 2
  BY DEF StepTo, Minute, States, Machine
<1>7. Above(minutes', i, n + 1, s) => g.pending = s + 1 /\ g.count >= n + 1 - i + 1
  <2> HAVE Above(minutes', i, n + 1, s)
  <2>2. m.accepted /\ m.code > s
    BY <1>0, <1>3, <1>6 DEF Above
  <2>3. g.pending = s + 1 /\ g.count = Counted(machine, s + 1)
    BY <2>2, <1>5, <1>6 DEF AdjacentTarget
  <2>4. CASE i = n + 1
    BY <2>3, <2>4, <1>0, <1>6 DEF Counted
  <2>5. CASE i # n + 1
    <3>1. Above(minutes, i, n, s)
      BY <1>0, <1>3 DEF Above
    <3>2. machine.pending = s + 1 /\ machine.count >= n - i + 1
      BY <3>1, <1>0, <1>3, <1>4, <2>5 DEF EvidenceIsPending, EvidenceCounts, AsksForChange, Now
    <3> QED
      BY <3>2, <2>3, <1>0, <1>3, <1>6 DEF Counted
  <2> QED
    BY <2>4, <2>5
<1>8. Below(minutes', i, n + 1, s) => g.pending = s - 1 /\ g.count >= n + 1 - i + 1
  <2> HAVE Below(minutes', i, n + 1, s)
  <2>2. m.accepted /\ m.code < s
    BY <1>0, <1>3, <1>6 DEF Below
  <2>3. g.pending = s - 1 /\ g.count = Counted(machine, s - 1)
    BY <2>2, <1>5, <1>6 DEF AdjacentTarget
  <2>4. CASE i = n + 1
    BY <2>3, <2>4, <1>0, <1>6 DEF Counted
  <2>5. CASE i # n + 1
    <3>1. Below(minutes, i, n, s)
      BY <1>0, <1>3 DEF Below
    <3>2. machine.pending = s - 1 /\ machine.count >= n - i + 1
      BY <3>1, <1>0, <1>3, <1>4, <2>5 DEF EvidenceIsPending, EvidenceCounts, AsksForChange, Now
    <3> QED
      BY <3>2, <2>3, <1>0, <1>3, <1>6 DEF Counted
  <2> QED
    BY <2>4, <2>5
<1> QED
  BY <1>0, <1>7, <1>8 DEF AsksForChange

\* EarnedAt, with the minutes and results it is about.
Earned(ms, rs, k) ==
  LET s == rs[k - 1].stable
      t == rs[k].stable
      i == Window(k, s, t)
  IN
  /\ t = s + 1 \/ t = s - 1
  /\ OneSegment(ms, i, k)
  /\ t > s => Above(ms, i, k, s)
  /\ t < s => Below(ms, i, k, s)
  /\ \A j \in i .. k - 1 : rs[j].stable = s

\* A change in the last minute is earned: its window is the evidence that was
\* pending, and the new minute.
LEMMA NewMoveEarned ==
  ASSUME NEW m, NEW n, StepTo(m, n), MachineIsLast, PendingIsEvidence,
         n # 0, ~m.breaks, results'[n + 1].stable # results'[n].stable
  PROVE  Earned(minutes', results', n + 1)
<1> DEFINE h == machine
           s == h.stable
           t == machine'.stable
           i == n + 1 - Required(t, s) + 1
<1>0. /\ n \in Nat /\ n = Len(minutes) /\ DOMAIN minutes' = 1 .. n + 1
      /\ \A k \in 1 .. n : minutes'[k] = minutes[k] /\ results'[k] = results[k]
      /\ minutes'[n + 1] = m
      /\ h \in Machine /\ h.count \in Nat /\ m \in Minute
      /\ h.pending = None <=> h.count = 0
      /\ h.pending # None => h.count < Required(h.pending, s)
  BY SameSegment DEF StepTo, Machine
<1>1. /\ Memory(m) = h /\ s \in 0 .. 2 /\ results'[n].stable = s /\ results'[n + 1].stable = t
  BY SameSegment DEF States
<1>2. s # None /\ t # s
  BY <1>1, PolicyConstants
<1>3. /\ m.accepted
      /\ \/ t = s + 1 /\ m.code > s
         \/ t = s - 1 /\ m.code < s
      /\ Counted(h, t) >= Required(t, s)
  BY <1>1, <1>2, HysteresisStep DEF StepTo
<1>4. Required(t, s) \in Nat \ {0}
  BY PolicyConstants DEF Required
<1>5. /\ i \in 1 .. n + 1
      /\ \A k \in i .. n : /\ ~minutes[k].breaks /\ results[k].stable = s
                           /\ minutes[k].accepted
                           /\ t = s + 1 => minutes[k].code > s
                           /\ t = s - 1 => minutes[k].code < s
  <2>1. CASE h.pending # t
    <3>1. i = n + 1
      BY <1>0, <1>3, <1>4, <2>1 DEF Counted
    <3> QED
      BY <3>1, <1>0
  <2>2. CASE h.pending = t
    <3>1. i = n - h.count + 1 /\ h.pending # None
      BY <1>0, <1>1, <1>2, <1>3, <1>4, <2>2, PolicyConstants DEF Counted
    <3>2. MinutesAsk(minutes, results, h, i, n)
      BY <3>1, <1>0 DEF PendingIsEvidence, Now
    <3> HIDE DEF i
    <3> QED
      BY <3>2, <1>0, <1>1, <2>2 DEF MinutesAsk
  <2> QED
    BY <2>1, <2>2
<1>6. Window(n + 1, s, t) = i
  BY <1>0, <1>4 DEF Window
<1> HIDE DEF i
<1>7. \A k \in i .. n + 1 : k = n + 1 \/ k \in i .. n
  BY <1>0, <1>5
<1>8. OneSegment(minutes', i, n + 1)
  BY <1>0, <1>5, <1>7 DEF OneSegment
<1>9. t > s => Above(minutes', i, n + 1, s)
  BY <1>0, <1>1, <1>3, <1>5, <1>7 DEF Above
<1>10. t < s => Below(minutes', i, n + 1, s)
  BY <1>0, <1>1, <1>3, <1>5, <1>7 DEF Below
<1>11. \A j \in i .. n : results'[j].stable = s
  BY <1>0, <1>5
<1>12. (n + 1) - 1 = n
  BY <1>0
<1> QED
  BY <1>1, <1>3, <1>6, <1>8, <1>9, <1>10, <1>11, <1>12 DEF Earned

\* The moves stay earned: the old ones look only at minutes that are kept.
LEMMA MovesStep ==
  ASSUME NEW m, NEW n, StepTo(m, n), MachineIsLast, PendingIsEvidence, MovesAreEarned
  PROVE  MovesAreEarned'
<1>0. /\ n \in Nat /\ n = Len(minutes) /\ Len(minutes') = n + 1
      /\ DOMAIN minutes = 1 .. n /\ DOMAIN minutes' = 1 .. n + 1
      /\ \A k \in 1 .. n : minutes'[k] = minutes[k] /\ results'[k] = results[k]
      /\ minutes'[n + 1] = m
  BY DEF StepTo
<1>1. SUFFICES ASSUME NEW k \in 2 .. n + 1,
                      ~minutes'[k].breaks, results'[k].stable # results'[k - 1].stable
               PROVE  EarnedAt(k)'
  BY <1>0 DEF MovesAreEarned
<1>2. SUFFICES Earned(minutes', results', k)
  BY DEF Earned, EarnedAt, AllWorse, AllBetter, Above, Below, OneSegment, Window
<1>3. CASE k = n + 1
  <2>1. n # 0 /\ k - 1 = n /\ ~m.breaks
    BY <1>0, <1>1, <1>3
  <2> QED
    BY <2>1, <1>1, <1>3, NewMoveEarned
<1>4. CASE k # n + 1
  <2>1. k \in 2 .. n /\ k \in 1 .. n /\ k - 1 \in 1 .. n
    BY <1>0, <1>4
  <2>2. EarnedAt(k)
    BY <2>1, <1>0, <1>1 DEF MovesAreEarned
  <2>3. Earned(minutes, results, k)
    BY <2>2 DEF Earned, EarnedAt, AllWorse, AllBetter, Above, Below
  <2> DEFINE s == results[k - 1].stable
             t == results[k].stable
             i == Window(k, s, t)
  <2>4. results'[k - 1].stable = s /\ results'[k].stable = t
    BY <2>1, <1>0
  <2>5. i \in 1 .. n
    BY <2>3, <1>0 DEF Earned, OneSegment
  <2> HIDE DEF i
  <2>6. \A j \in i .. k : j \in 1 .. n
    BY <2>1, <2>5, <1>0
  <2>7. OneSegment(minutes, i, k) => OneSegment(minutes', i, k)
    BY <2>1, <2>5, <2>6, <1>0 DEF OneSegment
  <2>8. /\ Above(minutes, i, k, s) => Above(minutes', i, k, s)
        /\ Below(minutes, i, k, s) => Below(minutes', i, k, s)
    BY <2>6, <1>0 DEF Above, Below
  <2>9. (\A j \in i .. k - 1 : results[j].stable = s) => \A j \in i .. k - 1 : results'[j].stable = s
    BY <2>1, <2>5, <1>0
  <2> QED
    BY <2>3, <2>4, <2>7, <2>8, <2>9 DEF Earned, i
<1> QED
  BY <1>3, <1>4

\* What has been held through has not been asked to change for longer than the
\* policy waits: at the last minute by what is pending, before it by the past.
LEMMA LastHeeded ==
  ASSUME TypeOK, MachineIsLast, EvidenceIsPending, NEW s \in States, Now # 0
  PROVE  ~Ignored(minutes, results, Now, s)
<1>0. /\ Now \in Nat \ {0} /\ DOMAIN minutes = 1 .. Now
      /\ machine \in Machine /\ machine.count \in Nat
      /\ machine.pending # None => machine.count < Required(machine.pending, machine.stable)
      /\ results[Now].stable = machine.stable
  BY DEF TypeOK, Now, MachineIsLast, Machine
<1>c. /\ Worsening \in Nat \ {0} /\ Recovery \in Nat \ {0} /\ None \notin Int
      /\ s \in 0 .. 2
  BY PolicyConstants DEF States
<1>1. ASSUME NEW i \in 1 .. Now, Held(minutes, results, i, Now, s)
      PROVE  AsksForChange(minutes, machine, i, Now, s) /\ machine.stable = s
  <2>1. results[Now].stable = s
    BY <1>0, <1>1 DEF Held
  <2> QED
    BY <2>1, <1>0, <1>1 DEF EvidenceIsPending, EvidenceCounts
<1>2. ASSUME NEW i \in Int, Held(minutes, results, i, Now, s), i <= Now
      PROVE  i \in 1 .. Now
  BY <1>0, <1>2 DEF Held, OneSegment
<1>3. ASSUME Held(minutes, results, Now - Worsening + 1, Now, s), Above(minutes, Now - Worsening + 1, Now, s)
      PROVE  FALSE
  <2> DEFINE i == Now - Worsening + 1
  <2>1. i \in Int /\ i <= Now /\ Now - i + 1 = Worsening
    BY <1>0, <1>c
  <2> HIDE DEF i
  <2>2. Held(minutes, results, i, Now, s) /\ Above(minutes, i, Now, s)
    BY <1>3 DEF i
  <2>3. AsksForChange(minutes, machine, i, Now, s) /\ machine.stable = s
    BY <2>1, <2>2, <1>1, <1>2
  <2>4. machine.pending = s + 1 /\ machine.count >= Worsening
    BY <2>1, <2>2, <2>3 DEF AsksForChange
  <2> QED
    BY <2>3, <2>4, <1>0, <1>c DEF Required
<1>4. ASSUME Held(minutes, results, Now - Recovery + 1, Now, s), Below(minutes, Now - Recovery + 1, Now, s)
      PROVE  FALSE
  <2> DEFINE i == Now - Recovery + 1
  <2>1. i \in Int /\ i <= Now /\ Now - i + 1 = Recovery
    BY <1>0, <1>c
  <2> HIDE DEF i
  <2>2. Held(minutes, results, i, Now, s) /\ Below(minutes, i, Now, s)
    BY <1>4 DEF i
  <2>3. AsksForChange(minutes, machine, i, Now, s) /\ machine.stable = s
    BY <2>1, <2>2, <1>1, <1>2
  <2>4. machine.pending = s - 1 /\ machine.count >= Recovery
    BY <2>1, <2>2, <2>3 DEF AsksForChange
  <2> QED
    BY <2>3, <2>4, <1>0, <1>c DEF Required
<1> QED
  BY <1>3, <1>4 DEF Ignored

\* The step keeps what the minutes before the last say.
LEMMA HeededStep ==
  ASSUME NEW m, NEW n, StepTo(m, n), TypeOK, MachineIsLast, EvidenceIsPending, PastHeeded
  PROVE  PastHeeded'
<1>0. /\ n \in Nat /\ n = Now /\ Now' = n + 1
      /\ DOMAIN minutes = 1 .. n /\ DOMAIN minutes' = 1 .. n + 1
      /\ \A k \in 1 .. n : minutes'[k] = minutes[k] /\ results'[k] = results[k]
      /\ Worsening \in Nat \ {0} /\ Recovery \in Nat \ {0}
  BY PolicyConstants DEF StepTo, Now
<1>1. SUFFICES ASSUME NEW k \in 1 .. n, NEW s \in States, Ignored(minutes', results', k, s)
               PROVE  FALSE
  <2>1. Now' - 1 = n
    BY <1>0
  <2>2. PastHeeded' <=> \A k \in 1 .. Now' - 1, s \in States : ~Ignored(minutes', results', k, s)
    BY DEF PastHeeded, Ignored, Held, OneSegment, Above, Below, Now
  <2> QED
    BY <2>1, <2>2
<1>2. ~Ignored(minutes, results, k, s)
  <2>1. CASE k = n
    BY <2>1, <1>0, LastHeeded
  <2>2. CASE k # n
    BY <2>2, <1>0 DEF PastHeeded
  <2> QED
    BY <2>1, <2>2
<1>3. ASSUME NEW i \in Int, i <= k, Held(minutes', results', i, k, s)
      PROVE  /\ Held(minutes, results, i, k, s)
             /\ Above(minutes', i, k, s) => Above(minutes, i, k, s)
             /\ Below(minutes', i, k, s) => Below(minutes, i, k, s)
  <2>1. i - 1 \in 1 .. n /\ \A j \in i - 1 .. k : j \in 1 .. n
    BY <1>0, <1>3 DEF Held, OneSegment
  <2>2. \A j \in i .. k : j \in 1 .. n
    BY <1>0, <1>3, <2>1
  <2>3. Held(minutes, results, i, k, s)
    BY <1>0, <1>3, <2>1, <2>2 DEF Held, OneSegment
  <2>4. /\ Above(minutes', i, k, s) => Above(minutes, i, k, s)
        /\ Below(minutes', i, k, s) => Below(minutes, i, k, s)
    BY <1>0, <2>2 DEF Above, Below
  <2> QED
    BY <2>3, <2>4
<1>4. /\ k - Worsening + 1 \in Int /\ k - Worsening + 1 <= k
      /\ k - Recovery + 1 \in Int /\ k - Recovery + 1 <= k
  BY <1>0
<1> QED
  BY <1>1, <1>2, <1>3, <1>4 DEF Ignored

-----------------------------------------------------------------------------
\* The invariant holds of every behaviour.
LEMMA PolicyInvariant == Spec => []PolicyInv
<1>1. Init => PolicyInv
  <2> SUFFICES ASSUME Init PROVE PolicyInv
    OBVIOUS
  <2>1. TypeOK
    BY PolicyConstants DEF Init, TypeOK, Fresh, Quiet, Machine, Incident
  <2>2. Now = 0 /\ minutes = <<>> /\ machine.pending = None
    BY DEF Init, Fresh, Now
  <2> QED
    BY <2>1, <2>2
    DEF PolicyInv, MachineIsLast, PendingIsEvidence, EvidenceIsPending, EvidenceCounts,
        MovesAreEarned, PastHeeded, Now
<1>2. PolicyInv /\ TypeOK' /\ [Next]_vars => PolicyInv'
  <2> SUFFICES ASSUME PolicyInv, TypeOK', [Next]_vars PROVE PolicyInv'
    OBVIOUS
  <2>1. CASE UNCHANGED vars
    BY <2>1
    DEF PolicyInv, vars, TypeOK, MachineIsLast, PendingIsEvidence, MinutesAsk, EvidenceIsPending,
        EvidenceCounts, Held, AsksForChange, Above, Below, MovesAreEarned, EarnedAt, OneSegment,
        AllWorse, AllBetter, Window, PastHeeded, Ignored, Now
  <2>2. CASE Next
    <3>1. PICK m \in Minutes : Observe(m)
      BY <2>2 DEF Next
    <3> DEFINE n == Len(minutes)
    <3>2. StepTo(m, n)
      BY <3>1, StepHolds DEF PolicyInv
    <3> HIDE DEF n
    <3>3. MachineIsLast'
      BY <3>2 DEF StepTo, MachineIsLast, Now
    <3>4. PendingIsEvidence'
      BY <3>2, PendingStep DEF PolicyInv
    <3>5. EvidenceIsPending'
      BY <3>2, EvidenceStep DEF PolicyInv
    <3>6. MovesAreEarned'
      BY <3>2, MovesStep DEF PolicyInv
    <3>7. PastHeeded'
      BY <3>2, HeededStep DEF PolicyInv
    <3> QED
      BY <3>3, <3>4, <3>5, <3>6, <3>7 DEF PolicyInv
  <2> QED
    BY <2>1, <2>2
<1> QED
  BY <1>1, <1>2, TypeCorrect, PTL DEF Spec

\* Within a segment the stable state goes one step at a time, after as many
\* consecutive confident minutes as the policy declares.
THEOREM MovesEarned == Spec => []MovesAreEarned
<1>1. PolicyInv => MovesAreEarned
  BY DEF PolicyInv
<1> QED
  BY <1>1, PolicyInvariant, PTL

\* And no later: a state is never held through the minutes that ask to leave it.
THEOREM EvidenceHeeded == Spec => []EvidenceMoves
<1>1. PolicyInv => EvidenceMoves
  <2> SUFFICES ASSUME PolicyInv, NEW k \in DOMAIN minutes, NEW s \in States
               PROVE  ~Ignored(minutes, results, k, s)
    BY DEF EvidenceMoves, Ignored, Held, HeldThrough, Above, Below, AllWorse, AllBetter
  <2>1. Now \in Nat /\ k \in 1 .. Now /\ Now # 0
    BY DEF PolicyInv, TypeOK, Now
  <2>2. CASE k = Now
    BY <2>1, <2>2, LastHeeded DEF PolicyInv
  <2>3. CASE k # Now
    BY <2>1, <2>3 DEF PolicyInv, PastHeeded
  <2> QED
    BY <2>2, <2>3
<1> QED
  BY <1>1, PolicyInvariant, PTL

-----------------------------------------------------------------------------
(* The incident episodes.                                                   *)

\* EndedBetween and Backed, with the minutes they are about.
Ended(ms, j, n) ==
  \E k \in j + IncidentRecovery .. n :
      \A i \in k - IncidentRecovery + 1 .. k : ~ms[i].strong

BackedFrom(ms, j, n) == OneSegment(ms, j, n) /\ Persistent(ms, j) /\ ~Ended(ms, j, n)

BackedIn(ms, n) == \E j \in 1 .. n : BackedFrom(ms, j, n)

\* Minute k of the results says of an episode what the minutes up to k say.
Exact(ms, rs, k) ==
  /\ rs[k].candidate <=> BackedIn(ms, k)
  /\ rs[k].started <=>
       rs[k].candidate /\ (k = 1 \/ ms[k].breaks \/ ~rs[k - 1].candidate)

\* The weak minutes that the machine counts are the last ones, after a strong one.
WeakRun(ms, w, n) ==
  /\ n - w \in 1 .. n
  /\ ms[n - w].strong
  /\ \A i \in n - w + 1 .. n : ~ms[i].strong

EpisodeInv ==
  /\ TypeOK
  /\ minutes = <<>> => ~incident.active
  /\ minutes # <<>> => (results[Now].candidate <=> incident.active)
  /\ incident.active => WeakRun(minutes, incident.weak, Now)
  /\ \A k \in 1 .. Now : Exact(minutes, results, k)

\* What one minute does to the incident machine.
LEMMA ObservedFacts ==
  ASSUME NEW s \in Incident, s.weak < IncidentRecovery,
         NEW p \in BOOLEAN, NEW strong \in BOOLEAN
  PROVE  LET g == Observed(s, p, strong) IN
         /\ g.active <=> p \/ (s.active /\ (strong \/ s.weak + 1 < IncidentRecovery))
         /\ p \/ strong => g.weak = 0
         /\ g.active /\ ~p /\ ~strong => g.weak = s.weak + 1
<1>1. IncidentRecovery \in Nat \ {0} /\ s.weak \in Nat /\ s.active \in BOOLEAN
  BY PolicyConstants DEF Incident
<1>2. CASE p
  BY <1>2 DEF Observed
<1>3. CASE ~p /\ strong
  <2>1. Observed(s, p, strong) = IF ~s.active THEN Quiet ELSE [active |-> TRUE, weak |-> 0]
    BY <1>1, <1>3 DEF Observed
  <2> QED
    BY <2>1, <1>3 DEF Quiet
<1>4. CASE ~p /\ ~strong
  <2>1. Observed(s, p, strong) =
          IF ~s.active \/ s.weak + 1 >= IncidentRecovery THEN Quiet
          ELSE [active |-> TRUE, weak |-> s.weak + 1]
    BY <1>4 DEF Observed
  <2> QED
    BY <2>1, <1>1, <1>4 DEF Quiet
<1> QED
  BY <1>2, <1>3, <1>4

\* The memory of the incident machine that the next minute m meets.
Watch(m) == IF minutes = <<>> \/ m.breaks THEN Quiet ELSE incident

\* What the step does to the parts of EpisodeInv.
WatchTo(m, n) ==
  /\ n = Len(minutes) /\ n \in Nat /\ m \in Minute
  /\ minutes = <<>> <=> n = 0
  /\ Len(minutes') = n + 1
  /\ DOMAIN minutes = 1 .. n /\ DOMAIN minutes' = 1 .. n + 1
  /\ \A k \in 1 .. n : minutes'[k] = minutes[k] /\ results'[k] = results[k]
  /\ minutes'[n + 1] = m
  /\ Watch(m) \in Incident /\ Watch(m).weak < IncidentRecovery
  /\ incident' = Observed(Watch(m), Persistent(minutes', n + 1), m.strong)
  /\ results'[n + 1].candidate <=> incident'.active
  /\ results'[n + 1].started <=> Persistent(minutes', n + 1) /\ ~Watch(m).active

LEMMA WatchHolds ==
  ASSUME TypeOK, NEW m \in Minutes, Observe(m)
  PROVE  WatchTo(m, Len(minutes))
<1> DEFINE n == Len(minutes)
           ms == Append(minutes, m)
           h == Restarted(ms, machine, Fresh)
           s == Restarted(ms, incident, Quiet)
           r == [stable    |-> machine'.stable,
                 abstained |-> Abstained(h, m),
                 candidate |-> incident'.active,
                 started   |-> Persistent(ms, Len(ms)) /\ ~s.active,
                 state     |-> IF incident'.active THEN 2 ELSE machine'.stable]
<1>1. /\ minutes \in Seq(Minutes) /\ results \in Seq(Result) /\ Len(results) = n
      /\ incident \in Incident /\ incident.weak < IncidentRecovery
  BY DEF TypeOK
<1>2. minutes' = ms /\ results' = Append(results, r)
      /\ incident' = Observed(s, Persistent(ms, Len(ms)), m.strong)
  BY DEF Observe
<1>3. /\ n \in Nat /\ m \in Minute /\ Len(ms) = n + 1 /\ ms[n + 1] = m
      /\ DOMAIN minutes = 1 .. n /\ DOMAIN minutes' = 1 .. n + 1
      /\ \A k \in 1 .. n : minutes'[k] = minutes[k] /\ results'[k] = results[k]
      /\ minutes'[n + 1] = m /\ Len(minutes') = n + 1
  BY <1>2, ObserveFacts, AppendFacts, <1>1
<1>4. minutes = <<>> <=> n = 0
  BY <1>1
<1>5. s = Watch(m)
  BY <1>3, <1>4 DEF Restarted, Watch
<1>6. Quiet \in Incident /\ Quiet.weak < IncidentRecovery
  BY PolicyConstants DEF Quiet, Incident
<1>7. Watch(m) \in Incident /\ Watch(m).weak < IncidentRecovery
  BY <1>1, <1>6 DEF Watch
<1>8. results'[n + 1] = r
  BY <1>1, <1>2, AppendFacts
<1>9. /\ results'[n + 1].candidate <=> incident'.active
      /\ results'[n + 1].started <=> Persistent(ms, Len(ms)) /\ ~s.active
  <2>1. r.candidate = incident'.active /\ r.started = (Persistent(ms, Len(ms)) /\ ~s.active)
    OBVIOUS
  <2> HIDE DEF r, s, h, ms
  <2> QED
    BY <2>1, <1>8
<1> QED
  BY <1>2, <1>3, <1>4, <1>5, <1>7, <1>9 DEF WatchTo

\* What the minutes up to k say is the same after the step.
LEMMA SameBefore ==
  ASSUME NEW m, NEW n, WatchTo(m, n), NEW k \in 1 .. n
  PROVE  /\ \A i \in Int : i <= k => (OneSegment(minutes', i, k) <=> OneSegment(minutes, i, k))
         /\ Persistent(minutes', k) <=> Persistent(minutes, k)
         /\ \A j \in 1 .. k : Ended(minutes', j, k) <=> Ended(minutes, j, k)
<1>0. /\ n \in Nat /\ k \in 1 .. n
      /\ DOMAIN minutes = 1 .. n /\ DOMAIN minutes' = 1 .. n + 1
      /\ \A i \in 1 .. n : minutes'[i] = minutes[i]
      /\ IncidentPersistence \in Nat \ {0} /\ IncidentRecovery \in Nat \ {0}
  BY PolicyConstants DEF WatchTo
<1>1. ASSUME NEW i \in Int, i <= k
      PROVE  OneSegment(minutes', i, k) <=> OneSegment(minutes, i, k)
  <2>1. CASE i \in 1 .. n
    <3>1. i \in DOMAIN minutes /\ i \in DOMAIN minutes'
      BY <1>0, <2>1
    <3>2. \A l \in i + 1 .. k : minutes'[l] = minutes[l]
      BY <1>0, <1>1, <2>1
    <3> QED
      BY <3>1, <3>2 DEF OneSegment
  <2>2. CASE i \notin 1 .. n
    BY <2>2, <1>0, <1>1 DEF OneSegment
  <2> QED
    BY <2>1, <2>2
<1>2. Persistent(minutes', k) <=> Persistent(minutes, k)
  <2> DEFINE i == k - IncidentPersistence + 1
  <2>1. i \in Int /\ i <= k
    BY <1>0
  <2>2. i \in DOMAIN minutes => \A l \in i .. k : minutes'[l] = minutes[l]
    BY <1>0
  <2> HIDE DEF i
  <2>3. OneSegment(minutes', i, k) <=> OneSegment(minutes, i, k)
    BY <1>1, <2>1
  <2>4. OneSegment(minutes, i, k) => i \in DOMAIN minutes
    BY DEF OneSegment
  <2>5. OneSegment(minutes, i, k) =>
          ((\A l \in i .. k : minutes'[l].strong) <=> \A l \in i .. k : minutes[l].strong)
    BY <2>2, <2>4
  <2> QED
    BY <2>3, <2>5 DEF Persistent, i
<1>3. ASSUME NEW j \in 1 .. k PROVE Ended(minutes', j, k) <=> Ended(minutes, j, k)
  <2>1. \A l \in j + IncidentRecovery .. k : \A i \in l - IncidentRecovery + 1 .. l : minutes'[i] = minutes[i]
    BY <1>0
  <2> QED
    BY <2>1 DEF Ended
<1> QED
  BY <1>1, <1>2, <1>3

\* So what a minute of the past was said to be, it still is.
LEMMA ExactBefore ==
  ASSUME NEW m, NEW n, WatchTo(m, n), NEW k \in 1 .. n, Exact(minutes, results, k)
  PROVE  Exact(minutes', results', k)
<1>1. /\ n \in Nat /\ k \in Int /\ k <= k
      /\ \A i \in 1 .. n : minutes'[i] = minutes[i] /\ results'[i] = results[i]
      /\ k # 1 => k - 1 \in 1 .. n
  BY DEF WatchTo
<1>2. ASSUME NEW j \in 1 .. k PROVE BackedFrom(minutes', j, k) <=> BackedFrom(minutes, j, k)
  <2>1. j \in Int /\ j <= k /\ j \in 1 .. n
    BY <1>1
  <2>2. OneSegment(minutes', j, k) <=> OneSegment(minutes, j, k)
    BY <2>1, SameBefore
  <2>3. Persistent(minutes', j) <=> Persistent(minutes, j)
    BY <2>1, SameBefore
  <2>4. Ended(minutes', j, k) <=> Ended(minutes, j, k)
    BY SameBefore
  <2> QED
    BY <2>2, <2>3, <2>4 DEF BackedFrom
<1>3. BackedIn(minutes', k) <=> BackedIn(minutes, k)
  BY <1>2 DEF BackedIn
<1>4. results'[k] = results[k] /\ minutes'[k] = minutes[k] /\ (k = 1 \/ results'[k - 1] = results[k - 1])
  BY <1>1
<1> QED
  BY <1>3, <1>4 DEF Exact

\* A window of strong minutes ends in one.
LEMMA PersistentIsStrong ==
  ASSUME NEW ms, NEW k \in Int, Persistent(ms, k)
  PROVE  ms[k].strong
  BY PolicyConstants DEF Persistent

\* The machine is active after the step exactly when the minutes back it, and
\* the weak minutes it counts are the last ones.
LEMMA BackedStep ==
  ASSUME NEW m, NEW n, WatchTo(m, n), EpisodeInv
  PROVE  /\ incident'.active <=> BackedIn(minutes', n + 1)
         /\ incident'.active => WeakRun(minutes', incident'.weak, n + 1)
<1> DEFINE p == Persistent(minutes', n + 1)
           s == Watch(m)
<1>0. /\ n \in Nat /\ Now = n /\ m \in Minute
      /\ DOMAIN minutes = 1 .. n /\ DOMAIN minutes' = 1 .. n + 1
      /\ \A i \in 1 .. n : minutes'[i] = minutes[i]
      /\ minutes'[n + 1] = m
      /\ IncidentPersistence \in Nat \ {0} /\ IncidentRecovery \in Nat \ {0}
      /\ s \in Incident /\ s.weak \in Nat /\ s.weak < IncidentRecovery
  BY PolicyConstants DEF WatchTo, Now, Incident
<1>1. /\ incident'.active <=> p \/ (s.active /\ (m.strong \/ s.weak + 1 < IncidentRecovery))
      /\ p \/ m.strong => incident'.weak = 0
      /\ incident'.active /\ ~p /\ ~m.strong => incident'.weak = s.weak + 1
  <2>1. p \in BOOLEAN /\ m.strong \in BOOLEAN
    BY <1>0 DEF Persistent, OneSegment, Minute
  <2>2. incident' = Observed(s, p, m.strong)
    BY DEF WatchTo
  <2> HIDE DEF p, s
  <2> QED
    BY <2>1, <2>2, <1>0, ObservedFacts
<1>2. CASE p
  <2>1. incident'.active /\ incident'.weak = 0
    BY <1>1, <1>2
  <2>2. minutes'[n + 1].strong
    BY <1>0, <1>2, PersistentIsStrong
  <2>3. OneSegment(minutes', n + 1, n + 1) /\ ~Ended(minutes', n + 1, n + 1)
    BY <1>0 DEF OneSegment, Ended
  <2>4. BackedFrom(minutes', n + 1, n + 1) /\ n + 1 \in 1 .. n + 1
    BY <2>3, <1>0, <1>2 DEF BackedFrom
  <2>5. WeakRun(minutes', 0, n + 1)
    BY <2>2, <1>0 DEF WeakRun
  <2> QED
    BY <2>1, <2>4, <2>5 DEF BackedIn
<1>3. CASE ~p
  <2>1. ASSUME NEW j \in 1 .. n + 1, BackedFrom(minutes', j, n + 1)
        PROVE  j \in 1 .. n /\ ~m.breaks
    <3>1. j # n + 1
      BY <2>1, <1>3 DEF BackedFrom
    <3>2. j \in 1 .. n /\ n + 1 \in j + 1 .. n + 1
      BY <3>1, <1>0
    <3> QED
      BY <3>2, <2>1, <1>0 DEF BackedFrom, OneSegment
  <2>2. CASE n = 0 \/ m.breaks
    <3>1. ~s.active
      BY <2>2 DEF WatchTo, Watch, Quiet
    <3>2. ~incident'.active
      BY <3>1, <1>1, <1>3
    <3>3. ~BackedIn(minutes', n + 1)
      BY <2>1, <2>2 DEF BackedIn
    <3> QED
      BY <3>2, <3>3
  <2>3. CASE n # 0 /\ ~m.breaks
    <3>1. s = incident
      BY <2>3 DEF WatchTo, Watch
    <3>2. incident.active <=> BackedIn(minutes, n)
      <4>1. minutes # <<>> /\ n \in 1 .. n
        BY <2>3, <1>0 DEF WatchTo
      <4> QED
        BY <4>1, <1>0 DEF EpisodeInv, Exact
    <3>3. ASSUME NEW j \in 1 .. n
          PROVE  /\ OneSegment(minutes', j, n + 1) <=> OneSegment(minutes, j, n)
                 /\ Persistent(minutes', j) <=> Persistent(minutes, j)
                 /\ Ended(minutes, j, n) => Ended(minutes', j, n + 1)
      <4>1. \A k \in j + 1 .. n + 1 : k = n + 1 \/ (k \in j + 1 .. n /\ minutes'[k] = minutes[k])
        BY <1>0
      <4>2. n + 1 \in j + 1 .. n + 1 /\ \A k \in j + 1 .. n : k \in j + 1 .. n + 1
        BY <1>0
      <4>3. OneSegment(minutes', j, n + 1) <=> OneSegment(minutes, j, n)
        BY <4>1, <4>2, <1>0, <2>3 DEF OneSegment
      <4>4. Persistent(minutes', j) <=> Persistent(minutes, j)
        BY SameBefore
      <4>5. \A k \in j + IncidentRecovery .. n :
              /\ k \in j + IncidentRecovery .. n + 1
              /\ \A i \in k - IncidentRecovery + 1 .. k : minutes'[i] = minutes[i]
        BY <1>0
      <4>6. Ended(minutes, j, n) => Ended(minutes', j, n + 1)
        BY <4>5 DEF Ended
      <4> QED
        BY <4>3, <4>4, <4>6
    <3>4. CASE ~incident.active
      <4>1. ~incident'.active
        BY <3>1, <3>4, <1>1, <1>3
      <4>2. ASSUME NEW j \in 1 .. n + 1, BackedFrom(minutes', j, n + 1) PROVE FALSE
        <5>1. j \in 1 .. n
          BY <4>2, <2>1
        <5>2. BackedFrom(minutes, j, n)
          BY <5>1, <4>2, <3>3 DEF BackedFrom
        <5> QED
          BY <5>1, <5>2, <3>2, <3>4 DEF BackedIn
      <4> QED
        BY <4>1, <4>2 DEF BackedIn
    <3> DEFINE w == incident.weak
    <3>5. incident.active => /\ n - w \in 1 .. n
                             /\ minutes[n - w].strong
                             /\ \A i \in n - w + 1 .. n : ~minutes[i].strong
      BY <1>0 DEF EpisodeInv, WeakRun
    <3>w. w \in Nat /\ w < IncidentRecovery
      BY <3>1, <1>0
    <3>6. CASE incident.active /\ (m.strong \/ w + 1 < IncidentRecovery)
      <4> DEFINE v == incident'.weak
      <4>1. incident'.active
        BY <3>1, <3>6, <1>1
      <4>2. /\ v \in Nat /\ v < IncidentRecovery
            /\ n + 1 - v \in 1 .. n + 1
            /\ minutes'[n + 1 - v].strong
            /\ \A i \in n + 1 - v + 1 .. n + 1 : ~minutes'[i].strong
        <5>1. CASE m.strong
          <6>1. v = 0
            BY <5>1, <1>1
          <6> QED
            BY <6>1, <5>1, <1>0
        <5>2. CASE ~m.strong
          <6>1. v = w + 1
            BY <5>2, <4>1, <3>1, <1>1, <1>3
          <6>2. n + 1 - v = n - w
            BY <6>1, <1>0, <3>w
          <6>3. \A i \in n - w + 1 .. n + 1 : i = n + 1 \/ (i \in n - w + 1 .. n /\ i \in 1 .. n)
            BY <3>5, <3>6, <1>0
          <6>4. v \in Nat /\ v < IncidentRecovery
            BY <6>1, <5>2, <3>6, <3>w, <1>0
          <6> HIDE DEF v
          <6>5. n + 1 - v \in 1 .. n + 1 /\ n + 1 - v \in 1 .. n
            BY <6>2, <3>5, <3>6, <1>0
          <6>6. minutes'[n + 1 - v].strong
            BY <6>2, <6>5, <3>5, <3>6, <1>0
          <6>7. n + 1 - v + 1 = n - w + 1
            BY <6>2
          <6>8. \A i \in n - w + 1 .. n + 1 : ~minutes'[i].strong
            BY <6>3, <5>2, <3>5, <3>6, <1>0
          <6> QED
            BY <6>4, <6>5, <6>6, <6>7, <6>8
        <5> QED
          BY <5>1, <5>2
      <4> HIDE DEF v
      <4>3. PICK j \in 1 .. n : BackedFrom(minutes, j, n)
        BY <3>2, <3>6 DEF BackedIn
      <4>4. ~Ended(minutes', j, n + 1)
        <5> SUFFICES ASSUME NEW k \in j + IncidentRecovery .. n + 1,
                            \A i \in k - IncidentRecovery + 1 .. k : ~minutes'[i].strong
                     PROVE  FALSE
          BY DEF Ended
        <5>1. CASE k = n + 1
          <6>1. n + 1 - v \in k - IncidentRecovery + 1 .. k
            BY <5>1, <4>2, <1>0
          <6> QED
            BY <6>1, <4>2
        <5>2. CASE k # n + 1
          <6>1. k \in j + IncidentRecovery .. n
            BY <5>2, <1>0
          <6>2. \A i \in k - IncidentRecovery + 1 .. k : minutes'[i] = minutes[i]
            BY <6>1, <1>0
          <6> QED
            BY <6>1, <6>2, <4>3 DEF BackedFrom, Ended
        <5> QED
          BY <5>1, <5>2
      <4>5. BackedFrom(minutes', j, n + 1) /\ j \in 1 .. n + 1
        BY <4>3, <4>4, <3>3, <1>0 DEF BackedFrom
      <4>6. WeakRun(minutes', v, n + 1)
        BY <4>2, <1>0 DEF WeakRun
      <4> QED
        BY <4>1, <4>5, <4>6 DEF BackedIn, v
    <3>7. CASE incident.active /\ ~m.strong /\ ~(w + 1 < IncidentRecovery)
      <4>1. ~incident'.active
        BY <3>1, <3>7, <1>1, <1>3
      <4>2. w + 1 = IncidentRecovery
        BY <3>7, <3>w, <1>0
      <4>3. \A i \in n - w + 1 .. n + 1 : ~minutes'[i].strong
        <5>1. \A i \in n - w + 1 .. n + 1 : i = n + 1 \/ (i \in n - w + 1 .. n /\ i \in 1 .. n)
          BY <3>5, <3>7, <1>0
        <5> QED
          BY <5>1, <3>5, <3>7, <1>0
      <4>4. ASSUME NEW j \in 1 .. n + 1, BackedFrom(minutes', j, n + 1) PROVE FALSE
        <5>1. j \in 1 .. n
          BY <4>4, <2>1
        <5>2. minutes'[j].strong
          BY <4>4, PersistentIsStrong DEF BackedFrom
        <5>3. n + 1 \in j + IncidentRecovery .. n + 1
          BY <5>1, <5>2, <4>2, <4>3, <3>w, <1>0
        <5>4. (n + 1) - IncidentRecovery + 1 = n - w + 1
          BY <4>2, <3>w, <1>0
        <5>5. Ended(minutes', j, n + 1)
          BY <5>3, <5>4, <4>3 DEF Ended
        <5> QED
          BY <5>5, <4>4 DEF BackedFrom
      <4> QED
        BY <4>1, <4>4 DEF BackedIn
    <3> QED
      BY <3>4, <3>6, <3>7
  <2> QED
    BY <2>2, <2>3
<1> QED
  BY <1>2, <1>3

\* An episode starts at the minute of its first candidate.
LEMMA ExactNow ==
  ASSUME NEW m, NEW n, WatchTo(m, n), EpisodeInv
  PROVE  Exact(minutes', results', n + 1)
<1> DEFINE p == Persistent(minutes', n + 1)
           s == Watch(m)
<1>0. /\ n \in Nat /\ Now = n /\ m \in Minute /\ minutes'[n + 1] = m
      /\ s \in Incident /\ s.weak < IncidentRecovery
      /\ results'[n + 1].candidate <=> incident'.active
      /\ results'[n + 1].started <=> p /\ ~s.active
      /\ minutes = <<>> <=> n = 0
      /\ incident' = Observed(s, p, m.strong)
  BY DEF WatchTo, Now
<1>1. p \in BOOLEAN /\ m.strong \in BOOLEAN
  BY <1>0 DEF Persistent, OneSegment, Minute
<1>2. incident'.active /\ ~s.active <=> p /\ ~s.active
  <2> HIDE DEF p, s
  <2> QED
    BY <1>0, <1>1, ObservedFacts
<1>3. s.active <=> n # 0 /\ ~m.breaks /\ results'[n].candidate
  <2>1. CASE n = 0 \/ m.breaks
    BY <2>1, <1>0 DEF Watch, Quiet
  <2>2. CASE n # 0 /\ ~m.breaks
    <3>1. s = incident
      BY <2>2, <1>0 DEF Watch
    <3>2. results[n].candidate <=> incident.active
      BY <2>2, <1>0 DEF EpisodeInv
    <3>3. n \in 1 .. n
      BY <2>2, <1>0
    <3>4. results'[n] = results[n]
      BY <3>3 DEF WatchTo
    <3> QED
      BY <3>1, <3>2, <3>4, <2>2
  <2> QED
    BY <2>1, <2>2
<1>4. (n + 1) - 1 = n /\ (n + 1 = 1 <=> n = 0)
  BY <1>0
<1>5. results'[n + 1].candidate <=> BackedIn(minutes', n + 1)
  BY <1>0, BackedStep
<1> HIDE DEF p, s
<1>6. results'[n + 1].started <=>
        results'[n + 1].candidate /\ (n + 1 = 1 \/ minutes'[n + 1].breaks \/ ~results'[(n + 1) - 1].candidate)
  BY <1>0, <1>2, <1>3, <1>4
<1> QED
  BY <1>5, <1>6 DEF Exact

\* A candidate stands at a minute exactly when a window of strong minutes of
\* its segment raised it and no run of weak ones has ended it since, and its
\* alert is raised once, at the first minute of the episode.
THEOREM EpisodesAreExact == Spec => []EpisodesExact
<1>1. Init => EpisodeInv
  <2> SUFFICES ASSUME Init PROVE EpisodeInv
    OBVIOUS
  <2>1. TypeOK
    BY PolicyConstants DEF Init, TypeOK, Fresh, Quiet, Machine, Incident
  <2>2. minutes = <<>> /\ Now = 0 /\ ~incident.active
    BY DEF Init, Quiet, Now
  <2> QED
    BY <2>1, <2>2 DEF EpisodeInv
<1>2. EpisodeInv /\ TypeOK' /\ [Next]_vars => EpisodeInv'
  <2> SUFFICES ASSUME EpisodeInv, TypeOK', [Next]_vars PROVE EpisodeInv'
    OBVIOUS
  <2>1. CASE UNCHANGED vars
    BY <2>1 DEF EpisodeInv, vars, Now, WeakRun, Exact, BackedIn, BackedFrom, OneSegment, Persistent, Ended
  <2>2. CASE Next
    <3>1. PICK m \in Minutes : Observe(m)
      BY <2>2 DEF Next
    <3> DEFINE n == Len(minutes)
    <3>2. WatchTo(m, n)
      BY <3>1, WatchHolds DEF EpisodeInv
    <3>3. n \in Nat /\ Now = n /\ Now' = n + 1 /\ minutes' # <<>>
      BY <3>2 DEF WatchTo, Now
    <3> HIDE DEF n
    <3>4. results'[n + 1].candidate <=> incident'.active
      BY <3>2 DEF WatchTo
    <3>5. incident'.active => WeakRun(minutes', incident'.weak, n + 1)
      BY <3>2, BackedStep
    <3>6. ASSUME NEW k \in 1 .. n + 1 PROVE Exact(minutes', results', k)
      <4>1. CASE k = n + 1
        BY <4>1, <3>2, ExactNow
      <4>2. CASE k # n + 1
        <5>1. k \in 1 .. n /\ Exact(minutes, results, k)
          BY <4>2, <3>3 DEF EpisodeInv
        <5> QED
          BY <5>1, <3>2, ExactBefore
      <4> QED
        BY <4>1, <4>2
    <3> QED
      BY <3>3, <3>4, <3>5, <3>6
      DEF EpisodeInv, WeakRun, Exact, BackedIn, BackedFrom, OneSegment, Persistent, Ended
  <2> QED
    BY <2>1, <2>2
<1>3. EpisodeInv => EpisodesExact
  <2> SUFFICES ASSUME EpisodeInv, NEW k \in DOMAIN minutes
               PROVE  Exact(minutes, results, k)
    BY DEF EpisodesExact, Exact, BackedIn, BackedFrom, Backed, Ended, EndedBetween
  <2>1. k \in 1 .. Now
    BY DEF EpisodeInv, TypeOK, Now
  <2> QED
    BY <2>1 DEF EpisodeInv
<1> QED
  BY <1>1, <1>2, <1>3, TypeCorrect, PTL DEF Spec

-----------------------------------------------------------------------------
(***************************************************************************)
(* The minutes are written: TelemetryBatches with any processes, frames,   *)
(* batch size and failures.  TelemetryInv is inductive: a transaction in   *)
(* progress has written rows of its frame alone, all those it is past are  *)
(* there with their content, no two transactions have one key, and the     *)
(* receipts divide the committed rows between the runs.                    *)
(***************************************************************************)

\* Two rows with one natural key.
Keyed(a, b) == a.entity = b.entity /\ a.key = b.key
\* The row of minute i of a frame, of its entity e, and that it is there.
RowOf(f, r, e, i) == RowFor(Entities(f)[e], f.rows[i], r)
IsThere(rows, f, r, e, i) ==
    \E z \in rows : Keyed(z, RowOf(f, r, e, i)) /\ z.content = f.rows[i]
\* The whole frame is there.
Whole(rows, f, r) ==
    \A e \in DOMAIN Entities(f), i \in DOMAIN f.rows : IsThere(rows, f, r, e, i)

\* What Submit makes of a frame.
IsFrame(f) ==
    /\ f \in Stored
    /\ f.kind \in {"raw", "classified"}
    /\ Len(f.rows) \in 1 .. MaxRows /\ DOMAIN f.rows = 1 .. Len(f.rows)

\* The rows before the batch, those of the batch, and the minutes whose rows the
\* transaction has compared: all the earlier batches, and the entities before its own.
Offset(k) == (k.batch - 1) * BatchSize
SizeOf(k) == IF Len(k.frame.rows) - Offset(k) < BatchSize
           THEN Len(k.frame.rows) - Offset(k) ELSE BatchSize
Past(k, e, i) ==
    \/ k.at = "receipt"
    \/ i <= Offset(k)
    \/ e < k.entity /\ i <= k.batch * BatchSize

InTransaction == {"read", "insert", "compare", "receipt"}
CallFields == {"at", "frame", "run", "batch", "entity", "next", "wrote", "reply"}

\* What is so of a transaction in progress, against the committed rows tb.
IsTransaction(k, tb) ==
    /\ IsFiniteSet(k.wrote)
    /\ \A z \in k.wrote : \E e \in DOMAIN Entities(k.frame), i \in DOMAIN k.frame.rows :
          z = RowOf(k.frame, k.run, e, i)
    /\ k.batch \in Nat \ {0} /\ k.entity \in DOMAIN Entities(k.frame) /\ k.next \in Nat
    /\ Offset(k) < Len(k.frame.rows)
    /\ k.at = "insert" => k.next < SizeOf(k)
    /\ \A e \in DOMAIN Entities(k.frame), i \in DOMAIN k.frame.rows :
          Past(k, e, i) => IsThere(tb \cup k.wrote, k.frame, k.run, e, i)

\* The frame of a call is committed with its receipt.
Vouched(k, tb, rc) ==
    /\ k.run \in Runs
    /\ Whole(tb, k.frame, k.run)
    /\ rc[k.run] # Null /\ rc[k.run].content = k.frame

Succeeded(rs, r) == rs[r] # Null /\ rs[r].status = "succeeded"

\* What is so of a call, wherever it is and whatever it has answered.
IsCall(c, k, tb, rc, rs) ==
    /\ DOMAIN k = CallFields /\ k.at \in Points
    /\ k.at # "idle" => IsFrame(k.frame) /\ k.run \in RunsOf[c]
    /\ IF k.at \in InTransaction THEN IsTransaction(k, tb) ELSE k.wrote = {}
    /\ k.at \notin {"idle", "fail"} => k.reply = "none"
    /\ k.at = "fail" => k.reply \in {"conflict", "error"}
    /\ k.at = "succeed" \/ k.reply \in {"confirmed", "pending"} => Vouched(k, tb, rc)
    /\ k.reply = "confirmed" => Succeeded(rs, k.run)

\* One row for each key, those not yet committed included.
KeysAreUnique(tb, cs) ==
    /\ \A a, b \in tb : Keyed(a, b) => a = b
    /\ \A c \in Clients : \A a \in cs[c].wrote :
          /\ \A b \in tb : ~Keyed(a, b)
          /\ \A b \in cs[c].wrote : Keyed(a, b) => a = b
          /\ \A d \in Clients \ {c} : \A b \in cs[d].wrote : ~Keyed(a, b)

\* A feature or a prediction carries its run in its key.
Labelled(tb) == \A a \in tb : a.entity # "raw" => a.key[3] = a.run

Of(tb, r, entity) == {a \in tb : a.run = r /\ a.entity = entity}

\* RowsAreAccounted, of any rows and receipts.
Divided(tb, rc) ==
    \A r \in Runs :
        IF rc[r] = Null THEN \A a \in tb : a.run # r
        ELSE /\ Whole(tb, rc[r].content, r)
             /\ \A e \in DOMAIN Entities(rc[r].content) :
                   Cardinality(Of(tb, r, Entities(rc[r].content)[e])) = rc[r].inserted

\* The types of the ledger, and that a reconciliation is of a run that succeeded.
LedgerIsSound(rs, rc) ==
    /\ rs \in [RunIds -> L!Run \cup {Null}]
    /\ rc \in [RunIds -> L!Receipt \cup {Null}]
    /\ \A q, r \in RunIds : rs[q] # Null /\ rs[q].reconciles = r => Succeeded(rs, r)

TelemetryInv ==
    /\ LedgerIsSound(runs, receipts)
    /\ DOMAIN call = Clients
    /\ \A c \in Clients : IsCall(c, call[c], table, receipts, runs)
    /\ KeysAreUnique(table, call)
    /\ Labelled(table)
    /\ Divided(table, receipts)

-----------------------------------------------------------------------------
\* The length of a function on 1 .. n.
LEMMA LengthOf ==
  ASSUME NEW s, NEW n \in Nat, s = [i \in 1 .. n |-> s[i]]
  PROVE  Len(s) = n
<1>1. s \in [1 .. n -> {s[i] : i \in 1 .. n}]
  OBVIOUS
<1>2. s \in Seq({s[i] : i \in 1 .. n})
  BY <1>1
<1> QED
  BY <1>1, <1>2

\* Normalising a frame keeps its kind and its number of rows.
LEMMA FrameIsFrame ==
  ASSUME NEW c \in Clients, NEW f \in FramesOf[c]
  PROVE  IsFrame([f EXCEPT !.rows = Normalized(@)])
<1> DEFINE g == [f EXCEPT !.rows = Normalized(@)]
           n == Len(f.rows)
           q == Normalized(f.rows)
<1>1. f \in Submitted
  BY DEF Submitted
<1>2. /\ DOMAIN f = {"kind", "rows"} /\ f.kind \in {"raw", "classified"}
      /\ n \in 1 .. MaxRows /\ MaxRows \in Nat
  BY <1>1, BatchConstants
<1>3. DOMAIN f.rows = 1 .. n
  BY <1>1, BatchConstants
<1>4. g.kind = f.kind /\ g.rows = q
  BY <1>2
<1>5. DOMAIN q = 1 .. n /\ q = [i \in 1 .. n |-> q[i]]
  BY <1>3 DEF Normalized, Sorted
<1>6. Len(q) = n
  <2>1. n \in Nat
    BY <1>2
  <2> HIDE DEF n, q
  <2> QED
    BY <1>5, <2>1, LengthOf
<1>7. g \in Stored
  BY <1>1 DEF Stored
<1> HIDE DEF q
<1>8. Len(g.rows) = n /\ DOMAIN g.rows = 1 .. n
  BY <1>4, <1>5, <1>6
<1>9. IsFrame(g)
  <2> HIDE DEF g
  <2> QED
    BY <1>2, <1>4, <1>7, <1>8 DEF IsFrame
<1> QED
  BY <1>9

\* The entities of a frame.
LEMMA EntityFacts ==
  ASSUME NEW f, f.kind \in {"raw", "classified"}
  PROVE  /\ Len(Entities(f)) \in 1 .. 2
         /\ DOMAIN Entities(f) = 1 .. Len(Entities(f))
         /\ f.kind = "raw" => Len(Entities(f)) = 1 /\ Entities(f)[1] = "raw"
         /\ f.kind # "raw" => /\ Len(Entities(f)) = 2
                              /\ Entities(f)[1] = "feature" /\ Entities(f)[2] = "prediction"
<1>1. CASE f.kind = "raw"
  <2>1. Entities(f) = <<"raw">>
    BY <1>1 DEF Entities
  <2> QED
    BY <2>1, <1>1
<1>2. CASE f.kind # "raw"
  <2>1. Entities(f) = <<"feature", "prediction">>
    BY <1>2 DEF Entities
  <2> QED
    BY <2>1, <1>2
<1> QED
  BY <1>1, <1>2

-----------------------------------------------------------------------------
(* The call of one process.                                                 *)

\* Only the call of c changes.
Mine(c) == DOMAIN call' = Clients /\ \A d \in Clients \ {c} : call'[d] = call[d]

\* A call changes in its own entry of the map, as it is told.
LEMMA ChangeIsMine ==
  ASSUME DOMAIN call = Clients, NEW c \in Clients, NEW new, Change(c, new)
  PROVE  Mine(c) /\ call'[c] = new
  BY DEF Change, Mine

\* What Leave makes of a call, and when that is a call.
Left(k, p, rep) ==
    [Nothing EXCEPT !.at = p, !.frame = k.frame, !.run = k.run, !.reply = rep]

LEMMA LeaveIsMine ==
  ASSUME DOMAIN call = Clients, NEW c \in Clients, NEW p, NEW rep, Leave(c, p, rep)
  PROVE  Mine(c) /\ call'[c] = Left(call[c], p, rep)
  BY ChangeIsMine DEF Leave, Left, Frame

LEMMA LeftIsCall ==
  ASSUME NEW c, NEW k, NEW p, NEW rep, NEW tb, NEW rc, NEW rs,
         IsFrame(k.frame), k.run \in RunsOf[c],
         \/ p = "idle"
         \/ p \in {"read", "succeed"} /\ rep = "none"
         \/ p = "fail" /\ rep \in {"conflict", "error"},
         p = "succeed" \/ rep \in {"confirmed", "pending"} => Vouched(k, tb, rc),
         rep = "confirmed" => Succeeded(rs, k.run)
  PROVE  IsCall(c, Left(k, p, rep), tb, rc, rs)
<1> DEFINE l == Left(k, p, rep)
<1>1. /\ DOMAIN l = CallFields /\ l.at = p /\ l.frame = k.frame /\ l.run = k.run
      /\ l.batch = 1 /\ l.entity = 1 /\ l.next = 0 /\ l.wrote = {} /\ l.reply = rep
  BY DEF Left, Nothing, CallFields
<1> HIDE DEF l
<1>2. l.at \in Points /\ (l.at \in InTransaction <=> p = "read")
  BY <1>1 DEF Points, InTransaction
<1>3. p = "read" => IsTransaction(l, tb)
  <2> HAVE p = "read"
  <2>1. /\ BatchSize \in Nat \ {0} /\ k.frame.kind \in {"raw", "classified"}
        /\ Len(k.frame.rows) \in 1 .. MaxRows /\ MaxRows \in Nat
        /\ DOMAIN k.frame.rows = 1 .. Len(k.frame.rows)
    BY BatchConstants DEF IsFrame
  <2>2. 1 \in DOMAIN Entities(k.frame) /\ DOMAIN Entities(k.frame) \subseteq 1 .. 2
    BY <2>1, EntityFacts
  <2>3. Offset(l) = 0
    BY <1>1, <2>1 DEF Offset
  <2>4. ASSUME NEW e \in DOMAIN Entities(k.frame), NEW i \in DOMAIN k.frame.rows PROVE ~Past(l, e, i)
    <3>1. e \in Nat /\ e >= 1 /\ i \in Nat /\ i >= 1
      BY <2>1, <2>2
    <3> QED
      BY <3>1, <1>1, <2>3 DEF Past
  <2>5. IsFiniteSet(l.wrote)
    BY <1>1, FS_EmptySet
  <2> QED
    BY <1>1, <2>1, <2>2, <2>3, <2>4, <2>5 DEF IsTransaction
<1>4. Vouched(k, tb, rc) => Vouched(l, tb, rc)
  BY <1>1 DEF Vouched
<1> QED
  BY <1>1, <1>2, <1>3, <1>4 DEF IsCall, l

\* An exception of pipeline_run ends or closes the call, and its answer is true.
LEMMA RaiseIsCall ==
  ASSUME DOMAIN call = Clients, NEW c \in Clients,
         IsCall(c, call[c], table, receipts, runs), ~At(c, "idle"),
         NEW e \in {"conflict", "error"}, Raise(c, e),
         NEW tb, NEW rc, NEW rs, At(c, "succeed") => Vouched(call[c], tb, rc)
  PROVE  Mine(c) /\ IsCall(c, call'[c], tb, rc, rs) /\ call'[c].wrote = {}
<1> DEFINE k == call[c]
<1>1. IsFrame(k.frame) /\ k.run \in RunsOf[c]
  BY DEF IsCall, At
<1>l. ASSUME NEW p, NEW rep PROVE Left(k, p, rep).wrote = {}
  BY DEF Left, Nothing
<1>2. CASE Working(c)
  <2>1. Leave(c, "fail", e)
    BY <1>2 DEF Raise, Working, At
  <2> QED
    BY <2>1, <1>1, <1>l, LeaveIsMine, LeftIsCall
<1>3. CASE At(c, "succeed")
  <2>1. Leave(c, "idle", "pending")
    BY <1>3 DEF Raise, Working, At
  <2> QED
    BY <2>1, <1>1, <1>3, <1>l, LeaveIsMine, LeftIsCall
<1>4. CASE At(c, "fail")
  <2>1. Leave(c, "idle", k.reply)
    BY <1>4 DEF Raise, Working, At
  <2>2. k.reply \in {"conflict", "error"}
    BY <1>4 DEF IsCall, At
  <2> QED
    BY <2>1, <2>2, <1>1, <1>l, LeaveIsMine, LeftIsCall
<1>5. CASE ~Working(c) /\ ~At(c, "succeed") /\ ~At(c, "fail")
  <2>1. Leave(c, "idle", e)
    BY <1>5 DEF Raise, Working, At
  <2> QED
    BY <2>1, <1>1, <1>l, LeaveIsMine, LeftIsCall
<1> QED
  BY <1>2, <1>3, <1>4, <1>5

\* A call that was forgotten or refused.
LEMMA NothingIsCall ==
  ASSUME NEW c, NEW k, NEW rep \in {"none", "error"}, NEW tb, NEW rc, NEW rs,
         k = [Nothing EXCEPT !.reply = rep]
  PROVE  IsCall(c, k, tb, rc, rs) /\ k.wrote = {}
<1>1. DOMAIN k = CallFields /\ k.at = "idle" /\ k.wrote = {} /\ k.reply = rep
  BY DEF Nothing, CallFields
<1> QED
  BY <1>1 DEF IsCall, Points, InTransaction

-----------------------------------------------------------------------------
(* What the steps of one process leave to the others.                       *)

\* Rows are only added, a receipt stays, and a run that has succeeded has.
Grows(tb, rc, rs) ==
    /\ table \subseteq tb
    /\ \A r \in Runs : receipts[r] # Null => rc[r] = receipts[r]
    /\ \A r \in RunIds : Succeeded(runs, r) => Succeeded(rs, r)

\* What is there stays there when rows are added.
LEMMA WholeGrows ==
  ASSUME NEW S, NEW W, S \subseteq W, NEW f, NEW r
  PROVE  /\ \A e, i : IsThere(S, f, r, e, i) => IsThere(W, f, r, e, i)
         /\ Whole(S, f, r) => Whole(W, f, r)
  BY DEF IsThere, Whole

\* The call of another process is as true as it was.
LEMMA CallStays ==
  ASSUME NEW c \in Clients, NEW k, IsCall(c, k, table, receipts, runs),
         NEW tb, NEW rc, NEW rs, Grows(tb, rc, rs)
  PROVE  IsCall(c, k, tb, rc, rs)
<1>1. table \cup k.wrote \subseteq tb \cup k.wrote
  BY DEF Grows
<1>2. IsTransaction(k, table) => IsTransaction(k, tb)
  BY <1>1, WholeGrows DEF IsTransaction
<1>3. Vouched(k, table, receipts) => Vouched(k, tb, rc)
  BY WholeGrows DEF Vouched, Grows
<1>4. k.reply = "confirmed" => Succeeded(rs, k.run)
  BY DEF IsCall, Vouched, Grows, RunIds
<1> QED
  BY <1>2, <1>3, <1>4 DEF IsCall

\* A transaction that ends or writes nothing disturbs no key.
LEMMA KeysStay ==
  ASSUME KeysAreUnique(table, call), NEW c \in Clients, Mine(c),
         call'[c].wrote \subseteq call[c].wrote
  PROVE  KeysAreUnique(table, call')
<1>1. \A d \in Clients : call'[d].wrote \subseteq call[d].wrote
  BY DEF Mine
<1> QED
  BY <1>1 DEF KeysAreUnique

\* A step of c that commits no rows.
LEMMA QuietStep ==
  ASSUME TelemetryInv, NEW c \in Clients, Mine(c),
         UNCHANGED <<table, receipts>>,
         LedgerIsSound(runs', receipts),
         \A r \in RunIds : Succeeded(runs, r) => Succeeded(runs', r),
         IsCall(c, call'[c], table, receipts, runs'),
         KeysAreUnique(table, call')
  PROVE  TelemetryInv'
<1>1. Grows(table, receipts, runs')
  BY DEF Grows
<1>2. ASSUME NEW d \in Clients PROVE IsCall(d, call'[d], table, receipts, runs')
  <2>1. CASE d = c
    BY <2>1
  <2>2. CASE d # c
    BY <2>2, <1>1, CallStays DEF TelemetryInv, Mine
  <2> QED
    BY <2>1, <2>2
<1>3. ASSUME NEW d \in Clients PROVE IsCall(d, call'[d], table', receipts', runs')
  BY <1>2
<1>4. /\ LedgerIsSound(runs', receipts') /\ DOMAIN call' = Clients
      /\ KeysAreUnique(table', call') /\ Labelled(table') /\ Divided(table', receipts')
  BY DEF TelemetryInv, Mine
<1> QED
  BY <1>3, <1>4 DEF TelemetryInv

-----------------------------------------------------------------------------
(* The functions of the ledger.                                             *)

\* A ledger function that writes no receipt and undoes no success.
LedgerKept ==
    /\ LedgerIsSound(runs', receipts')
    /\ UNCHANGED receipts
    /\ \A q \in RunIds : Succeeded(runs, q) => Succeeded(runs', q)

LEMMA RunFields ==
  ASSUME NEW x \in L!Run
  PROVE  /\ x # Null
         /\ x.owner \in Clients /\ x.meta \in L!Metadata
         /\ x.status \in {"running", "succeeded", "failed"}
         /\ x.output \in L!Counts \cup {Null} /\ x.error \in {"conflict", "error", Null}
         /\ x.revision \in {Revision, Null} /\ x.reconciles \in RunIds \cup {Null}
  BY RowsAreValues DEF L!Run, L!Terminal

LEMMA MetaIsMetadata ==
  ASSUME NEW f, IsFrame(f)
  PROVE  /\ Meta(f) \in L!Metadata /\ RevisionOf(f) \in {Revision, Null}
         /\ Len(f.rows) \in L!Counts
<1>1. f.kind \in {"raw", "classified"} /\ Len(f.rows) \in 1 .. MaxRows /\ MaxRows \in Nat
  BY BatchConstants DEF IsFrame
<1>2. Len(f.rows) \in L!Counts
  BY <1>1 DEF L!Counts
<1>3. WorkflowFor(f) \in L!Workflows /\ RevisionOf(f) \in {Revision, Null}
  BY DEF WorkflowFor, RevisionOf, L!Workflows
<1> QED
  BY <1>1, <1>2, <1>3 DEF Meta, L!Metadata

LEMMA OpenKeeps ==
  ASSUME LedgerIsSound(runs, receipts), NEW c \in Clients, NEW r \in Runs, NEW f, IsFrame(f),
         L!StartRun(c, r, Meta(f), RevisionOf(f))
  PROVE  LedgerKept
<1> DEFINE new == L!NewRun(c, Meta(f), RevisionOf(f))
<1>0. /\ runs \in [RunIds -> L!Run \cup {Null}] /\ receipts \in [RunIds -> L!Receipt \cup {Null}]
      /\ r \in RunIds /\ Null \notin RunIds
  BY RowsAreValues DEF LedgerIsSound, RunIds
<1>1. receipts' = receipts /\ runs' = IF L!Exists(r) THEN runs ELSE [runs EXCEPT ![r] = new]
  BY DEF L!StartRun
<1>2. new \in L!Run /\ new.reconciles = Null
  BY MetaIsMetadata DEF L!NewRun, L!Run
<1>3. CASE L!Exists(r)
  BY <1>1, <1>3 DEF LedgerKept
<1>4. CASE ~L!Exists(r)
  <2> HIDE DEF new
  <2>1. /\ runs' \in [RunIds -> L!Run \cup {Null}]
        /\ runs'[r] = new /\ \A q \in RunIds \ {r} : runs'[q] = runs[q]
    BY <1>0, <1>1, <1>2, <1>4
  <2>2. \A q \in RunIds : Succeeded(runs, q) => q # r /\ Succeeded(runs', q)
    BY <2>1, <1>4 DEF Succeeded, L!Exists
  <2>3. \A q, s \in RunIds : runs'[q] # Null /\ runs'[q].reconciles = s => Succeeded(runs', s)
    BY <2>1, <2>2, <1>0, <1>2 DEF LedgerIsSound
  <2> QED
    BY <2>1, <2>2, <2>3, <1>0, <1>1 DEF LedgerIsSound, LedgerKept
<1> QED
  BY <1>3, <1>4

LEMMA FinishKeeps ==
  ASSUME LedgerIsSound(runs, receipts), NEW c \in Clients, NEW r \in Runs,
         NEW f \in L!Closings, f.revision = Null, L!FinishRun(c, r, f)
  PROVE  LedgerKept /\ runs'[r] # Null /\ runs'[r].status = f.status
<1> DEFINE new == L!Closed(r, f)
<1>0. /\ runs \in [RunIds -> L!Run \cup {Null}] /\ receipts \in [RunIds -> L!Receipt \cup {Null}]
      /\ r \in RunIds /\ Null \notin RunIds
  BY RowsAreValues DEF LedgerIsSound, RunIds
<1>1. /\ receipts' = receipts /\ runs' = [runs EXCEPT ![r] = new]
      /\ runs[r] # Null /\ (~L!Running(r) => runs[r] = new)
  BY DEF L!FinishRun, L!FinishAccepted, L!Owns, L!Exists
<1>2. runs[r] \in L!Run
  BY <1>0, <1>1
<1>3. /\ f.status \in {"succeeded", "failed"} /\ f.output \in L!Counts \cup {Null}
      /\ f.error \in {"conflict", "error", Null}
  BY DEF L!Closings, L!Terminal
<1>4. new \in L!Run /\ new.status = f.status /\ new.reconciles = runs[r].reconciles
  <2>1. L!ErrorOf(f) \in {"conflict", "error", Null} /\ L!Coalesce(f.revision, runs[r].revision) = runs[r].revision
    BY <1>3 DEF L!ErrorOf, L!Coalesce
  <2> QED
    BY <2>1, <1>2, <1>3 DEF L!Closed, L!Run, L!Terminal
<1> HIDE DEF new
<1>5. new # Null
  BY <1>4, RunFields
<1>6. /\ runs' \in [RunIds -> L!Run \cup {Null}]
      /\ runs'[r] = new /\ \A q \in RunIds \ {r} : runs'[q] = runs[q]
  BY <1>0, <1>1, <1>4
<1>7. \A q \in RunIds : Succeeded(runs, q) => Succeeded(runs', q)
  <2>1. Succeeded(runs, r) => new = runs[r]
    BY <1>1 DEF Succeeded, L!Running
  <2> QED
    BY <2>1, <1>6 DEF Succeeded
<1>8. \A q, s \in RunIds : runs'[q] # Null /\ runs'[q].reconciles = s => Succeeded(runs', s)
  BY <1>1, <1>4, <1>6, <1>7 DEF LedgerIsSound
<1> QED
  BY <1>0, <1>1, <1>4, <1>5, <1>6, <1>7, <1>8 DEF LedgerIsSound, LedgerKept

LEMMA ReconciliationKeeps ==
  ASSUME LedgerIsSound(runs, receipts), NEW c \in Clients, NEW r \in Runs, NEW q \in RunIds,
         NEW e, e.rows \in L!Counts, L!Reconcile(c, r, q, e)
  PROVE  LedgerKept /\ Succeeded(runs', r)
<1>0. /\ runs \in [RunIds -> L!Run \cup {Null}] /\ receipts \in [RunIds -> L!Receipt \cup {Null}]
      /\ r \in RunIds /\ Null \notin RunIds
      /\ \A p, s \in RunIds : runs[p] # Null /\ runs[p].reconciles = s => Succeeded(runs, s)
  BY RowsAreValues DEF LedgerIsSound, RunIds
<1>1. /\ receipts' = receipts /\ runs[r] # Null
      /\ L!Reconciling(r) = {} => runs[r].status = "succeeded" \/ (L!Running(r) /\ runs[q] = Null)
  BY DEF L!Reconcile, L!ReconcileAccepted, L!Owns, L!Exists
<1>2. L!Reconciling(r) # {} => Succeeded(runs, r)
  BY <1>0 DEF L!Reconciling, L!Exists
<1>3. CASE L!Reconciling(r) # {} \/ ~L!Running(r)
  <2>1. runs' = runs
    BY <1>3 DEF L!Reconcile
  <2>2. Succeeded(runs, r)
    BY <1>1, <1>2, <1>3 DEF Succeeded
  <2> QED
    BY <2>1, <2>2, <1>1 DEF LedgerKept
<1>4. CASE L!Reconciling(r) = {} /\ L!Running(r)
  <2> DEFINE new == L!ReconciliationRun(c, r, e)
             old == [runs[r] EXCEPT !.status = "succeeded", !.output = e.rows, !.error = Null]
  <2>1. runs[q] = Null /\ runs[r].status = "running" /\ q # r
    BY <1>1, <1>4 DEF L!Running
  <2>2. runs' = [runs EXCEPT ![q] = new, ![r] = [@ EXCEPT !.status = "succeeded", !.output = e.rows, !.error = Null]]
    BY <1>4 DEF L!Reconcile
  <2>3. runs'[q] = new /\ runs'[r] = old /\ \A p \in RunIds \ {q, r} : runs'[p] = runs[p]
    BY <1>0, <2>1, <2>2
  <2>4. runs[r] \in L!Run
    BY <1>0, <1>1
  <2>5. old \in L!Run /\ old.status = "succeeded" /\ old.reconciles = runs[r].reconciles
    BY <2>4 DEF L!Run, L!Terminal
  <2>6. new \in L!Run /\ new.reconciles = r
    <3>1. [runs[r].meta EXCEPT !.app = L!Reconciler] \in L!Metadata
      BY <2>4, RunFields DEF L!Metadata
    <3>2. runs[r].revision \in {Revision, Null}
      BY <2>4, RunFields
    <3> QED
      BY <3>1, <3>2, <1>0 DEF L!ReconciliationRun, L!Run, L!Terminal
  <2>7. DOMAIN runs' = RunIds /\ runs' = [p \in RunIds |-> runs'[p]]
    BY <1>0, <2>2
  <2> HIDE DEF new, old
  <2>8. runs' \in [RunIds -> L!Run \cup {Null}]
    <3>1. \A p \in RunIds : runs'[p] \in L!Run \cup {Null}
      BY <1>0, <2>3, <2>5, <2>6
    <3> QED
      BY <3>1, <2>7
  <2>9. Succeeded(runs', r)
    BY <2>3, <2>5, RunFields DEF Succeeded
  <2>10. \A p \in RunIds : Succeeded(runs, p) => Succeeded(runs', p)
    BY <2>1, <2>3, <2>9 DEF Succeeded
  <2>11. \A p, s \in RunIds : runs'[p] # Null /\ runs'[p].reconciles = s => Succeeded(runs', s)
    <3> SUFFICES ASSUME NEW p \in RunIds, NEW s \in RunIds, runs'[p] # Null, runs'[p].reconciles = s
                 PROVE  Succeeded(runs', s)
      OBVIOUS
    <3>1. CASE p = q
      BY <3>1, <2>3, <2>6, <2>9
    <3>2. CASE p # q
      <4>1. runs[p] # Null /\ runs[p].reconciles = s
        BY <3>2, <2>3, <2>5, <1>1
      <4> QED
        BY <4>1, <1>0, <2>10
    <3> QED
      BY <3>1, <3>2
  <2> QED
    BY <1>0, <1>1, <2>8, <2>9, <2>10, <2>11 DEF LedgerIsSound, LedgerKept
<1> QED
  BY <1>3, <1>4

-----------------------------------------------------------------------------
(* The steps of a call that commit no rows.                                 *)

LEMMA LeftWritesNothing ==
  ASSUME NEW k, NEW p, NEW rep PROVE Left(k, p, rep).wrote = {}
  BY DEF Left, Nothing

\* A ledger function that is called, and a call that ends or goes on.
LEMMA LedgerStep ==
  ASSUME TelemetryInv, NEW c \in Clients, Mine(c), UNCHANGED table, LedgerKept,
         IsCall(c, call'[c], table, receipts, runs'), call'[c].wrote = {}
  PROVE  TelemetryInv'
<1>1. KeysAreUnique(table, call')
  BY KeysStay DEF TelemetryInv
<1> QED
  BY <1>1, QuietStep DEF LedgerKept

\* The same, where the ledger is left alone.
LEMMA IdleStep ==
  ASSUME TelemetryInv, NEW c \in Clients, Mine(c), UNCHANGED <<runs, receipts, table>>,
         IsCall(c, call'[c], table, receipts, runs),
         call'[c].wrote \subseteq call[c].wrote
  PROVE  TelemetryInv'
<1>1. KeysAreUnique(table, call')
  BY KeysStay DEF TelemetryInv
<1>2. LedgerIsSound(runs', receipts) /\ \A r \in RunIds : Succeeded(runs, r) => Succeeded(runs', r)
  BY DEF TelemetryInv
<1>3. IsCall(c, call'[c], table, receipts, runs')
  OBVIOUS
<1> QED
  BY <1>1, <1>2, <1>3, QuietStep

\* The invariant, for one process.
LEMMA CallFacts ==
  ASSUME TelemetryInv, NEW c \in Clients
  PROVE  /\ DOMAIN call = Clients /\ IsCall(c, call[c], table, receipts, runs)
         /\ LedgerIsSound(runs, receipts)
         /\ ~At(c, "idle") => /\ IsFrame(call[c].frame) /\ call[c].run \in RunsOf[c]
                              /\ call[c].run \in Runs
  BY DEF TelemetryInv, IsCall, At, Runs

LEMMA RaiseStep ==
  ASSUME TelemetryInv, NEW c \in Clients, ~At(c, "idle"), NEW e \in {"conflict", "error"},
         Raise(c, e), UNCHANGED <<runs, receipts, table>>
  PROVE  TelemetryInv'
<1>1. At(c, "succeed") => Vouched(call[c], table, receipts)
  BY CallFacts DEF IsCall, At
<1>2. Mine(c) /\ IsCall(c, call'[c], table, receipts, runs) /\ call'[c].wrote = {}
  BY <1>1, CallFacts, RaiseIsCall
<1> QED
  BY <1>2, IdleStep

LEMMA SubmitStep ==
  ASSUME TelemetryInv, NEW c \in Clients, NEW f \in FramesOf[c], NEW r \in RunsOf[c], Submit(c, f, r)
  PROVE  TelemetryInv'
<1> DEFINE g == [f EXCEPT !.rows = Normalized(@)]
<1>1. UNCHANGED <<runs, receipts, table>>
  BY DEF Submit
<1>2. CASE Valid(f)
  <2> DEFINE k == [Nothing EXCEPT !.at = "start", !.run = r, !.frame = g]
  <2>1. Change(c, k)
    BY <1>2 DEF Submit
  <2>2. /\ DOMAIN k = CallFields /\ k.at = "start" /\ k.frame = g /\ k.run = r
        /\ k.wrote = {} /\ k.reply = "none"
    BY DEF Nothing, CallFields
  <2>3. IsFrame(g)
    BY FrameIsFrame
  <2> HIDE DEF k, g
  <2>4. IsCall(c, k, table, receipts, runs)
    BY <2>2, <2>3 DEF IsCall, InTransaction, Points
  <2> QED
    BY <1>1, <2>1, <2>2, <2>4, ChangeIsMine, CallFacts, IdleStep
<1>3. CASE ~Valid(f)
  <2>1. Change(c, [Nothing EXCEPT !.reply = "error"])
    BY <1>3 DEF Submit
  <2>2. Mine(c) /\ call'[c] = [Nothing EXCEPT !.reply = "error"]
    BY <2>1, ChangeIsMine, CallFacts
  <2>3. IsCall(c, call'[c], table, receipts, runs) /\ call'[c].wrote = {}
    BY <2>2, NothingIsCall
  <2> QED
    BY <1>1, <2>2, <2>3, IdleStep
<1> QED
  BY <1>2, <1>3

LEMMA CrashStep ==
  ASSUME TelemetryInv, NEW c \in Clients, Crash(c)
  PROVE  TelemetryInv'
<1>1. Mine(c) /\ call'[c] = Nothing /\ UNCHANGED <<runs, receipts, table>>
  BY ChangeIsMine, CallFacts DEF Crash
<1>2. Nothing = [Nothing EXCEPT !.reply = "none"]
  BY DEF Nothing
<1>3. IsCall(c, call'[c], table, receipts, runs) /\ call'[c].wrote = {}
  BY <1>1, <1>2, NothingIsCall
<1> QED
  BY <1>1, <1>3, IdleStep

LEMMA OpenStep ==
  ASSUME TelemetryInv, NEW c \in Clients, OpenRun(c)
  PROVE  TelemetryInv'
<1> DEFINE k == call[c]
<1>1. At(c, "start") /\ UNCHANGED table /\ Answer(c, "start", "read", "none")
  BY DEF OpenRun
<1>2. IsFrame(k.frame) /\ k.run \in RunsOf[c] /\ k.run \in Runs
  BY <1>1, CallFacts DEF At
<1>3. LedgerKept
  BY <1>2, CallFacts, OpenKeeps DEF OpenRun, Frame
<1>4. CASE Leave(c, "read", "none")
  BY <1>1, <1>2, <1>3, <1>4, CallFacts, LeaveIsMine, LeftIsCall, LedgerStep, LeftWritesNothing
<1>5. CASE Raise(c, "error")
  <2>1. Mine(c) /\ IsCall(c, call'[c], table, receipts, runs') /\ call'[c].wrote = {}
    BY <1>1, <1>5, CallFacts, RaiseIsCall DEF At
  <2> QED
    BY <1>1, <1>3, <2>1, LedgerStep
<1> QED
  BY <1>1, <1>4, <1>5 DEF Answer

LEMMA CloseStep ==
  ASSUME TelemetryInv, NEW c \in Clients, CloseRun(c)
  PROVE  TelemetryInv'
<1> DEFINE k == call[c]
           f == Closing(c)
           rep == IF At(c, "succeed") THEN "confirmed" ELSE call[c].reply
<1>1. /\ At(c, "succeed") \/ At(c, "fail")
      /\ UNCHANGED table /\ Answer(c, "finish", "idle", rep) /\ L!FinishRun(c, k.run, f)
  BY DEF CloseRun
<1>2. /\ IsFrame(k.frame) /\ k.run \in RunsOf[c] /\ k.run \in Runs
      /\ At(c, "succeed") => Vouched(k, table, receipts)
      /\ At(c, "fail") => k.reply \in {"conflict", "error"}
  BY <1>1, CallFacts DEF At, IsCall
<1>3. f \in L!Closings /\ f.revision = Null /\ (At(c, "succeed") => f.status = "succeeded")
  <2>1. CASE At(c, "succeed")
    <3>1. f = [status |-> "succeeded", output |-> Len(k.frame.rows), error |-> Null, revision |-> Null]
      BY <2>1 DEF Closing, Frame
    <3> QED
      BY <3>1, <1>2, MetaIsMetadata DEF L!Closings, L!Terminal
  <2>2. CASE ~At(c, "succeed")
    <3>1. f = [status |-> "failed", output |-> Null, error |-> k.reply, revision |-> Null]
      BY <2>2 DEF Closing
    <3> QED
      BY <3>1, <1>1, <1>2, <2>2 DEF L!Closings, L!Terminal
  <2> QED
    BY <2>1, <2>2
<1> HIDE DEF f
<1>4. LedgerKept /\ (At(c, "succeed") => Succeeded(runs', k.run))
  BY <1>1, <1>2, <1>3, CallFacts, FinishKeeps DEF Succeeded
<1>5. CASE Leave(c, "idle", rep)
  <2>1. Mine(c) /\ call'[c] = Left(k, "idle", rep)
    BY <1>5, CallFacts, LeaveIsMine
  <2>2. IsCall(c, Left(k, "idle", rep), table, receipts, runs')
    BY <1>1, <1>2, <1>4, LeftIsCall
  <2> QED
    BY <1>1, <1>4, <2>1, <2>2, LeftWritesNothing, LedgerStep
<1>6. CASE Raise(c, "error")
  <2>1. Mine(c) /\ IsCall(c, call'[c], table, receipts, runs') /\ call'[c].wrote = {}
    BY <1>1, <1>2, <1>6, CallFacts, RaiseIsCall DEF At
  <2> QED
    BY <1>1, <1>4, <2>1, LedgerStep
<1> QED
  BY <1>1, <1>5, <1>6 DEF Answer

\* The batch a transaction is at.
LEMMA BatchFacts ==
  ASSUME TelemetryInv, NEW c \in Clients, call[c].at \in InTransaction
  PROVE  /\ IsTransaction(call[c], table) /\ call[c].reply = "none"
         /\ IsFrame(call[c].frame) /\ call[c].run \in RunsOf[c] /\ call[c].run \in Runs
         /\ DOMAIN call[c] = CallFields
         /\ BatchSize \in Nat \ {0} /\ Offset(call[c]) \in Nat
         /\ call[c].batch * BatchSize = Offset(call[c]) + BatchSize
         /\ SizeOf(call[c]) \in Nat \ {0} /\ Len(BatchRows(c)) = SizeOf(call[c])
         /\ DOMAIN BatchRows(c) = 1 .. SizeOf(call[c])
         /\ \A i \in 1 .. SizeOf(call[c]) :
               /\ Offset(call[c]) + i \in DOMAIN call[c].frame.rows
               /\ BatchRows(c)[i] = RowOf(call[c].frame, call[c].run, call[c].entity, Offset(call[c]) + i)
         /\ \A i \in DOMAIN call[c].frame.rows :
               i <= call[c].batch * BatchSize => i <= Offset(call[c]) \/ i - Offset(call[c]) \in 1 .. SizeOf(call[c])
<1> DEFINE k == call[c]
           f == call[c].frame
           n == Len(call[c].frame.rows)
           b == Offset(call[c])
           size == SizeOf(call[c])
<1>1. /\ IsTransaction(k, table) /\ k.reply = "none" /\ IsFrame(f)
      /\ k.run \in RunsOf[c] /\ k.run \in Runs /\ DOMAIN k = CallFields
  BY DEF TelemetryInv, IsCall, InTransaction, Runs
<1>2. /\ BatchSize \in Nat \ {0} /\ MaxRows \in Nat /\ n \in 1 .. MaxRows
      /\ DOMAIN f.rows = 1 .. n
  BY <1>1, BatchConstants DEF IsFrame
<1>3. k.batch \in Nat \ {0} /\ b < n
  BY <1>1 DEF IsTransaction
<1>4. b \in Nat /\ k.batch * BatchSize = b + BatchSize
  <2>1. b = (k.batch - 1) * BatchSize /\ k.batch - 1 \in Nat
    BY <1>3 DEF Offset
  <2>2. (k.batch - 1) * BatchSize \in Nat
    BY <2>1, <1>2
  <2>3. k.batch * BatchSize = (k.batch - 1) * BatchSize + BatchSize
    BY <1>2, <1>3
  <2> QED
    BY <2>1, <2>2, <2>3
<1>5. size = IF n - b < BatchSize THEN n - b ELSE BatchSize
  BY DEF SizeOf
<1>6. BatchRows(c) = [i \in 1 .. size |-> RowOf(f, k.run, k.entity, b + i)]
  BY DEF BatchRows, SizeOf, Offset, RowOf, Entity, Frame
<1> HIDE DEF b, size
<1>7. size \in Nat \ {0} /\ b + size <= n
  BY <1>2, <1>3, <1>4, <1>5
<1>8. DOMAIN BatchRows(c) = 1 .. size /\ \A i \in 1 .. size : BatchRows(c)[i] = RowOf(f, k.run, k.entity, b + i)
  BY <1>6
<1>9. Len(BatchRows(c)) = size
  <2> DEFINE s == BatchRows(c)
  <2>1. s = [i \in 1 .. size |-> s[i]]
    BY <1>6
  <2> HIDE DEF s
  <2>2. size \in Nat
    BY <1>7
  <2>3. Len(s) = size
    BY <2>1, <2>2, LengthOf
  <2> QED
    BY <2>3 DEF s
<1>10. \A i \in 1 .. size : b + i \in DOMAIN f.rows
  BY <1>2, <1>4, <1>7
<1>11. \A i \in DOMAIN f.rows : i <= k.batch * BatchSize => i <= b \/ i - b \in 1 .. size
  <2> DEFINE top == k.batch * BatchSize
  <2>1. top = b + BatchSize /\ b \in Nat /\ BatchSize \in Nat /\ n \in Nat
    BY <1>2, <1>4
  <2> HIDE DEF top, n
  <2>2. SUFFICES ASSUME NEW i \in 1 .. n, i <= top, ~ (i <= b)
                 PROVE  i - b \in 1 .. size
    BY <1>2 DEF top
  <2>3. i \in Nat /\ i <= n /\ b < i /\ i <= b + BatchSize
    BY <2>1, <2>2
  <2> QED
    BY <2>1, <2>3, <1>5
<1> QED
  BY <1>1, <1>2, <1>4, <1>7, <1>8, <1>9, <1>10, <1>11 DEF b, size

\* A call that stays in its transaction.
LEMMA GoesOn ==
  ASSUME NEW c, NEW k, NEW l, NEW tb, NEW rc, NEW rs,
         k.at \in InTransaction, l.at \in InTransaction, DOMAIN l = CallFields,
         l.frame = k.frame, l.run = k.run, l.reply = "none",
         IsFrame(k.frame), k.run \in RunsOf[c], IsTransaction(l, tb)
  PROVE  IsCall(c, l, tb, rc, rs)
<1>1. l.at \in Points /\ l.at \notin {"idle", "fail", "succeed"}
  BY DEF InTransaction, Points
<1> QED
  BY <1>1 DEF IsCall

\* A transaction that goes on with the rows it has written.
LEMMA SameWork ==
  ASSUME NEW k, NEW l, NEW tb, IsTransaction(k, tb),
         l.frame = k.frame, l.run = k.run, l.wrote = k.wrote,
         l.batch \in Nat \ {0}, l.entity \in DOMAIN Entities(k.frame), l.next \in Nat,
         Offset(l) < Len(k.frame.rows), l.at = "insert" => l.next < SizeOf(l),
         \A e \in DOMAIN Entities(k.frame), i \in DOMAIN k.frame.rows :
            Past(l, e, i) => IsThere(tb \cup k.wrote, k.frame, k.run, e, i)
  PROVE  IsTransaction(l, tb)
<1> DEFINE all == tb \cup k.wrote
<1>1. IsFiniteSet(l.wrote)
  BY DEF IsTransaction
<1>2. \A z \in l.wrote : \E e \in DOMAIN Entities(l.frame), i \in DOMAIN l.frame.rows :
          z = RowOf(l.frame, l.run, e, i)
  BY DEF IsTransaction
<1>3. /\ l.batch \in Nat \ {0} /\ l.entity \in DOMAIN Entities(l.frame) /\ l.next \in Nat
      /\ Offset(l) < Len(l.frame.rows) /\ (l.at = "insert" => l.next < SizeOf(l))
  OBVIOUS
<1>4. tb \cup l.wrote = all
  OBVIOUS
<1> HIDE DEF all
<1>5. \A e \in DOMAIN Entities(k.frame), i \in DOMAIN k.frame.rows :
          Past(l, e, i) => IsThere(all, k.frame, k.run, e, i)
  BY DEF all
<1>6. \A e \in DOMAIN Entities(l.frame), i \in DOMAIN l.frame.rows :
          Past(l, e, i) => IsThere(tb \cup l.wrote, l.frame, l.run, e, i)
  BY <1>4, <1>5
<1> QED
  BY <1>1, <1>2, <1>3, <1>6 DEF IsTransaction

\* A batch begins before the end of the frame, so there is a row to insert.
LEMMA ReadStep ==
  ASSUME TelemetryInv, NEW c \in Clients, ReadExisting(c)
  PROVE  TelemetryInv'
<1> DEFINE k == call[c]
           l == [call[c] EXCEPT !.at = "insert", !.next = 0]
<1>1. At(c, "read") /\ UNCHANGED <<runs, receipts, table>>
  BY DEF ReadExisting
<1>2. k.at = "read" /\ k.at \in InTransaction /\ ~At(c, "idle")
  BY <1>1 DEF At, InTransaction
<1>3. Change(c, l) \/ Raise(c, "conflict")
  BY DEF ReadExisting
<1>4. CASE Change(c, l)
  <2>1. /\ IsTransaction(k, table) /\ k.reply = "none" /\ IsFrame(k.frame) /\ k.run \in RunsOf[c]
        /\ DOMAIN k = CallFields /\ SizeOf(k) \in Nat \ {0}
    BY <1>2, BatchFacts
  <2>2. /\ DOMAIN l = CallFields /\ l.at = "insert" /\ l.next = 0 /\ l.frame = k.frame
        /\ l.run = k.run /\ l.batch = k.batch /\ l.entity = k.entity /\ l.wrote = k.wrote
        /\ l.reply = "none"
    BY <2>1 DEF CallFields
  <2> HIDE DEF l
  <2>3. Offset(l) = Offset(k) /\ SizeOf(l) = SizeOf(k)
    BY <2>2 DEF Offset, SizeOf
  <2>4. \A e, i : Past(l, e, i) => Past(k, e, i)
    BY <2>2, <2>3 DEF Past
  <2>5. IsTransaction(l, table)
    <3>1. \A e \in DOMAIN Entities(k.frame), i \in DOMAIN k.frame.rows :
              Past(l, e, i) => IsThere(table \cup k.wrote, k.frame, k.run, e, i)
      BY <2>1, <2>4 DEF IsTransaction
    <3>2. /\ l.batch \in Nat \ {0} /\ l.entity \in DOMAIN Entities(k.frame) /\ l.next \in Nat
          /\ Offset(l) < Len(k.frame.rows) /\ (l.at = "insert" => l.next < SizeOf(l))
      BY <2>1, <2>2, <2>3 DEF IsTransaction
    <3> QED
      BY <2>1, <2>2, <3>1, <3>2, SameWork
  <2>6. IsCall(c, l, table, receipts, runs)
    BY <1>2, <2>1, <2>2, <2>5, GoesOn DEF InTransaction
  <2> QED
    BY <1>1, <1>4, <2>2, <2>6, ChangeIsMine, CallFacts, IdleStep
<1> QED
  BY <1>1, <1>2, <1>3, <1>4, RaiseStep

\* A row is written where neither the transaction, nor the table, nor a rival has one.
LEMMA InsertStep ==
  ASSUME TelemetryInv, NEW c \in Clients, InsertRow(c)
  PROVE  TelemetryInv'
<1> DEFINE k == call[c]
           n == call[c].next + 1
           row == BatchRows(c)[n]
           l == [call[c] EXCEPT !.next  = n,
                                !.wrote = IF Visible(c, row) = {} THEN @ \cup {row} ELSE @,
                                !.at    = IF n = Len(BatchRows(c)) THEN "compare" ELSE @]
<1>1. /\ At(c, "insert") /\ Rivals(c, row) = {} /\ Change(c, l)
      /\ UNCHANGED <<runs, receipts, table>>
  BY DEF InsertRow
<1>2. k.at = "insert" /\ k.at \in InTransaction /\ ~At(c, "idle")
  BY <1>1 DEF At, InTransaction
<1>3. /\ IsTransaction(k, table) /\ k.reply = "none" /\ IsFrame(k.frame) /\ k.run \in RunsOf[c]
      /\ DOMAIN k = CallFields /\ SizeOf(k) \in Nat \ {0} /\ Len(BatchRows(c)) = SizeOf(k)
      /\ \A i \in 1 .. SizeOf(k) :
            /\ Offset(k) + i \in DOMAIN k.frame.rows
            /\ BatchRows(c)[i] = RowOf(k.frame, k.run, k.entity, Offset(k) + i)
  BY <1>2, BatchFacts
<1>4. k.next \in Nat /\ k.next < SizeOf(k) /\ k.entity \in DOMAIN Entities(k.frame)
  BY <1>2, <1>3 DEF IsTransaction
<1>5. n \in 1 .. SizeOf(k)
  BY <1>3, <1>4
<1>6. Offset(k) + n \in DOMAIN k.frame.rows /\ row = RowOf(k.frame, k.run, k.entity, Offset(k) + n)
  BY <1>3, <1>5
<1>7. /\ DOMAIN l = CallFields /\ l.at = (IF n = SizeOf(k) THEN "compare" ELSE "insert")
      /\ l.next = n /\ l.frame = k.frame
      /\ l.run = k.run /\ l.batch = k.batch /\ l.entity = k.entity
      /\ l.wrote = (IF Visible(c, row) = {} THEN k.wrote \cup {row} ELSE k.wrote)
      /\ l.reply = "none"
  BY <1>2, <1>3 DEF CallFields
<1> HIDE DEF l, n, row
<1>8. l.at \in {"insert", "compare"} /\ (l.at = "insert" => l.next < SizeOf(k)) /\ l.next \in Nat
  BY <1>3, <1>5, <1>7
<1>9. Offset(l) = Offset(k) /\ SizeOf(l) = SizeOf(k)
  BY <1>7 DEF Offset, SizeOf
<1>10. \A e, i : Past(l, e, i) => Past(k, e, i)
  BY <1>7, <1>8, <1>9 DEF Past
<1>11. IsTransaction(l, table)
  <2>1. IsFiniteSet(l.wrote)
    <3>1. IsFiniteSet(k.wrote)
      BY <1>3 DEF IsTransaction
    <3> QED
      BY <3>1, <1>7, FS_AddElement
  <2>2. \A z \in l.wrote : \E e \in DOMAIN Entities(l.frame), i \in DOMAIN l.frame.rows :
            z = RowOf(l.frame, l.run, e, i)
    BY <1>3, <1>4, <1>6, <1>7 DEF IsTransaction
  <2>3. table \cup k.wrote \subseteq table \cup l.wrote
    BY <1>7
  <2>4. \A e \in DOMAIN Entities(l.frame), i \in DOMAIN l.frame.rows :
            Past(l, e, i) => IsThere(table \cup l.wrote, l.frame, l.run, e, i)
    <3> SUFFICES ASSUME NEW e \in DOMAIN Entities(l.frame), NEW i \in DOMAIN l.frame.rows, Past(l, e, i)
                 PROVE  IsThere(table \cup l.wrote, l.frame, l.run, e, i)
      OBVIOUS
    <3>1. IsThere(table \cup k.wrote, k.frame, k.run, e, i)
      BY <1>3, <1>7, <1>10 DEF IsTransaction
    <3> QED
      BY <3>1, <2>3, <1>7, WholeGrows
  <2>5. Offset(l) < Len(l.frame.rows) /\ l.batch \in Nat \ {0} /\ l.entity \in DOMAIN Entities(l.frame)
    BY <1>3, <1>7, <1>9 DEF IsTransaction
  <2> QED
    BY <2>1, <2>2, <2>4, <2>5, <1>8, <1>9 DEF IsTransaction
<1>12. IsCall(c, l, table, receipts, runs)
  BY <1>2, <1>3, <1>7, <1>8, <1>11, GoesOn DEF InTransaction
<1>13. Mine(c) /\ call'[c] = l
  BY <1>1, ChangeIsMine, CallFacts
<1>14. ASSUME NEW x, x \in table \cup k.wrote, Visible(c, row) = {} PROVE ~Keyed(x, row) /\ ~Keyed(row, x)
  BY <1>14 DEF Visible, Keyed
<1>15. ASSUME NEW d \in Clients \ {c}, NEW x \in call[d].wrote PROVE ~Keyed(x, row) /\ ~Keyed(row, x)
  BY <1>1, <1>15 DEF Rivals, Keyed
<1>16. KeysAreUnique(table, call')
  <2>1. KeysAreUnique(table, call)
    BY DEF TelemetryInv
  <2>2. \A a \in l.wrote : a \in k.wrote \/ (a = row /\ Visible(c, row) = {})
    BY <1>7
  <2>3. ASSUME NEW a \in l.wrote
        PROVE  /\ \A b \in table : ~Keyed(a, b)
               /\ \A b \in l.wrote : Keyed(a, b) => a = b
               /\ \A d \in Clients \ {c} : \A b \in call[d].wrote : ~Keyed(a, b) /\ ~Keyed(b, a)
    <3>1. \A b \in table : ~Keyed(a, b)
      BY <2>1, <2>2, <1>14 DEF KeysAreUnique
    <3>2. \A b \in l.wrote : Keyed(a, b) => a = b
      BY <2>1, <2>2, <1>14 DEF KeysAreUnique
    <3>3. \A d \in Clients \ {c} : \A b \in call[d].wrote : ~Keyed(a, b) /\ ~Keyed(b, a)
      BY <2>1, <2>2, <1>15 DEF KeysAreUnique, Keyed
    <3> QED
      BY <3>1, <3>2, <3>3
  <2>4. \A a, b \in table : Keyed(a, b) => a = b
    BY <2>1 DEF KeysAreUnique
  <2>5. ASSUME NEW d \in Clients \ {c}, NEW a \in call[d].wrote
        PROVE  /\ \A b \in table : ~Keyed(a, b)
               /\ \A b \in call[d].wrote : Keyed(a, b) => a = b
               /\ \A g \in Clients \ {d} : g # c => \A b \in call[g].wrote : ~Keyed(a, b)
    BY <2>1 DEF KeysAreUnique
  <2>6. \A d \in Clients : call'[d].wrote = IF d = c THEN l.wrote ELSE call[d].wrote
    BY <1>13 DEF Mine
  <2>7. ASSUME NEW d \in Clients, NEW a \in call'[d].wrote
        PROVE  /\ \A b \in table : ~Keyed(a, b)
               /\ \A b \in call'[d].wrote : Keyed(a, b) => a = b
               /\ \A g \in Clients \ {d} : \A b \in call'[g].wrote : ~Keyed(a, b)
    <3>1. CASE d = c
      BY <3>1, <2>3, <2>6
    <3>2. CASE d # c
      BY <3>2, <2>3, <2>5, <2>6
    <3> QED
      BY <3>1, <3>2
  <2> QED
    BY <2>4, <2>7 DEF KeysAreUnique
<1>17. LedgerIsSound(runs', receipts) /\ \A r \in RunIds : Succeeded(runs, r) => Succeeded(runs', r)
  BY <1>1 DEF TelemetryInv
<1>18. IsCall(c, call'[c], table, receipts, runs')
  BY <1>1, <1>12, <1>13
<1> QED
  BY <1>1, <1>13, <1>16, <1>17, <1>18, QuietStep

\* The batches of n rows cover them.
LEMMA BatchesCover ==
  ASSUME NEW B \in Nat \ {0}, NEW n \in Nat, NEW b \in Nat
  PROVE  IF b < (n + B - 1) \div B THEN b * B < n ELSE n <= b * B
<1> DEFINE q == (n + B - 1) \div B
<1>1. q \in Int /\ q * B <= n + B - 1 /\ n + B - 1 < q * B + B
  OBVIOUS
<1> HIDE DEF q
<1>2. CASE b < q
  <2>1. b + 1 <= q
    BY <1>1, <1>2
  <2>2. (b + 1) * B <= q * B /\ (b + 1) * B = b * B + B
    BY <1>1, <2>1
  <2>3. b * B < n
    BY <1>1, <2>2
  <2> QED
    BY <1>2, <2>3 DEF q
<1>3. CASE ~(b < q)
  <2>1. q <= b
    BY <1>1, <1>3
  <2>2. q * B <= b * B
    BY <1>1, <2>1
  <2>3. n <= b * B
    BY <1>1, <2>2
  <2> QED
    BY <1>3, <2>3 DEF q
<1> QED
  BY <1>2, <1>3

\* A batch is left when each of its rows is there with its content.
LEMMA CompareStep ==
  ASSUME TelemetryInv, NEW c \in Clients, Compare(c)
  PROVE  TelemetryInv'
<1> DEFINE k == call[c]
           all == table \cup call[c].wrote
           found == \A i \in DOMAIN BatchRows(c) :
                       \E x \in Visible(c, BatchRows(c)[i]) : SameContent(x, BatchRows(c)[i])
           next == [call[c] EXCEPT !.entity = @ + 1, !.at = "read"]
           more == [call[c] EXCEPT !.batch = @ + 1, !.entity = 1, !.at = "read"]
           last == [call[c] EXCEPT !.at = "receipt"]
<1>1. At(c, "compare") /\ UNCHANGED <<runs, receipts, table>>
  BY DEF Compare
<1>2. k.at = "compare" /\ k.at \in InTransaction /\ ~At(c, "idle")
  BY <1>1 DEF At, InTransaction
<1>3. /\ IsTransaction(k, table) /\ k.reply = "none" /\ IsFrame(k.frame) /\ k.run \in RunsOf[c]
      /\ DOMAIN k = CallFields
      /\ BatchSize \in Nat \ {0} /\ Offset(k) \in Nat /\ k.batch * BatchSize = Offset(k) + BatchSize
      /\ SizeOf(k) \in Nat \ {0} /\ DOMAIN BatchRows(c) = 1 .. SizeOf(k)
      /\ \A i \in 1 .. SizeOf(k) :
            BatchRows(c)[i] = RowOf(k.frame, k.run, k.entity, Offset(k) + i)
      /\ \A i \in DOMAIN k.frame.rows :
            i <= k.batch * BatchSize => i <= Offset(k) \/ i - Offset(k) \in 1 .. SizeOf(k)
  BY <1>2, BatchFacts
<1>4. /\ k.batch \in Nat \ {0} /\ k.entity \in DOMAIN Entities(k.frame) /\ k.next \in Nat
      /\ DOMAIN Entities(k.frame) = 1 .. Len(Entities(k.frame)) /\ Len(Entities(k.frame)) \in 1 .. 2
      /\ Len(k.frame.rows) \in Nat \ {0} /\ DOMAIN k.frame.rows = 1 .. Len(k.frame.rows)
  BY <1>3, EntityFacts, BatchConstants DEF IsTransaction, IsFrame
<1>5. \/ Raise(c, "conflict")
      \/ found /\ k.entity < Len(Entities(k.frame)) /\ Change(c, next)
      \/ found /\ ~(k.entity < Len(Entities(k.frame))) /\ k.batch < Batches(k.frame) /\ Change(c, more)
      \/ found /\ ~(k.entity < Len(Entities(k.frame))) /\ ~(k.batch < Batches(k.frame)) /\ Change(c, last)
  BY DEF Compare, Go, Frame
<1>6. CASE Raise(c, "conflict")
  BY <1>1, <1>2, <1>6, RaiseStep
<1>7. ASSUME found, NEW e \in DOMAIN Entities(k.frame), NEW i \in DOMAIN k.frame.rows,
             i <= Offset(k) \/ (e <= k.entity /\ i <= k.batch * BatchSize)
      PROVE  IsThere(all, k.frame, k.run, e, i)
  <2>1. e \in Nat /\ k.entity \in Nat /\ i \in Nat
    BY <1>4
  <2>2. CASE Past(k, e, i)
    BY <2>2, <1>3 DEF IsTransaction
  <2>3. CASE ~Past(k, e, i)
    <3>1. e = k.entity /\ i - Offset(k) \in 1 .. SizeOf(k)
      BY <2>1, <2>3, <1>3, <1>7 DEF Past
    <3> DEFINE j == i - Offset(k)
               row == BatchRows(c)[j]
    <3>2. row = RowOf(k.frame, k.run, e, i)
      <4>1. Offset(k) + j = i
        BY <2>1, <1>3
      <4> QED
        BY <3>1, <4>1, <1>3
    <3>3. PICK x \in Visible(c, row) : SameContent(x, row)
      BY <3>1, <1>3, <1>7
    <3>4. row.content = k.frame.rows[i]
      BY <3>2 DEF RowOf, RowFor
    <3> QED
      BY <3>2, <3>3, <3>4 DEF Visible, SameContent, IsThere, Keyed
  <2> QED
    BY <2>2, <2>3
<1>8. ASSUME NEW l, Change(c, l), DOMAIN l = CallFields, l.frame = k.frame, l.run = k.run,
             l.next = k.next, l.wrote = k.wrote, l.reply = "none", l.at \in {"read", "receipt"},
             l.batch \in Nat \ {0}, l.entity \in DOMAIN Entities(k.frame),
             Offset(l) < Len(k.frame.rows),
             \A e \in DOMAIN Entities(k.frame), i \in DOMAIN k.frame.rows :
                Past(l, e, i) => IsThere(all, k.frame, k.run, e, i)
      PROVE  TelemetryInv'
  <2>1. IsTransaction(l, table)
    BY <1>3, <1>4, <1>8, SameWork
  <2>2. IsCall(c, l, table, receipts, runs)
    BY <1>2, <1>3, <1>8, <2>1, GoesOn DEF InTransaction
  <2> QED
    BY <1>1, <1>8, <2>2, ChangeIsMine, CallFacts, IdleStep
<1>9. CASE found /\ k.entity < Len(Entities(k.frame)) /\ Change(c, next)
  <2>1. /\ DOMAIN next = CallFields /\ next.frame = k.frame /\ next.run = k.run
        /\ next.next = k.next /\ next.wrote = k.wrote /\ next.reply = "none" /\ next.at = "read"
        /\ next.batch = k.batch /\ next.entity = k.entity + 1
    BY <1>3 DEF CallFields
  <2> HIDE DEF next
  <2>2. next.entity \in DOMAIN Entities(k.frame)
    BY <1>4, <1>9, <2>1
  <2>3. Offset(next) = Offset(k) /\ Offset(k) < Len(k.frame.rows)
    BY <2>1, <1>3 DEF Offset, IsTransaction
  <2>4. ASSUME NEW e \in DOMAIN Entities(k.frame), NEW i \in DOMAIN k.frame.rows, Past(next, e, i)
        PROVE  IsThere(all, k.frame, k.run, e, i)
    <3>1. i <= Offset(k) \/ (e <= k.entity /\ i <= k.batch * BatchSize)
      BY <2>1, <2>3, <2>4, <1>4 DEF Past
    <3> QED
      BY <3>1, <1>7, <1>9
  <2> QED
    BY <1>4, <1>8, <1>9, <2>1, <2>2, <2>3, <2>4
<1>10. CASE found /\ ~(k.entity < Len(Entities(k.frame))) /\ k.batch < Batches(k.frame) /\ Change(c, more)
  <2>1. /\ DOMAIN more = CallFields /\ more.frame = k.frame /\ more.run = k.run
        /\ more.next = k.next /\ more.wrote = k.wrote /\ more.reply = "none" /\ more.at = "read"
        /\ more.batch = k.batch + 1 /\ more.entity = 1
    BY <1>3 DEF CallFields
  <2> HIDE DEF more
  <2>2. more.entity \in DOMAIN Entities(k.frame) /\ more.batch \in Nat \ {0}
    BY <1>4, <2>1
  <2>3. Offset(more) = k.batch * BatchSize /\ Offset(more) < Len(k.frame.rows)
    <3>1. Offset(more) = k.batch * BatchSize
      BY <2>1, <1>4 DEF Offset
    <3>2. k.batch < (Len(k.frame.rows) + BatchSize - 1) \div BatchSize
      BY <1>10 DEF Batches
    <3> QED
      BY <3>1, <3>2, <1>3, <1>4, BatchesCover
  <2>4. ASSUME NEW e \in DOMAIN Entities(k.frame), NEW i \in DOMAIN k.frame.rows, Past(more, e, i)
        PROVE  IsThere(all, k.frame, k.run, e, i)
    <3>0. e \in Nat /\ e >= 1 /\ e <= k.entity
      BY <1>4, <1>10
    <3>1. i <= k.batch * BatchSize
      BY <3>0, <2>1, <2>3, <2>4 DEF Past
    <3> QED
      BY <3>0, <3>1, <1>7, <1>10
  <2> QED
    BY <1>8, <1>10, <2>1, <2>2, <2>3, <2>4
<1>11. CASE found /\ ~(k.entity < Len(Entities(k.frame))) /\ ~(k.batch < Batches(k.frame)) /\ Change(c, last)
  <2>1. /\ DOMAIN last = CallFields /\ last.frame = k.frame /\ last.run = k.run
        /\ last.next = k.next /\ last.wrote = k.wrote /\ last.reply = "none" /\ last.at = "receipt"
        /\ last.batch = k.batch /\ last.entity = k.entity
    BY <1>3 DEF CallFields
  <2> HIDE DEF last
  <2>2. Offset(last) = Offset(k) /\ Offset(k) < Len(k.frame.rows)
    BY <2>1, <1>3 DEF Offset, IsTransaction
  <2>3. Len(k.frame.rows) <= k.batch * BatchSize
    <3>1. ~(k.batch < (Len(k.frame.rows) + BatchSize - 1) \div BatchSize)
      BY <1>11 DEF Batches
    <3> QED
      BY <3>1, <1>3, <1>4, BatchesCover
  <2>4. ASSUME NEW e \in DOMAIN Entities(k.frame), NEW i \in DOMAIN k.frame.rows, Past(last, e, i)
        PROVE  IsThere(all, k.frame, k.run, e, i)
    <3>1. e <= k.entity
      <4>1. DOMAIN Entities(k.frame) = 1 .. Len(Entities(k.frame))
        BY <1>4
      <4> QED
        BY <1>4, <1>11, <4>1
    <3>2. i <= k.batch * BatchSize
      <4>1. DOMAIN k.frame.rows = 1 .. Len(k.frame.rows)
        BY <1>3
      <4>2. i \in Nat /\ i <= Len(k.frame.rows)
        BY <1>4, <4>1
      <4>3. \A x, y, z \in Int : x <= y /\ y <= z => x <= z
        OBVIOUS
      <4>4. Len(k.frame.rows) \in Int /\ k.batch * BatchSize \in Int
        BY <1>3, <1>4
      <4> QED
        BY <2>3, <4>2, <4>3, <4>4
    <3> QED
      BY <3>1, <3>2, <1>7, <1>11
  <2> QED
    BY <1>4, <1>8, <1>11, <2>1, <2>2, <2>4
<1> QED
  BY <1>5, <1>6, <1>9, <1>10, <1>11

-----------------------------------------------------------------------------
(* The step that commits the rows with their receipt.                       *)

\* Run r has no rows in tb, and w is what it adds to store frame f.
Writes(f, r, tb, w) ==
    /\ \A x \in tb : x.run # r
    /\ \A z \in w : \E e \in DOMAIN Entities(f), i \in DOMAIN f.rows : z = RowOf(f, r, e, i)
    /\ \A e \in DOMAIN Entities(f), i \in DOMAIN f.rows : IsThere(tb \cup w, f, r, e, i)

Written(w, entity) == {x \in w : x.entity = entity}
RowsFor(f, r, e) == {RowOf(f, r, e, i) : i \in DOMAIN f.rows}

\* The rows a run has just written are all the rows of its frame.
LEMMA WroteTheFrame ==
  ASSUME NEW f, IsFrame(f), NEW r, NEW tb, NEW w, Labelled(tb),
         Writes(f, r, tb, w),
         f.kind # "raw"
  PROVE  \A e \in DOMAIN Entities(f) : Written(w, Entities(f)[e]) = RowsFor(f, r, e)
<1>1. /\ DOMAIN Entities(f) = {1, 2}
      /\ Entities(f)[1] = "feature" /\ Entities(f)[2] = "prediction"
  BY EntityFacts DEF IsFrame
<1>2. ASSUME NEW e \in DOMAIN Entities(f), NEW i
      PROVE  /\ RowOf(f, r, e, i).entity = Entities(f)[e] /\ RowOf(f, r, e, i).content = f.rows[i]
             /\ RowOf(f, r, e, i).key = <<f.rows[i].clip, f.rows[i].time, r>>
             /\ RowOf(f, r, e, i).run = r
  BY <1>1 DEF RowOf, RowFor
<1>3. ASSUME NEW e \in DOMAIN Entities(f), NEW i \in DOMAIN f.rows
      PROVE  RowOf(f, r, e, i) \in w
  <2> DEFINE row == RowOf(f, r, e, i)
  <2>1. PICK z \in tb \cup w : Keyed(z, row) /\ z.content = f.rows[i]
    BY DEF IsThere, Writes
  <2>2. z.entity = Entities(f)[e] /\ z.key = <<f.rows[i].clip, f.rows[i].time, r>>
    BY <1>2, <2>1 DEF Keyed
  <2>3. z \notin tb
    <3>1. z.entity # "raw" /\ z.key[3] = r
      BY <1>1, <2>2
    <3> QED
      BY <3>1 DEF Labelled, Writes
  <2>4. PICK g \in DOMAIN Entities(f), j \in DOMAIN f.rows : z = RowOf(f, r, g, j)
    BY <2>1, <2>3 DEF Writes
  <2>5. g = e /\ f.rows[j] = f.rows[i]
    BY <1>1, <1>2, <2>1, <2>2, <2>4
  <2>6. z = row
    BY <2>4, <2>5 DEF RowOf
  <2> QED
    BY <2>1, <2>3, <2>6
<1> SUFFICES ASSUME NEW e \in DOMAIN Entities(f)
             PROVE  Written(w, Entities(f)[e]) = RowsFor(f, r, e)
  OBVIOUS
<1>4. ASSUME NEW x \in w, x.entity = Entities(f)[e] PROVE \E i \in DOMAIN f.rows : x = RowOf(f, r, e, i)
  <2>1. PICK g \in DOMAIN Entities(f), j \in DOMAIN f.rows : x = RowOf(f, r, g, j)
    BY DEF Writes
  <2>2. g = e
    BY <1>1, <1>2, <1>4, <2>1
  <2> QED
    BY <2>1, <2>2
<1>5. \A i \in DOMAIN f.rows : RowOf(f, r, e, i) \in w /\ RowOf(f, r, e, i).entity = Entities(f)[e]
  BY <1>2, <1>3
<1> QED
  BY <1>4, <1>5 DEF Written, RowsFor

\* A feature and its prediction are first inserted together.
LEMMA EntitiesAgree ==
  ASSUME NEW f, IsFrame(f), NEW r, NEW tb, NEW w, Labelled(tb), IsFiniteSet(w),
         Writes(f, r, tb, w),
         NEW e \in DOMAIN Entities(f)
  PROVE  Cardinality(Written(w, Entities(f)[e])) = Cardinality(Written(w, Entities(f)[1]))
<1>1. f.kind \in {"raw", "classified"}
  BY DEF IsFrame
<1>2. CASE e = 1
  BY <1>2
<1>3. CASE e # 1
  <2>1. /\ f.kind # "raw" /\ e = 2 /\ 1 \in DOMAIN Entities(f)
        /\ Entities(f)[1] = "feature" /\ Entities(f)[2] = "prediction"
    BY <1>1, <1>3, EntityFacts
  <2> DEFINE A == Written(w, Entities(f)[1])
             B == Written(w, Entities(f)[e])
             twin == [x \in A |-> RowFor("prediction", x.content, r)]
  <2>2. A = {RowOf(f, r, 1, i) : i \in DOMAIN f.rows} /\ B = {RowOf(f, r, 2, i) : i \in DOMAIN f.rows}
    BY <2>1, WroteTheFrame DEF RowsFor
  <2>3. ASSUME NEW i
        PROVE  /\ RowFor("prediction", RowOf(f, r, 1, i).content, r) = RowOf(f, r, 2, i)
               /\ RowOf(f, r, 2, i).content = f.rows[i] /\ RowOf(f, r, 1, i).content = f.rows[i]
    BY <2>1 DEF RowOf, RowFor
  <2>4. IsFiniteSet(A)
    <3>1. A \in SUBSET w
      BY DEF Written
    <3> HIDE DEF A
    <3> QED
      BY <3>1, FS_Subset
  <2> HIDE DEF A, B
  <2>5. \A x \in A : RowFor("prediction", x.content, r) \in B
    BY <2>2, <2>3
  <2>6. twin \in [A -> B]
    BY <2>5
  <2>7. ASSUME NEW x \in A, NEW y \in A, twin[x] = twin[y] PROVE x = y
    <3>1. PICK i \in DOMAIN f.rows : x = RowOf(f, r, 1, i)
      BY <2>2
    <3>2. PICK j \in DOMAIN f.rows : y = RowOf(f, r, 1, j)
      BY <2>2
    <3>3. RowOf(f, r, 2, i) = RowOf(f, r, 2, j)
      BY <2>3, <2>7, <3>1, <3>2
    <3>4. f.rows[i] = f.rows[j]
      BY <2>3, <3>3
    <3> QED
      BY <3>1, <3>2, <3>4 DEF RowOf
  <2>8. ASSUME NEW y \in B PROVE \E x \in A : twin[x] = y
    <3>1. PICK i \in DOMAIN f.rows : y = RowOf(f, r, 2, i)
      BY <2>2
    <3>2. RowOf(f, r, 1, i) \in A
      BY <2>2
    <3>3. twin[RowOf(f, r, 1, i)] = y
      BY <2>3, <3>1, <3>2
    <3> QED
      BY <3>2, <3>3
  <2> HIDE DEF twin
  <2>9. ExistsBijection(A, B)
    <3>1. twin \in Bijection(A, B)
      <4>1. DOMAIN twin = A
        BY <2>6
      <4> QED
        BY <4>1, <2>6, <2>7, <2>8 DEF Bijection, Injection, Surjection, IsInjective
    <3> QED
      BY <3>1 DEF ExistsBijection
  <2>10. Cardinality(A) = Cardinality(B)
    BY <2>4, <2>9, FS_Bijection
  <2> QED
    BY <2>10 DEF A, B
<1> QED
  BY <1>2, <1>3

\* The receipt counts what the run inserts; a run that had one inserts nothing.
LEMMA RecordCommits ==
  ASSUME TelemetryInv, NEW c \in Clients, At(c, "receipt"),
         NEW tb, tb = table \cup call[c].wrote, NEW rc, NEW e, e = Evidence(Frame(c), Inserted(c)),
         L!ReceiptAccepted(c, call[c].run, e),
         rc = IF receipts[call[c].run] # Null THEN receipts ELSE [receipts EXCEPT ![call[c].run] = e]
  PROVE  /\ LedgerIsSound(runs, rc) /\ Grows(tb, rc, runs) /\ Labelled(tb) /\ Divided(tb, rc)
         /\ Vouched(call[c], tb, rc)
<1> DEFINE k == call[c]
           f == call[c].frame
           r == call[c].run
           w == call[c].wrote
<1>1. k.at = "receipt" /\ k.at \in InTransaction
  BY DEF At, InTransaction
<1>2. /\ IsTransaction(k, table) /\ IsFrame(f) /\ r \in Runs
  BY <1>1, BatchFacts
<1>3. /\ LedgerIsSound(runs, receipts) /\ KeysAreUnique(table, call) /\ Labelled(table)
      /\ Divided(table, receipts)
  BY DEF TelemetryInv
<1>4. /\ IsFiniteSet(w)
      /\ \A z \in w : \E g \in DOMAIN Entities(f), i \in DOMAIN f.rows : z = RowOf(f, r, g, i)
      /\ \A g \in DOMAIN Entities(f), i \in DOMAIN f.rows : IsThere(tb, f, r, g, i)
  BY <1>1, <1>2 DEF IsTransaction, Past
<1>5. Whole(tb, f, r)
  BY <1>4 DEF Whole
<1>6. table \subseteq tb
  OBVIOUS
<1>7. \A z \in w : z.run = r /\ (z.entity # "raw" => z.key[3] = r)
  <2>1. ASSUME NEW g, NEW i
        PROVE  RowOf(f, r, g, i).run = r /\ (RowOf(f, r, g, i).entity # "raw" => RowOf(f, r, g, i).key[3] = r)
    BY DEF RowOf, RowFor
  <2> QED
    BY <1>4, <2>1
<1>8. Labelled(tb)
  BY <1>3, <1>7 DEF Labelled
<1>9. /\ e.content = f /\ e.rows = Len(f.rows) /\ e.operation = OperationOf(f)
      /\ e.inserted = Inserted(c) /\ e.revision = RevisionOf(f)
      /\ e = [operation |-> OperationOf(f), content |-> f, rows |-> Len(f.rows),
              inserted |-> Inserted(c), revision |-> RevisionOf(f)]
  BY DEF Evidence, Frame
<1>10. /\ receipts \in [RunIds -> L!Receipt \cup {Null}] /\ r \in RunIds
       /\ runs \in [RunIds -> L!Run \cup {Null}]
  BY <1>2, <1>3 DEF LedgerIsSound, RunIds
<1>11. CASE receipts[r] = Null
  <2>1. rc = [receipts EXCEPT ![r] = e]
    BY <1>11
  <2>2. Inserted(c) \in Nat /\ Inserted(c) = Cardinality(Written(w, Entities(f)[1]))
    <3> DEFINE A == Written(w, Entities(f)[1])
    <3>1. A \in SUBSET w
      BY DEF Written
    <3>2. Inserted(c) = Cardinality(A)
      BY DEF Inserted, Frame, Written
    <3> HIDE DEF A
    <3>3. IsFiniteSet(A)
      BY <3>1, <1>4, FS_Subset
    <3>4. Cardinality(A) \in Nat
      BY <3>3, FS_CardinalityType
    <3> QED
      BY <3>2, <3>4 DEF A
  <2>3. e \in L!Receipt
    <3>1. Inserted(c) <= Len(f.rows)
      BY <1>9 DEF L!ReceiptAccepted
    <3>2. Len(f.rows) \in 1 .. MaxRows /\ MaxRows \in Nat /\ f \in Stored
      BY <1>2, BatchConstants DEF IsFrame
    <3>3. Inserted(c) \in L!Counts /\ Len(f.rows) \in L!Counts
      BY <2>2, <3>1, <3>2 DEF L!Counts
    <3>4. OperationOf(f) \in L!Operations /\ RevisionOf(f) \in {Revision, Null}
      BY DEF OperationOf, RevisionOf, L!Operations
    <3> QED
      BY <1>9, <3>2, <3>3, <3>4 DEF L!Receipt
  <2>4. e # Null
    BY <2>3, RowsAreValues
  <2>5. rc \in [RunIds -> L!Receipt \cup {Null}] /\ rc[r] = e /\ \A s \in RunIds \ {r} : rc[s] = receipts[s]
    BY <1>10, <2>1, <2>3
  <2>6. LedgerIsSound(runs, rc)
    BY <1>3, <2>5 DEF LedgerIsSound
  <2>7. Grows(tb, rc, runs)
    <3>1. \A s \in Runs : receipts[s] # Null => rc[s] = receipts[s]
      BY <2>5, <1>11 DEF RunIds
    <3> QED
      BY <3>1, <1>6 DEF Grows
  <2>8. Vouched(k, tb, rc)
    BY <1>2, <1>5, <1>9, <2>4, <2>5 DEF Vouched
  <2>9. \A x \in table : x.run # r
    BY <1>2, <1>3, <1>11 DEF Divided
  <2>10. ASSUME NEW g \in DOMAIN Entities(f)
         PROVE  Cardinality(Of(tb, r, Entities(f)[g])) = Inserted(c)
    <3> DEFINE B == Written(w, Entities(f)[g])
    <3>1. Of(tb, r, Entities(f)[g]) = B
      <4>1. \A x \in tb : x.run = r => x \in w
        BY <2>9
      <4>2. \A x \in w : x \in tb /\ x.run = r
        BY <1>7
      <4> QED
        BY <4>1, <4>2 DEF Of, Written
    <3>2. Cardinality(B) = Cardinality(Written(w, Entities(f)[1]))
      <4>1. Writes(f, r, table, w)
        BY <1>4, <2>9 DEF Writes
      <4> QED
        BY <4>1, <1>2, <1>3, <1>4, EntitiesAgree
    <3> QED
      BY <3>1, <3>2, <2>2
  <2>11. ASSUME NEW s \in Runs
         PROVE  IF rc[s] = Null THEN \A a \in tb : a.run # s
                ELSE /\ Whole(tb, rc[s].content, s)
                     /\ \A g \in DOMAIN Entities(rc[s].content) :
                           Cardinality(Of(tb, s, Entities(rc[s].content)[g])) = rc[s].inserted
    <3>1. CASE s = r
      <4>1. rc[s] = e /\ e # Null /\ e.content = f /\ e.inserted = Inserted(c)
        BY <3>1, <1>9, <2>4, <2>5
      <4>2. Whole(tb, f, s)
        BY <3>1, <1>5
      <4>3. \A g \in DOMAIN Entities(f) : Cardinality(Of(tb, s, Entities(f)[g])) = Inserted(c)
        BY <3>1, <2>10
      <4> QED
        BY <4>1, <4>2, <4>3
    <3>2. CASE s # r
      <4>1. rc[s] = receipts[s]
        BY <3>2, <2>5 DEF RunIds
      <4>2. \A x \in tb : x.run = s => x \in table
        BY <3>2, <1>7
      <4>3. ASSUME NEW ent PROVE Of(tb, s, ent) = Of(table, s, ent)
        BY <4>2, <1>6 DEF Of
      <4>4. CASE receipts[s] = Null
        BY <4>1, <4>2, <4>4, <1>3 DEF Divided
      <4>5. CASE receipts[s] # Null
        <5>1. Whole(tb, receipts[s].content, s)
          BY <4>5, <1>3, <1>6, WholeGrows DEF Divided
        <5>2. \A g \in DOMAIN Entities(receipts[s].content) :
                 Cardinality(Of(tb, s, Entities(receipts[s].content)[g])) = receipts[s].inserted
          BY <4>3, <4>5, <1>3 DEF Divided
        <5> QED
          BY <4>1, <4>5, <5>1, <5>2
      <4> QED
        BY <4>4, <4>5
    <3> QED
      BY <3>1, <3>2
  <2>12. Divided(tb, rc)
    BY <2>11 DEF Divided
  <2> QED
    BY <1>8, <2>6, <2>7, <2>8, <2>12
<1>12. CASE receipts[r] # Null
  <2>1. rc = receipts
    BY <1>12
  <2>2. receipts[r].content = f
    <3>1. receipts[r] \in L!Receipt /\ [receipts[r] EXCEPT !.inserted = e.inserted] = e
      BY <1>10, <1>12 DEF L!ReceiptAccepted, L!SameEvidence
    <3>2. [receipts[r] EXCEPT !.inserted = e.inserted].content = receipts[r].content
      BY <3>1 DEF L!Receipt
    <3> QED
      BY <1>9, <3>1, <3>2
  <2>3. Whole(table, f, r)
    BY <1>2, <1>3, <1>12, <2>2 DEF Divided
  <2>4. w = {}
    <3> SUFFICES ASSUME NEW z \in w PROVE FALSE
      OBVIOUS
    <3>1. PICK g \in DOMAIN Entities(f), i \in DOMAIN f.rows : z = RowOf(f, r, g, i)
      BY <1>4
    <3>2. PICK x \in table : Keyed(x, RowOf(f, r, g, i))
      BY <2>3 DEF Whole, IsThere
    <3>3. ~Keyed(z, x)
      BY <1>3 DEF KeysAreUnique
    <3> QED
      BY <3>1, <3>2, <3>3 DEF Keyed
  <2>5. tb = table
    BY <2>4
  <2>6. Vouched(k, tb, rc)
    BY <1>2, <1>5, <1>12, <2>1, <2>2 DEF Vouched
  <2>7. Grows(tb, rc, runs)
    BY <2>1, <2>5 DEF Grows
  <2> QED
    BY <1>3, <2>1, <2>5, <2>6, <2>7
<1> QED
  BY <1>11, <1>12

\* COMMIT: the rows of the run become everybody's, with their receipt.
LEMMA RecordStep ==
  ASSUME TelemetryInv, NEW c \in Clients, Record(c)
  PROVE  TelemetryInv'
<1> DEFINE k == call[c]
           w == call[c].wrote
           e == Evidence(Frame(c), Inserted(c))
           tb == table \cup call[c].wrote
           rc == IF receipts[call[c].run] # Null THEN receipts ELSE [receipts EXCEPT ![call[c].run] = e]
<1>1. /\ At(c, "receipt") /\ L!ReceiptAccepted(c, k.run, e) /\ receipts' = rc /\ runs' = runs
      /\ table' = tb /\ Answer(c, "data", "succeed", "none")
  BY DEF Record, L!RecordReceipt
<1>2. /\ LedgerIsSound(runs, rc) /\ Grows(tb, rc, runs) /\ Labelled(tb) /\ Divided(tb, rc)
      /\ Vouched(k, tb, rc)
  <2>1. /\ e = Evidence(Frame(c), Inserted(c)) /\ tb = table \cup call[c].wrote
        /\ rc = IF receipts[call[c].run] # Null THEN receipts ELSE [receipts EXCEPT ![call[c].run] = e]
    OBVIOUS
  <2> HIDE DEF e, tb, rc
  <2> QED
    BY <1>1, <2>1, RecordCommits
<1> HIDE DEF e, rc
<1>3. ~At(c, "idle") /\ IsFrame(k.frame) /\ k.run \in RunsOf[c] /\ DOMAIN call = Clients
      /\ IsCall(c, call[c], table, receipts, runs)
  BY <1>1, CallFacts DEF At
<1>4. Leave(c, "succeed", "none") \/ Raise(c, "error")
  BY <1>1 DEF Answer
<1>5. Mine(c) /\ IsCall(c, call'[c], tb, rc, runs) /\ call'[c].wrote = {}
  <2> HIDE DEF tb
  <2>1. CASE Leave(c, "succeed", "none")
    BY <1>2, <1>3, <2>1, LeaveIsMine, LeftIsCall, LeftWritesNothing
  <2>2. CASE Raise(c, "error")
    BY <1>2, <1>3, <2>2, RaiseIsCall
  <2> QED
    BY <1>4, <2>1, <2>2
<1>6. ASSUME NEW d \in Clients PROVE IsCall(d, call'[d], tb, rc, runs)
  <2> HIDE DEF tb
  <2>1. CASE d = c
    BY <2>1, <1>5
  <2>2. CASE d # c
    BY <2>2, <1>2, <1>5, CallStays DEF TelemetryInv, Mine
  <2> QED
    BY <2>1, <2>2
<1>7. KeysAreUnique(tb, call')
  <2>1. KeysAreUnique(table, call)
    BY DEF TelemetryInv
  <2>2. \A a, b \in tb : Keyed(a, b) => a = b
    BY <2>1 DEF KeysAreUnique, Keyed
  <2>3. ASSUME NEW d \in Clients, NEW a \in call'[d].wrote
        PROVE  /\ d # c /\ a \in call[d].wrote
               /\ \A b \in tb : ~Keyed(a, b)
               /\ \A b \in call'[d].wrote : Keyed(a, b) => a = b
               /\ \A g \in Clients \ {d} : \A b \in call'[g].wrote : ~Keyed(a, b)
    <3>1. d # c /\ a \in call[d].wrote /\ call'[d] = call[d]
      BY <1>5 DEF Mine
    <3>2. \A b \in table : ~Keyed(a, b)
      BY <2>1, <3>1 DEF KeysAreUnique
    <3>3. \A b \in w : ~Keyed(a, b)
      BY <2>1, <3>1 DEF KeysAreUnique
    <3>4. \A b \in call'[d].wrote : Keyed(a, b) => a = b
      BY <2>1, <3>1 DEF KeysAreUnique
    <3>5. \A g \in Clients \ {d} : call'[g].wrote \subseteq call[g].wrote
      BY <1>5 DEF Mine
    <3>6. \A g \in Clients \ {d} : \A b \in call'[g].wrote : ~Keyed(a, b)
      BY <2>1, <3>1, <3>5 DEF KeysAreUnique
    <3> QED
      BY <3>1, <3>2, <3>3, <3>4, <3>6
  <2> HIDE DEF tb
  <2> QED
    BY <2>2, <2>3 DEF KeysAreUnique
<1>8. ASSUME NEW d \in Clients PROVE IsCall(d, call'[d], table', receipts', runs')
  BY <1>1, <1>6
<1>9. /\ LedgerIsSound(runs', receipts') /\ DOMAIN call' = Clients
      /\ KeysAreUnique(table', call') /\ Labelled(table') /\ Divided(table', receipts')
  BY <1>1, <1>2, <1>5, <1>7 DEF Mine
<1> QED
  BY <1>8, <1>9 DEF TelemetryInv

-----------------------------------------------------------------------------
(* Reconciliation, and the invariant.                                       *)

\* What a reconciliation reads is the whole frame.
LEMMA StoredIsWhole ==
  ASSUME NEW f, NEW r
  PROVE  IsStored(f, r) <=> Whole(table, f, r)
<1>1. ASSUME NEW e, NEW i PROVE RowOf(f, r, e, i).content = f.rows[i]
  BY DEF RowOf, RowFor
<1>2. ASSUME NEW e, NEW i
      PROVE  IsThere(table, f, r, e, i) <=>
             \E x \in table : /\ x.entity = RowOf(f, r, e, i).entity /\ x.key = RowOf(f, r, e, i).key
                              /\ SameContent(x, RowOf(f, r, e, i))
  BY <1>1 DEF IsThere, Keyed, SameContent
<1> QED
  BY <1>2 DEF IsStored, Whole, RowOf

\* The answer of a reconciliation is a call that has ended.
LEMMA DoneIsCall ==
  ASSUME NEW c, NEW k, NEW f, NEW r \in Runs, NEW rep, NEW tb, NEW rc, NEW rs,
         k = [Nothing EXCEPT !.frame = f, !.run = r, !.reply = rep],
         \/ rep \in {"conflict", "error"}
         \/ /\ rep = "confirmed" /\ Succeeded(rs, r)
            /\ Whole(tb, f, r) /\ rc[r] # Null /\ rc[r].content = f
  PROVE  IsCall(c, k, tb, rc, rs) /\ k.wrote = {}
<1>1. /\ DOMAIN k = CallFields /\ k.at = "idle" /\ k.wrote = {} /\ k.reply = rep
      /\ k.frame = f /\ k.run = r
  BY DEF Nothing, CallFields
<1> QED
  BY <1>1 DEF IsCall, Points, InTransaction, Vouched

LEMMA ReconcileStep ==
  ASSUME TelemetryInv, NEW c \in Clients, NEW g \in FramesOf[c], NEW r \in RunsOf[c], Reconcile(c, g, r)
  PROVE  TelemetryInv'
<1> DEFINE f == [g EXCEPT !.rows = Normalized(@)]
           k(rep) == [Nothing EXCEPT !.frame = f, !.run = r, !.reply = rep]
           q == ReconciliationId(r, f)
           e == Claim(f)
<1>1. UNCHANGED table
  BY DEF Reconcile
<1>2. IsFrame(f) /\ r \in Runs
  BY FrameIsFrame DEF Runs
<1>3. q \in RunIds
  BY <1>2 DEF RunIds, IsFrame
<1>4. e.rows = Len(f.rows) /\ e.content = f
  BY DEF Claim
<1>5. \/ /\ Reconcilable(c, f, r) /\ L!Reconcile(c, r, q, e)
         /\ Change(c, k("confirmed")) \/ Change(c, k("error"))
      \/ Change(c, k("conflict")) /\ UNCHANGED <<runs, receipts>>
      \/ Change(c, k("error")) /\ UNCHANGED <<runs, receipts>>
  BY DEF Reconcile
<1> HIDE DEF q, e
<1>6. ASSUME NEW rep \in {"conflict", "error"}, Change(c, k(rep)), UNCHANGED <<runs, receipts>>
      PROVE  TelemetryInv'
  <2>1. IsCall(c, k(rep), table, receipts, runs) /\ k(rep).wrote = {}
    BY <1>2, DoneIsCall
  <2> HIDE DEF k
  <2> QED
    BY <1>1, <1>6, <2>1, ChangeIsMine, CallFacts, IdleStep
<1>7. CASE /\ Reconcilable(c, f, r) /\ L!Reconcile(c, r, q, e)
           /\ Change(c, k("confirmed")) \/ Change(c, k("error"))
  <2>1. LedgerKept /\ Succeeded(runs', r)
    <3>1. e.rows \in L!Counts
      BY <1>2, <1>4, MetaIsMetadata
    <3> QED
      BY <1>2, <1>3, <1>7, <3>1, CallFacts, ReconciliationKeeps
  <2>2. Whole(table, f, r) /\ receipts[r] # Null /\ receipts[r].content = f
    <3>1. IsStored(f, r) /\ receipts[r] # Null /\ ~L!Differ(receipts[r].content, e.content)
      BY <1>7 DEF Reconcilable, L!ReconcileAccepted, L!EvidenceMatches, e
    <3>2. receipts[r] \in L!Receipt
      <4>1. receipts \in [RunIds -> L!Receipt \cup {Null}]
        BY CallFacts DEF LedgerIsSound
      <4>2. r \in RunIds
        BY <1>2 DEF RunIds
      <4> QED
        BY <3>1, <4>1, <4>2
    <3>3. receipts[r].content # Null /\ f # Null
      BY <1>2, <3>2, RowsAreValues DEF L!Receipt, IsFrame
    <3> QED
      BY <1>2, <1>4, <3>1, <3>3, StoredIsWhole DEF L!Differ
  <2>3. ASSUME NEW rep \in {"confirmed", "error"}, Change(c, k(rep)) PROVE TelemetryInv'
    <3> DEFINE d == k(rep)
    <3>0. d = [Nothing EXCEPT !.frame = f, !.run = r, !.reply = rep]
      OBVIOUS
    <3> HIDE DEF d, f
    <3>1. IsCall(c, d, table, receipts, runs') /\ d.wrote = {}
      <4>1. CASE rep = "error"
        BY <3>0, <4>1, <1>2, DoneIsCall
      <4>2. CASE rep = "confirmed"
        <5>1. Succeeded(runs', r)
          BY <2>1
        <5> QED
          BY <3>0, <4>2, <5>1, <1>2, <2>2, DoneIsCall
      <4> QED
        BY <2>3, <4>1, <4>2
    <3>2. Mine(c) /\ call'[c] = d
      BY <2>3, ChangeIsMine, CallFacts DEF d
    <3>3. UNCHANGED table /\ LedgerKept
      BY <1>1, <2>1
    <3>4. IsCall(c, call'[c], table, receipts, runs') /\ call'[c].wrote = {}
      BY <3>1, <3>2
    <3>5. Mine(c)
      BY <3>2
    <3> QED
      BY <3>3, <3>4, <3>5, LedgerStep
  <2> QED
    BY <1>7, <2>3
<1> QED
  BY <1>5, <1>6, <1>7

LEMMA ProceedStep ==
  ASSUME TelemetryInv, NEW c \in Clients, Proceed(c)
  PROVE  TelemetryInv'
<1>1. CASE RunRefused(c)
  BY <1>1, RaiseStep DEF RunRefused, At
<1>2. CASE RecordRefused(c)
  BY <1>2, RaiseStep DEF RecordRefused, At
<1>3. CASE CloseRefused(c)
  BY <1>3, RaiseStep DEF CloseRefused, At
<1> QED
  BY <1>1, <1>2, <1>3, OpenStep, ReadStep, InsertStep, CompareStep, RecordStep, CloseStep DEF Proceed

\* Nothing a process, a rival or a failure does breaks the invariant.
THEOREM TelemetryIsCoherent == FairSpec => []TelemetryInv
<1>1. BatchInit => TelemetryInv
  <2> SUFFICES ASSUME BatchInit PROVE TelemetryInv
    OBVIOUS
  <2>1. /\ runs = [r \in RunIds |-> Null] /\ receipts = [r \in RunIds |-> Null] /\ table = {}
        /\ call = [c \in Clients |-> Nothing]
    BY DEF BatchInit, L!Init
  <2>2. LedgerIsSound(runs, receipts)
    BY <2>1 DEF LedgerIsSound
  <2>3. Nothing = [Nothing EXCEPT !.reply = "none"]
    BY DEF Nothing
  <2>4. \A c \in Clients : IsCall(c, call[c], table, receipts, runs) /\ call[c].wrote = {}
    <3> TAKE c \in Clients
    <3> DEFINE k == call[c]
    <3>1. k = [Nothing EXCEPT !.reply = "none"]
      BY <2>1, <2>3
    <3> HIDE DEF k
    <3>2. IsCall(c, k, table, receipts, runs) /\ k.wrote = {}
      BY <3>1, NothingIsCall
    <3> QED
      BY <3>2 DEF k
  <2>5. KeysAreUnique(table, call) /\ Labelled(table) /\ Divided(table, receipts)
    BY <2>1, <2>4 DEF KeysAreUnique, Labelled, Divided, RunIds
  <2> QED
    BY <2>1, <2>2, <2>4, <2>5 DEF TelemetryInv
<1>2. TelemetryInv /\ [BatchNext]_batchVars => TelemetryInv'
  <2> SUFFICES ASSUME TelemetryInv, [BatchNext]_batchVars PROVE TelemetryInv'
    OBVIOUS
  <2>1. CASE UNCHANGED batchVars
    <3>1. runs' = runs /\ receipts' = receipts /\ table' = table /\ call' = call
      BY <2>1 DEF batchVars
    <3> QED
      BY <3>1 DEF TelemetryInv
  <2>2. ASSUME NEW c \in Clients, NEW f \in FramesOf[c], NEW r \in RunsOf[c],
               Submit(c, f, r) \/ Reconcile(c, f, r)
        PROVE  TelemetryInv'
    BY <2>2, SubmitStep, ReconcileStep
  <2>3. ASSUME NEW c \in Clients, Rollback(c) PROVE TelemetryInv'
    BY <2>3, RaiseStep DEF Rollback
  <2> QED
    BY <2>1, <2>2, <2>3, ProceedStep, CrashStep DEF BatchNext
<1> QED
  BY <1>1, <1>2, PTL DEF FairSpec

\* For every number of processes, every frame, batch size and failure: a run is
\* stored whole with a receipt that counts the rows it first inserted, or it has
\* left no row (RowsAreAccounted).
THEOREM AccountsBalance == FairSpec => []RowsAreAccounted
<1>1. TelemetryInv => RowsAreAccounted
  <2> SUFFICES ASSUME TelemetryInv, NEW r \in Runs
               PROVE  IF receipts[r] = Null THEN \A x \in table : x.run # r
                      ELSE /\ IsStored(receipts[r].content, r)
                           /\ \A e \in DOMAIN Entities(receipts[r].content) :
                                 Cardinality(RowsOf(r, Entities(receipts[r].content)[e]))
                                    = receipts[r].inserted
    BY DEF RowsAreAccounted
  <2>1. ASSUME NEW entity PROVE RowsOf(r, entity) = Of(table, r, entity)
    BY DEF RowsOf, Of
  <2> QED
    BY <2>1, StoredIsWhole DEF TelemetryInv, Divided
<1> QED
  BY <1>1, TelemetryIsCoherent, PTL

\* And the caller is never told more than the database holds: a confirmed frame is
\* stored, receipted and succeeded, a pending one stored and receipted, and no
\* natural key has two rows (AnswersAreStored).
THEOREM AnswersHold == FairSpec => []AnswersAreStored
<1>1. TelemetryInv => AnswersAreStored
  <2> SUFFICES ASSUME TelemetryInv PROVE AnswersAreStored
    OBVIOUS
  <2>1. \A x, y \in table : x.entity = y.entity /\ x.key = y.key => x = y
    BY DEF TelemetryInv, KeysAreUnique, Keyed
  <2>2. ASSUME NEW c \in Clients, call[c].reply \in {"confirmed", "pending"}
        PROVE  /\ IsStored(Frame(c), call[c].run)
               /\ receipts[call[c].run] # Null /\ receipts[call[c].run].content = Frame(c)
               /\ call[c].reply = "confirmed" => runs[call[c].run].status = "succeeded"
    <3>1. IsCall(c, call[c], table, receipts, runs)
      BY DEF TelemetryInv
    <3>2. Vouched(call[c], table, receipts)
      BY <2>2, <3>1 DEF IsCall
    <3>3. call[c].reply = "confirmed" => Succeeded(runs, call[c].run)
      BY <3>1 DEF IsCall
    <3> QED
      BY <3>2, <3>3, StoredIsWhole DEF Vouched, Succeeded, Frame
  <2> QED
    BY <2>1, <2>2 DEF AnswersAreStored
<1> QED
  BY <1>1, TelemetryIsCoherent, PTL

-----------------------------------------------------------------------------
(***************************************************************************)
(* The rows of a frame are told apart and put in segments: Continuity, for *)
(* every frame of rows of known clips, at any times, with any identifiers  *)
(* a source may give.  Sorting is shown to find a row for every place; a   *)
(* segment has exactly one opening row; and the names made of two opening  *)
(* rows of one clip differ, since an instant belongs to one row and a      *)
(* given identifier that came back after another would be refused.         *)
(***************************************************************************)

\* A row of a frame: a record with these fields, whose identifier is one a source gave.
IsRow(r, names) ==
    /\ r = [field \in DOMAIN r |-> r[field]] /\ {"clip", "time", "id"} \subseteq DOMAIN r
    /\ \E n \in DOMAIN ClipOrder : r.clip = ClipOrder[n]
    /\ r.time \in Int
    /\ r.id \in {NoId} \cup {Given(a) : a \in names}

\* What Before looks at.
IsTimed(r) == (\E n \in DOMAIN ClipOrder : r.clip = ClipOrder[n]) /\ r.time \in Int

InOrder(s) ==
    /\ DOMAIN s = 1 .. Len(s) /\ Len(s) \in Nat
    /\ \A i \in DOMAIN s : IsTimed(s[i])
    /\ \A i, j \in DOMAIN s : i < j => Before(s[i], s[j])

LEMMA LeastOf ==
  ASSUME NEW T \in SUBSET Nat, T # {}
  PROVE  \E n \in T : \A m \in T : n <= m
<1> DEFINE R == OpToRel(<, Nat)
<1>1. IsWellFoundedOn(R, Nat)
  BY NatLessThanWellFounded
<1>2. \A x, y \in Nat : x < y => <<x, y>> \in R
  BY DEF OpToRel
<1> HIDE DEF R
<1>3. PICK n \in T : \A m \in T : ~(<<m, n>> \in R)
  BY <1>1, WFMin
<1>4. ASSUME NEW m \in T PROVE n <= m
  <2>1. m \in Nat /\ n \in Nat /\ ~(<<m, n>> \in R)
    BY <1>3
  <2> QED
    BY <1>2, <2>1
<1> QED
  BY <1>4

LEMMA RankOf ==
  ASSUME NEW a, NEW b, IsTimed(a), IsTimed(b)
  PROVE  /\ Rank(a.clip) \in Int
         /\ Rank(a.clip) = Rank(b.clip) => a.clip = b.clip
<1>1. ASSUME NEW r, IsTimed(r)
      PROVE  Rank(r.clip) \in DOMAIN ClipOrder /\ ClipOrder[Rank(r.clip)] = r.clip
  BY <1>1 DEF IsTimed, Rank
<1>2. \A n \in DOMAIN ClipOrder : n \in Int
  BY ContinuityConstants
<1> QED
  BY <1>1, <1>2

LEMMA BeforeOrders ==
  ASSUME NEW a, NEW b, NEW c, IsTimed(a), IsTimed(b), IsTimed(c)
  PROVE  /\ ~Before(a, a)
         /\ Before(a, b) /\ Before(b, c) => Before(a, c)
         /\ Before(a, b) => ~Before(b, a)
         /\ a.clip # b.clip \/ a.time # b.time => Before(a, b) \/ Before(b, a)
<1>1. /\ Rank(a.clip) \in Int /\ Rank(b.clip) \in Int /\ Rank(c.clip) \in Int
      /\ a.time \in Int /\ b.time \in Int /\ c.time \in Int
      /\ Rank(a.clip) = Rank(b.clip) => a.clip = b.clip
      /\ a.clip = b.clip => Rank(a.clip) = Rank(b.clip)
      /\ b.clip = c.clip => Rank(b.clip) = Rank(c.clip)
  BY RankOf DEF IsTimed
<1> QED
  BY <1>1 DEF Before

\* The rows before row i, and how many.
Earlier(frame, i) == {j \in DOMAIN frame : Before(frame[j], frame[i])}

\* Sorting finds a row for every place, and puts the rows in order.
LEMMA SortedInOrder ==
  ASSUME NEW R, \A r \in R : IsTimed(r), NEW frame \in Seq(R), Identified(frame)
  PROVE  Sorted(frame) \in Seq(R) /\ InOrder(Sorted(frame)) /\ Len(Sorted(frame)) = Len(frame)
<1> DEFINE n == Len(frame)
           D == DOMAIN frame
           place == [i \in D |-> Cardinality(Earlier(frame, i)) + 1]
           s == Sorted(frame)
<1>1. n \in Nat /\ D = 1 .. n /\ IsFiniteSet(D) /\ Cardinality(D) = n
      /\ \A i \in D : frame[i] \in R /\ IsTimed(frame[i]) /\ i \in Nat
  <2>1. n \in Nat /\ D = 1 .. n
    OBVIOUS
  <2>2. IsFiniteSet(D) /\ Cardinality(D) = n
    BY <2>1, FS_Interval
  <2> QED
    BY <2>1, <2>2
<1>2. ASSUME NEW i \in D
      PROVE  /\ IsFiniteSet(Earlier(frame, i)) /\ Cardinality(Earlier(frame, i)) \in Nat
             /\ Cardinality(Earlier(frame, i)) <= n - 1
  <2>1. Earlier(frame, i) \subseteq D \ {i}
    BY <1>1, BeforeOrders DEF Earlier
  <2>2. IsFiniteSet(D \ {i}) /\ Cardinality(D \ {i}) = n - 1
    BY <1>1, FS_RemoveElement
  <2>3. IsFiniteSet(Earlier(frame, i)) /\ Cardinality(Earlier(frame, i)) <= n - 1
    BY <2>1, <2>2, FS_Subset
  <2> QED
    BY <2>3, FS_CardinalityType
<1>3. place \in [D -> 1 .. n] /\ \A i \in D : place[i] = Cardinality(Earlier(frame, i)) + 1
  BY <1>1, <1>2
<1>4. ASSUME NEW i \in D, NEW j \in D, Before(frame[i], frame[j]) PROVE place[i] < place[j]
  <2>1. Earlier(frame, i) \cup {i} \subseteq Earlier(frame, j) /\ i \notin Earlier(frame, i)
    <3>1. \A k \in D : Before(frame[k], frame[i]) => Before(frame[k], frame[j])
      BY <1>1, <1>4, BeforeOrders
    <3>2. ~Before(frame[i], frame[i])
      BY <1>1, BeforeOrders
    <3> QED
      BY <1>4, <3>1, <3>2 DEF Earlier
  <2>2. Cardinality(Earlier(frame, i) \cup {i}) = Cardinality(Earlier(frame, i)) + 1
    BY <1>2, <2>1, FS_AddElement
  <2>3. Cardinality(Earlier(frame, i) \cup {i}) <= Cardinality(Earlier(frame, j))
    BY <1>2, <2>1, FS_Subset
  <2> QED
    BY <1>2, <1>3, <2>2, <2>3
<1>5. ASSUME NEW i \in D, NEW j \in D, i # j
      PROVE  Before(frame[i], frame[j]) \/ Before(frame[j], frame[i])
  <2>1. frame[i].clip # frame[j].clip \/ frame[i].time # frame[j].time
    <3>1. i < j \/ j < i
      BY <1>1, <1>5
    <3>2. frame[i].time \in Int /\ frame[j].time \in Int
      BY <1>1 DEF IsTimed
    <3> QED
      BY <3>1, <3>2 DEF Identified
  <2> QED
    BY <1>1, <2>1, BeforeOrders
<1>6. \A i \in D : place[i] \in Nat
  BY <1>1, <1>3
<1> HIDE DEF place, D, n
<1>7. \A i, j \in D : place[i] = place[j] => i = j
  BY <1>4, <1>5, <1>6
<1>8. \A m \in 1 .. n : \E i \in D : place[i] = m
  <2>1. IsFiniteSet(1 .. n) /\ Cardinality(1 .. n) = n
    BY <1>1, FS_Interval
  <2>2. place \in Injection(D, 1 .. n)
    BY <1>3, <1>7 DEF Injection, IsInjective
  <2>3. place \in Surjection(D, 1 .. n)
    BY <1>1, <2>1, <2>2, FS_Injection
  <2> QED
    BY <2>3 DEF Surjection
<1> DEFINE from(m) == CHOOSE i \in D : place[i] = m
<1>9. \A m \in 1 .. n : from(m) \in D /\ place[from(m)] = m
  BY <1>8
<1>10. DOMAIN s = 1 .. n /\ \A m \in 1 .. n : s[m] = frame[from(m)]
  <2>1. ASSUME NEW m \in 1 .. n, NEW i \in D
        PROVE  (Cardinality({j \in D : Before(frame[j], frame[i])}) = m - 1) <=> (place[i] = m)
    <3>1. Cardinality({j \in D : Before(frame[j], frame[i])}) = Cardinality(Earlier(frame, i))
      BY DEF Earlier, D
    <3>2. Cardinality(Earlier(frame, i)) \in Nat /\ place[i] = Cardinality(Earlier(frame, i)) + 1
      BY <1>2, <1>3
    <3>3. m \in Int
      BY <1>1
    <3> QED
      BY <3>1, <3>2, <3>3
  <2>2. \A m \in 1 .. n :
           (CHOOSE i \in D : Cardinality({j \in D : Before(frame[j], frame[i])}) = m - 1) = from(m)
    BY <2>1
  <2> QED
    BY <1>1, <2>2 DEF Sorted, D
<1>11. s \in Seq(R) /\ Len(s) = n
  <2>1. \A m \in 1 .. n : s[m] \in R
    BY <1>1, <1>9, <1>10
  <2>2. s = [m \in 1 .. n |-> s[m]]
    BY <1>1, <1>10 DEF Sorted, D
  <2>3. s \in [1 .. n -> R]
    BY <2>1, <2>2
  <2> QED
    BY <1>1, <2>3
<1> HIDE DEF from, s
<1>12. ASSUME NEW i \in 1 .. n, NEW j \in 1 .. n, i < j PROVE Before(s[i], s[j])
  <2>1. from(i) \in D /\ from(j) \in D /\ place[from(i)] = i /\ place[from(j)] = j
    BY <1>9
  <2>2. from(i) # from(j)
    BY <1>12, <2>1
  <2>3. ~Before(frame[from(j)], frame[from(i)])
    BY <1>1, <1>4, <1>12, <2>1
  <2> QED
    BY <1>5, <1>10, <2>1, <2>2, <2>3
<1>13. \A i \in 1 .. n : IsTimed(s[i])
  BY <1>1, <1>9, <1>10
<1> QED
  BY <1>1, <1>10, <1>11, <1>12, <1>13 DEF InOrder, s, n

\* Rows in order stay where they are.
LEMMA SortedAgain ==
  ASSUME NEW R, NEW s \in Seq(R), InOrder(s)
  PROVE  Sorted(s) = s
<1>1. DOMAIN s = 1 .. Len(s) /\ Len(s) \in Nat
  BY DEF InOrder
<1>2. ASSUME NEW i \in DOMAIN s
      PROVE  Cardinality({j \in DOMAIN s : Before(s[j], s[i])}) = i - 1
  <2>1. ASSUME NEW j \in DOMAIN s PROVE Before(s[j], s[i]) <=> j < i
    <3>1. CASE j < i
      BY <3>1 DEF InOrder
    <3>2. CASE j = i
      BY <3>2, BeforeOrders DEF InOrder
    <3>3. CASE i < j
      BY <3>3, BeforeOrders DEF InOrder
    <3> QED
      BY <1>1, <3>1, <3>2, <3>3
  <2>2. {j \in DOMAIN s : Before(s[j], s[i])} = 1 .. i - 1
    <3>1. {j \in DOMAIN s : Before(s[j], s[i])} = {j \in DOMAIN s : j < i}
      BY <2>1
    <3>2. {j \in DOMAIN s : j < i} = 1 .. i - 1
      BY <1>1
    <3> QED
      BY <3>1, <3>2
  <2>3. i \in Nat \ {0}
    BY <1>1
  <2>4. \A b \in Nat : Cardinality(1 .. b) = b
    BY FS_Interval
  <2>5. Cardinality(1 .. i - 1) = i - 1
    BY <2>3, <2>4
  <2> QED
    BY <2>2, <2>5
<1> DEFINE at(n) == CHOOSE i \in DOMAIN s :
                      Cardinality({j \in DOMAIN s : Before(s[j], s[i])}) = n - 1
<1>3. \A n \in DOMAIN s : at(n) = n
  <2> TAKE n \in DOMAIN s
  <2>1. \A i \in DOMAIN s :
           (Cardinality({j \in DOMAIN s : Before(s[j], s[i])}) = n - 1) <=> (i = n)
    <3> TAKE i \in DOMAIN s
    <3>1. i \in Int /\ n \in Int
      BY <1>1
    <3> QED
      BY <1>2, <3>1
  <2> QED
    BY <2>1
<1>4. Sorted(s) = [n \in DOMAIN s |-> s[at(n)]]
  BY Zenon DEF Sorted, at
<1> HIDE DEF at
<1>5. Sorted(s) = [n \in DOMAIN s |-> s[n]]
  BY <1>3, <1>4
<1>6. s = [n \in DOMAIN s |-> s[n]]
  OBVIOUS
<1> QED
  BY <1>5, <1>6

\* The row a segment of row i opens with.
OpensFor(s, i, o) == o \in 1 .. i /\ Opens(s, o) /\ \A k \in o + 1 .. i : ~Opens(s, k)

\* Every row has exactly one opening: the first row opens a segment.
LEMMA OpeningIs ==
  ASSUME NEW s, NEW i \in Nat \ {0}
  PROVE  /\ OpensFor(s, i, Opening(s, i))
         /\ \A o : OpensFor(s, i, o) => o = Opening(s, i)
<1> DEFINE T == {m \in 0 .. i - 1 : Opens(s, i - m)}
<1>1. \E o \in 1 .. i : OpensFor(s, i, o)
  <2>1. i - 1 \in T
    <3> DEFINE m == i - 1
    <3>1. Opens(s, 1)
      BY DEF Opens, First
    <3>2. i - m = 1 /\ m \in 0 .. i - 1
      OBVIOUS
    <3>3. Opens(s, i - m)
      BY <3>1, <3>2
    <3> HIDE DEF m
    <3>4. m \in T
      BY <3>2, <3>3
    <3> QED
      BY <3>4 DEF m
  <2>2. T \in SUBSET Nat /\ T # {}
    <3>1. T \in SUBSET Nat
      OBVIOUS
    <3> HIDE DEF T
    <3> QED
      BY <2>1, <3>1
  <2>3. PICK m \in T : \A k \in T : m <= k
    <3> HIDE DEF T
    <3> QED
      BY <2>2, LeastOf
  <2>4. ASSUME NEW k \in i - m + 1 .. i PROVE ~Opens(s, k)
    <3>1. i - k \in 0 .. i - 1 /\ i - k < m /\ i - (i - k) = k
      BY <2>2
    <3>2. i - k \notin T
      BY <2>3, <3>1
    <3>3. ~Opens(s, i - (i - k))
      BY <3>1, <3>2
    <3> QED
      BY <3>1, <3>3
  <2>5. i - m \in 1 .. i /\ Opens(s, i - m)
    OBVIOUS
  <2> QED
    BY <2>4, <2>5 DEF OpensFor
<1>2. Opening(s, i) = CHOOSE o \in 1 .. i : OpensFor(s, i, o)
  BY DEF Opening, OpensFor
<1>3. OpensFor(s, i, Opening(s, i))
  BY <1>1, <1>2
<1>4. ASSUME NEW a, NEW b, OpensFor(s, i, a), OpensFor(s, i, b) PROVE a >= b
  BY <1>4 DEF OpensFor
<1>5. ASSUME NEW o, OpensFor(s, i, o) PROVE o = Opening(s, i)
  <2>1. o \in 1 .. i /\ Opening(s, i) \in 1 .. i
    BY <1>3, <1>5 DEF OpensFor
  <2>2. o >= Opening(s, i) /\ Opening(s, i) >= o
    BY <1>3, <1>4, <1>5
  <2> QED
    BY <2>1, <2>2
<1> QED
  BY <1>3, <1>5

\* Two rows have the same opening when no segment opens between them.
LEMMA SameOpening ==
  ASSUME NEW s, NEW i \in Nat \ {0}, NEW j \in Nat \ {0}, i < j
  PROVE  /\ (\A k \in i + 1 .. j : ~Opens(s, k)) => Opening(s, j) = Opening(s, i)
         /\ ~(\A k \in i + 1 .. j : ~Opens(s, k)) => i < Opening(s, j)
<1> DEFINE p == Opening(s, i)
           q == Opening(s, j)
<1>1. OpensFor(s, i, p) /\ OpensFor(s, j, q)
  BY OpeningIs
<1>2. \A o : OpensFor(s, j, o) => o = q
  BY OpeningIs
<1> HIDE DEF p, q
<1>3. ASSUME \A k \in i + 1 .. j : ~Opens(s, k) PROVE q = p
  <2>1. ASSUME NEW k \in p + 1 .. j PROVE ~Opens(s, k)
    <3>1. k \in p + 1 .. i \/ k \in i + 1 .. j
      BY <1>1 DEF OpensFor
    <3> QED
      BY <1>1, <1>3, <3>1 DEF OpensFor
  <2>2. p \in 1 .. j /\ Opens(s, p)
    BY <1>1 DEF OpensFor
  <2>3. OpensFor(s, j, p)
    BY <2>1, <2>2 DEF OpensFor
  <2> QED
    BY <1>2, <2>3
<1>4. ASSUME NEW k \in i + 1 .. j, Opens(s, k) PROVE i < q
  BY <1>1, <1>4 DEF OpensFor
<1> QED
  BY <1>3, <1>4 DEF p, q

\* A row belongs to the clip of the row that opens its segment.
LEMMA OpeningClip ==
  ASSUME NEW s, NEW i \in Nat \ {0}
  PROVE  s[Opening(s, i)].clip = s[i].clip
<1> DEFINE o == Opening(s, i)
           T == {k \in o .. i : s[k].clip # s[o].clip}
<1>1. OpensFor(s, i, o)
  BY OpeningIs
<1> HIDE DEF o
<1>2. o \in 1 .. i
  BY <1>1 DEF OpensFor
<1>3. SUFFICES ASSUME T # {} PROVE FALSE
  BY <1>2, <1>3 DEF o
<1>4. T \in SUBSET Nat
  BY <1>2
<1>5. PICK k \in T : \A m \in T : k <= m
  <2> HIDE DEF T
  <2> QED
    BY <1>3, <1>4, LeastOf
<1>6. k \in o + 1 .. i
  BY <1>2
<1>7. k - 1 \notin T /\ k - 1 \in o .. i
  BY <1>2, <1>5, <1>6
<1>8. s[k - 1].clip # s[k].clip
  BY <1>7
<1>9. Opens(s, k)
  BY <1>8 DEF Opens, First
<1> QED
  BY <1>1, <1>6, <1>9 DEF OpensFor

-----------------------------------------------------------------------------
\* A frame that a source may give: rows in order, none left for good and taken up again.
IsTable(s, names) ==
    /\ InOrder(s) /\ ~Reappears(s)
    /\ \A i \in DOMAIN s : IsRow(s[i], names)

\* What normalising makes of the rows in order.
Assigned(s) == [i \in DOMAIN s |-> [s[i] EXCEPT !.id = Segment(s, i)]]

LEMMA AssignedFields ==
  ASSUME NEW names, NEW s, IsTable(s, names)
  PROVE  \A i \in DOMAIN s :
           /\ Assigned(s)[i].id = Segment(s, i)
           /\ Assigned(s)[i].clip = s[i].clip
           /\ Assigned(s)[i].time = s[i].time
<1> TAKE i \in DOMAIN s
<1>1. Assigned(s)[i] = [s[i] EXCEPT !.id = Segment(s, i)]
  BY DEF Assigned
<1>2. s[i] = [field \in DOMAIN s[i] |-> s[i][field]]
      /\ {"clip", "time", "id"} \subseteq DOMAIN s[i]
  BY DEF IsTable, IsRow
<1> QED
  BY <1>1, <1>2

\* The fields are all there is to an assigned row.
LEMMA AssignedIsRecord ==
  ASSUME NEW names, NEW s, IsTable(s, names), NEW i \in DOMAIN s,
         NEW v, v = Assigned(s)[i].id
  PROVE  [Assigned(s)[i] EXCEPT !.id = v] = Assigned(s)[i]
<1>1. Assigned(s)[i] = [s[i] EXCEPT !.id = Segment(s, i)]
  BY DEF Assigned
<1>2. s[i] = [field \in DOMAIN s[i] |-> s[i][field]]
      /\ {"clip", "time", "id"} \subseteq DOMAIN s[i]
  BY DEF IsTable, IsRow
<1>3. v = Segment(s, i)
  BY AssignedFields
<1> QED
  BY <1>1, <1>2, <1>3

\* The two rows that open two segments of a clip: the second is not the first of
\* the clip, and no identifier made of it equals one made of the first.
LEMMA ApartWithinClip ==
  ASSUME NEW names, NEW s, IsTable(s, names),
         NEW i \in DOMAIN s, NEW j \in DOMAIN s, i < j, s[i].clip = s[j].clip
  PROVE  ~First(s, j) /\ s[i].time < s[j].time
<1>1. DOMAIN s = 1 .. Len(s) /\ Len(s) \in Nat /\ \A k \in DOMAIN s : IsTimed(s[k])
  BY DEF IsTable, InOrder
<1>2. \A k, m \in DOMAIN s : k < m => Before(s[k], s[m])
  BY DEF IsTable, InOrder
<1>3. s[i].time < s[j].time
  <2>1. Rank(s[i].clip) \in Int
    BY <1>1, RankOf
  <2> QED
    BY <1>2, <2>1 DEF Before
<1>4. ASSUME s[j - 1].clip # s[j].clip PROVE FALSE
  <2>1. j - 1 \in DOMAIN s /\ i <= j - 1 /\ j - 1 < j
    BY <1>1
  <2>2. i < j - 1
    BY <1>4, <2>1, <1>1
  <2>3. Before(s[i], s[j - 1]) /\ Before(s[j - 1], s[j])
    BY <1>2, <2>1, <2>2
  <2>4. Rank(s[i].clip) \in Int /\ Rank(s[j - 1].clip) \in Int /\ Rank(s[j].clip) \in Int
    BY <1>1, <2>1, RankOf
  <2>5. Rank(s[i].clip) = Rank(s[j].clip)
    OBVIOUS
  <2>6. s[i].clip # s[j - 1].clip
    BY <1>4
  <2>7. Rank(s[i].clip) < Rank(s[j - 1].clip)
    BY <2>3, <2>6 DEF Before
  <2>8. Rank(s[j - 1].clip) < Rank(s[j].clip)
    BY <1>4, <2>3 DEF Before
  <2> QED
    BY <2>4, <2>5, <2>7, <2>8
<1> QED
  BY <1>1, <1>3, <1>4 DEF First

\* The identifier a segment gets from the row that opens it.
NameAt(s, o) ==
    IF s[o].id = NoId THEN From(s[o].clip, s[o].time)
    ELSE IF IsGap(s, o) /\ ~Changes(s, o) THEN Gapped(s[o].id, s[o].time)
    ELSE s[o].id

LEMMA NamesApart ==
  ASSUME NEW a, NEW b, NEW clip, NEW t, NEW u, NEW other, NEW id, NEW x
  PROVE  /\ From(clip, t) = From(other, u) => t = u
         /\ Gapped(id, t) = Gapped(x, u) => t = u
         /\ From(clip, t) # Gapped(id, u)
         /\ From(clip, t) # Given(a) /\ From(clip, t) # NoId
         /\ Gapped(id, t) # Given(a) /\ Gapped(id, t) # NoId
         /\ Given(a) # NoId
  BY DEF From, Gapped, Given, NoId

\* Two rows that open segments of one clip give them different identifiers: an
\* identifier made of the instant is of its row, and a given one that is met again
\* after another segment would have reappeared.
LEMMA NamesDiffer ==
  ASSUME NEW names, NEW s, IsTable(s, names),
         NEW i \in DOMAIN s, NEW j \in DOMAIN s, i < j, s[i].clip = s[j].clip,
         Opens(s, j)
  PROVE  NameAt(s, i) # NameAt(s, j)
<1>1. ~First(s, j) /\ s[i].time < s[j].time
  BY ApartWithinClip
<1>2. s[i].time \in Int /\ s[j].time \in Int
  BY DEF IsTable, IsRow
<1>3. s[i].time # s[j].time
  BY <1>1, <1>2
<1>4. ASSUME NEW k \in DOMAIN s PROVE s[k].id = NoId \/ \E a : s[k].id = Given(a)
  BY DEF IsTable, IsRow
<1>5. ASSUME s[i].id = s[j].id, s[j].id # NoId, ~(IsGap(s, j) /\ ~Changes(s, j)) PROVE FALSE
  <2>1. Changes(s, j)
    BY <1>1, <1>5 DEF Opens
  <2>2. i \in 1 .. j - 1
    BY DEF IsTable, InOrder
  <2> QED
    BY <1>5, <2>1, <2>2 DEF Reappears, IsTable
<1>6. CASE s[i].id = NoId
  <2>1. NameAt(s, i) = From(s[i].clip, s[i].time)
    BY <1>6 DEF NameAt
  <2>2. CASE s[j].id = NoId
    BY <1>3, <2>1, <2>2, NamesApart DEF NameAt
  <2>3. ASSUME NEW a, s[j].id = Given(a), s[j].id # NoId PROVE NameAt(s, i) # NameAt(s, j)
    BY <2>1, <2>3, NamesApart DEF NameAt
  <2> QED
    BY <1>4, <2>2, <2>3
<1>7. ASSUME NEW a, s[i].id = Given(a), s[i].id # NoId PROVE NameAt(s, i) # NameAt(s, j)
  <2>1. NameAt(s, i) = Gapped(s[i].id, s[i].time) \/ NameAt(s, i) = Given(a)
    BY <1>7 DEF NameAt
  <2>2. CASE s[j].id = NoId
    <3>1. NameAt(s, j) = From(s[j].clip, s[j].time)
      BY <2>2 DEF NameAt
    <3> QED
      BY <2>1, <3>1, NamesApart
  <2>3. CASE s[j].id # NoId /\ IsGap(s, j) /\ ~Changes(s, j)
    <3>1. NameAt(s, j) = Gapped(s[j].id, s[j].time)
      BY <2>3 DEF NameAt
    <3> QED
      BY <1>3, <2>1, <3>1, NamesApart
  <2>4. CASE s[j].id # NoId /\ ~(IsGap(s, j) /\ ~Changes(s, j))
    <3>1. NameAt(s, j) = s[j].id
      BY <2>4 DEF NameAt
    <3>2. PICK b : s[j].id = Given(b)
      BY <1>4, <2>4
    <3>3. Gapped(s[i].id, s[i].time) # Given(b)
      BY NamesApart
    <3>4. s[i].id # s[j].id
      BY <1>5, <2>4
    <3> QED
      BY <1>7, <2>1, <3>1, <3>2, <3>3, <3>4
  <2> QED
    BY <2>2, <2>3, <2>4
<1> QED
  BY <1>4, <1>6, <1>7

\* Two rows of a clip have one identifier exactly if no segment opens between them.
LEMMA TableIsExact ==
  ASSUME NEW names, NEW s, IsTable(s, names),
         NEW i \in DOMAIN s, NEW j \in DOMAIN s, i < j, s[i].clip = s[j].clip
  PROVE  Segment(s, i) = Segment(s, j) <=> \A k \in i + 1 .. j : ~Opens(s, k)
<1> DEFINE p == Opening(s, i)
           q == Opening(s, j)
<1>1. DOMAIN s = 1 .. Len(s) /\ Len(s) \in Nat
  BY DEF IsTable, InOrder
<1>2. i \in Nat \ {0} /\ j \in Nat \ {0}
  BY <1>1
<1>3. Segment(s, i) = NameAt(s, p) /\ Segment(s, j) = NameAt(s, q)
  BY DEF Segment, NameAt
<1>4. CASE \A k \in i + 1 .. j : ~Opens(s, k)
  <2>1. q = p
    BY <1>2, <1>4, SameOpening
  <2> QED
    BY <1>3, <1>4, <2>1
<1>5. CASE ~(\A k \in i + 1 .. j : ~Opens(s, k))
  <2>1. i < q
    BY <1>2, <1>5, SameOpening
  <2>2. OpensFor(s, i, p) /\ OpensFor(s, j, q)
    BY <1>2, OpeningIs
  <2>3. s[p].clip = s[i].clip /\ s[q].clip = s[j].clip
    BY <1>2, OpeningClip
  <2> HIDE DEF p, q
  <2>4. p \in 1 .. i /\ q \in 1 .. j /\ Opens(s, q)
    BY <2>2 DEF OpensFor
  <2>5. p \in DOMAIN s /\ q \in DOMAIN s /\ p < q
    BY <1>1, <2>1, <2>4
  <2>6. NameAt(s, p) # NameAt(s, q)
    BY <2>3, <2>4, <2>5, NamesDiffer
  <2> QED
    BY <1>3, <1>5, <2>6
<1> QED
  BY <1>4, <1>5

\* A frame of the rows a source may give, once accepted, is such a table when sorted.
LEMMA AcceptedIsTable ==
  ASSUME NEW names, NEW R, \A r \in R : IsRow(r, names),
         NEW frame \in Seq(R), Accepted(frame)
  PROVE  IsTable(Sorted(frame), names)
<1>1. \A r \in R : IsTimed(r)
  BY DEF IsRow, IsTimed
<1>2. Identified(frame) /\ ~Reappears(Sorted(frame))
  BY DEF Accepted
<1>3. Sorted(frame) \in Seq(R) /\ InOrder(Sorted(frame))
  BY <1>1, <1>2, SortedInOrder
<1>4. \A i \in DOMAIN Sorted(frame) : IsRow(Sorted(frame)[i], names)
  BY <1>3
<1> QED
  BY <1>2, <1>3, <1>4 DEF IsTable

LEMMA NormalizedIs ==
  ASSUME NEW frame
  PROVE  Normalized(frame) = Assigned(Sorted(frame))
BY DEF Normalized, Assigned

\* Segments are exact for every frame: whatever the rows, their times and the
\* identifiers the source gave, two rows of a clip get one identifier exactly if
\* neither a gap nor a change of the given identifier lies between them.
THEOREM SegmentsExact ==
  ASSUME NEW names, NEW R, \A r \in R : IsRow(r, names), NEW frame \in Seq(R)
  PROVE  SegmentsAreExact(frame)
<1> SUFFICES ASSUME Accepted(frame)
             PROVE  LET s == Sorted(frame)  n == Normalized(frame) IN
                    \A i, j \in DOMAIN s :
                      i < j /\ s[i].clip = s[j].clip =>
                        (n[i].id = n[j].id <=> \A k \in i + 1 .. j : ~Opens(s, k))
  BY DEF SegmentsAreExact
<1> DEFINE s == Sorted(frame)
           n == Normalized(frame)
<1>1. IsTable(s, names)
  BY AcceptedIsTable
<1>2. n = Assigned(s)
  BY NormalizedIs
<1> HIDE DEF s, n
<1> SUFFICES ASSUME NEW i \in DOMAIN s, NEW j \in DOMAIN s, i < j, s[i].clip = s[j].clip
             PROVE  n[i].id = n[j].id <=> \A k \in i + 1 .. j : ~Opens(s, k)
  BY DEF s, n
<1>3. n[i].id = Segment(s, i) /\ n[j].id = Segment(s, j)
  BY <1>1, <1>2, AssignedFields
<1> QED
  BY <1>1, <1>3, TableIsExact

\* The rows a table is given back in open segments where they did, and nowhere else.
LEMMA AssignedOpens ==
  ASSUME NEW names, NEW s, IsTable(s, names), NEW i \in DOMAIN s
  PROVE  LET n == Assigned(s) IN
         /\ First(n, i) <=> First(s, i)
         /\ IsGap(n, i) <=> IsGap(s, i)
         /\ Changes(n, i) <=> ~First(s, i) /\ Opens(s, i)
         /\ Opens(n, i) <=> Opens(s, i)
<1> DEFINE n == Assigned(s)
<1>1. DOMAIN s = 1 .. Len(s) /\ Len(s) \in Nat
  BY DEF IsTable, InOrder
<1>2. \A k \in DOMAIN s : n[k].clip = s[k].clip /\ n[k].time = s[k].time /\ n[k].id = Segment(s, k)
  BY AssignedFields
<1> HIDE DEF n
<1>3. i # 1 => i - 1 \in DOMAIN s /\ i - 1 < i
  BY <1>1
<1>4. First(n, i) <=> First(s, i)
  BY <1>2, <1>3 DEF First
<1>5. IsGap(n, i) <=> IsGap(s, i)
  <2>1. CASE First(s, i)
    BY <1>4, <2>1 DEF IsGap
  <2>2. CASE ~First(s, i)
    <3>1. i # 1
      BY <2>2 DEF First
    <3>2. n[i].time = s[i].time /\ n[i - 1].time = s[i - 1].time
      BY <1>2, <1>3, <3>1
    <3> QED
      BY <1>4, <3>2 DEF IsGap
  <2> QED
    BY <2>1, <2>2
<1>6. Changes(n, i) <=> ~First(s, i) /\ Opens(s, i)
  <2>1. CASE First(s, i)
    BY <1>4, <2>1 DEF Changes
  <2>2. CASE ~First(s, i)
    <3>1. i # 1 /\ s[i - 1].clip = s[i].clip
      BY <2>2 DEF First
    <3>2. i - 1 \in DOMAIN s /\ i - 1 < i
      BY <1>3, <3>1
    <3>3. Segment(s, i - 1) = Segment(s, i) <=> \A k \in (i - 1) + 1 .. i : ~Opens(s, k)
      BY <3>1, <3>2, TableIsExact
    <3>4. (i - 1) + 1 .. i = {i}
      BY <1>1
    <3>5. Segment(s, i - 1) = Segment(s, i) <=> ~Opens(s, i)
      BY <3>3, <3>4
    <3>6. n[i].id = Segment(s, i) /\ n[i - 1].id = Segment(s, i - 1)
      BY <1>2, <3>2
    <3> QED
      BY <1>4, <2>2, <3>5, <3>6 DEF Changes
  <2> QED
    BY <2>1, <2>2
<1>7. Opens(n, i) <=> Opens(s, i)
  BY <1>4, <1>5, <1>6 DEF Opens
<1> QED
  BY <1>4, <1>5, <1>6, <1>7 DEF n

\* What normalising gives back is a table in order, none of whose identifiers
\* comes back, and it has an identifier in every row.
LEMMA AssignedIsSound ==
  ASSUME NEW names, NEW s, IsTable(s, names)
  PROVE  /\ InOrder(Assigned(s)) /\ Identified(Assigned(s)) /\ ~Reappears(Assigned(s))
         /\ \E R : Assigned(s) \in Seq(R)
<1> DEFINE n == Assigned(s)
<1>1. DOMAIN s = 1 .. Len(s) /\ Len(s) \in Nat
  BY DEF IsTable, InOrder
<1>2. \A i \in DOMAIN s : n[i].clip = s[i].clip /\ n[i].time = s[i].time /\ n[i].id = Segment(s, i)
  BY AssignedFields
<1>3. n = [i \in DOMAIN s |-> n[i]] /\ DOMAIN n = DOMAIN s
  BY DEF Assigned
<1>4. \A i \in DOMAIN s : First(n, i) <=> First(s, i)
  BY AssignedOpens
<1> HIDE DEF n
<1>5. n \in Seq({n[i] : i \in DOMAIN s}) /\ Len(n) = Len(s)
  <2>1. n \in [1 .. Len(s) -> {n[i] : i \in DOMAIN s}]
    BY <1>1, <1>3
  <2> QED
    BY <1>1, <2>1
<1>6. \A i \in DOMAIN s : IsTimed(n[i])
  BY <1>2 DEF IsTable, InOrder, IsTimed
<1>7. \A i, j \in DOMAIN s : i < j => Before(n[i], n[j])
  BY <1>2 DEF IsTable, InOrder, Before
<1>8. InOrder(n)
  BY <1>1, <1>3, <1>5, <1>6, <1>7 DEF InOrder
<1>9. Identified(n)
  <2>1. ASSUME NEW i \in DOMAIN s, NEW j \in DOMAIN s, i < j, n[i].clip = n[j].clip
        PROVE  n[i].time < n[j].time
    BY <1>2, <2>1, ApartWithinClip
  <2> QED
    BY <1>3, <2>1 DEF Identified
<1>10. ~Reappears(n)
  <2>1. SUFFICES ASSUME NEW i \in DOMAIN s, Changes(n, i), NEW j \in 1 .. i - 1,
                        n[j].clip = n[i].clip, n[j].id = n[i].id
                 PROVE  FALSE
    BY <1>3 DEF Reappears
  <2>2. j \in DOMAIN s /\ j < i /\ i - 1 \in DOMAIN s /\ i - 1 < i
    BY <1>1
  <2>3. \A k \in j + 1 .. i : ~Opens(s, k)
    BY <1>2, <2>1, <2>2, TableIsExact
  <2>4. ~Opens(s, i)
    BY <1>1, <2>2, <2>3
  <2>5. Opens(s, i)
    BY <2>1, AssignedOpens DEF n
  <2> QED
    BY <2>4, <2>5
<1> QED
  BY <1>5, <1>8, <1>9, <1>10 DEF n

\* Every row of what normalising gives back keeps its identifier when it is
\* normalised again: the row that opens its segment has the segment's name already.
LEMMA NamedAgain ==
  ASSUME NEW names, NEW s, IsTable(s, names), NEW i \in DOMAIN s
  PROVE  Segment(Assigned(s), i) = Assigned(s)[i].id
<1> DEFINE n == Assigned(s)
           o == Opening(s, i)
<1>1. DOMAIN s = 1 .. Len(s) /\ Len(s) \in Nat /\ i \in Nat \ {0}
  BY DEF IsTable, InOrder
<1>2. OpensFor(s, i, o)
  BY <1>1, OpeningIs
<1>3. \A p : OpensFor(n, i, p) => p = Opening(n, i)
  BY <1>1, OpeningIs
<1>4. \A k \in DOMAIN s : n[k].id = Segment(s, k)
  BY AssignedFields
<1>5. \A k \in DOMAIN s : /\ Changes(n, k) <=> ~First(s, k) /\ Opens(s, k)
                          /\ IsGap(n, k) <=> IsGap(s, k)
                          /\ Opens(n, k) <=> Opens(s, k)
  BY AssignedOpens
<1> HIDE DEF n, o
<1>6. o \in 1 .. i /\ o \in DOMAIN s /\ o \in Nat \ {0} /\ Opens(s, o)
      /\ \A k \in o + 1 .. i : k \in DOMAIN s
  BY <1>1, <1>2 DEF OpensFor
<1>7. OpensFor(n, i, o)
  BY <1>2, <1>5, <1>6 DEF OpensFor
<1>8. Opening(n, i) = o
  BY <1>3, <1>7
<1>9. Opening(s, o) = o
  <2>1. OpensFor(s, o, o)
    BY <1>6 DEF OpensFor
  <2> QED
    BY <1>6, <2>1, OpeningIs
<1>10. n[o].id = Segment(s, i)
  <2>1. Segment(s, i) = NameAt(s, o)
    BY DEF Segment, NameAt, o
  <2>2. Segment(s, o) = NameAt(s, o)
    BY <1>9 DEF Segment, NameAt
  <2> QED
    BY <1>4, <1>6, <2>1, <2>2
<1>11. n[o].id # NoId
  <2>1. n[o].id = NameAt(s, o)
    BY <1>10 DEF Segment, NameAt, o
  <2> QED
    BY <2>1, NamesApart DEF NameAt
<1>12. ~(IsGap(n, o) /\ ~Changes(n, o))
  BY <1>5, <1>6 DEF IsGap, Opens
<1>13. Segment(n, i) = n[o].id
  BY <1>8, <1>11, <1>12 DEF Segment
<1> QED
  BY <1>4, <1>10, <1>13 DEF n

\* Normalising twice is normalising once, for every frame a source may give: the
\* second pass accepts what the first gave back, and changes nothing.
THEOREM NormalizedOnce ==
  ASSUME NEW names, NEW R, \A r \in R : IsRow(r, names), NEW frame \in Seq(R)
  PROVE  NormalizesOnce(frame)
<1> SUFFICES ASSUME Accepted(frame)
             PROVE  /\ Accepted(Normalized(frame))
                    /\ Normalized(Normalized(frame)) = Normalized(frame)
  BY DEF NormalizesOnce
<1> DEFINE s == Sorted(frame)
           n == Normalized(frame)
<1>1. IsTable(s, names)
  BY AcceptedIsTable
<1>2. n = Assigned(s)
  BY NormalizedIs
<1> HIDE DEF s, n
<1>3. InOrder(n) /\ Identified(n) /\ ~Reappears(n) /\ \E S : n \in Seq(S)
  BY <1>1, <1>2, AssignedIsSound
<1>4. Sorted(n) = n
  BY <1>3, SortedAgain
<1>5. Accepted(n)
  BY <1>3, <1>4 DEF Accepted
<1>6. Normalized(n) = Assigned(n)
  BY <1>4, NormalizedIs
<1>7. Assigned(n) = n
  <2>1. DOMAIN n = DOMAIN s /\ n = [i \in DOMAIN n |-> n[i]]
    BY <1>2 DEF Assigned
  <2>2. ASSUME NEW i \in DOMAIN n PROVE [n[i] EXCEPT !.id = Segment(n, i)] = n[i]
    <3>1. Segment(n, i) = n[i].id
      BY <1>1, <1>2, <2>1, NamedAgain
    <3>2. \A v : v = n[i].id => [n[i] EXCEPT !.id = v] = n[i]
      BY <1>1, <1>2, <2>1, AssignedIsRecord
    <3> QED
      BY <3>1, <3>2
  <2>3. Assigned(n) = [i \in DOMAIN n |-> n[i]]
    BY <2>2 DEF Assigned
  <2> QED
    BY <2>1, <2>3
<1> QED
  BY <1>5, <1>6, <1>7 DEF n

-----------------------------------------------------------------------------
(***************************************************************************)
(* What training calls an accident, serving can raise: MinuteFeatures, for *)
(* any thresholds and any minutes.                                         *)
(***************************************************************************)
CONSTANTS RollingWindow, Persistence, Slow, Braking, Brakings, CongestedMax, CongestedVehicles,
          ReducedSpeeds, ReducedVehicles, TransitionSpeed, TransitionCount,
          QualityMin, NearZeroMin, StandingMin, FlowMin

F == INSTANCE MinuteFeatures

\* The points of a minute the mask marks reach the gate's 75 even when only the sum of
\* the braking says that speed broke: 30 for the low speed, 15, 20 for its persistence,
\* 5 for the quality and 5 for a motion that stopped.
LEMMA MaskedScores ==
  ASSUME NEW rows, NEW i, F!AccidentMask(rows, i)
  PROVE  F!Evidence(rows, i) >= 75
<1> DEFINE a == F!Points(F!LowSpeed(rows[i]), 30)
           b == F!Points(F!RecentBraking(rows, i), 20)
           c == F!Points(F!CumulativeBraking(rows, i), 15)
           d == F!Points(F!PersistentLow(rows, i), 20)
           e == F!Points(F!QualityOk(rows[i]), 5)
           f == F!Points(F!NearZero(rows[i]), 5)
           g == F!Points(F!Standing(rows[i]), 5)
<1>1. \A holds, n : (holds => F!Points(holds, n) = n) /\ (~holds => F!Points(holds, n) = 0)
  BY DEF F!Points
<1>2. a = 30 /\ d = 20 /\ e = 5
  BY <1>1, Zenon DEF F!AccidentMask
<1>3. (b = 20 /\ (c = 15 \/ c = 0)) \/ (b = 0 /\ c = 15)
  BY <1>1, Zenon DEF F!AccidentMask
<1>4. (f = 5 /\ (g = 5 \/ g = 0)) \/ (f = 0 /\ g = 5)
  BY <1>1, Zenon DEF F!AccidentMask, F!MotionEvidence
<1>5. F!Evidence(rows, i) = a + b + c + d + e + f + g
  BY DEF F!Evidence
<1> HIDE DEF a, b, c, d, e, f, g
<1> QED
  BY <1>2, <1>3, <1>4, <1>5

\* The mask of the training labels never marks a visible, occupied minute that the
\* policy would not call strong, whatever the thresholds of the rules
\* (build_accident_mask, ACCIDENT_GATE_MIN_EVIDENCE_SCORE).
THEOREM MaskAlwaysReachesGate ==
  ASSUME NEW frame
  PROVE  F!MaskReachesGate(frame)
<1> DEFINE rows == F!Features(frame)
<1> SUFFICES ASSUME NEW i \in DOMAIN rows, F!AccidentMask(rows, i),
                    rows[i].flow >= FlowMin, rows[i].vehicles > 0
             PROVE  F!Strong(rows, i)
  BY DEF F!MaskReachesGate
<1> HIDE DEF rows
<1>1. F!Evidence(rows, i) >= 75
  BY MaskedScores
<1>2. (F!RecentBraking(rows, i) \/ F!CumulativeBraking(rows, i))
      /\ F!MotionEvidence(rows[i]) /\ F!QualityOk(rows[i])
  BY Zenon DEF F!AccidentMask
<1> QED
  BY <1>1, <1>2, Zenon DEF F!Strong
=============================================================================
