------------------------------ MODULE Continuity ------------------------------
(***************************************************************************)
(* normalize_continuity_frame of vaaet/continuity.py: which minutes of a   *)
(* clip are neighbours.  A frame is a sequence of rows with a clip, a time *)
(* in seconds and an identifier the source gave (or NoId); the result has  *)
(* the rows sorted by clip and time, each with the identifier of the       *)
(* continuous segment it belongs to.                                       *)
(***************************************************************************)
EXTENDS Naturals, Sequences, FiniteSets

CONSTANTS
    MaxGap,     \* CONTINUITY_MAX_GAP_SECONDS
    ClipOrder   \* the clips in the order of their names

ASSUME ContinuityConstants ==
    /\ MaxGap \in Nat /\ DOMAIN ClipOrder = 1 .. Len(ClipOrder)
    /\ \A i, j \in DOMAIN ClipOrder : ClipOrder[i] = ClipOrder[j] => i = j

\* An identifier is one a source gave, one made from the clip and the instant
\* that opens a segment, or one that a gap made out of another.
NoId          == <<"none">>
Given(a)      == <<"given", a>>
From(clip, t) == <<"from", clip, t>>
Gapped(id, t) == <<"gap", id, t>>

Rank(clip) == CHOOSE i \in DOMAIN ClipOrder : ClipOrder[i] = clip

\* The order of (clip_id, record_time).
Before(a, b) ==
    \/ Rank(a.clip) < Rank(b.clip)
    \/ a.clip = b.clip /\ a.time < b.time

-----------------------------------------------------------------------------
(* _validate_temporal_identity: (clip, time) is unique, the time of each    *)
(* clip grows in the order given, and the frame is sorted by both.          *)

Identified(frame) ==
    \A i, j \in DOMAIN frame :
        i < j /\ frame[i].clip = frame[j].clip => frame[i].time < frame[j].time

\* Mutant: the frame is used in the order it was given.
AsGiven(frame) == frame

Sorted(frame) ==
    [n \in DOMAIN frame |->
        LET i == CHOOSE i \in DOMAIN frame :
                   Cardinality({j \in DOMAIN frame : Before(frame[j], frame[i])}) = n - 1
        IN  frame[i]]

-----------------------------------------------------------------------------
(* _assign_continuity, for row i of a sorted frame.                         *)

First(frame, i) == i = 1 \/ frame[i - 1].clip # frame[i].clip
IsGap(frame, i) == ~First(frame, i) /\ frame[i].time - frame[i - 1].time > MaxGap
Changes(frame, i) == ~First(frame, i) /\ frame[i].id # frame[i - 1].id

Opens(frame, i) == First(frame, i) \/ IsGap(frame, i) \/ Changes(frame, i)

\* The row that opens the segment of row i.
Opening(frame, i) ==
    CHOOSE s \in 1 .. i :
        Opens(frame, s) /\ \A k \in s + 1 .. i : ~Opens(frame, k)

\* A given identifier that was left for another must not come back.
Reappears(frame) ==
    \E i \in DOMAIN frame :
        /\ Changes(frame, i) /\ frame[i].id # NoId
        /\ \E j \in 1 .. i - 1 : frame[j].clip = frame[i].clip /\ frame[j].id = frame[i].id

\* Mutant: every gap below a given identifier is named, even when the identifier
\* changed there.
SegmentNamingGaps(frame, i) ==
    LET s == Opening(frame, i) IN
    IF frame[s].id = NoId THEN From(frame[s].clip, frame[s].time)
    ELSE IF IsGap(frame, s) THEN Gapped(frame[s].id, frame[s].time)
    ELSE frame[s].id

Segment(frame, i) ==
    LET s == Opening(frame, i) IN
    IF frame[s].id = NoId THEN From(frame[s].clip, frame[s].time)
    ELSE IF IsGap(frame, s) /\ ~Changes(frame, s) THEN Gapped(frame[s].id, frame[s].time)
    ELSE frame[s].id

\* A frame the function accepts, and what it returns.
Accepted(frame) == Identified(frame) /\ ~Reappears(Sorted(frame))

Normalized(frame) ==
    LET s == Sorted(frame) IN [i \in DOMAIN s |-> [s[i] EXCEPT !.id = Segment(s, i)]]

-----------------------------------------------------------------------------
(* What the callers rely on.                                                *)

\* Normalising twice is normalising once.  persist_raw_telemetry calls itself
\* on a normalised frame, and reconciliation, features and policy normalise the
\* same frame again: a second pass must not split or merge segments, or every
\* content comparison would fail.
NormalizesOnce(frame) ==
    Accepted(frame) =>
        /\ Accepted(Normalized(frame))
        /\ Normalized(Normalized(frame)) = Normalized(frame)

\* Two rows of a clip have one identifier exactly if no gap and no change of
\* the given identifier lies between them.
SegmentsAreExact(frame) ==
    Accepted(frame) =>
        LET s == Sorted(frame)  n == Normalized(frame) IN
        \A i, j \in DOMAIN s :
            i < j /\ s[i].clip = s[j].clip =>
                (n[i].id = n[j].id <=> \A k \in i + 1 .. j : ~Opens(s, k))
=============================================================================
