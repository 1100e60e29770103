------------------------------ MODULE SpeedScale ------------------------------
(***************************************************************************)
(* The scales that turn pixels into metres, by the height in the image,    *)
(* and the speed that stands for a minute: get_perspective_factor and      *)
(* robust_speed_summary of vision/speed.py, CameraCalibration of           *)
(* vision/view_plan.py.  Heights are percentages of the frame, factors are *)
(* tenths; an interpolated value is a fraction <<numerator, denominator>>. *)
(***************************************************************************)
EXTENDS Integers, Sequences, SequencesExt, FiniteSets

CONSTANTS
    NearLine, MidLine,                \* thresholds of PERSPECTIVE_ZONES
    NearFactor, MidFactor, FarFactor, \* their factors
    Blend,                            \* PERSPECTIVE_BLEND_BAND
    TrimPercent                       \* SPEED_ROBUST_TRIM_RATIO

AtMost(p, q) == p[1] * q[2] <= q[1] * p[2]
Whole(n) == <<n, 1>>

\* The point at distance part of whole on the way from a to b (_lerp).
Between(a, b, part, whole) == <<a * whole + (b - a) * part, whole>>

-----------------------------------------------------------------------------
(* get_perspective_factor at a height: three zones with a band of blending  *)
(* around each line.                                                        *)

Around(line, y) == y \in line - Blend .. line + Blend
Blended(a, b, line, y) == Between(a, b, y - (line - Blend), 2 * Blend)

\* Mutant: the lower band starts from the factor of the near zone.
PerspectiveJumping(y) ==
    IF y >= NearLine + Blend THEN Whole(NearFactor)
    ELSE IF y <= MidLine - Blend THEN Whole(FarFactor)
    ELSE IF Around(NearLine, y) THEN Blended(MidFactor, NearFactor, NearLine, y)
    ELSE IF Around(MidLine, y) THEN Blended(FarFactor, NearFactor, MidLine, y)
    ELSE IF y > MidLine THEN Whole(MidFactor) ELSE Whole(FarFactor)

Perspective(y) ==
    IF Blend <= 0
    THEN IF y > NearLine THEN Whole(NearFactor)
         ELSE IF y > MidLine THEN Whole(MidFactor) ELSE Whole(FarFactor)
    ELSE IF y >= NearLine + Blend THEN Whole(NearFactor)
    ELSE IF y <= MidLine - Blend THEN Whole(FarFactor)
    ELSE IF Around(NearLine, y) THEN Blended(MidFactor, NearFactor, NearLine, y)
    ELSE IF Around(MidLine, y) THEN Blended(FarFactor, MidFactor, MidLine, y)
    ELSE IF y > MidLine THEN Whole(MidFactor) ELSE Whole(FarFactor)

\* A vehicle that drives towards the camera never shrinks, and no line makes its
\* speed jump: one step of the image changes the factor by at most a step of a band
\* (settings.py: "La banda lineal evita saltos cuando un vehiculo cruza limites").
PerspectiveIsGradual(y) ==
    /\ AtMost(Perspective(y), Perspective(y + 1))
    /\ AtMost(Whole(FarFactor), Perspective(y)) /\ AtMost(Perspective(y), Whole(NearFactor))
    /\ LET step(a, b) == <<b[1] * a[2] - a[1] * b[2], a[2] * b[2]>> IN
       AtMost(step(Perspective(y), Perspective(y + 1)), <<NearFactor - FarFactor, 2 * Blend>>)

-----------------------------------------------------------------------------
(* CameraCalibration: references, each with a depth and a scale.            *)

\* __post_init__: two references, at two depths at least, inside the frame.
Calibrated(references, height) ==
    /\ Len(references) >= 2
    /\ \A r \in ToSet(references) : r.depth \in 0 .. height - 1 /\ r.scale > 0
    /\ Cardinality({r.depth : r \in ToSet(references)}) >= 2

\* numpy and statistics take the mean of the two middle values.
MiddleOf(values) ==
    LET s == SortSeq(values, <)  n == Len(s) IN
    IF n % 2 = 1 THEN <<2 * s[(n + 1) \div 2], 2>> ELSE <<s[n \div 2] + s[n \div 2 + 1], 2>>

\* The scale at a depth that has references: the median of theirs.
ScaleAt(references, depth) ==
    LET here == SelectSeq(references, LAMBDA r : r.depth = depth)
    IN  MiddleOf([i \in DOMAIN here |-> here[i].scale])

Least(S)    == CHOOSE n \in S : \A m \in S : n <= m
Greatest(S) == CHOOSE n \in S : \A m \in S : m <= n

\* pixels_per_meter_at.
PixelsPerMetre(references, y) ==
    LET depths == {r.depth : r \in ToSet(references)}
        above  == {d \in depths : d <= y}
        below  == {d \in depths : d >= y}
        l      == Greatest(above)
        r      == Least(below)
        a      == ScaleAt(references, l)
        b      == ScaleAt(references, r)
    IN  IF above = {} THEN ScaleAt(references, Least(depths))
        ELSE IF below = {} THEN ScaleAt(references, Greatest(depths))
        ELSE IF l = r THEN a
        ELSE <<a[1] * b[2] * (r - l) + (b[1] * a[2] - a[1] * b[2]) * (y - l),
               a[2] * b[2] * (r - l)>>

\* The nearest depths with references on both sides of a height.
Beside(references, y) ==
    LET depths == {r.depth : r \in ToSet(references)} IN
    {d \in depths : \A e \in depths : ~(d < e /\ e <= y) /\ ~(y <= e /\ e < d)}

\* The scale at any height lies between those of the references beside it, so a
\* distance is never divided by a scale nobody measured, nor by nothing.
ScaleIsMeasured(references, y) ==
    LET near == {r \in ToSet(references) : r.depth \in Beside(references, y)} IN
    \E p, q \in near :
        /\ AtMost(Whole(p.scale), PixelsPerMetre(references, y))
        /\ AtMost(PixelsPerMetre(references, y), Whole(q.scale))

-----------------------------------------------------------------------------
(* robust_speed_summary of the speeds of a minute.                          *)

\* The deviations from the median, doubled, and the median of those.
Deviation(speeds, x) ==
    LET d == 2 * x - MiddleOf(speeds)[1] IN IF d < 0 THEN -d ELSE d
Deviations(speeds) == [i \in DOMAIN speeds |-> Deviation(speeds, speeds[i])]
Mad(speeds) == MiddleOf(Deviations(speeds))[1]      \* times four

\* |0.6745 (x - median) / mad| <= SPEED_ROBUST_OUTLIER_SIGMA
WithoutOutliers(speeds) ==
    LET kept == SelectSeq(speeds, LAMBDA x :
                    6745 * 2 * Deviation(speeds, x) <= 35000 * Mad(speeds))
    IN  IF Mad(speeds) > 0 /\ kept # <<>> THEN kept ELSE speeds

Trimmed(speeds) ==
    LET n == Len(speeds)  k == (n * TrimPercent) \div 100
    IN  IF n >= 4 /\ k > 0 /\ n - 2 * k >= 1
        THEN SubSeq(SortSeq(speeds, <), k + 1, n - k) ELSE speeds

RobustMean(speeds) ==
    IF speeds = <<>> THEN Whole(0)
    ELSE LET kept == Trimmed(WithoutOutliers(speeds))
         IN  <<FoldLeft(+, 0, kept), Len(kept)>>

\* The speed of a minute is one that was driven, and a single reading far out of
\* proportion does not move it beyond the others, unless most of these are equal
\* (robust_speed_summary: "una media robusta frente a picos aislados").
SpikeIsIgnored(speeds, spike) ==
    LET all    == Append(speeds, spike)
        top    == Greatest(ToSet(speeds))
        spread == top - Least(ToSet(speeds))
    IN  /\ AtMost(Whole(Least(ToSet(speeds))), RobustMean(speeds))
        /\ AtMost(RobustMean(speeds), Whole(top))
        /\ Len(speeds) >= 3 /\ Mad(all) > 0 /\ spike > top + 6 * spread
              => AtMost(RobustMean(all), Whole(top))
=============================================================================
