--------------------------- MODULE AttritionCurve ---------------------------
(***************************************************************************)
(* The fixed-point attrition curve of the escalation game: how much REP two*)
(* outcomes must each hold to keep a game of a given age open              *)
(* (EscalationGameProofVerifier), and the age at which a given amount no   *)
(* longer suffices (EscalationGameCalculations).  Every division floors,   *)
(* exactly where the code's does.                                          *)
(***************************************************************************)
EXTENDS Integers

CONSTANTS
    SCALE,                 \* 1e6 in the deployment
    LN2_SCALED,            \* 693147 in the deployment
    MAX_ATANH_ITERATIONS,
    MAX_EXP_ITERATIONS,
    ESCALATION_TIME_LENGTH

ASSUME CurveAssumption ==
    {SCALE, LN2_SCALED, MAX_ATANH_ITERATIONS, MAX_EXP_ITERATIONS,
     ESCALATION_TIME_LENGTH} \subseteq Nat \ {0}

-----------------------------------------------------------------------------
(* Logarithm.                                                              *)

\* z + z^3/3 + z^5/5 + ..., term by term until a term vanishes.
_computeAtanhScaled(z) ==
    LET z2 == (z * z) \div SCALE
        rest[k \in Nat, term \in Nat] ==
            LET next == (term * z2 * (2*k - 1)) \div ((2*k + 1) * SCALE)
            IN IF k >= MAX_ATANH_ITERATIONS \/ next = 0 THEN 0 ELSE next + rest[k + 1, next]
    IN z + rest[1, z]

\* ln(high / low): halvings first, then 2 artanh of what is left.
computeLnRatioScaled(low, high) ==
    LET ln[normalized \in Nat] ==
            IF high >= 2 * normalized THEN LN2_SCALED + ln[2 * normalized]
            ELSE 2 * _computeAtanhScaled(((high - normalized) * SCALE) \div (high + normalized))
    IN ln[low]

-----------------------------------------------------------------------------
(* Cost of a moment, and moment of a cost.                                 *)

\* SCALE * exp(r / SCALE) for a remainder below LN2_SCALED.
MutExpSeries(r) ==
    LET rest[k \in Nat, term \in Nat] ==
            LET next == (term * r) \div SCALE
            IN IF k >= MAX_EXP_ITERATIONS \/ next = 0 THEN 0 ELSE next + rest[k + 1, next]
    IN SCALE + r + rest[2, r]
ExpSeries(r) ==
    LET rest[k \in Nat, term \in Nat] ==
            LET next == (term * r) \div (k * SCALE)
            IN IF k >= MAX_EXP_ITERATIONS \/ next = 0 THEN 0 ELSE next + rest[k + 1, next]
    IN SCALE + r + rest[2, r]

\* The curve strictly between its end points.
CurvePoint(startBond, threshold, time) ==
    LET exponent == (computeLnRatioScaled(startBond, threshold) * time) \div ESCALATION_TIME_LENGTH
        cost == (startBond * 2 ^ (exponent \div LN2_SCALED) * ExpSeries(exponent % LN2_SCALED)) \div SCALE
    IN IF cost > threshold THEN threshold ELSE cost

computeIterativeAttritionCost(startBond, threshold, time) ==
    CASE time = 0 -> startBond
      [] time = ESCALATION_TIME_LENGTH -> threshold
      [] OTHER -> CurvePoint(startBond, threshold, time)

computeTimeSinceStartFromAttritionCost(startBond, threshold, cost) ==
    CASE cost <= startBond -> 0
      [] cost >= threshold -> ESCALATION_TIME_LENGTH
      [] OTHER -> (computeLnRatioScaled(startBond, cost) * ESCALATION_TIME_LENGTH)
                      \div computeLnRatioScaled(startBond, threshold)

=============================================================================
