-------------------------- MODULE MCEscalationGame --------------------------
(***************************************************************************)
(* A bond of 2 and a threshold of 5 on a curve of 5 units: a stake can open,*)
(* top up, tie, or fill an outcome, and two outcomes can both fill.        *)
(*                                                                         *)
(* The curve itself is checked once, before the game, at a precision where *)
(* one unit of age moves the exponent by a few units, as one second does in*)
(* the deployment: for every bond, threshold and median in small ranges.   *)
(***************************************************************************)
EXTENDS EscalationGame

MCAmount == {3, 6}
MCForkThresholds == {3, 9}

CONSTANTS CurveLength, StartBonds, Thresholds

Curve == INSTANCE AttritionCurve WITH
             SCALE <- 1000, LN2_SCALED <- 693, ESCALATION_TIME_LENGTH <- CurveLength

\* The cost starts at the bond, ends at the threshold and stays between them
\* (EscalationGameCalculations.sol:9-14), and keeping a game open never becomes
\* cheaper, although each term of the series is rounded on its own and the
\* exponent wraps at every doubling.
CostRises(bond, threshold) ==
    LET cost == [age \in 0 .. CurveLength |->
                    Curve!computeIterativeAttritionCost(bond, threshold, age)]
    IN  /\ cost[0] = bond /\ cost[CurveLength] = threshold
        /\ \A age \in 0 .. CurveLength - 1 : cost[age] <= cost[age + 1]

\* More capital behind two outcomes never brings the deadline forward, which never
\* lies beyond the curve; and up to and at its deadline a game is open: the cost
\* has not passed the median.  (At the very end of the curve the cost is the
\* threshold itself, whatever the median.)
DeadlineInverts(bond, threshold) ==
    LET deadline == [median \in bond .. threshold |->
            Curve!computeTimeSinceStartFromAttritionCost(bond, threshold, median)]
    IN  \A median \in bond .. threshold :
          /\ deadline[median] <= CurveLength
          /\ median < threshold => deadline[median] <= deadline[median + 1]
          /\ \A age \in 0 .. CurveLength - 1 : age <= deadline[median] =>
                Curve!computeIterativeAttritionCost(bond, threshold, age) <= median

\* What the game and its previews take for granted of the curve.
CurveServesTheGame ==
    now = 1 /\ activationTime = 0 =>
        \A bond \in StartBonds : \A threshold \in {n \in Thresholds : n > bond} :
            CostRises(bond, threshold) /\ DeadlineInverts(bond, threshold)
=============================================================================
