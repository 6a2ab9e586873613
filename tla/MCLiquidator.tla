---------------------------- MODULE MCLiquidator ----------------------------
(* A redemption of fees and a staged liquidation, or an immediate one, and  *)
(* two blocks in place of the twelve of finality and of the 256 of a search. *)
(* The search does not depend on the submission mode: each of its settings   *)
(* goes with one of them.                                                    *)
EXTENDS Liquidator

Redemption == [requiresMarketEvidence |-> FALSE, expects |-> "transaction"]
Immediate == [requiresMarketEvidence |-> TRUE, expects |-> "staged-success"]
Staged == [requiresMarketEvidence |-> TRUE, expects |-> "pending-liquidation"]

RedeemOrStage == {Redemption, Staged}
Liquidations == {Immediate, Staged}

PrivateOrHistorical == {[mode |-> "private", historicalLogRecovery |-> FALSE],
                        [mode |-> "public", historicalLogRecovery |-> TRUE]}
=============================================================================
