------------------------------ MODULE PoolFork ------------------------------
(***************************************************************************)
(* The children of a forked security pool: vaults that migrate into them   *)
(* with their REP, capacity and bad debt and the collateral that follows,  *)
(* the truth auction that sells the child's REP for the rest of the        *)
(* collateral, and the claims on what was sold (SecurityPoolForker.sol,    *)
(* its migration and settlement delegates, SecurityPoolUtils.sol and the   *)
(* haircut of EscalationGameDepositDelegate.sol).                          *)
(*                                                                         *)
(* The parent is frozen; its fees and the stakes of its game are the       *)
(* business of SecurityPool and EscalationGame.  The bids are those of     *)
(* Auction, here only its outcome.  A fee checkpoint is kept as which      *)
(* vaults are behind the fee index, and not by how much.                   *)
(***************************************************************************)
EXTENDS ShareToken

CONSTANTS
    Auctioned,             \* bound: the children whose auction is followed
    PRICE_PRECISION, BPS_DENOMINATOR,
    statoblastSecurityMultiplierBps,
    MAX_AUCTION_VAULT_HAIRCUT_DIVISOR,
    Parents                \* the pools that may have forked

Amounts == [units : Nat, capacity : Nat, badDebt : Nat]
Nothing == [units |-> 0, capacity |-> 0, badDebt |-> 0]
Plus(a, b) == [units |-> a.units + b.units, capacity |-> a.capacity + b.capacity,
               badDebt |-> a.badDebt + b.badDebt]
Minus(a, b) == [units |-> a.units - b.units, capacity |-> a.capacity - b.capacity,
                badDebt |-> a.badDebt - b.badDebt]

SumOf(f) == SumFunctionOnSet(f, Vault)
Total(positions) == [units |-> SumOf([v \in Vault |-> positions[v].units]),
                     capacity |-> SumOf([v \in Vault |-> positions[v].capacity]),
                     badDebt |-> SumOf([v \in Vault |-> positions[v].badDebt])]
HeldBy(p) == Total(p.vaults)

\* A parent as the fork leaves it: poolRep is vaultRepAtFork of an own fork and
\* auctionableRepAtFork of a foreign one, gameRep the backing of the children's
\* game; sameQuestion means that the fork decides the pool's own question.  Its
\* totals count what its vaults hold, what is left of an auction of its own for
\* winners who have not claimed, and what that auction left to nobody.  With a
\* game, a pool that still has collateral to raise holds more than one unit of
\* REP; the last share that is burned takes the rest of the collateral.
\* A parent may be a child of an earlier fork: that one may have decided its
\* question, and late are the shares of its supply that no holder has materialized
\* in it yet.  Of an outcome that lost no share was redeemed.  Bounds:
\* traders act on their shares, traded are the outcomes that change hands, prices
\* what the oracle of a child may report.
Pools ==
    [ownFork : BOOLEAN, hasGame : BOOLEAN, sameQuestion : BOOLEAN,
     poolRep : Nat, gameRep : Nat, collateral : Nat, shareSupply : Nat, price : Nat,
     totalUnits : Nat, totalCapacity : Nat, totalBadDebt : Nat,
     vaults : [Vault -> Amounts], unclaimed : [Vault -> Amounts], abandoned : Amounts,
     snapshot : Nat, badDebtAtFork : Nat, shares : Shares, late : Shares,
     decided : SUBSET Child,
     traders : SUBSET Vault, traded : SUBSET Child, prices : SUBSET Nat]

ASSUME ForkAssumption ==
    /\ IsFiniteSet(Vault) /\ IsFiniteSet(Child) /\ Auctioned \subseteq Child
    /\ {PRICE_PRECISION, BPS_DENOMINATOR, MAX_AUCTION_VAULT_HAIRCUT_DIVISOR} \subseteq Nat \ {0}
    /\ statoblastSecurityMultiplierBps \in Nat /\ statoblastSecurityMultiplierBps >= BPS_DENOMINATOR
    /\ Parents \subseteq Pools
    /\ \A p \in Parents :
         /\ p.ownFork => p.hasGame /\ p.sameQuestion
         /\ \A o, other \in p.decided : o = other
         /\ \A o \in Child :
              /\ SumOf(p.shares[o]) + SumOf(p.late[o]) >= p.shareSupply
              /\ p.decided = {} \/ o \in p.decided =>
                   SumOf(p.shares[o]) + SumOf(p.late[o]) = p.shareSupply
         /\ p.shareSupply = 0 => p.collateral = 0
         /\ ~p.hasGame => p.gameRep = 0
         /\ p.hasGame => p.poolRep # 1
         /\ Plus(Plus(HeldBy(p), Total(p.unclaimed)), p.abandoned)
              = [units |-> p.totalUnits, capacity |-> p.totalCapacity,
                 badDebt |-> p.totalBadDebt]

VARIABLES
    windowOpen,            \* MIGRATION_TIME since the fork has not passed
    parent,                \* the parent's storage
    forkData,              \* what the forker recorded of it
    children               \* [child]: its pool, its game and its auction

vars == <<windowOpen, parent, forkData, children, token>>

CeilDiv(a, b) == (a + b - 1) \div b

-----------------------------------------------------------------------------
(* A child before anybody creates it, and its creation                     *)

NoWinnings == [rep |-> 0, capacity |-> 0, badDebt |-> 0]
NoChild ==
    [state |-> "none", rep |-> 0, split |-> 0, game |-> 0, price |-> 0,
     vaults |-> [v \in Vault |-> Nothing], stale |-> {},
     totals |-> Nothing, feeEligible |-> 0, uncheckpointed |-> 0, accrued |-> FALSE,
     collateral |-> 0, received |-> 0, shareSupply |-> 0,
     migrated |-> 0, migratedTotals |-> Nothing,
     raise |-> 0, cap |-> 0, purchased |-> 0, ethRaised |-> 0,
     won |-> [v \in Vault |-> NoWinnings],
     rate |-> 0, unassigned |-> Nothing, claimedRep |-> 0,
     bought |-> [v \in Vault |-> 0], moved |-> [v \in Vault |-> 0]]

\* _getOrDeployChildPool: REP split for it before it existed is swept to it.
_getOrDeployChildPool(c) ==
    IF children[c].state # "none" THEN children[c]
    ELSE [children[c] EXCEPT !.state = "ForkMigration",
                             !.rep = children[c].split,
                             !.game = parent.gameRep,
                             !.price = parent.price,
                             !.totals.units = parent.poolRep]

\* REP is split for a child up to an amount, never twice, and swept to its pool.
_ensureChildPoolRepSplit(child, required) ==
    LET split == Max({child.split, required})
    IN  [child EXCEPT !.split = split,
                      !.rep = IF child.state = "none" THEN 0 ELSE @ + split - child.split]
\* Zoltar's credit, and for an own fork the forker's bucket, end at the pool's REP.
SplitAllowed(child) == child.split <= parent.poolRep

-----------------------------------------------------------------------------
(* Migration of a vault                                                    *)

\* Mutant: the units that moved earlier are forgotten.
MutForgetsEarlierUnits(child, v) ==
    LET all == child.migratedTotals
    IN  [units |-> all.units + parent.vaults[v].units,
         capacity |-> parent.vaults[v].capacity,
         badDebt |-> all.badDebt + parent.vaults[v].badDebt]

\* migratedRepBackingUnits, migratedCapacityOwnership and migratedBadDebt of a
\* child with one more vault.  Units of a pool without REP stand for nothing.
MigratedWith(child, v) ==
    Plus(child.migratedTotals,
         [parent.vaults[v] EXCEPT !.units = IF parent.poolRep = 0 THEN 0 ELSE @])

\* The REP a vault's units stand for; who completes the units takes the rest.
MigratedRep(child, v) ==
    LET units == parent.vaults[v].units
    IN  IF units = 0 \/ parent.poolRep = 0 \/ parent.totalUnits = 0 THEN 0
        ELSE IF MigratedWith(child, v).units = parent.totalUnits
             THEN parent.poolRep - child.migrated
        ELSE (units * parent.poolRep) \div parent.totalUnits

\* Mutant: each call rounds its own share of the collateral.
MutTransferPerCall(rep) ==
    LET allocated == forkData.allocated + rep
        amount == Min({CeilDiv(parent.snapshot * rep, parent.poolRep), parent.collateral})
    IN  IF rep = 0 \/ parent.poolRep = 0 \/ parent.snapshot = 0
        THEN [data |-> forkData, eth |-> 0]
        ELSE [data |-> [allocated |-> allocated, transferred |-> forkData.transferred + amount],
              eth |-> amount]

\* The collateral that follows rep: up to the rounded-up share of all REP that
\* has moved to any child.
_transferForkMigratedCollateralToChild(rep) ==
    LET allocated == forkData.allocated + rep
        target == CeilDiv(parent.snapshot * allocated, parent.poolRep)
        amount == Min({target - forkData.transferred, parent.collateral})
    IN  IF rep = 0 \/ parent.poolRep = 0 \/ parent.snapshot = 0
        THEN [data |-> forkData, eth |-> 0]
        ELSE [data |-> [allocated |-> allocated, transferred |-> forkData.transferred + amount],
              eth |-> amount]

MigrationAccepted(child, rep) ==
    /\ SplitAllowed(_ensureChildPoolRepSplit(child, child.migrated + rep))
    /\ _ensureChildPoolRepSplit(child, child.migrated + rep).rep >= child.migrated + rep
    /\ parent.snapshot > 0 => forkData.allocated + rep <= parent.poolRep

-----------------------------------------------------------------------------
(* The truth auction                                                       *)

_isAllRepMigrated(child) == child.migrated >= parent.poolRep

_computeSettlementCollateralToRaise(child) ==
    IF _isAllRepMigrated(child) THEN 0 ELSE Max({0, parent.snapshot - child.received})

\* Mutant: nothing is held back of a game that nobody's migration protects.
MutCapSellsTheGame(child) ==
    LET combined == parent.poolRep + child.game
        retained == CeilDiv(child.migrated, MAX_AUCTION_VAULT_HAIRCUT_DIVISOR)
    IN  Max({0, combined - CeilDiv(retained * combined, parent.poolRep)})

\* Mutant: the residue of the pool is kept of the combined inventory as it is.
MutCapReservesUnscaled(child) ==
    LET combined == parent.poolRep + child.game
        cap == Max({0, combined - CeilDiv(child.migrated, MAX_AUCTION_VAULT_HAIRCUT_DIVISOR)})
    IN  IF cap = combined /\ parent.hasGame THEN cap - 1 ELSE cap

\* What may be sold of pool and game together: all but a residue, scaled so that
\* the pool's part of it covers the migrated claims.
_getTruthAuctionCap(child) ==
    LET combined == parent.poolRep + child.game
        retained == CeilDiv(child.migrated, MAX_AUCTION_VAULT_HAIRCUT_DIVISOR)
        cap == Max({0, combined - CeilDiv(retained * combined, parent.poolRep)})
    IN  IF cap = combined /\ parent.hasGame THEN cap - 1 ELSE cap

\* What is taken from the game for the REP that was sold.
DisputeStakedRepSold(child) ==
    (child.purchased * child.game) \div Max({1, parent.poolRep + child.game})

_applyEscalationTruthAuctionHaircut(child) ==
    [child EXCEPT !.game = @ - DisputeStakedRepSold(child),
                  !.rep = @ + DisputeStakedRepSold(child)]

\* finalizeTruthAuctionRepair: the child opens with the collateral that came to
\* it, all capacity and bad debt of the parent, and what did not move unassigned.
finalizeTruthAuctionRepair(child) ==
    LET capacity == parent.totalCapacity - child.migratedTotals.capacity
    IN  [child EXCEPT !.state = "Operational",
                      !.collateral = child.received + child.ethRaised,
                      !.totals.capacity = parent.totalCapacity,
                      !.totals.badDebt = parent.badDebtAtFork,
                      !.feeEligible = child.migratedTotals.capacity
                                        + IF child.purchased = 0 THEN 0 ELSE capacity,
                      !.unassigned.capacity = capacity,
                      !.unassigned.badDebt =
                          parent.badDebtAtFork - child.migratedTotals.badDebt]

\* The child's units are REP one to one until now; the rate dilutes them by what
\* was sold.  sold: taken from the game, so in the pool by now.
_finalizeBackingUnitsAfterAuction(child, sold) ==
    LET before == parent.poolRep
        after == before + sold
        combined == before + child.game + sold
        incumbent == (before * (combined - child.purchased)) \div combined
        rate == IF incumbent = 0 THEN PRICE_PRECISION ELSE CeilDiv(after, incumbent)
        total == after * rate + IF incumbent = 0 THEN child.migrated ELSE 0
    IN  IF after = 0 \/ child.purchased = 0
        THEN [child EXCEPT !.unassigned.units = child.totals.units - child.migrated]
        ELSE [child EXCEPT !.totals.units = total,
                           !.rate = rate,
                           !.unassigned.units = total - child.migrated]

_finalizeTruthAuction(child) ==
    _finalizeBackingUnitsAfterAuction(
        finalizeTruthAuctionRepair(_applyEscalationTruthAuctionHaircut(child)),
        DisputeStakedRepSold(child))

\* _requireCapacityNotExceeded at the price of the child.
CapacitySuffices(child) ==
    LET capacity == IF child.price = 0 \/ parent.totalCapacity = 0 THEN 0
                    ELSE (((parent.totalCapacity * PRICE_PRECISION) \div child.price)
                            * BPS_DENOMINATOR) \div statoblastSecurityMultiplierBps
    IN  capacity >= child.received + child.ethRaised

\* The other conditions of a finalization.
FinalizationAccepted(child) ==
    /\ DisputeStakedRepSold(child) > 0 => DisputeStakedRepSold(child) < child.game
    /\ child.received + child.ethRaised <= parent.snapshot
    /\ child.migratedTotals.badDebt <= parent.badDebtAtFork
    /\ child.migratedTotals.capacity <= parent.totalCapacity
    /\ _finalizeTruthAuction(child).unassigned.units >= 0

\* What the auction may come to: it clears at its ETH cap, is underfunded and
\* sells its whole REP cap, or finds no bid at the reserve.
Outcomes(child) ==
    ({child.raise} \X (0 .. child.cap)) \cup ((1 .. child.raise) \X {child.cap}) \cup {<<0, 0>>}

\* What two winners get of a total, the first of them for eth of what was raised.
Slices(eth, raised, total) ==
    LET first == IF raised = 0 THEN 0 ELSE (eth * total) \div raised
    IN  <<first, IF raised = 0 THEN 0 ELSE total - first>>

\* The REP of the first of two winners: the price is known up to the rounding of
\* the REP it sold.
FirstRep(eth, child) ==
    IF eth = 0 THEN {0}
    ELSE ((eth * child.purchased) \div child.ethRaised)
            .. Min({child.purchased, (eth * (child.purchased + 1) - 1) \div child.ethRaised})

-----------------------------------------------------------------------------
(* The migration window                                                    *)

Init ==
    /\ windowOpen = TRUE
    /\ \E p \in Parents :
         /\ parent = [p EXCEPT !.snapshot = p.collateral, !.badDebtAtFork = p.totalBadDebt]
         /\ token = FreshToken(p.shares, p.late)
    /\ forkData = [allocated |-> 0, transferred |-> 0]
    /\ children = [c \in Child |-> NoChild]

createChildUniverse(c) ==
    /\ windowOpen
    /\ children[c].state = "none"
    /\ children' = [children EXCEPT ![c] = _getOrDeployChildPool(c)]
    /\ UNCHANGED <<windowOpen, parent, forkData, token>>

\* All REP of the pool is split for a child, which need not exist yet.
migrateRepToZoltar(c) ==
    /\ windowOpen
    /\ parent.poolRep > 0
    /\ children[c].state \in {"none", "ForkMigration"}
    /\ SplitAllowed(_ensureChildPoolRepSplit(children[c], parent.poolRep))
    /\ children' = [children EXCEPT ![c] = _ensureChildPoolRepSplit(@, parent.poolRep)]
    /\ UNCHANGED <<windowOpen, parent, forkData, token>>

migrateVault(v, c) ==
    LET child == _getOrDeployChildPool(c)
        rep == MigratedRep(child, v)
        backed == _ensureChildPoolRepSplit(child, child.migrated + rep)
        credit == [parent.vaults[v] EXCEPT !.units = rep]
        moved == _transferForkMigratedCollateralToChild(rep)
    IN  /\ windowOpen
        /\ MigrationAccepted(child, rep)
        /\ children' = [children EXCEPT ![c] =
                [backed EXCEPT !.vaults[v] = Plus(@, credit),
                               !.totals.badDebt = @ + credit.badDebt,
                               !.migrated = @ + rep,
                               !.migratedTotals = MigratedWith(child, v),
                               !.received = @ + moved.eth,
                               !.moved[v] = @ + rep]]
        /\ parent' = [parent EXCEPT !.vaults[v] = Nothing,
                                    !.totalBadDebt = @ - credit.badDebt,
                                    !.collateral = @ - moved.eth]
        /\ forkData' = moved.data
        /\ UNCHANGED <<windowOpen, token>>

\* What a vault won in the parent's own auction is credited to it after the fork.
ClaimInParent(v) ==
    /\ parent.unclaimed[v] # Nothing
    /\ parent' = [parent EXCEPT !.vaults[v] = Plus(@, parent.unclaimed[v]),
                                !.unclaimed[v] = Nothing]
    /\ UNCHANGED <<windowOpen, forkData, children, token>>

\* After an own fork, winning stakes leave the child's game for their owners.
claimForkedEscalationDeposits(c, rep) ==
    LET child == _getOrDeployChildPool(c)
    IN  /\ windowOpen
        /\ parent.ownFork
        /\ child.state = "ForkMigration"
        /\ rep <= child.game
        /\ children' = [children EXCEPT ![c] = [child EXCEPT !.game = @ - rep]]
        /\ UNCHANGED <<windowOpen, parent, forkData, token>>

MigrationEnds ==
    /\ windowOpen /\ token.call = {}
    /\ windowOpen' = FALSE
    /\ UNCHANGED <<parent, forkData, children, token>>

\* A child's coordinator reports whatever state the child is in.
openOracleCallback(c, price) ==
    /\ children[c].state # "none"
    /\ children[c].price # price
    /\ children' = [children EXCEPT ![c].price = price]
    /\ UNCHANGED <<windowOpen, parent, forkData, token>>

-----------------------------------------------------------------------------
(* The auction of a child, and what is done after it                       *)

\* _loadTruthAuctionState
AboutToAuction(c) ==
    [_ensureChildPoolRepSplit(children[c], parent.poolRep) EXCEPT
        !.state = "ForkTruthAuction",
        !.shareSupply = parent.shareSupply]

startTruthAuction(c) ==
    LET child == AboutToAuction(c)
        raise == _computeSettlementCollateralToRaise(child)
        cap == _getTruthAuctionCap(child)
    IN  /\ ~windowOpen
        /\ children[c].state = "ForkMigration"
        /\ SplitAllowed(child)
        /\ child.rep >= parent.poolRep
        /\ IF raise = 0
           THEN /\ FinalizationAccepted(child) /\ CapacitySuffices(child)
                /\ children' = [children EXCEPT ![c] = _finalizeTruthAuction(child)]
           ELSE /\ cap > 0
                /\ children' = [children EXCEPT ![c] =
                        [child EXCEPT !.raise = raise, !.cap = cap]]
        /\ UNCHANGED <<windowOpen, parent, forkData, token>>

\* outcome: ETH raised and REP sold.  Two winners, in the order of their bids,
\* share them, and with them the capacity and bad debt that did not migrate.
finalizeTruthAuction(c) ==
    \E outcome \in Outcomes(children[c]) :
      LET child == [children[c] EXCEPT !.ethRaised = outcome[1], !.purchased = outcome[2]]
          open == _finalizeTruthAuction(child)
      IN  /\ children[c].state = "ForkTruthAuction"
          /\ FinalizationAccepted(child) /\ CapacitySuffices(child)
          /\ \E v, w \in Vault, eth \in 0 .. child.ethRaised :
             \E rep \in FirstRep(eth, child) :
               LET capacity == Slices(eth, child.ethRaised, open.unassigned.capacity)
                   badDebt == Slices(eth, child.ethRaised, open.unassigned.badDebt)
               IN  /\ v # w
                   /\ children' = [children EXCEPT ![c] =
                         [open EXCEPT
                            !.won[v] = [rep |-> rep, capacity |-> capacity[1],
                                        badDebt |-> badDebt[1]],
                            !.won[w] = [rep |-> child.purchased - rep,
                                        capacity |-> capacity[2], badDebt |-> badDebt[2]]]]
          /\ UNCHANGED <<windowOpen, parent, forkData, token>>

\* updateSettlementCollateral, when it moves the fee index.
Accrue(c) ==
    /\ children[c].state = "Operational"
    /\ children[c].feeEligible > 0
    /\ children' = [children EXCEPT ![c].stale = Vault,
                                    ![c].uncheckpointed = children[c].feeEligible,
                                    ![c].accrued = TRUE]
    /\ UNCHANGED <<windowOpen, parent, forkData, token>>

\* updateVaultFees of the pool, without the fees.
Checkpointed(child, v) ==
    [child EXCEPT !.stale = @ \ {v},
                  !.uncheckpointed =
                      @ - IF v \in child.stale THEN child.vaults[v].capacity ELSE 0]

updateVaultFees(v, c) ==
    /\ children[c].state = "Operational"
    /\ v \in children[c].stale
    /\ Checkpointed(children[c], v).uncheckpointed >= 0
    /\ children' = [children EXCEPT ![c] = Checkpointed(@, v)]
    /\ UNCHANGED <<windowOpen, parent, forkData, token>>

\* _creditAuctionProceeds: what a vault won leaves the unassigned position.
WonBy(child, v) ==
    [units |-> child.won[v].rep * child.rate,
     capacity |-> child.won[v].capacity, badDebt |-> child.won[v].badDebt]

\* Mutant: the fee checkpoint comes after the credit.
MutCreditBeforeCheckpoint(child, v) ==
    LET position == WonBy(child, v)
        credited == [child EXCEPT !.vaults[v] = Plus(@, position),
                                  !.unassigned = Minus(@, position),
                                  !.claimedRep = @ + child.won[v].rep,
                                  !.uncheckpointed =
                                      @ - IF child.accrued THEN position.capacity ELSE 0]
    IN  Checkpointed(credited, v)

creditForkAuctionVault(child, v) ==
    LET position == WonBy(child, v)
    IN  [Checkpointed(child, v) EXCEPT
            !.vaults[v] = Plus(@, position),
            !.unassigned = Minus(@, position),
            !.claimedRep = @ + child.won[v].rep,
            !.uncheckpointed = @ - IF child.accrued THEN position.capacity ELSE 0]

ClaimAccepted(child, v) ==
    LET credited == creditForkAuctionVault(child, v)
    IN  /\ child.won[v].rep > 0 => child.rate > 0
        /\ (child.won[v].rep + child.claimedRep) * child.rate <= child.purchased * child.rate
        /\ credited.unassigned.capacity >= 0
        /\ credited.unassigned.badDebt >= 0
        /\ credited.uncheckpointed >= 0

claimAuctionProceeds(v, c) ==
    /\ children[c].state = "Operational"
    /\ children[c].won[v] # NoWinnings
    /\ ClaimAccepted(children[c], v)
    /\ children' = [children EXCEPT ![c] =
           [creditForkAuctionVault(children[c], v) EXCEPT
               !.won[v] = NoWinnings, !.bought[v] = @ + children[c].won[v].rep]]
    /\ UNCHANGED <<windowOpen, parent, forkData, token>>

\* The REP that a vault's units claim of the pool.
backingUnitsToAttoRep(child, units) ==
    IF child.totals.units = 0 THEN 0 ELSE (units * child.rep) \div child.totals.units

\* After the question's outcome is known in the child, a vault takes its REP out.
redeemRepFromVault(v, c) ==
    LET child == Checkpointed(children[c], v)
        units == child.vaults[v].units
        rep == backingUnitsToAttoRep(child, units)
    IN  /\ child.state = "Operational"
        /\ child.uncheckpointed >= 0
        /\ rep > 0
        /\ children' = [children EXCEPT ![c] =
               [child EXCEPT !.vaults[v].units = 0,
                             !.totals.units = @ - units,
                             !.rep = @ - rep,
                             !.bought[v] = 0,
                             !.moved[v] = 0]]
        /\ UNCHANGED <<windowOpen, parent, forkData, token>>

-----------------------------------------------------------------------------
(* Shares                                                                  *)

\* migrate of the token: to one child, created if the window allows it, or to
\* several that exist.
migrate(v, o, targets) ==
    /\ migrateShares(v, o, targets)
    /\ \/ /\ \A c \in targets : children[c].state # "none"
          /\ UNCHANGED children
       \/ \E c \in Child :
            /\ windowOpen
            /\ targets = {c} /\ children[c].state = "none"
            /\ children' = [children EXCEPT ![c] = _getOrDeployChildPool(c)]
    /\ UNCHANGED <<windowOpen, parent, forkData>>

OnlyToken(step) == step /\ UNCHANGED <<windowOpen, parent, forkData, children>>

\* What burns of a child's shares take out of its pool.
PaysOut(c, amount) ==
    LET supply == children[c].shareSupply
        eth == IF supply = 0 THEN 0 ELSE (amount * children[c].collateral) \div supply
    IN  /\ amount <= supply
        /\ children' = [children EXCEPT ![c].shareSupply = supply - amount,
                                        ![c].collateral = @ - eth]
        /\ UNCHANGED <<windowOpen, parent, forkData>>

\* getQuestionOutcome of an open child, if an outcome was fixed when it was made.
getQuestionOutcome(c) == IF parent.sameQuestion THEN {c} ELSE parent.decided

redeemShares(v, c) ==
    /\ children[c].state = "Operational"
    /\ \E o \in getQuestionOutcome(c) :
         /\ token.child[c][o][v] > 0
         /\ burnTokenIdAndGetRemainingSupply(c, o, v)
         /\ PaysOut(c, token.child[c][o][v])

redeemCompleteSet(v, c, amount) ==
    /\ children[c].state = "Operational"
    /\ burnCompleteSets(c, v, amount)
    /\ PaysOut(c, amount)

TradeShares(v) ==
    \/ \E o \in Child, targets \in SUBSET Child \ {{}} : migrate(v, o, targets)
    \/ \E o \in parent.traded, to \in Vault : \E amount \in 1 .. token.source[o][v] :
          OnlyToken(transferSource(o, v, to, amount))
    \/ \E o \in Child : \E amount \in 1 .. token.late[o][v] :
          OnlyToken(migrateIntoSource(v, o, amount))
    \/ \E o \in parent.traded, to \in Vault : \E amount \in 1 .. token.late[o][v] :
          OnlyToken(transferLate(o, v, to, amount))
    \/ \E c \in Auctioned, o \in parent.traded, to \in Vault : \E amount \in 1 .. token.child[c][o][v] :
          OnlyToken(transferChild(c, o, v, to, amount))
    \/ \E c \in Auctioned :
         \/ redeemShares(v, c)
         \/ \E amount \in 1 .. children[c].shareSupply : redeemCompleteSet(v, c, amount)

Next ==
    \/ MigrationEnds
    \/ OnlyToken(resumeMigration)
    \/ \E v \in parent.traders : TradeShares(v)
    \/ \E v \in Vault : ClaimInParent(v)
    \/ \E c \in Child :
         \/ createChildUniverse(c)
         \/ migrateRepToZoltar(c)
         \/ \E v \in Vault : migrateVault(v, c)
         \/ \E rep \in 1 .. children[c].game + parent.gameRep :
              claimForkedEscalationDeposits(c, rep)
    \/ \E c \in Auctioned :
         \/ \E price \in parent.prices : openOracleCallback(c, price)
         \/ startTruthAuction(c)
         \/ finalizeTruthAuction(c)
         \/ Accrue(c)
         \/ \E v \in Vault :
              \/ updateVaultFees(v, c)
              \/ claimAuctionProceeds(v, c)
              \/ redeemRepFromVault(v, c)

Spec == Init /\ [][Next]_vars

-----------------------------------------------------------------------------
(* Properties                                                              *)

Received == SumFunctionOnSet([c \in Child |-> children[c].received], Child)
Migrated == SumFunctionOnSet([c \in Child |-> children[c].migrated], Child)

\* The children together get what the parent had and no more, in any order of
\* calls: collateral leaves the parent only for a child, as the share of all REP
\* migrated so far rounded up once, and no child opens with more than the
\* snapshot (_transferForkMigratedCollateralToChild, finalizeTruthAuctionRepair).
CollateralConserved ==
    /\ parent.collateral >= 0
    /\ parent.collateral + Received = parent.snapshot
    /\ forkData.transferred = Received
    /\ Migrated <= parent.poolRep
    /\ parent.poolRep > 0 =>
         Received = CeilDiv(parent.snapshot * Migrated, parent.poolRep)
    /\ \A c \in Child : children[c].collateral <= parent.snapshot

\* Backing units, capacity and bad debt are each held by exactly one position: a
\* vault of the parent, a vault of a child, or the unassigned position that the
\* winners claim from, however often a vault migrates and whoever claims late
\* (configureForkMigratedVault, creditForkAuctionVault).
PositionsReconcile ==
    /\ HeldBy(parent).badDebt + Total(parent.unclaimed).badDebt + parent.abandoned.badDebt
         = parent.totalBadDebt
    /\ parent.badDebtAtFork = parent.totalBadDebt
         + SumFunctionOnSet([c \in Child |-> children[c].migratedTotals.badDebt], Child)
    /\ \A c \in Child : LET child == children[c] IN
         child.state # "Operational" =>
            HeldBy(child) = [child.migratedTotals EXCEPT !.units = child.migrated]
    /\ \A c \in Auctioned : LET child == children[c] IN
         child.state = "Operational" =>
            /\ Plus(HeldBy(child), child.unassigned) = child.totals
            /\ LET won == Total([v \in Vault |-> WonBy(child, v)])
               IN  /\ won.units <= child.unassigned.units
                   /\ child.ethRaised > 0 =>
                        /\ won.capacity = child.unassigned.capacity
                        /\ won.badDebt = child.unassigned.badDebt

\* Capacity that was sold earns fees from the finalization on, for whoever will
\* claim it, and each unit of it is checkpointed once per accrual (setPoolFinancials,
\* assignFinalizedAuctionFees).  An auction that takes ETH and sells no REP is not
\* covered: see the README.
SoldCapacityEarnsFees ==
    \A c \in Auctioned : LET child == children[c]
                              sold == child.purchased > 0
                          IN
        child.state = "Operational" /\ (sold \/ child.ethRaised = 0) =>
            /\ child.feeEligible = HeldBy(child).capacity
                                     + IF sold THEN child.unassigned.capacity ELSE 0
            /\ child.uncheckpointed =
                 SumFunctionOnSet([v \in Vault |-> child.vaults[v].capacity], child.stale)
                   + IF child.accrued /\ sold THEN child.unassigned.capacity ELSE 0

\* The pool of an opened child holds the REP that its auction sold, each buyer's
\* units are worth what he bought whoever redeems first, and the sale leaves
\* something for the vaults that migrated (_getTruthAuctionCap,
\* _finalizeBackingUnitsAfterAuction).
BackingHolds ==
    \A c \in Auctioned : LET child == children[c] IN
        child.state = "Operational" =>
            /\ child.rep >= SumOf([v \in Vault |-> child.bought[v] + child.won[v].rep])
                              + IF \E v \in Vault : child.moved[v] > 0 THEN 1 ELSE 0
            /\ \A v \in Vault :
                 backingUnitsToAttoRep(child, child.vaults[v].units) >= child.bought[v]

\* Whatever was called before, a migration within the window, an auction that is
\* due, its finalization at any outcome and the claim of any winner are refused by
\* none of their guards except the capacity at the oracle's price.
OnlyThePriceRefuses ==
    /\ windowOpen => \A v \in Vault, c \in Child :
         MigrationAccepted(_getOrDeployChildPool(c), MigratedRep(_getOrDeployChildPool(c), v))
    /\ \A c \in Auctioned : LET child == children[c] IN
         /\ ~windowOpen /\ child.state = "ForkMigration" =>
              LET next == AboutToAuction(c)
              IN  /\ next.rep >= parent.poolRep
                  /\ IF _computeSettlementCollateralToRaise(next) = 0
                     THEN FinalizationAccepted(next)
                     ELSE _getTruthAuctionCap(next) > 0
         /\ child.state = "ForkTruthAuction" => \A outcome \in Outcomes(child) :
              FinalizationAccepted([child EXCEPT !.ethRaised = outcome[1],
                                                 !.purchased = outcome[2]])
         /\ child.state = "Operational" /\ (child.purchased > 0 \/ child.ethRaised = 0) =>
              \A v \in Vault : /\ ClaimAccepted(child, v)
                               /\ Checkpointed(child, v).uncheckpointed >= 0

\* The outcomes a child may have to pay.  A fork on a question that an earlier one
\* has decided pays no shares in a child that decides it otherwise: see the README.
Owed(c) == {o \in Child : /\ parent.sameQuestion => o = c
                          /\ parent.decided # {} => o \in parent.decided}

\* Every child owes the same shares whoever materialized them, in which order, and
\* however they changed hands before and after: its supply, the divisor of what a
\* share is paid, counts the shares in it and those still to come, be it to the
\* child or, over generations, to its parent after the parent's own fork; a late
\* holder is never refused, and the last one leaves no collateral behind (FORK-10,
\* SHARE-04, SHARE-05: ShareToken.migrate, SecurityPool.redeemShares).
SharesCovered ==
    \A c \in Child : LET child == children[c] IN
      /\ \A o \in Child, v \in Vault : token.migrated[c][o][v] <= token.source[o][v]
      /\ child.state \in {"ForkTruthAuction", "Operational"} =>
           /\ \A o \in Child :
                /\ Claims(c, o) >= child.shareSupply
                /\ o \in Owed(c) => Claims(c, o) = child.shareSupply
           /\ child.shareSupply = 0 => child.collateral = 0
=============================================================================
