---------------------------- MODULE SecurityPool ----------------------------
(***************************************************************************)
(* A security pool of an unforked universe until a fork freezes it: vaults *)
(* that back it with REP, traders that mint and redeem complete sets of    *)
(* shares against its ETH, the fees that move from the collateral to the   *)
(* vaults, liquidation, and the way out through a fork (SecurityPool.sol,  *)
(* SecurityPoolUtils.sol, SecurityPoolLiquidationDelegate.sol and the      *)
(* parent's half of SecurityPoolForkerVaultMigrationBase.sol).             *)
(*                                                                         *)
(* What the handlers share are functions on the pool's storage, a record,  *)
(* and a handler is their composition.  The oracle coordinator is a price  *)
(* that is fresh or stale and the escalation game is the REP it holds of   *)
(* each vault: both have modules of their own to themselves.               *)
(***************************************************************************)
EXTENDS Integers, Sequences, FiniteSets, FiniteSetsExt, Functions

CONSTANTS
    Vault, Trader, Child,
    PRICE_PRECISION, BPS_DENOMINATOR, LIQUIDATION_REP_BONUS_BPS,
    MAX_RETENTION_RATE, MIN_RETENTION_RATE, RETENTION_RATE_DIP,
    statoblastSecurityMultiplierBps,
    minimumVaultRepDeposit, minimumSecurityBondDebt,
    QuestionEnd,
    Prices,                \* REP per ETH, scaled, the oracle may report
    RepSupply,             \* [vault]: REP its owner starts with
    RepAmount, EthAmount, ShareAmount, HealthFactor, \* what callers ask for
    MIGRATION_TIME,        \* how long vaults may leave a forked pool
    MaxTime,               \* bound: the clock stops here
    MaxCollateral          \* bound: no mint beyond it

ASSUME PoolAssumption ==
    /\ IsFiniteSet(Vault) /\ IsFiniteSet(Trader) /\ IsFiniteSet(Child)
    /\ {PRICE_PRECISION, BPS_DENOMINATOR} \subseteq Nat \ {0}
    /\ {MAX_RETENTION_RATE, MIN_RETENTION_RATE, RETENTION_RATE_DIP} \subseteq 1..PRICE_PRECISION
    /\ MIN_RETENTION_RATE <= MAX_RETENTION_RATE
    /\ {LIQUIDATION_REP_BONUS_BPS, minimumVaultRepDeposit, QuestionEnd,
        MIGRATION_TIME, MaxTime, MaxCollateral} \subseteq Nat
    /\ RepSupply \in [Vault -> Nat]
    /\ minimumSecurityBondDebt \in Nat \ {0}
    /\ statoblastSecurityMultiplierBps \in Nat
    /\ statoblastSecurityMultiplierBps >= BPS_DENOMINATOR
    /\ Prices \subseteq Nat \ {0}
    /\ RepAmount \cup EthAmount \cup ShareAmount \subseteq Nat \ {0}
    /\ HealthFactor \subseteq Nat

VARIABLES
    now, forkTime,         \* 0: the universe has not forked
    price, priceValid,     \* lastPrice and isPriceValid of the coordinator
    game,                  \* "none", "open" or "resolved"
    systemState,           \* "Operational" or "PoolForked"
    pool,                  \* the storage of the pool
    poolRep,               \* REP it holds
    wallet,                \* [vault]: REP of its owner
    staked,                \* [vault]: disputeStakedRepByVaultAttoRep
    shares,                \* [trader]: complete sets held
    ethBalance,
    fork                   \* what the forker recorded of the pool

vars == <<now, forkTime, price, priceValid, game, systemState, pool, poolRep, wallet,
          staked, shares, ethBalance, fork>>
world == <<now, forkTime, price, priceValid, game, systemState>>

CeilDiv(a, b) == (a + b - 1) \div b
SumOf(f) == SumFunctionOnSet(f, Vault)
Later(a, b) == IF a > b THEN a - b ELSE 0

-----------------------------------------------------------------------------
(* Fees                                                                    *)

\* _rpow: square and multiply, each product rounded down.  An argument is the
\* result so far, the power of the base and the exponent left.
rpowLoop[a \in (0..PRICE_PRECISION) \X (0..PRICE_PRECISION) \X (0..MaxTime)] ==
    LET square == (a[2] * a[2]) \div PRICE_PRECISION
        result == IF a[3] % 2 = 1 THEN (a[1] * square) \div PRICE_PRECISION ELSE a[1]
    IN  IF a[3] = 0 THEN a[1] ELSE rpowLoop[<<result, square, a[3] \div 2>>]
_rpow(x, n) == rpowLoop[<<IF n % 2 = 1 THEN x ELSE PRICE_PRECISION, x, n \div 2>>]

feeEndDate == IF forkTime = 0 THEN QuestionEnd ELSE forkTime

\* Mutant: the whole decay leaves the collateral, not what is credited of it.
MutAccrueTakesTheDecay(s, scaled) ==
    LET indexDelta == scaled \div s.feeEligible
        owed == indexDelta * s.feeEligible + s.owedRemainder
    IN  [s EXCEPT !.feeIndex = @ + indexDelta,
                  !.indexRemainder = scaled % s.feeEligible,
                  !.owedRemainder = owed % PRICE_PRECISION,
                  !.uncheckpointed = IF indexDelta > 0 THEN s.feeEligible ELSE @,
                  !.unallocated = @ + owed \div PRICE_PRECISION,
                  !.collateral = @ - scaled \div PRICE_PRECISION]

\* scaled: the decay of the collateral and what the last accrual left of it.
Accrue(s, scaled) ==
    LET indexDelta == scaled \div s.feeEligible
        owed == indexDelta * s.feeEligible + s.owedRemainder
        credited == owed \div PRICE_PRECISION
    IN  [s EXCEPT !.feeIndex = @ + indexDelta,
                  !.indexRemainder = scaled % s.feeEligible,
                  !.owedRemainder = owed % PRICE_PRECISION,
                  !.uncheckpointed = IF indexDelta > 0 THEN s.feeEligible ELSE @,
                  !.unallocated = @ + credited,
                  !.collateral = @ - credited]
calculateFeeAccrual(s, delta) ==
    LET kept == (s.collateral * _rpow(s.retentionRate, delta)) \div PRICE_PRECISION
    IN  Accrue(s, (s.collateral - kept) * PRICE_PRECISION + s.indexRemainder)

updateSettlementCollateral(s) ==
    LET until == Min({now, feeEndDate})
        accrued == IF s.feeEligible = 0 THEN [s EXCEPT !.indexRemainder = 0]
                   ELSE calculateFeeAccrual(s, until - s.lastUpdated)
    IN  IF until <= s.lastUpdated THEN s ELSE [accrued EXCEPT !.lastUpdated = until]

\* The credit is taken off the collateral in checked arithmetic: when it is more
\* than the collateral, the handler that began with the accrual reverts.
AccrualIsPaid == updateSettlementCollateral(pool).collateral >= 0

getCurrentMintingCapacity(s) ==
    IF price = 0 \/ s.totalCapacity = 0 THEN 0
    ELSE (((s.totalCapacity * PRICE_PRECISION) \div price) * BPS_DENOMINATOR)
           \div statoblastSecurityMultiplierBps

calculateRetentionRate(collateral, capacity) ==
    LET utilization == (collateral * PRICE_PRECISION) \div capacity
        ratio == (utilization * PRICE_PRECISION) \div RETENTION_RATE_DIP
    IN  IF capacity = 0 THEN MAX_RETENTION_RATE
        ELSE IF utilization > RETENTION_RATE_DIP THEN MIN_RETENTION_RATE
        ELSE MAX_RETENTION_RATE
               - ((MAX_RETENTION_RATE - MIN_RETENTION_RATE) * ratio) \div PRICE_PRECISION

SetRetentionRate(s) ==
    [s EXCEPT !.retentionRate =
        calculateRetentionRate(s.collateral, getCurrentMintingCapacity(s))]
updateRetentionRate(s) ==
    IF systemState # "Operational" THEN s
    ELSE SetRetentionRate(updateSettlementCollateral(s))

\* Of a vault: what its checkpoint would assign now, and the carry it leaves.
VaultFeeNumerator(s, v) ==
    s.vaults[v].capacity * (s.feeIndex - s.vaults[v].feeIndex) + s.vaults[v].remainder

_releaseUnassignableFeeReserveIfComplete(s) ==
    IF s.uncheckpointed # 0 \/ systemState # "PoolForked" THEN s
    ELSE [s EXCEPT !.collateral = @ + s.unallocated, !.unallocated = 0]

AssignVaultFees(s, v) ==
    LET fees == VaultFeeNumerator(s, v) \div PRICE_PRECISION
        stale == s.vaults[v].feeIndex # s.feeIndex
    IN  [s EXCEPT !.vaults[v].remainder = VaultFeeNumerator(s, v) % PRICE_PRECISION,
                  !.vaults[v].feeIndex = s.feeIndex,
                  !.vaults[v].claimable = @ + fees,
                  !.uncheckpointed = IF stale THEN @ - s.vaults[v].capacity ELSE @,
                  !.unallocated = @ - fees,
                  !.totalClaimable = @ + fees]

\* Mutant: the bookkeeping of a checkpoint runs only when it assigns fees.
MutCheckpointOnlyPayingVaults(s, v) ==
    IF VaultFeeNumerator(s, v) < PRICE_PRECISION
    THEN [s EXCEPT !.vaults[v].feeIndex = s.feeIndex,
                   !.vaults[v].remainder = VaultFeeNumerator(s, v)]
    ELSE AssignVaultFees(s, v)

CheckpointVault(s, v) ==
    IF s.uncheckpointed # 0 THEN AssignVaultFees(s, v)
    ELSE _releaseUnassignableFeeReserveIfComplete(AssignVaultFees(s, v))
updateVaultFees(s, v) == CheckpointVault(updateSettlementCollateral(s), v)

-----------------------------------------------------------------------------
(* REP backing, open interest and health                                   *)

attoRepToBackingUnits(s, rep) ==
    IF s.totalUnits = 0 \/ poolRep = 0 THEN rep * PRICE_PRECISION
    ELSE (rep * s.totalUnits) \div poolRep

\* Mutant: units are rounded down both ways.
MutUnitsRoundDown(s, rep) == attoRepToBackingUnits(s, rep)

_attoRepToBackingUnitsRoundUp(s, rep) ==
    IF s.totalUnits = 0 \/ poolRep = 0 THEN rep * PRICE_PRECISION
    ELSE CeilDiv(rep * s.totalUnits, poolRep)

\* backingUnitsToAttoRep when the pool holds rep.
UnitsToRep(s, rep, units) ==
    IF s.totalUnits = 0 THEN 0 ELSE (units * rep) \div s.totalUnits

OpenInterestOf(s, v, capacity) ==
    IF s.totalCapacity = 0 \/ capacity = 0 THEN 0
    ELSE Later(CeilDiv(s.collateral * capacity, s.totalCapacity), s.vaults[v].badDebt)
getVaultOpenInterest(s, v) == OpenInterestOf(s, v, s.vaults[v].capacity)
_getActiveOpenInterest(s) == Later(s.collateral, s.totalBadDebt)

migrationSecurityMultiplierBps ==
    Max({BPS_DENOMINATOR + (statoblastSecurityMultiplierBps - BPS_DENOMINATOR) \div 2,
         BPS_DENOMINATOR + LIQUIDATION_REP_BONUS_BPS})

isVaultHealthyAtFactor(held, disputed, openInterest, factor) ==
    LET base == CeilDiv(openInterest * price, PRICE_PRECISION)
        scaled(rep, bps) == CeilDiv(rep * bps, BPS_DENOMINATOR)
    IN  /\ factor >= BPS_DENOMINATOR
        /\ openInterest > 0 =>
             /\ held + disputed >= scaled(scaled(base, statoblastSecurityMultiplierBps), factor)
             /\ held >= scaled(scaled(base, migrationSecurityMultiplierBps), factor)

isVaultHealthy(held, disputed, openInterest) ==
    isVaultHealthyAtFactor(held, disputed, openInterest, BPS_DENOMINATOR)

setVaultCapacity(s, v, capacity) ==
    LET change == capacity - s.vaults[v].capacity
    IN  [s EXCEPT !.indexRemainder = 0,
                  !.totalCapacity = @ + change,
                  !.feeEligible = @ + change,
                  !.vaults[v].capacity = capacity]

-----------------------------------------------------------------------------
(* The world around the pool                                               *)

NewVault == [units |-> 0, capacity |-> 0, claimable |-> 0, feeIndex |-> 0,
             remainder |-> 0, badDebt |-> 0]

Init ==
    /\ now = 0 /\ forkTime = 0 /\ price = 0 /\ priceValid = FALSE
    /\ game = "none" /\ systemState = "Operational"
    /\ pool = [vaults |-> [v \in Vault |-> NewVault],
               totalUnits |-> 0, totalCapacity |-> 0, feeEligible |-> 0,
               uncheckpointed |-> 0, collateral |-> 0, shareSupply |-> 0,
               totalClaimable |-> 0, unallocated |-> 0, feeIndex |-> 0,
               indexRemainder |-> 0, owedRemainder |-> 0, lastUpdated |-> 0,
               retentionRate |-> MAX_RETENTION_RATE, totalBadDebt |-> 0]
    /\ poolRep = 0 /\ ethBalance = 0
    /\ wallet = RepSupply
    /\ staked = [v \in Vault |-> 0]
    /\ shares = [t \in Trader |-> 0]
    /\ fork = [activated |-> 0, rep |-> 0, collateral |-> 0, allocated |-> 0, transferred |-> 0,
               units |-> [c \in Child |-> 0], migrated |-> [c \in Child |-> 0]]

assets == <<pool, poolRep, wallet, staked, shares, ethBalance, fork>>

Tick ==
    /\ now < MaxTime
    /\ now' = now + 1
    /\ UNCHANGED <<forkTime, price, priceValid, game, systemState, assets>>

OracleReports(p) ==
    /\ price' = p /\ priceValid' = TRUE
    /\ UNCHANGED <<now, forkTime, game, systemState, assets>>

PriceGoesStale ==
    /\ priceValid
    /\ priceValid' = FALSE
    /\ UNCHANGED <<now, forkTime, price, game, systemState, assets>>

\* The escalation game ends with a winner.
QuestionResolves ==
    /\ game = "open" /\ forkTime = 0
    /\ game' = "resolved"
    /\ UNCHANGED <<now, forkTime, price, priceValid, systemState, assets>>

UniverseForks ==
    /\ forkTime = 0 /\ now > 0
    /\ forkTime' = now
    /\ UNCHANGED <<now, price, priceValid, game, systemState, assets>>

isOperational == forkTime = 0 /\ systemState = "Operational"
QuestionOutcomeKnown == game = "resolved" /\ systemState = "Operational"

-----------------------------------------------------------------------------
(* Vaults                                                                  *)

\* ERC20.transfer of REP straight to the pool's address.
transferRepToPool(v, rep) ==
    /\ rep <= wallet[v]
    /\ wallet' = [wallet EXCEPT ![v] = @ - rep]
    /\ poolRep' = poolRep + rep
    /\ UNCHANGED <<world, pool, staked, shares, ethBalance, fork>>

depositRepToVault(v, rep, targetHealthFactor) ==
    \E s \in {updateVaultFees(pool, v)} :
    LET units == attoRepToBackingUnits(s, rep)
        d == [s EXCEPT !.vaults[v].units = @ + units, !.totalUnits = @ + units]
        added == (rep * BPS_DENOMINATOR) \div targetHealthFactor
    IN  /\ isOperational /\ game # "resolved" /\ AccrualIsPaid
        /\ targetHealthFactor >= BPS_DENOMINATOR
        /\ rep <= wallet[v]
        /\ UnitsToRep(d, poolRep + rep, d.vaults[v].units) >= minimumVaultRepDeposit
        /\ pool' = updateRetentionRate(setVaultCapacity(d, v, d.vaults[v].capacity + added))
        /\ poolRep' = poolRep + rep
        /\ wallet' = [wallet EXCEPT ![v] = @ - rep]
        /\ UNCHANGED <<world, staked, shares, ethBalance, fork>>

\* The units a withdrawal takes: all of them when less than the minimum is left.
WithdrawnUnits(s, v, rep) ==
    LET asked == attoRepToBackingUnits(s, rep)
    IN  IF asked + attoRepToBackingUnits(s, minimumVaultRepDeposit) > s.vaults[v].units
        THEN s.vaults[v].units ELSE asked

withdrawRepFromVault(v, rep) ==
    \E s \in {updateVaultFees(pool, v)} :
    LET units == WithdrawnUnits(s, v, rep)
        out == UnitsToRep(s, poolRep, units)
        backing == UnitsToRep(s, poolRep, s.vaults[v].units)
        w == [s EXCEPT !.vaults[v].units = @ - units, !.totalUnits = @ - units]
        capacity == (s.vaults[v].capacity * (backing - out)) \div backing
        after == updateRetentionRate(setVaultCapacity(w, v, capacity))
    IN  /\ isOperational /\ priceValid /\ game # "resolved" /\ AccrualIsPaid
        /\ staked[v] = 0
        /\ backing > 0
        /\ isVaultHealthy(backing - out, 0, getVaultOpenInterest(after, v))
        /\ isVaultHealthy(poolRep - out, SumOf(staked),
                          _getActiveOpenInterest(after))
        /\ pool' = after
        /\ poolRep' = poolRep - out
        /\ wallet' = [wallet EXCEPT ![v] = @ + out]
        /\ UNCHANGED <<world, staked, shares, ethBalance, fork>>

\* Leaving for the game takes units rounded up; what stays is converted at the
\* rate after the transfer.
depositToEscalationGame(v, rep) ==
    LET units == _attoRepToBackingUnitsRoundUp(pool, rep)
        after == [pool EXCEPT !.vaults[v].units = @ - units, !.totalUnits = @ - units]
        remaining == UnitsToRep(after, poolRep - rep, after.vaults[v].units)
    IN  /\ isOperational
        /\ game = "open" \/ (game = "none" /\ now > QuestionEnd)
        /\ pool.totalCapacity > 0 => priceValid
        /\ UnitsToRep(pool, poolRep, pool.vaults[v].units) >= rep
        /\ isVaultHealthy(remaining, staked[v] + rep, getVaultOpenInterest(pool, v))
        /\ isVaultHealthy(poolRep - rep, SumOf(staked) + rep,
                          _getActiveOpenInterest(pool))
        /\ remaining >= minimumVaultRepDeposit \/ after.vaults[v].units = 0
        /\ game' = "open"
        /\ pool' = after
        /\ poolRep' = poolRep - rep
        /\ staked' = [staked EXCEPT ![v] = @ + rep]
        /\ UNCHANGED <<now, forkTime, price, priceValid, systemState, wallet, shares,
                       ethBalance, fork>>

redeemRepFromVault(v) ==
    \E s \in {updateVaultFees(pool, v)} :
    LET rep == UnitsToRep(s, poolRep, s.vaults[v].units)
    IN  /\ QuestionOutcomeKnown /\ AccrualIsPaid
        /\ staked[v] = 0
        /\ rep > 0
        /\ pool' = [s EXCEPT !.vaults[v].units = 0,
                             !.totalUnits = @ - s.vaults[v].units]
        /\ poolRep' = poolRep - rep
        /\ wallet' = [wallet EXCEPT ![v] = @ + rep]
        /\ UNCHANGED <<world, staked, shares, ethBalance, fork>>

redeemFees(v) ==
    \E s \in {updateVaultFees(pool, v)} :
    /\ AccrualIsPaid
    /\ pool' = [s EXCEPT !.vaults[v].claimable = 0,
                         !.totalClaimable = @ - s.vaults[v].claimable]
    /\ ethBalance' = ethBalance - s.vaults[v].claimable
    /\ UNCHANGED <<world, poolRep, wallet, staked, shares, fork>>

-----------------------------------------------------------------------------
(* Liquidation                                                             *)

\* calculateLiquidationBackingUnitsAward: 5% over the debt's worth in REP.
LiquidationAward(s, debt) ==
    LET rep == CeilDiv(debt * price * (BPS_DENOMINATOR + LIQUIDATION_REP_BONUS_BPS),
                       PRICE_PRECISION * BPS_DENOMINATOR)
    IN  _attoRepToBackingUnitsRoundUp(s, rep)

NothingToMove == [debt |-> 0, capacity |-> 0, units |-> 0, funded |-> TRUE]

\* The debt of the target t its REP can pay the award for, and what goes with it.
calculateBundledLiquidationTransfer(s, t, requested, remaining) ==
    LET openInterest == getVaultOpenInterest(s, t)
        reserved == IF remaining = 0 THEN 0 ELSE _attoRepToBackingUnitsRoundUp(s, remaining)
        spare == s.vaults[t].units - reserved
        most == (UnitsToRep(s, poolRep, spare) * PRICE_PRECISION * BPS_DENOMINATOR)
                  \div (price * (BPS_DENOMINATOR + LIQUIDATION_REP_BONUS_BPS))
        debt == Min({requested, openInterest, most})
        capacity == IF debt = openInterest THEN s.vaults[t].capacity
                    ELSE (s.vaults[t].capacity * debt) \div openInterest
    IN  IF openInterest = 0 \/ spare <= 0 THEN NothingToMove
        ELSE IF debt = 0 \/ capacity = 0 THEN NothingToMove
        ELSE [debt |-> debt, capacity |-> capacity, units |-> LiquidationAward(s, debt),
              funded |-> LiquidationAward(s, debt) <= spare]

\* Debt that comes to the receiver r with the capacity.
DebtTaken(s, r, capacity) ==
    OpenInterestOf(s, r, s.vaults[r].capacity + capacity) - getVaultOpenInterest(s, r)

\* A full request writes off what does not reach the receiver.
WrittenOff(s, t, requested, debt) ==
    IF requested >= getVaultOpenInterest(s, t) THEN getVaultOpenInterest(s, t) - debt ELSE 0

\* The storage after capacity and the award for debt went from the target t to r.
Liquidated(s, r, t, capacity, debt, written) ==
    LET units == LiquidationAward(s, debt)
        lost == [s EXCEPT !.indexRemainder = 0,
                          !.totalBadDebt = @ + written,
                          !.vaults[t].badDebt = @ + written,
                          !.vaults[t].capacity = @ - capacity,
                          !.vaults[t].units = @ - units]
    IN  IF debt = 0 THEN lost
        ELSE [lost EXCEPT !.vaults[r].capacity = @ + capacity,
                          !.vaults[r].units = @ + units]

\* Both vaults are worth keeping, and the receiver is healthy.
BothSidesStand(after, r, t, factor) ==
    LET backing(v) == UnitsToRep(after, poolRep, after.vaults[v].units)
        left == getVaultOpenInterest(after, t)
    IN  /\ getVaultOpenInterest(after, r) >= minimumSecurityBondDebt
        /\ isVaultHealthyAtFactor(backing(r), staked[r],
                                  getVaultOpenInterest(after, r), factor)
        /\ left = 0 \/ (left >= minimumSecurityBondDebt
                        /\ backing(t) >= minimumVaultRepDeposit)
        /\ backing(r) >= minimumVaultRepDeposit

\* performLiquidation on a snapshot that still holds: debt of the target t goes
\* to the receiver r, and on a full request the rest is written off.
performLiquidation(r, t, requested, factor) ==
    \E s \in {updateVaultFees(updateVaultFees(pool, t), r)} :
    \E quote \in {calculateBundledLiquidationTransfer(s, t, requested,
                     IF requested >= getVaultOpenInterest(s, t) THEN 0
                     ELSE minimumVaultRepDeposit)} :
    \E debt \in {DebtTaken(s, r, quote.capacity)} :
    \E after \in {Liquidated(s, r, t, quote.capacity, debt, WrittenOff(s, t, requested, debt))} :
        /\ isOperational /\ priceValid /\ game # "resolved" /\ AccrualIsPaid
        /\ r # t
        /\ ~isVaultHealthy(UnitsToRep(s, poolRep, s.vaults[t].units), staked[t],
                           getVaultOpenInterest(s, t))
        /\ quote.funded
        /\ 0 <= debt /\ debt <= quote.debt
        /\ ~(quote.debt # 0 /\ debt = 0)
        /\ LiquidationAward(s, debt) <= quote.units
        /\ debt > 0 \/ WrittenOff(s, t, requested, debt) > 0
        /\ debt > 0 => BothSidesStand(after, r, t, factor)
        /\ pool' = after
        /\ UNCHANGED <<world, poolRep, wallet, staked, shares, ethBalance, fork>>

-----------------------------------------------------------------------------
(* Complete sets                                                           *)

attoSharesToAttoEth(s, n) ==
    IF n = 0 \/ s.shareSupply = 0 THEN 0 ELSE (n * s.collateral) \div s.shareSupply

\* Undefined while shares stand on no collateral, or collateral on no shares.
ExchangeRateDefined(s) == (s.shareSupply = 0) = (s.collateral = 0)
\* Mutant: a mint rounds the shares up.
MutSharesRoundUp(s, eth) ==
    IF s.shareSupply = 0 THEN eth * PRICE_PRECISION
    ELSE CeilDiv(eth * s.shareSupply, s.collateral)

attoEthToAttoShares(s, eth) ==
    IF s.shareSupply = 0 THEN eth * PRICE_PRECISION
    ELSE (eth * s.shareSupply) \div s.collateral

createCompleteSet(t, eth) ==
    \E s \in {updateSettlementCollateral(pool)} :
    LET minted == attoEthToAttoShares(s, eth)
    IN  /\ isOperational /\ game # "resolved" /\ priceValid /\ AccrualIsPaid
        /\ s.collateral + eth <= MaxCollateral
        /\ ExchangeRateDefined(s)
        /\ minted > 0
        /\ getCurrentMintingCapacity(s) >= s.collateral + eth
        /\ pool' = updateRetentionRate([s EXCEPT !.shareSupply = @ + minted,
                                                 !.collateral = @ + eth])
        /\ shares' = [shares EXCEPT ![t] = @ + minted]
        /\ ethBalance' = ethBalance + eth
        /\ UNCHANGED <<world, poolRep, wallet, staked, fork>>

\* n of the trader's shares leave with their part of the collateral.
SharesBurned(s, n) ==
    [s EXCEPT !.shareSupply = @ - n, !.collateral = @ - attoSharesToAttoEth(s, n)]

PayShares(t, s, n) ==
    /\ n <= shares[t]
    /\ shares' = [shares EXCEPT ![t] = @ - n]
    /\ ethBalance' = ethBalance - attoSharesToAttoEth(s, n)
    /\ UNCHANGED <<world, poolRep, wallet, staked, fork>>

redeemCompleteSet(t, n) ==
    \E s \in {updateSettlementCollateral(pool)} :
    /\ isOperational /\ AccrualIsPaid
    /\ PayShares(t, s, n)
    /\ pool' = updateRetentionRate(SharesBurned(s, n))

\* Of a complete set only the winning share is left to pay.
redeemShares(t) ==
    \E s \in {updateSettlementCollateral(pool)} :
    /\ QuestionOutcomeKnown /\ AccrualIsPaid
    /\ PayShares(t, s, shares[t])
    /\ pool' = SharesBurned(s, shares[t])

\* The game pays the vault's stake back: EscalationGame says what on top of it.
withdrawFromEscalationGame(v) ==
    /\ QuestionOutcomeKnown
    /\ staked[v] > 0
    /\ staked' = [staked EXCEPT ![v] = 0]
    /\ wallet' = [wallet EXCEPT ![v] = @ + staked[v]]
    /\ UNCHANGED <<world, pool, poolRep, shares, ethBalance, fork>>

\* Anyone may bring the accounts up to date.
Checkpoint ==
    /\ AccrualIsPaid
    /\ \/ pool' = updateSettlementCollateral(pool)
       \/ pool' = updateRetentionRate(pool)
       \/ \E v \in Vault : pool' = updateVaultFees(pool, v)
    /\ UNCHANGED <<world, poolRep, wallet, staked, shares, ethBalance, fork>>

-----------------------------------------------------------------------------
(* The way out through a fork                                              *)

\* initiateSecurityPoolFork and activateForkMode, of a pool whose own question
\* did not fork the universe: its REP is locked and its collateral recorded.
initiateSecurityPoolFork ==
    \E s \in {updateSettlementCollateral(pool)} :
    /\ forkTime > 0 /\ systemState = "Operational" /\ game # "resolved" /\ AccrualIsPaid
    /\ systemState' = "PoolForked"
    /\ pool' = s
    /\ poolRep' = 0
    /\ fork' = [fork EXCEPT !.activated = now, !.rep = poolRep,
                            !.collateral = s.collateral]
    /\ UNCHANGED <<now, forkTime, price, priceValid, game, wallet, staked, shares,
                   ethBalance>>

\* REP of the vault in the child c; the last vault of a child takes the rest.
MigratedRep(s, v, c) ==
    LET units == s.vaults[v].units
    IN  IF s.totalUnits = 0 \/ fork.rep = 0 \/ units = 0 THEN 0
        ELSE IF fork.units[c] + units = s.totalUnits THEN fork.rep - fork.migrated[c]
        ELSE (units * fork.rep) \div s.totalUnits

\* Mutant: each vault's part is rounded up, whatever went before it.
MutCollateralPerVault(s, rep) ==
    IF rep = 0 \/ fork.collateral = 0 THEN 0
    ELSE CeilDiv(fork.collateral * rep, fork.rep)

\* Collateral that follows rep of REP to a child.
CollateralToTransfer(s, rep) ==
    IF rep = 0 \/ fork.collateral = 0 THEN 0
    ELSE Min({CeilDiv(fork.collateral * (fork.allocated + rep), fork.rep) - fork.transferred,
              s.collateral})

\* transferEth pays nothing out of what the vaults are owed.
Transferable(s, eth) ==
    /\ s.totalClaimable + s.unallocated <= ethBalance
    /\ eth <= ethBalance - (s.totalClaimable + s.unallocated)
    /\ eth <= s.collateral

migrateVault(v, c) ==
    \E s \in {updateVaultFees(pool, v)} :
    LET rep == MigratedRep(s, v, c)
        eth == CollateralToTransfer(s, rep)
        moves == rep > 0 /\ fork.collateral > 0
    IN  /\ systemState = "PoolForked" /\ AccrualIsPaid
        /\ now <= fork.activated + MIGRATION_TIME
        /\ moves => fork.allocated + rep <= fork.rep
        /\ eth > 0 => Transferable(s, eth)
        /\ pool' = [s EXCEPT !.collateral = @ - eth,
                             !.indexRemainder = IF s.vaults[v].capacity # 0 THEN 0 ELSE @,
                             !.totalBadDebt = @ - s.vaults[v].badDebt,
                             !.vaults[v].units = 0,
                             !.vaults[v].capacity = 0,
                             !.vaults[v].badDebt = 0]
        /\ ethBalance' = ethBalance - eth
        /\ fork' = [fork EXCEPT !.units[c] = @ + s.vaults[v].units,
                                !.migrated[c] = @ + rep,
                                !.allocated = IF moves THEN @ + rep ELSE @,
                                !.transferred = @ + eth]
        /\ UNCHANGED <<world, poolRep, wallet, staked, shares>>

-----------------------------------------------------------------------------

Next ==
    \/ Tick
    \/ \E p \in Prices : OracleReports(p)
    \/ PriceGoesStale
    \/ QuestionResolves
    \/ UniverseForks
    \/ \E v \in Vault, rep \in RepAmount :
         \/ transferRepToPool(v, rep)
         \/ \E h \in HealthFactor : depositRepToVault(v, rep, h)
         \/ withdrawRepFromVault(v, rep)
         \/ depositToEscalationGame(v, rep)
    \/ \E v \in Vault : redeemRepFromVault(v) \/ redeemFees(v) \/ withdrawFromEscalationGame(v)
    \/ \E r, t \in Vault, debt \in EthAmount, h \in HealthFactor :
         performLiquidation(r, t, debt, h)
    \/ \E t \in Trader :
         \/ \E eth \in EthAmount : createCompleteSet(t, eth)
         \/ \E n \in ShareAmount : redeemCompleteSet(t, n)
         \/ redeemShares(t)
    \/ Checkpoint
    \/ initiateSecurityPoolFork
    \/ \E v \in Vault, c \in Child : migrateVault(v, c)

Spec == Init /\ [][Next]_vars

-----------------------------------------------------------------------------
(* Properties                                                              *)

\* Types: no balance, total or liability is ever driven below zero, where the
\* subtraction in the code would revert and lock whoever called it.
TypeOK ==
    /\ {now, forkTime, price, poolRep, ethBalance} \subseteq Nat
    /\ priceValid \in BOOLEAN
    /\ game \in {"none", "open", "resolved"}
    /\ systemState \in {"Operational", "PoolForked"}
    /\ wallet \in [Vault -> Nat] /\ staked \in [Vault -> Nat] /\ shares \in [Trader -> Nat]
    /\ \A v \in Vault : \A k \in DOMAIN pool.vaults[v] : pool.vaults[v][k] \in Nat
    /\ \A k \in DOMAIN pool \ {"vaults"} : pool[k] \in Nat
    /\ \A k \in DOMAIN fork \ {"units", "migrated"} : fork[k] \in Nat
    /\ fork.units \in [Child -> Nat] /\ fork.migrated \in [Child -> Nat]

\* The totals the pool keeps beside its vaults agree with them, through every
\* deposit, withdrawal, liquidation and checkpoint; a fork leaves them as it
\* found them, except the fees, the bad debt and the checkpoints outstanding.
PoolTotals ==
    LET stale == [v \in Vault |-> IF pool.vaults[v].feeIndex # pool.feeIndex
                                  THEN pool.vaults[v].capacity ELSE 0]
    IN  /\ TypeOK
        /\ pool.totalClaimable = SumOf([v \in Vault |-> pool.vaults[v].claimable])
        /\ pool.totalBadDebt = SumOf([v \in Vault |-> pool.vaults[v].badDebt])
        /\ pool.uncheckpointed = SumOf(stale)
        /\ pool.totalCapacity = pool.feeEligible
        /\ systemState = "Operational" =>
             /\ pool.totalCapacity = SumOf([v \in Vault |-> pool.vaults[v].capacity])
             /\ pool.totalUnits = SumOf([v \in Vault |-> pool.vaults[v].units])

\* The reserve of accrued fees is, to the last carried fraction, what the vaults'
\* checkpoints have still to assign; a forked pool gives back only what no
\* checkpoint can assign any more.
FeesFunded ==
    LET due == SumOf([v \in Vault |-> VaultFeeNumerator(pool, v)])
    IN  \/ PRICE_PRECISION * pool.unallocated + pool.owedRemainder = due
        \/ /\ systemState = "PoolForked"
           /\ pool.unallocated = 0
           /\ \A v \in Vault : VaultFeeNumerator(pool, v) < PRICE_PRECISION

\* Every wei the pool holds is collateral, a vault's fee or an accrued fee still
\* unassigned, and none is two of them.
EthSolvent == ethBalance = pool.collateral + pool.totalClaimable + pool.unallocated

\* The ETH is there, and the part of it kept for fees is what the fees come to.
PoolSolvent == FeesFunded /\ EthSolvent

\* No vault can be kept from leaving a forked pool: its collateral is there and
\* the REP allocated stays within what the pool had, whatever children the
\* others chose and in whatever order.
MigrationNeverRefused ==
    systemState = "PoolForked" =>
      \A v \in Vault, c \in Child : \E s \in {updateVaultFees(pool, v)} :
        LET rep == MigratedRep(s, v, c)
        IN  /\ fork.allocated + rep <= fork.rep \/ fork.collateral = 0
            /\ Transferable(s, CollateralToTransfer(s, rep))

\* Minting and redeeming complete sets never leaves less collateral behind each
\* outstanding share than the fees alone would have.
SetsNeverDiluted ==
    [][ shares' # shares =>
          LET accrued == updateSettlementCollateral(pool)
          IN  pool'.collateral * accrued.shareSupply >= accrued.collateral * pool'.shareSupply ]_vars

\* REP a vault could claim of the pool, or of its children once it forked.
ClaimOf(v) ==
    UnitsToRep(pool, IF systemState = "PoolForked" THEN fork.rep ELSE poolRep,
               pool.vaults[v].units)

\* Only the vault whose units fall (its owner takes REP out, stakes it or
\* migrates, or it is liquidated) loses any claim: no deposit, withdrawal, stake
\* or liquidation of others, and no fork, rounds anything out of the rest.
VaultsNeverDiluted ==
    [][ \A v \in Vault :
          pool'.vaults[v].units >= pool.vaults[v].units => ClaimOf(v)' >= ClaimOf(v) ]_vars

\* The comment at SecurityPool.sol:306: what a carry has left undistributed the
\* collateral retains, so that crediting it never takes more than there is.
UndistributedValueRetained == AccrualIsPaid
=============================================================================
