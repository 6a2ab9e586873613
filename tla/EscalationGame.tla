--------------------------- MODULE EscalationGame ---------------------------
(***************************************************************************)
(* One ordinary escalation game and the pool around it: staking REP on     *)
(* outcomes, resolution along the attrition curve, settlement of winners   *)
(* and losers, non-decision, and the two ways the pool leaves for a fork   *)
(* (its own, or one of its universe on another question) with the direct   *)
(* claims and exports that follow (EscalationGame*.sol, SecurityPool.sol,  *)
(* SecurityPoolForker.sol, EscalationGameForker.sol).                      *)
(*                                                                         *)
(* The clock is in the units of the curve.  Of the pool only what each     *)
(* vault may stake is kept; of the universe its fork time and threshold.   *)
(* An index array is a sequence of calls with one index each.  The carry   *)
(* tree is what it commits to: the deposits that are not consumed.         *)
(***************************************************************************)
EXTENDS AttritionCurve, Sequences, FiniteSets, FiniteSetsExt, Functions

CONSTANTS
    Vault,
    StartBond,
    NonDecisionThreshold,
    ActivationDelay,
    ForkThresholds,        \* values the universe's fork threshold takes, falling
    ForkBurnDivisor,
    MigrationTime,         \* how long after the pool's fork claims are open
    VaultRep,              \* REP a vault has in the pool
    Amount,                \* attoREP amounts callers ask to stake
    MaxDeposits,           \* bound: deposits in all
    MaxTime                \* bound: the clock stops here

EXCESS_REWARD_WINDOW_DIVISOR == 2
MINIMUM_FORK_BURN_DIVISOR == 5
Outcome == {"Invalid", "Yes", "No"}
Undecided == "None"

\* What the factory starts a game with, and getNonDecisionThresholdAttoRep.
ASSUME GameAssumption ==
    /\ {StartBond, NonDecisionThreshold, ActivationDelay, MaxTime} \subseteq Nat \ {0}
    /\ StartBond < NonDecisionThreshold
    /\ ForkThresholds \subseteq Nat /\ ForkThresholds # {}
    /\ \A f \in ForkThresholds : f <= 2 * NonDecisionThreshold
    /\ ForkBurnDivisor \in Nat /\ ForkBurnDivisor >= MINIMUM_FORK_BURN_DIVISOR
    /\ {MigrationTime, VaultRep, MaxDeposits} \subseteq Nat
    /\ Amount \subseteq Nat
    /\ IsFiniteSet(Vault)

VARIABLES
    now,
    activationTime,        \* 0: no game yet
    balance,               \* [outcome]: outcomeState.balanceAttoRep
    deposits,              \* [outcome]: the local deposits, in order
    consumed,              \* the <<outcome, index>> settled or claimed
    localUnresolved,       \* [outcome]: localUnresolvedTotalAttoRep
    escrow,                \* [vault]: REP disputes hold of the vault
    totalDisputeStaked,
    vaultUnresolved,       \* [vault]: unresolvedRepByVaultAttoRep
    totalLocalUnresolved,
    principal,             \* [vault][outcome]: localUnresolvedPrincipal...
    exported,              \* vaults whose totals were exported
    nonDecisionTimestamp,  \* 0: nonDecisionState is None
    gameRep,               \* REP the game contract holds
    vaultRep,              \* [vault]: REP backing in the pool
    poolForked,            \* systemState: PoolForked, else Operational
    forkTime,              \* of the universe; 0: not forked
    forkThreshold,         \* getForkThresholdAttoRep of the universe
    fork,                  \* what the forker recorded when the pool forked
    directPaid             \* [outcome]: REP the child's bucket paid to direct claims

clock == <<now, activationTime>>
stakes == <<balance, deposits, nonDecisionTimestamp>>
locals == <<localUnresolved, vaultUnresolved, totalLocalUnresolved, principal>>
escrows == <<escrow, totalDisputeStaked>>
universe == <<forkTime, forkThreshold>>
vars == <<clock, stakes, consumed, locals, escrows, exported, gameRep, vaultRep,
          poolForked, universe, fork, directPaid>>

NoFork == [own |-> FALSE, time |-> 0, bucket |-> 0, carry |-> [o \in Outcome |-> 0]]

DepositRecord == [depositor : Vault, amount : Nat, cumulative : Nat]

TypeOK ==
    /\ now \in 0 .. MaxTime /\ activationTime \in Nat
    /\ balance \in [Outcome -> 0 .. NonDecisionThreshold]
    /\ deposits \in [Outcome -> Seq(DepositRecord)]
    /\ consumed \subseteq UNION {{o} \X (1 .. Len(deposits[o])) : o \in Outcome}
    /\ localUnresolved \in [Outcome -> Nat]
    /\ escrow \in [Vault -> Nat] /\ totalDisputeStaked \in Nat
    /\ vaultUnresolved \in [Vault -> Nat] /\ totalLocalUnresolved \in Nat
    /\ principal \in [Vault -> [Outcome -> Nat]]
    /\ exported \subseteq Vault
    /\ nonDecisionTimestamp \in Nat
    /\ gameRep \in Nat /\ vaultRep \in [Vault -> Nat]
    /\ poolForked \in BOOLEAN
    /\ forkTime \in Nat /\ forkThreshold \in ForkThresholds
    /\ fork \in [own : BOOLEAN, time : Nat, bucket : Nat, carry : [Outcome -> Nat]]
    /\ directPaid \in [Outcome -> Nat]

Init ==
    /\ now = 1 /\ activationTime = 0
    /\ balance = [o \in Outcome |-> 0]
    /\ deposits = [o \in Outcome |-> <<>>]
    /\ consumed = {}
    /\ localUnresolved = [o \in Outcome |-> 0]
    /\ escrow = [v \in Vault |-> 0] /\ totalDisputeStaked = 0
    /\ vaultUnresolved = [v \in Vault |-> 0] /\ totalLocalUnresolved = 0
    /\ principal = [v \in Vault |-> [o \in Outcome |-> 0]]
    /\ exported = {}
    /\ nonDecisionTimestamp = 0
    /\ gameRep = 0 /\ vaultRep = [v \in Vault |-> VaultRep]
    /\ poolForked = FALSE
    /\ forkTime = 0 /\ forkThreshold = Max(ForkThresholds)
    /\ fork = NoFork
    /\ directPaid = [o \in Outcome |-> 0]

-----------------------------------------------------------------------------
(* Resolution.                                                             *)

deployed == activationTime # 0
nonDecision == nonDecisionTimestamp # 0

AttritionCost ==
    [t \in 0 .. ESCALATION_TIME_LENGTH |->
        computeIterativeAttritionCost(StartBond, NonDecisionThreshold, t)]
TimeOfCost ==
    [cost \in 0 .. NonDecisionThreshold |->
        computeTimeSinceStartFromAttritionCost(StartBond, NonDecisionThreshold, cost)]

\* What the game takes of the curve (AttritionCurve): costs are natural and never
\* fall with the age of the game, and a cost has an age.
ASSUME CurveRisesAssumption ==
    /\ \A t \in 0 .. ESCALATION_TIME_LENGTH : AttritionCost[t] \in Nat
    /\ \A t \in 1 .. ESCALATION_TIME_LENGTH : AttritionCost[t - 1] <= AttritionCost[t]
    /\ \A cost \in 0 .. NonDecisionThreshold : TimeOfCost[cost] \in Nat

countBalancesAtLeast(cost) == Cardinality({o \in Outcome : balance[o] >= cost})

hasReachedNonDecision == countBalancesAtLeast(NonDecisionThreshold) >= 2

\* The median of the three balances.
getBindingCapital ==
    CHOOSE m \in {balance[o] : o \in Outcome} :
        /\ countBalancesAtLeast(m) >= 2
        /\ Cardinality({o \in Outcome : balance[o] <= m}) >= 2

getEscalationGameEndDate ==
    IF nonDecision THEN nonDecisionTimestamp
    ELSE activationTime + TimeOfCost[getBindingCapital]

totalCost ==
    IF now <= activationTime THEN 0
    ELSE IF now - activationTime >= ESCALATION_TIME_LENGTH THEN NonDecisionThreshold
    ELSE AttritionCost[now - activationTime]

StrictLeaders == {o \in Outcome : \A p \in Outcome \ {o} : balance[o] > balance[p]}

\* Without any deposit Invalid wins; a tie at the top has no winner.
getQuestionResolution ==
    IF countBalancesAtLeast(totalCost) >= 2 THEN Undecided
    ELSE IF \A o \in Outcome : balance[o] = 0 THEN "Invalid"
    ELSE IF StrictLeaders # {} THEN CHOOSE o \in StrictLeaders : TRUE
    ELSE Undecided

getFinalQuestionResolution ==
    IF now <= getEscalationGameEndDate THEN Undecided ELSE getQuestionResolution

\* SecurityPoolForker.getQuestionOutcome for a pool without a fixed outcome.
getQuestionOutcome ==
    IF ~ poolForked /\ (forkTime = 0 \/ getEscalationGameEndDate < forkTime)
    THEN getFinalQuestionResolution ELSE Undecided

\* The clock runs once there is a game for it to matter to.
Tick ==
    /\ deployed /\ now < MaxTime
    /\ now' = now + 1
    /\ UNCHANGED <<activationTime, stakes, consumed, locals, escrows, exported, gameRep,
                   vaultRep, poolForked, universe, fork, directPaid>>

-----------------------------------------------------------------------------
(* Staking.                                                                *)

MaxBalance == Max({balance[o] : o \in Outcome})

\* The deposit would leave two outcomes tied at the top below the threshold.
MutTiesTheLead(o, newBalance) ==
    newBalance = MaxBalance /\ \E p \in Outcome \ {o} : balance[p] > MaxBalance
TiesTheLead(o, newBalance) ==
    /\ newBalance = MaxBalance
    /\ MaxBalance < NonDecisionThreshold
    /\ \E p \in Outcome \ {o} : balance[p] = MaxBalance

\* How much of a requested stake is taken: clipped to the room that is left,
\* and one less when the whole would tie the lead.
MutAcceptedKeepsTies(o, requested) == Min({requested, NonDecisionThreshold - balance[o]})
AcceptedAmount(o, requested) ==
    LET clipped == Min({requested, NonDecisionThreshold - balance[o]})
    IN IF TiesTheLead(o, balance[o] + clipped) THEN clipped - 1 ELSE clipped

\* A game deployed by this very call has cost 0 and is open.
MutOpenUntilNonDecision == ~ nonDecision
IsOpen == ~ nonDecision /\ (deployed => getQuestionResolution = Undecided)

PreviewAccepts(o, requested) ==
    /\ IsOpen
    /\ balance[o] < NonDecisionThreshold
    /\ requested >= StartBond
    /\ \/ AcceptedAmount(o, requested) >= StartBond
       \/ balance[o] + AcceptedAmount(o, requested) = NonDecisionThreshold

\* The checks of _validateAcceptedDeposit on the previewed amount.
RecordAccepts(o, amount) ==
    /\ IsOpen
    /\ balance[o] < NonDecisionThreshold
    /\ amount > 0
    /\ balance[o] + amount <= NonDecisionThreshold
    /\ amount >= StartBond \/ balance[o] + amount = NonDecisionThreshold
    /\ ~ TiesTheLead(o, balance[o] + amount)

\* SecurityPool.isOperational
isOperational == forkTime = 0 /\ ~ poolForked

\* The game's half of a stake: every ledger takes the amount.
recordDeposit(v, o, amount) ==
    LET total == balance[o] + amount
    IN /\ RecordAccepts(o, amount)
       /\ balance' = [balance EXCEPT ![o] = total]
       /\ deposits' = [deposits EXCEPT ![o] =
              Append(@, [depositor |-> v, amount |-> amount, cumulative |-> total])]
       /\ escrow' = [escrow EXCEPT ![v] = @ + amount]
       /\ totalDisputeStaked' = totalDisputeStaked + amount
       /\ vaultUnresolved' = [vaultUnresolved EXCEPT ![v] = @ + amount]
       /\ totalLocalUnresolved' = totalLocalUnresolved + amount
       /\ principal' = [principal EXCEPT ![v][o] = @ + amount]
       /\ localUnresolved' = [localUnresolved EXCEPT ![o] = @ + amount]
       /\ nonDecisionTimestamp' =
              IF hasReachedNonDecision' THEN now ELSE nonDecisionTimestamp

depositToEscalationGame(v, o, requested) ==
    LET amount == AcceptedAmount(o, requested)
    IN /\ isOperational
       /\ SumFunctionOnSet([p \in Outcome |-> Len(deposits[p])], Outcome) < MaxDeposits
       /\ PreviewAccepts(o, requested)
       /\ vaultRep[v] >= amount
       /\ activationTime' = IF deployed THEN activationTime ELSE now + ActivationDelay
       /\ vaultRep' = [vaultRep EXCEPT ![v] = @ - amount]
       /\ gameRep' = gameRep + amount
       /\ recordDeposit(v, o, amount)
       /\ UNCHANGED <<now, consumed, exported, poolForked, universe, fork, directPaid>>

-----------------------------------------------------------------------------
(* Settlement.                                                             *)

\* What REP of a winning stake pays and burns: stakes within one and a half
\* times the binding capital share three fifths of it as a bonus and two
\* fifths as the haircut, by position; the payout is scaled down when the
\* universe's fork threshold fell below the game's own.
BonusPayout(deposit, o) ==
    LET binding == getBindingCapital
        cap == binding + binding \div EXCESS_REWARD_WINDOW_DIVISOR
        sharing == Min({balance[o], cap})
        eligible == Max({0, Min({deposit.cumulative, cap})
                            - (deposit.cumulative - deposit.amount)})
    IN IF sharing = 0 THEN [paid |-> deposit.amount, burned |-> 0]
       ELSE [paid |-> deposit.amount + (eligible * ((binding * 3) \div 5)) \div sharing,
             burned |-> (eligible * ((binding * 2) \div 5)) \div sharing]

ActualForkThreshold ==
    IF forkTime > getEscalationGameEndDate THEN NonDecisionThreshold ELSE forkThreshold

MutPayoutOnTheWhole(o, i) ==
    LET amount == deposits[o][i].amount
    IN [paid |-> amount + (amount * 3) \div 5, burned |-> (amount * 2) \div 5]
_computeWinningWithdrawal(o, i) ==
    LET payout == BonusPayout(deposits[o][i], o)
    IN IF ActualForkThreshold < NonDecisionThreshold
       THEN [payout EXCEPT !.paid = (@ * ActualForkThreshold) \div NonDecisionThreshold]
       ELSE payout

\* Consuming a local deposit and the escrow its depositor had in it.
MutConsumeKeepsEscrow(o, i) ==
    /\ <<o, i>> \notin consumed
    /\ consumed' = consumed \cup {<<o, i>>}
    /\ UNCHANGED <<localUnresolved, vaultUnresolved, principal, totalLocalUnresolved, escrows>>
_consumeLocalDeposit(o, i) ==
    LET amount == deposits[o][i].amount
        v == deposits[o][i].depositor
    IN /\ <<o, i>> \notin consumed
       /\ vaultUnresolved[v] >= amount
       /\ principal[v][o] >= amount
       /\ escrow[v] >= amount
       /\ consumed' = consumed \cup {<<o, i>>}
       /\ localUnresolved' = [localUnresolved EXCEPT ![o] = @ - amount]
       /\ vaultUnresolved' = [vaultUnresolved EXCEPT ![v] = @ - amount]
       /\ principal' = [principal EXCEPT ![v][o] = @ - amount]
       /\ totalLocalUnresolved' = totalLocalUnresolved - amount
       /\ escrow' = [escrow EXCEPT ![v] = @ - amount]
       /\ totalDisputeStaked' = totalDisputeStaked - amount

\* A fork before the end of the game sends its deposits to migration.
MustMigrate ==
    forkTime > 0 /\ forkTime < getEscalationGameEndDate /\ ~ hasReachedNonDecision

\* The game's half of a withdrawal: a winner is paid and its haircut burned, a
\* loser's stake stays.
withdrawDeposit(o, i) ==
    LET payout == _computeWinningWithdrawal(o, i)
    IN /\ ~ nonDecision
       /\ getFinalQuestionResolution = getQuestionOutcome
       /\ _consumeLocalDeposit(o, i)
       /\ IF o = getFinalQuestionResolution
          THEN /\ gameRep >= payout.paid + payout.burned
               /\ gameRep' = gameRep - payout.paid - payout.burned
          ELSE UNCHANGED gameRep

withdrawFromEscalationGame(o, i) ==
    /\ deployed /\ ~ poolForked /\ ~ MustMigrate
    /\ getQuestionOutcome # Undecided
    /\ withdrawDeposit(o, i)
    /\ UNCHANGED <<clock, stakes, exported, vaultRep, poolForked, universe, fork, directPaid>>

sweepResidualRepToSecurityPool ==
    /\ deployed
    /\ getFinalQuestionResolution # Undecided
    /\ \A o \in Outcome : localUnresolved[o] = 0
    /\ totalDisputeStaked = 0
    /\ gameRep > 0
    /\ gameRep' = 0
    /\ UNCHANGED <<clock, stakes, consumed, locals, escrows, exported, vaultRep,
                   poolForked, universe, fork, directPaid>>

-----------------------------------------------------------------------------
(* Forks.                                                                  *)

\* REP is burned in the universe: its fork threshold falls.
UniverseBurns(threshold) ==
    /\ deployed /\ threshold < forkThreshold
    /\ forkThreshold' = threshold
    /\ UNCHANGED <<clock, stakes, consumed, locals, escrows, exported, gameRep, vaultRep,
                   poolForked, forkTime, fork, directPaid>>

\* Somebody forks the universe on another question.
UniverseForks(threshold) ==
    /\ deployed /\ forkTime = 0 /\ threshold <= forkThreshold
    /\ forkTime' = now
    /\ forkThreshold' = threshold
    /\ UNCHANGED <<clock, stakes, consumed, locals, escrows, exported, gameRep, vaultRep,
                   poolForked, fork, directPaid>>

\* At fork time the game had no result, or its end was not yet past.
_forkOccurredBeforeEscalationSettled ==
    \/ getQuestionResolution = Undecided
    \/ getEscalationGameEndDate >= forkTime

\* The pool leaves: its REP and the game's are drained towards the children.
LeavePool(own, bucket) ==
    /\ poolForked' = TRUE
    /\ gameRep' = 0
    /\ fork' = [own |-> own, time |-> now, bucket |-> bucket, carry |-> localUnresolved]
    /\ UNCHANGED <<clock, stakes, consumed, locals, escrows, exported, vaultRep, directPaid>>

initiateSecurityPoolFork ==
    /\ deployed /\ ~ poolForked
    /\ forkTime > 0
    /\ _forkOccurredBeforeEscalationSettled
    /\ LeavePool(FALSE, gameRep)
    /\ UNCHANGED universe

canTriggerOwnFork == nonDecision

\* The pool's own REP and the game's pay the fork threshold; the haircut comes
\* out of the game's part, the rest of it is what each child's game starts with.
forkHaircut == forkThreshold \div ForkBurnDivisor
OwnForkFunds == gameRep + SumFunctionOnSet(vaultRep, Vault) >= forkThreshold /\ gameRep >= forkHaircut

forkZoltarWithOwnEscalationGame(threshold) ==
    /\ deployed /\ ~ poolForked
    /\ canTriggerOwnFork
    /\ forkTime = 0 /\ threshold <= forkThreshold
    /\ OwnForkFunds
    /\ forkTime' = now
    /\ forkThreshold' = threshold
    /\ LeavePool(TRUE, gameRep - forkHaircut)

MigrationOpen == poolForked /\ now <= fork.time + MigrationTime

\* A depositor's winning stake on the child's own outcome, paid at once from
\* the child's bucket.
MayClaimDirectly == MigrationOpen /\ fork.own /\ canTriggerOwnFork

claimForkedEscalationDeposits(o, i) ==
    LET payout == _computeWinningWithdrawal(o, i)
    IN /\ MayClaimDirectly
       /\ _consumeLocalDeposit(o, i)
       /\ directPaid[o] + payout.paid <= fork.bucket
       /\ directPaid' = [directPaid EXCEPT ![o] = @ + payout.paid]
       /\ UNCHANGED <<clock, stakes, exported, gameRep, vaultRep, poolForked, universe, fork>>

\* The vault's totals leave with it, once; its deposits stay as proof material.
MutExportKeepsPrincipal(v) == exported' = exported \cup {v} /\ UNCHANGED <<locals, escrows>>
_exportVaultUnresolvedTotals(v) ==
    LET total == SumFunctionOnSet(principal[v], Outcome)
    IN /\ exported' = exported \cup {v}
       /\ principal' = [principal EXCEPT ![v] = [o \in Outcome |-> 0]]
       /\ vaultUnresolved[v] >= total /\ totalLocalUnresolved >= total
       /\ vaultUnresolved' = [vaultUnresolved EXCEPT ![v] = @ - total]
       /\ totalLocalUnresolved' = totalLocalUnresolved - total
       /\ escrow[v] >= total
       /\ escrow' = [escrow EXCEPT ![v] = @ - total]
       /\ totalDisputeStaked' = totalDisputeStaked - total
       /\ UNCHANGED localUnresolved

migrateVaultWithUnresolvedEscalation(v) ==
    /\ MigrationOpen
    /\ v \notin exported
    /\ _exportVaultUnresolvedTotals(v)
    /\ UNCHANGED <<clock, stakes, consumed, gameRep, vaultRep, poolForked, universe, fork,
                   directPaid>>

Next ==
    \/ Tick
    \/ \E v \in Vault, o \in Outcome, requested \in Amount :
           depositToEscalationGame(v, o, requested)
    \/ \E o \in Outcome : \E i \in DOMAIN deposits[o] : withdrawFromEscalationGame(o, i)
    \/ sweepResidualRepToSecurityPool
    \/ \E threshold \in ForkThresholds : UniverseBurns(threshold)
    \/ \E threshold \in ForkThresholds : UniverseForks(threshold)
    \/ initiateSecurityPoolFork
    \/ \E threshold \in ForkThresholds : forkZoltarWithOwnEscalationGame(threshold)
    \/ \E o \in Outcome : \E i \in DOMAIN deposits[o] : claimForkedEscalationDeposits(o, i)
    \/ \E v \in Vault : migrateVaultWithUnresolvedEscalation(v)

\* Time passes whatever the users do.
Spec == Init /\ [][Next]_vars /\ WF_vars(Tick)

-----------------------------------------------------------------------------
(* Properties.                                                             *)

Indices(o) == DOMAIN deposits[o]
Unconsumed(o) == {i \in Indices(o) : <<o, i>> \notin consumed}
Staked(o, I) == SumFunctionOnSet([i \in I |-> deposits[o][i].amount], I)
Of(v, o) == {i \in Indices(o) : deposits[o][i].depositor = v}

\* Four ledgers kept apart stay natural numbers and agree after any mixture of staking, settling,
\* claiming and exporting (ESC-01, ESC-02, ESC-03): per outcome with its open
\* deposits, per vault with the vault's, and both totals with their parts.
EscrowReconciles ==
    /\ TypeOK
    /\ \A o \in Outcome : localUnresolved[o] = Staked(o, Unconsumed(o))
    /\ \A v \in Vault, o \in Outcome : principal[v][o] =
           IF v \in exported THEN 0 ELSE Staked(o, Unconsumed(o) \cap Of(v, o))
    /\ \A v \in Vault : vaultUnresolved[v] = SumFunctionOnSet(principal[v], Outcome)
                        /\ escrow[v] = vaultUnresolved[v]
    /\ totalLocalUnresolved = SumFunctionOnSet(vaultUnresolved, Vault)
    /\ totalDisputeStaked = SumFunctionOnSet(escrow, Vault)

Owed(o, i) == _computeWinningWithdrawal(o, i).paid + _computeWinningWithdrawal(o, i).burned

\* Once the result is final the game holds what every winner still unpaid is
\* owed, the haircuts included, in whatever order winners and losers settle:
\* the losing side covers all bonuses (ESC-08), and no sweep takes it away.
WinnersFunded ==
    LET winner == getQuestionOutcome
    IN deployed /\ winner # Undecided =>
           gameRep >= SumFunctionOnSet([i \in Indices(winner) |-> Owed(winner, i)], Unconsumed(winner))

\* A stake the preview accepts is accepted by the record, which applies its own
\* copy of the rules after the REP has moved.
PreviewMatchesRecord ==
    \A o \in Outcome, requested \in Amount :
        PreviewAccepts(o, requested) => RecordAccepts(o, AcceptedAmount(o, requested))

\* A pool in non-decision can always pay for its own fork out of the game, and
\* keeps for every child what all of the parent's stakes on its outcome can
\* claim there (ESC-13 and the 80% rule in isForkCarryFundingComplete).
OwnForkFunded ==
    /\ nonDecision /\ ~ poolForked => gameRep >= forkThreshold
    /\ poolForked /\ fork.own =>
           \A o \in Outcome : directPaid[o] + SumFunctionOnSet(
               [i \in Indices(o) |-> _computeWinningWithdrawal(o, i).paid], Unconsumed(o))
                   <= fork.bucket

\* Whatever ends the game, its REP covers what it still has to pay.
ClaimsFunded == WinnersFunded /\ OwnForkFunded

\* What each vault takes along as totals and what it claims directly never adds
\* up to more than it staked: an exported vault has no claim left, in either
\* order of the two (ESC-05, ESC-06).
ExportedOnce ==
    [][\A v \in Vault :
          v \in exported => \A o \in Outcome : (consumed' \ consumed) \cap ({o} \X Of(v, o)) = {}]_vars

\* A final result stays: no later stake, burn or fork changes it, non-decision is
\* never left (ESC-09), and a game that paid anybody is never dragged into a fork
\* afterwards: nothing is both settled in the parent and part of what the children
\* inherit.
ResultIsTerminal ==
    [][/\ deployed /\ getFinalQuestionResolution # Undecided =>
              getFinalQuestionResolution' = getFinalQuestionResolution
       /\ nonDecision => nonDecisionTimestamp' = nonDecisionTimestamp
       /\ poolForked' /\ ~poolForked => consumed = {}]_vars

\* However stakes raise the median, a game ends: with a result or in
\* non-decision (no tie survives the curve).
EventuallyClosed == deployed ~> (nonDecision \/ getQuestionResolution # Undecided)
=============================================================================
