------------------------------- MODULE Zoltar -------------------------------
(***************************************************************************)
(* The universe registry (Zoltar.sol) together with the reputation token   *)
(* of each universe (ReputationToken.sol, and the externally deployed      *)
(* genesis REP): forking a universe, burning REP, and carrying burned REP  *)
(* of a forked parent into its child universes.                            *)
(*                                                                         *)
(* A universe identifier is the genesis or the pair <<parent, outcome>>    *)
(* standing for the truncated hash of the two, so the record's fields      *)
(* parentUniverseId and forkingOutcomeIndex are read off the identifier.   *)
(* Mappings are total functions with Solidity's zero defaults.  A call     *)
(* that reverts is a call that is not enabled.  Fork times are kept only   *)
(* as "has forked".                                                        *)
(***************************************************************************)
EXTENDS Integers, FiniteSets, Functions

CONSTANTS
    Genesis,               \* the universe with identifier 0
    UniverseId,            \* the universes in scope: bounds the fork depth
    Outcome,               \* outcome indexes callers may pass
    Question,              \* question identifiers
    WellFormed,            \* the well-formed answers of each question
    Account,               \* REP holders, the burn address included
    BurnAddress,           \* where genesis REP is sent to be burned
    MaxAttoRep,            \* MAX_ATTO_REP, the most a REP token may represent
    GenesisSupply,         \* theoretical supply the genesis token reports
    GenesisBalance,        \* what each account holds of genesis REP
    ForkThresholdDivisor,
    ForkBurnDivisor,
    Amount,                \* the attoREP amounts callers may pass
    MaxCopies              \* how often one outcome is repeated in one split

NoQuestion == "none"
MINIMUM_FORK_BURN_DIVISOR == 5
Holder == Account \ {BurnAddress}

ASSUME UniverseAssumption ==
    /\ Genesis \in UniverseId
    /\ \A u \in UniverseId, o \in Outcome : Genesis # <<u, o>>
ASSUME QuestionAssumption ==
    /\ NoQuestion \notin Question
    /\ WellFormed \in [Question -> SUBSET Outcome]
\* The constructor's requirements, and what it relies on: the genesis token
\* reports at least what its holders own.
ASSUME ConstructorAssumption ==
    /\ ForkThresholdDivisor \in Nat /\ ForkThresholdDivisor > 1
    /\ ForkBurnDivisor \in Nat /\ ForkBurnDivisor >= MINIMUM_FORK_BURN_DIVISOR
    /\ MaxAttoRep \in Nat
    /\ GenesisSupply \in Nat \ {0} /\ GenesisSupply <= MaxAttoRep
    /\ GenesisBalance \in [Account -> Nat]
    /\ IsFiniteSet(Account) /\ BurnAddress \in Account
    /\ SumFunctionOnSet(GenesisBalance, Holder) <= GenesisSupply
ASSUME InputAssumption == Amount \subseteq Nat /\ MaxCopies \in Nat

VARIABLES
    universes,             \* the record of each universe
    universeSupply,        \* universeTheoreticalSupplies
    childSupplySnapshot,   \* childUniverseTheoreticalSupplySnapshotsAttoRep
    migrationBalance,      \* [account][parent]: migrationRepBalanceAttoRep
    childMigrated,         \* [account][child]: childMigrationRepAmountsAttoRep
    balance,               \* [universe][account]: REP balances
    tokenSupply,           \* ERC-20 totalSupply of each REP token
    tokenMax,              \* totalTheoreticalSupplyAttoRep of each REP token
    questionStatus         \* ZoltarQuestionData: is the question there, has it ended

registry == <<universes, universeSupply, childSupplySnapshot>>
migration == <<migrationBalance, childMigrated>>
tokens == <<balance, tokenSupply, tokenMax>>
vars == <<registry, migration, tokens, questionStatus>>

UniverseRecord ==
    [deployed : BOOLEAN, forked : BOOLEAN, forkQuestion : Question \cup {NoQuestion}]

TypeOK ==
    /\ universes \in [UniverseId -> UniverseRecord]
    /\ universeSupply \in [UniverseId -> Nat]
    /\ childSupplySnapshot \in [UniverseId -> Nat]
    /\ migrationBalance \in [Account -> [UniverseId -> Nat]]
    /\ childMigrated \in [Account -> [UniverseId -> Nat]]
    /\ balance \in [UniverseId -> [Account -> Nat]]
    /\ tokenSupply \in [UniverseId -> Int]   \* ERC20._update subtracts unchecked
    /\ tokenMax \in [UniverseId -> Nat]
    /\ questionStatus \in [Question -> {"missing", "open", "ended"}]

Init ==
    /\ universes = [u \in UniverseId |->
           [deployed |-> u = Genesis, forked |-> FALSE, forkQuestion |-> NoQuestion]]
    /\ universeSupply = [u \in UniverseId |-> IF u = Genesis THEN GenesisSupply ELSE 0]
    /\ childSupplySnapshot = [u \in UniverseId |-> 0]
    /\ migrationBalance = [a \in Account |-> [u \in UniverseId |-> 0]]
    /\ childMigrated = [a \in Account |-> [u \in UniverseId |-> 0]]
    /\ balance = [u \in UniverseId |-> IF u = Genesis THEN GenesisBalance
                                                     ELSE [a \in Account |-> 0]]
    /\ tokenSupply = [u \in UniverseId |-> IF u = Genesis THEN GenesisSupply ELSE 0]
    /\ tokenMax = [u \in UniverseId |-> IF u = Genesis THEN GenesisSupply ELSE 0]
    /\ questionStatus = [q \in Question |-> "missing"]

-----------------------------------------------------------------------------
(* Questions.  A question may be created with an end time already past.    *)

createQuestion(q, status) ==
    /\ questionStatus[q] = "missing"
    /\ status \in {"open", "ended"}
    /\ questionStatus' = [questionStatus EXCEPT ![q] = status]
    /\ UNCHANGED <<registry, migration, tokens>>

\* The clock reaches the question's end time.
QuestionEnds(q) ==
    /\ questionStatus[q] = "open"
    /\ questionStatus' = [questionStatus EXCEPT ![q] = "ended"]
    /\ UNCHANGED <<registry, migration, tokens>>

-----------------------------------------------------------------------------
(* The REP tokens.                                                         *)

transfer(u, from, to, amount) ==
    /\ universes[u].deployed
    /\ balance[u][from] >= amount
    /\ from # to
    /\ balance' = [balance EXCEPT ![u][from] = @ - amount, ![u][to] = @ + amount]
    /\ UNCHANGED <<tokenSupply, tokenMax, registry, migration, questionStatus>>

\* Mutant: a child token keeps its theoretical supply.
MutBurnKeepsMax(u, account, amount) ==
    /\ balance[u][account] >= amount
    /\ balance' = [balance EXCEPT ![u][account] = @ - amount]
    /\ tokenSupply' = [tokenSupply EXCEPT ![u] = @ - amount]
    /\ UNCHANGED tokenMax

\* Genesis REP cannot be burned and is sent to the burn address instead; a
\* child token gives up supply and theoretical supply.
_burnRep(u, account, amount) ==
    /\ balance[u][account] >= amount
    /\ IF u = Genesis
       THEN /\ balance' = [balance EXCEPT
                  ![u] = [b \in Account |->
                      balance[u][b] - (IF b = account THEN amount ELSE 0)
                                    + (IF b = BurnAddress THEN amount ELSE 0)]]
            /\ UNCHANGED <<tokenSupply, tokenMax>>
       ELSE /\ tokenMax[u] >= amount
            /\ balance' = [balance EXCEPT ![u][account] = @ - amount]
            /\ tokenSupply' = [tokenSupply EXCEPT ![u] = @ - amount]
            /\ tokenMax' = [tokenMax EXCEPT ![u] = @ - amount]

-----------------------------------------------------------------------------
(* Forking.                                                                *)

getForkThreshold(u) == universeSupply[u] \div ForkThresholdDivisor

\* The part of the threshold the initiator is credited with for migration.
InitiatorCredit(u) == getForkThreshold(u) - getForkThreshold(u) \div ForkBurnDivisor

\* The ceiling of every child: the haircut is gone, all other REP may follow.
MutChildCeilingNoCredit(u) == universeSupply[u] - getForkThreshold(u)
ChildCeiling(u) == universeSupply[u] - getForkThreshold(u) + InitiatorCredit(u)

MutMayForkAgain(u, q) == universes[u].deployed /\ questionStatus[q] = "ended"
MayFork(u, q) ==
    /\ universes[u].deployed
    /\ universeSupply[u] # 0
    /\ ~ universes[u].forked
    /\ questionStatus[q] = "ended"

forkUniverse(account, u, q) ==
    /\ MayFork(u, q)
    /\ universes' = [universes EXCEPT ![u].forked = TRUE, ![u].forkQuestion = q]
    /\ _burnRep(u, account, getForkThreshold(u))
    /\ universeSupply' = [universeSupply EXCEPT ![u] = @ - getForkThreshold(u)]
    /\ childSupplySnapshot' = [childSupplySnapshot EXCEPT ![u] = ChildCeiling(u)]
    /\ migrationBalance' = [migrationBalance EXCEPT ![account][u] = InitiatorCredit(u)]
    /\ UNCHANGED <<childMigrated, questionStatus>>

burnRep(account, u, amount) ==
    /\ amount > 0
    /\ universes[u].deployed
    /\ universeSupply[u] >= amount
    /\ _burnRep(u, account, amount)
    /\ universeSupply' = [universeSupply EXCEPT ![u] = @ - amount]
    /\ UNCHANGED <<universes, childSupplySnapshot, migration, questionStatus>>

-----------------------------------------------------------------------------
(* Children and migration.                                                 *)

getChildUniverseId(u, o) == <<u, o>>

isMalformedAnswerOption(q, o) == o \notin WellFormed[q]

\* The children of u that a call naming these outcomes brings into being.
FreshChildren(u, outcomes) ==
    {c \in UniverseId : /\ \E o \in outcomes : c = getChildUniverseId(u, o)
                        /\ ~ universes[c].deployed}

\* What ReputationToken.mint compares the new total supply with.
MintCap(u, c) == IF universes[c].deployed THEN tokenMax[c] ELSE childSupplySnapshot[u]

\* What deployChild writes for each of them.
DeployChildren(u, fresh) ==
    /\ fresh # {} => childSupplySnapshot[u] <= MaxAttoRep
    /\ universes' = [c \in UniverseId |->
           IF c \in fresh
           THEN [deployed |-> TRUE, forked |-> FALSE, forkQuestion |-> universes[u].forkQuestion]
           ELSE universes[c]]
    /\ universeSupply' = [c \in UniverseId |->
           IF c \in fresh THEN childSupplySnapshot[u] ELSE universeSupply[c]]
    /\ tokenMax' = [c \in UniverseId |->
           IF c \in fresh THEN childSupplySnapshot[u] ELSE tokenMax[c]]
    /\ UNCHANGED childSupplySnapshot

deployChild(u, o) ==
    /\ universes[u].forked
    /\ ~ isMalformedAnswerOption(universes[u].forkQuestion, o)
    /\ getChildUniverseId(u, o) \in UniverseId
    /\ ~ universes[getChildUniverseId(u, o)].deployed
    /\ DeployChildren(u, {getChildUniverseId(u, o)})
    /\ UNCHANGED <<migration, balance, tokenSupply, questionStatus>>

addRepToMigrationBalance(account, u, amount) ==
    /\ universes[u].forked
    /\ universeSupply[u] >= amount
    /\ _burnRep(u, account, amount)
    /\ universeSupply' = [universeSupply EXCEPT ![u] = @ - amount]
    /\ migrationBalance' = [migrationBalance EXCEPT ![account][u] = @ + amount]
    /\ UNCHANGED <<universes, childSupplySnapshot, childMigrated, questionStatus>>

\* An account's claims in one child may add up to its whole balance.
MutCoversLatest(account, u, c, amount) == amount <= migrationBalance[account][u]
CreditCovers(account, u, c, amount) ==
    childMigrated[account][c] + amount <= migrationBalance[account][u]

\* What a split of amount mints in each universe.  The outcome array enters
\* through how often it names each outcome: the iterations of the loop touch
\* one child each and a failing one reverts all, so their order does not show.
Split(u, amount, copies) ==
    [c \in UniverseId |->
        IF \E o \in Outcome : copies[o] > 0 /\ c = getChildUniverseId(u, o)
        THEN amount * copies[c[2]] ELSE 0]

splitMigrationRep(account, u, amount, copies) ==
    LET named == {o \in Outcome : copies[o] > 0}
        split == Split(u, amount, copies)
    IN /\ universes[u].forked
       /\ \A o \in named : LET child == getChildUniverseId(u, o) IN
             /\ ~ isMalformedAnswerOption(universes[u].forkQuestion, o)
             /\ child \in UniverseId
             /\ CreditCovers(account, u, child, split[child])
             /\ tokenSupply[child] + split[child] <= MintCap(u, child)
       /\ DeployChildren(u, FreshChildren(u, named))
       /\ childMigrated' = [childMigrated EXCEPT
              ![account] = [c \in UniverseId |-> childMigrated[account][c] + split[c]]]
       /\ tokenSupply' = [c \in UniverseId |-> tokenSupply[c] + split[c]]
       /\ balance' = [c \in UniverseId |-> [balance[c] EXCEPT ![account] = @ + split[c]]]
       /\ UNCHANGED <<migrationBalance, questionStatus>>

Next ==
    \/ \E q \in Question, status \in {"open", "ended"} : createQuestion(q, status)
    \/ \E q \in Question : QuestionEnds(q)
    \/ \E u \in UniverseId, from, to \in Holder, amount \in Amount :
           transfer(u, from, to, amount)
    \/ \E account \in Holder, u \in UniverseId, q \in Question : forkUniverse(account, u, q)
    \/ \E account \in Holder, u \in UniverseId, amount \in Amount : burnRep(account, u, amount)
    \/ \E u \in UniverseId, o \in Outcome : deployChild(u, o)
    \/ \E account \in Holder, u \in UniverseId, amount \in Amount :
           addRepToMigrationBalance(account, u, amount)
    \/ \E account \in Holder, u \in UniverseId, amount \in Amount,
          copies \in [Outcome -> 0 .. MaxCopies] :
           splitMigrationRep(account, u, amount, copies)

Spec == Init /\ [][Next]_vars

-----------------------------------------------------------------------------
(* Properties.                                                             *)

\* The parent of a universe other than the genesis.
Parent(c) == c[1]
DeployedChildren == {c \in UniverseId \ {Genesis} : universes[c].deployed}
Forked == {u \in UniverseId : universes[u].forked}

\* What an account may still mint in a child out of its migration balance.
UnsplitCredit(account, c) == migrationBalance[account][Parent(c)] - childMigrated[account][c]

\* No account mints more in a child than it burned in the parent, however it
\* mixes first forks, late additions, repeated outcomes and repeated splits
\* (the check in splitRepInternal).
ChildMintWithinCredit ==
    \A a \in Account, c \in DeployedChildren : UnsplitCredit(a, c) >= 0

\* Every mint that the migration balances still entitle their owners to fits
\* under the child token's ceiling: the defence-in-depth check of
\* ReputationToken.mint never refuses a holder, also after REP of a forked
\* child was itself burned.
MintNeverRefused ==
    \A c \in DeployedChildren :
        tokenSupply[c] + SumFunctionOnSet([a \in Account |-> UnsplitCredit(a, c)], Account)
            <= tokenMax[c]

\* A child's registry supply and its token's theoretical supply are the same
\* number, whatever was burned by either route, and minted REP never exceeds it
\* nor it what the parent's fork left (UNI-09).
ChildSupplyCoherence ==
    \A c \in DeployedChildren :
        /\ universeSupply[c] = tokenMax[c]
        /\ tokenSupply[c] <= tokenMax[c]
        /\ tokenMax[c] <= childSupplySnapshot[Parent(c)]

\* Holders own exactly a child token's supply, and the registry never counts
\* less REP for a universe than its holders own: no burn or migration of a
\* holder fails on a supply subtraction.
HoldersAreCounted ==
    \A u \in UniverseId :
        /\ SumFunctionOnSet(balance[u], Holder) <= universeSupply[u]
        /\ u \in DeployedChildren => SumFunctionOnSet(balance[u], Account) = tokenSupply[u]

\* No holder's mint, burn or migration reverts on a supply that ran out.
HoldersNeverRefused == TypeOK /\ MintNeverRefused /\ HoldersAreCounted

\* A universe forks once: its fork question and the ceiling of its children
\* never change afterwards, and no child is ever deployed a second time
\* (which would reset its supply and its own fork).
ForkIsFinal ==
    [][\A u \in UniverseId :
        /\ universes[u].forked => /\ universes'[u] = universes[u]
                                  /\ childSupplySnapshot'[u] = childSupplySnapshot[u]
        /\ universes[u].deployed => universeSupply'[u] <= universeSupply[u]]_vars

\* Migration credit is never taken back or overwritten, and what an account
\* already claimed in a child is never forgotten.
CreditNeverLost ==
    [][\A a \in Account, u \in UniverseId :
        /\ migrationBalance'[a][u] >= migrationBalance[a][u]
        /\ childMigrated'[a][u] >= childMigrated[a][u]]_vars

\* What the registry has recorded of a fork and of the credit it gave stays.
RecordsAreFinal == ForkIsFinal /\ CreditNeverLost
=============================================================================
