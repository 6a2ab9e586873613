---------------------------- MODULE ZoltarProofs ----------------------------
(* Proofs about Zoltar: the type invariant, the supply invariants, those    *)
(* that sum over all accounts included, and the two action properties, for  *)
(* any number of universes, accounts, outcomes and any supply.              *)
EXTENDS Zoltar, SumTheorems, TLAPS

USE DEF getChildUniverseId

\* A universe is deployed only as a child of a forked one.
Lineage ==
    \A c \in UniverseId : universes[c].deployed =>
        \/ c = Genesis
        \/ \E u \in UniverseId, o \in Outcome : c = <<u, o>> /\ universes[u].forked

\* Before its deployment a universe holds nothing; before its fork a universe
\* has no migration balances.
Untouched ==
    /\ \A c \in UniverseId : ~ universes[c].deployed =>
          /\ ~ universes[c].forked
          /\ universeSupply[c] = 0 /\ tokenMax[c] = 0 /\ tokenSupply[c] = 0
          /\ \A a \in Account : childMigrated[a][c] = 0
    /\ \A u \in UniverseId, a \in Account :
          ~ universes[u].forked => migrationBalance[a][u] = 0

\* ChildSupplyCoherence and ChildMintWithinCredit over all children, deployed
\* or not.
Coherent ==
    \A u \in UniverseId, o \in Outcome : <<u, o>> \in UniverseId =>
        /\ universeSupply[<<u, o>>] = tokenMax[<<u, o>>]
        /\ tokenSupply[<<u, o>>] <= tokenMax[<<u, o>>]
        /\ tokenMax[<<u, o>>] <= childSupplySnapshot[u]

WithinCredit ==
    \A a \in Account, u \in UniverseId, o \in Outcome : <<u, o>> \in UniverseId =>
        childMigrated[a][<<u, o>>] <= migrationBalance[a][u]

IInv == TypeOK /\ Lineage /\ Untouched /\ Coherent /\ WithinCredit

-----------------------------------------------------------------------------
(* Arithmetic of the fork threshold and of a split.                        *)

LEMMA DivisionBound ==
    ASSUME NEW x \in Nat, NEW d \in Nat, d > 0
    PROVE  x \div d \in Nat /\ x \div d <= x
OBVIOUS

LEMMA ThresholdBound ==
    ASSUME TypeOK, NEW u \in UniverseId
    PROVE  /\ getForkThreshold(u) \in Nat
           /\ getForkThreshold(u) <= universeSupply[u]
           /\ InitiatorCredit(u) \in Nat
           /\ InitiatorCredit(u) <= getForkThreshold(u)
<1>1. universeSupply[u] \in Nat
  BY DEF TypeOK
<1>2. ForkThresholdDivisor \in Nat /\ ForkThresholdDivisor > 0
      /\ ForkBurnDivisor \in Nat /\ ForkBurnDivisor > 0
  BY ConstructorAssumption DEF MINIMUM_FORK_BURN_DIVISOR
<1>3. getForkThreshold(u) \in Nat /\ getForkThreshold(u) <= universeSupply[u]
  BY <1>1, <1>2, DivisionBound DEF getForkThreshold
<1>4. getForkThreshold(u) \div ForkBurnDivisor \in Nat
      /\ getForkThreshold(u) \div ForkBurnDivisor <= getForkThreshold(u)
  BY <1>2, <1>3, DivisionBound
<1> QED
  BY <1>3, <1>4 DEF InitiatorCredit

LEMMA SplitType ==
    ASSUME NEW u \in UniverseId, NEW amount \in Nat,
           NEW copies \in [Outcome -> 0 .. MaxCopies]
    PROVE  Split(u, amount, copies) \in [UniverseId -> Nat]
<1> SUFFICES ASSUME NEW o \in Outcome
             PROVE  amount * copies[o] \in Nat
  BY DEF Split
<1> QED
  BY ProductNat, InputAssumption

-----------------------------------------------------------------------------
(* The inductive invariant.                                                *)

LEMMA InitIInv == Init => IInv
<1> SUFFICES ASSUME Init PROVE IInv
  OBVIOUS
<1> USE DEF Init
<1>1. TypeOK
  BY UniverseAssumption, ConstructorAssumption
  DEF TypeOK, UniverseRecord, NoQuestion
<1>2. Lineage
  BY DEF Lineage
<1>3. Untouched
  BY DEF Untouched
<1>4. Coherent
  BY UniverseAssumption DEF Coherent
<1>5. WithinCredit
  BY DEF WithinCredit
<1> QED
  BY <1>1, <1>2, <1>3, <1>4, <1>5 DEF IInv

\* What burning does to the tokens: only a child's two supplies move, together.
LEMMA BurnEffect ==
    ASSUME TypeOK, NEW u \in UniverseId, NEW account \in Account, NEW amount \in Nat,
           _burnRep(u, account, amount)
    PROVE  /\ balance' \in [UniverseId -> [Account -> Nat]]
           /\ tokenSupply' \in [UniverseId -> Int]
           /\ tokenMax' \in [UniverseId -> Nat]
           /\ \A c \in UniverseId : c # u =>
                 tokenSupply'[c] = tokenSupply[c] /\ tokenMax'[c] = tokenMax[c]
           /\ u # Genesis => /\ tokenSupply'[u] = tokenSupply[u] - amount
                             /\ tokenMax'[u] = tokenMax[u] - amount
<1>1. /\ balance \in [UniverseId -> [Account -> Nat]] /\ balance[u] \in [Account -> Nat]
      /\ tokenSupply \in [UniverseId -> Int] /\ tokenMax \in [UniverseId -> Nat]
      /\ balance[u][account] >= amount
  BY DEF TypeOK, _burnRep
<1>2. CASE u = Genesis
  <2> DEFINE spent(b) == balance[u][b] - (IF b = account THEN amount ELSE 0)
                                       + (IF b = BurnAddress THEN amount ELSE 0)
  <2>1. \A b \in Account : spent(b) \in Nat
    BY <1>1
  <2>2. balance' = [balance EXCEPT ![u] = [b \in Account |-> spent(b)]]
        /\ UNCHANGED <<tokenSupply, tokenMax>>
    BY <1>2 DEF _burnRep
  <2> HIDE DEF spent
  <2>3. [b \in Account |-> spent(b)] \in [Account -> Nat]
    BY <2>1
  <2>4. balance' \in [UniverseId -> [Account -> Nat]]
    BY <1>1, <2>2, <2>3
  <2> QED
    BY <1>1, <1>2, <2>2, <2>4
<1>3. CASE u # Genesis
  <2>1. /\ tokenMax[u] >= amount
        /\ balance' = [balance EXCEPT ![u][account] = @ - amount]
        /\ tokenSupply' = [tokenSupply EXCEPT ![u] = @ - amount]
        /\ tokenMax' = [tokenMax EXCEPT ![u] = @ - amount]
    BY <1>3 DEF _burnRep
  <2>2. balance[u][account] - amount \in Nat /\ tokenMax[u] - amount \in Nat
    BY <1>1, <2>1
  <2>3. balance' \in [UniverseId -> [Account -> Nat]]
    BY <1>1, <2>1, <2>2
  <2> QED
    BY <1>1, <2>1, <2>2, <2>3
<1> QED
  BY <1>2, <1>3

LEMMA StepTransfer ==
    ASSUME IInv, NEW u \in UniverseId, NEW from \in Account, NEW to \in Account,
           NEW amount \in Nat, transfer(u, from, to, amount)
    PROVE  IInv'
<1> USE DEF IInv, transfer, registry, migration
<1>1. TypeOK'
  BY DEF TypeOK
<1>2. Lineage' /\ Untouched' /\ Coherent' /\ WithinCredit'
  BY DEF Lineage, Untouched, Coherent, WithinCredit
<1> QED
  BY <1>1, <1>2

LEMMA StepFork ==
    ASSUME IInv, NEW account \in Account, NEW u \in UniverseId, NEW q \in Question,
           forkUniverse(account, u, q)
    PROVE  IInv'
<1> DEFINE threshold == getForkThreshold(u)
<1>1. /\ threshold \in Nat /\ threshold <= universeSupply[u]
      /\ InitiatorCredit(u) \in Nat /\ InitiatorCredit(u) <= threshold
  BY ThresholdBound DEF IInv
<1>2. _burnRep(u, account, threshold)
  BY DEF forkUniverse
<1> HIDE DEF threshold
<1>3. /\ balance' \in [UniverseId -> [Account -> Nat]]
      /\ tokenSupply' \in [UniverseId -> Int]
      /\ tokenMax' \in [UniverseId -> Nat]
      /\ \A c \in UniverseId : c # u =>
            tokenSupply'[c] = tokenSupply[c] /\ tokenMax'[c] = tokenMax[c]
      /\ u # Genesis => /\ tokenSupply'[u] = tokenSupply[u] - threshold
                        /\ tokenMax'[u] = tokenMax[u] - threshold
  BY <1>1, <1>2, BurnEffect DEF IInv
<1>4. /\ universes[u].deployed /\ ~ universes[u].forked
      /\ universes' = [universes EXCEPT ![u].forked = TRUE, ![u].forkQuestion = q]
      /\ universeSupply' = [universeSupply EXCEPT ![u] = @ - threshold]
      /\ childSupplySnapshot' = [childSupplySnapshot EXCEPT
             ![u] = universeSupply[u] - threshold + InitiatorCredit(u)]
      /\ migrationBalance' = [migrationBalance EXCEPT ![account][u] = InitiatorCredit(u)]
      /\ UNCHANGED <<childMigrated, questionStatus>>
  BY DEF forkUniverse, MayFork, ChildCeiling, threshold
<1>5. TypeOK'
  <2>1. universes' \in [UniverseId -> UniverseRecord]
    BY <1>4 DEF IInv, TypeOK, UniverseRecord
  <2>2. /\ universeSupply[u] - threshold \in Nat
        /\ universeSupply[u] - threshold + InitiatorCredit(u) \in Nat
    BY <1>1 DEF IInv, TypeOK
  <2>3. universeSupply' \in [UniverseId -> Nat] /\ childSupplySnapshot' \in [UniverseId -> Nat]
    BY <1>4, <2>2 DEF IInv, TypeOK
  <2>4. migrationBalance' \in [Account -> [UniverseId -> Nat]]
    BY <1>1, <1>4 DEF IInv, TypeOK
  <2> QED
    BY <1>3, <1>4, <2>1, <2>3, <2>4 DEF IInv, TypeOK
<1>6. Lineage'
  BY <1>4 DEF IInv, TypeOK, UniverseRecord, Lineage
<1>7. Untouched'
  BY <1>3, <1>4 DEF IInv, TypeOK, UniverseRecord, Untouched
\* No child of u is deployed yet.
<1>8. \A o \in Outcome : <<u, o>> \in UniverseId => ~ universes[<<u, o>>].deployed
  BY <1>4, UniverseAssumption DEF IInv, Lineage
<1>9. Coherent'
  <2> SUFFICES ASSUME NEW v \in UniverseId, NEW o \in Outcome, <<v, o>> \in UniverseId
               PROVE  /\ universeSupply'[<<v, o>>] = tokenMax'[<<v, o>>]
                      /\ tokenSupply'[<<v, o>>] <= tokenMax'[<<v, o>>]
                      /\ tokenMax'[<<v, o>>] <= childSupplySnapshot'[v]
    BY DEF Coherent
  <2> DEFINE c == <<v, o>>
  <2>1. c # Genesis
    BY UniverseAssumption
  <2>2. universeSupply[c] = tokenMax[c] /\ tokenSupply[c] <= tokenMax[c]
        /\ tokenMax[c] <= childSupplySnapshot[v]
    BY DEF IInv, Coherent
  <2>3. /\ universeSupply[c] \in Nat /\ tokenMax[c] \in Nat /\ tokenSupply[c] \in Int
        /\ childSupplySnapshot[v] \in Nat
    BY DEF IInv, TypeOK
  <2>4. c \in UniverseId
    OBVIOUS
  <2>5. c = u => universeSupply'[c] = universeSupply[c] - threshold
    BY <1>4, <2>4 DEF IInv, TypeOK
  <2>6. c # u => universeSupply'[c] = universeSupply[c]
    BY <1>4, <2>4 DEF IInv, TypeOK
  <2>7. v = u => tokenMax[c] = 0 /\ c # u /\ childSupplySnapshot'[v] \in Nat
    BY <1>4, <1>5, <1>8, <2>4 DEF IInv, Untouched, TypeOK
  <2>8. v # u => childSupplySnapshot'[v] = childSupplySnapshot[v]
    BY <1>4 DEF IInv, TypeOK
  <2> HIDE DEF c
  <2>9. /\ universeSupply'[c] = tokenMax'[c]
        /\ tokenSupply'[c] <= tokenMax'[c]
        /\ tokenMax'[c] <= childSupplySnapshot'[v]
    BY <1>1, <1>3, <2>1, <2>2, <2>3, <2>4, <2>5, <2>6, <2>7, <2>8
  <2> QED
    BY <2>9 DEF c
<1>10. WithinCredit'
  BY <1>1, <1>4, <1>8 DEF IInv, TypeOK, Untouched, WithinCredit
<1> QED
  BY <1>5, <1>6, <1>7, <1>9, <1>10 DEF IInv

\* Burning REP and removing as much from the registry's supply, which is what
\* burnRep and addRepToMigrationBalance have in common.
LEMMA BurnKeepsCoherent ==
    ASSUME IInv, NEW account \in Account, NEW u \in UniverseId, NEW amount \in Nat,
           universes[u].deployed, universeSupply[u] >= amount,
           _burnRep(u, account, amount),
           universeSupply' = [universeSupply EXCEPT ![u] = @ - amount],
           UNCHANGED <<universes, childSupplySnapshot, childMigrated, questionStatus>>,
           migrationBalance' \in [Account -> [UniverseId -> Nat]],
           \A a \in Account, v \in UniverseId :
               /\ migrationBalance'[a][v] >= migrationBalance[a][v]
               /\ ~ universes[v].forked => migrationBalance'[a][v] = migrationBalance[a][v]
    PROVE  IInv'
<1>1. /\ balance' \in [UniverseId -> [Account -> Nat]]
      /\ tokenSupply' \in [UniverseId -> Int]
      /\ tokenMax' \in [UniverseId -> Nat]
      /\ \A c \in UniverseId : c # u =>
            tokenSupply'[c] = tokenSupply[c] /\ tokenMax'[c] = tokenMax[c]
      /\ u # Genesis => /\ tokenSupply'[u] = tokenSupply[u] - amount
                        /\ tokenMax'[u] = tokenMax[u] - amount
  BY BurnEffect DEF IInv
<1>2. TypeOK'
  <2>1. universeSupply[u] - amount \in Nat
    BY DEF IInv, TypeOK
  <2>2. universeSupply' \in [UniverseId -> Nat]
    BY <2>1 DEF IInv, TypeOK
  <2> QED
    BY <1>1, <2>2 DEF IInv, TypeOK
<1>3. Lineage'
  BY DEF IInv, Lineage
<1>4. Untouched'
  BY <1>1 DEF IInv, TypeOK, Untouched
<1>5. Coherent'
  <2> SUFFICES ASSUME NEW v \in UniverseId, NEW o \in Outcome, <<v, o>> \in UniverseId
               PROVE  /\ universeSupply'[<<v, o>>] = tokenMax'[<<v, o>>]
                      /\ tokenSupply'[<<v, o>>] <= tokenMax'[<<v, o>>]
                      /\ tokenMax'[<<v, o>>] <= childSupplySnapshot'[v]
    BY DEF Coherent
  <2> DEFINE c == <<v, o>>
  <2>1. c # Genesis /\ c \in UniverseId
    BY UniverseAssumption
  <2>2. universeSupply[c] = tokenMax[c] /\ tokenSupply[c] <= tokenMax[c]
        /\ tokenMax[c] <= childSupplySnapshot[v]
    BY DEF IInv, Coherent
  <2>3. /\ universeSupply[c] \in Nat /\ tokenMax[c] \in Nat /\ tokenSupply[c] \in Int
        /\ childSupplySnapshot[v] \in Nat
    BY DEF IInv, TypeOK
  <2>4. universeSupply'[c] = IF c = u THEN universeSupply[c] - amount ELSE universeSupply[c]
    BY <2>1 DEF IInv, TypeOK
  <2> HIDE DEF c
  <2>5. /\ universeSupply'[c] = tokenMax'[c]
        /\ tokenSupply'[c] <= tokenMax'[c]
        /\ tokenMax'[c] <= childSupplySnapshot'[v]
    BY <1>1, <2>1, <2>2, <2>3, <2>4
  <2> QED
    BY <2>5 DEF c
<1>6. WithinCredit'
  BY DEF IInv, TypeOK, WithinCredit
<1> QED
  BY <1>2, <1>3, <1>4, <1>5, <1>6 DEF IInv

LEMMA StepBurn ==
    ASSUME IInv, NEW account \in Account, NEW u \in UniverseId, NEW amount \in Nat,
           burnRep(account, u, amount)
    PROVE  IInv'
<1>1. /\ universes[u].deployed /\ universeSupply[u] >= amount
      /\ _burnRep(u, account, amount)
      /\ universeSupply' = [universeSupply EXCEPT ![u] = @ - amount]
      /\ UNCHANGED <<universes, childSupplySnapshot, migrationBalance, childMigrated,
                     questionStatus>>
  BY DEF burnRep, migration
<1>2. migrationBalance \in [Account -> [UniverseId -> Nat]]
  BY DEF IInv, TypeOK
<1>3. \A a \in Account, v \in UniverseId : migrationBalance'[a][v] >= migrationBalance[a][v]
  BY <1>1, <1>2
<1> QED
  BY <1>1, <1>2, <1>3, BurnKeepsCoherent

LEMMA StepAdd ==
    ASSUME IInv, NEW account \in Account, NEW u \in UniverseId, NEW amount \in Nat,
           addRepToMigrationBalance(account, u, amount)
    PROVE  IInv'
<1> USE DEF addRepToMigrationBalance
<1>1. universes[u].deployed
  BY DEF IInv, Untouched
<1>2. migrationBalance' \in [Account -> [UniverseId -> Nat]]
  BY DEF IInv, TypeOK
<1>3. \A a \in Account, v \in UniverseId :
          /\ migrationBalance'[a][v] >= migrationBalance[a][v]
          /\ ~ universes[v].forked => migrationBalance'[a][v] = migrationBalance[a][v]
  BY DEF IInv, TypeOK
<1> QED
  BY <1>1, <1>2, <1>3, BurnKeepsCoherent

\* A fresh child takes the fork's snapshot as both its supplies; everything
\* else about the registry stays.
LEMMA DeployEffect ==
    ASSUME IInv, NEW u \in UniverseId, NEW fresh,
           \A c \in fresh : /\ c \in UniverseId /\ ~ universes[c].deployed
                            /\ \E o \in Outcome : c = <<u, o>>,
           universes[u].forked, DeployChildren(u, fresh)
    PROVE  /\ universes' \in [UniverseId -> UniverseRecord]
           /\ universeSupply' \in [UniverseId -> Nat]
           /\ tokenMax' \in [UniverseId -> Nat]
           /\ childSupplySnapshot' = childSupplySnapshot
           /\ Lineage'
           /\ \A c \in UniverseId :
                 /\ universes'[c].forked = universes[c].forked
                 /\ universes'[c].deployed = (universes[c].deployed \/ c \in fresh)
                 /\ c \notin fresh => /\ universes'[c] = universes[c]
                                      /\ universeSupply'[c] = universeSupply[c]
                                      /\ tokenMax'[c] = tokenMax[c]
                 /\ c \in fresh => /\ universeSupply'[c] = childSupplySnapshot[u]
                                   /\ tokenMax'[c] = childSupplySnapshot[u]
<1> USE DEF DeployChildren
<1>1. universes' \in [UniverseId -> UniverseRecord]
  BY DEF IInv, TypeOK, UniverseRecord
<1>2. universeSupply' \in [UniverseId -> Nat] /\ tokenMax' \in [UniverseId -> Nat]
  BY DEF IInv, TypeOK
<1>3. \A c \in UniverseId :
          /\ universes'[c].forked = universes[c].forked
          /\ universes'[c].deployed = (universes[c].deployed \/ c \in fresh)
          /\ c \notin fresh => universes'[c] = universes[c]
  <2> SUFFICES ASSUME NEW c \in UniverseId
               PROVE  /\ universes'[c].forked = universes[c].forked
                      /\ universes'[c].deployed = (universes[c].deployed \/ c \in fresh)
                      /\ c \notin fresh => universes'[c] = universes[c]
    OBVIOUS
  <2>1. universes[c].forked \in BOOLEAN /\ universes[c].deployed \in BOOLEAN
    BY DEF IInv, TypeOK, UniverseRecord
  <2>2. CASE c \in fresh
    <3>1. universes'[c].deployed = TRUE /\ universes'[c].forked = FALSE
      BY <2>2
    <3>2. universes[c].forked = FALSE
      BY <2>1, <2>2 DEF IInv, Untouched
    <3> QED
      BY <2>2, <3>1, <3>2
  <2>3. CASE c \notin fresh
    BY <2>1, <2>3
  <2> QED
    BY <2>2, <2>3
<1>4. Lineage'
  BY <1>3 DEF IInv, Lineage
<1> QED
  BY <1>1, <1>2, <1>3, <1>4

LEMMA StepDeploy ==
    ASSUME IInv, NEW u \in UniverseId, NEW o \in Outcome, deployChild(u, o)
    PROVE  IInv'
<1> DEFINE child == <<u, o>>
<1>1. /\ universes[u].forked /\ child \in UniverseId /\ ~ universes[child].deployed
      /\ DeployChildren(u, {child})
      /\ UNCHANGED <<migrationBalance, childMigrated, balance, tokenSupply, questionStatus>>
  BY DEF deployChild, migration
<1> HIDE DEF child
<1>2. /\ universes' \in [UniverseId -> UniverseRecord]
      /\ universeSupply' \in [UniverseId -> Nat]
      /\ tokenMax' \in [UniverseId -> Nat]
      /\ childSupplySnapshot' = childSupplySnapshot
      /\ Lineage'
      /\ \A c \in UniverseId :
            /\ universes'[c].forked = universes[c].forked
            /\ universes'[c].deployed = (universes[c].deployed \/ c = child)
            /\ c # child => /\ universeSupply'[c] = universeSupply[c]
                            /\ tokenMax'[c] = tokenMax[c]
            /\ c = child => /\ universeSupply'[c] = childSupplySnapshot[u]
                            /\ tokenMax'[c] = childSupplySnapshot[u]
  BY <1>1, DeployEffect DEF child
<1>3. TypeOK'
  BY <1>1, <1>2 DEF IInv, TypeOK
<1>4. Untouched'
  BY <1>1, <1>2 DEF IInv, Untouched
<1>5. Coherent'
  <2>1. tokenSupply[child] = 0 /\ childSupplySnapshot[u] \in Nat
    BY <1>1 DEF IInv, Untouched, TypeOK
  <2>2. ASSUME NEW v \in UniverseId, NEW p \in Outcome, <<v, p>> \in UniverseId, <<v, p>> = child
        PROVE  v = u
    BY <2>2 DEF child
  <2> QED
    BY <1>1, <1>2, <2>1, <2>2 DEF IInv, Coherent
<1>6. WithinCredit'
  BY <1>1 DEF IInv, WithinCredit
<1> QED
  BY <1>2, <1>3, <1>4, <1>5, <1>6 DEF IInv

LEMMA StepSplit ==
    ASSUME IInv, NEW account \in Account, NEW u \in UniverseId, NEW amount \in Nat,
           NEW copies \in [Outcome -> 0 .. MaxCopies],
           splitMigrationRep(account, u, amount, copies)
    PROVE  IInv'
<1> DEFINE named == {o \in Outcome : copies[o] > 0}
           split == Split(u, amount, copies)
           fresh == FreshChildren(u, named)
<1>1. /\ universes[u].forked
      /\ \A o \in named :
            /\ <<u, o>> \in UniverseId
            /\ CreditCovers(account, u, <<u, o>>, split[<<u, o>>])
            /\ tokenSupply[<<u, o>>] + split[<<u, o>>] <= MintCap(u, <<u, o>>)
      /\ DeployChildren(u, fresh)
      /\ childMigrated' = [childMigrated EXCEPT
             ![account] = [c \in UniverseId |-> childMigrated[account][c] + split[c]]]
      /\ tokenSupply' = [c \in UniverseId |-> tokenSupply[c] + split[c]]
      /\ balance' = [c \in UniverseId |-> [balance[c] EXCEPT ![account] = @ + split[c]]]
      /\ UNCHANGED <<migrationBalance, questionStatus>>
  BY DEF splitMigrationRep
<1>2. split \in [UniverseId -> Nat]
  BY SplitType
<1>3. \A c \in UniverseId : c \notin {<<u, o>> : o \in named} => split[c] = 0
  BY DEF Split
<1>4. \A c \in fresh : /\ c \in UniverseId /\ ~ universes[c].deployed
                       /\ \E o \in named : c = <<u, o>>
  BY DEF FreshChildren
<1> HIDE DEF split, fresh
<1>5. /\ universes' \in [UniverseId -> UniverseRecord]
      /\ universeSupply' \in [UniverseId -> Nat]
      /\ tokenMax' \in [UniverseId -> Nat]
      /\ childSupplySnapshot' = childSupplySnapshot
      /\ Lineage'
      /\ \A c \in UniverseId :
            /\ universes'[c].forked = universes[c].forked
            /\ universes'[c].deployed = (universes[c].deployed \/ c \in fresh)
            /\ c \notin fresh => /\ universes'[c] = universes[c]
                                 /\ universeSupply'[c] = universeSupply[c]
                                 /\ tokenMax'[c] = tokenMax[c]
            /\ c \in fresh => /\ universeSupply'[c] = childSupplySnapshot[u]
                              /\ tokenMax'[c] = childSupplySnapshot[u]
  <2>1. \A c \in fresh : \E o \in Outcome : c = <<u, o>>
    BY <1>4
  <2> QED
    BY <1>1, <1>4, <2>1, DeployEffect
<1>6. TypeOK'
  <2>1. childMigrated' \in [Account -> [UniverseId -> Nat]]
    BY <1>1, <1>2 DEF IInv, TypeOK
  <2>2. tokenSupply' \in [UniverseId -> Int]
    BY <1>1, <1>2 DEF IInv, TypeOK
  <2>3. balance' \in [UniverseId -> [Account -> Nat]]
    BY <1>1, <1>2 DEF IInv, TypeOK
  <2> QED
    BY <1>1, <1>5, <2>1, <2>2, <2>3 DEF IInv, TypeOK
\* What is named is deployed afterwards; what is not named gets nothing.
<1>7. Untouched'
  <2>1. ASSUME NEW c \in UniverseId, ~ universes'[c].deployed
        PROVE  /\ ~ universes[c].deployed /\ c \notin fresh /\ split[c] = 0
    <3>1. ~ universes[c].deployed /\ c \notin fresh
      BY <1>5, <2>1
    <3>2. c \notin {<<u, o>> : o \in named}
      BY <3>1 DEF fresh, FreshChildren
    <3> QED
      BY <1>3, <3>1, <3>2
  <2>2. ASSUME NEW c \in UniverseId, ~ universes'[c].deployed
        PROVE  /\ ~ universes'[c].forked
               /\ universeSupply'[c] = 0 /\ tokenMax'[c] = 0 /\ tokenSupply'[c] = 0
               /\ \A a \in Account : childMigrated'[a][c] = 0
    BY <1>1, <1>5, <2>1, <2>2 DEF IInv, TypeOK, Untouched
  <2>3. \A v \in UniverseId, a \in Account :
            ~ universes'[v].forked => migrationBalance'[a][v] = 0
    BY <1>1, <1>5 DEF IInv, Untouched
  <2> QED
    BY <2>2, <2>3 DEF Untouched
<1>8. Coherent'
  <2> SUFFICES ASSUME NEW v \in UniverseId, NEW o \in Outcome, <<v, o>> \in UniverseId
               PROVE  /\ universeSupply'[<<v, o>>] = tokenMax'[<<v, o>>]
                      /\ tokenSupply'[<<v, o>>] <= tokenMax'[<<v, o>>]
                      /\ tokenMax'[<<v, o>>] <= childSupplySnapshot'[v]
    BY DEF Coherent
  <2> DEFINE c == <<v, o>>
  <2>1. /\ universeSupply[c] = tokenMax[c] /\ tokenSupply[c] <= tokenMax[c]
        /\ tokenMax[c] <= childSupplySnapshot[v]
    BY DEF IInv, Coherent
  <2>2. /\ tokenMax[c] \in Nat /\ tokenSupply[c] \in Int /\ split[c] \in Nat
        /\ childSupplySnapshot[v] \in Nat /\ childSupplySnapshot[u] \in Nat
        /\ tokenSupply'[c] = tokenSupply[c] + split[c]
    BY <1>1, <1>2 DEF IInv, TypeOK
  <2>3. c \in fresh => v = u /\ ~ universes[c].deployed
    BY <1>4
  <2>4. CASE v = u /\ o \in named
    <3>1. tokenSupply[c] + split[c] <= MintCap(u, c)
      BY <1>1, <2>4
    <3>2. c \in fresh \/ universes[c].deployed
      BY <2>4 DEF fresh, FreshChildren
    <3>3. tokenSupply'[c] <= tokenMax'[c]
      BY <1>5, <2>2, <2>3, <3>1, <3>2 DEF MintCap
    <3> QED
      BY <1>5, <2>1, <2>2, <2>3, <3>3
  <2>5. CASE ~ (v = u /\ o \in named)
    <3>1. c \notin {<<u, p>> : p \in named}
      BY <2>5
    <3>2. split[c] = 0 /\ c \notin fresh
      BY <1>3, <1>4, <3>1
    <3> QED
      BY <1>5, <2>1, <2>2, <3>2
  <2> QED
    BY <2>4, <2>5
<1>9. WithinCredit'
  <2> SUFFICES ASSUME NEW a \in Account, NEW v \in UniverseId, NEW o \in Outcome,
                      <<v, o>> \in UniverseId
               PROVE  childMigrated'[a][<<v, o>>] <= migrationBalance[a][v]
    BY <1>1 DEF WithinCredit
  <2>1. childMigrated[a][<<v, o>>] <= migrationBalance[a][v]
    BY DEF IInv, WithinCredit
  <2>2. /\ childMigrated[a][<<v, o>>] \in Nat /\ migrationBalance[a][v] \in Nat
    BY DEF IInv, TypeOK
  <2>3. childMigrated'[a][<<v, o>>] = IF a = account
            THEN childMigrated[a][<<v, o>>] + split[<<v, o>>] ELSE childMigrated[a][<<v, o>>]
    BY <1>1 DEF IInv, TypeOK
  <2>4. CASE v = u /\ o \in named
    BY <1>1, <2>1, <2>3, <2>4 DEF CreditCovers
  <2>5. CASE ~ (v = u /\ o \in named)
    <3>1. <<v, o>> \notin {<<u, p>> : p \in named}
      BY <2>5
    <3>2. split[<<v, o>>] = 0
      BY <1>3, <3>1
    <3> QED
      BY <2>1, <2>2, <2>3, <3>2
  <2> QED
    BY <2>4, <2>5
<1> QED
  BY <1>5, <1>6, <1>7, <1>8, <1>9 DEF IInv

-----------------------------------------------------------------------------
(* Every step keeps the inductive invariant.                               *)

LEMMA NextIInv == IInv /\ [Next]_vars => IInv'
<1> SUFFICES ASSUME IInv, [Next]_vars PROVE IInv'
  OBVIOUS
<1> USE InputAssumption DEF Holder
<1>1. ASSUME NEW q \in Question, NEW status \in {"open", "ended"}, createQuestion(q, status)
      PROVE  IInv'
  BY <1>1 DEF createQuestion, registry, migration, tokens, IInv, TypeOK, Lineage, Untouched,
              Coherent, WithinCredit
<1>2. ASSUME NEW q \in Question, QuestionEnds(q)
      PROVE  IInv'
  BY <1>2 DEF QuestionEnds, registry, migration, tokens, IInv, TypeOK, Lineage, Untouched,
              Coherent, WithinCredit
<1>3. ASSUME NEW u \in UniverseId, NEW from \in Holder, NEW to \in Holder,
             NEW amount \in Amount, transfer(u, from, to, amount)
      PROVE  IInv'
  BY <1>3, StepTransfer
<1>4. ASSUME NEW account \in Holder, NEW u \in UniverseId, NEW q \in Question,
             forkUniverse(account, u, q)
      PROVE  IInv'
  BY <1>4, StepFork
<1>5. ASSUME NEW account \in Holder, NEW u \in UniverseId, NEW amount \in Amount,
             burnRep(account, u, amount)
      PROVE  IInv'
  BY <1>5, StepBurn
<1>6. ASSUME NEW u \in UniverseId, NEW o \in Outcome, deployChild(u, o)
      PROVE  IInv'
  BY <1>6, StepDeploy
<1>7. ASSUME NEW account \in Holder, NEW u \in UniverseId, NEW amount \in Amount,
             addRepToMigrationBalance(account, u, amount)
      PROVE  IInv'
  BY <1>7, StepAdd
<1>8. ASSUME NEW account \in Holder, NEW u \in UniverseId, NEW amount \in Amount,
             NEW copies \in [Outcome -> 0 .. MaxCopies],
             splitMigrationRep(account, u, amount, copies)
      PROVE  IInv'
  BY <1>8, StepSplit
<1>9. CASE UNCHANGED vars
  BY <1>9 DEF vars, registry, migration, tokens, IInv, TypeOK, Lineage, Untouched,
              Coherent, WithinCredit
<1> QED
  BY <1>1, <1>2, <1>3, <1>4, <1>5, <1>6, <1>7, <1>8, <1>9 DEF Next

THEOREM Invariance == Spec => []IInv
<1>1. Init => IInv
  BY InitIInv
<1>2. IInv /\ [Next]_vars => IInv'
  BY NextIInv
<1> QED
  BY <1>1, <1>2, PTL DEF Spec

-----------------------------------------------------------------------------
(* The properties.                                                         *)

\* Types are kept by every call: no unsigned field of the registry or of a REP
\* token other than totalSupply is ever driven below zero.
THEOREM TypeCorrect == Spec => []TypeOK
<1>1. IInv => TypeOK
  BY DEF IInv
<1> QED
  BY <1>1, Invariance, PTL

\* A deployed child is a pair whose parent is in scope and has forked.
LEMMA DeployedChildIsPair ==
    ASSUME IInv, NEW c \in DeployedChildren
    PROVE  \E u \in UniverseId, o \in Outcome : c = <<u, o>> /\ Parent(c) = u
BY DEF IInv, Lineage, DeployedChildren, Parent

\* However calls are interleaved, no account mints more in a child universe
\* than the REP it gave up in the parent (splitRepInternal).
THEOREM MintWithinCreditThm == Spec => []ChildMintWithinCredit
<1>1. IInv => ChildMintWithinCredit
  <2> SUFFICES ASSUME IInv, NEW a \in Account, NEW c \in DeployedChildren
               PROVE  UnsplitCredit(a, c) >= 0
    BY DEF ChildMintWithinCredit
  <2>1. PICK u \in UniverseId, o \in Outcome : c = <<u, o>> /\ Parent(c) = u
    BY DeployedChildIsPair
  <2>2. c \in UniverseId /\ childMigrated[a][c] <= migrationBalance[a][u]
    BY <2>1 DEF IInv, WithinCredit, DeployedChildren
  <2>3. childMigrated[a][c] \in Nat /\ migrationBalance[a][u] \in Nat
    BY <2>2 DEF IInv, TypeOK
  <2> QED
    BY <2>1, <2>2, <2>3 DEF UnsplitCredit
<1> QED
  BY <1>1, Invariance, PTL

\* Registry and token agree on every child's theoretical supply, which bounds
\* what was minted and is bounded by the parent's fork snapshot.
THEOREM SupplyCoherenceThm == Spec => []ChildSupplyCoherence
<1>1. IInv => ChildSupplyCoherence
  <2> SUFFICES ASSUME IInv, NEW c \in DeployedChildren
               PROVE  /\ universeSupply[c] = tokenMax[c]
                      /\ tokenSupply[c] <= tokenMax[c]
                      /\ tokenMax[c] <= childSupplySnapshot[Parent(c)]
    BY DEF ChildSupplyCoherence
  <2>1. PICK u \in UniverseId, o \in Outcome : c = <<u, o>> /\ Parent(c) = u
    BY DeployedChildIsPair
  <2> QED
    BY <2>1 DEF IInv, Coherent, DeployedChildren
<1> QED
  BY <1>1, Invariance, PTL

\* A universe forks once and for all, and no universe's REP supply ever grows
\* again once it is deployed.
THEOREM ForkIsFinalThm == Spec => ForkIsFinal
<1> DEFINE Final == \A u \in UniverseId :
        /\ universes[u].forked => /\ universes'[u] = universes[u]
                                  /\ childSupplySnapshot'[u] = childSupplySnapshot[u]
        /\ universes[u].deployed => universeSupply'[u] <= universeSupply[u]
<1>1. ASSUME IInv, Next PROVE Final
  <2> USE DEF Holder
  <2>0. /\ \A u \in UniverseId : universeSupply[u] \in Nat
        /\ universes \in [UniverseId -> UniverseRecord]
        /\ universeSupply \in [UniverseId -> Nat] /\ childSupplySnapshot \in [UniverseId -> Nat]
    BY <1>1 DEF IInv, TypeOK
  <2>1. ASSUME UNCHANGED registry PROVE Final
    BY <2>0, <2>1 DEF registry
  <2>2. ASSUME NEW account \in Holder, NEW u \in UniverseId, NEW q \in Question,
               forkUniverse(account, u, q)
        PROVE  Final
    <3>1. getForkThreshold(u) \in Nat
      BY <1>1, ThresholdBound DEF IInv
    <3> QED
      BY <2>0, <2>2, <3>1 DEF forkUniverse, MayFork
  <2>3. ASSUME NEW account \in Holder, NEW u \in UniverseId, NEW amount \in Amount,
               burnRep(account, u, amount)
        PROVE  Final
    BY <2>0, <2>3, InputAssumption DEF burnRep
  <2>4. ASSUME NEW account \in Holder, NEW u \in UniverseId, NEW amount \in Amount,
               addRepToMigrationBalance(account, u, amount)
        PROVE  Final
    BY <2>0, <2>4, InputAssumption DEF addRepToMigrationBalance
  <2>5. ASSUME NEW v \in UniverseId, NEW fresh,
               \A c \in fresh : ~ universes[c].deployed, DeployChildren(v, fresh)
        PROVE  Final
    BY <1>1, <2>0, <2>5 DEF DeployChildren, IInv, Untouched
  <2>6. ASSUME NEW u \in UniverseId, NEW o \in Outcome, deployChild(u, o)
        PROVE  Final
    BY <2>5, <2>6 DEF deployChild
  <2>7. ASSUME NEW account \in Holder, NEW u \in UniverseId, NEW amount \in Amount,
               NEW copies \in [Outcome -> 0 .. MaxCopies],
               splitMigrationRep(account, u, amount, copies)
        PROVE  Final
    <3>1. DeployChildren(u, FreshChildren(u, {o \in Outcome : copies[o] > 0}))
      BY <2>7 DEF splitMigrationRep
    <3>2. \A c \in FreshChildren(u, {o \in Outcome : copies[o] > 0}) : ~ universes[c].deployed
      BY DEF FreshChildren
    <3> QED
      BY <2>5, <3>1, <3>2
  <2>8. ASSUME \/ \E q \in Question, status \in {"open", "ended"} : createQuestion(q, status)
               \/ \E q \in Question : QuestionEnds(q)
               \/ \E u \in UniverseId, from, to \in Holder, amount \in Amount :
                      transfer(u, from, to, amount)
        PROVE  Final
    <3>1. UNCHANGED registry
      BY <2>8 DEF createQuestion, QuestionEnds, transfer
    <3> QED
      BY <2>1, <3>1
  <2> QED
    BY <1>1, <2>2, <2>3, <2>4, <2>6, <2>7, <2>8 DEF Next
<1>2. IInv /\ [Next]_vars => [Final]_vars
  BY <1>1
<1> QED
  BY <1>2, Invariance, PTL DEF Spec, ForkIsFinal

\* Migration credit and the claims made on it only grow.
THEOREM CreditNeverLostThm == Spec => CreditNeverLost
<1> DEFINE Kept == \A a \in Account, u \in UniverseId :
        /\ migrationBalance'[a][u] >= migrationBalance[a][u]
        /\ childMigrated'[a][u] >= childMigrated[a][u]
<1>1. ASSUME IInv, Next PROVE Kept
  <2> USE DEF Holder
  <2>0. /\ \A a \in Account, u \in UniverseId :
              migrationBalance[a][u] \in Nat /\ childMigrated[a][u] \in Nat
        /\ migrationBalance \in [Account -> [UniverseId -> Nat]]
        /\ childMigrated \in [Account -> [UniverseId -> Nat]]
    BY <1>1 DEF IInv, TypeOK
  <2>1. ASSUME UNCHANGED migration PROVE Kept
    BY <2>0, <2>1 DEF migration
  <2>2. ASSUME NEW account \in Holder, NEW u \in UniverseId, NEW q \in Question,
               forkUniverse(account, u, q)
        PROVE  Kept
    <3>1. InitiatorCredit(u) \in Nat
      BY <1>1, ThresholdBound DEF IInv
    <3>2. migrationBalance[account][u] = 0
      BY <1>1, <2>2 DEF forkUniverse, MayFork, IInv, Untouched
    <3> QED
      BY <2>0, <2>2, <3>1, <3>2 DEF forkUniverse
  <2>3. ASSUME NEW account \in Holder, NEW u \in UniverseId, NEW amount \in Amount,
               addRepToMigrationBalance(account, u, amount)
        PROVE  Kept
    BY <2>0, <2>3, InputAssumption DEF addRepToMigrationBalance
  <2>4. ASSUME NEW account \in Holder, NEW u \in UniverseId, NEW amount \in Amount,
               NEW copies \in [Outcome -> 0 .. MaxCopies],
               splitMigrationRep(account, u, amount, copies)
        PROVE  Kept
    <3>1. Split(u, amount, copies) \in [UniverseId -> Nat]
      BY SplitType, InputAssumption
    <3>2. /\ migrationBalance' = migrationBalance
          /\ childMigrated' = [childMigrated EXCEPT ![account] =
                 [c \in UniverseId |-> childMigrated[account][c] + Split(u, amount, copies)[c]]]
      BY <2>4 DEF splitMigrationRep
    <3> QED
      BY <2>0, <3>1, <3>2
  <2>5. ASSUME \/ \E q \in Question, status \in {"open", "ended"} : createQuestion(q, status)
               \/ \E q \in Question : QuestionEnds(q)
               \/ \E u \in UniverseId, from, to \in Holder, amount \in Amount :
                      transfer(u, from, to, amount)
               \/ \E account \in Holder, u \in UniverseId, amount \in Amount :
                      burnRep(account, u, amount)
               \/ \E u \in UniverseId, o \in Outcome : deployChild(u, o)
        PROVE  Kept
    <3>1. UNCHANGED migration
      BY <2>5 DEF createQuestion, QuestionEnds, transfer, burnRep, deployChild
    <3> QED
      BY <2>1, <3>1
  <2> QED
    BY <1>1, <2>2, <2>3, <2>4, <2>5 DEF Next
<1>2. IInv /\ [Next]_vars => [Kept]_vars
  BY <1>1
<1> QED
  BY <1>2, Invariance, PTL DEF Spec, CreditNeverLost

\* Forks and credit, once recorded, are never rewritten.
THEOREM RecordsAreFinalThm == Spec => RecordsAreFinal
BY ForkIsFinalThm, CreditNeverLostThm DEF RecordsAreFinal

-----------------------------------------------------------------------------
(* Sums over the accounts.                                                 *)

Credit(u) == [a \in Account |-> migrationBalance[a][u]]
Unsplit(c) == [a \in Account |-> UnsplitCredit(a, c)]

\* What is left of a forked universe can still become credit in it, and its
\* credit can still be minted in each child: both fit under the fork's snapshot,
\* and under the ceiling of each child deployed.
Room ==
    /\ \A u \in UniverseId : universes[u].forked =>
          SumFunctionOnSet(Credit(u), Account) + universeSupply[u] <= childSupplySnapshot[u]
    /\ \A u \in UniverseId, o \in Outcome :
          <<u, o>> \in UniverseId /\ universes[<<u, o>>].deployed =>
             tokenSupply[<<u, o>>] + SumFunctionOnSet(Unsplit(<<u, o>>), Account)
                 + universeSupply[u] <= tokenMax[<<u, o>>]

\* HoldersAreCounted over all universes, deployed or not.
Counted ==
    \A u \in UniverseId :
        /\ SumFunctionOnSet(balance[u], Holder) <= universeSupply[u]
        /\ u # Genesis => SumFunctionOnSet(balance[u], Account) = tokenSupply[u]

SumInv == IInv /\ Room /\ Counted

-----------------------------------------------------------------------------
(* The sums are integers, and change with the one account that acts.       *)

LEMMA SumsAreInt ==
    ASSUME TypeOK, NEW u \in UniverseId
    PROVE  /\ SumFunctionOnSet(Credit(u), Account) \in Nat
           /\ SumFunctionOnSet(balance[u], Account) \in Nat
           /\ SumFunctionOnSet(balance[u], Holder) \in Nat
<1>1. IsFiniteSet(Account) /\ IsFiniteSet(Holder)
  BY ConstructorAssumption, FS_Subset DEF Holder
<1>2. \A a \in Account : Credit(u)[a] \in Nat /\ balance[u][a] \in Nat
  BY DEF TypeOK, Credit
<1> QED
  BY <1>1, <1>2, SumNat DEF Holder

LEMMA UnsplitIsInt ==
    ASSUME TypeOK, NEW u \in UniverseId, NEW o \in Outcome, <<u, o>> \in UniverseId
    PROVE  SumFunctionOnSet(Unsplit(<<u, o>>), Account) \in Int
<1>1. \A a \in Account : Unsplit(<<u, o>>)[a] \in Int
  BY DEF TypeOK, Unsplit, UnsplitCredit, Parent
<1> QED
  BY <1>1, ConstructorAssumption, SumInt

LEMMA CreditChange ==
    ASSUME TypeOK, TypeOK', NEW u \in UniverseId, NEW account \in Account,
           \A a \in Account \ {account} : migrationBalance'[a][u] = migrationBalance[a][u]
    PROVE  SumFunctionOnSet(Credit(u)', Account) = SumFunctionOnSet(Credit(u), Account)
               + (migrationBalance'[account][u] - migrationBalance[account][u])
<1> DEFINE f == Credit(u)
           g == Credit(u)'
<1>1. \A a \in Account : /\ f[a] = migrationBalance[a][u] /\ f[a] \in Int
                         /\ g[a] = migrationBalance'[a][u] /\ g[a] \in Int
  BY DEF TypeOK, Credit
<1> HIDE DEF f, g
<1>2. SumFunctionOnSet(g, Account) = SumFunctionOnSet(f, Account) + (g[account] - f[account])
  BY <1>1, ConstructorAssumption, SumChange
<1> QED
  BY <1>1, <1>2 DEF f, g

LEMMA UnsplitChange ==
    ASSUME TypeOK, TypeOK', NEW u \in UniverseId, NEW o \in Outcome, <<u, o>> \in UniverseId,
           NEW account \in Account,
           \A a \in Account \ {account} :
               /\ migrationBalance'[a][u] = migrationBalance[a][u]
               /\ childMigrated'[a][<<u, o>>] = childMigrated[a][<<u, o>>]
    PROVE  SumFunctionOnSet(Unsplit(<<u, o>>)', Account)
               = SumFunctionOnSet(Unsplit(<<u, o>>), Account)
                   + (migrationBalance'[account][u] - migrationBalance[account][u])
                   - (childMigrated'[account][<<u, o>>] - childMigrated[account][<<u, o>>])
<1> DEFINE c == <<u, o>>
           f == Unsplit(c)
           g == Unsplit(c)'
<1>1. \A a \in Account :
          /\ f[a] = migrationBalance[a][u] - childMigrated[a][c] /\ f[a] \in Int
          /\ g[a] = migrationBalance'[a][u] - childMigrated'[a][c] /\ g[a] \in Int
  BY DEF TypeOK, Unsplit, UnsplitCredit, Parent
<1>2. \A a \in Account \ {account} : g[a] = f[a]
  BY <1>1
<1>3. /\ migrationBalance[account][u] \in Int /\ childMigrated[account][c] \in Int
      /\ migrationBalance'[account][u] \in Int /\ childMigrated'[account][c] \in Int
      /\ SumFunctionOnSet(f, Account) \in Int
  BY UnsplitIsInt DEF TypeOK
<1> HIDE DEF f, g
<1>4. SumFunctionOnSet(g, Account) = SumFunctionOnSet(f, Account) + (g[account] - f[account])
  BY <1>1, <1>2, ConstructorAssumption, SumChange
<1>5. SumFunctionOnSet(g, Account) = SumFunctionOnSet(f, Account)
          + (migrationBalance'[account][u] - migrationBalance[account][u])
          - (childMigrated'[account][c] - childMigrated[account][c])
  <2> HIDE DEF c
  <2> QED
    BY <1>1, <1>3, <1>4
<1> QED
  BY <1>5 DEF f, g

LEMMA BalanceChange ==
    ASSUME TypeOK, TypeOK', NEW u \in UniverseId, NEW A \in {Account, Holder},
           NEW account \in A,
           \A a \in A \ {account} : balance'[u][a] = balance[u][a]
    PROVE  SumFunctionOnSet(balance'[u], A) = SumFunctionOnSet(balance[u], A)
               + (balance'[u][account] - balance[u][account])
<1>1. \A a \in A : balance[u][a] \in Int /\ balance'[u][a] \in Int
  BY DEF TypeOK, Holder
<1>2. IsFiniteSet(A)
  BY ConstructorAssumption, FS_Subset DEF Holder
<1> QED
  BY <1>1, <1>2, SumChange

-----------------------------------------------------------------------------
LEMMA InitSums == Init => Room /\ Counted
<1> SUFFICES ASSUME Init PROVE Room /\ Counted
  OBVIOUS
<1> USE DEF Init
<1>1. IsFiniteSet(Account) /\ IsFiniteSet(Holder)
  BY ConstructorAssumption, FS_Subset DEF Holder
<1>2. Room
  BY UniverseAssumption DEF Room
<1>3. ASSUME NEW u \in UniverseId, u # Genesis
      PROVE  /\ SumFunctionOnSet(balance[u], Holder) = 0
             /\ SumFunctionOnSet(balance[u], Account) = 0
             /\ universeSupply[u] = 0 /\ tokenSupply[u] = 0
  <2>1. \A a \in Account : balance[u][a] = 0
    BY <1>3
  <2> QED
    BY <1>1, <1>3, <2>1, SumZero DEF Holder
<1>4. balance[Genesis] = GenesisBalance /\ universeSupply[Genesis] = GenesisSupply
  BY UniverseAssumption
<1>5. Counted
  BY <1>3, <1>4, ConstructorAssumption DEF Counted
<1> QED
  BY <1>2, <1>5

\* A holder who burns takes as much off what holders, and in a child all
\* accounts, own together.
LEMMA BurnSums ==
    ASSUME TypeOK, TypeOK', NEW u \in UniverseId, NEW account \in Holder, NEW amount \in Nat,
           _burnRep(u, account, amount)
    PROVE  /\ \A c \in UniverseId : c # u => balance'[c] = balance[c]
           /\ SumFunctionOnSet(balance'[u], Holder)
                = SumFunctionOnSet(balance[u], Holder) - amount
           /\ u # Genesis => SumFunctionOnSet(balance'[u], Account)
                               = SumFunctionOnSet(balance[u], Account) - amount
<1>1. /\ balance \in [UniverseId -> [Account -> Nat]] /\ account \in Account
      /\ account # BurnAddress /\ BurnAddress \in Account
  BY ConstructorAssumption DEF TypeOK, Holder
<1>2. /\ \A c \in UniverseId : c # u => balance'[c] = balance[c]
      /\ balance'[u][account] = balance[u][account] - amount
      /\ \A a \in Holder \ {account} : balance'[u][a] = balance[u][a]
      /\ u # Genesis => \A a \in Account \ {account} : balance'[u][a] = balance[u][a]
  <2>1. CASE u = Genesis
    <3> DEFINE spent(b) == balance[u][b] - (IF b = account THEN amount ELSE 0)
                                         + (IF b = BurnAddress THEN amount ELSE 0)
    <3>1. balance' = [balance EXCEPT ![u] = [b \in Account |-> spent(b)]]
      BY <2>1 DEF _burnRep
    <3>2. spent(account) = balance[u][account] - amount
      BY <1>1
    <3>3. \A a \in Holder \ {account} : spent(a) = balance[u][a]
      BY <1>1 DEF Holder
    <3> HIDE DEF spent
    <3> QED
      BY <1>1, <2>1, <3>1, <3>2, <3>3 DEF Holder
  <2>2. CASE u # Genesis
    BY <1>1, <2>2 DEF _burnRep, Holder
  <2> QED
    BY <2>1, <2>2
<1>3. /\ SumFunctionOnSet(balance'[u], Holder) = SumFunctionOnSet(balance[u], Holder)
             + (balance'[u][account] - balance[u][account])
      /\ u # Genesis => SumFunctionOnSet(balance'[u], Account)
             = SumFunctionOnSet(balance[u], Account)
                 + (balance'[u][account] - balance[u][account])
  BY <1>1, <1>2, BalanceChange
<1>4. /\ SumFunctionOnSet(balance[u], Holder) \in Int
      /\ SumFunctionOnSet(balance[u], Account) \in Int
      /\ balance[u][account] \in Int
  BY <1>1, SumsAreInt
<1> QED
  BY <1>2, <1>3, <1>4

\* Burning together with the registry's supply keeps the holders counted.
LEMMA BurnCounted ==
    ASSUME TypeOK, TypeOK', Counted, NEW u \in UniverseId, NEW account \in Holder,
           NEW amount \in Nat, _burnRep(u, account, amount),
           universeSupply' = [universeSupply EXCEPT ![u] = @ - amount]
    PROVE  Counted'
<1>1. account \in Account
  BY DEF Holder
<1>2. /\ \A c \in UniverseId : c # u => tokenSupply'[c] = tokenSupply[c]
      /\ u # Genesis => tokenSupply'[u] = tokenSupply[u] - amount
  BY <1>1, BurnEffect
<1>3. /\ \A c \in UniverseId : c # u => universeSupply'[c] = universeSupply[c]
      /\ universeSupply'[u] = universeSupply[u] - amount
      /\ universeSupply[u] \in Nat
  BY DEF TypeOK
<1>4. SumFunctionOnSet(balance[u], Holder) \in Int
  BY SumsAreInt
<1> QED
  BY <1>2, <1>3, <1>4, BurnSums DEF Counted

LEMMA SumsFork ==
    ASSUME SumInv, IInv', NEW account \in Holder, NEW u \in UniverseId, NEW q \in Question,
           forkUniverse(account, u, q)
    PROVE  Room' /\ Counted'
<1> DEFINE threshold == getForkThreshold(u)
           credit == InitiatorCredit(u)
<1>0. TypeOK /\ TypeOK' /\ IInv /\ account \in Account
  BY DEF SumInv, IInv, Holder
<1>1. /\ threshold \in Nat /\ threshold <= universeSupply[u]
      /\ credit \in Nat /\ credit <= threshold
  BY <1>0, ThresholdBound
<1>2. _burnRep(u, account, threshold)
  BY DEF forkUniverse
<1>3. /\ universes[u].deployed /\ ~ universes[u].forked
      /\ universes' = [universes EXCEPT ![u].forked = TRUE, ![u].forkQuestion = q]
      /\ universeSupply' = [universeSupply EXCEPT ![u] = @ - threshold]
      /\ childSupplySnapshot' = [childSupplySnapshot EXCEPT
             ![u] = universeSupply[u] - threshold + credit]
      /\ migrationBalance' = [migrationBalance EXCEPT ![account][u] = credit]
      /\ UNCHANGED <<childMigrated, questionStatus>>
  BY DEF forkUniverse, MayFork, ChildCeiling
<1> HIDE DEF threshold, credit
<1>4. Counted'
  BY <1>0, <1>1, <1>2, <1>3, BurnCounted DEF SumInv
<1>5. /\ \A c \in UniverseId : c # u =>
            /\ tokenSupply'[c] = tokenSupply[c] /\ tokenMax'[c] = tokenMax[c]
            /\ universeSupply'[c] = universeSupply[c]
            /\ childSupplySnapshot'[c] = childSupplySnapshot[c]
      /\ u # Genesis => /\ tokenSupply'[u] = tokenSupply[u] - threshold
                        /\ tokenMax'[u] = tokenMax[u] - threshold
      /\ universeSupply'[u] = universeSupply[u] - threshold
      /\ childSupplySnapshot'[u] = universeSupply[u] - threshold + credit
  BY <1>0, <1>1, <1>2, <1>3, BurnEffect DEF TypeOK
<1>6. /\ \A v \in UniverseId : universes'[v].deployed = universes[v].deployed
      /\ \A v \in UniverseId : v # u => universes'[v].forked = universes[v].forked
      /\ migrationBalance'[account][u] = credit
      /\ \A a \in Account : migrationBalance[a][u] = 0
      /\ \A a \in Account, v \in UniverseId : a # account \/ v # u =>
            migrationBalance'[a][v] = migrationBalance[a][v]
  BY <1>0, <1>3 DEF TypeOK, UniverseRecord, IInv, Untouched
<1>7. ASSUME NEW v \in UniverseId, universes'[v].forked
      PROVE  SumFunctionOnSet(Credit(v)', Account) + universeSupply'[v]
                 <= childSupplySnapshot'[v]
  <2>1. SumFunctionOnSet(Credit(v)', Account) = SumFunctionOnSet(Credit(v), Account)
            + (migrationBalance'[account][v] - migrationBalance[account][v])
    BY <1>0, <1>6, CreditChange
  <2>2. CASE v = u
    <3>1. \A a \in Account : Credit(u)[a] = 0
      BY <1>6 DEF Credit
    <3>2. SumFunctionOnSet(Credit(u), Account) = 0
      BY <3>1, ConstructorAssumption, SumZero
    <3>3. universeSupply[u] \in Nat
      BY <1>0 DEF TypeOK
    <3> QED
      BY <1>0, <1>1, <1>5, <1>6, <2>1, <2>2, <3>2, <3>3
  <2>3. CASE v # u
    <3>1. SumFunctionOnSet(Credit(v), Account) + universeSupply[v] <= childSupplySnapshot[v]
      BY <1>6, <1>7, <2>3 DEF SumInv, Room
    <3>2. SumFunctionOnSet(Credit(v), Account) \in Int /\ migrationBalance[account][v] \in Int
      BY <1>0, SumsAreInt DEF TypeOK
    <3> QED
      BY <1>0, <1>5, <1>6, <2>1, <2>3, <3>1, <3>2
  <2> QED
    BY <2>2, <2>3
<1>8. ASSUME NEW v \in UniverseId, NEW o \in Outcome, <<v, o>> \in UniverseId,
             universes'[<<v, o>>].deployed
      PROVE  tokenSupply'[<<v, o>>] + SumFunctionOnSet(Unsplit(<<v, o>>)', Account)
                 + universeSupply'[v] <= tokenMax'[<<v, o>>]
  <2> DEFINE c == <<v, o>>
  <2>1. universes[c].deployed /\ c # Genesis
    BY <1>6, <1>8, UniverseAssumption
  <2>2. v # u
    BY <1>0, <1>3, <1>8, <2>1, UniverseAssumption DEF IInv, Lineage
  <2>3. tokenSupply[c] + SumFunctionOnSet(Unsplit(c), Account) + universeSupply[v]
            <= tokenMax[c]
    BY <1>8, <2>1 DEF SumInv, Room
  <2>4. SumFunctionOnSet(Unsplit(c)', Account) = SumFunctionOnSet(Unsplit(c), Account)
            + (migrationBalance'[account][v] - migrationBalance[account][v])
            - (childMigrated'[account][c] - childMigrated[account][c])
    BY <1>0, <1>3, <1>6, <1>8, <2>2, UnsplitChange
  <2>5. /\ SumFunctionOnSet(Unsplit(c), Account) \in Int
        /\ tokenSupply[c] \in Int /\ tokenMax[c] \in Int /\ universeSupply[v] \in Int
        /\ migrationBalance[account][v] \in Int /\ childMigrated[account][c] \in Int
        /\ childMigrated'[account][c] = childMigrated[account][c]
        /\ migrationBalance'[account][v] = migrationBalance[account][v]
        /\ universeSupply'[v] = universeSupply[v]
    BY <1>0, <1>3, <1>5, <1>6, <1>8, <2>2, UnsplitIsInt DEF TypeOK
  <2>6. c \in UniverseId
    BY <1>8
  <2> HIDE DEF c
  <2>7. tokenSupply'[c] + SumFunctionOnSet(Unsplit(c)', Account) + universeSupply'[v]
            <= tokenMax'[c]
    BY <1>1, <1>5, <2>1, <2>3, <2>4, <2>5, <2>6
  <2> QED
    BY <2>7 DEF c
<1> QED
  BY <1>4, <1>7, <1>8 DEF Room

\* burnRep and addRepToMigrationBalance: what the universe loses it either
\* burns or turns into credit.
LEMMA SumsBurn ==
    ASSUME SumInv, IInv', NEW account \in Holder, NEW u \in UniverseId, NEW amount \in Nat,
           NEW credited \in {0, amount},
           _burnRep(u, account, amount),
           universeSupply' = [universeSupply EXCEPT ![u] = @ - amount],
           UNCHANGED <<universes, childSupplySnapshot, childMigrated>>,
           migrationBalance' = [migrationBalance EXCEPT ![account][u] = @ + credited]
    PROVE  Room' /\ Counted'
<1>0. TypeOK /\ TypeOK' /\ IInv /\ account \in Account
  BY DEF SumInv, IInv, Holder
<1>1. Counted'
  BY <1>0, BurnCounted DEF SumInv
<1>2. /\ \A c \in UniverseId : c # u =>
            /\ tokenSupply'[c] = tokenSupply[c] /\ tokenMax'[c] = tokenMax[c]
            /\ universeSupply'[c] = universeSupply[c]
      /\ u # Genesis => /\ tokenSupply'[u] = tokenSupply[u] - amount
                        /\ tokenMax'[u] = tokenMax[u] - amount
      /\ universeSupply'[u] = universeSupply[u] - amount
      /\ \A a \in Account, v \in UniverseId :
            migrationBalance'[a][v] = IF a = account /\ v = u
                THEN migrationBalance[a][v] + credited ELSE migrationBalance[a][v]
  BY <1>0, BurnEffect DEF TypeOK
<1>3. ASSUME NEW v \in UniverseId, universes[v].forked
      PROVE  SumFunctionOnSet(Credit(v)', Account) + universeSupply'[v]
                 <= childSupplySnapshot[v]
  <2>1. SumFunctionOnSet(Credit(v)', Account) = SumFunctionOnSet(Credit(v), Account)
            + (migrationBalance'[account][v] - migrationBalance[account][v])
    BY <1>0, <1>2, CreditChange
  <2>2. SumFunctionOnSet(Credit(v), Account) + universeSupply[v] <= childSupplySnapshot[v]
    BY <1>3 DEF SumInv, Room
  <2>3. /\ SumFunctionOnSet(Credit(v), Account) \in Int /\ migrationBalance[account][v] \in Int
        /\ universeSupply[v] \in Int /\ childSupplySnapshot[v] \in Int
    BY <1>0, SumsAreInt DEF TypeOK
  <2> QED
    BY <1>0, <1>2, <2>1, <2>2, <2>3
<1>4. ASSUME NEW v \in UniverseId, NEW o \in Outcome, <<v, o>> \in UniverseId,
             universes[<<v, o>>].deployed
      PROVE  tokenSupply'[<<v, o>>] + SumFunctionOnSet(Unsplit(<<v, o>>)', Account)
                 + universeSupply'[v] <= tokenMax'[<<v, o>>]
  <2> DEFINE c == <<v, o>>
  <2>1. c \in UniverseId /\ c # Genesis
    BY <1>4, UniverseAssumption
  <2>2. tokenSupply[c] + SumFunctionOnSet(Unsplit(c), Account) + universeSupply[v]
            <= tokenMax[c]
    BY <1>4 DEF SumInv, Room
  <2>3. SumFunctionOnSet(Unsplit(c)', Account) = SumFunctionOnSet(Unsplit(c), Account)
            + (migrationBalance'[account][v] - migrationBalance[account][v])
            - (childMigrated'[account][c] - childMigrated[account][c])
    BY <1>0, <1>2, <1>4, UnsplitChange
  <2>4. /\ SumFunctionOnSet(Unsplit(c), Account) \in Int
        /\ tokenSupply[c] \in Int /\ tokenMax[c] \in Int /\ universeSupply[v] \in Int
        /\ migrationBalance[account][v] \in Int /\ childMigrated[account][c] \in Int
        /\ childMigrated'[account][c] = childMigrated[account][c]
    BY <1>0, <2>1, UnsplitIsInt DEF TypeOK
  <2>5. /\ migrationBalance'[account][v] - migrationBalance[account][v]
              <= universeSupply[v] - universeSupply'[v]
    BY <1>0, <1>2, <2>4
  <2> HIDE DEF c
  <2>6. tokenSupply'[c] + SumFunctionOnSet(Unsplit(c)', Account) + universeSupply'[v]
            <= tokenMax'[c]
    <3>1. universeSupply'[v] \in Int /\ migrationBalance'[account][v] \in Int
      BY <1>0, <1>2, <2>4
    <3>2. tokenMax[c] - tokenMax'[c] = tokenSupply[c] - tokenSupply'[c]
          /\ tokenMax'[c] \in Int /\ tokenSupply'[c] \in Int
      BY <1>2, <2>1, <2>4
    <3> QED
      BY SMTT(30), <2>2, <2>3, <2>4, <2>5, <3>1, <3>2
  <2> QED
    BY <2>6 DEF c
<1> QED
  BY <1>1, <1>3, <1>4 DEF Room

\* Children come into being with the room their parent's fork left, and a split
\* mints in them out of one account's credit.
LEMMA SumsSplit ==
    ASSUME SumInv, IInv', NEW account \in Account, NEW u \in UniverseId, NEW fresh,
           NEW split \in [UniverseId -> Nat],
           \A c \in fresh : c \in UniverseId /\ ~ universes[c].deployed
                            /\ \E o \in Outcome : c = <<u, o>>,
           \A c \in UniverseId : split[c] # 0 => \E o \in Outcome : c = <<u, o>>,
           universes[u].forked, DeployChildren(u, fresh),
           UNCHANGED migrationBalance,
           \A c \in UniverseId : tokenSupply'[c] = tokenSupply[c] + split[c],
           \A c \in UniverseId, a \in Account :
               /\ childMigrated'[a][c] = childMigrated[a][c]
                                           + (IF a = account THEN split[c] ELSE 0)
               /\ balance'[c][a] = balance[c][a] + (IF a = account THEN split[c] ELSE 0)
    PROVE  Room' /\ Counted'
<1>0. /\ TypeOK /\ TypeOK' /\ IInv
      /\ IsFiniteSet(Account) /\ IsFiniteSet(Holder) /\ Holder \in SUBSET Account
  BY ConstructorAssumption, FS_Subset DEF SumInv, IInv, Holder
<1>1. /\ childSupplySnapshot' = childSupplySnapshot
      /\ \A c \in UniverseId :
            /\ universes'[c].forked = universes[c].forked
            /\ universes'[c].deployed = (universes[c].deployed \/ c \in fresh)
            /\ c \notin fresh => /\ universeSupply'[c] = universeSupply[c]
                                 /\ tokenMax'[c] = tokenMax[c]
            /\ c \in fresh => tokenMax'[c] = childSupplySnapshot[u]
  BY <1>0, DeployEffect
\* A forked universe is deployed, so that its supply is not set.
<1>2. \A v \in UniverseId : universes[v].forked => universeSupply'[v] = universeSupply[v]
  BY <1>0, <1>1 DEF IInv, Untouched
<1>3. ASSUME NEW v \in UniverseId, universes'[v].forked
      PROVE  SumFunctionOnSet(Credit(v)', Account) + universeSupply'[v]
                 <= childSupplySnapshot'[v]
  <2>1. Credit(v)' = Credit(v)
    BY DEF Credit
  <2>2. SumFunctionOnSet(Credit(v), Account) + universeSupply[v] <= childSupplySnapshot[v]
    BY <1>1, <1>3 DEF SumInv, Room
  <2> QED
    BY <1>1, <1>2, <1>3, <2>1, <2>2
<1>4. ASSUME NEW v \in UniverseId, NEW o \in Outcome, <<v, o>> \in UniverseId,
             universes'[<<v, o>>].deployed
      PROVE  tokenSupply'[<<v, o>>] + SumFunctionOnSet(Unsplit(<<v, o>>)', Account)
                 + universeSupply'[v] <= tokenMax'[<<v, o>>]
  <2> DEFINE c == <<v, o>>
  <2>1. c \in UniverseId /\ c # Genesis
    BY <1>4, UniverseAssumption
  <2>2. SumFunctionOnSet(Unsplit(c)', Account)
            = SumFunctionOnSet(Unsplit(c), Account) - split[c]
    <3>1. SumFunctionOnSet(Unsplit(c)', Account) = SumFunctionOnSet(Unsplit(c), Account)
            + (migrationBalance'[account][v] - migrationBalance[account][v])
            - (childMigrated'[account][c] - childMigrated[account][c])
      <4>1. \A a \in Account \ {account} :
                /\ migrationBalance'[a][v] = migrationBalance[a][v]
                /\ childMigrated'[a][c] = childMigrated[a][c]
        BY <1>0, <2>1 DEF TypeOK
      <4> QED
        BY <1>0, <1>4, <4>1, UnsplitChange
    <3>2. /\ migrationBalance[account][v] \in Int /\ childMigrated[account][c] \in Int
          /\ split[c] \in Int /\ SumFunctionOnSet(Unsplit(c), Account) \in Int
      BY <1>0, <2>1, UnsplitIsInt DEF TypeOK
    <3>3. /\ migrationBalance'[account][v] = migrationBalance[account][v]
          /\ childMigrated'[account][c] = childMigrated[account][c] + split[c]
      BY <2>1
    <3> QED
      BY <3>1, <3>2, <3>3
  <2>3. tokenSupply[c] + SumFunctionOnSet(Unsplit(c), Account) + universeSupply'[v]
            <= tokenMax'[c]
    <3>1. CASE c \in fresh
      <4>1. v = u
        BY <3>1
      <4>2. /\ tokenSupply[c] = 0 /\ \A a \in Account : childMigrated[a][c] = 0
        BY <1>0, <2>1, <3>1 DEF IInv, Untouched
      <4>3. \A a \in Account : /\ Credit(u)[a] \in Int
                               /\ Unsplit(c)[a] = Credit(u)[a]
        <5>1. \A a \in Account : migrationBalance[a][u] \in Nat
          BY <1>0 DEF TypeOK
        <5>2. Parent(c) = u
          BY <4>1 DEF Parent
        <5> HIDE DEF c
        <5> QED
          BY <4>2, <5>1, <5>2 DEF Credit, Unsplit, UnsplitCredit
      <4>4. SumFunctionOnSet(Unsplit(c), Account) = SumFunctionOnSet(Credit(u), Account)
        BY <1>0, <4>3, SumAgree
      <4>5. SumFunctionOnSet(Credit(u), Account) + universeSupply[u] <= childSupplySnapshot[u]
        BY DEF SumInv, Room
      <4>6. tokenMax'[c] = childSupplySnapshot[u] /\ universeSupply'[v] = universeSupply[u]
        BY <1>1, <1>2, <2>1, <3>1, <4>1
      <4>7. SumFunctionOnSet(Credit(u), Account) \in Int
        BY <1>0, SumsAreInt
      <4> HIDE DEF c
      <4> QED
        BY <4>2, <4>4, <4>5, <4>6, <4>7
    <3>2. CASE c \notin fresh
      <4>1. universes[c].deployed
        BY <1>1, <1>4, <2>1, <3>2
      <4>2. universes[v].forked
        BY <1>0, <2>1, <4>1 DEF IInv, Lineage
      <4>3. tokenSupply[c] + SumFunctionOnSet(Unsplit(c), Account) + universeSupply[v]
                <= tokenMax[c]
        BY <1>4, <4>1 DEF SumInv, Room
      <4> QED
        BY <1>1, <1>2, <2>1, <3>2, <4>2, <4>3
    <3> QED
      BY <3>1, <3>2
  <2>4. /\ tokenSupply[c] \in Int /\ SumFunctionOnSet(Unsplit(c), Account) \in Int
        /\ split[c] \in Int /\ tokenSupply'[c] = tokenSupply[c] + split[c]
        /\ universeSupply'[v] \in Int /\ tokenMax'[c] \in Int
    BY <1>0, <2>1, UnsplitIsInt DEF TypeOK
  <2> HIDE DEF c
  <2>5. tokenSupply'[c] + SumFunctionOnSet(Unsplit(c)', Account) + universeSupply'[v]
            <= tokenMax'[c]
    BY <2>2, <2>3, <2>4
  <2> QED
    BY <2>5 DEF c
<1>5. Room'
  BY <1>3, <1>4 DEF Room
<1>6. ASSUME NEW c \in UniverseId, c # Genesis
      PROVE  SumFunctionOnSet(balance'[c], Account) = tokenSupply'[c]
  <2>1. /\ balance[c][account] \in Int /\ split[c] \in Int
        /\ \A a \in Account \ {account} : balance'[c][a] = balance[c][a]
        /\ balance'[c][account] = balance[c][account] + split[c]
    BY <1>0 DEF TypeOK
  <2>2. SumFunctionOnSet(balance'[c], Account) = SumFunctionOnSet(balance[c], Account)
            + (balance'[c][account] - balance[c][account])
    BY <1>0, <2>1, BalanceChange
  <2>3. SumFunctionOnSet(balance[c], Account) = tokenSupply[c] /\ tokenSupply[c] \in Int
    BY <1>0, <1>6 DEF SumInv, Counted, TypeOK
  <2> QED
    BY <2>1, <2>2, <2>3
<1>7. ASSUME NEW c \in UniverseId
      PROVE  SumFunctionOnSet(balance'[c], Holder) <= universeSupply'[c]
  <2>1. \A a \in Account : balance[c][a] \in Nat /\ balance'[c][a] \in Nat
    BY <1>0 DEF TypeOK
  <2>2. CASE c = Genesis
    <3>1. split[c] = 0 /\ c \notin fresh
      BY <2>2, UniverseAssumption
    <3>2. \A a \in Holder : balance[c][a] \in Int /\ balance'[c][a] = balance[c][a]
      BY <1>0, <2>1, <3>1
    <3>3. SumFunctionOnSet(balance'[c], Holder) = SumFunctionOnSet(balance[c], Holder)
      BY <1>0, <3>2, SumAgree
    <3> QED
      BY <1>1, <3>1, <3>3 DEF SumInv, Counted
  <2>3. CASE c # Genesis
    <3>1. SumFunctionOnSet(balance'[c], Holder) <= SumFunctionOnSet(balance'[c], Account)
      BY <1>0, <2>1, SumPart
    <3>2. tokenSupply'[c] <= universeSupply'[c]
      <4>1. CASE universes'[c].deployed
        BY <2>3, <4>1 DEF IInv, Lineage, Coherent
      <4>2. CASE ~ universes'[c].deployed
        BY <4>2 DEF IInv, Untouched
      <4> QED
        BY <4>1, <4>2
    <3>3. /\ SumFunctionOnSet(balance'[c], Holder) \in Int
          /\ tokenSupply'[c] \in Int /\ universeSupply'[c] \in Int
      BY <1>0, <2>1, SumNat DEF TypeOK
    <3> QED
      BY <1>6, <2>3, <3>1, <3>2, <3>3
  <2> QED
    BY <2>2, <2>3
<1> QED
  BY <1>5, <1>6, <1>7 DEF Counted

LEMMA SumsTransfer ==
    ASSUME SumInv, IInv', NEW u \in UniverseId, NEW from \in Holder, NEW to \in Holder,
           NEW amount \in Nat, transfer(u, from, to, amount)
    PROVE  Room' /\ Counted'
<1>0. /\ TypeOK /\ TypeOK' /\ Holder \in SUBSET Account
      /\ UNCHANGED <<universes, universeSupply, childSupplySnapshot, migrationBalance,
                     childMigrated, tokenSupply, tokenMax>>
  BY DEF SumInv, IInv, Holder, transfer, registry, migration
<1>1. Room'
  BY <1>0 DEF SumInv, Room, Credit, Unsplit, UnsplitCredit
<1>2. ASSUME NEW A \in {Account, Holder}
      PROVE  SumFunctionOnSet(balance'[u], A) = SumFunctionOnSet(balance[u], A)
  <2> DEFINE paid == [balance[u] EXCEPT ![from] = @ - amount]
  <2>1. from # to /\ balance'[u] = [paid EXCEPT ![to] = @ + amount]
    BY <1>0 DEF transfer, TypeOK
  <2>2. /\ from \in A /\ to \in A /\ IsFiniteSet(A)
        /\ \A a \in A : balance[u][a] \in Int
        /\ \A a \in Account : paid[a] = IF a = from THEN balance[u][a] - amount
                                                    ELSE balance[u][a]
    BY <1>0, ConstructorAssumption, FS_Subset DEF TypeOK
  <2>3. /\ DOMAIN paid = Account /\ A \in SUBSET Account
    BY <1>0 DEF TypeOK
  <2> HIDE DEF paid
  <2>4. SumFunctionOnSet(paid, A)
            = SumFunctionOnSet(balance[u], A) + (paid[from] - balance[u][from])
    BY <1>0, <2>2, <2>3, SumChange
  <2>5. /\ \A a \in A : balance'[u][a] \in Int /\ paid[a] \in Int
        /\ \A a \in A \ {to} : balance'[u][a] = paid[a]
        /\ balance'[u][to] = paid[to] + amount
    BY <2>1, <2>2, <2>3
  <2>6. SumFunctionOnSet(balance'[u], A)
            = SumFunctionOnSet(paid, A) + (balance'[u][to] - paid[to])
    BY <2>2, <2>5, SumChange
  <2>7. SumFunctionOnSet(balance[u], A) \in Int
    BY <1>0, SumsAreInt
  <2> QED
    BY <2>2, <2>3, <2>4, <2>5, <2>6, <2>7
<1>3. \A c \in UniverseId : c # u => balance'[c] = balance[c]
  BY <1>0 DEF transfer, TypeOK
<1>4. Counted'
  BY <1>0, <1>2, <1>3 DEF SumInv, Counted
<1> QED
  BY <1>1, <1>4

LEMMA NextSums == SumInv /\ [Next]_vars => SumInv'
<1> SUFFICES ASSUME SumInv, [Next]_vars PROVE SumInv'
  OBVIOUS
<1>0. IInv /\ IInv' /\ TypeOK
  BY NextIInv DEF SumInv, IInv
<1> USE InputAssumption
<1>1. ASSUME UNCHANGED <<registry, migration, tokens>> PROVE Room' /\ Counted'
  BY <1>1 DEF registry, migration, tokens, SumInv, Room, Counted, Credit, Unsplit, UnsplitCredit
<1>2. ASSUME NEW u \in UniverseId, NEW from \in Holder, NEW to \in Holder,
             NEW amount \in Amount, transfer(u, from, to, amount)
      PROVE  Room' /\ Counted'
  BY <1>0, <1>2, SumsTransfer
<1>3. ASSUME NEW account \in Holder, NEW u \in UniverseId, NEW q \in Question,
             forkUniverse(account, u, q)
      PROVE  Room' /\ Counted'
  BY <1>0, <1>3, SumsFork
<1>4. ASSUME NEW account \in Holder, NEW u \in UniverseId, NEW amount \in Amount,
             burnRep(account, u, amount)
      PROVE  Room' /\ Counted'
  <2>1. migrationBalance' = [migrationBalance EXCEPT ![account][u] = @ + 0]
    BY <1>0, <1>4 DEF burnRep, migration, TypeOK, Holder
  <2> QED
    BY <1>0, <1>4, <2>1, SumsBurn DEF burnRep, migration
<1>5. ASSUME NEW account \in Holder, NEW u \in UniverseId, NEW amount \in Amount,
             addRepToMigrationBalance(account, u, amount)
      PROVE  Room' /\ Counted'
  BY <1>0, <1>5, SumsBurn DEF addRepToMigrationBalance
<1>6. ASSUME NEW u \in UniverseId, NEW o \in Outcome, deployChild(u, o)
      PROVE  Room' /\ Counted'
  <2> DEFINE split == [c \in UniverseId |-> 0]
             fresh == {getChildUniverseId(u, o)}
  <2>1. /\ universes[u].forked /\ DeployChildren(u, fresh)
        /\ UNCHANGED <<migrationBalance, childMigrated, balance, tokenSupply>>
        /\ \A c \in fresh : /\ c \in UniverseId /\ ~ universes[c].deployed
                            /\ \E p \in Outcome : c = <<u, p>>
    BY <1>6 DEF deployChild, migration, getChildUniverseId
  <2>2. /\ \A c \in UniverseId : tokenSupply'[c] = tokenSupply[c] + split[c]
        /\ \A c \in UniverseId, a \in Account :
              /\ childMigrated'[a][c] = childMigrated[a][c]
                                          + (IF a = BurnAddress THEN split[c] ELSE 0)
              /\ balance'[c][a] = balance[c][a] + (IF a = BurnAddress THEN split[c] ELSE 0)
    BY <1>0, <2>1 DEF TypeOK
  <2>3. split \in [UniverseId -> Nat] /\ \A c \in UniverseId : split[c] = 0
    OBVIOUS
  <2>4. BurnAddress \in Account
    BY ConstructorAssumption
  <2> HIDE DEF split, fresh
  <2> QED
    BY <1>0, <2>1, <2>2, <2>3, <2>4, SumsSplit
<1>7. ASSUME NEW account \in Holder, NEW u \in UniverseId, NEW amount \in Amount,
             NEW copies \in [Outcome -> 0 .. MaxCopies],
             splitMigrationRep(account, u, amount, copies)
      PROVE  Room' /\ Counted'
  <2> DEFINE named == {o \in Outcome : copies[o] > 0}
             split == Split(u, amount, copies)
             fresh == FreshChildren(u, named)
  <2>1. /\ universes[u].forked /\ DeployChildren(u, fresh)
        /\ childMigrated' = [childMigrated EXCEPT
               ![account] = [c \in UniverseId |-> childMigrated[account][c] + split[c]]]
        /\ tokenSupply' = [c \in UniverseId |-> tokenSupply[c] + split[c]]
        /\ balance' = [c \in UniverseId |-> [balance[c] EXCEPT ![account] = @ + split[c]]]
        /\ UNCHANGED migrationBalance
    BY <1>7 DEF splitMigrationRep
  <2>2. split \in [UniverseId -> Nat]
    BY SplitType
  <2>3. \A c \in UniverseId : split[c] # 0 => \E o \in Outcome : c = <<u, o>>
    BY DEF Split, getChildUniverseId
  <2>4. \A c \in fresh : /\ c \in UniverseId /\ ~ universes[c].deployed
                         /\ \E o \in Outcome : c = <<u, o>>
    BY DEF FreshChildren, getChildUniverseId
  <2> HIDE DEF split, fresh
  <2>5. /\ \A c \in UniverseId : tokenSupply'[c] = tokenSupply[c] + split[c]
        /\ \A c \in UniverseId, a \in Account :
              /\ childMigrated'[a][c] = childMigrated[a][c]
                                          + (IF a = account THEN split[c] ELSE 0)
              /\ balance'[c][a] = balance[c][a] + (IF a = account THEN split[c] ELSE 0)
    BY <1>0, <2>1, <2>2 DEF TypeOK
  <2>6. account \in Account
    BY DEF Holder
  <2> QED
    BY <1>0, <2>1, <2>2, <2>3, <2>4, <2>5, <2>6, SumsSplit
<1>8. ASSUME \/ \E q \in Question, status \in {"open", "ended"} : createQuestion(q, status)
             \/ \E q \in Question : QuestionEnds(q)
             \/ UNCHANGED vars
      PROVE  Room' /\ Counted'
  BY <1>1, <1>8 DEF createQuestion, QuestionEnds, vars
<1>9. Room' /\ Counted'
  BY <1>2, <1>3, <1>4, <1>5, <1>6, <1>7, <1>8 DEF Next
<1> QED
  BY <1>0, <1>9 DEF SumInv

\* Room and Counted hold in every state, next to the invariant above.
THEOREM SumInvariance == Spec => []SumInv
<1>1. Init => SumInv
  BY InitIInv, InitSums DEF SumInv
<1>2. SumInv /\ [Next]_vars => SumInv'
  BY NextSums
<1> QED
  BY <1>1, <1>2, PTL DEF Spec

\* No holder's mint, burn or migration is refused because a supply ran out:
\* what an account may still mint fits under the child's ceiling, and the
\* registry counts all that holders own (ReputationToken.mint, _burnRep).
THEOREM HoldersNeverRefusedThm == Spec => []HoldersNeverRefused
<1>1. SumInv => HoldersNeverRefused
  <2> SUFFICES ASSUME SumInv PROVE HoldersNeverRefused
    OBVIOUS
  <2>0. IInv /\ TypeOK
    BY DEF SumInv, IInv
  <2>1. ASSUME NEW c \in DeployedChildren
        PROVE  tokenSupply[c]
                 + SumFunctionOnSet([a \in Account |-> UnsplitCredit(a, c)], Account)
                   <= tokenMax[c]
    <3>1. PICK u \in UniverseId, o \in Outcome : c = <<u, o>>
      BY <2>0, DeployedChildIsPair
    <3>2. c \in UniverseId /\ universes[c].deployed
      BY DEF DeployedChildren
    <3>3. tokenSupply[c] + SumFunctionOnSet(Unsplit(c), Account) + universeSupply[u]
              <= tokenMax[c]
      BY <3>1, <3>2 DEF SumInv, Room
    <3>4. /\ SumFunctionOnSet(Unsplit(c), Account) \in Int
          /\ tokenSupply[c] \in Int /\ tokenMax[c] \in Int /\ universeSupply[u] \in Nat
      BY <2>0, <3>1, <3>2, UnsplitIsInt DEF TypeOK
    <3>5. tokenSupply[c] + SumFunctionOnSet(Unsplit(c), Account) <= tokenMax[c]
      BY <3>3, <3>4
    <3> QED
      BY <3>5 DEF Unsplit
  <2>2. HoldersAreCounted
    BY DEF SumInv, Counted, HoldersAreCounted, DeployedChildren
  <2> QED
    BY <2>0, <2>1, <2>2 DEF HoldersNeverRefused, MintNeverRefused
<1> QED
  BY <1>1, SumInvariance, PTL
=============================================================================
