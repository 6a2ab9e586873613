------------------------ MODULE EscalationGameProofs ------------------------
(***************************************************************************)
(* What EscalationGame's runs check on one small game, for any finite set  *)
(* of vaults, any thresholds, amounts and delays, and any curve that rises *)
(* (CurveRisesAssumption):                                                 *)
(*   ExportedOnceThm          from IInv, the types and signs of the ledgers *)
(*   EscrowReconcilesThm      from IInv and the four Ledgers               *)
(*   PreviewMatchesRecordThm  from the types alone                         *)
(*   ResultIsTerminalThm      from SettledMeansFinal                       *)
(*   ClaimsFundedThm          from Funds, which bounds what the deposits   *)
(*                            of an outcome can be paid in all             *)
(***************************************************************************)
EXTENDS EscalationGame, SumTheorems, TLAPS

\* Staking is over once vaults are exported: an export needs a forked pool.
ExportsFollowTheFork == exported # {} => poolForked

\* An exported vault has nothing left in the ledger every claim is taken from.
ExportedHasNoPrincipal ==
    \A v \in exported, o \in Outcome : principal[v][o] = 0

\* Every deposit recorded is positive, so that taking it shows in the ledger.
DepositsArePositive ==
    \A o \in Outcome : \A i \in DOMAIN deposits[o] : deposits[o][i].amount > 0

LedgerTypes ==
    /\ deposits \in [Outcome -> Seq(DepositRecord)]
    /\ balance \in [Outcome -> Nat]
    /\ principal \in [Vault -> [Outcome -> Nat]]
    /\ exported \subseteq Vault

IInv == LedgerTypes /\ ExportsFollowTheFork /\ ExportedHasNoPrincipal /\ DepositsArePositive

\* What the four parts of IInv are about.
ledger == <<deposits, balance, principal, exported, poolForked>>

-----------------------------------------------------------------------------
(* Lemmas about the operators of the module.                               *)

\* The smaller of two integers is one of them and no larger than either.
LEMMA MinOfTwo ==
    ASSUME NEW a \in Int, NEW b \in Int
    PROVE  Min({a, b}) \in {a, b} /\ Min({a, b}) <= a /\ Min({a, b}) <= b
<1>1. \E x \in {a, b} : \A y \in {a, b} : x <= y
  BY a <= b \/ b <= a
<1> QED
  BY <1>1 DEF Min

\* An accepted stake is an integer; the checks of the record make it positive.
LEMMA AcceptedIsInt ==
    ASSUME LedgerTypes, NEW o \in Outcome, NEW requested \in Amount
    PROVE  AcceptedAmount(o, requested) \in Int
<1> DEFINE clipped == Min({requested, NonDecisionThreshold - balance[o]})
<1>1. requested \in Int /\ NonDecisionThreshold - balance[o] \in Int
  BY GameAssumption DEF LedgerTypes
<1>2. clipped \in Int
  BY <1>1, MinOfTwo
<1> HIDE DEF clipped
<1>3. AcceptedAmount(o, requested) = clipped \/ AcceptedAmount(o, requested) = clipped - 1
  BY DEF AcceptedAmount, clipped
<1> QED
  BY <1>2, <1>3

\* A deposit consumed belongs to a vault that has not been exported, and takes
\* its amount off that vault's principal.
LEMMA ConsumeEffect ==
    ASSUME IInv, NEW o \in Outcome, NEW i \in DOMAIN deposits[o],
           _consumeLocalDeposit(o, i)
    PROVE  /\ consumed' = consumed \cup {<<o, i>>}
           /\ deposits[o][i].depositor \in Vault \ exported
           /\ principal' \in [Vault -> [Outcome -> Nat]]
           /\ \A v \in exported, p \in Outcome : principal'[v][p] = principal[v][p]
<1> DEFINE v == deposits[o][i].depositor
           amount == deposits[o][i].amount
<1>1. v \in Vault /\ amount \in Nat /\ amount > 0
  <2>1. deposits[o] \in Seq(DepositRecord)
    BY DEF IInv, LedgerTypes
  <2>2. deposits[o][i] \in DepositRecord
    BY <2>1
  <2> QED
    BY <2>2 DEF DepositRecord, IInv, DepositsArePositive
<1>2. /\ principal[v][o] >= amount
      /\ principal' = [principal EXCEPT ![v][o] = @ - amount]
      /\ consumed' = consumed \cup {<<o, i>>}
  BY DEF _consumeLocalDeposit
<1>3. v \notin exported
  BY <1>1, <1>2 DEF IInv, ExportedHasNoPrincipal
<1>4. principal \in [Vault -> [Outcome -> Nat]] /\ exported \subseteq Vault
  BY DEF IInv, LedgerTypes
<1>5. principal[v][o] - amount \in Nat
  BY <1>1, <1>2, <1>4
<1> QED
  BY <1>1, <1>2, <1>3, <1>4, <1>5

-----------------------------------------------------------------------------
(* The inductive invariant.                                                *)

LEMMA InitIInv == Init => IInv
<1> SUFFICES ASSUME Init PROVE IInv
  OBVIOUS
<1> QED
  BY DEF Init, IInv, LedgerTypes, ExportsFollowTheFork, ExportedHasNoPrincipal,
         DepositsArePositive

LEMMA IInvUnchanged == IInv /\ UNCHANGED ledger => IInv'
BY DEF ledger, IInv, LedgerTypes, ExportsFollowTheFork, ExportedHasNoPrincipal,
       DepositsArePositive

\* Each action keeps the invariant.
LEMMA DepositKeepsIInv ==
    ASSUME IInv, NEW v \in Vault, NEW o \in Outcome, NEW requested \in Amount,
           depositToEscalationGame(v, o, requested)
    PROVE  IInv'
<1> DEFINE amount == AcceptedAmount(o, requested)
           record == [depositor |-> v, amount |-> amount, cumulative |-> balance[o] + amount]
<1>1. amount \in Nat /\ amount > 0
  <2>1. amount \in Int
    BY AcceptedIsInt DEF IInv
  <2>2. amount > 0
    BY DEF depositToEscalationGame, recordDeposit, RecordAccepts
  <2> QED
    BY <2>1, <2>2
<1>2. /\ balance' = [balance EXCEPT ![o] = balance[o] + amount]
      /\ deposits' = [deposits EXCEPT ![o] = Append(@, record)]
      /\ principal' = [principal EXCEPT ![v][o] = @ + amount]
      /\ exported' = exported /\ poolForked' = poolForked
      /\ ~ poolForked
  BY DEF depositToEscalationGame, recordDeposit, isOperational
<1> HIDE DEF amount
<1>3. /\ balance \in [Outcome -> Nat] /\ principal \in [Vault -> [Outcome -> Nat]]
      /\ deposits \in [Outcome -> Seq(DepositRecord)]
  BY DEF IInv, LedgerTypes
<1>4. record \in DepositRecord
  BY <1>1, <1>3 DEF DepositRecord
<1>5. deposits[o] \in Seq(DepositRecord)
  BY <1>3
<1>6. exported = {}
  BY <1>2 DEF IInv, ExportsFollowTheFork
<1>7. LedgerTypes'
  <2>1. Append(deposits[o], record) \in Seq(DepositRecord)
    BY <1>4, <1>5
  <2> HIDE DEF record
  <2> QED
    BY <1>1, <1>2, <1>3, <1>6, <2>1 DEF LedgerTypes
<1>8. DepositsArePositive'
  <2> SUFFICES ASSUME NEW p \in Outcome, NEW i \in DOMAIN deposits'[p]
               PROVE  deposits'[p][i].amount > 0
    BY DEF DepositsArePositive
  <2>1. CASE p # o
    BY <2>1, <1>2, <1>3 DEF IInv, DepositsArePositive
  <2>2. CASE p = o
    <3>1. deposits'[o] = Append(deposits[o], record)
      BY <1>2, <1>3
    <3>2. CASE i \in DOMAIN deposits[o]
      <4>1. deposits'[o][i] = deposits[o][i]
        BY <1>5, <3>1, <3>2
      <4> QED
        BY <2>2, <3>2, <4>1 DEF IInv, DepositsArePositive
    <3>3. CASE i \notin DOMAIN deposits[o]
      <4>1. i = Len(deposits[o]) + 1
        BY <1>5, <2>2, <3>1, <3>3
      <4>2. deposits'[o][i] = record
        BY <1>5, <3>1, <4>1
      <4> QED
        BY <1>1, <2>2, <4>2
    <3> QED
      BY <3>2, <3>3
  <2> QED
    BY <2>1, <2>2
<1>9. ExportsFollowTheFork' /\ ExportedHasNoPrincipal'
  BY <1>2, <1>6 DEF ExportsFollowTheFork, ExportedHasNoPrincipal
<1> QED
  BY <1>7, <1>8, <1>9 DEF IInv

LEMMA ConsumeKeepsIInv ==
    ASSUME IInv, NEW o \in Outcome, NEW i \in DOMAIN deposits[o],
           _consumeLocalDeposit(o, i),
           UNCHANGED <<deposits, balance, exported, poolForked>>
    PROVE  IInv'
<1>1. /\ principal' \in [Vault -> [Outcome -> Nat]]
      /\ \A v \in exported, p \in Outcome : principal'[v][p] = principal[v][p]
  BY ConsumeEffect
<1> QED
  BY <1>1 DEF IInv, LedgerTypes, ExportsFollowTheFork, ExportedHasNoPrincipal,
              DepositsArePositive

LEMMA ExportKeepsIInv ==
    ASSUME IInv, NEW v \in Vault, migrateVaultWithUnresolvedEscalation(v)
    PROVE  IInv'
<1>1. /\ exported' = exported \cup {v}
      /\ principal' = [principal EXCEPT ![v] = [o \in Outcome |-> 0]]
      /\ UNCHANGED <<deposits, balance, poolForked>>
      /\ poolForked
  BY DEF migrateVaultWithUnresolvedEscalation, _exportVaultUnresolvedTotals,
         MigrationOpen, stakes
<1>2. principal \in [Vault -> [Outcome -> Nat]]
  BY DEF IInv, LedgerTypes
<1>3. principal' \in [Vault -> [Outcome -> Nat]]
  BY <1>1, <1>2
<1>4. ExportedHasNoPrincipal'
  BY <1>1, <1>2 DEF IInv, ExportedHasNoPrincipal, LedgerTypes
<1> QED
  BY <1>1, <1>3, <1>4 DEF IInv, LedgerTypes, ExportsFollowTheFork, DepositsArePositive

\* A pool that leaves for a fork changes nothing of the ledger.
LEMMA LeaveKeepsIInv ==
    ASSUME IInv, NEW own, NEW bucket, LeavePool(own, bucket)
    PROVE  IInv'
BY DEF LeavePool, stakes, locals, IInv, LedgerTypes, ExportsFollowTheFork,
       ExportedHasNoPrincipal, DepositsArePositive

LEMMA NextKeepsIInv == IInv /\ [Next]_vars => IInv'
<1> SUFFICES ASSUME IInv, [Next]_vars PROVE IInv'
  OBVIOUS
<1>1. ASSUME NEW v \in Vault, NEW o \in Outcome, NEW requested \in Amount,
             depositToEscalationGame(v, o, requested)
      PROVE  IInv'
  BY <1>1, DepositKeepsIInv
<1>2. ASSUME NEW o \in Outcome, NEW i \in DOMAIN deposits[o],
             withdrawFromEscalationGame(o, i) \/ claimForkedEscalationDeposits(o, i)
      PROVE  IInv'
  <2>1. /\ _consumeLocalDeposit(o, i)
        /\ UNCHANGED <<deposits, balance, exported, poolForked>>
    BY <1>2 DEF withdrawFromEscalationGame, withdrawDeposit, claimForkedEscalationDeposits, stakes
  <2> QED
    BY <2>1, ConsumeKeepsIInv
<1>3. ASSUME NEW v \in Vault, migrateVaultWithUnresolvedEscalation(v)
      PROVE  IInv'
  BY <1>3, ExportKeepsIInv
<1>4. ASSUME \/ initiateSecurityPoolFork
             \/ \E threshold \in ForkThresholds : forkZoltarWithOwnEscalationGame(threshold)
      PROVE  IInv'
  BY <1>4, LeaveKeepsIInv DEF initiateSecurityPoolFork, forkZoltarWithOwnEscalationGame
<1>5. ASSUME \/ Tick \/ sweepResidualRepToSecurityPool \/ UNCHANGED vars
             \/ \E threshold \in ForkThresholds : UniverseBurns(threshold)
             \/ \E threshold \in ForkThresholds : UniverseForks(threshold)
      PROVE  IInv'
  <2>1. UNCHANGED ledger
    BY <1>5 DEF Tick, sweepResidualRepToSecurityPool, UniverseBurns, UniverseForks,
                vars, stakes, locals, ledger
  <2> QED
    BY <2>1, IInvUnchanged
<1> QED
  BY <1>1, <1>2, <1>3, <1>4, <1>5 DEF Next

\* The ledger invariant holds in every reachable state.
THEOREM Invariance == Spec => []IInv
<1> QED
  BY InitIInv, NextKeepsIInv, PTL DEF Spec

-----------------------------------------------------------------------------
(* Exports.                                                                *)

\* No step consumes a deposit of an exported vault: what the vault took along
\* as totals (EscalationGameEscrow.sol) it cannot claim deposit by deposit as
\* well (EscalationGameForker.sol), whichever it did first.
THEOREM ExportedOnceThm == Spec => ExportedOnce
<1> DEFINE Kept == \A v \in Vault :
        v \in exported =>
            \A o \in Outcome : (consumed' \ consumed) \cap ({o} \X Of(v, o)) = {}
<1>1. IInv /\ Next => Kept
  <2> SUFFICES ASSUME IInv, Next PROVE Kept
    OBVIOUS
  <2>1. ASSUME NEW p \in Outcome, NEW i \in DOMAIN deposits[p],
               withdrawFromEscalationGame(p, i) \/ claimForkedEscalationDeposits(p, i)
        PROVE  Kept
    <3>1. _consumeLocalDeposit(p, i)
      BY <2>1 DEF withdrawFromEscalationGame, withdrawDeposit, claimForkedEscalationDeposits
    <3>2. /\ consumed' = consumed \cup {<<p, i>>}
          /\ deposits[p][i].depositor \notin exported
      BY <3>1, ConsumeEffect
    <3> QED
      BY <3>2 DEF Of, Indices
  <2>2. ASSUME \/ Tick \/ sweepResidualRepToSecurityPool \/ initiateSecurityPoolFork
               \/ \E v \in Vault, o \in Outcome, requested \in Amount :
                      depositToEscalationGame(v, o, requested)
               \/ \E threshold \in ForkThresholds : UniverseBurns(threshold)
               \/ \E threshold \in ForkThresholds : UniverseForks(threshold)
               \/ \E threshold \in ForkThresholds : forkZoltarWithOwnEscalationGame(threshold)
               \/ \E v \in Vault : migrateVaultWithUnresolvedEscalation(v)
        PROVE  consumed' = consumed
    <3>1. CASE \E v \in Vault, o \in Outcome, requested \in Amount :
                   depositToEscalationGame(v, o, requested)
      BY <3>1 DEF depositToEscalationGame, recordDeposit
    <3>2. CASE \/ initiateSecurityPoolFork
               \/ \E threshold \in ForkThresholds : forkZoltarWithOwnEscalationGame(threshold)
      BY <3>2 DEF initiateSecurityPoolFork, forkZoltarWithOwnEscalationGame, LeavePool
    <3>3. CASE \/ Tick \/ sweepResidualRepToSecurityPool
               \/ \E threshold \in ForkThresholds : UniverseBurns(threshold)
               \/ \E threshold \in ForkThresholds : UniverseForks(threshold)
               \/ \E v \in Vault : migrateVaultWithUnresolvedEscalation(v)
      BY <3>3 DEF Tick, sweepResidualRepToSecurityPool, UniverseBurns, UniverseForks,
                  migrateVaultWithUnresolvedEscalation
    <3> QED
      BY <2>2, <3>1, <3>2, <3>3
  <2> QED
    BY <2>1, <2>2 DEF Next
<1>2. IInv /\ [Next]_vars => [Kept]_vars
  BY <1>1
<1> QED
  BY <1>2, Invariance, PTL DEF Spec, ExportedOnce

-----------------------------------------------------------------------------
(* The four ledgers of the escrow.                                         *)

\* What the deposits of d at the indices in I add up to.
Amounts(d, I) == SumFunctionOnSet([i \in I |-> d[i].amount], I)

OutcomeLedger ==
    \A o \in Outcome : localUnresolved[o] = Amounts(deposits[o], Unconsumed(o))
PrincipalLedger ==
    \A v \in Vault, o \in Outcome : principal[v][o] =
        IF v \in exported THEN 0 ELSE Amounts(deposits[o], Unconsumed(o) \cap Of(v, o))
VaultLedger ==
    \A v \in Vault : vaultUnresolved[v] = SumFunctionOnSet(principal[v], Outcome)
                     /\ escrow[v] = vaultUnresolved[v]
TotalLedger ==
    /\ totalLocalUnresolved = SumFunctionOnSet(vaultUnresolved, Vault)
    /\ totalDisputeStaked = SumFunctionOnSet(escrow, Vault)

Ledgers == OutcomeLedger /\ PrincipalLedger /\ VaultLedger /\ TotalLedger

\* EscrowReconciles follows from its parts and from nothing else.
LEMMA LedgersReconcile == EscrowReconciles <=> TypeOK /\ Ledgers
BY DEF EscrowReconciles, Ledgers, OutcomeLedger, PrincipalLedger, VaultLedger, TotalLedger,
       Staked, Amounts

LEMMA OutcomesAreFinite == IsFiniteSet(Outcome)
<1>1. IsFiniteSet({"Invalid"})
  BY FS_Singleton
<1>2. IsFiniteSet({"Invalid"} \cup {"Yes"})
  BY <1>1, FS_AddElement
<1>3. IsFiniteSet(({"Invalid"} \cup {"Yes"}) \cup {"No"})
  BY <1>2, FS_AddElement
<1>4. Outcome = ({"Invalid"} \cup {"Yes"}) \cup {"No"}
  BY DEF Outcome
<1> QED
  BY <1>3, <1>4

LEMMA IndicesAreFinite ==
    ASSUME NEW d \in Seq(DepositRecord), NEW I \in SUBSET DOMAIN d
    PROVE  IsFiniteSet(I)
<1>1. DOMAIN d = 1 .. Len(d) /\ Len(d) \in Nat
  OBVIOUS
<1>2. IsFiniteSet(1 .. Len(d))
  BY <1>1, FS_Interval
<1> QED
  BY <1>1, <1>2, FS_Subset

LEMMA RecordsOf ==
    ASSUME NEW d \in Seq(DepositRecord), NEW i \in DOMAIN d
    PROVE  /\ d[i] \in DepositRecord
           /\ d[i].depositor \in Vault /\ d[i].amount \in Nat /\ d[i].cumulative \in Nat
<1>1. d[i] \in DepositRecord
  OBVIOUS
<1> QED
  BY <1>1 DEF DepositRecord

LEMMA AmountsNat ==
    ASSUME NEW d \in Seq(DepositRecord), NEW I \in SUBSET DOMAIN d
    PROVE  Amounts(d, I) \in Nat
<1> DEFINE f == [i \in I |-> d[i].amount]
<1>1. \A i \in I : f[i] \in Nat
  BY RecordsOf
<1> HIDE DEF f
<1>2. SumFunctionOnSet(f, I) \in Nat
  BY <1>1, IndicesAreFinite, SumNat
<1> QED
  BY <1>2 DEF Amounts, f

\* A deposit that no longer counts takes its amount along.
LEMMA AmountsRemove ==
    ASSUME NEW d \in Seq(DepositRecord), NEW I \in SUBSET DOMAIN d, NEW e \in I
    PROVE  Amounts(d, I) = d[e].amount + Amounts(d, I \ {e})
<1> DEFINE f == [i \in I |-> d[i].amount]
           g == [i \in I \ {e} |-> d[i].amount]
<1>0. \A i \in I : d[i].amount \in Nat
  BY RecordsOf
<1>1. /\ \A i \in I : f[i] \in Int
      /\ \A i \in I \ {e} : f[i] \in Int /\ g[i] = f[i]
      /\ f[e] = d[e].amount
  BY <1>0
<1>2. IsFiniteSet(I) /\ IsFiniteSet(I \ {e})
  BY IndicesAreFinite, FS_Subset
<1> HIDE DEF f, g
<1>3. SumFunctionOnSet(f, I) = f[e] + SumFunctionOnSet(f, I \ {e})
  BY <1>1, <1>2, SumRemove
<1>4. SumFunctionOnSet(g, I \ {e}) = SumFunctionOnSet(f, I \ {e})
  BY <1>1, <1>2, SumAgree
<1> QED
  BY <1>1, <1>3, <1>4 DEF Amounts, f, g

\* A deposit recorded at the end leaves the others and adds its amount.
LEMMA AmountsAppend ==
    ASSUME NEW d \in Seq(DepositRecord), NEW I \in SUBSET DOMAIN d, NEW r \in DepositRecord
    PROVE  /\ Amounts(Append(d, r), I) = Amounts(d, I)
           /\ Amounts(Append(d, r), I \cup {Len(d) + 1}) = Amounts(d, I) + r.amount
<1> DEFINE c == Append(d, r)
           e == Len(d) + 1
<1>1. /\ c \in Seq(DepositRecord)
      /\ DOMAIN c = DOMAIN d \cup {e} /\ e \notin DOMAIN d
      /\ \A i \in DOMAIN d : c[i] = d[i]
      /\ c[e] = r
  OBVIOUS
<1> HIDE DEF c, e
<1>2. Amounts(c, I) = Amounts(d, I)
  <2> DEFINE f == [i \in I |-> d[i].amount]
             g == [i \in I |-> c[i].amount]
  <2>1. f = g
    BY <1>1
  <2> QED
    BY <2>1 DEF Amounts
<1>3. (I \cup {e}) \ {e} = I
  BY <1>1
<1>4. Amounts(c, I \cup {e}) = c[e].amount + Amounts(c, (I \cup {e}) \ {e})
  BY <1>1, AmountsRemove
<1>5. Amounts(c, (I \cup {e}) \ {e}) = Amounts(c, I)
  BY <1>3, Zenon
<1>6. Amounts(d, I) \in Nat /\ r.amount \in Nat
  BY AmountsNat DEF DepositRecord
<1> QED
  BY <1>1, <1>2, <1>4, <1>5, <1>6 DEF c, e

\* A deposit still counted is part of what its outcome and its vault hold.
LEMMA ConsumeKeepsLedgers ==
    ASSUME IInv, TypeOK, Ledgers, NEW o \in Outcome, NEW i \in DOMAIN deposits[o],
           _consumeLocalDeposit(o, i), UNCHANGED <<deposits, exported>>
    PROVE  /\ Ledgers'
           /\ consumed' \subseteq UNION {{p} \X (1 .. Len(deposits[p])) : p \in Outcome}
           /\ localUnresolved' \in [Outcome -> Nat]
           /\ escrow' \in [Vault -> Nat] /\ totalDisputeStaked' \in Nat
           /\ vaultUnresolved' \in [Vault -> Nat] /\ totalLocalUnresolved' \in Nat
           /\ principal' \in [Vault -> [Outcome -> Nat]]
<1>1. /\ deposits \in [Outcome -> Seq(DepositRecord)]
      /\ localUnresolved \in [Outcome -> Nat]
      /\ escrow \in [Vault -> Nat] /\ totalDisputeStaked \in Nat
      /\ vaultUnresolved \in [Vault -> Nat] /\ totalLocalUnresolved \in Nat
      /\ principal \in [Vault -> [Outcome -> Nat]]
      /\ IsFiniteSet(Vault)
  BY GameAssumption DEF TypeOK
<1>2. deposits[o] \in Seq(DepositRecord)
  BY <1>1
<1>3. PICK v \in Vault, amount \in Nat :
           v = deposits[o][i].depositor /\ amount = deposits[o][i].amount
  BY <1>2, RecordsOf
<1> DEFINE own == Unconsumed(o) \cap Of(v, o)
<1>4. v \notin exported
  BY <1>3, ConsumeEffect
<1>5. /\ <<o, i>> \notin consumed
      /\ vaultUnresolved[v] >= amount
      /\ principal[v][o] >= amount
      /\ escrow[v] >= amount
      /\ consumed' = consumed \cup {<<o, i>>}
      /\ localUnresolved' = [localUnresolved EXCEPT ![o] = @ - amount]
      /\ vaultUnresolved' = [vaultUnresolved EXCEPT ![v] = @ - amount]
      /\ principal' = [principal EXCEPT ![v][o] = @ - amount]
      /\ totalLocalUnresolved' = totalLocalUnresolved - amount
      /\ escrow' = [escrow EXCEPT ![v] = @ - amount]
      /\ totalDisputeStaked' = totalDisputeStaked - amount
      /\ deposits' = deposits /\ exported' = exported
  BY <1>3 DEF _consumeLocalDeposit
<1>6. /\ i \in Unconsumed(o) /\ i \in own
      /\ Unconsumed(o)' = Unconsumed(o) \ {i}
      /\ \A p \in Outcome \ {o} : Unconsumed(p)' = Unconsumed(p)
      /\ \A u \in Vault, p \in Outcome : Of(u, p)' = Of(u, p)
      /\ \A u \in Vault \ {v} : i \notin Of(u, o)
      /\ \A p \in Outcome : Unconsumed(p) \subseteq DOMAIN deposits[p]
  BY <1>3, <1>5 DEF Unconsumed, Indices, Of
<1>7. consumed' \subseteq UNION {{p} \X (1 .. Len(deposits[p])) : p \in Outcome}
  <2>1. i \in 1 .. Len(deposits[o])
    BY <1>2
  <2>2. <<o, i>> \in UNION {{p} \X (1 .. Len(deposits[p])) : p \in Outcome}
    BY <2>1
  <2> QED
    BY <1>5, <2>2 DEF TypeOK
<1>8. Amounts(deposits[o], Unconsumed(o)) = amount + Amounts(deposits[o], Unconsumed(o) \ {i})
  BY <1>2, <1>3, <1>6, AmountsRemove
<1>9. Amounts(deposits[o], own) = amount + Amounts(deposits[o], own \ {i})
  BY <1>2, <1>3, <1>6, AmountsRemove
<1>10. /\ Amounts(deposits[o], Unconsumed(o) \ {i}) \in Nat
       /\ Amounts(deposits[o], own \ {i}) \in Nat
  <2>1. Unconsumed(o) \ {i} \in SUBSET DOMAIN deposits[o] /\ own \ {i} \in SUBSET DOMAIN deposits[o]
    BY <1>6
  <2> QED
    BY <1>2, <2>1, AmountsNat
<1>11. localUnresolved' \in [Outcome -> Nat] /\ OutcomeLedger'
  <2>1. localUnresolved[o] = Amounts(deposits[o], Unconsumed(o))
    BY DEF Ledgers, OutcomeLedger
  <2>2. localUnresolved' = [localUnresolved EXCEPT
                                ![o] = Amounts(deposits[o], Unconsumed(o) \ {i})]
    <3>1. localUnresolved[o] - amount = Amounts(deposits[o], Unconsumed(o) \ {i})
      BY <1>8, <1>10, <2>1
    <3> QED
      BY <1>5, <3>1
  <2>3. ASSUME NEW p \in Outcome
        PROVE  localUnresolved'[p] = Amounts(deposits'[p], Unconsumed(p)')
    <3>1. CASE p = o
      <4>1. Amounts(deposits'[o], Unconsumed(o)') = Amounts(deposits[o], Unconsumed(o) \ {i})
        BY <1>5, <1>6, Zenon
      <4> QED
        BY <1>1, <2>2, <3>1, <4>1
    <3>2. CASE p # o
      <4>1. Amounts(deposits'[p], Unconsumed(p)') = Amounts(deposits[p], Unconsumed(p))
        BY <1>5, <1>6, <3>2
      <4> QED
        BY <1>1, <2>2, <3>2, <4>1 DEF Ledgers, OutcomeLedger
    <3> QED
      BY <3>1, <3>2
  <2>4. OutcomeLedger'
    BY <2>3 DEF OutcomeLedger
  <2> QED
    BY <1>1, <1>10, <2>2, <2>4
<1>12. principal' = [principal EXCEPT ![v][o] = Amounts(deposits[o], own \ {i})]
  <2>1. principal[v][o] = Amounts(deposits[o], own)
    BY <1>4 DEF Ledgers, PrincipalLedger
  <2>2. principal[v][o] - amount = Amounts(deposits[o], own \ {i})
    BY <1>9, <1>10, <2>1
  <2> QED
    BY <1>5, <2>2
<1>13. principal' \in [Vault -> [Outcome -> Nat]]
  BY <1>1, <1>10, <1>12
<1>14. PrincipalLedger'
  <2> SUFFICES ASSUME NEW u \in Vault, NEW p \in Outcome
               PROVE  principal'[u][p] = IF u \in exported' THEN 0
                          ELSE Amounts(deposits'[p], Unconsumed(p)' \cap Of(u, p)')
    BY DEF PrincipalLedger
  <2>1. CASE u = v /\ p = o
    <3>1. Unconsumed(o)' \cap Of(v, o)' = own \ {i}
      BY <1>6
    <3>2. Amounts(deposits'[o], Unconsumed(o)' \cap Of(v, o)') = Amounts(deposits[o], own \ {i})
      BY <1>5, <3>1, Zenon
    <3> QED
      BY <1>1, <1>4, <1>5, <1>12, <2>1, <3>2
  <2>2. CASE ~ (u = v /\ p = o)
    <3>1. Unconsumed(p)' \cap Of(u, p)' = Unconsumed(p) \cap Of(u, p)
      BY <1>6, <2>2
    <3>2. Amounts(deposits'[p], Unconsumed(p)' \cap Of(u, p)')
              = Amounts(deposits[p], Unconsumed(p) \cap Of(u, p))
      BY <1>5, <3>1, Zenon
    <3>3. principal'[u][p] = principal[u][p]
      BY <1>1, <1>5, <2>2
    <3>4. principal[u][p] = IF u \in exported THEN 0
                            ELSE Amounts(deposits[p], Unconsumed(p) \cap Of(u, p))
      BY DEF Ledgers, PrincipalLedger
    <3> QED
      BY <1>5, <3>2, <3>3, <3>4
  <2> QED
    BY <2>1, <2>2
<1>15. /\ vaultUnresolved' \in [Vault -> Nat]
       /\ escrow' \in [Vault -> Nat]
  <2>1. vaultUnresolved[v] - amount \in Nat /\ escrow[v] - amount \in Nat
    BY <1>1, <1>5
  <2> QED
    BY <1>1, <1>5, <2>1
<1>16. VaultLedger'
  <2> SUFFICES ASSUME NEW u \in Vault
               PROVE  /\ vaultUnresolved'[u] = SumFunctionOnSet(principal'[u], Outcome)
                      /\ escrow'[u] = vaultUnresolved'[u]
    BY DEF VaultLedger
  <2>1. /\ vaultUnresolved[u] = SumFunctionOnSet(principal[u], Outcome)
        /\ escrow[u] = vaultUnresolved[u]
    BY DEF Ledgers, VaultLedger
  <2>2. CASE u = v
    <3>1. /\ \A p \in Outcome : principal[v][p] \in Int /\ principal'[v][p] \in Int
          /\ \A p \in Outcome \ {o} : principal'[v][p] = principal[v][p]
          /\ principal'[v][o] = principal[v][o] - amount
      BY <1>1, <1>5, <1>13
    <3>2. SumFunctionOnSet(principal'[v], Outcome)
              = SumFunctionOnSet(principal[v], Outcome) + (principal'[v][o] - principal[v][o])
      BY <3>1, OutcomesAreFinite, SumChange
    <3> QED
      BY <1>1, <1>5, <2>1, <2>2, <3>1, <3>2
  <2>3. CASE u # v
    BY <1>1, <1>5, <2>1, <2>3
  <2> QED
    BY <2>2, <2>3
<1>17. TotalLedger'
  <2>1. /\ vaultUnresolved \in [Vault -> Int] /\ escrow \in [Vault -> Int]
        /\ IsFiniteSet(Vault) /\ amount \in Int
    BY <1>1
  <2>2. SumFunctionOnSet(vaultUnresolved', Vault) = SumFunctionOnSet(vaultUnresolved, Vault) - amount
    BY <1>5, <2>1, SumRaise
  <2>3. SumFunctionOnSet(escrow', Vault) = SumFunctionOnSet(escrow, Vault) - amount
    BY <1>5, <2>1, SumRaise
  <2> QED
    BY <1>5, <2>2, <2>3 DEF Ledgers, TotalLedger
<1>18. totalLocalUnresolved' \in Nat /\ totalDisputeStaked' \in Nat
  <2>1. /\ SumFunctionOnSet(vaultUnresolved', Vault) \in Nat
        /\ SumFunctionOnSet(escrow', Vault) \in Nat
    BY <1>1, <1>15, SumNat
  <2> QED
    BY <1>17, <2>1 DEF TotalLedger
<1> QED
  BY <1>7, <1>11, <1>13, <1>14, <1>15, <1>16, <1>17, <1>18 DEF Ledgers

\* A stake enters every ledger with the amount recorded.
LEMMA DepositKeepsLedgers ==
    ASSUME IInv, TypeOK, Ledgers, NEW v \in Vault, NEW o \in Outcome, NEW requested \in Amount,
           depositToEscalationGame(v, o, requested)
    PROVE  TypeOK' /\ Ledgers'
<1>1. /\ deposits \in [Outcome -> Seq(DepositRecord)]
      /\ balance \in [Outcome -> 0 .. NonDecisionThreshold]
      /\ localUnresolved \in [Outcome -> Nat]
      /\ escrow \in [Vault -> Nat] /\ totalDisputeStaked \in Nat
      /\ vaultUnresolved \in [Vault -> Nat] /\ totalLocalUnresolved \in Nat
      /\ principal \in [Vault -> [Outcome -> Nat]]
      /\ vaultRep \in [Vault -> Nat] /\ gameRep \in Nat
      /\ consumed \subseteq UNION {{p} \X (1 .. Len(deposits[p])) : p \in Outcome}
      /\ IsFiniteSet(Vault)
  BY GameAssumption DEF TypeOK
<1>2. PICK amount \in Nat :
          /\ amount > 0
          /\ amount = AcceptedAmount(o, requested)
  <2>1. AcceptedAmount(o, requested) \in Int
    BY AcceptedIsInt DEF IInv
  <2>2. AcceptedAmount(o, requested) > 0
    BY DEF depositToEscalationGame, recordDeposit, RecordAccepts
  <2> QED
    BY <2>1, <2>2
<1>3. PICK record \in DepositRecord :
          record = [depositor |-> v, amount |-> amount, cumulative |-> balance[o] + amount]
  <2>1. balance[o] + amount \in Nat
    BY <1>1
  <2> QED
    BY <2>1 DEF DepositRecord
<1>4. /\ balance[o] + amount <= NonDecisionThreshold
      /\ balance' = [balance EXCEPT ![o] = balance[o] + amount]
      /\ deposits' = [deposits EXCEPT ![o] = Append(@, record)]
      /\ escrow' = [escrow EXCEPT ![v] = @ + amount]
      /\ totalDisputeStaked' = totalDisputeStaked + amount
      /\ vaultUnresolved' = [vaultUnresolved EXCEPT ![v] = @ + amount]
      /\ totalLocalUnresolved' = totalLocalUnresolved + amount
      /\ principal' = [principal EXCEPT ![v][o] = @ + amount]
      /\ localUnresolved' = [localUnresolved EXCEPT ![o] = @ + amount]
      /\ vaultRep[v] >= amount
      /\ vaultRep' = [vaultRep EXCEPT ![v] = @ - amount]
      /\ gameRep' = gameRep + amount
      /\ UNCHANGED <<now, consumed, exported, poolForked, forkTime, forkThreshold, fork, directPaid>>
  BY <1>2, <1>3 DEF depositToEscalationGame, recordDeposit, RecordAccepts, universe
<1>5. /\ activationTime' \in Nat
      /\ nonDecisionTimestamp' \in Nat
  <2>1. /\ now \in Nat /\ ActivationDelay \in Nat
        /\ activationTime \in Nat /\ nonDecisionTimestamp \in Nat
    BY GameAssumption DEF TypeOK
  <2>2. activationTime' = activationTime \/ activationTime' = now + ActivationDelay
    BY DEF depositToEscalationGame
  <2>3. nonDecisionTimestamp' = nonDecisionTimestamp \/ nonDecisionTimestamp' = now
    BY DEF depositToEscalationGame, recordDeposit
  <2> QED
    BY <2>1, <2>2, <2>3
<1>6. exported = {}
  BY DEF depositToEscalationGame, isOperational, IInv, ExportsFollowTheFork
<1>7. record.amount = amount /\ record.depositor = v
  BY <1>3
<1>8. PICK e \in Nat :
        /\ e = Len(deposits[o]) + 1
        /\ deposits[o] \in Seq(DepositRecord)
        /\ deposits'[o] = Append(deposits[o], record)
        /\ \A p \in Outcome \ {o} : deposits'[p] = deposits[p]
        /\ DOMAIN deposits'[o] = DOMAIN deposits[o] \cup {e} /\ e \notin DOMAIN deposits[o]
        /\ \A i \in DOMAIN deposits[o] : deposits'[o][i] = deposits[o][i]
        /\ deposits'[o][e] = record
        /\ <<o, e>> \notin consumed
  <2>1. /\ deposits[o] \in Seq(DepositRecord)
        /\ deposits'[o] = Append(deposits[o], record)
        /\ \A p \in Outcome \ {o} : deposits'[p] = deposits[p]
    BY <1>1, <1>4
  <2>2. PICK e \in Nat : e = Len(deposits[o]) + 1
    BY <2>1
  <2>3. /\ DOMAIN deposits[o] = 1 .. Len(deposits[o])
        /\ DOMAIN Append(deposits[o], record) = DOMAIN deposits[o] \cup {e}
        /\ e \notin DOMAIN deposits[o] /\ e \notin 1 .. Len(deposits[o])
        /\ \A i \in DOMAIN deposits[o] : Append(deposits[o], record)[i] = deposits[o][i]
        /\ Append(deposits[o], record)[e] = record
    BY <2>1, <2>2
  <2>4. <<o, e>> \notin consumed
    BY <1>1, <2>3
  <2> QED
    BY <2>1, <2>2, <2>3, <2>4
<1>9. deposits' \in [Outcome -> Seq(DepositRecord)]
  <2>1. Append(deposits[o], record) \in Seq(DepositRecord)
    BY <1>8
  <2> QED
    BY <1>1, <1>4, <2>1
<1>10. /\ Unconsumed(o)' = Unconsumed(o) \cup {e}
       /\ Of(v, o)' = Of(v, o) \cup {e}
       /\ \A u \in Vault \ {v} : Of(u, o)' = Of(u, o)
       /\ \A p \in Outcome \ {o} : Unconsumed(p)' = Unconsumed(p)
       /\ \A u \in Vault, p \in Outcome \ {o} : Of(u, p)' = Of(u, p)
       /\ \A p \in Outcome : Unconsumed(p) \subseteq DOMAIN deposits[p]
  BY <1>4, <1>7, <1>8 DEF Unconsumed, Of, Indices
<1>11. ASSUME NEW I \in SUBSET DOMAIN deposits[o]
       PROVE  /\ Amounts(deposits'[o], I) = Amounts(deposits[o], I)
              /\ Amounts(deposits'[o], I \cup {e}) = Amounts(deposits[o], I) + amount
  <2>1. /\ Amounts(Append(deposits[o], record), I) = Amounts(deposits[o], I)
        /\ Amounts(Append(deposits[o], record), I \cup {Len(deposits[o]) + 1})
               = Amounts(deposits[o], I) + record.amount
    <3> DEFINE d == deposits[o]
    <3>1. d \in Seq(DepositRecord) /\ I \in SUBSET DOMAIN d /\ record \in DepositRecord
      BY <1>3, <1>8
    <3> HIDE DEF d
    <3>2. /\ Amounts(Append(d, record), I) = Amounts(d, I)
          /\ Amounts(Append(d, record), I \cup {Len(d) + 1}) = Amounts(d, I) + record.amount
      BY <3>1, AmountsAppend
    <3> QED
      BY <3>2 DEF d
  <2> QED
    BY <1>7, <1>8, <2>1
<1>12. OutcomeLedger'
  <2> SUFFICES ASSUME NEW p \in Outcome
               PROVE  localUnresolved'[p] = Amounts(deposits'[p], Unconsumed(p)')
    BY DEF OutcomeLedger
  <2>1. localUnresolved[p] = Amounts(deposits[p], Unconsumed(p))
    BY DEF Ledgers, OutcomeLedger
  <2>2. CASE p = o
    <3>1. Amounts(deposits'[o], Unconsumed(o)') = Amounts(deposits[o], Unconsumed(o)) + amount
      <4>1. Amounts(deposits'[o], Unconsumed(o) \cup {e}) = Amounts(deposits[o], Unconsumed(o)) + amount
        BY <1>10, <1>11
      <4> QED
        BY <1>10, <4>1, Zenon
    <3> QED
      BY <1>1, <1>4, <2>1, <2>2, <3>1
  <2>3. CASE p # o
    <3>1. Amounts(deposits'[p], Unconsumed(p)') = Amounts(deposits[p], Unconsumed(p))
      BY <1>8, <1>10, <2>3
    <3> QED
      BY <1>1, <1>4, <2>1, <2>3, <3>1
  <2> QED
    BY <2>2, <2>3
<1>13. PrincipalLedger'
  <2> SUFFICES ASSUME NEW u \in Vault, NEW p \in Outcome
               PROVE  principal'[u][p] = Amounts(deposits'[p], Unconsumed(p)' \cap Of(u, p)')
    <3>1. exported' = {}
      BY <1>4, <1>6
    <3> QED
      BY <3>1 DEF PrincipalLedger
  <2>1. principal[u][p] = Amounts(deposits[p], Unconsumed(p) \cap Of(u, p))
    BY <1>6 DEF Ledgers, PrincipalLedger
  <2>2. CASE u = v /\ p = o
    <3>1. Unconsumed(o)' \cap Of(v, o)' = (Unconsumed(o) \cap Of(v, o)) \cup {e}
      BY <1>10
    <3>2. Amounts(deposits'[o], (Unconsumed(o) \cap Of(v, o)) \cup {e})
              = Amounts(deposits[o], Unconsumed(o) \cap Of(v, o)) + amount
      <4>1. Unconsumed(o) \cap Of(v, o) \in SUBSET DOMAIN deposits[o]
        BY <1>10
      <4> QED
        BY <1>11, <4>1
    <3>3. Amounts(deposits'[o], Unconsumed(o)' \cap Of(v, o)')
              = Amounts(deposits[o], Unconsumed(o) \cap Of(v, o)) + amount
      BY <3>1, <3>2, Zenon
    <3>4. principal'[v][o] = principal[v][o] + amount
      BY <1>1, <1>4
    <3> QED
      BY <2>1, <2>2, <3>3, <3>4
  <2>3. CASE ~ (u = v /\ p = o)
    <3>1. Unconsumed(p)' \cap Of(u, p)' = Unconsumed(p) \cap Of(u, p)
      <4>1. CASE p # o
        BY <1>10, <4>1
      <4>2. CASE p = o
        <5>1. u # v /\ Of(u, o)' = Of(u, o)
          BY <1>10, <2>3, <4>2
        <5>2. e \notin Of(u, o)
          BY <1>8 DEF Of, Indices
        <5> QED
          BY <1>10, <4>2, <5>1, <5>2
      <4> QED
        BY <4>1, <4>2
    <3>2. Unconsumed(p) \cap Of(u, p) \in SUBSET DOMAIN deposits[p]
      BY <1>10
    <3>3. Amounts(deposits'[p], Unconsumed(p) \cap Of(u, p))
              = Amounts(deposits[p], Unconsumed(p) \cap Of(u, p))
      BY <1>8, <1>11, <3>2
    <3>4. principal'[u][p] = principal[u][p]
      BY <1>1, <1>4, <2>3
    <3> QED
      BY <2>1, <3>1, <3>3, <3>4, Zenon
  <2> QED
    BY <2>2, <2>3
<1>14. /\ localUnresolved' \in [Outcome -> Nat]
       /\ escrow' \in [Vault -> Nat] /\ totalDisputeStaked' \in Nat
       /\ vaultUnresolved' \in [Vault -> Nat] /\ totalLocalUnresolved' \in Nat
       /\ principal' \in [Vault -> [Outcome -> Nat]]
       /\ balance' \in [Outcome -> 0 .. NonDecisionThreshold]
       /\ gameRep' \in Nat
  <2>1. balance[o] + amount \in 0 .. NonDecisionThreshold
    BY <1>1, <1>4
  <2>2. /\ principal[v][o] + amount \in Nat /\ localUnresolved[o] + amount \in Nat
        /\ escrow[v] + amount \in Nat /\ vaultUnresolved[v] + amount \in Nat
    BY <1>1
  <2>3. balance' \in [Outcome -> 0 .. NonDecisionThreshold]
    BY <1>1, <1>4, <2>1
  <2>4. principal' \in [Vault -> [Outcome -> Nat]]
    BY <1>1, <1>4, <2>2
  <2>5. localUnresolved' \in [Outcome -> Nat]
    BY <1>1, <1>4, <2>2
  <2>6. escrow' \in [Vault -> Nat] /\ vaultUnresolved' \in [Vault -> Nat]
    BY <1>1, <1>4, <2>2
  <2>7. gameRep' \in Nat /\ totalDisputeStaked' \in Nat /\ totalLocalUnresolved' \in Nat
    BY <1>1, <1>4
  <2> QED
    BY <2>3, <2>4, <2>5, <2>6, <2>7
<1>15. VaultLedger'
  <2> SUFFICES ASSUME NEW u \in Vault
               PROVE  /\ vaultUnresolved'[u] = SumFunctionOnSet(principal'[u], Outcome)
                      /\ escrow'[u] = vaultUnresolved'[u]
    BY DEF VaultLedger
  <2>1. /\ vaultUnresolved[u] = SumFunctionOnSet(principal[u], Outcome)
        /\ escrow[u] = vaultUnresolved[u]
    BY DEF Ledgers, VaultLedger
  <2>2. CASE u = v
    <3>1. principal'[v] = [principal[v] EXCEPT ![o] = @ + amount]
      BY <1>1, <1>4
    <3>2. principal[v] \in [Outcome -> Int] /\ amount \in Int
      BY <1>1
    <3>3. SumFunctionOnSet(principal'[v], Outcome) = SumFunctionOnSet(principal[v], Outcome) + amount
      <4>1. SumFunctionOnSet([principal[v] EXCEPT ![o] = @ + amount], Outcome)
                = SumFunctionOnSet(principal[v], Outcome) + amount
        BY <3>2, OutcomesAreFinite, SumRaise
      <4> QED
        BY <3>1, <4>1, Zenon
    <3> QED
      BY <1>1, <1>4, <2>1, <2>2, <3>3
  <2>3. CASE u # v
    BY <1>1, <1>4, <2>1, <2>3
  <2> QED
    BY <2>2, <2>3
<1>16. TotalLedger'
  <2>1. /\ vaultUnresolved \in [Vault -> Int] /\ escrow \in [Vault -> Int]
        /\ IsFiniteSet(Vault) /\ amount \in Int
    BY <1>1
  <2>2. SumFunctionOnSet(vaultUnresolved', Vault) = SumFunctionOnSet(vaultUnresolved, Vault) + amount
    BY <1>4, <2>1, SumRaise
  <2>3. SumFunctionOnSet(escrow', Vault) = SumFunctionOnSet(escrow, Vault) + amount
    BY <1>4, <2>1, SumRaise
  <2> QED
    BY <1>4, <2>2, <2>3 DEF Ledgers, TotalLedger
<1>17. vaultRep' \in [Vault -> Nat]
  <2>1. vaultRep[v] - amount \in Nat
    BY <1>1, <1>4
  <2> QED
    BY <1>1, <1>4, <2>1
<1>18. consumed' \subseteq UNION {{p} \X (1 .. Len(deposits'[p])) : p \in Outcome}
  <2>1. \A p \in Outcome : 1 .. Len(deposits[p]) \subseteq 1 .. Len(deposits'[p])
    BY <1>1, <1>4
  <2> QED
    BY <1>1, <1>4, <2>1
<1> QED
  BY <1>4, <1>5, <1>9, <1>12, <1>13, <1>14, <1>15, <1>16, <1>17, <1>18 DEF Ledgers, TypeOK

\* An exported vault takes all it has in the totals.
LEMMA ExportKeepsLedgers ==
    ASSUME TypeOK, Ledgers, NEW v \in Vault, migrateVaultWithUnresolvedEscalation(v)
    PROVE  TypeOK' /\ Ledgers'
<1> DEFINE none == [o \in Outcome |-> 0]
<1>1. /\ principal \in [Vault -> [Outcome -> Nat]]
      /\ escrow \in [Vault -> Nat] /\ totalDisputeStaked \in Nat
      /\ vaultUnresolved \in [Vault -> Nat] /\ totalLocalUnresolved \in Nat
      /\ IsFiniteSet(Vault)
  BY GameAssumption DEF TypeOK
<1>2. PICK total \in Nat : total = SumFunctionOnSet(principal[v], Outcome)
  <2>1. \A o \in Outcome : principal[v][o] \in Nat
    BY <1>1
  <2> QED
    BY <2>1, OutcomesAreFinite, SumNat
<1>3. /\ exported' = exported \cup {v}
      /\ principal' = [principal EXCEPT ![v] = none]
      /\ vaultUnresolved' = [vaultUnresolved EXCEPT ![v] = @ - total]
      /\ totalLocalUnresolved' = totalLocalUnresolved - total
      /\ escrow' = [escrow EXCEPT ![v] = @ - total]
      /\ totalDisputeStaked' = totalDisputeStaked - total
      /\ UNCHANGED <<localUnresolved, now, activationTime, balance, deposits, nonDecisionTimestamp,
                     consumed, gameRep, vaultRep, poolForked, forkTime, forkThreshold, fork,
                     directPaid>>
  BY <1>2 DEF migrateVaultWithUnresolvedEscalation, _exportVaultUnresolvedTotals, clock, stakes,
              universe
<1>4. vaultUnresolved[v] = total /\ escrow[v] = total
  BY <1>2 DEF Ledgers, VaultLedger
<1>5. none \in [Outcome -> Nat] /\ SumFunctionOnSet(none, Outcome) = 0
  <2>1. \A o \in Outcome : none[o] = 0
    OBVIOUS
  <2> QED
    BY <2>1, OutcomesAreFinite, SumZero
<1> HIDE DEF none
<1>6. /\ principal' \in [Vault -> [Outcome -> Nat]]
      /\ vaultUnresolved' \in [Vault -> Nat]
      /\ escrow' \in [Vault -> Nat]
  BY <1>1, <1>3, <1>4, <1>5
<1>7. OutcomeLedger'
  BY <1>3 DEF Ledgers, OutcomeLedger, Unconsumed, Indices
<1>8. PrincipalLedger'
  <2> SUFFICES ASSUME NEW u \in Vault, NEW p \in Outcome
               PROVE  principal'[u][p] = IF u \in exported' THEN 0
                          ELSE Amounts(deposits'[p], Unconsumed(p)' \cap Of(u, p)')
    BY DEF PrincipalLedger
  <2>1. principal[u][p] = IF u \in exported THEN 0
                          ELSE Amounts(deposits[p], Unconsumed(p) \cap Of(u, p))
    BY DEF Ledgers, PrincipalLedger
  <2>2. Unconsumed(p)' = Unconsumed(p) /\ Of(u, p)' = Of(u, p)
    BY <1>3 DEF Unconsumed, Of, Indices
  <2>3. CASE u = v
    <3>1. none[p] = 0
      BY DEF none
    <3> QED
      BY <1>1, <1>3, <2>3, <3>1
  <2>4. CASE u # v
    BY <1>1, <1>3, <2>1, <2>2, <2>4
  <2> QED
    BY <2>3, <2>4
<1>9. VaultLedger'
  <2> SUFFICES ASSUME NEW u \in Vault
               PROVE  /\ vaultUnresolved'[u] = SumFunctionOnSet(principal'[u], Outcome)
                      /\ escrow'[u] = vaultUnresolved'[u]
    BY DEF VaultLedger
  <2>1. /\ vaultUnresolved[u] = SumFunctionOnSet(principal[u], Outcome)
        /\ escrow[u] = vaultUnresolved[u]
    BY DEF Ledgers, VaultLedger
  <2>2. CASE u = v
    BY <1>1, <1>3, <1>4, <1>5, <2>2
  <2>3. CASE u # v
    BY <1>1, <1>3, <2>1, <2>3
  <2> QED
    BY <2>2, <2>3
<1>10. TotalLedger'
  <2>1. /\ vaultUnresolved \in [Vault -> Int] /\ escrow \in [Vault -> Int]
        /\ IsFiniteSet(Vault) /\ total \in Int
    BY <1>1
  <2>2. SumFunctionOnSet(vaultUnresolved', Vault) = SumFunctionOnSet(vaultUnresolved, Vault) - total
    BY <1>3, <2>1, SumRaise
  <2>3. SumFunctionOnSet(escrow', Vault) = SumFunctionOnSet(escrow, Vault) - total
    BY <1>3, <2>1, SumRaise
  <2> QED
    BY <1>3, <2>2, <2>3 DEF Ledgers, TotalLedger
<1>11. totalLocalUnresolved' \in Nat /\ totalDisputeStaked' \in Nat
  <2>1. /\ SumFunctionOnSet(vaultUnresolved', Vault) \in Nat
        /\ SumFunctionOnSet(escrow', Vault) \in Nat
    BY <1>1, <1>6, SumNat
  <2> QED
    BY <1>10, <2>1 DEF TotalLedger
<1>12. TypeOK'
  BY SMTT(30), <1>3, <1>6, <1>11 DEF TypeOK
<1> QED
  BY <1>7, <1>8, <1>9, <1>10, <1>12 DEF Ledgers

-----------------------------------------------------------------------------
(* What a resolution and a payout are made of.                             *)

LEMMA TwoAtLeast ==
    ASSUME NEW S, IsFiniteSet(S)
    PROVE  Cardinality(S) >= 2 <=> \E x, y \in S : x # y
<1>1. ASSUME NEW x \in S, NEW y \in S, x # y PROVE Cardinality(S) >= 2
  <2>1. IsFiniteSet({x}) /\ Cardinality({x}) = 1
    BY FS_Singleton
  <2>2. Cardinality({x} \cup {y}) = 2
    BY <1>1, <2>1, FS_AddElement
  <2>3. Cardinality({x} \cup {y}) <= Cardinality(S)
    BY FS_Subset
  <2> QED
    BY <2>2, <2>3, FS_CardinalityType
<1>2. ASSUME ~ \E x, y \in S : x # y PROVE ~ Cardinality(S) >= 2
  <2>1. CASE S = {}
    BY <2>1, FS_EmptySet
  <2>2. CASE S # {}
    <3>1. PICK x \in S : S = {x}
      BY <1>2, <2>2
    <3>2. Cardinality(S) = 1
      BY <3>1, FS_Singleton
    <3> QED
      BY <3>2
  <2> QED
    BY <2>1, <2>2
<1> QED
  BY <1>1, <1>2

\* Of the outcomes with a property there are two exactly when two can be named.
LEMMA TwoOutcomes ==
    ASSUME NEW S \in SUBSET Outcome
    PROVE  Cardinality(S) >= 2 <=> \E x, y \in S : x # y
BY OutcomesAreFinite, FS_Subset, TwoAtLeast

\* The binding capital is the balance of an outcome, with one other at least as
\* high and one other no higher.
LEMMA BindingIsMedian ==
    ASSUME balance \in [Outcome -> Nat]
    PROVE  /\ getBindingCapital \in Nat
           /\ \E o, p, q \in Outcome :
                  /\ o # p /\ o # q /\ p # q
                  /\ getBindingCapital = balance[o]
                  /\ balance[p] <= balance[o] /\ balance[o] <= balance[q]
<1> DEFINE P(m) == /\ countBalancesAtLeast(m) >= 2
                   /\ Cardinality({o \in Outcome : balance[o] <= m}) >= 2
<1>1. ASSUME NEW m
      PROVE  /\ countBalancesAtLeast(m) >= 2
                    <=> \E x, y \in Outcome : x # y /\ balance[x] >= m /\ balance[y] >= m
             /\ Cardinality({o \in Outcome : balance[o] <= m}) >= 2
                    <=> \E x, y \in Outcome : x # y /\ balance[x] <= m /\ balance[y] <= m
  <2> DEFINE A == {o \in Outcome : balance[o] >= m}
             B == {o \in Outcome : balance[o] <= m}
  <2>1. A \in SUBSET Outcome /\ B \in SUBSET Outcome
    OBVIOUS
  <2>2. /\ Cardinality(A) >= 2 <=> \E x, y \in A : x # y
        /\ Cardinality(B) >= 2 <=> \E x, y \in B : x # y
    BY <2>1, TwoOutcomes
  <2> QED
    BY <2>2 DEF countBalancesAtLeast
<1>2. \E o, p, q \in Outcome : /\ o # p /\ o # q /\ p # q
                               /\ balance[p] <= balance[o] /\ balance[o] <= balance[q]
  BY DEF Outcome
<1>3. \E m \in {balance[o] : o \in Outcome} : P(m)
  <2>1. PICK o \in Outcome, p \in Outcome, q \in Outcome :
            /\ o # p /\ o # q /\ p # q
            /\ balance[p] <= balance[o] /\ balance[o] <= balance[q]
    BY <1>2
  <2>2. balance[o] <= balance[o]
    OBVIOUS
  <2>3. P(balance[o])
    BY <1>1, <2>1, <2>2
  <2> QED
    BY <2>3
<1>4. getBindingCapital \in {balance[o] : o \in Outcome} /\ P(getBindingCapital)
  BY <1>3 DEF getBindingCapital
<1>5. PICK o \in Outcome : getBindingCapital = balance[o]
  BY <1>4
<1>6. /\ \E x, y \in Outcome : x # y /\ balance[x] >= balance[o] /\ balance[y] >= balance[o]
      /\ \E x, y \in Outcome : x # y /\ balance[x] <= balance[o] /\ balance[y] <= balance[o]
  BY <1>1, <1>4, <1>5
<1>7. \E p, q \in Outcome : /\ o # p /\ o # q /\ p # q
                            /\ balance[p] <= balance[o] /\ balance[o] <= balance[q]
  BY <1>6 DEF Outcome
<1> QED
  BY <1>5, <1>7

\* The larger of two integers is one of them and no smaller than either.
LEMMA MaxOfTwo ==
    ASSUME NEW a \in Int, NEW b \in Int
    PROVE  Max({a, b}) \in {a, b} /\ Max({a, b}) >= a /\ Max({a, b}) >= b
<1>1. \E x \in {a, b} : \A y \in {a, b} : x >= y
  BY a >= b \/ b >= a
<1> QED
  BY <1>1 DEF Max

\* A payout is natural, and what a fallen fork threshold leaves of it no more
\* than the whole.
LEMMA PayoutTypes ==
    ASSUME TypeOK, NEW o \in Outcome, NEW i \in DOMAIN deposits[o]
    PROVE  /\ BonusPayout(deposits[o][i], o).paid \in Nat
           /\ BonusPayout(deposits[o][i], o).burned \in Nat
           /\ _computeWinningWithdrawal(o, i).paid \in Nat
           /\ _computeWinningWithdrawal(o, i).paid <= BonusPayout(deposits[o][i], o).paid
           /\ _computeWinningWithdrawal(o, i).burned = BonusPayout(deposits[o][i], o).burned
<1>1. PICK amount \in Nat, cumulative \in Nat :
          amount = deposits[o][i].amount /\ cumulative = deposits[o][i].cumulative
  <2>1. deposits[o] \in Seq(DepositRecord)
    BY DEF TypeOK
  <2> QED
    BY <2>1, RecordsOf
<1>2. PICK binding \in Nat : binding = getBindingCapital
  <2>1. balance \in [Outcome -> Nat]
    BY DEF TypeOK
  <2> QED
    BY <2>1, BindingIsMedian
<1> DEFINE cap == binding + binding \div EXCESS_REWARD_WINDOW_DIVISOR
           sharing == Min({balance[o], cap})
           rest == Min({cumulative, cap}) - (cumulative - amount)
           eligible == Max({0, rest})
           full == BonusPayout(deposits[o][i], o)
<1>3. /\ cap \in Nat /\ balance[o] \in Nat
      /\ cap \in Int /\ balance[o] \in Int /\ cumulative \in Int /\ 0 \in Int
  BY Quotient DEF EXCESS_REWARD_WINDOW_DIVISOR, TypeOK
<1> HIDE DEF cap
<1>4. sharing \in Nat
  <2>1. sharing \in {balance[o], cap}
    BY <1>3, MinOfTwo, Zenon
  <2> QED
    BY <1>3, <2>1
<1>5. eligible \in Nat
  <2>1. Min({cumulative, cap}) \in Int
    <3>1. Min({cumulative, cap}) \in {cumulative, cap}
      BY <1>3, MinOfTwo, Zenon
    <3> QED
      BY <1>3, <3>1
  <2>2. rest \in Int
    BY <2>1
  <2> HIDE DEF rest
  <2>3. eligible \in {0, rest} /\ eligible >= 0
    BY <1>3, <2>2, MaxOfTwo, Zenon
  <2> QED
    BY <2>2, <2>3
<1>6. full = IF sharing = 0 THEN [paid |-> amount, burned |-> 0]
             ELSE [paid |-> amount + (eligible * ((binding * 3) \div 5)) \div sharing,
                   burned |-> (eligible * ((binding * 2) \div 5)) \div sharing]
  BY <1>1, <1>2 DEF BonusPayout, cap
<1> HIDE DEF sharing, eligible
<1>7. full.paid \in Nat /\ full.burned \in Nat /\ full = [paid |-> full.paid, burned |-> full.burned]
  <2>1. CASE sharing = 0
    BY <1>6, <2>1
  <2>2. CASE sharing # 0
    <3>1. (binding * 3) \div 5 \in Nat /\ (binding * 2) \div 5 \in Nat
      BY Quotient
    <3>2. /\ eligible * ((binding * 3) \div 5) \in Nat
          /\ eligible * ((binding * 2) \div 5) \in Nat
      BY <1>5, <3>1
    <3>3. /\ (eligible * ((binding * 3) \div 5)) \div sharing \in Nat
          /\ (eligible * ((binding * 2) \div 5)) \div sharing \in Nat
      BY <1>4, <2>2, <3>2, Quotient
    <3> QED
      BY <1>6, <2>2, <3>3
  <2> QED
    BY <2>1, <2>2
<1> HIDE DEF full
<1>8. ActualForkThreshold \in Nat /\ NonDecisionThreshold \in Nat /\ NonDecisionThreshold > 0
  BY GameAssumption DEF ActualForkThreshold, TypeOK
<1>9. _computeWinningWithdrawal(o, i) =
          IF ActualForkThreshold < NonDecisionThreshold
          THEN [full EXCEPT !.paid = (@ * ActualForkThreshold) \div NonDecisionThreshold]
          ELSE full
  BY DEF _computeWinningWithdrawal, full
<1>10. CASE ActualForkThreshold < NonDecisionThreshold
  <2>1. /\ _computeWinningWithdrawal(o, i).paid
               = (full.paid * ActualForkThreshold) \div NonDecisionThreshold
        /\ _computeWinningWithdrawal(o, i).burned = full.burned
    BY <1>7, <1>9, <1>10
  <2>2. /\ (full.paid * ActualForkThreshold) \div NonDecisionThreshold \in Nat
        /\ (full.paid * ActualForkThreshold) \div NonDecisionThreshold <= full.paid
    BY <1>7, <1>8, <1>10, PartOf
  <2> QED
    BY <1>7, <2>1, <2>2 DEF full
<1>11. CASE ~ (ActualForkThreshold < NonDecisionThreshold)
  BY <1>7, <1>9, <1>11 DEF full
<1> QED
  BY <1>10, <1>11

-----------------------------------------------------------------------------
(* The ledgers reconcile.                                                  *)

\* The fork threshold starts at one of its values.
LEMMA HighestThreshold == Max(ForkThresholds) \in ForkThresholds
<1> DEFINE top == 2 * NonDecisionThreshold
           Gaps == {top - f : f \in ForkThresholds}
<1>1. /\ ForkThresholds \subseteq Nat /\ ForkThresholds # {}
      /\ top \in Nat /\ \A f \in ForkThresholds : f <= top
  BY GameAssumption
<1> HIDE DEF top
<1>2. Gaps \in SUBSET Nat /\ Gaps # {}
  <2>1. \A f \in ForkThresholds : top - f \in Nat
    BY <1>1
  <2> QED
    BY <1>1, <2>1
<1>3. PICK g \in Gaps : \A k \in Gaps : g <= k
  <2> HIDE DEF Gaps
  <2> QED
    BY <1>2, LeastNumber
<1>4. PICK f \in ForkThresholds : g = top - f
  BY <1>3
<1>5. ASSUME NEW k \in ForkThresholds PROVE f >= k
  <2>1. top - f <= top - k
    BY <1>3, <1>4
  <2>2. f \in Int /\ k \in Int /\ top \in Int
    BY <1>1
  <2> HIDE DEF Gaps
  <2> QED
    BY <2>1, <2>2
<1> QED
  BY <1>5 DEF Max

LEMMA InitLedgers == Init => TypeOK /\ Ledgers
<1> SUFFICES ASSUME Init PROVE TypeOK /\ Ledgers
  OBVIOUS
<1>1. TypeOK
  <2>1. /\ NonDecisionThreshold \in Nat /\ VaultRep \in Nat
        /\ now = 1 /\ now \in 0 .. MaxTime
        /\ 0 \in 0 .. NonDecisionThreshold
    BY GameAssumption DEF Init
  <2>2. /\ balance \in [Outcome -> 0 .. NonDecisionThreshold]
        /\ deposits \in [Outcome -> Seq(DepositRecord)]
        /\ fork \in [own : BOOLEAN, time : Nat, bucket : Nat, carry : [Outcome -> Nat]]
    <3>1. <<>> \in Seq(DepositRecord)
      OBVIOUS
    <3> QED
      BY <2>1, <3>1 DEF Init, NoFork
  <2>3. /\ consumed = {} /\ exported = {}
        /\ forkThreshold \in ForkThresholds
    BY HighestThreshold DEF Init
  <2>4. /\ activationTime \in Nat
        /\ localUnresolved \in [Outcome -> Nat]
        /\ escrow \in [Vault -> Nat] /\ totalDisputeStaked \in Nat
        /\ vaultUnresolved \in [Vault -> Nat] /\ totalLocalUnresolved \in Nat
        /\ principal \in [Vault -> [Outcome -> Nat]]
        /\ nonDecisionTimestamp \in Nat
        /\ gameRep \in Nat /\ vaultRep \in [Vault -> Nat]
        /\ poolForked \in BOOLEAN /\ forkTime \in Nat
        /\ directPaid \in [Outcome -> Nat]
    BY <2>1 DEF Init
  <2> QED
    BY <2>1, <2>2, <2>3, <2>4 DEF TypeOK
<1>2. /\ \A o \in Outcome : Amounts(deposits[o], Unconsumed(o)) = 0
      /\ \A v \in Vault, o \in Outcome : Amounts(deposits[o], Unconsumed(o) \cap Of(v, o)) = 0
  <2>1. \A o \in Outcome : deposits[o] = <<>> /\ Unconsumed(o) = {}
    BY DEF Init, Unconsumed, Indices
  <2>2. Amounts(<<>>, {}) = 0
    BY SumEmpty DEF Amounts
  <2>3. \A v \in Vault, o \in Outcome : Unconsumed(o) \cap Of(v, o) = {}
    BY <2>1
  <2> QED
    BY <2>1, <2>2, <2>3, Zenon
<1>3. /\ \A v \in Vault : SumFunctionOnSet(principal[v], Outcome) = 0
      /\ SumFunctionOnSet(vaultUnresolved, Vault) = 0
      /\ SumFunctionOnSet(escrow, Vault) = 0
  <2>1. /\ \A v \in Vault : \A o \in Outcome : principal[v][o] = 0
        /\ \A v \in Vault : vaultUnresolved[v] = 0 /\ escrow[v] = 0
        /\ IsFiniteSet(Vault)
    BY GameAssumption DEF Init
  <2> QED
    BY <2>1, OutcomesAreFinite, SumZero
<1>4. OutcomeLedger /\ PrincipalLedger
  BY <1>2 DEF Init, OutcomeLedger, PrincipalLedger
<1>5. VaultLedger /\ TotalLedger
  BY <1>3 DEF Init, VaultLedger, TotalLedger
<1> QED
  BY <1>1, <1>4, <1>5 DEF Ledgers

books == <<deposits, consumed, exported, localUnresolved, principal, vaultUnresolved, escrow,
           totalLocalUnresolved, totalDisputeStaked>>

LEMMA LedgersUnchanged == Ledgers /\ UNCHANGED books => Ledgers'
<1> SUFFICES ASSUME Ledgers, UNCHANGED books PROVE Ledgers'
  OBVIOUS
<1>1. /\ \A o \in Outcome : Unconsumed(o)' = Unconsumed(o)
      /\ \A v \in Vault, o \in Outcome : Of(v, o)' = Of(v, o)
  BY DEF books, Unconsumed, Of, Indices
<1> QED
  BY <1>1 DEF books, Ledgers, OutcomeLedger, PrincipalLedger, VaultLedger, TotalLedger

\* A withdrawal takes its payout from the game, a direct claim from the child's
\* bucket; both take the stake from every ledger.
LEMMA WithdrawKeepsLedgers ==
    ASSUME IInv, TypeOK, Ledgers, NEW o \in Outcome, NEW i \in DOMAIN deposits[o],
           withdrawFromEscalationGame(o, i) \/ claimForkedEscalationDeposits(o, i)
    PROVE  TypeOK' /\ Ledgers'
<1>1. /\ _consumeLocalDeposit(o, i)
      /\ UNCHANGED <<now, activationTime, balance, deposits, exported, nonDecisionTimestamp,
                     vaultRep, poolForked, forkTime, forkThreshold, fork>>
  BY DEF withdrawFromEscalationGame, withdrawDeposit, claimForkedEscalationDeposits, stakes,
         clock, universe
<1>2. PICK paid \in Nat, burned \in Nat :
          paid = _computeWinningWithdrawal(o, i).paid /\ burned = _computeWinningWithdrawal(o, i).burned
  BY PayoutTypes
<1>3. \/ gameRep' = gameRep
      \/ gameRep >= paid + burned /\ gameRep' = gameRep - paid - burned
  BY <1>2 DEF withdrawFromEscalationGame, withdrawDeposit, claimForkedEscalationDeposits
<1>4. \/ directPaid' = directPaid
      \/ directPaid' = [directPaid EXCEPT ![o] = @ + paid]
  BY <1>2 DEF withdrawFromEscalationGame, claimForkedEscalationDeposits
<1>5. gameRep \in Nat /\ directPaid \in [Outcome -> Nat]
  BY DEF TypeOK
<1>6. gameRep' \in Nat /\ directPaid' \in [Outcome -> Nat]
  <2>1. directPaid[o] + paid \in Nat
    BY <1>5
  <2> QED
    BY <1>3, <1>4, <1>5, <2>1
<1>7. /\ Ledgers'
      /\ consumed' \subseteq UNION {{p} \X (1 .. Len(deposits[p])) : p \in Outcome}
      /\ localUnresolved' \in [Outcome -> Nat]
      /\ escrow' \in [Vault -> Nat] /\ totalDisputeStaked' \in Nat
      /\ vaultUnresolved' \in [Vault -> Nat] /\ totalLocalUnresolved' \in Nat
      /\ principal' \in [Vault -> [Outcome -> Nat]]
  BY <1>1, ConsumeKeepsLedgers
<1>8. /\ now' \in 0 .. MaxTime /\ activationTime' \in Nat
      /\ balance' \in [Outcome -> 0 .. NonDecisionThreshold]
      /\ deposits' \in [Outcome -> Seq(DepositRecord)]
      /\ deposits' = deposits
      /\ exported' \subseteq Vault /\ nonDecisionTimestamp' \in Nat
      /\ vaultRep' \in [Vault -> Nat] /\ poolForked' \in BOOLEAN
      /\ forkTime' \in Nat /\ forkThreshold' \in ForkThresholds
      /\ fork' \in [own : BOOLEAN, time : Nat, bucket : Nat, carry : [Outcome -> Nat]]
  BY <1>1 DEF TypeOK
<1>9. TypeOK'
  <2>1. consumed' \subseteq UNION {{p} \X (1 .. Len(deposits'[p])) : p \in Outcome}
    BY <1>7, <1>8
  <2> QED
    BY <1>6, <1>7, <1>8, <2>1 DEF TypeOK
<1> QED
  BY <1>7, <1>9

\* Time, the universe, a sweep and the pool's leaving change no ledger.
LEMMA OthersKeepLedgers ==
    ASSUME TypeOK, Ledgers,
           \/ Tick \/ sweepResidualRepToSecurityPool \/ initiateSecurityPoolFork \/ UNCHANGED vars
           \/ \E threshold \in ForkThresholds : UniverseBurns(threshold)
           \/ \E threshold \in ForkThresholds : UniverseForks(threshold)
           \/ \E threshold \in ForkThresholds : forkZoltarWithOwnEscalationGame(threshold)
    PROVE  TypeOK' /\ Ledgers'
<1>1. UNCHANGED books
  BY DEF Tick, sweepResidualRepToSecurityPool, initiateSecurityPoolFork, UniverseBurns,
         UniverseForks, forkZoltarWithOwnEscalationGame, LeavePool, vars, books, stakes, locals,
         escrows
<1>2. now \in Nat /\ MaxTime \in Nat /\ forkThreshold \in Nat
  BY GameAssumption DEF TypeOK
<1>3. CASE Tick
  <2>1. now + 1 \in 0 .. MaxTime
    BY <1>2, <1>3 DEF Tick
  <2> QED
    BY <1>1, <1>3, <2>1, LedgersUnchanged DEF Tick, TypeOK, stakes, locals, escrows, universe
<1>4. CASE \/ sweepResidualRepToSecurityPool \/ UNCHANGED vars
           \/ \E threshold \in ForkThresholds : UniverseBurns(threshold)
           \/ \E threshold \in ForkThresholds : UniverseForks(threshold)
  BY <1>1, <1>2, <1>4, LedgersUnchanged
     DEF sweepResidualRepToSecurityPool, UniverseBurns, UniverseForks, TypeOK, vars, clock,
         stakes, locals, escrows, universe
<1>5. ASSUME NEW own \in BOOLEAN, NEW bucket \in Nat, LeavePool(own, bucket),
             forkTime' \in Nat, forkThreshold' \in ForkThresholds
      PROVE  TypeOK'
  <2>1. fork' \in [own : BOOLEAN, time : Nat, bucket : Nat, carry : [Outcome -> Nat]]
    BY <1>2, <1>5 DEF LeavePool, TypeOK
  <2>2. poolForked' \in BOOLEAN /\ gameRep' \in Nat
    BY <1>5 DEF LeavePool
  <2> QED
    BY SMTT(30), <1>5, <2>1, <2>2 DEF LeavePool, TypeOK, clock, stakes, locals, escrows
<1>6. CASE initiateSecurityPoolFork
  <2>1. gameRep \in Nat
    BY DEF TypeOK
  <2> QED
    BY <1>1, <1>5, <1>6, <2>1, LedgersUnchanged DEF initiateSecurityPoolFork, universe, TypeOK
<1>7. ASSUME NEW threshold \in ForkThresholds, forkZoltarWithOwnEscalationGame(threshold)
      PROVE  TypeOK' /\ Ledgers'
  <2>1. forkHaircut \in Nat
    <3>1. ForkBurnDivisor \in Nat /\ ForkBurnDivisor > 0
      BY GameAssumption DEF MINIMUM_FORK_BURN_DIVISOR
    <3> QED
      BY <1>2, <3>1, Quotient DEF forkHaircut
  <2>2. gameRep - forkHaircut \in Nat
    BY <1>7, <2>1 DEF forkZoltarWithOwnEscalationGame, OwnForkFunds, TypeOK
  <2>3. forkTime' \in Nat /\ forkThreshold' \in ForkThresholds
    BY <1>2, <1>7 DEF forkZoltarWithOwnEscalationGame
  <2>4. LeavePool(TRUE, gameRep - forkHaircut)
    BY <1>7 DEF forkZoltarWithOwnEscalationGame
  <2> QED
    BY <1>1, <1>5, <2>2, <2>3, <2>4, LedgersUnchanged
<1> QED
  BY <1>3, <1>4, <1>6, <1>7

LEMMA NextKeepsLedgers == IInv /\ TypeOK /\ Ledgers /\ [Next]_vars => TypeOK' /\ Ledgers'
<1> SUFFICES ASSUME IInv, TypeOK, Ledgers, [Next]_vars PROVE TypeOK' /\ Ledgers'
  OBVIOUS
<1>1. ASSUME NEW v \in Vault, NEW o \in Outcome, NEW requested \in Amount,
             depositToEscalationGame(v, o, requested)
      PROVE  TypeOK' /\ Ledgers'
  BY <1>1, DepositKeepsLedgers
<1>2. ASSUME NEW o \in Outcome, NEW i \in DOMAIN deposits[o],
             withdrawFromEscalationGame(o, i) \/ claimForkedEscalationDeposits(o, i)
      PROVE  TypeOK' /\ Ledgers'
  BY <1>2, WithdrawKeepsLedgers
<1>3. ASSUME NEW v \in Vault, migrateVaultWithUnresolvedEscalation(v)
      PROVE  TypeOK' /\ Ledgers'
  BY <1>3, ExportKeepsLedgers
<1> QED
  BY <1>1, <1>2, <1>3, OthersKeepLedgers DEF Next

\* In every reachable state, after any mixture of staking, settling, claiming and
\* exporting (EscalationGameEscrow.sol), the amount kept per outcome is what its
\* open deposits add up to, the principal kept per vault and outcome what the
\* vault's do, and the escrow of each vault and both totals are the sums of their
\* parts.
THEOREM EscrowReconcilesThm == Spec => []EscrowReconciles
<1>1. Init => IInv /\ TypeOK /\ Ledgers
  BY InitIInv, InitLedgers
<1>2. (IInv /\ TypeOK /\ Ledgers) /\ [Next]_vars => (IInv /\ TypeOK /\ Ledgers)'
  BY NextKeepsIInv, NextKeepsLedgers
<1>3. IInv /\ TypeOK /\ Ledgers => EscrowReconciles
  BY LedgersReconcile
<1> QED
  BY <1>1, <1>2, <1>3, PTL DEF Spec

-----------------------------------------------------------------------------
(* Previews.                                                               *)

\* No rule of the record stops a stake whose preview was accepted: after the one unit
\* is taken off a stake that would tie the lead, the rest ties nothing.
LEMMA PreviewIsRecord == TypeOK => PreviewMatchesRecord
<1> SUFFICES ASSUME TypeOK, NEW o \in Outcome, NEW requested \in Amount,
                    PreviewAccepts(o, requested)
             PROVE  RecordAccepts(o, AcceptedAmount(o, requested))
  BY DEF PreviewMatchesRecord
<1> DEFINE room == NonDecisionThreshold - balance[o]
           clipped == Min({requested, room})
<1>1. /\ requested \in Int /\ room \in Int
      /\ StartBond \in Nat /\ StartBond > 0 /\ NonDecisionThreshold \in Nat
      /\ \A p \in Outcome : balance[p] \in Nat
  <2>1. \A p \in Outcome : balance[p] \in Nat
    BY DEF TypeOK
  <2> QED
    BY <2>1, GameAssumption
<1> HIDE DEF room
<1>2. clipped \in {requested, room} /\ clipped <= requested /\ clipped <= room
  BY <1>1, MinOfTwo, Zenon
<1>3. IsOpen /\ balance[o] < NonDecisionThreshold /\ requested >= StartBond
  BY DEF PreviewAccepts
<1>4. clipped \in Int /\ clipped > 0 /\ balance[o] + clipped <= NonDecisionThreshold
  BY <1>1, <1>2, <1>3 DEF room
<1>5. AcceptedAmount(o, requested) =
          IF TiesTheLead(o, balance[o] + clipped) THEN clipped - 1 ELSE clipped
  BY DEF AcceptedAmount, room
<1>6. \/ AcceptedAmount(o, requested) >= StartBond
      \/ balance[o] + AcceptedAmount(o, requested) = NonDecisionThreshold
  BY DEF PreviewAccepts
<1> HIDE DEF clipped
<1>7. CASE TiesTheLead(o, balance[o] + clipped)
  <2>1. balance[o] + clipped = MaxBalance /\ balance[o] + (clipped - 1) # MaxBalance
    BY <1>1, <1>4, <1>7 DEF TiesTheLead
  <2>2. ~ TiesTheLead(o, balance[o] + (clipped - 1))
    BY <2>1 DEF TiesTheLead
  <2>3. clipped - 1 > 0
    BY <1>1, <1>3, <1>4, <1>5, <1>6, <1>7
  <2>4. AcceptedAmount(o, requested) = clipped - 1
    BY <1>5, <1>7
  <2>5. balance[o] + (clipped - 1) <= NonDecisionThreshold
    BY <1>1, <1>4
  <2> QED
    BY <1>3, <1>6, <2>2, <2>3, <2>4, <2>5 DEF RecordAccepts
<1>8. CASE ~ TiesTheLead(o, balance[o] + clipped)
  <2>1. AcceptedAmount(o, requested) = clipped
    BY <1>5, <1>8
  <2> QED
    BY <1>3, <1>4, <1>6, <1>8, <2>1 DEF RecordAccepts
<1> QED
  BY <1>7, <1>8

\* A stake the preview accepts passes the checks the record repeats after the REP
\* has moved (EscalationGamePreviews.sol, EscalationGameDeposits.sol).
THEOREM PreviewMatchesRecordThm == Spec => []PreviewMatchesRecord
<1>1. EscrowReconciles => PreviewMatchesRecord
  BY PreviewIsRecord DEF EscrowReconciles
<1> QED
  BY <1>1, EscrowReconcilesThm, PTL

-----------------------------------------------------------------------------
(* Results.                                                                *)

\* A pool that paid anybody, and has not left for a fork, has a result that no
\* fork precedes.
SettledMeansFinal ==
    consumed # {} /\ ~ poolForked =>
        /\ deployed /\ ~ nonDecision
        /\ getFinalQuestionResolution # Undecided
        /\ forkTime = 0 \/ getEscalationGameEndDate < forkTime

\* What a result is computed from, time aside.
basis == <<activationTime, balance, nonDecisionTimestamp>>

LEMMA EndDateIsNat == TypeOK => getEscalationGameEndDate \in Nat
<1> SUFFICES ASSUME TypeOK PROVE getEscalationGameEndDate \in Nat
  OBVIOUS
<1>1. /\ balance \in [Outcome -> Nat]
      /\ \A o \in Outcome : balance[o] \in 0 .. NonDecisionThreshold
      /\ activationTime \in Nat /\ nonDecisionTimestamp \in Nat
  BY DEF TypeOK
<1>2. getBindingCapital \in 0 .. NonDecisionThreshold
  BY <1>1, BindingIsMedian
<1>3. TimeOfCost[getBindingCapital] \in Nat
  BY <1>2, CurveRisesAssumption
<1> QED
  BY <1>1, <1>3 DEF getEscalationGameEndDate

LEMMA EndDateKept == UNCHANGED basis => getEscalationGameEndDate' = getEscalationGameEndDate
BY DEF basis, getEscalationGameEndDate, nonDecision, getBindingCapital, countBalancesAtLeast

\* As long as the game is not staked on, the cost does not fall.
LEMMA CostRises ==
    ASSUME TypeOK, Tick
    PROVE  totalCost \in Int /\ totalCost' \in Int /\ totalCost <= totalCost'
<1> DEFINE L == ESCALATION_TIME_LENGTH
           age == now - activationTime
<1>1. /\ now \in Nat /\ activationTime \in Nat
      /\ L \in Nat /\ L > 0 /\ NonDecisionThreshold \in Nat
      /\ now' = now + 1 /\ activationTime' = activationTime
  BY SMTT(30), GameAssumption, CurveAssumption DEF TypeOK, Tick
<1>2. /\ totalCost = IF age <= 0 THEN 0 ELSE IF age >= L THEN NonDecisionThreshold
                     ELSE AttritionCost[age]
      /\ totalCost' = IF age + 1 <= 0 THEN 0 ELSE IF age + 1 >= L THEN NonDecisionThreshold
                      ELSE AttritionCost[age + 1]
  BY <1>1 DEF totalCost
<1>3. AttritionCost[L] = NonDecisionThreshold
  BY <1>1 DEF AttritionCost, computeIterativeAttritionCost
<1>4. age \in Int /\ L \in Int
  BY <1>1
<1> HIDE DEF age, L
<1>5. /\ \A t \in 0 .. L : AttritionCost[t] \in Nat
      /\ \A t \in 1 .. L : AttritionCost[t - 1] <= AttritionCost[t]
  BY CurveRisesAssumption DEF L
<1>6. CASE age <= 0 \/ age >= L
  BY <1>1, <1>2, <1>3, <1>4, <1>5, <1>6
<1>7. CASE age > 0 /\ age < L
  <2>1. age \in 0 .. L /\ age + 1 \in 1 .. L /\ age + 1 \in 0 .. L /\ (age + 1) - 1 = age
    BY <1>1, <1>4, <1>7
  <2>2. AttritionCost[age] <= AttritionCost[age + 1]
    BY <1>5, <2>1
  <2>3. AttritionCost[age] \in Nat /\ AttritionCost[age + 1] \in Nat
    BY <1>5, <2>1
  <2>4. totalCost' = AttritionCost[age + 1]
    BY <1>1, <1>2, <1>3, <1>4, <1>7
  <2>5. totalCost = AttritionCost[age]
    BY <1>2, <1>4, <1>7, <1>1
  <2> QED
    BY <2>2, <2>3, <2>4, <2>5
<1> QED
  BY <1>4, <1>6, <1>7

\* A result once reached survives time: the cost only leaves fewer outcomes above it.
LEMMA ResolutionSurvivesTime ==
    ASSUME TypeOK, Tick, getQuestionResolution # Undecided
    PROVE  getQuestionResolution' = getQuestionResolution
<1> DEFINE A == {o \in Outcome : balance[o] >= totalCost}
           B == {o \in Outcome : balance[o] >= totalCost'}
<1>1. UNCHANGED balance
  BY DEF Tick, stakes
<1>2. \A o \in Outcome : balance[o] \in Int
  BY DEF TypeOK
<1>3. B \subseteq A /\ A \subseteq Outcome
  BY <1>2, CostRises
<1>4. ~ Cardinality(A) >= 2
  BY DEF getQuestionResolution, countBalancesAtLeast
<1>5. ~ Cardinality(B) >= 2
  BY <1>3, <1>4, TwoOutcomes
<1>6. countBalancesAtLeast(totalCost)' = Cardinality(B)
  BY <1>1 DEF countBalancesAtLeast
<1>7. StrictLeaders' = StrictLeaders
  BY <1>1 DEF StrictLeaders
<1> HIDE DEF A, B
<1> QED
  BY <1>1, <1>5, <1>6, <1>7 DEF getQuestionResolution, countBalancesAtLeast, A

LEMMA ResolutionKept ==
    UNCHANGED <<now, activationTime, balance>> => getQuestionResolution' = getQuestionResolution
BY DEF getQuestionResolution, totalCost, StrictLeaders, countBalancesAtLeast

\* No step of anybody changes a final result.
LEMMA FinalKept ==
    ASSUME TypeOK, Next, deployed, getFinalQuestionResolution # Undecided
    PROVE  /\ getFinalQuestionResolution' = getFinalQuestionResolution
           /\ getEscalationGameEndDate' = getEscalationGameEndDate
           /\ deployed'
<1>1. /\ now > getEscalationGameEndDate \/ ~ (now <= getEscalationGameEndDate)
      /\ getQuestionResolution # Undecided
      /\ getFinalQuestionResolution = getQuestionResolution
  BY DEF getFinalQuestionResolution
<1>2. getEscalationGameEndDate \in Int /\ now \in Int
  BY EndDateIsNat DEF TypeOK
<1>3. ASSUME NEW v \in Vault, NEW o \in Outcome, NEW requested \in Amount,
             depositToEscalationGame(v, o, requested)
      PROVE  FALSE
  BY <1>1, <1>3 DEF depositToEscalationGame, PreviewAccepts, IsOpen
<1>4. CASE Tick
  <2>1. UNCHANGED basis /\ now' = now + 1
    BY <1>4 DEF Tick, basis, stakes
  <2>2. getQuestionResolution' = getQuestionResolution
    BY <1>1, <1>4, ResolutionSurvivesTime
  <2>3. getEscalationGameEndDate' = getEscalationGameEndDate
    BY <2>1, EndDateKept
  <2>4. ~ (now + 1 <= getEscalationGameEndDate)
    BY <1>1, <1>2
  <2>5. deployed'
    BY <2>1 DEF basis, deployed
  <2> QED
    BY <1>1, <2>1, <2>2, <2>3, <2>4, <2>5 DEF getFinalQuestionResolution
<1>5. CASE UNCHANGED <<now, basis>>
  <2>1. getQuestionResolution' = getQuestionResolution
    BY <1>5, ResolutionKept DEF basis
  <2>2. getEscalationGameEndDate' = getEscalationGameEndDate
    BY <1>5, EndDateKept
  <2> QED
    BY <1>5, <2>1, <2>2 DEF getFinalQuestionResolution, deployed, basis
<1>6. ASSUME NEW o \in Outcome, NEW i \in DOMAIN deposits[o],
             withdrawFromEscalationGame(o, i) \/ claimForkedEscalationDeposits(o, i)
      PROVE  UNCHANGED <<now, basis>>
  BY <1>6 DEF withdrawFromEscalationGame, claimForkedEscalationDeposits, clock, stakes, basis
<1>7. ASSUME \/ sweepResidualRepToSecurityPool \/ initiateSecurityPoolFork
             \/ \E threshold \in ForkThresholds : UniverseBurns(threshold)
             \/ \E threshold \in ForkThresholds : UniverseForks(threshold)
             \/ \E threshold \in ForkThresholds : forkZoltarWithOwnEscalationGame(threshold)
             \/ \E v \in Vault : migrateVaultWithUnresolvedEscalation(v)
      PROVE  UNCHANGED <<now, basis>>
  BY <1>7 DEF sweepResidualRepToSecurityPool, initiateSecurityPoolFork, UniverseBurns,
              UniverseForks, forkZoltarWithOwnEscalationGame, LeavePool,
              migrateVaultWithUnresolvedEscalation, clock, stakes, basis
<1> QED
  BY <1>3, <1>4, <1>5, <1>6, <1>7 DEF Next

LEMMA SettledKept ==
    TypeOK /\ SettledMeansFinal /\ [Next]_vars => SettledMeansFinal'
<1> SUFFICES ASSUME TypeOK, SettledMeansFinal, [Next]_vars, consumed' # {}, ~ poolForked'
             PROVE  /\ deployed' /\ ~ nonDecision'
                    /\ getFinalQuestionResolution' # Undecided
                    /\ forkTime' = 0 \/ getEscalationGameEndDate' < forkTime'
  BY DEF SettledMeansFinal
<1> DEFINE Goal == /\ deployed' /\ ~ nonDecision'
                   /\ getFinalQuestionResolution' # Undecided
                   /\ forkTime' = 0 \/ getEscalationGameEndDate' < forkTime'
<1>1. ASSUME Next, deployed, ~ nonDecision, getFinalQuestionResolution # Undecided,
             forkTime = 0 \/ getEscalationGameEndDate < forkTime,
             nonDecisionTimestamp' = nonDecisionTimestamp,
             forkTime' = forkTime \/ forkTime' = now
      PROVE  Goal
  <2>1. /\ getFinalQuestionResolution' # Undecided /\ deployed'
        /\ getEscalationGameEndDate' = getEscalationGameEndDate
    BY <1>1, FinalKept
  <2>2. getEscalationGameEndDate < now
    <3>1. ~ (now <= getEscalationGameEndDate)
      BY <1>1 DEF getFinalQuestionResolution
    <3>2. getEscalationGameEndDate \in Int /\ now \in Int
      BY EndDateIsNat DEF TypeOK
    <3> QED
      BY <3>1, <3>2
  <2> QED
    BY <1>1, <2>1, <2>2 DEF nonDecision
<1>2. ASSUME consumed # {}, ~ poolForked
      PROVE  /\ deployed /\ ~ nonDecision
             /\ getFinalQuestionResolution # Undecided
             /\ forkTime = 0 \/ getEscalationGameEndDate < forkTime
  BY <1>2 DEF SettledMeansFinal
<1>3. ASSUME NEW v \in Vault, NEW o \in Outcome, NEW requested \in Amount,
             depositToEscalationGame(v, o, requested)
      PROVE  FALSE
  <2>1. consumed # {} /\ ~ poolForked
    BY <1>3 DEF depositToEscalationGame
  <2>2. getFinalQuestionResolution # Undecided /\ deployed
    BY <1>2, <2>1
  <2>3. getQuestionResolution # Undecided
    BY <2>2 DEF getFinalQuestionResolution
  <2> QED
    BY <1>3, <2>2, <2>3 DEF depositToEscalationGame, PreviewAccepts, IsOpen
<1>4. ASSUME NEW o \in Outcome, NEW i \in DOMAIN deposits[o], withdrawFromEscalationGame(o, i)
      PROVE  Goal
  <2>1. /\ deployed /\ ~ nonDecision
        /\ getFinalQuestionResolution # Undecided
        /\ forkTime = 0 \/ getEscalationGameEndDate < forkTime
    BY <1>4 DEF withdrawFromEscalationGame, withdrawDeposit, getQuestionOutcome
  <2>2. nonDecisionTimestamp' = nonDecisionTimestamp /\ forkTime' = forkTime
    BY <1>4 DEF withdrawFromEscalationGame, stakes, universe
  <2>3. Next
    BY <1>4 DEF Next
  <2> QED
    BY <1>1, <2>1, <2>2, <2>3
<1>5. ASSUME NEW o \in Outcome, NEW i \in DOMAIN deposits[o], claimForkedEscalationDeposits(o, i)
      PROVE  FALSE
  BY <1>5 DEF claimForkedEscalationDeposits, MayClaimDirectly, MigrationOpen
<1>6. ASSUME Next,
             \/ Tick \/ sweepResidualRepToSecurityPool
             \/ \E threshold \in ForkThresholds : UniverseBurns(threshold)
             \/ \E threshold \in ForkThresholds : UniverseForks(threshold)
             \/ \E v \in Vault : migrateVaultWithUnresolvedEscalation(v)
      PROVE  Goal
  <2>1. /\ consumed' = consumed /\ poolForked' = poolForked
        /\ nonDecisionTimestamp' = nonDecisionTimestamp
        /\ forkTime' = forkTime \/ forkTime' = now
    BY <1>6 DEF Tick, sweepResidualRepToSecurityPool, UniverseBurns, UniverseForks,
                migrateVaultWithUnresolvedEscalation, stakes, universe
  <2> QED
    BY <1>1, <1>2, <1>6, <2>1
<1>7. ASSUME \/ initiateSecurityPoolFork
             \/ \E threshold \in ForkThresholds : forkZoltarWithOwnEscalationGame(threshold)
      PROVE  FALSE
  BY <1>7 DEF initiateSecurityPoolFork, forkZoltarWithOwnEscalationGame, LeavePool
<1>8. CASE UNCHANGED vars
  <2>1. UNCHANGED <<now, basis, consumed, poolForked, forkTime>>
    BY <1>8 DEF vars, clock, stakes, universe, basis
  <2>2. /\ getEscalationGameEndDate' = getEscalationGameEndDate
        /\ getQuestionResolution' = getQuestionResolution
    BY <2>1, EndDateKept, ResolutionKept DEF basis
  <2>3. getFinalQuestionResolution' = getFinalQuestionResolution
    BY <2>1, <2>2 DEF getFinalQuestionResolution
  <2> QED
    BY <1>2, <2>1, <2>2, <2>3 DEF basis, deployed, nonDecision
<1> QED
  BY <1>3, <1>4, <1>5, <1>6, <1>7, <1>8 DEF Next

\* A pool that paid a withdrawal has a final result from before any fork, for as
\* long as it stays in its universe (EscalationGameSettlement.sol).
THEOREM SettledMeansFinalThm == Spec => []SettledMeansFinal
<1>1. Init => SettledMeansFinal
  BY DEF Init, SettledMeansFinal
<1>2. EscrowReconciles => TypeOK
  BY DEF EscrowReconciles
<1> QED
  BY <1>1, <1>2, SettledKept, EscrowReconcilesThm, PTL DEF Spec

\* A final result stays, non-decision is never left, and a game that paid anybody
\* is never dragged into a fork (EscalationGameCalculations.sol,
\* SecurityPoolForker.sol): staking needs an undecided game, time only raises the
\* cost of staying undecided, and both ways into a fork need a game without a
\* result from before the fork.
THEOREM ResultIsTerminalThm == Spec => ResultIsTerminal
<1> DEFINE Kept ==
        /\ deployed /\ getFinalQuestionResolution # Undecided =>
               getFinalQuestionResolution' = getFinalQuestionResolution
        /\ nonDecision => nonDecisionTimestamp' = nonDecisionTimestamp
        /\ poolForked' /\ ~ poolForked => consumed = {}
<1>1. TypeOK /\ SettledMeansFinal /\ Next => Kept
  <2> SUFFICES ASSUME TypeOK, SettledMeansFinal, Next PROVE Kept
    OBVIOUS
  <2>1. deployed /\ getFinalQuestionResolution # Undecided =>
            getFinalQuestionResolution' = getFinalQuestionResolution
    BY FinalKept
  <2>2. nonDecision => nonDecisionTimestamp' = nonDecisionTimestamp
    <3> SUFFICES ASSUME nonDecision PROVE nonDecisionTimestamp' = nonDecisionTimestamp
      OBVIOUS
    <3>1. ASSUME NEW v \in Vault, NEW o \in Outcome, NEW requested \in Amount,
                 depositToEscalationGame(v, o, requested)
          PROVE  FALSE
      BY <3>1 DEF depositToEscalationGame, PreviewAccepts, IsOpen
    <3> QED
      BY <3>1 DEF Next, Tick, withdrawFromEscalationGame, sweepResidualRepToSecurityPool,
                  UniverseBurns, UniverseForks, initiateSecurityPoolFork,
                  forkZoltarWithOwnEscalationGame, LeavePool, claimForkedEscalationDeposits,
                  migrateVaultWithUnresolvedEscalation, stakes
  <2>3. ASSUME poolForked', ~ poolForked PROVE consumed = {}
    <3>1. ASSUME initiateSecurityPoolFork, consumed # {} PROVE FALSE
      <4>1. /\ deployed /\ getFinalQuestionResolution # Undecided
            /\ forkTime = 0 \/ getEscalationGameEndDate < forkTime
        BY <2>3, <3>1 DEF SettledMeansFinal
      <4>2. getQuestionResolution # Undecided
        BY <4>1 DEF getFinalQuestionResolution
      <4>3. forkTime > 0 /\ getEscalationGameEndDate >= forkTime
        BY <3>1, <4>2 DEF initiateSecurityPoolFork, _forkOccurredBeforeEscalationSettled
      <4>4. getEscalationGameEndDate \in Nat
        BY EndDateIsNat
      <4>5. forkTime \in Nat
        BY DEF TypeOK
      <4> QED
        BY <4>1, <4>3, <4>4, <4>5
    <3>2. ASSUME NEW threshold, forkZoltarWithOwnEscalationGame(threshold), consumed # {}
          PROVE  FALSE
      BY <2>3, <3>2 DEF SettledMeansFinal, forkZoltarWithOwnEscalationGame, canTriggerOwnFork
    <3>3. \/ initiateSecurityPoolFork
          \/ \E threshold \in ForkThresholds : forkZoltarWithOwnEscalationGame(threshold)
      BY <2>3 DEF Next, Tick, depositToEscalationGame, withdrawFromEscalationGame,
                  sweepResidualRepToSecurityPool, UniverseBurns, UniverseForks,
                  claimForkedEscalationDeposits, migrateVaultWithUnresolvedEscalation
    <3> QED
      BY <3>1, <3>2, <3>3
  <2> QED
    BY <2>1, <2>2, <2>3
<1>2. TypeOK /\ SettledMeansFinal /\ [Next]_vars => [Kept]_vars
  BY <1>1
<1>3. EscrowReconciles => TypeOK
  BY DEF EscrowReconciles
<1> QED
  BY <1>2, <1>3, EscrowReconcilesThm, SettledMeansFinalThm, PTL DEF Spec, ResultIsTerminal

-----------------------------------------------------------------------------
(* What the winners of an outcome are paid in all.                         *)

\* The total of an outcome after its first n deposits.
TotalAfter(d, n) == IF n = 0 THEN 0 ELSE d[n].cumulative

\* Deposits that follow one another: each starts where the one before ended.
Chained(d) == \A i \in DOMAIN d : d[i].cumulative = TotalAfter(d, i - 1) + d[i].amount

Clip(x, cap) == IF x <= cap THEN x ELSE cap

\* The part of a deposit that lies below the cap.
Eligible(r, cap) == Max({0, Min({r.cumulative, cap}) - (r.cumulative - r.amount)})

\* What the first deposits of a part add up to, and a part divided among them.
ShareOfPart(d, cap, part, whole) ==
    [i \in DOMAIN d |-> (Eligible(d[i], cap) * part) \div whole]

LEMMA TotalAfterNat ==
    ASSUME NEW d \in Seq(DepositRecord), NEW n \in 0 .. Len(d)
    PROVE  TotalAfter(d, n) \in Nat
<1>1. CASE n = 0
  BY <1>1 DEF TotalAfter
<1>2. CASE n # 0
  <2>1. n \in DOMAIN d
    BY <1>2
  <2> QED
    BY <1>2, <2>1, RecordsOf DEF TotalAfter
<1> QED
  BY <1>1, <1>2

\* Laid end to end, the eligible parts fill what lies below the cap.
LEMMA EligibleIsDifference ==
    ASSUME NEW d \in Seq(DepositRecord), Chained(d), NEW i \in DOMAIN d, NEW cap \in Nat
    PROVE  /\ Eligible(d[i], cap) \in Nat
           /\ Clip(TotalAfter(d, i), cap) = Clip(TotalAfter(d, i - 1), cap) + Eligible(d[i], cap)
<1> DEFINE c == d[i].cumulative
           a == d[i].amount
           b == TotalAfter(d, i - 1)
           e == Min({c, cap}) - (c - a)
<1>1. /\ i \in 1 .. Len(d) /\ i - 1 \in 0 .. Len(d) /\ i # 0
  OBVIOUS
<1>2. /\ a \in Nat /\ c \in Nat /\ b \in Nat /\ c = b + a /\ TotalAfter(d, i) = c
  BY <1>1, RecordsOf, TotalAfterNat DEF Chained, TotalAfter
<1> HIDE DEF a, b, c
<1>3. c \in Int /\ cap \in Int /\ 0 \in Int
  BY <1>2
<1>4. /\ Min({c, cap}) \in {c, cap} /\ Min({c, cap}) <= c /\ Min({c, cap}) <= cap
  BY <1>3, MinOfTwo, Zenon
<1>5. e \in Int /\ Min({c, cap}) = Clip(c, cap)
  BY <1>2, <1>3, <1>4 DEF Clip
<1> HIDE DEF e
<1>6. Max({0, e}) \in {0, e} /\ Max({0, e}) >= 0 /\ Max({0, e}) >= e
  BY <1>3, <1>5, MaxOfTwo, Zenon
<1>7. Eligible(d[i], cap) = Max({0, e})
  BY DEF Eligible, e, a, c
<1>8. e = Clip(c, cap) - b
  BY <1>2, <1>5 DEF e
<1>9. Max({0, e}) \in Nat /\ Clip(c, cap) = Clip(b, cap) + Max({0, e})
  BY <1>2, <1>5, <1>6, <1>8 DEF Clip
<1> QED
  BY <1>2, <1>7, <1>9 DEF b

\* The deposits of an outcome add up to its total; the shares of a part divided
\* among them by eligible amount, rounded down one by one, to no more than the
\* part's proportion of the whole.
LEMMA SharesOfChain ==
    ASSUME NEW d \in Seq(DepositRecord), Chained(d), NEW cap \in Nat, NEW part \in Nat,
           NEW whole \in Nat, whole > 0, NEW n \in 0 .. Len(d)
    PROVE  /\ SumFunctionOnSet([i \in DOMAIN d |-> d[i].amount], 1 .. n) = TotalAfter(d, n)
           /\ SumFunctionOnSet(ShareOfPart(d, cap, part, whole), 1 .. n) \in Nat
           /\ whole * SumFunctionOnSet(ShareOfPart(d, cap, part, whole), 1 .. n)
                  <= part * Clip(TotalAfter(d, n), cap)
<1> DEFINE f == [i \in DOMAIN d |-> d[i].amount]
           q == ShareOfPart(d, cap, part, whole)
           Holds(k) == /\ SumFunctionOnSet(f, 1 .. k) = TotalAfter(d, k)
                       /\ SumFunctionOnSet(q, 1 .. k) \in Nat
                       /\ whole * SumFunctionOnSet(q, 1 .. k) <= part * Clip(TotalAfter(d, k), cap)
           Fails == {k \in 0 .. Len(d) : ~ Holds(k)}
<1>1. DOMAIN d = 1 .. Len(d) /\ Len(d) \in Nat
  OBVIOUS
<1>2. \A i \in DOMAIN d : /\ f[i] \in Nat /\ f[i] = d[i].amount
                          /\ q[i] \in Nat /\ whole * q[i] <= Eligible(d[i], cap) * part
                          /\ Eligible(d[i], cap) \in Nat
  <2> SUFFICES ASSUME NEW i \in DOMAIN d
               PROVE  /\ f[i] \in Nat /\ f[i] = d[i].amount
                      /\ q[i] \in Nat /\ whole * q[i] <= Eligible(d[i], cap) * part
                      /\ Eligible(d[i], cap) \in Nat
    OBVIOUS
  <2>1. Eligible(d[i], cap) \in Nat
    BY EligibleIsDifference
  <2>2. Eligible(d[i], cap) * part \in Nat
    BY <2>1
  <2>3. q[i] = (Eligible(d[i], cap) * part) \div whole
    BY DEF ShareOfPart
  <2>4. q[i] \in Nat /\ whole * q[i] <= Eligible(d[i], cap) * part
    BY <2>2, <2>3, Quotient
  <2>5. d[i].amount \in Nat
    BY RecordsOf
  <2> QED
    BY <2>1, <2>4, <2>5
<1> HIDE DEF f, q
<1>3. Holds(0)
  <2>1. 1 .. 0 = {}
    OBVIOUS
  <2>2. SumFunctionOnSet(f, 1 .. 0) = 0 /\ SumFunctionOnSet(q, 1 .. 0) = 0
    BY <2>1, SumEmpty, Zenon
  <2>3. TotalAfter(d, 0) = 0 /\ Clip(0, cap) = 0
    BY DEF TotalAfter, Clip
  <2> QED
    BY <2>2, <2>3
<1>4. ASSUME NEW k \in 1 .. Len(d), Holds(k - 1)
      PROVE  Holds(k)
  <2>1. k \in DOMAIN d /\ k \notin 1 .. (k - 1) /\ (1 .. (k - 1)) \cup {k} = 1 .. k
    BY <1>1
  <2>2. \A i \in 1 .. (k - 1) : i \in DOMAIN d
    BY <1>1
  <2>3. /\ \A i \in 1 .. (k - 1) : f[i] \in Int /\ q[i] \in Int
        /\ f[k] \in Int /\ q[k] \in Int
        /\ IsFiniteSet(1 .. (k - 1))
    <3>1. IsFiniteSet(1 .. (k - 1))
      BY <1>1, FS_Interval
    <3> QED
      BY <1>2, <2>1, <2>2, <3>1
  <2>4. /\ SumFunctionOnSet(f, (1 .. (k - 1)) \cup {k}) = f[k] + SumFunctionOnSet(f, 1 .. (k - 1))
        /\ SumFunctionOnSet(q, (1 .. (k - 1)) \cup {k}) = q[k] + SumFunctionOnSet(q, 1 .. (k - 1))
    BY <2>1, <2>3, SumAdd
  <2>5. /\ SumFunctionOnSet(f, 1 .. k) = f[k] + SumFunctionOnSet(f, 1 .. (k - 1))
        /\ SumFunctionOnSet(q, 1 .. k) = q[k] + SumFunctionOnSet(q, 1 .. (k - 1))
    BY <2>1, <2>4, Zenon
  <2>6. /\ TotalAfter(d, k) = TotalAfter(d, k - 1) + f[k]
        /\ TotalAfter(d, k - 1) \in Nat
    BY <1>1, <1>2, <2>1, TotalAfterNat DEF Chained, TotalAfter
  <2>7. /\ Clip(TotalAfter(d, k), cap) = Clip(TotalAfter(d, k - 1), cap) + Eligible(d[k], cap)
        /\ Clip(TotalAfter(d, k - 1), cap) \in Nat
        /\ Eligible(d[k], cap) \in Nat
    BY <2>1, <2>6, EligibleIsDifference DEF Clip
  <2>8. PICK s \in Nat, t \in Nat, e \in Nat, x \in Nat :
            /\ s = SumFunctionOnSet(q, 1 .. (k - 1)) /\ t = Clip(TotalAfter(d, k - 1), cap)
            /\ e = Eligible(d[k], cap) /\ x = q[k]
    BY <1>2, <1>4, <2>1, <2>7
  <2>9. whole * s <= part * t /\ whole * x <= e * part
    BY <1>2, <1>4, <2>1, <2>8
  <2>10. whole * (x + s) <= part * (t + e)
    BY <2>9
  <2>11. /\ SumFunctionOnSet(q, 1 .. k) = x + s
         /\ Clip(TotalAfter(d, k), cap) = t + e
    BY <2>5, <2>7, <2>8
  <2>12. SumFunctionOnSet(f, 1 .. k) = TotalAfter(d, k)
    <3>1. f[k] \in Int /\ SumFunctionOnSet(f, 1 .. (k - 1)) = TotalAfter(d, k - 1)
      BY <1>4, <2>3
    <3> QED
      BY <2>5, <2>6, <3>1
  <2>13. SumFunctionOnSet(q, 1 .. k) \in Nat
    BY <2>11
  <2> QED
    BY <2>10, <2>11, <2>12, <2>13
<1>5. Fails = {}
  <2> SUFFICES ASSUME Fails # {} PROVE FALSE
    OBVIOUS
  <2>1. Fails \in SUBSET Nat
    BY <1>1
  <2>2. PICK m \in Fails : \A k \in Fails : m <= k
    <3> HIDE DEF Fails
    <3> QED
      BY <2>1, LeastNumber
  <2>3. m \in 0 .. Len(d) /\ ~ Holds(m)
    BY <2>2
  <2>4. m # 0
    BY <1>3, <2>3
  <2>5. m - 1 \in 0 .. Len(d) /\ ~ (m <= m - 1) /\ m \in 1 .. Len(d)
    BY <1>1, <2>3, <2>4
  <2>6. m - 1 \notin Fails
    <3> HIDE DEF Fails
    <3> QED
      BY <2>2, <2>5
  <2>7. Holds(m - 1)
    BY <2>5, <2>6
  <2> QED
    BY <1>4, <2>3, <2>5, <2>7
<1>6. Holds(n)
  BY <1>5
<1> QED
  BY <1>6 DEF f, q

Chains ==
    \A o \in Outcome :
        Chained(deposits[o]) /\ balance[o] = TotalAfter(deposits[o], Len(deposits[o]))

\* What the deposits of an outcome are paid, and what they are paid and burn, before
\* a fallen fork threshold takes its part.
FullPaid(o) == [i \in Indices(o) |-> BonusPayout(deposits[o][i], o).paid]
FullOwed(o) == [i \in Indices(o) |->
    BonusPayout(deposits[o][i], o).paid + BonusPayout(deposits[o][i], o).burned]

LEMMA ShareIsNat ==
    ASSUME NEW n \in Nat, NEW part \in Nat, NEW whole \in Nat, whole > 0
    PROVE  (n * part) \div whole \in Nat
<1>1. n * part \in Nat
  OBVIOUS
<1> QED
  BY <1>1, Quotient

LEMMA FactorCancels ==
    ASSUME NEW w \in Nat, w > 0, NEW a \in Nat, NEW b \in Nat, w * a <= b * w
    PROVE  a <= b
<1> SUFFICES ASSUME a >= b + 1 PROVE FALSE
  OBVIOUS
<1>1. w * a >= w * (b + 1)
  OBVIOUS
<1> QED
  BY <1>1

\* All stakes on one outcome are paid its balance and three fifths of the binding
\* capital, and with the haircuts cost no more than the balance and all of it.
LEMMA PayoutsOfOutcome ==
    ASSUME TypeOK, Chains, NEW o \in Outcome
    PROVE  /\ SumFunctionOnSet(FullPaid(o), Indices(o)) <= balance[o] + (getBindingCapital * 3) \div 5
           /\ SumFunctionOnSet(FullOwed(o), Indices(o)) <= balance[o] + getBindingCapital
           /\ \A i \in Indices(o) : FullPaid(o)[i] \in Nat /\ FullOwed(o)[i] \in Nat
<1> DEFINE d == deposits[o]
           I == Indices(o)
           bonusPart == (getBindingCapital * 3) \div 5
           haircutPart == (getBindingCapital * 2) \div 5
           cap == getBindingCapital + getBindingCapital \div EXCESS_REWARD_WINDOW_DIVISOR
           sharing == Min({balance[o], cap})
           f == [i \in DOMAIN d |-> d[i].amount]
           bonus == ShareOfPart(d, cap, bonusPart, sharing)
           haircut == ShareOfPart(d, cap, haircutPart, sharing)
           paid == FullPaid(o)
           owed == FullOwed(o)
<1>1. /\ d \in Seq(DepositRecord) /\ Chained(d) /\ balance[o] = TotalAfter(d, Len(d))
      /\ balance[o] \in Nat /\ getBindingCapital \in Nat
  <2>1. balance \in [Outcome -> Nat] /\ deposits \in [Outcome -> Seq(DepositRecord)]
    BY DEF TypeOK
  <2> QED
    BY <2>1, BindingIsMedian DEF Chains
<1>2. /\ I = DOMAIN d /\ I = 1 .. Len(d) /\ Len(d) \in Nat
      /\ IsFiniteSet(I) /\ Len(d) \in 0 .. Len(d)
  <2>1. I = DOMAIN d /\ DOMAIN d = 1 .. Len(d) /\ Len(d) \in Nat
    BY <1>1 DEF Indices
  <2>2. IsFiniteSet(1 .. Len(d))
    BY <2>1, FS_Interval
  <2> QED
    BY <2>1, <2>2
<1>3. /\ bonusPart \in Nat /\ haircutPart \in Nat /\ cap \in Nat
      /\ bonusPart + haircutPart <= getBindingCapital
  <2>1. PICK b \in Nat : b = getBindingCapital
    BY <1>1
  <2>2. /\ (b * 3) \div 5 \in Nat /\ 5 * ((b * 3) \div 5) <= b * 3
        /\ (b * 2) \div 5 \in Nat /\ 5 * ((b * 2) \div 5) <= b * 2
        /\ b \div 2 \in Nat
    BY Quotient
  <2> QED
    BY <2>1, <2>2 DEF EXCESS_REWARD_WINDOW_DIVISOR
<1> HIDE DEF bonusPart, haircutPart, cap
<1>4. sharing \in Nat /\ sharing = Clip(balance[o], cap)
  <2>1. balance[o] \in Int /\ cap \in Int
    BY <1>1, <1>3
  <2>2. sharing \in {balance[o], cap} /\ sharing <= balance[o] /\ sharing <= cap
    BY <2>1, MinOfTwo, Zenon
  <2> QED
    BY <1>1, <1>3, <2>2 DEF Clip
<1>5. \A i \in I : BonusPayout(d[i], o) =
          IF sharing = 0 THEN [paid |-> d[i].amount, burned |-> 0]
          ELSE [paid |-> d[i].amount + (Eligible(d[i], cap) * bonusPart) \div sharing,
                burned |-> (Eligible(d[i], cap) * haircutPart) \div sharing]
  BY DEF BonusPayout, Eligible, cap, bonusPart, haircutPart
<1> HIDE DEF sharing
<1>9. \A i \in I : /\ paid[i] = BonusPayout(d[i], o).paid
                    /\ owed[i] = BonusPayout(d[i], o).paid + BonusPayout(d[i], o).burned
  BY DEF FullPaid, FullOwed
<1>6. \A i \in I : d[i].amount \in Nat /\ Eligible(d[i], cap) \in Nat /\ f[i] = d[i].amount
  BY <1>1, <1>2, <1>3, RecordsOf, EligibleIsDifference
<1> HIDE DEF d, I, paid, owed
<1>7. CASE sharing = 0
  <2>1. \A i \in I : f[i] \in Int /\ paid[i] = f[i] /\ owed[i] = f[i]
    <3>2. ASSUME NEW i \in I
          PROVE  BonusPayout(d[i], o).paid = d[i].amount /\ BonusPayout(d[i], o).burned = 0
      <4>1. BonusPayout(d[i], o) = [paid |-> d[i].amount, burned |-> 0]
        BY <1>5, <1>7
      <4> QED
        BY <4>1
    <3> QED
      BY <1>6, <1>9, <3>2
  <2>2. SumFunctionOnSet(f, 1 .. Len(d)) = TotalAfter(d, Len(d))
    BY <1>1, <1>2, SharesOfChain
  <2>3. SumFunctionOnSet(f, I) = balance[o]
    BY <1>1, <1>2, <2>2
  <2> HIDE DEF f, paid, owed
  <2>4. /\ SumFunctionOnSet(paid, I) = SumFunctionOnSet(f, I)
        /\ SumFunctionOnSet(owed, I) = SumFunctionOnSet(f, I)
    BY <1>2, <2>1, SumAgree
  <2>5. \A i \in I : paid[i] \in Nat /\ owed[i] \in Nat
    BY <1>6, <2>1
  <2> QED
    BY <1>1, <1>3, <2>3, <2>4, <2>5 DEF bonusPart, paid, owed, I
<1>8. CASE sharing > 0
  <2>1. /\ SumFunctionOnSet(f, 1 .. Len(d)) = TotalAfter(d, Len(d))
        /\ SumFunctionOnSet(bonus, 1 .. Len(d)) \in Nat
        /\ sharing * SumFunctionOnSet(bonus, 1 .. Len(d)) <= bonusPart * Clip(TotalAfter(d, Len(d)), cap)
    BY <1>1, <1>2, <1>3, <1>4, <1>8, SharesOfChain
  <2>2. /\ SumFunctionOnSet(haircut, 1 .. Len(d)) \in Nat
        /\ sharing * SumFunctionOnSet(haircut, 1 .. Len(d)) <= haircutPart * Clip(TotalAfter(d, Len(d)), cap)
    BY <1>1, <1>2, <1>3, <1>4, <1>8, SharesOfChain
  <2>3. \A i \in I : /\ bonus[i] = (Eligible(d[i], cap) * bonusPart) \div sharing
                     /\ haircut[i] = (Eligible(d[i], cap) * haircutPart) \div sharing
                     /\ bonus[i] \in Nat /\ haircut[i] \in Nat
    <3> SUFFICES ASSUME NEW i \in I
                 PROVE  /\ bonus[i] = (Eligible(d[i], cap) * bonusPart) \div sharing
                        /\ haircut[i] = (Eligible(d[i], cap) * haircutPart) \div sharing
                        /\ bonus[i] \in Nat /\ haircut[i] \in Nat
      OBVIOUS
    <3>1. Eligible(d[i], cap) \in Nat
      BY <1>6
    <3>2. /\ (Eligible(d[i], cap) * bonusPart) \div sharing \in Nat
          /\ (Eligible(d[i], cap) * haircutPart) \div sharing \in Nat
      BY <1>3, <1>4, <1>8, <3>1, ShareIsNat
    <3> QED
      BY <1>2, <3>2 DEF ShareOfPart
  <2> HIDE DEF f, bonus, haircut
  <2>4. /\ SumFunctionOnSet(f, I) = balance[o]
        /\ SumFunctionOnSet(bonus, I) \in Nat /\ SumFunctionOnSet(haircut, I) \in Nat
        /\ SumFunctionOnSet(bonus, I) <= bonusPart /\ SumFunctionOnSet(haircut, I) <= haircutPart
    BY <1>1, <1>2, <1>3, <1>4, <1>8, <2>1, <2>2, FactorCancels
  <2>5. \A i \in I : /\ f[i] \in Int /\ bonus[i] \in Int /\ haircut[i] \in Int
                     /\ paid[i] = f[i] + bonus[i]
                     /\ owed[i] = paid[i] + haircut[i]
                     /\ paid[i] \in Nat /\ owed[i] \in Nat
    <3>2. ASSUME NEW i \in I
          PROVE  /\ BonusPayout(d[i], o).paid = d[i].amount + bonus[i]
                 /\ BonusPayout(d[i], o).burned = haircut[i]
      <4>1. sharing # 0
        BY <1>8
      <4>2. BonusPayout(d[i], o) =
                [paid |-> d[i].amount + (Eligible(d[i], cap) * bonusPart) \div sharing,
                 burned |-> (Eligible(d[i], cap) * haircutPart) \div sharing]
        BY <1>5, <4>1
      <4>3. /\ bonus[i] = (Eligible(d[i], cap) * bonusPart) \div sharing
            /\ haircut[i] = (Eligible(d[i], cap) * haircutPart) \div sharing
        BY <2>3
      <4> QED
        BY <4>2, <4>3
    <3>3. \A i \in I : f[i] \in Nat /\ f[i] = d[i].amount
      BY <1>6 DEF f
    <3>4. \A i \in I : paid[i] = f[i] + bonus[i] /\ owed[i] = paid[i] + haircut[i]
      BY <1>9, <3>2, <3>3
    <3> QED
      BY <2>3, <3>3, <3>4
  <2> HIDE DEF paid, owed
  <2>6. SumFunctionOnSet(paid, I) = SumFunctionOnSet(f, I) + SumFunctionOnSet(bonus, I)
    BY <1>2, <2>5, SumPlus
  <2>7. SumFunctionOnSet(owed, I) = SumFunctionOnSet(paid, I) + SumFunctionOnSet(haircut, I)
    <3>1. \A i \in I : paid[i] \in Int /\ haircut[i] \in Int /\ owed[i] = paid[i] + haircut[i]
      BY <2>5
    <3> QED
      BY <1>2, <3>1, SumPlus
  <2>8. /\ SumFunctionOnSet(paid, I) <= balance[o] + bonusPart
        /\ SumFunctionOnSet(owed, I) <= balance[o] + getBindingCapital
    BY <1>1, <1>3, <2>4, <2>6, <2>7
  <2> QED
    BY <2>5, <2>8 DEF bonusPart, paid, owed, I
<1> QED
  BY <1>4, <1>7, <1>8

-----------------------------------------------------------------------------
(* The game covers what it owes.                                           *)

LEMMA SumOfOutcomes ==
    ASSUME NEW f, \A o \in Outcome : f[o] \in Int
    PROVE  SumFunctionOnSet(f, Outcome) = f["Invalid"] + f["Yes"] + f["No"]
<1>1. /\ Outcome \ {"Invalid"} = {"Yes", "No"}
      /\ {"Yes", "No"} \ {"Yes"} = {"No"} /\ {"No"} \ {"No"} = {}
      /\ "Invalid" \in Outcome
  BY DEF Outcome
<1>2. IsFiniteSet(Outcome) /\ IsFiniteSet({"Yes", "No"}) /\ IsFiniteSet({"No"})
  <2>1. {"Yes", "No"} \in SUBSET Outcome /\ {"No"} \in SUBSET Outcome
    BY DEF Outcome
  <2> QED
    BY <2>1, OutcomesAreFinite, FS_Subset
<1>3. f["Invalid"] \in Int /\ f["Yes"] \in Int /\ f["No"] \in Int
  BY DEF Outcome
<1>4. SumFunctionOnSet(f, Outcome) = f["Invalid"] + SumFunctionOnSet(f, Outcome \ {"Invalid"})
  BY <1>1, <1>2, SumRemove
<1>5. SumFunctionOnSet(f, {"Yes", "No"})
          = f["Yes"] + SumFunctionOnSet(f, {"Yes", "No"} \ {"Yes"})
  BY <1>2, <1>3, SumRemove
<1>6. SumFunctionOnSet(f, {"No"}) = f["No"] + SumFunctionOnSet(f, {"No"} \ {"No"})
  BY <1>2, <1>3, SumRemove
<1>7. /\ SumFunctionOnSet(f, Outcome \ {"Invalid"}) = SumFunctionOnSet(f, {"Yes", "No"})
      /\ SumFunctionOnSet(f, {"Yes", "No"} \ {"Yes"}) = SumFunctionOnSet(f, {"No"})
      /\ SumFunctionOnSet(f, {"No"} \ {"No"}) = 0
  BY <1>1, SumEmpty, Zenon
<1> QED
  BY <1>3, <1>4, <1>5, <1>6, <1>7

\* The losing side covers every bonus and every haircut of the winning one.
LEMMA WinnerAffordable ==
    ASSUME TypeOK, Chains, NEW w, w = getQuestionResolution, w # Undecided
    PROVE  /\ w \in Outcome
           /\ SumFunctionOnSet(FullOwed(w), Indices(w)) <= SumFunctionOnSet(balance, Outcome)
<1>1. \A o \in Outcome : balance[o] \in Nat
  BY DEF TypeOK
<1>2. \/ w = "Invalid" /\ \A o \in Outcome : balance[o] = 0
      \/ w \in Outcome /\ \A o \in Outcome \ {w} : balance[w] > balance[o]
  BY DEF getQuestionResolution, StrictLeaders
<1>3. w \in Outcome
  BY <1>2 DEF Outcome
<1>4. SumFunctionOnSet(FullOwed(w), Indices(w)) <= balance[w] + getBindingCapital
  BY <1>3, PayoutsOfOutcome
<1>5. balance[w] + getBindingCapital <= SumFunctionOnSet(balance, Outcome)
  <2>1. PICK o \in Outcome, p \in Outcome, q \in Outcome :
            /\ o # p /\ o # q /\ p # q
            /\ getBindingCapital = balance[o]
            /\ balance[p] <= balance[o] /\ balance[o] <= balance[q]
    <3>1. balance \in [Outcome -> Nat]
      BY DEF TypeOK
    <3> QED
      BY <3>1, BindingIsMedian
  <2>2. SumFunctionOnSet(balance, Outcome) = balance["Invalid"] + balance["Yes"] + balance["No"]
    <3>1. \A u \in Outcome : balance[u] \in Int
      BY <1>1
    <3> QED
      BY <3>1, SumOfOutcomes
  <2>3. /\ balance["Invalid"] + balance["Yes"] + balance["No"] = balance[o] + balance[p] + balance[q]
        /\ balance[o] \in Nat /\ balance[p] \in Nat /\ balance[q] \in Nat
        /\ w \in {o, p, q}
    BY <1>1, <1>3, <2>1 DEF Outcome
  <2>4. CASE w # o
    BY <2>1, <2>2, <2>3, <2>4
  <2>5. CASE w = o
    <3>1. \A u \in Outcome : balance[u] = 0
      BY <1>2, <2>1, <2>3, <2>5
    <3> QED
      BY <2>1, <2>2, <2>3, <2>5, <3>1
  <2> QED
    BY <2>4, <2>5
<1>6. /\ getBindingCapital \in Nat
      /\ SumFunctionOnSet(FullOwed(w), Indices(w)) \in Int
      /\ SumFunctionOnSet(balance, Outcome) \in Int
  <2>1. balance \in [Outcome -> Nat] /\ \A o \in Outcome : balance[o] \in Int
    BY DEF TypeOK
  <2>2. \A i \in Indices(w) : FullOwed(w)[i] \in Int
    BY <1>3, PayoutsOfOutcome
  <2>3. IsFiniteSet(Indices(w))
    <3>1. deposits[w] \in Seq(DepositRecord)
      BY <1>3 DEF TypeOK
    <3> QED
      BY <3>1, IndicesAreFinite DEF Indices
  <2> QED
    BY <2>1, <2>2, <2>3, BindingIsMedian, OutcomesAreFinite, SumInt
<1> QED
  BY <1>1, <1>3, <1>4, <1>5, <1>6

\* Two outcomes are full in non-decision.
NonDecisionHeld ==
    nonDecision => \E x, y \in Outcome : /\ x # y
                                         /\ balance[x] = NonDecisionThreshold
                                         /\ balance[y] = NonDecisionThreshold

\* Until the pool leaves, the game holds every stake, or has a result and holds what
\* the winners not yet paid may still cost.
Backed ==
    ~ poolForked =>
        \/ gameRep >= SumFunctionOnSet(balance, Outcome)
        \/ \E w \in Outcome :
              /\ deployed /\ w = getFinalQuestionResolution
              /\ gameRep >= SumFunctionOnSet(FullOwed(w), Unconsumed(w))

\* After the pool's own fork a child's bucket covers what is left to claim there.
BucketHolds ==
    /\ ~ poolForked => \A o \in Outcome : directPaid[o] = 0
    /\ poolForked /\ fork.own =>
           \A o \in Outcome :
               directPaid[o] + SumFunctionOnSet(FullPaid(o), Unconsumed(o)) <= fork.bucket

Funds == Chains /\ NonDecisionHeld /\ Backed /\ BucketHolds

\* What the payouts are computed from.
LEMMA FullKept ==
    ASSUME UNCHANGED <<balance, deposits>>, NEW o \in Outcome
    PROVE  FullOwed(o)' = FullOwed(o) /\ FullPaid(o)' = FullPaid(o) /\ Indices(o)' = Indices(o)
<1>1. getBindingCapital' = getBindingCapital
  BY DEF getBindingCapital, countBalancesAtLeast
<1> QED
  BY <1>1 DEF FullOwed, FullPaid, Indices, BonusPayout

LEMMA UnconsumedIsFinite ==
    ASSUME TypeOK, NEW o \in Outcome
    PROVE  /\ IsFiniteSet(Indices(o)) /\ Unconsumed(o) \in SUBSET Indices(o)
           /\ IsFiniteSet(Unconsumed(o))
<1>1. deposits[o] \in Seq(DepositRecord)
  BY DEF TypeOK
<1>2. IsFiniteSet(Indices(o)) /\ Unconsumed(o) \in SUBSET Indices(o)
  BY <1>1, IndicesAreFinite DEF Indices, Unconsumed
<1> QED
  BY <1>2, FS_Subset

\* No cost is above the threshold.
LEMMA CostIsBounded ==
    ASSUME TypeOK
    PROVE  totalCost \in Nat /\ totalCost <= NonDecisionThreshold
<1>1. /\ NonDecisionThreshold \in Nat /\ StartBond \in Nat /\ StartBond < NonDecisionThreshold
      /\ ESCALATION_TIME_LENGTH \in Nat
      /\ now \in Nat /\ activationTime \in Nat
  BY GameAssumption, CurveAssumption DEF TypeOK
<1>2. ASSUME NEW t \in 0 .. ESCALATION_TIME_LENGTH
      PROVE  AttritionCost[t] \in Nat /\ AttritionCost[t] <= NonDecisionThreshold
  <2>1. AttritionCost[t] \in Nat
    BY CurveRisesAssumption
  <2>2. AttritionCost[t] = computeIterativeAttritionCost(StartBond, NonDecisionThreshold, t)
    BY DEF AttritionCost
  <2>3. \/ AttritionCost[t] = StartBond \/ AttritionCost[t] = NonDecisionThreshold
        \/ AttritionCost[t] = CurvePoint(StartBond, NonDecisionThreshold, t)
    BY <2>2 DEF computeIterativeAttritionCost
  <2>4. \/ CurvePoint(StartBond, NonDecisionThreshold, t) = NonDecisionThreshold
        \/ ~ CurvePoint(StartBond, NonDecisionThreshold, t) > NonDecisionThreshold
    BY Zenon DEF CurvePoint
  <2> QED
    BY <1>1, <2>1, <2>3, <2>4
<1>3. CASE now > activationTime /\ now - activationTime < ESCALATION_TIME_LENGTH
  <2>1. now - activationTime \in 0 .. ESCALATION_TIME_LENGTH
    BY <1>1, <1>3
  <2>2. totalCost = AttritionCost[now - activationTime]
    BY <1>1, <1>3 DEF totalCost
  <2> QED
    BY <1>2, <2>1, <2>2
<1>4. CASE ~ (now > activationTime /\ now - activationTime < ESCALATION_TIME_LENGTH)
  BY <1>1, <1>4 DEF totalCost
<1> QED
  BY <1>3, <1>4

\* In non-decision there is no result, and twice the threshold is at stake.
LEMMA NonDecisionIsUndecided ==
    ASSUME TypeOK, NonDecisionHeld, nonDecision
    PROVE  /\ getQuestionResolution = Undecided
           /\ getFinalQuestionResolution = Undecided
           /\ \E x, y, z \in Outcome :
                  /\ x # y /\ y # z /\ x # z
                  /\ balance[x] = NonDecisionThreshold /\ balance[y] = NonDecisionThreshold
           /\ SumFunctionOnSet(balance, Outcome) >= 2 * NonDecisionThreshold
<1>1. PICK x \in Outcome, y \in Outcome : /\ x # y
                                          /\ balance[x] = NonDecisionThreshold
                                          /\ balance[y] = NonDecisionThreshold
  BY DEF NonDecisionHeld
<1>2. PICK z \in Outcome : x # z /\ y # z
  BY <1>1 DEF Outcome
<1>3. /\ \A o \in Outcome : balance[o] \in Nat
      /\ NonDecisionThreshold \in Nat
  <2>1. \A o \in Outcome : balance[o] \in Nat
    BY DEF TypeOK
  <2> QED
    BY <2>1, GameAssumption
<1>4. countBalancesAtLeast(totalCost) >= 2
  <2> DEFINE A == {o \in Outcome : balance[o] >= totalCost}
  <2>1. x \in A /\ y \in A
    BY <1>1, <1>3, CostIsBounded
  <2>2. A \in SUBSET Outcome
    OBVIOUS
  <2>3. Cardinality(A) >= 2
    BY <1>1, <2>1, <2>2, TwoOutcomes
  <2> QED
    BY <2>3 DEF countBalancesAtLeast
<1>5. getQuestionResolution = Undecided /\ getFinalQuestionResolution = Undecided
  BY <1>4 DEF getQuestionResolution, getFinalQuestionResolution
<1>6. SumFunctionOnSet(balance, Outcome) = balance["Invalid"] + balance["Yes"] + balance["No"]
  <2>1. \A u \in Outcome : balance[u] \in Int
    BY <1>3
  <2> QED
    BY <2>1, SumOfOutcomes
<1>7. balance["Invalid"] + balance["Yes"] + balance["No"] = balance[x] + balance[y] + balance[z]
  BY <1>1, <1>2, <1>3 DEF Outcome
<1>8. SumFunctionOnSet(balance, Outcome) >= 2 * NonDecisionThreshold
  BY <1>1, <1>3, <1>6, <1>7
<1> QED
  BY <1>1, <1>2, <1>5, <1>8

LEMMA FundsFund == TypeOK /\ Funds => ClaimsFunded
<1> SUFFICES ASSUME TypeOK, Funds PROVE ClaimsFunded
  OBVIOUS
<1>1. ASSUME NEW o \in Outcome
      PROVE  /\ \A i \in Indices(o) : FullPaid(o)[i] \in Nat /\ FullOwed(o)[i] \in Nat
             /\ \A i \in Indices(o) :
                   /\ _computeWinningWithdrawal(o, i).paid \in Nat
                   /\ _computeWinningWithdrawal(o, i).paid <= FullPaid(o)[i]
                   /\ Owed(o, i) \in Nat /\ Owed(o, i) <= FullOwed(o)[i]
  <2>1. \A i \in Indices(o) : FullPaid(o)[i] \in Nat /\ FullOwed(o)[i] \in Nat
    BY PayoutsOfOutcome DEF Funds
  <2> SUFFICES ASSUME NEW i \in Indices(o)
               PROVE  /\ _computeWinningWithdrawal(o, i).paid \in Nat
                      /\ _computeWinningWithdrawal(o, i).paid <= FullPaid(o)[i]
                      /\ Owed(o, i) \in Nat /\ Owed(o, i) <= FullOwed(o)[i]
    BY <2>1
  <2>2. /\ FullPaid(o)[i] = BonusPayout(deposits[o][i], o).paid
        /\ FullOwed(o)[i] = BonusPayout(deposits[o][i], o).paid + BonusPayout(deposits[o][i], o).burned
    BY DEF FullPaid, FullOwed
  <2>3. i \in DOMAIN deposits[o]
    BY DEF Indices
  <2> QED
    BY <2>2, <2>3, PayoutTypes DEF Owed
<1>2. WinnersFunded
  <2> SUFFICES ASSUME NEW w, w = getQuestionOutcome, deployed, w # Undecided
               PROVE  gameRep >= SumFunctionOnSet([i \in Indices(w) |-> Owed(w, i)], Unconsumed(w))
    BY DEF WinnersFunded
  <2>1. ~ poolForked /\ w = getFinalQuestionResolution /\ w = getQuestionResolution
    BY DEF getQuestionOutcome, getFinalQuestionResolution
  <2>2. /\ w \in Outcome
        /\ SumFunctionOnSet(FullOwed(w), Indices(w)) <= SumFunctionOnSet(balance, Outcome)
    BY <2>1, WinnerAffordable DEF Funds
  <2> DEFINE owed == [i \in Indices(w) |-> Owed(w, i)]
  <2>3. /\ \A i \in Indices(w) : FullOwed(w)[i] \in Nat
        /\ \A i \in Unconsumed(w) : owed[i] \in Int /\ FullOwed(w)[i] \in Int /\ owed[i] <= FullOwed(w)[i]
        /\ IsFiniteSet(Indices(w)) /\ Unconsumed(w) \in SUBSET Indices(w) /\ IsFiniteSet(Unconsumed(w))
    BY <1>1, <2>2, UnconsumedIsFinite
  <2> HIDE DEF owed
  <2>4. SumFunctionOnSet(owed, Unconsumed(w)) <= SumFunctionOnSet(FullOwed(w), Unconsumed(w))
    BY <2>3, SumMonotone
  <2>5. SumFunctionOnSet(FullOwed(w), Unconsumed(w)) <= SumFunctionOnSet(FullOwed(w), Indices(w))
    BY <2>3, SumPart
  <2>6. /\ SumFunctionOnSet(owed, Unconsumed(w)) \in Int
        /\ SumFunctionOnSet(FullOwed(w), Unconsumed(w)) \in Int
        /\ SumFunctionOnSet(FullOwed(w), Indices(w)) \in Int
        /\ SumFunctionOnSet(balance, Outcome) \in Int
    <3>1. \A o \in Outcome : balance[o] \in Int
      BY DEF TypeOK
    <3>2. \A i \in Indices(w) : FullOwed(w)[i] \in Int
      BY <2>3
    <3> QED
      BY <2>3, <3>1, <3>2, OutcomesAreFinite, SumInt
  <2>7. \/ gameRep >= SumFunctionOnSet(balance, Outcome)
        \/ gameRep >= SumFunctionOnSet(FullOwed(w), Unconsumed(w))
    BY <2>1 DEF Funds, Backed
  <2>8. gameRep \in Nat
    BY DEF TypeOK
  <2> QED
    BY <2>2, <2>4, <2>5, <2>6, <2>7, <2>8 DEF owed
<1>3. poolForked /\ fork.own =>
          \A o \in Outcome : directPaid[o] + SumFunctionOnSet(
              [i \in Indices(o) |-> _computeWinningWithdrawal(o, i).paid], Unconsumed(o))
                  <= fork.bucket
  <2> SUFFICES ASSUME poolForked, fork.own, NEW o \in Outcome
               PROVE  directPaid[o] + SumFunctionOnSet(
                          [i \in Indices(o) |-> _computeWinningWithdrawal(o, i).paid], Unconsumed(o))
                              <= fork.bucket
    OBVIOUS
  <2> DEFINE paid == [i \in Indices(o) |-> _computeWinningWithdrawal(o, i).paid]
  <2>1. /\ \A i \in Unconsumed(o) : paid[i] \in Int /\ FullPaid(o)[i] \in Int /\ paid[i] <= FullPaid(o)[i]
        /\ IsFiniteSet(Unconsumed(o))
    BY <1>1, UnconsumedIsFinite
  <2> HIDE DEF paid
  <2>2. SumFunctionOnSet(paid, Unconsumed(o)) <= SumFunctionOnSet(FullPaid(o), Unconsumed(o))
    BY <2>1, SumMonotone
  <2>3. /\ SumFunctionOnSet(paid, Unconsumed(o)) \in Int
        /\ SumFunctionOnSet(FullPaid(o), Unconsumed(o)) \in Int
    BY <2>1, SumInt
  <2>4. directPaid[o] \in Nat /\ fork.bucket \in Nat
    BY DEF TypeOK
  <2>5. directPaid[o] + SumFunctionOnSet(FullPaid(o), Unconsumed(o)) <= fork.bucket
    BY DEF Funds, BucketHolds
  <2> QED
    BY <2>2, <2>3, <2>4, <2>5 DEF paid
<1>4. nonDecision /\ ~ poolForked => gameRep >= forkThreshold
  <2> SUFFICES ASSUME nonDecision, ~ poolForked PROVE gameRep >= forkThreshold
    OBVIOUS
  <2>1. /\ getFinalQuestionResolution = Undecided
        /\ SumFunctionOnSet(balance, Outcome) >= 2 * NonDecisionThreshold
    BY NonDecisionIsUndecided DEF Funds
  <2>2. gameRep >= SumFunctionOnSet(balance, Outcome)
    <3>1. Undecided \notin Outcome
      BY DEF Undecided, Outcome
    <3> QED
      BY <2>1, <3>1 DEF Funds, Backed
  <2>3. SumFunctionOnSet(balance, Outcome) \in Int
    <3>1. \A o \in Outcome : balance[o] \in Int
      BY DEF TypeOK
    <3> QED
      BY <3>1, OutcomesAreFinite, SumInt
  <2>4. /\ forkThreshold \in Nat /\ forkThreshold <= 2 * NonDecisionThreshold
        /\ NonDecisionThreshold \in Nat
    BY GameAssumption DEF TypeOK
  <2>5. gameRep \in Nat
    BY DEF TypeOK
  <2> QED
    BY <2>1, <2>2, <2>3, <2>4, <2>5
<1> QED
  BY <1>2, <1>3, <1>4 DEF ClaimsFunded, OwnForkFunded

-----------------------------------------------------------------------------
(* Every step keeps the funds.                                             *)

LEMMA InitFunds == Init => Funds
<1> SUFFICES ASSUME Init PROVE Funds
  OBVIOUS
<1>1. /\ deposits = [o \in Outcome |-> <<>>] /\ balance = [o \in Outcome |-> 0]
      /\ gameRep = 0 /\ poolForked = FALSE /\ directPaid = [o \in Outcome |-> 0]
      /\ nonDecisionTimestamp = 0
  BY DEF Init
<1>2. Chains
  <2> SUFFICES ASSUME NEW o \in Outcome
               PROVE  Chained(deposits[o]) /\ balance[o] = TotalAfter(deposits[o], Len(deposits[o]))
    BY DEF Chains
  <2>1. deposits[o] = <<>> /\ DOMAIN deposits[o] = {} /\ Len(deposits[o]) = 0
    BY <1>1
  <2> QED
    BY <1>1, <2>1 DEF Chained, TotalAfter
<1>3. SumFunctionOnSet(balance, Outcome) = 0
  <2>1. \A o \in Outcome : balance[o] = 0
    BY <1>1
  <2> QED
    BY <2>1, OutcomesAreFinite, SumZero
<1>4. NonDecisionHeld /\ Backed /\ BucketHolds
  BY <1>1, <1>3 DEF NonDecisionHeld, nonDecision, Backed, BucketHolds
<1> QED
  BY <1>2, <1>4 DEF Funds

\* A stake is appended where the outcome's chain ends and paid into the game.
LEMMA DepositKeepsFunds ==
    ASSUME IInv, TypeOK, Funds, TypeOK', NEW v \in Vault, NEW o \in Outcome,
           NEW requested \in Amount, depositToEscalationGame(v, o, requested)
    PROVE  Funds'
<1>1. PICK amount \in Nat : amount > 0 /\ amount = AcceptedAmount(o, requested)
  <2>1. AcceptedAmount(o, requested) \in Int
    BY AcceptedIsInt DEF IInv
  <2>2. AcceptedAmount(o, requested) > 0
    BY DEF depositToEscalationGame, recordDeposit, RecordAccepts
  <2> QED
    BY <2>1, <2>2
<1>2. PICK total \in Nat : total = balance[o] + amount
  <2>1. balance[o] \in Nat
    BY DEF TypeOK
  <2> QED
    BY <2>1
<1>3. PICK record : record = [depositor |-> v, amount |-> amount, cumulative |-> total]
  OBVIOUS
<1>4. /\ IsOpen
      /\ balance' = [balance EXCEPT ![o] = total]
      /\ deposits' = [deposits EXCEPT ![o] = Append(@, record)]
      /\ gameRep' = gameRep + amount
      /\ ~ poolForked
      /\ UNCHANGED <<poolForked, directPaid>>
      /\ nonDecisionTimestamp' = IF hasReachedNonDecision' THEN now ELSE nonDecisionTimestamp
  BY <1>1, <1>2, <1>3 DEF depositToEscalationGame, recordDeposit, RecordAccepts, isOperational
<1>5. /\ balance \in [Outcome -> Int] /\ total \in Int
      /\ deposits \in [Outcome -> Seq(DepositRecord)]
      /\ gameRep \in Nat
  <2>1. balance \in [Outcome -> 0 .. NonDecisionThreshold] /\ 0 .. NonDecisionThreshold \subseteq Int
    BY DEF TypeOK
  <2>2. balance \in [Outcome -> Int]
    BY <2>1
  <2>3. deposits \in [Outcome -> Seq(DepositRecord)] /\ gameRep \in Nat
    BY DEF TypeOK
  <2> QED
    BY <2>2, <2>3
<1>6. Chains'
  <2> SUFFICES ASSUME NEW p \in Outcome
               PROVE  /\ Chained(deposits'[p])
                      /\ balance'[p] = TotalAfter(deposits'[p], Len(deposits'[p]))
    BY DEF Chains
  <2>1. Chained(deposits[p]) /\ balance[p] = TotalAfter(deposits[p], Len(deposits[p]))
    BY DEF Funds, Chains
  <2>2. CASE p # o
    <3>1. deposits'[p] = deposits[p] /\ balance'[p] = balance[p]
      BY <1>4, <1>5, <2>2
    <3> QED
      BY <2>1, <3>1, Zenon
  <2>3. CASE p = o
    <3>1. PICK d \in Seq(DepositRecord) : d = deposits[o]
      BY <1>5
    <3>2. PICK c : c = Append(d, record)
      OBVIOUS
    <3>3. deposits'[p] = c /\ balance'[p] = total /\ Chained(d) /\ balance[o] = TotalAfter(d, Len(d))
      BY <1>4, <1>5, <2>1, <2>3, <3>1, <3>2
    <3>4. /\ Len(c) = Len(d) + 1 /\ Len(d) \in Nat
          /\ \A i \in 1 .. Len(d) : c[i] = d[i]
          /\ c[Len(d) + 1] = record
          /\ DOMAIN c = 1 .. Len(d) + 1 /\ DOMAIN d = 1 .. Len(d)
      <4>1. record \in DepositRecord
        BY <1>3 DEF DepositRecord
      <4> QED
        BY <3>2, <4>1
    <3>5. ASSUME NEW n \in 0 .. Len(d) PROVE TotalAfter(c, n) = TotalAfter(d, n)
      BY <3>4 DEF TotalAfter
    <3>6. record.cumulative = total /\ record.amount = amount
      BY <1>3
    <3>7. TotalAfter(c, Len(c)) = total
      BY <3>4, <3>6 DEF TotalAfter
    <3>8. Chained(c)
      <4> SUFFICES ASSUME NEW i \in DOMAIN c
                   PROVE  c[i].cumulative = TotalAfter(c, i - 1) + c[i].amount
        BY DEF Chained
      <4>1. CASE i \in DOMAIN d
        <5>1. i - 1 \in 0 .. Len(d) /\ c[i] = d[i]
          BY <3>4, <4>1
        <5>2. TotalAfter(c, i - 1) = TotalAfter(d, i - 1)
          BY <3>5, <5>1
        <5>3. d[i].cumulative = TotalAfter(d, i - 1) + d[i].amount
          BY <3>3, <4>1 DEF Chained
        <5> QED
          BY <5>1, <5>2, <5>3
      <4>2. CASE i = Len(d) + 1
        <5>1. i - 1 = Len(d) /\ Len(d) \in 0 .. Len(d)
          BY <3>4, <4>2
        <5>2. TotalAfter(c, i - 1) = balance[o]
          BY <3>3, <3>5, <5>1
        <5> QED
          BY <1>2, <3>4, <3>6, <4>2, <5>2
      <4> QED
        BY <3>4, <4>1, <4>2
    <3> QED
      BY <3>3, <3>7, <3>8
  <2> QED
    BY <2>2, <2>3
<1>7. NonDecisionHeld'
  <2> SUFFICES ASSUME nonDecisionTimestamp' # 0
               PROVE  \E x, y \in Outcome : /\ x # y
                                            /\ balance'[x] = NonDecisionThreshold
                                            /\ balance'[y] = NonDecisionThreshold
    BY DEF NonDecisionHeld, nonDecision
  <2>1. hasReachedNonDecision'
    BY <1>4 DEF IsOpen, nonDecision
  <2> DEFINE A == {p \in Outcome : balance'[p] >= NonDecisionThreshold}
  <2>2. A \in SUBSET Outcome /\ Cardinality(A) >= 2
    BY <2>1 DEF hasReachedNonDecision, countBalancesAtLeast
  <2>3. PICK x \in A, y \in A : x # y
    BY <2>2, TwoOutcomes
  <2>4. \A p \in Outcome : balance'[p] \in 0 .. NonDecisionThreshold
    BY DEF TypeOK
  <2>5. NonDecisionThreshold \in Nat
    BY GameAssumption
  <2>6. \A p \in A : balance'[p] = NonDecisionThreshold
    BY <2>4, <2>5
  <2> QED
    BY <2>3, <2>6
<1>8. Backed'
  <2>1. gameRep >= SumFunctionOnSet(balance, Outcome)
    <3>1. ~ (deployed /\ getFinalQuestionResolution # Undecided)
      BY <1>4 DEF IsOpen, getFinalQuestionResolution
    <3>2. Undecided \notin Outcome
      BY DEF Undecided, Outcome
    <3> QED
      BY <1>4, <3>1, <3>2 DEF Funds, Backed
  <2>2. SumFunctionOnSet([balance EXCEPT ![o] = total], Outcome)
            = SumFunctionOnSet(balance, Outcome) + (total - balance[o])
    BY <1>5, OutcomesAreFinite, SumExcept
  <2>3. SumFunctionOnSet(balance, Outcome) \in Int /\ balance[o] \in Int
    <3>1. \A p \in Outcome : balance[p] \in Int
      BY <1>5
    <3> QED
      BY <3>1, OutcomesAreFinite, SumInt
  <2>4. SumFunctionOnSet(balance', Outcome) = SumFunctionOnSet([balance EXCEPT ![o] = total], Outcome)
    BY <1>4, Zenon
  <2>5. SumFunctionOnSet(balance', Outcome) = SumFunctionOnSet(balance, Outcome) + amount
    BY <1>2, <2>2, <2>3, <2>4
  <2>6. gameRep' >= SumFunctionOnSet(balance', Outcome)
    BY <1>4, <1>5, <2>1, <2>3, <2>5
  <2> QED
    BY <2>6 DEF Backed
<1>9. BucketHolds'
  BY <1>4 DEF Funds, BucketHolds
<1> QED
  BY <1>6, <1>7, <1>8, <1>9 DEF Funds

\* A deposit is consumed once; no other is touched.
LEMMA ConsumedLeaves ==
    ASSUME NEW o \in Outcome, NEW i \in DOMAIN deposits[o], _consumeLocalDeposit(o, i),
           UNCHANGED deposits
    PROVE  /\ i \in Unconsumed(o) /\ Unconsumed(o)' = Unconsumed(o) \ {i}
           /\ \A p \in Outcome \ {o} : Unconsumed(p)' = Unconsumed(p)
BY DEF _consumeLocalDeposit, Unconsumed, Indices

\* Neither the chains nor non-decision depend on more than the stakes.
LEMMA StakesKeepFunds ==
    Funds /\ UNCHANGED stakes => Chains' /\ NonDecisionHeld'
BY DEF Funds, stakes, Chains, NonDecisionHeld, nonDecision

\* A result that stays final still costs what its unpaid winners cost.
LEMMA WithdrawKeepsFunds ==
    ASSUME TypeOK, Funds, NEW o \in Outcome, NEW i \in DOMAIN deposits[o],
           withdrawFromEscalationGame(o, i)
    PROVE  Funds'
<1>1. /\ deployed /\ ~ poolForked
      /\ getFinalQuestionResolution # Undecided
      /\ getFinalQuestionResolution = getQuestionResolution
      /\ _consumeLocalDeposit(o, i)
      /\ UNCHANGED <<deposits, balance, stakes, poolForked, directPaid>>
      /\ Next
  BY DEF withdrawFromEscalationGame, withdrawDeposit, getQuestionOutcome,
         getFinalQuestionResolution, stakes, Next
<1>2. PICK w \in Outcome : w = getFinalQuestionResolution
  BY <1>1, WinnerAffordable DEF Funds
<1>3. PICK owed, I, U : owed = FullOwed(w) /\ I = Indices(w) /\ U = Unconsumed(w)
  OBVIOUS
<1>4. /\ getFinalQuestionResolution' = w /\ deployed'
      /\ FullOwed(w)' = owed
  BY <1>1, <1>2, <1>3, FinalKept, FullKept
<1>5. /\ \A j \in I : owed[j] \in Nat
      /\ \A j \in U : owed[j] \in Nat /\ owed[j] \in Int
      /\ IsFiniteSet(I) /\ U \in SUBSET I /\ IsFiniteSet(U)
  <2>1. \A j \in I : owed[j] \in Nat
    BY <1>3, PayoutsOfOutcome DEF Funds
  <2>2. IsFiniteSet(I) /\ U \in SUBSET I /\ IsFiniteSet(U)
    BY <1>3, UnconsumedIsFinite
  <2> QED
    BY <2>1, <2>2
<1>6. gameRep >= SumFunctionOnSet(owed, U)
  <2>1. SumFunctionOnSet(owed, I) <= SumFunctionOnSet(balance, Outcome)
    BY <1>1, <1>2, <1>3, WinnerAffordable DEF Funds
  <2>2. SumFunctionOnSet(owed, U) <= SumFunctionOnSet(owed, I)
    BY <1>5, SumPart
  <2>3. /\ SumFunctionOnSet(owed, U) \in Int /\ SumFunctionOnSet(owed, I) \in Int
        /\ SumFunctionOnSet(balance, Outcome) \in Int
    <3>1. \A p \in Outcome : balance[p] \in Int
      BY DEF TypeOK
    <3>2. \A j \in I : owed[j] \in Int
      BY <1>5
    <3> QED
      BY <1>5, <3>1, <3>2, OutcomesAreFinite, SumInt
  <2>4. \/ gameRep >= SumFunctionOnSet(balance, Outcome)
        \/ gameRep >= SumFunctionOnSet(owed, U)
    BY <1>1, <1>2, <1>3 DEF Funds, Backed
  <2>5. gameRep \in Nat
    BY DEF TypeOK
  <2> QED
    BY <2>1, <2>2, <2>3, <2>4, <2>5
<1>7. /\ i \in Unconsumed(o) /\ Unconsumed(o)' = Unconsumed(o) \ {i}
      /\ \A p \in Outcome \ {o} : Unconsumed(p)' = Unconsumed(p)
  BY <1>1, ConsumedLeaves
<1>8. \E V : V = Unconsumed(w)' /\ gameRep' >= SumFunctionOnSet(owed, V)
  <2>1. CASE o # w
    <3>1. Unconsumed(w)' = U
      BY <1>2, <1>3, <1>7, <2>1
    <3>2. gameRep' = gameRep
      BY <1>2, <2>1 DEF withdrawFromEscalationGame, withdrawDeposit
    <3> QED
      BY <1>6, <3>1, <3>2
  <2>2. CASE o = w
    <3>1. PICK paid \in Nat, burned \in Nat :
              /\ paid = _computeWinningWithdrawal(o, i).paid
              /\ burned = _computeWinningWithdrawal(o, i).burned
              /\ paid + burned <= owed[i]
      <4>1. i \in I
        BY <1>3, <2>2 DEF Indices
      <4>2. owed[i] = BonusPayout(deposits[o][i], o).paid + BonusPayout(deposits[o][i], o).burned
        BY <1>3, <2>2, <4>1 DEF FullOwed
      <4> QED
        BY <4>2, PayoutTypes
    <3>2. gameRep' = gameRep - paid - burned
      BY <1>2, <2>2, <3>1 DEF withdrawFromEscalationGame, withdrawDeposit
    <3>3. i \in U /\ Unconsumed(w)' = U \ {i}
      BY <1>3, <1>7, <2>2
    <3>4. SumFunctionOnSet(owed, U) = owed[i] + SumFunctionOnSet(owed, U \ {i})
      BY <1>5, <3>3, SumRemove
    <3>5. SumFunctionOnSet(owed, U) \in Int /\ SumFunctionOnSet(owed, U \ {i}) \in Int
      <4>1. IsFiniteSet(U \ {i}) /\ \A j \in U \ {i} : owed[j] \in Int
        BY <1>5, FS_Subset
      <4> QED
        BY <1>5, <4>1, SumInt
    <3>6. gameRep \in Nat /\ owed[i] \in Nat
      BY <1>5, <3>3 DEF TypeOK
    <3>7. gameRep' >= SumFunctionOnSet(owed, U \ {i})
      BY <1>6, <3>1, <3>2, <3>4, <3>5, <3>6
    <3> QED
      BY <3>3, <3>7
  <2> QED
    BY <2>1, <2>2
<1>9. Backed'
  BY <1>4, <1>8 DEF Backed
<1>10. BucketHolds'
  BY <1>1 DEF Funds, BucketHolds
<1> QED
  BY <1>1, <1>9, <1>10, StakesKeepFunds DEF Funds

\* A sweep takes what no deposit of any outcome waits for.
LEMMA SweepKeepsFunds ==
    ASSUME IInv, TypeOK, Ledgers, Funds, sweepResidualRepToSecurityPool
    PROVE  Funds'
<1>1. /\ deployed
      /\ getFinalQuestionResolution # Undecided
      /\ getFinalQuestionResolution = getQuestionResolution
      /\ \A o \in Outcome : localUnresolved[o] = 0
      /\ gameRep' = 0
      /\ UNCHANGED <<deposits, balance, consumed, stakes, poolForked, fork, directPaid>>
      /\ Next
  BY DEF sweepResidualRepToSecurityPool, getFinalQuestionResolution, stakes, Next
<1>2. PICK w \in Outcome : w = getFinalQuestionResolution
  BY <1>1, WinnerAffordable DEF Funds
<1>3. Unconsumed(w) = {}
  <2> SUFFICES ASSUME NEW i \in Unconsumed(w) PROVE FALSE
    OBVIOUS
  <2>1. deposits[w] \in Seq(DepositRecord) /\ Unconsumed(w) \in SUBSET DOMAIN deposits[w]
    BY DEF TypeOK, Unconsumed, Indices
  <2>2. Amounts(deposits[w], Unconsumed(w))
            = deposits[w][i].amount + Amounts(deposits[w], Unconsumed(w) \ {i})
    BY <2>1, AmountsRemove
  <2>3. Amounts(deposits[w], Unconsumed(w) \ {i}) \in Nat
    <3>1. Unconsumed(w) \ {i} \in SUBSET DOMAIN deposits[w]
      BY <2>1
    <3> QED
      BY <2>1, <3>1, AmountsNat
  <2>4. deposits[w][i].amount \in Nat /\ deposits[w][i].amount > 0
    <3>1. i \in DOMAIN deposits[w]
      BY <2>1
    <3>2. deposits[w][i].amount \in Nat
      BY <2>1, <3>1, RecordsOf
    <3> QED
      BY <3>1, <3>2 DEF IInv, DepositsArePositive
  <2>5. Amounts(deposits[w], Unconsumed(w)) = 0
    BY <1>1 DEF Ledgers, OutcomeLedger
  <2> QED
    BY <2>2, <2>3, <2>4, <2>5
<1>4. Unconsumed(w)' = {} /\ deployed' /\ getFinalQuestionResolution' = w
  BY <1>1, <1>2, <1>3, FinalKept DEF Unconsumed, Indices
<1>5. SumFunctionOnSet(FullOwed(w)', {}) = 0
  BY SumEmpty
<1>6. Backed'
  BY <1>1, <1>4, <1>5 DEF Backed
<1>7. \A o \in Outcome : FullPaid(o)' = FullPaid(o) /\ Unconsumed(o)' = Unconsumed(o)
  BY <1>1, FullKept DEF Unconsumed, Indices
<1>8. BucketHolds'
  BY <1>1, <1>7 DEF Funds, BucketHolds
<1> QED
  BY <1>1, <1>6, <1>8, StakesKeepFunds DEF Funds

\* What the funds consist of.
purse == <<deposits, balance, consumed, nonDecisionTimestamp, gameRep, poolForked, fork, directPaid>>

\* Time, the universe and an export leave the funds alone; the result they were
\* kept for stays.
LEMMA OthersKeepFunds ==
    ASSUME TypeOK, Funds, Next, UNCHANGED purse
    PROVE  Funds'
<1>1. Chains' /\ NonDecisionHeld'
  BY DEF purse, Funds, Chains, NonDecisionHeld, nonDecision
<1>2. \A o \in Outcome : /\ FullPaid(o)' = FullPaid(o) /\ FullOwed(o)' = FullOwed(o)
                         /\ Unconsumed(o)' = Unconsumed(o)
  BY FullKept DEF purse, Unconsumed, Indices
<1>3. BucketHolds'
  BY <1>2 DEF purse, Funds, BucketHolds
<1>4. Backed'
  <2> SUFFICES ASSUME ~ poolForked
               PROVE  Backed'
    BY DEF Backed, purse
  <2>1. CASE gameRep >= SumFunctionOnSet(balance, Outcome)
    BY <2>1 DEF Backed, purse
  <2>2. CASE ~ (gameRep >= SumFunctionOnSet(balance, Outcome))
    <3>1. PICK w \in Outcome : /\ deployed /\ w = getFinalQuestionResolution
                               /\ gameRep >= SumFunctionOnSet(FullOwed(w), Unconsumed(w))
      BY <2>2 DEF Funds, Backed
    <3>2. w # Undecided
      BY DEF Undecided, Outcome
    <3>3. deployed' /\ getFinalQuestionResolution' = w
      BY <3>1, <3>2, FinalKept
    <3>4. gameRep' >= SumFunctionOnSet(FullOwed(w)', Unconsumed(w)')
      BY <1>2, <3>1 DEF purse
    <3> QED
      BY <3>3, <3>4 DEF Backed
  <2> QED
    BY <2>1, <2>2
<1> QED
  BY <1>1, <1>3, <1>4 DEF Funds

\* Of what is staked, the haircut leaves every outcome what it can claim: at
\* most two fifths of the threshold are burned, and the other outcomes hold at
\* least the threshold and need only three fifths of it.
LEMMA OwnForkKeepsFunds ==
    ASSUME TypeOK, Funds, NEW threshold, forkZoltarWithOwnEscalationGame(threshold)
    PROVE  Funds'
<1>1. /\ nonDecision /\ ~ poolForked /\ poolForked'
      /\ UNCHANGED <<deposits, balance, consumed, stakes, directPaid>>
      /\ fork'.bucket = gameRep - forkHaircut
  BY DEF forkZoltarWithOwnEscalationGame, LeavePool, canTriggerOwnFork, stakes
<1>2. PICK n \in Nat, r \in Nat, h \in Nat :
          n = NonDecisionThreshold /\ r = gameRep /\ h = forkHaircut /\ 5 * h <= 2 * n
  <2>1. /\ forkThreshold \in Nat /\ forkThreshold <= 2 * NonDecisionThreshold
        /\ NonDecisionThreshold \in Nat
        /\ ForkBurnDivisor \in Nat /\ ForkBurnDivisor >= 5 /\ gameRep \in Nat
    BY GameAssumption DEF TypeOK, MINIMUM_FORK_BURN_DIVISOR
  <2>2. PICK f \in Nat, b \in Nat : f = forkThreshold /\ b = ForkBurnDivisor
    BY <2>1
  <2>3. PICK h \in Nat : h = f \div b /\ b * h <= f
    BY <2>1, <2>2, Quotient
  <2>4. 5 * h <= b * h
    BY <2>1, <2>2
  <2>5. forkHaircut = h
    BY <2>2, <2>3 DEF forkHaircut
  <2>6. h \in Nat /\ 5 * h <= 2 * NonDecisionThreshold
    BY <2>1, <2>2, <2>3, <2>4
  <2> QED
    BY <2>1, <2>5, <2>6
<1>3. \A o \in Outcome : balance[o] \in Nat /\ balance[o] <= n
  <2>1. \A o \in Outcome : balance[o] \in 0 .. NonDecisionThreshold
    BY DEF TypeOK
  <2> QED
    BY <1>2, <2>1
<1>4. SumFunctionOnSet(balance, Outcome) = balance["Invalid"] + balance["Yes"] + balance["No"]
  <2>1. \A u \in Outcome : balance[u] \in Int
    BY <1>3
  <2> QED
    BY <2>1, SumOfOutcomes
<1>5. PICK x \in Outcome, y \in Outcome : x # y /\ balance[x] = n /\ balance[y] = n
  BY <1>1, <1>2 DEF Funds, NonDecisionHeld
<1>6. r >= SumFunctionOnSet(balance, Outcome)
  <2>1. getFinalQuestionResolution = Undecided
    BY <1>1, NonDecisionIsUndecided DEF Funds
  <2>2. Undecided \notin Outcome
    BY DEF Undecided, Outcome
  <2> QED
    BY <1>1, <1>2, <2>1, <2>2 DEF Funds, Backed
<1>7. ASSUME NEW o \in Outcome
      PROVE  directPaid'[o] + SumFunctionOnSet(FullPaid(o)', Unconsumed(o)') <= fork'.bucket
  <2>1. directPaid'[o] = 0
    BY <1>1 DEF Funds, BucketHolds
  <2>2. FullPaid(o)' = FullPaid(o) /\ Unconsumed(o)' = Unconsumed(o)
    BY <1>1, FullKept DEF Unconsumed, Indices
  <2>3. PICK b \in Nat : b = getBindingCapital /\ b <= n
    <3>1. balance \in [Outcome -> Nat]
      BY DEF TypeOK
    <3> QED
      BY <1>3, <3>1, BindingIsMedian
  <2>4. PICK bonus \in Nat : bonus = (b * 3) \div 5 /\ 5 * bonus <= b * 3
    BY Quotient
  <2>5. PICK paid, I, U : paid = FullPaid(o) /\ I = Indices(o) /\ U = Unconsumed(o)
    OBVIOUS
  <2>6. /\ SumFunctionOnSet(paid, I) <= balance[o] + bonus
        /\ \A i \in I : paid[i] \in Nat
    BY <2>3, <2>4, <2>5, PayoutsOfOutcome DEF Funds
  <2>7. IsFiniteSet(I) /\ U \in SUBSET I /\ IsFiniteSet(U)
    BY <2>5, UnconsumedIsFinite
  <2>8. SumFunctionOnSet(paid, U) <= SumFunctionOnSet(paid, I)
    BY <2>6, <2>7, SumPart
  <2>9. SumFunctionOnSet(paid, U) \in Int /\ SumFunctionOnSet(paid, I) \in Int
    <3>1. \A i \in I : paid[i] \in Int
      BY <2>6
    <3>2. \A i \in U : paid[i] \in Int
      BY <2>7, <3>1
    <3> QED
      BY <2>7, <3>1, <3>2, SumInt
  <2>10. balance["Invalid"] + balance["Yes"] + balance["No"] >= balance[o] + n
    BY <1>3, <1>5 DEF Outcome
  <2>11. balance[o] \in Nat /\ SumFunctionOnSet(balance, Outcome) \in Int
    BY <1>3, <1>4 DEF Outcome
  <2>12. SumFunctionOnSet(paid, U) <= r - h
    BY <1>2, <1>4, <1>6, <2>3, <2>4, <2>6, <2>8, <2>9, <2>10, <2>11
  <2> QED
    BY <1>1, <1>2, <2>1, <2>2, <2>5, <2>9, <2>12
<1>8. Backed' /\ BucketHolds'
  BY <1>1, <1>7 DEF Backed, BucketHolds
<1> QED
  BY <1>1, <1>8, StakesKeepFunds DEF Funds

\* A direct claim pays no more than the stake's share of its outcome's bucket.
LEMMA ClaimKeepsFunds ==
    ASSUME TypeOK, Funds, NEW o \in Outcome, NEW i \in DOMAIN deposits[o],
           claimForkedEscalationDeposits(o, i)
    PROVE  Funds'
<1>1. PICK paid \in Nat : /\ paid = _computeWinningWithdrawal(o, i).paid
                          /\ paid <= FullPaid(o)[i]
  <2>1. FullPaid(o)[i] = BonusPayout(deposits[o][i], o).paid
    BY DEF FullPaid, Indices
  <2> QED
    BY <2>1, PayoutTypes
<1>2. /\ poolForked /\ fork.own
      /\ _consumeLocalDeposit(o, i)
      /\ directPaid' = [directPaid EXCEPT ![o] = @ + paid]
      /\ UNCHANGED <<deposits, balance, stakes, gameRep, poolForked, fork>>
  BY <1>1 DEF claimForkedEscalationDeposits, MayClaimDirectly, MigrationOpen, stakes
<1>3. /\ i \in Unconsumed(o) /\ Unconsumed(o)' = Unconsumed(o) \ {i}
      /\ \A p \in Outcome \ {o} : Unconsumed(p)' = Unconsumed(p)
  BY <1>2, ConsumedLeaves
<1>4. /\ directPaid \in [Outcome -> Nat] /\ fork.bucket \in Nat
  BY DEF TypeOK
<1>5. ASSUME NEW p \in Outcome
      PROVE  directPaid'[p] + SumFunctionOnSet(FullPaid(p)', Unconsumed(p)') <= fork'.bucket
  <2>1. directPaid[p] + SumFunctionOnSet(FullPaid(p), Unconsumed(p)) <= fork.bucket
    BY <1>2 DEF Funds, BucketHolds
  <2>2. FullPaid(p)' = FullPaid(p)
    BY <1>2, FullKept
  <2>3. CASE p # o
    BY <1>2, <1>3, <1>4, <2>1, <2>2, <2>3
  <2>4. CASE p = o
    <3>1. PICK full, U : full = FullPaid(o) /\ U = Unconsumed(o)
      OBVIOUS
    <3>2. IsFiniteSet(U) /\ \A j \in U : full[j] \in Int
      <4>1. \A j \in Indices(o) : full[j] \in Nat
        BY <3>1, PayoutsOfOutcome DEF Funds
      <4>2. IsFiniteSet(U) /\ U \in SUBSET Indices(o)
        BY <3>1, UnconsumedIsFinite
      <4> QED
        BY <4>1, <4>2
    <3>3. SumFunctionOnSet(full, U) = full[i] + SumFunctionOnSet(full, U \ {i})
      BY <1>3, <3>1, <3>2, SumRemove
    <3>4. SumFunctionOnSet(full, U) \in Int /\ SumFunctionOnSet(full, U \ {i}) \in Int
      <4>1. IsFiniteSet(U \ {i}) /\ \A j \in U \ {i} : full[j] \in Int
        BY <3>2, FS_Subset
      <4> QED
        BY <3>2, <4>1, SumInt
    <3>5. directPaid'[o] = directPaid[o] + paid /\ directPaid[o] \in Nat
      BY <1>2, <1>4
    <3>6. full[i] \in Int
      BY <1>3, <3>1, <3>2
    <3>7. directPaid'[o] + SumFunctionOnSet(full, U \ {i}) <= fork.bucket
      BY <1>1, <1>4, <2>1, <2>4, <3>1, <3>3, <3>4, <3>5, <3>6
    <3> QED
      BY <1>2, <1>3, <2>2, <2>4, <3>1, <3>7
  <2> QED
    BY <2>3, <2>4
<1>6. Backed' /\ BucketHolds'
  BY <1>2, <1>5 DEF Backed, BucketHolds
<1> QED
  BY <1>2, <1>6, StakesKeepFunds DEF Funds

LEMMA NextKeepsFunds == IInv /\ TypeOK /\ Ledgers /\ Funds /\ [Next]_vars => Funds'
<1> SUFFICES ASSUME IInv, TypeOK, Ledgers, Funds, [Next]_vars PROVE Funds'
  OBVIOUS
<1>1. ASSUME NEW v \in Vault, NEW o \in Outcome, NEW requested \in Amount,
             depositToEscalationGame(v, o, requested)
      PROVE  Funds'
  BY <1>1, NextKeepsLedgers, DepositKeepsFunds
<1>2. ASSUME NEW o \in Outcome, NEW i \in DOMAIN deposits[o], withdrawFromEscalationGame(o, i)
      PROVE  Funds'
  BY <1>2, WithdrawKeepsFunds
<1>3. ASSUME NEW o \in Outcome, NEW i \in DOMAIN deposits[o], claimForkedEscalationDeposits(o, i)
      PROVE  Funds'
  BY <1>3, ClaimKeepsFunds
<1>4. CASE sweepResidualRepToSecurityPool
  BY <1>4, SweepKeepsFunds
<1>5. ASSUME NEW threshold, forkZoltarWithOwnEscalationGame(threshold)
      PROVE  Funds'
  BY <1>5, OwnForkKeepsFunds
<1>6. CASE initiateSecurityPoolFork
  <2>1. poolForked' /\ ~ fork'.own /\ UNCHANGED stakes
    BY <1>6 DEF initiateSecurityPoolFork, LeavePool
  <2> QED
    BY <2>1, StakesKeepFunds DEF Funds, Backed, BucketHolds
<1>7. ASSUME Next,
             \/ Tick
             \/ \E threshold \in ForkThresholds : UniverseBurns(threshold)
             \/ \E threshold \in ForkThresholds : UniverseForks(threshold)
             \/ \E v \in Vault : migrateVaultWithUnresolvedEscalation(v)
      PROVE  Funds'
  <2>1. UNCHANGED purse
    BY <1>7 DEF Tick, UniverseBurns, UniverseForks, migrateVaultWithUnresolvedEscalation,
                stakes, purse
  <2> QED
    BY <1>7, <2>1, OthersKeepFunds
<1>8. CASE UNCHANGED vars
  <2>1. UNCHANGED <<purse, stakes, basis, now>>
    BY <1>8 DEF vars, clock, stakes, basis, purse
  <2>2. /\ getFinalQuestionResolution' = getFinalQuestionResolution
        /\ deployed' = deployed
    BY <2>1, EndDateKept, ResolutionKept DEF basis, getFinalQuestionResolution, deployed
  <2>3. \A o \in Outcome : /\ FullPaid(o)' = FullPaid(o) /\ FullOwed(o)' = FullOwed(o)
                           /\ Unconsumed(o)' = Unconsumed(o)
    BY <2>1, FullKept DEF purse, Unconsumed, Indices
  <2>4. Backed' /\ BucketHolds'
    BY <2>1, <2>2, <2>3 DEF purse, Funds, Backed, BucketHolds
  <2> QED
    BY <2>1, <2>4, StakesKeepFunds DEF Funds
<1> QED
  BY <1>1, <1>2, <1>3, <1>4, <1>5, <1>6, <1>7, <1>8 DEF Next

\* Whatever ends the game, its REP covers what it still has to pay: each winner
\* not yet paid with its haircut, in whatever order they settle and whoever sweeps
\* (EscalationGameSettlement.sol), and in non-decision the pool's own fork and all
\* the direct claims of any one child (SecurityPoolForker.sol), for every curve
\* that rises, every fork threshold up to twice the game's own and every haircut
\* of at most a fifth of it.
THEOREM ClaimsFundedThm == Spec => []ClaimsFunded
<1>1. Init => IInv /\ TypeOK /\ Ledgers /\ Funds
  BY InitIInv, InitLedgers, InitFunds
<1>2. (IInv /\ TypeOK /\ Ledgers /\ Funds) /\ [Next]_vars => (IInv /\ TypeOK /\ Ledgers /\ Funds)'
  BY NextKeepsIInv, NextKeepsLedgers, NextKeepsFunds
<1>3. TypeOK /\ Funds => ClaimsFunded
  BY FundsFund
<1> QED
  BY <1>1, <1>2, <1>3, PTL DEF Spec

-----------------------------------------------------------------------------
(* The ranges that the haircut cuts.                                       *)

\* Where the stake of a deposit begins among those on its outcome.
Start(r) == r.cumulative - r.amount

\* The stakes on an outcome lie end to end from nothing to its balance: each begins
\* where the one before ends, and no unit of REP belongs to two of them.
RangesTile ==
    \A o \in Outcome :
      /\ \A i \in DOMAIN deposits[o] : Start(deposits[o][i]) = TotalAfter(deposits[o], i - 1)
      /\ \A i, j \in DOMAIN deposits[o] :
            i < j => deposits[o][i].cumulative <= Start(deposits[o][j])
      /\ balance[o] = TotalAfter(deposits[o], Len(deposits[o]))

LEMMA LaterStartsAfter ==
    ASSUME NEW d \in Seq(DepositRecord), Chained(d), NEW i \in DOMAIN d, NEW j \in DOMAIN d, i < j
    PROVE  d[i].cumulative <= Start(d[j])
<1> DEFINE Early == {k \in DOMAIN d : i < k /\ ~ (d[i].cumulative <= Start(d[k]))}
<1>1. \A k \in DOMAIN d : d[k].amount \in Nat /\ d[k].cumulative \in Nat
  BY RecordsOf
<1>2. ASSUME NEW k \in DOMAIN d
      PROVE  k \in Nat /\ k # 0 /\ k <= Len(d) /\ Start(d[k]) = TotalAfter(d, k - 1)
  <2>1. k \in 1 .. Len(d)
    OBVIOUS
  <2>2. TotalAfter(d, k - 1) \in Nat
    BY <2>1, TotalAfterNat
  <2>3. d[k].cumulative = TotalAfter(d, k - 1) + d[k].amount
    BY DEF Chained
  <2> QED
    BY <1>1, <2>1, <2>2, <2>3 DEF Start
<1>3. Early = {}
  <2> SUFFICES ASSUME Early # {} PROVE FALSE
    OBVIOUS
  <2>1. Early \in SUBSET Nat
    BY <1>2
  <2>2. PICK m \in Early : \A k \in Early : m <= k
    <3> HIDE DEF Early
    <3> QED
      BY <2>1, LeastNumber
  <2>3. m \in DOMAIN d /\ i < m /\ ~ (d[i].cumulative <= Start(d[m])) /\ m \in Nat /\ i \in Nat
    BY <1>2, <2>2
  <2>4. m - 1 \in DOMAIN d /\ i <= m - 1 /\ m - 1 # 0 /\ ~ (m <= m - 1)
    BY <1>2, <2>3
  <2>5. Start(d[m]) = d[m - 1].cumulative
    BY <1>2, <2>3, <2>4 DEF TotalAfter
  <2>6. CASE i = m - 1
    BY <1>1, <2>3, <2>4, <2>5, <2>6
  <2>7. CASE i # m - 1
    <3>1. m - 1 \notin Early
      <4> HIDE DEF Early
      <4> QED
        BY <2>2, <2>4
    <3>2. i < m - 1
      BY <2>3, <2>4, <2>7
    <3>3. d[i].cumulative <= Start(d[m - 1])
      BY <2>4, <3>1, <3>2
    <3>4. Start(d[m - 1]) <= d[m - 1].cumulative
      BY <1>1, <2>4 DEF Start
    <3>5. Start(d[m - 1]) \in Int
      BY <1>1, <2>4 DEF Start
    <3> QED
      BY <1>1, <2>3, <2>4, <2>5, <3>3, <3>4, <3>5
  <2> QED
    BY <2>6, <2>7
<1> QED
  BY <1>3

\* Whatever is deposited, withdrawn, exported or claimed and in whatever order, the
\* stakes on an outcome keep disjoint ranges without a gap, which is what lets the
\* haircut and the bonus of each be computed from its own record (recordDeposit in
\* EscalationGameDeposits.sol, _computeWinningWithdrawal in EscalationGameSettlement.sol).
THEOREM RangesTileThm == Spec => []RangesTile
<1>1. Init => IInv /\ TypeOK /\ Ledgers /\ Funds
  BY InitIInv, InitLedgers, InitFunds
<1>2. (IInv /\ TypeOK /\ Ledgers /\ Funds) /\ [Next]_vars => (IInv /\ TypeOK /\ Ledgers /\ Funds)'
  BY NextKeepsIInv, NextKeepsLedgers, NextKeepsFunds
<1>3. TypeOK /\ Funds => RangesTile
  <2> SUFFICES ASSUME TypeOK, Funds, NEW o \in Outcome
               PROVE  /\ \A i \in DOMAIN deposits[o] :
                            Start(deposits[o][i]) = TotalAfter(deposits[o], i - 1)
                      /\ \A i, j \in DOMAIN deposits[o] :
                            i < j => deposits[o][i].cumulative <= Start(deposits[o][j])
                      /\ balance[o] = TotalAfter(deposits[o], Len(deposits[o]))
    BY DEF RangesTile
  <2>1. deposits[o] \in Seq(DepositRecord)
    BY DEF TypeOK
  <2>2. Chained(deposits[o]) /\ balance[o] = TotalAfter(deposits[o], Len(deposits[o]))
    BY DEF Funds, Chains
  <2>3. PICK d \in Seq(DepositRecord) : d = deposits[o]
    BY <2>1
  <2>4. \A i, j \in DOMAIN d : i < j => d[i].cumulative <= Start(d[j])
    BY <2>2, <2>3, LaterStartsAfter
  <2>5. ASSUME NEW i \in DOMAIN d PROVE Start(d[i]) = TotalAfter(d, i - 1)
    <3>1. i \in 1 .. Len(d)
      OBVIOUS
    <3>2. TotalAfter(d, i - 1) \in Nat
      BY <3>1, TotalAfterNat
    <3>3. d[i].cumulative = TotalAfter(d, i - 1) + d[i].amount /\ d[i].amount \in Nat
      BY <2>2, <2>3, RecordsOf DEF Chained
    <3> QED
      BY <3>2, <3>3 DEF Start
  <2> QED
    BY <2>2, <2>3, <2>4, <2>5
<1> QED
  BY <1>1, <1>2, <1>3, PTL DEF Spec
=============================================================================
