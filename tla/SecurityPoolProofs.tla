------------------------ MODULE SecurityPoolProofs ------------------------
(***************************************************************************)
(* What the accounts of a security pool add up to, for any finite sets of  *)
(* vaults, traders and children, any prices, amounts and retention rates.  *)
(*                                                                         *)
(* The handlers are compositions of functions on the pool's storage, and   *)
(* so are the proofs: Sound says what storage must be, and each function   *)
(* keeps it.  A handler changes one vault (or two, in turn) after its      *)
(* checkpoint: EditSound is about any such change.                         *)
(***************************************************************************)
EXTENDS SecurityPool, SumTheorems, TLAPS

PoolFields == {"vaults", "totalUnits", "totalCapacity", "feeEligible", "uncheckpointed",
               "collateral", "shareSupply", "totalClaimable", "unallocated", "feeIndex",
               "indexRemainder", "owedRemainder", "lastUpdated", "retentionRate", "totalBadDebt"}
VaultFields == {"units", "capacity", "claimable", "feeIndex", "remainder", "badDebt"}
ForkFields == {"activated", "rep", "collateral", "allocated", "transferred", "units", "migrated"}

-----------------------------------------------------------------------------
(* The storage of the pool.                                                *)

\* The storage w of a vault when the pool's index is at n.
VaultTyped(w, n) ==
    /\ DOMAIN w = VaultFields
    /\ w.units \in Nat /\ w.capacity \in Nat /\ w.claimable \in Nat /\ w.badDebt \in Nat
    /\ w.feeIndex \in Nat /\ w.feeIndex <= n
    /\ w.remainder \in Nat /\ w.remainder < PRICE_PRECISION

Typed(s) ==
    /\ DOMAIN s = PoolFields /\ DOMAIN s.vaults = Vault
    /\ \A v \in Vault : VaultTyped(s.vaults[v], s.feeIndex)
    /\ s.totalUnits \in Nat /\ s.totalCapacity \in Nat /\ s.feeEligible \in Nat
    /\ s.uncheckpointed \in Nat /\ s.collateral \in Nat /\ s.shareSupply \in Nat
    /\ s.totalClaimable \in Nat /\ s.unallocated \in Nat /\ s.feeIndex \in Nat
    /\ s.indexRemainder \in Nat /\ s.lastUpdated \in Nat /\ s.totalBadDebt \in Nat
    /\ s.owedRemainder \in Nat /\ s.owedRemainder < PRICE_PRECISION
    /\ s.retentionRate \in 0..PRICE_PRECISION

UnitsOf(s) == [v \in Vault |-> s.vaults[v].units]
CapacityOf(s) == [v \in Vault |-> s.vaults[v].capacity]
ClaimableOf(s) == [v \in Vault |-> s.vaults[v].claimable]
BadDebtOf(s) == [v \in Vault |-> s.vaults[v].badDebt]
StaleOf(s) == [v \in Vault |-> IF s.vaults[v].feeIndex # s.feeIndex
                               THEN s.vaults[v].capacity ELSE 0]
NumeratorOf(s) == [v \in Vault |-> VaultFeeNumerator(s, v)]

\* st: the state of the system.
Totals(s, st) ==
    /\ s.totalClaimable = SumOf(ClaimableOf(s))
    /\ s.totalBadDebt = SumOf(BadDebtOf(s))
    /\ s.uncheckpointed = SumOf(StaleOf(s))
    /\ s.totalCapacity = s.feeEligible
    /\ st = "Operational" => s.totalCapacity = SumOf(CapacityOf(s)) /\ s.totalUnits = SumOf(UnitsOf(s))

Fees(s, st) ==
    \/ PRICE_PRECISION * s.unallocated + s.owedRemainder = SumOf(NumeratorOf(s))
    \/ /\ st # "Operational" /\ s.unallocated = 0
       /\ \A v \in Vault : VaultFeeNumerator(s, v) < PRICE_PRECISION

Sound(s, st) == Typed(s) /\ Totals(s, st) /\ Fees(s, st)

-----------------------------------------------------------------------------
(* The world of the pool.                                                  *)

World ==
    /\ now \in 0..MaxTime /\ forkTime \in 0..MaxTime /\ forkTime <= now
    /\ price \in Nat /\ priceValid \in BOOLEAN /\ (priceValid => price > 0)
    /\ game \in {"none", "open", "resolved"} /\ systemState \in {"Operational", "PoolForked"}
    /\ poolRep \in Nat /\ ethBalance \in Nat
    /\ wallet \in [Vault -> Nat] /\ staked \in [Vault -> Nat] /\ shares \in [Trader -> Nat]

\* Fees accrue until the fork, and have by the time the pool is forked.
ClockOf(s) ==
    /\ s.lastUpdated <= now
    /\ forkTime > 0 => s.lastUpdated <= forkTime
    /\ systemState = "PoolForked" => forkTime > 0 /\ s.lastUpdated = forkTime

SharesCounted == pool.shareSupply = SumFunctionOnSet(shares, Trader)

\* What the children have of the REP and the units of the parent.
Forked ==
    /\ DOMAIN fork = ForkFields
    /\ fork.activated \in Nat /\ fork.rep \in Nat /\ fork.collateral \in Nat
    /\ fork.allocated \in Nat /\ fork.transferred \in Nat
    /\ fork.units \in [Child -> Nat] /\ fork.migrated \in [Child -> Nat]
    /\ systemState = "Operational" =>
         /\ fork.allocated = 0 /\ fork.transferred = 0
         /\ \A c \in Child : fork.units[c] = 0 /\ fork.migrated[c] = 0
    /\ systemState = "PoolForked" =>
         pool.totalUnits = SumOf(UnitsOf(pool)) + SumFunctionOnSet(fork.units, Child)
    /\ \A c \in Child : fork.migrated[c] * pool.totalUnits <= fork.units[c] * fork.rep
    /\ fork.allocated = IF fork.collateral = 0 THEN 0 ELSE SumFunctionOnSet(fork.migrated, Child)
    /\ fork.allocated <= fork.rep
    /\ fork.rep = 0 => fork.transferred = 0
    /\ fork.rep > 0 =>
         fork.transferred <= CeilDiv(fork.collateral * fork.allocated, fork.rep)

IInv ==
    /\ World /\ ClockOf(pool) /\ Sound(pool, systemState) /\ EthSolvent /\ SharesCounted /\ Forked

-----------------------------------------------------------------------------
(* Quotients.                                                              *)

\* What a quotient leaves over.
LEMMA Remainder ==
    ASSUME NEW a \in Nat, NEW b \in Nat, b > 0
    PROVE  a % b \in Nat /\ a % b < b /\ a = b * (a \div b) + (a % b)
<1> QED
  OBVIOUS

\* Rounded up, the product with b reaches a.
LEMMA CeilDivFacts ==
    ASSUME NEW a \in Nat, NEW b \in Nat, b > 0
    PROVE  /\ CeilDiv(a, b) \in Nat /\ a <= b * CeilDiv(a, b)
           /\ a = 0 => CeilDiv(a, b) = 0
<1> DEFINE q == (a + b - 1) \div b
<1>1. a + b - 1 \in Nat
  OBVIOUS
<1>2. q \in Nat /\ b * q <= a + b - 1 /\ a + b - 1 < b * q + b
  BY <1>1, Quotient
<1>3. a = 0 => q = 0
  BY <1>1, QuotientAtMost
<1> HIDE DEF q
<1>4. q \in Nat /\ a <= b * q
  BY <1>2
<1> QED
  BY <1>3, <1>4 DEF CeilDiv, q

\* The least number whose product is at least a.
LEMMA CeilDivLeast ==
    ASSUME NEW a \in Nat, NEW b \in Nat, b > 0, NEW n \in Nat, a <= n * b
    PROVE  CeilDiv(a, b) <= n
<1>1. a + b - 1 \in Nat /\ n + 1 \in Nat /\ (n + 1) * b = n * b + b /\ n * b \in Nat
  OBVIOUS
<1>2. a + b - 1 < (n + 1) * b
  BY <1>1
<1>3. (a + b - 1) \div b < n + 1
  BY <1>1, <1>2, QuotientAtMost
<1>4. (a + b - 1) \div b \in Nat
  BY <1>1, Quotient
<1> QED
  BY <1>3, <1>4 DEF CeilDiv

LEMMA CeilDivMonotone ==
    ASSUME NEW a \in Nat, NEW c \in Nat, a <= c, NEW b \in Nat, b > 0
    PROVE  CeilDiv(a, b) <= CeilDiv(c, b)
<1>1. CeilDiv(c, b) \in Nat /\ c <= b * CeilDiv(c, b)
  BY CeilDivFacts
<1>2. a <= CeilDiv(c, b) * b
  BY <1>1
<1> QED
  BY <1>1, <1>2, CeilDivLeast

\* What the assumptions on the constants say.
LEMMA PrecisionFacts ==
    /\ PRICE_PRECISION \in Nat /\ PRICE_PRECISION > 0 /\ BPS_DENOMINATOR \in Nat /\ BPS_DENOMINATOR > 0
    /\ MAX_RETENTION_RATE \in 1..PRICE_PRECISION /\ MIN_RETENTION_RATE \in 1..PRICE_PRECISION
    /\ MIN_RETENTION_RATE <= MAX_RETENTION_RATE
    /\ RETENTION_RATE_DIP \in Nat /\ RETENTION_RATE_DIP > 0
    /\ MaxTime \in Nat /\ QuestionEnd \in Nat /\ MIGRATION_TIME \in Nat
    /\ LIQUIDATION_REP_BONUS_BPS \in Nat /\ minimumVaultRepDeposit \in Nat
    /\ statoblastSecurityMultiplierBps \in Nat /\ statoblastSecurityMultiplierBps > 0
    /\ IsFiniteSet(Vault) /\ IsFiniteSet(Trader) /\ IsFiniteSet(Child)
<1> QED
  BY PoolAssumption

-----------------------------------------------------------------------------
(* The power of the retention rate.  What the recursion computes of it is  *)
(* left to the run: here it is well-founded and no more than one.          *)

Scaled == 0..PRICE_PRECISION
PowerArgs(n) == Scaled \X Scaled \X (0..n)
Squared(a) == (a[2] * a[2]) \div PRICE_PRECISION
NextPower(a) == <<IF a[3] % 2 = 1 THEN (a[1] * Squared(a)) \div PRICE_PRECISION ELSE a[1],
                  Squared(a), a[3] \div 2>>
IsPower(g, n) == g = [a \in PowerArgs(n) |-> IF a[3] = 0 THEN a[1] ELSE g[NextPower(a)]]

LEMMA PowerDefinition == rpowLoop = CHOOSE g : IsPower(g, MaxTime)
<1> QED
  BY DEF rpowLoop, IsPower, NextPower, Squared, PowerArgs, Scaled

LEMMA NextPowerFacts ==
    ASSUME NEW n \in Nat, NEW a \in PowerArgs(n)
    PROVE  /\ a[1] \in Scaled /\ a[2] \in Scaled /\ a[3] \in 0..n
           /\ a[3] # 0 => NextPower(a) \in PowerArgs(a[3] - 1) /\ NextPower(a) \in PowerArgs(n)
<1>1. a[1] \in Scaled /\ a[2] \in Scaled /\ a[3] \in 0..n
  BY DEF PowerArgs
<1>2. \A x, y \in Scaled : (x * y) \div PRICE_PRECISION \in Scaled
  BY PrecisionFacts, PartOf DEF Scaled
<1>3. Squared(a) \in Scaled
  BY <1>1, <1>2 DEF Squared
<1> DEFINE x == IF a[3] % 2 = 1 THEN (a[1] * Squared(a)) \div PRICE_PRECISION ELSE a[1]
<1>4. x \in Scaled
  BY <1>1, <1>2, <1>3
<1> HIDE DEF x
<1>5. ASSUME a[3] # 0 PROVE a[3] \div 2 \in 0..(a[3] - 1) /\ a[3] \div 2 \in 0..n
  BY <1>1, <1>5
<1>6. NextPower(a) = <<x, Squared(a), a[3] \div 2>>
  BY DEF NextPower, x
<1> QED
  BY <1>1, <1>3, <1>4, <1>5, <1>6 DEF PowerArgs

\* The arguments of rpowLoop are well-founded in the exponent, so the loop has the value
\* its body gives it.
LEMMA PowerExists == \E g : IsPower(g, MaxTime)
<1> DEFINE Unsolved == {n \in Nat : ~ \E g : IsPower(g, n)}
<1>1. SUFFICES ASSUME Unsolved # {} PROVE FALSE
  BY PrecisionFacts
<1>2. Unsolved \in SUBSET Nat
  OBVIOUS
<1>3. PICK n \in Unsolved : \A k \in Unsolved : n <= k
  <2> HIDE DEF Unsolved
  <2> QED
    BY <1>1, <1>2, LeastNumber
<1>4. n \in Nat /\ ~ \E g : IsPower(g, n)
  OBVIOUS
<1>5. CASE n = 0
  <2> DEFINE g == [a \in PowerArgs(0) |-> a[1]]
  <2>1. \A a \in PowerArgs(0) : a[3] = 0
    BY NextPowerFacts
  <2>2. g = [a \in PowerArgs(0) |-> IF a[3] = 0 THEN a[1] ELSE g[NextPower(a)]]
    BY <2>1
  <2> QED
    BY <1>4, <1>5, <2>2 DEF IsPower
<1>6. CASE n # 0
  <2>1. n - 1 \in Nat /\ n - 1 \notin Unsolved
    BY <1>3, <1>4, <1>6
  <2>2. PICK h : IsPower(h, n - 1)
    BY <2>1
  <2> DEFINE g == [a \in PowerArgs(n) |-> IF a[3] = 0 THEN a[1] ELSE h[NextPower(a)]]
  <2>3. ASSUME NEW a \in PowerArgs(n - 1) PROVE g[a] = h[a] /\ a \in PowerArgs(n)
    <3>1. a \in PowerArgs(n)
      BY <1>4, <2>1 DEF PowerArgs
    <3>2. h[a] = IF a[3] = 0 THEN a[1] ELSE h[NextPower(a)]
      BY <2>2 DEF IsPower
    <3> QED
      BY <3>1, <3>2
  <2>4. ASSUME NEW a \in PowerArgs(n), a[3] # 0 PROVE g[NextPower(a)] = h[NextPower(a)]
    <3>1. a[3] \in 0..n /\ NextPower(a) \in PowerArgs(a[3] - 1)
      BY <1>4, <2>4, NextPowerFacts
    <3>2. NextPower(a) \in PowerArgs(n - 1)
      BY <1>4, <3>1, <2>4 DEF PowerArgs
    <3> QED
      BY <2>3, <3>2
  <2>5. g = [a \in PowerArgs(n) |-> IF a[3] = 0 THEN a[1] ELSE g[NextPower(a)]]
    BY <2>4
  <2> QED
    BY <1>4, <2>5 DEF IsPower
<1> QED
  BY <1>5, <1>6

LEMMA PowerStep ==
    ASSUME NEW a \in PowerArgs(MaxTime)
    PROVE  rpowLoop[a] = IF a[3] = 0 THEN a[1] ELSE rpowLoop[NextPower(a)]
<1>1. IsPower(rpowLoop, MaxTime)
  BY PowerDefinition, PowerExists
<1> QED
  BY <1>1 DEF IsPower

\* Of the arguments with a value above the scale take those of the least exponent: the body
\* of the loop calls itself with half of it, so there are none.
LEMMA PowerScaled ==
    ASSUME NEW a \in PowerArgs(MaxTime)
    PROVE  rpowLoop[a] \in Scaled
<1> DEFINE Args == PowerArgs(MaxTime)
           Bad == {n \in Nat : \E i \in Args : i[3] = n /\ rpowLoop[i] \notin Scaled}
<1>1. SUFFICES ASSUME Bad # {} PROVE FALSE
  BY PrecisionFacts, NextPowerFacts
<1>2. PICK n \in Bad : \A k \in Bad : n <= k
  <2>1. Bad \in SUBSET Nat
    OBVIOUS
  <2> HIDE DEF Bad
  <2> QED
    BY <1>1, <2>1, LeastNumber
<1>3. PICK i \in Args : i[3] = n /\ rpowLoop[i] \notin Scaled
  BY <1>2
<1>4. i[1] \in Scaled /\ i[3] \in 0..MaxTime
      /\ (i[3] # 0 => NextPower(i) \in PowerArgs(i[3] - 1) /\ NextPower(i) \in Args)
  BY PrecisionFacts, NextPowerFacts
<1>5. i[3] # 0 /\ rpowLoop[NextPower(i)] \notin Scaled
  BY <1>3, <1>4, PowerStep
<1>6. NextPower(i)[3] \in 0..(i[3] - 1)
  BY <1>4, <1>5 DEF PowerArgs
<1>7. NextPower(i)[3] \in Bad /\ NextPower(i)[3] < n
  BY <1>3, <1>4, <1>5, <1>6
<1> QED
  BY <1>2, <1>7

LEMMA PowerAtMostOne ==
    ASSUME NEW x \in 0..PRICE_PRECISION, NEW n \in 0..MaxTime
    PROVE  _rpow(x, n) \in 0..PRICE_PRECISION
<1>1. n \div 2 \in 0..MaxTime
  BY PrecisionFacts
<1>2. PRICE_PRECISION \in 0..PRICE_PRECISION
  BY PrecisionFacts
<1>3. <<IF n % 2 = 1 THEN x ELSE PRICE_PRECISION, x, n \div 2>> \in PowerArgs(MaxTime)
  BY <1>1, <1>2 DEF PowerArgs, Scaled
<1> QED
  BY <1>3, PowerScaled DEF _rpow, Scaled

-----------------------------------------------------------------------------
(* What accrual does to the storage.                                       *)

LEMMA MinTwo ==
    ASSUME NEW a \in Nat, NEW b \in Nat
    PROVE  Min({a, b}) \in {a, b} /\ Min({a, b}) <= a /\ Min({a, b}) <= b
<1>1. \E x \in {a, b} : \A y \in {a, b} : x <= y
  OBVIOUS
<1> QED
  BY <1>1 DEF Min

\* Storage e holds what s does of vaults and supplies, and the same ETH.
SameBooks(s, e) ==
    /\ DOMAIN e = PoolFields /\ e.vaults = s.vaults
    /\ e.totalUnits = s.totalUnits /\ e.totalCapacity = s.totalCapacity
    /\ e.feeEligible = s.feeEligible /\ e.shareSupply = s.shareSupply
    /\ e.totalClaimable = s.totalClaimable /\ e.totalBadDebt = s.totalBadDebt

\* What Accrue makes of s with d to distribute.
AccruedBy(s, d, e) ==
    /\ SameBooks(s, e) /\ e.retentionRate = s.retentionRate /\ e.lastUpdated = s.lastUpdated
    /\ e.feeIndex = s.feeIndex + d \div s.feeEligible
    /\ e.indexRemainder = d % s.feeEligible
    /\ e.owedRemainder = ((d \div s.feeEligible) * s.feeEligible + s.owedRemainder) % PRICE_PRECISION
    /\ e.uncheckpointed = IF d \div s.feeEligible > 0 THEN s.feeEligible ELSE s.uncheckpointed
    /\ e.unallocated = s.unallocated
         + ((d \div s.feeEligible) * s.feeEligible + s.owedRemainder) \div PRICE_PRECISION
    /\ e.collateral = s.collateral
         - ((d \div s.feeEligible) * s.feeEligible + s.owedRemainder) \div PRICE_PRECISION

LEMMA AccrueFields ==
    ASSUME NEW s, DOMAIN s = PoolFields, NEW d
    PROVE  AccruedBy(s, d, Accrue(s, d))
<1> QED
  BY DEF AccruedBy, SameBooks, Accrue, PoolFields

\* The sums of a storage whose numbers are natural.
LEMMA SumsTyped ==
    ASSUME NEW s, Typed(s)
    PROVE  /\ \A v \in Vault : /\ UnitsOf(s)[v] \in Nat /\ CapacityOf(s)[v] \in Nat
                               /\ ClaimableOf(s)[v] \in Nat /\ BadDebtOf(s)[v] \in Nat
                               /\ StaleOf(s)[v] \in Nat /\ NumeratorOf(s)[v] \in Nat
           /\ SumOf(UnitsOf(s)) \in Nat /\ SumOf(CapacityOf(s)) \in Nat
           /\ SumOf(ClaimableOf(s)) \in Nat /\ SumOf(BadDebtOf(s)) \in Nat
           /\ SumOf(StaleOf(s)) \in Nat /\ SumOf(NumeratorOf(s)) \in Nat
<1>1. ASSUME NEW v \in Vault
      PROVE  /\ UnitsOf(s)[v] \in Nat /\ CapacityOf(s)[v] \in Nat
             /\ ClaimableOf(s)[v] \in Nat /\ BadDebtOf(s)[v] \in Nat
             /\ StaleOf(s)[v] \in Nat
  BY DEF Typed, VaultTyped, UnitsOf, CapacityOf, ClaimableOf, BadDebtOf, StaleOf
<1>2. ASSUME NEW v \in Vault PROVE NumeratorOf(s)[v] \in Nat
  <2>1. /\ s.vaults[v].capacity \in Nat /\ s.vaults[v].remainder \in Nat
        /\ s.feeIndex - s.vaults[v].feeIndex \in Nat
    BY DEF Typed, VaultTyped
  <2>2. s.vaults[v].capacity * (s.feeIndex - s.vaults[v].feeIndex) \in Nat
    BY <2>1, ProductNat
  <2> QED
    BY <2>1, <2>2 DEF NumeratorOf, VaultFeeNumerator
<1>3. IsFiniteSet(Vault)
  BY PrecisionFacts
<1> QED
  BY <1>1, <1>2, <1>3, SumNat DEF SumOf

\* What a vault is owed for its capacity, scaled, is a natural number.
LEMMA NumeratorFacts ==
    ASSUME NEW s, Typed(s), NEW v \in Vault
    PROVE  /\ VaultFeeNumerator(s, v) \in Nat /\ VaultFeeNumerator(s, v) = NumeratorOf(s)[v]
           /\ s.vaults[v].feeIndex = s.feeIndex => VaultFeeNumerator(s, v) = s.vaults[v].remainder
           /\ s.vaults[v].capacity = 0 => VaultFeeNumerator(s, v) = s.vaults[v].remainder
<1>1. VaultFeeNumerator(s, v) = NumeratorOf(s)[v]
  BY DEF NumeratorOf
<1>2. /\ s.vaults[v].capacity \in Nat /\ s.vaults[v].remainder \in Nat
      /\ s.feeIndex \in Nat /\ s.vaults[v].feeIndex \in Nat
  BY DEF Typed, VaultTyped
<1>3. ASSUME s.vaults[v].feeIndex = s.feeIndex PROVE VaultFeeNumerator(s, v) = s.vaults[v].remainder
  <2>1. s.feeIndex - s.vaults[v].feeIndex = 0
    BY <1>2, <1>3
  <2> QED
    BY <1>2, <2>1 DEF VaultFeeNumerator
<1>4. ASSUME s.vaults[v].capacity = 0 PROVE VaultFeeNumerator(s, v) = s.vaults[v].remainder
  <2>1. \A n \in Int : 0 * n = 0
    OBVIOUS
  <2>2. s.feeIndex - s.vaults[v].feeIndex \in Int
    BY <1>2
  <2> QED
    BY <1>2, <1>4, <2>1, <2>2 DEF VaultFeeNumerator
<1>5. NumeratorOf(s)[v] \in Nat
  BY SumsTyped
<1> QED
  BY <1>1, <1>3, <1>4, <1>5

\* Fees of d: what leaves the collateral is credited, and each eligible unit of capacity is
\* owed its share; the reserve and the remainder stay what the vaults are owed.
LEMMA AccrueSound ==
    ASSUME NEW s, Sound(s, "Operational"), s.feeEligible > 0, NEW d \in Nat,
           NEW e, AccruedBy(s, d, e), e.collateral >= 0
    PROVE  Sound(e, "Operational") /\ e.collateral + e.unallocated = s.collateral + s.unallocated
<1> DEFINE delta == d \div s.feeEligible
           owed == delta * s.feeEligible + s.owedRemainder
           credited == owed \div PRICE_PRECISION
<1>1. Typed(s) /\ Totals(s, "Operational") /\ PRICE_PRECISION \in Nat /\ PRICE_PRECISION > 0
  BY PrecisionFacts DEF Sound
<1>2. s.feeEligible \in Nat /\ s.owedRemainder \in Nat /\ s.unallocated \in Nat
      /\ s.collateral \in Nat /\ s.feeIndex \in Nat
  BY <1>1 DEF Typed
<1>3. delta \in Nat /\ delta * s.feeEligible \in Nat
  BY <1>2, Quotient, ProductNat
<1>4. owed \in Nat
  BY <1>2, <1>3
<1>5. credited \in Nat /\ owed % PRICE_PRECISION \in Nat /\ owed % PRICE_PRECISION < PRICE_PRECISION
      /\ owed = PRICE_PRECISION * credited + (owed % PRICE_PRECISION)
  BY <1>1, <1>4, Quotient, Remainder
<1>6. /\ SameBooks(s, e) /\ e.retentionRate = s.retentionRate /\ e.lastUpdated = s.lastUpdated
      /\ e.feeIndex = s.feeIndex + delta /\ e.indexRemainder = d % s.feeEligible
      /\ e.owedRemainder = owed % PRICE_PRECISION
      /\ e.uncheckpointed = IF delta > 0 THEN s.feeEligible ELSE s.uncheckpointed
      /\ e.unallocated = s.unallocated + credited /\ e.collateral = s.collateral - credited
  BY DEF AccruedBy
<1>7. d % s.feeEligible \in Nat
  BY <1>2, Remainder
<1> HIDE DEF delta
<1>8. \A v \in Vault : VaultTyped(e.vaults[v], e.feeIndex)
  BY <1>1, <1>2, <1>3, <1>6 DEF Typed, VaultTyped, SameBooks
<1>9. Typed(e)
  <2>1. e.collateral \in Nat /\ e.unallocated \in Nat /\ e.uncheckpointed \in Nat
        /\ e.feeIndex \in Nat
    <3>1. s.uncheckpointed \in Nat
      BY <1>1 DEF Typed
    <3> HIDE DEF owed, credited
    <3> QED
      BY <1>2, <1>3, <1>5, <1>6, <3>1
  <2> QED
    BY <1>1, <1>5, <1>6, <1>7, <1>8, <2>1 DEF Typed, SameBooks
<1>10. SumOf(StaleOf(e)) = e.uncheckpointed
  <2>1. CASE delta > 0
    <3>1. StaleOf(e) = CapacityOf(s)
      BY <1>1, <1>2, <1>3, <1>6, <2>1 DEF StaleOf, CapacityOf, SameBooks, Typed, VaultTyped
    <3> QED
      BY <1>1, <1>6, <2>1, <3>1 DEF Totals
  <2>2. CASE ~(delta > 0)
    <3>1. StaleOf(e) = StaleOf(s)
      BY <1>2, <1>3, <1>6, <2>2 DEF StaleOf, SameBooks
    <3> QED
      BY <1>1, <1>6, <2>2, <3>1 DEF Totals
  <2> QED
    BY <2>1, <2>2
<1>11. Totals(e, "Operational")
  <2>1. /\ ClaimableOf(e) = ClaimableOf(s) /\ BadDebtOf(e) = BadDebtOf(s)
        /\ CapacityOf(e) = CapacityOf(s) /\ UnitsOf(e) = UnitsOf(s)
    BY <1>6 DEF SameBooks, ClaimableOf, BadDebtOf, CapacityOf, UnitsOf
  <2> QED
    BY <1>1, <1>6, <1>10, <2>1 DEF Totals, SameBooks
<1>12. SumOf(NumeratorOf(e)) = SumOf(NumeratorOf(s)) + s.feeEligible * delta
  <2> DEFINE extra == [v \in Vault |-> s.vaults[v].capacity * delta]
  <2>1. \A v \in Vault : /\ CapacityOf(s)[v] \in Int /\ extra[v] = CapacityOf(s)[v] * delta
                         /\ extra[v] \in Int
    BY <1>1, <1>3 DEF CapacityOf, Typed, VaultTyped
  <2>2. SumOf(extra) = SumOf(CapacityOf(s)) * delta
    <3> HIDE DEF extra
    <3> QED
      BY <1>3, <2>1, PrecisionFacts, SumTimes DEF SumOf
  <2>3. ASSUME NEW v \in Vault PROVE NumeratorOf(e)[v] = NumeratorOf(s)[v] + extra[v]
    <3>1. /\ s.vaults[v].capacity \in Nat /\ s.vaults[v].remainder \in Nat
          /\ s.vaults[v].feeIndex \in Nat
      BY <1>1 DEF Typed, VaultTyped
    <3>2. \A c \in Nat, i \in Nat, j \in Nat : c * ((j + delta) - i) = c * (j - i) + c * delta
      BY <1>3
    <3> QED
      BY <1>2, <1>3, <1>6, <3>1, <3>2 DEF NumeratorOf, VaultFeeNumerator, SameBooks
  <2> HIDE DEF extra
  <2>4. SumOf(NumeratorOf(e)) = SumOf(NumeratorOf(s)) + SumOf(extra)
    <3>1. \A v \in Vault : NumeratorOf(s)[v] \in Int
      BY <1>1, SumsTyped
    <3> QED
      BY <2>1, <2>3, <3>1, PrecisionFacts, SumPlus DEF SumOf
  <2> QED
    BY <1>1, <2>2, <2>4 DEF Totals
<1>13. Fees(e, "Operational")
  <2>1. PRICE_PRECISION * s.unallocated + s.owedRemainder = SumOf(NumeratorOf(s))
    BY DEF Sound, Fees
  <2>2. PRICE_PRECISION * (s.unallocated + credited)
          = PRICE_PRECISION * s.unallocated + PRICE_PRECISION * credited
    BY <1>1, <1>2, <1>5
  <2>3. s.feeEligible * delta = delta * s.feeEligible
    BY <1>2, <1>3
  <2>4. PRICE_PRECISION * s.unallocated \in Nat /\ PRICE_PRECISION * credited \in Nat
    BY <1>1, <1>2, <1>5, ProductNat
  <2>5. PRICE_PRECISION * e.unallocated + e.owedRemainder = SumOf(NumeratorOf(e))
    <3>1. PRICE_PRECISION * e.unallocated
            = PRICE_PRECISION * s.unallocated + PRICE_PRECISION * credited
      BY <1>6, <2>2
    <3>2. owed = s.feeEligible * delta + s.owedRemainder
      BY <2>3
    <3>3. s.feeEligible * delta \in Nat
      BY <1>3, <2>3
    <3> HIDE DEF credited, owed
    <3>4. e.owedRemainder = owed - PRICE_PRECISION * credited
      BY <1>4, <1>5, <1>6, <2>4
    <3>5. s.owedRemainder \in Nat
      BY <1>2
    <3> QED
      BY <1>12, <2>1, <2>4, <3>1, <3>2, <3>3, <3>4, <3>5
  <2> QED
    BY <2>5 DEF Fees
<1> HIDE DEF credited
<1>14. e.collateral + e.unallocated = s.collateral + s.unallocated
  BY <1>2, <1>5, <1>6
<1> QED
  BY <1>9, <1>11, <1>13, <1>14 DEF Sound

\* The storage after an accrual up to the time n: at most one distributes anything.
Updated(s, n, e) ==
    /\ SameBooks(s, e) /\ e.collateral + e.unallocated = s.collateral + s.unallocated
    /\ e.lastUpdated = IF n <= s.lastUpdated THEN s.lastUpdated ELSE n
    /\ n <= s.lastUpdated => e = s

LEMMA UntilFacts ==
    ASSUME World
    PROVE  /\ Min({now, feeEndDate}) \in 0..MaxTime /\ Min({now, feeEndDate}) <= now
           /\ forkTime > 0 => Min({now, feeEndDate}) = forkTime
<1>1. feeEndDate \in Nat /\ now \in Nat /\ (forkTime > 0 => feeEndDate = forkTime)
  BY PrecisionFacts DEF World, feeEndDate
<1>2. /\ Min({now, feeEndDate}) \in {now, feeEndDate}
      /\ Min({now, feeEndDate}) <= now /\ Min({now, feeEndDate}) <= feeEndDate
  BY <1>1, MinTwo
<1> QED
  BY <1>1, <1>2, PrecisionFacts DEF World

LEMMA DecayFacts ==
    ASSUME World, NEW s, Typed(s), NEW n \in 0..MaxTime, s.lastUpdated < n
    PROVE  (s.collateral - (s.collateral * _rpow(s.retentionRate, n - s.lastUpdated))
              \div PRICE_PRECISION) * PRICE_PRECISION + s.indexRemainder \in Nat
<1> DEFINE power == _rpow(s.retentionRate, n - s.lastUpdated)
           kept == (s.collateral * power) \div PRICE_PRECISION
<1>1. /\ s.collateral \in Nat /\ s.indexRemainder \in Nat /\ s.lastUpdated \in Nat
      /\ s.retentionRate \in 0..PRICE_PRECISION
  BY DEF Typed
<1>2. n - s.lastUpdated \in 0..MaxTime
  BY <1>1, PrecisionFacts
<1>3. power \in 0..PRICE_PRECISION
  BY <1>1, <1>2, PowerAtMostOne
<1> HIDE DEF power
<1>4. power \in Nat /\ power <= PRICE_PRECISION
  BY <1>3, PrecisionFacts
<1>5. kept \in Nat /\ kept <= s.collateral
  BY <1>1, <1>4, PrecisionFacts, PartOf
<1> HIDE DEF kept
<1>6. s.collateral - kept \in Nat
  BY <1>1, <1>5
<1>7. (s.collateral - kept) * PRICE_PRECISION \in Nat
  BY <1>6, PrecisionFacts, ProductNat
<1>8. (s.collateral - kept) * PRICE_PRECISION + s.indexRemainder \in Nat
  BY <1>1, <1>7
<1> QED
  BY <1>8 DEF kept, power

\* updateSettlementCollateral keeps storage sound, in each of its three branches.
LEMMA UpdateSound ==
    ASSUME World, NEW st, NEW s, Sound(s, st),
           st = "Operational" \/ Min({now, feeEndDate}) <= s.lastUpdated,
           updateSettlementCollateral(s).collateral >= 0
    PROVE  /\ Sound(updateSettlementCollateral(s), st)
           /\ Updated(s, Min({now, feeEndDate}), updateSettlementCollateral(s))
<1> DEFINE until == Min({now, feeEndDate})
           e == updateSettlementCollateral(s)
<1>1. until \in 0..MaxTime /\ Typed(s) /\ DOMAIN s = PoolFields /\ s.lastUpdated \in Nat
      /\ s.feeEligible \in Nat /\ until \in Nat
  BY UntilFacts, PrecisionFacts DEF Sound, Typed
<1>2. CASE until <= s.lastUpdated
  <2>1. e = s
    BY <1>2 DEF updateSettlementCollateral
  <2>2. Updated(s, until, s)
    BY <1>1, <1>2 DEF Updated, SameBooks
  <2> QED
    BY <2>1, <2>2
<1>3. CASE s.lastUpdated < until /\ s.feeEligible = 0
  <2>1. e = [[s EXCEPT !.indexRemainder = 0] EXCEPT !.lastUpdated = until]
    BY <1>1, <1>3 DEF updateSettlementCollateral
  <2>2. /\ SameBooks(s, e) /\ e.lastUpdated = until /\ e.indexRemainder = 0
        /\ e.uncheckpointed = s.uncheckpointed /\ e.collateral = s.collateral
        /\ e.unallocated = s.unallocated /\ e.feeIndex = s.feeIndex
        /\ e.owedRemainder = s.owedRemainder /\ e.retentionRate = s.retentionRate
    BY <1>1, <2>1 DEF SameBooks, PoolFields
  <2> HIDE DEF e
  <2>3. Typed(e)
    BY <1>1, <2>2, PrecisionFacts DEF Typed, SameBooks
  <2>4. /\ ClaimableOf(e) = ClaimableOf(s) /\ BadDebtOf(e) = BadDebtOf(s)
        /\ CapacityOf(e) = CapacityOf(s) /\ UnitsOf(e) = UnitsOf(s) /\ StaleOf(e) = StaleOf(s)
        /\ NumeratorOf(e) = NumeratorOf(s)
    BY <2>2 DEF SameBooks, ClaimableOf, BadDebtOf, CapacityOf, UnitsOf, StaleOf, NumeratorOf,
                VaultFeeNumerator
  <2>5. Totals(e, st)
    BY <2>2, <2>4 DEF Totals, SameBooks, Sound
  <2>6. Fees(e, st)
    BY <2>2, <2>4 DEF Fees, SameBooks, Sound, VaultFeeNumerator
  <2>7. Updated(s, until, e)
    BY <1>1, <1>3, <2>2 DEF Updated
  <2> HIDE DEF until
  <2> QED
    BY <2>3, <2>5, <2>6, <2>7 DEF Sound, e, until
<1>4. CASE s.lastUpdated < until /\ s.feeEligible > 0
  <2> DEFINE d == (s.collateral - (s.collateral * _rpow(s.retentionRate, until - s.lastUpdated))
                     \div PRICE_PRECISION) * PRICE_PRECISION + s.indexRemainder
             a == Accrue(s, d)
  <2>1. e = [a EXCEPT !.lastUpdated = until]
    <3>1. ~(until <= s.lastUpdated) /\ s.feeEligible # 0
      BY <1>1, <1>4
    <3>2. calculateFeeAccrual(s, until - s.lastUpdated) = a
      BY DEF calculateFeeAccrual
    <3> HIDE DEF a
    <3> QED
      BY <3>1, <3>2 DEF updateSettlementCollateral
  <2>2. d \in Nat
    BY <1>1, <1>4, DecayFacts
  <2>3. st = "Operational"
    BY <1>1, <1>4
  <2> HIDE DEF d
  <2>4. AccruedBy(s, d, a)
    BY <1>1, AccrueFields
  <2>5. DOMAIN a = PoolFields
    BY <2>4 DEF AccruedBy, SameBooks
  <2> HIDE DEF a
  <2>6. /\ SameBooks(a, e) /\ e.lastUpdated = until /\ e.indexRemainder = a.indexRemainder
        /\ e.uncheckpointed = a.uncheckpointed /\ e.collateral = a.collateral
        /\ e.unallocated = a.unallocated /\ e.feeIndex = a.feeIndex
        /\ e.owedRemainder = a.owedRemainder /\ e.retentionRate = a.retentionRate
    BY <2>1, <2>5 DEF SameBooks, PoolFields
  <2>7. a.collateral >= 0
    BY <2>6
  <2> HIDE DEF e
  <2>8. Sound(a, "Operational") /\ a.collateral + a.unallocated = s.collateral + s.unallocated
    BY <1>4, <2>2, <2>3, <2>4, <2>7, AccrueSound
  <2>9. Typed(e)
    BY <1>1, <2>6, <2>8 DEF Typed, SameBooks, Sound
  <2>10. /\ ClaimableOf(e) = ClaimableOf(a) /\ BadDebtOf(e) = BadDebtOf(a)
         /\ CapacityOf(e) = CapacityOf(a) /\ UnitsOf(e) = UnitsOf(a) /\ StaleOf(e) = StaleOf(a)
         /\ NumeratorOf(e) = NumeratorOf(a)
    BY <2>6 DEF SameBooks, ClaimableOf, BadDebtOf, CapacityOf, UnitsOf, StaleOf, NumeratorOf,
                VaultFeeNumerator
  <2>11. Totals(e, "Operational")
    BY <2>6, <2>8, <2>10 DEF Totals, SameBooks, Sound
  <2>12. Fees(e, "Operational")
    BY <2>6, <2>8, <2>10 DEF Fees, SameBooks, Sound, VaultFeeNumerator
  <2>13. SameBooks(s, e)
    BY <2>4, <2>6 DEF AccruedBy, SameBooks
  <2> HIDE DEF until
  <2>14. Updated(s, until, e)
    BY <1>1, <1>4, <2>6, <2>8, <2>13 DEF Updated
  <2> QED
    BY <2>3, <2>9, <2>11, <2>12, <2>14 DEF Sound, e, until
<1> QED
  BY <1>1, <1>2, <1>3, <1>4

-----------------------------------------------------------------------------
(* What a checkpoint does to the storage.                                  *)

\* What AssignVaultFees makes of s, with fees to assign to v.
AssignedTo(s, v, fees, a) ==
    /\ DOMAIN a = PoolFields /\ DOMAIN a.vaults = Vault
    /\ \A u \in Vault \ {v} : a.vaults[u] = s.vaults[u]
    /\ DOMAIN a.vaults[v] = VaultFields
    /\ a.vaults[v].units = s.vaults[v].units /\ a.vaults[v].capacity = s.vaults[v].capacity
    /\ a.vaults[v].badDebt = s.vaults[v].badDebt
    /\ a.vaults[v].remainder = VaultFeeNumerator(s, v) % PRICE_PRECISION
    /\ a.vaults[v].feeIndex = s.feeIndex
    /\ a.vaults[v].claimable = s.vaults[v].claimable + fees
    /\ a.uncheckpointed = s.uncheckpointed - StaleOf(s)[v]
    /\ a.unallocated = s.unallocated - fees /\ a.totalClaimable = s.totalClaimable + fees
    /\ a.totalUnits = s.totalUnits /\ a.totalCapacity = s.totalCapacity
    /\ a.feeEligible = s.feeEligible /\ a.totalBadDebt = s.totalBadDebt
    /\ a.collateral = s.collateral /\ a.shareSupply = s.shareSupply /\ a.feeIndex = s.feeIndex
    /\ a.indexRemainder = s.indexRemainder /\ a.owedRemainder = s.owedRemainder
    /\ a.lastUpdated = s.lastUpdated /\ a.retentionRate = s.retentionRate

LEMMA AssignFields ==
    ASSUME NEW s, Typed(s), NEW v \in Vault
    PROVE  AssignedTo(s, v, VaultFeeNumerator(s, v) \div PRICE_PRECISION, AssignVaultFees(s, v))
<1> DEFINE n == VaultFeeNumerator(s, v)
           a == AssignVaultFees(s, v)
<1>1. /\ DOMAIN s = PoolFields /\ DOMAIN s.vaults = Vault /\ DOMAIN s.vaults[v] = VaultFields
      /\ s.uncheckpointed \in Nat
  BY DEF Typed, VaultTyped
<1>2. a = [s EXCEPT !.vaults[v].remainder = n % PRICE_PRECISION,
                    !.vaults[v].feeIndex = s.feeIndex,
                    !.vaults[v].claimable = @ + n \div PRICE_PRECISION,
                    !.uncheckpointed = IF s.vaults[v].feeIndex # s.feeIndex
                                       THEN @ - s.vaults[v].capacity ELSE @,
                    !.unallocated = @ - n \div PRICE_PRECISION,
                    !.totalClaimable = @ + n \div PRICE_PRECISION]
  BY DEF AssignVaultFees
<1> HIDE DEF n, a
<1>3. /\ DOMAIN a = PoolFields /\ DOMAIN a.vaults = Vault
      /\ \A u \in Vault \ {v} : a.vaults[u] = s.vaults[u]
      /\ DOMAIN a.vaults[v] = VaultFields
  BY <1>1, <1>2 DEF PoolFields
<1>4. /\ a.vaults[v].units = s.vaults[v].units /\ a.vaults[v].capacity = s.vaults[v].capacity
      /\ a.vaults[v].badDebt = s.vaults[v].badDebt
      /\ a.vaults[v].remainder = n % PRICE_PRECISION
      /\ a.vaults[v].feeIndex = s.feeIndex
      /\ a.vaults[v].claimable = s.vaults[v].claimable + n \div PRICE_PRECISION
  BY <1>1, <1>2 DEF PoolFields, VaultFields
<1>5. a.uncheckpointed = s.uncheckpointed - StaleOf(s)[v]
  BY <1>1, <1>2 DEF PoolFields, StaleOf
<1>6. /\ a.unallocated = s.unallocated - n \div PRICE_PRECISION
      /\ a.totalClaimable = s.totalClaimable + n \div PRICE_PRECISION
      /\ a.totalUnits = s.totalUnits /\ a.totalCapacity = s.totalCapacity
      /\ a.feeEligible = s.feeEligible /\ a.totalBadDebt = s.totalBadDebt
      /\ a.collateral = s.collateral /\ a.shareSupply = s.shareSupply /\ a.feeIndex = s.feeIndex
      /\ a.indexRemainder = s.indexRemainder /\ a.owedRemainder = s.owedRemainder
      /\ a.lastUpdated = s.lastUpdated /\ a.retentionRate = s.retentionRate
  BY <1>1, <1>2 DEF PoolFields
<1> QED
  BY <1>3, <1>4, <1>5, <1>6 DEF AssignedTo, n, a

\* What a vault is due is in the reserve.
LEMMA FeesReserved ==
    ASSUME NEW st, NEW s, Sound(s, st), NEW v \in Vault
    PROVE  /\ VaultFeeNumerator(s, v) \div PRICE_PRECISION \in Nat
           /\ VaultFeeNumerator(s, v) \div PRICE_PRECISION <= s.unallocated
<1> DEFINE n == VaultFeeNumerator(s, v)
           fees == n \div PRICE_PRECISION
<1>1. Typed(s) /\ n \in Nat /\ n = NumeratorOf(s)[v] /\ PRICE_PRECISION \in Nat /\ PRICE_PRECISION > 0
  BY NumeratorFacts, PrecisionFacts DEF Sound
<1> HIDE DEF n
<1>2. fees \in Nat /\ PRICE_PRECISION * fees <= n /\ n < PRICE_PRECISION * fees + PRICE_PRECISION
  BY <1>1, Quotient
<1>3. s.unallocated \in Nat /\ s.owedRemainder \in Nat /\ s.owedRemainder < PRICE_PRECISION
  BY <1>1 DEF Typed
<1> HIDE DEF fees
<1>4. CASE PRICE_PRECISION * s.unallocated + s.owedRemainder = SumOf(NumeratorOf(s))
  <2>1. n <= SumOf(NumeratorOf(s)) /\ SumOf(NumeratorOf(s)) \in Nat
    BY <1>1, SumsTyped, SumTerm, PrecisionFacts DEF SumOf
  <2>2. PRICE_PRECISION * (s.unallocated + 1) = PRICE_PRECISION * s.unallocated + PRICE_PRECISION
    BY <1>1, <1>3
  <2>3. PRICE_PRECISION * s.unallocated \in Nat /\ PRICE_PRECISION * fees \in Nat
    BY <1>1, <1>2, <1>3, ProductNat
  <2>4. PRICE_PRECISION * fees < PRICE_PRECISION * (s.unallocated + 1)
    BY <1>1, <1>2, <1>3, <1>4, <2>1, <2>2, <2>3
  <2>5. fees < s.unallocated + 1
    BY <1>1, <1>2, <1>3, <2>4, FactorBelow
  <2> QED
    BY <1>2, <1>3, <2>5 DEF fees, n
<1>5. CASE n < PRICE_PRECISION
  <2>1. fees = 0
    BY <1>1, <1>5 DEF fees
  <2> QED
    BY <1>2, <1>3, <2>1 DEF fees, n
<1>6. \/ PRICE_PRECISION * s.unallocated + s.owedRemainder = SumOf(NumeratorOf(s))
      \/ n < PRICE_PRECISION
  BY DEF Sound, Fees, n
<1> QED
  BY <1>4, <1>5, <1>6

\* A storage with the stakes of another and the same ETH.
SameStakes(s, e) ==
    /\ \A u \in Vault : /\ e.vaults[u].units = s.vaults[u].units
                        /\ e.vaults[u].capacity = s.vaults[u].capacity
                        /\ e.vaults[u].badDebt = s.vaults[u].badDebt
    /\ e.totalUnits = s.totalUnits /\ e.totalCapacity = s.totalCapacity
    /\ e.totalBadDebt = s.totalBadDebt /\ e.shareSupply = s.shareSupply
    /\ e.collateral + e.totalClaimable + e.unallocated
         = s.collateral + s.totalClaimable + s.unallocated

\* What a vault is assigned leaves the reserve, and leaves its numerator by as much.
LEMMA AssignSound ==
    ASSUME NEW st, NEW s, Sound(s, st), NEW v \in Vault, NEW a,
           AssignedTo(s, v, VaultFeeNumerator(s, v) \div PRICE_PRECISION, a)
    PROVE  Sound(a, st) /\ SameStakes(s, a)
<1> DEFINE n == VaultFeeNumerator(s, v)
           fees == n \div PRICE_PRECISION
<1>1. Typed(s) /\ n \in Nat /\ n = NumeratorOf(s)[v] /\ PRICE_PRECISION \in Nat /\ PRICE_PRECISION > 0
      /\ IsFiniteSet(Vault)
  BY NumeratorFacts, PrecisionFacts DEF Sound
<1>2. fees \in Nat /\ fees <= s.unallocated /\ n % PRICE_PRECISION \in Nat
      /\ n % PRICE_PRECISION < PRICE_PRECISION /\ n = PRICE_PRECISION * fees + (n % PRICE_PRECISION)
  BY <1>1, FeesReserved, Remainder
<1>3. AssignedTo(s, v, fees, a)
  OBVIOUS
<1> HIDE DEF fees
<1>4. /\ s.unallocated \in Nat /\ s.totalClaimable \in Nat /\ s.collateral \in Nat
      /\ s.uncheckpointed \in Nat /\ s.feeIndex \in Nat /\ s.owedRemainder \in Nat
  BY <1>1 DEF Typed
<1>5. ASSUME NEW u \in Vault PROVE VaultTyped(a.vaults[u], a.feeIndex)
  <2>1. VaultTyped(s.vaults[u], s.feeIndex)
    BY <1>1 DEF Typed
  <2>2. CASE u # v
    BY <1>3, <2>1, <2>2 DEF AssignedTo
  <2>3. CASE u = v
    BY <1>2, <1>3, <1>4, <2>1, <2>3 DEF AssignedTo, VaultTyped, n
  <2> QED
    BY <2>2, <2>3
<1>6. StaleOf(s)[v] \in Nat /\ StaleOf(s)[v] <= SumOf(StaleOf(s)) /\ s.uncheckpointed = SumOf(StaleOf(s))
  BY <1>1, SumsTyped, SumTerm DEF SumOf, Sound, Totals
<1>7. Typed(a)
  BY <1>1, <1>2, <1>3, <1>4, <1>5, <1>6 DEF Typed, AssignedTo
<1>8. /\ UnitsOf(a) = UnitsOf(s) /\ CapacityOf(a) = CapacityOf(s) /\ BadDebtOf(a) = BadDebtOf(s)
      /\ \A u \in Vault : /\ a.vaults[u].units = s.vaults[u].units
                          /\ a.vaults[u].capacity = s.vaults[u].capacity
                          /\ a.vaults[u].badDebt = s.vaults[u].badDebt
  BY <1>3 DEF UnitsOf, CapacityOf, BadDebtOf, AssignedTo
<1>9. SumOf(ClaimableOf(a)) = SumOf(ClaimableOf(s)) + fees
  <2>1. \A u \in Vault : ClaimableOf(s)[u] \in Int /\ ClaimableOf(a)[u] \in Int
    BY <1>1, <1>7, SumsTyped
  <2>2. \A u \in Vault \ {v} : ClaimableOf(a)[u] = ClaimableOf(s)[u]
    BY <1>3 DEF AssignedTo, ClaimableOf
  <2>3. ClaimableOf(a)[v] = ClaimableOf(s)[v] + fees
    BY <1>3 DEF AssignedTo, ClaimableOf
  <2>4. SumOf(ClaimableOf(a)) = SumOf(ClaimableOf(s)) + (ClaimableOf(a)[v] - ClaimableOf(s)[v])
    BY <1>1, <2>1, <2>2, SumChange DEF SumOf
  <2> QED
    BY <1>2, <2>1, <2>3, <2>4
<1>10. SumOf(StaleOf(a)) = SumOf(StaleOf(s)) - StaleOf(s)[v]
  <2>1. \A u \in Vault : StaleOf(s)[u] \in Int /\ StaleOf(a)[u] \in Int
    BY <1>1, <1>7, SumsTyped
  <2>2. \A u \in Vault \ {v} : StaleOf(a)[u] = StaleOf(s)[u]
    BY <1>3 DEF AssignedTo, StaleOf
  <2>3. StaleOf(a)[v] = 0
    BY <1>3 DEF AssignedTo, StaleOf
  <2>4. SumOf(StaleOf(a)) = SumOf(StaleOf(s)) + (StaleOf(a)[v] - StaleOf(s)[v])
    BY <1>1, <2>1, <2>2, SumChange DEF SumOf
  <2>5. SumOf(StaleOf(s)) \in Int
    BY <1>1, SumsTyped
  <2> QED
    BY <2>1, <2>3, <2>4, <2>5
<1>11. Totals(a, st)
  BY <1>3, <1>6, <1>8, <1>9, <1>10 DEF Totals, Sound, AssignedTo
<1>12. NumeratorOf(a)[v] = n % PRICE_PRECISION /\ VaultFeeNumerator(a, v) = n % PRICE_PRECISION
  <2>1. a.vaults[v].feeIndex = a.feeIndex /\ a.vaults[v].remainder = n % PRICE_PRECISION
    BY <1>3 DEF AssignedTo
  <2> QED
    BY <1>7, <2>1, NumeratorFacts
<1>13. \A u \in Vault \ {v} : /\ NumeratorOf(a)[u] = NumeratorOf(s)[u]
                              /\ VaultFeeNumerator(a, u) = VaultFeeNumerator(s, u)
  BY <1>3 DEF NumeratorOf, VaultFeeNumerator, AssignedTo
<1>14. SumOf(NumeratorOf(a)) = SumOf(NumeratorOf(s)) + ((n % PRICE_PRECISION) - n)
  <2>1. \A u \in Vault : NumeratorOf(s)[u] \in Int /\ NumeratorOf(a)[u] \in Int
    BY <1>1, <1>7, SumsTyped
  <2> QED
    BY <1>1, <1>12, <1>13, <2>1, SumChange DEF SumOf
<1> DEFINE rest == n % PRICE_PRECISION
<1> HIDE DEF rest
<1>15. CASE PRICE_PRECISION * s.unallocated + s.owedRemainder = SumOf(NumeratorOf(s))
  <2>1. PRICE_PRECISION * (s.unallocated - fees) = PRICE_PRECISION * s.unallocated - PRICE_PRECISION * fees
    BY <1>1, <1>2, <1>4
  <2>2. a.unallocated = s.unallocated - fees /\ a.owedRemainder = s.owedRemainder
    BY <1>3 DEF AssignedTo
  <2>3. PRICE_PRECISION * s.unallocated \in Nat /\ PRICE_PRECISION * fees \in Nat
    BY <1>1, <1>2, <1>4, ProductNat
  <2>4. rest \in Nat /\ n = PRICE_PRECISION * fees + rest
    BY <1>2 DEF rest
  <2>5. SumOf(NumeratorOf(a)) = SumOf(NumeratorOf(s)) + (rest - n)
    BY <1>14 DEF rest
  <2> HIDE DEF n
  <2>6. PRICE_PRECISION * a.unallocated + a.owedRemainder = SumOf(NumeratorOf(a))
    BY <1>1, <1>4, <1>15, <2>1, <2>2, <2>3, <2>4, <2>5
  <2> QED
    BY <2>6, <1>7, <1>11, <1>3, <1>2, <1>4, <1>8 DEF Fees, Sound, SameStakes, AssignedTo
<1>16. CASE /\ st # "Operational" /\ s.unallocated = 0
            /\ \A u \in Vault : VaultFeeNumerator(s, u) < PRICE_PRECISION
  <2>1. fees = 0
    BY <1>2, <1>16
  <2>2. a.unallocated = 0
    BY <1>3, <1>16, <2>1 DEF AssignedTo
  <2>3. \A u \in Vault : VaultFeeNumerator(a, u) < PRICE_PRECISION
    BY <1>2, <1>12, <1>13, <1>16 DEF n
  <2> QED
    BY <1>16, <2>2, <2>3, <1>7, <1>11, <1>3, <1>2, <1>4, <1>8 DEF Fees, Sound, SameStakes, AssignedTo
<1> QED
  BY <1>15, <1>16 DEF Sound, Fees

Fresh(s, v) == s.vaults[v].feeIndex = s.feeIndex
UpToDate(s) == Min({now, feeEndDate}) <= s.lastUpdated

\* What is left when no checkpoint can assign any more goes back to the collateral.
LEMMA ReleaseSound ==
    ASSUME World, NEW s, Sound(s, systemState), NEW e,
           e = _releaseUnassignableFeeReserveIfComplete(s)
    PROVE  /\ Sound(e, systemState) /\ SameStakes(s, e) /\ e.lastUpdated = s.lastUpdated
           /\ e.feeIndex = s.feeIndex /\ e.vaults = s.vaults
<1>1. Typed(s) /\ s.collateral \in Nat /\ s.unallocated \in Nat /\ s.totalClaimable \in Nat
      /\ DOMAIN s = PoolFields
  BY DEF Sound, Typed
<1>2. CASE s.uncheckpointed # 0 \/ systemState # "PoolForked"
  <2>1. e = s
    BY <1>2 DEF _releaseUnassignableFeeReserveIfComplete
  <2> QED
    BY <2>1 DEF SameStakes
<1>3. CASE s.uncheckpointed = 0 /\ systemState = "PoolForked"
  <2>1. e = [s EXCEPT !.collateral = @ + s.unallocated, !.unallocated = 0]
    BY <1>3 DEF _releaseUnassignableFeeReserveIfComplete
  <2>2. /\ DOMAIN e = PoolFields /\ e.vaults = s.vaults
        /\ e.totalUnits = s.totalUnits /\ e.totalCapacity = s.totalCapacity
        /\ e.feeEligible = s.feeEligible /\ e.shareSupply = s.shareSupply
        /\ e.totalClaimable = s.totalClaimable /\ e.totalBadDebt = s.totalBadDebt
        /\ e.uncheckpointed = s.uncheckpointed /\ e.feeIndex = s.feeIndex
        /\ e.indexRemainder = s.indexRemainder /\ e.owedRemainder = s.owedRemainder
        /\ e.lastUpdated = s.lastUpdated /\ e.retentionRate = s.retentionRate
        /\ e.collateral = s.collateral + s.unallocated /\ e.unallocated = 0
    BY <1>1, <2>1 DEF PoolFields
  <2>3. Typed(e)
    BY <1>1, <2>2 DEF Typed
  <2>4. /\ ClaimableOf(e) = ClaimableOf(s) /\ BadDebtOf(e) = BadDebtOf(s)
        /\ CapacityOf(e) = CapacityOf(s) /\ UnitsOf(e) = UnitsOf(s) /\ StaleOf(e) = StaleOf(s)
    BY <2>2 DEF ClaimableOf, BadDebtOf, CapacityOf, UnitsOf, StaleOf
  <2>5. Totals(e, systemState)
    BY <2>2, <2>4 DEF Totals, Sound
  <2>6. ASSUME NEW v \in Vault PROVE VaultFeeNumerator(e, v) < PRICE_PRECISION
    <3>1. StaleOf(s)[v] <= SumOf(StaleOf(s)) /\ StaleOf(s)[v] \in Nat
      BY <1>1, SumsTyped, SumTerm, PrecisionFacts DEF SumOf
    <3>2. StaleOf(s)[v] = 0
      BY <1>3, <3>1 DEF Sound, Totals
    <3>3. s.vaults[v].feeIndex = s.feeIndex \/ s.vaults[v].capacity = 0
      BY <3>2 DEF StaleOf
    <3>4. VaultFeeNumerator(s, v) = s.vaults[v].remainder
      BY <1>1, <3>3, NumeratorFacts
    <3>5. VaultFeeNumerator(e, v) = VaultFeeNumerator(s, v)
      BY <2>2 DEF VaultFeeNumerator
    <3> QED
      BY <1>1, <3>4, <3>5 DEF Typed, VaultTyped
  <2>7. systemState # "Operational"
    BY <1>3
  <2>8. Fees(e, systemState)
    BY <2>2, <2>6, <2>7 DEF Fees
  <2> QED
    BY <1>1, <2>2, <2>3, <2>5, <2>8 DEF Sound, SameStakes
<1> QED
  BY <1>2, <1>3

\* A checkpointed vault is at the index, and no other vault falls behind it.
LEMMA CheckpointSound ==
    ASSUME World, NEW s, Sound(s, systemState), NEW v \in Vault, NEW e, e = CheckpointVault(s, v)
    PROVE  /\ Sound(e, systemState) /\ SameStakes(s, e) /\ e.lastUpdated = s.lastUpdated
           /\ Fresh(e, v) /\ \A u \in Vault : Fresh(s, u) => Fresh(e, u)
<1> DEFINE a == AssignVaultFees(s, v)
<1>2. AssignedTo(s, v, VaultFeeNumerator(s, v) \div PRICE_PRECISION, a)
  BY AssignFields DEF Sound
<1> HIDE DEF a
<1>3. Sound(a, systemState) /\ SameStakes(s, a)
  BY <1>2, AssignSound
<1>4. a.lastUpdated = s.lastUpdated /\ Fresh(a, v) /\ \A u \in Vault : Fresh(s, u) => Fresh(a, u)
  BY <1>2 DEF AssignedTo, Fresh
<1>5. CASE s.uncheckpointed # 0
  <2>1. e = a
    BY <1>5 DEF CheckpointVault, a
  <2> QED
    BY <1>3, <1>4, <2>1
<1>6. CASE s.uncheckpointed = 0
  <2>1. e = _releaseUnassignableFeeReserveIfComplete(a)
    BY <1>6 DEF CheckpointVault, a
  <2>2. /\ Sound(e, systemState) /\ SameStakes(a, e) /\ e.lastUpdated = a.lastUpdated
        /\ e.feeIndex = a.feeIndex /\ e.vaults = a.vaults
    BY <1>3, <2>1, ReleaseSound
  <2> QED
    BY <1>3, <1>4, <2>2 DEF SameStakes, Fresh
<1> QED
  BY <1>5, <1>6

\* What a service of the pool s, that moves no stake and no ETH, makes of it.
Serviced(s, e) ==
    Sound(e, systemState) /\ ClockOf(e) /\ UpToDate(e) /\ SameStakes(s, e)

\* Accrual with the clock: it reaches the end of the fees, and a second one changes nothing.
LEMMA SettleSound ==
    ASSUME World, NEW s, Sound(s, systemState), ClockOf(s), NEW e,
           e = updateSettlementCollateral(s), e.collateral >= 0
    PROVE  Serviced(s, e) /\ (UpToDate(s) => e = s)
<1> DEFINE until == Min({now, feeEndDate})
<1>1. s.lastUpdated \in Nat /\ now \in Nat /\ forkTime \in Nat
  BY PrecisionFacts DEF World, Sound, Typed
<1>2. until \in Nat /\ until <= now /\ (forkTime > 0 => until = forkTime)
  BY UntilFacts, PrecisionFacts
<1> HIDE DEF until
<1>3. systemState = "Operational" \/ until <= s.lastUpdated
  <2>1. systemState = "PoolForked" => forkTime > 0 /\ s.lastUpdated = forkTime
    BY DEF ClockOf
  <2>2. systemState = "PoolForked" \/ systemState = "Operational"
    BY DEF World
  <2> QED
    BY <1>1, <1>2, <2>1, <2>2
<1>4. Sound(e, systemState) /\ Updated(s, until, e)
  BY <1>1, <1>3, UpdateSound DEF until
<1>5. SameStakes(s, e)
  BY <1>4 DEF Updated, SameBooks, SameStakes, Sound, Typed
<1>6. UpToDate(e) /\ (UpToDate(s) => e = s)
  BY <1>1, <1>2, <1>4 DEF Updated, UpToDate, until
<1>7. ClockOf(e)
  BY <1>1, <1>2, <1>4 DEF Updated, ClockOf
<1> QED
  BY <1>4, <1>5, <1>6, <1>7 DEF Serviced

\* updateVaultFees, which nearly every handler begins with.
LEMMA RefreshSound ==
    ASSUME World, NEW s, Sound(s, systemState), ClockOf(s),
           updateSettlementCollateral(s).collateral >= 0,
           NEW v \in Vault, NEW e, e = updateVaultFees(s, v)
    PROVE  /\ Serviced(s, e) /\ Fresh(e, v)
           /\ UpToDate(s) => \A u \in Vault : Fresh(s, u) => Fresh(e, u)
<1> DEFINE m == updateSettlementCollateral(s)
<1>1. e = CheckpointVault(m, v)
  BY DEF updateVaultFees
<1>2. Serviced(s, m) /\ (UpToDate(s) => m = s)
  BY SettleSound
<1> HIDE DEF m
<1>3. /\ Sound(e, systemState) /\ SameStakes(m, e) /\ e.lastUpdated = m.lastUpdated
      /\ Fresh(e, v) /\ \A u \in Vault : Fresh(m, u) => Fresh(e, u)
  BY <1>1, <1>2, CheckpointSound DEF Serviced
<1>4. Serviced(s, e)
  BY <1>2, <1>3 DEF Serviced, SameStakes, ClockOf, UpToDate
<1> QED
  BY <1>2, <1>3, <1>4

-----------------------------------------------------------------------------
(* What a handler does to one vault after its checkpoint.                  *)

\* e is s with the stake, the fees or the bad debt of v changed, and of the
\* totals those that follow it; ETH and shares may be anything.
Edited(s, v, e, st) ==
    /\ DOMAIN e = PoolFields /\ DOMAIN e.vaults = Vault
    /\ \A u \in Vault \ {v} : e.vaults[u] = s.vaults[u]
    /\ VaultTyped(e.vaults[v], e.feeIndex)
    /\ e.vaults[v].feeIndex = s.vaults[v].feeIndex
    /\ e.vaults[v].remainder = s.vaults[v].remainder
    /\ e.vaults[v].capacity = s.vaults[v].capacity \/ Fresh(s, v)
    /\ e.feeIndex = s.feeIndex /\ e.uncheckpointed = s.uncheckpointed
    /\ e.owedRemainder = s.owedRemainder /\ e.unallocated = s.unallocated
    /\ e.indexRemainder \in Nat /\ e.collateral \in Nat /\ e.shareSupply \in Nat
    /\ e.lastUpdated \in Nat /\ e.retentionRate \in 0..PRICE_PRECISION
    /\ e.totalClaimable = s.totalClaimable + (e.vaults[v].claimable - s.vaults[v].claimable)
    /\ e.totalBadDebt = s.totalBadDebt + (e.vaults[v].badDebt - s.vaults[v].badDebt)
    /\ e.totalCapacity = e.feeEligible
    /\ st = "Operational" =>
         /\ e.totalCapacity = s.totalCapacity + (e.vaults[v].capacity - s.vaults[v].capacity)
         /\ e.totalUnits = s.totalUnits + (e.vaults[v].units - s.vaults[v].units)
    /\ st # "Operational" => e.totalCapacity = s.totalCapacity /\ e.totalUnits = s.totalUnits

\* The sums over the vaults after one vault was edited.
LEMMA EditSums ==
    ASSUME NEW st, NEW s, Sound(s, st), NEW v \in Vault, NEW e, Edited(s, v, e, st)
    PROVE  /\ \A u \in Vault : VaultTyped(e.vaults[u], e.feeIndex)
           /\ SumOf(ClaimableOf(e)) = e.totalClaimable /\ SumOf(ClaimableOf(e)) \in Nat
           /\ SumOf(BadDebtOf(e)) = e.totalBadDebt /\ SumOf(BadDebtOf(e)) \in Nat
           /\ SumOf(StaleOf(e)) = e.uncheckpointed
           /\ SumOf(CapacityOf(e)) = SumOf(CapacityOf(s)) + (e.vaults[v].capacity - s.vaults[v].capacity)
           /\ SumOf(UnitsOf(e)) = SumOf(UnitsOf(s)) + (e.vaults[v].units - s.vaults[v].units)
           /\ SumOf(CapacityOf(e)) \in Nat /\ SumOf(UnitsOf(e)) \in Nat
<1>1. Typed(s) /\ Totals(s, st) /\ IsFiniteSet(Vault)
  BY PrecisionFacts DEF Sound
<1>2. ASSUME NEW u \in Vault PROVE VaultTyped(e.vaults[u], e.feeIndex) /\ VaultTyped(s.vaults[u], s.feeIndex)
  <2>1. VaultTyped(s.vaults[u], s.feeIndex)
    BY <1>1 DEF Typed
  <2> QED
    BY <2>1 DEF Edited
<1>3. \A u \in Vault : /\ UnitsOf(e)[u] \in Nat /\ CapacityOf(e)[u] \in Nat
                       /\ ClaimableOf(e)[u] \in Nat /\ BadDebtOf(e)[u] \in Nat
                       /\ StaleOf(e)[u] \in Nat
  BY <1>2 DEF VaultTyped, UnitsOf, CapacityOf, ClaimableOf, BadDebtOf, StaleOf
<1>4. \A u \in Vault : /\ UnitsOf(s)[u] \in Nat /\ CapacityOf(s)[u] \in Nat
                       /\ ClaimableOf(s)[u] \in Nat /\ BadDebtOf(s)[u] \in Nat
                       /\ StaleOf(s)[u] \in Nat
  BY <1>1, SumsTyped
<1>5. \A u \in Vault \ {v} : /\ UnitsOf(e)[u] = UnitsOf(s)[u] /\ CapacityOf(e)[u] = CapacityOf(s)[u]
                             /\ ClaimableOf(e)[u] = ClaimableOf(s)[u]
                             /\ BadDebtOf(e)[u] = BadDebtOf(s)[u] /\ StaleOf(e)[u] = StaleOf(s)[u]
  BY DEF Edited, UnitsOf, CapacityOf, ClaimableOf, BadDebtOf, StaleOf
<1>6. SumOf(UnitsOf(e)) = SumOf(UnitsOf(s)) + (UnitsOf(e)[v] - UnitsOf(s)[v])
  BY <1>1, <1>3, <1>4, <1>5, SumChange DEF SumOf
<1>7. SumOf(CapacityOf(e)) = SumOf(CapacityOf(s)) + (CapacityOf(e)[v] - CapacityOf(s)[v])
  BY <1>1, <1>3, <1>4, <1>5, SumChange DEF SumOf
<1>8. SumOf(ClaimableOf(e)) = SumOf(ClaimableOf(s)) + (ClaimableOf(e)[v] - ClaimableOf(s)[v])
  BY <1>1, <1>3, <1>4, <1>5, SumChange DEF SumOf
<1>9. SumOf(BadDebtOf(e)) = SumOf(BadDebtOf(s)) + (BadDebtOf(e)[v] - BadDebtOf(s)[v])
  BY <1>1, <1>3, <1>4, <1>5, SumChange DEF SumOf
<1>10. StaleOf(e) = StaleOf(s)
  <2>1. StaleOf(e)[v] = StaleOf(s)[v]
    BY DEF StaleOf, Edited, Fresh
  <2>2. \A u \in Vault : StaleOf(e)[u] = StaleOf(s)[u]
    BY <1>5, <2>1
  <2> QED
    BY <2>2 DEF StaleOf
<1>11. /\ SumOf(ClaimableOf(e)) \in Nat /\ SumOf(BadDebtOf(e)) \in Nat
       /\ SumOf(CapacityOf(e)) \in Nat /\ SumOf(UnitsOf(e)) \in Nat
  BY <1>1, <1>3, SumNat DEF SumOf
<1>12. /\ UnitsOf(e)[v] = e.vaults[v].units /\ UnitsOf(s)[v] = s.vaults[v].units
       /\ CapacityOf(e)[v] = e.vaults[v].capacity /\ CapacityOf(s)[v] = s.vaults[v].capacity
       /\ ClaimableOf(e)[v] = e.vaults[v].claimable /\ ClaimableOf(s)[v] = s.vaults[v].claimable
       /\ BadDebtOf(e)[v] = e.vaults[v].badDebt /\ BadDebtOf(s)[v] = s.vaults[v].badDebt
  BY DEF UnitsOf, CapacityOf, ClaimableOf, BadDebtOf
<1> QED
  BY <1>1, <1>2, <1>6, <1>7, <1>8, <1>9, <1>10, <1>11, <1>12 DEF Totals, Edited

\* An edit of a checkpointed vault that moves the totals by as much keeps storage sound.
LEMMA EditSound ==
    ASSUME NEW st, NEW s, Sound(s, st), NEW v \in Vault, NEW e, Edited(s, v, e, st)
    PROVE  Sound(e, st)
<1>1. Typed(s) /\ Totals(s, st)
  BY DEF Sound
<1>2. /\ \A u \in Vault : VaultTyped(e.vaults[u], e.feeIndex)
      /\ SumOf(ClaimableOf(e)) = e.totalClaimable /\ SumOf(ClaimableOf(e)) \in Nat
      /\ SumOf(BadDebtOf(e)) = e.totalBadDebt /\ SumOf(BadDebtOf(e)) \in Nat
      /\ SumOf(StaleOf(e)) = e.uncheckpointed
      /\ SumOf(CapacityOf(e)) = SumOf(CapacityOf(s)) + (e.vaults[v].capacity - s.vaults[v].capacity)
      /\ SumOf(UnitsOf(e)) = SumOf(UnitsOf(s)) + (e.vaults[v].units - s.vaults[v].units)
      /\ SumOf(CapacityOf(e)) \in Nat /\ SumOf(UnitsOf(e)) \in Nat
  BY EditSums
<1>3. ASSUME st = "Operational"
      PROVE  e.totalCapacity = SumOf(CapacityOf(e)) /\ e.totalUnits = SumOf(UnitsOf(e))
  BY <1>1, <1>2, <1>3 DEF Totals, Edited
<1>4. e.totalCapacity \in Nat /\ e.totalUnits \in Nat
  BY <1>1, <1>2, <1>3 DEF Typed, Edited
<1>5. Typed(e)
  BY <1>1, <1>2, <1>4 DEF Typed, Edited
<1>6. Totals(e, st)
  BY <1>2, <1>3 DEF Totals, Edited
<1>7. \A u \in Vault : /\ NumeratorOf(e)[u] = NumeratorOf(s)[u]
                       /\ VaultFeeNumerator(e, u) = VaultFeeNumerator(s, u)
  <2>1. \A u \in Vault : /\ NumeratorOf(e)[u] = VaultFeeNumerator(e, u)
                         /\ NumeratorOf(s)[u] = VaultFeeNumerator(s, u)
    BY DEF NumeratorOf
  <2>2. \A u \in Vault \ {v} : VaultFeeNumerator(e, u) = VaultFeeNumerator(s, u)
    BY DEF VaultFeeNumerator, Edited
  <2>3. VaultFeeNumerator(e, v) = VaultFeeNumerator(s, v)
    <3>1. CASE e.vaults[v].capacity = s.vaults[v].capacity
      BY <3>1 DEF VaultFeeNumerator, Edited
    <3>2. CASE Fresh(s, v)
      <4>1. e.vaults[v].feeIndex = e.feeIndex /\ s.vaults[v].feeIndex = s.feeIndex
        BY <3>2 DEF Fresh, Edited
      <4>2. /\ VaultFeeNumerator(e, v) = e.vaults[v].remainder
            /\ VaultFeeNumerator(s, v) = s.vaults[v].remainder
        BY <1>1, <1>5, <4>1, NumeratorFacts
      <4> QED
        BY <4>2 DEF Edited
    <3> QED
      BY <3>1, <3>2 DEF Edited
  <2> QED
    BY <2>1, <2>2, <2>3
<1>8. NumeratorOf(e) = NumeratorOf(s)
  BY <1>7 DEF NumeratorOf
<1>9. Fees(e, st)
  BY <1>7, <1>8 DEF Fees, Sound, Edited
<1> QED
  BY <1>5, <1>6, <1>9 DEF Sound

-----------------------------------------------------------------------------
(* The retention rate.                                                     *)

LEMMA RetentionFacts ==
    ASSUME NEW collateral \in Nat, NEW capacity \in Nat
    PROVE  calculateRetentionRate(collateral, capacity) \in 0..PRICE_PRECISION
<1> DEFINE utilization == (collateral * PRICE_PRECISION) \div capacity
           ratio == (utilization * PRICE_PRECISION) \div RETENTION_RATE_DIP
           range == MAX_RETENTION_RATE - MIN_RETENTION_RATE
           cut == (range * ratio) \div PRICE_PRECISION
<1>1. CASE capacity = 0 \/ utilization > RETENTION_RATE_DIP
  <2>1. calculateRetentionRate(collateral, capacity) \in {MAX_RETENTION_RATE, MIN_RETENTION_RATE}
    BY <1>1 DEF calculateRetentionRate
  <2> QED
    BY <2>1, PrecisionFacts
<1>2. CASE capacity > 0 /\ ~(utilization > RETENTION_RATE_DIP)
  <2>1. calculateRetentionRate(collateral, capacity) = MAX_RETENTION_RATE - cut
    BY <1>2 DEF calculateRetentionRate
  <2>2. utilization \in Nat
    BY <1>2, PrecisionFacts, ProductNat, Quotient
  <2>3. utilization <= RETENTION_RATE_DIP
    BY <1>2, <2>2, PrecisionFacts
  <2> HIDE DEF utilization
  <2>4. ratio \in Nat /\ ratio <= PRICE_PRECISION
    BY <2>2, <2>3, PrecisionFacts, PartOf
  <2>5. range \in Nat
    BY PrecisionFacts
  <2> HIDE DEF ratio, range
  <2>6. cut \in Nat /\ cut <= range
    BY <2>4, <2>5, PrecisionFacts, PartOf
  <2> HIDE DEF cut
  <2> QED
    BY <2>1, <2>5, <2>6, PrecisionFacts DEF range
<1> QED
  BY <1>1, <1>2, PrecisionFacts, Quotient, ProductNat

LEMMA MintingCapacityNat ==
    ASSUME World, NEW s, Typed(s)
    PROVE  getCurrentMintingCapacity(s) \in Nat
<1>1. price \in Nat /\ s.totalCapacity \in Nat
  BY DEF World, Typed
<1>2. CASE price = 0 \/ s.totalCapacity = 0
  BY <1>2 DEF getCurrentMintingCapacity
<1>3. CASE price > 0 /\ s.totalCapacity > 0
  <2> DEFINE rep == (s.totalCapacity * PRICE_PRECISION) \div price
  <2>1. rep \in Nat
    BY <1>1, <1>3, PrecisionFacts, ProductNat, Quotient
  <2> HIDE DEF rep
  <2>2. (rep * BPS_DENOMINATOR) \div statoblastSecurityMultiplierBps \in Nat
    BY <2>1, PrecisionFacts, ProductNat, Quotient
  <2>3. getCurrentMintingCapacity(s) = (rep * BPS_DENOMINATOR) \div statoblastSecurityMultiplierBps
    BY <1>3 DEF getCurrentMintingCapacity, rep
  <2> QED
    BY <2>2, <2>3
<1> QED
  BY <1>1, <1>2, <1>3

\* e is s but for the collateral, the shares that stand on it and the rate.
SameAccounts(s, e) ==
    /\ DOMAIN e = PoolFields /\ e.vaults = s.vaults
    /\ e.totalUnits = s.totalUnits /\ e.totalCapacity = s.totalCapacity
    /\ e.feeEligible = s.feeEligible
    /\ e.totalClaimable = s.totalClaimable /\ e.totalBadDebt = s.totalBadDebt
    /\ e.uncheckpointed = s.uncheckpointed /\ e.feeIndex = s.feeIndex
    /\ e.indexRemainder = s.indexRemainder /\ e.owedRemainder = s.owedRemainder
    /\ e.lastUpdated = s.lastUpdated /\ e.unallocated = s.unallocated
    /\ e.collateral \in Nat /\ e.shareSupply \in Nat /\ e.retentionRate \in 0..PRICE_PRECISION
Rated(s, e) ==
    SameAccounts(s, e) /\ e.collateral = s.collateral /\ e.shareSupply = s.shareSupply

LEMMA SetRateFacts ==
    ASSUME World, NEW s, Typed(s)
    PROVE  Rated(s, SetRetentionRate(s))
<1> DEFINE rate == calculateRetentionRate(s.collateral, getCurrentMintingCapacity(s))
<1>1. s.collateral \in Nat /\ DOMAIN s = PoolFields
  BY DEF Typed
<1>2. rate \in 0..PRICE_PRECISION
  BY <1>1, MintingCapacityNat, RetentionFacts
<1>3. SetRetentionRate(s) = [s EXCEPT !.retentionRate = rate]
  BY DEF SetRetentionRate
<1> HIDE DEF rate
<1> QED
  BY <1>1, <1>2, <1>3 DEF Rated, SameAccounts, PoolFields, Typed

\* What is neither an account of a vault nor a total may change freely.
LEMMA AccountsSound ==
    ASSUME NEW st, NEW s, Sound(s, st), NEW e, SameAccounts(s, e)
    PROVE  Sound(e, st)
<1>1. /\ ClaimableOf(e) = ClaimableOf(s) /\ BadDebtOf(e) = BadDebtOf(s)
      /\ CapacityOf(e) = CapacityOf(s) /\ UnitsOf(e) = UnitsOf(s) /\ StaleOf(e) = StaleOf(s)
      /\ NumeratorOf(e) = NumeratorOf(s)
  BY DEF SameAccounts, ClaimableOf, BadDebtOf, CapacityOf, UnitsOf, StaleOf, NumeratorOf,
         VaultFeeNumerator
<1>2. Typed(e)
  BY DEF Sound, Typed, SameAccounts
<1>3. Totals(e, st)
  BY <1>1 DEF Sound, Totals, SameAccounts
<1>4. Fees(e, st)
  BY <1>1 DEF Sound, Fees, SameAccounts, VaultFeeNumerator
<1> QED
  BY <1>2, <1>3, <1>4 DEF Sound

\* Storage that is up to date is only rated anew.
LEMMA RateSound ==
    ASSUME World, NEW s, Sound(s, systemState), ClockOf(s), UpToDate(s), NEW e,
           e = updateRetentionRate(s)
    PROVE  Serviced(s, e) /\ e.collateral = s.collateral
<1>1. updateSettlementCollateral(s) = s
  BY DEF updateSettlementCollateral, UpToDate
<1>2. e = s \/ e = SetRetentionRate(s)
  BY <1>1 DEF updateRetentionRate
<1>3. Typed(s)
  BY DEF Sound
<1>4. CASE e = s
  BY <1>4 DEF Serviced, SameStakes
<1>5. CASE e = SetRetentionRate(s)
  <2>1. Rated(s, e)
    BY <1>3, <1>5, SetRateFacts
  <2>2. Sound(e, systemState)
    BY <1>3, <2>1, AccountsSound DEF Rated
  <2> QED
    BY <2>1, <2>2 DEF Serviced, SameStakes, Rated, SameAccounts, ClockOf, UpToDate
<1> QED
  BY <1>2, <1>4, <1>5

-----------------------------------------------------------------------------
(* The edits of the handlers.                                              *)

\* e holds the ETH and the shares of s and is as old.
SameMoney(s, e) ==
    /\ e.collateral = s.collateral /\ e.totalClaimable = s.totalClaimable
    /\ e.unallocated = s.unallocated /\ e.shareSupply = s.shareSupply
    /\ e.lastUpdated = s.lastUpdated

\* Vault v holds so many units of so many.
Restaked(s, v, units, total) == [s EXCEPT !.vaults[v].units = units, !.totalUnits = total]

\* A vault with other backing units, and the total moved with it.
LEMMA RestakedSound ==
    ASSUME NEW st, st = "Operational", NEW s, Sound(s, st), NEW v \in Vault, NEW units \in Nat,
           NEW total, total = s.totalUnits + (units - s.vaults[v].units),
           NEW e, e = Restaked(s, v, units, total)
    PROVE  /\ Sound(e, st) /\ SameMoney(s, e) /\ e.totalUnits = total
           /\ e.vaults[v].units = units
           /\ e.vaults[v].capacity = s.vaults[v].capacity
           /\ \A u \in Vault \ {v} : e.vaults[u].units = s.vaults[u].units
           /\ \A u \in Vault : Fresh(s, u) => Fresh(e, u)
<1>1. Typed(s) /\ Totals(s, st) /\ DOMAIN s = PoolFields /\ DOMAIN s.vaults = Vault
      /\ VaultTyped(s.vaults[v], s.feeIndex)
  BY DEF Sound, Typed
<1>2. /\ DOMAIN e = PoolFields /\ DOMAIN e.vaults = Vault
      /\ \A u \in Vault \ {v} : e.vaults[u] = s.vaults[u]
      /\ e.totalUnits = total /\ e.totalCapacity = s.totalCapacity
      /\ e.feeEligible = s.feeEligible /\ e.totalBadDebt = s.totalBadDebt
      /\ e.uncheckpointed = s.uncheckpointed /\ e.feeIndex = s.feeIndex
      /\ e.indexRemainder = s.indexRemainder /\ e.owedRemainder = s.owedRemainder
      /\ e.retentionRate = s.retentionRate /\ SameMoney(s, e)
  BY <1>1 DEF Restaked, PoolFields, SameMoney
<1>3. /\ DOMAIN e.vaults[v] = VaultFields /\ e.vaults[v].units = units
      /\ e.vaults[v].capacity = s.vaults[v].capacity
      /\ e.vaults[v].claimable = s.vaults[v].claimable
      /\ e.vaults[v].feeIndex = s.vaults[v].feeIndex
      /\ e.vaults[v].remainder = s.vaults[v].remainder
      /\ e.vaults[v].badDebt = s.vaults[v].badDebt
  BY <1>1 DEF Restaked, PoolFields, VaultFields, VaultTyped
<1>4. VaultTyped(e.vaults[v], e.feeIndex)
  BY <1>1, <1>2, <1>3 DEF VaultTyped
<1>5. /\ e.totalUnits = s.totalUnits + (e.vaults[v].units - s.vaults[v].units)
      /\ e.totalClaimable = s.totalClaimable + (e.vaults[v].claimable - s.vaults[v].claimable)
      /\ e.totalCapacity = s.totalCapacity + (e.vaults[v].capacity - s.vaults[v].capacity)
      /\ e.totalBadDebt = s.totalBadDebt + (e.vaults[v].badDebt - s.vaults[v].badDebt)
  <2>1. /\ s.totalClaimable \in Nat /\ s.totalCapacity \in Nat /\ s.totalBadDebt \in Nat
        /\ s.vaults[v].claimable \in Nat /\ s.vaults[v].capacity \in Nat
        /\ s.vaults[v].badDebt \in Nat
    BY <1>1 DEF Typed, VaultTyped
  <2>2. /\ e.vaults[v].claimable - s.vaults[v].claimable = 0
        /\ e.vaults[v].capacity - s.vaults[v].capacity = 0
        /\ e.vaults[v].badDebt - s.vaults[v].badDebt = 0
    BY <1>3, <2>1
  <2>3. e.totalClaimable = s.totalClaimable
    BY <1>2 DEF SameMoney
  <2>4. e.totalUnits = s.totalUnits + (e.vaults[v].units - s.vaults[v].units)
    BY <1>2, <1>3
  <2>5. e.totalClaimable = s.totalClaimable + (e.vaults[v].claimable - s.vaults[v].claimable)
    BY <2>1, <2>2, <2>3
  <2>6. e.totalCapacity = s.totalCapacity + (e.vaults[v].capacity - s.vaults[v].capacity)
    BY <1>2, <2>1, <2>2
  <2>7. e.totalBadDebt = s.totalBadDebt + (e.vaults[v].badDebt - s.vaults[v].badDebt)
    BY <1>2, <2>1, <2>2
  <2> QED
    BY <2>4, <2>5, <2>6, <2>7
<1>6. Edited(s, v, e, st)
  BY <1>1, <1>2, <1>3, <1>4, <1>5 DEF Edited, Typed, Totals, SameMoney
<1>7. Sound(e, st)
  BY <1>6, EditSound
<1>8. \A u \in Vault : e.vaults[u].feeIndex = s.vaults[u].feeIndex
  BY <1>2, <1>3
<1>9. \A u \in Vault : Fresh(s, u) => Fresh(e, u)
  BY <1>2, <1>8 DEF Fresh
<1> QED
  BY <1>2, <1>3, <1>7, <1>9

\* _setVaultCapacity: the totals move by the change, and the lost index remainder is nobody's claim.
LEMMA CapacitySound ==
    ASSUME NEW st, st = "Operational", NEW s, Sound(s, st), NEW v \in Vault, Fresh(s, v),
           NEW capacity \in Nat, NEW e, e = setVaultCapacity(s, v, capacity)
    PROVE  /\ Sound(e, st) /\ SameMoney(s, e) /\ e.totalUnits = s.totalUnits
           /\ \A u \in Vault : e.vaults[u].units = s.vaults[u].units
<1> DEFINE change == capacity - s.vaults[v].capacity
<1>1. Typed(s) /\ Totals(s, st) /\ DOMAIN s = PoolFields /\ DOMAIN s.vaults = Vault
      /\ VaultTyped(s.vaults[v], s.feeIndex)
  BY DEF Sound, Typed
<1>2. e = [s EXCEPT !.indexRemainder = 0, !.totalCapacity = @ + change,
                    !.feeEligible = @ + change, !.vaults[v].capacity = capacity]
  BY DEF setVaultCapacity
<1>3. /\ DOMAIN e = PoolFields /\ DOMAIN e.vaults = Vault
      /\ \A u \in Vault \ {v} : e.vaults[u] = s.vaults[u]
      /\ e.totalUnits = s.totalUnits /\ e.totalCapacity = s.totalCapacity + change
      /\ e.feeEligible = s.feeEligible + change /\ e.totalBadDebt = s.totalBadDebt
      /\ e.uncheckpointed = s.uncheckpointed /\ e.feeIndex = s.feeIndex
      /\ e.indexRemainder = 0 /\ e.owedRemainder = s.owedRemainder
      /\ e.retentionRate = s.retentionRate /\ SameMoney(s, e)
  BY <1>1, <1>2 DEF PoolFields, SameMoney
<1>4. /\ DOMAIN e.vaults[v] = VaultFields /\ e.vaults[v].units = s.vaults[v].units
      /\ e.vaults[v].capacity = capacity
      /\ e.vaults[v].claimable = s.vaults[v].claimable
      /\ e.vaults[v].feeIndex = s.vaults[v].feeIndex
      /\ e.vaults[v].remainder = s.vaults[v].remainder
      /\ e.vaults[v].badDebt = s.vaults[v].badDebt
  BY <1>1, <1>2 DEF PoolFields, VaultFields, VaultTyped
<1>5. VaultTyped(e.vaults[v], e.feeIndex)
  BY <1>1, <1>3, <1>4 DEF VaultTyped
<1>6. Edited(s, v, e, st)
  BY <1>1, <1>3, <1>4, <1>5 DEF Edited, Typed, Totals, VaultTyped, SameMoney
<1>7. Sound(e, st)
  BY <1>6, EditSound
<1> QED
  BY <1>3, <1>4, <1>7

PaidOut(s, v) ==
    [s EXCEPT !.vaults[v].claimable = 0, !.totalClaimable = @ - s.vaults[v].claimable]

\* redeemFees: the total of the claims falls by the claim.
LEMMA PaidOutSound ==
    ASSUME NEW st, NEW s, Sound(s, st), NEW v \in Vault, NEW e, e = PaidOut(s, v)
    PROVE  /\ Sound(e, st) /\ e.collateral = s.collateral /\ e.unallocated = s.unallocated
           /\ e.shareSupply = s.shareSupply /\ e.lastUpdated = s.lastUpdated
           /\ e.totalUnits = s.totalUnits
           /\ e.totalClaimable = s.totalClaimable - s.vaults[v].claimable
           /\ s.vaults[v].claimable \in Nat
           /\ \A u \in Vault : e.vaults[u].units = s.vaults[u].units
<1>1. Typed(s) /\ Totals(s, st) /\ DOMAIN s = PoolFields /\ DOMAIN s.vaults = Vault
      /\ VaultTyped(s.vaults[v], s.feeIndex)
  BY DEF Sound, Typed
<1>2. /\ DOMAIN e = PoolFields /\ DOMAIN e.vaults = Vault
      /\ \A u \in Vault \ {v} : e.vaults[u] = s.vaults[u]
      /\ e.totalUnits = s.totalUnits /\ e.totalCapacity = s.totalCapacity
      /\ e.feeEligible = s.feeEligible /\ e.totalBadDebt = s.totalBadDebt
      /\ e.uncheckpointed = s.uncheckpointed /\ e.feeIndex = s.feeIndex
      /\ e.indexRemainder = s.indexRemainder /\ e.owedRemainder = s.owedRemainder
      /\ e.retentionRate = s.retentionRate /\ e.collateral = s.collateral
      /\ e.unallocated = s.unallocated /\ e.shareSupply = s.shareSupply
      /\ e.lastUpdated = s.lastUpdated
      /\ e.totalClaimable = s.totalClaimable - s.vaults[v].claimable
  BY <1>1 DEF PaidOut, PoolFields
<1>3. /\ DOMAIN e.vaults[v] = VaultFields /\ e.vaults[v].units = s.vaults[v].units
      /\ e.vaults[v].capacity = s.vaults[v].capacity
      /\ e.vaults[v].claimable = 0
      /\ e.vaults[v].feeIndex = s.vaults[v].feeIndex
      /\ e.vaults[v].remainder = s.vaults[v].remainder
      /\ e.vaults[v].badDebt = s.vaults[v].badDebt
  BY <1>1 DEF PaidOut, PoolFields, VaultFields, VaultTyped
<1>4. VaultTyped(e.vaults[v], e.feeIndex)
  BY <1>1, <1>2, <1>3 DEF VaultTyped
<1>5. Edited(s, v, e, st)
  BY <1>1, <1>2, <1>3, <1>4 DEF Edited, Typed, Totals, VaultTyped
<1>6. Sound(e, st)
  BY <1>5, EditSound
<1> QED
  BY <1>1, <1>2, <1>3, <1>6 DEF VaultTyped

\* What is left of a vault and of the collateral when v takes eth to a child.
Left(s, v, eth, remainder) ==
    [s EXCEPT !.collateral = @ - eth, !.indexRemainder = remainder,
              !.totalBadDebt = @ - s.vaults[v].badDebt, !.vaults[v].units = 0,
              !.vaults[v].capacity = 0, !.vaults[v].badDebt = 0]

\* A vault that migrates takes its units and its capacity; the parent's total of units stays.
LEMMA LeftSound ==
    ASSUME systemState = "PoolForked", NEW s, Sound(s, systemState), NEW v \in Vault,
           Fresh(s, v), NEW eth \in Nat, eth <= s.collateral, NEW remainder \in Nat,
           NEW e, e = Left(s, v, eth, remainder)
    PROVE  /\ Sound(e, systemState) /\ e.collateral = s.collateral - eth
           /\ e.unallocated = s.unallocated /\ e.totalClaimable = s.totalClaimable
           /\ e.shareSupply = s.shareSupply /\ e.lastUpdated = s.lastUpdated
           /\ e.totalUnits = s.totalUnits /\ e.vaults[v].units = 0
           /\ \A u \in Vault \ {v} : e.vaults[u].units = s.vaults[u].units
           /\ SumOf(UnitsOf(e)) = SumOf(UnitsOf(s)) - s.vaults[v].units
<1>1. Typed(s) /\ Totals(s, systemState) /\ DOMAIN s = PoolFields /\ DOMAIN s.vaults = Vault
      /\ VaultTyped(s.vaults[v], s.feeIndex)
  BY DEF Sound, Typed
<1>2. /\ DOMAIN e = PoolFields /\ DOMAIN e.vaults = Vault
      /\ \A u \in Vault \ {v} : e.vaults[u] = s.vaults[u]
      /\ e.totalUnits = s.totalUnits /\ e.totalCapacity = s.totalCapacity
      /\ e.feeEligible = s.feeEligible /\ e.totalBadDebt = s.totalBadDebt - s.vaults[v].badDebt
      /\ e.uncheckpointed = s.uncheckpointed /\ e.feeIndex = s.feeIndex
      /\ e.indexRemainder = remainder /\ e.owedRemainder = s.owedRemainder
      /\ e.retentionRate = s.retentionRate /\ e.collateral = s.collateral - eth
      /\ e.unallocated = s.unallocated /\ e.shareSupply = s.shareSupply
      /\ e.lastUpdated = s.lastUpdated /\ e.totalClaimable = s.totalClaimable
  BY <1>1 DEF Left, PoolFields
<1>3. /\ DOMAIN e.vaults[v] = VaultFields /\ e.vaults[v].units = 0
      /\ e.vaults[v].capacity = 0
      /\ e.vaults[v].claimable = s.vaults[v].claimable
      /\ e.vaults[v].feeIndex = s.vaults[v].feeIndex
      /\ e.vaults[v].remainder = s.vaults[v].remainder
      /\ e.vaults[v].badDebt = 0
  BY <1>1 DEF Left, PoolFields, VaultFields, VaultTyped
<1>4. VaultTyped(e.vaults[v], e.feeIndex)
  BY <1>1, <1>2, <1>3 DEF VaultTyped
<1>5. Edited(s, v, e, systemState)
  BY <1>1, <1>2, <1>3, <1>4 DEF Edited, Typed, Totals, VaultTyped
<1>6. Sound(e, systemState)
  BY <1>5, EditSound
<1>7. /\ SumOf(UnitsOf(e)) = SumOf(UnitsOf(s)) + (e.vaults[v].units - s.vaults[v].units)
      /\ SumOf(UnitsOf(s)) \in Nat
  <2>1. SumOf(UnitsOf(e)) = SumOf(UnitsOf(s)) + (e.vaults[v].units - s.vaults[v].units)
    BY <1>5, EditSums
  <2> QED
    BY <1>1, <2>1, SumsTyped
<1>8. s.vaults[v].units \in Nat
  BY <1>1 DEF VaultTyped
<1>9. SumOf(UnitsOf(e)) = SumOf(UnitsOf(s)) - s.vaults[v].units
  BY <1>3, <1>7, <1>8
<1> QED
  BY <1>2, <1>3, <1>6, <1>9

-----------------------------------------------------------------------------
(* REP and the units that stand for it.                                    *)

\* What units of total stand for when rep stands for all.
Part(units, rep, total) == IF total = 0 THEN 0 ELSE (units * rep) \div total

\* units * rep / total, rounded down: the greatest n with n * total <= units * rep.
LEMMA PartFacts ==
    ASSUME NEW units \in Nat, NEW rep \in Nat, NEW total \in Nat
    PROVE  /\ Part(units, rep, total) \in Nat
           /\ total * Part(units, rep, total) <= units * rep
           /\ units <= total => Part(units, rep, total) <= rep
           /\ \A n \in Nat : total > 0 => (n * total <= units * rep <=> n <= Part(units, rep, total))
<1>1. units * rep \in Nat
  BY ProductNat
<1>2. CASE total = 0
  <2>1. Part(units, rep, total) = 0 /\ total * 0 = 0
    BY <1>2 DEF Part
  <2> QED
    BY <1>1, <1>2, <2>1
<1>3. CASE total > 0
  <2> DEFINE q == (units * rep) \div total
  <2>1. Part(units, rep, total) = q
    BY <1>3 DEF Part
  <2>2. q \in Nat /\ total * q <= units * rep
    BY <1>1, <1>3, Quotient
  <2>3. ASSUME units <= total PROVE q <= rep
    BY <1>3, <2>3, PartOf
  <2>4. \A n \in Nat : n * total <= units * rep <=> n <= q
    BY <1>1, <1>3, QuotientAtMost
  <2> HIDE DEF q
  <2> QED
    BY <2>1, <2>2, <2>3, <2>4
<1> QED
  BY <1>2, <1>3

\* A part grows when its units do and the REP falls no faster than the total.
LEMMA PartGrows ==
    ASSUME NEW u \in Nat, NEW p \in Nat, NEW t \in Nat, NEW u2 \in Nat, NEW p2 \in Nat, NEW t2 \in Nat,
           t = 0 \/ p * t2 <= p2 * t, u <= u2, u2 <= t2
    PROVE  Part(u, p, t) <= Part(u2, p2, t2)
<1> DEFINE q == Part(u, p, t)
<1>1. q \in Nat /\ t * q <= u * p /\ Part(u2, p2, t2) \in Nat
  BY PartFacts
<1>2. CASE t = 0
  <2>1. q = 0
    BY <1>2 DEF Part
  <2> QED
    BY <1>1, <2>1
<1>3. CASE t2 = 0
  <2>1. u = 0
    BY <1>3
  <2>2. u * p = 0
    BY <2>1
  <2>3. q = 0
    BY <2>2 DEF Part
  <2> QED
    BY <1>1, <2>3
<1>4. CASE t > 0 /\ t2 > 0
  <2> HIDE DEF q
  <2>1. p * t2 <= p2 * t
    BY <1>4
  <2>2. (t * q) * t2 <= (u * p) * t2
    BY <1>1, ProductMonotone, ProductNat
  <2>3. u * (p * t2) <= u * (p2 * t) /\ u * (p2 * t) <= u2 * (p2 * t)
    BY <2>1, ProductMonotone, ProductNat
  <2>4. (t * q) * t2 = t * (q * t2) /\ (u * p) * t2 = u * (p * t2) /\ u2 * (p2 * t) = t * (u2 * p2)
    BY <1>1
  <2>5. /\ q * t2 \in Nat /\ u2 * p2 \in Nat /\ t * (q * t2) \in Nat /\ u * (p * t2) \in Nat
        /\ u * (p2 * t) \in Nat /\ u2 * (p2 * t) \in Nat
    BY <1>1, ProductNat
  <2>6. t * (q * t2) <= t * (u2 * p2)
    BY <2>2, <2>3, <2>4, <2>5
  <2>7. q * t2 <= u2 * p2
    BY <1>4, <2>5, <2>6, FactorAtMost
  <2>8. q <= Part(u2, p2, t2)
    BY <1>1, <1>4, <2>7, PartFacts
  <2> QED
    BY <2>8 DEF q
<1> QED
  BY <1>2, <1>3, <1>4

LEMMA UnitsToRepIsPart ==
    ASSUME NEW s, NEW rep, NEW units
    PROVE  UnitsToRep(s, rep, units) = Part(units, rep, s.totalUnits)
<1> QED
  BY DEF UnitsToRep, Part

\* Units bought of s for rep, rounded down.
LEMMA UnitsDown ==
    ASSUME World, NEW s, Typed(s), NEW rep \in Nat
    PROVE  /\ attoRepToBackingUnits(s, rep) \in Nat
           /\ s.totalUnits = 0 \/ poolRep * attoRepToBackingUnits(s, rep) <= rep * s.totalUnits
              \/ poolRep = 0
<1>1. poolRep \in Nat /\ s.totalUnits \in Nat /\ rep * s.totalUnits \in Nat
      /\ rep * PRICE_PRECISION \in Nat
  BY ProductNat, PrecisionFacts DEF World, Typed
<1>2. CASE s.totalUnits = 0 \/ poolRep = 0
  BY <1>1, <1>2 DEF attoRepToBackingUnits
<1>3. CASE s.totalUnits > 0 /\ poolRep > 0
  <2>1. attoRepToBackingUnits(s, rep) = (rep * s.totalUnits) \div poolRep
    BY <1>3 DEF attoRepToBackingUnits
  <2> QED
    BY <1>1, <1>3, <2>1, Quotient
<1> QED
  BY <1>1, <1>2, <1>3

\* Units of s taken for rep, rounded up: no fewer would do.
LEMMA UnitsUp ==
    ASSUME World, NEW s, Typed(s), NEW rep \in Nat
    PROVE  /\ _attoRepToBackingUnitsRoundUp(s, rep) \in Nat
           /\ rep = 0 => _attoRepToBackingUnitsRoundUp(s, rep) = 0
           /\ s.totalUnits > 0 /\ poolRep > 0 =>
                /\ rep * s.totalUnits <= poolRep * _attoRepToBackingUnitsRoundUp(s, rep)
                /\ \A n \in Nat : rep * s.totalUnits <= n * poolRep
                                    => _attoRepToBackingUnitsRoundUp(s, rep) <= n
<1>1. poolRep \in Nat /\ s.totalUnits \in Nat /\ rep * s.totalUnits \in Nat
      /\ rep * PRICE_PRECISION \in Nat
  BY ProductNat, PrecisionFacts DEF World, Typed
<1>2. rep = 0 => rep * s.totalUnits = 0 /\ rep * PRICE_PRECISION = 0
  BY <1>1, PrecisionFacts
<1>3. CASE s.totalUnits = 0 \/ poolRep = 0
  BY <1>1, <1>2, <1>3 DEF _attoRepToBackingUnitsRoundUp
<1>4. CASE s.totalUnits > 0 /\ poolRep > 0
  <2> DEFINE a == rep * s.totalUnits
  <2>1. _attoRepToBackingUnitsRoundUp(s, rep) = CeilDiv(a, poolRep)
    BY <1>4 DEF _attoRepToBackingUnitsRoundUp
  <2>2. a \in Nat /\ (rep = 0 => a = 0)
    BY <1>1, <1>2
  <2> HIDE DEF a
  <2>3. /\ CeilDiv(a, poolRep) \in Nat /\ a <= poolRep * CeilDiv(a, poolRep)
        /\ a = 0 => CeilDiv(a, poolRep) = 0
    BY <1>1, <1>4, <2>2, CeilDivFacts
  <2>4. \A n \in Nat : a <= n * poolRep => CeilDiv(a, poolRep) <= n
    BY <1>1, <1>4, <2>2, CeilDivLeast
  <2> QED
    BY <2>1, <2>2, <2>3, <2>4 DEF a
<1> QED
  BY <1>1, <1>3, <1>4

\* The units awarded for a debt are a natural number, and none for no debt.
LEMMA AwardFacts ==
    ASSUME World, NEW s, Typed(s), NEW debt \in Nat
    PROVE  /\ LiquidationAward(s, debt) \in Nat
           /\ debt = 0 => LiquidationAward(s, debt) = 0
<1> DEFINE owed == debt * price * (BPS_DENOMINATOR + LIQUIDATION_REP_BONUS_BPS)
           scale == PRICE_PRECISION * BPS_DENOMINATOR
<1>1. price \in Nat /\ BPS_DENOMINATOR + LIQUIDATION_REP_BONUS_BPS \in Nat
  BY PrecisionFacts DEF World
<1>2. debt * price \in Nat /\ (debt = 0 => debt * price = 0)
  BY <1>1, ProductNat
<1>3. owed \in Nat /\ (debt = 0 => owed = 0)
  BY <1>1, <1>2, ProductNat
<1>4. scale \in Nat /\ scale > 0
  BY PrecisionFacts
<1>5. LiquidationAward(s, debt) = _attoRepToBackingUnitsRoundUp(s, CeilDiv(owed, scale))
  BY DEF LiquidationAward
<1> HIDE DEF owed, scale
<1>6. CeilDiv(owed, scale) \in Nat /\ (owed = 0 => CeilDiv(owed, scale) = 0)
  BY <1>3, <1>4, CeilDivFacts
<1> QED
  BY <1>3, <1>5, <1>6, UnitsUp

-----------------------------------------------------------------------------
(* Every step keeps the invariant, and takes from no vault and no set what *)
(* it does not pay for.                                                    *)

\* REP the units of the vaults and the children stand for.
ClaimBase == IF systemState = "PoolForked" THEN fork.rep ELSE poolRep

VaultsFair ==
    pool.totalUnits = 0 \/ ClaimBase * pool'.totalUnits <= ClaimBase' * pool.totalUnits
SetsFair ==
    shares' # shares =>
      LET accrued == updateSettlementCollateral(pool)
      IN  pool'.collateral * accrued.shareSupply >= accrued.collateral * pool'.shareSupply

Kept == IInv' /\ VaultsFair /\ SetsFair

LEMMA IInvFacts ==
    ASSUME IInv
    PROVE  /\ World /\ ClockOf(pool) /\ Sound(pool, systemState) /\ Typed(pool) /\ EthSolvent
           /\ SharesCounted /\ Forked /\ ClaimBase \in Nat
<1> QED
  BY DEF IInv, World, Forked, Sound, ClaimBase

\* No vault has more than the total of the units, before or after the fork.
LEMMA UnitsWithin ==
    ASSUME IInv, NEW v \in Vault
    PROVE  /\ pool.vaults[v].units \in Nat /\ pool.totalUnits \in Nat
           /\ pool.vaults[v].units <= pool.totalUnits
<1>1. /\ Typed(pool) /\ Totals(pool, systemState) /\ Forked /\ World
      /\ IsFiniteSet(Vault) /\ IsFiniteSet(Child)
  BY PrecisionFacts DEF IInv, Sound
<1>2. /\ UnitsOf(pool)[v] <= SumOf(UnitsOf(pool)) /\ SumOf(UnitsOf(pool)) \in Nat
      /\ pool.vaults[v].units \in Nat /\ pool.totalUnits \in Nat
  BY <1>1, SumsTyped, SumTerm DEF SumOf, Typed, VaultTyped
<1>3. UnitsOf(pool)[v] = pool.vaults[v].units
  BY DEF UnitsOf
<1>4. CASE systemState = "Operational"
  BY <1>1, <1>2, <1>3, <1>4 DEF Totals
<1>5. CASE systemState = "PoolForked"
  <2>1. SumFunctionOnSet(fork.units, Child) \in Nat
    BY <1>1, SumNat DEF Forked
  <2>2. pool.totalUnits = SumOf(UnitsOf(pool)) + SumFunctionOnSet(fork.units, Child)
    BY <1>1, <1>5 DEF Forked
  <2> QED
    BY <1>2, <1>3, <2>1, <2>2
<1> QED
  BY <1>1, <1>4, <1>5 DEF World

\* A step of an operating pool leaves the record of the fork alone.
LEMMA OperatingStep ==
    ASSUME IInv, systemState = "Operational", UNCHANGED <<now, forkTime, systemState, fork>>,
           World', Sound(pool', systemState), ClockOf(pool'),
           ethBalance' = pool'.collateral + pool'.totalClaimable + pool'.unallocated,
           SharesCounted'
    PROVE  IInv'
<1>1. Sound(pool, systemState)' /\ ClockOf(pool)' /\ EthSolvent'
  BY DEF ClockOf, EthSolvent
<1>2. Forked'
  <2>1. /\ Forked /\ systemState' = "Operational" /\ fork' = fork
        /\ pool'.totalUnits \in Nat
    BY DEF IInv, Sound, Typed
  <2>2. \A c \in Child : fork.migrated[c] = 0 /\ fork.units[c] = 0 /\ fork.rep \in Nat
    BY <2>1 DEF Forked
  <2>3. \A c \in Child : fork.migrated[c] * pool'.totalUnits <= fork.units[c] * fork.rep
    BY <2>1, <2>2
  <2> QED
    BY <2>1, <2>3 DEF Forked
<1> QED
  BY <1>1, <1>2 DEF IInv

\* Time, the oracle, the game and the universe's fork leave storage alone.
LEMMA WorldKeeps ==
    ASSUME IInv,
           Tick \/ PriceGoesStale \/ QuestionResolves \/ UniverseForks
             \/ \E p \in Prices : OracleReports(p)
    PROVE  Kept
<1>0. /\ World /\ ClockOf(pool) /\ Sound(pool, systemState) /\ Typed(pool) /\ EthSolvent
      /\ SharesCounted /\ Forked /\ ClaimBase \in Nat
  BY IInvFacts
<1> USE <1>0
<1>1. UNCHANGED <<assets, systemState>>
  BY DEF Tick, PriceGoesStale, QuestionResolves, UniverseForks, OracleReports
<1>2. /\ now \in Nat /\ forkTime \in Nat /\ pool.lastUpdated \in Nat /\ MaxTime \in Nat
      /\ pool.totalUnits \in Nat /\ Prices \subseteq Nat \ {0}
  BY PrecisionFacts, PoolAssumption DEF World, Typed
<1>3. World' /\ ClockOf(pool)'
  <2>1. CASE Tick
    BY <1>1, <1>2, <2>1 DEF Tick, World, ClockOf, assets
  <2>2. CASE PriceGoesStale \/ QuestionResolves
    <3>1. UNCHANGED <<now, forkTime, price>> /\ priceValid' \in BOOLEAN
          /\ game' \in {"none", "open", "resolved"}
      BY <2>2 DEF PriceGoesStale, QuestionResolves, World
    <3>2. priceValid' => price' > 0
      BY <2>2 DEF PriceGoesStale, QuestionResolves, World
    <3> QED
      BY <1>1, <3>1, <3>2 DEF World, ClockOf, assets
  <2>3. CASE UniverseForks
    BY <1>1, <1>2, <2>3 DEF UniverseForks, World, ClockOf, assets
  <2>4. CASE \E p \in Prices : OracleReports(p)
    BY <1>1, <1>2, <2>4 DEF OracleReports, World, ClockOf, assets
  <2> QED
    BY <2>1, <2>2, <2>3, <2>4
<1>4. Sound(pool, systemState)' /\ EthSolvent' /\ SharesCounted' /\ Forked'
  <2>1. pool' = pool /\ systemState' = systemState
    BY <1>1 DEF assets
  <2> QED
    BY <1>1, <2>1 DEF assets, EthSolvent, SharesCounted, Forked
<1>5. VaultsFair /\ SetsFair
  BY <1>1, <1>2 DEF assets, VaultsFair, SetsFair, ClaimBase
<1> QED
  BY <1>3, <1>4, <1>5 DEF Kept, IInv

LEMMA AmountFacts ==
    /\ \A n \in RepAmount \cup EthAmount \cup ShareAmount : n \in Nat /\ n > 0
    /\ HealthFactor \subseteq Nat
<1> QED
  BY PoolAssumption

\* REP that backs no vault raises every vault's claim.
LEMMA TransferKeeps ==
    ASSUME IInv, NEW v \in Vault, NEW rep \in RepAmount, transferRepToPool(v, rep)
    PROVE  Kept
<1>0. /\ World /\ ClockOf(pool) /\ Sound(pool, systemState) /\ Typed(pool) /\ EthSolvent
      /\ SharesCounted /\ Forked /\ ClaimBase \in Nat
  BY IInvFacts
<1> USE <1>0
<1>1. /\ rep \in Nat /\ rep <= wallet[v] /\ wallet' = [wallet EXCEPT ![v] = @ - rep]
      /\ poolRep' = poolRep + rep
      /\ UNCHANGED <<world, pool, staked, shares, ethBalance, fork>>
  BY AmountFacts DEF transferRepToPool
<1>2. World'
  BY <1>1 DEF World, world
<1>3. ClockOf(pool)' /\ Sound(pool, systemState)' /\ EthSolvent' /\ SharesCounted' /\ Forked'
  <2>1. systemState' = systemState
    BY <1>1 DEF world
  <2> QED
    BY <1>1, <2>1 DEF world, ClockOf, EthSolvent, SharesCounted, Forked
<1>4. VaultsFair
  <2>1. ClaimBase' \in Nat /\ ClaimBase <= ClaimBase'
    BY <1>1 DEF ClaimBase, world, World
  <2>2. pool.totalUnits \in Nat
    BY DEF Typed
  <2> QED
    BY <1>1, <2>1, <2>2, ProductMonotone DEF VaultsFair
<1>5. SetsFair
  BY <1>1 DEF SetsFair
<1> QED
  BY <1>2, <1>3, <1>4, <1>5 DEF Kept, IInv

LEMMA PoolSettled ==
    ASSUME IInv, AccrualIsPaid, NEW s, s = updateSettlementCollateral(pool)
    PROVE  Serviced(pool, s) /\ Typed(s)
<1> QED
  BY IInvFacts, SettleSound DEF AccrualIsPaid, Serviced, Sound

LEMMA PoolRefreshed ==
    ASSUME IInv, AccrualIsPaid, NEW v \in Vault, NEW s, s = updateVaultFees(pool, v)
    PROVE  Serviced(pool, s) /\ Fresh(s, v) /\ Typed(s)
<1> QED
  BY IInvFacts, RefreshSound DEF AccrualIsPaid, Serviced, Sound

LEMMA DepositKeeps ==
    ASSUME IInv, NEW v \in Vault, NEW rep \in RepAmount, NEW h \in HealthFactor,
           depositRepToVault(v, rep, h)
    PROVE  Kept
<1>0. /\ World /\ ClockOf(pool) /\ Sound(pool, systemState) /\ Typed(pool) /\ EthSolvent
      /\ SharesCounted /\ Forked /\ ClaimBase \in Nat
  BY IInvFacts
<1> USE <1>0
<1> DEFINE s == updateVaultFees(pool, v)
           units == attoRepToBackingUnits(s, rep)
           held == s.vaults[v].units + units
           total == s.totalUnits + units
           d == Restaked(s, v, held, total)
           capacity == d.vaults[v].capacity + (rep * BPS_DENOMINATOR) \div h
           e == setVaultCapacity(d, v, capacity)
<1>1. /\ isOperational /\ AccrualIsPaid /\ h >= BPS_DENOMINATOR /\ rep <= wallet[v]
      /\ pool' = updateRetentionRate(e)
      /\ poolRep' = poolRep + rep
      /\ wallet' = [wallet EXCEPT ![v] = @ - rep]
      /\ UNCHANGED <<world, staked, shares, ethBalance, fork>>
  BY DEF depositRepToVault, Restaked
<1>2. rep \in Nat /\ h \in Nat /\ h > 0 /\ systemState = "Operational"
  BY <1>1, AmountFacts, PrecisionFacts DEF isOperational
<1>3. Serviced(pool, s) /\ Fresh(s, v) /\ Typed(s)
  BY <1>1, PoolRefreshed
<1> HIDE DEF s
<1>4. units \in Nat /\ (s.totalUnits = 0 \/ poolRep * units <= rep * s.totalUnits \/ poolRep = 0)
  BY <1>2, <1>3, UnitsDown
<1>5. s.vaults[v].units \in Nat /\ s.totalUnits \in Nat /\ s.vaults[v].capacity \in Nat
  BY <1>3 DEF Typed, VaultTyped
<1> HIDE DEF units
<1>6. /\ Sound(d, systemState) /\ SameMoney(s, d) /\ d.totalUnits = s.totalUnits + units
      /\ d.vaults[v].capacity = s.vaults[v].capacity /\ Fresh(d, v)
  <2>1. systemState = "Operational" /\ Sound(s, systemState) /\ held \in Nat
        /\ total = s.totalUnits + (held - s.vaults[v].units)
    BY <1>2, <1>3, <1>4, <1>5 DEF Serviced
  <2> HIDE DEF held, total
  <2>2. /\ Sound(d, systemState) /\ SameMoney(s, d) /\ d.totalUnits = total
        /\ d.vaults[v].capacity = s.vaults[v].capacity /\ Fresh(d, v)
    BY <1>3, <2>1, RestakedSound
  <2> QED
    BY <2>2 DEF total
<1> HIDE DEF d
<1>7. capacity \in Nat
  BY <1>2, <1>5, <1>6, PrecisionFacts, ProductNat, Quotient
<1> HIDE DEF capacity
<1>8. Sound(e, systemState) /\ SameMoney(d, e) /\ e.totalUnits = d.totalUnits
  <2>1. systemState = "Operational" /\ Sound(d, systemState) /\ Fresh(d, v) /\ capacity \in Nat
    BY <1>2, <1>6, <1>7
  <2> QED
    BY <2>1, CapacitySound
<1> HIDE DEF e
<1>9. ClockOf(e) /\ UpToDate(e)
  BY <1>3, <1>6, <1>8 DEF SameMoney, Serviced, ClockOf, UpToDate
<1>10. Serviced(e, pool') /\ pool'.collateral = e.collateral
  BY <1>1, <1>2, <1>8, <1>9, RateSound
<1>11. World'
  BY <1>1, <1>2 DEF World, world
<1>12. ethBalance' = pool'.collateral + pool'.totalClaimable + pool'.unallocated
  BY <1>1, <1>3, <1>6, <1>8, <1>10 DEF SameMoney, Serviced, SameStakes, EthSolvent
<1>13. SharesCounted'
  BY <1>1, <1>3, <1>6, <1>8, <1>10 DEF SameMoney, Serviced, SameStakes, SharesCounted
<1>14. IInv'
  <2>1. Sound(pool', systemState) /\ ClockOf(pool') /\ UNCHANGED <<now, forkTime, systemState, fork>>
    BY <1>1, <1>2, <1>10 DEF Serviced, world
  <2> QED
    BY <1>2, <1>11, <1>12, <1>13, <2>1, OperatingStep
<1>15. VaultsFair
  <2>1. pool.totalUnits = s.totalUnits /\ pool'.totalUnits = s.totalUnits + units
    BY <1>3, <1>6, <1>8, <1>10 DEF Serviced, SameStakes
  <2>2. ClaimBase = poolRep /\ ClaimBase' = poolRep + rep /\ poolRep \in Nat
    BY <1>1, <1>2 DEF ClaimBase, world, World
  <2>3. ASSUME poolRep = 0 \/ poolRep * units <= rep * s.totalUnits
        PROVE  poolRep * (s.totalUnits + units) <= (poolRep + rep) * s.totalUnits
    <3>1. poolRep * (s.totalUnits + units) = poolRep * s.totalUnits + poolRep * units
      BY <1>4, <1>5, <2>2
    <3>2. (poolRep + rep) * s.totalUnits = poolRep * s.totalUnits + rep * s.totalUnits
      BY <1>2, <1>5, <2>2
    <3>3. poolRep * units <= rep * s.totalUnits
      BY <1>2, <1>4, <1>5, <2>3, ProductNat
    <3>4. poolRep * s.totalUnits \in Nat /\ poolRep * units \in Nat /\ rep * s.totalUnits \in Nat
      BY <1>2, <1>4, <1>5, <2>2, ProductNat
    <3> QED
      BY <3>1, <3>2, <3>3, <3>4
  <2> QED
    BY <1>4, <2>1, <2>2, <2>3 DEF VaultsFair
<1>16. SetsFair
  BY <1>1 DEF SetsFair
<1> QED
  BY <1>14, <1>15, <1>16 DEF Kept

\* Units that go with no more REP than they stand for.
LEMMA TakeFair ==
    ASSUME NEW p \in Nat, NEW t \in Nat, NEW units \in Nat, NEW out \in Nat, t * out <= units * p
    PROVE  p * (t - units) <= (p - out) * t
<1>1. p * (t - units) = p * t - units * p /\ (p - out) * t = p * t - t * out
  OBVIOUS
<1>2. p * t \in Nat /\ units * p \in Nat /\ t * out \in Nat
  BY ProductNat
<1> QED
  BY <1>1, <1>2

\* The part n of u units stand for is within the part of all u.
LEMMA PartWithin ==
    ASSUME NEW u \in Nat, NEW p \in Nat, NEW t \in Nat, u <= t, NEW n \in Nat, n <= u,
           NEW part, part = Part(n, p, t), NEW whole, whole = Part(u, p, t)
    PROVE  /\ part \in Nat /\ t * part <= n * p /\ part <= p
           /\ whole \in Nat /\ part <= whole
           /\ \A k \in Nat : k <= whole /\ k > 0 => t > 0 /\ k * t <= u * p /\ k <= p
<1>1. part \in Nat /\ t * part <= n * p /\ part <= p
  BY PartFacts
<1>2. whole \in Nat /\ whole <= p
  BY PartFacts
<1>3. part <= whole
  <2>1. p * t <= p * t
    BY ProductNat
  <2> QED
    BY <2>1, PartGrows
<1>4. ASSUME NEW k \in Nat, k <= whole, k > 0
      PROVE  t > 0 /\ k * t <= u * p /\ k <= p
  <2>1. t > 0
    BY <1>2, <1>4 DEF Part
  <2> QED
    BY <1>2, <1>4, <2>1, PartFacts
<1> QED
  BY <1>1, <1>2, <1>3, <1>4

\* A vault's units are part of the total of storage that only moved the fees.
LEMMA ServicedUnits ==
    ASSUME IInv, NEW s, SameStakes(pool, s), NEW v \in Vault
    PROVE  /\ s.vaults[v].units \in Nat /\ s.totalUnits \in Nat /\ s.vaults[v].units <= s.totalUnits
           /\ s.totalUnits = pool.totalUnits
<1> QED
  BY UnitsWithin DEF SameStakes

\* A withdrawal that would leave dust takes the whole vault.
LEMMA WithdrawnUnitsFacts ==
    ASSUME World, NEW s, Typed(s), NEW v \in Vault, NEW rep \in Nat
    PROVE  WithdrawnUnits(s, v, rep) \in Nat /\ WithdrawnUnits(s, v, rep) <= s.vaults[v].units
<1> DEFINE asked == attoRepToBackingUnits(s, rep)
           kept == attoRepToBackingUnits(s, minimumVaultRepDeposit)
<1>1. asked \in Nat /\ kept \in Nat
  BY PrecisionFacts, UnitsDown
<1>2. s.vaults[v].units \in Nat
  BY DEF Typed, VaultTyped
<1>3. WithdrawnUnits(s, v, rep) = IF asked + kept > s.vaults[v].units THEN s.vaults[v].units ELSE asked
  BY DEF WithdrawnUnits
<1> HIDE DEF asked, kept
<1> QED
  BY <1>1, <1>2, <1>3

LEMMA WithdrawKeeps ==
    ASSUME IInv, NEW v \in Vault, NEW rep \in RepAmount, withdrawRepFromVault(v, rep)
    PROVE  Kept
<1>0. /\ World /\ ClockOf(pool) /\ Sound(pool, systemState) /\ Typed(pool) /\ EthSolvent
      /\ SharesCounted /\ Forked /\ ClaimBase \in Nat
  BY IInvFacts
<1> USE <1>0
<1> DEFINE s == updateVaultFees(pool, v)
           units == WithdrawnUnits(s, v, rep)
           out == UnitsToRep(s, poolRep, units)
           backing == UnitsToRep(s, poolRep, s.vaults[v].units)
           held == s.vaults[v].units - units
           total == s.totalUnits - units
           d == Restaked(s, v, held, total)
           capacity == (s.vaults[v].capacity * (backing - out)) \div backing
           e == setVaultCapacity(d, v, capacity)
<1>1. /\ isOperational /\ AccrualIsPaid /\ backing > 0
      /\ pool' = updateRetentionRate(e)
      /\ poolRep' = poolRep - out
      /\ wallet' = [wallet EXCEPT ![v] = @ + out]
      /\ UNCHANGED <<world, staked, shares, ethBalance, fork>>
  BY DEF withdrawRepFromVault, Restaked
<1>2. rep \in Nat /\ systemState = "Operational" /\ poolRep \in Nat
  BY <1>1, AmountFacts DEF isOperational, World
<1>3. Serviced(pool, s) /\ Fresh(s, v) /\ Typed(s)
  BY <1>1, PoolRefreshed
<1> HIDE DEF s
<1>4. units \in Nat /\ units <= s.vaults[v].units
  BY <1>2, <1>3, WithdrawnUnitsFacts
<1>5. /\ s.vaults[v].units \in Nat /\ s.totalUnits \in Nat /\ s.vaults[v].units <= s.totalUnits
      /\ s.totalUnits = pool.totalUnits /\ s.vaults[v].capacity \in Nat
  BY <1>3, ServicedUnits DEF Serviced, Typed, VaultTyped
<1>6. out = Part(units, poolRep, s.totalUnits) /\ backing = Part(s.vaults[v].units, poolRep, s.totalUnits)
  BY UnitsToRepIsPart
<1> HIDE DEF units, out, backing
<1>7. /\ out \in Nat /\ backing \in Nat /\ s.totalUnits * out <= units * poolRep
      /\ out <= poolRep /\ out <= backing
  <2> DEFINE mine == s.vaults[v].units
             all == s.totalUnits
  <2>1. /\ mine \in Nat /\ all \in Nat /\ mine <= all /\ units <= mine
        /\ out = Part(units, poolRep, all) /\ backing = Part(mine, poolRep, all)
    BY <1>4, <1>5, <1>6
  <2> HIDE DEF mine, all
  <2>2. /\ out \in Nat /\ backing \in Nat /\ all * out <= units * poolRep
        /\ out <= poolRep /\ out <= backing
    BY <1>2, <1>4, <2>1, PartWithin
  <2> QED
    BY <2>2 DEF all
<1>8. out <= backing
  BY <1>7
<1>9. held \in Nat /\ total = s.totalUnits + (held - s.vaults[v].units)
  BY <1>4, <1>5
<1>10. total = s.totalUnits - units
  OBVIOUS
<1> HIDE DEF held, total
<1>11. /\ Sound(d, systemState) /\ SameMoney(s, d) /\ d.totalUnits = total /\ Fresh(d, v)
  <2>1. Sound(s, systemState)
    BY <1>3 DEF Serviced
  <2> QED
    BY <1>2, <1>3, <1>9, <2>1, RestakedSound
<1> HIDE DEF d
<1>12. capacity \in Nat
  <2>1. backing - out \in Nat
    BY <1>7, <1>8
  <2> QED
    BY <1>1, <1>5, <1>7, <2>1, ProductNat, Quotient
<1> HIDE DEF capacity
<1>13. Sound(e, systemState) /\ SameMoney(d, e) /\ e.totalUnits = d.totalUnits
  BY <1>2, <1>11, <1>12, CapacitySound
<1> HIDE DEF e
<1>14. ClockOf(e) /\ UpToDate(e)
  BY <1>3, <1>11, <1>13 DEF SameMoney, Serviced, ClockOf, UpToDate
<1>15. Serviced(e, pool')
  BY <1>1, <1>2, <1>13, <1>14, RateSound
<1>16. World'
  BY <1>1, <1>7 DEF World, world
<1>17. ethBalance' = pool'.collateral + pool'.totalClaimable + pool'.unallocated
  BY <1>1, <1>3, <1>11, <1>13, <1>15 DEF SameMoney, Serviced, SameStakes, EthSolvent
<1>18. SharesCounted'
  BY <1>1, <1>3, <1>11, <1>13, <1>15 DEF SameMoney, Serviced, SameStakes, SharesCounted
<1>19. IInv'
  <2>1. Sound(pool', systemState) /\ ClockOf(pool') /\ UNCHANGED <<now, forkTime, systemState, fork>>
    BY <1>1, <1>15 DEF Serviced, world
  <2> QED
    BY <1>2, <1>16, <1>17, <1>18, <2>1, OperatingStep
<1>20. VaultsFair
  <2>1. pool'.totalUnits = s.totalUnits - units
    BY <1>10, <1>11, <1>13, <1>15 DEF Serviced, SameStakes
  <2>2. ClaimBase = poolRep /\ ClaimBase' = poolRep - out
    BY <1>1, <1>2 DEF ClaimBase, world
  <2>3. poolRep * (s.totalUnits - units) <= (poolRep - out) * s.totalUnits
    BY <1>2, <1>4, <1>5, <1>7, TakeFair
  <2> QED
    BY <1>5, <2>1, <2>2, <2>3 DEF VaultsFair
<1>21. SetsFair
  BY <1>1 DEF SetsFair
<1> QED
  BY <1>19, <1>20, <1>21 DEF Kept

LEMMA StakeKeeps ==
    ASSUME IInv, NEW v \in Vault, NEW rep \in RepAmount, depositToEscalationGame(v, rep)
    PROVE  Kept
<1>0. /\ World /\ ClockOf(pool) /\ Sound(pool, systemState) /\ Typed(pool) /\ EthSolvent
      /\ SharesCounted /\ Forked /\ ClaimBase \in Nat
  BY IInvFacts
<1> USE <1>0
<1> DEFINE units == _attoRepToBackingUnitsRoundUp(pool, rep)
           held == pool.vaults[v].units - units
           total == pool.totalUnits - units
           e == Restaked(pool, v, held, total)
<1>1. /\ isOperational /\ UnitsToRep(pool, poolRep, pool.vaults[v].units) >= rep
      /\ game' = "open" /\ pool' = e
      /\ poolRep' = poolRep - rep
      /\ staked' = [staked EXCEPT ![v] = @ + rep]
      /\ UNCHANGED <<now, forkTime, price, priceValid, systemState, wallet, shares,
                     ethBalance, fork>>
  BY DEF depositToEscalationGame, Restaked
<1>2. rep \in Nat /\ rep > 0 /\ systemState = "Operational" /\ poolRep \in Nat
  BY <1>1, AmountFacts DEF isOperational, World
<1>3. /\ pool.vaults[v].units \in Nat /\ pool.totalUnits \in Nat
      /\ pool.vaults[v].units <= pool.totalUnits
  BY UnitsWithin
<1>4. rep <= Part(pool.vaults[v].units, poolRep, pool.totalUnits)
  BY <1>1, UnitsToRepIsPart
<1>6. /\ pool.totalUnits > 0
      /\ rep * pool.totalUnits <= pool.vaults[v].units * poolRep /\ rep <= poolRep
  <2> DEFINE mine == pool.vaults[v].units
             all == pool.totalUnits
             whole == Part(mine, poolRep, all)
  <2>1. mine \in Nat /\ all \in Nat /\ mine <= all /\ rep <= whole
    BY <1>3, <1>4
  <2>2. whole = Part(mine, poolRep, all)
    OBVIOUS
  <2> HIDE DEF mine, all, whole
  <2>3. mine <= mine
    BY <2>1
  <2>4. \A k \in Nat : k <= whole /\ k > 0 => all > 0 /\ k * all <= mine * poolRep /\ k <= poolRep
    BY <1>2, <2>1, <2>2, <2>3, PartWithin
  <2>5. all > 0 /\ rep * all <= mine * poolRep /\ rep <= poolRep
    BY <1>2, <2>1, <2>4
  <2> QED
    BY <2>5 DEF mine, all
<1>7. poolRep > 0
  BY <1>2, <1>6
<1>8. /\ units \in Nat /\ rep * pool.totalUnits <= poolRep * units
      /\ units <= pool.vaults[v].units
  BY <1>2, <1>3, <1>6, <1>7, UnitsUp
<1> HIDE DEF units
<1>9. held \in Nat /\ total = pool.totalUnits + (held - pool.vaults[v].units)
  BY <1>3, <1>8
<1>10. total = pool.totalUnits - units
  OBVIOUS
<1> HIDE DEF held, total
<1>11. Sound(pool', systemState) /\ SameMoney(pool, pool') /\ pool'.totalUnits = total
  <2>1. Sound(e, systemState) /\ SameMoney(pool, e) /\ e.totalUnits = total
    BY <1>2, <1>9, RestakedSound
  <2> QED
    BY <1>1, <2>1
<1> HIDE DEF e
<1>12. ClockOf(pool')
  BY <1>11 DEF SameMoney, ClockOf
<1>13. World'
  BY <1>1, <1>2, <1>6 DEF World
<1>14. ethBalance' = pool'.collateral + pool'.totalClaimable + pool'.unallocated
  BY <1>1, <1>11 DEF SameMoney, EthSolvent
<1>15. SharesCounted'
  BY <1>1, <1>11 DEF SameMoney, SharesCounted
<1>16. IInv'
  BY <1>1, <1>2, <1>11, <1>12, <1>13, <1>14, <1>15, OperatingStep
<1>17. VaultsFair
  <2>1. ClaimBase = poolRep /\ ClaimBase' = poolRep - rep
    BY <1>1, <1>2 DEF ClaimBase
  <2>2. pool.totalUnits * rep <= units * poolRep
    BY <1>2, <1>3, <1>8, ProductNat
  <2>3. poolRep * (pool.totalUnits - units) <= (poolRep - rep) * pool.totalUnits
    BY <1>2, <1>3, <1>8, <2>2, TakeFair
  <2> QED
    BY <1>10, <1>11, <2>1, <2>3 DEF VaultsFair
<1>18. SetsFair
  BY <1>1 DEF SetsFair
<1> QED
  BY <1>16, <1>17, <1>18 DEF Kept

LEMMA RedeemRepKeeps ==
    ASSUME IInv, NEW v \in Vault, redeemRepFromVault(v)
    PROVE  Kept
<1>0. /\ World /\ ClockOf(pool) /\ Sound(pool, systemState) /\ Typed(pool) /\ EthSolvent
      /\ SharesCounted /\ Forked /\ ClaimBase \in Nat
  BY IInvFacts
<1> USE <1>0
<1> DEFINE s == updateVaultFees(pool, v)
           units == s.vaults[v].units
           out == UnitsToRep(s, poolRep, units)
           total == s.totalUnits - units
           e == Restaked(s, v, 0, total)
<1>1. /\ systemState = "Operational" /\ AccrualIsPaid /\ pool' = e
      /\ poolRep' = poolRep - out
      /\ wallet' = [wallet EXCEPT ![v] = @ + out]
      /\ UNCHANGED <<world, staked, shares, ethBalance, fork>>
  BY DEF redeemRepFromVault, Restaked, QuestionOutcomeKnown
<1>2. Serviced(pool, s) /\ Fresh(s, v) /\ Typed(s) /\ poolRep \in Nat
  BY <1>1, PoolRefreshed DEF World
<1> HIDE DEF s
<1>3. units \in Nat /\ s.totalUnits \in Nat /\ units <= s.totalUnits /\ s.totalUnits = pool.totalUnits
  BY <1>2, ServicedUnits DEF Serviced
<1>4. /\ out \in Nat /\ s.totalUnits * out <= units * poolRep /\ out <= poolRep
  BY <1>2, <1>3, UnitsToRepIsPart, PartFacts
<1> HIDE DEF out
<1>5. total = s.totalUnits + (0 - s.vaults[v].units) /\ total = s.totalUnits - units
  BY <1>3
<1> HIDE DEF total
<1>6. Sound(pool', systemState) /\ SameMoney(s, pool') /\ pool'.totalUnits = total
  <2>1. Sound(s, systemState) /\ 0 \in Nat
    BY <1>2 DEF Serviced
  <2>2. Sound(e, systemState) /\ SameMoney(s, e) /\ e.totalUnits = total
    BY <1>1, <1>5, <2>1, RestakedSound
  <2> QED
    BY <1>1, <2>2
<1> HIDE DEF e, units
<1>7. ClockOf(pool')
  BY <1>2, <1>6 DEF SameMoney, ClockOf, Serviced
<1>8. World'
  BY <1>1, <1>2, <1>4 DEF World, world
<1>9. ethBalance' = pool'.collateral + pool'.totalClaimable + pool'.unallocated
  BY <1>1, <1>2, <1>6 DEF SameMoney, Serviced, SameStakes, EthSolvent
<1>10. SharesCounted'
  BY <1>1, <1>2, <1>6 DEF SameMoney, Serviced, SameStakes, SharesCounted
<1>11. IInv'
  BY <1>1, <1>6, <1>7, <1>8, <1>9, <1>10, OperatingStep DEF world
<1>12. VaultsFair
  <2>1. ClaimBase = poolRep /\ ClaimBase' = poolRep - out
    BY <1>1 DEF ClaimBase, world
  <2>2. poolRep * (s.totalUnits - units) <= (poolRep - out) * s.totalUnits
    BY <1>2, <1>3, <1>4, TakeFair
  <2> QED
    BY <1>3, <1>5, <1>6, <2>1, <2>2 DEF VaultsFair
<1>13. SetsFair
  BY <1>1 DEF SetsFair
<1> QED
  BY <1>11, <1>12, <1>13 DEF Kept

\* A step that leaves the units where they are, forked or not.
LEMMA SameUnitsStep ==
    ASSUME IInv, UNCHANGED <<now, forkTime, systemState, fork>>,
           World', Sound(pool', systemState), ClockOf(pool'),
           ethBalance' = pool'.collateral + pool'.totalClaimable + pool'.unallocated,
           SharesCounted', pool'.totalUnits = pool.totalUnits,
           \A v \in Vault : pool'.vaults[v].units = pool.vaults[v].units
    PROVE  IInv' /\ (poolRep' = poolRep => VaultsFair)
<1>0. /\ Forked /\ ClaimBase \in Nat /\ Typed(pool)
  BY IInvFacts
<1>1. UnitsOf(pool') = UnitsOf(pool)
  BY DEF UnitsOf
<1>2. Forked'
  BY <1>0, <1>1 DEF Forked
<1>3. IInv'
  BY <1>2 DEF IInv, ClockOf, EthSolvent
<1>4. ASSUME poolRep' = poolRep
      PROVE  VaultsFair
  <2>1. ClaimBase' = ClaimBase
    BY <1>4 DEF ClaimBase
  <2>2. ClaimBase * pool.totalUnits \in Nat
    BY <1>0, ProductNat DEF Typed
  <2> QED
    BY <2>1, <2>2 DEF VaultsFair
<1> QED
  BY <1>3, <1>4

\* Nothing but a service of the pool.
LEMMA ServiceKeeps ==
    ASSUME IInv, Serviced(pool, pool'),
           UNCHANGED <<world, poolRep, wallet, staked, shares, ethBalance, fork>>
    PROVE  Kept
<1>0. /\ World /\ EthSolvent /\ SharesCounted
  BY IInvFacts
<1>1. World'
  BY <1>0 DEF World, world
<1>2. ethBalance' = pool'.collateral + pool'.totalClaimable + pool'.unallocated
  BY <1>0 DEF Serviced, SameStakes, EthSolvent
<1>3. SharesCounted'
  BY <1>0 DEF Serviced, SameStakes, SharesCounted
<1>4. IInv' /\ VaultsFair
  BY <1>1, <1>2, <1>3, SameUnitsStep DEF Serviced, SameStakes, world
<1>5. SetsFair
  BY DEF SetsFair
<1> QED
  BY <1>4, <1>5 DEF Kept

LEMMA CheckpointKeeps ==
    ASSUME IInv, Checkpoint
    PROVE  Kept
<1>0. /\ World /\ ClockOf(pool) /\ Sound(pool, systemState) /\ Typed(pool)
  BY IInvFacts
<1>1. AccrualIsPaid /\ UNCHANGED <<world, poolRep, wallet, staked, shares, ethBalance, fork>>
  BY DEF Checkpoint
<1>2. CASE pool' = updateSettlementCollateral(pool)
  BY <1>1, <1>2, PoolSettled, ServiceKeeps
<1>3. CASE pool' = updateRetentionRate(pool)
  <2>1. CASE systemState # "Operational"
    <3>1. pool' = pool
      BY <1>3, <2>1 DEF updateRetentionRate
    <3>2. UpToDate(pool)
      BY <1>0, <2>1, UntilFacts DEF World, ClockOf, UpToDate
    <3>3. SameStakes(pool, pool)
      BY DEF SameStakes
    <3>4. Serviced(pool, pool')
      BY <1>0, <3>1, <3>2, <3>3 DEF Serviced
    <3> QED
      BY <1>1, <3>4, ServiceKeeps
  <2>2. CASE systemState = "Operational"
    <3> DEFINE s == updateSettlementCollateral(pool)
    <3>1. pool' = SetRetentionRate(s)
      BY <1>3, <2>2 DEF updateRetentionRate
    <3>2. Serviced(pool, s) /\ Typed(s)
      BY <1>1, PoolSettled
    <3> HIDE DEF s
    <3>3. Rated(s, pool')
      BY <1>0, <3>1, <3>2, SetRateFacts
    <3>4. Sound(pool', systemState)
      BY <3>2, <3>3, AccountsSound DEF Rated, Serviced
    <3>5. ClockOf(pool') /\ UpToDate(pool') /\ SameStakes(pool, pool')
      BY <3>2, <3>3 DEF Rated, SameAccounts, Serviced, ClockOf, UpToDate, SameStakes
    <3> QED
      BY <1>1, <3>4, <3>5, ServiceKeeps DEF Serviced
  <2> QED
    BY <2>1, <2>2
<1>4. CASE \E v \in Vault : pool' = updateVaultFees(pool, v)
  BY <1>1, <1>4, PoolRefreshed, ServiceKeeps
<1> QED
  BY <1>2, <1>3, <1>4 DEF Checkpoint

LEMMA FeesKeep ==
    ASSUME IInv, NEW v \in Vault, redeemFees(v)
    PROVE  Kept
<1>0. /\ World /\ EthSolvent /\ SharesCounted
  BY IInvFacts
<1> DEFINE s == updateVaultFees(pool, v)
<1>1. /\ AccrualIsPaid /\ pool' = PaidOut(s, v)
      /\ ethBalance' = ethBalance - s.vaults[v].claimable
      /\ UNCHANGED <<world, poolRep, wallet, staked, shares, fork>>
  BY DEF redeemFees, PaidOut
<1>2. Serviced(pool, s)
  BY <1>1, PoolRefreshed
<1> HIDE DEF s
<1>3. /\ Sound(pool', systemState) /\ pool'.collateral = s.collateral
      /\ pool'.unallocated = s.unallocated
      /\ pool'.shareSupply = s.shareSupply /\ pool'.lastUpdated = s.lastUpdated
      /\ pool'.totalUnits = s.totalUnits
      /\ pool'.totalClaimable = s.totalClaimable - s.vaults[v].claimable
      /\ s.vaults[v].claimable \in Nat
      /\ \A u \in Vault : pool'.vaults[u].units = s.vaults[u].units
  <2>1. Sound(s, systemState)
    BY <1>2 DEF Serviced
  <2> QED
    BY <1>1, <2>1, PaidOutSound
<1>4. /\ s.collateral \in Nat /\ s.unallocated \in Nat /\ s.totalClaimable \in Nat
      /\ pool'.collateral \in Nat /\ pool'.unallocated \in Nat /\ pool'.totalClaimable \in Nat
  BY <1>2, <1>3 DEF Serviced, Sound, Typed
<1>5. ethBalance = s.collateral + s.totalClaimable + s.unallocated
  BY <1>0, <1>2 DEF Serviced, SameStakes, EthSolvent
<1>6. ethBalance' = pool'.collateral + pool'.totalClaimable + pool'.unallocated /\ ethBalance' \in Nat
  BY <1>1, <1>3, <1>4, <1>5
<1>7. World'
  BY <1>0, <1>1, <1>6 DEF World, world
<1>8. ClockOf(pool')
  BY <1>2, <1>3 DEF Serviced, ClockOf
<1>9. SharesCounted'
  BY <1>0, <1>1, <1>2, <1>3 DEF Serviced, SameStakes, SharesCounted
<1>10. IInv' /\ VaultsFair
  BY <1>1, <1>2, <1>3, <1>6, <1>7, <1>8, <1>9, SameUnitsStep DEF Serviced, SameStakes, world
<1>11. SetsFair
  BY <1>1 DEF SetsFair
<1> QED
  BY <1>10, <1>11 DEF Kept

LEMMA StakeBackKeeps ==
    ASSUME IInv, NEW v \in Vault, withdrawFromEscalationGame(v)
    PROVE  Kept
<1>0. /\ World /\ ClockOf(pool) /\ Sound(pool, systemState) /\ EthSolvent /\ SharesCounted
  BY IInvFacts
<1>1. /\ staked' = [staked EXCEPT ![v] = 0] /\ wallet' = [wallet EXCEPT ![v] = @ + staked[v]]
      /\ UNCHANGED <<world, pool, poolRep, shares, ethBalance, fork>>
  BY DEF withdrawFromEscalationGame
<1>2. World'
  BY <1>0, <1>1 DEF World, world
<1>3. SharesCounted'
  BY <1>0, <1>1 DEF SharesCounted
<1>4. ethBalance' = pool'.collateral + pool'.totalClaimable + pool'.unallocated
  BY <1>0, <1>1 DEF EthSolvent
<1>5. IInv' /\ VaultsFair
  BY <1>0, <1>1, <1>2, <1>3, <1>4, SameUnitsStep DEF world
<1>6. SetsFair
  BY <1>1 DEF SetsFair
<1> QED
  BY <1>5, <1>6 DEF Kept

\* A mint for eth of c that S shares stand on, and a redemption of n of them for out.
LEMMA MintFair ==
    ASSUME NEW c \in Nat, NEW S \in Nat, NEW eth \in Nat, NEW minted \in Nat, c * minted <= eth * S
    PROVE  c * (S + minted) <= (c + eth) * S
<1>1. c * (S + minted) = c * S + c * minted /\ (c + eth) * S = c * S + eth * S
  OBVIOUS
<1>2. c * S \in Nat /\ c * minted \in Nat /\ eth * S \in Nat
  BY ProductNat
<1> QED
  BY <1>1, <1>2

\* A payout of n shares out of S rounded down leaves each other share as much as before.
LEMMA RedemptionFair ==
    ASSUME NEW c \in Nat, NEW S \in Nat, NEW n \in Nat, NEW out \in Nat, S * out <= n * c
    PROVE  c * (S - n) <= (c - out) * S
<1>1. c * (S - n) = c * S - n * c /\ (c - out) * S = c * S - S * out
  OBVIOUS
<1>2. c * S \in Nat /\ n * c \in Nat /\ S * out \in Nat
  BY ProductNat
<1> QED
  BY <1>1, <1>2

LEMMA MintedFacts ==
    ASSUME NEW s, Typed(s), ExchangeRateDefined(s), NEW eth \in Nat
    PROVE  /\ attoEthToAttoShares(s, eth) \in Nat
           /\ s.collateral * attoEthToAttoShares(s, eth) <= eth * s.shareSupply
<1> DEFINE c == s.collateral
           S == s.shareSupply
           minted == attoEthToAttoShares(s, eth)
<1>1. c \in Nat /\ S \in Nat
  BY DEF Typed
<1>2. CASE S = 0
  <2>1. c = 0 /\ minted = eth * PRICE_PRECISION
    BY <1>2 DEF ExchangeRateDefined, attoEthToAttoShares
  <2>2. minted \in Nat
    BY <2>1, PrecisionFacts, ProductNat
  <2> HIDE DEF minted
  <2>3. 0 * minted = 0 /\ eth * 0 = 0
    BY <2>2
  <2> QED
    BY <1>2, <2>1, <2>2, <2>3 DEF minted
<1>3. CASE S # 0
  <2>1. c > 0 /\ minted = (eth * S) \div c
    BY <1>1, <1>3 DEF ExchangeRateDefined, attoEthToAttoShares
  <2>2. eth * S \in Nat
    BY <1>1, ProductNat
  <2> HIDE DEF c, S, minted
  <2>3. minted \in Nat /\ c * minted <= eth * S
    BY <1>1, <2>1, <2>2, Quotient
  <2> QED
    BY <2>3 DEF minted, c, S
<1> QED
  BY <1>2, <1>3

\* Shares and collateral moved, and perhaps the rate after that.
LEMMA SetsStep ==
    ASSUME IInv, AccrualIsPaid, NEW s, s = updateSettlementCollateral(pool),
           NEW d, SameAccounts(s, d), Serviced(d, pool'), pool'.collateral = d.collateral,
           UNCHANGED <<world, poolRep, wallet, staked, fork>>,
           shares' \in [Trader -> Nat],
           ethBalance' = ethBalance + (d.collateral - s.collateral),
           d.shareSupply = SumFunctionOnSet(shares', Trader),
           s.collateral * d.shareSupply <= d.collateral * s.shareSupply
    PROVE  Kept
<1>0. /\ World /\ EthSolvent /\ SharesCounted
  BY IInvFacts
<1>1. Serviced(pool, s) /\ Typed(s)
  BY PoolSettled
<1>2. /\ Sound(pool', systemState) /\ ClockOf(pool') /\ Typed(pool')
      /\ pool'.shareSupply = d.shareSupply
      /\ pool'.collateral + pool'.totalClaimable + pool'.unallocated
           = d.collateral + d.totalClaimable + d.unallocated
      /\ pool'.totalUnits = d.totalUnits
      /\ \A v \in Vault : pool'.vaults[v].units = d.vaults[v].units
  BY DEF Serviced, SameStakes, Sound
<1>3. /\ d.totalClaimable = s.totalClaimable /\ d.unallocated = s.unallocated
      /\ d.collateral \in Nat /\ d.totalUnits = s.totalUnits /\ d.vaults = s.vaults
  BY DEF SameAccounts
<1>4. ethBalance = s.collateral + s.totalClaimable + s.unallocated
  BY <1>0, <1>1 DEF Serviced, SameStakes, EthSolvent
<1>5. /\ ethBalance' = pool'.collateral + pool'.totalClaimable + pool'.unallocated
      /\ ethBalance' \in Nat
  <2>1. /\ s.collateral \in Nat /\ s.totalClaimable \in Nat /\ s.unallocated \in Nat
    BY <1>1 DEF Typed
  <2> QED
    BY <1>2, <1>3, <1>4, <2>1
<1>6. World'
  BY <1>0, <1>5 DEF World, world
<1>7. SharesCounted'
  BY <1>2 DEF SharesCounted
<1>8. /\ pool'.totalUnits = pool.totalUnits
      /\ \A v \in Vault : pool'.vaults[v].units = pool.vaults[v].units
  BY <1>1, <1>2, <1>3 DEF Serviced, SameStakes
<1>9. IInv' /\ VaultsFair
  BY <1>2, <1>5, <1>6, <1>7, <1>8, SameUnitsStep DEF world
<1>10. SetsFair
  <2>1. /\ s.collateral \in Nat /\ s.shareSupply \in Nat /\ d.shareSupply \in Nat
    BY <1>1 DEF Typed, SameAccounts
  <2> QED
    BY <1>2, <1>3, <2>1, ProductNat DEF SetsFair
<1> QED
  BY <1>9, <1>10 DEF Kept

LEMMA MintKeeps ==
    ASSUME IInv, NEW t \in Trader, NEW eth \in EthAmount, createCompleteSet(t, eth)
    PROVE  Kept
<1>0. /\ World /\ ClockOf(pool) /\ SharesCounted
  BY IInvFacts
<1> DEFINE s == updateSettlementCollateral(pool)
           minted == attoEthToAttoShares(s, eth)
           d == [s EXCEPT !.shareSupply = @ + minted, !.collateral = @ + eth]
<1>1. /\ isOperational /\ AccrualIsPaid /\ ExchangeRateDefined(s)
      /\ pool' = updateRetentionRate(d)
      /\ shares' = [shares EXCEPT ![t] = @ + minted]
      /\ ethBalance' = ethBalance + eth
      /\ UNCHANGED <<world, poolRep, wallet, staked, fork>>
  BY DEF createCompleteSet
<1>2. Serviced(pool, s) /\ Typed(s)
  BY <1>1, PoolSettled
<1>3. s = updateSettlementCollateral(pool)
  OBVIOUS
<1> HIDE DEF s
<1>4. eth \in Nat
  BY AmountFacts
<1>5. minted \in Nat /\ s.collateral * minted <= eth * s.shareSupply
  BY <1>1, <1>2, <1>4, MintedFacts
<1> HIDE DEF minted
<1>6. /\ SameAccounts(s, d) /\ d.collateral = s.collateral + eth
      /\ d.shareSupply = s.shareSupply + minted
  BY <1>2, <1>4, <1>5 DEF SameAccounts, Typed, PoolFields
<1> HIDE DEF d
<1>7. Sound(d, systemState) /\ ClockOf(d) /\ UpToDate(d)
  <2>1. Sound(s, systemState) /\ ClockOf(s) /\ UpToDate(s)
    BY <1>2 DEF Serviced
  <2>2. d.lastUpdated = s.lastUpdated
    BY <1>6 DEF SameAccounts
  <2>3. Sound(d, systemState)
    BY <1>6, <2>1, AccountsSound
  <2> QED
    BY <2>1, <2>2, <2>3 DEF ClockOf, UpToDate
<1>8. Serviced(d, pool') /\ pool'.collateral = d.collateral
  BY <1>0, <1>1, <1>7, RateSound
<1>9. shares' \in [Trader -> Nat]
  BY <1>0, <1>1, <1>5 DEF World
<1>10. d.shareSupply = SumFunctionOnSet(shares', Trader)
  <2>1. IsFiniteSet(Trader) /\ shares \in [Trader -> Int] /\ minted \in Int
    BY <1>0, <1>5, PrecisionFacts DEF World
  <2>2. SumFunctionOnSet([shares EXCEPT ![t] = @ + minted], Trader)
          = SumFunctionOnSet(shares, Trader) + minted
    BY <2>1, SumRaise
  <2> QED
    BY <1>0, <1>1, <1>2, <1>6, <2>2 DEF SharesCounted, Serviced, SameStakes
<1>11. s.collateral * d.shareSupply <= d.collateral * s.shareSupply
  <2> DEFINE c == s.collateral
             S == s.shareSupply
  <2>1. c \in Nat /\ S \in Nat /\ c * minted <= eth * S
    BY <1>2, <1>5 DEF Typed
  <2> HIDE DEF c, S
  <2>2. c * (S + minted) <= (c + eth) * S
    BY <1>4, <1>5, <2>1, MintFair
  <2> QED
    BY <1>6, <2>2 DEF c, S
<1>12. ethBalance' = ethBalance + (d.collateral - s.collateral)
  BY <1>1, <1>2, <1>4, <1>6 DEF Typed
<1> QED
  BY <1>1, <1>3, <1>6, <1>8, <1>9, <1>10, <1>11, <1>12, SetsStep

\* What the trader's shares are paid, and what that leaves.
LEMMA BurnFacts ==
    ASSUME IInv, AccrualIsPaid, NEW s, s = updateSettlementCollateral(pool),
           NEW t \in Trader, NEW n \in Nat, PayShares(t, s, n), NEW d, d = SharesBurned(s, n)
    PROVE  /\ SameAccounts(s, d) /\ Sound(d, systemState) /\ ClockOf(d) /\ UpToDate(d)
           /\ shares' \in [Trader -> Nat]
           /\ d.shareSupply = SumFunctionOnSet(shares', Trader)
           /\ ethBalance' = ethBalance + (d.collateral - s.collateral)
           /\ s.collateral * d.shareSupply <= d.collateral * s.shareSupply
<1>0. /\ World /\ SharesCounted
  BY IInvFacts
<1>1. Serviced(pool, s) /\ Typed(s)
  BY PoolSettled
<1> DEFINE c == s.collateral
           S == s.shareSupply
           out == attoSharesToAttoEth(s, n)
<1>2. /\ n <= shares[t] /\ shares' = [shares EXCEPT ![t] = @ - n]
      /\ ethBalance' = ethBalance - out
  BY DEF PayShares
<1>3. c \in Nat /\ S \in Nat
  BY <1>1 DEF Typed
<1>4. IsFiniteSet(Trader) /\ shares \in [Trader -> Int] /\ n \in Int /\ \A x \in Trader : shares[x] \in Nat
  BY <1>0, PrecisionFacts DEF World
<1>5. S = SumFunctionOnSet(shares, Trader)
  BY <1>0, <1>1 DEF SharesCounted, Serviced, SameStakes
<1>6. n <= S
  <2>1. shares[t] <= SumFunctionOnSet(shares, Trader)
    BY <1>4, SumTerm
  <2> QED
    BY <1>2, <1>3, <1>4, <1>5, <2>1
<1>7. shares' \in [Trader -> Nat] /\ S - n = SumFunctionOnSet(shares', Trader)
  <2>1. SumFunctionOnSet([shares EXCEPT ![t] = @ - n], Trader) = SumFunctionOnSet(shares, Trader) - n
    BY <1>4, SumRaise
  <2> QED
    BY <1>0, <1>2, <1>4, <1>5, <2>1 DEF World
<1>8. out \in Nat /\ out <= c /\ S * out <= n * c
  <2>1. CASE n = 0 \/ S = 0
    <3>1. out = 0 /\ n * c \in Nat /\ S * 0 = 0
      BY <1>3, <2>1, ProductNat DEF attoSharesToAttoEth
    <3> QED
      BY <1>3, <3>1
  <2>2. CASE n # 0 /\ S # 0
    <3>1. out = (n * c) \div S /\ n * c \in Nat /\ S > 0
      BY <1>3, <2>2, ProductNat DEF attoSharesToAttoEth
    <3> HIDE DEF c, S, out
    <3> QED
      BY <1>3, <1>6, <3>1, Quotient, PartOf
  <2> QED
    BY <2>1, <2>2
<1>9. d = [s EXCEPT !.shareSupply = @ - n, !.collateral = @ - out]
  BY DEF SharesBurned
<1> HIDE DEF out
<1>10. /\ SameAccounts(s, d) /\ d.collateral = c - out /\ d.shareSupply = S - n
  BY <1>1, <1>3, <1>6, <1>8, <1>9 DEF SameAccounts, Typed, PoolFields
<1>11. Sound(d, systemState) /\ ClockOf(d) /\ UpToDate(d)
  <2>1. Sound(s, systemState) /\ ClockOf(s) /\ UpToDate(s)
    BY <1>1 DEF Serviced
  <2>2. d.lastUpdated = s.lastUpdated
    BY <1>10 DEF SameAccounts
  <2>3. Sound(d, systemState)
    BY <1>10, <2>1, AccountsSound
  <2> QED
    BY <2>1, <2>2, <2>3 DEF ClockOf, UpToDate
<1>12. ethBalance' = ethBalance + (d.collateral - s.collateral)
  BY <1>0, <1>2, <1>3, <1>8, <1>10 DEF World
<1>13. s.collateral * d.shareSupply <= d.collateral * s.shareSupply
  <2> HIDE DEF c, S
  <2>1. c * (S - n) <= (c - out) * S
    BY <1>3, <1>8, RedemptionFair
  <2> QED
    BY <1>10, <2>1 DEF c, S
<1> QED
  BY <1>7, <1>10, <1>11, <1>12, <1>13

LEMMA RedeemSetKeeps ==
    ASSUME IInv, NEW t \in Trader, NEW n \in ShareAmount, redeemCompleteSet(t, n)
    PROVE  Kept
<1>0. World
  BY IInvFacts
<1> DEFINE s == updateSettlementCollateral(pool)
           d == SharesBurned(s, n)
<1>1. /\ AccrualIsPaid /\ PayShares(t, s, n) /\ pool' = updateRetentionRate(d)
  BY DEF redeemCompleteSet
<1>2. UNCHANGED <<world, poolRep, wallet, staked, fork>> /\ n \in Nat
  BY <1>1, AmountFacts DEF PayShares
<1>3. s = updateSettlementCollateral(pool) /\ d = SharesBurned(s, n)
  OBVIOUS
<1> HIDE DEF s, d
<1>4. /\ SameAccounts(s, d) /\ Sound(d, systemState) /\ ClockOf(d) /\ UpToDate(d)
      /\ shares' \in [Trader -> Nat]
      /\ d.shareSupply = SumFunctionOnSet(shares', Trader)
      /\ ethBalance' = ethBalance + (d.collateral - s.collateral)
      /\ s.collateral * d.shareSupply <= d.collateral * s.shareSupply
  BY <1>1, <1>2, <1>3, BurnFacts
<1>5. Serviced(d, pool') /\ pool'.collateral = d.collateral
  BY <1>0, <1>1, <1>4, RateSound
<1> QED
  BY <1>1, <1>2, <1>3, <1>4, <1>5, SetsStep

LEMMA RedeemSharesKeeps ==
    ASSUME IInv, NEW t \in Trader, redeemShares(t)
    PROVE  Kept
<1>0. World
  BY IInvFacts
<1> DEFINE s == updateSettlementCollateral(pool)
           n == shares[t]
           d == SharesBurned(s, n)
<1>1. /\ AccrualIsPaid /\ PayShares(t, s, n) /\ pool' = d
  BY DEF redeemShares
<1>2. UNCHANGED <<world, poolRep, wallet, staked, fork>> /\ n \in Nat
  BY <1>0, <1>1 DEF PayShares, World
<1>3. s = updateSettlementCollateral(pool) /\ d = SharesBurned(s, n)
  OBVIOUS
<1> HIDE DEF s, d, n
<1>4. /\ SameAccounts(s, d) /\ Sound(d, systemState) /\ ClockOf(d) /\ UpToDate(d)
      /\ shares' \in [Trader -> Nat]
      /\ d.shareSupply = SumFunctionOnSet(shares', Trader)
      /\ ethBalance' = ethBalance + (d.collateral - s.collateral)
      /\ s.collateral * d.shareSupply <= d.collateral * s.shareSupply
  BY <1>1, <1>2, <1>3, BurnFacts
<1>5. Serviced(d, pool') /\ pool'.collateral = d.collateral
  BY <1>1, <1>4 DEF Serviced, SameStakes
<1> QED
  BY <1>1, <1>2, <1>3, <1>4, <1>5, SetsStep

\* Two vaults brought up to date, one after the other.
LEMMA BothRefreshed ==
    ASSUME IInv, AccrualIsPaid, NEW r \in Vault, NEW t \in Vault,
           NEW s, s = updateVaultFees(updateVaultFees(pool, t), r)
    PROVE  Serviced(pool, s) /\ Fresh(s, r) /\ Fresh(s, t) /\ Typed(s)
<1>0. World
  BY IInvFacts
<1> DEFINE m == updateVaultFees(pool, t)
<1>1. Serviced(pool, m) /\ Fresh(m, t) /\ Typed(m)
  BY PoolRefreshed
<1>2. s = updateVaultFees(m, r)
  OBVIOUS
<1> HIDE DEF m
<1>3. Sound(m, systemState) /\ ClockOf(m) /\ UpToDate(m)
  BY <1>1 DEF Serviced
<1>4. updateSettlementCollateral(m) = m
  BY <1>3 DEF UpToDate, updateSettlementCollateral
<1>5. updateSettlementCollateral(m).collateral >= 0
  BY <1>1, <1>4 DEF Typed
<1>6. Serviced(m, s) /\ Fresh(s, r) /\ Fresh(s, t)
  BY <1>0, <1>1, <1>2, <1>3, <1>5, RefreshSound
<1>7. SameStakes(pool, s)
  BY <1>1, <1>6 DEF Serviced, SameStakes
<1> QED
  BY <1>6, <1>7 DEF Serviced, Sound

LEMMA MinThree ==
    ASSUME NEW a \in Nat, NEW b \in Nat, NEW c \in Nat
    PROVE  Min({a, b, c}) \in Nat /\ Min({a, b, c}) <= a /\ Min({a, b, c}) <= b
<1>1. \E x \in {a, b, c} : \A y \in {a, b, c} : x <= y
  OBVIOUS
<1>2. Min({a, b, c}) \in {a, b, c} /\ \A y \in {a, b, c} : Min({a, b, c}) <= y
  BY <1>1 DEF Min
<1> QED
  BY <1>2

LEMMA OpenInterestNat ==
    ASSUME NEW s, Typed(s), NEW v \in Vault, NEW capacity \in Nat
    PROVE  OpenInterestOf(s, v, capacity) \in Nat
<1> DEFINE part == CeilDiv(s.collateral * capacity, s.totalCapacity)
<1>1. /\ s.collateral \in Nat /\ s.totalCapacity \in Nat /\ s.vaults[v].badDebt \in Nat
  BY DEF Typed, VaultTyped
<1>2. s.collateral * capacity \in Nat
  BY <1>1, ProductNat
<1>3. s.totalCapacity # 0 => part \in Nat
  BY <1>1, <1>2, CeilDivFacts
<1>4. OpenInterestOf(s, v, capacity) = IF s.totalCapacity = 0 \/ capacity = 0 THEN 0
                                       ELSE Later(part, s.vaults[v].badDebt)
  BY DEF OpenInterestOf
<1> HIDE DEF part
<1> QED
  BY <1>1, <1>3, <1>4 DEF Later

\* What may move from a target is within what it has.
LEMMA TransferBounds ==
    ASSUME World, price > 0, NEW s, Typed(s), NEW t \in Vault, NEW requested \in Nat,
           NEW remaining \in Nat, NEW quote,
           quote = calculateBundledLiquidationTransfer(s, t, requested, remaining)
    PROVE  /\ quote.debt \in Nat /\ quote.debt <= getVaultOpenInterest(s, t)
           /\ quote.capacity \in Nat /\ quote.capacity <= s.vaults[t].capacity
           /\ quote.units \in Nat /\ (quote.funded => quote.units <= s.vaults[t].units)
           /\ quote.debt = 0 => quote.capacity = 0
<1> DEFINE openInterest == getVaultOpenInterest(s, t)
           reserved == IF remaining = 0 THEN 0 ELSE _attoRepToBackingUnitsRoundUp(s, remaining)
           spare == s.vaults[t].units - reserved
           backing == UnitsToRep(s, poolRep, spare)
           bonus == price * (BPS_DENOMINATOR + LIQUIDATION_REP_BONUS_BPS)
           most == (backing * PRICE_PRECISION * BPS_DENOMINATOR) \div bonus
           debt == Min({requested, openInterest, most})
           capacity == IF debt = openInterest THEN s.vaults[t].capacity
                       ELSE (s.vaults[t].capacity * debt) \div openInterest
           units == LiquidationAward(s, debt)
<1>1. quote = IF openInterest = 0 \/ spare <= 0 THEN NothingToMove
              ELSE IF debt = 0 \/ capacity = 0 THEN NothingToMove
              ELSE [debt |-> debt, capacity |-> capacity, units |-> units, funded |-> units <= spare]
  BY DEF calculateBundledLiquidationTransfer
<1>2. s.vaults[t].capacity \in Nat /\ s.vaults[t].units \in Nat /\ s.totalUnits \in Nat
  BY DEF Typed, VaultTyped
<1>3. openInterest \in Nat
  BY <1>2, OpenInterestNat DEF getVaultOpenInterest
<1>4. reserved \in Nat /\ spare \in Int /\ spare <= s.vaults[t].units
  <2>1. _attoRepToBackingUnitsRoundUp(s, remaining) \in Nat
    BY UnitsUp
  <2> QED
    BY <1>2, <2>1
<1>5. bonus \in Nat /\ bonus > 0 /\ poolRep \in Nat
  BY PrecisionFacts DEF World
<1>6. CASE openInterest = 0 \/ spare <= 0
  BY <1>1, <1>2, <1>3, <1>6 DEF NothingToMove
<1>7. CASE openInterest # 0 /\ spare > 0
  <2>1. backing = Part(spare, poolRep, s.totalUnits) /\ spare \in Nat
    BY <1>4, <1>7, UnitsToRepIsPart
  <2>2. backing \in Nat
    <3> DEFINE all == s.totalUnits
    <3>1. all \in Nat /\ backing = Part(spare, poolRep, all)
      BY <1>2, <2>1
    <3> HIDE DEF all, backing, spare
    <3> QED
      BY <1>5, <2>1, <3>1, PartFacts
  <2> HIDE DEF backing, bonus, spare, openInterest
  <2>3. most \in Nat
    <3>1. backing * PRICE_PRECISION \in Nat
      BY <2>2, PrecisionFacts, ProductNat
    <3>2. backing * PRICE_PRECISION * BPS_DENOMINATOR \in Nat
      BY <3>1, PrecisionFacts, ProductNat
    <3> QED
      BY <1>5, <3>2, Quotient
  <2> HIDE DEF most
  <2>4. debt \in Nat /\ debt <= openInterest
    BY <1>3, <2>3, MinThree
  <2> HIDE DEF debt
  <2>5. capacity \in Nat /\ capacity <= s.vaults[t].capacity
    <3> DEFINE all == s.vaults[t].capacity
    <3>1. all \in Nat /\ openInterest > 0
      BY <1>2, <1>3, <1>7
    <3> HIDE DEF all
    <3>2. /\ (all * debt) \div openInterest \in Nat
          /\ (all * debt) \div openInterest <= all
      BY <1>3, <2>4, <3>1, PartOf
    <3> QED
      BY <1>2, <3>2 DEF all
  <2>6. units \in Nat
    BY <2>4, AwardFacts
  <2> HIDE DEF capacity, units
  <2>7. CASE debt = 0 \/ capacity = 0
    BY <1>1, <1>2, <1>3, <1>7, <2>7 DEF NothingToMove, openInterest
  <2>8. CASE debt # 0 /\ capacity # 0
    <3> DEFINE funded == units <= spare
    <3>1. quote = [debt |-> debt, capacity |-> capacity, units |-> units, funded |-> funded]
      BY <1>1, <1>4, <1>7, <2>8
    <3>2. funded => units <= s.vaults[t].units
      BY <1>2, <1>4, <2>6
    <3> HIDE DEF funded
    <3>3. /\ quote.debt = debt /\ quote.capacity = capacity /\ quote.units = units
          /\ (quote.funded => funded)
      BY <3>1
    <3>4. quote.funded => quote.units <= s.vaults[t].units
      BY <3>2, <3>3
    <3>5. debt <= getVaultOpenInterest(s, t)
      BY <2>4 DEF openInterest
    <3> QED
      BY <2>4, <2>5, <2>6, <2>8, <3>3, <3>4, <3>5
  <2> QED
    BY <2>7, <2>8
<1> QED
  BY <1>3, <1>4, <1>6, <1>7

\* The debt, the capacity and the award that leave a vault, and what is written off.
Lightened(s, t, capacity, units, written) ==
    [s EXCEPT !.indexRemainder = 0,
              !.totalBadDebt = @ + written,
              !.totalCapacity = @ - capacity,
              !.feeEligible = @ - capacity,
              !.totalUnits = @ - units,
              !.vaults[t].badDebt = @ + written,
              !.vaults[t].capacity = @ - capacity,
              !.vaults[t].units = @ - units]

\* The target of a liquidation without what it lost.
LEMMA LightenedSound ==
    ASSUME NEW st, st = "Operational", NEW s, Sound(s, st), NEW t \in Vault, Fresh(s, t),
           NEW capacity \in Nat, capacity <= s.vaults[t].capacity,
           NEW units \in Nat, units <= s.vaults[t].units, NEW written \in Nat,
           NEW e, e = Lightened(s, t, capacity, units, written)
    PROVE  Sound(e, st)
<1>1. Typed(s) /\ Totals(s, st) /\ DOMAIN s = PoolFields /\ DOMAIN s.vaults = Vault
      /\ VaultTyped(s.vaults[t], s.feeIndex)
  BY DEF Sound, Typed
<1>2. /\ DOMAIN e = PoolFields /\ DOMAIN e.vaults = Vault
      /\ \A u \in Vault \ {t} : e.vaults[u] = s.vaults[u]
      /\ e.totalUnits = s.totalUnits - units /\ e.totalCapacity = s.totalCapacity - capacity
      /\ e.feeEligible = s.feeEligible - capacity /\ e.totalBadDebt = s.totalBadDebt + written
      /\ e.uncheckpointed = s.uncheckpointed /\ e.feeIndex = s.feeIndex
      /\ e.indexRemainder = 0 /\ e.owedRemainder = s.owedRemainder
      /\ e.retentionRate = s.retentionRate /\ e.collateral = s.collateral
      /\ e.unallocated = s.unallocated /\ e.shareSupply = s.shareSupply
      /\ e.lastUpdated = s.lastUpdated /\ e.totalClaimable = s.totalClaimable
  BY <1>1 DEF Lightened, PoolFields
<1>3. /\ DOMAIN e.vaults[t] = VaultFields /\ e.vaults[t].units = s.vaults[t].units - units
      /\ e.vaults[t].capacity = s.vaults[t].capacity - capacity
      /\ e.vaults[t].claimable = s.vaults[t].claimable
      /\ e.vaults[t].feeIndex = s.vaults[t].feeIndex
      /\ e.vaults[t].remainder = s.vaults[t].remainder
      /\ e.vaults[t].badDebt = s.vaults[t].badDebt + written
  BY <1>1 DEF Lightened, PoolFields, VaultFields, VaultTyped
<1>4. VaultTyped(e.vaults[t], e.feeIndex)
  BY <1>1, <1>2, <1>3 DEF VaultTyped
<1>5. Edited(s, t, e, st)
  BY <1>1, <1>2, <1>3, <1>4 DEF Edited, Typed, Totals, VaultTyped
<1> QED
  BY <1>5, EditSound

\* Capacity and units go from the target to the receiver, one vault after the other.
LEMMA LiquidatedSound ==
    ASSUME NEW st, st = "Operational", NEW s, Sound(s, st), NEW r \in Vault, NEW t \in Vault, r # t,
           Fresh(s, r), Fresh(s, t), NEW capacity \in Nat, capacity <= s.vaults[t].capacity,
           NEW debt \in Nat, LiquidationAward(s, debt) \in Nat,
           LiquidationAward(s, debt) <= s.vaults[t].units, NEW written \in Nat,
           debt = 0 => capacity = 0 /\ LiquidationAward(s, debt) = 0,
           NEW e, e = Liquidated(s, r, t, capacity, debt, written)
    PROVE  Sound(e, st) /\ SameMoney(s, e) /\ e.totalUnits = s.totalUnits
<1> DEFINE units == LiquidationAward(s, debt)
           m == Lightened(s, t, capacity, units, written)
           lost == [s EXCEPT !.indexRemainder = 0,
                             !.totalBadDebt = @ + written,
                             !.vaults[t].badDebt = @ + written,
                             !.vaults[t].capacity = @ - capacity,
                             !.vaults[t].units = @ - units]
<1>1. Typed(s) /\ Totals(s, st) /\ DOMAIN s = PoolFields /\ DOMAIN s.vaults = Vault
      /\ VaultTyped(s.vaults[t], s.feeIndex) /\ VaultTyped(s.vaults[r], s.feeIndex)
      /\ s.totalCapacity \in Nat /\ s.feeEligible = s.totalCapacity /\ s.totalUnits \in Nat
  BY DEF Sound, Typed, Totals
<1>2. e = IF debt = 0 THEN lost
          ELSE [lost EXCEPT !.vaults[r].capacity = @ + capacity, !.vaults[r].units = @ + units]
  BY DEF Liquidated
<1>3. /\ units \in Nat /\ units <= s.vaults[t].units /\ (debt = 0 => capacity = 0 /\ units = 0)
  OBVIOUS
<1> HIDE DEF units
<1>4. Sound(m, st)
  BY <1>1, <1>3, LightenedSound
<1>5. /\ DOMAIN m = PoolFields /\ DOMAIN m.vaults = Vault
      /\ \A u \in Vault \ {t} : m.vaults[u] = s.vaults[u]
      /\ m.totalUnits = s.totalUnits - units /\ m.totalCapacity = s.totalCapacity - capacity
      /\ m.feeEligible = s.feeEligible - capacity /\ m.totalBadDebt = s.totalBadDebt + written
      /\ m.uncheckpointed = s.uncheckpointed /\ m.feeIndex = s.feeIndex
      /\ m.indexRemainder = 0 /\ m.owedRemainder = s.owedRemainder
      /\ m.retentionRate = s.retentionRate /\ m.collateral = s.collateral
      /\ m.unallocated = s.unallocated /\ m.shareSupply = s.shareSupply
      /\ m.lastUpdated = s.lastUpdated /\ m.totalClaimable = s.totalClaimable
  BY <1>1 DEF Lightened, PoolFields
<1>6. /\ DOMAIN lost = PoolFields /\ DOMAIN lost.vaults = Vault
      /\ \A u \in Vault \ {t} : lost.vaults[u] = s.vaults[u]
      /\ lost.totalUnits = s.totalUnits /\ lost.totalCapacity = s.totalCapacity
      /\ lost.feeEligible = s.feeEligible /\ lost.totalBadDebt = s.totalBadDebt + written
      /\ lost.uncheckpointed = s.uncheckpointed /\ lost.feeIndex = s.feeIndex
      /\ lost.indexRemainder = 0 /\ lost.owedRemainder = s.owedRemainder
      /\ lost.retentionRate = s.retentionRate /\ lost.collateral = s.collateral
      /\ lost.unallocated = s.unallocated /\ lost.shareSupply = s.shareSupply
      /\ lost.lastUpdated = s.lastUpdated /\ lost.totalClaimable = s.totalClaimable
  BY <1>1 DEF PoolFields
<1>7. m.vaults[t] = lost.vaults[t]
  BY <1>1 DEF Lightened, PoolFields, VaultFields, VaultTyped
<1> HIDE DEF m, lost
<1>8. \A u \in Vault : m.vaults[u] = lost.vaults[u]
  BY <1>5, <1>6, <1>7
<1>9. VaultTyped(m.vaults[r], m.feeIndex) /\ m.vaults[r] = s.vaults[r] /\ Fresh(m, r)
      /\ Totals(m, st) /\ Typed(m)
  BY <1>1, <1>4, <1>5 DEF Sound, Fresh
<1>10. CASE debt = 0
  <2>1. e = lost /\ capacity = 0 /\ units = 0
    BY <1>2, <1>3, <1>10
  <2>2. m.totalUnits = s.totalUnits /\ m.totalCapacity = s.totalCapacity
    BY <1>1, <1>5, <2>1
  <2>3. Edited(m, r, e, st)
    BY <1>1, <1>4, <1>5, <1>6, <1>8, <1>9, <2>1, <2>2 DEF Edited, Typed, VaultTyped
  <2>4. Sound(e, st)
    BY <1>4, <2>3, EditSound
  <2> QED
    BY <1>6, <2>1, <2>4 DEF SameMoney
<1>11. CASE debt # 0
  <2>1. e = [lost EXCEPT !.vaults[r].capacity = @ + capacity, !.vaults[r].units = @ + units]
    BY <1>2, <1>11
  <2>2. /\ DOMAIN e = PoolFields /\ DOMAIN e.vaults = Vault
        /\ \A u \in Vault \ {r} : e.vaults[u] = m.vaults[u]
        /\ e.totalUnits = lost.totalUnits /\ e.totalCapacity = lost.totalCapacity
        /\ e.feeEligible = lost.feeEligible /\ e.totalBadDebt = lost.totalBadDebt
        /\ e.uncheckpointed = lost.uncheckpointed /\ e.feeIndex = lost.feeIndex
        /\ e.indexRemainder = 0 /\ e.owedRemainder = lost.owedRemainder
        /\ e.retentionRate = lost.retentionRate /\ e.collateral = lost.collateral
        /\ e.unallocated = lost.unallocated /\ e.shareSupply = lost.shareSupply
        /\ e.lastUpdated = lost.lastUpdated /\ e.totalClaimable = lost.totalClaimable
    BY <1>6, <1>8, <2>1 DEF PoolFields
  <2>3. /\ DOMAIN e.vaults[r] = VaultFields
        /\ e.vaults[r].units = m.vaults[r].units + units
        /\ e.vaults[r].capacity = m.vaults[r].capacity + capacity
        /\ e.vaults[r].claimable = m.vaults[r].claimable
        /\ e.vaults[r].feeIndex = m.vaults[r].feeIndex
        /\ e.vaults[r].remainder = m.vaults[r].remainder
        /\ e.vaults[r].badDebt = m.vaults[r].badDebt
    BY <1>6, <1>8, <1>9, <2>1 DEF PoolFields, VaultFields, VaultTyped
  <2>4. VaultTyped(e.vaults[r], e.feeIndex)
    BY <1>3, <1>5, <1>6, <1>9, <2>2, <2>3 DEF VaultTyped
  <2>5. /\ e.totalCapacity = m.totalCapacity + (e.vaults[r].capacity - m.vaults[r].capacity)
        /\ e.totalUnits = m.totalUnits + (e.vaults[r].units - m.vaults[r].units)
        /\ e.totalClaimable = m.totalClaimable + (e.vaults[r].claimable - m.vaults[r].claimable)
        /\ e.totalBadDebt = m.totalBadDebt + (e.vaults[r].badDebt - m.vaults[r].badDebt)
    <3>1. /\ m.vaults[r].claimable \in Nat /\ m.vaults[r].badDebt \in Nat
          /\ m.vaults[r].capacity \in Nat /\ m.vaults[r].units \in Nat
          /\ m.totalClaimable \in Nat /\ m.totalBadDebt \in Nat
      BY <1>9 DEF VaultTyped, Typed
    <3>2. /\ \A a, b \in Nat : a = a + (b - b)
          /\ \A a, b, c \in Nat : a = a - c + (b + c - b)
      OBVIOUS
    <3>3. e.totalClaimable = m.totalClaimable /\ e.totalBadDebt = m.totalBadDebt
      BY <1>5, <1>6, <2>2
    <3>4. e.totalClaimable = m.totalClaimable + (e.vaults[r].claimable - m.vaults[r].claimable)
      BY <2>3, <3>1, <3>2, <3>3
    <3>5. e.totalBadDebt = m.totalBadDebt + (e.vaults[r].badDebt - m.vaults[r].badDebt)
      BY <2>3, <3>1, <3>2, <3>3
    <3>6. e.totalCapacity = m.totalCapacity + (e.vaults[r].capacity - m.vaults[r].capacity)
      BY <1>1, <1>5, <1>6, <2>2, <2>3, <3>1, <3>2
    <3>7. e.totalUnits = m.totalUnits + (e.vaults[r].units - m.vaults[r].units)
      BY <1>1, <1>3, <1>5, <1>6, <2>2, <2>3, <3>1, <3>2
    <3> QED
      BY <3>4, <3>5, <3>6, <3>7
  <2>6. Edited(m, r, e, st)
    <3>1. /\ e.feeIndex = m.feeIndex /\ e.uncheckpointed = m.uncheckpointed
          /\ e.owedRemainder = m.owedRemainder /\ e.unallocated = m.unallocated
          /\ e.totalCapacity = e.feeEligible
      BY <1>1, <1>5, <1>6, <2>2
    <3>2. /\ e.indexRemainder \in Nat /\ e.collateral \in Nat /\ e.shareSupply \in Nat
          /\ e.lastUpdated \in Nat /\ e.retentionRate \in 0..PRICE_PRECISION
      BY <1>1, <1>6, <2>2 DEF Typed
    <3> QED
      BY <1>9, <2>2, <2>3, <2>4, <2>5, <3>1, <3>2 DEF Edited
  <2>7. Sound(e, st)
    BY <1>4, <2>6, EditSound
  <2> QED
    BY <1>6, <2>2, <2>7 DEF SameMoney
<1> QED
  BY <1>10, <1>11

\* performLiquidation neither makes nor loses units, capacity, ETH or REP.
LEMMA LiquidationKeeps ==
    ASSUME IInv, NEW r \in Vault, NEW t \in Vault, NEW requested \in EthAmount, NEW h \in HealthFactor,
           performLiquidation(r, t, requested, h)
    PROVE  Kept
<1>0. /\ World /\ EthSolvent /\ SharesCounted /\ Typed(pool) /\ ClaimBase \in Nat
  BY IInvFacts
<1> DEFINE s == updateVaultFees(updateVaultFees(pool, t), r)
           remaining == IF requested >= getVaultOpenInterest(s, t) THEN 0 ELSE minimumVaultRepDeposit
           quote == calculateBundledLiquidationTransfer(s, t, requested, remaining)
           debt == DebtTaken(s, r, quote.capacity)
           written == WrittenOff(s, t, requested, debt)
           after == Liquidated(s, r, t, quote.capacity, debt, written)
<1>1. /\ isOperational /\ priceValid /\ AccrualIsPaid /\ r # t
      /\ quote.funded /\ 0 <= debt /\ debt <= quote.debt /\ ~(quote.debt # 0 /\ debt = 0)
      /\ LiquidationAward(s, debt) <= quote.units
      /\ pool' = after
      /\ UNCHANGED <<world, poolRep, wallet, staked, shares, ethBalance, fork>>
  BY DEF performLiquidation
<1>2. /\ systemState = "Operational" /\ price > 0 /\ requested \in Nat /\ remaining \in Nat
  BY <1>0, <1>1, AmountFacts, PrecisionFacts DEF isOperational, World
<1>3. Serviced(pool, s) /\ Fresh(s, r) /\ Fresh(s, t) /\ Typed(s)
  BY <1>1, BothRefreshed
<1> HIDE DEF s
<1>4. /\ getVaultOpenInterest(s, t) \in Nat /\ getVaultOpenInterest(s, r) \in Nat
      /\ s.vaults[r].capacity \in Nat /\ s.vaults[t].capacity \in Nat /\ s.vaults[t].units \in Nat
  BY <1>3, OpenInterestNat DEF getVaultOpenInterest, Typed, VaultTyped
<1> HIDE DEF remaining
<1>5. /\ quote.debt \in Nat /\ quote.debt <= getVaultOpenInterest(s, t)
      /\ quote.capacity \in Nat /\ quote.capacity <= s.vaults[t].capacity
      /\ quote.units \in Nat /\ (quote.funded => quote.units <= s.vaults[t].units)
      /\ quote.debt = 0 => quote.capacity = 0
  BY <1>0, <1>2, <1>3, TransferBounds
<1> HIDE DEF quote
<1>6. debt \in Nat
  <2> DEFINE capacity == s.vaults[r].capacity + quote.capacity
  <2>1. capacity \in Nat
    BY <1>4, <1>5
  <2>2. debt = OpenInterestOf(s, r, capacity) - getVaultOpenInterest(s, r)
    BY DEF DebtTaken
  <2> HIDE DEF capacity, debt
  <2>3. OpenInterestOf(s, r, capacity) \in Nat
    BY <1>3, <2>1, OpenInterestNat
  <2> QED
    BY <1>1, <1>4, <2>2, <2>3 DEF debt
<1> HIDE DEF debt
<1>7. written \in Nat
  BY <1>1, <1>4, <1>5, <1>6 DEF WrittenOff
<1> HIDE DEF written
<1>8. /\ LiquidationAward(s, debt) \in Nat /\ LiquidationAward(s, debt) <= s.vaults[t].units
      /\ debt = 0 => quote.capacity = 0 /\ LiquidationAward(s, debt) = 0
  <2>1. LiquidationAward(s, debt) \in Nat /\ (debt = 0 => LiquidationAward(s, debt) = 0)
    BY <1>0, <1>3, <1>6, AwardFacts
  <2>2. LiquidationAward(s, debt) <= s.vaults[t].units
    BY <1>1, <1>4, <1>5, <2>1
  <2>3. debt = 0 => quote.capacity = 0
    BY <1>1, <1>5
  <2> QED
    BY <2>1, <2>2, <2>3
<1>9. Sound(pool', systemState) /\ SameMoney(s, pool') /\ pool'.totalUnits = s.totalUnits
  <2> DEFINE capacity == quote.capacity
  <2>1. Sound(s, systemState)
    BY <1>3 DEF Serviced
  <2>2. pool' = Liquidated(s, r, t, capacity, debt, written)
    BY <1>1
  <2>3. /\ capacity \in Nat /\ capacity <= s.vaults[t].capacity
        /\ debt = 0 => capacity = 0 /\ LiquidationAward(s, debt) = 0
    BY <1>5, <1>8
  <2> HIDE DEF capacity
  <2> QED
    BY <1>1, <1>2, <1>3, <1>6, <1>7, <1>8, <2>1, <2>2, <2>3, LiquidatedSound
<1> HIDE DEF after
<1>10. ClockOf(pool')
  BY <1>3, <1>9 DEF SameMoney, ClockOf, Serviced
<1>11. World'
  BY <1>0, <1>1 DEF World, world
<1>12. ethBalance' = pool'.collateral + pool'.totalClaimable + pool'.unallocated
  BY <1>0, <1>1, <1>3, <1>9 DEF SameMoney, Serviced, SameStakes, EthSolvent
<1>13. SharesCounted'
  BY <1>0, <1>1, <1>3, <1>9 DEF SameMoney, Serviced, SameStakes, SharesCounted
<1>14. IInv'
  BY <1>1, <1>2, <1>9, <1>10, <1>11, <1>12, <1>13, OperatingStep DEF world
<1>15. VaultsFair
  <2>1. pool'.totalUnits = pool.totalUnits /\ ClaimBase' = ClaimBase
    BY <1>1, <1>3, <1>9 DEF ClaimBase, world, Serviced, SameStakes
  <2>2. ClaimBase * pool.totalUnits \in Nat
    BY <1>0, ProductNat DEF Typed
  <2> QED
    BY <2>1, <2>2 DEF VaultsFair
<1>16. SetsFair
  BY <1>1 DEF SetsFair
<1> QED
  BY <1>14, <1>15, <1>16 DEF Kept

\* activateForkMode: what the pool holds is what the children will share.
LEMMA ForkKeeps ==
    ASSUME IInv, initiateSecurityPoolFork
    PROVE  Kept
<1>0. /\ World /\ EthSolvent /\ SharesCounted /\ Forked /\ Typed(pool) /\ ClaimBase \in Nat
  BY IInvFacts
<1> DEFINE s == updateSettlementCollateral(pool)
<1>1. /\ forkTime > 0 /\ systemState = "Operational" /\ AccrualIsPaid
      /\ systemState' = "PoolForked" /\ pool' = s /\ poolRep' = 0
      /\ fork' = [fork EXCEPT !.activated = now, !.rep = poolRep, !.collateral = s.collateral]
      /\ UNCHANGED <<now, forkTime, price, priceValid, game, wallet, staked, shares, ethBalance>>
  BY DEF initiateSecurityPoolFork
<1>2. Serviced(pool, s) /\ Typed(s)
  BY <1>1, PoolSettled
<1> HIDE DEF s
<1>3. Sound(pool', systemState')
  BY <1>1, <1>2 DEF Serviced, Sound, Totals, Fees
<1>4. ClockOf(pool)'
  <2>1. Min({now, feeEndDate}) = forkTime
    BY <1>0, <1>1, UntilFacts
  <2>2. s.lastUpdated <= now /\ s.lastUpdated <= forkTime /\ forkTime <= s.lastUpdated
    BY <1>1, <1>2, <2>1 DEF Serviced, ClockOf, UpToDate
  <2>3. s.lastUpdated = forkTime
    BY <1>0, <1>2, <2>2 DEF World, Typed
  <2> QED
    BY <1>1, <2>2, <2>3 DEF ClockOf
<1>5. World'
  BY <1>0, <1>1 DEF World
<1>6. EthSolvent'
  BY <1>0, <1>1, <1>2 DEF Serviced, SameStakes, EthSolvent
<1>7. SharesCounted'
  BY <1>0, <1>1, <1>2 DEF Serviced, SameStakes, SharesCounted
<1>8. /\ DOMAIN fork' = ForkFields /\ fork'.activated = now /\ fork'.rep = poolRep
      /\ fork'.collateral = s.collateral /\ fork'.allocated = 0 /\ fork'.transferred = 0
      /\ fork'.units = fork.units /\ fork'.migrated = fork.migrated
  BY <1>0, <1>1 DEF Forked, ForkFields
<1>9. /\ fork.units \in [Child -> Nat] /\ fork.migrated \in [Child -> Nat]
      /\ \A c \in Child : fork.units[c] = 0 /\ fork.migrated[c] = 0
  BY <1>0, <1>1 DEF Forked
<1>10. /\ SumFunctionOnSet(fork.units, Child) = 0 /\ SumFunctionOnSet(fork.migrated, Child) = 0
  BY <1>9, PrecisionFacts, SumZero
<1>11. Forked'
  <2>1. now \in Nat /\ poolRep \in Nat /\ s.collateral \in Nat /\ s.totalUnits \in Nat
    BY <1>0, <1>2 DEF World, Typed
  <2>2. pool'.totalUnits = SumOf(UnitsOf(pool')) + 0
    BY <1>1, <1>2 DEF Serviced, Sound, Totals, Typed
  <2>3. \A c \in Child : fork'.migrated[c] * pool'.totalUnits <= fork'.units[c] * fork'.rep
    BY <1>1, <1>8, <1>9, <2>1
  <2>4. fork'.rep > 0 => 0 <= CeilDiv(fork'.collateral * fork'.allocated, fork'.rep)
    <3> DEFINE a == fork'.collateral * fork'.allocated
               b == fork'.rep
    <3>1. a \in Nat /\ b \in Nat
      BY <1>8, <2>1
    <3> HIDE DEF a, b
    <3>2. b > 0 => CeilDiv(a, b) \in Nat
      BY <3>1, CeilDivFacts
    <3> QED
      BY <3>2 DEF a, b
  <2> QED
    BY <1>1, <1>8, <1>9, <1>10, <2>1, <2>2, <2>3, <2>4 DEF Forked
<1>12. IInv'
  BY <1>3, <1>4, <1>5, <1>6, <1>7, <1>11 DEF IInv
<1>13. VaultsFair
  <2>1. pool'.totalUnits = pool.totalUnits
    BY <1>1, <1>2 DEF Serviced, SameStakes
  <2>2. ClaimBase' = ClaimBase
    BY <1>1, <1>8 DEF ClaimBase
  <2>3. ClaimBase * pool.totalUnits \in Nat
    BY <1>0, ProductNat DEF Typed
  <2> QED
    BY <2>1, <2>2, <2>3 DEF VaultsFair
<1>14. SetsFair
  BY <1>1 DEF SetsFair
<1> QED
  BY <1>12, <1>13, <1>14 DEF Kept

\* The units that left to the children and those still in the pool are all there are.
LEMMA UnitsConserved ==
    ASSUME IInv, systemState = "PoolForked", NEW s, Serviced(pool, s), NEW v \in Vault, NEW c \in Child
    PROVE  /\ s.totalUnits \in Nat /\ s.totalUnits = pool.totalUnits
           /\ s.vaults[v].units \in Nat /\ fork.units[c] \in Nat
           /\ SumFunctionOnSet(fork.units, Child) \in Nat
           /\ fork.units[c] <= SumFunctionOnSet(fork.units, Child)
           /\ SumFunctionOnSet(fork.units, Child) + s.vaults[v].units <= s.totalUnits
<1>1. Forked /\ Typed(s) /\ UnitsOf(s) = UnitsOf(pool) /\ s.totalUnits = pool.totalUnits
  BY IInvFacts DEF Serviced, Sound, SameStakes, UnitsOf
<1>2. \A x \in Child : fork.units[x] \in Nat
  BY <1>1 DEF Forked
<1>3. /\ SumFunctionOnSet(fork.units, Child) \in Nat
      /\ fork.units[c] <= SumFunctionOnSet(fork.units, Child)
  BY <1>2, PrecisionFacts, SumNat, SumTerm
<1>4. s.totalUnits = SumOf(UnitsOf(s)) + SumFunctionOnSet(fork.units, Child)
  BY <1>1 DEF Forked
<1>5. UnitsOf(s)[v] <= SumOf(UnitsOf(s)) /\ SumOf(UnitsOf(s)) \in Nat /\ UnitsOf(s)[v] \in Nat
  <2>1. \A u \in Vault : UnitsOf(s)[u] \in Nat
    BY <1>1, SumsTyped
  <2>2. SumOf(UnitsOf(s)) \in Nat
    BY <1>1, SumsTyped
  <2> QED
    BY <2>1, <2>2, PrecisionFacts, SumTerm DEF SumOf
<1>6. UnitsOf(s)[v] = s.vaults[v].units
  BY DEF UnitsOf
<1> QED
  BY <1>1, <1>2, <1>3, <1>4, <1>5, <1>6 DEF Typed

\* A child never has more of the REP than of the units.
LEMMA MigratedFacts ==
    ASSUME IInv, systemState = "PoolForked", NEW s, Serviced(pool, s), NEW v \in Vault, NEW c \in Child,
           NEW rep, rep = MigratedRep(s, v, c)
    PROVE  /\ rep \in Nat
           /\ (fork.migrated[c] + rep) * s.totalUnits <= (fork.units[c] + s.vaults[v].units) * fork.rep
           /\ rep > 0 => fork.rep > 0 /\ s.totalUnits > 0
<1> DEFINE T == s.totalUnits
           R == fork.rep
           u == s.vaults[v].units
           U == fork.units[c]
           M == fork.migrated[c]
<1>1. /\ T \in Nat /\ R \in Nat /\ u \in Nat /\ U \in Nat /\ M \in Nat /\ U + u <= T
      /\ M * T <= U * R
  <2>1. Forked
    BY IInvFacts
  <2>2. T = pool.totalUnits /\ T \in Nat /\ u \in Nat /\ U \in Nat /\ U + u <= T
    BY UnitsConserved
  <2> QED
    BY <2>1, <2>2 DEF Forked
<1>2. rep = IF T = 0 \/ R = 0 \/ u = 0 THEN 0
            ELSE IF U + u = T THEN R - M ELSE (u * R) \div T
  BY DEF MigratedRep
<1> HIDE DEF T, R, u, U, M
<1>3. /\ M * T \in Nat /\ U * R \in Nat /\ u * R \in Nat /\ T * R \in Nat
      /\ (U + u) * R = U * R + u * R
  BY <1>1, ProductNat
<1>4. CASE T = 0 \/ R = 0 \/ u = 0
  <2>1. rep = 0
    BY <1>2, <1>4
  <2>2. (M + 0) * T = M * T
    BY <1>1
  <2> QED
    BY <1>1, <1>3, <2>1, <2>2 DEF T, R, u, U, M
<1>5. CASE ~(T = 0 \/ R = 0 \/ u = 0) /\ U + u = T
  <2>1. rep = R - M
    BY <1>2, <1>5
  <2>2. U * R <= T * R
    BY <1>1, ProductMonotone
  <2>3. T * M <= T * R
    BY <1>1, <1>3, <2>2, ProductNat
  <2>4. M <= R
    BY <1>1, <1>5, <2>3, FactorAtMost
  <2>5. rep \in Nat /\ M + rep = R
    BY <1>1, <2>1, <2>4
  <2>6. R * T = T * R
    BY <1>1, ProductNat
  <2> QED
    BY <1>1, <1>3, <1>5, <2>5, <2>6 DEF T, R, u, U, M
<1>6. CASE ~(T = 0 \/ R = 0 \/ u = 0) /\ U + u # T
  <2>1. rep = (u * R) \div T
    BY <1>2, <1>6
  <2>2. rep \in Nat /\ T * rep <= u * R
    BY <1>1, <1>3, <1>6, <2>1, Quotient
  <2>3. (M + rep) * T = M * T + T * rep /\ T * rep \in Nat
    BY <1>1, <2>2, ProductNat
  <2>4. (M + rep) * T <= (U + u) * R
    BY <1>1, <1>3, <2>2, <2>3
  <2> QED
    BY <1>1, <1>6, <2>2, <2>4 DEF T, R, u, U, M
<1> QED
  BY <1>4, <1>5, <1>6

\* The children together never have more of the REP than there is.
LEMMA AllocationFits ==
    ASSUME IInv, systemState = "PoolForked", NEW s, Serviced(pool, s), NEW v \in Vault, NEW c \in Child,
           NEW rep, rep = MigratedRep(s, v, c)
    PROVE  fork.collateral > 0 => fork.allocated + rep <= fork.rep
<1> DEFINE T == s.totalUnits
           R == fork.rep
           u == s.vaults[v].units
           migrated == [fork.migrated EXCEPT ![c] = @ + rep]
           units == [fork.units EXCEPT ![c] = @ + u]
           M == SumFunctionOnSet(migrated, Child)
           U == SumFunctionOnSet(units, Child)
<1>1. /\ Forked /\ R \in Nat /\ fork.allocated \in Nat /\ fork.allocated <= R
      /\ fork.units \in [Child -> Nat] /\ fork.migrated \in [Child -> Nat]
      /\ \A x \in Child : fork.migrated[x] * T <= fork.units[x] * R
      /\ fork.collateral > 0 => fork.allocated = SumFunctionOnSet(fork.migrated, Child)
  BY IInvFacts, UnitsConserved DEF Forked
<1>2. /\ rep \in Nat /\ (fork.migrated[c] + rep) * T <= (fork.units[c] + u) * R
      /\ rep > 0 => R > 0 /\ T > 0
  BY MigratedFacts
<1>3. /\ T \in Nat /\ u \in Nat /\ SumFunctionOnSet(fork.units, Child) + u <= T
  BY UnitsConserved
<1> HIDE DEF T, R, u
<1>4. /\ migrated \in [Child -> Nat] /\ units \in [Child -> Nat]
      /\ \A x \in Child : migrated[x] * T <= units[x] * R
  BY <1>1, <1>2, <1>3
<1>5. M = SumFunctionOnSet(fork.migrated, Child) + rep /\ U = SumFunctionOnSet(fork.units, Child) + u
  <2>1. fork.migrated \in [Child -> Int] /\ fork.units \in [Child -> Int] /\ rep \in Int /\ u \in Int
    BY <1>1, <1>2, <1>3
  <2> QED
    BY <2>1, PrecisionFacts, SumRaise
<1> HIDE DEF migrated, units
<1>6. M * T <= U * R
  <2> DEFINE left == [x \in Child |-> migrated[x] * T]
             right == [x \in Child |-> units[x] * R]
  <2>1. \A x \in Child : /\ migrated[x] \in Int /\ units[x] \in Int
                         /\ left[x] = migrated[x] * T /\ right[x] = units[x] * R
                         /\ left[x] \in Int /\ right[x] \in Int /\ left[x] <= right[x]
    BY <1>1, <1>3, <1>4, ProductNat
  <2> HIDE DEF left, right
  <2>2. SumFunctionOnSet(left, Child) <= SumFunctionOnSet(right, Child)
    BY <2>1, PrecisionFacts, SumMonotone
  <2>3. SumFunctionOnSet(left, Child) = M * T
    BY <1>3, <2>1, PrecisionFacts, SumTimes
  <2>4. SumFunctionOnSet(right, Child) = U * R
    BY <1>1, <2>1, PrecisionFacts, SumTimes
  <2> QED
    BY <2>2, <2>3, <2>4
<1>7. M \in Nat /\ U \in Nat
  BY <1>4, PrecisionFacts, SumNat
<1> HIDE DEF M, U
<1>8. CASE rep = 0
  BY <1>1, <1>8 DEF R
<1>9. CASE rep > 0
  <2>1. U <= T
    BY <1>3, <1>5, <1>7
  <2>2. U * R <= T * R
    BY <1>1, <1>3, <1>7, <2>1, ProductMonotone
  <2>3. T * M = M * T /\ M * T \in Nat /\ U * R \in Nat /\ T * R \in Nat
    BY <1>1, <1>3, <1>7, ProductNat
  <2>4. T * M <= T * R
    BY <1>6, <2>2, <2>3
  <2>5. M <= R
    BY <1>1, <1>2, <1>3, <1>7, <1>9, <2>4, FactorAtMost
  <2> QED
    BY <1>1, <1>5, <2>5 DEF R
<1> QED
  BY <1>2, <1>8, <1>9

\* The collateral that goes to a child is there and is what the REP allocated so
\* far stands for, rounded up once.
LEMMA TransferFits ==
    ASSUME IInv, systemState = "PoolForked", NEW s, Serviced(pool, s), NEW v \in Vault, NEW c \in Child,
           NEW rep, rep = MigratedRep(s, v, c), NEW eth, eth = CollateralToTransfer(s, rep)
    PROVE  /\ eth \in Nat /\ eth <= s.collateral /\ Transferable(s, eth)
           /\ eth > 0 => rep > 0 /\ fork.collateral > 0
           /\ fork.rep > 0 =>
                fork.transferred + eth
                  <= CeilDiv(fork.collateral
                               * (fork.allocated + IF rep > 0 /\ fork.collateral > 0 THEN rep ELSE 0),
                             fork.rep)
<1> DEFINE R == fork.rep
           F == fork.collateral
           A == fork.allocated
           X == fork.transferred
           most == CeilDiv(F * (A + rep), R) - X
<1>1. /\ R \in Nat /\ F \in Nat /\ A \in Nat /\ X \in Nat
      /\ (R > 0 => X <= CeilDiv(F * A, R))
      /\ ethBalance = pool.collateral + pool.totalClaimable + pool.unallocated
  BY IInvFacts DEF Forked, EthSolvent
<1>2. rep \in Nat /\ (rep > 0 => R > 0)
  BY MigratedFacts
<1>3. /\ s.collateral \in Nat /\ s.totalClaimable \in Nat /\ s.unallocated \in Nat
      /\ ethBalance = s.collateral + s.totalClaimable + s.unallocated
  BY <1>1 DEF Serviced, Sound, Typed, SameStakes
<1>4. eth = IF rep = 0 \/ F = 0 THEN 0 ELSE Min({most, s.collateral})
  BY DEF CollateralToTransfer
<1>5. ASSUME eth \in Nat, eth <= s.collateral
      PROVE  Transferable(s, eth)
  BY <1>3, <1>5 DEF Transferable
<1> HIDE DEF R, F, A, X
<1>6. CASE rep = 0 \/ F = 0
  <2>1. eth = 0
    BY <1>4, <1>6
  <2>2. ~(rep > 0 /\ F > 0)
    BY <1>6
  <2>3. A + 0 = A
    BY <1>1
  <2> QED
    BY <1>1, <1>3, <1>5, <2>1, <2>2, <2>3 DEF R, F, A, X
<1>7. CASE ~(rep = 0 \/ F = 0)
  <2>1. rep > 0 /\ F > 0 /\ R > 0
    BY <1>1, <1>2, <1>7
  <2> DEFINE a == F * A
             b == F * (A + rep)
             upTo == CeilDiv(b, R)
  <2>2. a \in Nat /\ b \in Nat /\ a <= b
    <3>1. A + rep \in Nat /\ A <= A + rep
      BY <1>1, <1>2
    <3> QED
      BY <1>1, <3>1, ProductNat, ProductMonotone
  <2>3. most = upTo - X
    OBVIOUS
  <2> HIDE DEF a, b
  <2>4. CeilDiv(a, R) <= upTo /\ upTo \in Nat /\ CeilDiv(a, R) \in Nat
    BY <1>1, <2>1, <2>2, CeilDivMonotone, CeilDivFacts
  <2>5. X <= CeilDiv(a, R)
    BY <1>1, <2>1 DEF a
  <2> HIDE DEF upTo, most
  <2>6. most \in Nat /\ X + most = upTo
    BY <1>1, <2>3, <2>4, <2>5
  <2>7. eth \in Nat /\ eth <= s.collateral /\ eth <= most
    <3> DEFINE mine == s.collateral
    <3>1. mine \in Nat
      BY <1>3
    <3> HIDE DEF mine
    <3>2. Min({most, mine}) \in {most, mine} /\ Min({most, mine}) <= most /\ Min({most, mine}) <= mine
      BY <2>6, <3>1, MinTwo
    <3>3. eth = Min({most, mine})
      BY <1>4, <1>7 DEF mine
    <3> QED
      BY <2>6, <3>1, <3>2, <3>3 DEF mine
  <2>8. X + eth <= upTo
    BY <1>1, <2>6, <2>7
  <2> QED
    BY <1>5, <2>1, <2>7, <2>8 DEF upTo, b, R, F, A, X
<1> QED
  BY <1>6, <1>7

\* migrateVault: the child's REP stays within its units' part of the parent's, and the
\* collateral sent within the part of it that the REP of all children covers.
LEMMA MigrationKeeps ==
    ASSUME IInv, NEW v \in Vault, NEW c \in Child, migrateVault(v, c)
    PROVE  Kept
<1>0. /\ World /\ SharesCounted /\ Forked /\ Typed(pool) /\ ClaimBase \in Nat
  BY IInvFacts
<1> DEFINE s == updateVaultFees(pool, v)
           rep == MigratedRep(s, v, c)
           eth == CollateralToTransfer(s, rep)
           moves == rep > 0 /\ fork.collateral > 0
           allocated == fork.allocated + IF rep > 0 /\ fork.collateral > 0 THEN rep ELSE 0
           remainder == IF s.vaults[v].capacity # 0 THEN 0 ELSE s.indexRemainder
           e == Left(s, v, eth, remainder)
<1>1. /\ systemState = "PoolForked" /\ AccrualIsPaid
      /\ pool' = e
      /\ ethBalance' = ethBalance - eth
      /\ fork' = [fork EXCEPT !.units[c] = @ + s.vaults[v].units,
                              !.migrated[c] = @ + rep,
                              !.allocated = IF moves THEN @ + rep ELSE @,
                              !.transferred = @ + eth]
      /\ UNCHANGED <<world, poolRep, wallet, staked, shares>>
  BY DEF migrateVault, Left
<1>2. Serviced(pool, s) /\ Fresh(s, v) /\ Typed(s)
  BY <1>1, PoolRefreshed
<1> HIDE DEF s
<1>3. /\ rep \in Nat
      /\ (fork.migrated[c] + rep) * s.totalUnits <= (fork.units[c] + s.vaults[v].units) * fork.rep
      /\ rep > 0 => fork.rep > 0 /\ s.totalUnits > 0
  BY <1>1, <1>2, MigratedFacts
<1>4. fork.collateral > 0 => fork.allocated + rep <= fork.rep
  BY <1>1, <1>2, AllocationFits
<1>5. /\ eth \in Nat /\ eth <= s.collateral
      /\ eth > 0 => rep > 0 /\ fork.collateral > 0
      /\ fork.rep > 0 =>
           fork.transferred + eth <= CeilDiv(fork.collateral * allocated, fork.rep)
  <2>1. eth = CollateralToTransfer(s, rep) /\ rep = MigratedRep(s, v, c)
    OBVIOUS
  <2> HIDE DEF eth, rep
  <2> QED
    BY <1>1, <1>2, <2>1, TransferFits DEF allocated
<1>6. /\ s.totalUnits \in Nat /\ s.totalUnits = pool.totalUnits /\ s.vaults[v].units \in Nat
      /\ s.indexRemainder \in Nat /\ remainder \in Nat
  BY <1>1, <1>2, UnitsConserved DEF Typed
<1>7. /\ DOMAIN fork' = ForkFields /\ fork'.activated = fork.activated /\ fork'.rep = fork.rep
      /\ fork'.collateral = fork.collateral /\ fork'.allocated = allocated
      /\ fork'.transferred = fork.transferred + eth
      /\ fork'.units = [fork.units EXCEPT ![c] = @ + s.vaults[v].units]
      /\ fork'.migrated = [fork.migrated EXCEPT ![c] = @ + rep]
  <2>1. DOMAIN fork = ForkFields /\ fork.allocated \in Nat
    BY <1>0 DEF Forked
  <2> HIDE DEF rep, eth
  <2> QED
    BY <1>1, <2>1 DEF ForkFields
<1> HIDE DEF rep, eth, remainder
<1>8. /\ Sound(pool', systemState) /\ pool'.collateral = s.collateral - eth
      /\ pool'.unallocated = s.unallocated /\ pool'.totalClaimable = s.totalClaimable
      /\ pool'.shareSupply = s.shareSupply /\ pool'.lastUpdated = s.lastUpdated
      /\ pool'.totalUnits = s.totalUnits
      /\ SumOf(UnitsOf(pool')) = SumOf(UnitsOf(s)) - s.vaults[v].units
  <2>1. Sound(s, systemState) /\ systemState = "PoolForked"
    BY <1>1, <1>2 DEF Serviced
  <2>2. pool' = Left(s, v, eth, remainder) /\ Fresh(s, v) /\ eth \in Nat /\ eth <= s.collateral
    BY <1>1, <1>2, <1>5
  <2> HIDE DEF e
  <2>3. remainder \in Nat
    BY <1>6
  <2> DEFINE d == pool'
  <2>4. d = Left(s, v, eth, remainder)
    BY <2>2
  <2> HIDE DEF d
  <2>5. /\ Sound(d, systemState) /\ d.collateral = s.collateral - eth
        /\ d.unallocated = s.unallocated /\ d.totalClaimable = s.totalClaimable
        /\ d.shareSupply = s.shareSupply /\ d.lastUpdated = s.lastUpdated
        /\ d.totalUnits = s.totalUnits
        /\ SumOf(UnitsOf(d)) = SumOf(UnitsOf(s)) - s.vaults[v].units
    BY <2>1, <2>2, <2>3, <2>4, LeftSound
  <2> QED
    BY <2>5 DEF d
<1> HIDE DEF e
<1>9. ethBalance' = pool'.collateral + pool'.totalClaimable + pool'.unallocated /\ ethBalance' \in Nat
  <2>1. ethBalance = s.collateral + s.totalClaimable + s.unallocated
    BY <1>2, IInvFacts DEF Serviced, SameStakes, EthSolvent
  <2>2. /\ s.collateral \in Nat /\ s.totalClaimable \in Nat /\ s.unallocated \in Nat
    BY <1>2 DEF Typed
  <2> QED
    BY <1>1, <1>5, <1>8, <2>1, <2>2
<1>10. World'
  BY <1>0, <1>1, <1>9 DEF World, world
<1>11. ClockOf(pool)'
  BY <1>1, <1>2, <1>8 DEF Serviced, ClockOf, world
<1>12. SharesCounted'
  BY <1>0, <1>1, <1>2, <1>8 DEF Serviced, SameStakes, SharesCounted
<1>13. /\ fork'.units \in [Child -> Nat] /\ fork'.migrated \in [Child -> Nat]
       /\ \A x \in Child : fork'.migrated[x] * pool'.totalUnits <= fork'.units[x] * fork'.rep
       /\ fork'.allocated \in Nat /\ fork'.allocated <= fork'.rep
  <2>1. /\ fork.units \in [Child -> Nat] /\ fork.migrated \in [Child -> Nat]
        /\ \A x \in Child : fork.migrated[x] * pool.totalUnits <= fork.units[x] * fork.rep
        /\ fork.allocated \in Nat /\ fork.rep \in Nat /\ fork.allocated <= fork.rep
    BY <1>0 DEF Forked
  <2> HIDE DEF allocated
  <2>2. /\ fork'.units \in [Child -> Nat] /\ fork'.migrated \in [Child -> Nat]
        /\ \A x \in Child : fork'.migrated[x] * pool'.totalUnits <= fork'.units[x] * fork'.rep
    BY <1>3, <1>6, <1>7, <1>8, <2>1
  <2>3. allocated \in Nat /\ allocated <= fork.rep
    BY <1>3, <1>4, <2>1 DEF allocated
  <2> QED
    BY <1>7, <2>2, <2>3
<1>14. pool'.totalUnits = SumOf(UnitsOf(pool')) + SumFunctionOnSet(fork'.units, Child)
  <2>1. pool.totalUnits = SumOf(UnitsOf(pool)) + SumFunctionOnSet(fork.units, Child)
        /\ fork.units \in [Child -> Int]
    BY <1>0, <1>1 DEF Forked
  <2>2. UnitsOf(s) = UnitsOf(pool)
    BY <1>2 DEF Serviced, SameStakes, UnitsOf
  <2> DEFINE u == s.vaults[v].units
             f == fork.units
  <2>3. u \in Int
    BY <1>6
  <2>4. fork'.units = [f EXCEPT ![c] = @ + u] /\ f \in [Child -> Int]
    BY <1>7, <2>1
  <2> HIDE DEF u, f
  <2>5. SumFunctionOnSet([f EXCEPT ![c] = @ + u], Child) = SumFunctionOnSet(f, Child) + u
    <3>1. IsFiniteSet(Child)
      BY PrecisionFacts
    <3> QED
      BY <2>3, <2>4, <3>1, SumRaise
  <2>6. SumFunctionOnSet(fork.units, Child) \in Int /\ SumOf(UnitsOf(s)) \in Nat
    BY <1>2, <2>1, PrecisionFacts, SumInt, SumsTyped
  <2> QED
    BY <1>6, <1>8, <2>1, <2>2, <2>3, <2>4, <2>5, <2>6 DEF u, f
<1>15. fork'.allocated = IF fork'.collateral = 0 THEN 0 ELSE SumFunctionOnSet(fork'.migrated, Child)
  <2>1. /\ fork.allocated = IF fork.collateral = 0 THEN 0 ELSE SumFunctionOnSet(fork.migrated, Child)
        /\ fork.migrated \in [Child -> Int] /\ rep \in Int /\ fork.collateral \in Nat
        /\ fork.allocated \in Nat
    BY <1>0, <1>3 DEF Forked
  <2> DEFINE f == fork.migrated
  <2>2. fork'.migrated = [f EXCEPT ![c] = @ + rep] /\ f \in [Child -> Int]
    BY <1>7, <2>1
  <2> HIDE DEF f
  <2>3. SumFunctionOnSet([f EXCEPT ![c] = @ + rep], Child) = SumFunctionOnSet(f, Child) + rep
    <3>1. rep \in Int /\ IsFiniteSet(Child)
      BY <1>3, PrecisionFacts
    <3> QED
      BY <2>2, <3>1, SumRaise
  <2>4. SumFunctionOnSet(fork'.migrated, Child) = SumFunctionOnSet(fork.migrated, Child) + rep
    BY <2>2, <2>3 DEF f
  <2> QED
    BY <1>3, <1>7, <2>1, <2>4 DEF allocated
<1>16. /\ fork'.transferred \in Nat
       /\ fork'.rep = 0 => fork'.transferred = 0
       /\ fork'.rep > 0 => fork'.transferred <= CeilDiv(fork'.collateral * fork'.allocated, fork'.rep)
  <2>1. /\ fork.transferred \in Nat /\ fork.rep \in Nat /\ (fork.rep = 0 => fork.transferred = 0)
    BY <1>0 DEF Forked
  <2> HIDE DEF allocated
  <2> QED
    BY <1>3, <1>5, <1>7, <2>1
<1>17. Forked'
  <2> HIDE DEF allocated
  <2>1. /\ systemState' = "PoolForked" /\ fork'.activated \in Nat
        /\ fork'.rep \in Nat /\ fork'.collateral \in Nat
    BY <1>0, <1>1, <1>7 DEF world, Forked
  <2> QED
    BY <1>7, <1>13, <1>14, <1>15, <1>16, <2>1 DEF Forked
<1>18. IInv'
  <2>1. Sound(pool', systemState')
    BY <1>1, <1>8 DEF world
  <2> QED
    BY <1>9, <1>10, <1>11, <1>12, <1>17, <2>1 DEF IInv, EthSolvent
<1>19. VaultsFair
  <2>1. pool'.totalUnits = pool.totalUnits
    BY <1>6, <1>8
  <2>2. ClaimBase' = ClaimBase
    BY <1>1, <1>7 DEF ClaimBase, world
  <2>3. ClaimBase * pool.totalUnits \in Nat
    BY <1>0, ProductNat DEF Typed
  <2> QED
    BY <2>1, <2>2, <2>3 DEF VaultsFair
<1>20. SetsFair
  BY <1>1 DEF SetsFair
<1> QED
  BY <1>18, <1>19, <1>20 DEF Kept

\* The pool begins empty.
LEMMA InitKeeps == Init => IInv
<1> SUFFICES ASSUME Init PROVE IInv
  OBVIOUS
<1>1. World
  <2>1. priceValid = FALSE /\ priceValid \in BOOLEAN
    BY DEF Init
  <2>2. /\ now \in 0..MaxTime /\ forkTime \in 0..MaxTime /\ forkTime <= now /\ price \in Nat
        /\ game \in {"none", "open", "resolved"} /\ systemState \in {"Operational", "PoolForked"}
        /\ poolRep \in Nat /\ ethBalance \in Nat
    BY PrecisionFacts DEF Init
  <2>3. wallet \in [Vault -> Nat] /\ staked \in [Vault -> Nat] /\ shares \in [Trader -> Nat]
    BY PoolAssumption DEF Init
  <2>4. priceValid => price > 0
    BY <2>1
  <2> QED
    BY <2>1, <2>2, <2>3, <2>4 DEF World
<1>2. ClockOf(pool)
  BY DEF Init, ClockOf
<1>3. Typed(pool)
  BY PrecisionFacts DEF Init, Typed, VaultTyped, NewVault, PoolFields, VaultFields
<1>4. /\ \A v \in Vault : /\ UnitsOf(pool)[v] = 0 /\ CapacityOf(pool)[v] = 0
                          /\ ClaimableOf(pool)[v] = 0 /\ BadDebtOf(pool)[v] = 0
                          /\ StaleOf(pool)[v] = 0 /\ NumeratorOf(pool)[v] = 0
  BY DEF Init, NewVault, UnitsOf, CapacityOf, ClaimableOf, BadDebtOf, StaleOf, NumeratorOf,
         VaultFeeNumerator
<1>5. /\ SumOf(UnitsOf(pool)) = 0 /\ SumOf(CapacityOf(pool)) = 0
      /\ SumOf(ClaimableOf(pool)) = 0 /\ SumOf(BadDebtOf(pool)) = 0
      /\ SumOf(StaleOf(pool)) = 0 /\ SumOf(NumeratorOf(pool)) = 0
  BY <1>4, PrecisionFacts, SumZero DEF SumOf
<1>6. Totals(pool, systemState) /\ Fees(pool, systemState)
  BY <1>5, PrecisionFacts DEF Init, Totals, Fees
<1>7. EthSolvent
  BY DEF Init, EthSolvent
<1>8. SharesCounted
  <2>1. \A t \in Trader : shares[t] = 0
    BY DEF Init
  <2>2. SumFunctionOnSet(shares, Trader) = 0
    BY <2>1, PrecisionFacts, SumZero
  <2> QED
    BY <2>2 DEF Init, SharesCounted
<1>9. Forked
  <2>1. \A c \in Child : fork.migrated[c] = 0 /\ fork.units[c] = 0
    BY DEF Init
  <2>2. SumFunctionOnSet(fork.migrated, Child) = 0
    BY <2>1, PrecisionFacts, SumZero
  <2> QED
    BY <2>1, <2>2 DEF Init, Forked, ForkFields
<1> QED
  BY <1>1, <1>2, <1>3, <1>6, <1>7, <1>8, <1>9 DEF IInv, Sound

\* Every step keeps the invariant, and neither dilutes a set nor a vault where it may not.
LEMMA NextKeeps == IInv /\ Next => Kept
<1> SUFFICES ASSUME IInv, Next PROVE Kept
  OBVIOUS
<1>1. CASE Tick \/ PriceGoesStale \/ QuestionResolves \/ UniverseForks
             \/ \E p \in Prices : OracleReports(p)
  BY <1>1, WorldKeeps
<1>2. CASE \E v \in Vault, rep \in RepAmount :
             \/ transferRepToPool(v, rep)
             \/ \E h \in HealthFactor : depositRepToVault(v, rep, h)
             \/ withdrawRepFromVault(v, rep)
             \/ depositToEscalationGame(v, rep)
  BY <1>2, TransferKeeps, DepositKeeps, WithdrawKeeps, StakeKeeps
<1>3. CASE \E v \in Vault : redeemRepFromVault(v) \/ redeemFees(v) \/ withdrawFromEscalationGame(v)
  BY <1>3, RedeemRepKeeps, FeesKeep, StakeBackKeeps
<1>4. CASE \E r, t \in Vault, debt \in EthAmount, h \in HealthFactor :
             performLiquidation(r, t, debt, h)
  BY <1>4, LiquidationKeeps
<1>5. CASE \E t \in Trader :
             \/ \E eth \in EthAmount : createCompleteSet(t, eth)
             \/ \E n \in ShareAmount : redeemCompleteSet(t, n)
             \/ redeemShares(t)
  BY <1>5, MintKeeps, RedeemSetKeeps, RedeemSharesKeeps
<1>6. CASE Checkpoint
  BY <1>6, CheckpointKeeps
<1>7. CASE initiateSecurityPoolFork
  BY <1>7, ForkKeeps
<1>8. CASE \E v \in Vault, c \in Child : migrateVault(v, c)
  BY <1>8, MigrationKeeps
<1> QED
  BY <1>1, <1>2, <1>3, <1>4, <1>5, <1>6, <1>7, <1>8 DEF Next

\* The invariant holds in every state, for any vaults, traders, children,
\* prices, amounts and retention rates.
THEOREM PoolInvariance == Spec => []IInv
<1>1. Init => IInv
  BY InitKeeps
<1>2. IInv /\ [Next]_vars => IInv'
  <2>1. ASSUME IInv, UNCHANGED vars
        PROVE  IInv'
    <3>1. UNCHANGED <<now, forkTime, price, priceValid, game, systemState, pool, poolRep, wallet,
                      staked, shares, ethBalance, fork>>
      BY <2>1 DEF vars
    <3> QED
      BY <2>1, <3>1 DEF IInv, World, ClockOf, EthSolvent, SharesCounted, Forked
  <2> QED
    BY <2>1, NextKeeps DEF Kept
<1> QED
  BY <1>1, <1>2, PTL DEF Spec

\* Types, and the totals of the pool: what it keeps beside its vaults agrees
\* with them, and no balance is driven below zero.
THEOREM PoolTotalsThm == Spec => []PoolTotals
<1>1. IInv => PoolTotals
  <2> SUFFICES ASSUME IInv PROVE PoolTotals
    OBVIOUS
  <2>0. /\ World /\ Typed(pool) /\ Totals(pool, systemState) /\ Forked
    BY IInvFacts DEF Sound
  <2>1. \A v \in Vault : \A k \in DOMAIN pool.vaults[v] : pool.vaults[v][k] \in Nat
    BY <2>0 DEF Typed, VaultTyped, VaultFields
  <2>2. \A k \in DOMAIN pool \ {"vaults"} : pool[k] \in Nat
    <3>1. pool.retentionRate \in Nat
      BY <2>0, PrecisionFacts DEF Typed
    <3> QED
      BY <2>0, <3>1 DEF Typed, PoolFields
  <2>3. \A k \in DOMAIN fork \ {"units", "migrated"} : fork[k] \in Nat
    BY <2>0 DEF Forked, ForkFields
  <2>4. TypeOK
    <3>1. now \in Nat /\ forkTime \in Nat
      BY <2>0, PrecisionFacts DEF World
    <3> QED
      BY <2>0, <2>1, <2>2, <2>3, <3>1 DEF TypeOK, World, Forked
  <2> QED
    BY <2>0, <2>4 DEF PoolTotals, Totals, ClaimableOf, BadDebtOf, StaleOf, CapacityOf, UnitsOf
<1> QED
  BY <1>1, PoolInvariance, PTL

\* Every wei the pool holds is accounted for once, and the reserve of accrued
\* fees is what the vaults have still to be assigned of them.
THEOREM PoolSolventThm == Spec => []PoolSolvent
<1>1. IInv => PoolSolvent
  <2> SUFFICES ASSUME IInv PROVE PoolSolvent
    OBVIOUS
  <2>1. World /\ Fees(pool, systemState) /\ EthSolvent
    BY IInvFacts DEF Sound
  <2>2. systemState # "Operational" => systemState = "PoolForked"
    BY <2>1 DEF World
  <2> QED
    BY <2>1, <2>2 DEF PoolSolvent, FeesFunded, Fees, NumeratorOf
<1> QED
  BY <1>1, PoolInvariance, PTL

\* A vault can always leave a forked pool for any child: its collateral is there,
\* and the REP allocated to the children stays within what the pool had.
THEOREM MigrationNeverRefusedThm == Spec => []MigrationNeverRefused
<1>1. IInv => MigrationNeverRefused
  <2> SUFFICES ASSUME IInv, systemState = "PoolForked", NEW v \in Vault, NEW c \in Child
               PROVE  \E s \in {updateVaultFees(pool, v)} :
                        LET rep == MigratedRep(s, v, c)
                        IN  /\ fork.allocated + rep <= fork.rep \/ fork.collateral = 0
                            /\ Transferable(s, CollateralToTransfer(s, rep))
    BY DEF MigrationNeverRefused
  <2>0. World /\ ClockOf(pool) /\ Typed(pool) /\ Forked
    BY IInvFacts
  <2> DEFINE s == updateVaultFees(pool, v)
             rep == MigratedRep(s, v, c)
             eth == CollateralToTransfer(s, rep)
  <2>1. AccrualIsPaid
    <3>1. Min({now, feeEndDate}) = forkTime /\ pool.lastUpdated = forkTime /\ forkTime <= forkTime
      BY <2>0, UntilFacts DEF World, ClockOf
    <3>2. updateSettlementCollateral(pool) = pool
      BY <3>1 DEF updateSettlementCollateral
    <3> QED
      BY <2>0, <3>2 DEF AccrualIsPaid, Typed
  <2>2. Serviced(pool, s)
    BY <2>1, PoolRefreshed
  <2> HIDE DEF s
  <2>3. fork.collateral > 0 => fork.allocated + rep <= fork.rep
    BY <2>2, AllocationFits
  <2>4. Transferable(s, eth)
    <3>1. eth = CollateralToTransfer(s, rep) /\ rep = MigratedRep(s, v, c)
      OBVIOUS
    <3> HIDE DEF eth, rep
    <3> QED
      BY <2>2, <3>1, TransferFits
  <2>5. fork.collateral \in Nat
    BY <2>0 DEF Forked
  <2>6. fork.allocated + rep <= fork.rep \/ fork.collateral = 0
    BY <2>3, <2>5
  <2> QED
    BY <2>4, <2>6 DEF s
<1> QED
  BY <1>1, PoolInvariance, PTL

\* Minting and redeeming leave at least the collateral behind each share that
\* the fees alone would have left.
THEOREM SetsNeverDilutedThm == Spec => SetsNeverDiluted
<1>1. IInv /\ [Next]_vars =>
        [shares' # shares =>
          LET accrued == updateSettlementCollateral(pool)
          IN  pool'.collateral * accrued.shareSupply >= accrued.collateral * pool'.shareSupply]_vars
  BY NextKeeps DEF Kept, SetsFair
<1> QED
  BY <1>1, PoolInvariance, PTL DEF Spec, SetsNeverDiluted

\* What is known of every claim in a state.
ClaimsWithin ==
    /\ ClaimBase \in Nat /\ pool.totalUnits \in Nat
    /\ \A v \in Vault : /\ pool.vaults[v].units \in Nat
                        /\ pool.vaults[v].units <= pool.totalUnits
                        /\ ClaimOf(v) = Part(pool.vaults[v].units, ClaimBase, pool.totalUnits)

\* A vault's claim is its units' part of the REP, and its units are within the total.
LEMMA ClaimFacts == IInv => ClaimsWithin
<1> SUFFICES ASSUME IInv PROVE ClaimsWithin
  OBVIOUS
<1>1. \A v \in Vault : ClaimOf(v) = Part(pool.vaults[v].units, ClaimBase, pool.totalUnits)
  BY UnitsToRepIsPart DEF ClaimOf, ClaimBase
<1>2. ClaimBase \in Nat /\ Typed(pool)
  BY IInvFacts
<1> QED
  BY <1>1, <1>2, UnitsWithin DEF ClaimsWithin, Typed

\* Only the vault whose units fall loses any claim on the REP of the pool or of
\* its children.
THEOREM VaultsNeverDilutedThm == Spec => VaultsNeverDiluted
<1>1. ASSUME ClaimsWithin, ClaimsWithin', VaultsFair, NEW v \in Vault,
             pool'.vaults[v].units >= pool.vaults[v].units
      PROVE  ClaimOf(v)' >= ClaimOf(v)
  <2> DEFINE u == pool.vaults[v].units
             p == ClaimBase
             t == pool.totalUnits
             u2 == pool'.vaults[v].units
             p2 == ClaimBase'
             t2 == pool'.totalUnits
  <2>1. /\ u \in Nat /\ p \in Nat /\ t \in Nat /\ u2 \in Nat /\ p2 \in Nat /\ t2 \in Nat
        /\ u <= u2 /\ u2 <= t2 /\ u <= t
        /\ ClaimOf(v) = Part(u, p, t) /\ ClaimOf(v)' = Part(u2, p2, t2)
    BY <1>1 DEF ClaimsWithin, Part
  <2>2. t = 0 \/ p * t2 <= p2 * t
    BY <1>1 DEF VaultsFair
  <2> HIDE DEF u, p, t, u2, p2, t2
  <2>3. Part(u, p, t) <= Part(u2, p2, t2)
    BY <2>1, <2>2, PartGrows
  <2>4. Part(u, p, t) \in Nat /\ Part(u2, p2, t2) \in Nat
    BY <2>1, PartFacts
  <2> QED
    BY <2>1, <2>3, <2>4
<1>2. IInv /\ ClaimsWithin /\ ClaimsWithin' /\ [Next]_vars =>
        [\A v \in Vault :
          pool'.vaults[v].units >= pool.vaults[v].units => ClaimOf(v)' >= ClaimOf(v)]_vars
  BY <1>1, NextKeeps DEF Kept
<1> QED
  BY <1>2, ClaimFacts, PoolInvariance, PTL DEF Spec, VaultsNeverDiluted
=============================================================================
