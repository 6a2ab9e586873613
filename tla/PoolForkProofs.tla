--------------------------- MODULE PoolForkProofs ---------------------------
(***************************************************************************)
(* What a forked pool and its children divide between them, for any finite *)
(* sets of vaults and children and any parent: collateral, backing units,  *)
(* capacity, bad debt, REP and shares.                                     *)
(*                                                                         *)
(* Sound says what a child's storage must be in each of its states, with   *)
(* the parent as a parameter, so that a step that edits one child is about *)
(* one record; Ledger relates the children to the parent, and SharesDue    *)
(* the children to their shares.                                           *)
(***************************************************************************)
EXTENDS PoolFork, SumTheorems, TLAPS

ParentFields ==
    {"ownFork", "hasGame", "sameQuestion", "poolRep", "gameRep", "collateral", "shareSupply",
     "price", "totalUnits", "totalCapacity", "totalBadDebt", "vaults", "unclaimed", "abandoned",
     "snapshot", "badDebtAtFork", "shares", "late", "decided", "traders", "traded", "prices"}
ChildFields ==
    {"state", "rep", "split", "game", "price", "vaults", "stale", "totals", "feeEligible",
     "uncheckpointed", "accrued", "collateral", "received", "shareSupply", "migrated",
     "migratedTotals", "raise", "cap", "purchased", "ethRaised", "won", "rate", "unassigned",
     "claimedRep", "bought", "moved"}
Positions == [Vault -> Amounts]
Winnings == [rep : Nat, capacity : Nat, badDebt : Nat]

-----------------------------------------------------------------------------
(* The parent.                                                             *)

\* What no step changes of a parent.
SameTerms(p, q) ==
    /\ q.ownFork = p.ownFork /\ q.hasGame = p.hasGame /\ q.sameQuestion = p.sameQuestion
    /\ q.poolRep = p.poolRep /\ q.gameRep = p.gameRep /\ q.shareSupply = p.shareSupply
    /\ q.price = p.price /\ q.totalUnits = p.totalUnits /\ q.totalCapacity = p.totalCapacity
    /\ q.abandoned = p.abandoned /\ q.snapshot = p.snapshot
    /\ q.badDebtAtFork = p.badDebtAtFork /\ q.decided = p.decided /\ q.late = p.late
    /\ q.shares = p.shares /\ q.traders = p.traders /\ q.traded = p.traded /\ q.prices = p.prices

ParentSound(p) ==
    /\ DOMAIN p = ParentFields
    /\ p.poolRep \in Nat /\ p.gameRep \in Nat /\ p.collateral \in Nat /\ p.shareSupply \in Nat
    /\ p.price \in Nat /\ p.totalUnits \in Nat /\ p.totalCapacity \in Nat
    /\ p.totalBadDebt \in Nat /\ p.snapshot \in Nat /\ p.badDebtAtFork \in Nat
    /\ p.vaults \in Positions /\ p.unclaimed \in Positions /\ p.abandoned \in Amounts
    /\ p.traders \subseteq Vault /\ p.traded \subseteq Child /\ p.prices \subseteq Nat
    /\ ~p.hasGame => p.gameRep = 0
    /\ p.hasGame => p.poolRep # 1
    /\ p.shareSupply = 0 => p.snapshot = 0
    /\ p.decided \subseteq Child /\ \A o, other \in p.decided : o = other

-----------------------------------------------------------------------------
(* A child.                                                                *)

Typed(ch) ==
    /\ DOMAIN ch = ChildFields
    /\ ch.state \in {"none", "ForkMigration", "ForkTruthAuction", "Operational"}
    /\ ch.rep \in Nat /\ ch.split \in Nat /\ ch.game \in Nat /\ ch.price \in Nat
    /\ ch.vaults \in Positions /\ ch.stale \subseteq Vault /\ ch.totals \in Amounts
    /\ ch.feeEligible \in Nat /\ ch.uncheckpointed \in Nat /\ ch.collateral \in Nat
    /\ ch.received \in Nat /\ ch.shareSupply \in Nat /\ ch.migrated \in Nat
    /\ ch.migratedTotals \in Amounts /\ ch.raise \in Nat /\ ch.cap \in Nat
    /\ ch.purchased \in Nat /\ ch.ethRaised \in Nat /\ ch.won \in [Vault -> Winnings]
    /\ ch.rate \in Nat /\ ch.unassigned \in Amounts /\ ch.claimedRep \in Nat
    /\ ch.bought \in [Vault -> Nat] /\ ch.moved \in [Vault -> Nat]

\* The REP that migrated stands for no more than its units do.
Migrating(p, ch) ==
    /\ ch.migrated <= p.poolRep
    /\ ch.migrated * p.totalUnits <= ch.migratedTotals.units * p.poolRep
    /\ p.totalUnits = 0 => ch.migrated = 0

Unborn(p, ch) ==
    ch.split <= p.poolRep /\ \A f \in ChildFields \ {"split"} : ch[f] = NoChild[f]

\* Until the child opens its vaults hold what migrated, its REP is what was split.
Closed(p, ch) ==
    /\ ch.rep = ch.split /\ ch.split <= p.poolRep /\ ch.migrated <= ch.split
    /\ ch.game <= p.gameRep /\ ch.totals.units = p.poolRep
    /\ HeldBy(ch) = [ch.migratedTotals EXCEPT !.units = ch.migrated]
    /\ \A v \in Vault : /\ ch.won[v] = NoWinnings /\ ch.bought[v] = 0
                        /\ ch.moved[v] = ch.vaults[v].units
    /\ ch.stale = {} /\ ch.uncheckpointed = 0 /\ ~ ch.accrued
    /\ ch.purchased = 0 /\ ch.ethRaised = 0 /\ ch.claimedRep = 0 /\ ch.collateral = 0

\* What the cap of an auction keeps back: something of the pool's REP for the
\* vaults that migrated, something of the inventory for the game.
CapSound(p, ch) ==
    LET combined == p.poolRep + ch.game
    IN  /\ ch.cap > 0 /\ ch.cap <= combined
        /\ ch.game > 0 => ch.cap < combined
        /\ ch.migrated > 0 => ch.cap * p.poolRep <= combined * (p.poolRep - 1)

InAuction(p, ch) ==
    /\ ch.rep = p.poolRep /\ ch.migrated < p.poolRep
    /\ ch.raise > 0 /\ ch.received + ch.raise = p.snapshot
    /\ ch.shareSupply = p.shareSupply
    /\ CapSound(p, ch)

WonRep(ch) == SumOf([v \in Vault |-> ch.won[v].rep])
WonCapacity(ch) == SumOf([v \in Vault |-> ch.won[v].capacity])
WonBadDebt(ch) == SumOf([v \in Vault |-> ch.won[v].badDebt])
Sold(ch) == ch.purchased > 0
Priced(ch) == Sold(ch) \/ ch.ethRaised = 0
UnitsPerRep(ch) == IF Sold(ch) THEN ch.rate ELSE 1
StaleCapacity(ch) == SumFunctionOnSet([v \in Vault |-> ch.vaults[v].capacity], ch.stale)

Positioned(ch) ==
    /\ Plus(HeldBy(ch), ch.unassigned) = ch.totals
    /\ WonRep(ch) * UnitsPerRep(ch) <= ch.unassigned.units
    /\ WonRep(ch) + ch.claimedRep = ch.purchased
    /\ ch.ethRaised > 0 => /\ WonCapacity(ch) = ch.unassigned.capacity
                           /\ WonBadDebt(ch) = ch.unassigned.badDebt
    /\ ch.ethRaised = 0 => ch.purchased = 0 /\ \A v \in Vault : ch.won[v] = NoWinnings

FeesSound(ch) ==
    Priced(ch) =>
        /\ ch.feeEligible = HeldBy(ch).capacity
                              + IF Sold(ch) THEN ch.unassigned.capacity ELSE 0
        /\ ch.uncheckpointed = StaleCapacity(ch)
                              + IF ch.accrued /\ Sold(ch) THEN ch.unassigned.capacity ELSE 0

\* Every unit is worth what it was sold for, or what migrated.
Worth(ch) ==
    /\ UnitsPerRep(ch) > 0
    /\ ch.rep * UnitsPerRep(ch) >= ch.totals.units
    /\ \A v \in Vault :
         ch.vaults[v].units >= ch.bought[v] * UnitsPerRep(ch) + ch.moved[v]

Open(p, ch) == Positioned(ch) /\ FeesSound(ch) /\ Worth(ch) /\ ch.collateral <= p.snapshot

Sound(p, ch) ==
    /\ Typed(ch) /\ Migrating(p, ch)
    /\ ch.state = "none" => Unborn(p, ch)
    /\ ch.state \in {"ForkMigration", "ForkTruthAuction"} => Closed(p, ch)
    /\ ch.state = "ForkTruthAuction" => InAuction(p, ch)
    /\ ch.state = "Operational" => Open(p, ch)

-----------------------------------------------------------------------------
(* The children together, and their shares.                                *)

UnitsMigrated == SumFunctionOnSet([c \in Child |-> children[c].migratedTotals.units], Child)
CapacityMigrated == SumFunctionOnSet([c \in Child |-> children[c].migratedTotals.capacity], Child)
BadDebtMigrated == SumFunctionOnSet([c \in Child |-> children[c].migratedTotals.badDebt], Child)

Ledger ==
    /\ DOMAIN forkData = {"allocated", "transferred"}
    /\ HeldBy(parent).units + Total(parent.unclaimed).units + UnitsMigrated <= parent.totalUnits
    /\ HeldBy(parent).capacity + Total(parent.unclaimed).capacity + CapacityMigrated
         <= parent.totalCapacity
    /\ HeldBy(parent).badDebt + Total(parent.unclaimed).badDebt + parent.abandoned.badDebt
         = parent.totalBadDebt
    /\ parent.totalBadDebt + BadDebtMigrated = parent.badDebtAtFork
    /\ parent.collateral + Received = parent.snapshot
    /\ forkData.transferred = Received
    /\ forkData.allocated = IF parent.snapshot = 0 THEN 0 ELSE Migrated
    /\ parent.poolRep > 0 =>
         Received = CeilDiv(parent.snapshot * Migrated, parent.poolRep)

\* The holder of a call in progress has used his source, and may not lower it.
CallSound(t, call) ==
    /\ DOMAIN call = {"holder", "outcome", "balance", "left"}
    /\ call.holder \in Vault /\ call.outcome \in Child /\ call.left \subseteq Child
    /\ call.balance \in Nat /\ call.balance <= t.source[call.outcome][call.holder]
    /\ t.locked[call.outcome][call.holder] = TRUE

TokenSound(t) ==
    /\ DOMAIN t = {"source", "late", "child", "migrated", "locked", "call"}
    /\ t.source \in Shares /\ t.late \in Shares
    /\ t.child \in [Child -> Shares] /\ t.migrated \in [Child -> Shares]
    /\ t.locked \in [Child -> [Vault -> BOOLEAN]]
    /\ \A c, o \in Child, v \in Vault :
         /\ t.migrated[c][o][v] <= t.source[o][v]
         /\ t.locked[o][v] = FALSE => t.migrated[c][o][v] = 0
    /\ \A call \in t.call : CallSound(t, call)

SharesDue(c) ==
    LET ch == children[c]
    IN  /\ ch.state \in {"none", "ForkMigration"} =>
             \A o \in Child :
                  /\ Claims(c, o) >= parent.shareSupply
                  /\ o \in Owed(c) => Claims(c, o) = parent.shareSupply
        /\ ch.state \in {"ForkTruthAuction", "Operational"} =>
             /\ \A o \in Child :
                  /\ Claims(c, o) >= ch.shareSupply
                  /\ o \in Owed(c) => Claims(c, o) = ch.shareSupply
             /\ ch.shareSupply = 0 => ch.collateral = 0

IInv ==
    /\ windowOpen \in BOOLEAN
    /\ ParentSound(parent)
    /\ DOMAIN children = Child
    /\ \A c \in Child : Sound(parent, children[c])
    /\ windowOpen => \A c \in Child : children[c].state \in {"none", "ForkMigration"}
    /\ Ledger
    /\ TokenSound(token)
    /\ \A c \in Child : SharesDue(c)

-----------------------------------------------------------------------------
(* Arithmetic of the auction.                                              *)

LEMMA ForkFacts ==
    /\ IsFiniteSet(Vault) /\ IsFiniteSet(Child) /\ Auctioned \subseteq Child
    /\ PRICE_PRECISION \in Nat /\ PRICE_PRECISION > 0
    /\ BPS_DENOMINATOR \in Nat /\ BPS_DENOMINATOR > 0
    /\ MAX_AUCTION_VAULT_HAIRCUT_DIVISOR \in Nat /\ MAX_AUCTION_VAULT_HAIRCUT_DIVISOR > 0
BY ForkAssumption

LEMMA MinTwo ==
    ASSUME NEW a \in Int, NEW b \in Int
    PROVE  Min({a, b}) = IF a <= b THEN a ELSE b
<1>1. \E x \in {a, b} : \A y \in {a, b} : x <= y
  OBVIOUS
<1> QED
  BY <1>1 DEF Min

LEMMA MaxTwo ==
    ASSUME NEW a \in Int, NEW b \in Int
    PROVE  Max({a, b}) = IF a <= b THEN b ELSE a
<1>1. \E x \in {a, b} : \A y \in {a, b} : x >= y
  OBVIOUS
<1> QED
  BY <1>1 DEF Max

\* Rounded up, the product with b reaches a, and that of no lesser number does.
LEMMA CeilDivFacts ==
    ASSUME NEW a \in Nat, NEW b \in Nat, b > 0
    PROVE  /\ CeilDiv(a, b) \in Nat /\ a <= b * CeilDiv(a, b)
           /\ \A n \in Nat : a <= n * b => CeilDiv(a, b) <= n
<1> DEFINE q == (a + b - 1) \div b
<1>1. a + b - 1 \in Nat
  OBVIOUS
<1>2. q \in Nat /\ b * q <= a + b - 1 /\ a + b - 1 < b * q + b
  BY <1>1, Quotient
<1>3. ASSUME NEW n \in Nat, a <= n * b PROVE q <= n
  <2>1. n + 1 \in Nat /\ (n + 1) * b = n * b + b /\ n * b \in Nat
    OBVIOUS
  <2>2. a + b - 1 < (n + 1) * b
    BY <1>3, <2>1
  <2>3. q < n + 1
    BY <1>1, <2>1, <2>2, QuotientAtMost
  <2> QED
    BY <1>2, <2>3
<1> HIDE DEF q
<1>4. q \in Nat /\ a <= b * q /\ \A n \in Nat : a <= n * b => q <= n
  BY <1>2, <1>3
<1> QED
  BY <1>4 DEF CeilDiv, q

LEMMA CeilDivMonotone ==
    ASSUME NEW a \in Nat, NEW c \in Nat, a <= c, NEW b \in Nat, b > 0
    PROVE  CeilDiv(a, b) <= CeilDiv(c, b)
<1>1. CeilDiv(c, b) \in Nat /\ c <= b * CeilDiv(c, b)
  BY CeilDivFacts
<1>2. a <= CeilDiv(c, b) * b
  BY <1>1
<1> QED
  BY <1>1, <1>2, CeilDivFacts

\* Whole multiples come out of a quotient.
LEMMA QuotientShift ==
    ASSUME NEW a \in Nat, NEW b \in Nat, b > 0, NEW k \in Int, b * k + a \in Nat
    PROVE  (b * k + a) \div b = k + a \div b
<1> DEFINE q == a \div b
           m == (b * k + a) \div b
<1>1. q \in Nat /\ b * q <= a /\ a < b * q + b
  BY Quotient
<1>2. m \in Nat /\ b * m <= b * k + a /\ b * k + a < b * m + b
  BY Quotient
<1> HIDE DEF q, m
<1>3. /\ b * (k + q + 1) = b * k + b * q + b /\ b * (k + q) = b * k + b * q
      /\ b * (m + 1) = b * m + b
  BY <1>1, <1>2
<1>4. b * k \in Int /\ b * q \in Int /\ b * m \in Int
  BY <1>1, <1>2
<1>5. b * m < b * (k + q + 1) /\ b * (k + q) < b * (m + 1)
  BY <1>1, <1>2, <1>3, <1>4
<1>6. m < k + q + 1 /\ k + q < m + 1
  BY <1>1, <1>2, <1>5, FactorBelow
<1>7. m = k + q
  BY <1>1, <1>2, <1>6
<1> QED
  BY <1>7 DEF m, q

\* What the sale leaves the incumbents of the pool's REP is what the pool holds,
\* with the game's part of what was sold, beyond what was sold: both divisions
\* round the same way.
LEMMA IncumbentIsRest ==
    ASSUME NEW pool \in Nat, NEW staked \in Nat, NEW all \in Nat, all = pool + staked, all > 0,
           NEW sold \in Nat, sold <= all
    PROVE  (pool * (all - sold)) \div all = pool + (sold * staked) \div all - sold
<1> DEFINE part == sold * staked
<1>1. part \in Nat
  BY ProductNat
<1>2. all * (pool - sold) + part = pool * (all - sold)
  OBVIOUS
<1>3. pool * (all - sold) \in Nat
  <2>1. all - sold \in Nat
    OBVIOUS
  <2> QED
    BY <2>1, ProductNat
<1>4. (all * (pool - sold) + part) \div all = (pool - sold) + part \div all
  <2>1. pool - sold \in Int
    OBVIOUS
  <2> HIDE DEF part
  <2> QED
    BY <1>1, <1>2, <1>3, <2>1, QuotientShift
<1> HIDE DEF part
<1>5. part \div all \in Nat
  BY <1>1, Quotient
<1>6. (pool * (all - sold)) \div all = (pool - sold) + part \div all
  BY <1>2, <1>4
<1>7. (pool - sold) + part \div all = pool + part \div all - sold
  BY <1>5
<1> QED
  BY <1>6, <1>7 DEF part

\* What the cap holds back of all the REP, the pool's and the game's, for the part
\* that migrated, whose residue is at least one and less than the pool.
LEMMA RetainedFacts ==
    ASSUME NEW pool \in Nat, NEW all \in Nat, all >= pool, NEW migrated \in Nat, migrated < pool,
           NEW kept, kept = CeilDiv(CeilDiv(migrated, MAX_AUCTION_VAULT_HAIRCUT_DIVISOR) * all, pool)
    PROVE  /\ kept \in Nat /\ kept < all
           /\ migrated = 0 => kept = 0
           /\ migrated > 0 => kept > 0 /\ (all - kept) * pool <= all * (pool - 1)
<1> DEFINE divisor == MAX_AUCTION_VAULT_HAIRCUT_DIVISOR
           residue == CeilDiv(migrated, divisor)
           part == residue * all
<1>1. divisor \in Nat /\ divisor > 0 /\ pool > 0
  BY ForkFacts
<1> HIDE DEF divisor
<1>2. residue \in Nat /\ residue <= migrated /\ migrated <= divisor * residue
  <2>1. migrated <= migrated * divisor
    BY <1>1
  <2> QED
    BY <1>1, <2>1, CeilDivFacts
<1> HIDE DEF residue
<1>3. migrated > 0 => residue > 0
  BY <1>1, <1>2
<1>4. part \in Nat /\ part <= (pool - 1) * all /\ (residue > 0 => part >= all)
  <2>1. residue <= pool - 1 /\ pool - 1 \in Nat
    BY <1>2
  <2>2. part \in Nat /\ part <= (pool - 1) * all
    BY <1>1, <1>2, <2>1, ProductNat, ProductMonotone
  <2>3. residue > 0 => 1 * all <= residue * all
    BY <1>1, <1>2, ProductMonotone
  <2> QED
    BY <1>1, <2>2, <2>3
<1>5. residue = 0 => part = 0
  BY <1>1
<1> HIDE DEF part
<1>6. kept = CeilDiv(part, pool)
  BY DEF part, residue, divisor
<1>7. kept \in Nat /\ part <= pool * kept /\ \A n \in Nat : part <= n * pool => kept <= n
  BY <1>1, <1>4, <1>6, CeilDivFacts
<1>8. kept <= all - 1
  <2>1. (pool - 1) * all <= (all - 1) * pool /\ all - 1 \in Nat
    BY <1>1
  <2>2. (pool - 1) * all \in Int /\ (all - 1) * pool \in Int
    BY <1>1
  <2>3. part <= (all - 1) * pool
    BY <1>4, <2>1, <2>2
  <2> QED
    BY <1>7, <2>1, <2>3
<1>9. ASSUME migrated = 0 PROVE kept = 0
  <2>1. part <= 0 * pool
    BY <1>2, <1>5, <1>9
  <2> QED
    BY <1>7, <2>1
<1>10. ASSUME migrated > 0 PROVE kept > 0 /\ (all - kept) * pool <= all * (pool - 1)
  <2>1. part >= all /\ all <= pool * kept
    BY <1>1, <1>3, <1>4, <1>7, <1>10
  <2>2. (all - kept) * pool = all * pool - pool * kept /\ all * (pool - 1) = all * pool - all
    BY <1>1, <1>7
  <2>3. all * pool \in Int /\ pool * kept \in Int
    BY <1>1, <1>7
  <2>4. (all - kept) * pool <= all * (pool - 1)
    BY <1>1, <2>1, <2>2, <2>3
  <2>5. kept # 0
    BY <1>1, <2>1
  <2> QED
    BY <1>7, <2>4, <2>5
<1> QED
  BY <1>1, <1>7, <1>8, <1>9, <1>10

-----------------------------------------------------------------------------
(* Positions and their totals.                                             *)

UnitsOf(x) == [v \in Vault |-> x[v].units]
CapacityOf(x) == [v \in Vault |-> x[v].capacity]
BadDebtOf(x) == [v \in Vault |-> x[v].badDebt]

LEMMA AmountFields ==
    ASSUME NEW a
    PROVE  a \in Amounts <=> /\ a = [units |-> a.units, capacity |-> a.capacity,
                                     badDebt |-> a.badDebt]
                             /\ a.units \in Nat /\ a.capacity \in Nat /\ a.badDebt \in Nat
BY DEF Amounts

LEMMA TotalIsSums ==
    ASSUME NEW x
    PROVE  /\ Total(x).units = SumFunctionOnSet(UnitsOf(x), Vault)
           /\ Total(x).capacity = SumFunctionOnSet(CapacityOf(x), Vault)
           /\ Total(x).badDebt = SumFunctionOnSet(BadDebtOf(x), Vault)
           /\ Total(x) = [units |-> Total(x).units, capacity |-> Total(x).capacity,
                          badDebt |-> Total(x).badDebt]
BY DEF Total, SumOf, UnitsOf, CapacityOf, BadDebtOf

LEMMA PositionFields ==
    ASSUME NEW x \in Positions
    PROVE  \A v \in Vault : /\ x[v] \in Amounts /\ x[v].units \in Nat
                            /\ x[v].capacity \in Nat /\ x[v].badDebt \in Nat
                            /\ UnitsOf(x)[v] = x[v].units
                            /\ CapacityOf(x)[v] = x[v].capacity
                            /\ BadDebtOf(x)[v] = x[v].badDebt
BY DEF Positions, Amounts, UnitsOf, CapacityOf, BadDebtOf

\* A total is an amount that no position exceeds.
LEMMA TotalFacts ==
    ASSUME NEW x \in Positions
    PROVE  /\ Total(x) \in Amounts /\ Total(x).units \in Nat
           /\ Total(x).capacity \in Nat /\ Total(x).badDebt \in Nat
           /\ \A v \in Vault : x[v].units <= Total(x).units
<1>1. IsFiniteSet(Vault)
  BY ForkFacts
<1>2. \A v \in Vault : /\ UnitsOf(x)[v] \in Nat /\ CapacityOf(x)[v] \in Nat
                       /\ BadDebtOf(x)[v] \in Nat /\ UnitsOf(x)[v] = x[v].units
  BY PositionFields
<1>3. /\ SumFunctionOnSet(UnitsOf(x), Vault) \in Nat
      /\ SumFunctionOnSet(CapacityOf(x), Vault) \in Nat
      /\ SumFunctionOnSet(BadDebtOf(x), Vault) \in Nat
  BY <1>1, <1>2, SumNat
<1>4. \A v \in Vault : UnitsOf(x)[v] <= SumFunctionOnSet(UnitsOf(x), Vault)
  BY <1>1, <1>2, SumTerm
<1>5. Total(x).units \in Nat /\ Total(x).capacity \in Nat /\ Total(x).badDebt \in Nat
  BY <1>3, TotalIsSums
<1>6. Total(x) \in Amounts
  BY <1>5, TotalIsSums, AmountFields
<1> QED
  BY <1>2, <1>4, <1>5, <1>6, TotalIsSums

\* Replacing one position changes the totals by the difference.
LEMMA TotalChange ==
    ASSUME NEW x \in Positions, NEW v \in Vault, NEW a \in Amounts,
           NEW y, y = [x EXCEPT ![v] = a]
    PROVE  /\ y \in Positions
           /\ Total(y).units = Total(x).units + (a.units - x[v].units)
           /\ Total(y).capacity = Total(x).capacity + (a.capacity - x[v].capacity)
           /\ Total(y).badDebt = Total(x).badDebt + (a.badDebt - x[v].badDebt)
<1>1. IsFiniteSet(Vault)
  BY ForkFacts
<1>2. y \in Positions /\ y[v] = a /\ \A w \in Vault \ {v} : y[w] = x[w]
  BY DEF Positions
<1>3. \A w \in Vault : /\ UnitsOf(x)[w] \in Int /\ UnitsOf(y)[w] \in Int
                       /\ CapacityOf(x)[w] \in Int /\ CapacityOf(y)[w] \in Int
                       /\ BadDebtOf(x)[w] \in Int /\ BadDebtOf(y)[w] \in Int
  BY <1>2, PositionFields
<1>4. \A w \in Vault \ {v} : /\ UnitsOf(y)[w] = UnitsOf(x)[w]
                             /\ CapacityOf(y)[w] = CapacityOf(x)[w]
                             /\ BadDebtOf(y)[w] = BadDebtOf(x)[w]
  BY <1>2 DEF UnitsOf, CapacityOf, BadDebtOf
<1>5. /\ UnitsOf(y)[v] = a.units /\ UnitsOf(x)[v] = x[v].units
      /\ CapacityOf(y)[v] = a.capacity /\ CapacityOf(x)[v] = x[v].capacity
      /\ BadDebtOf(y)[v] = a.badDebt /\ BadDebtOf(x)[v] = x[v].badDebt
  BY <1>2 DEF UnitsOf, CapacityOf, BadDebtOf
<1>6. SumFunctionOnSet(UnitsOf(y), Vault)
        = SumFunctionOnSet(UnitsOf(x), Vault) + (UnitsOf(y)[v] - UnitsOf(x)[v])
  <2> DEFINE f == UnitsOf(x)
             g == UnitsOf(y)
  <2>1. /\ \A w \in Vault : f[w] \in Int /\ g[w] \in Int
        /\ \A w \in Vault \ {v} : g[w] = f[w]
    BY <1>3, <1>4
  <2> HIDE DEF f, g
  <2>2. SumFunctionOnSet(g, Vault) = SumFunctionOnSet(f, Vault) + (g[v] - f[v])
    BY <1>1, <2>1, SumChange
  <2> QED
    BY <2>2 DEF f, g
<1>7. SumFunctionOnSet(CapacityOf(y), Vault)
        = SumFunctionOnSet(CapacityOf(x), Vault) + (CapacityOf(y)[v] - CapacityOf(x)[v])
  <2> DEFINE f == CapacityOf(x)
             g == CapacityOf(y)
  <2>1. /\ \A w \in Vault : f[w] \in Int /\ g[w] \in Int
        /\ \A w \in Vault \ {v} : g[w] = f[w]
    BY <1>3, <1>4
  <2> HIDE DEF f, g
  <2>2. SumFunctionOnSet(g, Vault) = SumFunctionOnSet(f, Vault) + (g[v] - f[v])
    BY <1>1, <2>1, SumChange
  <2> QED
    BY <2>2 DEF f, g
<1>8. SumFunctionOnSet(BadDebtOf(y), Vault)
        = SumFunctionOnSet(BadDebtOf(x), Vault) + (BadDebtOf(y)[v] - BadDebtOf(x)[v])
  <2> DEFINE f == BadDebtOf(x)
             g == BadDebtOf(y)
  <2>1. /\ \A w \in Vault : f[w] \in Int /\ g[w] \in Int
        /\ \A w \in Vault \ {v} : g[w] = f[w]
    BY <1>3, <1>4
  <2> HIDE DEF f, g
  <2>2. SumFunctionOnSet(g, Vault) = SumFunctionOnSet(f, Vault) + (g[v] - f[v])
    BY <1>1, <2>1, SumChange
  <2> QED
    BY <2>2 DEF f, g
<1> QED
  BY <1>2, <1>5, <1>6, <1>7, <1>8, TotalIsSums

\* The same, of a vault whose position is replaced.
Replaced(x, y, v, a) == y = [x EXCEPT ![v] = a]

LEMMA TotalReplaced ==
    ASSUME NEW x \in Positions, NEW v \in Vault, NEW a \in Amounts,
           NEW y, Replaced(x, y, v, a)
    PROVE  /\ y \in Positions
           /\ Total(y).units = Total(x).units + (a.units - x[v].units)
           /\ Total(y).capacity = Total(x).capacity + (a.capacity - x[v].capacity)
           /\ Total(y).badDebt = Total(x).badDebt + (a.badDebt - x[v].badDebt)
<1>1. y = [x EXCEPT ![v] = a]
  BY DEF Replaced
<1> QED
  BY <1>1, TotalChange

LEMMA TotalOfNothing ==
    ASSUME NEW x, \A v \in Vault : x[v] = Nothing
    PROVE  Total(x) = Nothing
<1>1. IsFiniteSet(Vault)
  BY ForkFacts
<1>2. \A v \in Vault : UnitsOf(x)[v] = 0 /\ CapacityOf(x)[v] = 0 /\ BadDebtOf(x)[v] = 0
  BY DEF UnitsOf, CapacityOf, BadDebtOf, Nothing
<1>3. /\ SumFunctionOnSet(UnitsOf(x), Vault) = 0
      /\ SumFunctionOnSet(CapacityOf(x), Vault) = 0
      /\ SumFunctionOnSet(BadDebtOf(x), Vault) = 0
  BY <1>1, <1>2, SumZero
<1> QED
  BY <1>3, TotalIsSums DEF Nothing

-----------------------------------------------------------------------------
(* A child until its auction.                                              *)

\* What the ledger counts of a child is the same in ch and n.
SameMoved(ch, n) ==
    /\ n.migrated = ch.migrated /\ n.migratedTotals = ch.migratedTotals
    /\ n.received = ch.received

LEMMA NoChildTyped ==
    /\ Typed(NoChild) /\ \A v \in Vault : NoChild.vaults[v] = Nothing
    /\ NoChild.state = "none"
<1>1. Nothing \in Amounts /\ NoWinnings \in Winnings
  BY DEF Nothing, Amounts, NoWinnings, Winnings
<1> QED
  BY <1>1 DEF Typed, NoChild, ChildFields, Positions

\* A child nobody created holds nothing but what was split for it.
LEMMA UnbornFields ==
    ASSUME NEW p, NEW ch, Unborn(p, ch)
    PROVE  /\ ch.state = "none" /\ ch.rep = 0 /\ ch.game = 0
           /\ \A v \in Vault : /\ ch.vaults[v] = Nothing /\ ch.won[v] = NoWinnings
                               /\ ch.bought[v] = 0 /\ ch.moved[v] = 0
           /\ ch.totals = Nothing /\ ch.migratedTotals = Nothing
           /\ ch.migrated = 0 /\ ch.received = 0 /\ ch.shareSupply = 0
           /\ ch.stale = {} /\ ch.uncheckpointed = 0 /\ ~ ch.accrued
           /\ ch.purchased = 0 /\ ch.ethRaised = 0 /\ ch.claimedRep = 0 /\ ch.collateral = 0
<1>1. /\ ch.state = NoChild.state /\ ch.rep = NoChild.rep /\ ch.game = NoChild.game
      /\ ch.vaults = NoChild.vaults /\ ch.won = NoChild.won /\ ch.bought = NoChild.bought
      /\ ch.moved = NoChild.moved /\ ch.totals = NoChild.totals
      /\ ch.migratedTotals = NoChild.migratedTotals /\ ch.migrated = NoChild.migrated
      /\ ch.received = NoChild.received /\ ch.shareSupply = NoChild.shareSupply
      /\ ch.stale = NoChild.stale /\ ch.uncheckpointed = NoChild.uncheckpointed
      /\ ch.accrued = NoChild.accrued /\ ch.purchased = NoChild.purchased
      /\ ch.ethRaised = NoChild.ethRaised /\ ch.claimedRep = NoChild.claimedRep
      /\ ch.collateral = NoChild.collateral
  BY DEF Unborn, ChildFields
<1> QED
  BY <1>1 DEF NoChild

\* createChildUniverse: the child starts with the REP split for it.
LEMMA DeploySound ==
    ASSUME ParentSound(parent), NEW c \in Child, Sound(parent, children[c]),
           children[c].state \in {"none", "ForkMigration"},
           NEW n, n = _getOrDeployChildPool(c)
    PROVE  /\ Sound(parent, n) /\ n.state = "ForkMigration" /\ SameMoved(children[c], n)
           /\ n.split = children[c].split
<1> DEFINE ch == children[c]
<1>1. CASE ch.state # "none"
  BY <1>1 DEF _getOrDeployChildPool, SameMoved
<1>2. CASE ch.state = "none"
  <2>1. /\ Typed(ch) /\ Migrating(parent, ch) /\ Unborn(parent, ch)
    BY <1>2 DEF Sound
  <2>2. n = [ch EXCEPT !.state = "ForkMigration", !.rep = ch.split, !.game = parent.gameRep,
                       !.price = parent.price, !.totals.units = parent.poolRep]
    BY <1>2 DEF _getOrDeployChildPool
  <2> HIDE DEF ch
  <2>3. /\ DOMAIN n = ChildFields /\ n.state = "ForkMigration" /\ n.rep = ch.split
        /\ n.game = parent.gameRep /\ n.price = parent.price
        /\ n.totals = [ch.totals EXCEPT !.units = parent.poolRep]
        /\ n.split = ch.split /\ n.vaults = ch.vaults /\ n.stale = ch.stale
        /\ n.feeEligible = ch.feeEligible /\ n.uncheckpointed = ch.uncheckpointed
        /\ n.accrued = ch.accrued /\ n.collateral = ch.collateral /\ n.received = ch.received
        /\ n.shareSupply = ch.shareSupply /\ n.migrated = ch.migrated
        /\ n.migratedTotals = ch.migratedTotals /\ n.raise = ch.raise /\ n.cap = ch.cap
        /\ n.purchased = ch.purchased /\ n.ethRaised = ch.ethRaised /\ n.won = ch.won
        /\ n.rate = ch.rate /\ n.unassigned = ch.unassigned
        /\ n.claimedRep = ch.claimedRep /\ n.bought = ch.bought /\ n.moved = ch.moved
    BY <2>1, <2>2 DEF Typed, ChildFields
  <2>4. /\ ch.totals = Nothing /\ ch.migratedTotals = Nothing /\ ch.migrated = 0
        /\ \A v \in Vault : /\ ch.vaults[v] = Nothing /\ ch.won[v] = NoWinnings
                            /\ ch.bought[v] = 0 /\ ch.moved[v] = 0
        /\ ch.stale = {} /\ ch.uncheckpointed = 0 /\ ~ ch.accrued
        /\ ch.purchased = 0 /\ ch.ethRaised = 0 /\ ch.claimedRep = 0 /\ ch.collateral = 0
    BY <2>1, UnbornFields
  <2>5. /\ parent.poolRep \in Nat /\ parent.gameRep \in Nat /\ parent.price \in Nat
        /\ ch.split \in Nat /\ ch.split <= parent.poolRep
    BY <2>1 DEF ParentSound, Typed, Unborn
  <2>6. n.totals \in Amounts /\ n.totals.units = parent.poolRep
    BY <2>3, <2>4, <2>5 DEF Nothing, Amounts
  <2>7. Typed(n)
    BY <2>1, <2>3, <2>5, <2>6 DEF Typed
  <2>8. HeldBy(n) = [n.migratedTotals EXCEPT !.units = n.migrated]
    <3>1. Total(n.vaults) = Nothing
      BY <2>3, <2>4, TotalOfNothing
    <3> QED
      BY <2>3, <2>4, <3>1 DEF HeldBy, Nothing
  <2>9. Closed(parent, n)
    <3>1. \A v \in Vault : n.moved[v] = n.vaults[v].units
      BY <2>3, <2>4 DEF Nothing
    <3> QED
      BY <2>3, <2>4, <2>5, <2>6, <2>8, <3>1 DEF Closed
  <2>10. Migrating(parent, n)
    BY <2>1, <2>3 DEF Migrating
  <2> QED
    BY <2>3, <2>7, <2>9, <2>10 DEF Sound, SameMoved, ch
<1> QED
  BY <1>1, <1>2

\* migrateRepToZoltar and every migration: REP is split for a child up to what is
\* asked, within the pool's, and swept to it if it exists.
LEMMA SplitSound ==
    ASSUME ParentSound(parent), NEW ch, Sound(parent, ch), ch.state \in {"none", "ForkMigration"},
           NEW required \in Nat, required <= parent.poolRep,
           NEW n, n = _ensureChildPoolRepSplit(ch, required)
    PROVE  /\ Sound(parent, n) /\ n.state = ch.state /\ SameMoved(ch, n)
           /\ n.split >= required /\ n.split <= parent.poolRep /\ SplitAllowed(n)
           /\ ch.state = "ForkMigration" => n.rep = n.split
           /\ required = parent.poolRep => n.split = parent.poolRep
           /\ n.vaults = ch.vaults /\ n.totals = ch.totals /\ n.moved = ch.moved
<1> DEFINE split == Max({ch.split, required})
<1>1. Typed(ch) /\ Migrating(parent, ch) /\ ch.split \in Nat /\ ch.rep \in Nat /\ parent.poolRep \in Nat
  BY DEF Sound, Typed, ParentSound
<1>2. ch.split <= parent.poolRep
  BY DEF Sound, Unborn, Closed
<1>3. split \in Nat /\ split >= required /\ split >= ch.split /\ split <= parent.poolRep
  BY <1>1, <1>2, MaxTwo
<1>4. n = [ch EXCEPT !.split = split,
                     !.rep = IF ch.state = "none" THEN 0 ELSE ch.rep + split - ch.split]
  BY DEF _ensureChildPoolRepSplit
<1> HIDE DEF split
<1>5. /\ DOMAIN n = ChildFields /\ n.split = split
      /\ n.rep = IF ch.state = "none" THEN 0 ELSE ch.rep + split - ch.split
      /\ n.state = ch.state /\ n.game = ch.game /\ n.price = ch.price
      /\ n.totals = ch.totals /\ n.vaults = ch.vaults /\ n.stale = ch.stale
      /\ n.feeEligible = ch.feeEligible /\ n.uncheckpointed = ch.uncheckpointed
      /\ n.accrued = ch.accrued /\ n.collateral = ch.collateral /\ n.received = ch.received
      /\ n.shareSupply = ch.shareSupply /\ n.migrated = ch.migrated
      /\ n.migratedTotals = ch.migratedTotals /\ n.raise = ch.raise /\ n.cap = ch.cap
      /\ n.purchased = ch.purchased /\ n.ethRaised = ch.ethRaised /\ n.won = ch.won
      /\ n.rate = ch.rate /\ n.unassigned = ch.unassigned
      /\ n.claimedRep = ch.claimedRep /\ n.bought = ch.bought /\ n.moved = ch.moved
  BY <1>1, <1>4 DEF Typed, ChildFields
<1>6. n.rep \in Nat /\ (ch.state = "ForkMigration" => n.rep = n.split)
  BY <1>1, <1>3, <1>5 DEF Sound, Closed
<1>7. Typed(n)
  BY <1>1, <1>3, <1>5, <1>6 DEF Typed
<1>8. Migrating(parent, n)
  BY <1>1, <1>5 DEF Migrating
<1>9. ASSUME ch.state = "none" PROVE Unborn(parent, n)
  <2>1. Unborn(parent, ch)
    BY <1>9 DEF Sound
  <2>2. ch.rep = 0 /\ n.rep = 0
    BY <1>5, <1>9, <2>1, UnbornFields
  <2>3. \A f \in ChildFields \ {"split"} : n[f] = ch[f]
    BY <1>5, <2>2 DEF ChildFields
  <2> QED
    BY <1>3, <1>5, <2>1, <2>3 DEF Unborn
<1>10. ASSUME ch.state = "ForkMigration" PROVE Closed(parent, n)
  <2>1. Closed(parent, ch)
    BY <1>10 DEF Sound
  <2>2. ch.migrated <= ch.split /\ ch.migrated \in Nat
    BY <1>1, <2>1 DEF Closed, Typed
  <2> QED
    BY <1>1, <1>3, <1>5, <1>6, <1>10, <2>1, <2>2 DEF Closed, HeldBy
<1>11. Sound(parent, n)
  BY <1>5, <1>7, <1>8, <1>9, <1>10 DEF Sound
<1> QED
  BY <1>1, <1>3, <1>5, <1>6, <1>11 DEF SameMoved, SplitAllowed

\* claimForkedEscalationDeposits: stakes leave the child's game.
LEMMA DrainSound ==
    ASSUME NEW p, NEW ch, Sound(p, ch), ch.state = "ForkMigration", p.gameRep \in Nat,
           NEW rep \in Nat, rep <= ch.game,
           NEW n, n = [ch EXCEPT !.game = ch.game - rep]
    PROVE  Sound(p, n) /\ n.state = ch.state /\ SameMoved(ch, n)
<1>1. Typed(ch) /\ ch.game \in Nat /\ Migrating(p, ch) /\ Closed(p, ch)
  BY DEF Sound, Typed
<1>2. /\ DOMAIN n = ChildFields /\ n.game = ch.game - rep
      /\ n.state = ch.state /\ n.rep = ch.rep /\ n.split = ch.split /\ n.price = ch.price
      /\ n.totals = ch.totals /\ n.vaults = ch.vaults /\ n.stale = ch.stale
      /\ n.feeEligible = ch.feeEligible /\ n.uncheckpointed = ch.uncheckpointed
      /\ n.accrued = ch.accrued /\ n.collateral = ch.collateral /\ n.received = ch.received
      /\ n.shareSupply = ch.shareSupply /\ n.migrated = ch.migrated
      /\ n.migratedTotals = ch.migratedTotals /\ n.raise = ch.raise /\ n.cap = ch.cap
      /\ n.purchased = ch.purchased /\ n.ethRaised = ch.ethRaised /\ n.won = ch.won
      /\ n.rate = ch.rate /\ n.unassigned = ch.unassigned
      /\ n.claimedRep = ch.claimedRep /\ n.bought = ch.bought /\ n.moved = ch.moved
  BY <1>1 DEF Typed, ChildFields
<1>3. n.game \in Nat /\ n.game <= ch.game
  BY <1>1, <1>2
<1>4. Typed(n)
  BY <1>1, <1>2, <1>3 DEF Typed
<1>5. Closed(p, n)
  <2>1. n.game <= p.gameRep
    BY <1>1, <1>3 DEF Closed
  <2> QED
    BY <1>1, <1>2, <2>1 DEF Closed, HeldBy
<1>6. Migrating(p, n)
  BY <1>1, <1>2 DEF Migrating
<1> QED
  BY <1>2, <1>4, <1>5, <1>6 DEF Sound, SameMoved

\* openOracleCallback: the price is a number like any other.
LEMMA PriceSound ==
    ASSUME NEW p, NEW ch, Sound(p, ch), ch.state # "none", NEW price \in Nat,
           NEW n, n = [ch EXCEPT !.price = price]
    PROVE  /\ Sound(p, n) /\ n.state = ch.state /\ SameMoved(ch, n)
           /\ n.shareSupply = ch.shareSupply /\ n.collateral = ch.collateral
<1>1. Typed(ch) /\ Migrating(p, ch)
  BY DEF Sound
<1>2. /\ DOMAIN n = ChildFields /\ n.price = price
      /\ n.state = ch.state /\ n.rep = ch.rep /\ n.split = ch.split /\ n.game = ch.game
      /\ n.totals = ch.totals /\ n.vaults = ch.vaults /\ n.stale = ch.stale
      /\ n.feeEligible = ch.feeEligible /\ n.uncheckpointed = ch.uncheckpointed
      /\ n.accrued = ch.accrued /\ n.collateral = ch.collateral /\ n.received = ch.received
      /\ n.shareSupply = ch.shareSupply /\ n.migrated = ch.migrated
      /\ n.migratedTotals = ch.migratedTotals /\ n.raise = ch.raise /\ n.cap = ch.cap
      /\ n.purchased = ch.purchased /\ n.ethRaised = ch.ethRaised /\ n.won = ch.won
      /\ n.rate = ch.rate /\ n.unassigned = ch.unassigned
      /\ n.claimedRep = ch.claimedRep /\ n.bought = ch.bought /\ n.moved = ch.moved
  BY <1>1 DEF Typed, ChildFields
<1>3. Typed(n)
  BY <1>1, <1>2 DEF Typed
<1>4. Closed(p, ch) => Closed(p, n)
  BY <1>2 DEF Closed, HeldBy
<1>5. InAuction(p, ch) => InAuction(p, n)
  BY <1>2 DEF InAuction, CapSound
<1>6. Open(p, ch) => Open(p, n)
  <2>1. HeldBy(n) = HeldBy(ch) /\ WonRep(n) = WonRep(ch) /\ UnitsPerRep(n) = UnitsPerRep(ch)
        /\ StaleCapacity(n) = StaleCapacity(ch) /\ WonCapacity(n) = WonCapacity(ch)
        /\ WonBadDebt(n) = WonBadDebt(ch)
    BY <1>2 DEF HeldBy, WonRep, UnitsPerRep, StaleCapacity, WonCapacity, WonBadDebt, Sold
  <2>2. (Sold(n) <=> Sold(ch)) /\ (Priced(n) <=> Priced(ch))
    BY <1>2 DEF Sold, Priced
  <2>3. Positioned(ch) => Positioned(n)
    BY <1>2, <2>1 DEF Positioned
  <2>4. FeesSound(ch) => FeesSound(n)
    BY <1>2, <2>1, <2>2 DEF FeesSound
  <2>5. Worth(ch) => Worth(n)
    BY <1>2, <2>1 DEF Worth
  <2> QED
    BY <1>2, <2>3, <2>4, <2>5 DEF Open
<1>7. Migrating(p, n)
  BY <1>1, <1>2 DEF Migrating
<1> QED
  BY <1>2, <1>3, <1>4, <1>5, <1>6, <1>7 DEF Sound, SameMoved

-----------------------------------------------------------------------------
(* The auction of a child.                                                 *)

\* A child on its way into its auction has all of the pool's REP.
LEMMA AboutSound ==
    ASSUME ParentSound(parent), NEW c \in Child, Sound(parent, children[c]),
           children[c].state = "ForkMigration", NEW n, n = AboutToAuction(c)
    PROVE  /\ Typed(n) /\ Migrating(parent, n) /\ Closed(parent, n)
           /\ n.state = "ForkTruthAuction" /\ n.rep = parent.poolRep /\ SplitAllowed(n)
           /\ n.shareSupply = parent.shareSupply /\ SameMoved(children[c], n)
<1> DEFINE s == _ensureChildPoolRepSplit(children[c], parent.poolRep)
<1>1. parent.poolRep \in Nat /\ parent.shareSupply \in Nat
  BY DEF ParentSound
<1>2. /\ Sound(parent, s) /\ s.state = "ForkMigration" /\ SameMoved(children[c], s)
      /\ s.split = parent.poolRep /\ s.rep = s.split
  BY <1>1, SplitSound
<1>3. n = [s EXCEPT !.state = "ForkTruthAuction", !.shareSupply = parent.shareSupply]
  BY DEF AboutToAuction
<1> HIDE DEF s
<1>4. Typed(s) /\ Migrating(parent, s) /\ Closed(parent, s)
  BY <1>2 DEF Sound
<1>5. /\ DOMAIN n = ChildFields /\ n.state = "ForkTruthAuction"
      /\ n.shareSupply = parent.shareSupply
      /\ n.rep = s.rep /\ n.split = s.split /\ n.game = s.game /\ n.price = s.price
      /\ n.totals = s.totals /\ n.vaults = s.vaults /\ n.stale = s.stale
      /\ n.feeEligible = s.feeEligible /\ n.uncheckpointed = s.uncheckpointed
      /\ n.accrued = s.accrued /\ n.collateral = s.collateral /\ n.received = s.received
      /\ n.migrated = s.migrated
      /\ n.migratedTotals = s.migratedTotals /\ n.raise = s.raise /\ n.cap = s.cap
      /\ n.purchased = s.purchased /\ n.ethRaised = s.ethRaised /\ n.won = s.won
      /\ n.rate = s.rate /\ n.unassigned = s.unassigned
      /\ n.claimedRep = s.claimedRep /\ n.bought = s.bought /\ n.moved = s.moved
  BY <1>3, <1>4 DEF Typed, ChildFields
<1>6. Typed(n)
  BY <1>1, <1>4, <1>5 DEF Typed
<1>7. Migrating(parent, n) /\ Closed(parent, n)
  BY <1>4, <1>5 DEF Migrating, Closed, HeldBy
<1> QED
  BY <1>1, <1>2, <1>5, <1>6, <1>7 DEF SameMoved, SplitAllowed

\* The cap of an auction for a child that has not got everything.
LEMMA CapFacts ==
    ASSUME ParentSound(parent), NEW ch, Typed(ch), Closed(parent, ch),
           ch.migrated < parent.poolRep, NEW cap, cap = _getTruthAuctionCap(ch)
    PROVE  /\ cap \in Nat /\ cap > 0 /\ cap <= parent.poolRep + ch.game
           /\ ch.game > 0 => cap < parent.poolRep + ch.game
           /\ ch.migrated > 0 =>
                cap * parent.poolRep <= (parent.poolRep + ch.game) * (parent.poolRep - 1)
<1> DEFINE pool == parent.poolRep
           all == pool + ch.game
           kept == CeilDiv(CeilDiv(ch.migrated, MAX_AUCTION_VAULT_HAIRCUT_DIVISOR)
                             * (pool + ch.game), pool)
           most == Max({0, all - kept})
<1>1. /\ pool \in Nat /\ ch.game \in Nat /\ ch.migrated \in Nat /\ ch.game <= parent.gameRep
      /\ parent.gameRep \in Nat /\ (~ parent.hasGame => parent.gameRep = 0)
      /\ (parent.hasGame => pool # 1)
  BY DEF ParentSound, Typed, Closed
<1>2. cap = IF most = all /\ parent.hasGame THEN most - 1 ELSE most
  BY DEF _getTruthAuctionCap
<1>3. /\ kept \in Nat /\ kept < all
      /\ ch.migrated = 0 => kept = 0
      /\ ch.migrated > 0 => kept > 0 /\ (all - kept) * pool <= all * (pool - 1)
  <2> DEFINE M == ch.migrated
  <2>1. /\ pool \in Nat /\ all \in Nat /\ all >= pool /\ M \in Nat /\ M < pool
        /\ kept = CeilDiv(CeilDiv(M, MAX_AUCTION_VAULT_HAIRCUT_DIVISOR) * all, pool)
    BY <1>1
  <2> HIDE DEF M, pool, kept, all
  <2> QED
    BY <2>1, RetainedFacts DEF M
<1>4. all \in Nat /\ all >= pool
  BY <1>1
<1>5. most = all - kept
  <2> HIDE DEF kept, all
  <2> QED
    BY <1>3, <1>4, MaxTwo
<1> HIDE DEF kept, most
<1>6. CASE ch.migrated > 0
  <2>1. cap = all - kept
    BY <1>2, <1>3, <1>4, <1>5, <1>6
  <2> QED
    BY <1>3, <1>4, <1>6, <2>1
<1>7. CASE ch.migrated = 0
  <2>1. most = all
    BY <1>3, <1>4, <1>5, <1>7
  <2>2. cap = IF parent.hasGame THEN all - 1 ELSE all
    BY <1>2, <2>1
  <2> QED
    BY <1>1, <1>4, <1>7, <2>2
<1> QED
  BY <1>1, <1>6, <1>7

\* A child whose auction, if there was one, is over and comes to at most its cap.
Settling(p, ch) ==
    /\ Typed(ch) /\ Migrating(p, ch)
    /\ ch.rep = p.poolRep /\ ch.totals.units = p.poolRep /\ ch.game <= p.gameRep
    /\ HeldBy(ch) = [ch.migratedTotals EXCEPT !.units = ch.migrated]
    /\ \A v \in Vault : /\ ch.won[v] = NoWinnings /\ ch.bought[v] = 0
                        /\ ch.moved[v] = ch.vaults[v].units
    /\ ch.stale = {} /\ ch.uncheckpointed = 0 /\ ~ ch.accrued /\ ch.claimedRep = 0
    /\ ch.purchased > 0 => /\ ch.ethRaised > 0 /\ ch.purchased <= ch.cap
                           /\ ch.migrated < p.poolRep /\ CapSound(p, ch)
    /\ ch.received + ch.ethRaised <= p.snapshot
    /\ ch.migratedTotals.capacity <= p.totalCapacity
    /\ ch.migratedTotals.badDebt <= p.badDebtAtFork

\* The REP that the game gives up for the sale is less than it holds.
LEMMA StakedSoldFacts ==
    ASSUME ParentSound(parent), NEW ch, Settling(parent, ch), NEW sold, sold = DisputeStakedRepSold(ch)
    PROVE  /\ sold \in Nat /\ sold <= ch.game /\ (sold > 0 => sold < ch.game)
           /\ ch.purchased = 0 => sold = 0
<1> DEFINE all == parent.poolRep + ch.game
           bought == ch.purchased
           part == bought * ch.game
<1>1. parent.poolRep \in Nat /\ ch.game \in Nat /\ bought \in Nat /\ all \in Nat
  BY DEF ParentSound, Settling, Typed
<1>2. sold = part \div Max({1, all})
  BY DEF DisputeStakedRepSold
<1>3. Max({1, all}) = IF 1 <= all THEN all ELSE 1
  <2> HIDE DEF all
  <2> QED
    BY <1>1, MaxTwo
<1>4. part \in Nat
  BY <1>1, ProductNat
<1>5. CASE bought = 0
  <2>1. part = 0
    BY <1>1, <1>5
  <2> DEFINE whole == Max({1, all})
  <2>2. whole \in Nat /\ whole > 0
    BY <1>1, <1>3
  <2> HIDE DEF whole
  <2>3. 0 \div whole = 0
    BY <2>2
  <2> QED
    BY <1>1, <1>2, <1>5, <2>1, <2>3 DEF whole
<1>6. CASE bought > 0
  <2>1. /\ all > 0 /\ bought <= all /\ (ch.game > 0 => bought < all)
    BY <1>1, <1>6 DEF Settling, CapSound, Typed
  <2>2. sold = part \div all
    BY <1>1, <1>2, <1>3, <2>1
  <2> HIDE DEF all, bought
  <2>3. sold \in Nat /\ sold <= ch.game
    BY <1>1, <2>1, <2>2, PartOf
  <2>4. ASSUME ch.game > 0 PROVE sold < ch.game
    <3>1. part < ch.game * all
      BY <1>1, <2>1, <2>4
    <3> QED
      BY <1>1, <1>4, <2>1, <2>2, <3>1, QuotientAtMost
  <2> QED
    BY <1>1, <1>6, <2>3, <2>4 DEF bought
<1> QED
  BY <1>1, <1>5, <1>6

\* What a sale makes of the backing units: the rate covers what the incumbents had.
LEMMA RateFacts ==
    ASSUME ParentSound(parent), NEW ch, Settling(parent, ch), ch.purchased > 0,
           NEW after, after = parent.poolRep + DisputeStakedRepSold(ch),
           NEW incumbent, incumbent = (parent.poolRep * (parent.poolRep + ch.game - ch.purchased))
                                        \div (parent.poolRep + ch.game),
           NEW rate, rate = IF incumbent = 0 THEN PRICE_PRECISION ELSE CeilDiv(after, incumbent)
    PROVE  /\ rate \in Nat /\ rate > 0 /\ after \in Nat /\ after > 0
           /\ incumbent = 0 => ch.migrated = 0
           /\ ch.purchased * rate + ch.migrated <= after * rate
<1> DEFINE pool == parent.poolRep
           all == pool + ch.game
           sold == DisputeStakedRepSold(ch)
           bought == ch.purchased
           M == ch.migrated
<1>1. /\ pool \in Nat /\ ch.game \in Nat /\ bought \in Nat /\ M \in Nat /\ M < pool
      /\ bought > 0 /\ bought <= all /\ all \in Nat /\ all > 0
      /\ (M > 0 => bought * pool <= all * (pool - 1))
  <2>1. /\ pool \in Nat /\ ch.game \in Nat /\ bought \in Nat /\ M \in Nat /\ ch.cap \in Nat
    BY DEF ParentSound, Settling, Typed
  <2>2. M < pool /\ bought > 0 /\ bought <= ch.cap /\ CapSound(parent, ch)
    BY DEF Settling
  <2>3. bought * pool <= ch.cap * pool
    BY <2>1, <2>2, ProductMonotone
  <2>4. ch.cap <= all /\ (M > 0 => ch.cap * pool <= all * (pool - 1))
    BY <2>2 DEF CapSound
  <2>5. bought * pool \in Nat /\ ch.cap * pool \in Nat /\ all * (pool - 1) \in Int
    BY <2>1
  <2> QED
    BY <2>1, <2>2, <2>3, <2>4, <2>5
<1>2. sold \in Nat
  BY StakedSoldFacts
<1>3. sold = (bought * ch.game) \div all
  <2>1. Max({1, all}) = all
    <3> HIDE DEF all
    <3> QED
      BY <1>1, MaxTwo
  <2> QED
    BY <2>1 DEF DisputeStakedRepSold
<1>4. incumbent = after - bought
  <2> DEFINE staked == ch.game
  <2>1. /\ incumbent = (pool * (all - bought)) \div all /\ after = pool + sold
        /\ staked \in Nat /\ all = pool + staked /\ sold = (bought * staked) \div all
    BY <1>1, <1>3
  <2> HIDE DEF bought, sold, all, pool, staked
  <2>2. (pool * (all - bought)) \div all = pool + (bought * staked) \div all - bought
    BY <1>1, <2>1, IncumbentIsRest
  <2> DEFINE rest == (pool * (all - bought)) \div all
             gone == (bought * staked) \div all
  <2>3. incumbent = rest /\ after = pool + sold /\ sold = gone /\ rest = pool + gone - bought
    BY <2>1, <2>2
  <2> HIDE DEF rest, gone
  <2> QED
    BY <1>1, <1>2, <2>3
<1>5. incumbent \in Nat
  <2>1. all - bought \in Nat
    BY <1>1
  <2>2. pool * (all - bought) \in Nat
    BY <1>1, <2>1, ProductNat
  <2> DEFINE n == pool * (all - bought)
  <2>3. incumbent = n \div all
    BY <1>1
  <2> HIDE DEF n, all
  <2>4. n \div all \in Nat
    BY <1>1, <2>2, Quotient DEF n
  <2> QED
    BY <2>3, <2>4
<1>6. after \in Nat /\ after > 0 /\ M < after
  BY <1>1, <1>2
<1>7. M > 0 => incumbent > 0
  <2> SUFFICES ASSUME M > 0, incumbent = 0 PROVE FALSE
    BY <1>5
  <2>1. bought = pool + sold
    BY <1>1, <1>2, <1>4, <1>5
  <2>2. bought * ch.game < all * sold + all
    <3> HIDE DEF bought, all, sold
    <3>1. bought * ch.game \in Nat
      BY <1>1, ProductNat
    <3> QED
      BY <1>1, <1>3, <3>1, Quotient
  <2>3. bought * ch.game + bought * pool = all * bought
    BY <1>1
  <2>4. all * bought = all * pool + all * sold /\ all * (pool - 1) = all * pool - all
    BY <1>1, <1>2, <2>1
  <2>5. /\ all * sold \in Int /\ bought * ch.game \in Int /\ bought * pool \in Int
        /\ all * pool \in Int
    BY <1>1, <1>2
  <2> HIDE DEF bought, all, sold
  <2> DEFINE x == all * sold
             y == bought * ch.game
             z == bought * pool
             w == all * pool
  <2>6. /\ x \in Int /\ y \in Int /\ z \in Int /\ w \in Int
        /\ y < x + all /\ y + z = w + x /\ z <= w - all
    BY <1>1, <2>2, <2>3, <2>4, <2>5
  <2> HIDE DEF x, y, z, w
  <2> QED
    BY <1>1, <2>6
<1> HIDE DEF all, sold, pool
<1>8. CASE incumbent = 0
  <2>1. rate = PRICE_PRECISION /\ rate \in Nat /\ rate > 0 /\ M = 0 /\ after = bought
    BY <1>1, <1>4, <1>6, <1>7, <1>8, ForkFacts
  <2> QED
    BY <1>1, <1>6, <2>1
<1>9. CASE incumbent > 0
  <2>1. rate = CeilDiv(after, incumbent)
    BY <1>9
  <2>2. rate \in Nat /\ after <= incumbent * rate
    BY <1>5, <1>6, <1>9, <2>1, CeilDivFacts
  <2>3. rate > 0
    BY <1>5, <1>6, <2>2
  <2>4. after * rate = incumbent * rate + bought * rate
    <3>1. after = incumbent + bought
      BY <1>1, <1>4, <1>5, <1>6
    <3> QED
      BY <1>1, <1>5, <2>2, <3>1
  <2>5. incumbent * rate \in Int /\ bought * rate \in Int
    BY <1>1, <1>5, <2>2
  <2> QED
    BY <1>1, <1>6, <1>9, <2>2, <2>3, <2>4, <2>5
<1> QED
  BY <1>5, <1>8, <1>9

-----------------------------------------------------------------------------
(* The child opens.                                                        *)

\* What a finalization makes of ch, whoever won.
OpenedBy(ch, n) ==
    /\ DOMAIN n = ChildFields /\ n.state = "Operational"
    /\ n.game = ch.game - DisputeStakedRepSold(ch) /\ n.rep = ch.rep + DisputeStakedRepSold(ch)
    /\ n.collateral = ch.received + ch.ethRaised
    /\ n.rate \in Nat /\ n.totals.units \in Nat
    /\ n.totals = [units |-> n.totals.units, capacity |-> parent.totalCapacity,
                   badDebt |-> parent.badDebtAtFork]
    /\ n.unassigned = [units |-> n.totals.units - ch.migrated,
                       capacity |-> parent.totalCapacity - ch.migratedTotals.capacity,
                       badDebt |-> parent.badDebtAtFork - ch.migratedTotals.badDebt]
    /\ ch.purchased = 0 => n.totals.units = parent.poolRep
    /\ ch.purchased > 0 => /\ n.rate > 0 /\ n.totals.units = n.rep * n.rate
                           /\ ch.purchased * n.rate + ch.migrated <= n.totals.units
    /\ n.feeEligible = ch.migratedTotals.capacity
         + IF ch.purchased = 0 THEN 0 ELSE parent.totalCapacity - ch.migratedTotals.capacity
    /\ n.split = ch.split /\ n.price = ch.price /\ n.vaults = ch.vaults /\ n.stale = ch.stale
    /\ n.uncheckpointed = ch.uncheckpointed /\ n.accrued = ch.accrued
    /\ n.received = ch.received /\ n.shareSupply = ch.shareSupply /\ n.migrated = ch.migrated
    /\ n.migratedTotals = ch.migratedTotals /\ n.raise = ch.raise /\ n.cap = ch.cap
    /\ n.purchased = ch.purchased /\ n.ethRaised = ch.ethRaised
    /\ n.claimedRep = ch.claimedRep /\ n.bought = ch.bought /\ n.moved = ch.moved

LEMMA FinalizeFields ==
    ASSUME ParentSound(parent), NEW ch, Settling(parent, ch), NEW n, n = _finalizeTruthAuction(ch)
    PROVE  OpenedBy(ch, n) /\ n.won = ch.won
<1> DEFINE sold == DisputeStakedRepSold(ch)
           a == _applyEscalationTruthAuctionHaircut(ch)
           b == finalizeTruthAuctionRepair(a)
           capacity == parent.totalCapacity - ch.migratedTotals.capacity
           badDebt == parent.badDebtAtFork - ch.migratedTotals.badDebt
           after == parent.poolRep + sold
           incumbent == (parent.poolRep * (parent.poolRep + ch.game - ch.purchased))
                          \div (parent.poolRep + ch.game)
           rate == IF incumbent = 0 THEN PRICE_PRECISION ELSE CeilDiv(after, incumbent)
<1>1. /\ Typed(ch) /\ DOMAIN ch = ChildFields /\ ch.game \in Nat /\ ch.rep \in Nat
      /\ ch.migrated \in Nat /\ ch.purchased \in Nat /\ ch.rate \in Nat
      /\ ch.rep = parent.poolRep /\ ch.totals.units = parent.poolRep
      /\ ch.totals \in Amounts /\ ch.unassigned \in Amounts /\ parent.poolRep \in Nat
  BY DEF Settling, Typed, ParentSound
<1>2. sold \in Nat /\ sold <= ch.game
  BY StakedSoldFacts
<1>3. a = [ch EXCEPT !.game = ch.game - sold, !.rep = ch.rep + sold]
  BY DEF _applyEscalationTruthAuctionHaircut
<1>4. n = _finalizeBackingUnitsAfterAuction(b, sold)
  BY DEF _finalizeTruthAuction
<1>5. b = [a EXCEPT !.state = "Operational",
                    !.collateral = a.received + a.ethRaised,
                    !.totals.capacity = parent.totalCapacity,
                    !.totals.badDebt = parent.badDebtAtFork,
                    !.feeEligible = a.migratedTotals.capacity
                      + IF a.purchased = 0 THEN 0
                        ELSE parent.totalCapacity - a.migratedTotals.capacity,
                    !.unassigned.capacity = parent.totalCapacity - a.migratedTotals.capacity,
                    !.unassigned.badDebt = parent.badDebtAtFork - a.migratedTotals.badDebt]
  BY DEF finalizeTruthAuctionRepair
<1> DEFINE combined == parent.poolRep + b.game + sold
           left == (parent.poolRep * (combined - b.purchased)) \div combined
           price == IF left = 0 THEN PRICE_PRECISION ELSE CeilDiv(parent.poolRep + sold, left)
           total == after * rate + IF incumbent = 0 THEN ch.migrated ELSE 0
           whole == (parent.poolRep + sold) * price + IF left = 0 THEN b.migrated ELSE 0
<1>6. n = IF parent.poolRep + sold = 0 \/ b.purchased = 0
          THEN [b EXCEPT !.unassigned.units = b.totals.units - b.migrated]
          ELSE [b EXCEPT !.totals.units = whole, !.rate = price,
                         !.unassigned.units = whole - b.migrated]
  BY <1>4 DEF _finalizeBackingUnitsAfterAuction
<1> HIDE DEF sold, a, b
<1>7. /\ DOMAIN a = ChildFields /\ a.game = ch.game - sold /\ a.rep = ch.rep + sold
      /\ a.totals = ch.totals /\ a.unassigned = ch.unassigned /\ a.rate = ch.rate
      /\ a.split = ch.split /\ a.price = ch.price /\ a.vaults = ch.vaults /\ a.stale = ch.stale
      /\ a.uncheckpointed = ch.uncheckpointed /\ a.accrued = ch.accrued
      /\ a.received = ch.received /\ a.shareSupply = ch.shareSupply
      /\ a.migrated = ch.migrated /\ a.migratedTotals = ch.migratedTotals
      /\ a.raise = ch.raise /\ a.cap = ch.cap /\ a.purchased = ch.purchased
      /\ a.ethRaised = ch.ethRaised /\ a.won = ch.won
      /\ a.claimedRep = ch.claimedRep /\ a.bought = ch.bought /\ a.moved = ch.moved
  BY <1>1, <1>3 DEF ChildFields
<1>8. /\ DOMAIN b = ChildFields /\ b.state = "Operational" /\ b.game = a.game /\ b.rep = a.rep
      /\ b.collateral = a.received + a.ethRaised /\ b.rate = a.rate
      /\ b.totals = [a.totals EXCEPT !.capacity = parent.totalCapacity,
                                     !.badDebt = parent.badDebtAtFork]
      /\ b.unassigned = [a.unassigned EXCEPT
                           !.capacity = parent.totalCapacity - a.migratedTotals.capacity,
                           !.badDebt = parent.badDebtAtFork - a.migratedTotals.badDebt]
      /\ b.feeEligible = a.migratedTotals.capacity
           + IF a.purchased = 0 THEN 0 ELSE parent.totalCapacity - a.migratedTotals.capacity
  BY <1>5, <1>7 DEF ChildFields
<1>9. /\ b.split = a.split /\ b.price = a.price /\ b.vaults = a.vaults /\ b.stale = a.stale
      /\ b.uncheckpointed = a.uncheckpointed /\ b.accrued = a.accrued
      /\ b.received = a.received /\ b.shareSupply = a.shareSupply
      /\ b.migrated = a.migrated /\ b.migratedTotals = a.migratedTotals
      /\ b.raise = a.raise /\ b.cap = a.cap /\ b.purchased = a.purchased
      /\ b.ethRaised = a.ethRaised /\ b.won = a.won
      /\ b.claimedRep = a.claimedRep /\ b.bought = a.bought /\ b.moved = a.moved
  BY <1>5, <1>7 DEF ChildFields
<1>10. /\ b.totals = [units |-> parent.poolRep, capacity |-> parent.totalCapacity,
                      badDebt |-> parent.badDebtAtFork]
       /\ b.unassigned = [units |-> ch.unassigned.units, capacity |-> capacity, badDebt |-> badDebt]
  <2>1. /\ ch.totals = [units |-> parent.poolRep, capacity |-> ch.totals.capacity,
                        badDebt |-> ch.totals.badDebt]
        /\ ch.unassigned = [units |-> ch.unassigned.units, capacity |-> ch.unassigned.capacity,
                            badDebt |-> ch.unassigned.badDebt]
    BY <1>1, AmountFields
  <2>2. a.totals = ch.totals /\ a.unassigned = ch.unassigned
        /\ a.migratedTotals = ch.migratedTotals
    BY <1>7
  <2> HIDE DEF capacity, badDebt
  <2>3. b.unassigned = [ch.unassigned EXCEPT !.capacity = capacity, !.badDebt = badDebt]
    BY <1>8, <2>2 DEF capacity, badDebt
  <2>4. b.totals = [ch.totals EXCEPT !.capacity = parent.totalCapacity,
                                     !.badDebt = parent.badDebtAtFork]
    BY <1>8, <2>2
  <2> DEFINE units == ch.unassigned.units
             oldCapacity == ch.unassigned.capacity
             oldBadDebt == ch.unassigned.badDebt
  <2>5. ch.unassigned = [units |-> units, capacity |-> oldCapacity, badDebt |-> oldBadDebt]
    BY <2>1
  <2> HIDE DEF units, oldCapacity, oldBadDebt
  <2>6. b.unassigned = [units |-> units, capacity |-> capacity, badDebt |-> badDebt]
    <3> DEFINE e == [ch.unassigned EXCEPT !.capacity = capacity]
    <3>1. e = [units |-> units, capacity |-> capacity, badDebt |-> oldBadDebt]
      BY <2>5
    <3>2. b.unassigned = [e EXCEPT !.badDebt = badDebt]
      BY <2>3
    <3> HIDE DEF e
    <3> QED
      BY <3>1, <3>2
  <2> DEFINE pool == parent.poolRep
             total1 == ch.totals.capacity
             total2 == ch.totals.badDebt
             total3 == parent.totalCapacity
             total4 == parent.badDebtAtFork
  <2>7. ch.totals = [units |-> pool, capacity |-> total1, badDebt |-> total2]
    BY <2>1
  <2>8. b.totals = [ch.totals EXCEPT !.capacity = total3, !.badDebt = total4]
    BY <2>4
  <2> HIDE DEF pool, total1, total2, total3, total4
  <2>9. b.totals = [units |-> pool, capacity |-> total3, badDebt |-> total4]
    <3> DEFINE e == [ch.totals EXCEPT !.capacity = total3]
    <3>1. e = [units |-> pool, capacity |-> total3, badDebt |-> total2]
      BY <2>7
    <3>2. b.totals = [e EXCEPT !.badDebt = total4]
      BY <2>8
    <3> HIDE DEF e
    <3> QED
      BY <3>1, <3>2
  <2> QED
    BY <2>6, <2>9 DEF units, pool, total3, total4
<1>11. \/ /\ ch.purchased = 0 \/ parent.poolRep + sold = 0
          /\ n = [b EXCEPT !.unassigned.units = parent.poolRep - ch.migrated]
       \/ /\ ch.purchased # 0 /\ parent.poolRep + sold # 0
          /\ n = [b EXCEPT !.totals.units = total, !.rate = rate,
                           !.unassigned.units = total - ch.migrated]
  <2>1. b.purchased = ch.purchased /\ b.migrated = ch.migrated /\ b.totals.units = parent.poolRep
    BY <1>7, <1>9, <1>10
  <2>2. combined = parent.poolRep + ch.game
    BY <1>1, <1>2, <1>7, <1>8
  <2> HIDE DEF combined
  <2> DEFINE all == parent.poolRep + ch.game
             bought == ch.purchased
  <2>3. left = incumbent
    <3> DEFINE rest == parent.poolRep + ch.game - ch.purchased
    <3>1. rest = all - bought
      BY <1>1
    <3>2. incumbent = (parent.poolRep * rest) \div all
      OBVIOUS
    <3>3. combined = all /\ b.purchased = bought
      BY <2>1, <2>2
    <3> HIDE DEF all, bought, incumbent, rest
    <3> QED
      BY <3>1, <3>2, <3>3
  <2> HIDE DEF left, incumbent
  <2>4. price = rate
    BY <2>3
  <2> HIDE DEF price, rate
  <2>5. whole = total
    BY <2>1, <2>3, <2>4
  <2> HIDE DEF whole, total
  <2> QED
    BY <1>6, <2>1, <2>4, <2>5
<1>12. CASE ch.purchased = 0
  <2>1. n = [b EXCEPT !.unassigned.units = parent.poolRep - ch.migrated]
    BY <1>11, <1>12
  <2> HIDE DEF capacity, badDebt
  <2>2. /\ n.unassigned = [units |-> parent.poolRep - ch.migrated, capacity |-> capacity,
                           badDebt |-> badDebt]
        /\ n.totals = b.totals /\ n.rate = ch.rate
        /\ DOMAIN n = ChildFields /\ n.state = "Operational" /\ n.game = b.game /\ n.rep = b.rep
        /\ n.collateral = b.collateral /\ n.feeEligible = b.feeEligible
    BY <1>7, <1>8, <1>10, <2>1 DEF ChildFields
  <2>3. /\ n.split = b.split /\ n.price = b.price /\ n.vaults = b.vaults /\ n.stale = b.stale
        /\ n.uncheckpointed = b.uncheckpointed /\ n.accrued = b.accrued
        /\ n.received = b.received /\ n.shareSupply = b.shareSupply
        /\ n.migrated = b.migrated /\ n.migratedTotals = b.migratedTotals
        /\ n.raise = b.raise /\ n.cap = b.cap /\ n.purchased = b.purchased
        /\ n.ethRaised = b.ethRaised /\ n.won = b.won
        /\ n.claimedRep = b.claimedRep /\ n.bought = b.bought /\ n.moved = b.moved
    BY <1>8, <2>1 DEF ChildFields
  <2>4. /\ n.split = ch.split /\ n.price = ch.price /\ n.vaults = ch.vaults /\ n.stale = ch.stale
        /\ n.uncheckpointed = ch.uncheckpointed /\ n.accrued = ch.accrued
        /\ n.received = ch.received /\ n.shareSupply = ch.shareSupply
        /\ n.migrated = ch.migrated /\ n.migratedTotals = ch.migratedTotals
        /\ n.raise = ch.raise /\ n.cap = ch.cap /\ n.purchased = ch.purchased
        /\ n.ethRaised = ch.ethRaised /\ n.won = ch.won
        /\ n.claimedRep = ch.claimedRep /\ n.bought = ch.bought /\ n.moved = ch.moved
    BY <1>7, <1>9, <2>3
  <2>5. /\ n.game = ch.game - sold /\ n.rep = ch.rep + sold
        /\ n.collateral = ch.received + ch.ethRaised
        /\ n.totals.units = parent.poolRep
        /\ n.totals = [units |-> n.totals.units, capacity |-> parent.totalCapacity,
                       badDebt |-> parent.badDebtAtFork]
        /\ n.feeEligible = ch.migratedTotals.capacity
             + IF ch.purchased = 0 THEN 0 ELSE capacity
    BY <1>7, <1>8, <1>10, <2>2 DEF capacity
  <2> QED
    BY <1>1, <1>12, <2>2, <2>4, <2>5 DEF OpenedBy, sold, capacity, badDebt
<1>13. CASE ch.purchased > 0
  <2> DEFINE sum == after * rate
  <2>1. /\ rate \in Nat /\ rate > 0 /\ after \in Nat /\ after > 0
        /\ (incumbent = 0 => ch.migrated = 0)
        /\ ch.purchased * rate + ch.migrated <= sum
    BY <1>13, RateFacts DEF sold
  <2> HIDE DEF after, rate, incumbent
  <2>2. sum \in Nat
    BY <2>1, ProductNat
  <2>3. total = sum
    BY <2>1, <2>2
  <2>4. parent.poolRep + sold # 0
    BY <2>1 DEF after
  <2> HIDE DEF sum, total
  <2>5. n = [b EXCEPT !.totals.units = sum, !.rate = rate,
                      !.unassigned.units = sum - ch.migrated]
    BY <1>1, <1>11, <1>13, <2>3, <2>4
  <2> HIDE DEF capacity, badDebt
  <2>6. /\ n.unassigned = [units |-> sum - ch.migrated, capacity |-> capacity,
                           badDebt |-> badDebt]
        /\ n.totals = [units |-> sum, capacity |-> parent.totalCapacity,
                       badDebt |-> parent.badDebtAtFork]
        /\ n.rate = rate
        /\ DOMAIN n = ChildFields /\ n.state = "Operational" /\ n.game = b.game /\ n.rep = b.rep
        /\ n.collateral = b.collateral /\ n.feeEligible = b.feeEligible
    BY <1>7, <1>8, <1>10, <2>5 DEF ChildFields
  <2>7. /\ n.split = b.split /\ n.price = b.price /\ n.vaults = b.vaults /\ n.stale = b.stale
        /\ n.uncheckpointed = b.uncheckpointed /\ n.accrued = b.accrued
        /\ n.received = b.received /\ n.shareSupply = b.shareSupply
        /\ n.migrated = b.migrated /\ n.migratedTotals = b.migratedTotals
        /\ n.raise = b.raise /\ n.cap = b.cap /\ n.purchased = b.purchased
        /\ n.ethRaised = b.ethRaised /\ n.won = b.won
        /\ n.claimedRep = b.claimedRep /\ n.bought = b.bought /\ n.moved = b.moved
    BY <1>8, <2>5 DEF ChildFields
  <2>8. /\ n.split = ch.split /\ n.price = ch.price /\ n.vaults = ch.vaults /\ n.stale = ch.stale
        /\ n.uncheckpointed = ch.uncheckpointed /\ n.accrued = ch.accrued
        /\ n.received = ch.received /\ n.shareSupply = ch.shareSupply
        /\ n.migrated = ch.migrated /\ n.migratedTotals = ch.migratedTotals
        /\ n.raise = ch.raise /\ n.cap = ch.cap /\ n.purchased = ch.purchased
        /\ n.ethRaised = ch.ethRaised /\ n.won = ch.won
        /\ n.claimedRep = ch.claimedRep /\ n.bought = ch.bought /\ n.moved = ch.moved
    BY <1>7, <1>9, <2>7
  <2>9. n.rep = after
    BY <1>1, <1>7, <1>8, <2>6 DEF after
  <2>10. /\ n.game = ch.game - sold /\ n.rep = ch.rep + sold
         /\ n.collateral = ch.received + ch.ethRaised
         /\ n.totals.units = sum /\ sum = n.rep * n.rate
         /\ n.totals = [units |-> n.totals.units, capacity |-> parent.totalCapacity,
                        badDebt |-> parent.badDebtAtFork]
         /\ n.feeEligible = ch.migratedTotals.capacity
              + IF ch.purchased = 0 THEN 0 ELSE capacity
    BY <1>7, <1>8, <1>10, <2>6, <2>9 DEF capacity, sum
  <2> QED
    BY <1>1, <1>13, <2>1, <2>2, <2>6, <2>8, <2>10 DEF OpenedBy, sold, capacity, badDebt
<1> QED
  BY <1>1, <1>12, <1>13

\* No finalization is refused but for the price.
LEMMA FinalizationFacts ==
    ASSUME ParentSound(parent), NEW ch, Settling(parent, ch)
    PROVE  FinalizationAccepted(ch)
<1> DEFINE n == _finalizeTruthAuction(ch)
<1>1. OpenedBy(ch, n)
  BY FinalizeFields
<1>2. /\ ch.purchased \in Nat /\ ch.migrated \in Nat /\ parent.poolRep \in Nat
      /\ ch.migrated <= parent.poolRep
  BY DEF Settling, Typed, ParentSound, Migrating
<1> HIDE DEF n
<1>3. n.unassigned.units >= 0
  <2>1. n.unassigned.units = n.totals.units - ch.migrated /\ n.totals.units \in Nat /\ n.rate \in Nat
    BY <1>1 DEF OpenedBy
  <2>2. CASE ch.purchased = 0
    BY <1>1, <1>2, <2>1, <2>2 DEF OpenedBy
  <2>3. CASE ch.purchased > 0
    <3>1. ch.purchased * n.rate + ch.migrated <= n.totals.units
      BY <1>1, <2>3 DEF OpenedBy
    <3>2. ch.purchased * n.rate \in Nat
      BY <1>2, <2>1, ProductNat
    <3> QED
      BY <1>2, <2>1, <3>1, <3>2
  <2> QED
    BY <1>2, <2>2, <2>3
<1>4. DisputeStakedRepSold(ch) > 0 => DisputeStakedRepSold(ch) < ch.game
  BY StakedSoldFacts
<1> QED
  BY <1>3, <1>4 DEF FinalizationAccepted, Settling, n

\* Whoever won, the winnings are all that was sold.
Shared(ch, n) ==
    /\ n.won \in [Vault -> Winnings] /\ WonRep(n) = ch.purchased
    /\ ch.ethRaised > 0 => /\ WonCapacity(n) = n.unassigned.capacity
                           /\ WonBadDebt(n) = n.unassigned.badDebt
    /\ ch.ethRaised = 0 => ch.purchased = 0 /\ \A v \in Vault : n.won[v] = NoWinnings

\* A child that opens is sound: everything in it is held, won or nobody's.
LEMMA OpenedSound ==
    ASSUME ParentSound(parent), NEW ch, Settling(parent, ch), NEW n, OpenedBy(ch, n),
           Shared(ch, n)
    PROVE  Sound(parent, n)
<1> DEFINE sold == DisputeStakedRepSold(ch)
           M == ch.migratedTotals
<1>1. /\ Typed(ch) /\ ch.game \in Nat /\ ch.rep \in Nat /\ ch.migrated \in Nat
      /\ ch.purchased \in Nat /\ ch.ethRaised \in Nat /\ ch.received \in Nat
      /\ parent.poolRep \in Nat /\ parent.totalCapacity \in Nat /\ parent.badDebtAtFork \in Nat
      /\ M \in Amounts /\ M.capacity \in Nat /\ M.badDebt \in Nat
      /\ M.capacity <= parent.totalCapacity /\ M.badDebt <= parent.badDebtAtFork
      /\ ch.migrated <= parent.poolRep /\ ch.rep = parent.poolRep
  BY DEF Settling, Typed, ParentSound, Amounts, Migrating
<1>2. sold \in Nat /\ sold <= ch.game /\ (ch.purchased = 0 => sold = 0)
  BY StakedSoldFacts
<1>3. /\ DOMAIN n = ChildFields /\ n.state = "Operational"
      /\ n.game = ch.game - sold /\ n.rep = ch.rep + sold
      /\ n.collateral = ch.received + ch.ethRaised /\ n.rate \in Nat /\ n.totals.units \in Nat
      /\ n.totals = [units |-> n.totals.units, capacity |-> parent.totalCapacity,
                     badDebt |-> parent.badDebtAtFork]
      /\ n.unassigned = [units |-> n.totals.units - ch.migrated,
                         capacity |-> parent.totalCapacity - M.capacity,
                         badDebt |-> parent.badDebtAtFork - M.badDebt]
      /\ (ch.purchased = 0 => n.totals.units = parent.poolRep)
      /\ (ch.purchased > 0 => /\ n.rate > 0 /\ n.totals.units = n.rep * n.rate
                              /\ ch.purchased * n.rate + ch.migrated <= n.totals.units)
      /\ n.feeEligible = M.capacity
           + IF ch.purchased = 0 THEN 0 ELSE parent.totalCapacity - M.capacity
  BY DEF OpenedBy
<1>4. /\ n.split = ch.split /\ n.price = ch.price /\ n.vaults = ch.vaults /\ n.stale = ch.stale
      /\ n.uncheckpointed = ch.uncheckpointed /\ n.accrued = ch.accrued
      /\ n.received = ch.received /\ n.shareSupply = ch.shareSupply /\ n.migrated = ch.migrated
      /\ n.migratedTotals = ch.migratedTotals /\ n.raise = ch.raise /\ n.cap = ch.cap
      /\ n.purchased = ch.purchased /\ n.ethRaised = ch.ethRaised
      /\ n.claimedRep = ch.claimedRep /\ n.bought = ch.bought /\ n.moved = ch.moved
  BY DEF OpenedBy
<1> HIDE DEF sold, M
<1>5. ch.purchased * n.rate \in Nat /\ n.rep \in Nat
  BY <1>1, <1>2, <1>3, ProductNat
<1>6. n.totals.units - ch.migrated \in Nat
  BY <1>1, <1>3, <1>5
<1>7. n.unassigned \in Amounts /\ n.totals \in Amounts
  <2>1. /\ parent.totalCapacity - M.capacity \in Nat
        /\ parent.badDebtAtFork - M.badDebt \in Nat
    BY <1>1
  <2> QED
    BY <1>1, <1>3, <1>6, <2>1 DEF Amounts
<1>8. Typed(n) /\ Migrating(parent, n)
  <2>1. n.feeEligible \in Nat /\ n.collateral \in Nat /\ n.game \in Nat
    BY <1>1, <1>2, <1>3
  <2>2. n.won \in [Vault -> Winnings]
    BY DEF Shared
  <2>3. Typed(n)
    BY <1>1, <1>3, <1>4, <1>5, <1>7, <2>1, <2>2 DEF Typed
  <2>4. Migrating(parent, ch)
    BY DEF Settling
  <2> QED
    BY <1>4, <2>3, <2>4 DEF Migrating
<1>9. /\ HeldBy(n) = [units |-> ch.migrated, capacity |-> M.capacity, badDebt |-> M.badDebt]
      /\ HeldBy(n).capacity = M.capacity
  <2>1. HeldBy(ch) = [M EXCEPT !.units = ch.migrated]
    BY DEF Settling, M
  <2>2. M = [units |-> M.units, capacity |-> M.capacity, badDebt |-> M.badDebt]
    BY <1>1, AmountFields
  <2> DEFINE a == M.capacity
             b == M.badDebt
             c == M.units
  <2>3. M = [units |-> c, capacity |-> a, badDebt |-> b]
    BY <2>2
  <2> HIDE DEF a, b, c
  <2>4. HeldBy(ch) = [units |-> ch.migrated, capacity |-> a, badDebt |-> b]
    BY <2>1, <2>3
  <2>5. HeldBy(n) = HeldBy(ch)
    BY <1>4 DEF HeldBy
  <2> QED
    BY <2>4, <2>5 DEF a, b
<1>10. Plus(HeldBy(n), n.unassigned) = n.totals
  <2> DEFINE u == n.totals.units
             capacity == parent.totalCapacity
             badDebt == parent.badDebtAtFork
             mu == ch.migrated
             a == M.capacity
             b == M.badDebt
  <2>1. /\ u \in Nat /\ capacity \in Nat /\ badDebt \in Nat /\ mu \in Nat /\ a \in Nat /\ b \in Nat
        /\ HeldBy(n) = [units |-> mu, capacity |-> a, badDebt |-> b]
        /\ n.unassigned = [units |-> u - mu, capacity |-> capacity - a, badDebt |-> badDebt - b]
        /\ n.totals = [units |-> u, capacity |-> capacity, badDebt |-> badDebt]
    BY <1>1, <1>3, <1>9
  <2> HIDE DEF u, capacity, badDebt, mu, a, b
  <2>2. mu + (u - mu) = u /\ a + (capacity - a) = capacity /\ b + (badDebt - b) = badDebt
    BY <2>1
  <2> QED
    BY <2>1, <2>2 DEF Plus
<1>11. UnitsPerRep(n) \in Nat /\ UnitsPerRep(n) > 0
  BY <1>1, <1>3, <1>4 DEF UnitsPerRep, Sold
<1>12. Positioned(n)
  <2>1. WonRep(n) = ch.purchased
    BY DEF Shared
  <2>2. ch.purchased * UnitsPerRep(n) <= n.unassigned.units
    <3>1. n.unassigned.units = n.totals.units - ch.migrated
      BY <1>3
    <3>2. CASE ch.purchased = 0
      BY <1>6, <1>11, <3>1, <3>2
    <3>3. CASE ch.purchased > 0
      <4>1. UnitsPerRep(n) = n.rate
        BY <1>4, <3>3 DEF UnitsPerRep, Sold
      <4> QED
        BY <1>1, <1>3, <1>5, <3>1, <3>3, <4>1
    <3> QED
      BY <1>1, <3>2, <3>3
  <2>3. ch.claimedRep = 0
    BY DEF Settling
  <2>4. WonRep(n) + n.claimedRep = n.purchased
    BY <1>1, <1>4, <2>1, <2>3
  <2> QED
    BY <1>4, <1>10, <2>1, <2>2, <2>4 DEF Positioned, Shared
<1>13. FeesSound(n)
  <2>1. n.stale = {} /\ n.uncheckpointed = 0 /\ ~ n.accrued
    BY <1>4 DEF Settling
  <2>2. StaleCapacity(n) = 0
    BY <2>1, SumEmpty DEF StaleCapacity
  <2>3. n.feeEligible = HeldBy(n).capacity + IF Sold(n) THEN n.unassigned.capacity ELSE 0
    <3>1. n.unassigned.capacity = parent.totalCapacity - M.capacity
      BY <1>3
    <3>2. Sold(n) <=> ch.purchased # 0
      BY <1>1, <1>4 DEF Sold
    <3> QED
      BY <1>3, <1>9, <3>1, <3>2
  <2>4. n.uncheckpointed = StaleCapacity(n)
                             + IF n.accrued /\ Sold(n) THEN n.unassigned.capacity ELSE 0
    BY <2>1, <2>2
  <2> QED
    BY <2>3, <2>4 DEF FeesSound
<1>14. Worth(n)
  <2>1. n.rep * UnitsPerRep(n) >= n.totals.units
    <3>1. CASE ch.purchased = 0
      <4>1. UnitsPerRep(n) = 1 /\ n.rep = parent.poolRep
        BY <1>1, <1>2, <1>3, <1>4, <3>1 DEF UnitsPerRep, Sold
      <4> QED
        BY <1>1, <1>3, <3>1, <4>1
    <3>2. CASE ch.purchased > 0
      <4>1. UnitsPerRep(n) = n.rate
        BY <1>4, <3>2 DEF UnitsPerRep, Sold
      <4>2. n.rep * UnitsPerRep(n) = n.totals.units
        BY <1>3, <3>2, <4>1
      <4> QED
        BY <1>3, <4>2
    <3> QED
      BY <1>1, <3>1, <3>2
  <2>2. \A v \in Vault : n.vaults[v].units >= n.bought[v] * UnitsPerRep(n) + n.moved[v]
    <3>1. SUFFICES ASSUME NEW v \in Vault
                   PROVE  n.vaults[v].units >= n.bought[v] * UnitsPerRep(n) + n.moved[v]
      OBVIOUS
    <3>2. n.bought[v] = 0 /\ n.moved[v] = n.vaults[v].units
      BY <1>4 DEF Settling
    <3>3. n.vaults[v].units \in Nat
      BY <1>8, PositionFields DEF Typed
    <3>4. n.bought[v] * UnitsPerRep(n) = 0
      BY <1>11, <3>2
    <3> QED
      BY <3>2, <3>3, <3>4
  <2> QED
    BY <1>11, <2>1, <2>2 DEF Worth
<1>15. n.collateral <= parent.snapshot
  BY <1>3 DEF Settling
<1> QED
  BY <1>3, <1>8, <1>12, <1>13, <1>14, <1>15 DEF Sound, Open

LEMMA TwoTerms ==
    ASSUME NEW f, NEW v \in Vault, NEW w \in Vault, v # w, f[v] \in Int, f[w] \in Int,
           \A x \in Vault \ {v, w} : f[x] = 0
    PROVE  SumOf(f) = f[v] + f[w]
<1>1. IsFiniteSet(Vault) /\ \A x \in Vault : f[x] \in Int
  BY ForkFacts
<1>2. SumFunctionOnSet(f, Vault) = f[v] + SumFunctionOnSet(f, Vault \ {v})
  BY <1>1, SumRemove
<1>3. IsFiniteSet(Vault \ {v}) /\ w \in Vault \ {v}
  BY <1>1, FS_Subset
<1>4. SumFunctionOnSet(f, Vault \ {v}) = f[w] + SumFunctionOnSet(f, (Vault \ {v}) \ {w})
  BY <1>1, <1>3, SumRemove
<1>5. SumFunctionOnSet(f, (Vault \ {v}) \ {w}) = 0
  BY <1>1, FS_Subset, SumZero
<1> QED
  BY <1>2, <1>4, <1>5 DEF SumOf

\* Two winners have between them what each of them has.
LEMMA TwoWinners ==
    ASSUME NEW before \in [Vault -> Winnings], \A x \in Vault : before[x] = NoWinnings,
           NEW v \in Vault, NEW w \in Vault, v # w, NEW a \in Winnings, NEW b \in Winnings,
           NEW n, n.won = [before EXCEPT ![v] = a, ![w] = b]
    PROVE  /\ n.won \in [Vault -> Winnings]
           /\ WonRep(n) = a.rep + b.rep /\ WonCapacity(n) = a.capacity + b.capacity
           /\ WonBadDebt(n) = a.badDebt + b.badDebt
           /\ a = NoWinnings /\ b = NoWinnings => \A x \in Vault : n.won[x] = NoWinnings
<1> DEFINE won == n.won
<1>1. /\ won \in [Vault -> Winnings] /\ won[v] = a /\ won[w] = b
      /\ \A x \in Vault \ {v, w} : won[x] = NoWinnings
  OBVIOUS
<1>2. /\ a.rep \in Nat /\ a.capacity \in Nat /\ a.badDebt \in Nat
      /\ b.rep \in Nat /\ b.capacity \in Nat /\ b.badDebt \in Nat
      /\ NoWinnings.rep = 0 /\ NoWinnings.capacity = 0 /\ NoWinnings.badDebt = 0
  BY DEF Winnings, NoWinnings
<1> HIDE DEF won
<1> DEFINE r == [x \in Vault |-> won[x].rep]
           k == [x \in Vault |-> won[x].capacity]
           d == [x \in Vault |-> won[x].badDebt]
<1>3. /\ r[v] = a.rep /\ r[w] = b.rep /\ \A x \in Vault \ {v, w} : r[x] = 0
      /\ k[v] = a.capacity /\ k[w] = b.capacity /\ \A x \in Vault \ {v, w} : k[x] = 0
      /\ d[v] = a.badDebt /\ d[w] = b.badDebt /\ \A x \in Vault \ {v, w} : d[x] = 0
  BY <1>1, <1>2
<1>4. WonRep(n) = SumOf(r) /\ WonCapacity(n) = SumOf(k) /\ WonBadDebt(n) = SumOf(d)
  BY DEF WonRep, WonCapacity, WonBadDebt, won
<1> HIDE DEF r, k, d
<1>5. SumOf(r) = r[v] + r[w]
  BY <1>2, <1>3, TwoTerms
<1>6. SumOf(k) = k[v] + k[w]
  BY <1>2, <1>3, TwoTerms
<1>7. SumOf(d) = d[v] + d[w]
  BY <1>2, <1>3, TwoTerms
<1> QED
  BY <1>1, <1>3, <1>4, <1>5, <1>6, <1>7 DEF won

\* What two winners get is all of it.
LEMMA SliceFacts ==
    ASSUME NEW raised \in Nat, NEW eth \in 0 .. raised, NEW total \in Nat,
           NEW s, s = Slices(eth, raised, total)
    PROVE  /\ s[1] \in Nat /\ s[2] \in Nat
           /\ raised > 0 => s[1] + s[2] = total
           /\ raised = 0 => s[1] = 0 /\ s[2] = 0
<1> DEFINE first == (eth * total) \div raised
<1>1. s = <<IF raised = 0 THEN 0 ELSE first, IF raised = 0 THEN 0
                                             ELSE total - (IF raised = 0 THEN 0 ELSE first)>>
  BY DEF Slices
<1>2. eth \in Nat /\ eth <= raised
  OBVIOUS
<1>3. raised > 0 => first \in Nat /\ first <= total
  BY <1>2, PartOf
<1> HIDE DEF first
<1>4. CASE raised = 0
  BY <1>1, <1>4
<1>5. CASE raised > 0
  <2>1. s[1] = first /\ s[2] = total - first
    BY <1>1, <1>5
  <2> QED
    BY <1>3, <1>5, <2>1
<1> QED
  BY <1>4, <1>5

LEMMA FirstRepFacts ==
    ASSUME NEW ch, ch.ethRaised \in Nat, ch.purchased \in Nat, NEW eth \in 0 .. ch.ethRaised,
           NEW rep \in FirstRep(eth, ch)
    PROVE  rep \in Nat /\ rep <= ch.purchased
<1> DEFINE low == (eth * ch.purchased) \div ch.ethRaised
           high == (eth * (ch.purchased + 1) - 1) \div ch.ethRaised
           bought == ch.purchased
<1>1. eth \in Nat /\ eth <= ch.ethRaised
  OBVIOUS
<1>2. CASE eth = 0
  BY <1>2 DEF FirstRep
<1>3. CASE eth > 0
  <2>1. rep \in low .. Min({bought, high})
    BY <1>1, <1>3 DEF FirstRep
  <2>2. low \in Nat
    BY <1>1, <1>3, PartOf
  <2>3. high \in Int
    <3> DEFINE top == eth * (bought + 1) - 1
    <3>1. top \in Int
      BY <1>1
    <3> HIDE DEF top
    <3>2. top \div ch.ethRaised \in Int
      BY <1>1, <1>3, <3>1
    <3> QED
      BY <3>2 DEF top
  <2>4. bought \in Int
    OBVIOUS
  <2> HIDE DEF low, high, bought
  <2>5. Min({bought, high}) = IF bought <= high THEN bought ELSE high
    BY <2>3, <2>4, MinTwo
  <2>6. rep \in Nat /\ rep <= bought
    BY <2>1, <2>2, <2>3, <2>4, <2>5
  <2> QED
    BY <2>6 DEF bought
<1> QED
  BY <1>1, <1>2, <1>3

\* No child has got more of anything than the parent had.
LEMMA ChildDues ==
    ASSUME ParentSound(parent), DOMAIN children = Child,
           \A c \in Child : Sound(parent, children[c]), Ledger, NEW c \in Child
    PROVE  /\ children[c].received <= parent.snapshot
           /\ children[c].migratedTotals.capacity <= parent.totalCapacity
           /\ children[c].migratedTotals.badDebt <= parent.badDebtAtFork
<1> DEFINE r == [x \in Child |-> children[x].received]
           k == [x \in Child |-> children[x].migratedTotals.capacity]
           d == [x \in Child |-> children[x].migratedTotals.badDebt]
<1>1. \A x \in Child : r[x] \in Nat /\ k[x] \in Nat /\ d[x] \in Nat
  <2>1. SUFFICES ASSUME NEW x \in Child PROVE r[x] \in Nat /\ k[x] \in Nat /\ d[x] \in Nat
    OBVIOUS
  <2>2. children[x].received \in Nat /\ children[x].migratedTotals \in Amounts
    BY DEF Sound, Typed
  <2> QED
    BY <2>2, AmountFields
<1>2. r[c] = children[c].received /\ k[c] = children[c].migratedTotals.capacity
      /\ d[c] = children[c].migratedTotals.badDebt
  OBVIOUS
<1>3. Received = SumFunctionOnSet(r, Child) /\ CapacityMigrated = SumFunctionOnSet(k, Child)
      /\ BadDebtMigrated = SumFunctionOnSet(d, Child)
  BY DEF Received, CapacityMigrated, BadDebtMigrated
<1> HIDE DEF r, k, d
<1>4. IsFiniteSet(Child)
  BY ForkFacts
<1>5. /\ r[c] <= Received /\ k[c] <= CapacityMigrated /\ d[c] <= BadDebtMigrated
      /\ Received \in Nat /\ CapacityMigrated \in Nat /\ BadDebtMigrated \in Nat
  BY <1>1, <1>3, <1>4, SumTerm, SumNat
<1>6. /\ parent.collateral \in Nat /\ parent.totalBadDebt \in Nat /\ parent.totalCapacity \in Nat
      /\ parent.snapshot \in Nat /\ parent.badDebtAtFork \in Nat
      /\ HeldBy(parent).capacity \in Nat /\ Total(parent.unclaimed).capacity \in Nat
      /\ r[c] \in Nat /\ k[c] \in Nat /\ d[c] \in Nat
  BY <1>1, TotalFacts DEF ParentSound, HeldBy
<1>7. /\ parent.collateral + Received = parent.snapshot
      /\ HeldBy(parent).capacity + Total(parent.unclaimed).capacity + CapacityMigrated
           <= parent.totalCapacity
      /\ parent.totalBadDebt + BadDebtMigrated = parent.badDebtAtFork
  BY DEF Ledger
<1> QED
  BY <1>2, <1>5, <1>6, <1>7

\* A child that is due for its auction, but for what is left to raise.
IsDue(ch) ==
    /\ Typed(ch) /\ Migrating(parent, ch) /\ Closed(parent, ch)
    /\ ch.rep = parent.poolRep /\ ch.received <= parent.snapshot
    /\ ch.migratedTotals.capacity <= parent.totalCapacity
    /\ ch.migratedTotals.badDebt <= parent.badDebtAtFork

LEMMA DueSettles ==
    ASSUME NEW ch, IsDue(ch)
    PROVE  Settling(parent, ch)
<1>1. ch.purchased = 0 /\ ch.ethRaised = 0 /\ ch.received \in Nat /\ ch.totals.units = parent.poolRep
      /\ ch.game <= parent.gameRep /\ ch.claimedRep = 0
  BY DEF IsDue, Closed, Typed
<1>2. ch.received + ch.ethRaised <= parent.snapshot
  BY <1>1 DEF IsDue
<1> QED
  BY <1>1, <1>2 DEF IsDue, Settling, Closed

LEMMA RaiseFacts ==
    ASSUME ParentSound(parent), NEW ch, IsDue(ch),
           NEW raise, raise = _computeSettlementCollateralToRaise(ch)
    PROVE  /\ raise \in Nat
           /\ raise > 0 => ch.migrated < parent.poolRep /\ ch.received + raise = parent.snapshot
<1>1. /\ ch.migrated \in Nat /\ ch.received \in Nat /\ parent.poolRep \in Nat
      /\ parent.snapshot \in Nat /\ ch.received <= parent.snapshot
  BY DEF IsDue, Typed, ParentSound
<1> DEFINE left == parent.snapshot - ch.received
<1>2. left \in Nat
  BY <1>1
<1> HIDE DEF left
<1>3. Max({0, left}) = left
  BY <1>2, MaxTwo
<1>4. raise = IF _isAllRepMigrated(ch) THEN 0 ELSE left
  BY <1>3 DEF _computeSettlementCollateralToRaise, left
<1>5. CASE _isAllRepMigrated(ch)
  BY <1>4, <1>5
<1>6. CASE ~ _isAllRepMigrated(ch)
  <2>1. ch.migrated < parent.poolRep
    BY <1>1, <1>6 DEF _isAllRepMigrated
  <2> QED
    BY <1>1, <1>2, <1>4, <1>6, <2>1 DEF left
<1> QED
  BY <1>5, <1>6

LEMMA AboutDue ==
    ASSUME ParentSound(parent), DOMAIN children = Child,
           \A x \in Child : Sound(parent, children[x]), Ledger,
           NEW c \in Child, children[c].state = "ForkMigration", NEW n, n = AboutToAuction(c)
    PROVE  /\ IsDue(n) /\ SplitAllowed(n) /\ n.state = "ForkTruthAuction"
           /\ n.shareSupply = parent.shareSupply /\ SameMoved(children[c], n)
<1>1. /\ children[c].received <= parent.snapshot
      /\ children[c].migratedTotals.capacity <= parent.totalCapacity
      /\ children[c].migratedTotals.badDebt <= parent.badDebtAtFork
  BY ChildDues
<1>2. /\ Typed(n) /\ Migrating(parent, n) /\ Closed(parent, n)
      /\ n.state = "ForkTruthAuction" /\ n.rep = parent.poolRep /\ SplitAllowed(n)
      /\ n.shareSupply = parent.shareSupply /\ SameMoved(children[c], n)
  BY AboutSound
<1> QED
  BY <1>1, <1>2 DEF IsDue, SameMoved

\* What a step that starts or ends the auction of a child leaves.
Advanced(c, n) ==
    /\ Sound(parent, n) /\ SameMoved(children[c], n)
    /\ n.state \in {"ForkTruthAuction", "Operational"}
    /\ n.shareSupply = parent.shareSupply /\ n.collateral <= parent.snapshot

LEMMA StartSound ==
    ASSUME ParentSound(parent), DOMAIN children = Child,
           \A x \in Child : Sound(parent, children[x]), Ledger,
           NEW c \in Child, startTruthAuction(c)
    PROVE  \E n : children' = [children EXCEPT ![c] = n] /\ Advanced(c, n)
<1> DEFINE ch == AboutToAuction(c)
           raise == _computeSettlementCollateralToRaise(ch)
           cap == _getTruthAuctionCap(ch)
<1>1. children[c].state = "ForkMigration"
  BY DEF startTruthAuction
<1>2. /\ IsDue(ch) /\ ch.state = "ForkTruthAuction"
      /\ ch.shareSupply = parent.shareSupply /\ SameMoved(children[c], ch)
  BY <1>1, AboutDue
<1>3. \/ /\ raise = 0
         /\ children' = [children EXCEPT ![c] = _finalizeTruthAuction(ch)]
      \/ /\ raise # 0 /\ cap > 0
         /\ children' = [children EXCEPT ![c] = [ch EXCEPT !.raise = raise, !.cap = cap]]
  BY DEF startTruthAuction
<1> HIDE DEF ch
<1>4. /\ raise \in Nat
      /\ raise > 0 => ch.migrated < parent.poolRep /\ ch.received + raise = parent.snapshot
  BY <1>2, RaiseFacts
<1> HIDE DEF raise, cap
<1>5. CASE raise = 0
  <2> DEFINE n == _finalizeTruthAuction(ch)
  <2>1. Settling(parent, ch)
    BY <1>2, DueSettles
  <2>2. OpenedBy(ch, n) /\ n.won = ch.won
    BY <2>1, FinalizeFields
  <2>3. children' = [children EXCEPT ![c] = n]
    BY <1>3, <1>5
  <2> HIDE DEF n
  <2>4. /\ ch.won \in [Vault -> Winnings] /\ \A v \in Vault : ch.won[v] = NoWinnings
        /\ ch.ethRaised = 0 /\ ch.purchased = 0
    BY <1>2 DEF IsDue, Typed, Closed
  <2>5. WonRep(n) = 0
    <3> DEFINE f == [v \in Vault |-> n.won[v].rep]
    <3>1. \A v \in Vault : f[v] = 0
      BY <2>2, <2>4 DEF NoWinnings
    <3>2. WonRep(n) = SumFunctionOnSet(f, Vault)
      BY DEF WonRep, SumOf
    <3> HIDE DEF f
    <3> QED
      BY <3>1, <3>2, ForkFacts, SumZero
  <2>6. Shared(ch, n)
    BY <2>2, <2>4, <2>5 DEF Shared
  <2>7. Sound(parent, n)
    BY <2>1, <2>2, <2>6, OpenedSound
  <2>8. n.collateral <= parent.snapshot /\ n.shareSupply = parent.shareSupply
    BY <1>2, <2>1, <2>2 DEF OpenedBy, Settling
  <2> QED
    BY <1>2, <2>2, <2>3, <2>7, <2>8 DEF Advanced, SameMoved, OpenedBy
<1>6. CASE raise # 0
  <2> DEFINE n == [ch EXCEPT !.raise = raise, !.cap = cap]
  <2>1. children' = [children EXCEPT ![c] = n]
    BY <1>3, <1>6
  <2>2. raise > 0 /\ ch.migrated < parent.poolRep /\ ch.received + raise = parent.snapshot
    BY <1>4, <1>6
  <2>3. Typed(ch) /\ Migrating(parent, ch) /\ Closed(parent, ch) /\ ch.rep = parent.poolRep
    BY <1>2 DEF IsDue
  <2>4. /\ cap \in Nat /\ cap > 0 /\ cap <= parent.poolRep + ch.game
        /\ ch.game > 0 => cap < parent.poolRep + ch.game
        /\ ch.migrated > 0 =>
             cap * parent.poolRep <= (parent.poolRep + ch.game) * (parent.poolRep - 1)
    BY <2>2, <2>3, CapFacts DEF cap
  <2>5. DOMAIN ch = ChildFields
    BY <2>3 DEF Typed
  <2>6. /\ DOMAIN n = ChildFields /\ n.raise = raise /\ n.cap = cap
        /\ n.state = ch.state /\ n.rep = ch.rep /\ n.split = ch.split /\ n.game = ch.game
        /\ n.price = ch.price /\ n.totals = ch.totals /\ n.vaults = ch.vaults
        /\ n.stale = ch.stale /\ n.feeEligible = ch.feeEligible
        /\ n.uncheckpointed = ch.uncheckpointed
        /\ n.accrued = ch.accrued /\ n.collateral = ch.collateral /\ n.received = ch.received
        /\ n.shareSupply = ch.shareSupply /\ n.migrated = ch.migrated
        /\ n.migratedTotals = ch.migratedTotals
        /\ n.purchased = ch.purchased /\ n.ethRaised = ch.ethRaised /\ n.won = ch.won
        /\ n.rate = ch.rate /\ n.unassigned = ch.unassigned
        /\ n.claimedRep = ch.claimedRep /\ n.bought = ch.bought /\ n.moved = ch.moved
    BY <2>5 DEF ChildFields
  <2> HIDE DEF n
  <2>7. Typed(n)
    BY <1>4, <2>3, <2>4, <2>6 DEF Typed
  <2>8. Migrating(parent, n) /\ Closed(parent, n)
    BY <2>3, <2>6 DEF Migrating, Closed, HeldBy
  <2>9. CapSound(parent, n)
    BY <2>4, <2>6 DEF CapSound
  <2>10. InAuction(parent, n)
    BY <1>2, <2>2, <2>3, <2>6, <2>9 DEF InAuction
  <2>11. n.state = "ForkTruthAuction"
    BY <1>2, <2>6
  <2>12. Sound(parent, n)
    BY <2>7, <2>8, <2>10, <2>11 DEF Sound
  <2>13. n.collateral = 0 /\ parent.snapshot \in Nat
    BY <2>8 DEF Closed, ParentSound
  <2>14. SameMoved(children[c], n) /\ n.shareSupply = parent.shareSupply
    BY <1>2, <2>6 DEF SameMoved
  <2>15. Advanced(c, n)
    BY <2>11, <2>12, <2>13, <2>14 DEF Advanced
  <2> QED
    BY <2>1, <2>15
<1> QED
  BY <1>5, <1>6

Ended(ch, outcome) == [ch EXCEPT !.ethRaised = outcome[1], !.purchased = outcome[2]]

\* No outcome of an auction is refused but for the price.
LEMMA OutcomeSettles ==
    ASSUME ParentSound(parent), DOMAIN children = Child,
           \A x \in Child : Sound(parent, children[x]), Ledger,
           NEW c \in Child, children[c].state = "ForkTruthAuction",
           NEW outcome \in Outcomes(children[c]), NEW n, n = Ended(children[c], outcome)
    PROVE  /\ Settling(parent, n) /\ n.ethRaised = outcome[1] /\ n.purchased = outcome[2]
           /\ n.ethRaised \in Nat /\ n.purchased \in Nat
           /\ n.ethRaised = 0 => n.purchased = 0
           /\ n.won = children[c].won /\ SameMoved(children[c], n)
           /\ n.shareSupply = parent.shareSupply
<1> DEFINE ch == children[c]
           eth == outcome[1]
           rep == outcome[2]
<1>1. /\ Typed(ch) /\ Migrating(parent, ch) /\ Closed(parent, ch) /\ InAuction(parent, ch)
      /\ DOMAIN ch = ChildFields /\ ch.raise \in Nat /\ ch.cap \in Nat /\ ch.received \in Nat
  BY DEF Sound, Typed
<1>2. /\ ch.raise > 0 /\ ch.received + ch.raise = parent.snapshot /\ ch.cap > 0
      /\ ch.migrated < parent.poolRep /\ CapSound(parent, ch) /\ ch.rep = parent.poolRep
      /\ ch.shareSupply = parent.shareSupply
  BY <1>1 DEF InAuction, CapSound
<1>3. /\ eth \in Nat /\ rep \in Nat /\ eth <= ch.raise /\ rep <= ch.cap
      /\ (rep > 0 => eth > 0)
  <2>1. outcome \in ({ch.raise} \X (0 .. ch.cap)) \cup ((1 .. ch.raise) \X {ch.cap})
                      \cup {<<0, 0>>}
    BY DEF Outcomes
  <2> HIDE DEF ch
  <2>2. CASE outcome \in {ch.raise} \X (0 .. ch.cap)
    BY <1>1, <1>2, <2>2
  <2>3. CASE outcome \in (1 .. ch.raise) \X {ch.cap}
    BY <1>1, <1>2, <2>3
  <2>4. CASE outcome = <<0, 0>>
    BY <1>1, <2>4
  <2> QED
    BY <2>1, <2>2, <2>3, <2>4
<1>4. n = [ch EXCEPT !.ethRaised = eth, !.purchased = rep]
  BY DEF Ended
<1> HIDE DEF eth, rep, ch
<1>5. /\ DOMAIN n = ChildFields /\ n.ethRaised = eth /\ n.purchased = rep
      /\ n.state = ch.state /\ n.rep = ch.rep /\ n.split = ch.split /\ n.game = ch.game
      /\ n.price = ch.price /\ n.totals = ch.totals /\ n.vaults = ch.vaults
      /\ n.stale = ch.stale /\ n.feeEligible = ch.feeEligible
      /\ n.uncheckpointed = ch.uncheckpointed
      /\ n.accrued = ch.accrued /\ n.collateral = ch.collateral /\ n.received = ch.received
      /\ n.shareSupply = ch.shareSupply /\ n.migrated = ch.migrated
      /\ n.migratedTotals = ch.migratedTotals
      /\ n.raise = ch.raise /\ n.cap = ch.cap /\ n.won = ch.won
      /\ n.rate = ch.rate /\ n.unassigned = ch.unassigned
      /\ n.claimedRep = ch.claimedRep /\ n.bought = ch.bought /\ n.moved = ch.moved
  BY <1>1, <1>4 DEF ChildFields
<1>6. Typed(n)
  BY <1>1, <1>3, <1>5 DEF Typed
<1>7. Migrating(parent, n)
  BY <1>1, <1>5 DEF Migrating
<1>8. CapSound(parent, n)
  BY <1>2, <1>5 DEF CapSound
<1>9. n.received + n.ethRaised <= parent.snapshot
  BY <1>1, <1>2, <1>3, <1>5
<1>10. /\ n.migratedTotals.capacity <= parent.totalCapacity
       /\ n.migratedTotals.badDebt <= parent.badDebtAtFork
  BY <1>5, ChildDues DEF ch
<1>11. /\ n.rep = parent.poolRep /\ n.totals.units = parent.poolRep /\ n.game <= parent.gameRep
       /\ HeldBy(n) = [n.migratedTotals EXCEPT !.units = n.migrated]
       /\ \A v \in Vault : /\ n.won[v] = NoWinnings /\ n.bought[v] = 0
                           /\ n.moved[v] = n.vaults[v].units
       /\ n.stale = {} /\ n.uncheckpointed = 0 /\ ~ n.accrued /\ n.claimedRep = 0
  BY <1>1, <1>2, <1>5 DEF Closed, HeldBy
<1>12. n.purchased > 0 => /\ n.ethRaised > 0 /\ n.purchased <= n.cap
                          /\ n.migrated < parent.poolRep /\ CapSound(parent, n)
  BY <1>2, <1>3, <1>5, <1>8
<1>13. Settling(parent, n)
  BY <1>6, <1>7, <1>9, <1>10, <1>11, <1>12 DEF Settling
<1>14. n.ethRaised = 0 => n.purchased = 0
  BY <1>3, <1>5
<1> QED
  BY <1>2, <1>3, <1>5, <1>13, <1>14 DEF SameMoved, eth, rep, ch

LEMMA FinishSound ==
    ASSUME ParentSound(parent), DOMAIN children = Child,
           \A x \in Child : Sound(parent, children[x]), Ledger,
           NEW c \in Child, finalizeTruthAuction(c)
    PROVE  \E n : children' = [children EXCEPT ![c] = n] /\ Advanced(c, n)
<1>1. children[c].state = "ForkTruthAuction"
  BY DEF finalizeTruthAuction
<1>2. PICK outcome \in Outcomes(children[c]) :
        LET child == [children[c] EXCEPT !.ethRaised = outcome[1], !.purchased = outcome[2]]
            open == _finalizeTruthAuction(child)
        IN  \E v, w \in Vault, eth \in 0 .. child.ethRaised :
            \E rep \in FirstRep(eth, child) :
              LET capacity == Slices(eth, child.ethRaised, open.unassigned.capacity)
                  badDebt == Slices(eth, child.ethRaised, open.unassigned.badDebt)
              IN  /\ v # w
                  /\ children' = [children EXCEPT ![c] =
                        [open EXCEPT
                           !.won[v] = [rep |-> rep, capacity |-> capacity[1],
                                       badDebt |-> badDebt[1]],
                           !.won[w] = [rep |-> child.purchased - rep,
                                       capacity |-> capacity[2], badDebt |-> badDebt[2]]]]
  BY Zenon DEF finalizeTruthAuction
<1> DEFINE ch == Ended(children[c], outcome)
           open == _finalizeTruthAuction(ch)
<1> DEFINE Ends(v, w, eth, rep) ==
        /\ v # w
        /\ children' = [children EXCEPT ![c] =
              [open EXCEPT
                 !.won[v] = [rep |-> rep,
                             capacity |-> Slices(eth, ch.ethRaised, open.unassigned.capacity)[1],
                             badDebt |-> Slices(eth, ch.ethRaised, open.unassigned.badDebt)[1]],
                 !.won[w] = [rep |-> ch.purchased - rep,
                             capacity |-> Slices(eth, ch.ethRaised, open.unassigned.capacity)[2],
                             badDebt |-> Slices(eth, ch.ethRaised, open.unassigned.badDebt)[2]]]]
<1>3. PICK v \in Vault, w \in Vault, eth \in 0 .. ch.ethRaised :
         \E rep \in FirstRep(eth, ch) : Ends(v, w, eth, rep)
  BY <1>2, Zenon DEF Ended
<1>4. PICK rep \in FirstRep(eth, ch) : Ends(v, w, eth, rep)
  BY <1>3
<1>5. /\ Settling(parent, ch) /\ ch.ethRaised \in Nat /\ ch.purchased \in Nat
      /\ ch.ethRaised = 0 => ch.purchased = 0
      /\ SameMoved(children[c], ch) /\ ch.shareSupply = parent.shareSupply
  BY <1>1, OutcomeSettles
<1> HIDE DEF ch
<1>6. OpenedBy(ch, open) /\ open.won = ch.won
  BY <1>5, FinalizeFields
<1> DEFINE capacity == Slices(eth, ch.ethRaised, open.unassigned.capacity)
           badDebt == Slices(eth, ch.ethRaised, open.unassigned.badDebt)
           a == [rep |-> rep, capacity |-> capacity[1], badDebt |-> badDebt[1]]
           b == [rep |-> ch.purchased - rep, capacity |-> capacity[2], badDebt |-> badDebt[2]]
           n == [open EXCEPT !.won[v] = a, !.won[w] = b]
<1>7. children' = [children EXCEPT ![c] = n]
  BY <1>4
<1>8. /\ ch.won \in [Vault -> Winnings] /\ \A x \in Vault : ch.won[x] = NoWinnings
      /\ ch.migratedTotals \in Amounts
  BY <1>5 DEF Settling, Typed
<1>9. open.unassigned.capacity \in Nat /\ open.unassigned.badDebt \in Nat
  <2>1. /\ open.unassigned.capacity = parent.totalCapacity - ch.migratedTotals.capacity
        /\ open.unassigned.badDebt = parent.badDebtAtFork - ch.migratedTotals.badDebt
    BY <1>6 DEF OpenedBy
  <2>2. /\ ch.migratedTotals.capacity <= parent.totalCapacity
        /\ ch.migratedTotals.badDebt <= parent.badDebtAtFork
        /\ parent.totalCapacity \in Nat /\ parent.badDebtAtFork \in Nat
        /\ ch.migratedTotals.capacity \in Nat /\ ch.migratedTotals.badDebt \in Nat
    BY <1>5, <1>8, AmountFields DEF Settling, ParentSound
  <2> QED
    BY <2>1, <2>2
<1>10. rep \in Nat /\ rep <= ch.purchased
  BY <1>5, FirstRepFacts
<1> HIDE DEF open
<1>11. /\ capacity[1] \in Nat /\ capacity[2] \in Nat
       /\ ch.ethRaised > 0 => capacity[1] + capacity[2] = open.unassigned.capacity
       /\ ch.ethRaised = 0 => capacity[1] = 0 /\ capacity[2] = 0
  BY <1>5, <1>9, SliceFacts
<1>12. /\ badDebt[1] \in Nat /\ badDebt[2] \in Nat
       /\ ch.ethRaised > 0 => badDebt[1] + badDebt[2] = open.unassigned.badDebt
       /\ ch.ethRaised = 0 => badDebt[1] = 0 /\ badDebt[2] = 0
  BY <1>5, <1>9, SliceFacts, SMTT(30)
<1> HIDE DEF capacity, badDebt
<1>13. a \in Winnings /\ b \in Winnings
  BY <1>5, <1>10, <1>11, <1>12 DEF Winnings
<1>14. /\ a.rep + b.rep = ch.purchased
       /\ a.capacity + b.capacity = capacity[1] + capacity[2]
       /\ a.badDebt + b.badDebt = badDebt[1] + badDebt[2]
  BY <1>5, <1>10
<1>15. ch.ethRaised = 0 => a = NoWinnings /\ b = NoWinnings
  <2>1. ch.ethRaised = 0 => rep = 0 /\ ch.purchased - rep = 0
    BY <1>5, <1>10
  <2> QED
    BY <1>11, <1>12, <2>1 DEF NoWinnings
<1> HIDE DEF a, b
<1>16. DOMAIN open = ChildFields /\ open.won = ch.won
  BY <1>6 DEF OpenedBy
<1>17. /\ DOMAIN n = ChildFields /\ n.won = [ch.won EXCEPT ![v] = a, ![w] = b]
       /\ n.state = open.state /\ n.rep = open.rep /\ n.split = open.split /\ n.game = open.game
       /\ n.price = open.price /\ n.totals = open.totals /\ n.vaults = open.vaults
       /\ n.stale = open.stale /\ n.feeEligible = open.feeEligible
       /\ n.uncheckpointed = open.uncheckpointed
       /\ n.accrued = open.accrued /\ n.collateral = open.collateral
       /\ n.received = open.received /\ n.shareSupply = open.shareSupply
       /\ n.migrated = open.migrated /\ n.migratedTotals = open.migratedTotals
       /\ n.raise = open.raise /\ n.cap = open.cap /\ n.purchased = open.purchased
       /\ n.ethRaised = open.ethRaised /\ n.rate = open.rate /\ n.unassigned = open.unassigned
       /\ n.claimedRep = open.claimedRep /\ n.bought = open.bought /\ n.moved = open.moved
  BY <1>16 DEF ChildFields
<1> HIDE DEF n
<1>18. OpenedBy(ch, n)
  BY <1>6, <1>17 DEF OpenedBy
<1>19. /\ n.won \in [Vault -> Winnings]
       /\ WonRep(n) = a.rep + b.rep /\ WonCapacity(n) = a.capacity + b.capacity
       /\ WonBadDebt(n) = a.badDebt + b.badDebt
       /\ a = NoWinnings /\ b = NoWinnings => \A x \in Vault : n.won[x] = NoWinnings
  BY <1>4, <1>8, <1>13, <1>17, TwoWinners
<1>20. Shared(ch, n)
  BY <1>5, <1>11, <1>12, <1>14, <1>15, <1>17, <1>19 DEF Shared
<1>21. Sound(parent, n)
  BY <1>5, <1>18, <1>20, OpenedSound
<1>22. /\ n.collateral <= parent.snapshot /\ n.shareSupply = parent.shareSupply
       /\ n.state = "Operational" /\ SameMoved(children[c], n)
  BY <1>5, <1>18 DEF OpenedBy, Settling, SameMoved
<1>23. Advanced(c, n)
  BY <1>21, <1>22 DEF Advanced
<1> QED
  BY <1>7, <1>23

-----------------------------------------------------------------------------
(* An open child.                                                          *)

LEMMA OpenFacts ==
    ASSUME NEW p, NEW ch, Sound(p, ch), ch.state = "Operational"
    PROVE  /\ Typed(ch) /\ DOMAIN ch = ChildFields /\ Migrating(p, ch)
           /\ Positioned(ch) /\ FeesSound(ch) /\ Worth(ch) /\ ch.collateral <= p.snapshot
           /\ UnitsPerRep(ch) \in Nat /\ UnitsPerRep(ch) > 0
           /\ HeldBy(ch).units \in Nat /\ HeldBy(ch).capacity \in Nat /\ HeldBy(ch).badDebt \in Nat
           /\ StaleCapacity(ch) \in Nat
<1>1. /\ Typed(ch) /\ DOMAIN ch = ChildFields /\ Migrating(p, ch)
      /\ Positioned(ch) /\ FeesSound(ch) /\ Worth(ch) /\ ch.collateral <= p.snapshot
  BY DEF Sound, Open, Typed
<1>2. ch.rate \in Nat /\ ch.vaults \in Positions /\ ch.stale \subseteq Vault
  BY <1>1 DEF Typed
<1>3. UnitsPerRep(ch) \in Nat /\ UnitsPerRep(ch) > 0
  BY <1>1, <1>2 DEF Worth, UnitsPerRep
<1>4. /\ HeldBy(ch).units \in Nat /\ HeldBy(ch).capacity \in Nat /\ HeldBy(ch).badDebt \in Nat
  BY <1>2, TotalFacts DEF HeldBy
<1>5. StaleCapacity(ch) \in Nat
  <2> DEFINE f == [v \in Vault |-> ch.vaults[v].capacity]
  <2>1. \A v \in Vault : f[v] \in Nat
    BY <1>2, PositionFields
  <2>2. StaleCapacity(ch) = SumFunctionOnSet(f, ch.stale)
    BY DEF StaleCapacity
  <2>3. IsFiniteSet(ch.stale)
    BY <1>2, ForkFacts, FS_Subset
  <2> HIDE DEF f
  <2>4. \A v \in ch.stale : f[v] \in Nat
    BY <1>2, <2>1
  <2> QED
    BY <2>2, <2>3, <2>4, SumNat
<1> QED
  BY <1>1, <1>3, <1>4, <1>5

\* Accrue, for the child.
Accrued(ch) == [ch EXCEPT !.stale = Vault, !.uncheckpointed = ch.feeEligible, !.accrued = TRUE]

LEMMA AccrueSound ==
    ASSUME NEW p, NEW ch, Sound(p, ch), ch.state = "Operational", NEW n, n = Accrued(ch)
    PROVE  /\ Sound(p, n) /\ n.state = ch.state /\ SameMoved(ch, n)
           /\ n.shareSupply = ch.shareSupply /\ n.collateral = ch.collateral
<1>1. /\ Typed(ch) /\ DOMAIN ch = ChildFields /\ Migrating(p, ch)
      /\ Positioned(ch) /\ FeesSound(ch) /\ Worth(ch) /\ ch.collateral <= p.snapshot
  BY OpenFacts
<1>2. /\ DOMAIN n = ChildFields /\ n.stale = Vault /\ n.uncheckpointed = ch.feeEligible
      /\ n.accrued = TRUE
      /\ n.state = ch.state /\ n.rep = ch.rep /\ n.split = ch.split /\ n.game = ch.game
      /\ n.price = ch.price /\ n.totals = ch.totals /\ n.vaults = ch.vaults
      /\ n.feeEligible = ch.feeEligible /\ n.collateral = ch.collateral
      /\ n.received = ch.received
      /\ n.shareSupply = ch.shareSupply /\ n.migrated = ch.migrated
      /\ n.migratedTotals = ch.migratedTotals /\ n.raise = ch.raise /\ n.cap = ch.cap
      /\ n.purchased = ch.purchased /\ n.ethRaised = ch.ethRaised /\ n.won = ch.won
      /\ n.rate = ch.rate /\ n.unassigned = ch.unassigned
      /\ n.claimedRep = ch.claimedRep /\ n.bought = ch.bought /\ n.moved = ch.moved
  BY <1>1 DEF ChildFields, Accrued
<1>3. Typed(n)
  BY <1>1, <1>2 DEF Typed
<1>4. Migrating(p, n)
  BY <1>1, <1>2 DEF Migrating
<1>5. /\ HeldBy(n) = HeldBy(ch) /\ WonRep(n) = WonRep(ch) /\ WonCapacity(n) = WonCapacity(ch)
      /\ WonBadDebt(n) = WonBadDebt(ch) /\ UnitsPerRep(n) = UnitsPerRep(ch)
      /\ (Sold(n) <=> Sold(ch)) /\ (Priced(n) <=> Priced(ch))
  BY <1>2 DEF HeldBy, WonRep, WonCapacity, WonBadDebt, UnitsPerRep, Sold, Priced
<1>6. Positioned(n) /\ Worth(n)
  BY <1>1, <1>2, <1>5 DEF Positioned, Worth
<1>7. StaleCapacity(n) = HeldBy(n).capacity
  BY <1>2, TotalIsSums DEF StaleCapacity, HeldBy, CapacityOf
<1>8. FeesSound(n)
  BY <1>1, <1>2, <1>5, <1>7 DEF FeesSound
<1> QED
  BY <1>1, <1>2, <1>3, <1>4, <1>6, <1>8 DEF Sound, Open, SameMoved

\* What a checkpoint leaves as it was.
SameButFees(ch, n) ==
    /\ DOMAIN n = ChildFields
    /\ n.state = ch.state /\ n.rep = ch.rep /\ n.split = ch.split /\ n.game = ch.game
    /\ n.price = ch.price /\ n.totals = ch.totals /\ n.vaults = ch.vaults
    /\ n.feeEligible = ch.feeEligible /\ n.collateral = ch.collateral
    /\ n.received = ch.received /\ n.accrued = ch.accrued
    /\ n.shareSupply = ch.shareSupply /\ n.migrated = ch.migrated
    /\ n.migratedTotals = ch.migratedTotals /\ n.raise = ch.raise /\ n.cap = ch.cap
    /\ n.purchased = ch.purchased /\ n.ethRaised = ch.ethRaised /\ n.won = ch.won
    /\ n.rate = ch.rate /\ n.unassigned = ch.unassigned
    /\ n.claimedRep = ch.claimedRep /\ n.bought = ch.bought /\ n.moved = ch.moved

\* A vault that is checkpointed leaves the capacity to be checkpointed.
LEMMA CheckpointFacts ==
    ASSUME NEW p, NEW ch, Sound(p, ch), ch.state = "Operational", NEW v \in Vault,
           NEW n, n = Checkpointed(ch, v)
    PROVE  /\ SameButFees(ch, n) /\ n.stale = ch.stale \ {v} /\ n.uncheckpointed \in Int
           /\ Priced(ch) => n.uncheckpointed >= 0
           /\ FeesSound(n)
           /\ n.uncheckpointed >= 0 => Sound(p, n)
<1> DEFINE own == IF v \in ch.stale THEN ch.vaults[v].capacity ELSE 0
           f == [w \in Vault |-> ch.vaults[w].capacity]
<1>1. /\ Typed(ch) /\ DOMAIN ch = ChildFields /\ Migrating(p, ch)
      /\ Positioned(ch) /\ FeesSound(ch) /\ Worth(ch) /\ ch.collateral <= p.snapshot
      /\ StaleCapacity(ch) \in Nat
  BY OpenFacts
<1>2. n = [ch EXCEPT !.stale = ch.stale \ {v}, !.uncheckpointed = ch.uncheckpointed - own]
  BY DEF Checkpointed
<1>3. own \in Nat /\ ch.uncheckpointed \in Nat /\ ch.stale \subseteq Vault
      /\ ch.unassigned.capacity \in Nat /\ \A w \in Vault : f[w] \in Nat
  BY <1>1, PositionFields, AmountFields DEF Typed
<1> HIDE DEF own
<1>4. SameButFees(ch, n) /\ n.stale = ch.stale \ {v} /\ n.uncheckpointed = ch.uncheckpointed - own
  BY <1>1, <1>2 DEF ChildFields, SameButFees
<1>5. /\ HeldBy(n) = HeldBy(ch) /\ WonRep(n) = WonRep(ch) /\ WonCapacity(n) = WonCapacity(ch)
      /\ WonBadDebt(n) = WonBadDebt(ch) /\ UnitsPerRep(n) = UnitsPerRep(ch)
      /\ (Sold(n) <=> Sold(ch)) /\ (Priced(n) <=> Priced(ch))
  BY <1>4 DEF SameButFees, HeldBy, WonRep, WonCapacity, WonBadDebt, UnitsPerRep, Sold, Priced
<1>6. StaleCapacity(ch) = StaleCapacity(n) + own /\ StaleCapacity(n) \in Nat
  <2>1. StaleCapacity(ch) = SumFunctionOnSet(f, ch.stale)
    BY DEF StaleCapacity
  <2>2. StaleCapacity(n) = SumFunctionOnSet(f, ch.stale \ {v})
    BY <1>4 DEF StaleCapacity, SameButFees
  <2>3. own = IF v \in ch.stale THEN f[v] ELSE 0
    BY DEF own
  <2> HIDE DEF f
  <2>4. /\ IsFiniteSet(ch.stale) /\ \A w \in ch.stale : f[w] \in Int
        /\ IsFiniteSet(ch.stale \ {v}) /\ \A w \in ch.stale \ {v} : f[w] \in Nat
    BY <1>3, ForkFacts, FS_Subset
  <2>5. SumFunctionOnSet(f, ch.stale \ {v}) \in Nat
    BY <2>4, SumNat
  <2>6. CASE v \in ch.stale
    <3>1. SumFunctionOnSet(f, ch.stale) = f[v] + SumFunctionOnSet(f, ch.stale \ {v})
      BY <2>4, <2>6, SumRemove
    <3> QED
      BY <1>3, <2>1, <2>2, <2>3, <2>5, <2>6, <3>1
  <2>7. CASE v \notin ch.stale
    <3>1. ch.stale \ {v} = ch.stale
      BY <2>7
    <3>2. StaleCapacity(n) = StaleCapacity(ch)
      BY <2>1, <2>2, <3>1
    <3>3. own = 0
      BY <2>3, <2>7
    <3> QED
      BY <1>1, <3>2, <3>3
  <2> QED
    BY <2>6, <2>7
<1>7. ASSUME Priced(ch)
      PROVE  n.uncheckpointed = StaleCapacity(n)
                                 + IF n.accrued /\ Sold(n) THEN n.unassigned.capacity ELSE 0
  <2> DEFINE rest == IF ch.accrued /\ Sold(ch) THEN ch.unassigned.capacity ELSE 0
  <2>1. ch.uncheckpointed = StaleCapacity(ch) + rest
    BY <1>1, <1>7 DEF FeesSound
  <2>2. rest \in Nat
    BY <1>3
  <2>3. rest = IF n.accrued /\ Sold(n) THEN n.unassigned.capacity ELSE 0
    BY <1>4, <1>5 DEF SameButFees
  <2> HIDE DEF rest
  <2>4. n.uncheckpointed = StaleCapacity(n) + rest
    BY <1>3, <1>4, <1>6, <2>1, <2>2
  <2> QED
    BY <2>3, <2>4
<1>8. Priced(ch) => n.uncheckpointed >= 0
  BY <1>3, <1>4, <1>6, <1>7 DEF SameButFees
<1>9. FeesSound(n)
  <2>1. Priced(ch) => n.feeEligible = HeldBy(n).capacity
                                     + IF Sold(n) THEN n.unassigned.capacity ELSE 0
    BY <1>1, <1>4, <1>5 DEF FeesSound, SameButFees
  <2> QED
    BY <1>5, <1>7, <2>1 DEF FeesSound
<1>10. n.uncheckpointed \in Int
  BY <1>3, <1>4
<1>11. ASSUME n.uncheckpointed >= 0 PROVE Sound(p, n)
  <2>1. Typed(n)
    BY <1>1, <1>3, <1>4, <1>10, <1>11 DEF Typed, SameButFees
  <2>2. Migrating(p, n)
    BY <1>1, <1>4 DEF Migrating, SameButFees
  <2>3. Positioned(n) /\ Worth(n)
    BY <1>1, <1>4, <1>5 DEF Positioned, Worth, SameButFees
  <2>4. n.state = "Operational" /\ n.collateral <= p.snapshot
    BY <1>1, <1>4 DEF SameButFees
  <2> QED
    BY <1>9, <2>1, <2>2, <2>3, <2>4 DEF Sound, Open
<1> QED
  BY <1>4, <1>8, <1>9, <1>10, <1>11

\* What a vault won is part of what the others won with it.
LEMMA WonFacts ==
    ASSUME NEW p, NEW ch, Sound(p, ch), ch.state = "Operational", NEW v \in Vault
    PROVE  /\ ch.won[v].rep \in Nat /\ ch.won[v].capacity \in Nat /\ ch.won[v].badDebt \in Nat
           /\ WonRep(ch) \in Nat /\ WonCapacity(ch) \in Nat /\ WonBadDebt(ch) \in Nat
           /\ ch.won[v].rep <= WonRep(ch) /\ ch.won[v].capacity <= WonCapacity(ch)
           /\ ch.won[v].badDebt <= WonBadDebt(ch)
           /\ ch.won[v].rep * UnitsPerRep(ch) = ch.won[v].rep * ch.rate
           /\ ch.won[v].rep > 0 => Sold(ch) /\ ch.rate > 0
<1> DEFINE r == [w \in Vault |-> ch.won[w].rep]
           k == [w \in Vault |-> ch.won[w].capacity]
           d == [w \in Vault |-> ch.won[w].badDebt]
<1>1. /\ Typed(ch) /\ Positioned(ch) /\ UnitsPerRep(ch) \in Nat /\ UnitsPerRep(ch) > 0
  BY OpenFacts
<1>2. ch.won \in [Vault -> Winnings] /\ ch.rate \in Nat /\ ch.purchased \in Nat
      /\ ch.claimedRep \in Nat
  BY <1>1 DEF Typed
<1>3. \A w \in Vault : r[w] \in Nat /\ k[w] \in Nat /\ d[w] \in Nat
  BY <1>2 DEF Winnings
<1>4. /\ WonRep(ch) = SumFunctionOnSet(r, Vault) /\ WonCapacity(ch) = SumFunctionOnSet(k, Vault)
      /\ WonBadDebt(ch) = SumFunctionOnSet(d, Vault)
      /\ r[v] = ch.won[v].rep /\ k[v] = ch.won[v].capacity /\ d[v] = ch.won[v].badDebt
  BY DEF WonRep, WonCapacity, WonBadDebt, SumOf
<1> HIDE DEF r, k, d
<1>5. IsFiniteSet(Vault)
  BY ForkFacts
<1>6. /\ WonRep(ch) \in Nat /\ WonCapacity(ch) \in Nat /\ WonBadDebt(ch) \in Nat
      /\ r[v] <= WonRep(ch) /\ k[v] <= WonCapacity(ch) /\ d[v] <= WonBadDebt(ch)
      /\ r[v] \in Nat /\ k[v] \in Nat /\ d[v] \in Nat
  BY <1>3, <1>4, <1>5, SumTerm, SumNat
<1>7. WonRep(ch) + ch.claimedRep = ch.purchased
  BY <1>1 DEF Positioned
<1>8. CASE Sold(ch)
  <2>1. UnitsPerRep(ch) = ch.rate
    BY <1>8 DEF UnitsPerRep
  <2> QED
    BY <1>1, <1>4, <1>6, <1>8, <2>1
<1>9. CASE ~ Sold(ch)
  <2>1. ch.won[v].rep = 0
    BY <1>2, <1>4, <1>6, <1>7, <1>9 DEF Sold
  <2>2. 0 * UnitsPerRep(ch) = 0 /\ 0 * ch.rate = 0
    BY <1>1, <1>2
  <2> QED
    BY <1>4, <1>6, <2>1, <2>2
<1> QED
  BY <1>8, <1>9

\* A claim is not refused, unless ETH was taken and no REP sold.
LEMMA ClaimFacts ==
    ASSUME NEW p, NEW ch, Sound(p, ch), ch.state = "Operational", NEW v \in Vault, Priced(ch)
    PROVE  ClaimAccepted(ch, v)
<1> DEFINE k == Checkpointed(ch, v)
           n == creditForkAuctionVault(ch, v)
           r == ch.won[v].rep
<1>1. /\ Typed(ch) /\ DOMAIN ch = ChildFields /\ Positioned(ch) /\ FeesSound(ch)
  BY OpenFacts
<1>2. /\ r \in Nat /\ ch.won[v].capacity \in Nat /\ ch.won[v].badDebt \in Nat
      /\ WonRep(ch) \in Nat /\ WonCapacity(ch) \in Nat /\ WonBadDebt(ch) \in Nat
      /\ r <= WonRep(ch) /\ ch.won[v].capacity <= WonCapacity(ch)
      /\ ch.won[v].badDebt <= WonBadDebt(ch)
      /\ r > 0 => ch.rate > 0
  BY WonFacts
<1>3. /\ SameButFees(ch, k) /\ k.stale = ch.stale \ {v} /\ k.uncheckpointed \in Int
      /\ FeesSound(k) /\ k.uncheckpointed >= 0 /\ Sound(p, k)
  BY CheckpointFacts
<1>4. /\ ch.unassigned \in Amounts /\ ch.unassigned.capacity \in Nat /\ ch.unassigned.badDebt \in Nat
      /\ ch.rate \in Nat /\ ch.purchased \in Nat /\ ch.claimedRep \in Nat /\ ch.ethRaised \in Nat
  BY <1>1, AmountFields DEF Typed
<1>5. /\ n.unassigned = Minus(ch.unassigned, WonBy(ch, v))
      /\ n.uncheckpointed = k.uncheckpointed - IF ch.accrued THEN ch.won[v].capacity ELSE 0
  <2>1. n = [k EXCEPT !.vaults[v] = Plus(k.vaults[v], WonBy(ch, v)),
                      !.unassigned = Minus(k.unassigned, WonBy(ch, v)),
                      !.claimedRep = k.claimedRep + ch.won[v].rep,
                      !.uncheckpointed = k.uncheckpointed
                                           - IF ch.accrued THEN WonBy(ch, v).capacity ELSE 0]
    BY DEF creditForkAuctionVault
  <2>2. DOMAIN k = ChildFields /\ k.unassigned = ch.unassigned
    BY <1>3 DEF SameButFees
  <2>3. WonBy(ch, v).capacity = ch.won[v].capacity
    BY DEF WonBy
  <2> HIDE DEF k, n
  <2> QED
    BY <2>1, <2>2, <2>3 DEF ChildFields
<1>6. /\ n.unassigned.capacity = ch.unassigned.capacity - ch.won[v].capacity
      /\ n.unassigned.badDebt = ch.unassigned.badDebt - ch.won[v].badDebt
  BY <1>5 DEF Minus, WonBy
<1>7. /\ ch.won[v].capacity <= ch.unassigned.capacity
      /\ ch.won[v].badDebt <= ch.unassigned.badDebt
  <2>1. CASE ch.ethRaised = 0
    <3>1. ch.won[v].capacity = 0 /\ ch.won[v].badDebt = 0
      BY <1>1, <2>1 DEF Positioned, NoWinnings
    <3> QED
      BY <1>4, <3>1
  <2>2. CASE ch.ethRaised > 0
    BY <1>1, <1>2, <2>2 DEF Positioned
  <2> QED
    BY <1>4, <2>1, <2>2
<1>8. (r + ch.claimedRep) * ch.rate <= ch.purchased * ch.rate
  <2> DEFINE a == r + ch.claimedRep
             b == ch.purchased
             c == ch.rate
  <2>1. a \in Nat /\ b \in Nat /\ c \in Nat /\ a <= b
    BY <1>1, <1>2, <1>4 DEF Positioned
  <2> HIDE DEF a, b, c
  <2>2. a * c <= b * c
    BY <2>1, ProductMonotone
  <2> QED
    BY <2>2 DEF a, b, c
<1>9. n.uncheckpointed >= 0
  <2>1. CASE ~ ch.accrued
    BY <1>3, <1>5, <2>1
  <2>2. CASE ch.accrued /\ ~ Sold(ch)
    <3>1. ch.ethRaised = 0
      BY <2>2 DEF Priced
    <3>2. ch.won[v].capacity = 0
      BY <1>1, <3>1 DEF Positioned, NoWinnings
    <3> QED
      BY <1>3, <1>5, <3>2
  <2>3. CASE ch.accrued /\ Sold(ch)
    <3>1. k.accrued /\ Sold(k) /\ Priced(k) /\ k.state = "Operational"
          /\ k.unassigned = ch.unassigned
      BY <1>3, <2>3 DEF SameButFees, Sold, Priced
    <3>2. k.uncheckpointed = StaleCapacity(k) + ch.unassigned.capacity
      BY <1>3, <3>1 DEF FeesSound
    <3>3. StaleCapacity(k) \in Nat
      BY <1>3, <3>1, OpenFacts
    <3> HIDE DEF k, n
    <3> QED
      BY <1>2, <1>4, <1>5, <1>7, <2>3, <3>2, <3>3
  <2> QED
    BY <2>1, <2>2, <2>3
<1> HIDE DEF n
<1>10. n.unassigned.capacity >= 0 /\ n.unassigned.badDebt >= 0
  BY <1>2, <1>4, <1>6, <1>7
<1> QED
  BY <1>2, <1>8, <1>9, <1>10 DEF ClaimAccepted, n

\* What one vault won leaves the sum of what was won.
LEMMA WonWithout ==
    ASSUME NEW p, NEW ch, Sound(p, ch), ch.state = "Operational", NEW v \in Vault,
           NEW n, n.won = [ch.won EXCEPT ![v] = NoWinnings]
    PROVE  /\ n.won \in [Vault -> Winnings]
           /\ WonRep(n) = WonRep(ch) - ch.won[v].rep
           /\ WonCapacity(n) = WonCapacity(ch) - ch.won[v].capacity
           /\ WonBadDebt(n) = WonBadDebt(ch) - ch.won[v].badDebt
<1> DEFINE r == [w \in Vault |-> ch.won[w].rep]
           k == [w \in Vault |-> ch.won[w].capacity]
           d == [w \in Vault |-> ch.won[w].badDebt]
           R == [w \in Vault |-> n.won[w].rep]
           K == [w \in Vault |-> n.won[w].capacity]
           D == [w \in Vault |-> n.won[w].badDebt]
<1>1. ch.won \in [Vault -> Winnings] /\ NoWinnings \in Winnings /\ IsFiniteSet(Vault)
  BY OpenFacts, ForkFacts DEF Typed, NoWinnings, Winnings
<1>2. /\ n.won \in [Vault -> Winnings] /\ n.won[v] = NoWinnings
      /\ \A w \in Vault \ {v} : n.won[w] = ch.won[w]
  BY <1>1
<1>3. \A w \in Vault : /\ r[w] \in Int /\ k[w] \in Int /\ d[w] \in Int
                       /\ R[w] \in Int /\ K[w] \in Int /\ D[w] \in Int
  BY <1>1, <1>2 DEF Winnings
<1>4. \A w \in Vault \ {v} : R[w] = r[w] /\ K[w] = k[w] /\ D[w] = d[w]
  BY <1>2
<1>5. /\ R[v] = 0 /\ K[v] = 0 /\ D[v] = 0
      /\ r[v] = ch.won[v].rep /\ k[v] = ch.won[v].capacity /\ d[v] = ch.won[v].badDebt
  BY <1>2 DEF NoWinnings
<1>6. /\ WonRep(ch) = SumFunctionOnSet(r, Vault) /\ WonCapacity(ch) = SumFunctionOnSet(k, Vault)
      /\ WonBadDebt(ch) = SumFunctionOnSet(d, Vault)
      /\ WonRep(n) = SumFunctionOnSet(R, Vault) /\ WonCapacity(n) = SumFunctionOnSet(K, Vault)
      /\ WonBadDebt(n) = SumFunctionOnSet(D, Vault)
  BY DEF WonRep, WonCapacity, WonBadDebt, SumOf
<1> HIDE DEF r, k, d, R, K, D
<1>7. SumFunctionOnSet(R, Vault) = SumFunctionOnSet(r, Vault) + (R[v] - r[v])
  BY <1>1, <1>3, <1>4, SumChange
<1>8. SumFunctionOnSet(K, Vault) = SumFunctionOnSet(k, Vault) + (K[v] - k[v])
  BY <1>1, <1>3, <1>4, SumChange
<1>9. SumFunctionOnSet(D, Vault) = SumFunctionOnSet(d, Vault) + (D[v] - d[v])
  BY <1>1, <1>3, <1>4, SumChange
<1>10. WonRep(ch) \in Nat /\ WonCapacity(ch) \in Nat /\ WonBadDebt(ch) \in Nat
  BY WonFacts
<1>11. r[v] \in Int /\ k[v] \in Int /\ d[v] \in Int
  BY <1>3
<1>12. /\ WonRep(n) = WonRep(ch) - r[v] /\ WonCapacity(n) = WonCapacity(ch) - k[v]
       /\ WonBadDebt(n) = WonBadDebt(ch) - d[v]
  BY <1>5, <1>6, <1>7, <1>8, <1>9, <1>10, <1>11
<1> QED
  BY <1>2, <1>5, <1>12

\* claimAuctionProceeds, for the child.
Claimed(ch, v) ==
    [creditForkAuctionVault(ch, v) EXCEPT !.won[v] = NoWinnings,
                                          !.bought[v] = @ + ch.won[v].rep]

LEMMA ClaimSound ==
    ASSUME NEW p, NEW ch, Sound(p, ch), ch.state = "Operational", NEW v \in Vault,
           ch.won[v] # NoWinnings, ClaimAccepted(ch, v), NEW n, n = Claimed(ch, v)
    PROVE  /\ Sound(p, n) /\ n.state = ch.state /\ SameMoved(ch, n)
           /\ n.shareSupply = ch.shareSupply /\ n.collateral = ch.collateral
<1> DEFINE k == Checkpointed(ch, v)
           m == creditForkAuctionVault(ch, v)
           a == WonBy(ch, v)
           r == ch.won[v].rep
           later == IF ch.accrued THEN a.capacity ELSE 0
<1>1. /\ Typed(ch) /\ DOMAIN ch = ChildFields /\ Migrating(p, ch) /\ Positioned(ch)
      /\ FeesSound(ch) /\ Worth(ch) /\ ch.collateral <= p.snapshot
      /\ UnitsPerRep(ch) \in Nat /\ UnitsPerRep(ch) > 0
      /\ HeldBy(ch).units \in Nat /\ HeldBy(ch).capacity \in Nat /\ HeldBy(ch).badDebt \in Nat
  BY OpenFacts
<1>2. /\ r \in Nat /\ ch.won[v].capacity \in Nat /\ ch.won[v].badDebt \in Nat
      /\ WonRep(ch) \in Nat /\ WonCapacity(ch) \in Nat /\ WonBadDebt(ch) \in Nat
      /\ r <= WonRep(ch) /\ ch.won[v].capacity <= WonCapacity(ch)
      /\ ch.won[v].badDebt <= WonBadDebt(ch)
      /\ r * UnitsPerRep(ch) = r * ch.rate
  BY WonFacts
<1>3. /\ SameButFees(ch, k) /\ k.stale = ch.stale \ {v} /\ k.uncheckpointed \in Int /\ FeesSound(k)
      /\ k.uncheckpointed >= 0 => Sound(p, k)
  BY CheckpointFacts
<1>4. /\ ch.unassigned \in Amounts /\ ch.unassigned.units \in Nat
      /\ ch.unassigned.capacity \in Nat /\ ch.unassigned.badDebt \in Nat
      /\ ch.rate \in Nat /\ ch.purchased \in Nat /\ ch.claimedRep \in Nat /\ ch.ethRaised \in Nat
      /\ ch.vaults \in Positions /\ ch.bought \in [Vault -> Nat] /\ ch.won \in [Vault -> Winnings]
      /\ ch.totals \in Amounts /\ ch.stale \subseteq Vault
  BY <1>1, AmountFields DEF Typed
<1>5. /\ a.units = r * ch.rate /\ a.capacity = ch.won[v].capacity /\ a.badDebt = ch.won[v].badDebt
      /\ a.units \in Nat /\ a \in Amounts
  <2>1. r * ch.rate \in Nat
    BY <1>2, <1>4, ProductNat
  <2> QED
    BY <1>2, <2>1 DEF WonBy, Amounts
<1>6. m = [k EXCEPT !.vaults[v] = Plus(k.vaults[v], a), !.unassigned = Minus(k.unassigned, a),
                    !.claimedRep = k.claimedRep + r,
                    !.uncheckpointed = k.uncheckpointed - later]
  BY DEF creditForkAuctionVault
<1>7. n = [m EXCEPT !.won[v] = NoWinnings, !.bought[v] = m.bought[v] + r]
  BY DEF Claimed
<1>8. m.uncheckpointed >= 0
  BY DEF ClaimAccepted
<1> HIDE DEF k, m, a, r, later
<1>9. /\ DOMAIN k = ChildFields /\ k.vaults = ch.vaults /\ k.unassigned = ch.unassigned
      /\ k.claimedRep = ch.claimedRep
  BY <1>3 DEF SameButFees
<1>10. /\ DOMAIN m = ChildFields /\ m.vaults = [ch.vaults EXCEPT ![v] = Plus(ch.vaults[v], a)]
       /\ m.unassigned = Minus(ch.unassigned, a) /\ m.claimedRep = ch.claimedRep + r
       /\ m.uncheckpointed = k.uncheckpointed - later
       /\ m.state = k.state /\ m.rep = k.rep /\ m.split = k.split /\ m.game = k.game
       /\ m.price = k.price /\ m.totals = k.totals /\ m.stale = k.stale
       /\ m.feeEligible = k.feeEligible /\ m.collateral = k.collateral
       /\ m.received = k.received /\ m.accrued = k.accrued
       /\ m.shareSupply = k.shareSupply /\ m.migrated = k.migrated
       /\ m.migratedTotals = k.migratedTotals /\ m.raise = k.raise /\ m.cap = k.cap
       /\ m.purchased = k.purchased /\ m.ethRaised = k.ethRaised /\ m.won = k.won
       /\ m.rate = k.rate /\ m.bought = k.bought /\ m.moved = k.moved
  BY <1>6, <1>9 DEF ChildFields
<1>11. /\ DOMAIN n = ChildFields /\ n.won = [m.won EXCEPT ![v] = NoWinnings]
       /\ n.bought = [m.bought EXCEPT ![v] = m.bought[v] + r]
       /\ n.vaults = m.vaults /\ n.unassigned = m.unassigned /\ n.claimedRep = m.claimedRep
       /\ n.uncheckpointed = m.uncheckpointed
       /\ n.state = m.state /\ n.rep = m.rep /\ n.split = m.split /\ n.game = m.game
       /\ n.price = m.price /\ n.totals = m.totals /\ n.stale = m.stale
       /\ n.feeEligible = m.feeEligible /\ n.collateral = m.collateral
       /\ n.received = m.received /\ n.accrued = m.accrued
       /\ n.shareSupply = m.shareSupply /\ n.migrated = m.migrated
       /\ n.migratedTotals = m.migratedTotals /\ n.raise = m.raise /\ n.cap = m.cap
       /\ n.purchased = m.purchased /\ n.ethRaised = m.ethRaised
       /\ n.rate = m.rate /\ n.moved = m.moved
  <2> DEFINE l == [m EXCEPT !.won[v] = NoWinnings]
             more == m.bought[v] + r
  <2>1. n = [l EXCEPT !.bought[v] = more]
    BY <1>7
  <2>2. /\ DOMAIN l = ChildFields /\ l.won = [m.won EXCEPT ![v] = NoWinnings]
        /\ l.bought = m.bought
        /\ l.vaults = m.vaults /\ l.unassigned = m.unassigned /\ l.claimedRep = m.claimedRep
        /\ l.uncheckpointed = m.uncheckpointed
        /\ l.state = m.state /\ l.rep = m.rep /\ l.split = m.split /\ l.game = m.game
        /\ l.price = m.price /\ l.totals = m.totals /\ l.stale = m.stale
        /\ l.feeEligible = m.feeEligible /\ l.collateral = m.collateral
        /\ l.received = m.received /\ l.accrued = m.accrued
        /\ l.shareSupply = m.shareSupply /\ l.migrated = m.migrated
        /\ l.migratedTotals = m.migratedTotals /\ l.raise = m.raise /\ l.cap = m.cap
        /\ l.purchased = m.purchased /\ l.ethRaised = m.ethRaised
        /\ l.rate = m.rate /\ l.moved = m.moved
    BY <1>10 DEF ChildFields
  <2> HIDE DEF l, more
  <2>3. DOMAIN l = ChildFields
    BY <2>2
  <2>4. n.bought = [l.bought EXCEPT ![v] = more]
    BY <2>1, <2>3 DEF ChildFields
  <2>5. /\ DOMAIN n = ChildFields /\ n.won = l.won
        /\ n.vaults = l.vaults /\ n.unassigned = l.unassigned /\ n.claimedRep = l.claimedRep
        /\ n.uncheckpointed = l.uncheckpointed
        /\ n.state = l.state /\ n.rep = l.rep /\ n.split = l.split /\ n.game = l.game
        /\ n.price = l.price /\ n.totals = l.totals /\ n.stale = l.stale
        /\ n.feeEligible = l.feeEligible /\ n.collateral = l.collateral
        /\ n.received = l.received /\ n.accrued = l.accrued
        /\ n.shareSupply = l.shareSupply /\ n.migrated = l.migrated
        /\ n.migratedTotals = l.migratedTotals /\ n.raise = l.raise /\ n.cap = l.cap
        /\ n.purchased = l.purchased /\ n.ethRaised = l.ethRaised
        /\ n.rate = l.rate /\ n.moved = l.moved
    BY <2>1, <2>3 DEF ChildFields
  <2>6. /\ n.won = [m.won EXCEPT ![v] = NoWinnings]
        /\ n.bought = [m.bought EXCEPT ![v] = m.bought[v] + r]
    BY <2>2, <2>5, <2>4, Zenon DEF more
  <2> QED
    BY <2>2, <2>5, <2>6
<1>12. /\ n.won = [ch.won EXCEPT ![v] = NoWinnings]
       /\ n.bought = [ch.bought EXCEPT ![v] = ch.bought[v] + r]
       /\ n.vaults = [ch.vaults EXCEPT ![v] = Plus(ch.vaults[v], a)]
       /\ n.unassigned = Minus(ch.unassigned, a) /\ n.claimedRep = ch.claimedRep + r
       /\ n.uncheckpointed = k.uncheckpointed - later /\ n.stale = ch.stale \ {v}
       /\ n.state = ch.state /\ n.rep = ch.rep /\ n.split = ch.split /\ n.game = ch.game
       /\ n.price = ch.price /\ n.totals = ch.totals
       /\ n.feeEligible = ch.feeEligible /\ n.collateral = ch.collateral
       /\ n.received = ch.received /\ n.accrued = ch.accrued
       /\ n.shareSupply = ch.shareSupply /\ n.migrated = ch.migrated
       /\ n.migratedTotals = ch.migratedTotals /\ n.raise = ch.raise /\ n.cap = ch.cap
       /\ n.purchased = ch.purchased /\ n.ethRaised = ch.ethRaised
       /\ n.rate = ch.rate /\ n.moved = ch.moved
  BY <1>3, <1>10, <1>11 DEF SameButFees
<1>13. later \in Nat /\ k.uncheckpointed >= later
  <2>1. later \in Nat
    BY <1>2, <1>5 DEF later
  <2> QED
    BY <1>3, <1>8, <1>10, <2>1
<1>14. Sound(p, k)
  BY <1>3, <1>13
<1>15. ch.ethRaised > 0
  BY <1>1, <1>4 DEF Positioned
<1>16. /\ a.capacity <= ch.unassigned.capacity /\ a.badDebt <= ch.unassigned.badDebt
       /\ a.units <= ch.unassigned.units
       /\ WonCapacity(ch) = ch.unassigned.capacity /\ WonBadDebt(ch) = ch.unassigned.badDebt
  <2>1. /\ WonCapacity(ch) = ch.unassigned.capacity /\ WonBadDebt(ch) = ch.unassigned.badDebt
        /\ WonRep(ch) * UnitsPerRep(ch) <= ch.unassigned.units
    BY <1>1, <1>15 DEF Positioned
  <2>2. r * UnitsPerRep(ch) <= WonRep(ch) * UnitsPerRep(ch)
    BY <1>1, <1>2, ProductMonotone
  <2>3. WonRep(ch) * UnitsPerRep(ch) \in Nat
    BY <1>1, <1>2, ProductNat
  <2> QED
    BY <1>2, <1>4, <1>5, <2>1, <2>2, <2>3
<1>17. /\ n.unassigned.units = ch.unassigned.units - a.units
       /\ n.unassigned.capacity = ch.unassigned.capacity - a.capacity
       /\ n.unassigned.badDebt = ch.unassigned.badDebt - a.badDebt
       /\ n.unassigned \in Amounts
  <2>1. n.unassigned = [units |-> ch.unassigned.units - a.units,
                        capacity |-> ch.unassigned.capacity - a.capacity,
                        badDebt |-> ch.unassigned.badDebt - a.badDebt]
    BY <1>12 DEF Minus
  <2>2. /\ ch.unassigned.units - a.units \in Nat
        /\ ch.unassigned.capacity - a.capacity \in Nat
        /\ ch.unassigned.badDebt - a.badDebt \in Nat
    BY <1>2, <1>4, <1>5, <1>16
  <2> QED
    BY <2>1, <2>2 DEF Amounts
<1>18. /\ n.won \in [Vault -> Winnings] /\ WonRep(n) = WonRep(ch) - r
       /\ WonCapacity(n) = WonCapacity(ch) - a.capacity
       /\ WonBadDebt(n) = WonBadDebt(ch) - a.badDebt
  <2>1. n.won = [ch.won EXCEPT ![v] = NoWinnings]
    BY <1>12
  <2>2. /\ n.won \in [Vault -> Winnings] /\ WonRep(n) = WonRep(ch) - ch.won[v].rep
        /\ WonCapacity(n) = WonCapacity(ch) - ch.won[v].capacity
        /\ WonBadDebt(n) = WonBadDebt(ch) - ch.won[v].badDebt
    BY <2>1, WonWithout
  <2> QED
    BY <1>5, <2>2 DEF r
<1>19. /\ n.vaults \in Positions
       /\ HeldBy(n).units = HeldBy(ch).units + a.units
       /\ HeldBy(n).capacity = HeldBy(ch).capacity + a.capacity
       /\ HeldBy(n).badDebt = HeldBy(ch).badDebt + a.badDebt
       /\ HeldBy(n) = [units |-> HeldBy(n).units, capacity |-> HeldBy(n).capacity,
                       badDebt |-> HeldBy(n).badDebt]
  <2> DEFINE x == ch.vaults
             y == n.vaults
             new == Plus(x[v], a)
  <2>1. x \in Positions /\ x[v].units \in Nat /\ x[v].capacity \in Nat /\ x[v].badDebt \in Nat
    BY <1>4, PositionFields
  <2>2. /\ new.units = x[v].units + a.units /\ new.capacity = x[v].capacity + a.capacity
        /\ new.badDebt = x[v].badDebt + a.badDebt /\ new \in Amounts
    BY <1>2, <1>5, <2>1 DEF Plus, Amounts
  <2>3. y = [x EXCEPT ![v] = new]
    BY <1>12
  <2>4. HeldBy(n) = Total(y) /\ HeldBy(ch) = Total(x)
    BY DEF HeldBy
  <2> HIDE DEF x, y, new
  <2>5. /\ y \in Positions
        /\ Total(y).units = Total(x).units + (new.units - x[v].units)
        /\ Total(y).capacity = Total(x).capacity + (new.capacity - x[v].capacity)
        /\ Total(y).badDebt = Total(x).badDebt + (new.badDebt - x[v].badDebt)
    BY <2>1, <2>2, <2>3, TotalChange
  <2>6. Total(y) = [units |-> Total(y).units, capacity |-> Total(y).capacity,
                    badDebt |-> Total(y).badDebt]
    BY TotalIsSums
  <2>7. n.vaults \in Positions
    BY <2>5 DEF y
  <2> QED
    BY <1>1, <1>2, <1>5, <2>1, <2>2, <2>4, <2>5, <2>6, <2>7
<1>20. Plus(HeldBy(n), n.unassigned) = n.totals
  <2>1. Plus(HeldBy(ch), ch.unassigned) = ch.totals
    BY <1>1 DEF Positioned
  <2>2. /\ HeldBy(n).units + n.unassigned.units = HeldBy(ch).units + ch.unassigned.units
        /\ HeldBy(n).capacity + n.unassigned.capacity
             = HeldBy(ch).capacity + ch.unassigned.capacity
        /\ HeldBy(n).badDebt + n.unassigned.badDebt = HeldBy(ch).badDebt + ch.unassigned.badDebt
    BY <1>1, <1>2, <1>4, <1>5, <1>17, <1>19
  <2> QED
    BY <1>12, <2>1, <2>2 DEF Plus
<1>21. UnitsPerRep(n) = UnitsPerRep(ch) /\ (Sold(n) <=> Sold(ch)) /\ (Priced(n) <=> Priced(ch))
  BY <1>12 DEF UnitsPerRep, Sold, Priced
<1>22. Positioned(n)
  <2>1. WonRep(n) * UnitsPerRep(n) <= n.unassigned.units
    <3> DEFINE K == UnitsPerRep(ch)
               W == WonRep(ch)
    <3>1. (W - r) * K = W * K - r * K
      BY <1>1, <1>2
    <3>2. W * K <= ch.unassigned.units
      BY <1>1 DEF Positioned
    <3>3. W * K \in Nat /\ r * K \in Nat /\ r * K = a.units
      BY <1>1, <1>2, <1>5, ProductNat
    <3>4. WonRep(n) * UnitsPerRep(n) = W * K - r * K
      BY <1>18, <1>21, <3>1
    <3> HIDE DEF K, W
    <3> QED
      BY <1>4, <1>17, <3>2, <3>3, <3>4
  <2>2. WonRep(n) + n.claimedRep = n.purchased
    <3>1. WonRep(ch) + ch.claimedRep = ch.purchased
      BY <1>1 DEF Positioned
    <3> QED
      BY <1>2, <1>4, <1>12, <1>18, <3>1
  <2>3. WonCapacity(n) = n.unassigned.capacity /\ WonBadDebt(n) = n.unassigned.badDebt
    BY <1>16, <1>17, <1>18
  <2>4. n.ethRaised > 0 /\ n.ethRaised # 0
    BY <1>4, <1>12, <1>15
  <2> QED
    BY <1>20, <2>1, <2>2, <2>3, <2>4 DEF Positioned
<1>23. FeesSound(n)
  <2>1. SUFFICES ASSUME Priced(n)
                 PROVE  /\ n.feeEligible = HeldBy(n).capacity
                             + IF Sold(n) THEN n.unassigned.capacity ELSE 0
                        /\ n.uncheckpointed = StaleCapacity(n)
                             + IF n.accrued /\ Sold(n) THEN n.unassigned.capacity ELSE 0
    BY DEF FeesSound
  <2>2. Sold(ch) /\ Priced(ch) /\ Sold(n)
    BY <1>4, <1>12, <1>15, <1>21, <2>1 DEF Priced
  <2>3. ch.feeEligible = HeldBy(ch).capacity + ch.unassigned.capacity
    BY <1>1, <2>2 DEF FeesSound
  <2>4. n.feeEligible = HeldBy(n).capacity + n.unassigned.capacity
    BY <1>1, <1>2, <1>4, <1>5, <1>12, <1>17, <1>19, <2>3
  <2>5. Priced(k) /\ Sold(k) /\ (k.accrued <=> ch.accrued) /\ k.unassigned = ch.unassigned
        /\ k.state = "Operational"
    BY <1>3, <2>2 DEF SameButFees, Priced, Sold
  <2>6. k.uncheckpointed = StaleCapacity(k)
                             + IF ch.accrued THEN ch.unassigned.capacity ELSE 0
    BY <1>3, <2>5 DEF FeesSound
  <2>7. StaleCapacity(n) = StaleCapacity(k)
    <3> DEFINE f == [w \in Vault |-> k.vaults[w].capacity]
               g == [w \in Vault |-> n.vaults[w].capacity]
               S == ch.stale \ {v}
    <3>1. \A w \in S : f[w] \in Int /\ g[w] = f[w]
      <4>1. \A w \in S : w \in Vault /\ n.vaults[w] = ch.vaults[w] /\ k.vaults[w] = ch.vaults[w]
                         /\ ch.vaults[w].capacity \in Nat
        BY <1>4, <1>9, <1>12, PositionFields DEF Positions
      <4> QED
        BY <4>1
    <3>2. StaleCapacity(n) = SumFunctionOnSet(g, S) /\ StaleCapacity(k) = SumFunctionOnSet(f, S)
      BY <1>3, <1>12 DEF StaleCapacity
    <3>3. IsFiniteSet(S)
      BY <1>4, ForkFacts, FS_Subset
    <3> HIDE DEF f, g, S
    <3> QED
      BY <3>1, <3>2, <3>3, SumAgree
  <2>8. StaleCapacity(k) \in Nat
    BY <1>14, <2>5, OpenFacts
  <2>9. n.uncheckpointed = StaleCapacity(n) + IF n.accrued THEN n.unassigned.capacity ELSE 0
    <3>1. CASE ch.accrued
      <4>1. n.uncheckpointed = k.uncheckpointed - a.capacity
            /\ k.uncheckpointed = StaleCapacity(k) + ch.unassigned.capacity
        BY <1>12, <2>6, <3>1 DEF later
      <4>2. /\ n.accrued /\ n.unassigned.capacity = ch.unassigned.capacity - a.capacity
            /\ a.capacity \in Nat
        BY <1>2, <1>5, <1>12, <1>17, <3>1
      <4> QED
        BY <1>4, <2>7, <2>8, <4>1, <4>2
    <3>2. CASE ~ ch.accrued
      <4>1. n.uncheckpointed = k.uncheckpointed - 0 /\ k.uncheckpointed = StaleCapacity(k) + 0
        BY <1>12, <2>6, <3>2 DEF later
      <4> QED
        BY <1>12, <2>7, <2>8, <3>2, <4>1
    <3> QED
      BY <3>1, <3>2
  <2> QED
    BY <2>2, <2>4, <2>9
<1>24. Worth(n)
  <2>1. /\ UnitsPerRep(n) > 0 /\ n.rep * UnitsPerRep(n) >= n.totals.units
    BY <1>1, <1>12, <1>21 DEF Worth
  <2>2. \A w \in Vault : n.vaults[w].units >= n.bought[w] * UnitsPerRep(n) + n.moved[w]
    <3>1. SUFFICES ASSUME NEW w \in Vault
                   PROVE  n.vaults[w].units >= n.bought[w] * UnitsPerRep(n) + n.moved[w]
      OBVIOUS
    <3>2. ch.vaults[w].units >= ch.bought[w] * UnitsPerRep(ch) + ch.moved[w]
      BY <1>1 DEF Worth
    <3>3. CASE w # v
      <4>1. n.vaults[w] = ch.vaults[w] /\ n.bought[w] = ch.bought[w] /\ n.moved[w] = ch.moved[w]
        BY <1>4, <1>12, <3>3 DEF Positions
      <4> QED
        BY <1>21, <3>2, <4>1
    <3>4. CASE w = v
      <4> DEFINE K == UnitsPerRep(ch)
                 b == ch.bought[v]
                 u == ch.vaults[v].units
                 g == ch.moved[v]
      <4>1. b \in Nat /\ u \in Nat /\ g \in Nat /\ K \in Nat
        BY <1>1, <1>4, PositionFields DEF Typed
      <4>2. n.vaults[v].units = u + a.units
        BY <1>4, <1>12 DEF Positions, Plus
      <4>3. n.bought[v] = b + r /\ n.moved[v] = g
        BY <1>4, <1>12
      <4>4. (b + r) * K = b * K + r * K
        BY <1>2, <4>1
      <4>5. b * K \in Nat /\ r * K \in Nat /\ r * K = a.units
        BY <1>2, <1>5, <4>1, ProductNat
      <4>6. u >= b * K + g
        BY <3>2, <3>4
      <4>7. n.bought[w] * UnitsPerRep(n) = b * K + r * K
        BY <1>21, <3>4, <4>3, <4>4
      <4> HIDE DEF K, b, u, g
      <4> QED
        BY <3>4, <4>1, <4>2, <4>3, <4>5, <4>6, <4>7
    <3> QED
      BY <3>3, <3>4
  <2> QED
    BY <2>1, <2>2 DEF Worth
<1>25. Typed(n)
  <2>1. n.uncheckpointed \in Nat
    BY <1>3, <1>12, <1>13
  <2>2. n.bought \in [Vault -> Nat] /\ n.claimedRep \in Nat
    <3> DEFINE f == ch.bought
               more == f[v] + r
    <3>1. more \in Nat /\ ch.claimedRep + r \in Nat /\ f \in [Vault -> Nat]
      BY <1>2, <1>4
    <3>2. n.bought = [f EXCEPT ![v] = more] /\ n.claimedRep = ch.claimedRep + r
      BY <1>12
    <3> HIDE DEF f, more
    <3> QED
      BY <3>1, <3>2
  <2>3. n.stale \subseteq Vault
    BY <1>4, <1>12
  <2> QED
    BY <1>1, <1>11, <1>12, <1>17, <1>18, <1>19, <2>1, <2>2, <2>3 DEF Typed
<1>26. Migrating(p, n)
  BY <1>1, <1>12 DEF Migrating
<1> QED
  BY <1>1, <1>12, <1>22, <1>23, <1>24, <1>25, <1>26 DEF Sound, Open, SameMoved

\* What is left is worth as much per unit as before.
LEMMA WorthLeft ==
    ASSUME NEW rep \in Nat, NEW total \in Nat, total > 0, NEW rate \in Nat, NEW units \in Nat,
           units <= total, rep * rate >= total, NEW out, out = (units * rep) \div total
    PROVE  out \in Nat /\ out <= rep /\ (rep - out) * rate >= total - units
<1>1. out \in Nat /\ out <= rep
  BY PartOf
<1>2. total * out <= units * rep
  <2> DEFINE n == units * rep
  <2>1. n \in Nat
    BY ProductNat
  <2>2. out = n \div total
    OBVIOUS
  <2> HIDE DEF n
  <2>3. total * out <= n
    BY <2>1, <2>2, Quotient
  <2> QED
    BY <2>3 DEF n
<1> DEFINE left == rep - out
           rest == total - units
<1>3. left \in Nat /\ rest \in Nat
  BY <1>1
<1>4. rep * rest <= total * left
  <2>1. rep * rest = rep * total - units * rep
    OBVIOUS
  <2>2. total * left = rep * total - total * out
    BY <1>1
  <2>3. rep * total \in Int /\ units * rep \in Int /\ total * out \in Int
    BY <1>1
  <2> DEFINE a == rep * total
             b == units * rep
             d == total * out
  <2>4. a \in Int /\ b \in Int /\ d \in Int /\ d <= b /\ rep * rest = a - b /\ total * left = a - d
    BY <1>2, <2>1, <2>2, <2>3
  <2> HIDE DEF a, b, d, left, rest
  <2> QED
    BY <2>4
<1> HIDE DEF left, rest
<1>5. (rep * rest) * rate <= (total * left) * rate
  <2> DEFINE a == rep * rest
             b == total * left
  <2>1. a \in Nat /\ b \in Nat /\ a <= b
    BY <1>3, <1>4, ProductNat
  <2> HIDE DEF a, b
  <2>2. a * rate <= b * rate
    BY <2>1, ProductMonotone
  <2> QED
    BY <2>2 DEF a, b
<1>6. (rep * rest) * rate = (rep * rate) * rest /\ (total * left) * rate = total * (left * rate)
  BY <1>3
<1>7. total * rest <= (rep * rate) * rest
  <2> DEFINE a == rep * rate
  <2>1. a \in Nat /\ total <= a
    BY ProductNat
  <2> HIDE DEF a
  <2>2. total * rest <= a * rest
    BY <1>3, <2>1, ProductMonotone
  <2> QED
    BY <2>2 DEF a
<1>8. total * rest <= total * (left * rate)
  <2> DEFINE a == total * rest
             b == (rep * rate) * rest
             d == (rep * rest) * rate
             e == (total * left) * rate
             g == total * (left * rate)
  <2>1. a \in Int /\ b \in Int /\ d \in Int /\ e \in Int /\ g \in Int
    BY <1>3
  <2>2. a <= b /\ d <= e /\ d = b /\ e = g
    BY <1>5, <1>6, <1>7
  <2> HIDE DEF a, b, d, e, g
  <2>3. a <= g
    BY <2>1, <2>2
  <2> QED
    BY <2>3 DEF a, g
<1>9. rest <= left * rate
  <2> DEFINE a == left * rate
  <2>1. a \in Int /\ rest \in Int /\ total * rest <= total * a
    BY <1>3, <1>8
  <2> HIDE DEF a
  <2>2. rest <= a
    BY <2>1, FactorAtMost
  <2> QED
    BY <2>2 DEF a
<1>10. left * rate \in Int /\ rest \in Int
  BY <1>3
<1>11. left * rate >= rest
  BY <1>9, <1>10
<1> QED
  BY <1>1, <1>11 DEF left, rest

Redeemed(ch, v, units, out) ==
    [ch EXCEPT !.vaults[v].units = 0, !.totals.units = ch.totals.units - units,
               !.rep = ch.rep - out, !.bought[v] = 0, !.moved[v] = 0]

LEMMA RedeemSound ==
    ASSUME NEW p, NEW before, Sound(p, before), before.state = "Operational", NEW v \in Vault,
           NEW ch, ch = Checkpointed(before, v), ch.uncheckpointed >= 0,
           NEW units, units = ch.vaults[v].units,
           NEW out, out = backingUnitsToAttoRep(ch, units), out > 0,
           NEW n, n = Redeemed(ch, v, units, out)
    PROVE  /\ Sound(p, n) /\ n.state = before.state /\ SameMoved(before, n)
           /\ n.shareSupply = before.shareSupply /\ n.collateral = before.collateral
<1>1. SameButFees(before, ch) /\ Sound(p, ch)
  BY CheckpointFacts
<1>2. /\ Typed(ch) /\ DOMAIN ch = ChildFields /\ Migrating(p, ch) /\ Positioned(ch)
      /\ FeesSound(ch) /\ Worth(ch) /\ ch.collateral <= p.snapshot
      /\ UnitsPerRep(ch) \in Nat /\ UnitsPerRep(ch) > 0
      /\ HeldBy(ch).units \in Nat /\ HeldBy(ch).capacity \in Nat /\ HeldBy(ch).badDebt \in Nat
      /\ ch.state = "Operational"
  BY <1>1, OpenFacts DEF SameButFees
<1>3. /\ ch.rep \in Nat /\ ch.totals \in Amounts /\ ch.totals.units \in Nat
      /\ ch.totals = [units |-> ch.totals.units, capacity |-> ch.totals.capacity,
                      badDebt |-> ch.totals.badDebt]
      /\ ch.totals.capacity \in Nat /\ ch.totals.badDebt \in Nat
      /\ ch.unassigned \in Amounts /\ ch.unassigned.units \in Nat
      /\ ch.vaults \in Positions /\ ch.bought \in [Vault -> Nat] /\ ch.moved \in [Vault -> Nat]
  BY <1>2, AmountFields DEF Typed
<1>4. /\ units \in Nat /\ units <= HeldBy(ch).units
      /\ HeldBy(ch).units + ch.unassigned.units = ch.totals.units
      /\ HeldBy(ch).capacity + ch.unassigned.capacity = ch.totals.capacity
      /\ HeldBy(ch).badDebt + ch.unassigned.badDebt = ch.totals.badDebt
  <2>1. units \in Nat /\ units <= HeldBy(ch).units
    BY <1>3, PositionFields, TotalFacts DEF HeldBy
  <2>2. Plus(HeldBy(ch), ch.unassigned) = ch.totals
    BY <1>2 DEF Positioned
  <2> QED
    BY <2>1, <2>2 DEF Plus
<1>5. units <= ch.totals.units
  BY <1>2, <1>3, <1>4
<1>6. /\ ch.totals.units > 0 /\ out = (units * ch.rep) \div ch.totals.units
  BY <1>3 DEF backingUnitsToAttoRep
<1>7. /\ out \in Nat /\ out <= ch.rep
      /\ (ch.rep - out) * UnitsPerRep(ch) >= ch.totals.units - units
  <2>1. ch.rep * UnitsPerRep(ch) >= ch.totals.units
    BY <1>2 DEF Worth
  <2> DEFINE rep == ch.rep
             total == ch.totals.units
             rate == UnitsPerRep(ch)
  <2>2. /\ rep \in Nat /\ total \in Nat /\ total > 0 /\ rate \in Nat /\ units \in Nat
        /\ units <= total /\ rep * rate >= total /\ out = (units * rep) \div total
    BY <1>2, <1>3, <1>4, <1>5, <1>6, <2>1
  <2> HIDE DEF rep, total, rate
  <2>3. out \in Nat /\ out <= rep /\ (rep - out) * rate >= total - units
    BY <2>2, WorthLeft
  <2> QED
    BY <2>3 DEF rep, total, rate
<1> DEFINE position == [ch.vaults[v] EXCEPT !.units = 0]
           totals == [ch.totals EXCEPT !.units = ch.totals.units - units]
           a == [ch EXCEPT !.vaults = [ch.vaults EXCEPT ![v] = position],
                           !.totals = totals, !.rep = ch.rep - out]
<1>8. n = [a EXCEPT !.bought = [ch.bought EXCEPT ![v] = 0], !.moved = [ch.moved EXCEPT ![v] = 0]]
  BY <1>2 DEF ChildFields, Redeemed
<1>9. /\ DOMAIN a = ChildFields /\ a.vaults = [ch.vaults EXCEPT ![v] = position]
      /\ a.totals = totals /\ a.rep = ch.rep - out
      /\ a.bought = ch.bought /\ a.moved = ch.moved
      /\ a.state = ch.state /\ a.split = ch.split /\ a.game = ch.game /\ a.price = ch.price
      /\ a.stale = ch.stale /\ a.feeEligible = ch.feeEligible
      /\ a.uncheckpointed = ch.uncheckpointed /\ a.accrued = ch.accrued
      /\ a.collateral = ch.collateral /\ a.received = ch.received
      /\ a.shareSupply = ch.shareSupply /\ a.migrated = ch.migrated
      /\ a.migratedTotals = ch.migratedTotals /\ a.raise = ch.raise /\ a.cap = ch.cap
      /\ a.purchased = ch.purchased /\ a.ethRaised = ch.ethRaised /\ a.won = ch.won
      /\ a.rate = ch.rate /\ a.unassigned = ch.unassigned /\ a.claimedRep = ch.claimedRep
  BY <1>2 DEF ChildFields
<1> HIDE DEF a
<1>10. /\ DOMAIN n = ChildFields /\ n.vaults = a.vaults /\ n.totals = a.totals /\ n.rep = a.rep
       /\ n.bought = [ch.bought EXCEPT ![v] = 0] /\ n.moved = [ch.moved EXCEPT ![v] = 0]
       /\ n.state = a.state /\ n.split = a.split /\ n.game = a.game /\ n.price = a.price
       /\ n.stale = a.stale /\ n.feeEligible = a.feeEligible
       /\ n.uncheckpointed = a.uncheckpointed /\ n.accrued = a.accrued
       /\ n.collateral = a.collateral /\ n.received = a.received
       /\ n.shareSupply = a.shareSupply /\ n.migrated = a.migrated
       /\ n.migratedTotals = a.migratedTotals /\ n.raise = a.raise /\ n.cap = a.cap
       /\ n.purchased = a.purchased /\ n.ethRaised = a.ethRaised /\ n.won = a.won
       /\ n.rate = a.rate /\ n.unassigned = a.unassigned /\ n.claimedRep = a.claimedRep
  <2> DEFINE b == [ch.bought EXCEPT ![v] = 0]
             g == [ch.moved EXCEPT ![v] = 0]
  <2>1. DOMAIN a = ChildFields
    BY <1>9
  <2>2. n = [a EXCEPT !.bought = b, !.moved = g]
    BY <1>8
  <2> HIDE DEF b, g
  <2>3. n.bought = b /\ n.moved = g
    BY <2>1, <2>2 DEF ChildFields
  <2>4. /\ DOMAIN n = ChildFields
        /\ \A f \in ChildFields \ {"bought", "moved"} : n[f] = a[f]
    BY <2>1, <2>2
  <2>5. n.bought = [ch.bought EXCEPT ![v] = 0] /\ n.moved = [ch.moved EXCEPT ![v] = 0]
    BY <2>3, Zenon DEF b, g
  <2>6. /\ n.vaults = a.vaults /\ n.totals = a.totals /\ n.rep = a.rep
        /\ n.state = a.state /\ n.split = a.split /\ n.game = a.game /\ n.price = a.price
        /\ n.stale = a.stale /\ n.feeEligible = a.feeEligible
        /\ n.uncheckpointed = a.uncheckpointed /\ n.accrued = a.accrued
        /\ n.collateral = a.collateral /\ n.received = a.received
        /\ n.shareSupply = a.shareSupply /\ n.migrated = a.migrated
        /\ n.migratedTotals = a.migratedTotals /\ n.raise = a.raise /\ n.cap = a.cap
        /\ n.purchased = a.purchased /\ n.ethRaised = a.ethRaised /\ n.won = a.won
        /\ n.rate = a.rate /\ n.unassigned = a.unassigned /\ n.claimedRep = a.claimedRep
    BY <2>4 DEF ChildFields
  <2> QED
    BY <2>4, <2>5, <2>6
<1>11. /\ position \in Amounts /\ position.units = 0
       /\ position.capacity = ch.vaults[v].capacity /\ position.badDebt = ch.vaults[v].badDebt
       /\ ch.vaults[v].capacity \in Nat /\ ch.vaults[v].badDebt \in Nat
       /\ ch.vaults[v].units = units
  BY <1>3, PositionFields DEF Amounts
<1>12. /\ totals \in Amounts /\ totals.units = ch.totals.units - units
       /\ totals = [units |-> ch.totals.units - units, capacity |-> ch.totals.capacity,
                    badDebt |-> ch.totals.badDebt]
  <2> DEFINE u == ch.totals.units
             k == ch.totals.capacity
             d == ch.totals.badDebt
             left == u - units
             old == ch.totals
  <2>1. /\ left \in Nat /\ k \in Nat /\ d \in Nat /\ old = [units |-> u, capacity |-> k, badDebt |-> d]
        /\ totals = [old EXCEPT !.units = left]
    BY <1>3, <1>4, <1>5
  <2> HIDE DEF u, k, d, left, old, totals
  <2>2. totals = [units |-> left, capacity |-> k, badDebt |-> d]
    BY <2>1
  <2> QED
    BY <2>1, <2>2 DEF Amounts, left, u, k, d
<1> HIDE DEF position, totals
<1>13. n.vaults = [ch.vaults EXCEPT ![v] = position] /\ n.totals = totals
  BY <1>9, <1>10
<1>14. /\ DOMAIN n = ChildFields /\ n.rep = ch.rep - out
       /\ n.state = ch.state /\ n.split = ch.split /\ n.game = ch.game /\ n.price = ch.price
       /\ n.stale = ch.stale /\ n.feeEligible = ch.feeEligible
       /\ n.uncheckpointed = ch.uncheckpointed /\ n.accrued = ch.accrued
       /\ n.collateral = ch.collateral /\ n.received = ch.received
       /\ n.shareSupply = ch.shareSupply /\ n.migrated = ch.migrated
       /\ n.migratedTotals = ch.migratedTotals /\ n.raise = ch.raise /\ n.cap = ch.cap
       /\ n.purchased = ch.purchased /\ n.ethRaised = ch.ethRaised /\ n.won = ch.won
       /\ n.rate = ch.rate /\ n.unassigned = ch.unassigned /\ n.claimedRep = ch.claimedRep
  BY <1>9, <1>10
<1>15. /\ n.vaults \in Positions
       /\ HeldBy(n).units = HeldBy(ch).units - units
       /\ HeldBy(n).capacity = HeldBy(ch).capacity
       /\ HeldBy(n).badDebt = HeldBy(ch).badDebt
  <2> DEFINE x == ch.vaults
             y == n.vaults
  <2>1. Replaced(x, y, v, position) /\ x \in Positions
    BY <1>3, <1>13 DEF Replaced
  <2>2. HeldBy(n) = Total(y) /\ HeldBy(ch) = Total(x)
    BY DEF HeldBy
  <2>3. /\ position.units = 0 /\ position.capacity = x[v].capacity
        /\ position.badDebt = x[v].badDebt /\ x[v].units = units
        /\ x[v].capacity \in Nat /\ x[v].badDebt \in Nat
    BY <1>11
  <2>4. n.vaults = y
    OBVIOUS
  <2> HIDE DEF x, y
  <2>5. /\ y \in Positions
        /\ Total(y).units = Total(x).units + (position.units - x[v].units)
        /\ Total(y).capacity = Total(x).capacity + (position.capacity - x[v].capacity)
        /\ Total(y).badDebt = Total(x).badDebt + (position.badDebt - x[v].badDebt)
    BY <1>11, <2>1, TotalReplaced
  <2> QED
    BY <1>2, <1>4, <2>2, <2>3, <2>4, <2>5
<1>16. Plus(HeldBy(n), n.unassigned) = n.totals
  <2>1. n.totals = [units |-> ch.totals.units - units, capacity |-> ch.totals.capacity,
                    badDebt |-> ch.totals.badDebt]
    BY <1>12, <1>13
  <2>2. /\ HeldBy(n).units + n.unassigned.units = ch.totals.units - units
        /\ HeldBy(n).capacity + n.unassigned.capacity = ch.totals.capacity
        /\ HeldBy(n).badDebt + n.unassigned.badDebt = ch.totals.badDebt
    BY <1>2, <1>3, <1>4, <1>14, <1>15
  <2> QED
    BY <2>1, <2>2 DEF Plus
<1>17. \A w \in Vault :
          /\ w # v => /\ n.vaults[w] = ch.vaults[w] /\ n.bought[w] = ch.bought[w]
                      /\ n.moved[w] = ch.moved[w]
          /\ w = v => n.vaults[w] = position /\ n.bought[w] = 0 /\ n.moved[w] = 0
  <2>1. ch.vaults \in Positions
    BY <1>3
  <2>2. \A w \in Vault : IF w = v THEN n.vaults[w] = position ELSE n.vaults[w] = ch.vaults[w]
    BY <1>13, <2>1 DEF Positions
  <2>3. \A w \in Vault : IF w = v THEN n.bought[w] = 0 ELSE n.bought[w] = ch.bought[w]
    BY <1>3, <1>10
  <2>4. \A w \in Vault : IF w = v THEN n.moved[w] = 0 ELSE n.moved[w] = ch.moved[w]
    BY <1>3, <1>10
  <2> QED
    BY <2>2, <2>3, <2>4
<1>18. /\ WonRep(n) = WonRep(ch) /\ WonCapacity(n) = WonCapacity(ch)
       /\ WonBadDebt(n) = WonBadDebt(ch) /\ UnitsPerRep(n) = UnitsPerRep(ch)
       /\ (Sold(n) <=> Sold(ch)) /\ (Priced(n) <=> Priced(ch))
  BY <1>14 DEF WonRep, WonCapacity, WonBadDebt, UnitsPerRep, Sold, Priced
<1>19. Positioned(n)
  BY <1>2, <1>14, <1>16, <1>18 DEF Positioned
<1>20. StaleCapacity(n) = StaleCapacity(ch)
  <2> DEFINE f == [w \in Vault |-> ch.vaults[w].capacity]
             g == [w \in Vault |-> n.vaults[w].capacity]
  <2>1. \A w \in Vault : n.vaults[w].capacity = ch.vaults[w].capacity
    BY <1>11, <1>17
  <2>2. f = g
    BY <2>1
  <2> HIDE DEF f, g
  <2>3. StaleCapacity(ch) = SumFunctionOnSet(f, ch.stale)
        /\ StaleCapacity(n) = SumFunctionOnSet(g, n.stale)
    BY DEF StaleCapacity, f, g
  <2> QED
    BY <1>14, <2>2, <2>3
<1>21. FeesSound(n)
  <2>1. FeesSound(ch)
    BY <1>2
  <2>2. /\ n.feeEligible = ch.feeEligible /\ n.uncheckpointed = ch.uncheckpointed
        /\ n.accrued = ch.accrued /\ n.unassigned = ch.unassigned
    BY <1>14
  <2>3. HeldBy(n).capacity = HeldBy(ch).capacity
    BY <1>15
  <2>4. (Sold(n) <=> Sold(ch)) /\ (Priced(n) <=> Priced(ch))
    BY <1>18
  <2> QED
    BY <1>20, <2>1, <2>2, <2>3, <2>4 DEF FeesSound
<1>22. Worth(n)
  <2>1. n.rep * UnitsPerRep(n) >= n.totals.units
    BY <1>7, <1>12, <1>14, <1>13, <1>18
  <2>2. \A w \in Vault : n.vaults[w].units >= n.bought[w] * UnitsPerRep(n) + n.moved[w]
    <3>1. SUFFICES ASSUME NEW w \in Vault
                   PROVE  n.vaults[w].units >= n.bought[w] * UnitsPerRep(n) + n.moved[w]
      OBVIOUS
    <3>2. CASE w # v
      <4>1. n.vaults[w] = ch.vaults[w] /\ n.bought[w] = ch.bought[w] /\ n.moved[w] = ch.moved[w]
        BY <1>17, <3>2
      <4>2. ch.vaults[w].units >= ch.bought[w] * UnitsPerRep(ch) + ch.moved[w]
        BY <1>2 DEF Worth
      <4> QED
        BY <1>18, <4>1, <4>2
    <3>3. CASE w = v
      <4>1. n.vaults[w].units = 0 /\ n.bought[w] = 0 /\ n.moved[w] = 0
        BY <1>11, <1>17, <3>3
      <4>2. UnitsPerRep(n) \in Nat
        BY <1>2, <1>18
      <4> QED
        BY <4>1, <4>2
    <3> QED
      BY <3>2, <3>3
  <2> QED
    BY <1>2, <1>18, <2>1, <2>2 DEF Worth
<1>23. Typed(n)
  <2>1. n.rep \in Nat
    BY <1>3, <1>7, <1>14
  <2>2. n.bought \in [Vault -> Nat] /\ n.moved \in [Vault -> Nat]
    BY <1>3, <1>10
  <2>3. n.vaults \in Positions /\ n.totals \in Amounts
    BY <1>12, <1>13, <1>15
  <2>4. Typed(ch)
    BY <1>2
  <2>5. /\ n.state \in {"none", "ForkMigration", "ForkTruthAuction", "Operational"}
        /\ n.split \in Nat /\ n.game \in Nat /\ n.price \in Nat /\ n.stale \subseteq Vault
        /\ n.feeEligible \in Nat /\ n.uncheckpointed \in Nat /\ n.collateral \in Nat
    BY <1>14, <2>4 DEF Typed
  <2>6. /\ n.received \in Nat /\ n.shareSupply \in Nat /\ n.migrated \in Nat
        /\ n.migratedTotals \in Amounts /\ n.raise \in Nat /\ n.cap \in Nat
        /\ n.purchased \in Nat /\ n.ethRaised \in Nat /\ n.won \in [Vault -> Winnings]
        /\ n.rate \in Nat /\ n.unassigned \in Amounts /\ n.claimedRep \in Nat
    BY <1>14, <2>4 DEF Typed
  <2>7. DOMAIN n = ChildFields
    BY <1>14
  <2> QED
    BY <2>1, <2>2, <2>3, <2>5, <2>6, <2>7 DEF Typed
<1>24. Migrating(p, n)
  BY <1>2, <1>14 DEF Migrating
<1>25. Sound(p, n)
  BY <1>2, <1>14, <1>19, <1>21, <1>22, <1>23, <1>24 DEF Sound, Open
<1> QED
  BY <1>1, <1>14, <1>25 DEF SameButFees, SameMoved

\* What burned shares take out of a child: their part of its collateral.
EthPaid(ch, amount) ==
    IF ch.shareSupply = 0 THEN 0 ELSE (amount * ch.collateral) \div ch.shareSupply
Paid(ch, amount) ==
    [ch EXCEPT !.shareSupply = ch.shareSupply - amount,
               !.collateral = ch.collateral - EthPaid(ch, amount)]

LEMMA PayoutSound ==
    ASSUME NEW p, NEW ch, Sound(p, ch), ch.state = "Operational", p.snapshot \in Nat,
           ch.shareSupply = 0 => ch.collateral = 0,
           NEW amount \in Nat, amount <= ch.shareSupply, NEW n, n = Paid(ch, amount)
    PROVE  /\ Sound(p, n) /\ n.state = ch.state /\ SameMoved(ch, n)
           /\ n.shareSupply = ch.shareSupply - amount
           /\ n.shareSupply = 0 => n.collateral = 0
<1> DEFINE supply == ch.shareSupply
           coll == ch.collateral
           eth == EthPaid(ch, amount)
<1>1. /\ Typed(ch) /\ DOMAIN ch = ChildFields /\ Migrating(p, ch)
      /\ Positioned(ch) /\ FeesSound(ch) /\ Worth(ch) /\ ch.collateral <= p.snapshot
  BY OpenFacts
<1>2. supply \in Nat /\ coll \in Nat
  BY <1>1 DEF Typed
<1>3. eth \in Nat /\ eth <= coll /\ (amount = supply => eth = coll)
  <2>1. CASE supply = 0
    BY <1>2, <2>1 DEF EthPaid
  <2>2. CASE supply > 0
    <3>1. eth = (amount * coll) \div supply
      BY <2>2 DEF EthPaid
    <3> HIDE DEF supply, coll, eth
    <3>2. amount \in Nat /\ amount <= supply
      BY DEF supply
    <3>3. eth \in Nat /\ eth <= coll
      BY <1>2, <2>2, <3>1, <3>2, PartOf
    <3>4. ASSUME amount = supply PROVE eth = coll
      <4>1. supply * coll \in Nat /\ eth = (supply * coll) \div supply
        BY <1>2, <3>1, <3>4, ProductNat
      <4>2. (supply * coll + 0) \div supply = coll + 0 \div supply
        BY <1>2, <2>2, <4>1, QuotientShift
      <4>3. 0 \div supply = 0
        BY <1>2, <2>2
      <4> QED
        BY <1>2, <4>1, <4>2, <4>3
    <3> QED
      BY <3>3, <3>4
  <2> QED
    BY <1>2, <2>1, <2>2
<1>4. /\ DOMAIN n = ChildFields /\ n.shareSupply = supply - amount /\ n.collateral = coll - eth
      /\ n.state = ch.state /\ n.rep = ch.rep /\ n.split = ch.split /\ n.game = ch.game
      /\ n.price = ch.price /\ n.totals = ch.totals /\ n.vaults = ch.vaults
      /\ n.stale = ch.stale /\ n.uncheckpointed = ch.uncheckpointed
      /\ n.feeEligible = ch.feeEligible /\ n.accrued = ch.accrued
      /\ n.received = ch.received /\ n.migrated = ch.migrated
      /\ n.migratedTotals = ch.migratedTotals /\ n.raise = ch.raise /\ n.cap = ch.cap
      /\ n.purchased = ch.purchased /\ n.ethRaised = ch.ethRaised /\ n.won = ch.won
      /\ n.rate = ch.rate /\ n.unassigned = ch.unassigned
      /\ n.claimedRep = ch.claimedRep /\ n.bought = ch.bought /\ n.moved = ch.moved
  BY <1>1 DEF ChildFields, Paid
<1>5. /\ n.shareSupply \in Nat /\ n.collateral \in Nat /\ n.collateral <= p.snapshot
      /\ n.shareSupply = 0 => n.collateral = 0
  BY <1>1, <1>2, <1>3, <1>4
<1>6. Typed(n)
  BY <1>1, <1>4, <1>5 DEF Typed
<1>7. Migrating(p, n)
  BY <1>1, <1>4 DEF Migrating
<1>8. /\ HeldBy(n) = HeldBy(ch) /\ WonRep(n) = WonRep(ch) /\ WonCapacity(n) = WonCapacity(ch)
      /\ WonBadDebt(n) = WonBadDebt(ch) /\ UnitsPerRep(n) = UnitsPerRep(ch)
      /\ (Sold(n) <=> Sold(ch)) /\ (Priced(n) <=> Priced(ch))
      /\ StaleCapacity(n) = StaleCapacity(ch)
  BY <1>4 DEF HeldBy, WonRep, WonCapacity, WonBadDebt, UnitsPerRep, Sold, Priced, StaleCapacity
<1>9. Positioned(n) /\ FeesSound(n) /\ Worth(n)
  BY <1>1, <1>4, <1>8 DEF Positioned, FeesSound, Worth
<1> QED
  BY <1>4, <1>5, <1>6, <1>7, <1>9 DEF Sound, Open, SameMoved

-----------------------------------------------------------------------------
(* The ledger.                                                             *)

LEMMA SoundSameTerms ==
    ASSUME NEW p, NEW q, SameTerms(p, q), NEW ch, Sound(p, ch)
    PROVE  Sound(q, ch)
<1>1. /\ q.poolRep = p.poolRep /\ q.gameRep = p.gameRep /\ q.totalUnits = p.totalUnits
      /\ q.snapshot = p.snapshot /\ q.shareSupply = p.shareSupply
  BY DEF SameTerms
<1>2. /\ Migrating(p, ch) => Migrating(q, ch)
      /\ Unborn(p, ch) => Unborn(q, ch)
      /\ Closed(p, ch) => Closed(q, ch)
      /\ InAuction(p, ch) => InAuction(q, ch)
      /\ Open(p, ch) => Open(q, ch)
  BY <1>1 DEF Migrating, Unborn, Closed, InAuction, CapSound, Open
<1> QED
  BY <1>2 DEF Sound

LEMMA ChildNumbers ==
    ASSUME \A x \in Child : Sound(parent, children[x])
    PROVE  \A x \in Child :
             /\ children[x].received \in Nat /\ children[x].migrated \in Nat
             /\ children[x].migratedTotals \in Amounts
             /\ children[x].migratedTotals.units \in Nat
             /\ children[x].migratedTotals.capacity \in Nat
             /\ children[x].migratedTotals.badDebt \in Nat
<1>1. SUFFICES ASSUME NEW x \in Child
               PROVE  /\ children[x].received \in Nat /\ children[x].migrated \in Nat
                      /\ children[x].migratedTotals \in Amounts
                      /\ children[x].migratedTotals.units \in Nat
                      /\ children[x].migratedTotals.capacity \in Nat
                      /\ children[x].migratedTotals.badDebt \in Nat
  OBVIOUS
<1>2. /\ children[x].received \in Nat /\ children[x].migrated \in Nat
      /\ children[x].migratedTotals \in Amounts
  BY DEF Sound, Typed
<1> QED
  BY <1>2, AmountFields

LEMMA SumsNat ==
    ASSUME \A x \in Child : Sound(parent, children[x])
    PROVE  /\ UnitsMigrated \in Nat /\ CapacityMigrated \in Nat /\ BadDebtMigrated \in Nat
           /\ Received \in Nat /\ Migrated \in Nat
<1> DEFINE r == [x \in Child |-> children[x].received]
           m == [x \in Child |-> children[x].migrated]
           u == [x \in Child |-> children[x].migratedTotals.units]
           k == [x \in Child |-> children[x].migratedTotals.capacity]
           d == [x \in Child |-> children[x].migratedTotals.badDebt]
<1>1. \A x \in Child : r[x] \in Nat /\ m[x] \in Nat /\ u[x] \in Nat /\ k[x] \in Nat /\ d[x] \in Nat
  BY ChildNumbers
<1>2. /\ Received = SumFunctionOnSet(r, Child) /\ Migrated = SumFunctionOnSet(m, Child)
      /\ UnitsMigrated = SumFunctionOnSet(u, Child)
      /\ CapacityMigrated = SumFunctionOnSet(k, Child)
      /\ BadDebtMigrated = SumFunctionOnSet(d, Child)
  BY DEF Received, Migrated, UnitsMigrated, CapacityMigrated, BadDebtMigrated
<1> HIDE DEF r, m, u, k, d
<1> QED
  BY <1>1, <1>2, ForkFacts, SumNat

\* The sums follow the one child that a step edits.
LEMMA SumsMove ==
    ASSUME DOMAIN children = Child, \A x \in Child : Sound(parent, children[x]),
           NEW c \in Child, NEW n, children' = [children EXCEPT ![c] = n],
           n.received \in Nat, n.migrated \in Nat, n.migratedTotals \in Amounts
    PROVE  /\ UnitsMigrated' = UnitsMigrated
                + (n.migratedTotals.units - children[c].migratedTotals.units)
           /\ CapacityMigrated' = CapacityMigrated
                + (n.migratedTotals.capacity - children[c].migratedTotals.capacity)
           /\ BadDebtMigrated' = BadDebtMigrated
                + (n.migratedTotals.badDebt - children[c].migratedTotals.badDebt)
           /\ Received' = Received + (n.received - children[c].received)
           /\ Migrated' = Migrated + (n.migrated - children[c].migrated)
<1> DEFINE r == [x \in Child |-> children[x].received]
           m == [x \in Child |-> children[x].migrated]
           u == [x \in Child |-> children[x].migratedTotals.units]
           k == [x \in Child |-> children[x].migratedTotals.capacity]
           d == [x \in Child |-> children[x].migratedTotals.badDebt]
           R == [x \in Child |-> children'[x].received]
           M == [x \in Child |-> children'[x].migrated]
           U == [x \in Child |-> children'[x].migratedTotals.units]
           K == [x \in Child |-> children'[x].migratedTotals.capacity]
           D == [x \in Child |-> children'[x].migratedTotals.badDebt]
<1>1. \A x \in Child : r[x] \in Int /\ m[x] \in Int /\ u[x] \in Int /\ k[x] \in Int /\ d[x] \in Int
  BY ChildNumbers
<1>2. children'[c] = n /\ \A x \in Child \ {c} : children'[x] = children[x]
  OBVIOUS
<1>3. \A x \in Child \ {c} : R[x] = r[x] /\ M[x] = m[x] /\ U[x] = u[x] /\ K[x] = k[x] /\ D[x] = d[x]
  BY <1>2
<1>4. /\ R[c] = n.received /\ M[c] = n.migrated /\ U[c] = n.migratedTotals.units
      /\ K[c] = n.migratedTotals.capacity /\ D[c] = n.migratedTotals.badDebt
  BY <1>2
<1>5. /\ n.migratedTotals.units \in Nat /\ n.migratedTotals.capacity \in Nat
      /\ n.migratedTotals.badDebt \in Nat
  BY AmountFields
<1>6. /\ r[c] = children[c].received /\ m[c] = children[c].migrated
      /\ u[c] = children[c].migratedTotals.units
      /\ k[c] = children[c].migratedTotals.capacity
      /\ d[c] = children[c].migratedTotals.badDebt
  OBVIOUS
<1>7. /\ Received = SumFunctionOnSet(r, Child) /\ Migrated = SumFunctionOnSet(m, Child)
      /\ UnitsMigrated = SumFunctionOnSet(u, Child)
      /\ CapacityMigrated = SumFunctionOnSet(k, Child)
      /\ BadDebtMigrated = SumFunctionOnSet(d, Child)
      /\ Received' = SumFunctionOnSet(R, Child) /\ Migrated' = SumFunctionOnSet(M, Child)
      /\ UnitsMigrated' = SumFunctionOnSet(U, Child)
      /\ CapacityMigrated' = SumFunctionOnSet(K, Child)
      /\ BadDebtMigrated' = SumFunctionOnSet(D, Child)
  BY DEF Received, Migrated, UnitsMigrated, CapacityMigrated, BadDebtMigrated
<1> HIDE DEF r, m, u, k, d, R, M, U, K, D
<1>8. \A x \in Child : R[x] \in Int /\ M[x] \in Int /\ U[x] \in Int /\ K[x] \in Int /\ D[x] \in Int
  BY <1>1, <1>3, <1>4, <1>5
<1>9. IsFiniteSet(Child)
  BY ForkFacts
<1>10. SumFunctionOnSet(R, Child) = SumFunctionOnSet(r, Child) + (R[c] - r[c])
  BY <1>1, <1>3, <1>8, <1>9, SumChange
<1>11. SumFunctionOnSet(M, Child) = SumFunctionOnSet(m, Child) + (M[c] - m[c])
  BY <1>1, <1>3, <1>8, <1>9, SumChange
<1>12. SumFunctionOnSet(U, Child) = SumFunctionOnSet(u, Child) + (U[c] - u[c])
  BY <1>1, <1>3, <1>8, <1>9, SumChange
<1>13. SumFunctionOnSet(K, Child) = SumFunctionOnSet(k, Child) + (K[c] - k[c])
  BY <1>1, <1>3, <1>8, <1>9, SumChange
<1>14. SumFunctionOnSet(D, Child) = SumFunctionOnSet(d, Child) + (D[c] - d[c])
  BY <1>1, <1>3, <1>8, <1>9, SumChange
<1> QED
  BY <1>4, <1>6, <1>7, <1>10, <1>11, <1>12, <1>13, <1>14

\* An edit that moves nothing leaves the ledger.
LEMMA QuietEdit ==
    ASSUME DOMAIN children = Child, \A x \in Child : Sound(parent, children[x]), Ledger,
           NEW c \in Child, NEW n, children' = [children EXCEPT ![c] = n],
           SameMoved(children[c], n), UNCHANGED <<parent, forkData>>
    PROVE  Ledger'
<1>1. /\ n.received \in Nat /\ n.migrated \in Nat /\ n.migratedTotals \in Amounts
      /\ n.received = children[c].received /\ n.migrated = children[c].migrated
      /\ n.migratedTotals = children[c].migratedTotals
      /\ n.migratedTotals.units \in Nat /\ n.migratedTotals.capacity \in Nat
      /\ n.migratedTotals.badDebt \in Nat
  BY ChildNumbers DEF SameMoved
<1>2. /\ UnitsMigrated' = UnitsMigrated
           + (n.migratedTotals.units - children[c].migratedTotals.units)
      /\ CapacityMigrated' = CapacityMigrated
           + (n.migratedTotals.capacity - children[c].migratedTotals.capacity)
      /\ BadDebtMigrated' = BadDebtMigrated
           + (n.migratedTotals.badDebt - children[c].migratedTotals.badDebt)
      /\ Received' = Received + (n.received - children[c].received)
      /\ Migrated' = Migrated + (n.migrated - children[c].migrated)
  BY <1>1, SumsMove
<1>3. /\ UnitsMigrated \in Nat /\ CapacityMigrated \in Nat /\ BadDebtMigrated \in Nat
      /\ Received \in Nat /\ Migrated \in Nat
  BY SumsNat
<1>4. /\ UnitsMigrated' = UnitsMigrated /\ CapacityMigrated' = CapacityMigrated
      /\ BadDebtMigrated' = BadDebtMigrated /\ Received' = Received /\ Migrated' = Migrated
  BY <1>1, <1>2, <1>3
<1> QED
  BY <1>4 DEF Ledger, HeldBy

\* Together too, the REP that migrated stands for no more than its units do.
LEMMA MigratedFits ==
    ASSUME ParentSound(parent), \A x \in Child : Sound(parent, children[x]),
           NEW D \in SUBSET Child,
           NEW m, m = SumFunctionOnSet([x \in Child |-> children[x].migrated], D),
           NEW u, u = SumFunctionOnSet([x \in Child |-> children[x].migratedTotals.units], D)
    PROVE  /\ m \in Nat /\ u \in Nat /\ m * parent.totalUnits <= u * parent.poolRep
           /\ parent.totalUnits = 0 => m = 0
<1> DEFINE P == parent.poolRep
           U == parent.totalUnits
           f == [x \in Child |-> children[x].migrated]
           g == [x \in Child |-> children[x].migratedTotals.units]
           F == [x \in Child |-> children[x].migrated * U]
           G == [x \in Child |-> children[x].migratedTotals.units * P]
<1>1. P \in Nat /\ U \in Nat /\ IsFiniteSet(D)
  BY ForkFacts, FS_Subset DEF ParentSound
<1>2. \A x \in Child : /\ f[x] \in Nat /\ g[x] \in Nat /\ f[x] * U <= g[x] * P
                       /\ U = 0 => f[x] = 0
  BY ChildNumbers DEF Sound, Migrating
<1>3. m = SumFunctionOnSet(f, D) /\ u = SumFunctionOnSet(g, D)
  OBVIOUS
<1>4. \A x \in Child : F[x] = f[x] * U /\ G[x] = g[x] * P
  OBVIOUS
<1> HIDE DEF f, g, F, G, P, U
<1>5. m \in Nat /\ u \in Nat
  BY <1>1, <1>2, <1>3, SumNat
<1>6. SumFunctionOnSet(F, D) = m * U
  <2>1. \A x \in D : f[x] \in Int /\ F[x] = f[x] * U
    BY <1>2, <1>4
  <2>2. U \in Int
    BY <1>1
  <2> QED
    BY <1>1, <1>3, <2>1, <2>2, SumTimes
<1>7. SumFunctionOnSet(G, D) = u * P
  <2>1. \A x \in D : g[x] \in Int /\ G[x] = g[x] * P
    BY <1>2, <1>4
  <2>2. P \in Int
    BY <1>1
  <2> QED
    BY <1>1, <1>3, <2>1, <2>2, SumTimes
<1>8. SumFunctionOnSet(F, D) <= SumFunctionOnSet(G, D)
  <2>1. \A x \in D : F[x] \in Int /\ G[x] \in Int /\ F[x] <= G[x]
    <3>1. SUFFICES ASSUME NEW x \in D PROVE F[x] \in Int /\ G[x] \in Int /\ F[x] <= G[x]
      OBVIOUS
    <3>2. f[x] * U \in Nat /\ g[x] * P \in Nat
      BY <1>1, <1>2, ProductNat
    <3> QED
      BY <1>2, <1>4, <3>2
  <2> QED
    BY <1>1, <2>1, SumMonotone
<1>9. U = 0 => m = 0
  <2>1. SUFFICES ASSUME U = 0 PROVE m = 0
    OBVIOUS
  <2>2. \A x \in D : f[x] = 0
    BY <1>2, <2>1
  <2> QED
    BY <1>1, <1>3, <2>2, SumZero
<1>10. m * U <= u * P
  BY <1>6, <1>7, <1>8
<1> QED
  BY <1>5, <1>9, <1>10 DEF P, U

-----------------------------------------------------------------------------
(* The migration of a vault.                                               *)

\* Of all REP no more migrates than the pool has, whatever the order.
LEMMA MigratedAtMost ==
    ASSUME ParentSound(parent), \A x \in Child : Sound(parent, children[x]), Ledger
    PROVE  Migrated \in Nat /\ Migrated <= parent.poolRep
<1> DEFINE m == Migrated
           u == UnitsMigrated
           P == parent.poolRep
           U == parent.totalUnits
<1>1. /\ m \in Nat /\ u \in Nat /\ m * U <= u * P /\ (U = 0 => m = 0)
  <2>1. /\ m = SumFunctionOnSet([x \in Child |-> children[x].migrated], Child)
        /\ u = SumFunctionOnSet([x \in Child |-> children[x].migratedTotals.units], Child)
        /\ Child \in SUBSET Child
    BY DEF Migrated, UnitsMigrated
  <2> HIDE DEF m, u
  <2> QED
    BY <2>1, MigratedFits
<1>2. /\ P \in Nat /\ U \in Nat /\ HeldBy(parent).units \in Nat
      /\ Total(parent.unclaimed).units \in Nat
      /\ HeldBy(parent).units + Total(parent.unclaimed).units + u <= U
  BY TotalFacts DEF ParentSound, HeldBy, Ledger
<1> HIDE DEF m, u, P, U
<1>3. u <= U
  BY <1>1, <1>2
<1>4. ASSUME U = 0 PROVE m <= P
  BY <1>1, <1>2, <1>4
<1>5. ASSUME U > 0 PROVE m <= P
  <2>1. u * P <= U * P /\ u * P \in Nat /\ U * P \in Nat /\ m * U \in Nat
    BY <1>1, <1>2, <1>3, ProductMonotone, ProductNat
  <2>2. m * U <= U * P /\ m * U = U * m
    BY <1>1, <1>2, <2>1
  <2>3. U * m <= U * P
    BY <2>2
  <2> QED
    BY <1>1, <1>2, <1>5, <2>3, FactorAtMost
<1>6. m <= P
  BY <1>2, <1>4, <1>5
<1> QED
  BY <1>1, <1>6 DEF m, P

\* The REP that a vault's units stand for, and the next one's, fit the pool's.
LEMMA MigratedRepFacts ==
    ASSUME ParentSound(parent), DOMAIN children = Child,
           \A x \in Child : Sound(parent, children[x]), Ledger,
           NEW c \in Child, NEW v \in Vault, NEW child, SameMoved(children[c], child),
           NEW rep, rep = MigratedRep(child, v)
    PROVE  /\ rep \in Nat /\ child.migrated + rep <= parent.poolRep
           /\ Migrated + rep <= parent.poolRep
           /\ (child.migrated + rep) * parent.totalUnits
                <= MigratedWith(child, v).units * parent.poolRep
           /\ parent.totalUnits = 0 => rep = 0
           /\ parent.poolRep = 0 => rep = 0
<1> DEFINE P == parent.poolRep
           U == parent.totalUnits
           u == parent.vaults[v].units
           m == child.migrated
           M == child.migratedTotals.units
           with == MigratedWith(child, v).units
           Rest == Child \ {c}
           f == [x \in Child |-> children[x].migrated]
           g == [x \in Child |-> children[x].migratedTotals.units]
           A == SumFunctionOnSet(f, Rest)
           B == SumFunctionOnSet(g, Rest)
<1>1. /\ P \in Nat /\ U \in Nat /\ u \in Nat /\ u <= HeldBy(parent).units
      /\ HeldBy(parent).units \in Nat /\ Total(parent.unclaimed).units \in Nat
  BY PositionFields, TotalFacts DEF ParentSound, HeldBy
<1>2. /\ m \in Nat /\ M \in Nat /\ m = f[c] /\ M = g[c] /\ m * U <= M * P /\ m <= P
      /\ (U = 0 => m = 0)
  <2>1. m = children[c].migrated /\ child.migratedTotals = children[c].migratedTotals
    BY DEF SameMoved
  <2>2. Migrating(parent, children[c])
    BY DEF Sound
  <2> QED
    BY <2>1, <2>2, ChildNumbers DEF Migrating
<1>3. /\ A \in Nat /\ B \in Nat /\ A * U <= B * P
  <2>1. Rest \in SUBSET Child
    OBVIOUS
  <2> QED
    BY <2>1, MigratedFits
<1>4. /\ \A x \in Child : f[x] \in Int /\ g[x] \in Int
      /\ IsFiniteSet(Child) /\ IsFiniteSet(Rest)
      /\ Migrated = SumFunctionOnSet(f, Child) /\ UnitsMigrated = SumFunctionOnSet(g, Child)
  BY ChildNumbers, ForkFacts, FS_Subset DEF Migrated, UnitsMigrated
<1>5. with = M + (IF P = 0 THEN 0 ELSE u)
  <2> DEFINE old == parent.vaults[v]
             t == IF P = 0 THEN 0 ELSE u
  <2>1. old \in Amounts
    BY PositionFields DEF ParentSound
  <2>2. [old EXCEPT !.units = t].units = t
    BY <2>1 DEF Amounts
  <2>3. MigratedWith(child, v) = Plus(child.migratedTotals, [old EXCEPT !.units = t])
    BY DEF MigratedWith
  <2> HIDE DEF old, t
  <2>4. with = M + t
    BY <2>2, <2>3 DEF Plus
  <2> QED
    BY <2>4 DEF t
<1>6. rep = IF u = 0 \/ P = 0 \/ U = 0 THEN 0
            ELSE IF with = U THEN P - m ELSE (u * P) \div U
  BY DEF MigratedRep
<1> HIDE DEF f, g, Rest
<1>7. Migrated = m + A /\ UnitsMigrated = M + B
  <2>1. Rest = Child \ {c}
    BY DEF Rest
  <2> QED
    BY <1>2, <1>4, <2>1, SumRemove
<1>8. B + M + u <= U
  <2>1. HeldBy(parent).units + Total(parent.unclaimed).units + UnitsMigrated <= U
    BY DEF Ledger
  <2> HIDE DEF U, u, A, B, M
  <2> QED
    BY <1>1, <1>2, <1>3, <1>7, <2>1
<1> HIDE DEF P, U, u, m, M, with, A, B
<1>9. rep \in Nat /\ (m + rep) * U <= with * P /\ (U = 0 => rep = 0) /\ (P = 0 => rep = 0)
  <2>1. CASE u = 0 \/ P = 0 \/ U = 0
    <3>1. rep = 0 /\ m + rep = m
      BY <1>2, <1>6, <2>1
    <3>2. M <= with /\ with \in Nat
      BY <1>1, <1>2, <1>5
    <3>3. M * P <= with * P /\ M * P \in Nat /\ with * P \in Nat /\ m * U \in Nat
      BY <1>1, <1>2, <3>2, ProductMonotone, ProductNat
    <3> QED
      BY <1>2, <3>1, <3>3
  <2>2. CASE ~ (u = 0 \/ P = 0 \/ U = 0)
    <3>1. with = M + u
      BY <1>5, <2>2
    <3>2. CASE with = U
      <4>1. rep = P - m
        BY <1>6, <2>2, <3>2
      <4>2. rep \in Nat /\ m + rep = P
        BY <1>1, <1>2, <4>1
      <4>3. P * U = U * P /\ P * U \in Nat
        BY <1>1, ProductNat
      <4> QED
        BY <1>1, <2>2, <3>2, <4>2, <4>3
    <3>3. CASE with # U
      <4>1. rep = (u * P) \div U /\ u * P \in Nat /\ U > 0
        BY <1>1, <1>6, <2>2, <3>3, ProductNat
      <4>2. rep \in Nat /\ U * rep <= u * P
        <5> DEFINE n == u * P
        <5>1. rep = n \div U /\ n \in Nat
          BY <4>1
        <5> HIDE DEF n
        <5>2. rep \in Nat /\ U * rep <= n
          BY <1>1, <4>1, <5>1, Quotient
        <5> QED
          BY <5>2 DEF n
      <4>3. (m + rep) * U = m * U + U * rep /\ with * P = M * P + u * P
        BY <1>1, <1>2, <3>1, <4>2
      <4>4. m * U \in Nat /\ U * rep \in Nat /\ M * P \in Nat
        BY <1>1, <1>2, <4>2, ProductNat
      <4> QED
        BY <1>2, <2>2, <4>1, <4>2, <4>3, <4>4
    <3> QED
      BY <3>2, <3>3
  <2> QED
    BY <2>1, <2>2
<1>10. m + A + rep <= P
  <2>1. CASE U = 0
    <3>1. rep = 0 /\ Migrated \in Nat /\ Migrated <= P
      BY <1>9, <2>1, MigratedAtMost DEF P
    <3> QED
      BY <1>2, <1>3, <1>7, <3>1
  <2>2. CASE U > 0
    <3> DEFINE mine == m + rep
               all == m + A + rep
    <3>1. mine \in Nat /\ all = mine + A
      BY <1>2, <1>3, <1>9
    <3>2. mine * U <= with * P
      BY <1>9
    <3> HIDE DEF mine, all
    <3>3. all \in Nat /\ all * U = mine * U + A * U
      <4>1. A \in Nat /\ U \in Nat
        BY <1>1, <1>3
      <4>2. all \in Nat
        BY <3>1, <4>1
      <4>3. (mine + A) * U = mine * U + A * U
        BY <3>1, <4>1
      <4> QED
        BY <3>1, <4>2, <4>3
    <3>4. with \in Nat /\ with + B <= U
      <4>1. M \in Nat /\ u \in Nat /\ U \in Nat /\ B \in Nat
        BY <1>1, <1>2, <1>3
      <4>2. with = M \/ with = M + u
        BY <1>5, <4>1
      <4> QED
        BY <1>8, <4>1, <4>2
    <3>5. (with + B) * P = with * P + B * P /\ (with + B) * P <= U * P
      <4> DEFINE s == with + B
      <4>1. s \in Nat /\ s <= U
        BY <1>3, <3>4
      <4>2. s * P = with * P + B * P
        BY <1>1, <1>3, <3>4
      <4> HIDE DEF s
      <4>3. s * P <= U * P
        BY <1>1, <4>1, ProductMonotone
      <4> QED
        BY <4>2, <4>3 DEF s
    <3>6. /\ mine * U \in Nat /\ A * U \in Nat /\ with * P \in Nat /\ B * P \in Nat
          /\ U * P \in Nat
      BY <1>1, <1>3, <3>1, <3>4, ProductNat
    <3>7. all * U <= U * P
      BY <1>3, <3>3, <3>5, <3>6, <3>2
    <3>8. all * U = U * all
      BY <1>1, <3>3
    <3>9. U * all <= U * P
      BY <3>7, <3>8
    <3>10. all <= P
      BY <1>1, <2>2, <3>3, <3>9, FactorAtMost
    <3> QED
      BY <3>10 DEF all
  <2> QED
    BY <1>1, <2>1, <2>2
<1>11. m + rep <= P /\ Migrated + rep <= P
  BY <1>1, <1>2, <1>3, <1>7, <1>9, <1>10
<1> QED
  BY <1>9, <1>11 DEF P, U, m, with

\* The collateral that follows rep is the rounded-up share of all that migrated.
LEMMA TransferFacts ==
    ASSUME ParentSound(parent), \A x \in Child : Sound(parent, children[x]), Ledger,
           NEW rep \in Nat, Migrated + rep <= parent.poolRep,
           NEW moved, moved = _transferForkMigratedCollateralToChild(rep)
    PROVE  /\ moved.eth \in Nat /\ moved.eth <= parent.collateral
           /\ DOMAIN moved.data = {"allocated", "transferred"}
           /\ moved.data.transferred = Received + moved.eth
           /\ moved.data.allocated = IF parent.snapshot = 0 THEN 0 ELSE Migrated + rep
           /\ parent.poolRep > 0 =>
                Received + moved.eth = CeilDiv(parent.snapshot * (Migrated + rep), parent.poolRep)
<1> DEFINE P == parent.poolRep
           S == parent.snapshot
           C == parent.collateral
           a == forkData.allocated
           t == forkData.transferred
           target == CeilDiv(S * (a + rep), P)
           amount == Min({target - t, C})
<1>1. /\ P \in Nat /\ S \in Nat /\ C \in Nat /\ Migrated \in Nat /\ Received \in Nat
      /\ DOMAIN forkData = {"allocated", "transferred"}
      /\ C + Received = S /\ t = Received /\ a = (IF S = 0 THEN 0 ELSE Migrated)
      /\ (P > 0 => Received = CeilDiv(S * Migrated, P))
  BY SumsNat DEF ParentSound, Ledger
<1>2. moved = IF rep = 0 \/ P = 0 \/ S = 0
              THEN [data |-> forkData, eth |-> 0]
              ELSE [data |-> [allocated |-> a + rep, transferred |-> t + amount], eth |-> amount]
  BY DEF _transferForkMigratedCollateralToChild
<1> HIDE DEF P, S, C, a, t, amount
<1>3. CASE rep = 0 \/ P = 0 \/ S = 0
  <2>1. moved.eth = 0 /\ moved.data = forkData
    BY <1>2, <1>3
  <2>2. moved.data.allocated = a /\ moved.data.transferred = t
    BY <2>1 DEF a, t
  <2>3. rep = 0 \/ S = 0
    BY <1>1, <1>3 DEF P
  <2>4. a = IF S = 0 THEN 0 ELSE Migrated + rep
    BY <1>1, <2>3
  <2>5. S * (Migrated + rep) = S * Migrated
    <3>1. CASE rep = 0
      BY <1>1, <3>1
    <3>2. CASE S = 0
      BY <1>1, <3>2
    <3> QED
      BY <2>3, <3>1, <3>2
  <2>6. P > 0 => Received + moved.eth = CeilDiv(S * (Migrated + rep), P)
    <3> DEFINE x == S * Migrated
               y == S * (Migrated + rep)
    <3>1. x = y /\ (P > 0 => Received = CeilDiv(x, P))
      BY <1>1, <2>5
    <3>2. Received + moved.eth = Received
      BY <1>1, <2>1
    <3> HIDE DEF x, y
    <3>3. P > 0 => Received + moved.eth = CeilDiv(y, P)
      BY <3>1, <3>2
    <3> QED
      BY <3>3 DEF y
  <2> QED
    BY <1>1, <2>1, <2>2, <2>4, <2>6 DEF P, S, C
<1>4. CASE ~ (rep = 0 \/ P = 0 \/ S = 0)
  <2>1. P > 0 /\ S > 0 /\ a = Migrated /\ Migrated + rep <= P
    BY <1>1, <1>4 DEF P
  <2> DEFINE x == S * Migrated
             y == S * (Migrated + rep)
  <2>2. x \in Nat /\ y \in Nat /\ x <= y /\ y <= S * P
    <3> DEFINE s == Migrated + rep
    <3>1. s \in Nat /\ Migrated <= s /\ s <= P
      BY <1>1, <2>1
    <3> HIDE DEF s
    <3>2. S * Migrated <= S * s /\ S * s <= S * P
      BY <1>1, <3>1, ProductMonotone
    <3>3. S * Migrated \in Nat /\ S * s \in Nat
      BY <1>1, <3>1, ProductNat
    <3> QED
      BY <3>2, <3>3 DEF s
  <2>3. target = CeilDiv(y, P) /\ Received = CeilDiv(x, P)
    BY <1>1, <2>1
  <2> HIDE DEF x, y, target
  <2>4. target \in Nat /\ target <= S
    BY <1>1, <2>1, <2>2, <2>3, CeilDivFacts
  <2>5. Received <= target
    BY <1>1, <2>1, <2>2, <2>3, CeilDivMonotone
  <2> DEFINE gap == target - t
  <2>6. gap \in Int /\ C \in Int /\ gap <= C /\ gap \in Nat
    BY <1>1, <2>4, <2>5
  <2>7. amount = gap
    <3>1. amount = Min({gap, C})
      BY DEF amount
    <3> HIDE DEF gap
    <3> QED
      BY <2>6, <3>1, MinTwo
  <2>8. /\ moved.eth = amount /\ moved.data = [allocated |-> a + rep, transferred |-> t + amount]
    BY <1>2, <1>4
  <2>9. Received + moved.eth = target
    BY <1>1, <2>4, <2>7, <2>8
  <2>10. /\ moved.data.allocated = a + rep /\ moved.data.transferred = t + amount
         /\ DOMAIN moved.data = {"allocated", "transferred"}
    BY <2>8
  <2>11. moved.eth \in Nat /\ moved.eth <= C
    BY <2>6, <2>7, <2>8
  <2>12. Received + moved.eth = CeilDiv(S * (Migrated + rep), P)
    BY <2>3, <2>9 DEF y
  <2> QED
    BY <1>1, <2>1, <2>8, <2>10, <2>11, <2>12 DEF P, S, C
<1> QED
  BY <1>3, <1>4

\* What a migration adds to the child.
Joined(ch, v, credit, with, eth) ==
    [ch EXCEPT !.vaults[v] = Plus(@, credit), !.totals.badDebt = @ + credit.badDebt,
               !.migrated = @ + credit.units, !.migratedTotals = with,
               !.received = @ + eth, !.moved[v] = @ + credit.units]

LEMMA JoinedFields ==
    ASSUME NEW ch, Typed(ch), NEW v \in Vault, NEW credit \in Amounts, NEW with \in Amounts,
           NEW eth \in Nat, NEW n, n = Joined(ch, v, credit, with, eth),
           NEW position, position = Plus(ch.vaults[v], credit),
           NEW totals, totals = [ch.totals EXCEPT !.badDebt = @ + credit.badDebt]
    PROVE  /\ DOMAIN n = ChildFields
           /\ n.vaults = [ch.vaults EXCEPT ![v] = position] /\ n.totals = totals
           /\ n.moved = [ch.moved EXCEPT ![v] = ch.moved[v] + credit.units]
           /\ n.migrated = ch.migrated + credit.units /\ n.migratedTotals = with
           /\ n.received = ch.received + eth
           /\ n.state = ch.state /\ n.split = ch.split /\ n.game = ch.game /\ n.price = ch.price
           /\ n.stale = ch.stale /\ n.feeEligible = ch.feeEligible
           /\ n.uncheckpointed = ch.uncheckpointed /\ n.accrued = ch.accrued
           /\ n.collateral = ch.collateral /\ n.rep = ch.rep
           /\ n.shareSupply = ch.shareSupply /\ n.raise = ch.raise /\ n.cap = ch.cap
           /\ n.purchased = ch.purchased /\ n.ethRaised = ch.ethRaised /\ n.won = ch.won
           /\ n.rate = ch.rate /\ n.unassigned = ch.unassigned /\ n.claimedRep = ch.claimedRep
           /\ n.bought = ch.bought
<1> DEFINE x == [ch.vaults EXCEPT ![v] = position]
           y == [ch.moved EXCEPT ![v] = ch.moved[v] + credit.units]
           m == ch.migrated + credit.units
           r == ch.received + eth
           a == [ch EXCEPT !.vaults = x, !.totals = totals, !.moved = y]
<1>1. DOMAIN ch = ChildFields
  BY DEF Typed
<1>2. n = [a EXCEPT !.migrated = m, !.migratedTotals = with, !.received = r]
  BY <1>1 DEF ChildFields, Joined
<1> HIDE DEF x, y, m, r, a
<1>3. a = [ch EXCEPT !.vaults = x, !.totals = totals, !.moved = y]
  BY DEF a
<1>4. /\ DOMAIN a = ChildFields /\ a.vaults = x /\ a.totals = totals /\ a.moved = y
      /\ \A f \in ChildFields \ {"vaults", "totals", "moved"} : a[f] = ch[f]
  BY <1>1, <1>3 DEF ChildFields
<1>5. /\ DOMAIN n = ChildFields /\ n.migrated = m /\ n.migratedTotals = with /\ n.received = r
      /\ \A f \in ChildFields \ {"migrated", "migratedTotals", "received"} : n[f] = a[f]
  BY <1>2, <1>4 DEF ChildFields
<1>6. /\ n.vaults = x /\ n.totals = totals /\ n.moved = y
  BY <1>4, <1>5 DEF ChildFields
<1>7. \A f \in ChildFields \ {"vaults", "totals", "moved", "migrated", "migratedTotals", "received"} :
         n[f] = ch[f]
  BY <1>4, <1>5
<1>8. /\ n.state = ch.state /\ n.split = ch.split /\ n.game = ch.game /\ n.price = ch.price
      /\ n.stale = ch.stale /\ n.feeEligible = ch.feeEligible
      /\ n.uncheckpointed = ch.uncheckpointed /\ n.accrued = ch.accrued
      /\ n.collateral = ch.collateral /\ n.rep = ch.rep
      /\ n.shareSupply = ch.shareSupply /\ n.raise = ch.raise /\ n.cap = ch.cap
      /\ n.purchased = ch.purchased /\ n.ethRaised = ch.ethRaised /\ n.won = ch.won
      /\ n.rate = ch.rate /\ n.unassigned = ch.unassigned /\ n.claimedRep = ch.claimedRep
      /\ n.bought = ch.bought
  BY <1>7 DEF ChildFields
<1>9. n.vaults = [ch.vaults EXCEPT ![v] = position]
  BY <1>6, Zenon DEF x
<1>10. n.moved = [ch.moved EXCEPT ![v] = ch.moved[v] + credit.units]
  BY <1>6, Zenon DEF y
<1>11. n.migrated = ch.migrated + credit.units /\ n.received = ch.received + eth
  BY <1>5 DEF m, r
<1> QED
  BY <1>5, <1>6, <1>8, <1>9, <1>10, <1>11

\* migrateVault, for the child: what joins it is backed by REP that was split.
LEMMA JoinSound ==
    ASSUME NEW p, NEW ch, Sound(p, ch), ch.state = "ForkMigration", NEW v \in Vault,
           p.poolRep \in Nat, p.totalUnits \in Nat,
           NEW credit \in Amounts, NEW with \in Amounts, NEW eth \in Nat,
           with.capacity = ch.migratedTotals.capacity + credit.capacity,
           with.badDebt = ch.migratedTotals.badDebt + credit.badDebt,
           ch.migrated + credit.units <= ch.split,
           (ch.migrated + credit.units) * p.totalUnits <= with.units * p.poolRep,
           p.totalUnits = 0 => credit.units = 0,
           NEW n, n = Joined(ch, v, credit, with, eth)
    PROVE  /\ Sound(p, n) /\ n.state = "ForkMigration"
           /\ n.migrated = ch.migrated + credit.units /\ n.migratedTotals = with
           /\ n.received = ch.received + eth
<1> DEFINE position == Plus(ch.vaults[v], credit)
           totals == [ch.totals EXCEPT !.badDebt = @ + credit.badDebt]
<1>1. Typed(ch) /\ Migrating(p, ch) /\ Closed(p, ch) /\ DOMAIN ch = ChildFields
  BY DEF Sound, Typed
<1>2. /\ ch.vaults \in Positions /\ ch.totals \in Amounts /\ ch.migratedTotals \in Amounts
      /\ ch.moved \in [Vault -> Nat] /\ ch.migrated \in Nat /\ ch.received \in Nat
      /\ ch.split \in Nat /\ ch.moved[v] \in Nat
      /\ ch.vaults[v] \in Amounts
      /\ ch.vaults[v].units \in Nat /\ ch.vaults[v].capacity \in Nat
      /\ ch.vaults[v].badDebt \in Nat
      /\ ch.migratedTotals.capacity \in Nat /\ ch.migratedTotals.badDebt \in Nat
      /\ credit.units \in Nat /\ credit.capacity \in Nat /\ credit.badDebt \in Nat
  BY <1>1, AmountFields, PositionFields DEF Typed
<1>3. /\ position \in Amounts /\ position.units = ch.vaults[v].units + credit.units
      /\ position.capacity = ch.vaults[v].capacity + credit.capacity
      /\ position.badDebt = ch.vaults[v].badDebt + credit.badDebt
  BY <1>2 DEF Plus, Amounts
<1>4. totals \in Amounts /\ totals.units = ch.totals.units
  <2> DEFINE d == ch.totals.badDebt + credit.badDebt
             old == ch.totals
  <2>1. d \in Nat /\ old \in Amounts /\ totals = [old EXCEPT !.badDebt = d]
    BY <1>2, AmountFields
  <2> HIDE DEF d, totals, old
  <2>2. totals \in Amounts /\ totals.units = old.units
    BY <2>1 DEF Amounts
  <2> QED
    BY <2>2 DEF old
<1> HIDE DEF position, totals
<1>5. position = Plus(ch.vaults[v], credit)
      /\ totals = [ch.totals EXCEPT !.badDebt = @ + credit.badDebt]
  BY DEF position, totals
<1>6. /\ DOMAIN n = ChildFields
      /\ n.vaults = [ch.vaults EXCEPT ![v] = position] /\ n.totals = totals
      /\ n.moved = [ch.moved EXCEPT ![v] = ch.moved[v] + credit.units]
      /\ n.migrated = ch.migrated + credit.units /\ n.migratedTotals = with
      /\ n.received = ch.received + eth
      /\ n.state = ch.state /\ n.split = ch.split /\ n.game = ch.game /\ n.price = ch.price
      /\ n.stale = ch.stale /\ n.feeEligible = ch.feeEligible
      /\ n.uncheckpointed = ch.uncheckpointed /\ n.accrued = ch.accrued
      /\ n.collateral = ch.collateral /\ n.rep = ch.rep
      /\ n.shareSupply = ch.shareSupply /\ n.raise = ch.raise /\ n.cap = ch.cap
      /\ n.purchased = ch.purchased /\ n.ethRaised = ch.ethRaised /\ n.won = ch.won
      /\ n.rate = ch.rate /\ n.unassigned = ch.unassigned /\ n.claimedRep = ch.claimedRep
      /\ n.bought = ch.bought
  BY <1>1, <1>5, JoinedFields
<1>7. /\ n.vaults \in Positions
      /\ HeldBy(n).units = HeldBy(ch).units + credit.units
      /\ HeldBy(n).capacity = HeldBy(ch).capacity + credit.capacity
      /\ HeldBy(n).badDebt = HeldBy(ch).badDebt + credit.badDebt
  <2> DEFINE x == ch.vaults
             y == n.vaults
  <2>1. /\ y = [x EXCEPT ![v] = position] /\ x \in Positions
        /\ HeldBy(n) = Total(y) /\ HeldBy(ch) = Total(x) /\ n.vaults = y
        /\ position.units = x[v].units + credit.units
        /\ position.capacity = x[v].capacity + credit.capacity
        /\ position.badDebt = x[v].badDebt + credit.badDebt
        /\ x[v].units \in Nat /\ x[v].capacity \in Nat /\ x[v].badDebt \in Nat
    BY <1>2, <1>3, <1>6 DEF HeldBy
  <2> HIDE DEF x, y
  <2>2. x \in Positions /\ Replaced(x, y, v, position) /\ position \in Amounts
    BY <1>3, <2>1 DEF Replaced
  <2>3. /\ y \in Positions
        /\ Total(y).units = Total(x).units + (position.units - x[v].units)
        /\ Total(y).capacity = Total(x).capacity + (position.capacity - x[v].capacity)
        /\ Total(y).badDebt = Total(x).badDebt + (position.badDebt - x[v].badDebt)
    BY <2>2, TotalReplaced
  <2>4. Total(x).units \in Nat /\ Total(x).capacity \in Nat /\ Total(x).badDebt \in Nat
    BY <2>1, TotalFacts
  <2> QED
    BY <1>2, <2>1, <2>3, <2>4
<1>8. HeldBy(n) = [n.migratedTotals EXCEPT !.units = n.migrated]
  <2>1. /\ HeldBy(ch).units = ch.migrated
        /\ HeldBy(ch).capacity = ch.migratedTotals.capacity
        /\ HeldBy(ch).badDebt = ch.migratedTotals.badDebt
    <3> DEFINE t == ch.migratedTotals
    <3>1. HeldBy(ch) = [t EXCEPT !.units = ch.migrated] /\ t \in Amounts
      BY <1>1, <1>2 DEF Closed
    <3> HIDE DEF t
    <3>2. HeldBy(ch).units = ch.migrated /\ HeldBy(ch).capacity = t.capacity
          /\ HeldBy(ch).badDebt = t.badDebt
      BY <3>1 DEF Amounts
    <3> QED
      BY <3>2 DEF t
  <2>2. /\ HeldBy(n).units = n.migrated /\ HeldBy(n).capacity = with.capacity
        /\ HeldBy(n).badDebt = with.badDebt
    BY <1>6, <1>7, <2>1
  <2>3. HeldBy(n) = [units |-> HeldBy(n).units, capacity |-> HeldBy(n).capacity,
                     badDebt |-> HeldBy(n).badDebt]
    BY TotalIsSums DEF HeldBy
  <2>4. [with EXCEPT !.units = n.migrated]
          = [units |-> n.migrated, capacity |-> with.capacity, badDebt |-> with.badDebt]
    BY DEF Amounts
  <2> QED
    BY <1>6, <2>2, <2>3, <2>4
<1>9. \A w \in Vault : /\ n.won[w] = NoWinnings /\ n.bought[w] = 0
                       /\ n.moved[w] = n.vaults[w].units
  <2>1. SUFFICES ASSUME NEW w \in Vault
                 PROVE  /\ n.won[w] = NoWinnings /\ n.bought[w] = 0
                        /\ n.moved[w] = n.vaults[w].units
    OBVIOUS
  <2>2. ch.won[w] = NoWinnings /\ ch.bought[w] = 0 /\ ch.moved[w] = ch.vaults[w].units
    BY <1>1 DEF Closed
  <2>3. CASE w = v
    <3>1. n.moved[w] = ch.moved[v] + credit.units /\ n.vaults[w] = position
      BY <1>2, <1>6, <2>3 DEF Positions
    <3> QED
      BY <1>3, <1>6, <2>2, <2>3, <3>1
  <2>4. CASE w # v
    <3>1. n.moved[w] = ch.moved[w] /\ n.vaults[w] = ch.vaults[w]
      BY <1>2, <1>6, <2>4 DEF Positions
    <3> QED
      BY <1>6, <2>2, <3>1
  <2> QED
    BY <2>3, <2>4
<1>10. n.migrated \in Nat /\ n.received \in Nat /\ n.moved \in [Vault -> Nat]
  BY <1>2, <1>6
<1>11. Typed(n)
  BY <1>1, <1>4, <1>6, <1>7, <1>10 DEF Typed
<1>12. n.migrated <= n.split /\ n.split <= p.poolRep /\ n.migrated <= p.poolRep
  <2>1. ch.split <= p.poolRep
    BY <1>1 DEF Closed
  <2> QED
    BY <1>2, <1>6, <1>10, <2>1
<1>13. Closed(p, n)
  <2>1. n.rep = n.split /\ n.game <= p.gameRep /\ n.totals.units = p.poolRep
        /\ n.stale = {} /\ n.uncheckpointed = 0 /\ ~ n.accrued
        /\ n.purchased = 0 /\ n.ethRaised = 0 /\ n.claimedRep = 0 /\ n.collateral = 0
    BY <1>1, <1>4, <1>6 DEF Closed
  <2> QED
    BY <1>8, <1>9, <1>12, <2>1 DEF Closed
<1>14. Migrating(p, n)
  <2>1. p.totalUnits = 0 => n.migrated = 0
    BY <1>1, <1>2, <1>6 DEF Migrating
  <2>2. n.migrated * p.totalUnits <= n.migratedTotals.units * p.poolRep
    BY <1>6
  <2> QED
    BY <1>12, <2>1, <2>2 DEF Migrating
<1> QED
  BY <1>6, <1>11, <1>13, <1>14 DEF Sound

\* What a migration takes from the parent.
Given(p, v, badDebt, eth) ==
    [p EXCEPT !.vaults[v] = Nothing, !.totalBadDebt = @ - badDebt, !.collateral = @ - eth]

LEMMA GivenFields ==
    ASSUME NEW p, ParentSound(p), NEW v \in Vault, NEW badDebt \in Nat, NEW eth \in Nat,
           badDebt <= p.totalBadDebt, eth <= p.collateral,
           NEW q, q = Given(p, v, badDebt, eth)
    PROVE  /\ ParentSound(q) /\ SameTerms(p, q)
           /\ q.vaults = [p.vaults EXCEPT ![v] = Nothing] /\ q.unclaimed = p.unclaimed
           /\ q.totalBadDebt = p.totalBadDebt - badDebt /\ q.collateral = p.collateral - eth
<1> DEFINE x == [p.vaults EXCEPT ![v] = Nothing]
           d == p.totalBadDebt - badDebt
           e == p.collateral - eth
<1>1. DOMAIN p = ParentFields
  BY DEF ParentSound
<1>2. q = [p EXCEPT !.vaults = x, !.totalBadDebt = d, !.collateral = e]
  BY <1>1 DEF ParentFields, Given
<1>3. d \in Nat /\ e \in Nat /\ x \in Positions
  BY DEF ParentSound, Positions, Nothing, Amounts
<1>4. /\ d = p.totalBadDebt - badDebt /\ e = p.collateral - eth
      /\ x = [p.vaults EXCEPT ![v] = Nothing]
  OBVIOUS
<1> HIDE DEF x, d, e
<1>5. /\ DOMAIN q = ParentFields /\ q.vaults = x /\ q.totalBadDebt = d /\ q.collateral = e
      /\ \A f \in ParentFields \ {"vaults", "totalBadDebt", "collateral"} : q[f] = p[f]
  BY <1>1, <1>2 DEF ParentFields
<1>6. /\ q.ownFork = p.ownFork /\ q.hasGame = p.hasGame /\ q.sameQuestion = p.sameQuestion
      /\ q.poolRep = p.poolRep /\ q.gameRep = p.gameRep /\ q.shareSupply = p.shareSupply
      /\ q.price = p.price /\ q.totalUnits = p.totalUnits /\ q.totalCapacity = p.totalCapacity
      /\ q.abandoned = p.abandoned /\ q.snapshot = p.snapshot
      /\ q.badDebtAtFork = p.badDebtAtFork /\ q.unclaimed = p.unclaimed
      /\ q.shares = p.shares /\ q.traders = p.traders /\ q.traded = p.traded
      /\ q.prices = p.prices /\ q.decided = p.decided /\ q.late = p.late
  BY <1>5 DEF ParentFields
<1>7. SameTerms(p, q)
  BY <1>6 DEF SameTerms
<1>8. ParentSound(q)
  BY <1>3, <1>5, <1>6 DEF ParentSound
<1> QED
  BY <1>4, <1>5, <1>6, <1>7, <1>8

\* migrateVault, for the ledger: what leaves the parent is in one child.
LEMMA MigrationKeepsLedger ==
    ASSUME ParentSound(parent), DOMAIN children = Child,
           \A x \in Child : Sound(parent, children[x]), Ledger,
           NEW c \in Child, NEW v \in Vault, NEW with \in Amounts, NEW eth \in Nat, NEW rep \in Nat,
           NEW n, children' = [children EXCEPT ![c] = n],
           n.migrated = children[c].migrated + rep, n.migratedTotals = with,
           n.received = children[c].received + eth,
           with.units <= children[c].migratedTotals.units + parent.vaults[v].units,
           with.capacity = children[c].migratedTotals.capacity + parent.vaults[v].capacity,
           with.badDebt = children[c].migratedTotals.badDebt + parent.vaults[v].badDebt,
           parent' = Given(parent, v, parent.vaults[v].badDebt, eth), eth <= parent.collateral,
           DOMAIN forkData' = {"allocated", "transferred"},
           forkData'.transferred = Received + eth,
           forkData'.allocated = IF parent.snapshot = 0 THEN 0 ELSE Migrated + rep,
           parent.poolRep > 0 =>
              Received + eth = CeilDiv(parent.snapshot * (Migrated + rep), parent.poolRep)
    PROVE  ParentSound(parent') /\ SameTerms(parent, parent') /\ Ledger'
<1> DEFINE old == parent.vaults[v]
           ch == children[c]
           mt == ch.migratedTotals
<1>1. /\ parent.vaults \in Positions /\ old \in Amounts /\ old.units \in Nat
      /\ old.capacity \in Nat /\ old.badDebt \in Nat
      /\ parent.unclaimed \in Positions
  BY PositionFields DEF ParentSound
<1>2. /\ HeldBy(parent).units \in Nat /\ HeldBy(parent).capacity \in Nat
      /\ HeldBy(parent).badDebt \in Nat
      /\ Total(parent.unclaimed).units \in Nat /\ Total(parent.unclaimed).capacity \in Nat
      /\ Total(parent.unclaimed).badDebt \in Nat
      /\ parent.abandoned.badDebt \in Nat /\ parent.totalBadDebt \in Nat
      /\ parent.collateral \in Nat
  BY <1>1, TotalFacts, AmountFields DEF HeldBy, ParentSound
<1>3. /\ mt.units \in Nat /\ mt.capacity \in Nat /\ mt.badDebt \in Nat
      /\ ch.received \in Nat /\ ch.migrated \in Nat
  BY ChildNumbers
<1>4. with.units \in Nat /\ with.capacity \in Nat /\ with.badDebt \in Nat
  BY AmountFields
<1> DEFINE x == parent.vaults
           y == [x EXCEPT ![v] = Nothing]
<1>5. /\ Total(y).units = HeldBy(parent).units - old.units
      /\ Total(y).capacity = HeldBy(parent).capacity - old.capacity
      /\ Total(y).badDebt = HeldBy(parent).badDebt - old.badDebt
      /\ Total(y).badDebt \in Nat
  <2>1. /\ Nothing \in Amounts /\ Nothing.units = 0 /\ Nothing.capacity = 0
        /\ Nothing.badDebt = 0
    BY DEF Nothing, Amounts
  <2>2. /\ HeldBy(parent) = Total(x) /\ x[v] = old /\ x \in Positions
        /\ Replaced(x, y, v, Nothing)
    BY <1>1 DEF HeldBy, Replaced
  <2> HIDE DEF x, y
  <2>3. /\ y \in Positions
        /\ Total(y).units = Total(x).units + (Nothing.units - x[v].units)
        /\ Total(y).capacity = Total(x).capacity + (Nothing.capacity - x[v].capacity)
        /\ Total(y).badDebt = Total(x).badDebt + (Nothing.badDebt - x[v].badDebt)
    BY <2>1, <2>2, TotalReplaced
  <2>4. Total(y).badDebt \in Nat
    BY <2>3, TotalFacts
  <2>5. x[v].units = old.units /\ x[v].capacity = old.capacity /\ x[v].badDebt = old.badDebt
    BY <2>2
  <2>6. old.units \in Nat /\ old.capacity \in Nat /\ old.badDebt \in Nat
    BY <1>1
  <2>7. /\ Total(x).units = HeldBy(parent).units /\ Total(x).capacity = HeldBy(parent).capacity
        /\ Total(x).badDebt = HeldBy(parent).badDebt
    BY <2>2
  <2> HIDE DEF old
  <2> QED
    BY <1>2, <2>1, <2>3, <2>4, <2>5, <2>6, <2>7
<1>6. old.badDebt <= parent.totalBadDebt
  <2>1. HeldBy(parent).badDebt + Total(parent.unclaimed).badDebt + parent.abandoned.badDebt
          = parent.totalBadDebt
    BY DEF Ledger
  <2> HIDE DEF old, y
  <2> QED
    BY <1>1, <1>2, <1>5, <2>1
<1>7. /\ ParentSound(parent') /\ SameTerms(parent, parent') /\ parent'.vaults = y
      /\ parent'.unclaimed = parent.unclaimed
      /\ parent'.totalBadDebt = parent.totalBadDebt - old.badDebt
      /\ parent'.collateral = parent.collateral - eth
  BY <1>1, <1>6, GivenFields
<1>8. /\ UnitsMigrated' = UnitsMigrated + (with.units - mt.units)
      /\ CapacityMigrated' = CapacityMigrated + (with.capacity - mt.capacity)
      /\ BadDebtMigrated' = BadDebtMigrated + (with.badDebt - mt.badDebt)
      /\ Received' = Received + (n.received - ch.received)
      /\ Migrated' = Migrated + (n.migrated - ch.migrated)
  <2>1. n.received \in Nat /\ n.migrated \in Nat /\ n.migratedTotals \in Amounts
    BY <1>3
  <2> QED
    BY <2>1, SumsMove
<1>9. /\ UnitsMigrated \in Nat /\ CapacityMigrated \in Nat /\ BadDebtMigrated \in Nat
      /\ Received \in Nat /\ Migrated \in Nat
  BY SumsNat
<1>10. HeldBy(parent)' = Total(y) /\ Total(parent.unclaimed)' = Total(parent.unclaimed)
  BY <1>7 DEF HeldBy
<1>11. /\ HeldBy(parent).units + Total(parent.unclaimed).units + UnitsMigrated <= parent.totalUnits
       /\ HeldBy(parent).capacity + Total(parent.unclaimed).capacity + CapacityMigrated
            <= parent.totalCapacity
       /\ HeldBy(parent).badDebt + Total(parent.unclaimed).badDebt + parent.abandoned.badDebt
            = parent.totalBadDebt
       /\ parent.totalBadDebt + BadDebtMigrated = parent.badDebtAtFork
       /\ parent.collateral + Received = parent.snapshot
  BY DEF Ledger
<1>12. /\ parent'.totalUnits = parent.totalUnits /\ parent'.totalCapacity = parent.totalCapacity
       /\ parent'.abandoned = parent.abandoned /\ parent'.badDebtAtFork = parent.badDebtAtFork
       /\ parent'.snapshot = parent.snapshot /\ parent'.poolRep = parent.poolRep
       /\ parent.totalUnits \in Nat /\ parent.totalCapacity \in Nat
  BY <1>7 DEF SameTerms, ParentSound
<1>13. Received' = Received + eth /\ Migrated' = Migrated + rep
  <2> HIDE DEF ch
  <2>1. n.received = ch.received + eth /\ n.migrated = ch.migrated + rep
    BY DEF ch
  <2> QED
    BY <1>3, <1>8, <1>9, <2>1
<1>14. /\ with.units <= mt.units + old.units /\ with.capacity = mt.capacity + old.capacity
       /\ with.badDebt = mt.badDebt + old.badDebt
  OBVIOUS
<1> HIDE DEF old, ch, mt, x, y
<1>15. HeldBy(parent)'.units + Total(parent.unclaimed)'.units + UnitsMigrated' <= parent'.totalUnits
  <2>1. /\ HeldBy(parent)'.units = HeldBy(parent).units - old.units
        /\ Total(parent.unclaimed)'.units = Total(parent.unclaimed).units
    BY <1>5, <1>10
  <2>2. UnitsMigrated' <= UnitsMigrated + old.units /\ UnitsMigrated' \in Int
    BY <1>1, <1>3, <1>4, <1>8, <1>9, <1>14
  <2>3. /\ HeldBy(parent).units \in Nat /\ Total(parent.unclaimed).units \in Nat
        /\ UnitsMigrated \in Nat /\ old.units \in Nat
    BY <1>1, <1>2, <1>9
  <2> QED
    BY <1>11, <1>12, <2>1, <2>2, <2>3
<1>16. HeldBy(parent)'.capacity + Total(parent.unclaimed)'.capacity + CapacityMigrated'
         <= parent'.totalCapacity
  <2>1. /\ HeldBy(parent)'.capacity = HeldBy(parent).capacity - old.capacity
        /\ Total(parent.unclaimed)'.capacity = Total(parent.unclaimed).capacity
    BY <1>5, <1>10
  <2>2. CapacityMigrated' = CapacityMigrated + old.capacity
    BY <1>1, <1>3, <1>4, <1>8, <1>9, <1>14
  <2>3. /\ HeldBy(parent).capacity \in Nat /\ Total(parent.unclaimed).capacity \in Nat
        /\ CapacityMigrated \in Nat /\ old.capacity \in Nat
    BY <1>1, <1>2, <1>9
  <2> QED
    BY <1>11, <1>12, <2>1, <2>2, <2>3
<1>17. /\ HeldBy(parent)'.badDebt + Total(parent.unclaimed)'.badDebt + parent'.abandoned.badDebt
            = parent'.totalBadDebt
       /\ parent'.totalBadDebt + BadDebtMigrated' = parent'.badDebtAtFork
  <2>1. /\ HeldBy(parent)'.badDebt = HeldBy(parent).badDebt - old.badDebt
        /\ Total(parent.unclaimed)'.badDebt = Total(parent.unclaimed).badDebt
    BY <1>5, <1>10
  <2>2. BadDebtMigrated' = BadDebtMigrated + old.badDebt
    BY <1>1, <1>3, <1>4, <1>8, <1>9, <1>14
  <2>3. /\ HeldBy(parent).badDebt \in Nat /\ Total(parent.unclaimed).badDebt \in Nat
        /\ BadDebtMigrated \in Nat /\ old.badDebt \in Nat
        /\ parent.abandoned.badDebt \in Nat /\ parent.totalBadDebt \in Nat
    BY <1>1, <1>2, <1>9
  <2>4. /\ parent'.totalBadDebt = parent.totalBadDebt - old.badDebt
        /\ parent'.abandoned.badDebt = parent.abandoned.badDebt
        /\ parent'.badDebtAtFork = parent.badDebtAtFork
    BY <1>7, <1>12
  <2> QED
    BY <1>11, <2>1, <2>2, <2>3, <2>4
<1>18. parent'.collateral + Received' = parent'.snapshot
  BY <1>2, <1>7, <1>9, <1>11, <1>12, <1>13
<1>19. /\ forkData'.transferred = Received'
       /\ forkData'.allocated = IF parent'.snapshot = 0 THEN 0 ELSE Migrated'
  BY <1>12, <1>13
<1>20. parent'.poolRep > 0 =>
         Received' = CeilDiv(parent'.snapshot * Migrated', parent'.poolRep)
  BY <1>12, <1>13
<1>21. Ledger'
  BY <1>15, <1>16, <1>18, <1>19, <1>20, <1>17 DEF Ledger
<1> QED
  BY <1>7, <1>21

\* No migration in the window is refused.
LEMMA MigrationFits ==
    ASSUME ParentSound(parent), DOMAIN children = Child,
           \A x \in Child : Sound(parent, children[x]), Ledger,
           NEW c \in Child, children[c].state \in {"none", "ForkMigration"}, NEW v \in Vault,
           NEW child, child = _getOrDeployChildPool(c),
           NEW rep, rep = MigratedRep(child, v),
           NEW backed, backed = _ensureChildPoolRepSplit(child, child.migrated + rep)
    PROVE  /\ MigrationAccepted(child, rep)
           /\ Sound(parent, backed) /\ backed.state = "ForkMigration"
           /\ SameMoved(children[c], child) /\ SameMoved(child, backed)
           /\ rep \in Nat /\ child.migrated \in Nat /\ backed.migrated + rep <= backed.split
           /\ Migrated + rep <= parent.poolRep
           /\ (backed.migrated + rep) * parent.totalUnits
                <= MigratedWith(child, v).units * parent.poolRep
           /\ parent.totalUnits = 0 => rep = 0
           /\ parent.poolRep = 0 => rep = 0
<1>1. /\ Sound(parent, child) /\ child.state = "ForkMigration"
      /\ SameMoved(children[c], child)
  BY DeploySound
<1>2. /\ rep \in Nat /\ child.migrated + rep <= parent.poolRep
      /\ Migrated + rep <= parent.poolRep
      /\ (child.migrated + rep) * parent.totalUnits
           <= MigratedWith(child, v).units * parent.poolRep
      /\ (parent.totalUnits = 0 => rep = 0) /\ (parent.poolRep = 0 => rep = 0)
  BY <1>1, MigratedRepFacts
<1>3. child.migrated \in Nat
  BY <1>1 DEF Sound, Typed
<1> DEFINE required == child.migrated + rep
<1>4. required \in Nat /\ required <= parent.poolRep
      /\ backed = _ensureChildPoolRepSplit(child, required)
  BY <1>2, <1>3
<1>5. required = child.migrated + rep
  OBVIOUS
<1> HIDE DEF required
<1>6. /\ Sound(parent, backed) /\ backed.state = child.state /\ SameMoved(child, backed)
      /\ backed.split >= required /\ SplitAllowed(backed) /\ backed.rep = backed.split
  BY <1>1, <1>4, SplitSound
<1>7. backed.split \in Nat /\ backed.migrated = child.migrated
  BY <1>6 DEF Sound, Typed, SameMoved
<1>8. required <= backed.split /\ backed.rep >= required
  BY <1>4, <1>6, <1>7
<1>9. parent.snapshot > 0 => forkData.allocated + rep <= parent.poolRep
  <2>1. parent.snapshot > 0 => forkData.allocated = Migrated
    BY DEF Ledger
  <2> QED
    BY <1>2, <2>1
<1>10. MigrationAccepted(child, rep)
  BY <1>5, <1>6, <1>8, <1>9 DEF MigrationAccepted
<1>11. /\ backed.migrated + rep <= backed.split
       /\ (backed.migrated + rep) * parent.totalUnits
            <= MigratedWith(child, v).units * parent.poolRep
  BY <1>2, <1>5, <1>7, <1>8
<1> QED
  BY <1>1, <1>2, <1>3, <1>6, <1>10, <1>11

LEMMA MigratedWithFacts ==
    ASSUME ParentSound(parent), NEW v \in Vault, NEW child, child.migratedTotals \in Amounts,
           NEW with, with = MigratedWith(child, v)
    PROVE  /\ with \in Amounts
           /\ with.units <= child.migratedTotals.units + parent.vaults[v].units
           /\ with.capacity = child.migratedTotals.capacity + parent.vaults[v].capacity
           /\ with.badDebt = child.migratedTotals.badDebt + parent.vaults[v].badDebt
<1> DEFINE old == parent.vaults[v]
           mt == child.migratedTotals
           units == IF parent.poolRep = 0 THEN 0 ELSE old.units
           joining == [old EXCEPT !.units = units]
<1>1. old \in Amounts /\ mt \in Amounts
  BY PositionFields DEF ParentSound
<1>2. with = Plus(mt, joining)
  BY DEF MigratedWith
<1>3. /\ old.units \in Nat /\ old.capacity \in Nat /\ old.badDebt \in Nat
      /\ mt.units \in Nat /\ mt.capacity \in Nat /\ mt.badDebt \in Nat
  BY <1>1, AmountFields
<1>4. units \in Nat /\ units <= old.units
  BY <1>3
<1> HIDE DEF old, mt, units
<1>5. joining.units = units /\ joining.capacity = old.capacity /\ joining.badDebt = old.badDebt
  BY <1>1 DEF Amounts
<1> HIDE DEF joining
<1>6. with = [units |-> mt.units + units, capacity |-> mt.capacity + old.capacity,
              badDebt |-> mt.badDebt + old.badDebt]
  BY <1>2, <1>5 DEF Plus
<1>7. with \in Amounts
  BY <1>3, <1>4, <1>6 DEF Amounts
<1>8. with.units = mt.units + units /\ with.capacity = mt.capacity + old.capacity
      /\ with.badDebt = mt.badDebt + old.badDebt
  BY <1>6
<1>9. with.units <= mt.units + old.units
  BY <1>3, <1>4, <1>8
<1> QED
  BY <1>7, <1>8, <1>9 DEF old, mt

LEMMA MigrateVaultSound ==
    ASSUME ParentSound(parent), DOMAIN children = Child,
           \A x \in Child : Sound(parent, children[x]), Ledger,
           NEW c \in Child, children[c].state \in {"none", "ForkMigration"}, NEW v \in Vault,
           migrateVault(v, c)
    PROVE  /\ ParentSound(parent') /\ SameTerms(parent, parent') /\ Ledger'
           /\ \E n : /\ children' = [children EXCEPT ![c] = n]
                     /\ Sound(parent, n) /\ n.state = "ForkMigration"
<1> DEFINE child == _getOrDeployChildPool(c)
           rep == MigratedRep(child, v)
           backed == _ensureChildPoolRepSplit(child, child.migrated + rep)
           old == parent.vaults[v]
           credit == [old EXCEPT !.units = rep]
           with == MigratedWith(child, v)
           moved == _transferForkMigratedCollateralToChild(rep)
           eth == moved.eth
           n == Joined(backed, v, credit, with, eth)
<1>1. child = _getOrDeployChildPool(c) /\ rep = MigratedRep(child, v)
      /\ backed = _ensureChildPoolRepSplit(child, child.migrated + rep)
      /\ with = MigratedWith(child, v) /\ moved = _transferForkMigratedCollateralToChild(rep)
  OBVIOUS
<1>2. /\ children' = [children EXCEPT ![c] =
                [backed EXCEPT !.vaults[v] = Plus(@, credit),
                               !.totals.badDebt = @ + credit.badDebt,
                               !.migrated = @ + rep,
                               !.migratedTotals = with,
                               !.received = @ + eth,
                               !.moved[v] = @ + rep]]
      /\ parent' = [parent EXCEPT !.vaults[v] = Nothing,
                                  !.totalBadDebt = @ - credit.badDebt,
                                  !.collateral = @ - eth]
      /\ forkData' = moved.data
  BY DEF migrateVault
<1> HIDE DEF child, rep, backed, with, moved, eth
<1>3. /\ Sound(parent, backed) /\ backed.state = "ForkMigration"
      /\ SameMoved(children[c], child) /\ SameMoved(child, backed)
      /\ rep \in Nat /\ child.migrated \in Nat /\ backed.migrated + rep <= backed.split
      /\ Migrated + rep <= parent.poolRep
      /\ (backed.migrated + rep) * parent.totalUnits <= with.units * parent.poolRep
      /\ (parent.totalUnits = 0 => rep = 0)
  <2>1. /\ Sound(parent, backed) /\ backed.state = "ForkMigration"
        /\ SameMoved(children[c], child) /\ SameMoved(child, backed)
        /\ rep \in Nat /\ child.migrated \in Nat /\ backed.migrated + rep <= backed.split
        /\ Migrated + rep <= parent.poolRep
        /\ (backed.migrated + rep) * parent.totalUnits
              <= MigratedWith(child, v).units * parent.poolRep
        /\ (parent.totalUnits = 0 => rep = 0)
    BY <1>1, MigrationFits
  <2> QED
    BY <1>1, <2>1
<1>4. old \in Amounts /\ old.units \in Nat /\ old.capacity \in Nat /\ old.badDebt \in Nat
  BY PositionFields DEF ParentSound
<1>5. old = parent.vaults[v]
  OBVIOUS
<1> HIDE DEF old
<1>6. credit \in Amounts /\ credit.units = rep /\ credit.capacity = old.capacity
      /\ credit.badDebt = old.badDebt
  BY <1>3, <1>4 DEF Amounts
<1> HIDE DEF credit
<1>7. /\ eth \in Nat /\ eth <= parent.collateral
      /\ DOMAIN forkData' = {"allocated", "transferred"}
      /\ forkData'.transferred = Received + eth
      /\ forkData'.allocated = IF parent.snapshot = 0 THEN 0 ELSE Migrated + rep
      /\ parent.poolRep > 0 =>
           Received + eth = CeilDiv(parent.snapshot * (Migrated + rep), parent.poolRep)
  <2>1. /\ moved.eth \in Nat /\ moved.eth <= parent.collateral
        /\ DOMAIN moved.data = {"allocated", "transferred"}
        /\ moved.data.transferred = Received + moved.eth
        /\ moved.data.allocated = IF parent.snapshot = 0 THEN 0 ELSE Migrated + rep
        /\ parent.poolRep > 0 =>
             Received + moved.eth = CeilDiv(parent.snapshot * (Migrated + rep), parent.poolRep)
    BY <1>1, <1>3, TransferFacts
  <2>2. eth = moved.eth
    BY DEF eth
  <2> QED
    BY <1>2, <2>1, <2>2
<1>8. /\ children[c].migratedTotals \in Amounts /\ child.migratedTotals \in Amounts
      /\ child.migratedTotals = children[c].migratedTotals
      /\ backed.migratedTotals = children[c].migratedTotals
      /\ backed.migrated = children[c].migrated /\ backed.received = children[c].received
  BY <1>3, ChildNumbers DEF SameMoved
<1>9. /\ with \in Amounts
      /\ with.units <= children[c].migratedTotals.units + parent.vaults[v].units
      /\ with.capacity = children[c].migratedTotals.capacity + parent.vaults[v].capacity
      /\ with.badDebt = children[c].migratedTotals.badDebt + parent.vaults[v].badDebt
  BY <1>1, <1>8, MigratedWithFacts
<1>10. children' = [children EXCEPT ![c] = n]
  <2>1. n = [backed EXCEPT !.vaults[v] = Plus(@, credit),
                           !.totals.badDebt = @ + credit.badDebt,
                           !.migrated = @ + rep,
                           !.migratedTotals = with,
                           !.received = @ + eth,
                           !.moved[v] = @ + rep]
    BY <1>6 DEF Joined
  <2> HIDE DEF n
  <2> QED
    BY <1>2, <2>1
<1>11. parent' = Given(parent, v, old.badDebt, eth)
  BY <1>2, <1>6 DEF Given
<1>12. /\ Sound(parent, n) /\ n.state = "ForkMigration"
       /\ n.migrated = backed.migrated + rep /\ n.migratedTotals = with
       /\ n.received = backed.received + eth
  <2>1. parent.poolRep \in Nat /\ parent.totalUnits \in Nat
    BY DEF ParentSound
  <2>2. /\ with.capacity = backed.migratedTotals.capacity + credit.capacity
        /\ with.badDebt = backed.migratedTotals.badDebt + credit.badDebt
        /\ backed.migrated + credit.units <= backed.split
        /\ (backed.migrated + credit.units) * parent.totalUnits <= with.units * parent.poolRep
        /\ parent.totalUnits = 0 => credit.units = 0
    BY <1>3, <1>5, <1>6, <1>8, <1>9
  <2>3. n = Joined(backed, v, credit, with, eth)
    OBVIOUS
  <2> HIDE DEF n
  <2>4. /\ Sound(parent, n) /\ n.state = "ForkMigration"
        /\ n.migrated = backed.migrated + credit.units /\ n.migratedTotals = with
        /\ n.received = backed.received + eth
    BY <1>3, <1>6, <1>7, <1>9, <2>1, <2>2, <2>3, JoinSound
  <2> QED
    BY <1>6, <2>4
<1> HIDE DEF n
<1>13. n.migrated = children[c].migrated + rep /\ n.received = children[c].received + eth
  BY <1>8, <1>12
<1>14. ParentSound(parent') /\ SameTerms(parent, parent') /\ Ledger'
  <2>1. parent' = Given(parent, v, parent.vaults[v].badDebt, eth)
    BY <1>5, <1>11
  <2> QED
    BY <1>3, <1>7, <1>9, <1>10, <1>12, <1>13, <2>1, MigrationKeepsLedger
<1> QED
  BY <1>10, <1>12, <1>14

\* ClaimInParent: a late winner of the parent moves from one total to the other.
LEMMA ClaimInParentKeeps ==
    ASSUME ParentSound(parent), Ledger, NEW v \in Vault, ClaimInParent(v)
    PROVE  ParentSound(parent') /\ SameTerms(parent, parent') /\ Ledger'
<1> DEFINE old == parent.vaults[v]
           late == parent.unclaimed[v]
           all == Plus(old, late)
           x == [parent.vaults EXCEPT ![v] = all]
           y == [parent.unclaimed EXCEPT ![v] = Nothing]
<1>1. /\ parent.vaults \in Positions /\ parent.unclaimed \in Positions
      /\ DOMAIN parent = ParentFields
  BY DEF ParentSound
<1>2. /\ old \in Amounts /\ late \in Amounts
      /\ old.units \in Nat /\ old.capacity \in Nat /\ old.badDebt \in Nat
      /\ late.units \in Nat /\ late.capacity \in Nat /\ late.badDebt \in Nat
  BY <1>1, PositionFields
<1>3. parent' = [parent EXCEPT !.vaults = x, !.unclaimed = y]
  BY <1>1 DEF ClaimInParent, ParentFields
<1>4. /\ x = [parent.vaults EXCEPT ![v] = all] /\ y = [parent.unclaimed EXCEPT ![v] = Nothing]
      /\ old = parent.vaults[v] /\ late = parent.unclaimed[v]
  OBVIOUS
<1> HIDE DEF old, late
<1>5. /\ all \in Amounts /\ all.units = old.units + late.units
      /\ all.capacity = old.capacity + late.capacity /\ all.badDebt = old.badDebt + late.badDebt
  BY <1>2 DEF Plus, Amounts
<1> HIDE DEF all, x, y
<1>6. /\ Nothing \in Amounts /\ Nothing.units = 0 /\ Nothing.capacity = 0 /\ Nothing.badDebt = 0
  BY DEF Nothing, Amounts
<1>7. /\ x \in Positions
      /\ Total(x).units = HeldBy(parent).units + late.units
      /\ Total(x).capacity = HeldBy(parent).capacity + late.capacity
      /\ Total(x).badDebt = HeldBy(parent).badDebt + late.badDebt
  <2> DEFINE was == parent.vaults
  <2>1. was \in Positions /\ x = [was EXCEPT ![v] = all] /\ old = was[v]
        /\ HeldBy(parent) = Total(was)
    BY <1>1, <1>4 DEF HeldBy
  <2> HIDE DEF was
  <2>2. /\ x \in Positions
        /\ Total(x).units = Total(was).units + (all.units - was[v].units)
        /\ Total(x).capacity = Total(was).capacity + (all.capacity - was[v].capacity)
        /\ Total(x).badDebt = Total(was).badDebt + (all.badDebt - was[v].badDebt)
    BY <1>5, <2>1, TotalChange
  <2>3. Total(was).units \in Nat /\ Total(was).capacity \in Nat /\ Total(was).badDebt \in Nat
    BY <2>1, TotalFacts
  <2> QED
    BY <1>2, <1>5, <2>1, <2>2, <2>3
<1>8. /\ y \in Positions
      /\ Total(y).units = Total(parent.unclaimed).units - late.units
      /\ Total(y).capacity = Total(parent.unclaimed).capacity - late.capacity
      /\ Total(y).badDebt = Total(parent.unclaimed).badDebt - late.badDebt
  <2> DEFINE was == parent.unclaimed
  <2>1. was \in Positions /\ y = [was EXCEPT ![v] = Nothing] /\ late = was[v]
    BY <1>1, <1>4
  <2>2. was = parent.unclaimed
    OBVIOUS
  <2> HIDE DEF was
  <2>3. /\ y \in Positions
        /\ Total(y).units = Total(was).units + (Nothing.units - was[v].units)
        /\ Total(y).capacity = Total(was).capacity + (Nothing.capacity - was[v].capacity)
        /\ Total(y).badDebt = Total(was).badDebt + (Nothing.badDebt - was[v].badDebt)
    BY <1>6, <2>1, TotalChange
  <2>4. Total(was).units \in Nat /\ Total(was).capacity \in Nat /\ Total(was).badDebt \in Nat
    BY <2>1, TotalFacts
  <2> QED
    BY <1>2, <1>6, <2>1, <2>2, <2>3, <2>4
<1>9. /\ DOMAIN parent' = ParentFields /\ parent'.vaults = x /\ parent'.unclaimed = y
      /\ \A f \in ParentFields \ {"vaults", "unclaimed"} : parent'[f] = parent[f]
  BY <1>1, <1>3 DEF ParentFields
<1>10. /\ parent'.ownFork = parent.ownFork /\ parent'.hasGame = parent.hasGame
       /\ parent'.sameQuestion = parent.sameQuestion
       /\ parent'.poolRep = parent.poolRep /\ parent'.gameRep = parent.gameRep
       /\ parent'.shareSupply = parent.shareSupply
       /\ parent'.price = parent.price /\ parent'.totalUnits = parent.totalUnits
       /\ parent'.totalCapacity = parent.totalCapacity
       /\ parent'.abandoned = parent.abandoned /\ parent'.snapshot = parent.snapshot
       /\ parent'.badDebtAtFork = parent.badDebtAtFork
       /\ parent'.shares = parent.shares /\ parent'.traders = parent.traders
       /\ parent'.traded = parent.traded /\ parent'.prices = parent.prices
       /\ parent'.decided = parent.decided /\ parent'.late = parent.late
       /\ parent'.collateral = parent.collateral /\ parent'.totalBadDebt = parent.totalBadDebt
  BY <1>9 DEF ParentFields
<1>11. SameTerms(parent, parent')
  BY <1>10 DEF SameTerms
<1>12. ParentSound(parent')
  BY <1>7, <1>8, <1>9, <1>10 DEF ParentSound
<1>13. /\ UnitsMigrated' = UnitsMigrated /\ CapacityMigrated' = CapacityMigrated
       /\ BadDebtMigrated' = BadDebtMigrated /\ Received' = Received /\ Migrated' = Migrated
       /\ forkData' = forkData
  BY DEF ClaimInParent, UnitsMigrated, CapacityMigrated, BadDebtMigrated, Received, Migrated
<1>14. /\ HeldBy(parent).units \in Nat /\ HeldBy(parent).capacity \in Nat
       /\ HeldBy(parent).badDebt \in Nat
       /\ Total(parent.unclaimed).units \in Nat /\ Total(parent.unclaimed).capacity \in Nat
       /\ Total(parent.unclaimed).badDebt \in Nat
  BY <1>1, TotalFacts DEF HeldBy
<1>15. HeldBy(parent)' = Total(x) /\ Total(parent.unclaimed)' = Total(y)
  BY <1>9 DEF HeldBy
<1>16. /\ HeldBy(parent)'.units + Total(parent.unclaimed)'.units
            = HeldBy(parent).units + Total(parent.unclaimed).units
       /\ HeldBy(parent)'.capacity + Total(parent.unclaimed)'.capacity
            = HeldBy(parent).capacity + Total(parent.unclaimed).capacity
       /\ HeldBy(parent)'.badDebt + Total(parent.unclaimed)'.badDebt
            = HeldBy(parent).badDebt + Total(parent.unclaimed).badDebt
  BY <1>2, <1>7, <1>8, <1>14, <1>15
<1>17. Ledger'
  BY <1>10, <1>13, <1>16 DEF Ledger
<1> QED
  BY <1>11, <1>12, <1>17

-----------------------------------------------------------------------------
(* The shares.                                                             *)

TokenFields == {"source", "late", "child", "migrated", "locked", "call"}

\* What a vault can claim of an outcome in a child.
ClaimsOf(t, c, o) ==
    [v \in Vault |-> t.child[c][o][v] + (t.source[o][v] + t.late[o][v] - t.migrated[c][o][v])]

LEMMA ClaimsAreSums ==
    ASSUME NEW c, NEW o
    PROVE  /\ Claims(c, o) = SumFunctionOnSet(ClaimsOf(token, c, o), Vault)
           /\ Claims(c, o)' = SumFunctionOnSet(ClaimsOf(token', c, o), Vault)
BY DEF Claims, ClaimsOf

LEMMA TokenFacts ==
    ASSUME NEW t, TokenSound(t), NEW c \in Child, NEW o \in Child, NEW v \in Vault
    PROVE  /\ t.source[o][v] \in Nat /\ t.late[o][v] \in Nat /\ t.child[c][o][v] \in Nat /\ t.migrated[c][o][v] \in Nat
           /\ t.locked[o][v] \in BOOLEAN /\ t.migrated[c][o][v] <= t.source[o][v]
           /\ t.locked[o][v] = FALSE => t.migrated[c][o][v] = 0
           /\ ClaimsOf(t, c, o)[v] = t.child[c][o][v] + (t.source[o][v] + t.late[o][v] - t.migrated[c][o][v])
           /\ ClaimsOf(t, c, o)[v] \in Nat
<1>1. /\ t.source[o][v] \in Nat /\ t.late[o][v] \in Nat /\ t.child[c][o][v] \in Nat /\ t.migrated[c][o][v] \in Nat
      /\ t.locked[o][v] \in BOOLEAN /\ t.migrated[c][o][v] <= t.source[o][v]
      /\ t.locked[o][v] = FALSE => t.migrated[c][o][v] = 0
  BY DEF TokenSound, Shares
<1>2. ClaimsOf(t, c, o)[v] = t.child[c][o][v] + (t.source[o][v] + t.late[o][v] - t.migrated[c][o][v])
  BY DEF ClaimsOf
<1>3. ClaimsOf(t, c, o)[v] \in Nat
  BY <1>1, <1>2
<1> QED
  BY <1>1, <1>2, <1>3

\* One balance of one outcome in one child.
Edited(s, c, o, v, x) == [s EXCEPT ![c][o][v] = x]

LEMMA EditOne ==
    ASSUME NEW s \in [Child -> Shares], NEW c \in Child, NEW o \in Child, NEW v \in Vault,
           NEW x \in Nat, NEW r, r = Edited(s, c, o, v, x)
    PROVE  /\ r \in [Child -> Shares] /\ r[c][o][v] = x
           /\ \A d, q \in Child, w \in Vault :
                ~ (d = c /\ q = o /\ w = v) => r[d][q][w] = s[d][q][w]
<1> DEFINE a == [s[c][o] EXCEPT ![v] = x]
           b == [s[c] EXCEPT ![o] = a]
<1>1. s[c] \in Shares /\ s[c][o] \in [Vault -> Nat]
  BY DEF Shares
<1>2. a \in [Vault -> Nat] /\ a[v] = x /\ \A w \in Vault \ {v} : a[w] = s[c][o][w]
  BY <1>1
<1> HIDE DEF a
<1>3. b \in Shares /\ b[o] = a /\ \A q \in Child \ {o} : b[q] = s[c][q]
  BY <1>1, <1>2 DEF Shares
<1>4. r = [s EXCEPT ![c] = b]
  BY DEF a, b, Edited
<1> HIDE DEF b
<1>5. r \in [Child -> Shares] /\ r[c] = b /\ \A d \in Child \ {c} : r[d] = s[d]
  BY <1>3, <1>4
<1>6. \A d, q \in Child, w \in Vault :
         ~ (d = c /\ q = o /\ w = v) => r[d][q][w] = s[d][q][w]
  BY <1>2, <1>3, <1>5
<1> QED
  BY <1>2, <1>3, <1>5, <1>6

\* One balance of the source, or of what is to come to it.
Put(s, o, v, x) == [s EXCEPT ![o][v] = x]

LEMMA PutFacts ==
    ASSUME NEW s \in Shares, NEW o \in Child, NEW v \in Vault, NEW x \in Nat
    PROVE  /\ Put(s, o, v, x) \in Shares /\ Put(s, o, v, x)[o][v] = x
           /\ \A q \in Child, w \in Vault :
                ~ (q = o /\ w = v) => Put(s, o, v, x)[q][w] = s[q][w]
<1> DEFINE r == Put(s, o, v, x)
           a == [s[o] EXCEPT ![v] = x]
<1>1. s[o] \in [Vault -> Nat]
  BY DEF Shares
<1>2. a \in [Vault -> Nat] /\ a[v] = x /\ \A w \in Vault \ {v} : a[w] = s[o][w]
  BY <1>1
<1>3. r = [s EXCEPT ![o] = a]
  BY DEF Put
<1> HIDE DEF a, r
<1>4. r \in Shares /\ r[o] = a /\ \A q \in Child \ {o} : r[q] = s[q]
  BY <1>2, <1>3 DEF Shares
<1>5. /\ r \in Shares /\ r[o][v] = x
      /\ \A q \in Child, w \in Vault : ~ (q = o /\ w = v) => r[q][w] = s[q][w]
  BY <1>2, <1>4
<1> QED
  BY <1>5 DEF r

CallFits(t, call) ==
    /\ DOMAIN call = {"holder", "outcome", "balance", "left"}
    /\ call.holder \in Vault /\ call.outcome \in Child /\ call.left \subseteq Child
    /\ call.balance \in Nat /\ call.balance <= t.source[call.outcome][call.holder]

\* What one child of a call changes.
Minted(t, call, c, n) ==
    LET o == call.outcome
        v == call.holder
    IN  /\ DOMAIN n = TokenFields /\ n.source = t.source /\ n.late = t.late
        /\ n.child = [t.child EXCEPT ![c][o][v] =
                         t.child[c][o][v] + (call.balance - t.migrated[c][o][v])]
        /\ n.migrated = [t.migrated EXCEPT ![c][o][v] = call.balance]
        /\ n.locked = [t.locked EXCEPT ![o][v] = TRUE]
        /\ \A k \in n.call : k = [call EXCEPT !.left = call.left \ {c}] \/ k \in t.call

LEMMA MaterializeFields ==
    ASSUME NEW t, TokenSound(t), NEW call, CallFits(t, call), NEW c \in Child,
           NEW m, m = Materialize(t, call, c)
    PROVE  /\ Minted(t, call, c, m)
           /\ \A n : n = [m EXCEPT !.call = @ \cup t.call] => Minted(t, call, c, n)
<1> DEFINE o == call.outcome
           v == call.holder
           C == [t.child EXCEPT ![c][o][v] = t.child[c][o][v] + (call.balance - t.migrated[c][o][v])]
           M == [t.migrated EXCEPT ![c][o][v] = call.balance]
           L == [t.locked EXCEPT ![o][v] = TRUE]
           rest == [call EXCEPT !.left = call.left \ {c}]
           K == IF Due(t, rest) = {} THEN {} ELSE {rest}
<1>1. DOMAIN t = TokenFields /\ o \in Child /\ v \in Vault
  BY DEF TokenSound, TokenFields, CallFits
<1>2. t.child[c][o][v] + call.balance - t.migrated[c][o][v]
        = t.child[c][o][v] + (call.balance - t.migrated[c][o][v])
  OBVIOUS
<1>3. m = [t EXCEPT !.child = C, !.migrated = M, !.locked = L, !.call = K]
  BY <1>1 DEF Materialize, TokenFields
<1>4. \A k \in K : k = rest
  OBVIOUS
<1>5. /\ C = [t.child EXCEPT ![c][o][v] = t.child[c][o][v] + (call.balance - t.migrated[c][o][v])]
      /\ M = [t.migrated EXCEPT ![c][o][v] = call.balance]
      /\ L = [t.locked EXCEPT ![o][v] = TRUE]
  OBVIOUS
<1>6. rest = [call EXCEPT !.left = call.left \ {c}]
  OBVIOUS
<1> HIDE DEF C, M, L, K, rest
<1>7. /\ DOMAIN m = TokenFields /\ m.source = t.source /\ m.late = t.late /\ m.child = C /\ m.migrated = M
      /\ m.locked = L /\ m.call = K
  BY <1>1, <1>3 DEF TokenFields
<1>8. Minted(t, call, c, m)
  <2>1. \A k \in m.call : k = rest \/ k \in t.call
    BY <1>4, <1>7
  <2> QED
    BY <1>5, <1>6, <1>7, <2>1 DEF Minted
<1>9. ASSUME NEW n, n = [m EXCEPT !.call = @ \cup t.call] PROVE Minted(t, call, c, n)
  <2>1. /\ DOMAIN n = TokenFields /\ n.source = m.source /\ n.late = m.late /\ n.child = m.child
        /\ n.migrated = m.migrated /\ n.locked = m.locked /\ n.call = m.call \cup t.call
    BY <1>7, <1>9 DEF TokenFields
  <2>2. \A k \in n.call : k = rest \/ k \in t.call
    BY <1>4, <1>7, <2>1
  <2> QED
    BY <1>5, <1>6, <1>7, <2>1, <2>2 DEF Minted
<1> QED
  BY <1>8, <1>9

\* Two tokens in which everybody can claim the same.
SameClaims(t, n) ==
    \A d, o \in Child :
        SumFunctionOnSet(ClaimsOf(n, d, o), Vault) = SumFunctionOnSet(ClaimsOf(t, d, o), Vault)

\* ClaimsOf by term, without the sums.
LEMMA SameTermsSameClaims ==
    ASSUME NEW t, NEW n,
           \A d, o \in Child, w \in Vault :
              n.child[d][o][w] + (n.source[o][w] + n.late[o][w] - n.migrated[d][o][w])
                = t.child[d][o][w] + (t.source[o][w] + t.late[o][w] - t.migrated[d][o][w])
    PROVE  SameClaims(t, n)
<1>1. SUFFICES ASSUME NEW d \in Child, NEW o \in Child
               PROVE  SumFunctionOnSet(ClaimsOf(n, d, o), Vault) = SumFunctionOnSet(ClaimsOf(t, d, o), Vault)
  BY DEF SameClaims
<1>2. ClaimsOf(n, d, o) = ClaimsOf(t, d, o)
  BY DEF ClaimsOf
<1> QED
  BY <1>2

\* What was minted was entitled to, and nobody can claim more or less for it.
LEMMA MintedSound ==
    ASSUME NEW t, TokenSound(t), NEW call, CallFits(t, call), NEW c \in Due(t, call),
           NEW n, Minted(t, call, c, n)
    PROVE  TokenSound(n) /\ SameClaims(t, n)
<1> DEFINE o == call.outcome
           v == call.holder
           x == t.child[c][o][v] + (call.balance - t.migrated[c][o][v])
<1>1. /\ o \in Child /\ v \in Vault /\ c \in Child /\ call.balance \in Nat
      /\ call.balance <= t.source[o][v] /\ t.migrated[c][o][v] < call.balance
  BY DEF CallFits, Due
<1>2. /\ t.source[o][v] \in Nat /\ t.child[c][o][v] \in Nat /\ t.migrated[c][o][v] \in Nat
  BY <1>1, TokenFacts
<1>3. x \in Nat
  BY <1>1, <1>2
<1>4. /\ DOMAIN n = TokenFields /\ n.source = t.source /\ n.late = t.late
      /\ n.child = [t.child EXCEPT ![c][o][v] = x]
      /\ n.migrated = [t.migrated EXCEPT ![c][o][v] = call.balance]
      /\ n.locked = [t.locked EXCEPT ![o][v] = TRUE]
      /\ \A k \in n.call : k = [call EXCEPT !.left = call.left \ {c}] \/ k \in t.call
  BY DEF Minted
<1>5. /\ t.source \in Shares /\ t.late \in Shares /\ t.child \in [Child -> Shares] /\ t.migrated \in [Child -> Shares]
      /\ t.locked \in [Child -> [Vault -> BOOLEAN]]
  BY DEF TokenSound
<1>6. x = t.child[c][o][v] + (call.balance - t.migrated[c][o][v])
  OBVIOUS
<1> HIDE DEF x, o, v
<1>7. c \in Child /\ o \in Child /\ v \in Vault
  BY <1>1
<1>8. /\ n.child \in [Child -> Shares] /\ n.child[c][o][v] = x
      /\ \A d, q \in Child, w \in Vault :
           ~ (d = c /\ q = o /\ w = v) => n.child[d][q][w] = t.child[d][q][w]
  <2> DEFINE s == t.child
             r == n.child
  <2>1. s \in [Child -> Shares] /\ r = Edited(s, c, o, v, x)
    BY <1>4, <1>5 DEF Edited
  <2> HIDE DEF s, r
  <2>2. /\ r \in [Child -> Shares] /\ r[c][o][v] = x
        /\ \A d, q \in Child, w \in Vault :
             ~ (d = c /\ q = o /\ w = v) => r[d][q][w] = s[d][q][w]
    BY <1>3, <1>7, <2>1, EditOne
  <2> QED
    BY <2>2 DEF s, r
<1>9. /\ n.migrated \in [Child -> Shares] /\ n.migrated[c][o][v] = call.balance
      /\ \A d, q \in Child, w \in Vault :
           ~ (d = c /\ q = o /\ w = v) => n.migrated[d][q][w] = t.migrated[d][q][w]
  <2> DEFINE s == t.migrated
             r == n.migrated
             b == call.balance
  <2>1. s \in [Child -> Shares] /\ r = Edited(s, c, o, v, b) /\ b \in Nat
    BY <1>1, <1>4, <1>5 DEF Edited
  <2> HIDE DEF s, r, b
  <2>2. /\ r \in [Child -> Shares] /\ r[c][o][v] = b
        /\ \A d, q \in Child, w \in Vault :
             ~ (d = c /\ q = o /\ w = v) => r[d][q][w] = s[d][q][w]
    BY <1>7, <2>1, EditOne
  <2> QED
    BY <2>2 DEF s, r, b
<1>10. /\ n.locked \in [Child -> [Vault -> BOOLEAN]] /\ n.locked[o][v] = TRUE
      /\ \A q \in Child, w \in Vault : n.locked[q][w] = t.locked[q][w] \/ n.locked[q][w] = TRUE
  <2> DEFINE l == t.locked
             r == n.locked
  <2>1. l \in [Child -> [Vault -> BOOLEAN]] /\ r = [l EXCEPT ![o][v] = TRUE]
    BY <1>4, <1>5
  <2> HIDE DEF l, r
  <2>2. /\ r \in [Child -> [Vault -> BOOLEAN]] /\ r[o][v] = TRUE
        /\ \A q \in Child, w \in Vault : r[q][w] = l[q][w] \/ r[q][w] = TRUE
    BY <1>1, <2>1
  <2> QED
    BY <2>2 DEF l, r
<1>11. \A d, q \in Child, w \in Vault :
          /\ n.migrated[d][q][w] <= n.source[q][w]
          /\ n.locked[q][w] = FALSE => n.migrated[d][q][w] = 0
  <2>1. SUFFICES ASSUME NEW d \in Child, NEW q \in Child, NEW w \in Vault
                 PROVE  /\ n.migrated[d][q][w] <= n.source[q][w]
                        /\ n.locked[q][w] = FALSE => n.migrated[d][q][w] = 0
    OBVIOUS
  <2>2. /\ t.migrated[d][q][w] <= t.source[q][w]
        /\ t.locked[q][w] = FALSE => t.migrated[d][q][w] = 0
    BY DEF TokenSound
  <2>3. n.source[q][w] = t.source[q][w]
    BY <1>4
  <2>4. CASE d = c /\ q = o /\ w = v
    <3>1. n.migrated[d][q][w] = call.balance /\ n.locked[q][w] = TRUE
      BY <1>9, <1>10, <2>4
    <3> QED
      BY <1>1, <2>3, <2>4, <3>1
  <2>5. CASE ~ (d = c /\ q = o /\ w = v)
    <3>1. n.migrated[d][q][w] = t.migrated[d][q][w]
      BY <1>9, <2>5
    <3> QED
      BY <1>10, <2>2, <2>3, <3>1
  <2> QED
    BY <2>4, <2>5
<1>12. \A k \in n.call : CallSound(n, k)
  <2>1. SUFFICES ASSUME NEW k \in n.call PROVE CallSound(n, k)
    OBVIOUS
  <2>2. CASE k = [call EXCEPT !.left = call.left \ {c}]
    <3> DEFINE left == call.left \ {c}
    <3>1. DOMAIN call = {"holder", "outcome", "balance", "left"} /\ left \subseteq Child
          /\ k = [call EXCEPT !.left = left]
      BY <2>2 DEF CallFits
    <3> HIDE DEF left
    <3>2. /\ DOMAIN k = {"holder", "outcome", "balance", "left"}
          /\ k.holder = call.holder /\ k.outcome = call.outcome /\ k.balance = call.balance
          /\ k.left \subseteq Child
      BY <3>1
    <3>3. k.holder = v /\ k.outcome = o
      BY <3>2 DEF o, v
    <3> QED
      BY <1>1, <1>4, <1>10, <3>2, <3>3 DEF CallSound
  <2>3. CASE k \in t.call
    <3>1. CallSound(t, k)
      BY <2>3 DEF TokenSound
    <3> QED
      BY <1>4, <1>10, <3>1 DEF CallSound
  <2> QED
    BY <1>4, <2>2, <2>3
<1>13. TokenSound(n)
  BY <1>4, <1>5, <1>8, <1>9, <1>10, <1>11, <1>12 DEF TokenSound, TokenFields
<1>14. \A d, q \in Child, w \in Vault :
          n.child[d][q][w] + (n.source[q][w] + n.late[q][w] - n.migrated[d][q][w])
            = t.child[d][q][w] + (t.source[q][w] + t.late[q][w] - t.migrated[d][q][w])
  <2>1. SUFFICES ASSUME NEW d \in Child, NEW q \in Child, NEW w \in Vault
                 PROVE  n.child[d][q][w] + (n.source[q][w] + n.late[q][w] - n.migrated[d][q][w])
                          = t.child[d][q][w] + (t.source[q][w] + t.late[q][w] - t.migrated[d][q][w])
    OBVIOUS
  <2>2. n.source[q][w] = t.source[q][w] /\ n.late[q][w] = t.late[q][w] /\ t.late[q][w] \in Nat
    BY <1>4, TokenFacts
  <2>3. CASE d = c /\ q = o /\ w = v
    BY <1>1, <1>2, <1>6, <1>8, <1>9, <2>2, <2>3
  <2>4. CASE ~ (d = c /\ q = o /\ w = v)
    BY <1>8, <1>9, <2>2, <2>4
  <2> QED
    BY <2>3, <2>4
<1>15. SameClaims(t, n)
  BY <1>14, SameTermsSameClaims
<1> QED
  BY <1>13, <1>15

\* migrate of the token: its first child and, after each callback, the next.
LEMMA MigrateSharesKeeps ==
    ASSUME TokenSound(token), NEW v \in Vault, NEW o \in Child, NEW targets \in SUBSET Child,
           migrateShares(v, o, targets)
    PROVE  TokenSound(token') /\ SameClaims(token, token')
<1> DEFINE call == [holder |-> v, outcome |-> o, balance |-> token.source[o][v],
                    left |-> targets]
<1>1. token.source[o][v] \in Nat
  BY DEF TokenSound, Shares
<1>2. CallFits(token, call)
  BY <1>1 DEF CallFits
<1>3. \E c \in Due(token, call) :
         token' = [Materialize(token, call, c) EXCEPT !.call = @ \cup token.call]
  BY DEF migrateShares
<1> HIDE DEF call
<1>4. PICK c \in Due(token, call) :
         token' = [Materialize(token, call, c) EXCEPT !.call = @ \cup token.call]
  BY <1>3
<1>5. c \in Child
  BY <1>2 DEF Due, CallFits
<1> DEFINE m == Materialize(token, call, c)
<1>6. m = Materialize(token, call, c) /\ token' = [m EXCEPT !.call = @ \cup token.call]
  BY <1>4
<1> HIDE DEF m
<1>7. Minted(token, call, c, token')
  BY <1>2, <1>5, <1>6, MaterializeFields
<1> QED
  BY <1>2, <1>4, <1>7, MintedSound

LEMMA ResumeKeeps ==
    ASSUME TokenSound(token), resumeMigration
    PROVE  TokenSound(token') /\ SameClaims(token, token')
<1>1. PICK call \in token.call :
         \/ \E c \in Due(token, call) : token' = Materialize(token, call, c)
         \/ token' = [token EXCEPT !.call = {}]
  BY DEF resumeMigration
<1>2. CallFits(token, call)
  BY <1>1 DEF TokenSound, CallSound, CallFits
<1>3. ASSUME NEW c \in Due(token, call), token' = Materialize(token, call, c)
      PROVE  TokenSound(token') /\ SameClaims(token, token')
  <2>1. c \in Child
    BY <1>2 DEF Due, CallFits
  <2>2. Minted(token, call, c, token')
    BY <1>2, <1>3, <2>1, MaterializeFields
  <2> QED
    BY <1>2, <2>2, MintedSound
<1>4. ASSUME token' = [token EXCEPT !.call = {}]
      PROVE  TokenSound(token') /\ SameClaims(token, token')
  <2>1. DOMAIN token = TokenFields
    BY DEF TokenSound, TokenFields
  <2>2. /\ DOMAIN token' = TokenFields /\ token'.source = token.source
        /\ token'.late = token.late /\ token'.child = token.child /\ token'.migrated = token.migrated
        /\ token'.locked = token.locked /\ token'.call = {}
    BY <1>4, <2>1 DEF TokenFields
  <2>3. TokenSound(token')
    BY <2>2 DEF TokenSound, TokenFields
  <2>4. \A d, q \in Child, w \in Vault :
           token'.child[d][q][w] + (token'.source[q][w] + token'.late[q][w]
               - token'.migrated[d][q][w])
             = token.child[d][q][w] + (token.source[q][w] + token.late[q][w]
               - token.migrated[d][q][w])
    BY <2>2
  <2>5. SameClaims(token, token')
    BY <2>4, SameTermsSameClaims
  <2> QED
    BY <2>3, <2>5
<1> QED
  BY <1>1, <1>3, <1>4

\* What one vault loses another one gets.
Passed(f, g, v, w) ==
    /\ v # w /\ \A x \in Vault : f[x] \in Int /\ g[x] \in Int
    /\ g[v] + g[w] = f[v] + f[w] /\ \A x \in Vault : x # v /\ x # w => g[x] = f[x]

LEMMA PassedSum ==
    ASSUME NEW f, NEW g, NEW v \in Vault, NEW w \in Vault, Passed(f, g, v, w)
    PROVE  SumFunctionOnSet(g, Vault) = SumFunctionOnSet(f, Vault)
<1>1. /\ v # w /\ \A x \in Vault : f[x] \in Int /\ g[x] \in Int
      /\ g[v] + g[w] = f[v] + f[w] /\ \A x \in Vault : x # v /\ x # w => g[x] = f[x]
  BY DEF Passed
<1> DEFINE h == [x \in Vault |-> IF x = v THEN g[x] ELSE f[x]]
<1>2. /\ \A x \in Vault : h[x] \in Int /\ f[x] \in Int /\ g[x] \in Int
      /\ \A x \in Vault \ {v} : h[x] = f[x]
      /\ \A x \in Vault \ {w} : g[x] = h[x]
      /\ h[v] = g[v] /\ h[w] = f[w]
  BY <1>1
<1> HIDE DEF h
<1>3. IsFiniteSet(Vault)
  BY ForkFacts
<1>4. SumFunctionOnSet(h, Vault) = SumFunctionOnSet(f, Vault) + (h[v] - f[v])
  BY <1>2, <1>3, SumChange
<1>5. SumFunctionOnSet(g, Vault) = SumFunctionOnSet(h, Vault) + (g[w] - h[w])
  BY <1>2, <1>3, SumChange
<1>6. SumFunctionOnSet(f, Vault) \in Int
  BY <1>2, <1>3, SumInt
<1> QED
  BY <1>2, <1>4, <1>5, <1>6, <1>1

\* A transfer of source shares: only who has not migrated any may send them.
LEMMA TransferSourceKeeps ==
    ASSUME TokenSound(token), NEW o \in Child, NEW from \in Vault, NEW to \in Vault,
           NEW amount \in Nat, transferSource(o, from, to, amount)
    PROVE  TokenSound(token') /\ SameClaims(token, token')
<1> DEFINE held == token.source[o]
           next == [held EXCEPT ![from] = held[from] - amount, ![to] = held[to] + amount]
           S == [token.source EXCEPT ![o] = next]
<1>1. /\ from # to /\ token.locked[o][from] = FALSE /\ amount <= token.source[o][from]
      /\ DOMAIN token = TokenFields /\ token.source \in Shares
      /\ token.locked \in [Child -> [Vault -> BOOLEAN]]
  BY DEF TokenSound, transferSource, TokenFields
<1>2. held \in [Vault -> Nat]
  BY <1>1 DEF Shares
<1>3. token' = [token EXCEPT !.source = S]
  BY <1>1, <1>2 DEF transferSource, Shares, TokenFields
<1>4. /\ next \in [Vault -> Nat] /\ next[from] = held[from] - amount /\ next[to] = held[to] + amount
      /\ \A w \in Vault \ {from, to} : next[w] = held[w]
  BY <1>1, <1>2
<1>5. S \in Shares /\ S[o] = next /\ \A q \in Child \ {o} : S[q] = token.source[q]
  <2> HIDE DEF next
  <2> QED
    BY <1>1, <1>4 DEF Shares
<1>6. held = token.source[o]
  OBVIOUS
<1> HIDE DEF held, next, S
<1>7. /\ DOMAIN token' = TokenFields /\ token'.source = S
      /\ token'.late = token.late /\ token'.child = token.child /\ token'.migrated = token.migrated
      /\ token'.locked = token.locked /\ token'.call = token.call
  BY <1>1, <1>3 DEF TokenFields
<1>8. \A d \in Child : token.migrated[d][o][from] = 0
  BY <1>1 DEF TokenSound
<1>9. \A q \in Child, w \in Vault :
         (q # o \/ w # from) => S[q][w] >= token.source[q][w] /\ S[q][w] \in Nat
  <2>1. SUFFICES ASSUME NEW q \in Child, NEW w \in Vault, q # o \/ w # from
                 PROVE  S[q][w] >= token.source[q][w] /\ S[q][w] \in Nat
    OBVIOUS
  <2>2. token.source[q][w] \in Nat /\ S[q][w] \in Nat
    BY <1>1, <1>5 DEF Shares
  <2>3. CASE q # o
    BY <1>5, <2>2, <2>3
  <2>4. CASE q = o /\ w = to
    BY <1>2, <1>4, <1>5, <1>6, <2>2, <2>4
  <2>5. CASE q = o /\ w # to
    BY <1>2, <1>4, <1>5, <1>6, <2>1, <2>2, <2>5
  <2> QED
    BY <2>3, <2>4, <2>5
<1>10. TokenSound(token')
  <2>1. \A d, q \in Child, w \in Vault : token.migrated[d][q][w] <= S[q][w]
    <3>1. SUFFICES ASSUME NEW d \in Child, NEW q \in Child, NEW w \in Vault
                   PROVE  token.migrated[d][q][w] <= S[q][w]
      OBVIOUS
    <3>2. /\ token.migrated[d][q][w] <= token.source[q][w] /\ token.migrated[d][q][w] \in Nat
          /\ token.source[q][w] \in Nat /\ S[q][w] \in Nat
      BY <1>5 DEF TokenSound, Shares
    <3>3. CASE q = o /\ w = from
      BY <1>8, <3>2, <3>3
    <3>4. CASE q # o \/ w # from
      BY <1>9, <3>2, <3>4
    <3> QED
      BY <3>3, <3>4
  <2>2. \A k \in token.call : CallSound(token', k)
    <3>1. SUFFICES ASSUME NEW k \in token.call PROVE CallSound(token', k)
      OBVIOUS
    <3>2. CallSound(token, k)
      BY DEF TokenSound
    <3>3. k.outcome # o \/ k.holder # from
      BY <1>1, <3>2 DEF CallSound
    <3>4. S[k.outcome][k.holder] >= token.source[k.outcome][k.holder]
          /\ S[k.outcome][k.holder] \in Nat /\ token.source[k.outcome][k.holder] \in Nat
      BY <1>1, <1>9, <3>2, <3>3 DEF CallSound, Shares
    <3>5. k.balance <= S[k.outcome][k.holder]
      BY <3>2, <3>4 DEF CallSound
    <3> QED
      BY <1>7, <3>2, <3>5 DEF CallSound
  <2> QED
    BY <1>5, <1>7, <2>1, <2>2 DEF TokenSound, TokenFields
<1>11. SameClaims(token, token')
  <2>1. SUFFICES ASSUME NEW d \in Child, NEW q \in Child
                 PROVE  SumFunctionOnSet(ClaimsOf(token', d, q), Vault)
                          = SumFunctionOnSet(ClaimsOf(token, d, q), Vault)
    BY DEF SameClaims
  <2>2. CASE q # o
    <3>1. token'.source[q] = token.source[q]
      BY <1>5, <1>7, <2>2
    <3>2. ClaimsOf(token', d, q) = ClaimsOf(token, d, q)
      BY <1>7, <3>1 DEF ClaimsOf
    <3> QED
      BY <3>2
  <2>3. CASE q = o
    <3> DEFINE g == ClaimsOf(token, d, q)
               h == ClaimsOf(token', d, q)
    <3>1. \A w \in Vault :
             /\ g[w] = token.child[d][o][w] + (held[w] + token.late[o][w] - token.migrated[d][o][w])
             /\ h[w] = token.child[d][o][w] + (next[w] + token.late[o][w] - token.migrated[d][o][w])
             /\ token.child[d][o][w] \in Nat /\ token.late[o][w] \in Nat /\ token.migrated[d][o][w] \in Nat
             /\ held[w] \in Nat /\ next[w] \in Nat
      <4>1. SUFFICES ASSUME NEW w \in Vault
                     PROVE  /\ g[w] = token.child[d][o][w] + (held[w] + token.late[o][w] - token.migrated[d][o][w])
                            /\ h[w] = token.child[d][o][w] + (next[w] + token.late[o][w] - token.migrated[d][o][w])
                            /\ token.child[d][o][w] \in Nat /\ token.late[o][w] \in Nat /\ token.migrated[d][o][w] \in Nat
                            /\ held[w] \in Nat /\ next[w] \in Nat
        OBVIOUS
      <4>2. token'.source[o] = next
        BY <1>5, <1>7
      <4>3. g[w] = token.child[d][o][w] + (held[w] + token.late[o][w] - token.migrated[d][o][w])
        BY <1>6, <2>3 DEF ClaimsOf
      <4>4. h[w] = token.child[d][o][w] + (next[w] + token.late[o][w] - token.migrated[d][o][w])
        BY <1>7, <2>3, <4>2 DEF ClaimsOf
      <4>5. token.child[d][o][w] \in Nat /\ token.late[o][w] \in Nat /\ token.migrated[d][o][w] \in Nat
        BY TokenFacts
      <4> QED
        BY <1>2, <1>4, <4>3, <4>4, <4>5
    <3> HIDE DEF g, h
    <3>2. /\ \A w \in Vault : g[w] \in Int /\ h[w] \in Int
          /\ h[from] + h[to] = g[from] + g[to]
      <4>1. \A w \in Vault : g[w] \in Int /\ h[w] \in Int
        BY <3>1
      <4>2. h[from] = g[from] - amount
        BY <1>4, <3>1
      <4>3. h[to] = g[to] + amount
        BY <1>4, <3>1
      <4> QED
        BY <4>1, <4>2, <4>3
    <3>3. \A w \in Vault : w # from /\ w # to => h[w] = g[w]
      BY <1>4, <3>1
    <3>4. SumFunctionOnSet(h, Vault) = SumFunctionOnSet(g, Vault)
      <4>1. from # to
        BY <1>1
      <4>2. \A w \in Vault : g[w] \in Int /\ h[w] \in Int
        BY <3>2
      <4>3. h[from] + h[to] = g[from] + g[to]
        BY <3>2
      <4>4. Passed(g, h, from, to)
        BY <3>3, <4>1, <4>2, <4>3 DEF Passed
      <4> QED
        BY <4>4, PassedSum
    <3> QED
      BY <3>4 DEF g, h
  <2> QED
    BY <2>2, <2>3
<1> QED
  BY <1>10, <1>11

\* Late shares come to the source of whoever holds them: nobody's claims change.
LEMMA ArrivalKeeps ==
    ASSUME TokenSound(token), NEW v \in Vault, NEW o \in Child, NEW amount \in Nat,
           migrateIntoSource(v, o, amount)
    PROVE  TokenSound(token') /\ SameClaims(token, token')
<1> DEFINE came == Put(token.source, o, v, token.source[o][v] + amount)
           left == Put(token.late, o, v, token.late[o][v] - amount)
<1>1. /\ amount <= token.late[o][v] /\ DOMAIN token = TokenFields
      /\ token.source \in Shares /\ token.late \in Shares
  BY DEF TokenSound, migrateIntoSource, TokenFields
<1>2. token' = [token EXCEPT !.late = left, !.source = came]
  BY <1>1 DEF migrateIntoSource, TokenFields, Put
<1>3. /\ came \in Shares /\ came[o][v] = token.source[o][v] + amount
      /\ \A q \in Child, w \in Vault : ~ (q = o /\ w = v) => came[q][w] = token.source[q][w]
  <2> DEFINE s == token.source
             x == s[o][v] + amount
  <2>1. s \in Shares /\ x \in Nat
    BY <1>1 DEF Shares
  <2>2. s = token.source /\ came = Put(s, o, v, x) /\ x = s[o][v] + amount
    OBVIOUS
  <2> HIDE DEF s, x, came
  <2>3. /\ Put(s, o, v, x) \in Shares /\ Put(s, o, v, x)[o][v] = x
        /\ \A q \in Child, w \in Vault :
             ~ (q = o /\ w = v) => Put(s, o, v, x)[q][w] = s[q][w]
    BY <2>1, PutFacts
  <2> QED
    BY <2>2, <2>3
<1>4. /\ left \in Shares /\ left[o][v] = token.late[o][v] - amount
      /\ \A q \in Child, w \in Vault : ~ (q = o /\ w = v) => left[q][w] = token.late[q][w]
  <2> DEFINE s == token.late
             x == s[o][v] - amount
  <2>1. s \in Shares /\ x \in Nat
    BY <1>1 DEF Shares
  <2>2. s = token.late /\ left = Put(s, o, v, x) /\ x = s[o][v] - amount
    OBVIOUS
  <2> HIDE DEF s, x, left
  <2>3. /\ Put(s, o, v, x) \in Shares /\ Put(s, o, v, x)[o][v] = x
        /\ \A q \in Child, w \in Vault :
             ~ (q = o /\ w = v) => Put(s, o, v, x)[q][w] = s[q][w]
    BY <2>1, PutFacts
  <2> QED
    BY <2>2, <2>3
<1> HIDE DEF came, left
<1>5. /\ DOMAIN token' = TokenFields /\ token'.source = came /\ token'.late = left
      /\ token'.child = token.child /\ token'.migrated = token.migrated
      /\ token'.locked = token.locked /\ token'.call = token.call
  BY <1>1, <1>2 DEF TokenFields
<1>6. \A q \in Child, w \in Vault :
         /\ came[q][w] \in Nat /\ token.source[q][w] \in Nat /\ token.source[q][w] <= came[q][w]
         /\ left[q][w] \in Nat /\ token.late[q][w] \in Nat
         /\ came[q][w] + left[q][w] = token.source[q][w] + token.late[q][w]
  <2>1. SUFFICES ASSUME NEW q \in Child, NEW w \in Vault
                 PROVE  /\ came[q][w] \in Nat /\ token.source[q][w] \in Nat
                        /\ token.source[q][w] <= came[q][w]
                        /\ left[q][w] \in Nat /\ token.late[q][w] \in Nat
                        /\ came[q][w] + left[q][w] = token.source[q][w] + token.late[q][w]
    OBVIOUS
  <2>2. /\ came[q][w] \in Nat /\ token.source[q][w] \in Nat
        /\ left[q][w] \in Nat /\ token.late[q][w] \in Nat
    BY <1>1, <1>3, <1>4 DEF Shares
  <2>3. CASE q = o /\ w = v
    BY <1>3, <1>4, <2>2, <2>3
  <2>4. CASE ~ (q = o /\ w = v)
    BY <1>3, <1>4, <2>2, <2>4
  <2> QED
    BY <2>3, <2>4
<1>7. TokenSound(token')
  <2>1. \A d, q \in Child, w \in Vault : token.migrated[d][q][w] <= came[q][w]
    <3>1. SUFFICES ASSUME NEW d \in Child, NEW q \in Child, NEW w \in Vault
                   PROVE  token.migrated[d][q][w] <= came[q][w]
      OBVIOUS
    <3>2. token.migrated[d][q][w] <= token.source[q][w] /\ token.migrated[d][q][w] \in Nat
      BY TokenFacts
    <3> QED
      BY <1>6, <3>2
  <2>2. \A k \in token.call : CallSound(token', k)
    <3>1. SUFFICES ASSUME NEW k \in token.call PROVE CallSound(token', k)
      OBVIOUS
    <3>2. CallSound(token, k)
      BY DEF TokenSound
    <3>3. k.balance <= came[k.outcome][k.holder]
      BY <1>6, <3>2 DEF CallSound
    <3> QED
      BY <1>5, <3>2, <3>3 DEF CallSound
  <2> QED
    BY <1>3, <1>4, <1>5, <2>1, <2>2 DEF TokenSound, TokenFields
<1>8. \A d, q \in Child, w \in Vault :
         token'.child[d][q][w] + (token'.source[q][w] + token'.late[q][w] - token'.migrated[d][q][w])
           = token.child[d][q][w] + (token.source[q][w] + token.late[q][w] - token.migrated[d][q][w])
  <2>1. SUFFICES ASSUME NEW d \in Child, NEW q \in Child, NEW w \in Vault
        PROVE  token'.child[d][q][w] + (token'.source[q][w] + token'.late[q][w]
                   - token'.migrated[d][q][w])
                 = token.child[d][q][w] + (token.source[q][w] + token.late[q][w]
                   - token.migrated[d][q][w])
    OBVIOUS
  <2>2. /\ token'.child[d][q][w] = token.child[d][q][w] /\ token'.source[q][w] = came[q][w]
        /\ token'.late[q][w] = left[q][w] /\ token'.migrated[d][q][w] = token.migrated[d][q][w]
    BY <1>5
  <2>3. token.child[d][q][w] \in Nat /\ token.migrated[d][q][w] \in Nat
    BY TokenFacts
  <2> QED
    BY <1>6, <2>2, <2>3
<1> QED
  BY <1>7, <1>8, SameTermsSameClaims

\* Late shares change hands.
LEMMA TransferLateKeeps ==
    ASSUME TokenSound(token), NEW o \in Child, NEW from \in Vault, NEW to \in Vault,
           NEW amount \in Nat, transferLate(o, from, to, amount)
    PROVE  TokenSound(token') /\ SameClaims(token, token')
<1> DEFINE held == token.late[o]
           next == [held EXCEPT ![from] = held[from] - amount, ![to] = held[to] + amount]
           S == [token.late EXCEPT ![o] = next]
<1>1. /\ from # to /\ amount <= token.late[o][from]
      /\ DOMAIN token = TokenFields /\ token.late \in Shares
  BY DEF TokenSound, transferLate, TokenFields
<1>2. held \in [Vault -> Nat]
  BY <1>1 DEF Shares
<1>3. token' = [token EXCEPT !.late = S]
  BY <1>1, <1>2 DEF transferLate, Shares, TokenFields
<1>4. /\ next \in [Vault -> Nat] /\ next[from] = held[from] - amount /\ next[to] = held[to] + amount
      /\ \A w \in Vault \ {from, to} : next[w] = held[w]
  BY <1>1, <1>2
<1>5. S \in Shares /\ S[o] = next /\ \A q \in Child \ {o} : S[q] = token.late[q]
  <2> HIDE DEF next
  <2> QED
    BY <1>1, <1>4 DEF Shares
<1>6. held = token.late[o]
  OBVIOUS
<1> HIDE DEF held, next, S
<1>7. /\ DOMAIN token' = TokenFields /\ token'.late = S
      /\ token'.source = token.source /\ token'.child = token.child
      /\ token'.migrated = token.migrated
      /\ token'.locked = token.locked /\ token'.call = token.call
  BY <1>1, <1>3 DEF TokenFields
<1>8. TokenSound(token')
  <2>1. \A k \in token.call : CallSound(token, k) => CallSound(token', k)
    BY <1>7 DEF CallSound
  <2> QED
    BY <1>5, <1>7, <2>1 DEF TokenSound, TokenFields
<1>9. SameClaims(token, token')
  <2>1. SUFFICES ASSUME NEW d \in Child, NEW q \in Child
                 PROVE  SumFunctionOnSet(ClaimsOf(token', d, q), Vault)
                          = SumFunctionOnSet(ClaimsOf(token, d, q), Vault)
    BY DEF SameClaims
  <2>2. CASE q # o
    <3>1. token'.late[q] = token.late[q]
      BY <1>5, <1>7, <2>2
    <3>2. ClaimsOf(token', d, q) = ClaimsOf(token, d, q)
      BY <1>7, <3>1 DEF ClaimsOf
    <3> QED
      BY <3>2
  <2>3. CASE q = o
    <3> DEFINE g == ClaimsOf(token, d, q)
               h == ClaimsOf(token', d, q)
               rest(w) == token.child[d][o][w] + token.source[o][w] - token.migrated[d][o][w]
    <3>1. ASSUME NEW w \in Vault
          PROVE  /\ g[w] = rest(w) + held[w] /\ h[w] = rest(w) + next[w]
                 /\ rest(w) \in Int /\ held[w] \in Nat /\ next[w] \in Nat
      <4>1. token'.late[o] = next
        BY <1>5, <1>7
      <4>2. /\ token.child[d][o][w] \in Nat /\ token.source[o][w] \in Nat
            /\ token.migrated[d][o][w] \in Nat
        BY TokenFacts
      <4>3. held[w] \in Nat /\ next[w] \in Nat
        BY <1>2, <1>4
      <4>4. g[w] = token.child[d][o][w] + (token.source[o][w] + held[w] - token.migrated[d][o][w])
        BY <1>6, <2>3 DEF ClaimsOf
      <4>5. h[w] = token.child[d][o][w] + (token.source[o][w] + next[w] - token.migrated[d][o][w])
        BY <1>7, <2>3, <4>1 DEF ClaimsOf
      <4> QED
        BY <4>2, <4>3, <4>4, <4>5
    <3> HIDE DEF g, h, rest
    <3>2. /\ \A w \in Vault : g[w] \in Int /\ h[w] \in Int
          /\ h[from] + h[to] = g[from] + g[to]
      <4>1. \A w \in Vault : g[w] \in Int /\ h[w] \in Int
        BY <3>1
      <4>2. h[from] = g[from] - amount
        BY <1>4, <3>1
      <4>3. h[to] = g[to] + amount
        BY <1>4, <3>1
      <4> QED
        BY <4>1, <4>2, <4>3
    <3>3. \A w \in Vault : w # from /\ w # to => h[w] = g[w]
      BY <1>4, <3>1
    <3>4. Passed(g, h, from, to)
      BY <1>1, <3>2, <3>3 DEF Passed
    <3>5. SumFunctionOnSet(h, Vault) = SumFunctionOnSet(g, Vault)
      BY <3>4, PassedSum
    <3> QED
      BY <3>5 DEF g, h
  <2> QED
    BY <2>2, <2>3
<1> QED
  BY <1>8, <1>9

\* A step that only touches the balances of the children.
OnlyBalances(t, n, balances) ==
    /\ DOMAIN n = TokenFields /\ n.source = t.source /\ n.late = t.late
    /\ n.migrated = t.migrated
    /\ n.locked = t.locked /\ n.call = t.call /\ n.child = balances

LEMMA OnlyBalancesSound ==
    ASSUME NEW t, TokenSound(t), NEW balances \in [Child -> Shares],
           NEW n, n = [t EXCEPT !.child = balances]
    PROVE  OnlyBalances(t, n, balances) /\ TokenSound(n)
<1>1. DOMAIN t = TokenFields
  BY DEF TokenSound, TokenFields
<1>2. OnlyBalances(t, n, balances)
  BY <1>1 DEF OnlyBalances, TokenFields
<1>3. \A k \in t.call : CallSound(t, k) => CallSound(n, k)
  BY <1>2 DEF OnlyBalances, CallSound
<1> QED
  BY <1>2, <1>3 DEF OnlyBalances, TokenSound, TokenFields

\* One balance of an outcome changes what can be claimed of it.
LEMMA OneBalance ==
    ASSUME NEW t, TokenSound(t), NEW balances \in [Child -> Shares],
           NEW n, OnlyBalances(t, n, balances), TokenSound(n),
           NEW d \in Child, NEW q \in Child, NEW v \in Vault,
           \A w \in Vault \ {v} : balances[d][q][w] = t.child[d][q][w]
    PROVE  SumFunctionOnSet(ClaimsOf(n, d, q), Vault)
             = SumFunctionOnSet(ClaimsOf(t, d, q), Vault) + (balances[d][q][v] - t.child[d][q][v])
<1> DEFINE was == ClaimsOf(t, d, q)
           now == ClaimsOf(n, d, q)
<1>1. \A w \in Vault : was[w] \in Nat /\ now[w] \in Nat
  BY TokenFacts
<1>2. \A w \in Vault : /\ was[w] = t.child[d][q][w] + (t.source[q][w] + t.late[q][w] - t.migrated[d][q][w])
                       /\ now[w] = balances[d][q][w] + (t.source[q][w] + t.late[q][w] - t.migrated[d][q][w])
                       /\ t.child[d][q][w] \in Nat /\ balances[d][q][w] \in Nat
                       /\ t.source[q][w] \in Nat /\ t.late[q][w] \in Nat /\ t.migrated[d][q][w] \in Nat
  <2>1. SUFFICES ASSUME NEW w \in Vault
                 PROVE  /\ was[w] = t.child[d][q][w] + (t.source[q][w] + t.late[q][w] - t.migrated[d][q][w])
                        /\ now[w] = balances[d][q][w] + (t.source[q][w] + t.late[q][w] - t.migrated[d][q][w])
                        /\ t.child[d][q][w] \in Nat /\ balances[d][q][w] \in Nat
                        /\ t.source[q][w] \in Nat /\ t.late[q][w] \in Nat /\ t.migrated[d][q][w] \in Nat
    OBVIOUS
  <2>2. /\ was[w] = t.child[d][q][w] + (t.source[q][w] + t.late[q][w] - t.migrated[d][q][w])
        /\ now[w] = n.child[d][q][w] + (n.source[q][w] + n.late[q][w] - n.migrated[d][q][w])
    BY DEF ClaimsOf
  <2>3. balances[d][q][w] \in Nat
    BY DEF Shares
  <2>4. /\ t.child[d][q][w] \in Nat /\ t.source[q][w] \in Nat /\ t.late[q][w] \in Nat /\ t.migrated[d][q][w] \in Nat
    BY TokenFacts
  <2>5. n.child = balances /\ n.source = t.source /\ n.late = t.late /\ n.migrated = t.migrated
    BY DEF OnlyBalances
  <2> QED
    BY <2>2, <2>3, <2>4, <2>5
<1> HIDE DEF was, now
<1>3. \A w \in Vault : was[w] \in Int /\ now[w] \in Int
  BY <1>1
<1>4. \A w \in Vault \ {v} : now[w] = was[w]
  BY <1>2
<1>5. now[v] - was[v] = balances[d][q][v] - t.child[d][q][v]
  BY <1>2
<1>6. IsFiniteSet(Vault)
  BY ForkFacts
<1>7. SumFunctionOnSet(now, Vault) = SumFunctionOnSet(was, Vault) + (now[v] - was[v])
  BY <1>3, <1>4, <1>6, SumChange
<1> QED
  BY <1>5, <1>7 DEF was, now

\* A transfer of a child's shares.
LEMMA TransferChildKeeps ==
    ASSUME TokenSound(token), NEW c \in Child, NEW o \in Child, NEW from \in Vault,
           NEW to \in Vault, NEW amount \in Nat, transferChild(c, o, from, to, amount)
    PROVE  TokenSound(token') /\ SameClaims(token, token')
<1> DEFINE s == token.child
           held == s[c][o]
           next == [held EXCEPT ![from] = held[from] - amount, ![to] = held[to] + amount]
           mine == [s[c] EXCEPT ![o] = next]
           got == [s EXCEPT ![c] = mine]
<1>1. /\ from # to /\ amount <= s[c][o][from] /\ s \in [Child -> Shares]
      /\ DOMAIN token = TokenFields
  BY DEF TokenSound, transferChild, TokenFields
<1>2. /\ s[c] \in Shares /\ held \in [Vault -> Nat] /\ held = s[c][o]
      /\ held[from] \in Nat /\ held[to] \in Nat
  BY <1>1 DEF Shares
<1>3. token' = [token EXCEPT !.child = got]
  BY <1>1, <1>2 DEF transferChild, Shares, TokenFields
<1>4. /\ next \in [Vault -> Nat] /\ next[from] = held[from] - amount /\ next[to] = held[to] + amount
      /\ \A w \in Vault : w # from /\ w # to => next[w] = held[w]
  BY <1>1, <1>2
<1>5. s = token.child
  OBVIOUS
<1> HIDE DEF held, next
<1>6. mine \in Shares /\ mine[o] = next /\ \A q \in Child \ {o} : mine[q] = s[c][q]
  BY <1>2, <1>4 DEF Shares
<1> HIDE DEF mine, s
<1>7. got \in [Child -> Shares] /\ got[c] = mine /\ \A d \in Child \ {c} : got[d] = s[d]
  BY <1>1, <1>6
<1> HIDE DEF got
<1>8. \A d, q \in Child : ~ (d = c /\ q = o) => got[d][q] = s[d][q]
  BY <1>6, <1>7
<1>9. OnlyBalances(token, token', got) /\ TokenSound(token')
  BY <1>3, <1>7, OnlyBalancesSound
<1>10. SameClaims(token, token')
  <2>1. SUFFICES ASSUME NEW d \in Child, NEW q \in Child
                 PROVE  SumFunctionOnSet(ClaimsOf(token', d, q), Vault)
                          = SumFunctionOnSet(ClaimsOf(token, d, q), Vault)
    BY DEF SameClaims
  <2>2. CASE ~ (d = c /\ q = o)
    <3>1. got[d][q] = token.child[d][q]
      BY <1>5, <1>8, <2>2
    <3>2. /\ token'.child = got /\ token'.source = token.source /\ token'.late = token.late
          /\ token'.migrated = token.migrated
      BY <1>9 DEF OnlyBalances
    <3>3. ClaimsOf(token', d, q) = ClaimsOf(token, d, q)
      BY <3>1, <3>2 DEF ClaimsOf
    <3> QED
      BY <3>3
  <2>3. CASE d = c /\ q = o
    <3> DEFINE was == ClaimsOf(token, d, q)
               now == ClaimsOf(token', d, q)
    <3>1. \A w \in Vault : was[w] \in Nat /\ now[w] \in Nat
      BY <1>9, TokenFacts
    <3>2. \A w \in Vault :
             /\ was[w] = s[c][o][w] + (token.source[o][w] + token.late[o][w] - token.migrated[c][o][w])
             /\ now[w] = got[c][o][w] + (token.source[o][w] + token.late[o][w] - token.migrated[c][o][w])
      <4>1. /\ token'.child = got /\ token'.source = token.source /\ token'.late = token.late
            /\ token'.migrated = token.migrated
        BY <1>9 DEF OnlyBalances
      <4> QED
        BY <1>5, <2>3, <4>1 DEF ClaimsOf
    <3> HIDE DEF was, now
    <3>3. got[c][o] = next /\ s[c][o] = held
      BY <1>2, <1>6, <1>7
    <3>4. got[c][o][from] = s[c][o][from] - amount /\ got[c][o][to] = s[c][o][to] + amount
      BY <1>4, <3>3
    <3>5. \A w \in Vault : w # from /\ w # to => got[c][o][w] = s[c][o][w]
      BY <1>4, <3>3
    <3>6. \A w \in Vault : w # from /\ w # to => now[w] = was[w]
      BY <3>2, <3>5
    <3>7. now[from] + now[to] = was[from] + was[to]
      <4>1. /\ token.source[o][from] \in Nat /\ token.migrated[c][o][from] \in Nat
            /\ token.source[o][to] \in Nat /\ token.migrated[c][o][to] \in Nat
            /\ token.late[o][from] \in Nat /\ token.late[o][to] \in Nat
        BY TokenFacts
      <4> DEFINE p == token.source[o][from] + token.late[o][from] - token.migrated[c][o][from]
                 r == token.source[o][to] + token.late[o][to] - token.migrated[c][o][to]
      <4>2. /\ p \in Int /\ r \in Int
            /\ was[from] = s[c][o][from] + p /\ now[from] = got[c][o][from] + p
            /\ was[to] = s[c][o][to] + r /\ now[to] = got[c][o][to] + r
        BY <3>2, <4>1
      <4> HIDE DEF p, r
      <4>3. s[c][o][from] \in Nat /\ s[c][o][to] \in Nat
        BY <1>2
      <4> QED
        BY <3>4, <4>2, <4>3
    <3>8. Passed(was, now, from, to)
      BY <1>1, <3>1, <3>6, <3>7 DEF Passed
    <3>9. SumFunctionOnSet(now, Vault) = SumFunctionOnSet(was, Vault)
      BY <3>8, PassedSum
    <3> QED
      BY <3>9 DEF was, now
  <2> QED
    BY <2>2, <2>3
<1> QED
  BY <1>9, <1>10

\* redeemShares: what a holder of the winning outcome burns, nobody claims.
LEMMA BurnKeeps ==
    ASSUME TokenSound(token), NEW c \in Child, NEW o \in Child, NEW v \in Vault,
           burnTokenIdAndGetRemainingSupply(c, o, v)
    PROVE  /\ TokenSound(token') /\ token.child[c][o][v] \in Nat
           /\ \A d, q \in Child : Claims(d, q)'
                = Claims(d, q) - IF d = c /\ q = o THEN token.child[c][o][v] ELSE 0
<1> DEFINE s == token.child
           left == Edited(s, c, o, v, 0)
<1>1. s \in [Child -> Shares] /\ DOMAIN token = TokenFields
  BY DEF TokenSound, TokenFields
<1>2. s[c][o][v] \in Nat /\ 0 \in Nat
  BY <1>1 DEF Shares
<1>3. token' = [token EXCEPT !.child = left]
  BY <1>1 DEF burnTokenIdAndGetRemainingSupply, Edited, TokenFields
<1>4. left = Edited(s, c, o, v, 0) /\ s = token.child
  OBVIOUS
<1> HIDE DEF s, left
<1>5. /\ left \in [Child -> Shares] /\ left[c][o][v] = 0
      /\ \A d, q \in Child, w \in Vault :
           ~ (d = c /\ q = o /\ w = v) => left[d][q][w] = s[d][q][w]
  BY <1>1, <1>2, <1>4, EditOne, SMTT(30)
<1>6. OnlyBalances(token, token', left) /\ TokenSound(token')
  BY <1>3, <1>5, OnlyBalancesSound
<1>7. ASSUME NEW d \in Child, NEW q \in Child
      PROVE  Claims(d, q)'
               = Claims(d, q) - IF d = c /\ q = o THEN token.child[c][o][v] ELSE 0
  <2>1. \A w \in Vault \ {v} : left[d][q][w] = token.child[d][q][w]
    BY <1>4, <1>5
  <2>2. SumFunctionOnSet(ClaimsOf(token', d, q), Vault)
          = SumFunctionOnSet(ClaimsOf(token, d, q), Vault) + (left[d][q][v] - token.child[d][q][v])
    BY <1>5, <1>6, <2>1, OneBalance
  <2>3. SumFunctionOnSet(ClaimsOf(token, d, q), Vault) \in Int
    <3> DEFINE was == ClaimsOf(token, d, q)
    <3>1. \A w \in Vault : was[w] \in Nat
      BY TokenFacts
    <3> HIDE DEF was
    <3>2. SumFunctionOnSet(was, Vault) \in Int
      BY <3>1, ForkFacts, SumInt
    <3> QED
      BY <3>2 DEF was
  <2>4. Claims(d, q)' = Claims(d, q) + (left[d][q][v] - token.child[d][q][v])
        /\ Claims(d, q) \in Int
    BY <2>2, <2>3, ClaimsAreSums
  <2>5. token.child[d][q][v] \in Nat
    BY TokenFacts
  <2>6. CASE d = c /\ q = o
    BY <1>5, <2>4, <2>5, <2>6
  <2>7. CASE ~ (d = c /\ q = o)
    BY <1>4, <1>5, <2>4, <2>5, <2>7
  <2> QED
    BY <2>6, <2>7
<1> QED
  BY <1>2, <1>4, <1>6, <1>7

\* redeemCompleteSet: of every outcome the same is burned.
LEMMA BurnSetsKeep ==
    ASSUME TokenSound(token), NEW c \in Child, NEW v \in Vault, NEW amount \in Nat,
           burnCompleteSets(c, v, amount)
    PROVE  /\ TokenSound(token')
           /\ \A d, q \in Child : Claims(d, q)' = Claims(d, q) - IF d = c THEN amount ELSE 0
<1> DEFINE s == token.child
           mine == [o \in Child |-> [s[c][o] EXCEPT ![v] = s[c][o][v] - amount]]
           left == [s EXCEPT ![c] = mine]
<1>1. /\ s \in [Child -> Shares] /\ DOMAIN token = TokenFields
      /\ \A o \in Child : amount <= s[c][o][v]
  BY DEF TokenSound, TokenFields, burnCompleteSets
<1>2. \A o \in Child : s[c][o] \in [Vault -> Nat] /\ s[c][o][v] \in Nat
  BY <1>1 DEF Shares
<1>3. token' = [token EXCEPT !.child = left]
  BY <1>1, Zenon DEF burnCompleteSets, TokenFields
<1>4. /\ mine \in Shares /\ \A o \in Child : mine[o][v] = s[c][o][v] - amount
      /\ \A o \in Child, w \in Vault \ {v} : mine[o][w] = s[c][o][w]
  BY <1>1, <1>2 DEF Shares
<1>5. left = [s EXCEPT ![c] = mine] /\ s = token.child
  OBVIOUS
<1> HIDE DEF s, mine, left
<1>6. /\ left \in [Child -> Shares] /\ left[c] = mine
      /\ \A d \in Child \ {c} : left[d] = s[d]
  BY <1>1, <1>4, <1>5
<1>7. OnlyBalances(token, token', left) /\ TokenSound(token')
  BY <1>3, <1>6, OnlyBalancesSound
<1>8. ASSUME NEW d \in Child, NEW q \in Child
      PROVE  Claims(d, q)' = Claims(d, q) - IF d = c THEN amount ELSE 0
  <2>1. \A w \in Vault \ {v} : left[d][q][w] = token.child[d][q][w]
    BY <1>4, <1>5, <1>6
  <2>2. SumFunctionOnSet(ClaimsOf(token', d, q), Vault)
          = SumFunctionOnSet(ClaimsOf(token, d, q), Vault) + (left[d][q][v] - token.child[d][q][v])
    BY <1>6, <1>7, <2>1, OneBalance
  <2>3. SumFunctionOnSet(ClaimsOf(token, d, q), Vault) \in Int
    <3> DEFINE was == ClaimsOf(token, d, q)
    <3>1. \A w \in Vault : was[w] \in Nat
      BY TokenFacts
    <3> HIDE DEF was
    <3>2. SumFunctionOnSet(was, Vault) \in Int
      BY <3>1, ForkFacts, SumInt
    <3> QED
      BY <3>2 DEF was
  <2>4. Claims(d, q)' = Claims(d, q) + (left[d][q][v] - token.child[d][q][v])
        /\ Claims(d, q) \in Int
    BY <2>2, <2>3, ClaimsAreSums
  <2>5. token.child[d][q][v] \in Nat
    BY TokenFacts
  <2>6. CASE d = c
    <3>1. left[d][q][v] = token.child[d][q][v] - amount
      BY <1>4, <1>5, <1>6, <2>6
    <3> QED
      BY <2>4, <2>5, <2>6, <3>1
  <2>7. CASE d # c
    <3>1. left[d][q][v] = token.child[d][q][v]
      BY <1>5, <1>6, <2>7
    <3> QED
      BY <2>4, <2>5, <2>7, <3>1
  <2> QED
    BY <2>6, <2>7
<1> QED
  BY <1>7, <1>8


-----------------------------------------------------------------------------
(* Every step keeps the invariant.                                         *)

\* What a step may do to a child for its shares to stay due.
DueAfter(c, n) ==
    \/ /\ children[c].state \in {"none", "ForkMigration"}
       /\ n.state \in {"none", "ForkMigration"}
    \/ /\ children[c].state \in {"none", "ForkMigration"}
       /\ n.state \in {"ForkTruthAuction", "Operational"}
       /\ n.shareSupply = parent.shareSupply
       /\ n.shareSupply = 0 => n.collateral = 0
    \/ /\ children[c].state \in {"ForkTruthAuction", "Operational"}
       /\ n.state \in {"ForkTruthAuction", "Operational"}
       /\ n.shareSupply = children[c].shareSupply
       /\ n.shareSupply = 0 => n.collateral = 0

LEMMA StillDue ==
    ASSUME ParentSound(parent), DOMAIN children = Child,
           NEW c \in Child, SharesDue(c), NEW n, children' = [children EXCEPT ![c] = n],
           SameTerms(parent, parent'), SameClaims(token, token'), DueAfter(c, n)
    PROVE  SharesDue(c)'
<1>1. children'[c] = n
  OBVIOUS
<1>2. \A o \in Child : Claims(c, o)' = Claims(c, o)
  BY ClaimsAreSums DEF SameClaims
<1>3. parent'.shareSupply = parent.shareSupply /\ Owed(c)' = Owed(c)
  BY DEF SameTerms, Owed
<1>4. parent.shareSupply \in Nat
  BY DEF ParentSound
<1> DEFINE before == children[c]
<1>5. /\ before.state \in {"none", "ForkMigration"} =>
             \A o \in Child :
                  /\ Claims(c, o) >= parent.shareSupply
                  /\ o \in Owed(c) => Claims(c, o) = parent.shareSupply
      /\ before.state \in {"ForkTruthAuction", "Operational"} =>
             \A o \in Child :
                  /\ Claims(c, o) >= before.shareSupply
                  /\ o \in Owed(c) => Claims(c, o) = before.shareSupply
  BY DEF SharesDue
<1>6. \/ before.state \in {"none", "ForkMigration"} /\ n.state \in {"none", "ForkMigration"}
      \/ /\ before.state \in {"none", "ForkMigration"}
         /\ n.state \in {"ForkTruthAuction", "Operational"}
         /\ n.shareSupply = parent.shareSupply
         /\ n.shareSupply = 0 => n.collateral = 0
      \/ /\ before.state \in {"ForkTruthAuction", "Operational"}
         /\ n.state \in {"ForkTruthAuction", "Operational"}
         /\ n.shareSupply = before.shareSupply
         /\ n.shareSupply = 0 => n.collateral = 0
  BY DEF DueAfter
<1> HIDE DEF before
<1>7. /\ n.state \in {"none", "ForkMigration"} =>
             \A o \in Child :
                  /\ Claims(c, o)' >= parent'.shareSupply
                  /\ o \in Owed(c)' => Claims(c, o)' = parent'.shareSupply
      /\ n.state \in {"ForkTruthAuction", "Operational"} =>
             /\ \A o \in Child :
                  /\ Claims(c, o)' >= n.shareSupply
                  /\ o \in Owed(c)' => Claims(c, o)' = n.shareSupply
             /\ n.shareSupply = 0 => n.collateral = 0
  <2>1. CASE n.state \in {"none", "ForkMigration"}
    BY <1>2, <1>3, <1>5, <1>6, <2>1
  <2>2. CASE n.state \in {"ForkTruthAuction", "Operational"}
    <3>1. CASE before.state \in {"none", "ForkMigration"}
      <4>1. \A o \in Child :
               /\ Claims(c, o)' >= n.shareSupply
               /\ o \in Owed(c)' => Claims(c, o)' = n.shareSupply
        BY <1>2, <1>3, <1>5, <1>6, <2>2, <3>1
      <4>2. n.shareSupply = parent.shareSupply /\ (n.shareSupply = 0 => n.collateral = 0)
        BY <1>6, <2>2, <3>1
      <4> QED
        BY <1>4, <2>2, <4>1, <4>2
    <3>2. CASE before.state \in {"ForkTruthAuction", "Operational"}
      BY <1>2, <1>3, <1>5, <1>6, <2>2, <3>2
    <3> QED
      BY <1>6, <3>1, <3>2
  <2>3. CASE n.state \notin {"none", "ForkMigration", "ForkTruthAuction", "Operational"}
    BY <1>6, <2>3
  <2> QED
    BY <2>1, <2>2, <2>3
<1> QED
  BY <1>1, <1>7 DEF SharesDue

\* A step that edits one child at most, and shares only as nobody's claims change.
LEMMA EditKeeps ==
    ASSUME IInv, windowOpen' = windowOpen, ParentSound(parent'), SameTerms(parent, parent'),
           Ledger', TokenSound(token'), SameClaims(token, token'),
           NEW c \in Child, NEW n, children' = [children EXCEPT ![c] = n],
           Sound(parent, n), DueAfter(c, n),
           windowOpen => n.state \in {"none", "ForkMigration"}
    PROVE  IInv'
<1>1. /\ windowOpen \in BOOLEAN /\ ParentSound(parent) /\ DOMAIN children = Child
      /\ \A d \in Child : Sound(parent, children[d])
      /\ windowOpen => \A d \in Child : children[d].state \in {"none", "ForkMigration"}
      /\ \A d \in Child : SharesDue(d)
  BY DEF IInv
<1>2. /\ DOMAIN children' = Child /\ children'[c] = n
      /\ \A d \in Child \ {c} : children'[d] = children[d]
  BY <1>1
<1>3. \A d \in Child : Sound(parent', children'[d])
  <2>1. ASSUME NEW ch, Sound(parent, ch) PROVE Sound(parent', ch)
    BY <2>1, SoundSameTerms
  <2> QED
    BY <1>1, <1>2, <2>1
<1>4. windowOpen' => \A d \in Child : children'[d].state \in {"none", "ForkMigration"}
  BY <1>1, <1>2
<1>5. \A d \in Child : SharesDue(d)'
  <2>1. SharesDue(c)'
    BY <1>1, StillDue
  <2>2. ASSUME NEW d \in Child \ {c} PROVE SharesDue(d)'
    <3>1. \A o \in Child : Claims(d, o)' = Claims(d, o)
      BY ClaimsAreSums DEF SameClaims
    <3>2. parent'.shareSupply = parent.shareSupply /\ Owed(d)' = Owed(d)
      BY DEF SameTerms, Owed
    <3> QED
      BY <1>1, <1>2, <3>1, <3>2 DEF SharesDue
  <2> QED
    BY <2>1, <2>2
<1> QED
  BY <1>1, <1>2, <1>3, <1>4, <1>5 DEF IInv

LEMMA SameEverything ==
    ASSUME UNCHANGED <<parent, token>>
    PROVE  SameTerms(parent, parent') /\ SameClaims(token, token')
BY DEF SameTerms, SameClaims

\* A step of one child that moves nothing between it and the parent.
LEMMA QuietKeeps ==
    ASSUME IInv, UNCHANGED <<windowOpen, parent, forkData, token>>,
           NEW c \in Child, NEW n, children' = [children EXCEPT ![c] = n],
           Sound(parent, n), SameMoved(children[c], n), DueAfter(c, n),
           windowOpen => n.state \in {"none", "ForkMigration"}
    PROVE  IInv'
<1>1. /\ ParentSound(parent) /\ DOMAIN children = Child /\ Ledger /\ TokenSound(token)
      /\ \A x \in Child : Sound(parent, children[x])
  BY DEF IInv
<1>2. Ledger'
  BY <1>1, QuietEdit
<1>3. SameTerms(parent, parent') /\ SameClaims(token, token')
  BY SameEverything
<1>4. ParentSound(parent') /\ TokenSound(token') /\ windowOpen' = windowOpen
  BY <1>1
<1> QED
  BY <1>2, <1>3, <1>4, EditKeeps

LEMMA IInvFacts ==
    ASSUME IInv
    PROVE  /\ windowOpen \in BOOLEAN /\ ParentSound(parent) /\ DOMAIN children = Child
           /\ \A x \in Child : Sound(parent, children[x]) /\ Typed(children[x]) /\ SharesDue(x)
           /\ windowOpen => \A x \in Child : children[x].state \in {"none", "ForkMigration"}
           /\ Ledger /\ TokenSound(token)
BY DEF IInv, Sound

\* The calls of the window.
LEMMA CreateKeeps ==
    ASSUME IInv, NEW c \in Child, createChildUniverse(c)
    PROVE  IInv'
<1> DEFINE n == _getOrDeployChildPool(c)
<1>1. /\ children[c].state \in {"none", "ForkMigration"} /\ children' = [children EXCEPT ![c] = n]
      /\ UNCHANGED <<windowOpen, parent, forkData, token>>
  BY DEF createChildUniverse
<1>2. n = _getOrDeployChildPool(c)
  OBVIOUS
<1> HIDE DEF n
<1>3. ParentSound(parent) /\ Sound(parent, children[c])
  BY IInvFacts
<1>4. Sound(parent, n) /\ n.state = "ForkMigration" /\ SameMoved(children[c], n)
  BY <1>1, <1>2, <1>3, DeploySound
<1>5. DueAfter(c, n)
  BY <1>1, <1>4 DEF DueAfter
<1> QED
  BY <1>1, <1>4, <1>5, QuietKeeps

LEMMA SplitKeeps ==
    ASSUME IInv, NEW c \in Child, migrateRepToZoltar(c)
    PROVE  IInv'
<1> DEFINE n == _ensureChildPoolRepSplit(children[c], parent.poolRep)
<1>1. DOMAIN children = Child /\ ParentSound(parent) /\ Sound(parent, children[c])
  BY IInvFacts
<1>2. /\ children[c].state \in {"none", "ForkMigration"} /\ children' = [children EXCEPT ![c] = n]
      /\ UNCHANGED <<windowOpen, parent, forkData, token>>
  BY <1>1 DEF migrateRepToZoltar
<1>3. n = _ensureChildPoolRepSplit(children[c], parent.poolRep)
  OBVIOUS
<1> HIDE DEF n
<1>4. parent.poolRep \in Nat /\ parent.poolRep <= parent.poolRep
  BY <1>1 DEF ParentSound
<1> DEFINE ch == children[c]
           required == parent.poolRep
<1>5. /\ Sound(parent, ch) /\ ch.state \in {"none", "ForkMigration"} /\ required \in Nat
      /\ required <= parent.poolRep /\ n = _ensureChildPoolRepSplit(ch, required)
  BY <1>1, <1>2, <1>3, <1>4
<1> HIDE DEF ch, required
<1>6. Sound(parent, n) /\ n.state = ch.state /\ SameMoved(ch, n)
  BY <1>1, <1>5, SplitSound
<1>7. DueAfter(c, n) /\ n.state \in {"none", "ForkMigration"} /\ SameMoved(children[c], n)
  BY <1>2, <1>6 DEF DueAfter, ch
<1> QED
  BY <1>2, <1>6, <1>7, QuietKeeps

LEMMA ClaimDepositsKeeps ==
    ASSUME IInv, NEW c \in Child, NEW rep \in Nat, claimForkedEscalationDeposits(c, rep)
    PROVE  IInv'
<1> DEFINE child == _getOrDeployChildPool(c)
           n == [child EXCEPT !.game = child.game - rep]
<1>1. ParentSound(parent) /\ Sound(parent, children[c]) /\ Typed(children[c])
  BY IInvFacts
<1>2. /\ windowOpen /\ child.state = "ForkMigration" /\ rep <= child.game
      /\ UNCHANGED <<windowOpen, parent, forkData, token>>
  BY DEF claimForkedEscalationDeposits
<1>3. children[c].state \in {"none", "ForkMigration"}
  BY <1>2, IInvFacts
<1>4. child = _getOrDeployChildPool(c)
  OBVIOUS
<1>5. children' = [children EXCEPT ![c] = [child EXCEPT !.game = @ - rep]]
  BY DEF claimForkedEscalationDeposits
<1> HIDE DEF child
<1>6. Sound(parent, child) /\ SameMoved(children[c], child)
  BY <1>1, <1>3, <1>4, DeploySound
<1>7. DOMAIN child = ChildFields
  BY <1>6 DEF Sound, Typed
<1>8. children' = [children EXCEPT ![c] = n]
  <2>1. [child EXCEPT !.game = @ - rep] = n
    BY <1>7 DEF ChildFields
  <2> QED
    BY <1>5, <2>1
<1>9. n = [child EXCEPT !.game = child.game - rep] /\ parent.gameRep \in Nat
  BY <1>1 DEF ParentSound
<1> HIDE DEF n
<1>10. Sound(parent, n) /\ n.state = child.state /\ SameMoved(child, n)
  BY <1>2, <1>6, <1>9, DrainSound
<1>11. SameMoved(children[c], n) /\ DueAfter(c, n) /\ n.state = "ForkMigration"
  BY <1>2, <1>3, <1>6, <1>10 DEF SameMoved, DueAfter
<1> QED
  BY <1>2, <1>8, <1>10, <1>11, QuietKeeps

LEMMA MigrateVaultKeeps ==
    ASSUME IInv, NEW v \in Vault, NEW c \in Child, migrateVault(v, c)
    PROVE  IInv'
<1>1. windowOpen /\ UNCHANGED <<windowOpen, token>>
  BY DEF migrateVault
<1>2. /\ ParentSound(parent) /\ DOMAIN children = Child
      /\ \A x \in Child : Sound(parent, children[x])
      /\ Ledger /\ children[c].state \in {"none", "ForkMigration"} /\ TokenSound(token)
  BY <1>1, IInvFacts
<1>3. /\ ParentSound(parent') /\ SameTerms(parent, parent') /\ Ledger'
      /\ \E n : /\ children' = [children EXCEPT ![c] = n]
                /\ Sound(parent, n) /\ n.state = "ForkMigration"
  BY <1>2, MigrateVaultSound
<1>4. PICK n : /\ children' = [children EXCEPT ![c] = n]
               /\ Sound(parent, n) /\ n.state = "ForkMigration"
  BY <1>3
<1>5. DueAfter(c, n)
  BY <1>2, <1>4 DEF DueAfter
<1>6. TokenSound(token') /\ SameClaims(token, token') /\ windowOpen' = windowOpen
  BY <1>1, <1>2 DEF SameClaims
<1> QED
  BY <1>3, <1>4, <1>5, <1>6, EditKeeps

\* Steps that leave the children as they are.
LEMMA NoEditKeeps ==
    ASSUME IInv, windowOpen' \in BOOLEAN, windowOpen' => windowOpen, UNCHANGED children,
           ParentSound(parent'), SameTerms(parent, parent'), Ledger',
           TokenSound(token'), SameClaims(token, token')
    PROVE  IInv'
<1>1. /\ DOMAIN children = Child /\ \A d \in Child : Sound(parent, children[d])
      /\ windowOpen => \A d \in Child : children[d].state \in {"none", "ForkMigration"}
      /\ \A d \in Child : SharesDue(d)
  BY IInvFacts
<1>2. \A d \in Child : Sound(parent', children'[d])
  <2>1. ASSUME NEW ch, Sound(parent, ch) PROVE Sound(parent', ch)
    BY <2>1, SoundSameTerms
  <2> QED
    BY <1>1, <2>1
<1>3. \A d \in Child : SharesDue(d)'
  <2>1. SUFFICES ASSUME NEW d \in Child PROVE SharesDue(d)'
    OBVIOUS
  <2>2. \A o \in Child : Claims(d, o)' = Claims(d, o)
    BY ClaimsAreSums DEF SameClaims
  <2>3. parent'.shareSupply = parent.shareSupply /\ Owed(d)' = Owed(d)
    BY DEF SameTerms, Owed
  <2> QED
    BY <1>1, <2>2, <2>3 DEF SharesDue
<1> QED
  BY <1>1, <1>2, <1>3 DEF IInv

LEMMA ClaimInParentStep ==
    ASSUME IInv, NEW v \in Vault, ClaimInParent(v)
    PROVE  IInv'
<1>1. UNCHANGED <<windowOpen, children, token>>
  BY DEF ClaimInParent
<1>2. windowOpen \in BOOLEAN /\ ParentSound(parent) /\ Ledger /\ TokenSound(token)
  BY IInvFacts
<1>3. ParentSound(parent') /\ SameTerms(parent, parent') /\ Ledger'
  BY <1>2, ClaimInParentKeeps
<1>4. TokenSound(token') /\ SameClaims(token, token')
  BY <1>1, <1>2 DEF SameClaims
<1> QED
  BY <1>1, <1>2, <1>3, <1>4, NoEditKeeps

\* Nothing of the ledger is primed but what it reads.
LEMMA LedgerStays ==
    ASSUME Ledger, UNCHANGED <<parent, forkData, children>>
    PROVE  Ledger'
BY DEF Ledger, UnitsMigrated, CapacityMigrated, BadDebtMigrated, Received, Migrated

LEMMA MigrationEndsStep ==
    ASSUME IInv, MigrationEnds
    PROVE  IInv'
<1>1. windowOpen /\ windowOpen' = FALSE /\ UNCHANGED <<parent, forkData, children, token>>
  BY DEF MigrationEnds
<1>2. ParentSound(parent) /\ Ledger /\ TokenSound(token)
  BY IInvFacts
<1>3. Ledger'
  BY <1>1, <1>2, LedgerStays
<1>4. SameTerms(parent, parent') /\ SameClaims(token, token')
  BY <1>1, SameEverything
<1> QED
  BY <1>1, <1>2, <1>3, <1>4, NoEditKeeps

LEMMA TokenStep ==
    ASSUME IInv, UNCHANGED <<windowOpen, parent, forkData, children>>,
           TokenSound(token'), SameClaims(token, token')
    PROVE  IInv'
<1>1. windowOpen \in BOOLEAN /\ ParentSound(parent) /\ Ledger
  BY IInvFacts
<1>2. Ledger'
  BY <1>1, LedgerStays
<1>3. SameTerms(parent, parent')
  BY DEF SameTerms
<1> QED
  BY <1>1, <1>2, <1>3, NoEditKeeps

\* The price of a child, its auction, and what its vaults do after it.
LEMMA CallbackKeeps ==
    ASSUME IInv, NEW c \in Child, NEW price \in Nat, openOracleCallback(c, price)
    PROVE  IInv'
<1> DEFINE ch == children[c]
           n == [ch EXCEPT !.price = price]
<1>1. /\ DOMAIN children = Child /\ Sound(parent, ch) /\ Typed(ch) /\ SharesDue(c)
      /\ windowOpen => ch.state \in {"none", "ForkMigration"}
  BY IInvFacts
<1>2. ch.state # "none" /\ UNCHANGED <<windowOpen, parent, forkData, token>>
  BY DEF openOracleCallback
<1>3. children' = [children EXCEPT ![c] = n]
  BY <1>1 DEF openOracleCallback
<1>4. n = [ch EXCEPT !.price = price] /\ ch = children[c]
  OBVIOUS
<1> HIDE DEF ch, n
<1>5. /\ Sound(parent, n) /\ n.state = ch.state /\ SameMoved(ch, n)
      /\ n.shareSupply = ch.shareSupply /\ n.collateral = ch.collateral
  BY <1>1, <1>2, <1>4, PriceSound
<1>6. ch.state \in {"none", "ForkMigration", "ForkTruthAuction", "Operational"}
  BY <1>1 DEF Typed
<1>7. ch.state \in {"ForkTruthAuction", "Operational"} => (ch.shareSupply = 0 => ch.collateral = 0)
  BY <1>1, <1>4 DEF SharesDue
<1>8. DueAfter(c, n)
  BY <1>4, <1>5, <1>6, <1>7 DEF DueAfter
<1> QED
  BY <1>1, <1>2, <1>3, <1>4, <1>5, <1>8, QuietKeeps

\* A child that enters its auction or leaves it.
LEMMA AdvancedKeeps ==
    ASSUME IInv, ~windowOpen, UNCHANGED <<windowOpen, parent, forkData, token>>,
           NEW c \in Child, NEW n, children' = [children EXCEPT ![c] = n], Advanced(c, n),
           \/ children[c].state \in {"none", "ForkMigration"}
           \/ /\ children[c].state \in {"ForkTruthAuction", "Operational"}
              /\ children[c].shareSupply = parent.shareSupply
    PROVE  IInv'
<1>1. ParentSound(parent)
  BY IInvFacts
<1>2. /\ Sound(parent, n) /\ SameMoved(children[c], n)
      /\ n.state \in {"ForkTruthAuction", "Operational"}
      /\ n.shareSupply = parent.shareSupply /\ n.collateral <= parent.snapshot
  BY DEF Advanced
<1>3. n.collateral \in Nat
  BY <1>2 DEF Sound, Typed
<1>4. parent.snapshot \in Nat /\ (parent.shareSupply = 0 => parent.snapshot = 0)
  BY <1>1 DEF ParentSound
<1>5. n.shareSupply = 0 => n.collateral = 0
  BY <1>2, <1>3, <1>4
<1>6. DueAfter(c, n)
  BY <1>2, <1>5 DEF DueAfter
<1> QED
  BY <1>2, <1>6, QuietKeeps

LEMMA StartKeeps ==
    ASSUME IInv, NEW c \in Child, startTruthAuction(c)
    PROVE  IInv'
<1>1. ~windowOpen /\ children[c].state = "ForkMigration" /\ UNCHANGED <<windowOpen, parent, forkData, token>>
  BY DEF startTruthAuction
<1>2. /\ ParentSound(parent) /\ DOMAIN children = Child
      /\ \A x \in Child : Sound(parent, children[x])
      /\ Ledger
  BY IInvFacts
<1>3. \E n : children' = [children EXCEPT ![c] = n] /\ Advanced(c, n)
  BY <1>2, StartSound
<1>4. PICK n : children' = [children EXCEPT ![c] = n] /\ Advanced(c, n)
  BY <1>3
<1> QED
  BY <1>1, <1>4, AdvancedKeeps

LEMMA FinishKeeps ==
    ASSUME IInv, NEW c \in Child, finalizeTruthAuction(c)
    PROVE  IInv'
<1>1. children[c].state = "ForkTruthAuction" /\ UNCHANGED <<windowOpen, parent, forkData, token>>
  BY DEF finalizeTruthAuction
<1>2. /\ ParentSound(parent) /\ DOMAIN children = Child
      /\ \A x \in Child : Sound(parent, children[x])
      /\ Ledger /\ ~windowOpen
  BY <1>1, IInvFacts
<1>3. \E n : children' = [children EXCEPT ![c] = n] /\ Advanced(c, n)
  BY <1>2, FinishSound
<1>4. PICK n : children' = [children EXCEPT ![c] = n] /\ Advanced(c, n)
  BY <1>3
<1>5. children[c].shareSupply = parent.shareSupply
  BY <1>1, <1>2 DEF Sound, InAuction
<1> QED
  BY <1>1, <1>2, <1>4, <1>5, AdvancedKeeps

\* An open child that stays open, with the shares and the collateral it had.
LEMMA OpenKeeps ==
    ASSUME IInv, UNCHANGED <<windowOpen, parent, forkData, token>>,
           NEW c \in Child, NEW n, children' = [children EXCEPT ![c] = n],
           children[c].state = "Operational", Sound(parent, n), n.state = children[c].state,
           SameMoved(children[c], n),
           n.shareSupply = children[c].shareSupply, n.collateral = children[c].collateral
    PROVE  IInv'
<1>1. ~windowOpen /\ SharesDue(c)
  BY IInvFacts
<1>2. children[c].shareSupply = 0 => children[c].collateral = 0
  BY <1>1 DEF SharesDue
<1>3. DueAfter(c, n)
  BY <1>2 DEF DueAfter
<1> QED
  BY <1>1, <1>3, QuietKeeps

LEMMA AccrueKeeps ==
    ASSUME IInv, NEW c \in Child, Accrue(c)
    PROVE  IInv'
<1> DEFINE ch == children[c]
           n == Accrued(ch)
<1>1. DOMAIN children = Child /\ Sound(parent, ch) /\ DOMAIN ch = ChildFields
  BY IInvFacts DEF Typed
<1>2. ch.state = "Operational" /\ UNCHANGED <<windowOpen, parent, forkData, token>>
  BY DEF Accrue
<1>3. children' = [children EXCEPT ![c] = n]
  BY <1>1 DEF Accrue, Accrued
<1>4. n = Accrued(ch) /\ ch = children[c]
  OBVIOUS
<1> HIDE DEF ch, n
<1>5. /\ Sound(parent, n) /\ n.state = ch.state /\ SameMoved(ch, n)
      /\ n.shareSupply = ch.shareSupply /\ n.collateral = ch.collateral
  BY <1>1, <1>2, <1>4, AccrueSound
<1> QED
  BY <1>2, <1>3, <1>4, <1>5, OpenKeeps

LEMMA UpdateFeesKeeps ==
    ASSUME IInv, NEW v \in Vault, NEW c \in Child, updateVaultFees(v, c)
    PROVE  IInv'
<1> DEFINE ch == children[c]
           n == Checkpointed(ch, v)
<1>1. DOMAIN children = Child /\ Sound(parent, ch)
  BY IInvFacts
<1>2. /\ ch.state = "Operational" /\ n.uncheckpointed >= 0
      /\ UNCHANGED <<windowOpen, parent, forkData, token>>
  BY DEF updateVaultFees
<1>3. children' = [children EXCEPT ![c] = n]
  BY <1>1 DEF updateVaultFees
<1>4. n = Checkpointed(ch, v) /\ ch = children[c]
  OBVIOUS
<1> HIDE DEF ch, n
<1>5. Sound(parent, n) /\ SameButFees(ch, n)
  BY <1>1, <1>2, <1>4, CheckpointFacts
<1>6. /\ n.state = ch.state /\ SameMoved(ch, n)
      /\ n.shareSupply = ch.shareSupply /\ n.collateral = ch.collateral
  BY <1>5 DEF SameButFees, SameMoved
<1> QED
  BY <1>2, <1>3, <1>4, <1>5, <1>6, OpenKeeps

LEMMA ClaimProceedsKeeps ==
    ASSUME IInv, NEW v \in Vault, NEW c \in Child, claimAuctionProceeds(v, c)
    PROVE  IInv'
<1> DEFINE ch == children[c]
           n == Claimed(ch, v)
<1>1. DOMAIN children = Child /\ Sound(parent, ch)
  BY IInvFacts
<1>2. /\ ch.state = "Operational" /\ ch.won[v] # NoWinnings /\ ClaimAccepted(ch, v)
      /\ UNCHANGED <<windowOpen, parent, forkData, token>>
  BY DEF claimAuctionProceeds
<1>3. children' = [children EXCEPT ![c] = n]
  BY DEF claimAuctionProceeds, Claimed
<1>4. n = Claimed(ch, v) /\ ch = children[c]
  OBVIOUS
<1> HIDE DEF ch, n
<1>5. /\ Sound(parent, n) /\ n.state = ch.state /\ SameMoved(ch, n)
      /\ n.shareSupply = ch.shareSupply /\ n.collateral = ch.collateral
  BY <1>1, <1>2, <1>4, ClaimSound
<1> QED
  BY <1>2, <1>3, <1>4, <1>5, OpenKeeps

LEMMA RedeemRepKeeps ==
    ASSUME IInv, NEW v \in Vault, NEW c \in Child, redeemRepFromVault(v, c)
    PROVE  IInv'
<1> DEFINE before == children[c]
           ch == Checkpointed(before, v)
           units == ch.vaults[v].units
           out == backingUnitsToAttoRep(ch, units)
           n == Redeemed(ch, v, units, out)
<1>1. DOMAIN children = Child /\ Sound(parent, before)
  BY IInvFacts
<1>2. /\ ch.state = "Operational" /\ ch.uncheckpointed >= 0 /\ out > 0
      /\ UNCHANGED <<windowOpen, parent, forkData, token>>
  BY DEF redeemRepFromVault
<1>3. /\ ch = Checkpointed(before, v) /\ units = ch.vaults[v].units
      /\ out = backingUnitsToAttoRep(ch, units) /\ n = Redeemed(ch, v, units, out)
      /\ before = children[c]
  OBVIOUS
<1>4. children' = [children EXCEPT ![c] =
               [ch EXCEPT !.vaults[v].units = 0,
                          !.totals.units = @ - units,
                          !.rep = @ - out,
                          !.bought[v] = 0,
                          !.moved[v] = 0]]
  BY DEF redeemRepFromVault
<1> HIDE DEF before, ch, units, out, n
<1>5. Typed(before) /\ DOMAIN before = ChildFields
  BY <1>3, IInvFacts DEF Typed
<1>6. DOMAIN ch = ChildFields /\ ch.state = before.state
  BY <1>3, <1>5 DEF Checkpointed, ChildFields
<1>7. before.state = "Operational"
  BY <1>2, <1>6
<1>8. SameButFees(before, ch)
  BY <1>1, <1>3, <1>7, CheckpointFacts
<1>9. ch.totals = before.totals
  BY <1>8 DEF SameButFees
<1>10. [ch EXCEPT !.vaults[v].units = 0, !.totals.units = @ - units, !.rep = @ - out,
                  !.bought[v] = 0, !.moved[v] = 0] = n
  BY <1>3, <1>6 DEF Redeemed, ChildFields
<1>11. children' = [children EXCEPT ![c] = n]
  BY <1>4, <1>10
<1>12. /\ Sound(parent, n) /\ n.state = before.state /\ SameMoved(before, n)
       /\ n.shareSupply = before.shareSupply /\ n.collateral = before.collateral
  BY <1>1, <1>2, <1>3, <1>7, RedeemSound
<1> QED
  BY <1>2, <1>3, <1>7, <1>11, <1>12, OpenKeeps

\* A redemption: what can be claimed in the child falls by what it pays for.
LEMMA PayoutKeeps ==
    ASSUME IInv, NEW c \in Child, NEW amount \in Nat, children[c].state = "Operational",
           PaysOut(c, amount), TokenSound(token'),
           \A d \in Child \ {c}, o \in Child : Claims(d, o)' = Claims(d, o),
           \A o \in Child :
             /\ Claims(c, o) \in Int /\ Claims(c, o)' \in Int
             /\ Claims(c, o)' >= Claims(c, o) - amount
             /\ o \in Owed(c) => Claims(c, o)' = Claims(c, o) - amount
    PROVE  IInv'
<1> DEFINE ch == children[c]
           n == Paid(ch, amount)
<1>1. /\ ParentSound(parent) /\ DOMAIN children = Child
      /\ \A x \in Child : Sound(parent, children[x]) /\ SharesDue(x)
      /\ Ledger /\ Typed(ch) /\ ~windowOpen
  BY IInvFacts
<1>2. amount <= ch.shareSupply /\ UNCHANGED <<windowOpen, parent, forkData>>
  BY DEF PaysOut
<1>3. children' = [children EXCEPT ![c] = n]
  BY <1>1 DEF PaysOut, Paid, EthPaid
<1>4. /\ ch.shareSupply = 0 => ch.collateral = 0
      /\ \A o \in Child : /\ Claims(c, o) >= ch.shareSupply
                          /\ o \in Owed(c) => Claims(c, o) = ch.shareSupply
  BY <1>1 DEF SharesDue
<1>5. n = Paid(ch, amount) /\ ch = children[c]
  OBVIOUS
<1> HIDE DEF ch, n
<1>6. parent.snapshot \in Nat /\ ch.shareSupply \in Nat
  BY <1>1 DEF ParentSound, Typed
<1>7. /\ Sound(parent, n) /\ n.state = ch.state /\ SameMoved(ch, n)
      /\ n.shareSupply = ch.shareSupply - amount
      /\ n.shareSupply = 0 => n.collateral = 0
  BY <1>1, <1>2, <1>4, <1>5, <1>6, PayoutSound
<1>8. n.state = "Operational" /\ SameMoved(children[c], n)
  BY <1>5, <1>7
<1>9. Ledger'
  BY <1>1, <1>2, <1>3, <1>8, QuietEdit
<1>10. /\ DOMAIN children' = Child /\ children'[c] = n
       /\ \A d \in Child \ {c} : children'[d] = children[d]
  BY <1>1, <1>3
<1>11. \A o \in Child : /\ Claims(c, o)' >= n.shareSupply
                        /\ o \in Owed(c) => Claims(c, o)' = n.shareSupply
  BY <1>4, <1>6, <1>7
<1>15. \A d \in Child : Owed(d)' = Owed(d)
  BY <1>2 DEF Owed
<1>12. SharesDue(c)'
  BY <1>2, <1>7, <1>8, <1>10, <1>11, <1>15 DEF SharesDue
<1>13. \A d \in Child \ {c} : SharesDue(d)'
  BY <1>1, <1>2, <1>10, <1>15 DEF SharesDue
<1>14. \A d \in Child : Sound(parent', children'[d]) /\ SharesDue(d)'
  BY <1>1, <1>2, <1>7, <1>10, <1>12, <1>13
<1> QED
  BY <1>1, <1>2, <1>9, <1>10, <1>14 DEF IInv

LEMMA ClaimsInt ==
    ASSUME NEW t, TokenSound(t), NEW d \in Child, NEW q \in Child
    PROVE  SumFunctionOnSet(ClaimsOf(t, d, q), Vault) \in Int
<1> DEFINE was == ClaimsOf(t, d, q)
<1>1. \A w \in Vault : was[w] \in Nat
  BY TokenFacts
<1> HIDE DEF was
<1>2. SumFunctionOnSet(was, Vault) \in Int
  BY <1>1, ForkFacts, SumInt
<1> QED
  BY <1>2 DEF was

LEMMA RedeemSharesKeeps ==
    ASSUME IInv, NEW v \in Vault, NEW c \in Child, redeemShares(v, c)
    PROVE  IInv'
<1>1. PICK won \in getQuestionOutcome(c) :
         /\ burnTokenIdAndGetRemainingSupply(c, won, v) /\ PaysOut(c, token.child[c][won][v])
  BY DEF redeemShares
<1> DEFINE amount == token.child[c][won][v]
<1>2. TokenSound(token) /\ ParentSound(parent) /\ children[c].state = "Operational"
  BY IInvFacts DEF redeemShares
<1>7. won \in Child /\ \A o \in Owed(c) : o = won
  <2>1. CASE parent.sameQuestion
    BY <2>1 DEF Owed, getQuestionOutcome
  <2>2. CASE ~parent.sameQuestion
    <3>1. won \in parent.decided
      BY <2>2 DEF getQuestionOutcome
    <3> QED
      BY <1>2, <3>1 DEF Owed, ParentSound
  <2> QED
    BY <2>1, <2>2
<1>3. /\ TokenSound(token') /\ amount \in Nat
      /\ \A d, q \in Child : Claims(d, q)' = Claims(d, q) - IF d = c /\ q = won THEN amount ELSE 0
  BY <1>1, <1>2, <1>7, BurnKeeps
<1>4. \A d, q \in Child : Claims(d, q) \in Int /\ Claims(d, q)' \in Int
  BY <1>2, <1>3, ClaimsInt, ClaimsAreSums
<1> HIDE DEF amount
<1>5. \A d \in Child \ {c}, o \in Child : Claims(d, o)' = Claims(d, o)
  BY <1>3, <1>4
<1>6. \A o \in Child :
         /\ Claims(c, o) \in Int /\ Claims(c, o)' \in Int
         /\ Claims(c, o)' >= Claims(c, o) - amount
         /\ o \in Owed(c) => Claims(c, o)' = Claims(c, o) - amount
  <2>1. SUFFICES ASSUME NEW o \in Child
                 PROVE  /\ Claims(c, o)' >= Claims(c, o) - amount
                        /\ o \in Owed(c) => Claims(c, o)' = Claims(c, o) - amount
    BY <1>4
  <2>2. CASE o = won
    BY <1>3, <1>4, <2>2
  <2>3. CASE o # won
    BY <1>7, <1>3, <1>4, <2>3
  <2> QED
    BY <2>2, <2>3
<1>8. PaysOut(c, amount)
  BY <1>1 DEF amount
<1> QED
  BY <1>2, <1>3, <1>5, <1>6, <1>8, PayoutKeeps

LEMMA RedeemSetKeeps ==
    ASSUME IInv, NEW v \in Vault, NEW c \in Child, NEW amount \in Nat,
           redeemCompleteSet(v, c, amount)
    PROVE  IInv'
<1>1. /\ children[c].state = "Operational" /\ burnCompleteSets(c, v, amount)
      /\ PaysOut(c, amount)
  BY DEF redeemCompleteSet
<1>2. TokenSound(token)
  BY IInvFacts
<1>3. /\ TokenSound(token')
      /\ \A d, q \in Child : Claims(d, q)' = Claims(d, q) - IF d = c THEN amount ELSE 0
  BY <1>1, <1>2, BurnSetsKeep
<1>4. \A d, q \in Child : Claims(d, q) \in Int /\ Claims(d, q)' \in Int
  BY <1>2, <1>3, ClaimsInt, ClaimsAreSums
<1>5. \A d \in Child \ {c}, o \in Child : Claims(d, o)' = Claims(d, o)
  BY <1>3, <1>4
<1>6. \A o \in Child :
         /\ Claims(c, o) \in Int /\ Claims(c, o)' \in Int
         /\ Claims(c, o)' >= Claims(c, o) - amount
         /\ o \in Owed(c) => Claims(c, o)' = Claims(c, o) - amount
  BY <1>3, <1>4
<1> QED
  BY <1>1, <1>3, <1>5, <1>6, PayoutKeeps

\* migrate: the shares of a holder, and the child they may create.
LEMMA MigrateKeeps ==
    ASSUME IInv, NEW v \in Vault, NEW o \in Child, NEW targets \in SUBSET Child,
           migrate(v, o, targets)
    PROVE  IInv'
<1>1. /\ migrateShares(v, o, targets) /\ UNCHANGED <<windowOpen, parent, forkData>>
      /\ \/ UNCHANGED children
         \/ \E c \in Child :
              /\ windowOpen /\ children[c].state = "none"
              /\ children' = [children EXCEPT ![c] = _getOrDeployChildPool(c)]
  BY DEF migrate
<1>2. /\ ParentSound(parent) /\ TokenSound(token) /\ DOMAIN children = Child /\ Ledger
      /\ \A x \in Child : Sound(parent, children[x])
  BY IInvFacts
<1>3. TokenSound(token') /\ SameClaims(token, token')
  BY <1>1, <1>2, MigrateSharesKeeps
<1>4. CASE UNCHANGED children
  BY <1>1, <1>3, <1>4, TokenStep
<1>5. ASSUME NEW c \in Child, windowOpen, children[c].state = "none",
             children' = [children EXCEPT ![c] = _getOrDeployChildPool(c)]
      PROVE  IInv'
  <2> DEFINE n == _getOrDeployChildPool(c)
  <2>1. n = _getOrDeployChildPool(c) /\ children' = [children EXCEPT ![c] = n]
    BY <1>5
  <2> HIDE DEF n
  <2>2. children[c].state \in {"none", "ForkMigration"} /\ Sound(parent, children[c])
    BY <1>2, <1>5
  <2>3. Sound(parent, n) /\ n.state = "ForkMigration" /\ SameMoved(children[c], n)
    BY <1>2, <2>1, <2>2, DeploySound
  <2>4. DueAfter(c, n)
    BY <2>2, <2>3 DEF DueAfter
  <2>5. Ledger'
    BY <1>1, <1>2, <2>1, <2>3, QuietEdit
  <2>6. SameTerms(parent, parent') /\ ParentSound(parent') /\ windowOpen' = windowOpen
    BY <1>1, <1>2 DEF SameTerms
  <2> QED
    BY <1>3, <2>1, <2>3, <2>4, <2>5, <2>6, EditKeeps
<1> QED
  BY <1>1, <1>4, <1>5

\* A child that nobody created, at the fork.
LEMMA NoChildSound ==
    ASSUME NEW p, ParentSound(p)
    PROVE  Sound(p, NoChild)
<1>1. /\ Typed(NoChild) /\ NoChild.state = "none"
      /\ NoChild.migrated = 0 /\ NoChild.split = 0 /\ NoChild.migratedTotals = Nothing
  BY NoChildTyped DEF NoChild
<1>2. p.poolRep \in Nat /\ p.totalUnits \in Nat
  BY DEF ParentSound
<1>3. Migrating(p, NoChild)
  <2>1. NoChild.migratedTotals.units = 0
    BY <1>1 DEF Nothing
  <2>2. 0 * p.totalUnits = 0 /\ 0 * p.poolRep = 0
    BY <1>2
  <2> QED
    BY <1>1, <1>2, <2>1, <2>2 DEF Migrating
<1>4. Unborn(p, NoChild)
  BY <1>1, <1>2 DEF Unborn
<1> QED
  BY <1>1, <1>3, <1>4 DEF Sound

\* The parent at the fork, and its token.
AtFork(p) == [p EXCEPT !.snapshot = p.collateral, !.badDebtAtFork = p.totalBadDebt]

LEMMA AtForkFacts ==
    ASSUME NEW p \in Parents, NEW q, q = AtFork(p)
    PROVE  /\ ParentSound(q) /\ q.vaults = p.vaults /\ q.unclaimed = p.unclaimed
           /\ q.abandoned = p.abandoned /\ q.totalUnits = p.totalUnits
           /\ q.totalCapacity = p.totalCapacity /\ q.totalBadDebt = p.totalBadDebt
           /\ q.badDebtAtFork = p.totalBadDebt /\ q.collateral = p.collateral
           /\ q.snapshot = p.collateral /\ q.shareSupply = p.shareSupply
           /\ q.decided = p.decided /\ p.shares \in Shares /\ p.late \in Shares
<1>1. /\ p \in Pools /\ (p.shareSupply = 0 => p.collateral = 0) /\ (~p.hasGame => p.gameRep = 0)
      /\ p.hasGame => p.poolRep # 1
      /\ \A o, other \in p.decided : o = other
  BY ForkAssumption
<1>2. /\ DOMAIN p = ParentFields
      /\ p.poolRep \in Nat /\ p.gameRep \in Nat /\ p.collateral \in Nat /\ p.shareSupply \in Nat
      /\ p.price \in Nat /\ p.totalUnits \in Nat /\ p.totalCapacity \in Nat
      /\ p.totalBadDebt \in Nat
      /\ p.vaults \in Positions /\ p.unclaimed \in Positions /\ p.abandoned \in Amounts
      /\ p.traders \subseteq Vault /\ p.traded \subseteq Child /\ p.prices \subseteq Nat
      /\ p.shares \in Shares /\ p.late \in Shares /\ p.decided \subseteq Child
  BY <1>1 DEF Pools, ParentFields, Positions
<1>3. /\ DOMAIN q = ParentFields /\ q.snapshot = p.collateral /\ q.badDebtAtFork = p.totalBadDebt
      /\ q.hasGame = p.hasGame /\ q.poolRep = p.poolRep /\ q.gameRep = p.gameRep
      /\ q.collateral = p.collateral
      /\ q.shareSupply = p.shareSupply /\ q.price = p.price /\ q.totalUnits = p.totalUnits
      /\ q.totalCapacity = p.totalCapacity /\ q.totalBadDebt = p.totalBadDebt
      /\ q.vaults = p.vaults /\ q.unclaimed = p.unclaimed /\ q.abandoned = p.abandoned
      /\ q.traders = p.traders /\ q.traded = p.traded /\ q.prices = p.prices
      /\ q.decided = p.decided
  BY <1>2 DEF AtFork, ParentFields
<1>4. ParentSound(q)
  BY <1>1, <1>2, <1>3 DEF ParentSound
<1> QED
  BY <1>2, <1>3, <1>4

LEMMA InitLedger ==
    ASSUME NEW p \in Parents, parent = AtFork(p), children = [c \in Child |-> NoChild],
           forkData = [allocated |-> 0, transferred |-> 0]
    PROVE  Ledger
<1>1. /\ ParentSound(parent) /\ parent.vaults = p.vaults /\ parent.unclaimed = p.unclaimed
      /\ parent.abandoned = p.abandoned /\ parent.totalUnits = p.totalUnits
      /\ parent.totalCapacity = p.totalCapacity /\ parent.totalBadDebt = p.totalBadDebt
      /\ parent.badDebtAtFork = p.totalBadDebt /\ parent.collateral = p.collateral
      /\ parent.snapshot = p.collateral
  BY AtForkFacts
<1>2. \A c \in Child : /\ children[c].migrated = 0 /\ children[c].received = 0
                       /\ children[c].migratedTotals.units = 0
                       /\ children[c].migratedTotals.capacity = 0
                       /\ children[c].migratedTotals.badDebt = 0
  BY DEF NoChild, Nothing
<1>3. /\ UnitsMigrated = 0 /\ CapacityMigrated = 0 /\ BadDebtMigrated = 0
      /\ Received = 0 /\ Migrated = 0
  <2>1. IsFiniteSet(Child)
    BY ForkFacts
  <2> DEFINE f1 == [c \in Child |-> children[c].migratedTotals.units]
             f2 == [c \in Child |-> children[c].migratedTotals.capacity]
             f3 == [c \in Child |-> children[c].migratedTotals.badDebt]
             f4 == [c \in Child |-> children[c].received]
             f5 == [c \in Child |-> children[c].migrated]
  <2>2. \A c \in Child : f1[c] = 0 /\ f2[c] = 0 /\ f3[c] = 0 /\ f4[c] = 0 /\ f5[c] = 0
    BY <1>2
  <2>3. /\ UnitsMigrated = SumFunctionOnSet(f1, Child)
        /\ CapacityMigrated = SumFunctionOnSet(f2, Child)
        /\ BadDebtMigrated = SumFunctionOnSet(f3, Child)
        /\ Received = SumFunctionOnSet(f4, Child) /\ Migrated = SumFunctionOnSet(f5, Child)
    BY DEF UnitsMigrated, CapacityMigrated, BadDebtMigrated, Received, Migrated
  <2> HIDE DEF f1, f2, f3, f4, f5
  <2>4. ASSUME NEW f, \A c \in Child : f[c] = 0
        PROVE  SumFunctionOnSet(f, Child) = 0
    BY <2>1, <2>4, SumZero
  <2>5. SumFunctionOnSet(f1, Child) = 0
    BY <2>2, <2>4
  <2>6. SumFunctionOnSet(f2, Child) = 0
    BY <2>2, <2>4
  <2>7. SumFunctionOnSet(f3, Child) = 0
    BY <2>2, <2>4
  <2>8. SumFunctionOnSet(f4, Child) = 0
    BY <2>2, <2>4
  <2>9. SumFunctionOnSet(f5, Child) = 0
    BY <2>2, <2>4
  <2> QED
    BY <2>3, <2>5, <2>6, <2>7, <2>8, <2>9
<1>4. Plus(Plus(HeldBy(p), Total(p.unclaimed)), p.abandoned)
        = [units |-> p.totalUnits, capacity |-> p.totalCapacity, badDebt |-> p.totalBadDebt]
  BY ForkAssumption
<1>5. HeldBy(parent) = HeldBy(p) /\ Total(parent.unclaimed) = Total(p.unclaimed)
  BY <1>1 DEF HeldBy
<1>6. /\ HeldBy(parent).units \in Nat /\ HeldBy(parent).capacity \in Nat
      /\ HeldBy(parent).badDebt \in Nat
      /\ Total(parent.unclaimed).units \in Nat /\ Total(parent.unclaimed).capacity \in Nat
      /\ Total(parent.unclaimed).badDebt \in Nat
      /\ parent.abandoned.units \in Nat /\ parent.abandoned.capacity \in Nat
      /\ parent.abandoned.badDebt \in Nat
  BY <1>1, TotalFacts, AmountFields DEF ParentSound, HeldBy
<1>7. /\ HeldBy(parent).units + Total(parent.unclaimed).units + parent.abandoned.units
           = parent.totalUnits
      /\ HeldBy(parent).capacity + Total(parent.unclaimed).capacity + parent.abandoned.capacity
           = parent.totalCapacity
      /\ HeldBy(parent).badDebt + Total(parent.unclaimed).badDebt + parent.abandoned.badDebt
           = parent.totalBadDebt
  BY <1>1, <1>4, <1>5 DEF Plus
<1>8. /\ parent.poolRep \in Nat /\ parent.snapshot \in Nat /\ parent.collateral \in Nat
      /\ parent.totalBadDebt \in Nat
  BY <1>1 DEF ParentSound
<1>9. parent.poolRep > 0 => CeilDiv(parent.snapshot * 0, parent.poolRep) = 0
  <2>1. SUFFICES ASSUME parent.poolRep > 0
                 PROVE  CeilDiv(parent.snapshot * 0, parent.poolRep) = 0
    OBVIOUS
  <2>2. parent.snapshot * 0 = 0
    BY <1>8
  <2>3. CeilDiv(0, parent.poolRep) \in Nat /\ (0 <= 0 * parent.poolRep => CeilDiv(0, parent.poolRep) <= 0)
    BY <1>8, <2>1, CeilDivFacts
  <2>4. 0 * parent.poolRep = 0
    BY <1>8
  <2> QED
    BY <2>2, <2>3, <2>4
<1>10. DOMAIN forkData = {"allocated", "transferred"} /\ forkData.allocated = 0 /\ forkData.transferred = 0
  OBVIOUS
<1>11. /\ HeldBy(parent).units + Total(parent.unclaimed).units <= parent.totalUnits
       /\ HeldBy(parent).capacity + Total(parent.unclaimed).capacity <= parent.totalCapacity
  BY <1>6, <1>7
<1> QED
  BY <1>1, <1>3, <1>6, <1>7, <1>8, <1>9, <1>10, <1>11 DEF Ledger

LEMMA InitToken ==
    ASSUME NEW s \in Shares, NEW l \in Shares, NEW t, t = FreshToken(s, l)
    PROVE  /\ TokenSound(t)
           /\ \A c, o \in Child : SumFunctionOnSet(ClaimsOf(t, c, o), Vault) = SumOf(s[o]) + SumOf(l[o])
<1>1. /\ DOMAIN t = TokenFields /\ t.source = s /\ t.late = l /\ t.child = [c \in Child |-> NoShares]
      /\ t.migrated = [c \in Child |-> NoShares]
      /\ t.locked = [o \in Child |-> [v \in Vault |-> FALSE]] /\ t.call = {}
  BY DEF FreshToken, TokenFields
<1>2. NoShares \in Shares
  BY DEF NoShares, Shares
<1>3. \A c, o \in Child, v \in Vault : /\ s[o][v] \in Nat /\ l[o][v] \in Nat
                                       /\ t.child[c][o][v] = 0 /\ t.migrated[c][o][v] = 0
  BY <1>1 DEF NoShares, Shares
<1>4. TokenSound(t)
  BY <1>1, <1>2, <1>3 DEF TokenSound, TokenFields
<1>5. ASSUME NEW c \in Child, NEW o \in Child
      PROVE  SumFunctionOnSet(ClaimsOf(t, c, o), Vault) = SumOf(s[o]) + SumOf(l[o])
  <2> DEFINE f == s[o]
             h == l[o]
             g == ClaimsOf(t, c, o)
  <2>1. \A v \in Vault : f[v] \in Int /\ h[v] \in Int /\ g[v] = f[v] + h[v]
    <3>1. \A v \in Vault : /\ f[v] \in Nat /\ h[v] \in Nat /\ t.child[c][o][v] = 0
                           /\ t.migrated[c][o][v] = 0
                           /\ t.source[o][v] = f[v] /\ t.late[o][v] = h[v]
      BY <1>1, <1>3
    <3>2. \A v \in Vault : g[v] = t.child[c][o][v] + (t.source[o][v] + t.late[o][v]
                                    - t.migrated[c][o][v])
      BY DEF ClaimsOf
    <3> HIDE DEF f, g, h
    <3> QED
      BY <3>1, <3>2
  <2> HIDE DEF f, g, h
  <2>2. SumFunctionOnSet(g, Vault) = SumFunctionOnSet(f, Vault) + SumFunctionOnSet(h, Vault)
    BY <2>1, ForkFacts, SumPlus
  <2> QED
    BY <2>2 DEF SumOf, f, g, h
<1> QED
  BY <1>4, <1>5

LEMMA InitKeeps ==
    ASSUME Init
    PROVE  IInv
<1>1. PICK p \in Parents :
         /\ parent = [p EXCEPT !.snapshot = p.collateral, !.badDebtAtFork = p.totalBadDebt]
         /\ token = FreshToken(p.shares, p.late)
  BY DEF Init
<1>2. /\ windowOpen = TRUE /\ children = [c \in Child |-> NoChild]
      /\ forkData = [allocated |-> 0, transferred |-> 0]
  BY DEF Init
<1>3. parent = AtFork(p)
  BY <1>1 DEF AtFork
<1>4. ParentSound(parent) /\ parent.shareSupply = p.shareSupply /\ parent.decided = p.decided
      /\ p.shares \in Shares /\ p.late \in Shares
  BY <1>3, AtForkFacts
<1>5. Ledger
  BY <1>2, <1>3, InitLedger
<1>6. /\ TokenSound(token)
      /\ \A c, o \in Child : Claims(c, o) = SumOf(p.shares[o]) + SumOf(p.late[o])
  <2>1. /\ TokenSound(token)
        /\ \A c, o \in Child :
             SumFunctionOnSet(ClaimsOf(token, c, o), Vault) = SumOf(p.shares[o]) + SumOf(p.late[o])
    BY <1>1, <1>4, InitToken
  <2> QED
    BY <2>1, ClaimsAreSums
<1>7. \A o \in Child :
         /\ SumOf(p.shares[o]) + SumOf(p.late[o]) >= p.shareSupply
         /\ p.decided = {} \/ o \in p.decided =>
              SumOf(p.shares[o]) + SumOf(p.late[o]) = p.shareSupply
  BY ForkAssumption
<1>8. Sound(parent, NoChild) /\ NoChild.state = "none"
  BY <1>4, NoChildSound, NoChildTyped
<1>9. \A c \in Child : children[c] = NoChild
  BY <1>2
<1>12. \A c, o \in Child : o \in Owed(c) => p.decided = {} \/ o \in p.decided
  BY <1>4 DEF Owed
<1>10. \A c \in Child : SharesDue(c)
  BY <1>4, <1>6, <1>7, <1>8, <1>9, <1>12 DEF SharesDue
<1>11. DOMAIN children = Child
  BY <1>2
<1> QED
  BY <1>2, <1>4, <1>5, <1>6, <1>8, <1>9, <1>10, <1>11 DEF IInv

LEMMA TradeKeeps ==
    ASSUME IInv, NEW v \in Vault, TradeShares(v)
    PROVE  IInv'
<1>1. ParentSound(parent) /\ TokenSound(token)
  BY IInvFacts
<1>2. parent.traded \subseteq Child
  BY <1>1 DEF ParentSound
<1>3. ASSUME NEW o \in Child, NEW targets \in SUBSET Child, migrate(v, o, targets)
      PROVE  IInv'
  BY <1>3, MigrateKeeps
<1>4. ASSUME NEW o \in parent.traded, NEW to \in Vault, NEW amount \in 1 .. token.source[o][v],
             OnlyToken(transferSource(o, v, to, amount))
      PROVE  IInv'
  <2>1. o \in Child /\ amount \in Nat /\ transferSource(o, v, to, amount)
        /\ UNCHANGED <<windowOpen, parent, forkData, children>>
    BY <1>2, <1>4 DEF OnlyToken
  <2>2. TokenSound(token') /\ SameClaims(token, token')
    BY <1>1, <2>1, TransferSourceKeeps
  <2> QED
    BY <2>1, <2>2, TokenStep
<1>5. ASSUME NEW c \in Auctioned, NEW o \in parent.traded, NEW to \in Vault,
             NEW amount \in 1 .. token.child[c][o][v],
             OnlyToken(transferChild(c, o, v, to, amount))
      PROVE  IInv'
  <2>1. c \in Child /\ o \in Child /\ amount \in Nat /\ transferChild(c, o, v, to, amount)
        /\ UNCHANGED <<windowOpen, parent, forkData, children>>
    BY <1>2, <1>5, ForkFacts DEF OnlyToken
  <2>2. TokenSound(token') /\ SameClaims(token, token')
    BY <1>1, <2>1, TransferChildKeeps
  <2> QED
    BY <2>1, <2>2, TokenStep
<1>6. ASSUME NEW c \in Auctioned, redeemShares(v, c)
      PROVE  IInv'
  BY <1>6, ForkFacts, RedeemSharesKeeps
<1>7. ASSUME NEW c \in Auctioned, NEW amount \in 1 .. children[c].shareSupply,
             redeemCompleteSet(v, c, amount)
      PROVE  IInv'
  <2>1. c \in Child /\ amount \in Nat
    BY ForkFacts
  <2> QED
    BY <1>7, <2>1, RedeemSetKeeps
<1>8. ASSUME NEW o \in Child, NEW amount \in 1 .. token.late[o][v],
             OnlyToken(migrateIntoSource(v, o, amount))
      PROVE  IInv'
  <2>1. amount \in Nat /\ migrateIntoSource(v, o, amount)
        /\ UNCHANGED <<windowOpen, parent, forkData, children>>
    BY <1>8 DEF OnlyToken
  <2>2. TokenSound(token') /\ SameClaims(token, token')
    BY <1>1, <2>1, ArrivalKeeps
  <2> QED
    BY <2>1, <2>2, TokenStep
<1>9. ASSUME NEW o \in parent.traded, NEW to \in Vault, NEW amount \in 1 .. token.late[o][v],
             OnlyToken(transferLate(o, v, to, amount))
      PROVE  IInv'
  <2>1. o \in Child /\ amount \in Nat /\ transferLate(o, v, to, amount)
        /\ UNCHANGED <<windowOpen, parent, forkData, children>>
    BY <1>2, <1>9 DEF OnlyToken
  <2>2. TokenSound(token') /\ SameClaims(token, token')
    BY <1>1, <2>1, TransferLateKeeps
  <2> QED
    BY <2>1, <2>2, TokenStep
<1> QED
  BY <1>3, <1>4, <1>5, <1>6, <1>7, <1>8, <1>9 DEF TradeShares

LEMMA AuctionedKeeps ==
    ASSUME IInv, NEW c \in Auctioned,
           \/ \E price \in parent.prices : openOracleCallback(c, price)
           \/ startTruthAuction(c)
           \/ finalizeTruthAuction(c)
           \/ Accrue(c)
           \/ \E v \in Vault : \/ updateVaultFees(v, c)
                               \/ claimAuctionProceeds(v, c)
                               \/ redeemRepFromVault(v, c)
    PROVE  IInv'
<1>1. c \in Child /\ parent.prices \subseteq Nat
  BY ForkFacts, IInvFacts DEF ParentSound
<1>2. ASSUME NEW price \in parent.prices, openOracleCallback(c, price) PROVE IInv'
  BY <1>1, <1>2, CallbackKeeps
<1>3. CASE startTruthAuction(c)
  BY <1>1, <1>3, StartKeeps
<1>4. CASE finalizeTruthAuction(c)
  BY <1>1, <1>4, FinishKeeps
<1>5. CASE Accrue(c)
  BY <1>1, <1>5, AccrueKeeps
<1>6. ASSUME NEW v \in Vault, updateVaultFees(v, c) PROVE IInv'
  BY <1>1, <1>6, UpdateFeesKeeps
<1>7. ASSUME NEW v \in Vault, claimAuctionProceeds(v, c) PROVE IInv'
  BY <1>1, <1>7, ClaimProceedsKeeps
<1>8. ASSUME NEW v \in Vault, redeemRepFromVault(v, c) PROVE IInv'
  BY <1>1, <1>8, RedeemRepKeeps
<1> QED
  BY <1>2, <1>3, <1>4, <1>5, <1>6, <1>7, <1>8

LEMMA StaysSound ==
    ASSUME IInv, UNCHANGED vars
    PROVE  IInv'
<1>1. UNCHANGED <<windowOpen, parent, forkData, children, token>>
  BY DEF vars
<1>2. TokenSound(token)
  BY IInvFacts
<1>3. TokenSound(token') /\ SameClaims(token, token')
  BY <1>1, <1>2 DEF SameClaims
<1> QED
  BY <1>1, <1>3, TokenStep

LEMMA NextKeeps ==
    ASSUME IInv, [Next]_vars
    PROVE  IInv'
<1>1. CASE MigrationEnds
  BY <1>1, MigrationEndsStep
<1>2. CASE OnlyToken(resumeMigration)
  <2>1. resumeMigration /\ UNCHANGED <<windowOpen, parent, forkData, children>>
    BY <1>2 DEF OnlyToken
  <2>2. TokenSound(token)
    BY IInvFacts
  <2>3. TokenSound(token') /\ SameClaims(token, token')
    BY <2>1, <2>2, ResumeKeeps
  <2> QED
    BY <2>1, <2>3, TokenStep
<1>3. ASSUME NEW v \in parent.traders, TradeShares(v) PROVE IInv'
  <2>1. v \in Vault
    BY IInvFacts DEF ParentSound
  <2> QED
    BY <1>3, <2>1, TradeKeeps
<1>4. ASSUME NEW v \in Vault, ClaimInParent(v) PROVE IInv'
  BY <1>4, ClaimInParentStep
<1>5. ASSUME NEW c \in Child, createChildUniverse(c) PROVE IInv'
  BY <1>5, CreateKeeps
<1>6. ASSUME NEW c \in Child, migrateRepToZoltar(c) PROVE IInv'
  BY <1>6, SplitKeeps
<1>7. ASSUME NEW c \in Child, NEW v \in Vault, migrateVault(v, c) PROVE IInv'
  BY <1>7, MigrateVaultKeeps
<1>8. ASSUME NEW c \in Child, NEW rep \in 1 .. children[c].game + parent.gameRep,
             claimForkedEscalationDeposits(c, rep)
      PROVE  IInv'
  BY <1>8, ClaimDepositsKeeps
<1>9. ASSUME NEW c \in Auctioned,
             \/ \E price \in parent.prices : openOracleCallback(c, price)
             \/ startTruthAuction(c)
             \/ finalizeTruthAuction(c)
             \/ Accrue(c)
             \/ \E v \in Vault : \/ updateVaultFees(v, c)
                                 \/ claimAuctionProceeds(v, c)
                                 \/ redeemRepFromVault(v, c)
      PROVE  IInv'
  BY <1>9, AuctionedKeeps
<1>10. CASE UNCHANGED vars
  BY <1>10, StaysSound
<1> QED
  BY <1>1, <1>2, <1>3, <1>4, <1>5, <1>6, <1>7, <1>8, <1>9, <1>10 DEF Next

\* Every reachable state is sound: the parent, its children, what they hold of it
\* and the shares they owe.
THEOREM Invariance == Spec => []IInv
<1>1. Init => IInv
  BY InitKeeps
<1>2. IInv /\ [Next]_vars => IInv'
  BY NextKeeps
<1> QED
  BY <1>1, <1>2, PTL DEF Spec

-----------------------------------------------------------------------------
(* What the runs check, in every sound state.                              *)

LEMMA SoundConserves ==
    ASSUME IInv
    PROVE  CollateralConserved
<1>1. /\ ParentSound(parent) /\ Ledger
      /\ \A x \in Child : Sound(parent, children[x]) /\ Typed(children[x])
  BY IInvFacts
<1>2. parent.snapshot \in Nat /\ parent.collateral \in Nat
  BY <1>1 DEF ParentSound
<1>3. Migrated <= parent.poolRep
  BY <1>1, MigratedAtMost
<1>4. ASSUME NEW c \in Child PROVE children[c].collateral <= parent.snapshot
  <2> DEFINE ch == children[c]
  <2>1. Sound(parent, ch) /\ ch.state \in {"none", "ForkMigration", "ForkTruthAuction", "Operational"}
    BY <1>1 DEF Typed
  <2> HIDE DEF ch
  <2>2. CASE ch.state = "none"
    <3>1. Unborn(parent, ch)
      BY <2>1, <2>2 DEF Sound
    <3>2. ch.collateral = 0
      BY <3>1, UnbornFields
    <3> QED
      BY <1>2, <3>2 DEF ch
  <2>3. CASE ch.state \in {"ForkMigration", "ForkTruthAuction"}
    <3>1. ch.collateral = 0
      BY <2>1, <2>3 DEF Sound, Closed
    <3> QED
      BY <1>2, <3>1 DEF ch
  <2>4. CASE ch.state = "Operational"
    BY <2>1, <2>4 DEF Sound, Open, ch
  <2> QED
    BY <2>1, <2>2, <2>3, <2>4
<1> QED
  BY <1>1, <1>2, <1>3, <1>4 DEF CollateralConserved, Ledger

LEMMA SoundReconciles ==
    ASSUME IInv
    PROVE  PositionsReconcile
<1>1. /\ ParentSound(parent) /\ Ledger
      /\ \A x \in Child : Sound(parent, children[x]) /\ Typed(children[x])
  BY IInvFacts
<1>2. /\ HeldBy(parent).badDebt + Total(parent.unclaimed).badDebt + parent.abandoned.badDebt
           = parent.totalBadDebt
      /\ parent.badDebtAtFork = parent.totalBadDebt
           + SumFunctionOnSet([c \in Child |-> children[c].migratedTotals.badDebt], Child)
  BY <1>1 DEF Ledger, BadDebtMigrated
<1>3. ASSUME NEW c \in Child, children[c].state # "Operational"
      PROVE  HeldBy(children[c]) = [children[c].migratedTotals EXCEPT !.units = children[c].migrated]
  <2> DEFINE ch == children[c]
  <2>1. Sound(parent, ch) /\ ch.state \in {"none", "ForkMigration", "ForkTruthAuction"}
    BY <1>1, <1>3 DEF Typed
  <2> HIDE DEF ch
  <2>2. CASE ch.state = "none"
    <3>1. Unborn(parent, ch)
      BY <2>1, <2>2 DEF Sound
    <3>2. /\ \A v \in Vault : ch.vaults[v] = Nothing
          /\ ch.migratedTotals = Nothing /\ ch.migrated = 0
      BY <3>1, UnbornFields
    <3>3. HeldBy(ch) = Nothing
      BY <3>2, TotalOfNothing DEF HeldBy
    <3>4. [Nothing EXCEPT !.units = 0] = Nothing
      BY DEF Nothing
    <3> QED
      BY <3>2, <3>3, <3>4 DEF ch
  <2>3. CASE ch.state \in {"ForkMigration", "ForkTruthAuction"}
    BY <2>1, <2>3 DEF Sound, Closed, ch
  <2> QED
    BY <2>1, <2>2, <2>3
<1>4. ASSUME NEW c \in Child, children[c].state = "Operational",
             NEW won, won = Total([v \in Vault |-> WonBy(children[c], v)])
      PROVE  /\ Plus(HeldBy(children[c]), children[c].unassigned) = children[c].totals
             /\ won.units <= children[c].unassigned.units
             /\ children[c].ethRaised > 0 =>
                  /\ won.capacity = children[c].unassigned.capacity
                  /\ won.badDebt = children[c].unassigned.badDebt
  <2> DEFINE ch == children[c]
             f == [v \in Vault |-> ch.won[v].rep]
             g == [v \in Vault |-> ch.won[v].rep * ch.rate]
             k == UnitsPerRep(ch)
  <2>1. Sound(parent, ch) /\ ch.state = "Operational"
    BY <1>1, <1>4
  <2>2. /\ Positioned(ch) /\ k \in Nat
    BY <2>1, OpenFacts
  <2>3. \A v \in Vault : /\ ch.won[v].rep \in Nat
                         /\ ch.won[v].rep * k = ch.won[v].rep * ch.rate
    BY <2>1, WonFacts
  <2>4. /\ won.units = SumFunctionOnSet(g, Vault) /\ won.capacity = WonCapacity(ch)
        /\ won.badDebt = WonBadDebt(ch)
    BY <1>4 DEF Total, SumOf, WonBy, WonCapacity, WonBadDebt
  <2>5. WonRep(ch) = SumFunctionOnSet(f, Vault)
    BY DEF WonRep, SumOf
  <2>6. \A v \in Vault : f[v] \in Int /\ g[v] = f[v] * k
    BY <2>3
  <2> HIDE DEF f, g, k
  <2>7. SumFunctionOnSet(g, Vault) = SumFunctionOnSet(f, Vault) * k
    BY <2>2, <2>6, ForkFacts, SumTimes
  <2>8. WonRep(ch) * k <= ch.unassigned.units
    BY <2>2 DEF Positioned, k
  <2> QED
    BY <2>2, <2>4, <2>5, <2>7, <2>8 DEF Positioned
<1>5. Auctioned \subseteq Child
  BY ForkFacts
<1> QED
  BY <1>2, <1>3, <1>4, <1>5 DEF PositionsReconcile

LEMMA SoundEarnsFees ==
    ASSUME IInv
    PROVE  SoldCapacityEarnsFees
<1>1. SUFFICES ASSUME NEW c \in Auctioned, children[c].state = "Operational",
                      children[c].purchased > 0 \/ children[c].ethRaised = 0
               PROVE  /\ children[c].feeEligible = HeldBy(children[c]).capacity
                           + IF children[c].purchased > 0 THEN children[c].unassigned.capacity ELSE 0
                      /\ children[c].uncheckpointed =
                           SumFunctionOnSet([v \in Vault |-> children[c].vaults[v].capacity],
                                            children[c].stale)
                             + IF children[c].accrued /\ children[c].purchased > 0
                               THEN children[c].unassigned.capacity ELSE 0
  BY DEF SoldCapacityEarnsFees
<1>2. Sound(parent, children[c])
  BY ForkFacts, IInvFacts
<1>3. FeesSound(children[c])
  BY <1>1, <1>2, OpenFacts
<1> QED
  BY <1>1, <1>3 DEF FeesSound, Priced, Sold, StaleCapacity

LEMMA SoundCovers ==
    ASSUME IInv
    PROVE  SharesCovered
<1>1. TokenSound(token) /\ \A c \in Child : SharesDue(c)
  BY IInvFacts
<1>2. \A c, o \in Child, v \in Vault : token.migrated[c][o][v] <= token.source[o][v]
  BY <1>1, TokenFacts
<1> QED
  BY <1>1, <1>2 DEF SharesCovered, SharesDue

LEMMA SoundRefusesNothing ==
    ASSUME IInv
    PROVE  OnlyThePriceRefuses
<1>1. /\ ParentSound(parent) /\ DOMAIN children = Child /\ Ledger
      /\ \A x \in Child : Sound(parent, children[x])
      /\ windowOpen => \A x \in Child : children[x].state \in {"none", "ForkMigration"}
  BY IInvFacts
<1>2. ASSUME windowOpen, NEW v \in Vault, NEW c \in Child
      PROVE  MigrationAccepted(_getOrDeployChildPool(c), MigratedRep(_getOrDeployChildPool(c), v))
  <2> DEFINE child == _getOrDeployChildPool(c)
             rep == MigratedRep(child, v)
             backed == _ensureChildPoolRepSplit(child, child.migrated + rep)
  <2>1. /\ child = _getOrDeployChildPool(c) /\ rep = MigratedRep(child, v)
        /\ backed = _ensureChildPoolRepSplit(child, child.migrated + rep)
    OBVIOUS
  <2>2. children[c].state \in {"none", "ForkMigration"}
    BY <1>1, <1>2
  <2> HIDE DEF child, rep, backed
  <2>3. MigrationAccepted(child, rep)
    BY <1>1, <2>1, <2>2, MigrationFits
  <2> QED
    BY <2>1, <2>3
<1>3. ASSUME NEW c \in Child, children[c].state = "ForkMigration"
      PROVE  /\ AboutToAuction(c).rep >= parent.poolRep
             /\ IF _computeSettlementCollateralToRaise(AboutToAuction(c)) = 0
                THEN FinalizationAccepted(AboutToAuction(c))
                ELSE _getTruthAuctionCap(AboutToAuction(c)) > 0
  <2> DEFINE n == AboutToAuction(c)
             raise == _computeSettlementCollateralToRaise(n)
             cap == _getTruthAuctionCap(n)
  <2>1. /\ n = AboutToAuction(c) /\ raise = _computeSettlementCollateralToRaise(n)
        /\ cap = _getTruthAuctionCap(n)
    OBVIOUS
  <2> HIDE DEF n, raise, cap
  <2>2. IsDue(n)
    BY <1>1, <1>3, <2>1, AboutDue
  <2>3. n.rep = parent.poolRep /\ parent.poolRep \in Nat /\ Typed(n) /\ Closed(parent, n)
    BY <1>1, <2>2 DEF IsDue, ParentSound
  <2>4. FinalizationAccepted(n)
    BY <1>1, <2>2, DueSettles, FinalizationFacts
  <2>5. raise # 0 => cap > 0
    <3>1. SUFFICES ASSUME raise # 0 PROVE cap > 0
      OBVIOUS
    <3>2. raise \in Nat /\ (raise > 0 => n.migrated < parent.poolRep)
      BY <1>1, <2>1, <2>2, RaiseFacts
    <3>3. n.migrated < parent.poolRep
      BY <3>1, <3>2
    <3> QED
      BY <1>1, <2>1, <2>3, <3>3, CapFacts
  <2> QED
    BY <2>1, <2>3, <2>4, <2>5
<1>4. ASSUME NEW c \in Child, children[c].state = "ForkTruthAuction",
             NEW outcome \in Outcomes(children[c])
      PROVE  FinalizationAccepted([children[c] EXCEPT !.ethRaised = outcome[1],
                                                      !.purchased = outcome[2]])
  <2> DEFINE n == Ended(children[c], outcome)
  <2>1. n = Ended(children[c], outcome)
    OBVIOUS
  <2> HIDE DEF n
  <2>2. Settling(parent, n)
    BY <1>1, <1>4, <2>1, OutcomeSettles
  <2>3. FinalizationAccepted(n)
    BY <1>1, <2>2, FinalizationFacts
  <2> QED
    BY <2>1, <2>3 DEF Ended
<1>5. ASSUME NEW c \in Child, children[c].state = "Operational",
             children[c].purchased > 0 \/ children[c].ethRaised = 0, NEW v \in Vault
      PROVE  ClaimAccepted(children[c], v) /\ Checkpointed(children[c], v).uncheckpointed >= 0
  <2> DEFINE ch == children[c]
             n == Checkpointed(ch, v)
  <2>1. Sound(parent, ch) /\ ch.state = "Operational" /\ Priced(ch)
    BY <1>1, <1>5 DEF Priced, Sold
  <2>2. n = Checkpointed(ch, v)
    OBVIOUS
  <2> HIDE DEF ch, n
  <2>3. ClaimAccepted(ch, v)
    BY <2>1, ClaimFacts
  <2>4. n.uncheckpointed >= 0
    BY <2>1, <2>2, CheckpointFacts
  <2> QED
    BY <2>2, <2>3, <2>4 DEF ch
<1>6. Auctioned \subseteq Child
  BY ForkFacts
<1> QED
  BY <1>2, <1>3, <1>4, <1>5, <1>6 DEF OnlyThePriceRefuses

\* A buyer's units claim what he bought, at any rate.
LEMMA UnitsClaim ==
    ASSUME NEW units \in Nat, NEW rep \in Nat, NEW total \in Nat, NEW rate \in Nat,
           NEW bought \in Nat, total > 0, units >= bought * rate, rep * rate >= total
    PROVE  (units * rep) \div total >= bought
<1> DEFINE cost == bought * rate
           value == rep * rate
           claim == units * rep
<1>1. cost \in Nat /\ value \in Nat /\ claim \in Nat
  BY ProductNat
<1>2. cost * rep <= claim
  BY <1>1, ProductMonotone
<1>3. bought * total <= bought * value
  BY <1>1, ProductMonotone
<1>4. cost * rep = bought * value
  OBVIOUS
<1>5. bought * total \in Nat /\ cost * rep \in Nat
  BY <1>1, ProductNat
<1> HIDE DEF cost, value, claim
<1>6. bought * total <= claim
  BY <1>1, <1>2, <1>3, <1>4, <1>5
<1>7. bought <= claim \div total
  BY <1>1, <1>6, QuotientAtMost
<1>8. claim \div total \in Nat
  BY <1>1, Quotient
<1> QED
  BY <1>7, <1>8 DEF claim

LEMMA OpenBacks ==
    ASSUME NEW p, NEW ch, Sound(p, ch), ch.state = "Operational"
    PROVE  /\ ch.rep >= SumOf([v \in Vault |-> ch.bought[v] + ch.won[v].rep])
                          + IF \E v \in Vault : ch.moved[v] > 0 THEN 1 ELSE 0
           /\ \A v \in Vault : backingUnitsToAttoRep(ch, ch.vaults[v].units) >= ch.bought[v]
<1> DEFINE k == UnitsPerRep(ch)
           T == ch.totals.units
           U == HeldBy(ch).units
           rest == ch.unassigned.units
           W == WonRep(ch)
           bought == [v \in Vault |-> ch.bought[v]]
           won == [v \in Vault |-> ch.won[v].rep]
           moved == [v \in Vault |-> ch.moved[v]]
           units == UnitsOf(ch.vaults)
           cost == [v \in Vault |-> ch.bought[v] * k]
           owed == [v \in Vault |-> cost[v] + moved[v]]
           both == [v \in Vault |-> ch.bought[v] + ch.won[v].rep]
           B == SumFunctionOnSet(bought, Vault)
           M == SumFunctionOnSet(moved, Vault)
<1>1. /\ Typed(ch) /\ Positioned(ch) /\ Worth(ch) /\ k \in Nat /\ k > 0 /\ U \in Nat
  BY OpenFacts
<1>2. /\ ch.rep \in Nat /\ T \in Nat /\ rest \in Nat /\ ch.vaults \in Positions
      /\ ch.bought \in [Vault -> Nat] /\ ch.moved \in [Vault -> Nat]
      /\ ch.won \in [Vault -> Winnings]
  BY <1>1, AmountFields DEF Typed
<1>3. /\ ch.rep * k >= T
      /\ \A v \in Vault : ch.vaults[v].units >= ch.bought[v] * k + ch.moved[v]
      /\ W * k <= rest
  BY <1>1 DEF Worth, Positioned
<1>4. U + rest = T
  <2>1. Plus(HeldBy(ch), ch.unassigned) = ch.totals
    BY <1>1 DEF Positioned
  <2> QED
    BY <2>1 DEF Plus
<1>5. \A v \in Vault : /\ bought[v] \in Nat /\ won[v] \in Nat /\ moved[v] \in Nat
                       /\ units[v] \in Nat /\ ch.vaults[v].units = units[v]
                       /\ both[v] = bought[v] + won[v]
  BY <1>2, PositionFields DEF Winnings
<1>6. \A v \in Vault : cost[v] \in Nat /\ cost[v] = bought[v] * k /\ owed[v] = cost[v] + moved[v]
  BY <1>1, <1>2, ProductNat
<1>7. U = SumFunctionOnSet(units, Vault) /\ W = SumFunctionOnSet(won, Vault)
  BY TotalIsSums DEF HeldBy, WonRep, SumOf
<1>8. \A v \in Vault : owed[v] <= units[v]
  BY <1>3, <1>5
<1>9. SumOf([v \in Vault |-> ch.bought[v] + ch.won[v].rep]) = SumFunctionOnSet(both, Vault)
  BY DEF SumOf
<1>10. IsFiniteSet(Vault)
  BY ForkFacts
<1>11. \A v \in Vault : ch.bought[v] = bought[v] /\ ch.moved[v] = moved[v]
  OBVIOUS
<1> HIDE DEF k, T, U, rest, W, bought, won, moved, units, cost, owed, both
<1>12. B \in Nat /\ M \in Nat /\ \A v \in Vault : moved[v] <= M
  BY <1>5, <1>10, SumNat, SumTerm
<1>13. W \in Nat
  BY <1>5, <1>7, <1>10, SumNat
<1>14. SumFunctionOnSet(both, Vault) = B + W
  <2>1. \A v \in Vault : bought[v] \in Int /\ won[v] \in Int /\ both[v] = bought[v] + won[v]
    BY <1>5
  <2> QED
    BY <1>7, <1>10, <2>1, SumPlus
<1>15. SumFunctionOnSet(cost, Vault) = B * k
  <2>1. \A v \in Vault : bought[v] \in Int /\ cost[v] = bought[v] * k
    BY <1>5, <1>6
  <2>2. k \in Int
    BY <1>1
  <2> QED
    BY <1>10, <2>1, <2>2, SumTimes
<1>16. SumFunctionOnSet(owed, Vault) = SumFunctionOnSet(cost, Vault) + M
  <2>1. \A v \in Vault : cost[v] \in Int /\ moved[v] \in Int /\ owed[v] = cost[v] + moved[v]
    BY <1>5, <1>6
  <2> QED
    BY <1>10, <2>1, SumPlus
<1>17. SumFunctionOnSet(owed, Vault) <= U
  <2>1. \A v \in Vault : owed[v] \in Int /\ units[v] \in Int /\ owed[v] <= units[v]
    BY <1>5, <1>6, <1>8
  <2> QED
    BY <1>7, <1>10, <2>1, SumMonotone
<1> HIDE DEF B, M
<1>18. ch.rep * k >= B * k + W * k + M
  <2>1. B * k \in Nat /\ W * k \in Nat /\ ch.rep * k \in Nat
    BY <1>1, <1>2, <1>12, <1>13, ProductNat
  <2> DEFINE x == B * k
             y == W * k
             z == ch.rep * k
  <2>2. /\ x + M <= U /\ y <= rest /\ z >= T /\ x \in Nat /\ y \in Nat /\ z \in Nat
    BY <1>3, <1>15, <1>16, <1>17, <2>1
  <2> HIDE DEF x, y, z
  <2>3. z >= x + y + M
    BY <1>1, <1>2, <1>4, <1>12, <2>2
  <2> QED
    BY <2>3 DEF x, y, z
<1>19. B * k + W * k = k * (B + W) /\ ch.rep * k = k * ch.rep
  BY <1>1, <1>2, <1>12, <1>13
<1> DEFINE S == B + W
           R == ch.rep
<1>20. k * S + M <= k * R /\ S \in Int /\ R \in Int /\ S \in Nat /\ R \in Nat
  BY <1>2, <1>12, <1>13, <1>18, <1>19
<1>21. S = SumOf([v \in Vault |-> ch.bought[v] + ch.won[v].rep]) /\ R = ch.rep
  BY <1>9, <1>14
<1> HIDE DEF S, R
<1>22. k * S \in Nat /\ k * R \in Nat
  BY <1>1, <1>20, ProductNat
<1>23. S <= R
  <2>1. k * S <= k * R
    BY <1>12, <1>20, <1>22
  <2> QED
    BY <1>1, <1>20, <2>1, FactorAtMost
<1>24. M > 0 => S < R
  <2>1. SUFFICES ASSUME M > 0 PROVE S < R
    OBVIOUS
  <2>2. k * S < k * R
    BY <1>12, <1>20, <1>22, <2>1
  <2> QED
    BY <1>1, <1>20, <2>2, FactorBelow
<1>25. (\E v \in Vault : ch.moved[v] > 0) => M > 0
  BY <1>5, <1>11, <1>12
<1>26. R >= S + IF \E v \in Vault : ch.moved[v] > 0 THEN 1 ELSE 0
  BY <1>20, <1>23, <1>24, <1>25
<1>27. ASSUME NEW v \in Vault
       PROVE  backingUnitsToAttoRep(ch, ch.vaults[v].units) >= ch.bought[v]
  <2> DEFINE u == ch.vaults[v].units
             b == ch.bought[v]
  <2>1. u \in Nat /\ b \in Nat /\ moved[v] \in Nat
    BY <1>2, <1>5
  <2>2. u >= b * k + moved[v] /\ b * k \in Nat
    BY <1>1, <1>3, <1>11, <2>1, ProductNat
  <2>3. T = ch.totals.units
    BY DEF T
  <2>4. u <= U
    BY <1>2, TotalFacts DEF HeldBy, U
  <2>5. backingUnitsToAttoRep(ch, u) = IF T = 0 THEN 0 ELSE (u * ch.rep) \div T
    BY <2>3 DEF backingUnitsToAttoRep
  <2> HIDE DEF u, b
  <2>6. u >= b * k
    BY <2>1, <2>2
  <2>7. CASE T = 0
    <3>1. u = 0 /\ b * k = 0
      BY <1>1, <1>2, <1>4, <2>1, <2>2, <2>4, <2>6, <2>7
    <3>2. b = 0
      <4>1. k * b <= k * 0
        BY <1>1, <2>1, <3>1
      <4>2. b <= 0
        BY <1>1, <2>1, <4>1, FactorAtMost
      <4> QED
        BY <2>1, <4>2
    <3> QED
      BY <2>5, <2>7, <3>2 DEF u, b
  <2>8. CASE T # 0
    <3>1. T > 0
      BY <1>2, <2>8
    <3>2. (u * ch.rep) \div T >= b
      BY <1>1, <1>2, <1>3, <2>1, <2>6, <3>1, UnitsClaim
    <3> QED
      BY <2>5, <2>8, <3>2 DEF u, b
  <2> QED
    BY <2>7, <2>8
<1> QED
  BY <1>21, <1>26, <1>27

LEMMA SoundBacks ==
    ASSUME IInv
    PROVE  BackingHolds
<1>1. \A c \in Auctioned : Sound(parent, children[c])
  BY ForkFacts, IInvFacts
<1> QED
  BY <1>1, OpenBacks DEF BackingHolds

-----------------------------------------------------------------------------
(* The theorems.                                                           *)

\* In every reachable state the children have got of the parent's collateral what
\* their share of the REP is, rounded up once, and none more than there was.
THEOREM ConservesCollateral == Spec => []CollateralConserved
<1>1. IInv => CollateralConserved
  BY SoundConserves
<1> QED
  BY <1>1, Invariance, PTL

\* Units, capacity and bad debt are held by exactly one position, and what the
\* winners of an auction may still claim is there for them.
THEOREM ReconcilesPositions == Spec => []PositionsReconcile
<1>1. IInv => PositionsReconcile
  BY SoundReconciles
<1> QED
  BY <1>1, Invariance, PTL

\* Capacity that was sold earns fees, and is checkpointed once per accrual.
THEOREM SoldCapacityEarns == Spec => []SoldCapacityEarnsFees
<1>1. IInv => SoldCapacityEarnsFees
  BY SoundEarnsFees
<1> QED
  BY <1>1, Invariance, PTL

\* A child's pool holds what its auction sold, what a buyer's units claim is what
\* he bought, and the vaults that migrated keep something.
THEOREM BackingIsHeld == Spec => []BackingHolds
<1>1. IInv => BackingHolds
  BY SoundBacks
<1> QED
  BY <1>1, Invariance, PTL

\* No migration, auction, finalization or claim that is due is refused, but for
\* the capacity at the oracle's price.
THEOREM RefusesForThePriceOnly == Spec => []OnlyThePriceRefuses
<1>1. IInv => OnlyThePriceRefuses
  BY SoundRefusesNothing
<1> QED
  BY <1>1, Invariance, PTL

\* A child owes the shares that it pays for, whoever materialized which.
THEOREM CoversShares == Spec => []SharesCovered
<1>1. IInv => SharesCovered
  BY SoundCovers
<1> QED
  BY <1>1, Invariance, PTL
=============================================================================
