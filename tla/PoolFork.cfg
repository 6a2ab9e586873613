SPECIFICATION Spec
CONSTANTS
  alice = alice
  bob = bob
  yes = yes
  no = no
  Vault = {alice, bob}
  Child = {yes, no}
  Auctioned = {yes}
  PRICE_PRECISION = 4
  BPS_DENOMINATOR = 2
  statoblastSecurityMultiplierBps = 3
  MAX_AUCTION_VAULT_HAIRCUT_DIVISOR = 3
  Parents <- MCParents
CHECK_DEADLOCK FALSE
INVARIANTS
  CollateralConserved
  PositionsReconcile
  SoldCapacityEarnsFees
  BackingHolds
  OnlyThePriceRefuses
  SharesCovered
