SPECIFICATION Spec
CONSTANTS
  alice = alice
  bob = bob
  Vault = {alice, bob}
  Trader = {tom}
  Child = {yes, no}
  PRICE_PRECISION = 7
  BPS_DENOMINATOR = 20
  LIQUIDATION_REP_BONUS_BPS = 1
  MAX_RETENTION_RATE = 6
  MIN_RETENTION_RATE = 4
  RETENTION_RATE_DIP = 5
  statoblastSecurityMultiplierBps = 40
  minimumVaultRepDeposit = 1
  minimumSecurityBondDebt = 1
  QuestionEnd = 1
  Prices = {7}
  RepSupply <- EvenSupply
  RepAmount = {5}
  EthAmount = {1}
  ShareAmount = {14}
  HealthFactor = {20}
  MIGRATION_TIME = 2
  MaxTime = 2
  MaxCollateral = 3
SYMMETRY PoolSymmetry
CHECK_DEADLOCK FALSE
INVARIANTS
  PoolTotals
  PoolSolvent
  MigrationNeverRefused
PROPERTIES
  SetsNeverDiluted
  VaultsNeverDiluted
