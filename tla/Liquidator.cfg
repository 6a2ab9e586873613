SPECIFICATION FairSpec
CONSTANTS
  Calls <- RedeemOrStage
  Settings <- PrivateOrHistorical
  VALIDITY = 1
  PRIVATE_INTENT_FINALITY_BLOCKS = 2
  MaxDepth = 1
  Drift = 1
  logLookbackBlocks = 2
  MaxHead = 5
  MaxTx = 2
  MaxFaults = 1
CHECK_DEADLOCK FALSE
INVARIANTS
  JournalCoversChain
  OneAtATime
  NeverRebroadcast
PROPERTIES
  EventuallyUnblocked
