SPECIFICATION FairSpec
CONSTANTS
  Calls <- Liquidations
  Settings <- PrivateOrHistorical
  VALIDITY = 1
  PRIVATE_INTENT_FINALITY_BLOCKS = 2
  MaxDepth = 1
  Drift = 1
  logLookbackBlocks = 2
  MaxHead = 5
  MaxTx = 1
  MaxFaults = 0
CHECK_DEADLOCK FALSE
PROPERTIES
  ReceiptUnblocks
