SPECIFICATION FairSpec
CONSTANTS
  old = old
  new = new
  factory = factory
  token = token
  child = child
  NoReplica = NoReplica
  Replica = {old, new}
  Contract = {factory, token, child}
  Manifest <- Rollout
  Payload <- Payloads
  confirmationDepth = 1
  logScanRangeSize = 2
  MaxHead = 2
  MaxReorgs = 2
  MaxPruned = 2
  MaxFaults = 1
  MaxTrouble = 2
INVARIANTS
  AuditClean
  LogsComplete
  FinalizedIsFinal
  SnapshotsOfTheirBlock
PROPERTIES
  EventuallyCaughtUp
