SPECIFICATION Spec
CONSTANTS
  old = old
  new = new
  factory = factory
  token = token
  child = child
  NoReplica = NoReplica
  Replica = {old}
  Contract = {factory, token, child}
  Manifest <- Single
  Payload <- Payloads
  confirmationDepth = 1
  logScanRangeSize = 2
  MaxHead = 3
  MaxReorgs = 1
  MaxPruned = 1
  MaxFaults = 0
  MaxTrouble = 1
CHECK_DEADLOCK FALSE
INVARIANTS
  NoLogOmitted
