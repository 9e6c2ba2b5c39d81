SPECIFICATION FairSpec
CONSTANTS
  s1 = s1
  Service = {s1}
  NoSvc = NoSvc
  LBId <- MCLBId
  FipId <- MCFipId
  SyncWork = 0
  StaleReads = FALSE
  OperatorOps = {"hr"}
  MaxOps = 1
  ExternalNet = {TRUE}
  Sibling = TRUE
  Failures = FALSE
  Recreations = 0
PROPERTY OrphanFipsGo
CHECK_DEADLOCK FALSE
