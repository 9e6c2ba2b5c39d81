SPECIFICATION Spec
CONSTANTS
  s1 = s1
  Service = {s1}
  NoSvc = NoSvc
  LBId <- MCLBId
  FipId <- MCFipId
  SyncWork = 0
  StaleReads = FALSE
  OperatorOps = {"hr"}
  MaxOps = 1
  ExternalNet = {TRUE}
  Sibling = TRUE
  Failures = FALSE
  Recreations = 0
PROPERTY SweeperAvoidsTeardown
CHECK_DEADLOCK FALSE
