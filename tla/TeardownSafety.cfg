SPECIFICATION Spec
CONSTANTS
  s1 = s1
  Service = {s1}
  NoSvc = NoSvc
  LBId <- MCLBId
  FipId <- MCFipId
  SyncWork = 0
  StaleReads = FALSE
  OperatorOps = {"hr"}
  MaxOps = 2
  ExternalNet = {TRUE}
  Sibling = TRUE
  Failures = TRUE
  Recreations = 0
INVARIANTS TypeOK  
CHECK_DEADLOCK FALSE
