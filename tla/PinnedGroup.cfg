SPECIFICATION Spec
CONSTANTS
  s1 = s1
  Service = {s1}
  NoSvc = NoSvc
  LBId <- MCLBId
  FipId <- MCFipId
  SyncWork = 1
  StaleReads = FALSE
  OperatorOps = {"enabled"}
  MaxOps = 3
  ExternalNet = {TRUE}
INVARIANT FinalizerGuardsRules
CHECK_DEADLOCK FALSE
