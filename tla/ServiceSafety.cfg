SPECIFICATION Spec
CONSTANTS
  s1 = s1
  s2 = s2
  Service = {s1, s2}
  NoSvc = NoSvc
  LBId <- MCLBId
  FipId <- MCFipId
  SyncWork = 1
  StaleReads = FALSE
  OperatorOps = {"enabled", "hr"}
  MaxOps = 4
  ExternalNet = {TRUE}
INVARIANTS TypeOK FinalizerGuardsLB FinalizerGuardsClusterRules NoDuplicates NoStrandedFip  NoBarePort
SYMMETRY MCSymmetry
PROPERTIES  ImplementsContract
CHECK_DEADLOCK FALSE
