SPECIFICATION FairSpec
CONSTANTS
  s1 = s1
  Service = {s1}
  NoSvc = NoSvc
  LBId <- MCLBId
  FipId <- MCFipId
  SyncWork = 1
  StaleReads = TRUE
  OperatorOps = {"enabled", "network", "secret", "pin", "ksc"}
  MaxOps = 3
  ExternalNet = {TRUE, FALSE}
INVARIANT NoDuplicates
PROPERTIES  WantedServiceIsPublished 
CHECK_DEADLOCK FALSE
