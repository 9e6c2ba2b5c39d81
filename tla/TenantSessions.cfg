SPECIFICATION RecoveringSpec
CONSTANTS
  t1 = t1
  Tenants = {t1}
  MaxHash = 2
  MaxCR = 2
  MaxOps = 3
  Faults = {"outage", "crash", "leader"}
INVARIANTS TypeOK OneSessionPerTenant PublishedIsRunning
PROPERTIES  CRChangeIsApplied StopEnds
