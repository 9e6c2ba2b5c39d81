SPECIFICATION FairSpec
CONSTANTS
  t1 = t1
  t2 = t2
  Tenants = {t1, t2}
  MaxHash = 1
  MaxCR = 0
  MaxOps = 1
  Faults = {"outage"}
PROPERTY HealthyTenantIsServed
