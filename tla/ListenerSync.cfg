SPECIFICATION FairSpec
CONSTANTS
  p1 = p1
  p2 = p2
  w1 = w1
  w2 = w2
  c1 = c1
  c2 = c2
  Port = {p1, p2}
  NodePort = {1, 2}
  Worker = {w1, w2}
  Cidr = {c1, c2}
  MaxOps = 2
INVARIANTS TypeOK NoConflict
PROPERTIES ImplementsBackendSync PublishMeansServed Converges
