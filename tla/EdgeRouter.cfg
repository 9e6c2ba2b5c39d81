SPECIFICATION MCSpec
CONSTANTS
  a = a
  b = b
  trustd = trustd
  h1 = h1
  h2 = h2
  NoHost = NoHost
  i1 = i1
  i2 = i2
  Svc = {a, b}
  Label = {trustd}
  Host = {h1, h2}
  Port = {1}
  IP = {i1, i2}
  MaxData = 2
  MaxOps = 2
INVARIANTS TypeOK RoutesAreClaimed NothingLost
PROPERTIES PeerRoutesSurvive ClaimedNameIsRouted ConnectionIsReleased ExternalIPsFollowNodes
CHECK_DEADLOCK FALSE
