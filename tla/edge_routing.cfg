SPECIFICATION FairSpec
CONSTANTS
  e1 = e1
  e2 = e2
  e3 = e3
  r1 = r1
  r2 = r2
  r3 = r3
  s1 = s1
  q1 = q1
  NoRegion = NoRegion
  None = None
  Edges = {e1, e2, e3}
  Slugs = {s1}
  Regions = {r1, r2, r3}
  Requests = {q1}
  LocalRegion <- EdgePerRegion
  Upstream <- AllButOneWired
  Limited = TRUE
  MaxMoves = 3
  MaxHops = 3
INVARIANTS RoutingInv OneHop
PROPERTIES ServedAtHome CalmIsAvailable EveryRequestAnswered
