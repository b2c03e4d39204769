SPECIFICATION Spec
CONSTANTS
  c1 = c1
  c2 = c2
  n1 = n1
  n2 = n2
  n3 = n3
  edge = edge
  east = east
  other = other
  None = None
  Clients = {c1, c2}
  Names = {n1, n2, n3}
  IPs = {edge, east, other}
  Fleet <- TwoFleets
  EdgeIP <- TwoEdges
  RegionIPs <- OneRegional
  PageSize = 2
  MaxFaults = 1
INVARIANT TypeOK
PROPERTIES ReconcileConverges OthersUntouched
