SPECIFICATION Spec
CONSTANTS
  c1 = c1
  c2 = c2
  n1 = n1
  n2 = n2
  n3 = n3
  edge = edge
  east = east
  other = other
  None = None
  Clients = {c1, c2}
  Names = {n1, n2}
  IPs = {edge, other}
  Fleet <- OneFleet
  EdgeIP <- OneEdge
  RegionIPs <- Unregional
  PageSize = 2
  MaxFaults = 1
INVARIANT OneRecordPerName
PROPERTIES DeletedIsGone ContractHolds
