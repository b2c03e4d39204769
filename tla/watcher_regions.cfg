SPECIFICATION Spec
CONSTANTS
  w1 = w1
  w2 = w2
  s1 = s1
  s2 = s2
  s3 = s3
  h1 = h1
  h2 = h2
  r1 = r1
  r2 = r2
  NoRegion = NoRegion
  None = None
  Watchers = {w1, w2}
  Sites = {s1, s2, s3}
  Hosts = {h1, h2}
  HostOf <- RegionHosts
  Scope <- RegionScopes
  Region <- Placement
  DNSOn = TRUE
  Faults <- EveryFault
  MaxFaults = 1
  MaxCrashes = 1
  MaxDeaths = 0
  RequeueFrom <- SettledStatuses
  MaxAsks = 2
INVARIANTS IInv PublishedIsRecorded NoDoubleProvision UnplacedUntouched
