SPECIFICATION FairSpec
CONSTANTS
  w1 = w1
  w2 = w2
  s1 = s1
  s2 = s2
  s3 = s3
  h1 = h1
  h2 = h2
  r1 = r1
  r2 = r2
  NoRegion = NoRegion
  None = None
  Watchers = {w1}
  Sites = {s1}
  Hosts = {h1}
  HostOf <- SameHost
  Scope <- Unscoped
  Region <- Unplaced
  DNSOn = FALSE
  Faults <- NoFaults
  MaxFaults = 0
  MaxCrashes = 0
  MaxDeaths = 0
  RequeueFrom <- NoStatuses
  MaxAsks = 1
PROPERTY TeardownRequestIsDecided
