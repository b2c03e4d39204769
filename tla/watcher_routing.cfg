SPECIFICATION ServingSpec
CONSTANTS
  w1 = w1
  w2 = w2
  s1 = s1
  s2 = s2
  s3 = s3
  h1 = h1
  h2 = h2
  r1 = r1
  r2 = r2
  q1 = q1
  NoRegion = NoRegion
  None = None
  Watchers = {w1}
  Sites = {s1, s2}
  Hosts = {h1}
  HostOf <- SameHost
  Scope <- Unscoped
  Region <- Unplaced
  DNSOn = TRUE
  Faults <- ButUpdateFault
  MaxFaults = 2
  MaxCrashes = 1
  MaxDeaths = 1
  RequeueFrom <- OnlyFailed
  MaxAsks = 3
  Requests = {q1}
  Limited = TRUE
SYMMETRY SiteSymmetry
INVARIANTS RunningIsPublished FailedNotPublished RoutedHome RoutedIsServed StoppedIsRefused KeptForTenants
