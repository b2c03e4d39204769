SPECIFICATION Spec
CONSTANTS
  a = a
  b = b
  a1 = a1
  a2 = a2
  b1 = b1
  None = None
  Sites = {a1, a2}
  Tenants = {a}
  Kinds <- RunsOnly
  Plans <- PlanNames
  TenantOf <- OneSiteEach
  PlanOf <- AllStarter
  Price <- Prices
  Included <- Inclusions
  CentUnits <- UnitsPerCent
  Quantity <- EventSizes
  Customers = {a}
  MonthLen = 1
  MaxDay = 1
  MaxEvents = 3
  MaxFaults = 0
  MaxCrashes = 0
  MaxReruns = 0
  LateRecords = FALSE
INVARIANT ChargedOnce
CHECK_DEADLOCK FALSE
