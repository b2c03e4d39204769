SPECIFICATION Spec
CONSTANTS
  a = a
  b = b
  a1 = a1
  a2 = a2
  b1 = b1
  None = None
  Sites = {a1, b1}
  Tenants = {a, b}
  Kinds <- ApiAndRuns
  Plans <- PlanNames
  TenantOf <- OneSiteEach
  PlanOf <- AllStarter
  Price <- Prices
  Included <- Inclusions
  CentUnits <- UnitsPerCent
  Quantity <- EventSizes
  Customers = {a}
  MonthLen = 1
  MaxDay = 1
  MaxEvents = 3
  MaxFaults = 1
  MaxCrashes = 0
  MaxReruns = 1
  LateRecords = FALSE
INVARIANTS BillingTypeOK NoneForgotten ChargedOncePerRun
CHECK_DEADLOCK FALSE
