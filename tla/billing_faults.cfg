SPECIFICATION Spec
CONSTANTS
  a = a
  b = b
  a1 = a1
  a2 = a2
  b1 = b1
  None = None
  Sites = {a1}
  Tenants = {a}
  Kinds <- ApiAndRuns
  Plans <- PlanNames
  TenantOf <- OneSiteEach
  PlanOf <- AllStarter
  Price <- Prices
  Included <- Inclusions
  CentUnits <- UnitsPerCent
  Quantity <- EventSizes
  Customers = {a}
  MonthLen = 2
  MaxDay = 4
  MaxEvents = 3
  MaxFaults = 2
  MaxCrashes = 1
  MaxReruns = 0
  LateRecords = TRUE
INVARIANTS NeverTwice ChargedOnce InvoicedOnce ChargedFairly
CHECK_DEADLOCK FALSE
