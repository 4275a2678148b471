SPECIFICATION FairSpec
CHECK_DEADLOCK FALSE
CONSTANTS
  flat = flat  lane = lane  nowhere = nowhere
  shack = shack  farm = farm
  Runs = {1, 2}
  Workers = {1, 2}
  Listings <- Catalog
  Addresses = {shack, farm}
  NoAddress = noAddress
  AddressOf <- At
  Photos <- Gallery
  Replies <- Reports
  Keyed = TRUE
  MaxCalls = 1
  MaxEvents = 2
  None = none
  Known = {shack, farm}
  Covered = {shack, farm}
  Sqft <- Area
  Comps <- Market
  Predictions <- Outputs
INVARIANTS
  TypeOK
  BuyerSafe
  RowWhole
  BudgetKept
  BreakerHolds
  BandBrackets
  ConditionHonoured
PROPERTIES
  FreshKept
  RunsEnd
