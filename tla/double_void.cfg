SPECIFICATION Spec
CONSTANTS
  r1 = r1 r2 = r2 r3 = r3 r4 = r4 ann = ann tea = tea chips = chips
  Requests = {r1, r2, r3}
  Products = {tea}
  Customers = {}
  NoCustomer = NoCustomer
  Kinds = {"sale", "void"}
  Baskets <- OneLine
  AdjustQuantities <- UpAndDown
  Discounts = {0}
  Prices = {1}
  OpeningStock = 1
  MinQuantity = 0
  Dialect = "sqlite"
  BranchLookups = {TRUE}
  MaxInFlight = 3
  MaxCrashes = 0
PROPERTIES VoidedOnce
