SPECIFICATION Spec
CONSTANTS
  r1 = r1 r2 = r2 r3 = r3 r4 = r4 ann = ann tea = tea chips = chips
  Requests = {r1, r2, r3}
  Products = {tea, chips}
  Customers = {ann}
  NoCustomer = NoCustomer
  Kinds = {"adjust", "sale", "void", "edit"}
  Baskets <- PricedBaskets
  AdjustQuantities <- WithZero
  Discounts = {1}
  Prices = {1, 2}
  OpeningStock = 1
  MinQuantity = 0
  Dialect = "sqlite"
  BranchLookups = {TRUE}
  MaxInFlight = 3
  MaxCrashes = 0
SYMMETRY RequestSymmetry
INVARIANTS TypeOK OnlyAdjustmentsGoStale AsAsked SalesBook
PROPERTIES AdjustLeavesNoDebt
