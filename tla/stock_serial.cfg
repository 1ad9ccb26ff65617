SPECIFICATION Spec
CONSTANTS
  r1 = r1 r2 = r2 r3 = r3 r4 = r4 ann = ann tea = tea chips = chips
  Requests = {r1, r2, r3, r4}
  Products = {tea, chips}
  Customers = {ann}
  NoCustomer = NoCustomer
  Kinds = {"adjust", "sale", "void"}
  Baskets <- TwoKinds
  AdjustQuantities <- UpAndDown
  Discounts = {0}
  Prices = {1}
  OpeningStock = 1
  MinQuantity = 0
  Dialect = "postgres"
  BranchLookups = {TRUE, FALSE}
  MaxInFlight = 1
  MaxCrashes = 1
SYMMETRY RequestSymmetry
PROPERTIES ImplementsBook
