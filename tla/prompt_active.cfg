SPECIFICATION Spec
SYMMETRY Interchangeable
CONSTANTS
  r1 = r1
  r2 = r2
  r3 = r3
  r4 = r4
  r5 = r5
  s1 = s1
  s2 = s2
  phone = phone
  apple = apple
  talk = talk
  Parts = {"prompts"}
  Clerks = {r1, r2, r3, r4}
  Customers = {apple}
  CreditAmounts = {1, 2}
  Limits = {0, 1, 2}
  Authors = {r1, r2, r3, r4, r5}
  Operators = {r1, r2, r3}
  Triggers = {"low_stock", "daily_report"}
  Dialects = {"sqlite", "postgres"}
  Calls = {r1, r2, r3}
  Phones = {phone}
  Lifetime = 2
  LastMoment = 4
  MaxRestarts = 1
  Keepers = {r1, r2, r3}
  Barcodes = {apple}
  Minds = {r1, r2, r3}
  Confidences = {0, 5}
  Thresholds = {0, 50}
  Databases = {"sqlite", "postgres"}
  Chats = {r1, r2, r3}
  Threads = {talk}
  Engines = {"mock", "llm"}
  Window = 3
  MaxReboots = 1
  Uploads = {r1, r2, r3}
  Installed <- Images
  Recognitions <- Recognisable
  MaxOutages = 1
  Receipts = {s1, s2}
  Totals = {2}
  Ages = {1, 8, 40}
  Weekdays = {2}
  Days = {5, 31}
  ReportStores = {"sqlite", "postgres"}
  Wares = {r1, r2, r3, r4}
  WareKinds <- SoldAndLeft
  ShortQuotients <- FallShort
  DayTotals = {1, 9}
  MostDays = 7
  ObservationLimit = 5
  Invoices = {r1, r2, r3}
  OldestDays = {2}
  MinDays = 2
  MinTransactions = 2
  AdviceStores = {"sqlite", "postgres"}
  Purchases = {s1, s2}
  Patrons = {apple}
  Shelves = {s1, s2}
  PurchaseTotals <- Takes
  PurchaseAges = {3, 45}
  MinCustomers = 1
  MaxTraffic = 1
INVARIANT
  OneActivePrompt
CHECK_DEADLOCK FALSE
