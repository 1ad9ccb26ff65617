SPECIFICATION EntranceSpec
SYMMETRY CallSymmetry
CONSTANTS
  c1 = c1 c2 = c2 c3 = c3 c4 = c4 onAuth = onAuth onPayments = onPayments
  Calls = {c1, c2, c3, c4}
  Keys = {onAuth, onPayments}
  Callers <- OneCaller
  NoStore = noStore
  Redis = redis
  Limit <- PrefixLimits
  WindowSeconds = 1
  Second = 2
  RedisUrls = {TRUE, FALSE}
  MaxTime = 3
  MaxCrashes = 1
  Requests = {c1, c2, c3, c4}
  MockCheckout = mockCheckout
  NoCheckout = noCheckout
  Amounts = {0, 1}
  Metadata = {"receipt", "none", "unreadable"}
  Modes = {TRUE, FALSE}
  MaxRestarts = 1
INVARIANTS
  TypeOK PassesAreBounded RefusalIsEarned RetryAfterIsHonest
  PaymentsTypeOK OutcomeIsDarajas CallbackIsApplied
PROPERTIES
  StoreIsReplacedOnlyByARacer MemoryIsAFixedWindow
  ReceiptIsKept
