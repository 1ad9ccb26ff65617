# BusinessOS backend: a TLA+ verification project

BusinessOS is a FastAPI service for small shops: products and stock, sales, customers on credit,
M-Pesa payments, and a layer of automation and AI assistance, over one SQL database. This directory
models the part of it where requests interfere, and checks and proves what that part promises.

* `PROJECT.json` lists components, runs, mutants, the map from definitions to source lines, findings,
  hazards and theorems.
* `tlc -config <run>.cfg <module>` repeats a run, `tlapm <module>.tla` a proof.

## 1. Inventory

How the program runs. One asyncio process (`docker/Dockerfile`: one worker) handles every request;
`docker-compose.yml` restarts it when it dies. Each request gets a session from `get_db`
(`core/database.py` 36-46), which commits **after** the response was sent and rolls back on an
exception. Between two awaits anything else may run. The session (SQLAlchemy 2.0, autoflush,
`expire_on_commit=False`) loads a row once, computes on the loaded object, and writes absolute values
of the columns that changed. There is no `SELECT ... FOR UPDATE`, no version column, and one unique
constraint that matters (a business's phone). The tests and `.env.example` use SQLite, compose uses
Postgres; they differ in locking, in foreign keys and in the types they accept.

| component | state | operations | hard part | what makes it correct |
|---|---|---|---|---|
| inventory (`modules/inventory`) | `products`, `inventory_batches` | create, patch, delete a product; adjust stock | read-modify-write of `quantity`; barcode checked before insert | stock on hand is the opening stock plus every movement; no adjustment leaves a debt |
| sales (`modules/sales`) | `sales`, `sale_items`, `payments`, batches, customer totals | create, void | several batches in one transaction, prices edited meanwhile, two voids | a sale is coherent, moves what it lists, is voided once |
| payments (`modules/accounting`, `services/mpesa`) | `payments` | push, callback, query | Daraja calls back repeatedly, late, early or never; Daraja is awaited mid-request | a stored outcome is Daraja's, a receipt is never lost, a completed payment is announced |
| events (`core/events`, `core/handlers`, `modules/notifications`) | subscriptions, `notifications` | publish, `on_low_stock`, `on_payment_completed` | a handler runs inside the request in a session of its own: second lock, second connection | each event has its notification; a failing handler harms nobody |
| customers (`modules/crm`) | `customers` | create, patch, add and pay credit | limit checked on a balance read before | balance within the limit; no credit or payment lost |
| accounts (`api/auth`, `core/token_store`, `core/security`) | codes, users, revoked tokens | send and verify a code, register, log in, refresh | check, await, act; answer before commit | one account per phone; a refresh token is used once |
| catalogue (barcodes of `modules/inventory`) | `products.barcode`, `is_active` | create, edit, look up, remove | looked up before the insert, no constraint | a barcode names one product |
| rate limiting (`core/ratelimit`) | windows in memory or Redis | `incr`, the middleware | two stores, two meanings of a window | at most the limit per window, and the window ends |
| prompt store (`services/prompt_store`) | `prompts` | create a version, render | deactivate, then insert | one active version per key, and never none |
| automation (`services/automation`, its routes) | `automation_rules`, `automation_logs` | seed, create, edit, delete, run all | many rules in one transaction, errors swallowed | a rule that fired has its log |
| memory (`services/memory`) | `business_memory` | store, search, consolidate | scales of scores, counts written back | what is pruned is old, unused and doubtful |
| partner (`services/partner`) | `_conversations`, memory entries | chat | a reply awaited between two appends to a shared list | no turn lost or torn apart |
| DNA (`services/dna`) | memory entries | build a profile, score, trend | a dozen queries while the shop goes on; division by zero | the score stays within 0 to 100 |
| reports (`api/reports`) | none kept | summary, profit and loss, top products, dashboard | figures that are differences of queries of different moments | figures that belong together agree |
| observation (`services/observation`) | none kept | readiness, movers, anomalies | truncation, quartiles | a warning comes in time |
| insights, forecasts, AI routes (`services/insight_service`, `forecast_service`, `api/ai`) | none kept | check the data, read signals, ask the model | one question asked twice gets two answers; the model fails | a refusal is true; a failing model is answered for |
| documents (`services/document_processing`) | temporary files, cached models | OCR, transcribe | an engine, a disk or a process that fails half way | nothing stays on the disk |
| gateway (`core/gateway`, `services/llm`) | none kept | one call, streamed or not | answers of unexpected form | what was streamed is read in order; failures are of known types |
| pool (`core/database`, with `core/events`, `core/handlers`, `core/audit`) | connections | take, give back, time out | a request that holds one connection waits for a second | none leaks, nobody waits for ever |
| migrations (`migrations/`, `core/database`) | tables, `alembic_version` | start a container, upgrade, downgrade | two tools that make one schema | a schema is whole and known to alembic |
| messaging, integrations, model router, wiring, skeletons | none | calls to external services, tables of constants | none that other parts depend on | not modelled (section 7) |

Sales, stock and payments meet in the tables only: a sale inserts its cash or mpesa payment row
(without a reference), a push may name a sale, a void touches neither payments nor customer totals.
`adjust_stock` is the one publisher whose event has a working handler: `create_sale` publishes
`INVOICE_CREATED`, to which nobody subscribes, and does not publish `STOCK_ADJUSTED`; the callback
never reaches its `publish` (section 6). The services of the second half of the table read what sales and
voids commit while they run, and share no state of their own; each is modelled beside its own sales.

## 2. Modules

| module | what it is |
|---|---|
| `StockLedger` | adjust, sale, void and product edits as sequences of statements over one database |
| `StockBook` | the abstract book: each of them at once, exactly once |
| `StockProperties` | properties of `StockLedger` that need sums, and the refinement of `StockBook` |
| `MCStockLedger` | small instances: baskets, quantities, symmetry |
| `StockLedgerProofs` | theorems about `StockLedger`: types, accounting, stale quantities |
| `StockPropertiesProofs` | theorems about `StockProperties`: baskets, notifications, sums, the refinement |
| `SumTheorems` | lemmas on finite sums, maxima and minima, used by the proofs |
| `Payments` | push, callback and query, Daraja and the customer as environment |
| `MCPayments` | its small instance for a finding |
| `PaymentsProofs` | theorems about `Payments` |
| `RateLimit` | the middleware, the store built on first use, the memory and the Redis store |
| `FixedWindow` | the abstract limiter: one window per counter |
| `MCRateLimit` | its small instances |
| `MCEntrance` | `RateLimit` and `Payments`, one part per behaviour: what callers from outside meet |
| `RateLimitProofs` | theorems about `RateLimit` |
| `CustomerCredit`, `PromptStore` | the credit book; versions of one prompt |
| `AutomationRules`, `Accounts`, `Catalogue`, `BusinessMemory`, `Conversations` | services that read first and write with their commit, or with an await between |
| `Reports`, `Detectors`, `Advisor`, `BusinessDNA`, `Documents` | services that compute an answer from what they read |
| `MCServices` | all of these on small instances, one part per behaviour |
| `ServicesProofs` | theorems about the credit book, prompts, catalogue, rules, memory, conversations and accounts |
| `AnalysesProofs` | theorems about the five that compute an answer, and about the composition of all twelve |
| `ConnectionPool`, `Migrations`, `ModelGateway` | what the program stands on |
| `MCPlatform` | the three on small instances |
| `PlatformProofs` | theorems about the three |

### StockLedger

A request `r` is a program counter `pc[r]`, the operation asked for `op[r]`, and a session: the batches it
has loaded (`known`) with the value it holds for each (`mine`), the rows it wrote (`held`). The labels
are the points where the code awaits the database:

    adjust:  StartAdjust -> write -> publish -> reply -> commit
    sale:    StartSale -> price* -> insert -> (read -> write)* -> finish -> reply -> commit
    void:    StartVoid -> status -> (read -> write)* -> reply -> commit
    edit:    EditProduct -> reply -> commit

* A read outside the session sees what is committed: `Loaded(r, p)`. A write takes the row's lock
  (`Lock`), or waits; its value reaches `stock` in `Commit`, after `Reply`.
* `Dialect = "postgres"`: row locks, `DeadlockVictim`, foreign keys (`BranchLookups` says whether a sale
  may find a branch with the id `""`), and a refused `last_visit`. `Dialect = "sqlite"`: one write lock,
  `BusyTimeout`, and an event handler that waits for the publisher's own lock until its timeout
  (`HandlerTimeout`).
* `Crash` loses every open transaction. Abstracted: sale items, the cash payment row and the sale are one
  record that commits at once; every product has its batch; ids, texts, tax and the business id are left
  out (one business; the queries filter by it).
* The history variables `first`, `stale`, `book`, `overlapped` are read by no action.

`Movement`, `ReadBatch` and `WriteBatch` serve the loops of `create_sale` (65-72) and `void_sale` (162-165);
autoflush writes the change of one round with the first statement of the next, so the lock of the
previous batch is taken before the next batch is read.

### Payments

`checkouts` is Daraja's truth, `callbacks` a set of messages that is never emptied: a call may arrive any
number of times, in any order, before the push is committed, or never. `op[r]` is a push, a callback
or a query; `loaded` and `row` are the columns of the payment as the session read and changed them, and
`Written` the UPDATE of those that differ. A query asks Daraja first and reads the row later. A successful
callback changes the row, fails at line 90, swallows the error and commits; a declined one and a query
flush, and hold the row until they commit. `mock` is chosen once: a process without credentials answers
every push with the same checkout id and every query with "0". The database is taken to be Postgres;
SQLite's one lock allows fewer interleavings of these single-row transactions. Left out: the OAuth token,
amounts in callbacks (read and not used), the sale link, whose update is not reached.

### RateLimit

A call is `new`, waits for a `ping`, for the `pipe` that counts in Redis or for its `ttl`, and ends `admitted`,
`refused`, `failed` (Redis failed; nothing catches it) or `lost` (restart). `store` is the module's `_store`; a memory
store is named after the call that built it, and Redis survives a restart. Arriving at a ready memory store
counts in the same step, because there is no await between. Time is in ticks of `1/Second`; the window is
whole seconds, the seconds reported are truncated (memory) or rounded (Redis). Abstracted: how prefix,
address and user make a key (`Callers` says which calls share one), routes without a limit, the one-second
limit of the ping (it fails or answers), clocks that step back.

`FixedWindow` is what the comments ask for. `MemoryIsAFixedWindow` maps each bucket of each memory store to
one of its counters: the refinement hides pings, races, restarts and the hits counted beyond the limit.

### Services that read, then write

Every one of these modules has the same skeleton. A request reads in one action (`Start...`), which keeps in the
request's record what it decided, and its writes become visible in another (`Commit...`), get_db's commit
after the answer; `Lose...` is a restart or a failed commit, which undoes all of it. A row is named by the
request that made it. Which requests overlapped is kept in history variables that no action reads.

* `CustomerCredit` (`modules/crm`): `clerk[k]` carries the operation, the amount and the balance it saw. The repository
  writes one column, computed from the row read, so `CommitLimit` leaves the balance alone and
  `CommitBalance` writes an absolute value. A limit of null is refused by the response model before the
  commit. From flush to commit nothing is decided and the row is locked: one step. The other fields of a
  customer are left out; the totals of a sale are in `StockLedger`.
* `PromptStore`: `ReadActive` picks any active row (`first()` without ORDER BY) and settles the version; `CommitVersion`
  switches that row off and inserts the next.
* `AutomationRules`: seeding asks whether there is any rule, a run loads the enabled rules and evaluates them one by one
  (`RunRule`: it fires, does not, or its query fails, and the failure is logged and swallowed), and commits
  the counts and logs together. `dialect` decides what a commit finds: SQLite's write lock makes a later
  writer fail (`Conflict`), and Postgres refuses to delete a rule that has logs.
* `Accounts`: codes live in the process and die with it; a code is taken by `pop`. `Register` looks up, `InsertAccount`
  answers with tokens, `CommitAccount` commits or meets the unique phone. A refresh is `Refresh` (decode),
  `Install` (the lazily built store of revocations), `Check`, `Rotate`; between them other calls run, `Restart` empties a memory
  store, and Redis may fail (`StoreError`). Time runs in half seconds because a revocation lasts whole
  seconds. Hashes and signatures are abstracted to whether they are good.
* `Catalogue`: creation looks the barcode up, an edit does not, removal only sets `is_active`; `Lookup` raises where two
  rows match, deleted or not.
* `BusinessMemory`: a confidence is asked on one scale, stored as a percentage, and compared with a threshold on the scale
  of the request; `MonthPasses` makes entries old enough to prune. On Postgres the columns are naive and a search that
  sets an aware `last_accessed` fails.
* `Conversations`: `Ask` appends the question to a list in memory and takes the window the model will see, `Reply` or `ModelFails` end
  the wait, `Remember` commits the entry. `Reboot` empties the lists. `Window` is the number of messages shown.

### Services that compute

* `Reports`: a report is a list of queries (`SummaryQueries` and the like); `RunQuery` runs the next one on what is committed;
  the figures are computed from the answers exactly as the code does. `SaleCommits` and `VoidCommits` come in
  between. Days count back from the report's day; `Weekdays` and `Days` name the weekday and day of month.
* `Detectors`: `Observe` runs the arithmetic of the movers and the interquartile range in one step, `DayEnds` adds a day of
  revenue. The queries are one snapshot here; that they are not is the subject of `Advisor` and `Reports`. A percentile is
  a mean of two of the values by rank (`Ranked`, the k-th smallest), which is what numpy's sorting comes to. Days of
  stock are a quotient of a quotient in floating point, which may fall just short of a whole number and is truncated:
  `ShortQuotients` names the pairs of sold and stock for which it does (31 and 31, 31 and 62, ...).
* `Advisor`: readiness is two queries, asked again by every detector, with sales and voids in between;
  `AskModel` gives the request an outcome of the gateway.
* `BusinessDNA`: `DNAQueries` one by one with the shop's changes in between, the five components of the score and the trend as
  operators on the answers. The cluster a customer falls into is any.
* `Documents`: from the write of the temporary file to its removal nothing is awaited, so only the end of the process
  comes between; `Installed` says which engines the image has.

### What the program stands on

* `ConnectionPool`: a visitor has up to three sessions (`place`, `handler`, `auditor`), each waiting for a connection or holding one. The audit session
  begins while the request's own still waits for its commit. `TimesOut` is the pool's timer, `Stop` a restart.
* `Migrations`: alembic runs a revision's statements in one transaction with the tables it sees; `create_all` runs when a container
  starts, and writes no `alembic_version`. `release` is the first release or this one, whose newer revision does not load,
  so that the statements of a revision run in the first release only.
* `ModelGateway`: the body of an answer grows line by line (`LineArrives`) and is parsed when it ends (`BodyEnds`), as events or as
  one JSON object; a text is named by its line, and the content is the lines with text in ascending order (`InOrder`). A line
  is an event as the provider sent it: one whose text `splitlines` tears in two (`split`), one whose content is no text
  (`value`) and one that is no object (`bare`) are kinds of their own, as are the contents an object may have (`Objects`).
  `spoken` is what the provider said: all texts, those in one piece, and the events that named a model.

## 3. Properties and runs

| run | instance | shows |
|---|---|---|
| `stock_sqlite` | 3 requests, 2 products, 1 customer, baskets with a product listed twice, two prices, one edit kind | `OnlyAdjustmentsGoStale`, `AsAsked`, `SalesBook`, `AdjustLeavesNoDebt` |
| `stock_postgres` | 3 requests, 2 products, crossing baskets, fair | `Accounting`, `LowStockAlerted`, `Answered` |
| `stock_serial` | 4 requests one at a time, a restart, branches that may be missing | `ImplementsBook` |
| `lost_update`, `double_void`, `sale_foreign_key` | 1 to 3 requests | findings, section 6 |
| `entrance` | 4 calls of one caller, limits 1 and 2, a window of 2 ticks, a restart; 4 requests about payments, both modes, a restart | `PassesAreBounded`, `RefusalIsEarned`, `RetryAfterIsHonest`, `StoreIsReplacedOnlyByARacer`, `MemoryIsAFixedWindow`; `OutcomeIsDarajas`, `CallbackIsApplied`, `ReceiptIsKept` |
| `payment_announced` | the payments of `entrance` | finding, section 6 |
| `redis_window` | the limiter of `entrance` | finding, section 6 |
| `services` | twelve parts, 3 to 5 requests each, symmetric | one invariant for each of the twelve service modules, two for `Accounts`, and `CreditIsCovered` |
| `platform` | 3 visitors for 2 connections, 2 of whom publish, one stop; 3 alembic commands; bodies of 4 lines; fair | `ConnectionsAreReturned`, `EveryRequestEnds`, `RevisionsAreSound`, `AnswersAreRead` |
| `prompt_active` | the prompts of `services` | finding, section 6 |

`TypeOK` is checked in `stock_sqlite` and `entrance`, `PaymentsTypeOK`, `ServicesTypeOK` and `PlatformTypeOK` in the runs of their parts. Every property of a passing run has a mutant: a faulty
variant of one definition, kept before it in the module and marked "Faulty", with which TLC finds the
property violated. A property that is a conjunction of named parts has one for each part that a single
bug of the code could break. What is proved for both dialects (`Accounting`, `AdjustLeavesNoDebt`) is checked in one of them.

The properties in words:

* `Accounting`: where no two requests overlapped on a batch, its quantity is the opening one plus every
  committed movement, a void counted once. With the findings this says exactly how stock can go wrong:
  by a read-modify-write that enclosed another commit, or by a second void, and in no other way.
* `OnlyAdjustmentsGoStale`: on SQLite, a sale or a void writes the sale's row before it reads a batch, so
  it already holds the write lock and never works on a stale quantity; only `adjust_stock`, which reads
  first, does.
* `AdjustLeavesNoDebt`: a stale check never commits a negative quantity, because what is written is the
  value that was checked.
* `AsAsked`, `SalesBook` (`SalesCoherent` and `CustomerTotals`), `LowStockAlerted`: see the comments in `StockProperties`.
* `Answered`: no request waits for ever. Fairness: weak fairness of each request's own steps, which is what
  the event loop (every ready coroutine runs) and the database (a wait for a lock ends by grant,
  deadlock detection or timeout) provide. Arrivals and crashes are not fair: nobody has to call.
* `OutcomeIsDarajas`: a completed payment was paid and a failed one was declined, unless some query was
  answered while the customer had yet to decide (`early`). The exception is the code's: line 124 takes
  every answer but "0" for a failure, and may overwrite what a callback stored.
* `CallbackIsApplied`, `ReceiptIsKept`: what a callback said survives repeats, reordering, and sessions that
  read the row earlier; the receipt does so because only changed columns are written.
* `PassesAreBounded`: within any stretch of one window's length a memory store lets at most twice the limit less
  one through (the tail of one window and the next), Redis at most the limit.
* `RefusalIsEarned`: the memory store refuses nobody before the limit was reached within the last window. The
  Redis store does (`redis_window`).
* `RetryAfterIsHonest`: one second more than the truncated `Retry-After` is enough, unless others were faster.
* `StoreIsReplacedOnlyByARacer`: counts are forgotten in the step in which a call that found no store ends its ping of
  Redis, or by a restart, and at no other moment.
* `BalancesAreKept` (`BalanceWithinLimits`, `BalanceIsOwed`), `CreditIsCovered`: stale checks may lose a credit or a payment, but never
  make a balance negative or larger than a limit the customer once had.
* `VersionsAreKept` (`NewestIsActive`, `VersionsAreTracked`, `ExtrasAreRaces`): however creations overlap, versions have no gap, the newest is
  active, and more than one is active only where a creation was overtaken (that this happens at all is a finding,
  `prompt_active`).
* `RulesAreKept` (`CountIsLogged`, `SeedsOverlapped`), `SharedBarcodesAreRaces`, `OneAccountPerPhone`, `CredentialsWorkOnce` (`CodesAreSpent`,
  `TokensRotateOnce`), `MemoriesAreKept` (`FoundEntriesSurvive`, `AccessesAreCounted`): what the code promises, with exactly
  the overlaps, lost stores and restarts that break the promise as exceptions. That a consolidation prunes too seldom is in section 6.
* `ThreadsAreCoherent` (`TurnsAreKept`, `OnlyOverlapsInterleave`, `RememberedWereAnswered`): the shared list loses nothing, and turns interleave
  only with those that were really said meanwhile.
* `ReportsErrByTraffic` (`FiguresErrByTraffic`, `ProfitAddsUp`, `UnitsAreAccountedFor`) and `AdviceIsTrue` (`VerdictsWereTrue`, `RefusalsNameTheShortage`,
  `ModelFailuresAreAnswered`): reports and refusals are exact when nothing commits meanwhile, and wrong by at most what did; a
  failing model is answered for. A figure is compared with the sales of the days it is asked for. For the sixth, "last
  month", those are the days the code takes, from thirty days ago to the first of the month: they are not the calendar's
  last month, and none at all on the 31st (section 6).
* `ObservationsAreSound` (`ReorderLeavesThreeDays`, `BestSellersAreWatched`, `OutliersAreRare`), `ProfileIsSound` (`ScoreIsBounded`, `TrendFollowsTakings`): the
  arithmetic, on every combination of the small inputs.
* `FilesAreRemoved`: what a failure half way leaves behind.
* `AnswersAreRead` (`StreamsAreReadInOrder`, `OthersAreObjects`): a call that does not raise answers every text that arrived in one piece, once and
  in order, under a name the stream gave, or the content of a body that was one JSON object; nothing passes for an empty
  answer, and who asked for JSON gets JSON. What raises, which name counts and what becomes of torn texts is in section 6.
* `ConnectionsAreReturned`: on every path of errors, timeouts and stops. `EveryRequestEnds`: requests that hold all
  connections and wait for one more get out by `pool_timeout`. Fairness: weak fairness of each visitor's steps and of
  the timer, because the event loop runs what can run, the database answers and timers fire; nobody has to arrive.
* `RevisionsAreSound` (`NoStatementDangles`, `SchemasAreWhole`): a command that dies or is refused leaves a whole schema or none, and where
  `alembic_version` names the first revision its tables are there. Not the other way round: tables of `create_all` have no
  version. It is about 2ac145176d01, the only revision that can be loaded.

Bounds. Three concurrent requests are needed for a third party to commit between another's read and
write while a void follows a sale; two products and baskets in both orders give the deadlock; opening
stock 1 with sales of 1 to 3 reaches zero and negative stock. Four requests give a push with two
callbacks and a query, which is where stale columns, double delivery and an early answer meet, and two
pushes with two callbacks. Requests are interchangeable, so the safety runs use symmetry; the liveness
run does not. In `entrance` calls
and requests have the same names, so that one symmetry serves both parts; the limiter may rest where its clock stops, so
that a deadlock would be one of the payments. For the limiter,
limit 1 reaches a second refusal in a later window with four calls, limit 2 the seam of two windows; time runs
to just past one window. In `services`, a race needs two requests and a third that finds its outcome; a fourth clerk has a
limit edited between the read and the commit of a credit, five authors let three creations overlap and two follow; two
receipts, one sold before and one during a report, make each difference of queries wrong in both directions, on the 5th and on the 31st;
four wares are one more than the best sellers the code looks at, of three kinds, one with a quotient that falls short (`FallShort`); seven days are the fewest with an interquartile range. The twelve
parts share nothing, so a behaviour is of one part and the others stand still. In
`platform`, two publishers on two connections are the smallest gridlock; the third visitor waits outside. One restart is enough for a safety property of a system whose restart only ends sessions.

## 4. Proofs

Eight modules hold theorems. TLAPS checks them for all values of the constants, under the assumptions named in the
modules. These say that quantities are integers and limits naturals, that baskets are not empty, that special values
(`NoOne`, `Redis`, `NoBarcode`, ...) are distinct from the rows, and, where something is counted or summed, that the
set of rows is finite: `Visitors`, `Calls`, `Invoices`, `Receipts`, `Purchases`, `Patrons`, `Shelves`, `Wares`. A
table is finite, so the code justifies them.

| theorems of | state |
|---|---|
| `StockLedgerProofs` | `TypeCorrect`, `AccountingHolds`, `OnlyAdjustments`, `AdjustSafe` |
| `StockPropertiesProofs` | `AskedAndDone`, `LowStockIsAlerted` (on Postgres), `SalesAddUp`, `SerialImplementsBook` (the refinement, with `MaxInFlight = 1`) |
| `PaymentsProofs` | `TypeCorrect`, `OutcomeCorrect`, `CallbacksApplied`, `ReceiptSafe`, `PushesAreFound` |
| `RateLimitProofs` | `TypeCorrect`, `StoreSettles`, `MemoryImplements` (the refinement), `RefusalsAreEarned`, `PassesBounded`, `RetryIsHonest` |
| `ServicesProofs` | `CreditTypes`, `BalancesKept`, `GrantsAreCovered`, `PromptTypes`, `VersionsKept`, `BarcodesShared`, `RulesKept`, `MemoriesKept`, `ThreadsCohere`, `AccountPerPhone`, `CredentialsOnce` |
| `AnalysesProofs` | `FilesRemoved`, `AdviceTrue`, `ReportsErr`, `ProfileSound`, `ObservationsSound`, `ServicesTypes` |
| `PlatformProofs` | `PoolTypes`, `ConnectionsReturned`, `RevisionsSound`, `AnswersRead`, `PlatformTypes` |

`SumTheorems` is the library under them. Induction theorems that take an operator are out of the prover's reach, so
its facts about sums are proved by induction in the form of sets: the subsets of a finite set that violate the claim
have one of least cardinality (`WFMin` of the well-founded order of the naturals), and that one leads to a smaller.
From this come the sum of a function one of whose values changes, of a part, of ones, of values that are bounded, and
the maximum and minimum of a finite set.

### The stock

*Types* need `Control`: where a request is tells which operation it runs and that its line index is in range.
*Accounting* is not inductive: the strengthening `Ledger` adds `Exclusion` (no two open transactions wrote the same
row; on SQLite no two wrote at all) and, per request, that a batch it loaded and that is not marked stale still has
the committed quantity it first read, so that adding `mine - first` to the book is what the commit does to the table.
*OnlyAdjustments* needs that a sale or void that has loaded a batch already holds a lock (`UnderLock`), and then
exclusion does the rest. *AdjustSafe* needs that an adjustment past its check holds a non-negative value.
*AskedAndDone* carries through the loop (`Moved`) that the session moved each batch by the sum of the lines loaded so
far, and has locked those of the lines written. *LowStockIsAlerted* holds on Postgres only: on SQLite the handler
waits for the lock of its own publisher until it gives up, and the alert is lost (`HandlerTimeout`). *SalesAddUp*
needs that a sale being entered has one price per product (`Priced`), that whoever holds the row of a customer is
about to write the totals on file plus its own (`Bought`), and that a stored sale adds one term to the sums.
*SerialImplementsBook* maps the commit of a request to one step of the abstract book and everything else to a stutter;
with one request in flight (`Serial`) what it read is still what is there, its lines are those it was asked for, and
the sale it voids still stands. Without `MaxInFlight = 1` this is false, as `lost_update` and `double_void` show.

### Payments

They rest on `Heard` (what a callback or an answer says is what Daraja settled, and settled is for good) and `Rows` (a
row is the row of a push that ended, under that push's checkout; what a request is about to write is what it heard; a
loaded receipt is still there). Both were first checked by TLC.

### The rate limit

*MemoryImplements* needs only the types, where a call has its store (`Located`) and that buckets were opened in the
past; a hit is a first, a further or a refused call of the abstract window by cases on the bucket. *RefusalsAreEarned*
counts: `FullWindows` says that the calls let through since the bucket was opened are at least `min(count, limit)`,
and a call once counted is never changed (`Keeps`), so the count of an old refusal only grows. *PassesBounded* is the
same count from above: the stretch before a bucket was opened let through less than the limit, and the bucket at most
the limit since (`MemoryBoundOf`), hence `2 * Limit - 1`; a Redis key counts on as long as a call could still reach an
earlier one (`RedisBoundOf`), hence `Limit`. *StoreSettles* needs
that a call which has a store is counted in the same step or waits for Redis, and pings no more (`CountedIsNotPinging`). *RetryIsHonest* needs that what a refused caller was `Told`, and a second
more, lies beyond the end of the bucket now open unless that was opened later.

### Accounts

*AccountPerPhone*: an open registration found the phone free and holds its row alone (`RowsAreHeld`).
*CredentialsOnce* is the deepest of these: `Underway` says what a call at each place of a refresh knows,
`RevocationsLast` that a revocation outlives its token by all but the last second, `RotatedAreRevoked` that a rotated
token is revoked in the store in use or its revocation was lost with a store, and `RacesAreKnown` that a call
refreshing a token that another rotated either overlapped that call or can still find the token revoked, lost, or in
its last second. A second rotation then has one of the three excuses the property names, and no other.

### Services that read, then write

* Credit: `Carried`: a request past its checks holds an amount which those checks bound by the highest limit so far,
  and that limit never falls, while the limit in force may; a balance not marked stale is still the one on file; of
  two requests only one creates a customer.
* Prompts: `Settled`: what a creation carries is the successor of the row it read, and a row never changes its
  version, whoever switches it off meanwhile. `ExtrasAreRaces` is not inductive: a creation that was overtaken adds one
  to both sides only if the bound is an equation (`ExactlyOneAndRaces`), with finitely many rows active. The number of
  requests need not even be finite.
* Barcodes: `CreationsSaw`: a creation under way has met every product committed with its barcode before it began, or
  overlapped it.
* Rules: `SeedSaw`: the same for a seeding and the rules there are; `DeskFits`: what a run loaded is never ahead of
  the logs, and new rules are nowhere else before their commit.
* Memory: `ConsolidationsFit`: what a consolidation is about to prune was found unused when it looked, so a search
  that returned it later was open with it.
* Conversations: `Hears` (an open chat has heard exactly those that stand behind its question), `Turn` (a chat's
  question and answer stand in its thread once each, the answer after the question), `Whole` (between the two stand
  those it heard) and `Entry` (what is remembered was answered).
* Documents: `FilesAreRemoved` is inductive by itself.

### Services that compute

* Advice: `CheckUnderway` and `QuietFigures`: unless a sale was voided since, the days a check has read are a lower
  bound of the days now, so what the second query finds makes the verdict true at that moment; without traffic every
  figure is what the sales still say.
* Reports: `Known(i)` is the i-th answer once there is one, and what it would be now until then. Every commit moves
  each known figure by at most its own worth, and adds that worth to the traffic, so the bounds are invariants of a
  report under way and not only of one that is done.
* DNA: `ProfileInv` says that each answer fits its query (a count is natural, a sum an integer); the rest is
  arithmetic about quotients. The ranges hold although no two answers need come from one moment.
* Detectors: `DetectorInv`: what was told is what there still is to tell, until the data change. With `n = 4q + s`
  days, a spike lies strictly above the value of rank `n - q` and a drop below that of rank `q + 1`, so at most `q`
  days are either. A ware outsold by at most two is among the first three of any order by sales (`FirstThree`, a
  pigeonhole), and the truncated days of stock stay under the real ones (`LastingIs`).

### What the program stands on

* Pool: the connections out are counted by three sessions per visitor; a visitor is audited once, after its response
  (`AuditedOnce`), so that the three never hold more than the count says.
* Migrations: `Underway` says how far a command got: it sees the tables it has made, or not yet dropped, the first so
  many in the order of their references, and the statements left are the rest.
* Gateway: what was `spoken` is what the body says, line by line, and a finite set of numbers has only one ascending
  enumeration, so what is parsed is what was said, once and in order. An answer that did not raise had no line of the
  kinds that raise; without a text it was one JSON object, and by cases on that object and on what was asked for,
  `OthersAreObjects` follows.

### The compositions
`ServicesTypes` and `PlatformTypes` are about the composed specifications the runs `services` and `platform` use. Their
inductive invariants, `ServicesInv` and `PlatformInv`, conjoin those of the parts, because a step of one part leaves the
others alone; a part that is not looked at has one beginning, which satisfies its invariant too (`QuietReports`,
`QuietAdvice`, `QuietProfile`). So every invariant above holds of the compositions as well. Some types say more than the
inductive invariants of the parts and needed facts of their own:

* a confidence is in 0..100 because the mean of percentages is one (`MeanIsAShare`, from `SumBounded`), and because an
  upload past its first step has an engine that is installed (`EnginesAreThere`);
* a request reads its figures at most eight times, the most any kind does (`FiguresBounded`);
* a body never grows beyond the bound on lines (`BodyBounded`), and a profile stores no other signs than its three
  (`SignsFit`).

What proving changed. `UnitsAreAccountedFor` was false as first stated, for sales older than thirty days, which the
small instance did not contain: the property now excludes them from the stock of thirty days before, as the query
does, and `services` has an age beyond it. `Detectors` and `ModelGateway` say by rank and by order what they said by
sorting and selecting before, because what a recursive library operator returns cannot be proved. Several constants
got the finiteness assumptions named above.

Model-checked only, and why. `Answered` and `EveryRequestEnds` are liveness under fairness, which the prover does not
do. Every other property of a passing run is stated by a theorem. What a sum or a sequence operator of the libraries computes is taken from their definitions and
proved where it is used.

## 5. What the database is taken to do

Postgres at READ COMMITTED: a SELECT sees committed rows and the transaction's own writes; an UPDATE
waits for the row, then writes the values it was given; a cycle of waits ends with a victim. SQLite: one
writer at a time, a busy timeout, no foreign keys. These definitions are marked external in the map.

## 6. Findings

1. `lost_update`: `adjust_stock` loses a concurrent movement (`inventory/router.py` 136-144).
2. `double_void`: two voids of one sale both pass the check (`sales/router.py` 159) and restock twice.
3. `sale_foreign_key`: on Postgres `branch_id=""` violates the foreign key, so no sale is stored.
4. `payment_announced`: the callback reads `payment.business_id`, which does not exist; the error is
   swallowed, the payment is completed and nobody is told.
5. `redis_window`: every call prolongs the Redis window (`ratelimit.py` 56), so a caller within the rate is refused
   for as long as it keeps calling; the comments promise a fixed window.
6. `prompt_active`: two creations that overlap leave two active versions (`prompt_store.py` 26-36); `models/__init__.py` 346 says
   "one active prompt per key per business".

Also at odds with a document, but by a single call or command whatever else happens, so that no run is spent on them. The
models do what the code does here, and no property says that it should be so:

* On SQLite `on_low_stock` (`core/handlers.py` 45) waits for the write lock its own publisher holds (`inventory/router.py` 143) until its
  timeout, which `EventBus.publish` swallows; `handlers.py` 6-10 promises a notification per event, "regardless of which
  request published" it. `LowStockAlerted` is checked and proved for Postgres.
* Memory: confidences are stored as percentages (`memory.py` 83) and compared with 0.1 (185), so a consolidation leaves the
  entries that line 173 says it removes, but for those of 0.
* Gateway: the last event that names a model counts (`gateway.py` 150-151), not "the first event" that carries it (132-133).
  A well-formed answer of an unexpected type raises `AttributeError` (150) or `TypeError` (162, 194), while `llm.py` 5 says "All
  failures raise GatewayError"; a missing key raises `ConfigurationError`, as `test_gateway.py` 15 wants it and `gateway.py` 8 does not.
  `str.splitlines` (139) also breaks at U+2028, U+2029 and U+0085 inside an event's JSON string, and drops the event, while
  130-132 says that the texts are accumulated.
* Migrations: the container makes all tables before it serves (`migrate.py` 17-19) and records no revision, so that the `alembic
  upgrade head` that `src/README.md` 12-13 asks for next fails at the first table (`DuplicateTable`). In this release it does not
  get that far: `4f1c2d3e5a60` uses `Union` without importing it (10-12), and no alembic command runs at all (`NameError`).

Seen while modelling, and not run as findings, because no statement of the repository says otherwise or because the models
carry them as named exceptions of a property:

* Payments: an early query turns a payment that is later paid into a failed one or, racing the callback, undoes it; a push whose
  answer is lost leaves a checkout nobody recorded; in mock mode every push gets the same checkout id, so that two
  pushes cannot be found by it (`mpesa.py` 95; the test makes one, `test_payments.py` 116).
* Stock: oversold stock refuses small additions; on Postgres a sale to a known customer fails at `last_visit`;
  `update_product` sets a barcode unchecked, and a deleted product keeps its own and makes the lookup raise.
* Accounts: a refresh token rotates twice if two calls overlap, if the store of revocations was lost with the process, or in the last
  second of its life; `revoke_token_sync`, which nobody calls, calls `revoke` on a coroutine and swallows the error.
* Automation: where a rule exists, seeding raises at `automation.py` 32 (a second `scalar()`) instead of answering 0; Postgres refuses to delete a rule that has
  logs.
* Memory: a search's threshold, given as a fraction, is compared with a percentage, so it lets all but 0 pass; on Postgres a search that finds something fails on an aware
  `last_accessed`.
* Partner: the fallback after a failing model subscripts a dict like a list and raises itself (`partner.py` 221); `isinstance(rev, dict)` at 156 is never true; a long conversation
  pushes the system prompt out of the window.
* Documents: the generator of faster-whisper is exhausted by the text, so the confidence is always 0.
* Reports: aware bounds fail on Postgres; `to_char` does not exist on SQLite. "Last month" (`api/reports/routes.py` 29, 44) runs from thirty days ago
  to the first of this month: it misses the beginning of last month on most days, and is empty on the 31st. Only the
  name of the field (`schemas/reports.py` 12) says otherwise.
* Gateway: a content that is no text is handed on to who asked for text; nothing asks for `[DONE]`, so a stream cut short is
  taken as whole.
* DNA: a month without sales counts as one cent, so two empty months are "declining", and a month of refunds turns the comparison around.
* Pool: as many publishers as there are connections wait for each other until the timeout.

## 7. Not modelled, and the plan

Out of scope for good: messaging and integrations (calls to external services, no state another part reads), the
model router (a table of constants), permissions, configuration, logging, error pages and headers (wiring), and the
skeleton modules, which implement no operation. Of the modelled components, lists and look-ups that only read one row
are left out, and so are the text of prompts, reports and receipts, suggestions to the partner, the suppliers' score (the same
for all), offline migrations, and `on_payment_completed`, which no event reaches.

Next, proofs, in this order:

1. The action properties and invariants of the parts restated over the composed specifications of `MCServices` and
   `MCPlatform`, from `ServicesInv` and `PlatformInv`, which contain them.
2. `StockLedger`: `Exclusion` and the deadlock-free order of locks on SQLite as theorems of their own; `Ledger` as an invariant a run checks.
3. Refinements still worth stating: an abstract prompt store with one active version, which creations one at a time implement; an
   abstract token store, which calls one at a time implement.
4. The operators of the proofs that several modules share (counts that change by one row, sums of which one term changes) gathered in `SumTheorems`.
