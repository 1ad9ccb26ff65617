---------------------------- MODULE StockLedger ----------------------------
(***************************************************************************)
(* The requests that move stock: POST /products/stock/adjust, POST /sales, *)
(* POST /sales/{id}/void and the two product edits (PATCH, DELETE), run by *)
(* one asyncio process over one SQL database.                              *)
(*                                                                         *)
(* A request is a sequence of statements.  Between two of them the event   *)
(* loop may run any other request.  A SELECT sees what is committed (and   *)
(* what its own transaction wrote), a value once loaded stays in the       *)
(* session, `batch.quantity += n` is computed on that loaded value and     *)
(* written back as an absolute number, an UPDATE keeps its lock until the  *)
(* transaction ends, and get_db commits after the response was sent.       *)
(*                                                                         *)
(* Dialect "postgres" locks rows and enforces foreign keys; "sqlite" (the  *)
(* tests and .env.example) has one write lock for the whole database and   *)
(* ignores foreign keys.                                                   *)
(***************************************************************************)
EXTENDS Integers, Sequences, FiniteSets

CONSTANTS
  Requests,        \* each is handled once; a sale's id is the request creating it
  Products,        \* every product has one batch (ProductRepository.create)
  Customers,
  NoCustomer,      \* a walk-in sale, customer_id is None
  Kinds,           \* which operations the clients of this instance call
  Baskets,         \* the item lists a sale may be asked for
  AdjustQuantities, Discounts, Prices,
  OpeningStock, MinQuantity,
  Dialect,
  BranchLookups,   \* may a sale find a branches row for the id "" of line 61?
  MaxInFlight,     \* requests handled at the same time
  MaxCrashes       \* restarts of the process (compose: restart unless-stopped)

Lines == [product : Products, quantity : Int, price : Int]

ASSUME DialectAssumption ==
  /\ Dialect \in {"postgres", "sqlite"}
  /\ BranchLookups \subseteq BOOLEAN
  /\ Dialect = "sqlite" => BranchLookups = {TRUE}
ASSUME DataAssumption ==
  /\ OpeningStock \in Int /\ MinQuantity \in Int
  /\ Prices \subseteq Int /\ AdjustQuantities \subseteq Int /\ Discounts \subseteq Int
  /\ Baskets \subseteq Seq([product : Products, quantity : Int])
  /\ Kinds \subseteq {"adjust", "sale", "void", "edit"}
  /\ NoCustomer \notin Customers
  /\ \A basket \in Baskets : basket # <<>>
ASSUME BoundAssumption == MaxInFlight \in Nat /\ MaxCrashes \in Nat

VARIABLES
  (* committed tables *)
  stock,      \* inventory_batches.quantity
  product,    \* products: price, is_active
  sales,      \* sales with their sale_items and payment
  customer,   \* customers: total_visits, total_spent
  alerts,     \* low_stock notifications: the requests whose event raised one
  (* sessions *)
  pc, op,
  at,         \* the line being handled
  lines,      \* adjust: its one line; sale: the lines priced; void: the items read
  known,      \* batches loaded into the session
  mine,       \* their quantity as the session holds it
  total, account,
  held,       \* rows written by the open transaction, hence locked
  crashes,
  (* history, read by no action *)
  first,      \* the committed quantity a session first read
  stale,      \* batches another request committed between this one's read and write
  book,       \* opening stock plus every movement, a void counted once
  overlapped  \* batches where two requests overlapped

tables == <<stock, product, sales, customer, alerts>>
session == <<pc, op, at, lines, known, mine, total, account, held>>
history == <<first, stale, book, overlapped>>
vars == <<stock, product, sales, customer, alerts, pc, op, at, lines, known,
          mine, total, account, held, crashes, first, stale, book, overlapped>>

None == [kind |-> "none"]
NoSale == [status |-> "none", lines |-> <<>>, total |-> 0, discount |-> 0,
           customer |-> NoCustomer]
NoAccount == [visits |-> 0, spent |-> 0]

Ended == {"done", "refused", "failed", "lost"}
InFlight == {r \in Requests : pc[r] \notin Ended \cup {"new"}}

BatchRow(p) == <<"batch", p>>
SaleRow(s) == <<"sale", s>>
CustomerRow(c) == <<"customer", c>>
ProductRow(p) == <<"product", p>>

(* The lock manager: on SQLite any open write transaction excludes the     *)
(* others, on Postgres one that wrote the same row does.                   *)
Excludes(q, row) ==
  IF Dialect = "sqlite" THEN held[q] # {} ELSE row \in held[q]
Blocked(r, row) == \E q \in Requests \ {r} : Excludes(q, row)
(* Faulty: a write that does not wait for the row.                         *)
LockWithoutWaiting(r, row) == held' = [held EXCEPT ![r] = @ \cup {row}]
Lock(r, row) == /\ ~Blocked(r, row)
                /\ held' = [held EXCEPT ![r] = @ \cup {row}]

Goto(r, label) == pc' = [pc EXCEPT ![r] = label]

(* Leaving without a commit: get_db rolls back, nothing reaches a table.   *)
Abort(r, outcome) ==
  /\ Goto(r, outcome)
  /\ held' = [held EXCEPT ![r] = {}]
  /\ UNCHANGED <<tables, op, at, lines, known, mine, total, account, crashes, history>>
----------------------------------------------------------------------------
Init ==
  /\ stock = [p \in Products |-> OpeningStock]
  /\ product \in [Products -> [price : Prices, active : {TRUE}]]
  /\ sales = [s \in Requests |-> NoSale]
  /\ customer = [c \in Customers |-> NoAccount]
  /\ alerts = {}
  /\ pc = [r \in Requests |-> "new"]
  /\ op = [r \in Requests |-> None]
  /\ at = [r \in Requests |-> 1]
  /\ lines = [r \in Requests |-> <<>>]
  /\ known = [r \in Requests |-> {}]
  /\ mine = [r \in Requests |-> [p \in Products |-> 0]]
  /\ total = [r \in Requests |-> 0]
  /\ account = [r \in Requests |-> NoAccount]
  /\ held = [r \in Requests |-> {}]
  /\ crashes = 0
  /\ first = mine
  /\ stale = known
  /\ book = stock
  /\ overlapped = [p \in Products |-> FALSE]

(* A request of one of the enabled kinds reaches its handler.              *)
Arrives(r, kind) ==
  /\ pc[r] = "new" /\ kind \in Kinds
  /\ Cardinality(InFlight) < MaxInFlight

(* Faulty: a batch met again is read as committed, own writes ignored.     *)
LoadedAfresh(r, p) == stock[p]
(* The row as the session sees it: loaded before, or committed.            *)
Loaded(r, p) == IF p \in known[r] THEN mine[r][p] ELSE stock[p]
Load(r, p, value) ==
  /\ known' = [known EXCEPT ![r] = @ \cup {p}]
  /\ mine' = [mine EXCEPT ![r][p] = value]
  /\ first' = [first EXCEPT ![r][p] = IF p \in known[r] THEN @ ELSE stock[p]]

(* Faulty: the negative result is not refused.                             *)
StartUncheckedAdjust(r, p, q) ==
  /\ Arrives(r, "adjust")
  /\ op' = [op EXCEPT ![r] = [kind |-> "adjust"]]
  /\ lines' = [lines EXCEPT ![r] = <<[product |-> p, quantity |-> q, price |-> 0]>>]
  /\ Load(r, p, stock[p] + q)
  /\ Goto(r, "write")
  /\ UNCHANGED <<tables, at, total, account, held, crashes, stale, book, overlapped>>

(* adjust_stock: read the batch, add in Python, refuse a negative result.  *)
StartAdjust(r, p, q) ==
  /\ Arrives(r, "adjust")
  /\ op' = [op EXCEPT ![r] = [kind |-> "adjust"]]
  /\ lines' = [lines EXCEPT ![r] = <<[product |-> p, quantity |-> q, price |-> 0]>>]
  /\ Load(r, p, stock[p] + q)
  /\ Goto(r, IF stock[p] + q < 0 THEN "refused" ELSE "write")
  /\ UNCHANGED <<tables, at, total, account, held, crashes, stale, book, overlapped>>

(* create_sale, 50-57: the products of the request, one SELECT each.       *)
StartSale(r, basket, c, discount) ==
  /\ Arrives(r, "sale")
  /\ op' = [op EXCEPT ![r] = [kind |-> "sale", basket |-> basket, customer |-> c,
                               discount |-> discount]]
  /\ Goto(r, "price")
  /\ UNCHANGED <<tables, at, lines, known, mine, total, account, held, crashes, history>>

(* Faulty: each line takes the price of the moment.                        *)
PriceNow(r, p) == product[p].price

(* A product loaded for an earlier line keeps the price loaded then.       *)
PriceSeen(r, p) ==
  LET before == {k \in DOMAIN lines[r] : lines[r][k].product = p}
  IN  IF before = {} THEN product[p].price
      ELSE lines[r][CHOOSE k \in before : TRUE].price

ReadProduct(r) ==
  LET item == op[r].basket[at[r]]
      price == PriceSeen(r, item.product)
      last == at[r] = Len(op[r].basket)
  IN  /\ pc[r] = "price"
      /\ product[item.product].active
      /\ lines' = [lines EXCEPT ![r] =
           Append(@, [product |-> item.product, quantity |-> item.quantity, price |-> price])]
      /\ total' = [total EXCEPT ![r] = @ + price * item.quantity]
      /\ at' = [at EXCEPT ![r] = IF last THEN 1 ELSE @ + 1]
      /\ Goto(r, IF last THEN "insert" ELSE "price")
      /\ UNCHANGED <<tables, op, known, mine, account, held, crashes, history>>

(* 52-53: a deleted product is not found.                                  *)
ProductGone(r) ==
  /\ pc[r] = "price" /\ ~product[op[r].basket[at[r]].product].active
  /\ Abort(r, "refused")

(* Faulty: the row is only added to the session, the flush is missing.     *)
InsertSaleUnflushed(r) ==
  /\ pc[r] = "insert" /\ TRUE \in BranchLookups
  /\ total' = [total EXCEPT ![r] = @ - op[r].discount]
  /\ Goto(r, "read")
  /\ UNCHANGED <<tables, op, at, lines, known, mine, held, account, crashes, history>>

(* 58-64: the sales row, with branch_id "".                                *)
InsertSale(r) ==
  /\ pc[r] = "insert" /\ TRUE \in BranchLookups
  /\ Lock(r, SaleRow(r))
  /\ total' = [total EXCEPT ![r] = @ - op[r].discount]
  /\ Goto(r, "read")
  /\ UNCHANGED <<tables, op, at, lines, known, mine, account, crashes, history>>

InsertSaleViolatesForeignKey(r) ==
  /\ pc[r] = "insert" /\ FALSE \in BranchLookups
  /\ Abort(r, "failed")

(* void_sale, 156-160: the status check reads the sale without a lock.     *)
StartVoid(r, s) ==
  /\ Arrives(r, "void") /\ sales[s] # NoSale
  /\ op' = [op EXCEPT ![r] = [kind |-> "void", sale |-> s]]
  /\ Goto(r, IF sales[s].status # "completed" THEN "refused" ELSE "status")
  /\ UNCHANGED <<tables, at, lines, known, mine, total, account, held, crashes, history>>

(* 161-162: get_items flushes the new status first; it has no ORDER BY.    *)
Orders(s) ==
  {[k \in DOMAIN s |-> s[f[k]]] :
     f \in {g \in [DOMAIN s -> DOMAIN s] : \A j, k \in DOMAIN s : g[j] = g[k] => j = k}}

WriteStatus(r) ==
  /\ pc[r] = "status"
  /\ Lock(r, SaleRow(op[r].sale))
  /\ \E items \in Orders(sales[op[r].sale].lines) : lines' = [lines EXCEPT ![r] = items]
  /\ Goto(r, "read")
  /\ UNCHANGED <<tables, op, at, known, mine, total, account, crashes, history>>

(* Faulty: a void takes the quantities away again.                         *)
MovementOfVoid(r, line) ==
  IF op[r].kind = "adjust" THEN line.quantity ELSE 0 - line.quantity

(* The loops of create_sale (65-72) and void_sale (162-165): each batch is *)
(* read, changed in the session, and written by the flush that the next    *)
(* statement of the loop triggers.                                         *)
Movement(r, line) == IF op[r].kind = "sale" THEN 0 - line.quantity ELSE line.quantity

ReadBatch(r) ==
  LET line == lines[r][at[r]]
  IN  /\ pc[r] = "read"
      /\ Load(r, line.product, Loaded(r, line.product) + Movement(r, line))
      /\ Goto(r, "write")
      /\ UNCHANGED <<tables, op, at, lines, total, account, held, crashes,
                     stale, book, overlapped>>

(* An adjustment by 0 leaves the attribute equal and emits no UPDATE.      *)
WriteBatch(r) ==
  LET line == lines[r][at[r]]
      last == at[r] = Len(lines[r])
      then == CASE op[r].kind = "adjust" -> "publish"
                [] op[r].kind = "sale" -> "finish"
                [] OTHER -> "reply"
  IN  /\ pc[r] = "write"
      /\ IF line.quantity = 0 THEN UNCHANGED held
                              ELSE Lock(r, BatchRow(line.product))
      /\ at' = [at EXCEPT ![r] = IF last THEN @ ELSE @ + 1]
      /\ Goto(r, IF last THEN then ELSE "read")
      /\ UNCHANGED <<tables, op, lines, known, mine, total, account, crashes, history>>

(* Faulty: the spending is replaced by this sale's total.                  *)
FinishSaleForgetting(r) ==
  LET c == op[r].customer
  IN  /\ pc[r] = "finish"
      /\ IF c = NoCustomer
           THEN UNCHANGED <<account, held>>
           ELSE /\ Dialect = "sqlite"
                /\ account' = [account EXCEPT ![r] =
                     [visits |-> customer[c].visits + 1, spent |-> total[r]]]
                /\ Lock(r, CustomerRow(c))
      /\ Goto(r, "reply")
      /\ UNCHANGED <<tables, op, at, lines, known, mine, total, crashes, history>>

(* 76-83: the customer's totals; nobody subscribes to INVOICE_CREATED.     *)
FinishSale(r) ==
  LET c == op[r].customer
  IN  /\ pc[r] = "finish"
      /\ IF c = NoCustomer
           THEN UNCHANGED <<account, held>>
           ELSE /\ Dialect = "sqlite"
                /\ account' = [account EXCEPT ![r] =
                     [visits |-> customer[c].visits + 1,
                      spent |-> customer[c].spent + total[r]]]
                /\ Lock(r, CustomerRow(c))
      /\ Goto(r, "reply")
      /\ UNCHANGED <<tables, op, at, lines, known, mine, total, crashes, history>>

(* 81: asyncpg refuses an aware datetime for the naive column last_visit.  *)
LastVisitIsRejected(r) ==
  /\ pc[r] = "finish" /\ op[r].customer # NoCustomer /\ Dialect = "postgres"
  /\ Abort(r, "failed")

(* adjust_stock 145-152 and on_low_stock: the handler of STOCK_ADJUSTED    *)
(* writes the notification in a session of its own and commits it there.   *)
NewQuantity(r) == mine[r][lines[r][1].product]
HandlerBlocked == Dialect = "sqlite" /\ \E q \in Requests : held[q] # {}

(* Faulty: the minimum itself is not low.                                  *)
PublishBelowMinimum(r) ==
  /\ pc[r] = "publish"
  /\ IF NewQuantity(r) >= MinQuantity
       THEN UNCHANGED alerts
       ELSE /\ ~HandlerBlocked
            /\ alerts' = alerts \cup {r}
  /\ Goto(r, "reply")
  /\ UNCHANGED <<stock, product, sales, customer, op, at, lines, known, mine, total,
                 account, held, crashes, history>>

Publish(r) ==
  /\ pc[r] = "publish"
  /\ IF NewQuantity(r) > MinQuantity
       THEN UNCHANGED alerts
       ELSE /\ ~HandlerBlocked
            /\ alerts' = alerts \cup {r}
  /\ Goto(r, "reply")
  /\ UNCHANGED <<stock, product, sales, customer, op, at, lines, known, mine, total,
                 account, held, crashes, history>>

(* SQLite's busy timeout ends the handler; EventBus.publish swallows it.   *)
HandlerTimeout(r) ==
  /\ pc[r] = "publish" /\ NewQuantity(r) <= MinQuantity /\ HandlerBlocked
  /\ Goto(r, "reply")
  /\ UNCHANGED <<tables, op, at, lines, known, mine, total, account, held, crashes, history>>

(* update_product sets any of the fields, delete_product is_active alone:  *)
(* one UPDATE of the product row, of the columns that changed.             *)
EditProduct(r, p, row) ==
  /\ Arrives(r, "edit") /\ row # product[p]
  /\ op' = [op EXCEPT ![r] = [kind |-> "edit", product |-> p, row |-> row]]
  /\ Lock(r, ProductRow(p))
  /\ Goto(r, "reply")
  /\ UNCHANGED <<tables, at, lines, known, mine, total, account, crashes, history>>

(* The response leaves before the dependency get_db commits.               *)
Reply(r) ==
  /\ pc[r] = "reply"
  /\ Goto(r, "commit")
  /\ UNCHANGED <<tables, op, at, lines, known, mine, total, account, held, crashes, history>>

Written(r) == {p \in Products : BatchRow(p) \in held[r]}
(* Faulty: the status is left to be set later.                             *)
SaleMadeOpen(r) == [status |-> "open", lines |-> lines[r], total |-> total[r],
                    discount |-> op[r].discount, customer |-> op[r].customer]
SaleMade(r) == [status |-> "completed", lines |-> lines[r], total |-> total[r],
                discount |-> op[r].discount, customer |-> op[r].customer]
Revoids(r) == op[r].kind = "void" /\ sales[op[r].sale].status = "voided"

CommitTables(r) ==
  /\ stock' = [p \in Products |-> IF p \in Written(r) THEN mine[r][p] ELSE stock[p]]
  /\ sales' = CASE op[r].kind = "sale" -> [sales EXCEPT ![r] = SaleMade(r)]
                [] op[r].kind = "void" -> [sales EXCEPT ![op[r].sale].status = "voided"]
                [] OTHER -> sales
  /\ product' = IF op[r].kind = "edit" THEN [product EXCEPT ![op[r].product] = op[r].row]
                                       ELSE product
  /\ customer' = [c \in Customers |-> IF CustomerRow(c) \in held[r] THEN account[r]
                                                                    ELSE customer[c]]
  /\ UNCHANGED alerts

CommitHistory(r) ==
  /\ stale' = [q \in Requests |->
       IF q \in InFlight \ {r} THEN stale[q] \cup ((known[q] \cap Written(r)) \ Written(q))
                                 ELSE stale[q]]
  /\ book' = [p \in Products |->
       IF p \in Written(r) /\ ~Revoids(r) THEN book[p] + mine[r][p] - first[r][p]
                                          ELSE book[p]]
  /\ overlapped' = [p \in Products |->
       \/ overlapped[p]
       \/ p \in Written(r) /\ (p \in stale[r] \/ Revoids(r))]
  /\ UNCHANGED first

Commit(r) ==
  /\ pc[r] = "commit"
  /\ CommitTables(r)
  /\ CommitHistory(r)
  /\ Goto(r, "done")
  /\ held' = [held EXCEPT ![r] = {}]
  /\ UNCHANGED <<op, at, lines, known, mine, total, account, crashes>>
----------------------------------------------------------------------------
(* A request waiting for a row, and the ways the database ends the wait.   *)
NeededRow(r) ==
  CASE pc[r] = "insert" -> SaleRow(r)
    [] pc[r] = "status" -> SaleRow(op[r].sale)
    [] OTHER -> BatchRow(lines[r][at[r]].product)

Waiting(r) ==
  /\ pc[r] \in {"insert", "status", "write"}
  /\ pc[r] = "write" => lines[r][at[r]].quantity # 0
  /\ Blocked(r, NeededRow(r))

BusyTimeout(r) ==
  /\ Dialect = "sqlite" /\ Waiting(r)
  /\ Abort(r, "failed")

Deadlocked(r) ==
  \E group \in SUBSET Requests :
    /\ r \in group
    /\ \A q \in group : /\ Waiting(q)
                        /\ \E h \in group \ {q} : Excludes(h, NeededRow(q))

(* Faulty: nobody breaks a cycle of waits.                                 *)
NoVictim(r) == FALSE /\ UNCHANGED vars

DeadlockVictim(r) ==
  /\ Dialect = "postgres" /\ Deadlocked(r)
  /\ Abort(r, "failed")

(* The process is killed and restarted; open transactions roll back.       *)
Crash ==
  /\ InFlight # {} /\ crashes < MaxCrashes
  /\ crashes' = crashes + 1
  /\ pc' = [r \in Requests |-> IF r \in InFlight THEN "lost" ELSE pc[r]]
  /\ held' = [r \in Requests |-> {}]
  /\ UNCHANGED <<tables, op, at, lines, known, mine, total, account, history>>

Arrival(r) ==
  \/ \E p \in Products, q \in AdjustQuantities : StartAdjust(r, p, q)
  \/ \E basket \in Baskets, c \in Customers \cup {NoCustomer}, discount \in Discounts :
       StartSale(r, basket, c, discount)
  \/ \E s \in Requests : StartVoid(r, s)
  \/ \E p \in Products, row \in [price : Prices, active : BOOLEAN] : EditProduct(r, p, row)

Step(r) ==
  \/ ReadProduct(r) \/ ProductGone(r)
  \/ InsertSale(r) \/ InsertSaleViolatesForeignKey(r)
  \/ WriteStatus(r)
  \/ ReadBatch(r) \/ WriteBatch(r)
  \/ FinishSale(r) \/ LastVisitIsRejected(r)
  \/ Publish(r) \/ HandlerTimeout(r)
  \/ Reply(r) \/ Commit(r)
  \/ BusyTimeout(r) \/ DeadlockVictim(r)

(* No client calls any more.                                               *)
Idle == InFlight = {} /\ UNCHANGED vars

Next ==
  \/ \E r \in Requests : Arrival(r) \/ Step(r)
  \/ Crash
  \/ Idle

Spec == Init /\ [][Next]_vars
(* The event loop runs every ready coroutine, and the database ends every  *)
(* wait for a lock.  Nothing makes a client call or the process crash.     *)
FairSpec == Spec /\ \A r \in Requests : WF_vars(Step(r))
----------------------------------------------------------------------------
Items == [product : Products, quantity : Int]
Rows == ({"batch", "product"} \X Products) \cup ({"sale"} \X Requests)
          \cup ({"customer"} \X Customers)
ProductRows == [price : Prices, active : BOOLEAN]
Ops == {None} \cup [kind : {"adjust"}] \cup [kind : {"void"}, sale : Requests]
         \cup [kind : {"sale"}, basket : Baskets, customer : Customers \cup {NoCustomer},
               discount : Discounts]
         \cup [kind : {"edit"}, product : Products, row : ProductRows]
Sales == {NoSale} \cup
  [status : {"completed", "voided"}, lines : Seq(Lines) \ {<<>>}, total : Int,
   discount : Discounts, customer : Customers \cup {NoCustomer}]
Accounts == [visits : Int, spent : Int]
Labels == Ended \cup {"new", "price", "insert", "status", "read", "write", "finish",
                      "publish", "reply", "commit"}

(* Every variable holds a value of its kind.                               *)
TypeOK ==
  /\ stock \in [Products -> Int] /\ book \in [Products -> Int]
  /\ product \in [Products -> ProductRows]
  /\ sales \in [Requests -> Sales]
  /\ customer \in [Customers -> Accounts]
  /\ alerts \subseteq Requests
  /\ pc \in [Requests -> Labels]
  /\ op \in [Requests -> Ops]
  /\ at \in [Requests -> Nat \ {0}]
  /\ lines \in [Requests -> Seq(Lines)]
  /\ known \in [Requests -> SUBSET Products] /\ stale \in [Requests -> SUBSET Products]
  /\ mine \in [Requests -> [Products -> Int]] /\ first \in [Requests -> [Products -> Int]]
  /\ total \in [Requests -> Int]
  /\ account \in [Requests -> Accounts]
  /\ held \in [Requests -> SUBSET Rows]
  /\ crashes \in 0..MaxCrashes
  /\ overlapped \in [Products -> BOOLEAN]

(* The stock on hand is the opening stock plus every committed movement,   *)
(* a sale's void counted once, for every batch on which no request's read  *)
(* and write enclosed another's commit and no sale was voided twice: the   *)
(* row locks lose nothing else (database.py 33-46, the two routers).       *)
Accounting == \A p \in Products : overlapped[p] \/ stock[p] = book[p]

(* On SQLite a sale and a void read the batches under the write lock they  *)
(* already hold, so only adjust_stock can work on a stale quantity         *)
(* (sales/router.py 60-72 and 161-165, inventory/router.py 137-144).       *)
OnlyAdjustmentsGoStale ==
  Dialect = "sqlite" =>
    \A r \in InFlight : op[r].kind \in {"sale", "void"} => stale[r] = {}

(* A committed adjustment leaves no negative quantity, whatever was        *)
(* committed since it read the batch (inventory/router.py 141-143).        *)
AdjustLeavesNoDebt ==
  [][\A r \in Requests :
       (op[r].kind = "adjust" /\ pc[r] = "commit" /\ pc'[r] = "done") =>
         \A p \in Written(r) : stock'[p] >= 0]_vars
=============================================================================
