-------------------------- MODULE StockProperties --------------------------
(***************************************************************************)
(* What StockLedger promises, and what the repository says of it.          *)
(***************************************************************************)
EXTENDS StockLedger, Functions

(* What the lines of a request move of a product, each, and together.      *)
Moves(r, p) ==
  [k \in DOMAIN lines[r] |->
     IF lines[r][k].product = p THEN Movement(r, lines[r][k]) ELSE 0]
Asked(r, p) == SumFunction(Moves(r, p))

(* A request that is about to answer has changed, and locked, exactly the  *)
(* batches its lines name, each by the sum of its lines: a product listed  *)
(* twice, or met again after a flush, is counted once per line             *)
(* (router.py 65-72, 162-165, and SQLAlchemy's identity map).              *)
AsAsked ==
  \A r \in Requests, p \in Products :
    pc[r] \in {"reply", "commit"} =>
      /\ p \in known[r] => mine[r][p] - first[r][p] = Asked(r, p)
      /\ p \in Written(r) <=> \E k \in DOMAIN lines[r] :
           lines[r][k].product = p /\ lines[r][k].quantity # 0

(* What the lines of a sale come to, each; and one price per product.      *)
Values(items) == [k \in DOMAIN items |-> items[k].price * items[k].quantity]
OnePrice(items) ==
  \A j, k \in DOMAIN items :
    items[j].product = items[k].product => items[j].price = items[k].price

(* A stored sale is coherent although prices may be edited while it is     *)
(* being entered: one price per product, and a total that is the sum of    *)
(* its lines less the discount (router.py 48-64).                          *)
SalesCoherent ==
  \A s \in Requests :
    /\ sales[s].total = SumFunction(Values(sales[s].lines)) - sales[s].discount
    /\ OnePrice(sales[s].lines)

SalesOf(c) == {s \in Requests : sales[s].status # "none" /\ sales[s].customer = c}

(* A customer's visits and spending are those of the sales stored in their *)
(* name, whatever sales ran at the same time (router.py 76-81); voiding a  *)
(* sale takes nothing back.                                                *)
CustomerTotals ==
  \A c \in Customers :
    /\ customer[c].visits = Cardinality(SalesOf(c))
    /\ customer[c].spent = SumFunctionOnSet([s \in Requests |-> sales[s].total], SalesOf(c))

(* Stored sales add up, each and per customer, whatever ran meanwhile.     *)
SalesBook == SalesCoherent /\ CustomerTotals

(* Every adjustment that leaves a batch at or under its minimum has raised *)
(* the low-stock notification by the time it answers, and no other did     *)
(* (handlers.py 39-54; milestones.md:68 "on_low_stock->low_stock"), on     *)
(* Postgres: on SQLite the handler waits for its own publisher.            *)
LowStockAlerted ==
  \A r \in Requests :
    (pc[r] \in {"reply", "commit"} /\ op[r].kind = "adjust")
      => (r \in alerts <=> NewQuantity(r) <= MinQuantity)

(* A committed adjustment by q moves the stock on hand by q: schemas.py:65 *)
(* "positive = add, negative = remove".                                    *)
AdjustMovesByQuantity ==
  [][\A r \in Requests :
       (op[r].kind = "adjust" /\ pc[r] = "commit" /\ pc'[r] = "done") =>
         LET line == lines[r][1]
         IN  stock'[line.product] = stock[line.product] + line.quantity]_vars

(* A sale is voided once; the second void is refused: router.py:160 "Sale  *)
(* already voided".                                                        *)
VoidedOnce ==
  [][\A r \in Requests :
       (op[r].kind = "void" /\ pc[r] = "commit" /\ pc'[r] = "done") =>
         sales[op[r].sale].status = "completed"]_vars

(* Storing a sale of existing products does not fail: tests/test_sales.py  *)
(* test_create_sale expects 201.                                           *)
SaleIsStored ==
  [][\A r \in Requests : pc[r] = "insert" => pc'[r] # "failed"]_vars

(* Every request that reached its handler ends: no wait for a row, for the *)
(* database or for the event handler of the request itself is for ever.    *)
Answered ==
  \A r \in Requests : r \in InFlight ~> r \notin InFlight

(* One request at a time, the tables are the shopkeeper's book: StockBook. *)
Book == INSTANCE StockBook WITH
  onHand <- stock,
  sold <- [s \in Requests |-> [status |-> sales[s].status,
            basket |-> [k \in DOMAIN sales[s].lines |->
                         [product |-> sales[s].lines[k].product,
                          quantity |-> sales[s].lines[k].quantity]]]]
ImplementsBook == Book!BookSpec
=============================================================================
