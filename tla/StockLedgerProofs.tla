------------------------- MODULE StockLedgerProofs -------------------------
(***************************************************************************)
(* What holds of StockLedger for every set of requests, products, baskets, *)
(* quantities and prices, in both dialects and under any number of         *)
(* restarts.                                                               *)
(***************************************************************************)
EXTENDS StockLedger, SequenceTheorems, TLAPS

(* Where a request is tells what it is, and which line it is at.           *)
ControlOf(r) ==
  /\ pc[r] = "new" => /\ at[r] = 1 /\ lines[r] = <<>>
                      /\ known[r] = {} /\ held[r] = {} /\ stale[r] = {}
                      /\ op[r] = None
  /\ pc[r] \in Ended => held[r] = {}
  /\ pc[r] \in {"price", "insert", "finish"} => op[r].kind = "sale"
  /\ pc[r] = "price" => at[r] \in 1..Len(op[r].basket)
  /\ pc[r] = "status" => op[r].kind = "void"
  /\ pc[r] = "publish" => op[r].kind = "adjust"
  /\ pc[r] = "read" => op[r].kind \in {"sale", "void"}
  /\ pc[r] = "write" => op[r].kind \in {"adjust", "sale", "void"}
  /\ op[r].kind = "adjust" => Len(lines[r]) = 1
  /\ pc[r] \in {"insert", "status"} => at[r] = 1
  /\ pc[r] \in {"insert", "read", "write", "finish"} => lines[r] # <<>>
  /\ pc[r] \in {"read", "write"} => at[r] \in 1..Len(lines[r])
  /\ pc[r] = "write" => lines[r][at[r]].product \in known[r]
  /\ pc[r] \in {"reply", "commit"} => (op[r].kind = "sale" => lines[r] # <<>>)
  /\ op[r].kind = "void" => sales[op[r].sale] # NoSale

Control == \A r \in Requests : ControlOf(r)

TypeInv == TypeOK /\ Control

LEMMA InitType == Init => TypeInv
<1> SUFFICES ASSUME Init PROVE TypeInv
  OBVIOUS
<1>1. /\ stock \in [Products -> Int] /\ book \in [Products -> Int]
      /\ overlapped \in [Products -> BOOLEAN]
  BY DataAssumption DEF Init
<1>2. product \in [Products -> ProductRows]
  BY DEF Init, ProductRows
<1>3. sales \in [Requests -> Sales] /\ customer \in [Customers -> Accounts]
  BY DEF Init, Sales, Accounts, NoAccount
<1>4. /\ alerts \subseteq Requests /\ pc \in [Requests -> Labels]
      /\ op \in [Requests -> Ops] /\ at \in [Requests -> Nat \ {0}]
      /\ crashes \in 0..MaxCrashes
  BY BoundAssumption DEF Init, Labels, Ops
<1>5. lines \in [Requests -> Seq(Lines)]
  BY DEF Init
<1>6. /\ known \in [Requests -> SUBSET Products] /\ stale \in [Requests -> SUBSET Products]
      /\ held \in [Requests -> SUBSET Rows]
  BY DEF Init
<1>7. mine \in [Requests -> [Products -> Int]] /\ first \in [Requests -> [Products -> Int]]
  BY DEF Init
<1>8. total \in [Requests -> Int] /\ account \in [Requests -> Accounts]
  BY DEF Init, Accounts, NoAccount
<1>9. Control
  BY DEF Init, Control, ControlOf, Ended, None
<1> QED
  BY <1>1, <1>2, <1>3, <1>4, <1>5, <1>6, <1>7, <1>8, <1>9 DEF TypeInv, TypeOK

(* The components of an operation, by its kind.                            *)
LEMMA OpFields ==
  ASSUME TypeOK, NEW r \in Requests
  PROVE  /\ op[r].kind = "sale" => /\ op[r].basket \in Baskets
                                   /\ op[r].customer \in Customers \cup {NoCustomer}
                                   /\ op[r].discount \in Discounts
         /\ op[r].kind = "void" => op[r].sale \in Requests
         /\ op[r].kind = "edit" => /\ op[r].product \in Products
                                   /\ op[r].row \in ProductRows
<1>1. op[r] \in Ops
  BY DEF TypeOK
<1>2. CASE op[r] = None
  BY <1>2 DEF None
<1>3. CASE op[r] \in [kind : {"adjust"}]
  BY <1>3
<1>4. CASE op[r] \in [kind : {"void"}, sale : Requests]
  BY <1>4
<1>5. CASE op[r] \in [kind : {"sale"}, basket : Baskets,
                      customer : Customers \cup {NoCustomer}, discount : Discounts]
  BY <1>5
<1>6. CASE op[r] \in [kind : {"edit"}, product : Products, row : ProductRows]
  BY <1>6
<1> QED
  BY <1>1, <1>2, <1>3, <1>4, <1>5, <1>6 DEF Ops
LEMMA ReplyType == ASSUME TypeInv, NEW r \in Requests, Reply(r) PROVE TypeInv'
<1>1. TypeOK'
  BY OpFields DEF TypeInv, TypeOK, Labels, Ended, Reply, Goto, tables, history
<1>2. ASSUME NEW q \in Requests PROVE ControlOf(q)'
  BY OpFields DEF TypeInv, TypeOK, Control, ControlOf, Ended, Reply, Goto, tables, history
<1> QED
  BY <1>1, <1>2 DEF TypeInv, Control

LEMMA HandlerTimeoutType == ASSUME TypeInv, NEW r \in Requests, HandlerTimeout(r) PROVE TypeInv'
<1>1. TypeOK'
  BY OpFields DEF TypeInv, TypeOK, Labels, Ended, HandlerTimeout, Goto, tables, history
<1>2. ASSUME NEW q \in Requests PROVE ControlOf(q)'
  BY OpFields DEF TypeInv, TypeOK, Control, ControlOf, Ended, HandlerTimeout, Goto, tables, history
<1> QED
  BY <1>1, <1>2 DEF TypeInv, Control

LEMMA PublishType == ASSUME TypeInv, NEW r \in Requests, Publish(r) PROVE TypeInv'
<1>1. TypeOK'
  BY OpFields DEF TypeInv, TypeOK, Labels, Ended, Publish, Goto, tables, history
<1>2. ASSUME NEW q \in Requests PROVE ControlOf(q)'
  BY OpFields DEF TypeInv, TypeOK, Control, ControlOf, Ended, Publish, Goto, tables, history
<1> QED
  BY <1>1, <1>2 DEF TypeInv, Control
LEMMA RowsOf ==
  /\ \A p \in Products : BatchRow(p) \in Rows /\ ProductRow(p) \in Rows
  /\ \A s \in Requests : SaleRow(s) \in Rows
  /\ \A c \in Customers : CustomerRow(c) \in Rows
BY DEF Rows, BatchRow, ProductRow, SaleRow, CustomerRow

LEMMA LockType ==
  ASSUME TypeOK, NEW r \in Requests, NEW row \in Rows, Lock(r, row)
  PROVE  held' \in [Requests -> SUBSET Rows]
BY DEF TypeOK, Lock

LEMMA LoadType ==
  ASSUME TypeOK, NEW r \in Requests, NEW p \in Products, NEW value \in Int,
         Load(r, p, value)
  PROVE  /\ known' \in [Requests -> SUBSET Products]
         /\ mine' \in [Requests -> [Products -> Int]]
         /\ first' \in [Requests -> [Products -> Int]]
<1>1. known' \in [Requests -> SUBSET Products]
  BY DEF TypeOK, Load
<1>2. mine' \in [Requests -> [Products -> Int]]
  BY DEF TypeOK, Load
<1>3. first' \in [Requests -> [Products -> Int]]
  BY DEF TypeOK, Load
<1> QED
  BY <1>1, <1>2, <1>3

LEMMA AbortType ==
  ASSUME TypeInv, NEW r \in Requests, NEW outcome \in {"refused", "failed"},
         Abort(r, outcome)
  PROVE  TypeInv'
<1>8. TypeOK'
  BY OpFields DEF TypeInv, TypeOK, Labels, Ended, Abort, Goto, tables, history
<1>9. ASSUME NEW q \in Requests PROVE ControlOf(q)'
  BY OpFields DEF TypeInv, TypeOK, Control, ControlOf, Ended, Abort, Goto, tables, history
<1> QED
  BY <1>8, <1>9 DEF TypeInv, Control

LEMMA StartSaleType ==
  ASSUME TypeInv, NEW r \in Requests, NEW basket \in Baskets,
         NEW c \in Customers \cup {NoCustomer}, NEW discount \in Discounts,
         StartSale(r, basket, c, discount)
  PROVE  TypeInv'
<1>1. op' \in [Requests -> Ops]
  BY DEF TypeInv, TypeOK, StartSale, Ops
<1>2. basket \in Seq(Items) /\ basket # <<>>
  BY DataAssumption DEF Items
<1>3. 1 \in 1..Len(basket)
  BY <1>2
<1>4. /\ op'[r].kind = "sale" /\ op'[r].basket = basket /\ at'[r] = 1
      /\ pc[r] = "new" /\ pc'[r] = "price"
      /\ \A q \in Requests \ {r} : op'[q] = op[q] /\ pc'[q] = pc[q]
  BY DEF TypeInv, TypeOK, Control, ControlOf, StartSale, Arrives, Goto
<1>8. TypeOK'
  BY <1>1, OpFields DEF TypeInv, TypeOK, Labels, Ended, StartSale, Goto, tables, history, Arrives
<1>9. ASSUME NEW q \in Requests PROVE ControlOf(q)'
  BY <1>3, <1>4, OpFields DEF TypeInv, TypeOK, Control, ControlOf, Ended, StartSale, Goto, tables, history, Arrives
<1> QED
  BY <1>8, <1>9 DEF TypeInv, Control

LEMMA StartVoidType ==
  ASSUME TypeInv, NEW r \in Requests, NEW s \in Requests,
         StartVoid(r, s)
  PROVE  TypeInv'
<1>8. TypeOK'
  BY OpFields DEF TypeInv, TypeOK, Labels, Ended, StartVoid, Goto, tables, history, Arrives, Ops
<1>9. ASSUME NEW q \in Requests PROVE ControlOf(q)'
  BY OpFields DEF TypeInv, TypeOK, Control, ControlOf, Ended, StartVoid, Goto, tables, history, Arrives
<1> QED
  BY <1>8, <1>9 DEF TypeInv, Control

LEMMA StartAdjustType ==
  ASSUME TypeInv, NEW r \in Requests, NEW p \in Products, NEW n \in AdjustQuantities,
         StartAdjust(r, p, n)
  PROVE  TypeInv'
<1>1. stock[p] + n \in Int
  BY DataAssumption DEF TypeInv, TypeOK
<1>2. /\ known' \in [Requests -> SUBSET Products]
      /\ mine' \in [Requests -> [Products -> Int]]
      /\ first' \in [Requests -> [Products -> Int]]
  BY <1>1, LoadType DEF TypeInv, StartAdjust
<1>3. op' \in [Requests -> Ops]
  BY DEF TypeInv, TypeOK, StartAdjust, Ops
<1>4. <<[product |-> p, quantity |-> n, price |-> 0]>> \in Seq(Lines)
  BY DataAssumption DEF Lines
<1>5. lines' \in [Requests -> Seq(Lines)]
  BY <1>4 DEF TypeInv, TypeOK, StartAdjust
<1>6. /\ Len(lines'[r]) = 1 /\ lines'[r] # <<>> /\ lines'[r][1].product = p /\ at'[r] = 1
      /\ p \in known'[r] /\ held'[r] = {} /\ op'[r].kind = "adjust"
      /\ pc[r] = "new" /\ pc'[r] \in {"refused", "write"}
  BY DEF TypeInv, TypeOK, Control, ControlOf, StartAdjust, Arrives, Goto, Load
<1>7. \A s \in Requests \ {r} :
        /\ op'[s] = op[s] /\ pc'[s] = pc[s] /\ lines'[s] = lines[s] /\ known'[s] = known[s]
        /\ ControlOf(s)
  BY DEF TypeInv, TypeOK, Control, StartAdjust, Goto, Load
<1>8. TypeOK'
  BY <1>2, <1>3, <1>5, OpFields DEF TypeInv, TypeOK, Labels, Ended, StartAdjust, Goto, tables, history, Arrives
<1>9. ASSUME NEW q \in Requests PROVE ControlOf(q)'
  <2>1. UNCHANGED <<sales, at, held, stale>>
    BY DEF StartAdjust, tables
  <2>2. CASE q = r
    BY <1>6, <2>1, <2>2 DEF ControlOf, Ended
  <2>3. CASE q # r
    BY <1>7, <2>1, <2>3 DEF ControlOf
  <2> QED
    BY <2>2, <2>3
<1> QED
  BY <1>8, <1>9 DEF TypeInv, Control

LEMMA EditProductType ==
  ASSUME TypeInv, NEW r \in Requests, NEW p \in Products, NEW row \in ProductRows,
         EditProduct(r, p, row)
  PROVE  TypeInv'
<1>1. op' \in [Requests -> Ops]
  BY DEF TypeInv, TypeOK, EditProduct, Ops
<1>2. held' \in [Requests -> SUBSET Rows]
  BY RowsOf, LockType DEF TypeInv, EditProduct
<1>8. TypeOK'
  BY <1>1, <1>2, OpFields DEF TypeInv, TypeOK, Labels, Ended, EditProduct, Goto, tables, history, Arrives
<1>9. ASSUME NEW q \in Requests PROVE ControlOf(q)'
  BY OpFields DEF TypeInv, TypeOK, Control, ControlOf, Ended, EditProduct, Goto, tables, history, Arrives, Lock
<1> QED
  BY <1>8, <1>9 DEF TypeInv, Control

LEMMA ReadProductType ==
  ASSUME TypeInv, NEW r \in Requests,
         ReadProduct(r)
  PROVE  TypeInv'
<1> DEFINE item == op[r].basket[at[r]]
           price == PriceSeen(r, item.product)
           line == [product |-> item.product, quantity |-> item.quantity, price |-> price]
<1>1. op[r].kind = "sale" /\ op[r].basket \in Seq(Items) /\ at[r] \in 1..Len(op[r].basket)
  BY OpFields, DataAssumption DEF TypeInv, Control, ControlOf, ReadProduct, Items
<1>2. item \in Items
  BY <1>1
<1>3. price \in Int
  <2> DEFINE before == {k \in DOMAIN lines[r] : lines[r][k].product = item.product}
  <2>1. CASE before = {}
    BY <1>2, <2>1, DataAssumption DEF TypeInv, TypeOK, PriceSeen, ProductRows, Items
  <2>2. CASE before # {}
    <3> DEFINE k == CHOOSE j \in before : TRUE
    <3>1. k \in DOMAIN lines[r]
      BY <2>2
    <3>2. lines[r][k] \in Lines
      BY <3>1 DEF TypeInv, TypeOK
    <3>3. price = lines[r][k].price
      BY <2>2 DEF PriceSeen
    <3> QED
      BY <3>2, <3>3 DEF Lines
  <2> QED
    BY <2>1, <2>2
<1>4. line \in Lines
  BY <1>2, <1>3 DEF Lines, Items
<1>5. lines' = [lines EXCEPT ![r] = Append(@, line)]
  BY DEF ReadProduct
<1>6. lines' \in [Requests -> Seq(Lines)] /\ lines'[r] # <<>>
  <2>1. lines[r] \in Seq(Lines)
    BY DEF TypeInv, TypeOK
  <2>2. \A s \in Seq(Lines), e \in Lines : Append(s, e) \in Seq(Lines) /\ Append(s, e) # <<>>
    BY AppendProperties
  <2>3. Append(lines[r], line) \in Seq(Lines) /\ Append(lines[r], line) # <<>>
    BY <1>4, <2>1, <2>2
  <2> QED
    BY <1>5, <2>3 DEF TypeInv, TypeOK
<1>7. total' \in [Requests -> Int]
  <2> DEFINE amount == price * item.quantity
  <2>1. amount \in Int
    BY <1>2, <1>3 DEF Items
  <2>2. total' = [total EXCEPT ![r] = @ + amount]
    BY DEF ReadProduct
  <2> HIDE DEF amount
  <2> QED
    BY <2>1, <2>2 DEF TypeInv, TypeOK
<1> DEFINE last == at[r] = Len(op[r].basket)
<1>10. /\ pc[r] = "price" /\ pc' = [pc EXCEPT ![r] = IF last THEN "insert" ELSE "price"]
       /\ at' = [at EXCEPT ![r] = IF last THEN 1 ELSE @ + 1]
       /\ UNCHANGED <<tables, op, known, mine, account, held, crashes, history>>
  BY DEF ReadProduct, Goto
<1>11. UNCHANGED <<stock, product, sales, customer, alerts, first, stale, book, overlapped>>
  BY <1>10 DEF tables, history
<1> HIDE DEF item, price, line, last
<1>12. at' \in [Requests -> Nat \ {0}] /\ pc' \in [Requests -> Labels]
  BY <1>10 DEF TypeInv, TypeOK, Labels
<1>8. TypeOK'
  BY <1>6, <1>7, <1>10, <1>11, <1>12 DEF TypeInv, TypeOK
<1>9. ASSUME NEW q \in Requests PROVE ControlOf(q)'
  <2>1. ControlOf(q)
    BY DEF TypeInv, Control
  <2>2. CASE q # r
    <3>1. pc'[q] = pc[q] /\ at'[q] = at[q] /\ lines'[q] = lines[q]
      BY <1>5, <1>10, <2>2 DEF TypeInv, TypeOK
    <3> QED
      BY <1>10, <1>11, <2>1, <3>1 DEF ControlOf, Ended
  <2>3. CASE q = r
    <3>1. /\ pc'[r] = IF last THEN "insert" ELSE "price"
          /\ at'[r] = IF last THEN 1 ELSE at[r] + 1
      BY <1>10 DEF TypeInv, TypeOK
    <3>2. ~ last => at[r] + 1 \in 1..Len(op[r].basket)
      BY <1>1 DEF last
    <3> QED
      BY <1>1, <1>6, <1>10, <1>11, <2>1, <2>3, <3>1, <3>2 DEF ControlOf, Ended
  <2> QED
    BY <2>2, <2>3
<1> QED
  BY <1>8, <1>9 DEF TypeInv, Control

LEMMA InsertSaleType ==
  ASSUME TypeInv, NEW r \in Requests,
         InsertSale(r)
  PROVE  TypeInv'
<1>1. held' \in [Requests -> SUBSET Rows]
  BY RowsOf, LockType DEF TypeInv, InsertSale
<1>2. op[r].discount \in Int
  BY OpFields, DataAssumption DEF TypeInv, Control, ControlOf, InsertSale
<1>3. total' \in [Requests -> Int]
  BY <1>2 DEF TypeInv, TypeOK, InsertSale
<1>8. TypeOK'
  BY <1>1, <1>3, OpFields DEF TypeInv, TypeOK, Labels, Ended, InsertSale, Goto, tables, history
<1>9. ASSUME NEW q \in Requests PROVE ControlOf(q)'
  BY OpFields DEF TypeInv, TypeOK, Control, ControlOf, Ended, InsertSale, Goto, tables, history, Lock
<1> QED
  BY <1>8, <1>9 DEF TypeInv, Control

LEMMA WriteStatusType ==
  ASSUME TypeInv, NEW r \in Requests,
         WriteStatus(r)
  PROVE  TypeInv'
<1>1. op[r].sale \in Requests /\ sales[op[r].sale] # NoSale
  BY OpFields DEF TypeInv, Control, ControlOf, WriteStatus
<1>2. held' \in [Requests -> SUBSET Rows]
  BY <1>1, RowsOf, LockType DEF TypeInv, WriteStatus
<1>3. sales[op[r].sale].lines \in Seq(Lines) \ {<<>>}
  BY <1>1 DEF TypeInv, TypeOK, Sales
<1>4. ASSUME NEW s \in Seq(Lines) \ {<<>>}, NEW items \in Orders(s)
      PROVE  items \in Seq(Lines) \ {<<>>}
  <2>1. PICK f \in [DOMAIN s -> DOMAIN s] : items = [k \in DOMAIN s |-> s[f[k]]]
    BY <1>4 DEF Orders
  <2>2. f \in [1..Len(s) -> 1..Len(s)]
    BY <2>1
  <2>3. items \in [1..Len(s) -> Lines] /\ Len(s) \in Nat \ {0}
    BY <2>1, <2>2
  <2> QED
    BY <2>3
<1>5. PICK items \in Orders(sales[op[r].sale].lines) : lines' = [lines EXCEPT ![r] = items]
  BY DEF WriteStatus
<1>6. lines' \in [Requests -> Seq(Lines)] /\ lines'[r] # <<>>
  BY <1>3, <1>4, <1>5 DEF TypeInv, TypeOK
<1>8. TypeOK'
  BY <1>2, <1>6, OpFields DEF TypeInv, TypeOK, Labels, Ended, WriteStatus, Goto, tables, history
<1>9. ASSUME NEW q \in Requests PROVE ControlOf(q)'
  BY <1>5, <1>6, OpFields DEF TypeInv, TypeOK, Control, ControlOf, Ended, WriteStatus, Goto, tables, history, Lock
<1> QED
  BY <1>8, <1>9 DEF TypeInv, Control

LEMMA ReadBatchType ==
  ASSUME TypeInv, NEW r \in Requests,
         ReadBatch(r)
  PROVE  TypeInv'
<1> DEFINE line == lines[r][at[r]]
<1>1. line \in Lines
  BY DEF TypeInv, TypeOK, Control, ControlOf, ReadBatch
<1>2. line.product \in Products /\ line.quantity \in Int
  BY <1>1 DEF Lines
<1>3. Loaded(r, line.product) \in Int
  BY <1>2 DEF TypeInv, TypeOK, Loaded
<1>4. Movement(r, line) \in Int
  <2> HIDE DEF line
  <2> QED
    BY <1>2 DEF Movement
<1>5. Loaded(r, line.product) + Movement(r, line) \in Int
  BY <1>3, <1>4
<1>6. /\ known' \in [Requests -> SUBSET Products]
      /\ mine' \in [Requests -> [Products -> Int]]
      /\ first' \in [Requests -> [Products -> Int]]
  BY <1>2, <1>5, LoadType DEF TypeInv, ReadBatch
<1>8. TypeOK'
  BY <1>6, OpFields DEF TypeInv, TypeOK, Labels, Ended, ReadBatch, Goto, tables, history
<1>9. ASSUME NEW q \in Requests PROVE ControlOf(q)'
  BY <1>1, OpFields DEF TypeInv, TypeOK, Control, ControlOf, Ended, ReadBatch, Goto, tables, history, Load, Lines
<1> QED
  BY <1>8, <1>9 DEF TypeInv, Control

LEMMA WriteBatchType ==
  ASSUME TypeInv, NEW r \in Requests,
         WriteBatch(r)
  PROVE  TypeInv'
<1> DEFINE line == lines[r][at[r]]
<1>1. line \in Lines /\ at[r] \in 1..Len(lines[r])
  BY DEF TypeInv, TypeOK, Control, ControlOf, WriteBatch
<1>2. held' \in [Requests -> SUBSET Rows]
  BY <1>1, RowsOf, LockType DEF TypeInv, TypeOK, WriteBatch, Lines
<1>3. /\ \A q \in Requests \ {r} : pc'[q] = pc[q] /\ at'[q] = at[q] /\ held'[q] = held[q]
      /\ pc' \in [Requests -> Labels]
      /\ pc'[r] \in {"publish", "finish", "reply", "read"}
      /\ pc'[r] = "publish" => op[r].kind = "adjust"
      /\ pc'[r] = "finish" => op[r].kind = "sale"
      /\ pc'[r] = "read" => at[r] # Len(lines[r])
  BY DEF TypeInv, TypeOK, WriteBatch, Goto, Lock, Labels, Ended
<1>4. at' \in [Requests -> Nat \ {0}] /\ (pc'[r] = "read" => at'[r] \in 1..Len(lines[r]))
  BY <1>1 DEF TypeInv, TypeOK, WriteBatch, Goto
<1>5. UNCHANGED <<sales, op, lines, known, stale>>
  BY DEF WriteBatch, tables, history
<1>6. \A q \in Requests : ControlOf(q)
  BY DEF TypeInv, Control
<1>7. pc[r] = "write"
  BY DEF WriteBatch
<1>8. TypeOK'
  BY <1>2, <1>3, <1>4, OpFields DEF TypeInv, TypeOK, Labels, Ended, WriteBatch, Goto, tables, history
<1>9. ASSUME NEW q \in Requests PROVE ControlOf(q)'
  <2>1. CASE q = r
    <3>1. /\ op[r].kind \in {"adjust", "sale", "void"} /\ lines[r] # <<>>
          /\ op[r].kind = "adjust" => Len(lines[r]) = 1
          /\ op[r].kind = "void" => sales[op[r].sale] # NoSale
      BY <1>6, <1>7 DEF ControlOf
    <3>2. ASSUME pc'[r] = "read", op[r].kind = "adjust" PROVE FALSE
      <4>1. at[r] \in 1..1
        BY <1>1, <3>1, <3>2
      <4>2. at[r] # 1
        BY <1>3, <3>1, <3>2
      <4> QED
        BY <4>1, <4>2
    <3>3. op'[r] = op[r] /\ lines'[r] = lines[r] /\ sales' = sales
      BY <1>5
    <3> QED
      BY <1>3, <1>4, <3>1, <3>2, <3>3, <2>1 DEF ControlOf, Ended
  <2>2. CASE q # r
    BY <1>3, <1>5, <1>6, <2>2 DEF ControlOf
  <2> QED
    BY <2>1, <2>2
<1> QED
  BY <1>8, <1>9 DEF TypeInv, Control

LEMMA FinishSaleType ==
  ASSUME TypeInv, NEW r \in Requests,
         FinishSale(r)
  PROVE  TypeInv'
<1>1. op[r].customer \in Customers \cup {NoCustomer}
  BY OpFields DEF TypeInv, Control, ControlOf, FinishSale
<1>2. held' \in [Requests -> SUBSET Rows]
  BY <1>1, RowsOf, LockType DEF TypeInv, TypeOK, FinishSale
<1>3. account' \in [Requests -> Accounts]
  <2>1. CASE op[r].customer = NoCustomer
    BY <2>1 DEF TypeInv, TypeOK, FinishSale
  <2>2. CASE op[r].customer \in Customers /\ op[r].customer # NoCustomer
    <3> DEFINE c == op[r].customer
               new == [visits |-> customer[c].visits + 1, spent |-> customer[c].spent + total[r]]
    <3>1. customer[c].visits \in Int /\ customer[c].spent \in Int /\ total[r] \in Int
      BY <2>2 DEF TypeInv, TypeOK, Accounts
    <3>2. new \in Accounts
      BY <3>1 DEF Accounts
    <3>3. account' = [account EXCEPT ![r] = new]
      BY <2>2 DEF FinishSale
    <3> QED
      BY <3>2, <3>3 DEF TypeInv, TypeOK
  <2> QED
    BY <1>1, <2>1, <2>2
<1>8. TypeOK'
  BY <1>2, <1>3, OpFields DEF TypeInv, TypeOK, Labels, Ended, FinishSale, Goto, tables, history
<1>9. ASSUME NEW q \in Requests PROVE ControlOf(q)'
  BY OpFields DEF TypeInv, TypeOK, Control, ControlOf, Ended, FinishSale, Goto, tables, history, Lock
<1> QED
  BY <1>8, <1>9 DEF TypeInv, Control

LEMMA CommitType ==
  ASSUME TypeInv, NEW r \in Requests,
         Commit(r)
  PROVE  TypeInv'
<1>1. /\ stock' \in [Products -> Int] /\ book' \in [Products -> Int]
      /\ overlapped' \in [Products -> BOOLEAN]
  <2>1. stock' \in [Products -> Int]
    BY DEF TypeInv, TypeOK, Commit, CommitTables
  <2>2. \A p \in Products : book[p] \in Int /\ mine[r][p] \in Int /\ first[r][p] \in Int
    BY DEF TypeInv, TypeOK
  <2>3. book' \in [Products -> Int]
    BY <2>2 DEF Commit, CommitHistory
  <2>4. overlapped' \in [Products -> BOOLEAN]
    BY DEF TypeInv, TypeOK, Commit, CommitHistory
  <2> QED
    BY <2>1, <2>3, <2>4
<1>2. product' \in [Products -> ProductRows]
  BY OpFields DEF TypeInv, TypeOK, Commit, CommitTables
<1>3. /\ sales' \in [Requests -> Sales]
      /\ \A s \in Requests : sales[s] # NoSale => sales'[s] # NoSale
  <2>1. CASE op[r].kind = "sale"
    <3>1. SaleMade(r) \in Sales /\ SaleMade(r) # NoSale
      BY <2>1, OpFields DEF TypeInv, TypeOK, Control, ControlOf, Commit, SaleMade, Sales, NoSale
    <3> QED
      BY <2>1, <3>1 DEF TypeInv, TypeOK, Commit, CommitTables
  <2>2. CASE op[r].kind = "void"
    <3> DEFINE s == op[r].sale
    <3>1. s \in Requests /\ sales[s] \in Sales /\ sales[s] # NoSale
      BY <2>2, OpFields DEF TypeInv, TypeOK, Control, ControlOf
    <3>2. [sales[s] EXCEPT !.status = "voided"] \in Sales
      BY <3>1 DEF Sales
    <3>3. [sales[s] EXCEPT !.status = "voided"] # NoSale
      BY <3>1 DEF Sales, NoSale
    <3>4. sales' = [sales EXCEPT ![s] = [sales[s] EXCEPT !.status = "voided"]]
      BY <2>2, <3>1 DEF TypeInv, TypeOK, Commit, CommitTables
    <3> QED
      BY <3>1, <3>2, <3>3, <3>4 DEF TypeInv, TypeOK
  <2>3. CASE op[r].kind \notin {"sale", "void"}
    BY <2>3 DEF TypeInv, TypeOK, Commit, CommitTables
  <2> QED
    BY <2>1, <2>2, <2>3
<1>4. customer' \in [Customers -> Accounts]
  BY DEF TypeInv, TypeOK, Commit, CommitTables
<1>5. /\ stale' \in [Requests -> SUBSET Products]
      /\ \A q \in Requests : pc[q] = "new" => stale'[q] = stale[q]
  BY DEF TypeInv, TypeOK, Commit, CommitHistory, InFlight, Written
<1>8. TypeOK'
  BY <1>1, <1>2, <1>3, <1>4, <1>5, OpFields DEF TypeInv, TypeOK, Labels, Ended, Commit, Goto, tables, history, CommitTables, CommitHistory
<1>9. ASSUME NEW q \in Requests PROVE ControlOf(q)'
  BY <1>3, <1>5, OpFields DEF TypeInv, TypeOK, Control, ControlOf, Ended, Commit, Goto, tables, history
<1> QED
  BY <1>8, <1>9 DEF TypeInv, Control

LEMMA CrashType == ASSUME TypeInv, Crash PROVE TypeInv'
<1>1. TypeOK'
  BY BoundAssumption DEF TypeInv, TypeOK, Labels, Ended, Crash, tables, history
<1>2. Control'
  BY DEF TypeInv, TypeOK, Control, ControlOf, Ended, Crash, InFlight, tables, history
<1> QED
  BY <1>1, <1>2 DEF TypeInv

LEMMA TypeStep == TypeInv /\ [Next]_vars => TypeInv'
<1> SUFFICES ASSUME TypeInv, [Next]_vars PROVE TypeInv'
  OBVIOUS
<1>1. ASSUME NEW r \in Requests, Arrival(r) PROVE TypeInv'
  BY <1>1, StartAdjustType, StartSaleType, StartVoidType, EditProductType
     DEF Arrival, ProductRows
<1>2. ASSUME NEW r \in Requests, Step(r) PROVE TypeInv'
  BY <1>2, ReadProductType, InsertSaleType, WriteStatusType, ReadBatchType, WriteBatchType,
     FinishSaleType, PublishType, HandlerTimeoutType, ReplyType, CommitType, AbortType
     DEF Step, ProductGone, InsertSaleViolatesForeignKey, LastVisitIsRejected,
         BusyTimeout, DeadlockVictim
<1>3. CASE Crash
  BY <1>3, CrashType
<1>4. CASE UNCHANGED vars
  <2>1. TypeOK'
    BY <1>4 DEF vars, TypeInv, TypeOK
  <2>2. ASSUME NEW r \in Requests PROVE ControlOf(r)'
    <3>1. ControlOf(r)
      BY DEF TypeInv, Control
    <3> QED
      BY <1>4, <3>1 DEF vars, ControlOf
  <2> QED
    BY <2>1, <2>2 DEF TypeInv, Control
<1> QED
  BY <1>1, <1>2, <1>3, <1>4 DEF Next, Idle

(* The tables, the sessions and the history keep to their types.           *)
THEOREM TypeCorrect == Spec => []TypeOK
<1>1. Spec => []TypeInv
  BY InitType, TypeStep, PTL DEF Spec
<1> QED
  BY <1>1, PTL DEF TypeInv
----------------------------------------------------------------------------
(* Two open transactions never wrote the same row, and on SQLite only one  *)
(* has written at all.                                                     *)
Exclusion ==
  \A q, r \in Requests : q # r =>
    /\ held[q] \cap held[r] = {}
    /\ Dialect = "sqlite" => held[q] = {} \/ held[r] = {}

(* A batch is written by a session that loaded it; while nobody committed  *)
(* it in between, the quantity first read is the committed one.            *)
FreshOf(r) ==
  /\ \A p \in Products : BatchRow(p) \in held[r] => p \in known[r]
  /\ r \in InFlight => \A p \in known[r] \ stale[r] : first[r][p] = stock[p]

Ledger == Exclusion /\ (\A r \in Requests : FreshOf(r)) /\ Accounting

LEMMA BatchRowInjective ==
  \A p \in Products :
    /\ \A q \in Products : BatchRow(p) = BatchRow(q) => p = q
    /\ \A q : BatchRow(p) # SaleRow(q) /\ BatchRow(p) # CustomerRow(q)
              /\ BatchRow(p) # ProductRow(q)
BY DEF BatchRow, SaleRow, CustomerRow, ProductRow

LEMMA InitLedger == Init => Ledger
BY DEF Init, Ledger, Exclusion, FreshOf, Accounting

(* Taking a lock keeps the transactions apart.                             *)
LEMMA LockExcludes ==
  ASSUME TypeInv, Exclusion, NEW r \in Requests, NEW row, Lock(r, row)
  PROVE  Exclusion'
BY DEF TypeInv, TypeOK, Exclusion, Lock, Blocked, Excludes

(* A step of r that writes no batch and leaves the tables alone.           *)
LEMMA QuietStep ==
  ASSUME TypeInv, Ledger, NEW r \in Requests, Exclusion',
         UNCHANGED <<stock, known, first, stale, book, overlapped>>,
         \A q \in Requests \ {r} : pc'[q] = pc[q] /\ held'[q] = held[q],
         \A p \in Products : BatchRow(p) \in held'[r] => p \in known[r],
         r \in InFlight' => r \in InFlight \/ known[r] = {}
  PROVE  Ledger'
BY DEF Ledger, FreshOf, Accounting, InFlight

LEMMA AbortLedger ==
  ASSUME TypeInv, Ledger, NEW r \in Requests, NEW outcome \in {"refused", "failed"},
         Abort(r, outcome)
  PROVE  Ledger'
<1>1. Exclusion'
  BY DEF Abort, Ledger, Exclusion, TypeInv, TypeOK
<1>2. \A p \in Products : BatchRow(p) \in held'[r] => p \in known[r]
  BY DEF Abort, Ledger, FreshOf, TypeInv, TypeOK
<1>3. /\ UNCHANGED <<stock, known, first, stale, book, overlapped>>
      /\ \A q \in Requests \ {r} : pc'[q] = pc[q] /\ held'[q] = held[q]
  BY DEF Abort, Goto, Lock, tables, history, TypeInv, TypeOK
<1>4. r \in InFlight' => r \in InFlight \/ known[r] = {}
  BY DEF Abort, Arrives, Goto, InFlight, Ended, TypeInv, TypeOK, Control, ControlOf
<1> QED
  BY <1>1, <1>2, <1>3, <1>4, QuietStep

LEMMA StartSaleLedger ==
  ASSUME TypeInv, Ledger, NEW r \in Requests, NEW basket \in Baskets,
         NEW c \in Customers \cup {NoCustomer}, NEW discount \in Discounts,
         StartSale(r, basket, c, discount)
  PROVE  Ledger'
<1>1. Exclusion'
  BY DEF StartSale, Ledger, Exclusion, TypeInv, TypeOK
<1>2. \A p \in Products : BatchRow(p) \in held'[r] => p \in known[r]
  BY DEF StartSale, Ledger, FreshOf, TypeInv, TypeOK
<1>3. /\ UNCHANGED <<stock, known, first, stale, book, overlapped>>
      /\ \A q \in Requests \ {r} : pc'[q] = pc[q] /\ held'[q] = held[q]
  BY DEF StartSale, Goto, Lock, tables, history, TypeInv, TypeOK
<1>4. r \in InFlight' => r \in InFlight \/ known[r] = {}
  BY DEF StartSale, Arrives, Goto, InFlight, Ended, TypeInv, TypeOK, Control, ControlOf
<1> QED
  BY <1>1, <1>2, <1>3, <1>4, QuietStep

LEMMA StartVoidLedger ==
  ASSUME TypeInv, Ledger, NEW r \in Requests, NEW s \in Requests,
         StartVoid(r, s)
  PROVE  Ledger'
<1>1. Exclusion'
  BY DEF StartVoid, Ledger, Exclusion, TypeInv, TypeOK
<1>2. \A p \in Products : BatchRow(p) \in held'[r] => p \in known[r]
  BY DEF StartVoid, Ledger, FreshOf, TypeInv, TypeOK
<1>3. /\ UNCHANGED <<stock, known, first, stale, book, overlapped>>
      /\ \A q \in Requests \ {r} : pc'[q] = pc[q] /\ held'[q] = held[q]
  BY DEF StartVoid, Goto, Lock, tables, history, TypeInv, TypeOK
<1>4. r \in InFlight' => r \in InFlight \/ known[r] = {}
  BY DEF StartVoid, Arrives, Goto, InFlight, Ended, TypeInv, TypeOK, Control, ControlOf
<1> QED
  BY <1>1, <1>2, <1>3, <1>4, QuietStep

LEMMA EditProductLedger ==
  ASSUME TypeInv, Ledger, NEW r \in Requests, NEW p \in Products, NEW row \in ProductRows,
         EditProduct(r, p, row)
  PROVE  Ledger'
<1>1. Exclusion'
  BY LockExcludes DEF EditProduct, Ledger, Exclusion
<1>2. \A b \in Products : BatchRow(b) \in held'[r] => b \in known[r]
  BY BatchRowInjective DEF EditProduct, Lock, Ledger, FreshOf, TypeInv, TypeOK
<1>3. /\ UNCHANGED <<stock, known, first, stale, book, overlapped>>
      /\ \A q \in Requests \ {r} : pc'[q] = pc[q] /\ held'[q] = held[q]
  BY DEF EditProduct, Goto, Lock, tables, history, TypeInv, TypeOK
<1>4. r \in InFlight' => r \in InFlight \/ known[r] = {}
  BY DEF EditProduct, Arrives, Goto, InFlight, Ended, TypeInv, TypeOK, Control, ControlOf
<1> QED
  BY <1>1, <1>2, <1>3, <1>4, QuietStep

LEMMA ReadProductLedger ==
  ASSUME TypeInv, Ledger, NEW r \in Requests,
         ReadProduct(r)
  PROVE  Ledger'
<1>1. Exclusion'
  BY DEF ReadProduct, Ledger, Exclusion, TypeInv, TypeOK
<1>2. \A p \in Products : BatchRow(p) \in held'[r] => p \in known[r]
  BY DEF ReadProduct, Ledger, FreshOf, TypeInv, TypeOK
<1>3. /\ UNCHANGED <<stock, known, first, stale, book, overlapped>>
      /\ \A q \in Requests \ {r} : pc'[q] = pc[q] /\ held'[q] = held[q]
  BY DEF ReadProduct, Goto, Lock, tables, history, TypeInv, TypeOK
<1>4. r \in InFlight' => r \in InFlight \/ known[r] = {}
  BY DEF ReadProduct, Arrives, Goto, InFlight, Ended, TypeInv, TypeOK, Control, ControlOf
<1> QED
  BY <1>1, <1>2, <1>3, <1>4, QuietStep

LEMMA InsertSaleLedger ==
  ASSUME TypeInv, Ledger, NEW r \in Requests,
         InsertSale(r)
  PROVE  Ledger'
<1>1. Exclusion'
  BY LockExcludes DEF InsertSale, Ledger, Exclusion
<1>2. \A p \in Products : BatchRow(p) \in held'[r] => p \in known[r]
  BY BatchRowInjective DEF InsertSale, Lock, Ledger, FreshOf, TypeInv, TypeOK
<1>3. /\ UNCHANGED <<stock, known, first, stale, book, overlapped>>
      /\ \A q \in Requests \ {r} : pc'[q] = pc[q] /\ held'[q] = held[q]
  BY DEF InsertSale, Goto, Lock, tables, history, TypeInv, TypeOK
<1>4. r \in InFlight' => r \in InFlight \/ known[r] = {}
  BY DEF InsertSale, Arrives, Goto, InFlight, Ended, TypeInv, TypeOK, Control, ControlOf
<1> QED
  BY <1>1, <1>2, <1>3, <1>4, QuietStep

LEMMA WriteStatusLedger ==
  ASSUME TypeInv, Ledger, NEW r \in Requests,
         WriteStatus(r)
  PROVE  Ledger'
<1>1. Exclusion'
  BY LockExcludes DEF WriteStatus, Ledger, Exclusion
<1>2. \A p \in Products : BatchRow(p) \in held'[r] => p \in known[r]
  BY BatchRowInjective DEF WriteStatus, Lock, Ledger, FreshOf, TypeInv, TypeOK
<1>3. /\ UNCHANGED <<stock, known, first, stale, book, overlapped>>
      /\ \A q \in Requests \ {r} : pc'[q] = pc[q] /\ held'[q] = held[q]
  BY DEF WriteStatus, Goto, Lock, tables, history, TypeInv, TypeOK
<1>4. r \in InFlight' => r \in InFlight \/ known[r] = {}
  BY DEF WriteStatus, Arrives, Goto, InFlight, Ended, TypeInv, TypeOK, Control, ControlOf
<1> QED
  BY <1>1, <1>2, <1>3, <1>4, QuietStep

LEMMA WriteBatchLedger ==
  ASSUME TypeInv, Ledger, NEW r \in Requests,
         WriteBatch(r)
  PROVE  Ledger'
<1>1. Exclusion'
  BY LockExcludes DEF WriteBatch, Ledger, Exclusion
<1>2. \A p \in Products : BatchRow(p) \in held'[r] => p \in known[r]
  BY BatchRowInjective DEF WriteBatch, Lock, Ledger, FreshOf, TypeInv, TypeOK, Control, ControlOf
<1>3. /\ UNCHANGED <<stock, known, first, stale, book, overlapped>>
      /\ \A q \in Requests \ {r} : pc'[q] = pc[q] /\ held'[q] = held[q]
  BY DEF WriteBatch, Goto, Lock, tables, history, TypeInv, TypeOK
<1>4. r \in InFlight' => r \in InFlight \/ known[r] = {}
  BY DEF WriteBatch, Arrives, Goto, InFlight, Ended, TypeInv, TypeOK, Control, ControlOf
<1> QED
  BY <1>1, <1>2, <1>3, <1>4, QuietStep

LEMMA FinishSaleLedger ==
  ASSUME TypeInv, Ledger, NEW r \in Requests,
         FinishSale(r)
  PROVE  Ledger'
<1>1. Exclusion'
  BY LockExcludes DEF FinishSale, Ledger, Exclusion
<1>2. \A p \in Products : BatchRow(p) \in held'[r] => p \in known[r]
  BY BatchRowInjective DEF FinishSale, Lock, Ledger, FreshOf, TypeInv, TypeOK
<1>3. /\ UNCHANGED <<stock, known, first, stale, book, overlapped>>
      /\ \A q \in Requests \ {r} : pc'[q] = pc[q] /\ held'[q] = held[q]
  BY DEF FinishSale, Goto, Lock, tables, history, TypeInv, TypeOK
<1>4. r \in InFlight' => r \in InFlight \/ known[r] = {}
  BY DEF FinishSale, Arrives, Goto, InFlight, Ended, TypeInv, TypeOK, Control, ControlOf
<1> QED
  BY <1>1, <1>2, <1>3, <1>4, QuietStep

LEMMA PublishLedger ==
  ASSUME TypeInv, Ledger, NEW r \in Requests,
         Publish(r)
  PROVE  Ledger'
<1>1. Exclusion'
  BY DEF Publish, Ledger, Exclusion, TypeInv, TypeOK
<1>2. \A p \in Products : BatchRow(p) \in held'[r] => p \in known[r]
  BY DEF Publish, Ledger, FreshOf, TypeInv, TypeOK
<1>3. /\ UNCHANGED <<stock, known, first, stale, book, overlapped>>
      /\ \A q \in Requests \ {r} : pc'[q] = pc[q] /\ held'[q] = held[q]
  BY DEF Publish, Goto, Lock, tables, history, TypeInv, TypeOK
<1>4. r \in InFlight' => r \in InFlight \/ known[r] = {}
  BY DEF Publish, Arrives, Goto, InFlight, Ended, TypeInv, TypeOK, Control, ControlOf
<1> QED
  BY <1>1, <1>2, <1>3, <1>4, QuietStep

LEMMA HandlerTimeoutLedger ==
  ASSUME TypeInv, Ledger, NEW r \in Requests,
         HandlerTimeout(r)
  PROVE  Ledger'
<1>1. Exclusion'
  BY DEF HandlerTimeout, Ledger, Exclusion, TypeInv, TypeOK
<1>2. \A p \in Products : BatchRow(p) \in held'[r] => p \in known[r]
  BY DEF HandlerTimeout, Ledger, FreshOf, TypeInv, TypeOK
<1>3. /\ UNCHANGED <<stock, known, first, stale, book, overlapped>>
      /\ \A q \in Requests \ {r} : pc'[q] = pc[q] /\ held'[q] = held[q]
  BY DEF HandlerTimeout, Goto, Lock, tables, history, TypeInv, TypeOK
<1>4. r \in InFlight' => r \in InFlight \/ known[r] = {}
  BY DEF HandlerTimeout, Arrives, Goto, InFlight, Ended, TypeInv, TypeOK, Control, ControlOf
<1> QED
  BY <1>1, <1>2, <1>3, <1>4, QuietStep

LEMMA ReplyLedger ==
  ASSUME TypeInv, Ledger, NEW r \in Requests,
         Reply(r)
  PROVE  Ledger'
<1>1. Exclusion'
  BY DEF Reply, Ledger, Exclusion, TypeInv, TypeOK
<1>2. \A p \in Products : BatchRow(p) \in held'[r] => p \in known[r]
  BY DEF Reply, Ledger, FreshOf, TypeInv, TypeOK
<1>3. /\ UNCHANGED <<stock, known, first, stale, book, overlapped>>
      /\ \A q \in Requests \ {r} : pc'[q] = pc[q] /\ held'[q] = held[q]
  BY DEF Reply, Goto, Lock, tables, history, TypeInv, TypeOK
<1>4. r \in InFlight' => r \in InFlight \/ known[r] = {}
  BY DEF Reply, Arrives, Goto, InFlight, Ended, TypeInv, TypeOK, Control, ControlOf
<1> QED
  BY <1>1, <1>2, <1>3, <1>4, QuietStep

LEMMA StartAdjustLedger ==
  ASSUME TypeInv, Ledger, NEW r \in Requests, NEW p \in Products, NEW n \in AdjustQuantities,
         StartAdjust(r, p, n)
  PROVE  Ledger'
<1>1. /\ UNCHANGED <<stock, held, stale, book, overlapped>> /\ Load(r, p, stock[p] + n)
      /\ pc[r] = "new" /\ known[r] = {}
      /\ \A q \in Requests \ {r} : pc'[q] = pc[q]
  BY DEF StartAdjust, Arrives, Goto, tables, TypeInv, TypeOK, Control, ControlOf
<1>2. Exclusion' /\ Accounting'
  BY <1>1 DEF Ledger, Exclusion, Accounting
<1>3. ASSUME NEW q \in Requests PROVE FreshOf(q)'
  <2>1. FreshOf(q) /\ held' = held /\ stale' = stale /\ stock' = stock
    BY <1>1 DEF Ledger
  <2>2. CASE q # r
    <3>1. pc'[q] = pc[q] /\ known'[q] = known[q] /\ first'[q] = first[q]
      BY <1>1, <2>2 DEF Load, TypeInv, TypeOK
    <3> QED
      BY <2>1, <3>1 DEF FreshOf, InFlight
  <2>3. CASE q = r
    <3>1. known'[r] = {p} /\ first'[r][p] = stock[p]
      BY <1>1 DEF Load, TypeInv, TypeOK
    <3> QED
      BY <1>1, <2>1, <2>3, <3>1 DEF FreshOf
  <2> QED
    BY <2>2, <2>3
<1> QED
  BY <1>2, <1>3 DEF Ledger

LEMMA ReadBatchLedger ==
  ASSUME TypeInv, Ledger, NEW r \in Requests, ReadBatch(r)
  PROVE  Ledger'
<1> DEFINE p == lines[r][at[r]].product
<1>1. p \in Products
  <2>1. lines[r] \in Seq(Lines) /\ at[r] \in 1..Len(lines[r])
    BY DEF ReadBatch, TypeInv, TypeOK, Control, ControlOf
  <2>2. lines[r][at[r]] \in Lines
    BY <2>1
  <2> QED
    BY <2>2 DEF Lines
<1>2. /\ UNCHANGED <<stock, held, stale, book, overlapped>>
      /\ known' = [known EXCEPT ![r] = @ \cup {p}]
      /\ first' = [first EXCEPT ![r][p] = IF p \in known[r] THEN @ ELSE stock[p]]
      /\ pc[r] = "read"
      /\ \A q \in Requests \ {r} : pc'[q] = pc[q]
  BY DEF ReadBatch, Load, Goto, tables, TypeInv, TypeOK
<1>3. Exclusion' /\ Accounting'
  BY <1>2 DEF Ledger, Exclusion, Accounting
<1>4. ASSUME NEW q \in Requests PROVE FreshOf(q)'
  <2> HIDE DEF p
  <2>1. CASE q # r
    BY <1>2, <2>1 DEF Ledger, FreshOf, InFlight, TypeInv, TypeOK
  <2>2. CASE q = r
    <3>1. r \in InFlight
      BY <1>2 DEF InFlight, Ended
    <3>2. known'[r] = known[r] \cup {p}
      BY <1>2 DEF TypeInv, TypeOK
    <3>3. \A b \in Products :
            first'[r][b] = IF b = p /\ p \notin known[r] THEN stock[p] ELSE first[r][b]
      BY <1>1, <1>2 DEF TypeInv, TypeOK
    <3>4. FreshOf(r) /\ known[r] \subseteq Products
      BY DEF Ledger, TypeInv, TypeOK
    <3>5. held'[r] = held[r] /\ stale'[r] = stale[r] /\ stock' = stock
      BY <1>2
    <3>6. \A b \in Products : BatchRow(b) \in held'[r] => b \in known'[r]
      BY <3>2, <3>4, <3>5 DEF FreshOf
    <3>7. \A b \in known'[r] \ stale'[r] : first'[r][b] = stock'[b]
      BY <1>1, <3>1, <3>2, <3>3, <3>4, <3>5 DEF FreshOf
    <3> QED
      BY <2>2, <3>6, <3>7 DEF FreshOf
  <2> QED
    BY <2>1, <2>2
<1> QED
  BY <1>3, <1>4 DEF Ledger

(* The commit: the batches written get the values the session computed;    *)
(* whoever had read one of them without having written it becomes stale.   *)
LEMMA CommitLedger ==
  ASSUME TypeInv, Ledger, NEW r \in Requests, Commit(r)
  PROVE  Ledger'
<1>1. Exclusion'
  BY DEF Commit, Ledger, Exclusion, TypeInv, TypeOK
<1>2. ASSUME NEW p \in Products, ~overlapped'[p] PROVE stock'[p] = book'[p]
  <2>1. stock[p] = book[p]
    BY <1>2 DEF Commit, CommitHistory, Ledger, Accounting
  <2>2. CASE p \in Written(r)
    <3>1. p \notin stale[r] /\ ~Revoids(r)
      BY <1>2, <2>2 DEF Commit, CommitHistory
    <3>2. first[r][p] = stock[p]
      BY <2>2, <3>1 DEF Ledger, FreshOf, Written, Commit, InFlight, Ended
    <3>3. stock'[p] = mine[r][p] /\ book'[p] = book[p] + mine[r][p] - first[r][p]
      BY <2>2, <3>1 DEF Commit, CommitTables, CommitHistory
    <3>4. stock[p] \in Int /\ mine[r][p] \in Int
      BY DEF TypeInv, TypeOK
    <3> QED
      BY <2>1, <3>2, <3>3, <3>4
  <2>3. CASE p \notin Written(r)
    BY <2>1, <2>3 DEF Commit, CommitTables, CommitHistory
  <2> QED
    BY <2>2, <2>3
<1>3. ASSUME NEW q \in Requests PROVE FreshOf(q)'
  <2>1. ASSUME NEW p \in Products, BatchRow(p) \in held'[q] PROVE p \in known'[q]
    BY <2>1 DEF Commit, Ledger, FreshOf, TypeInv, TypeOK
  <2>2. ASSUME q \in InFlight', NEW p \in known'[q] \ stale'[q]
        PROVE  first'[q][p] = stock'[p]
    <3>1. q # r /\ q \in InFlight /\ p \in known[q] /\ p \in Products
      BY <2>2 DEF Commit, Goto, InFlight, Ended, TypeInv, TypeOK
    <3>2. stale'[q] = stale[q] \cup ((known[q] \cap Written(r)) \ Written(q))
      BY <3>1 DEF Commit, CommitHistory
    <3>3. first[q][p] = stock[p] /\ first' = first
      BY <2>2, <3>1, <3>2 DEF Ledger, FreshOf, Commit, CommitHistory
    <3>4. p \notin Written(r)
      BY <2>2, <3>1, <3>2 DEF Ledger, Exclusion, Written
    <3>5. stock'[p] = stock[p]
      BY <3>1, <3>4 DEF Commit, CommitTables
    <3> QED
      BY <3>3, <3>5
  <2> QED
    BY <2>1, <2>2 DEF FreshOf
<1> QED
  BY <1>1, <1>2, <1>3 DEF Ledger, Accounting

LEMMA CrashLedger == ASSUME TypeInv, Ledger, Crash PROVE Ledger'
<1>1. Exclusion' /\ Accounting'
  BY DEF Crash, tables, history, Ledger, Exclusion, Accounting
<1>2. \A r \in Requests : r \notin InFlight'
  BY DEF Crash, InFlight, Ended, TypeInv, TypeOK
<1>3. ASSUME NEW r \in Requests PROVE FreshOf(r)'
  BY <1>2 DEF Crash, FreshOf
<1> QED
  BY <1>1, <1>3 DEF Ledger

LEMMA LedgerStep == TypeInv /\ Ledger /\ [Next]_vars => Ledger'
<1> SUFFICES ASSUME TypeInv, Ledger, [Next]_vars PROVE Ledger'
  OBVIOUS
<1>1. ASSUME NEW r \in Requests, Arrival(r) PROVE Ledger'
  BY <1>1, StartAdjustLedger, StartSaleLedger, StartVoidLedger, EditProductLedger
     DEF Arrival, ProductRows
<1>2. ASSUME NEW r \in Requests, Step(r) PROVE Ledger'
  BY <1>2, ReadProductLedger, InsertSaleLedger, WriteStatusLedger, ReadBatchLedger,
     WriteBatchLedger, FinishSaleLedger, PublishLedger, HandlerTimeoutLedger, ReplyLedger,
     CommitLedger, AbortLedger
     DEF Step, ProductGone, InsertSaleViolatesForeignKey, LastVisitIsRejected,
         BusyTimeout, DeadlockVictim
<1>3. CASE Crash
  BY <1>3, CrashLedger
<1>4. CASE UNCHANGED vars
  BY <1>4 DEF vars, Ledger, Exclusion, FreshOf, Accounting, InFlight
<1> QED
  BY <1>1, <1>2, <1>3, <1>4 DEF Next, Idle

(* Stock on hand equals the book on every batch without overlap, for any   *)
(* number of products, requests, lines per sale and restarts.              *)
THEOREM AccountingHolds == Spec => []Accounting
<1>1. Init => TypeInv /\ Ledger
  BY InitType, InitLedger
<1>2. TypeInv /\ Ledger /\ [Next]_vars => (TypeInv /\ Ledger)'
  BY TypeStep, LedgerStep
<1> QED
  BY <1>1, <1>2, PTL DEF Spec, Ledger
----------------------------------------------------------------------------
(* On SQLite a sale or a void in flight that loaded a batch already holds  *)
(* the write lock, so nothing it knows can be committed over.              *)
UnderLockOf(r) ==
  (Dialect = "sqlite" /\ r \in InFlight /\ op[r].kind \in {"sale", "void"}) =>
    /\ stale[r] = {}
    /\ known[r] # {} => held[r] # {}
    /\ pc[r] \in {"read", "write"} => held[r] # {}

UnderLock == \A r \in Requests : UnderLockOf(r)

(* What a step of r leaves alone in the session of another request.        *)
Apart(r) ==
  \A q \in Requests \ {r} :
    /\ pc'[q] = pc[q] /\ op'[q] = op[q] /\ known'[q] = known[q]
    /\ held'[q] = held[q] /\ mine'[q] = mine[q] /\ lines'[q] = lines[q]

LEMMA StepApart == ASSUME TypeInv, NEW r \in Requests, Arrival(r) \/ Step(r) PROVE Apart(r)
<1>1. CASE Arrival(r)
  BY <1>1 DEF Apart, Arrival, StartAdjust, StartSale, StartVoid, EditProduct, Load, Lock, Goto,
              TypeInv, TypeOK
<1>2. CASE Step(r)
  <2>4. CASE ReadProduct(r) \/ InsertSale(r)
    BY <2>4 DEF Apart, ReadProduct, InsertSale, Lock, Goto, TypeInv, TypeOK
  <2>5. CASE WriteStatus(r) \/ WriteBatch(r)
    BY <2>5 DEF Apart, WriteStatus, WriteBatch, Lock, Goto, TypeInv, TypeOK
  <2>6. CASE ReadBatch(r)
    BY <2>6 DEF Apart, ReadBatch, Load, Goto, TypeInv, TypeOK
  <2>2. CASE FinishSale(r) \/ Publish(r) \/ HandlerTimeout(r) \/ Reply(r) \/ Commit(r)
    BY <2>2 DEF Apart, FinishSale, Publish, HandlerTimeout, Reply, Commit, Lock, Goto,
                TypeInv, TypeOK
  <2>3. ASSUME NEW outcome, Abort(r, outcome) PROVE Apart(r)
    BY <2>3 DEF Apart, Abort, Goto, TypeInv, TypeOK
  <2> QED
    BY <1>2, <2>2, <2>3, <2>4, <2>5, <2>6 DEF Step, ProductGone, InsertSaleViolatesForeignKey,
       LastVisitIsRejected, BusyTimeout, DeadlockVictim
<1> QED
  BY <1>1, <1>2

LEMMA InitUnderLock == Init => UnderLock
BY DEF Init, UnderLock, UnderLockOf, InFlight

(* The session of r itself, at its own steps.                              *)
LEMMA OwnUnderLock ==
  ASSUME TypeInv, UnderLock, NEW r \in Requests, Arrival(r) \/ Step(r)
  PROVE  UnderLockOf(r)'
<1>1. UnderLockOf(r) /\ ControlOf(r)
  BY DEF UnderLock, TypeInv, Control
<1>2. CASE Arrival(r)
  <2>1. pc[r] = "new" /\ known[r] = {} /\ stale[r] = {} /\ stale' = stale
    BY <1>1, <1>2 DEF Arrival, StartAdjust, StartSale, StartVoid, EditProduct, Arrives,
       ControlOf, history
  <2>2. CASE \E p \in Products, n \in AdjustQuantities : StartAdjust(r, p, n)
    BY <2>2 DEF StartAdjust, UnderLockOf, TypeInv, TypeOK
  <2>3. CASE \E basket \in Baskets, c \in Customers \cup {NoCustomer}, discount \in Discounts :
               StartSale(r, basket, c, discount)
    BY <2>1, <2>3 DEF StartSale, Goto, UnderLockOf, TypeInv, TypeOK
  <2>4. CASE \E s \in Requests : StartVoid(r, s)
    BY <2>1, <2>4 DEF StartVoid, Goto, UnderLockOf, TypeInv, TypeOK
  <2>5. CASE \E p \in Products, row \in [price : Prices, active : BOOLEAN] : EditProduct(r, p, row)
    BY <2>5 DEF EditProduct, UnderLockOf, TypeInv, TypeOK
  <2> QED
    BY <1>2, <2>2, <2>3, <2>4, <2>5 DEF Arrival
<1>3. CASE Step(r)
  <2>1. CASE ReadProduct(r) \/ FinishSale(r) \/ Publish(r) \/ HandlerTimeout(r) \/ Reply(r)
    <3>1. /\ op' = op /\ stale' = stale /\ known' = known
          /\ held' = held \/ \E rows : held' = [held EXCEPT ![r] = @ \cup rows]
      BY <2>1 DEF ReadProduct, FinishSale, Publish, HandlerTimeout, Reply, Lock, history
    <3>2. pc[r] \in {"price", "finish", "publish", "reply"}
      BY <2>1 DEF ReadProduct, FinishSale, Publish, HandlerTimeout, Reply
    <3>3. held[r] \subseteq held'[r] /\ r \in InFlight
      BY <3>1, <3>2 DEF TypeInv, TypeOK, InFlight, Ended
    <3>4. pc'[r] \notin {"read", "write"}
      BY <2>1 DEF ReadProduct, FinishSale, Publish, HandlerTimeout, Reply, Goto, TypeInv, TypeOK
    <3> QED
      BY <1>1, <3>1, <3>3, <3>4 DEF UnderLockOf
  <2>2. CASE InsertSale(r) \/ WriteStatus(r)
    <3>1. held'[r] # {} /\ r \in InFlight
      <4>1. \E row : held' = [held EXCEPT ![r] = @ \cup {row}]
        BY <2>2 DEF InsertSale, WriteStatus, Lock
      <4>2. pc[r] \in {"insert", "status"}
        BY <2>2 DEF InsertSale, WriteStatus
      <4> QED
        BY <4>1, <4>2 DEF InFlight, Ended, TypeInv, TypeOK
    <3>2. UNCHANGED <<stale, op>>
      BY <2>2 DEF InsertSale, WriteStatus, history
    <3> QED
      BY <1>1, <3>1, <3>2 DEF UnderLockOf
  <2>3. CASE ReadBatch(r)
    BY <1>1, <2>3 DEF ReadBatch, Goto, UnderLockOf, ControlOf, InFlight, Ended, TypeInv, TypeOK
  <2>4. CASE WriteBatch(r)
    BY <1>1, <2>4 DEF WriteBatch, Lock, Goto, UnderLockOf, ControlOf, InFlight, Ended,
       TypeInv, TypeOK, history
  <2>5. CASE Commit(r)
    BY <2>5 DEF Commit, Goto, UnderLockOf, InFlight, Ended, TypeInv, TypeOK
  <2>6. ASSUME NEW outcome \in {"refused", "failed"}, Abort(r, outcome) PROVE UnderLockOf(r)'
    BY <2>6 DEF Abort, Goto, UnderLockOf, InFlight, Ended, TypeInv, TypeOK
  <2> QED
    BY <1>3, <2>1, <2>2, <2>3, <2>4, <2>5, <2>6 DEF Step, ProductGone,
       InsertSaleViolatesForeignKey, LastVisitIsRejected, BusyTimeout, DeadlockVictim
<1> QED
  BY <1>2, <1>3

(* The sessions of the others: only a commit can make them stale.          *)
LEMMA OthersUnderLock ==
  ASSUME TypeInv, Exclusion, UnderLock, NEW r \in Requests, Arrival(r) \/ Step(r),
         NEW q \in Requests \ {r}
  PROVE  UnderLockOf(q)'
<1>1. UnderLockOf(q) /\ Apart(r)
  BY StepApart DEF UnderLock
<1>2. CASE Commit(r)
  <2>1. ASSUME Dialect = "sqlite", q \in InFlight, op[q].kind \in {"sale", "void"}
        PROVE  stale'[q] = {}
    <3>1. stale'[q] = stale[q] \cup ((known[q] \cap Written(r)) \ Written(q)) /\ stale[q] = {}
      BY <1>1, <1>2, <2>1 DEF Commit, CommitHistory, UnderLockOf
    <3>2. known[q] = {} \/ held[r] = {}
      BY <1>1, <2>1 DEF UnderLockOf, Exclusion
    <3> QED
      BY <3>1, <3>2 DEF Written
  <2> QED
    BY <1>1, <2>1 DEF Apart, UnderLockOf, InFlight
<1>3. CASE ~Commit(r)
  <2>1. stale' = stale
    BY <1>3 DEF Arrival, StartAdjust, StartSale, StartVoid, EditProduct, Step, ReadProduct,
       ProductGone, InsertSale, InsertSaleViolatesForeignKey, WriteStatus, ReadBatch, WriteBatch,
       FinishSale, LastVisitIsRejected, Publish, HandlerTimeout, Reply, BusyTimeout,
       DeadlockVictim, Abort, history
  <2> QED
    BY <1>1, <2>1 DEF Apart, UnderLockOf, InFlight
<1> QED
  BY <1>2, <1>3

LEMMA UnderLockStep == TypeInv /\ Ledger /\ UnderLock /\ [Next]_vars => UnderLock'
<1> SUFFICES ASSUME TypeInv, Ledger, UnderLock, [Next]_vars PROVE UnderLock'
  OBVIOUS
<1>1. ASSUME NEW r \in Requests, Arrival(r) \/ Step(r) PROVE UnderLock'
  BY <1>1, OwnUnderLock, OthersUnderLock DEF UnderLock, Ledger
<1>2. CASE Crash
  BY <1>2 DEF Crash, UnderLock, UnderLockOf, InFlight, Ended, TypeInv, TypeOK
<1>3. CASE UNCHANGED vars
  BY <1>3 DEF vars, UnderLock, UnderLockOf, InFlight
<1> QED
  BY <1>1, <1>2, <1>3 DEF Next, Idle

(* On SQLite no sale and no void works on a quantity that was committed    *)
(* over since it was read.                                                 *)
THEOREM OnlyAdjustments == Spec => []OnlyAdjustmentsGoStale
<1>1. Init => TypeInv /\ Ledger /\ UnderLock
  BY InitType, InitLedger, InitUnderLock
<1>2. TypeInv /\ Ledger /\ UnderLock /\ [Next]_vars => (TypeInv /\ Ledger /\ UnderLock)'
  BY TypeStep, LedgerStep, UnderLockStep
<1>3. UnderLock => OnlyAdjustmentsGoStale
  BY DEF UnderLock, UnderLockOf, OnlyAdjustmentsGoStale, InFlight
<1> QED
  BY <1>1, <1>2, <1>3, PTL DEF Spec
----------------------------------------------------------------------------
(* An adjustment past its check holds a quantity that is not negative, and *)
(* the only batch it writes is the one it was asked for.                   *)
NoDebtOf(r) ==
  (op[r].kind = "adjust" /\ pc[r] \in {"write", "publish", "reply", "commit"}) =>
    /\ mine[r][lines[r][1].product] >= 0
    /\ \A p \in Products : BatchRow(p) \in held[r] => p = lines[r][1].product

NoDebt == \A r \in Requests : NoDebtOf(r)

LEMMA InitNoDebt == Init => NoDebt
BY DEF Init, NoDebt, NoDebtOf, None

LEMMA OwnNoDebt ==
  ASSUME TypeInv, NoDebt, NEW r \in Requests, Arrival(r) \/ Step(r)
  PROVE  NoDebtOf(r)'
<1>1. NoDebtOf(r) /\ ControlOf(r)
  BY DEF NoDebt, TypeInv, Control
<1>2. ASSUME NEW p \in Products, NEW n \in AdjustQuantities, StartAdjust(r, p, n)
      PROVE  NoDebtOf(r)'
  <2>1. held'[r] = {} /\ lines'[r][1].product = p /\ mine'[r][p] = stock[p] + n
    BY <1>1, <1>2 DEF StartAdjust, Arrives, Load, ControlOf, TypeInv, TypeOK
  <2>2. pc'[r] # "refused" => stock[p] + n >= 0
    BY <1>2, DataAssumption DEF StartAdjust, Goto, TypeInv, TypeOK
  <2> QED
    BY <2>1, <2>2 DEF NoDebtOf
<1>3. ASSUME Arrival(r), op'[r].kind # "adjust" PROVE NoDebtOf(r)'
  BY <1>3 DEF NoDebtOf
<1>4. ASSUME NEW basket \in Baskets, NEW c \in Customers \cup {NoCustomer},
             NEW discount \in Discounts, StartSale(r, basket, c, discount)
      PROVE  op'[r].kind # "adjust"
  BY <1>4 DEF StartSale, TypeInv, TypeOK
<1>5. ASSUME NEW s \in Requests, StartVoid(r, s) PROVE op'[r].kind # "adjust"
  BY <1>5 DEF StartVoid, TypeInv, TypeOK
<1>6. ASSUME NEW p \in Products, NEW row \in ProductRows, EditProduct(r, p, row)
      PROVE  op'[r].kind # "adjust"
  BY <1>6 DEF EditProduct, TypeInv, TypeOK
<1>7. CASE Step(r)
  <2>1. CASE ReadProduct(r) \/ InsertSale(r) \/ WriteStatus(r) \/ ReadBatch(r) \/ FinishSale(r)
    BY <1>1, <2>1 DEF ReadProduct, InsertSale, WriteStatus, ReadBatch, FinishSale,
       NoDebtOf, ControlOf
  <2>2. CASE WriteBatch(r)
    <3>1. CASE op[r].kind = "adjust"
      <4>1. at[r] \in 1..1 /\ pc[r] = "write"
        BY <1>1, <2>2, <3>1 DEF WriteBatch, ControlOf
      <4>2. at[r] = 1
        BY <4>1
      <4>3. /\ UNCHANGED <<mine, lines, op>>
            /\ \A row \in held'[r] : row \in held[r] \/ row = BatchRow(lines[r][1].product)
        BY <2>2, <4>2 DEF WriteBatch, Lock, TypeInv, TypeOK
      <4> QED
        BY <1>1, <3>1, <4>1, <4>3, BatchRowInjective DEF NoDebtOf, BatchRow
    <3>2. CASE op[r].kind # "adjust"
      BY <2>2, <3>2 DEF WriteBatch, NoDebtOf
    <3> QED
      BY <3>1, <3>2
  <2>3. CASE Publish(r) \/ HandlerTimeout(r) \/ Reply(r)
    BY <1>1, <2>3 DEF Publish, HandlerTimeout, Reply, NoDebtOf
  <2>4. CASE Commit(r)
    BY <2>4 DEF Commit, Goto, NoDebtOf, TypeInv, TypeOK
  <2>5. ASSUME NEW outcome \in {"refused", "failed"}, Abort(r, outcome) PROVE NoDebtOf(r)'
    BY <2>5 DEF Abort, Goto, NoDebtOf, TypeInv, TypeOK
  <2> QED
    BY <1>7, <2>1, <2>2, <2>3, <2>4, <2>5 DEF Step, ProductGone,
       InsertSaleViolatesForeignKey, LastVisitIsRejected, BusyTimeout, DeadlockVictim
<1> QED
  BY <1>2, <1>3, <1>4, <1>5, <1>6, <1>7 DEF Arrival, ProductRows

LEMMA NoDebtStep == TypeInv /\ NoDebt /\ [Next]_vars => NoDebt'
<1> SUFFICES ASSUME TypeInv, NoDebt, [Next]_vars PROVE NoDebt'
  OBVIOUS
<1>1. ASSUME NEW r \in Requests, Arrival(r) \/ Step(r) PROVE NoDebt'
  BY <1>1, OwnNoDebt, StepApart DEF NoDebt, NoDebtOf, Apart
<1>2. CASE Crash
  BY <1>2 DEF Crash, NoDebt, NoDebtOf, InFlight, Ended, TypeInv, TypeOK
<1>3. CASE UNCHANGED vars
  BY <1>3 DEF vars, NoDebt, NoDebtOf
<1> QED
  BY <1>1, <1>2, <1>3 DEF Next, Idle

(* A committed adjustment never leaves less than nothing on the shelf, not *)
(* even when it overwrites what others committed meanwhile.                *)
THEOREM AdjustSafe == Spec => AdjustLeavesNoDebt
<1> DEFINE NoDebtCommit ==
      \A r \in Requests :
        (op[r].kind = "adjust" /\ pc[r] = "commit" /\ pc'[r] = "done") =>
          \A p \in Written(r) : stock'[p] >= 0
<1>1. Init => TypeInv /\ NoDebt
  BY InitType, InitNoDebt
<1>2. TypeInv /\ NoDebt /\ [Next]_vars => (TypeInv /\ NoDebt)'
  BY TypeStep, NoDebtStep
<1>3. ASSUME TypeInv, NoDebt, [Next]_vars PROVE [NoDebtCommit]_vars
  <2>1. ASSUME NEW r \in Requests, op[r].kind = "adjust", pc[r] = "commit", pc'[r] = "done",
               NEW p \in Written(r)
        PROVE  stock'[p] >= 0
    <3>1. p \in Products /\ mine[r][p] >= 0
      <4>1. p \in Products /\ BatchRow(p) \in held[r]
        BY <2>1 DEF Written
      <4>2. mine[r][lines[r][1].product] >= 0 /\ p = lines[r][1].product
        BY <1>3, <2>1, <4>1 DEF NoDebt, NoDebtOf
      <4> QED
        BY <4>1, <4>2
    <3>2. Commit(r)
      <4>1. ASSUME NEW q \in Requests \ {r}, Arrival(q) \/ Step(q) PROVE FALSE
        <5>1. Apart(q)
          BY <1>3, <4>1, StepApart
        <5> QED
          BY <2>1, <5>1 DEF Apart
      <4>2. ~Arrival(r)
        BY <2>1 DEF Arrival, StartAdjust, StartSale, StartVoid, EditProduct, Arrives
      <4>3. Step(r) => Commit(r)
        BY <2>1 DEF Step, ReadProduct, ProductGone, InsertSale, InsertSaleViolatesForeignKey,
           WriteStatus, ReadBatch, WriteBatch, FinishSale, LastVisitIsRejected, Publish,
           HandlerTimeout, Reply, BusyTimeout, DeadlockVictim, Abort, Goto, Waiting, Deadlocked,
           TypeInv, TypeOK
      <4>4. ~Crash /\ ~UNCHANGED vars
        BY <2>1 DEF Crash, vars, TypeInv, TypeOK
      <4> QED
        BY <1>3, <4>1, <4>2, <4>3, <4>4 DEF Next, Idle
    <3> QED
      BY <2>1, <3>1, <3>2 DEF Commit, CommitTables
  <2> QED
    BY <2>1
<1> QED
  BY <1>1, <1>2, <1>3, PTL DEF Spec, AdjustLeavesNoDebt
=============================================================================
