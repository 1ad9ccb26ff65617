----------------------- MODULE StockPropertiesProofs -----------------------
(***************************************************************************)
(* The promises of StockProperties, for every set of requests, products,   *)
(* customers, baskets, prices and restarts: AsAsked, SalesBook,            *)
(* LowStockAlerted, and that one request at a time implements StockBook.   *)
(***************************************************************************)
EXTENDS StockProperties, StockLedgerProofs, SumTheorems

(* What a step of r leaves alone in the session of another request.        *)
Untouched(r) ==
  \A q \in Requests \ {r} :
    /\ pc'[q] = pc[q] /\ op'[q] = op[q] /\ lines'[q] = lines[q] /\ at'[q] = at[q]
    /\ known'[q] = known[q] /\ mine'[q] = mine[q] /\ first'[q] = first[q]
    /\ held'[q] = held[q] /\ total'[q] = total[q] /\ account'[q] = account[q]

LEMMA StepUntouched ==
  ASSUME TypeInv, NEW r \in Requests, Arrival(r) \/ Step(r)
  PROVE  Untouched(r)
<1>1. CASE Arrival(r)
  BY <1>1 DEF Untouched, Arrival, StartAdjust, StartSale, StartVoid, EditProduct, Load, Lock,
              Goto, history, TypeInv, TypeOK
<1>2. CASE Step(r)
  <2>1. CASE ReadProduct(r) \/ InsertSale(r) \/ WriteStatus(r)
    BY <2>1 DEF Untouched, ReadProduct, InsertSale, WriteStatus, Lock, Goto, history,
                TypeInv, TypeOK
  <2>2. CASE ReadBatch(r) \/ WriteBatch(r)
    BY <2>2 DEF Untouched, ReadBatch, WriteBatch, Load, Lock, Goto, history, TypeInv, TypeOK
  <2>3. CASE FinishSale(r) \/ Publish(r) \/ HandlerTimeout(r) \/ Reply(r)
    BY <2>3 DEF Untouched, FinishSale, Publish, HandlerTimeout, Reply, Lock, Goto, history,
                TypeInv, TypeOK
  <2>4. CASE Commit(r)
    BY <2>4 DEF Untouched, Commit, CommitHistory, Goto, TypeInv, TypeOK
  <2>5. ASSUME NEW outcome, Abort(r, outcome) PROVE Untouched(r)
    BY <2>5 DEF Untouched, Abort, Goto, history, TypeInv, TypeOK
  <2> QED
    BY <1>2, <2>1, <2>2, <2>3, <2>4, <2>5 DEF Step, ProductGone,
       InsertSaleViolatesForeignKey, LastVisitIsRejected, BusyTimeout, DeadlockVictim
<1> QED
  BY <1>1, <1>2

(* The lines of a request are lines, and what each moves is an integer.    *)
LEMMA LineFacts ==
  ASSUME TypeInv, NEW r \in Requests
  PROVE  /\ DOMAIN lines[r] = 1..Len(lines[r]) /\ Len(lines[r]) \in Nat
         /\ \A k \in 1..Len(lines[r]) :
              /\ lines[r][k] \in Lines
              /\ Movement(r, lines[r][k]) \in Int
              /\ \A p \in Products : Moves(r, p)[k] \in Int
<1>1. lines[r] \in Seq(Lines)
  BY DEF TypeInv, TypeOK
<1>2. \A k \in 1..Len(lines[r]) : lines[r][k] \in Lines
  BY <1>1
<1> QED
  BY <1>1, <1>2 DEF Moves, Movement, Lines
----------------------------------------------------------------------------
(* How far the loop over the lines is: those loaded into the session, and  *)
(* those whose UPDATE was sent.                                            *)
LoadedLines(r) ==
  CASE pc[r] = "read" -> 1..(at[r] - 1)
    [] pc[r] = "write" -> 1..at[r]
    [] OTHER -> DOMAIN lines[r]
WrittenLines(r) ==
  IF pc[r] \in {"read", "write"} THEN 1..(at[r] - 1) ELSE DOMAIN lines[r]

Working == {"read", "write", "finish", "publish", "reply", "commit"}

(* The sum of the lines loaded is what the session made of each batch, and *)
(* the batches locked are those of the lines written.                      *)
MovedOf(r) ==
  /\ pc[r] \in {"price", "insert", "status"} => known[r] = {} /\ Written(r) = {}
  /\ pc[r] \in Working =>
       \A p \in Products :
         /\ SumFunctionOnSet(Moves(r, p), LoadedLines(r)) =
              IF p \in known[r] THEN mine[r][p] - first[r][p] ELSE 0
         /\ p \in Written(r) <=> \E k \in WrittenLines(r) :
              lines[r][k].product = p /\ lines[r][k].quantity # 0

Moved == \A r \in Requests : MovedOf(r)

LEMMA MovedAsAsked == TypeInv /\ Moved => AsAsked
<1> SUFFICES ASSUME TypeInv, Moved, NEW r \in Requests, NEW p \in Products,
                    pc[r] \in {"reply", "commit"}
             PROVE  /\ p \in known[r] => mine[r][p] - first[r][p] = Asked(r, p)
                    /\ p \in Written(r) <=> \E k \in DOMAIN lines[r] :
                         lines[r][k].product = p /\ lines[r][k].quantity # 0
  BY DEF AsAsked
<1>1. LoadedLines(r) = DOMAIN lines[r] /\ WrittenLines(r) = DOMAIN lines[r]
  BY DEF LoadedLines, WrittenLines
<1>2. Asked(r, p) = SumFunctionOnSet(Moves(r, p), DOMAIN lines[r])
  BY DEF Asked, SumFunction, Moves
<1> QED
  BY <1>1, <1>2 DEF Moved, MovedOf, Working

(* Reading a batch adds the line's movement to what the session holds.     *)
LEMMA ReadBatchMoved ==
  ASSUME TypeInv, Moved, NEW r \in Requests, ReadBatch(r)
  PROVE  MovedOf(r)'
<1> DEFINE n == at[r] - 1
           line == lines[r][at[r]]
<1>1. /\ pc[r] = "read" /\ pc'[r] = "write" /\ at[r] \in 1..Len(lines[r])
      /\ UNCHANGED <<op, lines, at, held>>
  BY DEF ReadBatch, Goto, TypeInv, TypeOK, Control, ControlOf
<1>2. n \in Nat /\ at[r] = n + 1
  BY <1>1
<1>3. line \in Lines /\ Movement(r, line) \in Int /\ line.product \in Products
  BY <1>1, LineFacts DEF Lines
<1>4. /\ known'[r] = known[r] \cup {line.product}
      /\ \A p \in Products :
           /\ mine'[r][p] = IF p = line.product THEN Loaded(r, p) + Movement(r, line)
                                                ELSE mine[r][p]
           /\ first'[r][p] = IF p = line.product /\ p \notin known[r] THEN stock[p]
                                                                      ELSE first[r][p]
  BY <1>3 DEF ReadBatch, Load, TypeInv, TypeOK
<1>5. ASSUME NEW p \in Products
      PROVE  SumFunctionOnSet(Moves(r, p)', LoadedLines(r)') =
               IF p \in known'[r] THEN mine'[r][p] - first'[r][p] ELSE 0
  <2>1. Moves(r, p)' = Moves(r, p)
    BY <1>1 DEF Moves, Movement
  <2>2. LoadedLines(r)' = (1..n) \cup {n + 1} /\ LoadedLines(r) = 1..n
    BY <1>1, <1>2, Prefix DEF LoadedLines
  <2>3. \A k \in (1..n) \cup {n + 1} : Moves(r, p)[k] \in Int
    BY <1>1, <1>2, LineFacts
  <2>4. SumFunctionOnSet(Moves(r, p), (1..n) \cup {n + 1})
          = SumFunctionOnSet(Moves(r, p), 1..n) + Moves(r, p)[n + 1]
    BY <1>2, <2>2, <2>3, Prefix, SumNext
  <2>5. Moves(r, p)[n + 1] = IF line.product = p THEN Movement(r, line) ELSE 0
    BY <1>1, <1>2, LineFacts DEF Moves
  <2>6. SumFunctionOnSet(Moves(r, p), 1..n) = IF p \in known[r] THEN mine[r][p] - first[r][p]
                                                                ELSE 0
    BY <1>1, <2>2 DEF Moved, MovedOf, Working
  <2>7. mine[r][p] \in Int /\ first[r][p] \in Int /\ stock[p] \in Int
    BY DEF TypeInv, TypeOK
  <2> HIDE DEF n, line
  <2>8. SumFunctionOnSet(Moves(r, p)', LoadedLines(r)')
          = (IF p \in known[r] THEN mine[r][p] - first[r][p] ELSE 0)
            + (IF line.product = p THEN Movement(r, line) ELSE 0)
    BY <2>1, <2>2, <2>4, <2>5, <2>6
  <2>9. CASE p # line.product
    BY <1>4, <2>7, <2>8, <2>9
  <2>10. CASE p = line.product
    <3>1. SumFunctionOnSet(Moves(r, p)', LoadedLines(r)')
            = (IF p \in known[r] THEN mine[r][p] - first[r][p] ELSE 0) + Movement(r, line)
      BY <2>8, <2>10
    <3>2. /\ p \in known'[r]
          /\ mine'[r][p] = Loaded(r, p) + Movement(r, line)
          /\ first'[r][p] = IF p \notin known[r] THEN stock[p] ELSE first[r][p]
      BY <1>4, <2>10
    <3>3. CASE p \in known[r]
      BY <1>3, <2>7, <3>1, <3>2, <3>3 DEF Loaded
    <3>4. CASE p \notin known[r]
      BY <1>3, <2>7, <3>1, <3>2, <3>4 DEF Loaded
    <3> QED
      BY <3>3, <3>4
  <2> QED
    BY <2>9, <2>10
<1>6. ASSUME NEW p \in Products
      PROVE  p \in Written(r)' <=> \E k \in WrittenLines(r)' :
               lines'[r][k].product = p /\ lines'[r][k].quantity # 0
  <2>1. Written(r)' = Written(r) /\ WrittenLines(r)' = WrittenLines(r)
    BY <1>1 DEF Written, WrittenLines
  <2> QED
    BY <1>1, <2>1 DEF Moved, MovedOf, Working
<1> QED
  BY <1>1, <1>5, <1>6 DEF MovedOf

(* Writing a batch locks it, unless the line moves nothing.                *)
LEMMA WriteBatchMoved ==
  ASSUME TypeInv, Moved, NEW r \in Requests, WriteBatch(r)
  PROVE  MovedOf(r)'
<1> DEFINE n == at[r] - 1
           line == lines[r][at[r]]
           last == at[r] = Len(lines[r])
<1>1. /\ pc[r] = "write" /\ at[r] \in 1..Len(lines[r])
      /\ UNCHANGED <<op, lines, known, mine, first>>
      /\ IF last THEN pc'[r] \in {"finish", "publish", "reply"} /\ at'[r] = at[r]
                 ELSE pc'[r] = "read" /\ at'[r] = at[r] + 1
  BY DEF WriteBatch, Goto, history, TypeInv, TypeOK, Control, ControlOf
<1>2. n \in Nat /\ at[r] = n + 1 /\ (n + 1) + 1 - 1 = n + 1
  BY <1>1
<1>3. line \in Lines /\ line.product \in Products /\ DOMAIN lines[r] = 1..Len(lines[r])
  BY <1>1, LineFacts DEF Lines
<1>4. /\ LoadedLines(r) = 1..(n + 1) /\ LoadedLines(r)' = 1..(n + 1)
      /\ WrittenLines(r) = 1..n /\ WrittenLines(r)' = 1..(n + 1)
  BY <1>1, <1>2, <1>3 DEF LoadedLines, WrittenLines
<1>5. ASSUME NEW p \in Products
      PROVE  SumFunctionOnSet(Moves(r, p)', LoadedLines(r)') =
               IF p \in known'[r] THEN mine'[r][p] - first'[r][p] ELSE 0
  <2>1. Moves(r, p)' = Moves(r, p)
    BY <1>1 DEF Moves, Movement
  <2> QED
    BY <1>1, <1>4, <2>1 DEF Moved, MovedOf, Working
<1>6. ASSUME NEW p \in Products
      PROVE  p \in Written(r)' <=> \E k \in WrittenLines(r)' :
               lines'[r][k].product = p /\ lines'[r][k].quantity # 0
  <2>1. p \in Written(r) <=> \E k \in 1..n : lines[r][k].product = p /\ lines[r][k].quantity # 0
    <3> HIDE DEF n, line, last
    <3>1. MovedOf(r) /\ pc[r] \in Working
      BY <1>1 DEF Moved, Working
    <3> QED
      BY <1>4, <3>1 DEF MovedOf
  <2>2. p \in Written(r)' <=> p \in Written(r) \/ (line.quantity # 0 /\ p = line.product)
    <3>1. held'[r] = IF line.quantity = 0 THEN held[r] ELSE held[r] \cup {BatchRow(line.product)}
      BY DEF WriteBatch, Lock, TypeInv, TypeOK
    <3> QED
      BY <1>3, <3>1, BatchRowInjective DEF Written
  <2>3. 1..(n + 1) = (1..n) \cup {n + 1}
    BY <1>2, Prefix
  <2> QED
    BY <1>1, <1>2, <1>4, <2>1, <2>2, <2>3
<1> QED
  BY <1>1, <1>5, <1>6 DEF MovedOf

(* An adjustment has one line, loaded at once.                             *)
LEMMA StartAdjustMoved ==
  ASSUME TypeInv, NEW r \in Requests, NEW p \in Products, NEW q \in AdjustQuantities,
         StartAdjust(r, p, q)
  PROVE  MovedOf(r)'
<1> DEFINE line == [product |-> p, quantity |-> q, price |-> 0]
<1>1. /\ pc'[r] \in {"refused", "write"} /\ op'[r] = [kind |-> "adjust"]
      /\ lines'[r] = <<line>> /\ at'[r] = 1 /\ known'[r] = {p} /\ held'[r] = {}
      /\ mine'[r][p] = stock[p] + q /\ first'[r][p] = stock[p]
  BY DEF StartAdjust, Arrives, Load, Goto, TypeInv, TypeOK, Control, ControlOf
<1>2. SUFFICES ASSUME pc'[r] = "write", NEW b \in Products
               PROVE  /\ SumFunctionOnSet(Moves(r, b)', LoadedLines(r)') =
                           IF b \in known'[r] THEN mine'[r][b] - first'[r][b] ELSE 0
                      /\ b \in Written(r)' <=> \E k \in WrittenLines(r)' :
                           lines'[r][k].product = b /\ lines'[r][k].quantity # 0
  BY <1>1 DEF MovedOf, Working
<1>3. q \in Int /\ stock[p] \in Int
  BY DataAssumption DEF TypeInv, TypeOK
<1>4. LoadedLines(r)' = {} \cup {1} /\ WrittenLines(r)' = {}
  BY <1>1, <1>2 DEF LoadedLines, WrittenLines
<1>5. Moves(r, b)' = [k \in {1} |-> IF p = b THEN q ELSE 0]
  BY <1>1 DEF Moves, Movement
<1>6. SumFunctionOnSet(Moves(r, b)', {} \cup {1}) = 0 + (IF p = b THEN q ELSE 0)
  <2>1. \A k \in {} \cup {1} : Moves(r, b)'[k] \in Int
    BY <1>3, <1>5
  <2>2. SumFunctionOnSet(Moves(r, b)', {} \cup {1})
          = SumFunctionOnSet(Moves(r, b)', {}) + Moves(r, b)'[1]
    BY <2>1, FS_EmptySet, SumAdd
  <2> QED
    BY <1>5, <2>2, SumEmpty
<1> QED
  BY <1>1, <1>3, <1>4, <1>6 DEF Written

(* The other steps of r: the loop is entered with nothing loaded, and left *)
(* with every line loaded and written.                                     *)
LEMMA OwnMoved ==
  ASSUME TypeInv, Moved, NEW r \in Requests, Arrival(r) \/ Step(r)
  PROVE  MovedOf(r)'
<1>1. MovedOf(r) /\ ControlOf(r)
  BY DEF Moved, TypeInv, Control
<1>2. CASE Arrival(r)
  <2>1. CASE \E p \in Products, q \in AdjustQuantities : StartAdjust(r, p, q)
    BY <2>1, StartAdjustMoved
  <2>2. CASE \/ \E basket \in Baskets, c \in Customers \cup {NoCustomer}, d \in Discounts :
                  StartSale(r, basket, c, d)
             \/ \E s \in Requests : StartVoid(r, s)
    <3>1. /\ pc'[r] \in {"price", "refused", "status"}
          /\ known'[r] = {} /\ held'[r] = {}
      BY <1>1, <2>2 DEF StartSale, StartVoid, Arrives, Goto, ControlOf, TypeInv, TypeOK
    <3> QED
      BY <3>1 DEF MovedOf, Written, Working
  <2>3. CASE \E p \in Products, row \in ProductRows : EditProduct(r, p, row)
    <3>1. /\ pc'[r] = "reply" /\ known'[r] = {} /\ lines'[r] = <<>>
          /\ \A p \in Products : BatchRow(p) \notin held'[r]
      BY <1>1, <2>3, BatchRowInjective DEF EditProduct, Arrives, Lock, Goto, ControlOf,
         TypeInv, TypeOK
    <3>2. LoadedLines(r)' = {} /\ WrittenLines(r)' = {}
      BY <3>1 DEF LoadedLines, WrittenLines
    <3> QED
      BY <3>1, <3>2, SumEmpty DEF MovedOf, Written
  <2> QED
    BY <1>2, <2>1, <2>2, <2>3 DEF Arrival, ProductRows
<1>3. CASE Step(r)
  <2>1. CASE ReadProduct(r)
    <3>1. pc'[r] \in {"price", "insert"} /\ pc[r] = "price" /\ UNCHANGED <<known, held>>
      BY <2>1 DEF ReadProduct, Goto, TypeInv, TypeOK
    <3> QED
      BY <1>1, <3>1 DEF MovedOf, Written, Working
  <2>2. CASE InsertSale(r) \/ WriteStatus(r)
    <3>1. /\ pc[r] \in {"insert", "status"} /\ pc'[r] = "read" /\ at'[r] = 1
          /\ known'[r] = {} /\ \A p \in Products : BatchRow(p) \notin held'[r]
      <4>1. /\ pc[r] \in {"insert", "status"} /\ pc'[r] = "read" /\ UNCHANGED <<at, known>>
            /\ \E s : held' = [held EXCEPT ![r] = @ \cup {SaleRow(s)}]
        BY <2>2 DEF InsertSale, WriteStatus, Lock, Goto, TypeInv, TypeOK
      <4>2. at[r] = 1 /\ known[r] = {} /\ \A p \in Products : BatchRow(p) \notin held[r]
        BY <1>1, <4>1 DEF MovedOf, ControlOf, Written
      <4> QED
        BY <4>1, <4>2, BatchRowInjective DEF TypeInv, TypeOK
    <3>2. LoadedLines(r)' = {} /\ WrittenLines(r)' = {}
      BY <3>1 DEF LoadedLines, WrittenLines
    <3> QED
      BY <3>1, <3>2, SumEmpty DEF MovedOf, Written
  <2>3. CASE ReadBatch(r)
    BY <2>3, ReadBatchMoved
  <2>4. CASE WriteBatch(r)
    BY <2>4, WriteBatchMoved
  <2>5. CASE FinishSale(r) \/ Publish(r) \/ HandlerTimeout(r) \/ Reply(r)
    <3>1. /\ pc[r] \in {"finish", "publish", "reply"} /\ pc'[r] \in {"reply", "commit"}
          /\ UNCHANGED <<op, lines, known, mine, first>>
          /\ \A p \in Products : BatchRow(p) \in held'[r] <=> BatchRow(p) \in held[r]
      BY <2>5, BatchRowInjective DEF FinishSale, Publish, HandlerTimeout, Reply, Lock, Goto,
         history, TypeInv, TypeOK
    <3>2. /\ LoadedLines(r) = DOMAIN lines[r] /\ LoadedLines(r)' = DOMAIN lines[r]
          /\ WrittenLines(r) = DOMAIN lines[r] /\ WrittenLines(r)' = DOMAIN lines[r]
      BY <3>1 DEF LoadedLines, WrittenLines
    <3>3. ASSUME NEW p \in Products
          PROVE  Moves(r, p)' = Moves(r, p) /\ (p \in Written(r)' <=> p \in Written(r))
      BY <3>1 DEF Moves, Movement, Written
    <3>4. pc[r] \in Working /\ pc'[r] \notin {"price", "insert", "status"}
      BY <3>1 DEF Working
    <3> QED
      BY <1>1, <3>1, <3>2, <3>3, <3>4 DEF MovedOf
  <2>6. ASSUME pc'[r] \in Ended PROVE MovedOf(r)'
    BY <2>6 DEF MovedOf, Ended, Working
  <2>7. ASSUME NEW outcome \in {"refused", "failed"}, Abort(r, outcome) PROVE pc'[r] \in Ended
    BY <2>7 DEF Abort, Goto, Ended, TypeInv, TypeOK
  <2>8. Commit(r) => pc'[r] \in Ended
    BY DEF Commit, Goto, Ended, TypeInv, TypeOK
  <2> QED
    BY <1>3, <2>1, <2>2, <2>3, <2>4, <2>5, <2>6, <2>7, <2>8 DEF Step, ProductGone,
       InsertSaleViolatesForeignKey, LastVisitIsRejected, BusyTimeout, DeadlockVictim
<1> QED
  BY <1>2, <1>3

LEMMA MovedStep == TypeInv /\ Moved /\ [Next]_vars => Moved'
<1> SUFFICES ASSUME TypeInv, Moved, [Next]_vars PROVE Moved'
  OBVIOUS
<1>1. ASSUME NEW r \in Requests, Arrival(r) \/ Step(r), NEW q \in Requests PROVE MovedOf(q)'
  <2>1. CASE q = r
    BY <1>1, <2>1, OwnMoved
  <2>2. CASE q # r
    <3>1. Untouched(r) /\ MovedOf(q)
      BY <1>1, StepUntouched DEF Moved
    <3>2. /\ pc'[q] = pc[q] /\ op'[q] = op[q] /\ lines'[q] = lines[q] /\ at'[q] = at[q]
          /\ known'[q] = known[q] /\ mine'[q] = mine[q] /\ first'[q] = first[q]
          /\ held'[q] = held[q]
      BY <2>2, <3>1 DEF Untouched
    <3>3. /\ LoadedLines(q)' = LoadedLines(q) /\ WrittenLines(q)' = WrittenLines(q)
          /\ Written(q)' = Written(q) /\ \A p : Moves(q, p)' = Moves(q, p)
      BY <3>2 DEF LoadedLines, WrittenLines, Written, Moves, Movement
    <3> QED
      BY <3>1, <3>2, <3>3 DEF MovedOf
  <2> QED
    BY <2>1, <2>2
<1>2. CASE Crash
  <2>1. \A q \in Requests : pc'[q] \in Ended \cup {"new"}
    BY <1>2 DEF Crash, InFlight, Ended, TypeInv, TypeOK
  <2> QED
    BY <2>1 DEF Moved, MovedOf, Working, Ended
<1>3. CASE UNCHANGED vars
  BY <1>3 DEF vars, Moved, MovedOf, LoadedLines, WrittenLines, Written, Moves, Movement
<1> QED
  BY <1>1, <1>2, <1>3 DEF Next, Idle, Moved

LEMMA InitMoved == Init => Moved
BY DEF Init, Moved, MovedOf, Working

(* Every request that is about to answer changed and locked the batches of *)
(* its lines, each by the sum of its lines, however often a product occurs *)
(* and whatever ran at the same time.                                      *)
THEOREM AskedAndDone == Spec => []AsAsked
<1>1. Init => TypeInv /\ Moved
  BY InitType, InitMoved
<1>2. TypeInv /\ Moved /\ [Next]_vars => (TypeInv /\ Moved)'
  BY TypeStep, MovedStep
<1> QED
  BY <1>1, <1>2, MovedAsAsked, PTL DEF Spec
----------------------------------------------------------------------------
(* A notification is raised by an adjustment past its check, at a quantity *)
(* at or under the minimum; on Postgres, where the handler never waits for *)
(* a lock, by every such adjustment.                                       *)
AlertedOf(r) ==
  /\ pc[r] \in {"new", "price", "insert", "status", "read", "write", "finish", "publish"}
       => r \notin alerts
  /\ (pc[r] \in {"reply", "commit"} /\ op[r].kind = "adjust") =>
       /\ r \in alerts => NewQuantity(r) <= MinQuantity
       /\ (Dialect = "postgres" /\ NewQuantity(r) <= MinQuantity) => r \in alerts

Alerted == \A r \in Requests : AlertedOf(r)

LEMMA OwnAlerted ==
  ASSUME TypeInv, Alerted, NEW r \in Requests, Arrival(r) \/ Step(r)
  PROVE  AlertedOf(r)'
<1>1. AlertedOf(r) /\ ControlOf(r)
  BY DEF Alerted, TypeInv, Control
<1>2. CASE Arrival(r)
  <2>1. pc[r] = "new" /\ alerts' = alerts
    BY <1>2 DEF Arrival, StartAdjust, StartSale, StartVoid, EditProduct, Arrives, tables
  <2>2. pc'[r] \in {"reply", "commit"} => op'[r].kind = "edit"
    BY <1>2 DEF Arrival, StartAdjust, StartSale, StartVoid, EditProduct, Goto, TypeInv, TypeOK
  <2> QED
    BY <1>1, <2>1, <2>2 DEF AlertedOf
<1>3. CASE Step(r)
  <2>1. CASE \/ ReadProduct(r) \/ InsertSale(r) \/ WriteStatus(r) \/ ReadBatch(r)
             \/ WriteBatch(r) \/ FinishSale(r)
    <3>1. /\ alerts' = alerts /\ op' = op
          /\ pc[r] \in {"price", "insert", "status", "read", "write", "finish"}
          /\ pc'[r] = "reply" => op[r].kind # "adjust"
          /\ pc'[r] # "commit"
      BY <1>1, <2>1 DEF ReadProduct, InsertSale, WriteStatus, ReadBatch, WriteBatch, FinishSale,
         Goto, tables, ControlOf, TypeInv, TypeOK
    <3> QED
      BY <1>1, <3>1 DEF AlertedOf
  <2>2. CASE Publish(r)
    <3>1. /\ pc[r] = "publish" /\ pc'[r] = "reply" /\ r \notin alerts
          /\ UNCHANGED <<op, mine, lines>>
      BY <1>1, <2>2 DEF Publish, Goto, AlertedOf, TypeInv, TypeOK
    <3>2. r \in alerts' <=> ~(NewQuantity(r) > MinQuantity)
      BY <2>2, <3>1 DEF Publish
    <3>3. NewQuantity(r)' = NewQuantity(r) /\ NewQuantity(r) \in Int
      <4>1. lines[r][1].product \in Products
        BY <1>1, <3>1, LineFacts DEF ControlOf, Lines
      <4> QED
        BY <3>1, <4>1 DEF NewQuantity, TypeInv, TypeOK
    <3> QED
      BY <3>1, <3>2, <3>3, DataAssumption DEF AlertedOf
  <2>3. CASE HandlerTimeout(r)
    <3>1. /\ pc[r] = "publish" /\ r \notin alerts /\ alerts' = alerts /\ Dialect = "sqlite"
          /\ pc'[r] = "reply"
      BY <1>1, <2>3 DEF HandlerTimeout, HandlerBlocked, Goto, AlertedOf, tables, TypeInv, TypeOK
    <3> QED
      BY <3>1 DEF AlertedOf
  <2>4. CASE Reply(r)
    BY <1>1, <2>4 DEF Reply, Goto, tables, AlertedOf, NewQuantity, TypeInv, TypeOK
  <2>5. CASE Commit(r)
    BY <2>5 DEF Commit, Goto, AlertedOf, TypeInv, TypeOK
  <2>6. ASSUME NEW outcome \in {"refused", "failed"}, Abort(r, outcome) PROVE AlertedOf(r)'
    BY <2>6 DEF Abort, Goto, AlertedOf, TypeInv, TypeOK
  <2> QED
    BY <1>3, <2>1, <2>2, <2>3, <2>4, <2>5, <2>6 DEF Step, ProductGone,
       InsertSaleViolatesForeignKey, LastVisitIsRejected, BusyTimeout, DeadlockVictim
<1> QED
  BY <1>2, <1>3

(* The step of a request raises no notification but its own.               *)
LEMMA OwnAlertsOnly ==
  ASSUME TypeInv, NEW r \in Requests, Arrival(r) \/ Step(r), NEW q \in Requests \ {r}
  PROVE  q \in alerts' <=> q \in alerts
<1>1. alerts' = alerts \/ alerts' = alerts \cup {r}
  BY DEF Arrival, StartAdjust, StartSale, StartVoid, EditProduct, Step, ReadProduct,
     ProductGone, InsertSale, InsertSaleViolatesForeignKey, WriteStatus, ReadBatch, WriteBatch,
     FinishSale, LastVisitIsRejected, Publish, HandlerTimeout, Reply, Commit, CommitTables,
     BusyTimeout, DeadlockVictim, Abort, tables
<1> QED
  BY <1>1

LEMMA AlertedStep == TypeInv /\ Alerted /\ [Next]_vars => Alerted'
<1> SUFFICES ASSUME TypeInv, Alerted, [Next]_vars PROVE Alerted'
  OBVIOUS
<1>1. ASSUME NEW r \in Requests, Arrival(r) \/ Step(r), NEW q \in Requests \ {r}
      PROVE  AlertedOf(q)'
  BY <1>1, StepUntouched, OwnAlertsOnly DEF Untouched, Alerted, AlertedOf, NewQuantity
<1>2. ASSUME NEW r \in Requests, Arrival(r) \/ Step(r) PROVE Alerted'
  BY <1>1, <1>2, OwnAlerted DEF Alerted
<1>3. CASE Crash
  <2>1. \A q \in Requests : pc'[q] \in Ended \cup {"new"} /\ (pc'[q] = "new" => pc[q] = "new")
    BY <1>3 DEF Crash, InFlight, Ended, TypeInv, TypeOK
  <2> QED
    BY <1>3, <2>1 DEF Crash, tables, Alerted, AlertedOf, Ended
<1>4. CASE UNCHANGED vars
  BY <1>4 DEF vars, Alerted, AlertedOf, NewQuantity
<1> QED
  BY <1>2, <1>3, <1>4 DEF Next, Idle

LEMMA InitAlerted == Init => Alerted
BY DEF Init, Alerted, AlertedOf

(* On Postgres an adjustment has raised the low-stock notification by the  *)
(* time it answers, exactly if it leaves its batch at or under the minimum.*)
THEOREM LowStockIsAlerted ==
  ASSUME Dialect = "postgres"
  PROVE  Spec => []LowStockAlerted
<1>1. Init => TypeInv /\ Alerted
  BY InitType, InitAlerted
<1>2. TypeInv /\ Alerted /\ [Next]_vars => (TypeInv /\ Alerted)'
  BY TypeStep, AlertedStep
<1>3. Alerted => LowStockAlerted
  BY DEF Alerted, AlertedOf, LowStockAlerted
<1> QED
  BY <1>1, <1>2, <1>3, PTL DEF Spec
----------------------------------------------------------------------------
(* A sale being entered: one price per product, and the total so far, less *)
(* the discount once the row was inserted.                                 *)
PricedOf(r) ==
  /\ pc[r] = "new" => total[r] = 0
  /\ (op[r].kind = "sale" /\ pc[r] \notin Ended) =>
       /\ OnePrice(lines[r])
       /\ total[r] = SumFunction(Values(lines[r])) -
                       IF pc[r] \in {"price", "insert"} THEN 0 ELSE op[r].discount

Priced == \A r \in Requests : PricedOf(r)

(* The values of lines are integers; an appended line adds its own.        *)
LEMMA ValueFacts ==
  ASSUME NEW items \in Seq(Lines)
  PROVE  /\ SumFunction(Values(items)) = SumFunctionOnSet(Values(items), 1..Len(items))
         /\ \A k \in 1..Len(items) : Values(items)[k] \in Int
         /\ SumFunction(Values(items)) \in Int
<1>1. DOMAIN Values(items) = 1..Len(items) /\ Len(items) \in Nat
  BY DEF Values
<1>2. ASSUME NEW k \in 1..Len(items) PROVE Values(items)[k] \in Int
  <2>1. items[k] \in Lines
    OBVIOUS
  <2>2. items[k].price \in Int /\ items[k].quantity \in Int
    BY <2>1 DEF Lines
  <2> QED
    BY <2>2 DEF Values
<1>3. SumFunctionOnSet(Values(items), 1..Len(items)) \in Int
  BY <1>1, <1>2, Prefix, SumType
<1> QED
  BY <1>1, <1>2, <1>3 DEF SumFunction

LEMMA AppendValue ==
  ASSUME NEW items \in Seq(Lines), NEW line \in Lines
  PROVE  SumFunction(Values(Append(items, line)))
           = SumFunction(Values(items)) + line.price * line.quantity
<1> DEFINE n == Len(items)
           new == Append(items, line)
<1>1. /\ n \in Nat /\ new \in Seq(Lines) /\ Len(new) = n + 1
      /\ \A k \in 1..n : new[k] = items[k]
      /\ new[n + 1] = line
  OBVIOUS
<1> HIDE DEF n, new
<1>2. SumFunction(Values(new)) = SumFunctionOnSet(Values(new), 1..n) + Values(new)[n + 1]
  BY <1>1, ValueFacts, SumNext
<1>3. Values(new)[n + 1] = line.price * line.quantity
  BY <1>1 DEF Values
<1>4. SumFunctionOnSet(Values(new), 1..n) = SumFunctionOnSet(Values(items), 1..n)
  <2>1. \A k \in 1..n : Values(new)[k] = Values(items)[k]
    <3> SUFFICES ASSUME NEW k \in 1..n PROVE Values(new)[k] = Values(items)[k]
      OBVIOUS
    <3>1. k \in DOMAIN new /\ k \in DOMAIN items /\ new[k] = items[k]
      BY <1>1 DEF n
    <3> QED
      BY <3>1 DEF Values
  <2> QED
    BY <1>1, <2>1, Prefix, SumSame
<1> QED
  BY <1>2, <1>3, <1>4, ValueFacts DEF n, new

(* 52-57: a product met again keeps the price it had.                      *)
LEMMA ReadProductPriced ==
  ASSUME TypeInv, Priced, NEW r \in Requests, ReadProduct(r)
  PROVE  PricedOf(r)'
<1> DEFINE item == op[r].basket[at[r]]
           line == [product |-> item.product, quantity |-> item.quantity,
                    price |-> PriceSeen(r, item.product)]
<1>1. /\ pc[r] = "price" /\ pc'[r] \in {"price", "insert"} /\ op[r].kind = "sale"
      /\ op' = op /\ lines'[r] = Append(lines[r], line)
      /\ total'[r] = total[r] + PriceSeen(r, item.product) * item.quantity
  BY DEF ReadProduct, Goto, TypeInv, TypeOK, Control, ControlOf
<1>2. lines[r] \in Seq(Lines) /\ OnePrice(lines[r])
      /\ total[r] = SumFunction(Values(lines[r]))
  <2>1. SumFunction(Values(lines[r])) \in Int /\ lines[r] \in Seq(Lines)
    BY ValueFacts DEF TypeInv, TypeOK
  <2> QED
    BY <1>1, <2>1 DEF Priced, PricedOf, Ended
<1>3. line \in Lines
  <2>1. item.product \in Products /\ item.quantity \in Int
    <3>1. op[r].basket \in Seq(Items) /\ at[r] \in 1..Len(op[r].basket)
      BY <1>1, OpFields, DataAssumption DEF TypeInv, Control, ControlOf, Items
    <3>2. item \in Items
      BY <3>1
    <3> QED
      BY <3>2 DEF Items
  <2>2. PriceSeen(r, item.product) \in Int
    <3> DEFINE before == {k \in DOMAIN lines[r] : lines[r][k].product = item.product}
               seen == CHOOSE k \in before : TRUE
    <3>1. CASE before = {}
      <4>1. product[item.product] \in ProductRows
        BY <2>1 DEF TypeInv, TypeOK
      <4> QED
        BY <3>1, <4>1, DataAssumption DEF PriceSeen, ProductRows
    <3>2. CASE before # {}
      <4>1. seen \in DOMAIN lines[r]
        BY <3>2
      <4>2. lines[r][seen] \in Lines
        BY <4>1 DEF TypeInv, TypeOK
      <4>3. PriceSeen(r, item.product) = lines[r][seen].price
        BY <3>2 DEF PriceSeen
      <4> QED
        BY <4>2, <4>3 DEF Lines
    <3> QED
      BY <3>1, <3>2
  <2> QED
    BY <2>1, <2>2 DEF Lines
<1>4. OnePrice(Append(lines[r], line))
  <2> DEFINE n == Len(lines[r])
             new == Append(lines[r], line)
  <2>1. /\ n \in Nat /\ DOMAIN lines[r] = 1..n /\ DOMAIN new = 1..(n + 1)
        /\ \A k \in 1..n : new[k] = lines[r][k]
        /\ new[n + 1] = line
    BY <1>2, <1>3
  <2>2. ASSUME NEW k \in 1..n, lines[r][k].product = line.product
        PROVE  lines[r][k].price = line.price
    <3> DEFINE before == {j \in DOMAIN lines[r] : lines[r][j].product = item.product}
               seen == CHOOSE j \in before : TRUE
    <3>1. k \in before /\ line.product = item.product
      BY <2>1, <2>2
    <3>2. seen \in before
      BY <3>1
    <3>3. line.price = lines[r][seen].price
      BY <3>1 DEF PriceSeen
    <3> HIDE DEF seen
    <3> QED
      BY <1>2, <3>1, <3>2, <3>3 DEF OnePrice
  <2> SUFFICES ASSUME NEW j \in 1..(n + 1), NEW k \in 1..(n + 1),
                      new[j].product = new[k].product
               PROVE  new[j].price = new[k].price
    BY <2>1 DEF OnePrice
  <2> HIDE DEF n, new, line
  <2>3. CASE j \in 1..n /\ k \in 1..n
    BY <1>2, <2>1, <2>3 DEF OnePrice
  <2>4. CASE j = n + 1 /\ k \in 1..n
    BY <2>1, <2>2, <2>4
  <2>5. CASE j \in 1..n /\ k = n + 1
    BY <2>1, <2>2, <2>5
  <2>6. CASE j = n + 1 /\ k = n + 1
    BY <2>6
  <2> QED
    BY <2>1, <2>3, <2>4, <2>5, <2>6
<1>5. total'[r] = SumFunction(Values(lines'[r]))
  <2>1. SumFunction(Values(Append(lines[r], line)))
          = SumFunction(Values(lines[r])) + line.price * line.quantity
    BY <1>2, <1>3, AppendValue
  <2> QED
    BY <1>1, <1>2, <2>1
<1>6. SumFunction(Values(lines'[r])) \in Int
  <2>1. Append(lines[r], line) \in Seq(Lines)
    BY <1>2, <1>3
  <2> HIDE DEF line
  <2> QED
    BY <1>1, <2>1, ValueFacts
<1> HIDE DEF line
<1> QED
  BY <1>1, <1>4, <1>5, <1>6 DEF PricedOf

(* A sale begins with no lines, pays less by the discount once its row was *)
(* inserted, and changes neither lines nor total afterwards.               *)
LEMMA OwnPriced ==
  ASSUME TypeInv, Priced, NEW r \in Requests, Arrival(r) \/ Step(r)
  PROVE  PricedOf(r)'
<1>1. PricedOf(r) /\ ControlOf(r)
  BY DEF Priced, TypeInv, Control
<1>2. CASE Arrival(r)
  <2>1. CASE \E basket \in Baskets, c \in Customers \cup {NoCustomer}, d \in Discounts :
               StartSale(r, basket, c, d)
    <3>1. pc'[r] = "price" /\ lines'[r] = <<>> /\ total'[r] = 0
      BY <1>1, <2>1 DEF StartSale, Arrives, Goto, PricedOf, ControlOf, TypeInv, TypeOK
    <3>2. DOMAIN Values(<<>>) = {} /\ OnePrice(<<>>)
      BY DEF Values, OnePrice
    <3> QED
      BY <3>1, <3>2, SumEmpty DEF PricedOf, SumFunction
  <2>2. ASSUME op'[r].kind # "sale", pc'[r] # "new" PROVE PricedOf(r)'
    BY <2>2 DEF PricedOf
  <2>3. ASSUME NEW p, NEW n, StartAdjust(r, p, n) PROVE PricedOf(r)'
    <3>1. op'[r].kind = "adjust" /\ pc'[r] \in {"refused", "write"}
      BY <2>3 DEF StartAdjust, Goto, TypeInv, TypeOK
    <3> QED
      BY <2>2, <3>1
  <2>4. ASSUME NEW s, StartVoid(r, s) PROVE PricedOf(r)'
    <3>1. op'[r].kind = "void" /\ pc'[r] \in {"refused", "status"}
      BY <2>4 DEF StartVoid, Goto, TypeInv, TypeOK
    <3> QED
      BY <2>2, <3>1
  <2>5. ASSUME NEW p, NEW row, EditProduct(r, p, row) PROVE PricedOf(r)'
    <3>1. op'[r].kind = "edit" /\ pc'[r] = "reply"
      BY <2>5 DEF EditProduct, Goto, TypeInv, TypeOK
    <3> QED
      BY <2>2, <3>1
  <2> QED
    BY <1>2, <2>1, <2>3, <2>4, <2>5 DEF Arrival
<1>3. CASE Step(r)
  <2>1. CASE ReadProduct(r)
    BY <2>1, ReadProductPriced
  <2>2. CASE InsertSale(r)
    <3>1. /\ pc[r] = "insert" /\ pc'[r] = "read" /\ UNCHANGED <<op, lines>>
          /\ total'[r] = total[r] - op[r].discount /\ op[r].kind = "sale"
      BY <1>1, <2>2 DEF InsertSale, Goto, ControlOf, TypeInv, TypeOK
    <3>2. total[r] = SumFunction(Values(lines[r])) - 0 /\ OnePrice(lines[r])
      BY <1>1, <3>1 DEF PricedOf, Ended
    <3>3. op[r].discount \in Int /\ SumFunction(Values(lines[r])) \in Int
      BY <3>1, OpFields, ValueFacts, DataAssumption DEF TypeInv, TypeOK
    <3>4. total'[r] = SumFunction(Values(lines[r])) - op[r].discount
      BY <3>1, <3>2, <3>3
    <3> QED
      BY <3>1, <3>2, <3>4 DEF PricedOf, Ended
  <2>3. CASE WriteStatus(r)
    <3>1. op'[r].kind # "sale" /\ pc'[r] = "read"
      BY <1>1, <2>3 DEF WriteStatus, Goto, ControlOf, TypeInv, TypeOK
    <3> QED
      BY <3>1 DEF PricedOf
  <2>4. CASE \/ ReadBatch(r) \/ WriteBatch(r) \/ FinishSale(r) \/ Publish(r)
             \/ HandlerTimeout(r) \/ Reply(r)
    <3>1. /\ pc[r] \notin Ended \cup {"new", "price", "insert"}
          /\ pc'[r] \notin {"new", "price", "insert"}
          /\ UNCHANGED <<op, lines, total>>
      BY <2>4 DEF ReadBatch, WriteBatch, FinishSale, Publish, HandlerTimeout, Reply, Goto,
         Ended, TypeInv, TypeOK
    <3> QED
      BY <1>1, <3>1 DEF PricedOf
  <2>5. ASSUME pc'[r] \in Ended PROVE PricedOf(r)'
    BY <2>5 DEF PricedOf, Ended
  <2>6. ASSUME NEW outcome \in {"refused", "failed"}, Abort(r, outcome) PROVE pc'[r] \in Ended
    BY <2>6 DEF Abort, Goto, Ended, TypeInv, TypeOK
  <2>7. Commit(r) => pc'[r] \in Ended
    BY DEF Commit, Goto, Ended, TypeInv, TypeOK
  <2> QED
    BY <1>3, <2>1, <2>2, <2>3, <2>4, <2>5, <2>6, <2>7 DEF Step, ProductGone,
       InsertSaleViolatesForeignKey, LastVisitIsRejected, BusyTimeout, DeadlockVictim
<1> QED
  BY <1>2, <1>3

LEMMA PricedStep == TypeInv /\ Priced /\ [Next]_vars => Priced'
<1> SUFFICES ASSUME TypeInv, Priced, [Next]_vars PROVE Priced'
  OBVIOUS
<1>1. ASSUME NEW r \in Requests, Arrival(r) \/ Step(r), NEW q \in Requests \ {r}
      PROVE  PricedOf(q)'
  BY <1>1, StepUntouched DEF Untouched, Priced, PricedOf
<1>2. ASSUME NEW r \in Requests, Arrival(r) \/ Step(r) PROVE Priced'
  BY <1>1, <1>2, OwnPriced DEF Priced
<1>3. CASE Crash
  <2>1. \A q \in Requests : pc'[q] \in Ended \/ (pc'[q] = "new" /\ pc[q] = "new")
    BY <1>3 DEF Crash, InFlight, Ended, TypeInv, TypeOK
  <2>2. \A q \in Requests : pc[q] = "new" => op[q].kind = "none"
    BY DEF TypeInv, Control, ControlOf, None
  <2> QED
    BY <1>3, <2>1, <2>2 DEF Crash, Priced, PricedOf, Ended
<1>4. CASE UNCHANGED vars
  BY <1>4 DEF vars, Priced, PricedOf
<1> QED
  BY <1>2, <1>3, <1>4 DEF Next, Idle

LEMMA InitPriced == Init => Priced
BY DEF Init, Priced, PricedOf, None
----------------------------------------------------------------------------
(* A stored sale is that of a request that is done; a request that holds a *)
(* customer's row is a sale about to be stored in that name, which read    *)
(* the totals the row still has; and every such sale holds the row.        *)
BoughtOf(r) ==
  /\ sales[r] # NoSale => op[r].kind = "sale" /\ pc[r] = "done"
  /\ \A c \in Customers : CustomerRow(c) \in held[r] =>
       /\ op[r].kind = "sale" /\ op[r].customer = c /\ pc[r] \in {"reply", "commit"}
       /\ account[r] = [visits |-> customer[c].visits + 1,
                        spent |-> customer[c].spent + total[r]]
  /\ (pc[r] \in {"reply", "commit"} /\ op[r].kind = "sale" /\ op[r].customer \in Customers)
       => CustomerRow(op[r].customer) \in held[r]

Bought == \A r \in Requests : BoughtOf(r)

LEMMA CustomerRowInjective ==
  \A c \in Customers :
    /\ \A d \in Customers : CustomerRow(c) = CustomerRow(d) => c = d
    /\ \A q : /\ CustomerRow(c) # SaleRow(q) /\ CustomerRow(c) # BatchRow(q)
              /\ CustomerRow(c) # ProductRow(q)
BY DEF BatchRow, SaleRow, CustomerRow, ProductRow

(* Only a commit changes the tables of sales and customers.                *)
LEMMA OwnBought ==
  ASSUME TypeInv, Bought, NEW r \in Requests, Arrival(r) \/ Step(r)
  PROVE  BoughtOf(r)'
<1>1. BoughtOf(r) /\ ControlOf(r)
  BY DEF Bought, TypeInv, Control
<1>2. CASE Arrival(r)
  <2>1. /\ pc[r] = "new" /\ held[r] = {} /\ sales' = sales
        /\ pc'[r] \in {"reply", "commit"} => op'[r].kind = "edit"
        /\ \A c \in Customers : CustomerRow(c) \notin held'[r]
    BY <1>1, <1>2, CustomerRowInjective DEF Arrival, StartAdjust, StartSale, StartVoid,
       EditProduct, Arrives, Lock, Goto, tables, ControlOf, TypeInv, TypeOK
  <2> QED
    BY <1>1, <2>1 DEF BoughtOf
<1>3. CASE Step(r)
  <2>1. CASE \/ ReadProduct(r) \/ InsertSale(r) \/ WriteStatus(r) \/ ReadBatch(r)
             \/ WriteBatch(r) \/ Publish(r) \/ HandlerTimeout(r)
    <3>1. /\ sales' = sales /\ op' = op
          /\ pc[r] \notin Ended \cup {"new", "reply", "commit"}
          /\ pc'[r] \in {"reply", "commit"} => op[r].kind # "sale"
      BY <1>1, <2>1 DEF ReadProduct, InsertSale, WriteStatus, ReadBatch,
         WriteBatch, Publish, HandlerTimeout, Goto, tables, ControlOf, Ended, TypeInv, TypeOK
    <3>2. \/ held' = held
          \/ \E s : held' = [held EXCEPT ![r] = @ \cup {SaleRow(s)}]
          \/ \E p : held' = [held EXCEPT ![r] = @ \cup {BatchRow(p)}]
      BY <2>1 DEF ReadProduct, InsertSale, WriteStatus, ReadBatch, WriteBatch, Publish,
         HandlerTimeout, Lock
    <3>3. \A c \in Customers : CustomerRow(c) \in held'[r] => CustomerRow(c) \in held[r]
      BY <3>2, CustomerRowInjective DEF TypeInv, TypeOK
    <3> QED
      BY <1>1, <3>1, <3>3 DEF BoughtOf, Ended
  <2>2. CASE FinishSale(r)
    <3>1. /\ UNCHANGED <<sales, customer, op, total>> /\ pc[r] = "finish" /\ pc'[r] = "reply"
          /\ op[r].kind = "sale"
      BY <1>1, <2>2 DEF FinishSale, Goto, tables, ControlOf, TypeInv, TypeOK
    <3>2. \A c \in Customers : CustomerRow(c) \notin held[r]
      BY <1>1, <3>1 DEF BoughtOf
    <3>3. IF op[r].customer = NoCustomer
            THEN held' = held
            ELSE /\ held'[r] = held[r] \cup {CustomerRow(op[r].customer)}
                 /\ account'[r] = [visits |-> customer[op[r].customer].visits + 1,
                                   spent |-> customer[op[r].customer].spent + total[r]]
      BY <2>2 DEF FinishSale, Lock, TypeInv, TypeOK
    <3>4. op[r].customer \in Customers \cup {NoCustomer} /\ NoCustomer \notin Customers
      BY <3>1, OpFields, DataAssumption DEF TypeInv
    <3> QED
      BY <1>1, <3>1, <3>2, <3>3, <3>4, CustomerRowInjective DEF BoughtOf
  <2>3. CASE Reply(r)
    BY <1>1, <2>3 DEF Reply, Goto, tables, BoughtOf, TypeInv, TypeOK
  <2>4. CASE Commit(r)
    <3>1. pc'[r] = "done" /\ held'[r] = {} /\ op' = op
      BY <2>4 DEF Commit, Goto, TypeInv, TypeOK
    <3>2. op[r].kind # "sale" => sales[r] = NoSale
      BY <1>1 DEF BoughtOf
    <3>3. ASSUME op[r].kind = "void" PROVE op[r].sale \in Requests /\ sales[op[r].sale] # NoSale
      BY <1>1, <3>3, OpFields DEF ControlOf, TypeInv
    <3>4. op[r].kind # "sale" => sales'[r] = sales[r]
      BY <2>4, <3>2, <3>3 DEF Commit, CommitTables, TypeInv, TypeOK
    <3> QED
      BY <3>1, <3>2, <3>4 DEF BoughtOf
  <2>5. ASSUME NEW outcome \in {"refused", "failed"}, pc[r] # "done", Abort(r, outcome)
        PROVE  BoughtOf(r)'
    <3>1. held'[r] = {} /\ pc'[r] = outcome /\ UNCHANGED <<sales, op>>
      BY <2>5 DEF Abort, Goto, tables, TypeInv, TypeOK
    <3> QED
      BY <1>1, <2>5, <3>1 DEF BoughtOf
  <2>6. (BusyTimeout(r) \/ DeadlockVictim(r)) => pc[r] # "done"
    BY DEF BusyTimeout, DeadlockVictim, Deadlocked, Waiting
  <2> QED
    BY <1>3, <2>1, <2>2, <2>3, <2>4, <2>5, <2>6 DEF Step, ProductGone,
       InsertSaleViolatesForeignKey, LastVisitIsRejected, BusyTimeout, DeadlockVictim
<1> QED
  BY <1>2, <1>3

(* Only a commit changes stock, sales or customers; it stores the sale of  *)
(* r, or marks one that is stored, and no customer's row another holds.    *)
LEMMA TablesChange ==
  ASSUME TypeInv, Exclusion, NEW r \in Requests, Arrival(r) \/ Step(r)
  PROVE  /\ ~Commit(r) => UNCHANGED <<stock, sales, customer>>
         /\ \A q \in Requests \ {r} : sales'[q] # NoSale => sales[q] # NoSale
         /\ \A q \in Requests \ {r}, c \in Customers :
              CustomerRow(c) \in held[q] => customer'[c] = customer[c]
<1>1. CASE ~Commit(r)
  <2>1. UNCHANGED <<stock, sales, customer>>
    BY <1>1 DEF Arrival, StartAdjust, StartSale, StartVoid, EditProduct, Step, ReadProduct,
       ProductGone, InsertSale, InsertSaleViolatesForeignKey, WriteStatus, ReadBatch, WriteBatch,
       FinishSale, LastVisitIsRejected, Publish, HandlerTimeout, Reply, BusyTimeout,
       DeadlockVictim, Abort, tables
  <2> QED
    BY <1>1, <2>1
<1>2. CASE Commit(r)
  <2>1. ASSUME NEW q \in Requests \ {r}, sales[q] = NoSale PROVE sales'[q] = NoSale
    <3>1. op[r].kind = "void" => op[r].sale \in Requests /\ op[r].sale # q
      BY <2>1, OpFields DEF TypeInv, Control, ControlOf
    <3> QED
      BY <1>2, <2>1, <3>1 DEF Commit, CommitTables, TypeInv, TypeOK
  <2>2. ASSUME NEW q \in Requests \ {r}, NEW c \in Customers, CustomerRow(c) \in held[q]
        PROVE  customer'[c] = customer[c]
    <3>1. CustomerRow(c) \notin held[r]
      BY <2>2 DEF Exclusion
    <3> QED
      BY <1>2, <3>1 DEF Commit, CommitTables
  <2> QED
    BY <1>2, <2>1, <2>2
<1> QED
  BY <1>1, <1>2

LEMMA BoughtStep == TypeInv /\ Ledger /\ Bought /\ [Next]_vars => Bought'
<1> SUFFICES ASSUME TypeInv, Exclusion, Bought, [Next]_vars PROVE Bought'
  BY DEF Ledger
<1>1. ASSUME NEW r \in Requests, Arrival(r) \/ Step(r), NEW q \in Requests \ {r}
      PROVE  BoughtOf(q)'
  <2>1. BoughtOf(q)
    BY DEF Bought
  <2>2. /\ pc'[q] = pc[q] /\ op'[q] = op[q] /\ held'[q] = held[q]
        /\ total'[q] = total[q] /\ account'[q] = account[q]
    BY <1>1, StepUntouched DEF Untouched
  <2>3. /\ sales'[q] # NoSale => sales[q] # NoSale
        /\ \A c \in Customers : CustomerRow(c) \in held[q] => customer'[c] = customer[c]
    BY <1>1, TablesChange
  <2> QED
    BY <2>1, <2>2, <2>3 DEF BoughtOf
<1>2. ASSUME NEW r \in Requests, Arrival(r) \/ Step(r) PROVE Bought'
  BY <1>1, <1>2, OwnBought DEF Bought
<1>3. CASE Crash
  <2>1. \A q \in Requests : held'[q] = {} /\ (pc[q] = "done" => pc'[q] = "done")
                            /\ pc'[q] \notin {"reply", "commit"}
    BY <1>3 DEF Crash, InFlight, Ended, TypeInv, TypeOK
  <2> QED
    BY <1>3, <2>1 DEF Crash, tables, Bought, BoughtOf
<1>4. CASE UNCHANGED vars
  BY <1>4 DEF vars, Bought, BoughtOf
<1> QED
  BY <1>2, <1>3, <1>4 DEF Next, Idle

LEMMA InitBought == Init => Bought
BY DEF Init, Bought, BoughtOf
----------------------------------------------------------------------------
(* What is stored: the book of sales, with finitely many sales of each     *)
(* customer so that they can be added up.                                  *)
Stored == SalesBook /\ \A c \in Customers : IsFiniteSet(SalesOf(c))

(* A stored sale has the fields of one.                                    *)
LEMMA SaleFields ==
  ASSUME TypeInv, NEW s \in Requests
  PROVE  /\ sales[s].lines \in Seq(Lines) /\ sales[s].total \in Int
         /\ sales[s].discount \in Int \cup {0}
         /\ sales[s] # NoSale <=> sales[s].status # "none"
<1>1. sales[s] \in Sales
  BY DEF TypeInv, TypeOK
<1>2. CASE sales[s] = NoSale
  BY <1>2 DEF NoSale
<1>3. CASE sales[s] # NoSale
  BY <1>1, <1>3, DataAssumption DEF Sales
<1> QED
  BY <1>2, <1>3

(* The commit of a sale: it is added to those of its customer.             *)
LEMMA SaleStored ==
  ASSUME TypeInv, Priced, Bought, Stored, NEW r \in Requests, Commit(r), op[r].kind = "sale"
  PROVE  Stored'
<1>1. /\ pc[r] = "commit" /\ sales' = [sales EXCEPT ![r] = SaleMade(r)]
      /\ customer' = [c \in Customers |-> IF CustomerRow(c) \in held[r] THEN account[r]
                                                                        ELSE customer[c]]
  BY DEF Commit, CommitTables
<1>2. sales[r] = NoSale
  BY <1>1 DEF Bought, BoughtOf
<1>3. /\ op[r].customer \in Customers \cup {NoCustomer} /\ NoCustomer \notin Customers
      /\ op[r].discount \in Int
  BY OpFields, DataAssumption DEF TypeInv
<1>4. /\ OnePrice(lines[r])
      /\ total[r] = SumFunction(Values(lines[r])) - op[r].discount /\ total[r] \in Int
  BY <1>1 DEF Priced, PricedOf, Ended, TypeInv, TypeOK
<1>5. sales'[r] = SaleMade(r) /\ \A s \in Requests \ {r} : sales'[s] = sales[s]
  BY <1>1 DEF TypeInv, TypeOK
<1>6. SalesCoherent'
  <2> SUFFICES ASSUME NEW s \in Requests
               PROVE  /\ sales'[s].total = SumFunction(Values(sales'[s].lines))
                                             - sales'[s].discount
                      /\ OnePrice(sales'[s].lines)
    BY DEF SalesCoherent, SumFunction, Values, OnePrice
  <2>1. CASE s = r
    BY <1>4, <1>5, <2>1 DEF SaleMade
  <2>2. CASE s # r
    BY <1>5, <2>2 DEF Stored, SalesBook, SalesCoherent
  <2> QED
    BY <2>1, <2>2
<1>7. ASSUME NEW c \in Customers
      PROVE  /\ IsFiniteSet(SalesOf(c)')
             /\ customer'[c].visits = Cardinality(SalesOf(c)')
             /\ customer'[c].spent = SumFunctionOnSet([s \in Requests |-> sales'[s].total],
                                                      SalesOf(c)')
  <2> DEFINE T == SalesOf(c)
             f == [s \in Requests |-> sales[s].total]
             g == [s \in Requests |-> sales'[s].total]
  <2>1. /\ IsFiniteSet(T) /\ r \notin T /\ T \subseteq Requests
        /\ customer[c].visits = Cardinality(T) /\ customer[c].spent = SumFunctionOnSet(f, T)
    <3>1. r \notin T /\ T \subseteq Requests
      BY <1>2 DEF SalesOf, NoSale
    <3>2. IsFiniteSet(SalesOf(c)) /\ CustomerTotals
      BY DEF Stored, SalesBook
    <3> QED
      BY <3>1, <3>2 DEF CustomerTotals
  <2>2. SumFunctionOnSet(g, T) = SumFunctionOnSet(f, T)
    <3>1. \A s \in T : g[s] = f[s]
      BY <1>5, <2>1
    <3>2. IsFiniteSet(T)
      BY <2>1
    <3> HIDE DEF T, f, g
    <3> QED
      BY <3>1, <3>2, SumSame
  <2>3. CASE op[r].customer = c
    <3>1. SalesOf(c)' = T \cup {r}
      BY <1>5, <2>1, <2>3 DEF SalesOf, SaleMade
    <3>2. IsFiniteSet(T \cup {r}) /\ Cardinality(T \cup {r}) = Cardinality(T) + 1
      BY <2>1, FS_AddElement
    <3>3. \A s \in T \cup {r} : g[s] \in Int
      BY <1>4, <1>5, <2>1, SaleFields DEF SaleMade
    <3>4. SumFunctionOnSet(g, T \cup {r}) = SumFunctionOnSet(f, T) + total[r]
      <4>1. SumFunctionOnSet(g, T \cup {r}) = SumFunctionOnSet(g, T) + g[r]
        <5>1. IsFiniteSet(T) /\ r \notin T
          BY <2>1
        <5> HIDE DEF T, g
        <5> QED
          BY <3>3, <5>1, SumAdd
      <4>2. g[r] = total[r]
        BY <1>5 DEF SaleMade
      <4> QED
        BY <2>2, <4>1, <4>2
    <3>5. customer'[c] = [visits |-> customer[c].visits + 1,
                          spent |-> customer[c].spent + total[r]]
      BY <1>1, <2>3 DEF Bought, BoughtOf
    <3> QED
      BY <2>1, <3>1, <3>2, <3>4, <3>5
  <2>4. CASE op[r].customer # c
    <3>1. SalesOf(c)' = T
      BY <1>5, <2>1, <2>4 DEF SalesOf, SaleMade
    <3>2. customer'[c] = customer[c]
      BY <1>1, <2>4 DEF Bought, BoughtOf
    <3> QED
      BY <2>1, <2>2, <3>1, <3>2
  <2> QED
    BY <2>3, <2>4
<1> QED
  BY <1>6, <1>7 DEF Stored, SalesBook, CustomerTotals

(* Every other step keeps the lines, totals and customers of the sales.    *)
LEMMA SalesKept ==
  ASSUME TypeInv, Stored, UNCHANGED customer,
         \A s \in Requests :
           /\ sales'[s].lines = sales[s].lines /\ sales'[s].total = sales[s].total
           /\ sales'[s].discount = sales[s].discount /\ sales'[s].customer = sales[s].customer
           /\ sales'[s].status # "none" <=> sales[s].status # "none"
  PROVE  Stored'
<1>1. \A c \in Customers : SalesOf(c)' = SalesOf(c)
  BY DEF SalesOf
<1>2. [s \in Requests |-> sales'[s].total] = [s \in Requests |-> sales[s].total]
  OBVIOUS
<1>3. CustomerTotals'
  BY <1>1, <1>2 DEF Stored, SalesBook, CustomerTotals
<1>4. SalesCoherent'
  <2> SUFFICES ASSUME NEW s \in Requests
               PROVE  /\ sales'[s].total = SumFunction(Values(sales'[s].lines))
                                             - sales'[s].discount
                      /\ OnePrice(sales'[s].lines)
    BY DEF SalesCoherent, SumFunction, Values, OnePrice
  <2> QED
    BY DEF Stored, SalesBook, SalesCoherent
<1> QED
  BY <1>1, <1>3, <1>4 DEF Stored, SalesBook

LEMMA StoredStep == TypeInv /\ Ledger /\ Priced /\ Bought /\ Stored /\ [Next]_vars => Stored'
<1> SUFFICES ASSUME TypeInv, Ledger, Priced, Bought, Stored, [Next]_vars PROVE Stored'
  OBVIOUS
<1>1. ASSUME UNCHANGED <<sales, customer>> PROVE Stored'
  BY <1>1, SalesKept
<1>2. ASSUME NEW r \in Requests, Commit(r), op[r].kind # "sale" PROVE Stored'
  <2>1. \A c \in Customers : CustomerRow(c) \notin held[r]
    BY <1>2 DEF Bought, BoughtOf
  <2>2. customer' = customer
    BY <1>2, <2>1 DEF Commit, CommitTables, TypeInv, TypeOK
  <2>3. CASE op[r].kind = "void"
    <3>1. op[r].sale \in Requests /\ sales[op[r].sale] # NoSale
      BY <2>3, OpFields DEF TypeInv, Control, ControlOf
    <3>2. sales' = [sales EXCEPT ![op[r].sale].status = "voided"]
      BY <1>2, <2>3 DEF Commit, CommitTables
    <3>3. sales[op[r].sale].status # "none"
      BY <3>1, SaleFields
    <3>4. \A s \in Requests : sales'[s] = IF s = op[r].sale THEN [sales[s] EXCEPT !.status = "voided"]
                                                           ELSE sales[s]
      BY <3>1, <3>2 DEF TypeInv, TypeOK
    <3>5. ASSUME NEW s \in Requests
          PROVE  /\ sales'[s].lines = sales[s].lines /\ sales'[s].total = sales[s].total
                 /\ sales'[s].discount = sales[s].discount
                 /\ sales'[s].customer = sales[s].customer
                 /\ sales'[s].status # "none" <=> sales[s].status # "none"
      <4>1. CASE s # op[r].sale
        BY <3>4, <4>1
      <4>2. CASE s = op[r].sale
        <5>1. sales[s] \in [status : {"completed", "voided"}, lines : Seq(Lines) \ {<<>>},
                            total : Int, discount : Discounts,
                            customer : Customers \cup {NoCustomer}]
          BY <3>1, <4>2 DEF TypeInv, TypeOK, Sales
        <5> QED
          BY <3>3, <3>4, <4>2, <5>1
      <4> QED
        BY <4>1, <4>2
    <3> QED
      BY <2>2, <3>5, SalesKept
  <2>4. CASE op[r].kind # "void"
    BY <1>1, <1>2, <2>2, <2>4 DEF Commit, CommitTables
  <2> QED
    BY <2>3, <2>4
<1>3. ASSUME NEW r \in Requests, Arrival(r) \/ Step(r) PROVE Stored'
  BY <1>1, <1>2, <1>3, SaleStored, TablesChange DEF Ledger
<1>4. CASE Crash \/ UNCHANGED vars
  BY <1>1, <1>4 DEF Crash, tables, vars
<1> QED
  BY <1>3, <1>4 DEF Next, Idle

LEMMA InitStored == Init => Stored
<1> SUFFICES ASSUME Init PROVE Stored
  OBVIOUS
<1>1. sales = [s \in Requests |-> NoSale] /\ customer = [c \in Customers |-> NoAccount]
  BY DEF Init
<1>2. SalesCoherent
  <2>1. DOMAIN Values(<<>>) = {} /\ OnePrice(<<>>)
    BY DEF Values, OnePrice
  <2>2. SumFunction(Values(<<>>)) = 0
    BY <2>1, SumEmpty DEF SumFunction
  <2> QED
    BY <1>1, <2>1, <2>2 DEF SalesCoherent, NoSale
<1>3. ASSUME NEW c \in Customers PROVE SalesOf(c) = {} /\ customer[c] = NoAccount
  BY <1>1 DEF SalesOf, NoSale
<1>4. IsFiniteSet({}) /\ Cardinality({}) = 0
  BY FS_EmptySet
<1>5. SumFunctionOnSet([s \in Requests |-> sales[s].total], {}) = 0
  BY SumEmpty
<1>6. CustomerTotals
  BY <1>3, <1>4, <1>5 DEF CustomerTotals, NoAccount
<1> QED
  BY <1>2, <1>3, <1>4, <1>6 DEF Stored, SalesBook

(* Stored sales are coherent, one price per product and a total that adds  *)
(* up, and a customer's visits and spending are those of the sales stored  *)
(* in their name, for any number of requests, lines and customers.         *)
THEOREM SalesAddUp == Spec => []SalesBook
<1>1. Init => TypeInv /\ Ledger /\ Priced /\ Bought /\ Stored
  BY InitType, InitLedger, InitPriced, InitBought, InitStored
<1>2. TypeInv /\ Ledger /\ Priced /\ Bought /\ Stored /\ [Next]_vars
        => (TypeInv /\ Ledger /\ Priced /\ Bought /\ Stored)'
  BY TypeStep, LedgerStep, PricedStep, BoughtStep, StoredStep
<1> QED
  BY <1>1, <1>2, PTL DEF Spec, Stored
----------------------------------------------------------------------------
(* One request at a time: what it loaded is what is committed, its lines   *)
(* are those it was asked for, and the sale it voids still stands.         *)
OneAtATime == \A q, r \in InFlight : q = r

LinesOfBasket(r) ==
  /\ Len(lines[r]) = IF pc[r] = "price" THEN at[r] - 1 ELSE Len(op[r].basket)
  /\ \A k \in 1..Len(lines[r]) : /\ lines[r][k].product = op[r].basket[k].product
                                 /\ lines[r][k].quantity = op[r].basket[k].quantity

SerialOf(r) ==
  r \in InFlight =>
    /\ \A p \in known[r] : first[r][p] = stock[p]
    /\ op[r].kind = "adjust" => /\ lines[r][1].quantity \in AdjustQuantities
                                /\ lines[r][1].product \in known[r]
    /\ op[r].kind = "sale" => LinesOfBasket(r)
    /\ op[r].kind = "void" => /\ sales[op[r].sale].status = "completed"
                              /\ pc[r] # "status" => lines[r] \in Orders(sales[op[r].sale].lines)
    /\ op[r].kind \notin {"adjust", "sale", "void"} => known[r] = {}

Serial == OneAtATime /\ \A r \in Requests : SerialOf(r)

LEMMA InitSerial == Init => Serial
BY DEF Init, Serial, OneAtATime, SerialOf, InFlight

(* While one request is handled no other is.                               *)
LEMMA Alone ==
  ASSUME MaxInFlight = 1, TypeInv, OneAtATime, NEW r \in Requests, Arrival(r) \/ Step(r)
  PROVE  \A q \in Requests \ {r} : q \notin InFlight /\ q \notin InFlight'
<1>1. CASE Arrival(r)
  <2>1. Cardinality(InFlight) < 1
    BY <1>1 DEF Arrival, StartAdjust, StartSale, StartVoid, EditProduct, Arrives
  <2>2. ASSUME NEW x \in InFlight PROVE FALSE
    <3>1. InFlight = {x}
      BY DEF OneAtATime
    <3>2. Cardinality({x}) = 1
      BY FS_Singleton
    <3> QED
      BY <2>1, <3>1, <3>2
  <2> QED
    BY <2>2, StepUntouched DEF Untouched, InFlight
<1>2. CASE Step(r)
  <2>1. r \in InFlight
    BY <1>2 DEF Step, ReadProduct, ProductGone, InsertSale, InsertSaleViolatesForeignKey,
       WriteStatus, ReadBatch, WriteBatch, FinishSale, LastVisitIsRejected, Publish,
       HandlerTimeout, Reply, Commit, BusyTimeout, DeadlockVictim, Deadlocked, Waiting,
       InFlight, Ended
  <2> QED
    BY <2>1, StepUntouched DEF Untouched, InFlight, OneAtATime
<1> QED
  BY <1>1, <1>2

(* The lines of a sale follow the basket.                                  *)
LEMMA ReadProductSerial ==
  ASSUME TypeInv, NEW r \in Requests, SerialOf(r), ReadProduct(r)
  PROVE  SerialOf(r)'
<1> DEFINE item == op[r].basket[at[r]]
           line == [product |-> item.product, quantity |-> item.quantity,
                    price |-> PriceSeen(r, item.product)]
           n == Len(lines[r])
           new == Append(lines[r], line)
<1>1. /\ pc[r] = "price" /\ op[r].kind = "sale" /\ lines'[r] = new
      /\ UNCHANGED <<op, stock, sales, known, first>>
      /\ IF at[r] = Len(op[r].basket) THEN pc'[r] = "insert"
                                      ELSE pc'[r] = "price" /\ at'[r] = at[r] + 1
  BY DEF ReadProduct, Goto, tables, history, TypeInv, TypeOK, Control, ControlOf
<1>2. /\ n = at[r] - 1 /\ at[r] \in Nat /\ n \in Nat
      /\ \A k \in 1..n : /\ lines[r][k].product = op[r].basket[k].product
                         /\ lines[r][k].quantity = op[r].basket[k].quantity
      /\ \A p \in known[r] : first[r][p] = stock[p]
  BY <1>1 DEF SerialOf, LinesOfBasket, InFlight, Ended, TypeInv, TypeOK
<1>3. Len(new) = n + 1 /\ new[n + 1] = line /\ \A k \in 1..n : new[k] = lines[r][k]
  BY DEF TypeInv, TypeOK
<1>4. line.product = op[r].basket[n + 1].product /\ line.quantity = op[r].basket[n + 1].quantity
  BY <1>2
<1>5. \A k \in 1..(n + 1) : k \in 1..n \/ k = n + 1
  BY <1>2
<1> HIDE DEF new, line, n
<1>6. \A k \in 1..(n + 1) : /\ new[k].product = op[r].basket[k].product
                            /\ new[k].quantity = op[r].basket[k].quantity
  BY <1>2, <1>3, <1>4, <1>5
<1>7. Len(new) = IF pc'[r] = "price" THEN at'[r] - 1 ELSE Len(op[r].basket)
  BY <1>1, <1>2, <1>3
<1>8. LinesOfBasket(r)'
  BY <1>1, <1>3, <1>6, <1>7 DEF LinesOfBasket
<1> QED
  BY <1>1, <1>2, <1>8 DEF SerialOf

LEMMA OwnSerial ==
  ASSUME TypeInv, NEW r \in Requests, SerialOf(r), Arrival(r) \/ Step(r)
  PROVE  SerialOf(r)'
<1>1. ControlOf(r)
  BY DEF TypeInv, Control
<1>2. ASSUME NEW p \in Products, NEW n \in AdjustQuantities, StartAdjust(r, p, n)
      PROVE  SerialOf(r)'
  <2>1. /\ op'[r].kind = "adjust" /\ lines'[r][1].quantity = n /\ known'[r] = {p}
        /\ lines'[r][1].product = p
        /\ first'[r][p] = stock[p] /\ stock' = stock
    BY <1>1, <1>2 DEF StartAdjust, Arrives, Load, tables, ControlOf, TypeInv, TypeOK
  <2> QED
    BY <2>1 DEF SerialOf
<1>3. ASSUME NEW basket, NEW c, NEW d, StartSale(r, basket, c, d) PROVE SerialOf(r)'
  <2>1. /\ op'[r].kind = "sale" /\ lines'[r] = <<>> /\ known'[r] = {} /\ pc'[r] = "price"
        /\ at'[r] = 1
    BY <1>1, <1>3 DEF StartSale, Arrives, Goto, history, ControlOf, TypeInv, TypeOK
  <2> QED
    BY <2>1 DEF SerialOf, LinesOfBasket
<1>4. ASSUME NEW s \in Requests, StartVoid(r, s) PROVE SerialOf(r)'
  <2>1. /\ op'[r].kind = "void" /\ op'[r].sale = s /\ known'[r] = {} /\ sales' = sales
        /\ IF sales[s].status # "completed" THEN pc'[r] = "refused" ELSE pc'[r] = "status"
    BY <1>1, <1>4 DEF StartVoid, Arrives, Goto, tables, ControlOf, TypeInv, TypeOK
  <2> QED
    BY <2>1 DEF SerialOf, InFlight, Ended
<1>5. ASSUME NEW p, NEW row, EditProduct(r, p, row) PROVE SerialOf(r)'
  <2>1. op'[r].kind = "edit" /\ known'[r] = {}
    BY <1>1, <1>5 DEF EditProduct, Arrives, history, ControlOf, TypeInv, TypeOK
  <2> QED
    BY <2>1 DEF SerialOf
<1>6. CASE InsertSale(r)
  <2>1. /\ pc[r] = "insert" /\ pc'[r] = "read" /\ UNCHANGED <<stock, sales, op, lines, known, first>>
        /\ op[r].kind = "sale"
    BY <1>1, <1>6 DEF InsertSale, Goto, tables, history, ControlOf, TypeInv, TypeOK
  <2> QED
    BY <2>1 DEF SerialOf, LinesOfBasket, InFlight, Ended
<1>7. CASE WriteStatus(r)
  <2>1. /\ pc[r] = "status" /\ UNCHANGED <<stock, sales, op, known, first>>
        /\ op[r].kind = "void" /\ lines'[r] \in Orders(sales[op[r].sale].lines)
    BY <1>1, <1>7 DEF WriteStatus, tables, history, ControlOf, TypeInv, TypeOK
  <2> QED
    BY <2>1 DEF SerialOf, InFlight, Ended
<1>8. CASE ReadBatch(r)
  <2> DEFINE p == lines[r][at[r]].product
  <2>1. /\ pc[r] = "read" /\ pc'[r] = "write" /\ UNCHANGED <<stock, sales, op, lines>>
        /\ op[r].kind \in {"sale", "void"} /\ at[r] \in 1..Len(lines[r])
    BY <1>1, <1>8 DEF ReadBatch, Goto, tables, ControlOf, TypeInv, TypeOK
  <2>2. p \in Products
    BY <2>1, LineFacts DEF Lines
  <2>3. /\ known'[r] = known[r] \cup {p}
        /\ \A b \in Products :
             first'[r][b] = IF b = p /\ p \notin known[r] THEN stock[b] ELSE first[r][b]
    BY <1>8, <2>2 DEF ReadBatch, Load, TypeInv, TypeOK
  <2>4. \A b \in known[r] : b \in Products
    BY DEF TypeInv, TypeOK
  <2> HIDE DEF p
  <2>5. r \in InFlight
    BY <2>1 DEF InFlight, Ended
  <2>6. \A b \in known'[r] : first'[r][b] = stock'[b]
    BY <2>1, <2>2, <2>3, <2>4, <2>5 DEF SerialOf
  <2> QED
    BY <2>1, <2>5, <2>6 DEF SerialOf, LinesOfBasket
<1>9. CASE WriteBatch(r) \/ FinishSale(r) \/ Publish(r) \/ HandlerTimeout(r) \/ Reply(r)
  <2>1. /\ pc[r] \in {"write", "finish", "publish", "reply"} /\ pc'[r] \notin {"price", "status"}
        /\ UNCHANGED <<stock, sales, op, lines, known, first>>
    BY <1>9 DEF WriteBatch, FinishSale, Publish, HandlerTimeout, Reply, Goto, tables, history,
       TypeInv, TypeOK
  <2> QED
    BY <2>1 DEF SerialOf, LinesOfBasket, InFlight, Ended
<1>10. ASSUME NEW outcome \in {"refused", "failed"}, Abort(r, outcome) PROVE SerialOf(r)'
  BY <1>10 DEF Abort, Goto, SerialOf, InFlight, Ended, TypeInv, TypeOK
<1>11. CASE Commit(r)
  BY <1>11 DEF Commit, Goto, SerialOf, InFlight, Ended, TypeInv, TypeOK
<1> QED
  BY <1>2, <1>3, <1>4, <1>5, <1>6, <1>7, <1>8, <1>9, <1>10, <1>11, ReadProductSerial
     DEF Arrival, Step, ProductGone, InsertSaleViolatesForeignKey, LastVisitIsRejected,
         BusyTimeout, DeadlockVictim

LEMMA SerialStep == ASSUME MaxInFlight = 1, TypeInv, Serial, [Next]_vars PROVE Serial'
<1>1. ASSUME NEW r \in Requests, Arrival(r) \/ Step(r) PROVE Serial'
  <2>1. \A q \in Requests \ {r} : q \notin InFlight'
    BY <1>1, Alone DEF Serial
  <2>2. SerialOf(r)'
    BY <1>1, OwnSerial DEF Serial
  <2> QED
    BY <2>1, <2>2 DEF Serial, OneAtATime, SerialOf, InFlight
<1>2. CASE Crash
  <2>1. InFlight' = {}
    BY <1>2 DEF Crash, InFlight, Ended, TypeInv, TypeOK
  <2> QED
    BY <2>1 DEF Serial, OneAtATime, SerialOf
<1>3. CASE UNCHANGED vars
  BY <1>3 DEF vars, Serial, OneAtATime, SerialOf, LinesOfBasket, InFlight
<1> QED
  BY <1>1, <1>2, <1>3 DEF Next, Idle
----------------------------------------------------------------------------
(* The sales as StockBook keeps them.                                      *)
BasketOf(items) ==
  [k \in DOMAIN items |-> [product |-> items[k].product, quantity |-> items[k].quantity]]
Sold == [s \in Requests |-> [status |-> sales[s].status, basket |-> BasketOf(sales[s].lines)]]

(* What a basket holds of a product, line by line.                         *)
Counts(items, p) ==
  [k \in DOMAIN items |-> IF items[k].product = p THEN items[k].quantity ELSE 0]

(* The book's sum is the sum: the instance names the operators anew.       *)
LEMMA BookSums == ASSUME NEW f PROVE Book!SumFunction(f) = SumFunction(f)
BY DEF SumFunction, SumFunctionOnSet, FoldFunctionOnSet, MapThenFoldSet,
       Book!SumFunction, Book!SumFunctionOnSet, Book!FoldFunctionOnSet, Book!MapThenFoldSet

LEMMA QuantityOfLines ==
  ASSUME NEW items \in Seq(Lines), NEW p
  PROVE  /\ Book!Quantity(BasketOf(items), p) = SumFunction(Counts(items, p))
         /\ DOMAIN items = 1..Len(items) /\ IsFiniteSet(DOMAIN items)
         /\ \A k \in DOMAIN items : Counts(items, p)[k] \in Int
         /\ SumFunction(Counts(items, p)) \in Int
<1>1. DOMAIN items = 1..Len(items) /\ Len(items) \in Nat
  OBVIOUS
<1>2. ASSUME NEW k \in DOMAIN items PROVE Counts(items, p)[k] \in Int
  <2>1. items[k] \in Lines
    OBVIOUS
  <2> QED
    BY <2>1 DEF Counts, Lines
<1>3. IsFiniteSet(DOMAIN items)
  BY <1>1, Prefix
<1>4. [k \in DOMAIN BasketOf(items) |->
         IF BasketOf(items)[k].product = p THEN BasketOf(items)[k].quantity ELSE 0]
        = Counts(items, p)
  BY DEF BasketOf, Counts
<1>5. Book!Quantity(BasketOf(items), p) = SumFunction(Counts(items, p))
  BY <1>4, BookSums DEF Book!Quantity
<1>6. DOMAIN Counts(items, p) = DOMAIN items
  BY DEF Counts
<1>7. SumFunction(Counts(items, p)) \in Int
  BY <1>2, <1>3, <1>6, SumType DEF SumFunction
<1> QED
  BY <1>1, <1>2, <1>3, <1>5, <1>7

(* Alone, a request that commits moves each batch by what was asked.       *)
LEMMA CommitMoves ==
  ASSUME TypeInv, Ledger, Moved, Serial, NEW r \in Requests, Commit(r), NEW p \in Products
  PROVE  stock'[p] = stock[p] + Asked(r, p)
<1>1. pc[r] = "commit" /\ r \in InFlight
  BY DEF Commit, InFlight, Ended
<1>2. /\ Asked(r, p) = IF p \in known[r] THEN mine[r][p] - first[r][p] ELSE 0
      /\ p \in Written(r) <=> \E k \in DOMAIN lines[r] :
           lines[r][k].product = p /\ lines[r][k].quantity # 0
  <2>1. LoadedLines(r) = DOMAIN lines[r] /\ WrittenLines(r) = DOMAIN lines[r]
    BY <1>1 DEF LoadedLines, WrittenLines
  <2>2. Asked(r, p) = SumFunctionOnSet(Moves(r, p), DOMAIN lines[r])
    BY DEF Asked, SumFunction, Moves
  <2> QED
    BY <1>1, <2>1, <2>2 DEF Moved, MovedOf, Working
<1>3. stock[p] \in Int /\ mine[r][p] \in Int /\ first[r][p] \in Int
  BY DEF TypeInv, TypeOK
<1>4. CASE p \in Written(r)
  <2>1. p \in known[r] /\ first[r][p] = stock[p]
    BY <1>1, <1>4 DEF Written, Ledger, FreshOf, Serial, SerialOf
  <2>2. stock'[p] = mine[r][p]
    BY <1>4 DEF Commit, CommitTables
  <2> QED
    BY <1>2, <1>3, <2>1, <2>2
<1>5. CASE p \notin Written(r)
  <2>1. \A k \in DOMAIN lines[r] : Moves(r, p)[k] = 0
    <3> SUFFICES ASSUME NEW k \in DOMAIN lines[r] PROVE Moves(r, p)[k] = 0
      OBVIOUS
    <3>1. lines[r][k].product # p \/ lines[r][k].quantity = 0
      BY <1>2, <1>5
    <3> QED
      BY <3>1 DEF Moves, Movement
  <2>2. DOMAIN lines[r] = 1..Len(lines[r]) /\ Len(lines[r]) \in Nat
    BY LineFacts
  <2>3. Asked(r, p) = 0
    <3>1. Asked(r, p) = SumFunctionOnSet(Moves(r, p), DOMAIN lines[r])
      BY DEF Asked, SumFunction, Moves
    <3> QED
      BY <2>1, <2>2, <3>1, Prefix, SumZero
  <2>4. stock'[p] = stock[p]
    BY <1>5 DEF Commit, CommitTables
  <2> QED
    BY <1>3, <2>3, <2>4
<1> QED
  BY <1>4, <1>5

(* What a sale, a void and an adjustment ask for, as the book counts it.   *)
LEMMA SaleAsks ==
  ASSUME TypeInv, NEW r \in Requests, op[r].kind = "sale", NEW p \in Products
  PROVE  Asked(r, p) = 0 - Book!Quantity(BasketOf(lines[r]), p)
<1> DEFINE S == DOMAIN lines[r]
           f == Counts(lines[r], p)
           g == Moves(r, p)
<1>1. lines[r] \in Seq(Lines)
  BY DEF TypeInv, TypeOK
<1>2. /\ Book!Quantity(BasketOf(lines[r]), p) = SumFunction(f) /\ IsFiniteSet(S)
      /\ \A k \in S : f[k] \in Int
  BY <1>1, QuantityOfLines
<1>3. \A k \in S : g[k] = 0 - f[k]
  BY DEF Moves, Movement, Counts
<1>4. DOMAIN f = S /\ DOMAIN g = S
  BY DEF Moves, Counts
<1>5. SumFunction(f) = SumFunctionOnSet(f, S) /\ Asked(r, p) = SumFunctionOnSet(g, S)
  BY <1>4 DEF SumFunction, Asked
<1> HIDE DEF S, f, g
<1>6. SumFunctionOnSet(g, S) = 0 - SumFunctionOnSet(f, S)
  BY <1>2, <1>3, SumNegate
<1> QED
  BY <1>2, <1>5, <1>6

LEMMA VoidAsks ==
  ASSUME TypeInv, NEW r \in Requests, op[r].kind = "void", NEW p \in Products,
         NEW items \in Seq(Lines), lines[r] \in Orders(items)
  PROVE  Asked(r, p) = Book!Quantity(BasketOf(items), p)
<1> DEFINE S == DOMAIN items
           g == Counts(items, p)
<1>1. PICK f \in [S -> S] : /\ \A j, k \in S : f[j] = f[k] => j = k
                            /\ lines[r] = [k \in S |-> items[f[k]]]
  BY DEF Orders
<1>2. /\ Book!Quantity(BasketOf(items), p) = SumFunction(g) /\ IsFiniteSet(S)
      /\ \A k \in S : g[k] \in Int
  BY QuantityOfLines
<1>3. Moves(r, p) = [k \in S |-> g[f[k]]]
  BY <1>1 DEF Moves, Movement, Counts
<1>4. DOMAIN g = S
  BY DEF Counts
<1>5. SumFunction(g) = SumFunctionOnSet(g, S)
      /\ Asked(r, p) = SumFunctionOnSet([k \in S |-> g[f[k]]], S)
  BY <1>3, <1>4 DEF SumFunction, Asked
<1> HIDE DEF S, g
<1>6. SumFunctionOnSet([k \in S |-> g[f[k]]], S) = SumFunctionOnSet(g, S)
  BY <1>1, <1>2, SumPermuted
<1> QED
  BY <1>2, <1>5, <1>6

LEMMA AdjustAsks ==
  ASSUME TypeInv, NEW r \in Requests, op[r].kind = "adjust", NEW p \in Products
  PROVE  Asked(r, p) = IF lines[r][1].product = p THEN lines[r][1].quantity ELSE 0
<1>1. Len(lines[r]) = 1 /\ DOMAIN lines[r] = 1..1
  BY LineFacts DEF TypeInv, Control, ControlOf
<1>2. DOMAIN lines[r] = {} \cup {1} /\ lines[r][1] \in Lines
  BY <1>1, LineFacts
<1>3. Moves(r, p)[1] = IF lines[r][1].product = p THEN lines[r][1].quantity ELSE 0
  BY <1>2 DEF Moves, Movement
<1>4. Moves(r, p)[1] \in Int
  BY <1>2, <1>3 DEF Lines
<1>5. SumFunctionOnSet(Moves(r, p), {} \cup {1})
        = SumFunctionOnSet(Moves(r, p), {}) + Moves(r, p)[1]
  BY <1>4, FS_EmptySet, SumAdd
<1>6. Asked(r, p) = SumFunctionOnSet(Moves(r, p), DOMAIN lines[r])
  BY DEF Asked, SumFunction, Moves
<1> QED
  BY <1>2, <1>3, <1>4, <1>5, <1>6, SumEmpty

(* The commits, as actions of the book.                                    *)
LEMMA AdjustImplements ==
  ASSUME TypeInv, Ledger, Moved, NoDebt, Bought, Serial, NEW r \in Requests, Commit(r),
         op[r].kind = "adjust"
  PROVE  Book!BookNext
<1> DEFINE p == lines[r][1].product
           q == lines[r][1].quantity
<1>1. pc[r] = "commit" /\ r \in InFlight /\ sales' = sales
  BY DEF Commit, CommitTables, InFlight, Ended
<1>2. p \in Products /\ q \in AdjustQuantities
  <2>1. Len(lines[r]) = 1
    BY DEF TypeInv, Control, ControlOf
  <2> QED
    BY <1>1, <2>1, LineFacts DEF Lines, Serial, SerialOf
<1>3. \A b \in Products : stock'[b] = stock[b] + IF p = b THEN q ELSE 0
  BY CommitMoves, AdjustAsks
<1>4. stock'[p] >= 0
  <2>1. p \in known[r] /\ first[r][p] = stock[p]
    BY <1>1 DEF Serial, SerialOf
  <2>2. mine[r][p] >= 0
    BY <1>1 DEF NoDebt, NoDebtOf
  <2>3. stock'[p] = stock[p] + (mine[r][p] - first[r][p])
    BY <1>1, <1>2, <2>1, CommitMoves, MovedAsAsked DEF AsAsked
  <2>4. stock[p] \in Int /\ mine[r][p] \in Int
    BY <1>2 DEF TypeInv, TypeOK
  <2> QED
    BY <2>1, <2>2, <2>3, <2>4
<1>5. stock \in [Products -> Int] /\ stock' = [b \in Products |-> stock'[b]]
      /\ q \in Int
  BY <1>2, DataAssumption DEF Commit, CommitTables, TypeInv, TypeOK
<1>6. stock' = [stock EXCEPT ![p] = @ + q]
  BY <1>2, <1>3, <1>5
<1>7. stock[p] + q >= 0
  BY <1>2, <1>3, <1>4
<1>8. Book!Adjust(p, q)
  BY <1>1, <1>6, <1>7 DEF Book!Adjust
<1> QED
  BY <1>2, <1>8 DEF Book!BookNext

LEMMA SaleImplements ==
  ASSUME TypeInv, Ledger, Moved, Bought, Serial, NEW r \in Requests, Commit(r),
         op[r].kind = "sale"
  PROVE  Book!BookNext
<1> SUFFICES ASSUME NEW basket, basket = op[r].basket PROVE Book!BookNext
  OBVIOUS
<1>1. pc[r] = "commit" /\ r \in InFlight /\ sales' = [sales EXCEPT ![r] = SaleMade(r)]
  BY DEF Commit, CommitTables, InFlight, Ended
<1>2. basket \in Baskets /\ basket \in Seq(Items)
  BY OpFields, DataAssumption DEF TypeInv, Items
<1>3. BasketOf(lines[r]) = basket
  <2>1. /\ Len(lines[r]) = Len(basket) /\ DOMAIN lines[r] = 1..Len(lines[r])
        /\ \A k \in 1..Len(lines[r]) : /\ lines[r][k].product = basket[k].product
                                       /\ lines[r][k].quantity = basket[k].quantity
    BY <1>1, LineFacts DEF Serial, SerialOf, LinesOfBasket
  <2>2. basket = [k \in 1..Len(basket) |-> basket[k]]
    BY <1>2
  <2>3. \A k \in 1..Len(basket) :
          basket[k] = [product |-> basket[k].product, quantity |-> basket[k].quantity]
    <3> SUFFICES ASSUME NEW k \in 1..Len(basket)
                 PROVE  basket[k] = [product |-> basket[k].product,
                                     quantity |-> basket[k].quantity]
      OBVIOUS
    <3>1. basket[k] \in Items
      BY <1>2
    <3> QED
      BY <3>1 DEF Items
  <2>4. BasketOf(lines[r]) = [k \in 1..Len(basket) |->
          [product |-> lines[r][k].product, quantity |-> lines[r][k].quantity]]
    BY <2>1 DEF BasketOf
  <2>5. \A k \in 1..Len(basket) :
          [product |-> lines[r][k].product, quantity |-> lines[r][k].quantity] = basket[k]
    BY <2>1, <2>3
  <2> QED
    BY <2>2, <2>4, <2>5
<1>4. \A p \in Products : stock'[p] = stock[p] - Book!Quantity(basket, p)
  <2> SUFFICES ASSUME NEW p \in Products
               PROVE  stock'[p] = stock[p] - Book!Quantity(basket, p)
    OBVIOUS
  <2>1. stock'[p] = stock[p] + (0 - Book!Quantity(basket, p))
    BY <1>3, CommitMoves, SaleAsks
  <2>2. Book!Quantity(basket, p) \in Int
    <3>1. lines[r] \in Seq(Lines)
      BY DEF TypeInv, TypeOK
    <3> QED
      BY <1>3, <3>1, QuantityOfLines
  <2>3. stock[p] \in Int
    BY DEF TypeInv, TypeOK
  <2> QED
    BY <2>1, <2>2, <2>3
<1>5. stock' = [p \in Products |-> stock[p] - Book!Quantity(basket, p)]
  BY <1>4 DEF Commit, CommitTables
<1>6. sales[r] = NoSale
  BY <1>1 DEF Bought, BoughtOf
<1>7. Sold[r] = [status |-> "none", basket |-> <<>>]
  BY <1>6 DEF Sold, NoSale, BasketOf
<1>8. Sold' = [Sold EXCEPT ![r] = [status |-> "completed", basket |-> basket]]
  <2>1. \A s \in Requests : sales'[s] = IF s = r THEN SaleMade(r) ELSE sales[s]
    BY <1>1 DEF TypeInv, TypeOK
  <2>2. \A s \in Requests : Sold'[s] = IF s = r THEN [status |-> "completed", basket |-> basket]
                                               ELSE Sold[s]
    <3>1. \A s \in Requests :
            Sold'[s] = [status |-> sales'[s].status, basket |-> BasketOf(sales'[s].lines)]
      BY DEF Sold, BasketOf
    <3>2. SaleMade(r).status = "completed" /\ SaleMade(r).lines = lines[r]
      BY DEF SaleMade
    <3>3. Sold'[r] = [status |-> "completed", basket |-> basket]
      BY <1>3, <2>1, <3>1, <3>2
    <3> QED
      BY <2>1, <3>1, <3>3 DEF Sold
  <2>3. /\ Sold' = [s \in Requests |-> Sold'[s]]
        /\ DOMAIN Sold = Requests /\ Sold = [s \in Requests |-> Sold[s]]
    BY DEF Sold
  <2> QED
    BY <2>2, <2>3
<1>9. Book!Sell(r, basket)
  BY <1>5, <1>7, <1>8 DEF Book!Sell, Book!Unsold, Sold, BasketOf
<1> QED
  BY <1>2, <1>9 DEF Book!BookNext

LEMMA VoidImplements ==
  ASSUME TypeInv, Ledger, Moved, Bought, Serial, NEW r \in Requests, Commit(r),
         op[r].kind = "void"
  PROVE  Book!BookNext
<1> SUFFICES ASSUME NEW s, s = op[r].sale PROVE Book!BookNext
  OBVIOUS
<1> DEFINE items == sales[s].lines
<1>1. /\ pc[r] = "commit" /\ r \in InFlight /\ s \in Requests
      /\ sales' = [sales EXCEPT ![s].status = "voided"]
  BY OpFields DEF Commit, CommitTables, InFlight, Ended, TypeInv
<1>2. sales[s].status = "completed" /\ lines[r] \in Orders(items) /\ items \in Seq(Lines)
  BY <1>1, SaleFields DEF Serial, SerialOf
<1>3. \A p \in Products : stock'[p] = stock[p] + Book!Quantity(BasketOf(items), p)
  BY <1>2, CommitMoves, VoidAsks
<1>4. Sold[s] = [status |-> "completed", basket |-> BasketOf(items)]
  BY <1>1, <1>2 DEF Sold
<1>5. stock' = [p \in Products |-> stock[p] + Book!Quantity(Sold[s].basket, p)]
  BY <1>3, <1>4 DEF Commit, CommitTables
<1>6. Sold' = [Sold EXCEPT ![s].status = "voided"]
  <2>1. /\ sales'[s].status = "voided" /\ sales'[s].lines = items
        /\ \A t \in Requests \ {s} : sales'[t] = sales[t]
    <3>1. sales[s] \in [status : {"completed", "voided"}, lines : Seq(Lines) \ {<<>>},
                        total : Int, discount : Discounts, customer : Customers \cup {NoCustomer}]
      BY <1>1, <1>2 DEF TypeInv, TypeOK, Sales, NoSale
    <3>2. sales'[s] = [sales[s] EXCEPT !.status = "voided"]
          /\ \A t \in Requests \ {s} : sales'[t] = sales[t]
      BY <1>1 DEF TypeInv, TypeOK
    <3> QED
      BY <3>1, <3>2
  <2>2. \A t \in Requests : Sold'[t] = IF t = s THEN [Sold[s] EXCEPT !.status = "voided"]
                                               ELSE Sold[t]
    <3>1. \A t \in Requests :
            Sold'[t] = [status |-> sales'[t].status, basket |-> BasketOf(sales'[t].lines)]
      BY DEF Sold, BasketOf
    <3>2. \A t \in Requests :
            Sold[t] = [status |-> sales[t].status, basket |-> BasketOf(sales[t].lines)]
      BY DEF Sold
    <3>3. Sold'[s] = [status |-> "voided", basket |-> BasketOf(items)]
      BY <1>1, <2>1, <3>1
    <3>4. Sold'[s] = [Sold[s] EXCEPT !.status = "voided"]
      BY <1>4, <3>3
    <3>5. ASSUME NEW t \in Requests \ {s} PROVE Sold'[t] = Sold[t]
      <4>1. sales'[t] = sales[t]
        BY <2>1
      <4>2. /\ Sold'[t] = [status |-> sales'[t].status, basket |-> BasketOf(sales'[t].lines)]
            /\ Sold[t] = [status |-> sales[t].status, basket |-> BasketOf(sales[t].lines)]
        BY <3>1, <3>2
      <4> QED
        BY <4>1, <4>2
    <3> HIDE DEF items
    <3> QED
      BY <3>4, <3>5
  <2>3. /\ Sold' = [t \in Requests |-> Sold'[t]]
        /\ DOMAIN Sold = Requests /\ Sold = [t \in Requests |-> Sold[t]]
    BY DEF Sold
  <2> QED
    BY <2>2, <2>3
<1> HIDE DEF items
<1>7. Sold[s].status = "completed"
  BY <1>4
<1>8. Book!Void(s)
  BY <1>5, <1>6, <1>7 DEF Book!Void, Sold, BasketOf
<1> QED
  BY <1>1, <1>8 DEF Book!BookNext

LEMMA InitImplements == Init => Book!BookInit
BY DEF Init, Book!BookInit, Book!Unsold, NoSale

LEMMA NextImplements ==
  ASSUME TypeInv, Ledger, Moved, NoDebt, Bought, Serial, [Next]_vars
  PROVE  [Book!BookNext]_(Book!bvars)
<1>1. ASSUME UNCHANGED <<stock, sales>> PROVE UNCHANGED Book!bvars
  BY <1>1 DEF Book!bvars
<1>2. ASSUME NEW r \in Requests, Commit(r), op[r].kind \notin {"adjust", "sale", "void"}
      PROVE  UNCHANGED <<stock, sales>>
  <2>1. known[r] = {}
    <3>1. r \in InFlight
      BY <1>2 DEF Commit, InFlight, Ended
    <3> QED
      BY <1>2, <3>1 DEF Serial, SerialOf
  <2>2. Written(r) = {}
    BY <2>1 DEF Written, Ledger, FreshOf
  <2> QED
    BY <1>2, <2>2 DEF Commit, CommitTables, TypeInv, TypeOK
<1>3. ASSUME NEW r \in Requests, Arrival(r) \/ Step(r) PROVE [Book!BookNext]_(Book!bvars)
  <2>1. CASE Commit(r)
    BY <1>1, <1>2, <2>1, AdjustImplements, SaleImplements, VoidImplements
  <2>2. CASE ~Commit(r)
    BY <1>1, <1>3, <2>2, TablesChange DEF Ledger
  <2> QED
    BY <2>1, <2>2
<1>4. CASE Crash \/ UNCHANGED vars
  BY <1>1, <1>4 DEF Crash, tables, vars
<1> QED
  BY <1>3, <1>4 DEF Next, Idle

(* Handled one at a time, adjustments, sales and voids are those of the    *)
(* shopkeeper's book: each happens at once, when its transaction commits,  *)
(* or, cut off by a crash or a refusal, not at all.                        *)
THEOREM SerialImplementsBook ==
  ASSUME MaxInFlight = 1
  PROVE  Spec => ImplementsBook
<1> DEFINE IInv == TypeInv /\ Ledger /\ Moved /\ NoDebt /\ Bought /\ Serial
<1>1. Init => IInv
  BY InitType, InitLedger, InitMoved, InitNoDebt, InitBought, InitSerial
<1>2. IInv /\ [Next]_vars => IInv'
  BY TypeStep, LedgerStep, MovedStep, NoDebtStep, BoughtStep, SerialStep
<1>3. IInv /\ [Next]_vars => [Book!BookNext]_(Book!bvars)
  BY NextImplements
<1> QED
  BY <1>1, <1>2, <1>3, InitImplements, PTL DEF Spec, ImplementsBook, Book!BookSpec
=============================================================================
