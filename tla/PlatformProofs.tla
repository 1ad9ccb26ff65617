--------------------------- MODULE PlatformProofs ---------------------------
(***************************************************************************)
(* Proofs about what the program stands on: the connections of the pool,   *)
(* the migrations of the database, the answers of the model.               *)
(***************************************************************************)
EXTENDS MCPlatform, SumTheorems, SequenceTheorems

(* The connection pool.  Who is counted as holding a connection changes by *)
(* one at most where one state changes.                                    *)
Counts(x, S) == IF x \in S THEN 1 ELSE 0
Differ(f, g, v) == \A u \in Visitors \ {v} : g[u] = f[u]

(* How many are at one of the given places is a number.                    *)
LEMMA HoldingType ==
  ASSUME NEW f, NEW S
  PROVE  Holding(f, S) \in Nat
BY PoolAssumption, FS_Subset, FS_CardinalityType DEF Holding

(* One visitor moves: the count changes by where it was and where it is.   *)
LEMMA HoldingChanges ==
  ASSUME NEW f, NEW g, NEW v \in Visitors, NEW S, Differ(f, g, v)
  PROVE  Holding(g, S) = Holding(f, S) - Counts(f[v], S) + Counts(g[v], S)
<1> DEFINE H == {u \in Visitors : f[u] \in S}
           G == {u \in Visitors : g[u] \in S}
           rest == H \ {v}
<1>2. /\ H = IF f[v] \in S THEN rest \cup {v} ELSE rest
      /\ G = IF g[v] \in S THEN rest \cup {v} ELSE rest
  BY DEF Differ
<1>3. v \notin rest /\ rest \subseteq Visitors
  OBVIOUS
<1> HIDE DEF H, G, rest
<1>4. IsFiniteSet(rest)
  BY <1>3, PoolAssumption, FS_Subset
<1>5. Cardinality(rest) \in Nat /\ Cardinality(rest \cup {v}) = Cardinality(rest) + 1
  BY <1>3, <1>4, FS_AddElement, FS_CardinalityType
<1>6. Cardinality(G) = Cardinality(H) - Counts(f[v], S) + Counts(g[v], S)
  BY <1>2, <1>5 DEF Counts
<1> QED
  BY <1>6 DEF Holding, H, G

AtWork == {"working", "responded"}
Holds(p, h, a) == Counts(p, AtWork) + Counts(h, {"writing"}) + Counts(a, {"writing"})

(* No request is audited before it is answered: its answer starts the      *)
(* audit, and would forget the connection of one that had begun.           *)
Unaudited == {"outside", "waiting", "working"}
AuditedOnce == \A v \in Visitors : place[v] \in Unaudited => auditor[v] = "idle"

(* What holds whenever the program runs.                                   *)
PoolInv == PoolTypeOK /\ ConnectionsAreReturned /\ AuditedOnce

(* Nobody holds a connection.                                              *)
LEMMA PoolInitInv == PoolInit => PoolInv
<1> SUFFICES ASSUME PoolInit PROVE PoolInv
  OBVIOUS
<1>1. PoolTypeOK
  BY PoolAssumption DEF PoolInit, PoolTypeOK
<1>2. \A S : {"outside", "idle"} \cap S = {} =>
        Holding(place, S) = 0 /\ Holding(handler, S) = 0 /\ Holding(auditor, S) = 0
  BY FS_EmptySet DEF PoolInit, Holding
<1>3. ConnectionsAreReturned
  BY <1>2 DEF PoolInit, ConnectionsAreReturned
<1> QED
  BY <1>1, <1>3 DEF PoolInv, AuditedOnce, PoolInit

AllHeld(p, h, a) == Holding(p, AtWork) + Holding(h, {"writing"}) + Holding(a, {"writing"})

(* What all hold changes by what one request begins and ceases to hold.    *)
LEMMA HeldChanges ==
  ASSUME NEW p, NEW h, NEW a, NEW q, NEW k, NEW b, NEW v \in Visitors,
         Differ(p, q, v), Differ(h, k, v), Differ(a, b, v)
  PROVE  AllHeld(q, k, b) = AllHeld(p, h, a) - Holds(p[v], h[v], a[v]) + Holds(q[v], k[v], b[v])
<1>1. \A S : Holding(q, S) = Holding(p, S) - Counts(p[v], S) + Counts(q[v], S)
  BY HoldingChanges
<1>2. \A S : Holding(k, S) = Holding(h, S) - Counts(h[v], S) + Counts(k[v], S)
  BY HoldingChanges
<1>3. \A S : Holding(b, S) = Holding(a, S) - Counts(a[v], S) + Counts(b[v], S)
  BY HoldingChanges
<1>4. \A S : /\ Holding(p, S) \in Int /\ Holding(h, S) \in Int /\ Holding(a, S) \in Int
             /\ \A x : Counts(x, S) \in Int
  BY HoldingType DEF Counts
<1> QED
  BY <1>1, <1>2, <1>3, <1>4 DEF AllHeld, Holds

(* A step of one request keeps the count if it takes and gives back what   *)
(* its sessions begin and cease to hold.                                   *)
LEMMA OneMoves ==
  ASSUME PoolInv, NEW v \in Visitors,
         NEW p, place' = [place EXCEPT ![v] = p],
         NEW h, handler' = [handler EXCEPT ![v] = h],
         NEW a, auditor' = [auditor EXCEPT ![v] = a],
         inUse' = inUse - Holds(place[v], handler[v], auditor[v]) + Holds(p, h, a)
  PROVE  ConnectionsAreReturned'
<1>1. place'[v] = p /\ handler'[v] = h /\ auditor'[v] = a
  BY DEF PoolInv, PoolTypeOK
<1>2. \A u \in Visitors \ {v} : /\ place'[u] = place[u] /\ handler'[u] = handler[u]
                                /\ auditor'[u] = auditor[u]
  BY DEF PoolInv, PoolTypeOK
<1>3. inUse = AllHeld(place, handler, auditor)
  BY DEF PoolInv, ConnectionsAreReturned, AllHeld, AtWork
<1> DEFINE q == place'   k == handler'   b == auditor'
<1>4. AllHeld(q, k, b) = AllHeld(place, handler, auditor)
                           - Holds(place[v], handler[v], auditor[v]) + Holds(q[v], k[v], b[v])
  <2>1. Differ(place, q, v) /\ Differ(handler, k, v) /\ Differ(auditor, b, v)
    BY <1>2 DEF Differ
  <2> HIDE DEF q, k, b
  <2> QED
    BY <2>1, HeldChanges
<1>5. inUse' = AllHeld(q, k, b)
  BY <1>1, <1>3, <1>4
<1> QED
  BY <1>5 DEF ConnectionsAreReturned, AllHeld, Holding, AtWork

Places == {"outside", "waiting", "working", "responded", "committed", "failed", "gone"}
Handlers == {"idle", "waiting", "writing", "written", "lost", "gone"}
Auditors == {"idle", "due", "waiting", "writing", "written", "lost", "gone"}

(* Such a step keeps everything, if it takes no more than there is.        *)
LEMMA StepKeeps ==
  ASSUME PoolInv, NEW v \in Visitors, UNCHANGED stops,
         NEW p \in Places, place' = [place EXCEPT ![v] = p],
         NEW h \in Handlers, handler' = [handler EXCEPT ![v] = h],
         NEW a \in Auditors, auditor' = [auditor EXCEPT ![v] = a],
         p \in Unaudited => a = "idle",
         inUse' = inUse - Holds(place[v], handler[v], auditor[v]) + Holds(p, h, a),
         Holds(p, h, a) <= Holds(place[v], handler[v], auditor[v]) \/ inUse' <= PoolSize
  PROVE  PoolInv'
<1>1. ConnectionsAreReturned'
  BY OneMoves
<1>2. Holds(p, h, a) \in Nat /\ Holds(place[v], handler[v], auditor[v]) \in Nat
  BY DEF Holds, Counts
<1>3. inUse \in 0..PoolSize /\ PoolSize \in Nat
  BY PoolAssumption DEF PoolInv, PoolTypeOK
<1>4. inUse' \in Nat
  <2> DEFINE H == Holding(place, AtWork)'
             W == Holding(handler, {"writing"})'
             A == Holding(auditor, {"writing"})'
  <2>1. H \in Nat /\ W \in Nat /\ A \in Nat
    BY HoldingType
  <2>2. inUse' = H + W + A
    BY <1>1 DEF ConnectionsAreReturned, AtWork
  <2> HIDE DEF H, W, A
  <2> QED
    BY <2>1, <2>2
<1>5. inUse' <= PoolSize
  BY <1>2, <1>3, <1>4
<1>6. /\ place' \in [Visitors -> Places] /\ handler' \in [Visitors -> Handlers]
      /\ auditor' \in [Visitors -> Auditors]
  BY DEF PoolInv, PoolTypeOK, Places, Handlers, Auditors
<1>7. PoolTypeOK'
  BY <1>3, <1>4, <1>5, <1>6 DEF PoolInv, PoolTypeOK, Places, Handlers, Auditors
<1>8. AuditedOnce'
  BY DEF PoolInv, PoolTypeOK, AuditedOnce
<1> QED
  BY <1>1, <1>7, <1>8 DEF PoolInv

(* What a session's first query and its waiting mean to the count.         *)
LEMMA CheckOutFacts ==
  ASSUME PoolInv
  PROVE  /\ inUse \in Nat /\ PoolSize \in Nat
         /\ Available => inUse + 1 <= PoolSize
         /\ CheckOut => inUse' = IF Available THEN inUse + 1 ELSE inUse
BY PoolAssumption DEF PoolInv, PoolTypeOK, Available, CheckOut

(* Each step of a request keeps PoolInv.                                   *)
LEMMA RequestStepInv ==
  ASSUME PoolInv, NEW v \in Visitors, Arrive(v) \/ RequestStep(v) \/ TimesOut(v)
  PROVE  PoolInv'
<1> DEFINE p == place[v]   h == handler[v]   a == auditor[v]
           AsTold(x, y, z) ==
             /\ UNCHANGED stops
             /\ place' = [place EXCEPT ![v] = x]
             /\ handler' = [handler EXCEPT ![v] = y]
             /\ auditor' = [auditor EXCEPT ![v] = z]
             /\ x \in Unaudited => z = "idle"
             /\ inUse' = inUse - Holds(p, h, a) + Holds(x, y, z)
             /\ Holds(x, y, z) <= Holds(p, h, a) \/ inUse' <= PoolSize
           Accounted == \E x \in Places, y \in Handlers, z \in Auditors : AsTold(x, y, z)
<1>1. /\ p \in Places /\ h \in Handlers /\ a \in Auditors
      /\ place = [place EXCEPT ![v] = p] /\ handler = [handler EXCEPT ![v] = h]
      /\ auditor = [auditor EXCEPT ![v] = a]
      /\ inUse \in Nat /\ PoolSize \in Nat
      /\ Available => inUse + 1 <= PoolSize
      /\ CheckOut => inUse' = IF Available THEN inUse + 1 ELSE inUse
      /\ p \in Unaudited => a = "idle"
  BY CheckOutFacts DEF PoolInv, PoolTypeOK, AuditedOnce, Places, Handlers, Auditors
<1>2. CASE Arrive(v)
  <2>1. AsTold(Held("working"), h, a)
    BY <1>1, <1>2 DEF Arrive, Held, Holds, Counts, AtWork, Unaudited
  <2>2. Held("working") \in Places
    BY DEF Held, Places
  <2> QED
    BY <1>1, <2>1, <2>2, StepKeeps
<1>3. CASE Served(v)
  <2>1. AsTold("working", h, a)
    BY <1>1, <1>3 DEF Served, Holds, Counts, AtWork, Unaudited
  <2> QED
    BY <1>1, <2>1, StepKeeps DEF Places
<1>4. CASE ServiceTimesOut(v)
  <2>1. AsTold("failed", h, a)
    BY <1>1, <1>4 DEF ServiceTimesOut, Holds, Counts, AtWork, Unaudited
  <2> QED
    BY <1>1, <2>1, StepKeeps DEF Places
<1>5. CASE Publish(v)
  <2>1. AsTold(p, Held("writing"), a)
    BY <1>1, <1>5 DEF Publish, Held, Holds, Counts, AtWork, Unaudited
  <2>2. Held("writing") \in Handlers
    BY DEF Held, Handlers
  <2> QED
    BY <1>1, <2>1, <2>2, StepKeeps
<1>6. CASE HandlerServed(v)
  <2>1. AsTold(p, "writing", a)
    BY <1>1, <1>6 DEF HandlerServed, Holds, Counts, AtWork, Unaudited
  <2> QED
    BY <1>1, <2>1, StepKeeps DEF Handlers
<1>7. CASE HandlerTimesOut(v)
  <2>1. AsTold(p, "lost", a)
    BY <1>1, <1>7 DEF HandlerTimesOut, Holds, Counts, AtWork, Unaudited
  <2> QED
    BY <1>1, <2>1, StepKeeps DEF Handlers
<1>8. CASE Notify(v)
  <2>1. PICK outcome \in {"written", "lost"} : handler' = [handler EXCEPT ![v] = outcome]
    BY <1>8 DEF Notify
  <2>2. h = "writing" /\ place' = place /\ auditor' = auditor /\ stops' = stops /\ inUse' = inUse - 1
    BY <1>1, <1>8 DEF Notify
  <2>3. AsTold(p, outcome, a)
    BY <1>1, <2>1, <2>2 DEF Holds, Counts, AtWork, Unaudited
  <2> QED
    BY <1>1, <2>1, <2>3, StepKeeps DEF Handlers
<1>9. CASE Respond(v)
  <2>1. PICK due \in {"due", "idle"} : auditor' = [auditor EXCEPT ![v] = due]
    BY <1>9 DEF Respond, Audited
  <2>2. p = "working" /\ place' = [place EXCEPT ![v] = "responded"] /\ handler' = handler
        /\ stops' = stops /\ inUse' = inUse
    BY <1>1, <1>9 DEF Respond
  <2>3. AsTold("responded", h, due)
    BY <1>1, <2>1, <2>2 DEF Holds, Counts, AtWork, Unaudited
  <2> QED
    BY <1>1, <2>1, <2>3, StepKeeps DEF Places, Auditors
<1>10. CASE RequestFails(v)
  <2>1. PICK due \in {"due", "idle"} : auditor' = [auditor EXCEPT ![v] = due]
    BY <1>10 DEF RequestFails, Audited
  <2>2. p = "working" /\ place' = [place EXCEPT ![v] = "failed"] /\ handler' = handler
        /\ stops' = stops /\ inUse' = inUse - 1
    BY <1>1, <1>10 DEF RequestFails
  <2>3. AsTold("failed", h, due)
    BY <1>1, <2>1, <2>2 DEF Holds, Counts, AtWork, Unaudited
  <2> QED
    BY <1>1, <2>1, <2>3, StepKeeps DEF Places, Auditors
<1>11. CASE CommitRequest(v)
  <2>1. PICK outcome \in {"committed", "failed"} : place' = [place EXCEPT ![v] = outcome]
    BY <1>11 DEF CommitRequest
  <2>2. p = "responded" /\ handler' = handler /\ auditor' = auditor /\ stops' = stops
        /\ inUse' = inUse - 1
    BY <1>1, <1>11 DEF CommitRequest
  <2>3. AsTold(outcome, h, a)
    BY <1>1, <2>1, <2>2 DEF Holds, Counts, AtWork, Unaudited
  <2>4. outcome \in Places
    BY DEF Places
  <2> QED
    BY <1>1, <2>1, <2>3, <2>4, StepKeeps
<1>12. CASE Audit(v)
  <2>1. AsTold(p, h, Held("writing"))
    BY <1>1, <1>12 DEF Audit, Held, Holds, Counts, AtWork, Unaudited
  <2>2. Held("writing") \in Auditors
    BY DEF Held, Auditors
  <2> QED
    BY <1>1, <2>1, <2>2, StepKeeps
<1>13. CASE AuditServed(v)
  <2>1. AsTold(p, h, "writing")
    BY <1>1, <1>13 DEF AuditServed, Holds, Counts, AtWork, Unaudited
  <2> QED
    BY <1>1, <2>1, StepKeeps DEF Auditors
<1>14. CASE AuditTimesOut(v)
  <2>1. AsTold(p, h, "lost")
    BY <1>1, <1>14 DEF AuditTimesOut, Holds, Counts, AtWork, Unaudited
  <2> QED
    BY <1>1, <2>1, StepKeeps DEF Auditors
<1>15. CASE WriteAudit(v)
  <2>1. PICK outcome \in {"written", "lost"} : auditor' = [auditor EXCEPT ![v] = outcome]
    BY <1>15 DEF WriteAudit
  <2>2. a = "writing" /\ place' = place /\ handler' = handler /\ stops' = stops
        /\ inUse' = inUse - 1
    BY <1>1, <1>15 DEF WriteAudit
  <2>3. AsTold(p, h, outcome)
    BY <1>1, <2>1, <2>2 DEF Holds, Counts, AtWork, Unaudited
  <2> QED
    BY <1>1, <2>1, <2>3, StepKeeps DEF Auditors
<1> QED
  BY <1>2, <1>3, <1>4, <1>5, <1>6, <1>7, <1>8, <1>9, <1>10, <1>11, <1>12, <1>13, <1>14, <1>15
     DEF RequestStep, TimesOut

(* The end of the process drops every connection.                          *)
LEMMA StopInv ==
  ASSUME PoolInv, Stop
  PROVE  PoolInv'
<1>1. PoolTypeOK'
  BY PoolAssumption DEF PoolInv, PoolTypeOK, Stop, Stopped
<1>2. /\ \A v \in Visitors : place'[v] \notin AtWork
      /\ \A v \in Visitors : handler'[v] \notin {"writing"}
      /\ \A v \in Visitors : auditor'[v] \notin {"writing"}
  BY DEF PoolInv, PoolTypeOK, Stop, Stopped, AtWork
<1>3. \A f, S : (\A v \in Visitors : f[v] \notin S) => Holding(f, S) = 0
  BY FS_EmptySet DEF Holding
<1>4. /\ Holding(place, AtWork)' = 0 /\ Holding(handler, {"writing"})' = 0
      /\ Holding(auditor, {"writing"})' = 0
  BY <1>2, FS_EmptySet DEF Holding
<1>5. ConnectionsAreReturned'
  BY <1>4 DEF ConnectionsAreReturned, AtWork, Stop
<1>6. AuditedOnce'
  BY DEF PoolInv, PoolTypeOK, AuditedOnce, Unaudited, Stop, Stopped
<1> QED
  BY <1>1, <1>5, <1>6 DEF PoolInv

(* All together.                                                           *)
LEMMA PoolStepInv == PoolInv /\ [PoolNext]_poolVars => PoolInv'
<1> SUFFICES ASSUME PoolInv, [PoolNext]_poolVars PROVE PoolInv'
  OBVIOUS
<1>1. CASE UNCHANGED poolVars
  BY <1>1 DEF poolVars, PoolInv, PoolTypeOK, ConnectionsAreReturned, AuditedOnce, Holding
<1> QED
  BY <1>1, RequestStepInv, StopInv DEF PoolNext

(* Whatever requests come, fail, time out or are cut short: the pool's     *)
(* variables keep their types.                                             *)
THEOREM PoolTypes == PoolSpec => []PoolTypeOK
<1>1. PoolInv => PoolTypeOK
  BY DEF PoolInv
<1> QED
  BY <1>1, PoolInitInv, PoolStepInv, PTL DEF PoolSpec

(* For every pool size and any number of requests: a connection is out of  *)
(* the pool if and only if a session that works has it.                    *)
THEOREM ConnectionsReturned == PoolSpec => []ConnectionsAreReturned
<1>1. PoolInv => ConnectionsAreReturned
  BY DEF PoolInv
<1> QED
  BY <1>1, PoolInitInv, PoolStepInv, PTL DEF PoolSpec
----------------------------------------------------------------------------
(* The migrations.  The eighteen tables in the order of the upgrade.       *)
Order == UpgradeOrder
Before(n) == {Order[i] : i \in 1..n}
Rank(table) ==
  CASE table = "businesses" -> 1 [] table = "automation_rules" -> 2 [] table = "branches" -> 3
    [] table = "business_memory" -> 4 [] table = "customers" -> 5
    [] table = "notifications" -> 6 [] table = "products" -> 7 [] table = "prompts" -> 8
    [] table = "suppliers" -> 9 [] table = "sync_logs" -> 10 [] table = "users" -> 11
    [] table = "audit_logs" -> 12 [] table = "automation_logs" -> 13
    [] table = "inventory_batches" -> 14 [] table = "sales" -> 15
    [] table = "mpesa_transactions" -> 16 [] table = "payments" -> 17
    [] table = "sale_items" -> 18

(* The tables, one by one.                                                 *)
LEMMA AllTablesAre ==
  AllTables =
    {"businesses", "automation_rules", "branches", "business_memory", "customers",
     "notifications", "products", "prompts", "suppliers", "sync_logs", "users",
     "audit_logs", "automation_logs", "inventory_batches", "sales", "mpesa_transactions",
     "payments", "sale_items"}
<1>1. ToSet(FirstTables) =
        {"businesses", "automation_rules", "branches", "business_memory", "customers",
         "notifications", "products", "prompts", "suppliers", "sync_logs", "users"}
  BY DEF ToSet, FirstTables
<1>2. ToSet(LaterTables) =
        {"audit_logs", "automation_logs", "inventory_batches", "sales", "mpesa_transactions",
         "payments", "sale_items"}
  BY DEF ToSet, LaterTables
<1> QED
  BY <1>1, <1>2 DEF AllTables

(* The order in which they are made, place by place.                       *)
LEMMA OrderAt ==
  /\ Order \in Seq(AllTables) /\ Len(Order) = 18
  /\ Order[1] = "businesses" /\ Order[2] = "automation_rules" /\ Order[3] = "branches"
  /\ Order[4] = "business_memory" /\ Order[5] = "customers" /\ Order[6] = "notifications"
  /\ Order[7] = "products" /\ Order[8] = "prompts" /\ Order[9] = "suppliers"
  /\ Order[10] = "sync_logs" /\ Order[11] = "users" /\ Order[12] = "audit_logs"
  /\ Order[13] = "automation_logs" /\ Order[14] = "inventory_batches" /\ Order[15] = "sales"
  /\ Order[16] = "mpesa_transactions" /\ Order[17] = "payments" /\ Order[18] = "sale_items"
<1>a. FirstTables \in Seq(AllTables) /\ LaterTables \in Seq(AllTables)
  BY AllTablesAre DEF FirstTables, LaterTables
<1>1. /\ Len(FirstTables) = 11
      /\ FirstTables[1] = "businesses" /\ FirstTables[2] = "automation_rules"
      /\ FirstTables[3] = "branches" /\ FirstTables[4] = "business_memory"
      /\ FirstTables[5] = "customers" /\ FirstTables[6] = "notifications"
      /\ FirstTables[7] = "products" /\ FirstTables[8] = "prompts"
      /\ FirstTables[9] = "suppliers" /\ FirstTables[10] = "sync_logs"
      /\ FirstTables[11] = "users"
  BY DEF FirstTables
<1>2. /\ Len(LaterTables) = 7
      /\ LaterTables[1] = "audit_logs" /\ LaterTables[2] = "automation_logs"
      /\ LaterTables[3] = "inventory_batches" /\ LaterTables[4] = "sales"
      /\ LaterTables[5] = "mpesa_transactions" /\ LaterTables[6] = "payments"
      /\ LaterTables[7] = "sale_items"
  BY DEF LaterTables
<1>b. /\ Order \in Seq(AllTables) /\ Len(Order) = Len(FirstTables) + Len(LaterTables)
      /\ \A i \in 1..(Len(FirstTables) + Len(LaterTables)) :
           Order[i] = IF i <= Len(FirstTables) THEN FirstTables[i]
                                               ELSE LaterTables[i - Len(FirstTables)]
  BY <1>a, ConcatProperties DEF Order, UpgradeOrder
<1>3. /\ Order \in Seq(AllTables) /\ Len(Order) = 18
      /\ \A i \in 1..11 : Order[i] = FirstTables[i]
      /\ \A i \in 12..18 : Order[i] = LaterTables[i - 11]
  BY <1>b, <1>1, <1>2
<1>4. /\ Order[1] = "businesses" /\ Order[2] = "automation_rules" /\ Order[3] = "branches"
      /\ Order[4] = "business_memory" /\ Order[5] = "customers" /\ Order[6] = "notifications"
      /\ Order[7] = "products" /\ Order[8] = "prompts" /\ Order[9] = "suppliers"
      /\ Order[10] = "sync_logs" /\ Order[11] = "users"
  BY <1>1, <1>3
<1>5. /\ Order[12] = "audit_logs" /\ Order[13] = "automation_logs"
      /\ Order[14] = "inventory_batches" /\ Order[15] = "sales"
      /\ Order[16] = "mpesa_transactions" /\ Order[17] = "payments" /\ Order[18] = "sale_items"
  BY <1>2, <1>3
<1> QED
  BY <1>3, <1>4, <1>5

(* The tables are those up to the last place.                              *)
LEMMA AllAreOrdered == AllTables = Before(18) /\ Before(0) = {}
<1>1. 1..18 = {1, 2, 3, 4, 5, 6, 7, 8, 9, 10, 11, 12, 13, 14, 15, 16, 17, 18}
  OBVIOUS
<1> QED
  BY <1>1, OrderAt, AllTablesAre DEF Before

(* No table is made twice.                                                 *)
LEMMA OrderIsInjective ==
  /\ \A i \in 1..18 : Rank(Order[i]) = i
  /\ \A i, j \in 1..18 : Order[i] = Order[j] => i = j
<1>1. /\ Rank(Order[1]) = 1 /\ Rank(Order[2]) = 2 /\ Rank(Order[3]) = 3 /\ Rank(Order[4]) = 4
      /\ Rank(Order[5]) = 5 /\ Rank(Order[6]) = 6 /\ Rank(Order[7]) = 7 /\ Rank(Order[8]) = 8
      /\ Rank(Order[9]) = 9 /\ Rank(Order[10]) = 10 /\ Rank(Order[11]) = 11
      /\ Rank(Order[12]) = 12 /\ Rank(Order[13]) = 13 /\ Rank(Order[14]) = 14
      /\ Rank(Order[15]) = 15 /\ Rank(Order[16]) = 16 /\ Rank(Order[17]) = 17
      /\ Rank(Order[18]) = 18
  BY OrderAt DEF Rank
<1>2. \A i \in 1..18 : Rank(Order[i]) = i
  <2>1. 1..18 = {1, 2, 3, 4, 5, 6, 7, 8, 9, 10, 11, 12, 13, 14, 15, 16, 17, 18}
    OBVIOUS
  <2> QED
    BY <1>1, <2>1
<1> QED
  BY <1>2

(* A table refers to tables that stand before it.                          *)
LEMMA ReferencesStandBefore == \A i \in 1..18 : References(Order[i]) \subseteq Before(i - 1)
<1>1. \A i \in 1..18 : \A r \in References(Order[i]) : \E j \in 1..18 : r = Order[j] /\ j < i
  <2>1. \A i \in 1..18 : Order[i] \in AllTables
    BY AllAreOrdered DEF Before
  <2>2. \A i \in 2..18 : Order[1] = "businesses" /\ 1 < i
    BY OrderAt
  <2>3. ASSUME NEW i \in 1..18, NEW r \in References(Order[i]), r = "businesses"
        PROVE  \E j \in 1..18 : r = Order[j] /\ j < i
    <3>1. Order[i] # "businesses"
      BY <2>3, OrderAt DEF References, Owned
    <3>2. i \in 2..18
      BY <3>1, OrderAt
    <3> QED
      BY <2>2, <2>3, <3>2
  <2>4. ASSUME NEW i \in 1..18, NEW r \in References(Order[i]), r # "businesses"
        PROVE  \E j \in 1..18 : r = Order[j] /\ j < i
    <3>1. CASE Order[i] = "audit_logs"
      <4>1. i = 12 /\ r = Order[11]
        BY <2>4, <3>1, OrderAt, OrderIsInjective DEF References
      <4> QED
        BY <4>1
    <3>2. CASE Order[i] = "automation_logs"
      <4>1. i = 13 /\ r = Order[2]
        BY <2>4, <3>2, OrderAt, OrderIsInjective DEF References
      <4> QED
        BY <4>1
    <3>3. CASE Order[i] = "inventory_batches"
      <4>1. i = 14 /\ (r = Order[3] \/ r = Order[7])
        BY <2>4, <3>3, OrderAt, OrderIsInjective DEF References
      <4> QED
        BY <4>1
    <3>4. CASE Order[i] = "sales"
      <4>1. i = 15 /\ (r = Order[3] \/ r = Order[5] \/ r = Order[11])
        BY <2>4, <3>4, OrderAt, OrderIsInjective DEF References
      <4> QED
        BY <4>1
    <3>5. CASE Order[i] \in {"mpesa_transactions", "payments"}
      <4>1. i \in {16, 17} /\ r = Order[15]
        BY <2>4, <3>5, OrderAt, OrderIsInjective DEF References
      <4> QED
        BY <4>1
    <3>6. CASE Order[i] = "sale_items"
      <4>1. i = 18 /\ (r = Order[7] \/ r = Order[15])
        BY <2>4, <3>6, OrderAt, OrderIsInjective DEF References
      <4> QED
        BY <4>1
    <3> QED
      BY <2>4, <3>1, <3>2, <3>3, <3>4, <3>5, <3>6 DEF References
  <2> QED
    BY <2>3, <2>4
<1> QED
  BY <1>1 DEF Before

(* How far a command has come: the statements left are those it has not    *)
(* run, and it sees the tables it has made, or not yet dropped.  Where     *)
(* create_all has made the tables already, an upgrade never gets past its  *)
(* first statement.                                                        *)
Rest(n) == /\ Len(alembic.left) = 18 - n
           /\ \A i \in 1..18 - n : alembic.left[i] = Order[n + i]
Back(n) == /\ Len(alembic.left) = n
           /\ \A i \in 1..n : alembic.left[i] = Order[n + 1 - i]
Underway ==
  /\ alembic.kind = "upgrade" =>
       /\ revision = "none"
       /\ \/ tables = AllTables /\ alembic.sees = AllTables /\ Rest(0)
          \/ tables = {} /\ \E n \in 0..18 : alembic.sees = Before(n) /\ Rest(n)
  /\ alembic.kind = "downgrade" =>
       /\ revision = "initial" /\ tables = AllTables
       /\ \E n \in 0..18 : alembic.sees = Before(n) /\ Back(n)

Commands ==
  [kind : {"none", "upgrade", "downgrade"}, left : Seq(AllTables), sees : SUBSET AllTables,
   failed : {"never", "NameError", "DuplicateTable", "reference", "died"}]

MigrationsInv ==
  /\ MigrationsTypeOK /\ alembic \in Commands
  /\ Underway /\ NoStatementDangles /\ SchemasAreWhole

(* No command, and how the last one failed.                                *)
LEMMA NoCommandType ==
  \A error \in {"never", "NameError", "DuplicateTable", "reference", "died"} :
    /\ [NoCommand EXCEPT !.failed = error] \in Commands
    /\ [NoCommand EXCEPT !.failed = error].kind = "none"
    /\ [NoCommand EXCEPT !.failed = error].failed = error
<1>1. \A error : [NoCommand EXCEPT !.failed = error]
                    = [kind |-> "none", left |-> << >>, sees |-> {}, failed |-> error]
  BY DEF NoCommand
<1>2. << >> \in Seq(AllTables)
  OBVIOUS
<1> QED
  BY <1>1, <1>2 DEF Commands

(* A database on which nothing was run.                                    *)
LEMMA MigrationsInitInv == MigrationsInit => MigrationsInv
<1> SUFFICES ASSUME MigrationsInit PROVE MigrationsInv
  OBVIOUS
<1>1. alembic \in Commands /\ alembic.kind = "none" /\ alembic.failed = "never"
      /\ alembic.sees = {}
  BY DEF MigrationsInit, NoCommand, Commands
<1> QED
  <2>1. MigrationsTypeOK
    <3>1. commands \in 0..MaxCommands
      BY MigrationsAssumption DEF MigrationsInit
    <3>2. /\ revision = "none" /\ release \in {"first", "this"} /\ container = "down"
          /\ receipts \in BOOLEAN /\ tables \subseteq AllTables
      BY DEF MigrationsInit
    <3> QED
      BY <1>1, <3>1, <3>2 DEF MigrationsTypeOK
  <2>2. Underway /\ NoStatementDangles /\ SchemasAreWhole
    BY <1>1 DEF MigrationsInit, Underway, NoStatementDangles, SchemasAreWhole
  <2> QED
    BY <1>1, <2>1, <2>2 DEF MigrationsInv

(* A command begins.                                                       *)
LEMMA CommandInv ==
  ASSUME MigrationsInv, Command
  PROVE  MigrationsInv'
<1>0. MigrationsTypeOK /\ alembic \in Commands /\ commands' \in 0..MaxCommands
      /\ UNCHANGED <<release, container, tables, receipts, revision>>
  BY MigrationsAssumption DEF MigrationsInv, MigrationsTypeOK, Command
<1>1. CASE alembic' = [NoCommand EXCEPT !.failed = "NameError"]
  <2>1. alembic' \in Commands /\ alembic'.kind = "none" /\ alembic'.failed = "NameError"
    BY <1>1, NoCommandType
  <2> QED
    BY <1>0, <2>1 DEF MigrationsInv, MigrationsTypeOK, Underway, NoStatementDangles,
                      SchemasAreWhole, Commands
<1>2. ASSUME revision = "none",
             alembic' = [NoCommand EXCEPT !.kind = "upgrade", !.left = UpgradeOrder, !.sees = tables]
      PROVE  MigrationsInv'
  <2>1. /\ alembic'.kind = "upgrade" /\ alembic'.left = Order /\ alembic'.sees = tables
        /\ alembic'.failed = "never" /\ alembic' \in Commands
    BY <1>0, <1>2, OrderAt DEF NoCommand, Commands, Order, MigrationsTypeOK
  <2>2. Rest(0)'
    BY <2>1, OrderAt DEF Rest
  <2>3. tables \in {{}, AllTables}
    BY DEF MigrationsInv, SchemasAreWhole
  <2>4. Underway'
    BY <1>0, <1>2, <2>1, <2>2, <2>3, AllAreOrdered DEF Underway
  <2> QED
    BY <1>0, <2>1, <2>4 DEF MigrationsInv, MigrationsTypeOK, NoStatementDangles, SchemasAreWhole,
                            Commands
<1>3. ASSUME revision = "initial",
             alembic' = [NoCommand EXCEPT !.kind = "downgrade", !.left = DowngradeOrder,
                                          !.sees = tables]
      PROVE  MigrationsInv'
  <2>1. /\ DowngradeOrder \in Seq(AllTables) /\ Len(DowngradeOrder) = 18
        /\ \A i \in 1..18 : DowngradeOrder[i] = Order[18 + 1 - i]
    <3>1. /\ Reverse(Order) \in Seq(AllTables) /\ Len(Reverse(Order)) = 18
          /\ \A i \in 1..18 : Reverse(Order)[i] = Order[18 + 1 - i]
      <4>1. Order \in Seq(AllTables) /\ Len(Order) = 18
        BY OrderAt
      <4>2. Reverse(Order) = [i \in 1..18 |-> Order[(18 - i) + 1]]
        BY <4>1 DEF Reverse
      <4>3. \A i \in 1..18 : Order[i] \in AllTables
        BY AllAreOrdered DEF Before
      <4> QED
        BY <4>2, <4>3
    <3> QED
      BY <3>1 DEF DowngradeOrder, Order, UpgradeOrder
  <2>2. /\ alembic'.kind = "downgrade" /\ alembic'.left = DowngradeOrder
        /\ alembic'.sees = tables /\ alembic'.failed = "never" /\ alembic' \in Commands
    BY <1>0, <1>3, <2>1 DEF NoCommand, Commands, MigrationsTypeOK
  <2>3. Back(18)'
    BY <2>1, <2>2 DEF Back
  <2>4. tables = AllTables
    BY <1>3 DEF MigrationsInv, SchemasAreWhole
  <2>5. Underway'
    BY <1>0, <1>3, <2>2, <2>3, <2>4, AllAreOrdered DEF Underway
  <2> QED
    BY <1>0, <2>2, <2>5 DEF MigrationsInv, MigrationsTypeOK, NoStatementDangles, SchemasAreWhole,
                            Commands
<1> QED
  BY <1>1, <1>2, <1>3 DEF Command

(* Its next statement, and what is left of it after that.                  *)
LEMMA NextStatement ==
  ASSUME alembic \in Commands, alembic.left # << >>
  PROVE  /\ Len(alembic.left) >= 1 /\ Head(alembic.left) = alembic.left[1]
         /\ Tail(alembic.left) \in Seq(AllTables)
         /\ Len(Tail(alembic.left)) = Len(alembic.left) - 1
         /\ \A i \in 1..Len(alembic.left) - 1 : Tail(alembic.left)[i] = alembic.left[i + 1]
         /\ Head(alembic.left) \in AllTables
<1>1. alembic.left \in Seq(AllTables)
  BY DEF Commands
<1> QED
  BY <1>1, HeadTailProperties

(* The next table to make is one the command does not see yet, and refers  *)
(* to tables it sees; the next one to drop is referred to by none.         *)
LEMMA UpgradeStatement ==
  ASSUME MigrationsInv, alembic.kind = "upgrade", alembic.left # << >>
  PROVE  \/ tables = AllTables /\ alembic.sees = AllTables /\ Head(alembic.left) \in AllTables
         \/ /\ tables = {} /\ ~ Refused(Head(alembic.left))
            /\ \E n \in 0..17 : /\ alembic.sees = Before(n) /\ Rest(n)
                               /\ Head(alembic.left) = Order[n + 1]
<1>0. alembic \in Commands
  BY DEF MigrationsInv
<1>1. CASE tables = AllTables /\ alembic.sees = AllTables
  BY <1>0, <1>1, NextStatement
<1>2. ASSUME tables = {}, NEW n \in 0..18, alembic.sees = Before(n), Rest(n)
      PROVE  n \in 0..17 /\ Head(alembic.left) = Order[n + 1] /\ ~ Refused(Head(alembic.left))
  <2>1. n \in 0..17 /\ Head(alembic.left) = Order[n + 1]
    BY <1>0, <1>2, NextStatement DEF Rest
  <2>2. Order[n + 1] \notin Before(n)
    <3>1. n + 1 \in 1..18 /\ \A i \in 1..n : i \in 1..18 /\ i # n + 1
      BY <2>1
    <3>2. \A i \in 1..n : Order[n + 1] # Order[i]
      BY <3>1, OrderIsInjective
    <3> QED
      BY <3>2 DEF Before
  <2>3. References(Order[n + 1]) \subseteq Before(n)
    <3>1. n + 1 \in 1..18 /\ (n + 1) - 1 = n
      BY <2>1
    <3> QED
      BY <3>1, ReferencesStandBefore
  <2> QED
    BY <1>2, <2>1, <2>2, <2>3 DEF Refused
<1>3. \/ tables = AllTables /\ alembic.sees = AllTables
      \/ tables = {} /\ \E n \in 0..18 : alembic.sees = Before(n) /\ Rest(n)
  BY DEF MigrationsInv, Underway
<1> QED
  BY <1>1, <1>2, <1>3

(* A downgrade drops what was made last, and nothing refers to it.         *)
LEMMA DowngradeStatement ==
  ASSUME MigrationsInv, alembic.kind = "downgrade", alembic.left # << >>
  PROVE  /\ ~ StillReferenced(Head(alembic.left))
         /\ \E n \in 1..18 : /\ alembic.sees = Before(n) /\ Back(n)
                            /\ Head(alembic.left) = Order[n]
<1>0. alembic \in Commands
  BY DEF MigrationsInv
<1>1. PICK n \in 0..18 : alembic.sees = Before(n) /\ Back(n)
  BY DEF MigrationsInv, Underway
<1>2. n \in 1..18 /\ Head(alembic.left) = Order[n]
  BY <1>0, <1>1, NextStatement DEF Back
<1>3. ASSUME NEW other \in Before(n), Order[n] \in References(other) PROVE FALSE
  <2>1. PICK i \in 1..n : other = Order[i]
    BY DEF Before
  <2>2. Order[n] \in Before(i - 1)
    <3>1. i \in 1..18
      BY <1>2
    <3>2. References(Order[i]) \subseteq Before(i - 1)
      BY <3>1, ReferencesStandBefore
    <3> QED
      BY <1>3, <2>1, <3>2
  <2>3. PICK j \in 1..i - 1 : Order[n] = Order[j]
    BY <2>2 DEF Before
  <2>4. n \in 1..18 /\ j \in 1..18 /\ j # n
    BY <1>2
  <2> QED
    BY <2>3, <2>4, OrderIsInjective
<1> QED
  BY <1>1, <1>2, <1>3 DEF StillReferenced

(* A statement of the command that runs, or its failure.                   *)
LEMMA StatementInv ==
  ASSUME MigrationsInv, CreateTable \/ DropTable \/ StatementFails
  PROVE  MigrationsInv'
<1>0. /\ MigrationsTypeOK /\ alembic \in Commands /\ NoStatementDangles /\ SchemasAreWhole
      /\ UNCHANGED <<release, container, tables, receipts, revision, commands>>
  BY DEF MigrationsInv, CreateTable, DropTable, StatementFails
<1>1. ASSUME CreateTable PROVE MigrationsInv'
  <2>1. /\ alembic.kind = "upgrade" /\ alembic.left # << >> /\ ~ Refused(Head(alembic.left))
        /\ alembic' = [alembic EXCEPT !.left = Tail(@), !.sees = @ \cup {Head(alembic.left)}]
    BY <1>1 DEF CreateTable
  <2>2. /\ Tail(alembic.left) \in Seq(AllTables) /\ Head(alembic.left) \in AllTables
    BY <1>0, <2>1, NextStatement
  <2>3. /\ alembic' \in Commands /\ alembic'.kind = "upgrade" /\ alembic'.failed = alembic.failed
        /\ alembic'.left = Tail(alembic.left)
        /\ alembic'.sees = alembic.sees \cup {Head(alembic.left)}
    BY <1>0, <2>1, <2>2 DEF Commands
  <2>4. PICK n \in 0..17 : /\ tables = {} /\ alembic.sees = Before(n) /\ Rest(n)
                           /\ Head(alembic.left) = Order[n + 1]
    BY <2>1, <2>2, UpgradeStatement DEF Refused
  <2>5. alembic'.sees = Before(n + 1)
    BY <2>3, <2>4 DEF Before
  <2>6. Rest(n + 1)'
    <3>1. Len(alembic.left) = 18 - n /\ \A i \in 1..18 - n : alembic.left[i] = Order[n + i]
      BY <2>4 DEF Rest
    <3>2. /\ Len(alembic'.left) = Len(alembic.left) - 1
          /\ \A i \in 1..Len(alembic.left) - 1 : alembic'.left[i] = alembic.left[i + 1]
      BY <1>0, <2>1, <2>3, NextStatement
    <3>3. Len(alembic'.left) = 18 - (n + 1)
      BY <3>1, <3>2
    <3>4. ASSUME NEW i \in 1..18 - (n + 1) PROVE alembic'.left[i] = Order[(n + 1) + i]
      <4>1. i \in 1..(18 - n) - 1 /\ i + 1 \in 1..18 - n /\ n + (i + 1) = (n + 1) + i
        OBVIOUS
      <4>2. alembic'.left[i] = alembic.left[i + 1]
        BY <3>1, <3>2, <4>1
      <4>3. alembic.left[i + 1] = Order[n + (i + 1)]
        BY <3>1, <4>1
      <4> QED
        BY <4>1, <4>2, <4>3
    <3> QED
      BY <3>3, <3>4 DEF Rest
  <2>7. Underway'
    <3>1. revision' = "none"
      BY <1>0, <2>1 DEF MigrationsInv, Underway
    <3>2. n + 1 \in 0..18
      OBVIOUS
    <3> QED
      BY <1>0, <2>3, <2>4, <2>5, <2>6, <3>1, <3>2 DEF Underway
  <2> QED
    BY <1>0, <2>3, <2>7 DEF MigrationsInv, MigrationsTypeOK, NoStatementDangles, SchemasAreWhole,
                            Commands
<1>2. ASSUME DropTable PROVE MigrationsInv'
  <2>1. /\ alembic.kind = "downgrade" /\ alembic.left # << >>
        /\ alembic' = [alembic EXCEPT !.left = Tail(@), !.sees = @ \ {Head(alembic.left)}]
    BY <1>2 DEF DropTable
  <2>2. /\ Tail(alembic.left) \in Seq(AllTables) /\ Head(alembic.left) \in AllTables
    BY <1>0, <2>1, NextStatement
  <2>3. /\ alembic' \in Commands /\ alembic'.kind = "downgrade" /\ alembic'.failed = alembic.failed
        /\ alembic'.left = Tail(alembic.left)
        /\ alembic'.sees = alembic.sees \ {Head(alembic.left)}
    BY <1>0, <2>1, <2>2 DEF Commands
  <2>4. PICK n \in 1..18 : /\ alembic.sees = Before(n) /\ Back(n)
                           /\ Head(alembic.left) = Order[n]
    BY <2>1, DowngradeStatement
  <2>5. alembic'.sees = Before(n - 1)
    BY <2>3, <2>4, OrderIsInjective DEF Before
  <2>6. Back(n - 1)'
    <3>1. Len(alembic.left) = n /\ \A i \in 1..n : alembic.left[i] = Order[n + 1 - i]
      BY <2>4 DEF Back
    <3>2. /\ Len(alembic'.left) = Len(alembic.left) - 1
          /\ \A i \in 1..Len(alembic.left) - 1 : alembic'.left[i] = alembic.left[i + 1]
      BY <1>0, <2>1, <2>3, NextStatement
    <3>3. Len(alembic'.left) = n - 1
      BY <3>1, <3>2
    <3>4. ASSUME NEW i \in 1..n - 1 PROVE alembic'.left[i] = Order[(n - 1) + 1 - i]
      <4>1. i \in 1..n - 1 /\ i + 1 \in 1..n /\ n + 1 - (i + 1) = (n - 1) + 1 - i
        OBVIOUS
      <4>2. alembic'.left[i] = alembic.left[i + 1]
        BY <3>1, <3>2, <4>1
      <4>3. alembic.left[i + 1] = Order[n + 1 - (i + 1)]
        BY <3>1, <4>1
      <4> QED
        BY <4>1, <4>2, <4>3
    <3> QED
      BY <3>3, <3>4 DEF Back
  <2>7. Underway'
    <3>1. revision' = "initial" /\ tables' = AllTables
      BY <1>0, <2>1 DEF MigrationsInv, Underway
    <3>2. n - 1 \in 0..18
      OBVIOUS
    <3> QED
      BY <1>0, <2>3, <2>5, <2>6, <3>1, <3>2 DEF Underway
  <2> QED
    BY <1>0, <2>3, <2>7 DEF MigrationsInv, MigrationsTypeOK, NoStatementDangles, SchemasAreWhole,
                            Commands
<1>3. ASSUME StatementFails PROVE MigrationsInv'
  <2>1. alembic' = [NoCommand EXCEPT !.failed = "DuplicateTable"]
    BY <1>3, UpgradeStatement, DowngradeStatement DEF StatementFails, Refused
  <2>2. alembic' \in Commands /\ alembic'.kind = "none" /\ alembic'.failed = "DuplicateTable"
    BY <2>1, NoCommandType
  <2> QED
    BY <1>0, <2>2 DEF MigrationsInv, MigrationsTypeOK, Underway, NoStatementDangles,
                      SchemasAreWhole, Commands
<1> QED
  BY <1>1, <1>2, <1>3

(* A command that dies leaves nothing behind; one that ends, everything.   *)
LEMMA EndInv ==
  ASSUME MigrationsInv, CommandDies \/ CommitRevision
  PROVE  MigrationsInv'
<1>0. MigrationsTypeOK /\ alembic \in Commands /\ Underway /\ NoStatementDangles /\ SchemasAreWhole
  BY DEF MigrationsInv
<1>1. ASSUME CommandDies PROVE MigrationsInv'
  <2>1. alembic' \in Commands /\ alembic'.kind = "none" /\ alembic'.failed = "died"
    BY <1>1, NoCommandType DEF CommandDies
  <2> QED
    BY <1>0, <1>1, <2>1 DEF CommandDies, MigrationsInv, MigrationsTypeOK, Underway,
                            NoStatementDangles, SchemasAreWhole, Commands
<1>2. ASSUME CommitRevision PROVE MigrationsInv'
  <2>1. alembic' \in Commands /\ alembic'.kind = "none" /\ alembic'.failed = "never"
        /\ alembic'.sees = {}
    <3>1. NoCommand = [NoCommand EXCEPT !.failed = "never"] /\ NoCommand.sees = {}
      BY DEF NoCommand
    <3> QED
      BY <1>2, <3>1, NoCommandType DEF CommitRevision
  <2>2. /\ alembic.kind # "none" /\ alembic.left = << >> /\ tables' = alembic.sees
        /\ receipts' = FALSE /\ UNCHANGED <<release, container, commands>>
        /\ revision' = IF alembic.kind = "upgrade" THEN "initial" ELSE "none"
    BY <1>2 DEF CommitRevision, Migrating
  <2>3. Len(alembic.left) = 0
    BY <2>2, EmptySeq
  <2>4. CASE alembic.kind = "upgrade"
    <3>1. PICK n \in 0..18 : alembic.sees = Before(n) /\ Rest(n)
      BY <1>0, <2>3, <2>4, AllAreOrdered DEF Underway, Rest
    <3>2. n = 18
      BY <2>3, <3>1 DEF Rest
    <3>3. tables' = AllTables /\ revision' = "initial"
      BY <2>2, <2>4, <3>1, <3>2, AllAreOrdered
    <3> QED
      BY <1>0, <2>1, <2>2, <3>3 DEF MigrationsInv, MigrationsTypeOK, Underway, NoStatementDangles,
                                    SchemasAreWhole, Commands
  <2>5. CASE alembic.kind = "downgrade"
    <3>1. PICK n \in 0..18 : alembic.sees = Before(n) /\ Back(n)
      BY <1>0, <2>5 DEF Underway
    <3>2. n = 0
      BY <2>3, <3>1 DEF Back
    <3>3. tables' = {} /\ revision' = "none"
      BY <2>2, <2>5, <3>1, <3>2, AllAreOrdered
    <3> QED
      BY <1>0, <2>1, <2>2, <3>3 DEF MigrationsInv, MigrationsTypeOK, Underway, NoStatementDangles,
                                    SchemasAreWhole, Commands
  <2> QED
    BY <1>0, <2>2, <2>4, <2>5 DEF Commands
<1> QED
  BY <1>1, <1>2

(* All together.                                                           *)
LEMMA MigrationsStepInv == MigrationsInv /\ [MigrationsNext]_migrationVars => MigrationsInv'
<1> SUFFICES ASSUME MigrationsInv, [MigrationsNext]_migrationVars PROVE MigrationsInv'
  OBVIOUS
<1>0. MigrationsTypeOK /\ alembic \in Commands /\ Underway /\ NoStatementDangles /\ SchemasAreWhole
  BY DEF MigrationsInv
<1>1. CASE StartContainer
  <2>1. /\ alembic.kind = "none" /\ alembic' = alembic /\ tables' = AllTables
        /\ container' = "serving" /\ receipts' \in BOOLEAN
        /\ UNCHANGED <<release, revision, commands>>
    BY <1>0, <1>1 DEF StartContainer, Migrating, MigrationsTypeOK
  <2> QED
    BY <1>0, <2>1 DEF MigrationsInv, MigrationsTypeOK, Underway, NoStatementDangles,
                      SchemasAreWhole
<1>2. CASE StopContainer
  <2>1. container' = "down"
        /\ UNCHANGED <<release, tables, receipts, revision, alembic, commands>>
    BY <1>2 DEF StopContainer
  <2> QED
    BY <1>0, <2>1 DEF MigrationsInv, MigrationsTypeOK, Underway, NoStatementDangles,
                      SchemasAreWhole, Rest, Back
<1>3. CASE Release
  <2>1. release' = "this" /\ UNCHANGED <<container, tables, receipts, revision, alembic, commands>>
    BY <1>3 DEF Release
  <2> QED
    BY <1>0, <2>1 DEF MigrationsInv, MigrationsTypeOK, Underway, NoStatementDangles,
                      SchemasAreWhole, Rest, Back
<1>4. CASE UNCHANGED migrationVars
  BY <1>0, <1>4 DEF migrationVars, MigrationsInv, MigrationsTypeOK, Underway, NoStatementDangles,
                    SchemasAreWhole, Rest, Back
<1> QED
  BY <1>1, <1>2, <1>3, <1>4, CommandInv, StatementInv, EndInv DEF MigrationsNext

(* However containers and commands alternate, and wherever a command dies: *)
(* the revision's statements are accepted, and it is applied whole or not  *)
(* at all.                                                                 *)
THEOREM RevisionsSound == MigrationsSpec => []RevisionsAreSound
<1>1. MigrationsInv => RevisionsAreSound
  BY DEF MigrationsInv, RevisionsAreSound
<1> QED
  BY <1>1, MigrationsInitInv, MigrationsStepInv, PTL DEF MigrationsSpec

----------------------------------------------------------------------------
(* The model gateway.                                                      *)

(* The members of a sequence.                                              *)
MembersOf(s) == {s[i] : i \in 1..Len(s)}
Ascending(s) == s \in Seq(Nat) /\ \A i, j \in 1..Len(s) : i < j => s[i] < s[j]

(* Two ascending sequences of the same members agree: where they first     *)
(* differ, the smaller of the two is missing from the other.               *)
LEMMA AscendingUnique ==
  ASSUME NEW s, NEW t, Ascending(s), Ascending(t), MembersOf(s) = MembersOf(t),
         Len(s) = Len(t)
  PROVE  s = t
<1> SUFFICES ASSUME s # t PROVE FALSE
  OBVIOUS
<1>1. PICK n \in Nat : n = Len(s) /\ n = Len(t)
  BY DEF Ascending
<1>2. \A i \in 1..n : s[i] \in Nat /\ t[i] \in Nat
  BY <1>1, ElementOfSeq DEF Ascending
<1>3. \A i, j \in 1..n : i < j => s[i] < s[j] /\ t[i] < t[j]
  BY <1>1 DEF Ascending
<1>4. \E i \in 1..n : s[i] # t[i]
  BY <1>1, SeqEqual DEF Ascending
<1> DEFINE D == {i \in 1..n : s[i] # t[i]}
<1>5. IsFiniteSet(D) /\ D \subseteq Int /\ D # {}
  <2>1. D \in SUBSET (1..n) /\ D # {} /\ D \subseteq Int
    BY <1>4
  <2>2. IsFiniteSet(1..n)
    BY FS_Interval
  <2> QED
    BY <2>1, <2>2, FS_Subset
<1>6. PICK k \in 1..n : s[k] # t[k] /\ \A i \in 1..n : k < i => s[i] = t[i]
  <2>1. Max(D) \in D /\ \A i \in D : Max(D) >= i
    BY <1>5, MaxOfFinite
  <2>2. PICK k : k = Max(D)
    OBVIOUS
  <2>3. k \in 1..n /\ s[k] # t[k] /\ \A i \in 1..n : s[i] # t[i] => k >= i
    BY <2>1, <2>2
  <2> QED
    BY <2>3
<1>7. ASSUME NEW u, NEW v, \A i \in 1..n : u[i] \in Nat /\ v[i] \in Nat,
             \A i, j \in 1..n : i < j => u[i] < u[j] /\ v[i] < v[j],
             \A i \in 1..n : k < i => u[i] = v[i], u[k] < v[k]
      PROVE  \A i \in 1..n : u[i] # v[k]
  <2> TAKE i \in 1..n
  <2>1. CASE i <= k
    <3>1. u[i] <= u[k]
      BY <1>7, <2>1
    <3> QED
      BY <1>7, <3>1
  <2>2. CASE ~ (i <= k)
    <3>1. u[i] = v[i] /\ v[k] < v[i]
      BY <1>7, <2>2
    <3> QED
      BY <1>7, <3>1
  <2> QED
    BY <2>1, <2>2
<1>8. CASE s[k] < t[k]
  <2>1. \A i \in 1..n : s[i] # t[k]
    BY <1>2, <1>3, <1>6, <1>7, <1>8
  <2>2. t[k] \in MembersOf(s)
    BY <1>1 DEF MembersOf
  <2> QED
    BY <1>1, <2>1, <2>2 DEF MembersOf
<1>9. CASE t[k] < s[k]
  <2>1. \A i \in 1..n : t[i] # s[k]
    BY <1>2, <1>3, <1>6, <1>7, <1>9
  <2>2. s[k] \in MembersOf(t)
    BY <1>1 DEF MembersOf
  <2> QED
    BY <1>1, <2>1, <2>2 DEF MembersOf
<1> QED
  BY <1>2, <1>6, <1>8, <1>9

(* An ascending sequence of the members of a set is the one InOrder names. *)
LEMMA InOrderIs ==
  ASSUME NEW s, Ascending(s)
  PROVE  InOrder(MembersOf(s)) = s
<1> DEFINE S == MembersOf(s)
           n == Len(s)
<1>1. n \in Nat /\ s \in [1..n -> S] /\ S \subseteq Nat
      /\ \A i, j \in 1..n : i < j => s[i] < s[j]
  BY DEF Ascending, MembersOf
<1>2. s \in Injection(1..n, S) /\ s \in Surjection(1..n, S)
  <2>1. ASSUME NEW i \in 1..n, NEW j \in 1..n, s[i] = s[j] PROVE i = j
    BY <1>1, <2>1
  <2>2. \A x \in S : \E i \in 1..n : s[i] = x
    BY DEF MembersOf
  <2> QED
    BY <1>1, <2>1, <2>2, Zenon DEF Injection, Surjection, IsInjective
<1>3. IsFiniteSet(S) /\ Cardinality(S) = n /\ IsFiniteSet(1..n) /\ Cardinality(1..n) = n
  <2>1. IsFiniteSet(1..n) /\ Cardinality(1..n) = n
    <3>1. PICK m \in Nat : m = n
      BY <1>1
    <3>2. IsFiniteSet(1..m) /\ Cardinality(1..m) = IF 1 > m THEN 0 ELSE m - 1 + 1
      BY FS_Interval
    <3> QED
      BY <3>1, <3>2
  <2> HIDE DEF S, n
  <2> QED
    BY <1>2, <2>1, FS_Surjection
<1>4. Increasing(s)
  BY <1>1 DEF Increasing
<1>5. ASSUME NEW t \in [1..n -> S], Increasing(t) PROVE t = s
  <2>1. t \in Seq(Nat) /\ Len(t) = n
    BY <1>1
  <2>2. Ascending(t)
    BY <1>5, <2>1 DEF Ascending, Increasing
  <2>3. t \in Injection(1..n, S)
    <3>1. ASSUME NEW i \in 1..n, NEW j \in 1..n, t[i] = t[j] PROVE i = j
      BY <2>1, <2>2, <3>1 DEF Ascending
    <3> QED
      BY <3>1 DEF Injection, IsInjective
  <2>4. t \in Surjection(1..n, S)
    <3> HIDE DEF S, n
    <3> QED
      BY <1>3, <2>3, FS_Injection
  <2>5. MembersOf(t) = S
    BY <2>1, <2>4 DEF MembersOf, Surjection
  <2> QED
    BY <2>1, <2>2, <2>5, AscendingUnique
<1> QED
  <2> HIDE DEF S, n
  <2>1. s \in [1..Cardinality(S) -> S] /\ Increasing(s)
    BY <1>1, <1>3, <1>4
  <2>2. \A t \in [1..Cardinality(S) -> S] : Increasing(t) => t = s
    BY <1>3, <1>5
  <2> QED
    BY <2>1, <2>2 DEF InOrder, S

----------------------------------------------------------------------------
Raisings == {"nothing", "GatewayError", "ConfigurationError", "AttributeError", "TypeError"}

Wholes == {"text", "named_text"}
Namings == {"named", "named_text"}

(* What arrived is what the body says, and nothing is answered before the  *)
(* body ends.                                                              *)
GatewayInv ==
  /\ call \in [at : {"idle", "posted", "ended"}, wants : {"text", "json"},
               met : {"none"} \cup Objects]
  /\ body \in Seq(Lines)
  /\ Ascending(spoken.whole)
  /\ MembersOf(spoken.whole) = Numbers(body, Wholes)
  /\ spoken.named = Numbers(body, Namings)
  /\ result.raised \in Raisings
  /\ call.at # "ended" => result = NoResult
  /\ AnswersAreRead

(* A failure: whoever reads the result reads no content.                   *)
LEMMA FailsAs ==
  ASSUME NEW error
  PROVE  Fails(error).content = << >> /\ Fails(error).raised = error
BY DEF Fails, NoResult

(* Nothing is said of an answer that is not there.                         *)
LEMMA UnansweredIsRead ==
  ASSUME call.at # "ended" \/ result.raised # "nothing"
  PROVE  AnswersAreRead
BY DEF AnswersAreRead, StreamsAreReadInOrder, OthersAreObjects, Answered

(* The call has not been made.                                             *)
LEMMA GatewayInitInv == GatewayInit => GatewayInv
<1> SUFFICES ASSUME GatewayInit PROVE GatewayInv
  OBVIOUS
<1>1. /\ body = << >> /\ Len(<< >>) = 0 /\ << >> \in Seq(Lines) /\ << >> \in Seq(Nat)
      /\ result = NoResult /\ spoken.whole = << >> /\ spoken.named = {}
  BY DEF GatewayInit
<1>2. \A kinds : Numbers(body, kinds) = {}
  BY <1>1 DEF Numbers
<1>3. Ascending(<< >>) /\ MembersOf(<< >>) = {}
  BY <1>1 DEF Ascending, MembersOf
<1>4. call.at = "idle" /\ call \in [at : {"idle", "posted", "ended"}, wants : {"text", "json"},
                                    met : {"none"} \cup Objects]
  BY DEF GatewayInit
<1>5. AnswersAreRead
  BY <1>4, UnansweredIsRead
<1> QED
  BY <1>1, <1>2, <1>3, <1>4, <1>5 DEF GatewayInv, Raisings, NoResult

(* A number greater than all of an ascending sequence continues it.        *)
LEMMA AscendingAppend ==
  ASSUME NEW c, Ascending(c), NEW n \in Nat, \A i \in MembersOf(c) : i < n
  PROVE  Ascending(Append(c, n)) /\ MembersOf(Append(c, n)) = MembersOf(c) \cup {n}
<1>1. /\ Append(c, n) \in Seq(Nat) /\ Len(Append(c, n)) = Len(c) + 1
      /\ \A i \in 1..Len(c) : Append(c, n)[i] = c[i]
      /\ Append(c, n)[Len(c) + 1] = n
  BY AppendProperties DEF Ascending
<1>2. PICK d, k : d = Append(c, n) /\ k = Len(c) /\ k \in Nat
  <2>1. Len(c) \in Nat
    BY DEF Ascending
  <2> QED
    BY <2>1
<1>3. \A i : i \in 1..(k + 1) <=> i \in 1..k \/ i = k + 1
  BY <1>2
<1>4. MembersOf(d) = MembersOf(c) \cup {n}
  BY <1>1, <1>2, <1>3 DEF MembersOf
<1>5. \A i \in 1..k : c[i] < n
  BY <1>2 DEF MembersOf
<1>6. ASSUME NEW i \in 1..(k + 1), NEW j \in 1..(k + 1), i < j PROVE d[i] < d[j]
  <2>1. i \in 1..k
    BY <1>2, <1>6
  <2>2. CASE j = k + 1
    BY <1>1, <1>2, <1>5, <2>1, <2>2
  <2>3. CASE j \in 1..k
    BY <1>1, <1>2, <1>6, <2>1, <2>3 DEF Ascending
  <2> QED
    BY <1>3, <2>2, <2>3
<1> QED
  BY <1>1, <1>2, <1>4, <1>6 DEF Ascending

(* Before the call ends, what arrived changes no answer.                   *)
LEMMA LineArrivesInv ==
  ASSUME GatewayInv, NEW line \in Lines, LineArrives(line)
  PROVE  GatewayInv'
<1>1. PICK n \in Nat : n = Len(body) + 1
  BY DEF GatewayInv
<1>2. /\ body' = Append(body, line) /\ Len(body') = n /\ body' \in Seq(Lines) /\ body'[n] = line
      /\ \A i \in 1..Len(body) : body'[i] = body[i]
  BY <1>1, AppendProperties DEF GatewayInv, LineArrives
<1>3. call' = call /\ result' = result /\ call.at = "posted" /\ result = NoResult
  BY DEF GatewayInv, LineArrives
<1>4. \A kinds : Numbers(body', kinds) = Numbers(body, kinds) \cup (IF line \in kinds THEN {n} ELSE {})
  <2> TAKE kinds
  <2>1. \A i : i \in 1..n <=> i \in 1..Len(body) \/ i = n
    BY <1>1
  <2>2. n \notin 1..Len(body)
    BY <1>1
  <2> QED
    BY <1>2, <2>1, <2>2 DEF Numbers
<1>5. Ascending(spoken'.whole) /\ MembersOf(spoken'.whole) = Numbers(body', Wholes)
  <2>1. spoken'.whole = IF line \in Wholes THEN Append(spoken.whole, n) ELSE spoken.whole
    BY <1>1 DEF LineArrives, Wholes
  <2>2. Ascending(spoken.whole) /\ MembersOf(spoken.whole) = Numbers(body, Wholes)
    BY DEF GatewayInv
  <2>3. \A i \in Numbers(body, Wholes) : i < n
    BY <1>1 DEF Numbers
  <2>4. CASE line \in Wholes
    <3>1. Numbers(body', Wholes) = Numbers(body, Wholes) \cup {n}
      BY <1>4, <2>4
    <3>2. /\ Ascending(Append(spoken.whole, n))
          /\ MembersOf(Append(spoken.whole, n)) = MembersOf(spoken.whole) \cup {n}
      BY <2>2, <2>3, AscendingAppend
    <3> QED
      BY <2>1, <2>2, <2>4, <3>1, <3>2 DEF Ascending, MembersOf
  <2>5. CASE line \notin Wholes
    BY <1>4, <2>1, <2>2, <2>5
  <2> QED
    BY <2>4, <2>5
<1>6. spoken'.named = Numbers(body', Namings)
  <2>1. spoken'.named = IF line \in Namings THEN spoken.named \cup {n} ELSE spoken.named
    BY <1>1 DEF LineArrives, Namings
  <2>2. Numbers(body', Namings) = Numbers(body, Namings) \cup (IF line \in Namings THEN {n} ELSE {})
    BY <1>4
  <2> QED
    BY <2>1, <2>2 DEF GatewayInv
<1>7. AnswersAreRead'
  <2>1. call'.at # "ended"
    BY <1>3
  <2> QED
    BY <2>1, UnansweredIsRead DEF AnswersAreRead, StreamsAreReadInOrder, OthersAreObjects, Answered
<1> QED
  BY <1>2, <1>3, <1>5, <1>6, <1>7 DEF GatewayInv, Raisings, NoResult

(* What a stream is parsed to is what arrived of it whole, and the number  *)
(* of a line that names the model, or 0 where none does.                   *)
LEMMA StreamsAreParsed ==
  ASSUME GatewayInv, ParsedStream(body).raised = "nothing"
  PROVE  /\ ParsedStream(body).content = spoken.whole
         /\ ParsedStream(body).model \in {0} \cup spoken.named
         /\ ParsedStream(body).model = 0 <=> spoken.named = {}
<1>1. Numbers(body, {"bare"}) = {} /\ Numbers(body, {"value"}) = {}
  BY DEF ParsedStream, Fails, NoResult
<1>2. ParsedStream(body) = [content |-> InOrder(Numbers(body, WithText)),
                           model |-> Max({0} \cup Numbers(body, WithName)), raised |-> "nothing"]
  BY <1>1 DEF ParsedStream
<1>3. InOrder(Numbers(body, WithText)) = spoken.whole
  BY InOrderIs DEF GatewayInv, Wholes, WithText
<1>4. PICK m : m = Max({0} \cup spoken.named) /\ m = ParsedStream(body).model
  BY <1>2 DEF GatewayInv, Namings, WithName
<1>5. m \in {0} \cup spoken.named /\ \A i \in {0} \cup spoken.named : m >= i
  <2> DEFINE S == {0} \cup spoken.named
  <2>1. Numbers(body, Namings) \subseteq 1..Len(body) /\ Len(body) \in Nat
    BY DEF Numbers, GatewayInv
  <2>2. S \subseteq 0..Len(body) /\ spoken.named \subseteq 1..Len(body) /\ S # {}
    BY <2>1 DEF GatewayInv
  <2>3. IsFiniteSet(0..Len(body)) /\ S \subseteq Int
    BY <2>1, <2>2, FS_Interval
  <2>4. IsFiniteSet(S)
    BY <2>2, <2>3, FS_Subset
  <2> HIDE DEF S
  <2>5. Max(S) \in S /\ \A i \in S : Max(S) >= i
    BY <2>2, <2>3, <2>4, MaxOfFinite
  <2> QED
    BY <1>4, <2>5 DEF S
<1>6. \A i \in spoken.named : i >= 1 /\ i \in Nat
  BY DEF GatewayInv, Numbers
<1>7. m = 0 <=> spoken.named = {}
  BY <1>5, <1>6
<1> QED
  BY <1>2, <1>3, <1>4, <1>5, <1>7

(* What the object of a body without events is parsed to.                  *)
LEMMA ObjectsAreParsed ==
  ASSUME NEW object \in Objects
  PROVE  /\ ParsedObject(object).raised \in {"nothing", "GatewayError"}
         /\ ParsedObject(object).raised = "nothing" =>
              /\ object \in {"answer", "null", "value"}
              /\ ParsedObject(object).content =
                   IF object = "answer" THEN <<0>> ELSE IF object = "value" THEN <<-1>> ELSE << >>
         /\ ParsedObject("garbage").raised = "GatewayError"
<1>1. CASE object = "answer"
  BY <1>1, FailsAs DEF ParsedObject, NoResult
<1>2. CASE object = "value"
  BY <1>2, FailsAs DEF ParsedObject, NoResult
<1>3. CASE object = "null"
  BY <1>3, FailsAs DEF ParsedObject, NoResult
<1>4. CASE object \in {"shapeless", "garbage"}
  BY <1>4, FailsAs DEF ParsedObject
<1> QED
  BY <1>1, <1>2, <1>3, <1>4, FailsAs DEF Objects, ParsedObject

(* The body ends.                                                          *)
LEMMA BodyEndsInv ==
  ASSUME GatewayInv, NEW object \in Objects, NEW isJson \in BOOLEAN, BodyEnds(object, isJson)
  PROVE  GatewayInv'
<1>1. /\ body' = body /\ spoken' = spoken /\ call'.at = "ended" /\ call'.met = object
      /\ call'.wants = call.wants /\ call.wants \in {"text", "json"}
      /\ call' \in [at : {"idle", "posted", "ended"}, wants : {"text", "json"},
                    met : {"none"} \cup Objects]
  BY DEF GatewayInv, BodyEnds
<1>2. PICK stream, parsed : stream = ParsedStream(body) /\ parsed = Parsed(body, object)
  OBVIOUS
<1>3. \/ stream.raised \in {"AttributeError", "TypeError"}
      \/ /\ stream.raised = "nothing" /\ stream.content = spoken.whole
         /\ stream.model \in {0} \cup spoken.named /\ (stream.model = 0 <=> spoken.named = {})
  <2>1. stream.raised \in {"AttributeError", "TypeError", "nothing"}
    BY <1>2, FailsAs DEF ParsedStream
  <2> QED
    BY <1>2, <2>1, StreamsAreParsed
(* What became of the body: read, not an object, or an object.             *)
<1>4. \/ parsed = stream /\ stream.raised \in {"AttributeError", "TypeError"}
      \/ parsed = stream /\ stream.raised = "nothing" /\ stream.content # << >>
      \/ spoken.whole = << >> /\ body # << >> /\ parsed = ParsedObject("garbage")
      \/ spoken.whole = << >> /\ body = << >> /\ parsed = ParsedObject(object)
  BY <1>2, <1>3 DEF Parsed
(* A text was read, or the object, or the call fails.                      *)
<1>5. \/ parsed.raised \in {"GatewayError", "AttributeError", "TypeError"}
      \/ /\ spoken.whole # << >> /\ parsed.raised = "nothing" /\ parsed.content = spoken.whole
         /\ parsed.model \in {0} \cup spoken.named /\ (parsed.model = 0 <=> spoken.named = {})
      \/ /\ spoken.whole = << >> /\ body = << >> /\ parsed.raised = "nothing"
         /\ object \in {"answer", "null", "value"}
         /\ parsed.content =
              IF object = "answer" THEN <<0>> ELSE IF object = "value" THEN <<-1>> ELSE << >>
  BY <1>3, <1>4, ObjectsAreParsed
<1>6. \/ call.wants = "text" /\ result' = parsed
      \/ /\ call.wants = "json"
         /\ \/ result' = parsed /\ (parsed.raised = "nothing" => parsed.content \notin {<< >>, <<-1>>})
            \/ result'.raised \in {"TypeError", "GatewayError"}
  <2>1. result' = IF call.wants = "text" THEN parsed ELSE Structured(parsed, isJson)
    BY <1>2 DEF BodyEnds
  <2>2. \/ /\ Structured(parsed, isJson) = parsed
           /\ parsed.raised = "nothing" => parsed.content \notin {<< >>, <<-1>>}
        \/ Structured(parsed, isJson).raised \in {"TypeError", "GatewayError"}
    BY FailsAs DEF Structured
  <2> QED
    BY <1>1, <2>1, <2>2
<1>7. result'.raised \in Raisings
  BY <1>5, <1>6 DEF Raisings
<1>8. AnswersAreRead'
  <2>1. CASE result'.raised # "nothing"
    BY <2>1 DEF AnswersAreRead, StreamsAreReadInOrder, OthersAreObjects, Answered
  <2>2. CASE result'.raised = "nothing"
    <3>1. /\ result' = parsed /\ parsed.raised = "nothing"
          /\ call.wants = "json" => parsed.content \notin {<< >>, <<-1>>}
      BY <1>6, <2>2
    <3>2. CASE spoken.whole # << >>
      BY <1>1, <1>5, <3>1, <3>2 DEF AnswersAreRead, StreamsAreReadInOrder, OthersAreObjects, Answered
    <3>3. CASE spoken.whole = << >>
      <4>1. /\ body = << >> /\ object \in {"answer", "null", "value"}
            /\ object = "answer" <=> parsed.content = <<0>>
            /\ call.wants = "json" => object = "answer"
        <5>1. <<0>> # <<-1>> /\ <<0>> # << >>
          OBVIOUS
        <5> QED
          BY <1>5, <3>1, <3>3, <5>1
      <4> QED
        BY <1>1, <3>1, <3>3, <4>1 DEF AnswersAreRead, StreamsAreReadInOrder, OthersAreObjects, Answered
    <3> QED
      BY <3>2, <3>3
  <2> QED
    BY <2>1, <2>2
<1> QED
  BY <1>1, <1>7, <1>8 DEF GatewayInv

(* All together.                                                           *)
LEMMA GatewayStepInv == GatewayInv /\ [GatewayNext]_gatewayVars => GatewayInv'
<1> SUFFICES ASSUME GatewayInv, [GatewayNext]_gatewayVars PROVE GatewayInv'
  OBVIOUS
<1>0. ASSUME call'.at # "ended" \/ result'.raised # "nothing" PROVE AnswersAreRead'
  BY <1>0 DEF AnswersAreRead, StreamsAreReadInOrder, OthersAreObjects, Answered
<1>1. ASSUME NEW error, result' = Fails(error), error \in {"GatewayError", "ConfigurationError"},
             call' = [call EXCEPT !.at = "ended"], body' = body, spoken' = spoken
      PROVE  GatewayInv'
  <2>1. result'.raised = error
    BY <1>1, FailsAs
  <2>2. AnswersAreRead'
    BY <1>0, <1>1, <2>1
  <2> QED
    BY <1>1, <2>1, <2>2 DEF GatewayInv, Raisings
<1>2. CASE Post
  <2>1. CASE result' = Fails("ConfigurationError") /\ call' = [call EXCEPT !.at = "ended"]
    BY <1>1, <1>2, <2>1 DEF Post
  <2>2. CASE call' = [call EXCEPT !.at = "posted"] /\ result' = result
    <3>1. body' = body /\ spoken' = spoken /\ result = NoResult
      BY <1>2 DEF Post, GatewayInv
    <3>2. AnswersAreRead'
      <4>1. call'.at = "posted"
        BY <2>2 DEF GatewayInv
      <4> QED
        BY <1>0, <4>1
    <3> QED
      BY <2>2, <3>1, <3>2 DEF GatewayInv
  <2> QED
    BY <1>2, <2>1, <2>2 DEF Post
<1>3. CASE TransportFails
  BY <1>1, <1>3 DEF TransportFails
<1>4. ASSUME NEW line \in Lines, LineArrives(line) PROVE GatewayInv'
  BY <1>4, LineArrivesInv
<1>5. ASSUME NEW object \in Objects, NEW isJson \in BOOLEAN, BodyEnds(object, isJson)
      PROVE  GatewayInv'
  BY <1>5, BodyEndsInv
<1>6. CASE UNCHANGED gatewayVars
  BY <1>6 DEF gatewayVars, GatewayInv, AnswersAreRead, StreamsAreReadInOrder, OthersAreObjects,
              Answered
<1> QED
  BY <1>2, <1>3, <1>4, <1>5, <1>6 DEF GatewayNext

(* For a body of any length: an answer taken from a stream says every text *)
(* that arrived whole, in order, and names a model some event named, if    *)
(* one did; any other answer is the content of a body that was one JSON    *)
(* object, a text where JSON was asked for (gateway.py:97-197).            *)
THEOREM AnswersRead == GatewaySpec => []AnswersAreRead
<1>1. GatewayInv => AnswersAreRead
  BY DEF GatewayInv
<1> QED
  BY <1>1, GatewayInitInv, GatewayStepInv, PTL DEF GatewaySpec
----------------------------------------------------------------------------
(* The three together, as one run checks them.                             *)
BodyBounded == Len(body) <= MaxLines
PlatformInv == PoolInv /\ MigrationsInv /\ GatewayInv /\ BodyBounded

LEMMA PlatformInit == Init => PlatformInv
<1> SUFFICES ASSUME Init PROVE PlatformInv
  OBVIOUS
<1>1. PoolInv /\ MigrationsInv /\ GatewayInv
  BY PoolInitInv, MigrationsInitInv, GatewayInitInv DEF Init
<1>2. BodyBounded
  BY GatewayAssumption DEF Init, GatewayInit, BodyBounded
<1> QED
  BY <1>1, <1>2 DEF PlatformInv

(* No line arrives beyond the bound.                                       *)
LEMMA BodyStaysBounded ==
  ASSUME GatewayInv, BodyBounded, [GatewayNext]_gatewayVars
  PROVE  BodyBounded'
<1>1. ASSUME NEW line \in Lines, LineArrives(line) PROVE BodyBounded'
  <2>0. /\ Len(body) + 1 <= MaxLines /\ body' = Append(body, line)
        /\ body \in Seq(Lines) /\ Len(body) \in Nat
    BY <1>1 DEF LineArrives, GatewayInv
  <2>1. Len(body') = Len(body) + 1
    BY <2>0
  <2> QED
    BY <2>0, <2>1 DEF BodyBounded
<1>2. CASE UNCHANGED gatewayVars
  BY <1>2 DEF gatewayVars, BodyBounded
<1>3. CASE UNCHANGED body
  BY <1>3 DEF BodyBounded
<1> QED
  BY <1>1, <1>2, <1>3 DEF GatewayNext, Post, TransportFails, BodyEnds

(* A step of one part leaves the others alone.                             *)
LEMMA PlatformStep ==
  ASSUME PlatformInv, [Next]_<<part, poolVars, migrationVars, gatewayVars>>
  PROVE  PlatformInv'
<1>1. [PoolNext]_poolVars /\ [MigrationsNext]_migrationVars /\ [GatewayNext]_gatewayVars
  BY DEF Next
<1> QED
  BY <1>1, PoolStepInv, MigrationsStepInv, GatewayStepInv, BodyStaysBounded DEF PlatformInv

(* The composition of the three as the run checks it: every variable of    *)
(* every part keeps its type, for every pool size, every number of         *)
(* commands and bodies of every length.                                    *)
THEOREM PlatformTypes == Spec => []PlatformTypeOK
<1>1. PlatformInv => PlatformTypeOK
  BY DEF PlatformInv, PlatformTypeOK, PoolInv, MigrationsInv, GatewayInv, GatewayTypeOK,
         BodyBounded, Raisings
<1> QED
  BY <1>1, PlatformInit, PlatformStep, PTL DEF Spec
=============================================================================
