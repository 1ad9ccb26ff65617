--------------------------- MODULE ServicesProofs ---------------------------
(***************************************************************************)
(* What holds of the services that keep rows, sessions or threads, one     *)
(* section for each: for every number of concurrent requests and every     *)
(* value of the other constants.                                           *)
(***************************************************************************)
EXTENDS CustomerCredit, PromptStore, Catalogue, AutomationRules,
        BusinessMemory, Conversations, Accounts, SumTheorems,
        SequenceTheorems

----------------------------------------------------------------------------
(* Customer credit, whatever the number of requests and the limits.        *)

(* What a request carries between its read and its commit.  The balance it *)
(* read may be gone, but the checks made on it bound what it will write:   *)
(* by the highest limit so far, which never falls, instead of the limit    *)
(* now in force, which may.                                                *)
Carried(r) ==
  /\ r.at = "commit" <=> r.op # "none"
  /\ r.op = "create" => r.customer \notin stored
  /\ r.op \in {"limit", "add", "pay"} => r.customer \in stored
  /\ r.op \in {"add", "pay"} =>
       /\ r.amount >= 1 /\ r.seen >= 0
       /\ "balance" \notin r.stale => r.seen = balance[r.customer]
  /\ r.op = "add" =>
       /\ r.seen + r.amount <= highest[r.customer]
       /\ "limit" \notin r.stale => r.seen + r.amount <= limit[r.customer]
  /\ r.op = "pay" => r.amount <= r.seen /\ r.seen <= highest[r.customer]

AllCarried == \A k \in Clerks : Carried(clerk[k])

OneCreation ==
  \A j, k \in Clerks :
    clerk[j].op = "create" /\ clerk[k].op = "create" /\ clerk[j].customer = clerk[k].customer
    => j = k

LimitsTracked == \A c \in Customers : limit[c] <= highest[c]

CreditInv ==
  /\ CreditTypeOK /\ AllCarried /\ OneCreation /\ LimitsTracked
  /\ BalanceWithinLimits /\ BalanceIsOwed

LEMMA NewClerkType ==
  /\ NewClerk.customer \in Customers /\ NewClerk.at = "new" /\ NewClerk.op = "none"
  /\ NewClerk = [at |-> "new", op |-> "none", customer |-> NewClerk.customer,
                 amount |-> 0, seen |-> 0, stale |-> {}]
BY CreditAssumption DEF NewClerk

LEMMA LargerFacts ==
  ASSUME NEW a \in Int, NEW b \in Int
  PROVE  /\ Larger(a, b) \in Int /\ a <= Larger(a, b) /\ b <= Larger(a, b)
         /\ Larger(a, b) \in {a, b}
BY DEF Larger

LEMMA CreditInitInv == CreditInit => CreditInv
<1> SUFFICES ASSUME CreditInit PROVE CreditInv
  OBVIOUS
<1>1. CreditTypeOK
  BY NewClerkType DEF CreditInit, CreditTypeOK
<1>2. AllCarried /\ OneCreation
  BY NewClerkType DEF CreditInit, AllCarried, OneCreation, Carried
<1>3. LimitsTracked /\ BalanceWithinLimits /\ BalanceIsOwed
  BY DEF CreditInit, LimitsTracked, BalanceWithinLimits, BalanceIsOwed
<1> QED
  BY <1>1, <1>2, <1>3 DEF CreditInv

(* A request ends without having written anything.                         *)
LEMMA AnswerInv ==
  ASSUME CreditInv, NEW k \in Clerks, NEW outcome \in {"refused", "failed", "lost"},
         Answer(k, outcome)
  PROVE  CreditInv'
<1>1. /\ clerk' = [clerk EXCEPT ![k] = [NewClerk EXCEPT !.at = outcome]]
      /\ UNCHANGED <<stored, limit, balance, owed, highest, raced>>
  BY DEF Answer
<1>2. CreditTypeOK'
  BY <1>1, NewClerkType DEF CreditInv, CreditTypeOK
<1>3. AllCarried'
  BY <1>1, NewClerkType DEF CreditInv, CreditTypeOK, AllCarried, Carried
<1>4. OneCreation'
  BY <1>1, NewClerkType DEF CreditInv, CreditTypeOK, OneCreation
<1>5. LimitsTracked' /\ BalanceWithinLimits' /\ BalanceIsOwed'
  BY <1>1 DEF CreditInv, LimitsTracked, BalanceWithinLimits, BalanceIsOwed
<1> QED
  BY <1>2, <1>3, <1>4, <1>5 DEF CreditInv

(* A request has read and checked, and goes on to write.                   *)
LEMMA ToWriteInv ==
  ASSUME CreditInv, NEW k \in Clerks, NEW op \in {"create", "limit", "add", "pay"},
         NEW c \in Customers, NEW amount \in Int, ToWrite(k, op, c, amount),
         op = "create" => /\ c \notin stored
                          /\ \A j \in Clerks : ~(clerk[j].op = "create" /\ clerk[j].customer = c),
         op \in {"limit", "add", "pay"} => c \in stored,
         op \in {"add", "pay"} => amount >= 1,
         op = "add" => CreditAllowed(c, amount),
         op = "pay" => amount <= balance[c]
  PROVE  CreditInv'
<1> DEFINE r == [at |-> "commit", op |-> op, customer |-> c, amount |-> amount,
                 seen |-> balance[c], stale |-> {}]
<1>1. /\ clerk' = [clerk EXCEPT ![k] = r]
      /\ UNCHANGED <<stored, limit, balance, owed, highest, raced>>
  BY DEF ToWrite
<1>2. /\ balance[c] \in Int /\ limit[c] \in Int /\ highest[c] \in Int
      /\ 0 <= balance[c] /\ balance[c] <= highest[c] /\ limit[c] <= highest[c]
  BY DEF CreditInv, CreditTypeOK, BalanceWithinLimits, LimitsTracked
<1>3. Carried(r)
  BY <1>2 DEF Carried, CreditAllowed
<1>4. \A j \in Clerks : clerk'[j] = IF j = k THEN r ELSE clerk[j]
  BY <1>1 DEF CreditInv, CreditTypeOK
<1>5. CreditTypeOK'
  BY <1>1, <1>2 DEF CreditInv, CreditTypeOK
<1>6. AllCarried'
  <2>1. ASSUME NEW j \in Clerks PROVE Carried(clerk'[j])
    BY <1>3, <1>4 DEF CreditInv, AllCarried
  <2> QED
    BY <2>1, <1>1 DEF AllCarried, Carried
<1>7. OneCreation'
  BY <1>4 DEF CreditInv, OneCreation
<1>8. LimitsTracked' /\ BalanceWithinLimits' /\ BalanceIsOwed'
  BY <1>1 DEF CreditInv, LimitsTracked, BalanceWithinLimits, BalanceIsOwed
<1> QED
  BY <1>5, <1>6, <1>7, <1>8 DEF CreditInv

(* What a commit does to the requests that are still on their way.         *)
Overtaken(j, k, columns) ==
  /\ clerk'[j].at = clerk[j].at /\ clerk'[j].op = clerk[j].op
  /\ clerk'[j].customer = clerk[j].customer
  /\ clerk'[j].amount = clerk[j].amount /\ clerk'[j].seen = clerk[j].seen
  /\ clerk'[j].stale =
       IF clerk[j].at = "commit" /\ clerk[j].customer = clerk[k].customer
       THEN clerk[j].stale \cup columns ELSE clerk[j].stale

(* Whoever is not at the counter is overtaken, and creates what nobody     *)
(* else does.                                                              *)
LEMMA FinishFacts ==
  ASSUME CreditInv, NEW k \in Clerks, NEW columns \in SUBSET {"limit", "balance"},
         Finish(k, columns)
  PROVE  /\ clerk' \in [Clerks -> [at : {"new", "commit", "done", "refused", "failed", "lost"},
                                   op : {"none", "create", "limit", "add", "pay"},
                                   customer : Customers, amount : Int, seen : Int,
                                   stale : SUBSET {"limit", "balance"}]]
         /\ clerk'[k] = [NewClerk EXCEPT !.at = "done"]
         /\ \A j \in Clerks \ {k} : Overtaken(j, k, columns)
         /\ OneCreation'
<1>1. /\ clerk'[k] = [NewClerk EXCEPT !.at = "done"]
      /\ \A j \in Clerks \ {k} :
           clerk'[j] = IF clerk[j].at = "commit" /\ clerk[j].customer = clerk[k].customer
                       THEN [clerk[j] EXCEPT !.stale = @ \cup columns] ELSE clerk[j]
  BY DEF Finish
<1>2. ASSUME NEW j \in Clerks \ {k} PROVE Overtaken(j, k, columns)
  BY <1>1 DEF CreditInv, CreditTypeOK, Overtaken
<1>3. clerk' \in [Clerks -> [at : {"new", "commit", "done", "refused", "failed", "lost"},
                             op : {"none", "create", "limit", "add", "pay"},
                             customer : Customers, amount : Int, seen : Int,
                             stale : SUBSET {"limit", "balance"}]]
  BY NewClerkType DEF Finish, CreditInv, CreditTypeOK
<1>4. OneCreation'
  <2>1. clerk'[k].op = "none"
    BY <1>1, NewClerkType
  <2> SUFFICES ASSUME NEW i \in Clerks, NEW j \in Clerks, clerk'[i].op = "create",
                      clerk'[j].op = "create", clerk'[i].customer = clerk'[j].customer
               PROVE  i = j
    BY DEF OneCreation
  <2>2. i # k /\ j # k
    BY <2>1
  <2>3. /\ clerk[i].op = "create" /\ clerk[j].op = "create"
        /\ clerk[i].customer = clerk[j].customer
    BY <1>2, <2>2 DEF Overtaken
  <2> QED
    BY <2>3 DEF CreditInv, OneCreation
<1> QED
  BY <1>1, <1>2, <1>3, <1>4

(* A limit is written, by a creation or by an edit.                        *)
LEMMA LimitWriteInv ==
  ASSUME CreditInv, NEW k \in Clerks, clerk[k].at = "commit",
         NEW columns \in SUBSET {"limit", "balance"}, Finish(k, columns),
         limit' = [limit EXCEPT ![clerk[k].customer] = clerk[k].amount],
         highest' = [highest EXCEPT ![clerk[k].customer] = Larger(@, clerk[k].amount)],
         UNCHANGED <<balance, owed, raced>>,
         \/ clerk[k].op = "create" /\ stored' = stored \cup {clerk[k].customer}
         \/ clerk[k].op = "limit" /\ stored' = stored /\ "limit" \in columns
  PROVE  CreditInv'
<1> DEFINE c == clerk[k].customer
<1>1. /\ c \in Customers /\ clerk[k].amount \in Int /\ highest[c] \in Int
      /\ \A d \in Customers : limit[d] \in Int /\ highest[d] \in Int /\ balance[d] \in Int
  BY DEF CreditInv, CreditTypeOK
<1>2. /\ Larger(highest[c], clerk[k].amount) \in Int
      /\ highest[c] <= Larger(highest[c], clerk[k].amount)
      /\ clerk[k].amount <= Larger(highest[c], clerk[k].amount)
  BY <1>1, LargerFacts
<1>3. /\ \A d \in Customers : highest'[d] \in Int /\ highest[d] <= highest'[d]
      /\ \A d \in Customers \ {c} : limit'[d] = limit[d]
      /\ limit'[c] = clerk[k].amount /\ clerk[k].amount <= highest'[c]
  BY <1>1, <1>2 DEF CreditInv, CreditTypeOK
<1>4. CreditTypeOK'
  BY <1>1, <1>2, FinishFacts DEF CreditInv, CreditTypeOK
<1>5. AllCarried'
  <2> SUFFICES ASSUME NEW j \in Clerks PROVE Carried(clerk[j])'
    BY DEF AllCarried
  <2>1. CASE j = k
    BY <2>1, FinishFacts, NewClerkType DEF Carried
  <2>2. CASE j # k
    <3>1. /\ clerk'[j].at = clerk[j].at /\ clerk'[j].op = clerk[j].op
          /\ clerk'[j].customer = clerk[j].customer
          /\ clerk'[j].amount = clerk[j].amount /\ clerk'[j].seen = clerk[j].seen
          /\ clerk[j].stale \subseteq clerk'[j].stale
          /\ clerk[j].at = "commit" /\ clerk[j].customer = c => columns \subseteq clerk'[j].stale
      <4>1. j \in Clerks \ {k}
        BY <2>2
      <4>2. Overtaken(j, k, columns)
        BY <4>1, FinishFacts
      <4> QED
        BY <4>2 DEF Overtaken
    <3>2. Carried(clerk[j]) /\ Carried(clerk[k])
      BY DEF CreditInv, AllCarried
    <3>3. clerk[j].op = "create" => clerk[j].customer \notin stored'
      BY <2>2, <3>2 DEF CreditInv, OneCreation, Carried
    <3>4. clerk[j].op \in {"add", "pay"} /\ clerk[j].customer = c => "limit" \in columns
      BY <3>2 DEF Carried
    <3>5. clerk[j].customer \in Customers /\ clerk[j].seen \in Int /\ clerk[j].amount \in Int
      BY DEF CreditInv, CreditTypeOK
    <3>6. ASSUME clerk[j].op = "add"
          PROVE  /\ clerk[j].seen + clerk[j].amount <= highest'[clerk[j].customer]
                 /\ "limit" \notin clerk'[j].stale =>
                      clerk[j].seen + clerk[j].amount <= limit'[clerk[j].customer]
      <4>1. clerk[j].seen + clerk[j].amount <= highest[clerk[j].customer]
        BY <3>2, <3>6 DEF Carried
      <4>2. "limit" \notin clerk'[j].stale => clerk[j].customer # c /\ "limit" \notin clerk[j].stale
        BY <3>1, <3>2, <3>4, <3>6 DEF Carried
      <4>3. "limit" \notin clerk[j].stale =>
              clerk[j].seen + clerk[j].amount <= limit[clerk[j].customer]
        BY <3>2, <3>6 DEF Carried
      <4>4. highest[clerk[j].customer] <= highest'[clerk[j].customer]
        BY <1>3, <3>5
      <4>5. clerk[j].seen + clerk[j].amount <= highest'[clerk[j].customer]
        BY <4>1, <4>4, <3>5, <1>1, <1>3
      <4>6. clerk[j].customer # c => limit'[clerk[j].customer] = limit[clerk[j].customer]
        BY <1>3, <3>5
      <4> QED
        BY <4>2, <4>3, <4>5, <4>6
    <3>7. ASSUME clerk[j].op = "pay"
          PROVE  /\ clerk[j].amount <= clerk[j].seen
                 /\ clerk[j].seen <= highest'[clerk[j].customer]
      <4>1. clerk[j].amount <= clerk[j].seen /\ clerk[j].seen <= highest[clerk[j].customer]
        BY <3>2, <3>7 DEF Carried
      <4>2. highest[clerk[j].customer] <= highest'[clerk[j].customer]
        BY <1>3, <3>5
      <4> QED
        BY <4>1, <4>2, <3>5, <1>1, <1>3
    <3>8. /\ clerk[j].at = "commit" <=> clerk[j].op # "none"
          /\ clerk[j].op \in {"limit", "add", "pay"} => clerk[j].customer \in stored'
          /\ clerk[j].op \in {"add", "pay"} =>
               /\ clerk[j].amount >= 1 /\ clerk[j].seen >= 0
               /\ "balance" \notin clerk[j].stale => clerk[j].seen = balance[clerk[j].customer]
      BY <3>2 DEF Carried
    <3>9. "balance" \notin clerk'[j].stale => "balance" \notin clerk[j].stale
      BY <3>1
    <3> QED
      BY <3>1, <3>3, <3>6, <3>7, <3>8, <3>9 DEF Carried
  <2> QED
    BY <2>1, <2>2
<1>6. LimitsTracked'
  BY <1>1, <1>3 DEF CreditInv, LimitsTracked
<1>7. BalanceWithinLimits'
  BY <1>1, <1>3 DEF CreditInv, BalanceWithinLimits
<1>8. BalanceIsOwed'
  BY DEF CreditInv, BalanceIsOwed
<1> QED
  BY <1>4, <1>5, <1>6, <1>7, <1>8, FinishFacts DEF CreditInv

(* A balance is written, from a row that may have changed since.           *)
LEMMA CommitBalanceInv ==
  ASSUME CreditInv, NEW k \in Clerks, CommitBalance(k)
  PROVE  CreditInv'
<1> DEFINE c == clerk[k].customer
           new == NewBalance(k)
<1>1. /\ clerk[k].at = "commit" /\ clerk[k].op \in {"add", "pay"}
      /\ balance' = [balance EXCEPT ![c] = new]
      /\ owed' = [owed EXCEPT ![c] = IF clerk[k].op = "add" THEN @ + clerk[k].amount
                                     ELSE @ - clerk[k].amount]
      /\ raced' = IF "balance" \in clerk[k].stale THEN raced \cup {c} ELSE raced
      /\ Finish(k, {"balance"}) /\ UNCHANGED <<stored, limit, highest>>
  BY DEF CommitBalance
<1>2. /\ c \in Customers /\ clerk[k].amount \in Int /\ clerk[k].seen \in Int
      /\ highest[c] \in Int /\ owed[c] \in Int /\ balance[c] \in Int
  BY DEF CreditInv, CreditTypeOK
<1>3. Carried(clerk[k])
  BY DEF CreditInv, AllCarried
<1>4. /\ new \in Int /\ 0 <= new /\ new <= highest[c]
      /\ clerk[k].op = "add" => new = clerk[k].seen + clerk[k].amount
      /\ clerk[k].op = "pay" => new = clerk[k].seen - clerk[k].amount
  BY <1>1, <1>2, <1>3 DEF Carried, NewBalance, Larger
<1>5. CreditTypeOK'
  <2>1. Finish(k, {"balance"}) /\ {"balance"} \in SUBSET {"limit", "balance"}
    BY <1>1
  <2>2. clerk' \in [Clerks -> [at : {"new", "commit", "done", "refused", "failed", "lost"},
                                   op : {"none", "create", "limit", "add", "pay"},
                                   customer : Customers, amount : Int, seen : Int,
                                   stale : SUBSET {"limit", "balance"}]]
    BY <2>1, FinishFacts
  <2> HIDE DEF new
  <2> QED
    BY <2>2, <1>1, <1>2, <1>4 DEF CreditInv, CreditTypeOK
<1>6. AllCarried' /\ OneCreation'
  <2>1. Finish(k, {"balance"}) /\ {"balance"} \in SUBSET {"limit", "balance"}
    BY <1>1
  <2>2. OneCreation'
    BY <2>1, FinishFacts
  <2>3. SUFFICES ASSUME NEW j \in Clerks PROVE Carried(clerk[j])'
    BY <2>2 DEF AllCarried
  <2>4. CASE j = k
    BY <2>1, <2>4, FinishFacts, NewClerkType DEF Carried
  <2>5. CASE j # k
    <3>1. /\ clerk'[j].at = clerk[j].at /\ clerk'[j].op = clerk[j].op
          /\ clerk'[j].customer = clerk[j].customer
          /\ clerk'[j].amount = clerk[j].amount /\ clerk'[j].seen = clerk[j].seen
          /\ clerk[j].stale \subseteq clerk'[j].stale
          /\ clerk[j].at = "commit" /\ clerk[j].customer = c => "balance" \in clerk'[j].stale
      <4>1. j \in Clerks \ {k}
        BY <2>5
      <4>2. Overtaken(j, k, {"balance"})
        BY <2>1, <4>1, FinishFacts
      <4> QED
        BY <4>2 DEF Overtaken
    <3>2. Carried(clerk[j])
      BY DEF CreditInv, AllCarried
    <3>3. clerk[j].customer # c => balance'[clerk[j].customer] = balance[clerk[j].customer]
      BY <1>1 DEF CreditInv, CreditTypeOK
    <3> HIDE DEF new
    <3> QED
      BY <1>1, <3>1, <3>2, <3>3 DEF Carried
  <2> QED
    BY <2>4, <2>5
<1>7. LimitsTracked'
  BY <1>1 DEF CreditInv, LimitsTracked
<1> HIDE DEF new
<1>8. BalanceWithinLimits'
  BY <1>1, <1>4 DEF CreditInv, CreditTypeOK, BalanceWithinLimits
<1>9. BalanceIsOwed'
  <2> SUFFICES ASSUME NEW d \in Customers, d \notin raced' PROVE balance'[d] = owed'[d]
    BY DEF BalanceIsOwed
  <2>1. CASE d # c
    BY <2>1, <1>1 DEF CreditInv, CreditTypeOK, BalanceIsOwed
  <2>2. CASE d = c
    <3>1. "balance" \notin clerk[k].stale /\ c \notin raced
      BY <2>2, <1>1
    <3>2. clerk[k].seen = balance[c] /\ balance[c] = owed[c]
      BY <3>1, <1>1, <1>2, <1>3 DEF CreditInv, BalanceIsOwed, Carried
    <3>3. /\ balance'[c] = new
          /\ owed'[c] = IF clerk[k].op = "add" THEN owed[c] + clerk[k].amount
                        ELSE owed[c] - clerk[k].amount
      BY <1>1, <1>2 DEF CreditInv, CreditTypeOK
    <3> QED
      BY <2>2, <3>2, <3>3, <1>1, <1>4
  <2> QED
    BY <2>1, <2>2
<1> QED
  BY <1>5, <1>6, <1>7, <1>8, <1>9 DEF CreditInv

LEMMA CreditStepInv == CreditInv /\ [CreditNext]_creditVars => CreditInv'
<1> SUFFICES ASSUME CreditInv, [CreditNext]_creditVars PROVE CreditInv'
  OBVIOUS
<1>1. CASE UNCHANGED creditVars
  BY <1>1 DEF creditVars, CreditInv, CreditTypeOK, AllCarried, Carried, OneCreation,
              LimitsTracked, BalanceWithinLimits, BalanceIsOwed
<1>2. ASSUME NEW k \in Clerks, NEW c \in Customers, NotFound(k, c) \/ StartNullLimit(k, c)
      PROVE  CreditInv'
  BY <1>2, AnswerInv DEF NotFound, StartNullLimit
<1>3. ASSUME NEW k \in Clerks, NEW c \in Customers, NEW l \in Limits,
             StartCreate(k, c, l) \/ StartUpdate(k, c, l)
      PROVE  CreditInv'
  <2>1. l \in Int
    BY CreditAssumption
  <2> QED
    BY <1>3, <2>1, ToWriteInv DEF StartCreate, StartUpdate
<1>4. ASSUME NEW k \in Clerks, NEW c \in Customers, NEW a \in CreditAmounts,
             StartAdd(k, c, a)
      PROVE  CreditInv'
  <2>1. a \in Int /\ a >= 1
    BY CreditAssumption
  <2>2. CASE CreditAllowed(c, a)
    BY <1>4, <2>1, <2>2, ToWriteInv DEF StartAdd
  <2>3. CASE ~CreditAllowed(c, a)
    BY <1>4, <2>3, AnswerInv DEF StartAdd
  <2> QED
    BY <2>2, <2>3
<1>5. ASSUME NEW k \in Clerks, NEW c \in Customers, NEW a \in CreditAmounts,
             StartPay(k, c, a)
      PROVE  CreditInv'
  <2>1. a \in Int /\ a >= 1 /\ balance[c] \in Int
    BY CreditAssumption DEF CreditInv, CreditTypeOK
  <2>2. CASE a > balance[c]
    BY <1>5, <2>2, AnswerInv DEF StartPay
  <2>3. CASE a <= balance[c]
    <3>1. ToWrite(k, "pay", c, a) /\ c \in stored
      BY <1>5, <2>1, <2>3 DEF StartPay
    <3> QED
      BY <2>1, <2>3, <3>1, ToWriteInv
  <2> QED
    BY <2>1, <2>2, <2>3
<1>6. ASSUME NEW k \in Clerks, CommitCreate(k)
      PROVE  CreditInv'
  BY <1>6, LimitWriteInv DEF CommitCreate
<1>7. ASSUME NEW k \in Clerks, CommitLimit(k)
      PROVE  CreditInv'
  BY <1>7, LimitWriteInv DEF CommitLimit
<1>8. ASSUME NEW k \in Clerks, Lose(k)
      PROVE  CreditInv'
  BY <1>8, AnswerInv DEF Lose
<1> QED
  BY <1>1, <1>2, <1>3, <1>4, <1>5, <1>6, <1>7, <1>8, CommitBalanceInv DEF CreditNext

THEOREM CreditInvariance == CreditSpec => []CreditInv
BY CreditInitInv, CreditStepInv, PTL DEF CreditSpec

(* Every limit, balance and pending request is of the kind the columns and *)
(* the query parameters of the customers router allow.                     *)
THEOREM CreditTypes == CreditSpec => []CreditTypeOK
<1>1. CreditInv => CreditTypeOK
  BY DEF CreditInv
<1> QED
  BY <1>1, CreditInvariance, PTL

(* Whatever interleaves, no customer's balance is negative or exceeds the  *)
(* highest limit the customer ever had, although adjust_credit and         *)
(* pay_credit (crm/repository.py:44-53) write what they computed from      *)
(* rows read without a lock; and as long as no two requests wrote one      *)
(* balance at once, it is what was granted less what was paid, untouched   *)
(* by edits of the customer (crm/router.py:68-85).                         *)
THEOREM BalancesKept == CreditSpec => []BalancesAreKept
<1>1. CreditInv => BalancesAreKept
  BY DEF CreditInv, BalancesAreKept
<1> QED
  BY <1>1, CreditInvariance, PTL

(* A credit that is granted keeps the customer within the limit in force,  *)
(* even when the balance it was computed from is gone: the one check that  *)
(* can be outrun is the one on the limit (crm/repository.py:45-47).        *)
THEOREM GrantsAreCovered == CreditSpec => CreditIsCovered
<1>1. ASSUME CreditInv, CreditNext, NEW k \in Clerks, NEW c \in Customers,
             clerk[k].op = "add", clerk'[k].at = "done", clerk[k].customer = c
      PROVE  balance'[c] <= limit[c] \/ "limit" \in clerk[k].stale
  <2>1. Carried(clerk[k]) /\ clerk[k].at = "commit"
    BY <1>1 DEF CreditInv, AllCarried, Carried
  <2>2. ASSUME NEW j \in Clerks, NEW outcome \in {"refused", "failed", "lost"}, Answer(j, outcome)
        PROVE  FALSE
    BY <1>1, <2>1, <2>2, NewClerkType DEF Answer, CreditInv, CreditTypeOK
  <2>3. ASSUME NEW j \in Clerks, NEW op, NEW d, NEW amount, ToWrite(j, op, d, amount)
        PROVE  FALSE
    BY <1>1, <2>1, <2>3 DEF ToWrite, CreditInv, CreditTypeOK
  <2>4. ASSUME NEW j \in Clerks \ {k}, NEW columns \in SUBSET {"limit", "balance"},
               Finish(j, columns)
        PROVE  FALSE
    <3>1. Overtaken(k, j, columns)
      BY <1>1, <2>4, FinishFacts
    <3> QED
      BY <1>1, <2>1, <3>1 DEF Overtaken
  <2>5. ASSUME NEW j \in Clerks, CommitCreate(j) \/ CommitLimit(j) PROVE FALSE
    BY <1>1, <2>4, <2>5 DEF CommitCreate, CommitLimit
  <2>6. ASSUME NEW j \in Clerks, CommitBalance(j) PROVE j = k
    BY <2>4, <2>6 DEF CommitBalance
  <2>7. CommitBalance(k)
    BY <1>1, <2>2, <2>3, <2>5, <2>6
    DEF CreditNext, NotFound, StartNullLimit, StartCreate, StartUpdate, StartAdd, StartPay, Lose
  <2>8. balance'[c] = clerk[k].seen + clerk[k].amount
    BY <1>1, <2>7 DEF CreditInv, CreditTypeOK, CommitBalance, NewBalance
  <2> QED
    BY <1>1, <2>1, <2>8 DEF Carried
<1>2. CreditInv /\ [CreditNext]_creditVars =>
        [\A k \in Clerks : \A c \in Customers :
           /\ clerk[k].op = "add" /\ clerk'[k].at = "done" /\ clerk[k].customer = c
           => balance'[c] <= limit[c] \/ "limit" \in clerk[k].stale]_creditVars
  BY <1>1
<1> QED
  BY <1>2, CreditInvariance, PTL DEF CreditSpec, CreditIsCovered

----------------------------------------------------------------------------
(* The prompt store: every number of concurrent creations.                 *)

(* A row is the work of a creation that is over, and a creation about to   *)
(* commit carries the successor of the row it read.  That row keeps its    *)
(* version, whoever switches it off meanwhile: this is why a successor     *)
(* settled on a stale read is still the successor of a row on file.        *)
Settled ==
  \A a \in Authors :
    /\ a \in Rows => author[a].at = "done"
    /\ author[a].at = "commit" =>
         \/ author[a].read = {} /\ author[a].next = 1
         \/ \E b \in Rows : author[a].read = {b} /\ author[a].next = version[b] + 1

(* Finitely many requests were handled so far.                             *)
FinitelyMany == IsFiniteSet(active) /\ IsFiniteSet(overtaken)

PromptInv == PromptTypeOK /\ Settled /\ NewestIsActive /\ VersionsAreTracked

LEMMA PromptInitInv == PromptInit => PromptInv
BY DEF PromptInit, PromptInv, PromptTypeOK, Settled, NewestIsActive, VersionsAreTracked, Rows

(* What was read, and the version settled on it.                           *)
LEMMA ReadSettles ==
  ASSUME PromptInv, NEW read \in Candidates
  PROVE  \/ read = {} /\ Successor(read) = 1
         \/ \E b \in Rows : read = {b} /\ Successor(read) = version[b] + 1
<1>1. CASE read = {}
  BY <1>1 DEF Successor
<1>2. CASE read # {}
  <2>1. PICK b \in active : read = {b}
    BY <1>2 DEF Candidates
  <2>2. b \in Rows /\ (CHOOSE x \in read : TRUE) = b
    BY <2>1 DEF PromptInv, PromptTypeOK
  <2> QED
    BY <1>2, <2>1, <2>2 DEF Successor
<1> QED
  BY <1>1, <1>2

LEMMA ReadActiveInv ==
  ASSUME PromptInv, NEW a \in Authors, ReadActive(a)
  PROVE  PromptInv'
<1>1. PICK read \in Candidates :
        author' = [author EXCEPT ![a] = [at |-> "commit", read |-> read,
                                         next |-> Successor(read)]]
  BY DEF ReadActive
<1>2. /\ UNCHANGED <<version, active, overtaken>> /\ author[a].at = "new"
      /\ Rows' = Rows /\ a \notin Rows
  BY DEF ReadActive, Rows, PromptInv, Settled
<1>3. \/ read = {} /\ Successor(read) = 1
      \/ \E b \in Rows : read = {b} /\ Successor(read) = version[b] + 1
  BY ReadSettles
<1>4. read \subseteq Authors /\ Successor(read) \in Nat
  BY <1>3 DEF PromptInv, PromptTypeOK, Rows
<1>5. PromptTypeOK'
  BY <1>1, <1>2, <1>4 DEF PromptInv, PromptTypeOK
<1>6. Settled'
  BY <1>1, <1>2, <1>3 DEF PromptInv, PromptTypeOK, Settled, Rows
<1>7. NewestIsActive' /\ VersionsAreTracked'
  BY <1>2 DEF PromptInv, NewestIsActive, VersionsAreTracked
<1> QED
  BY <1>5, <1>6, <1>7 DEF PromptInv

(* The new row, and the rows that stay what they were.                     *)
LEMMA CommitAddsRow ==
  ASSUME PromptInv, NEW a \in Authors, CommitVersion(a)
  PROVE  /\ a \notin Rows /\ Rows' = Rows \cup {a}
         /\ \A b \in Authors \ {a} : version'[b] = version[b]
         /\ version'[a] = author[a].next /\ author[a].next \in Nat \ {0}
<1>1. a \notin Rows /\ author[a].at = "commit"
  BY DEF CommitVersion, PromptInv, Settled
<1>2. author[a].next \in Nat \ {0}
  BY <1>1 DEF PromptInv, PromptTypeOK, Settled, Rows
<1>3. version' = [version EXCEPT ![a] = author[a].next]
  BY DEF CommitVersion
<1> QED
  BY <1>1, <1>2, <1>3 DEF PromptInv, PromptTypeOK, Rows

LEMMA CommitVersionInv ==
  ASSUME PromptInv, NEW a \in Authors, CommitVersion(a)
  PROVE  PromptInv'
<1> DEFINE read == author[a].read
<1>1. /\ a \notin Rows /\ Rows' = Rows \cup {a}
      /\ \A b \in Authors \ {a} : version'[b] = version[b]
      /\ version'[a] = author[a].next /\ author[a].next \in Nat \ {0}
  BY CommitAddsRow
<1>2. /\ author' = [author EXCEPT ![a] = [at |-> "done", read |-> {}, next |-> 0]]
      /\ active' = (active \ read) \cup {a}
      /\ overtaken' \subseteq overtaken \cup {a}
      /\ version' = [version EXCEPT ![a] = author[a].next]
  BY DEF CommitVersion, Deactivated
<1>3. \/ read = {} /\ author[a].next = 1
      \/ \E b \in Rows : read = {b} /\ author[a].next = version[b] + 1
  BY DEF CommitVersion, PromptInv, Settled
<1>4. Rows \subseteq Authors /\ \A b \in Rows : version[b] \in Nat /\ version'[b] = version[b]
  BY <1>1 DEF PromptInv, PromptTypeOK, Rows
<1>5. PromptTypeOK'
  <2>1. author' \in [Authors -> [at : {"new", "commit", "done", "lost"},
                                 read : SUBSET Authors, next : Nat]]
    BY <1>2 DEF PromptInv, PromptTypeOK
  <2>2. version' \in [Authors -> Nat]
    BY <1>1, <1>2 DEF PromptInv, PromptTypeOK
  <2>3. active' \subseteq Rows' /\ overtaken' \subseteq Rows'
    BY <1>1, <1>2 DEF PromptInv, PromptTypeOK
  <2> QED
    BY <2>1, <2>2, <2>3 DEF PromptTypeOK
<1>6. Settled'
  <2> SUFFICES ASSUME NEW x \in Authors
               PROVE  /\ x \in Rows' => author'[x].at = "done"
                      /\ author'[x].at = "commit" =>
                           \/ author'[x].read = {} /\ author'[x].next = 1
                           \/ \E b \in Rows' : /\ author'[x].read = {b}
                                               /\ author'[x].next = version'[b] + 1
    BY DEF Settled
  <2>1. CASE x = a
    BY <2>1, <1>2 DEF PromptInv, PromptTypeOK
  <2>2. CASE x # a
    <3>1. author'[x] = author[x]
      BY <2>2, <1>2 DEF PromptInv, PromptTypeOK
    <3>2. x \in Rows' => author[x].at = "done"
      BY <2>2, <1>1 DEF PromptInv, Settled
    <3>3. author[x].at = "commit" =>
            \/ author[x].read = {} /\ author[x].next = 1
            \/ \E b \in Rows : author[x].read = {b} /\ author[x].next = version[b] + 1
      BY DEF PromptInv, Settled
    <3> QED
      BY <1>1, <1>4, <3>1, <3>2, <3>3
  <2> QED
    BY <2>1, <2>2
<1>7. NewestIsActive'
  <2> SUFFICES ASSUME NEW b \in Rows', b \notin active'
               PROVE  \E x \in Rows' : version'[x] = version'[b] + 1
    BY DEF NewestIsActive
  <2>1. b \in Rows
    BY <1>1, <1>2
  <2>2. CASE b \in active
    <3>1. b \in read
      BY <2>2, <1>2
    <3> QED
      BY <3>1, <2>1, <1>1, <1>3, <1>4
  <2>3. CASE b \notin active
    <3>1. PICK x \in Rows : version[x] = version[b] + 1
      BY <2>1, <2>3 DEF PromptInv, NewestIsActive
    <3> QED
      BY <3>1, <2>1, <1>1, <1>4
  <2> QED
    BY <2>2, <2>3
<1>8. VersionsAreTracked'
  <2> SUFFICES ASSUME NEW x \in Rows', version'[x] > 1
               PROVE  \E b \in Rows' : version'[b] = version'[x] - 1
    BY DEF VersionsAreTracked
  <2>1. CASE x = a
    BY <2>1, <1>1, <1>3, <1>4
  <2>2. CASE x # a
    <3>1. x \in Rows /\ version[x] > 1
      BY <2>2, <1>1, <1>4
    <3>2. PICK b \in Rows : version[b] = version[x] - 1
      BY <3>1 DEF PromptInv, VersionsAreTracked
    <3> QED
      BY <3>1, <3>2, <1>1, <1>4
  <2> QED
    BY <2>1, <2>2
<1> QED
  BY <1>5, <1>6, <1>7, <1>8 DEF PromptInv

LEMMA LoseVersionInv ==
  ASSUME PromptInv, NEW a \in Authors, LoseVersion(a)
  PROVE  PromptInv'
<1>1. /\ UNCHANGED <<version, active, overtaken>> /\ author[a].at = "commit"
      /\ author' = [author EXCEPT ![a] = [at |-> "lost", read |-> {}, next |-> 0]]
      /\ Rows' = Rows /\ a \notin Rows
  BY DEF LoseVersion, Rows, PromptInv, Settled
<1>2. PromptTypeOK'
  BY <1>1 DEF PromptInv, PromptTypeOK
<1>3. Settled'
  BY <1>1 DEF PromptInv, PromptTypeOK, Settled
<1>4. NewestIsActive' /\ VersionsAreTracked'
  BY <1>1 DEF PromptInv, NewestIsActive, VersionsAreTracked
<1> QED
  BY <1>2, <1>3, <1>4 DEF PromptInv

LEMMA PromptStepInv == PromptInv /\ [PromptNext]_promptVars => PromptInv'
<1> SUFFICES ASSUME PromptInv, [PromptNext]_promptVars PROVE PromptInv'
  OBVIOUS
<1>1. CASE UNCHANGED promptVars
  BY <1>1 DEF promptVars, PromptInv, PromptTypeOK, Settled, NewestIsActive, VersionsAreTracked, Rows
<1>2. ASSUME NEW a \in Authors, ReadActive(a) \/ CommitVersion(a) \/ LoseVersion(a)
      PROVE  PromptInv'
  BY <1>2, ReadActiveInv, CommitVersionInv, LoseVersionInv
<1> QED
  BY <1>1, <1>2 DEF PromptNext

THEOREM PromptInvariance == PromptSpec => []PromptInv
BY PromptInitInv, PromptStepInv, PTL DEF PromptSpec

(* The rows, and what each creation in flight carries, are always of the   *)
(* kinds the code gives them; only rows are active or counted overtaken.   *)
THEOREM PromptTypes == PromptSpec => []PromptTypeOK
<1>1. PromptInv => PromptTypeOK
  BY DEF PromptInv
<1> QED
  BY <1>1, PromptInvariance, PTL

(* The count of active versions, on top of the invariant above.  It is     *)
(* exact: a bound alone would not survive a creation that switches off the *)
(* row it read, since nothing would say that this row counted.             *)
ExactlyOneAndRaces == Rows # {} => Cardinality(active) = 1 + Cardinality(overtaken)
CountInv == PromptInv /\ FinitelyMany /\ ExactlyOneAndRaces

LEMMA CommitCounts ==
  ASSUME CountInv, NEW a \in Authors, CommitVersion(a)
  PROVE  FinitelyMany' /\ ExactlyOneAndRaces'
<1> DEFINE read == author[a].read
<1>1. /\ a \notin Rows /\ Rows' = Rows \cup {a}
      /\ active \subseteq Rows /\ overtaken \subseteq Rows
      /\ a \notin active /\ a \notin overtaken
      /\ IsFiniteSet(active) /\ IsFiniteSet(overtaken)
      /\ Rows # {} => Cardinality(active) = 1 + Cardinality(overtaken)
  BY CommitAddsRow DEF CountInv, PromptInv, PromptTypeOK, FinitelyMany, ExactlyOneAndRaces
<1>2. /\ active' = (active \ read) \cup {a}
      /\ overtaken' = IF read \subseteq active /\ (read = {} => Rows = {})
                      THEN overtaken ELSE overtaken \cup {a}
  BY DEF CommitVersion, Deactivated
<1>3. read = {} \/ \E b \in Rows : read = {b}
  BY DEF CommitVersion, CountInv, PromptInv, Settled
<1>4. Cardinality(active) \in Nat /\ Cardinality(overtaken) \in Nat
  BY <1>1, FS_CardinalityType
<1>5. ASSUME NEW S, IsFiniteSet(S), a \notin S
      PROVE  IsFiniteSet(S \cup {a}) /\ Cardinality(S \cup {a}) = Cardinality(S) + 1
  BY <1>5, FS_AddElement
<1>6. CASE \E b \in active : read = {b}
  <2>1. PICK b \in active : read = {b}
    BY <1>6
  <2>2. /\ IsFiniteSet(active \ {b}) /\ Cardinality(active \ {b}) = Cardinality(active) - 1
        /\ a \notin active \ {b}
    BY <1>1, <2>1, FS_RemoveElement
  <2>3. /\ IsFiniteSet((active \ {b}) \cup {a})
        /\ Cardinality((active \ {b}) \cup {a}) = Cardinality(active \ {b}) + 1
    BY <2>2, <1>5
  <2>4. active' = (active \ {b}) \cup {a} /\ overtaken' = overtaken /\ Rows # {}
    BY <1>1, <1>2, <2>1
  <2> QED
    BY <1>1, <1>4, <2>2, <2>3, <2>4 DEF FinitelyMany, ExactlyOneAndRaces
<1>7. CASE read = {} /\ Rows = {}
  <2>1. active = {} /\ overtaken = {} /\ active' = {} \cup {a} /\ overtaken' = {}
    BY <1>1, <1>2, <1>7
  <2>2. IsFiniteSet({} \cup {a}) /\ Cardinality({} \cup {a}) = 0 + 1 /\ Cardinality({}) = 0
    BY <1>5, <2>1, <1>1, FS_EmptySet
  <2> QED
    BY <1>1, <2>1, <2>2 DEF FinitelyMany, ExactlyOneAndRaces
<1>8. CASE ~(\E b \in active : read = {b}) /\ ~(read = {} /\ Rows = {})
  <2>1. active' = active \cup {a} /\ overtaken' = overtaken \cup {a} /\ Rows # {}
    BY <1>1, <1>2, <1>3, <1>8
  <2>2. /\ IsFiniteSet(active') /\ Cardinality(active') = Cardinality(active) + 1
        /\ IsFiniteSet(overtaken') /\ Cardinality(overtaken') = Cardinality(overtaken) + 1
    BY <2>1, <1>1, <1>5
  <2> QED
    BY <1>1, <1>4, <2>1, <2>2 DEF FinitelyMany, ExactlyOneAndRaces
<1> QED
  BY <1>6, <1>7, <1>8

(* However many creations of a prompt interleave (prompt_store.py:26-42),  *)
(* no version is skipped, every version that was switched off has its      *)
(* successor on file, so that the newest is active, and too many versions  *)
(* are active only by creations that another overtook between their read   *)
(* and their commit, one for each.                                         *)
THEOREM VersionsKept == PromptSpec => []VersionsAreKept
<1>1. PromptInit => CountInv
  BY PromptInitInv, FS_EmptySet
  DEF PromptInit, CountInv, FinitelyMany, ExactlyOneAndRaces, Rows
<1>2. CountInv /\ [PromptNext]_promptVars => CountInv'
  <2> SUFFICES ASSUME CountInv, [PromptNext]_promptVars PROVE CountInv'
    OBVIOUS
  <2>1. PromptInv'
    BY PromptStepInv DEF CountInv
  <2>2. CASE UNCHANGED <<version, active, overtaken>>
    BY <2>1, <2>2 DEF CountInv, FinitelyMany, ExactlyOneAndRaces, Rows
  <2>3. ASSUME NEW a \in Authors, CommitVersion(a)
        PROVE  CountInv'
    BY <2>1, <2>3, CommitCounts DEF CountInv
  <2>4. ASSUME NEW a \in Authors, ReadActive(a) \/ LoseVersion(a)
        PROVE  UNCHANGED <<version, active, overtaken>>
    BY <2>4 DEF ReadActive, LoseVersion
  <2> QED
    BY <2>2, <2>3, <2>4 DEF PromptNext, promptVars
<1>3. CountInv => VersionsAreKept
  <2> SUFFICES ASSUME CountInv PROVE ExtrasAreRaces
    BY DEF CountInv, PromptInv, VersionsAreKept
  <2>1. Cardinality(overtaken) \in Nat
    BY FS_CardinalityType DEF CountInv, FinitelyMany
  <2>2. CASE Rows = {}
    <3>1. active = {} /\ Cardinality({}) = 0
      BY <2>2, FS_EmptySet DEF CountInv, PromptInv, PromptTypeOK
    <3> QED
      BY <2>1, <3>1 DEF ExtrasAreRaces
  <2>3. CASE Rows # {}
    BY <2>1, <2>3 DEF CountInv, ExactlyOneAndRaces, ExtrasAreRaces
  <2> QED
    BY <2>2, <2>3
<1> QED
  BY <1>1, <1>2, <1>3, PTL DEF PromptSpec

----------------------------------------------------------------------------
(* Barcodes of the catalogue.                                              *)

KeeperRecords ==
  [at : {"new", "open", "done", "refused", "failed", "lost"},
   op : {"none", "create", "lookup", "edit", "remove"},
   product : Keepers, barcode : Barcodes \cup {NoBarcode}]

(* What a request is about: itself, or a product on file.                  *)
KeepersFit ==
  \A k \in Keepers :
    /\ keeper[k].op = "create" => keeper[k].product = k
    /\ keeper[k].at \in {"open", "done"} /\ keeper[k].op \in {"edit", "remove"} =>
         keeper[k].product \in Products

(* A product's barcode is the one its source gave it, at its end.          *)
SourcesFit ==
  \A p \in Products :
    LET s == keeper[source[p]] IN
    /\ s.at = "done" /\ s.op \in {"create", "edit"} /\ s.product = p
    /\ barcode[p] = s.barcode

(* Whoever has a barcode a creation is about to use got it meanwhile.      *)
CreationsSaw ==
  \A k \in Keepers : keeper[k].at = "open" /\ keeper[k].op = "create" =>
    \A p \in Products : barcode[p] = keeper[k].barcode /\ barcode[p] # NoBarcode =>
      source[p] \in while[k]

CatalogueInv ==
  /\ keeper \in [Keepers -> KeeperRecords]
  /\ barcode \in [Keepers -> Barcodes \cup {NoBarcode}] /\ source \in [Keepers -> Keepers]
  /\ while \in [Keepers -> SUBSET Keepers] /\ inactive \subseteq Products
  /\ IsFiniteSet(Products)
  /\ KeepersFit /\ SourcesFit /\ CreationsSaw /\ SharedBarcodesAreRaces

(* An empty catalogue.                                                     *)
LEMMA CatalogueInitInv == CatalogueInit => CatalogueInv
<1> SUFFICES ASSUME CatalogueInit PROVE CatalogueInv
  OBVIOUS
<1>1. Products = {} /\ keeper \in [Keepers -> KeeperRecords]
  BY DEF CatalogueInit, Products, KeeperRecords
<1>2. IsFiniteSet(Products)
  BY <1>1, FS_EmptySet
<1> QED
  BY <1>1, <1>2 DEF CatalogueInit, CatalogueInv, KeepersFit, SourcesFit, CreationsSaw,
                    SharedBarcodesAreRaces, Holders

(* A request that is not over goes on; the others remember an end.         *)
LEMMA HandleMoves ==
  ASSUME CatalogueInv, NEW k \in Keepers, keeper[k].at \in {"new", "open"},
         NEW where \in {"open", "done", "refused", "failed", "lost"},
         NEW op \in {"none", "create", "lookup", "edit", "remove"},
         NEW p \in Keepers, NEW b \in Barcodes \cup {NoBarcode}, Handle(k, where, op, p, b)
  PROVE  /\ keeper' \in [Keepers -> KeeperRecords] /\ while' \in [Keepers -> SUBSET Keepers]
         /\ keeper'[k].at = where /\ keeper'[k].op = op
         /\ keeper'[k].product = p /\ keeper'[k].barcode = b
         /\ \A j \in Keepers \ {k} : keeper'[j] = keeper[j]
         /\ \A j \in Keepers : while[j] \subseteq while'[j]
         /\ where = "done" => \A j \in Keepers \ {k} : keeper[j].at = "open" => k \in while'[j]
         /\ k \notin Products
         /\ Products' = IF where = "done" /\ op = "create" THEN Products \cup {k} ELSE Products
<1>1. /\ keeper \in [Keepers -> KeeperRecords] /\ while \in [Keepers -> SUBSET Keepers]
  BY DEF CatalogueInv
<1> DEFINE r == [at |-> where, op |-> op, product |-> p, barcode |-> b]
<1>2. r \in KeeperRecords /\ r.at = where /\ r.op = op /\ r.product = p /\ r.barcode = b
  BY DEF KeeperRecords
<1>3. keeper' = [keeper EXCEPT ![k] = r]
  BY DEF Handle
<1> HIDE DEF r
<1>4. keeper' \in [Keepers -> KeeperRecords] /\ keeper'[k] = r
      /\ \A j \in Keepers \ {k} : keeper'[j] = keeper[j]
  BY <1>1, <1>2, <1>3
<1>5. /\ while' \in [Keepers -> SUBSET Keepers]
      /\ \A j \in Keepers : while[j] \subseteq while'[j]
      /\ where = "done" => \A j \in Keepers \ {k} : keeper[j].at = "open" => k \in while'[j]
  BY <1>1 DEF Handle
<1>6. k \notin Products
  BY DEF Products
<1>7. Products' = IF where = "done" /\ op = "create" THEN Products \cup {k} ELSE Products
  BY <1>2, <1>4 DEF Products
<1> QED
  BY <1>2, <1>4, <1>5, <1>6, <1>7

(* A request that gives no product a barcode, and uses none that is taken. *)
LEMMA CatalogueQuiet ==
  ASSUME CatalogueInv, NEW k \in Keepers, keeper[k].at \in {"new", "open"},
         NEW where \in {"open", "done", "refused", "failed", "lost"},
         NEW op \in {"none", "create", "lookup", "edit", "remove"},
         NEW p \in Keepers, NEW b \in Barcodes \cup {NoBarcode}, Handle(k, where, op, p, b),
         UNCHANGED <<barcode, source>>, inactive' \subseteq Products,
         op = "create" => p = k /\ where # "done",
         where \in {"open", "done"} /\ op \in {"edit", "remove"} => p \in Products,
         where = "open" /\ op = "create" => b = NoBarcode \/ Holders(b) = {}
  PROVE  CatalogueInv'
<1>1. /\ keeper' \in [Keepers -> KeeperRecords] /\ while' \in [Keepers -> SUBSET Keepers]
      /\ keeper'[k].at = where /\ keeper'[k].op = op
      /\ keeper'[k].product = p /\ keeper'[k].barcode = b
      /\ \A j \in Keepers \ {k} : keeper'[j] = keeper[j]
      /\ \A j \in Keepers : while[j] \subseteq while'[j]
      /\ k \notin Products /\ Products' = Products
  BY HandleMoves
<1>2. KeepersFit'
  BY <1>1 DEF CatalogueInv, KeepersFit
<1>3. \A q \in Products : q \in Keepers /\ source[q] \in Keepers /\ source[q] # k
  BY DEF CatalogueInv, SourcesFit, Products
<1>4. SourcesFit'
  BY <1>1, <1>3 DEF CatalogueInv, SourcesFit
<1>5. CreationsSaw'
  BY <1>1 DEF CatalogueInv, CreationsSaw, Holders
<1>6. SharedBarcodesAreRaces'
  <2> SUFFICES ASSUME NEW c \in Barcodes, NEW x \in Holders(c), NEW y \in Holders(c), x # y
               PROVE  \/ source[x] \in while'[source[y]] \/ source[y] \in while'[source[x]]
                      \/ \E r \in {source[x], source[y]} : keeper'[r].op = "edit"
    BY <1>1 DEF SharedBarcodesAreRaces, Holders
  <2>1. x \in Products /\ y \in Products
    BY DEF Holders
  <2> QED
    BY <2>1, <1>1, <1>3 DEF CatalogueInv, SharedBarcodesAreRaces
<1> QED
  BY <1>1, <1>2, <1>4, <1>5, <1>6 DEF CatalogueInv

(* A barcode not found has no holder.                                      *)
LEMMA FoundNone ==
  ASSUME CatalogueInv, NEW b, Found(b) = 0
  PROVE  Holders(b) = {}
<1>1. Holders(b) \subseteq Products
  BY DEF Holders
<1>2. IsFiniteSet(Holders(b))
  BY <1>1, FS_Subset DEF CatalogueInv
<1> QED
  BY <1>2, FS_EmptySet DEF Found

(* A creation that begins finds no holder of its barcode.                  *)
LEMMA StartProductInv ==
  ASSUME CatalogueInv, NEW k \in Keepers, NEW b \in Barcodes \cup {NoBarcode}, StartProduct(k, b)
  PROVE  CatalogueInv'
<1>1. /\ keeper[k].at = "new" /\ UNCHANGED <<barcode, source>> /\ inactive' \subseteq Products
  BY DEF StartProduct, CatalogueInv
<1>2. \E where \in {"open", "refused", "failed"} :
        /\ Handle(k, where, "create", k, b)
        /\ where = "open" => b = NoBarcode \/ Found(b) = 0
  BY DEF StartProduct
<1> QED
  BY <1>1, <1>2, FoundNone, CatalogueQuiet

(* The other requests begin.                                               *)
LEMMA OtherStartsInv ==
  ASSUME CatalogueInv, NEW k \in Keepers,
         \/ \E b \in Barcodes : Lookup(k, b)
         \/ \E p \in Keepers, b \in Barcodes \cup {NoBarcode} : StartEdit(k, p, b)
         \/ \E p \in Keepers : StartRemove(k, p)
  PROVE  CatalogueInv'
<1>1. /\ keeper[k].at = "new" /\ UNCHANGED <<barcode, source>> /\ inactive' \subseteq Products
  BY DEF Lookup, StartEdit, StartRemove, CatalogueInv
<1>2. PICK where \in {"open", "done", "failed"}, op \in {"lookup", "edit", "remove"}, p \in Keepers,
           b \in Barcodes \cup {NoBarcode} :
             Handle(k, where, op, p, b) /\ (op \in {"edit", "remove"} => p \in Products)
  BY DEF Lookup, StartEdit, StartRemove
<1> QED
  BY <1>1, <1>2, CatalogueQuiet

(* A request that was begun has a record of its kind.                      *)
LEMMA KeeperType ==
  ASSUME CatalogueInv, NEW k \in Keepers
  PROVE  keeper[k] \in KeeperRecords /\ keeper[k].product \in Keepers
         /\ keeper[k].barcode \in Barcodes \cup {NoBarcode}
         /\ keeper[k].op \in {"none", "create", "lookup", "edit", "remove"}
BY DEF CatalogueInv, KeeperRecords

(* The ends that add no product.                                           *)
LEMMA OtherEndsInv ==
  ASSUME CatalogueInv, NEW k \in Keepers, CommitRemove(k) \/ LoseProduct(k)
  PROVE  CatalogueInv'
<1>1. /\ keeper[k].at = "open" /\ UNCHANGED <<barcode, source>>
      /\ keeper[k].product \in Keepers /\ keeper[k].barcode \in Barcodes \cup {NoBarcode}
      /\ keeper[k].op \in {"none", "create", "lookup", "edit", "remove"}
      /\ keeper[k].op = "create" => keeper[k].product = k
      /\ keeper[k].op \in {"edit", "remove"} => keeper[k].product \in Products
  BY KeeperType DEF CommitRemove, LoseProduct, CatalogueInv, KeepersFit
<1>2. CASE CommitRemove(k)
  <2>1. Handle(k, "done", "remove", keeper[k].product, NoBarcode) /\ inactive' \subseteq Products
    BY <1>1, <1>2 DEF CommitRemove, CatalogueInv
  <2>2. keeper[k].product \in Products
    BY <1>1, <1>2 DEF CommitRemove
  <2> QED
    BY <1>1, <2>1, <2>2, CatalogueQuiet
<1>3. CASE LoseProduct(k)
  <2>1. Handle(k, "lost", keeper[k].op, keeper[k].product, keeper[k].barcode) /\ inactive' \subseteq Products
    BY <1>3 DEF LoseProduct, CatalogueInv
  <2> QED
    BY <1>1, <2>1, CatalogueQuiet
<1> QED
  BY <1>2, <1>3

(* A commit makes its request the source of its product.                   *)
LEMMA CommitProductInv ==
  ASSUME CatalogueInv, NEW k \in Keepers, CommitProduct(k)
  PROVE  CatalogueInv'
<1> DEFINE p == keeper[k].product
           op == keeper[k].op
           b == keeper[k].barcode
<1>1. /\ keeper[k].at = "open" /\ op \in {"create", "edit"} /\ p \in Keepers
      /\ b \in Barcodes \cup {NoBarcode}
      /\ op = "create" => p = k
      /\ op = "edit" => p \in Products
  BY KeeperType DEF CommitProduct, CatalogueInv, KeepersFit
<1>2. /\ barcode' = [barcode EXCEPT ![p] = b] /\ source' = [source EXCEPT ![p] = k]
      /\ Handle(k, "done", op, p, b) /\ inactive' = inactive
  BY DEF CommitProduct
<1> HIDE DEF p, op, b
<1>3. /\ keeper' \in [Keepers -> KeeperRecords] /\ while' \in [Keepers -> SUBSET Keepers]
      /\ keeper'[k].at = "done" /\ keeper'[k].op = op
      /\ keeper'[k].product = p /\ keeper'[k].barcode = b
      /\ \A j \in Keepers \ {k} : keeper'[j] = keeper[j]
      /\ \A j \in Keepers : while[j] \subseteq while'[j]
      /\ \A j \in Keepers \ {k} : keeper[j].at = "open" => k \in while'[j]
      /\ k \notin Products
      /\ Products' = IF op = "create" THEN Products \cup {k} ELSE Products
  BY <1>1, <1>2, HandleMoves
<1>4. /\ barcode' \in [Keepers -> Barcodes \cup {NoBarcode}] /\ source' \in [Keepers -> Keepers]
      /\ barcode'[p] = b /\ source'[p] = k
      /\ \A q \in Keepers \ {p} : barcode'[q] = barcode[q] /\ source'[q] = source[q]
  BY <1>1, <1>2 DEF CatalogueInv
<1>5. /\ Products' = Products \cup {p} /\ Products \subseteq Keepers
      /\ IsFiniteSet(Products') /\ inactive' \subseteq Products'
  <2>1. Products' = Products \cup {p} /\ Products \subseteq Keepers
    BY <1>1, <1>3 DEF Products
  <2>2. IsFiniteSet(Products \cup {p})
    BY FS_AddElement DEF CatalogueInv
  <2> QED
    BY <1>2, <2>1, <2>2 DEF CatalogueInv
<1>6. \A q \in Products : source[q] \in Keepers /\ source[q] # k
  BY <1>1 DEF CatalogueInv, SourcesFit, Products
<1>7. KeepersFit'
  BY <1>1, <1>3, <1>5 DEF CatalogueInv, KeepersFit
<1>8. SourcesFit'
  <2> SUFFICES ASSUME NEW q \in Products'
               PROVE  /\ keeper'[source'[q]].at = "done" /\ keeper'[source'[q]].op \in {"create", "edit"}
                      /\ keeper'[source'[q]].product = q /\ barcode'[q] = keeper'[source'[q]].barcode
    BY DEF SourcesFit
  <2>1. CASE q = p
    BY <2>1, <1>1, <1>3, <1>4
  <2>2. CASE q # p
    BY <2>2, <1>3, <1>4, <1>5, <1>6 DEF CatalogueInv, SourcesFit
  <2> QED
    BY <2>1, <2>2
<1>9. CreationsSaw'
  <2> SUFFICES ASSUME NEW j \in Keepers, keeper'[j].at = "open", keeper'[j].op = "create",
                      NEW q \in Products', barcode'[q] = keeper'[j].barcode, barcode'[q] # NoBarcode
               PROVE  source'[q] \in while'[j]
    BY DEF CreationsSaw
  <2>1. j # k /\ keeper'[j] = keeper[j]
    BY <1>3
  <2>2. CASE q = p
    BY <2>1, <2>2, <1>3, <1>4
  <2>3. CASE q # p
    BY <2>1, <2>3, <1>3, <1>4, <1>5 DEF CatalogueInv, CreationsSaw
  <2> QED
    BY <2>2, <2>3
<1>10. SharedBarcodesAreRaces'
  <2>1. ASSUME NEW q \in Products', q # p, barcode'[q] = b, b # NoBarcode
        PROVE  source'[q] \in while'[k] \/ keeper'[k].op = "edit"
    <3>1. q \in Products /\ barcode[q] = b /\ source'[q] = source[q]
      BY <2>1, <1>4, <1>5
    <3> QED
      BY <3>1, <2>1, <1>1, <1>3 DEF CatalogueInv, CreationsSaw, b, op
  <2> SUFFICES ASSUME NEW c \in Barcodes, NEW x \in Products', NEW y \in Products', x # y,
                      barcode'[x] = c, barcode'[y] = c
               PROVE  \/ source'[x] \in while'[source'[y]] \/ source'[y] \in while'[source'[x]]
                      \/ \E r \in {source'[x], source'[y]} : keeper'[r].op = "edit"
    BY DEF SharedBarcodesAreRaces, Holders
  <2>2. c # NoBarcode
    BY BarcodeAssumption
  <2>3. CASE x = p
    BY <2>1, <2>2, <2>3, <1>4
  <2>4. CASE y = p
    BY <2>1, <2>2, <2>4, <1>4
  <2>5. CASE x # p /\ y # p
    <3>1. /\ x \in Holders(c) /\ y \in Holders(c) /\ source'[x] = source[x] /\ source'[y] = source[y]
          /\ source[x] # k /\ source[y] # k /\ source[x] \in Keepers /\ source[y] \in Keepers
      BY <2>5, <1>4, <1>5, <1>6 DEF Holders
    <3>2. \/ source[x] \in while[source[y]] \/ source[y] \in while[source[x]]
          \/ \E r \in {source[x], source[y]} : keeper[r].op = "edit"
      BY <3>1 DEF CatalogueInv, SharedBarcodesAreRaces
    <3> QED
      BY <3>1, <3>2, <1>3
  <2> QED
    BY <2>3, <2>4, <2>5
<1> QED
  BY <1>3, <1>4, <1>5, <1>7, <1>8, <1>9, <1>10 DEF CatalogueInv

(* All together.                                                           *)
LEMMA CatalogueStepInv ==
  ASSUME CatalogueInv, [CatalogueNext]_catalogueVars
  PROVE  CatalogueInv'
<1>1. CASE UNCHANGED catalogueVars
  BY <1>1 DEF catalogueVars, CatalogueInv, KeepersFit, SourcesFit, CreationsSaw,
              SharedBarcodesAreRaces, Holders, Products
<1>2. ASSUME NEW k \in Keepers, NEW b \in Barcodes \cup {NoBarcode},
             StartProduct(k, b) \/ \E p \in Keepers : StartEdit(k, p, b)
      PROVE  CatalogueInv'
  BY <1>2, StartProductInv, OtherStartsInv
<1>3. ASSUME NEW k \in Keepers, (\E b \in Barcodes : Lookup(k, b)) \/ \E p \in Keepers : StartRemove(k, p)
      PROVE  CatalogueInv'
  BY <1>3, OtherStartsInv
<1>4. ASSUME NEW k \in Keepers, CommitProduct(k) \/ CommitRemove(k) \/ LoseProduct(k)
      PROVE  CatalogueInv'
  BY <1>4, CommitProductInv, OtherEndsInv
<1> QED
  BY <1>1, <1>2, <1>3, <1>4 DEF CatalogueNext

(* Two products share a barcode only through a race or an edit             *)
(* (inventory/router.py:62-64).                                            *)
THEOREM BarcodesShared == CatalogueSpec => []SharedBarcodesAreRaces
<1>1. CatalogueInv => SharedBarcodesAreRaces
  BY DEF CatalogueInv
<1> QED
  BY <1>1, CatalogueInitInv, CatalogueStepInv, PTL DEF CatalogueSpec

LEMMA CatalogueTyped == CatalogueInv => CatalogueTypeOK
<1> SUFFICES ASSUME CatalogueInv PROVE CatalogueTypeOK
  OBVIOUS
<1>1. \A k \in Keepers : keeper[k] \in KeeperRecords
  BY DEF CatalogueInv
<1> QED
  BY <1>1 DEF CatalogueInv, KeeperRecords, CatalogueTypeOK

----------------------------------------------------------------------------
(* Automation rules.                                                       *)

DeskRecords ==
  [at : {"new", "open", "done", "refused", "failed", "lost"},
   op : {"none", "seed", "create", "enable", "disable", "rename", "delete", "run"},
   todo : SUBSET Rules, fired : SUBSET Rules, seen : [Rules -> Nat]]

AutoTypes ==
  /\ desk \in [Operators -> DeskRecords]
  /\ enabled \subseteq rules /\ rules \subseteq Rules /\ doubled \subseteq Rules
  /\ count \in [Rules -> Nat] /\ logs \in [Rules -> Nat]
  /\ during \in [Operators -> SUBSET Operators] /\ dialect \in {"sqlite", "postgres"}

(* What a request loaded, and may write, is never ahead of the logs; its   *)
(* rules are nowhere else until they are committed.                        *)
DeskFits(q) ==
  /\ \A i \in Rules : desk[q].seen[i] \in Nat /\ desk[q].seen[i] <= logs[i]
  /\ desk[q].at \in {"new", "open"} => \A t \in Triggers \cup {"custom"} : <<q, t>> \notin rules
  /\ desk[q].at = "open" /\ desk[q].op = "seed" => desk[q].todo = {q} \X Triggers
  /\ desk[q].at = "open" /\ desk[q].op = "create" =>
       \E t \in Triggers \cup {"custom"} : desk[q].todo = {<<q, t>>}

(* A seeding that is open found no rules: those there are came since.      *)
SeedSaw(q) ==
  desk[q].at = "open" /\ desk[q].op = "seed" => \A i \in rules : i[1] \in during[q]

AutoInv ==
  /\ AutoTypes /\ CountIsLogged /\ SeedsOverlapped
  /\ \A q \in Operators : DeskFits(q) /\ SeedSaw(q)

(* Nothing counts for every rule.                                          *)
LEMMA NothingType == Nothing \in [Rules -> Nat] /\ \A i \in Rules : Nothing[i] = 0
BY DEF Nothing

(* The record of a request that does nothing.                              *)
LEMMA IdleType ==
  ASSUME NEW where \in {"new", "open", "done", "refused", "failed", "lost"}
  PROVE  /\ Idle(where) \in DeskRecords /\ Idle(where).at = where /\ Idle(where).op = "none"
         /\ Idle(where).todo = {} /\ Idle(where).fired = {} /\ Idle(where).seen = Nothing
BY NothingType DEF Idle, DeskRecords

(* A set of triggers has a member, and is not a single trigger.            *)
LEMMA TriggersAreMany ==
  /\ \E t \in Triggers : TRUE
  /\ \A t : ~ Triggers \subseteq {t}
<1>1. Cardinality(Triggers) > 1
  BY TriggerAssumption
<1>2. Triggers # {}
  BY <1>1, FS_EmptySet
<1>3. ASSUME NEW t, Triggers \subseteq {t} PROVE FALSE
  <2>1. IsFiniteSet({t}) /\ Cardinality({t}) = 1
    BY FS_Singleton
  <2>2. Cardinality(Triggers) <= Cardinality({t}) /\ Cardinality(Triggers) \in Nat
    BY <1>3, <2>1, FS_Subset, FS_CardinalityType
  <2> QED
    BY <1>1, <2>1, <2>2
<1> QED
  BY <1>2, <1>3

(* No rules, no counts.                                                    *)
LEMMA AutoInitInv == AutoInit => AutoInv
<1> SUFFICES ASSUME AutoInit PROVE AutoInv
  OBVIOUS
<1>1. desk = [q \in Operators |-> Idle("new")] /\ rules = {} /\ enabled = {} /\ doubled = {}
      /\ count = Nothing /\ logs = Nothing /\ during = [q \in Operators |-> {}]
      /\ dialect \in {"sqlite", "postgres"}
  BY TriggerAssumption DEF AutoInit
<1>2. AutoTypes
  BY <1>1, NothingType, IdleType DEF AutoTypes
<1>3. \A q \in Operators : DeskFits(q) /\ SeedSaw(q)
  BY <1>1, NothingType, IdleType DEF DeskFits, SeedSaw
<1>4. CountIsLogged
  BY <1>1, NothingType DEF CountIsLogged
<1>5. SeedsOverlapped
  <2>1. \A q \in Operators : ~ {q} \X Triggers \subseteq rules
    <3>1. PICK t \in Triggers : TRUE
      BY TriggersAreMany
    <3>2. \A q \in Operators : <<q, t>> \in {q} \X Triggers /\ <<q, t>> \notin rules
      BY <1>1
    <3> QED
      BY <3>2
  <2> QED
    BY <2>1 DEF SeedsOverlapped
<1> QED
  BY <1>2, <1>3, <1>4, <1>5 DEF AutoInv

(* A step of one request that leaves the tables alone.                     *)
LEMMA AutoQuiet ==
  ASSUME AutoInv, NEW q \in Operators, NEW r \in DeskRecords, desk' = [desk EXCEPT ![q] = r],
         UNCHANGED <<dialect, rules, enabled, count, logs, during, doubled>>,
         DeskFits(q)', SeedSaw(q)'
  PROVE  AutoInv'
<1>1. AutoTypes /\ CountIsLogged /\ SeedsOverlapped /\ \A p \in Operators : DeskFits(p) /\ SeedSaw(p)
  BY DEF AutoInv
<1>2. \A p \in Operators \ {q} : desk'[p] = desk[p]
  BY <1>1 DEF AutoTypes
<1>3. AutoTypes'
  BY <1>1 DEF AutoTypes
<1>4. \A p \in Operators \ {q} : DeskFits(p)' /\ SeedSaw(p)'
  BY <1>1, <1>2 DEF DeskFits, SeedSaw
<1>5. CountIsLogged' /\ SeedsOverlapped'
  BY <1>1 DEF CountIsLogged, SeedsOverlapped
<1>6. \A p \in Operators : DeskFits(p)' /\ SeedSaw(p)'
  BY <1>4
<1> QED
  BY <1>3, <1>5, <1>6 DEF AutoInv

(* A record that asks for nothing fits wherever its request committed no   *)
(* rules, or is over.                                                      *)
LEMMA BeginInv ==
  ASSUME AutoInv, NEW q \in Operators,
         NEW op \in {"none", "seed", "create", "enable", "disable", "rename", "delete", "run"},
         NEW targets \in SUBSET Rules, NEW figures \in {count, Nothing}, Begin(q, op, targets, figures),
         op = "seed" => targets = {q} \X Triggers /\ rules = {},
         op = "create" => \E t \in Triggers \cup {"custom"} : targets = {<<q, t>>}
  PROVE  AutoInv'
<1> DEFINE r == [at |-> "open", op |-> op, todo |-> targets, fired |-> {}, seen |-> figures]
<1>1. /\ desk' = [desk EXCEPT ![q] = r] /\ desk[q].at = "new"
      /\ UNCHANGED <<dialect, rules, enabled, count, logs, during, doubled>>
  BY DEF Begin
<1>2. /\ figures \in [Rules -> Nat] /\ \A i \in Rules : figures[i] \in Nat /\ figures[i] <= logs[i]
  BY NothingType DEF AutoInv, AutoTypes, CountIsLogged
<1>3. /\ r \in DeskRecords /\ r.at = "open" /\ r.op = op /\ r.todo = targets /\ r.seen = figures
  BY <1>2 DEF DeskRecords
<1> HIDE DEF r
<1>4. desk'[q] = r
  BY <1>1 DEF AutoInv, AutoTypes
<1>5. DeskFits(q)'
  BY <1>1, <1>2, <1>3, <1>4 DEF AutoInv, DeskFits
<1>6. SeedSaw(q)'
  BY <1>1, <1>3, <1>4 DEF SeedSaw
<1> QED
  BY <1>1, <1>3, <1>5, <1>6, AutoQuiet

(* A request is refused.                                                   *)
LEMMA RefuseInv ==
  ASSUME AutoInv, NEW q \in Operators, NEW where \in {"refused", "failed", "lost"}, Refuse(q, where)
  PROVE  AutoInv'
<1>1. /\ desk' = [desk EXCEPT ![q] = Idle(where)]
      /\ UNCHANGED <<dialect, rules, enabled, count, logs, during, doubled>>
  BY DEF Refuse
<1>2. /\ Idle(where) \in DeskRecords /\ Idle(where).at = where /\ Idle(where).seen = Nothing
  BY IdleType
<1>3. desk'[q] = Idle(where)
  BY <1>1 DEF AutoInv, AutoTypes
<1>4. DeskFits(q)' /\ SeedSaw(q)'
  BY <1>1, <1>2, <1>3, NothingType DEF DeskFits, SeedSaw, AutoInv, AutoTypes
<1> QED
  BY <1>1, <1>2, <1>4, AutoQuiet

(* The requests begin.                                                     *)
LEMMA AutoStartsInv ==
  ASSUME AutoInv, NEW q \in Operators,
         StartSeed(q) \/ StartCreateRule(q) \/ StartUpdateRule(q) \/ StartDeleteRule(q) \/ StartRun(q)
  PROVE  AutoInv'
<1>1. /\ {q} \X Triggers \subseteq Rules /\ \A t \in Triggers \cup {"custom"} : {<<q, t>>} \subseteq Rules
      /\ \A i \in rules : {i} \subseteq Rules /\ rules \cap enabled \subseteq Rules
  BY DEF Rules, AutoInv, AutoTypes
<1>2. CASE StartSeed(q)
  BY <1>1, <1>2, BeginInv, RefuseInv DEF StartSeed
<1>3. CASE StartCreateRule(q)
  BY <1>1, <1>3, BeginInv DEF StartCreateRule
<1>4. CASE StartUpdateRule(q)
  BY <1>1, <1>4, BeginInv, RefuseInv DEF StartUpdateRule
<1>5. CASE StartDeleteRule(q)
  BY <1>1, <1>5, BeginInv DEF StartDeleteRule
<1>6. CASE StartRun(q)
  <2>1. rules \cap enabled \in SUBSET Rules
    BY DEF AutoInv, AutoTypes
  <2> QED
    BY <2>1, <1>6, BeginInv DEF StartRun
<1> QED
  BY <1>2, <1>3, <1>4, <1>5, <1>6

(* A run fires the rules it loaded, one at a time.                         *)
LEMMA RunRuleInv ==
  ASSUME AutoInv, NEW q \in Operators, NEW i \in Rules, RunRule(q, i)
  PROVE  AutoInv'
<1>1. PICK triggered \in BOOLEAN :
        desk' = [desk EXCEPT ![q].todo = @ \ {i},
                             ![q].fired = IF triggered THEN @ \cup {i} ELSE @]
  BY DEF RunRule, Verdicts
<1> DEFINE r == [desk[q] EXCEPT !.todo = @ \ {i}, !.fired = IF triggered THEN @ \cup {i} ELSE @]
<1>2. desk[q] \in DeskRecords /\ desk[q].op = "run"
  BY DEF RunRule, AutoInv, AutoTypes
<1>3. /\ r \in DeskRecords /\ r.at = desk[q].at /\ r.op = "run" /\ r.seen = desk[q].seen
  BY <1>2 DEF DeskRecords
<1>4. desk' = [desk EXCEPT ![q] = r] /\ desk'[q] = r
  BY <1>1, <1>2 DEF AutoInv, AutoTypes, DeskRecords
<1> HIDE DEF r
<1>5. UNCHANGED <<dialect, rules, enabled, count, logs, during, doubled>>
  BY DEF RunRule
<1>6. DeskFits(q)' /\ SeedSaw(q)'
  BY <1>3, <1>4, <1>5 DEF AutoInv, DeskFits, SeedSaw
<1> QED
  BY <1>3, <1>4, <1>5, <1>6, AutoQuiet

(* A request is over: those open have seen it, and its record is idle.     *)
LEMMA CloseMoves ==
  ASSUME AutoInv, NEW q \in Operators, Close(q), desk[q].at = "open"
  PROVE  /\ desk' \in [Operators -> DeskRecords] /\ during' \in [Operators -> SUBSET Operators]
         /\ desk'[q] = Idle("done") /\ \A p \in Operators \ {q} : desk'[p] = desk[p]
         /\ \A p \in Operators : during[p] \subseteq during'[p]
         /\ \A p \in Operators : desk[p].at = "open" => q \in during'[p]
         /\ \A i \in Rules : desk'[q].seen[i] = 0
BY IdleType, NothingType DEF Close, Seen, AutoInv, AutoTypes

(* The seeds are still known where rules were not added.                   *)
LEMMA SeedsKept ==
  ASSUME AutoInv, NEW q \in Operators, Close(q), desk[q].at = "open", rules' \subseteq rules
  PROVE  SeedsOverlapped' /\ \A p \in Operators : SeedSaw(p)'
<1>1. /\ \A p \in Operators : during[p] \subseteq during'[p]
      /\ desk'[q] = Idle("done") /\ \A p \in Operators \ {q} : desk'[p] = desk[p]
  BY CloseMoves
<1>2. \A p \in Operators : desk'[p].at = "open" => desk'[p] = desk[p]
  BY <1>1, IdleType
<1> QED
  BY <1>1, <1>2 DEF AutoInv, SeedsOverlapped, SeedSaw

(* What the requests loaded is not ahead of logs that only grow.           *)
LEMMA DesksKept ==
  ASSUME AutoInv, NEW q \in Operators, Close(q), desk[q].at = "open",
         \/ rules' \subseteq rules
         \/ desk[q].op \in {"seed", "create"} /\ rules' = rules \cup desk[q].todo,
         logs' \in [Rules -> Nat], \A i \in Rules : logs[i] <= logs'[i]
  PROVE  \A p \in Operators : DeskFits(p)'
<1>1. /\ desk'[q] = Idle("done") /\ \A p \in Operators \ {q} : desk'[p] = desk[p]
      /\ \A i \in Rules : desk'[q].seen[i] = 0
  BY CloseMoves
<1>2. \A i \in Rules : logs[i] \in Nat /\ logs'[i] \in Nat
  BY DEF AutoInv, AutoTypes
<1>3. DeskFits(q)'
  BY <1>1, <1>2, IdleType DEF DeskFits
<1>4. \A i \in desk[q].todo : desk[q].op \in {"seed", "create"} => i[1] = q
  BY DEF AutoInv, DeskFits
<1>5. ASSUME NEW p \in Operators \ {q} PROVE DeskFits(p)'
  <2>1. DeskFits(p) /\ desk'[p] = desk[p]
    BY <1>1 DEF AutoInv
  <2>2. \A t \in Triggers \cup {"custom"} : <<p, t>> \in rules' => <<p, t>> \in rules
    <3> SUFFICES ASSUME NEW t \in Triggers \cup {"custom"}, <<p, t>> \in rules' PROVE <<p, t>> \in rules
      OBVIOUS
    <3>1. <<p, t>>[1] # q
      OBVIOUS
    <3> QED
      BY <3>1, <1>4
  <2> QED
    BY <2>1, <2>2, <1>2 DEF DeskFits
<1> QED
  BY <1>3, <1>5

(* A seeding or a creation puts its rules on file.                         *)
LEMMA CommitNewRulesInv ==
  ASSUME AutoInv, NEW q \in Operators, CommitNewRules(q)
  PROVE  AutoInv'
<1> DEFINE new == desk[q].todo
<1>1. /\ desk[q].at = "open" /\ desk[q].op \in {"seed", "create"} /\ Close(q)
      /\ rules' = rules \cup new /\ enabled' = enabled \cup new
      /\ UNCHANGED <<count, logs, doubled, dialect>>
  BY DEF CommitNewRules, Close
<1>2. /\ desk' \in [Operators -> DeskRecords] /\ during' \in [Operators -> SUBSET Operators]
      /\ desk'[q] = Idle("done") /\ \A p \in Operators \ {q} : desk'[p] = desk[p]
      /\ \A p \in Operators : during[p] \subseteq during'[p]
      /\ \A p \in Operators : desk[p].at = "open" => q \in during'[p]
  BY <1>1, CloseMoves
<1>3. new \subseteq Rules /\ \A i \in new : i[1] = q
  BY <1>1 DEF AutoInv, AutoTypes, DeskRecords, DeskFits
<1>4. AutoTypes'
  BY <1>1, <1>2, <1>3 DEF AutoInv, AutoTypes
<1>5. CountIsLogged'
  BY <1>1 DEF AutoInv, CountIsLogged
<1>6. \A i \in Rules : logs[i] \in Nat /\ logs'[i] = logs[i]
  BY <1>1 DEF AutoInv, AutoTypes
<1>7. \A p \in Operators : DeskFits(p)'
  <2>1. logs' \in [Rules -> Nat] /\ \A i \in Rules : logs[i] <= logs'[i]
    BY <1>1, <1>6 DEF AutoInv, AutoTypes
  <2> QED
    BY <1>1, <2>1, DesksKept
<1>8. ASSUME NEW p \in Operators PROVE SeedSaw(p)'
  <2>1. CASE p = q
    BY <2>1, <1>2, IdleType DEF SeedSaw
  <2>2. CASE p # q
    BY <2>2, <1>1, <1>2, <1>3 DEF AutoInv, SeedSaw
  <2> QED
    BY <2>1, <2>2
<1>9. SeedsOverlapped'
  <2>1. ASSUME NEW p \in Operators, p # q, {p} \X Triggers \subseteq rules'
        PROVE  {p} \X Triggers \subseteq rules
    <3>1. \A i \in {p} \X Triggers : i[1] = p
      OBVIOUS
    <3> QED
      BY <2>1, <3>1, <1>1, <1>3
  <2>2. ASSUME NEW p \in Operators, p # q, {p} \X Triggers \subseteq rules, {q} \X Triggers \subseteq rules'
        PROVE  p \in during'[q]
    <3>1. \A t \in Triggers : <<q, t>> \in new
      BY <2>2, <1>1 DEF AutoInv, DeskFits
    <3>2. desk[q].op = "seed"
      <4>1. ASSUME NEW s, new = {<<q, s>>} PROVE FALSE
        <5>1. \A t \in Triggers : <<q, t>> = <<q, s>>
          BY <3>1, <4>1
        <5>2. Triggers \subseteq {s}
          BY <5>1
        <5> QED
          BY <5>2, TriggersAreMany
      <4> QED
        BY <4>1, <1>1 DEF AutoInv, DeskFits
    <3>3. PICK t \in Triggers : TRUE
      BY TriggersAreMany
    <3>4. <<p, t>> \in rules /\ <<p, t>>[1] = p
      BY <2>2
    <3> QED
      BY <3>2, <3>4, <1>1, <1>2 DEF AutoInv, SeedSaw
  <2> SUFFICES ASSUME NEW p \in Operators, NEW r \in Operators, p # r,
                      {p} \X Triggers \subseteq rules', {r} \X Triggers \subseteq rules'
               PROVE  p \in during'[r] \/ r \in during'[p]
    BY DEF SeedsOverlapped
  <2>3. CASE p = q
    BY <2>1, <2>2, <2>3
  <2>4. CASE r = q
    BY <2>1, <2>2, <2>4
  <2>5. CASE p # q /\ r # q
    <3>1. p \in during[r] \/ r \in during[p]
      BY <2>1, <2>5 DEF AutoInv, SeedsOverlapped
    <3> QED
      BY <3>1, <1>2
  <2> QED
    BY <2>3, <2>4, <2>5
<1> QED
  BY <1>4, <1>5, <1>7, <1>8, <1>9 DEF AutoInv

(* A rule is enabled, disabled or renamed.                                 *)
LEMMA CommitUpdateInv ==
  ASSUME AutoInv, NEW q \in Operators, CommitUpdate(q)
  PROVE  AutoInv'
<1>1. /\ desk[q].at = "open" /\ Close(q) /\ UNCHANGED <<rules, logs, doubled, dialect>>
      /\ desk[q].todo \subseteq rules
      /\ enabled' \in {enabled \cup desk[q].todo, enabled \ desk[q].todo, enabled}
  BY DEF CommitUpdate, Close
<1>2. count' = count
  <2>1. \A i \in Rules : count'[i] = count[i]
    BY DEF CommitUpdate, CountAfterUpdate
  <2>2. count' = [i \in Rules |-> count'[i]]
    BY DEF CommitUpdate
  <2> QED
    BY <2>1, <2>2 DEF AutoInv, AutoTypes
<1>3. AutoTypes'
  BY <1>1, <1>2, CloseMoves DEF AutoInv, AutoTypes
<1>4. CountIsLogged'
  BY <1>1, <1>2 DEF AutoInv, CountIsLogged
<1>5. logs' \in [Rules -> Nat] /\ (\A i \in Rules : logs[i] <= logs'[i]) /\ rules' \subseteq rules
  BY <1>1 DEF AutoInv, AutoTypes
<1> QED
  BY <1>1, <1>3, <1>4, <1>5, SeedsKept, DesksKept DEF AutoInv

(* A rule goes, with its logs.                                             *)
LEMMA CommitDeleteInv ==
  ASSUME AutoInv, NEW q \in Operators, CommitDelete(q)
  PROVE  AutoInv'
<1>1. /\ desk[q].at = "open" /\ Close(q) /\ UNCHANGED <<count, logs, doubled, dialect>>
      /\ rules' = rules \ desk[q].todo /\ enabled' = enabled \ desk[q].todo
  BY DEF CommitDelete, Close
<1>2. AutoTypes'
  BY <1>1, CloseMoves DEF AutoInv, AutoTypes
<1>3. CountIsLogged'
  BY <1>1 DEF AutoInv, CountIsLogged
<1>4. logs' \in [Rules -> Nat] /\ (\A i \in Rules : logs[i] <= logs'[i]) /\ rules' \subseteq rules
  BY <1>1 DEF AutoInv, AutoTypes
<1> QED
  BY <1>1, <1>2, <1>3, <1>4, SeedsKept, DesksKept DEF AutoInv

(* A run writes one more than it loaded, and a log for each: the count     *)
(* falls behind where the load was behind already or another run came in   *)
(* between.                                                                *)
LEMMA CommitRunInv ==
  ASSUME AutoInv, NEW q \in Operators, CommitRun(q)
  PROVE  AutoInv'
<1>1. /\ desk[q].at = "open" /\ Close(q) /\ UNCHANGED <<rules, enabled, dialect>>
      /\ count' = [i \in Rules |-> IF i \in desk[q].fired THEN desk[q].seen[i] + 1 ELSE count[i]]
      /\ logs' = [i \in Rules |-> IF i \in desk[q].fired THEN logs[i] + 1 ELSE logs[i]]
      /\ doubled' = doubled \cup {i \in desk[q].fired : count[i] # desk[q].seen[i]}
  BY DEF CommitRun, Close, Logged
<1>2. \A i \in Rules : /\ desk[q].seen[i] \in Nat /\ desk[q].seen[i] <= logs[i]
                       /\ count[i] \in Nat /\ logs[i] \in Nat /\ count[i] <= logs[i]
                       /\ count[i] < logs[i] => i \in doubled
  BY DEF AutoInv, AutoTypes, DeskFits, CountIsLogged
<1>3. logs' \in [Rules -> Nat] /\ (\A i \in Rules : logs[i] <= logs'[i]) /\ rules' \subseteq rules
  BY <1>1, <1>2
<1>4. count' \in [Rules -> Nat] /\ doubled' \subseteq Rules
  BY <1>1, <1>2 DEF AutoInv, AutoTypes, DeskRecords
<1>5. AutoTypes'
  BY <1>1, <1>3, <1>4, CloseMoves DEF AutoInv, AutoTypes
<1>6. CountIsLogged'
  <2> SUFFICES ASSUME NEW i \in Rules
               PROVE  count'[i] <= logs'[i] /\ (count'[i] < logs'[i] => i \in doubled')
    BY DEF CountIsLogged
  <2>1. CASE i \in desk[q].fired
    BY <2>1, <1>1, <1>2
  <2>2. CASE i \notin desk[q].fired
    BY <2>2, <1>1, <1>2
  <2> QED
    BY <2>1, <2>2
<1> QED
  BY <1>1, <1>3, <1>5, <1>6, SeedsKept, DesksKept DEF AutoInv

(* All together.                                                           *)
LEMMA AutoStepInv ==
  ASSUME AutoInv, [AutoNext]_autoVars
  PROVE  AutoInv'
<1>1. CASE UNCHANGED autoVars
  BY <1>1 DEF autoVars, AutoInv, AutoTypes, CountIsLogged, SeedsOverlapped, DeskFits, SeedSaw
<1>2. ASSUME NEW q \in Operators,
             StartSeed(q) \/ StartCreateRule(q) \/ StartUpdateRule(q) \/ StartDeleteRule(q) \/ StartRun(q)
      PROVE  AutoInv'
  BY <1>2, AutoStartsInv
<1>3. ASSUME NEW q \in Operators, NEW i \in Rules, RunRule(q, i)
      PROVE  AutoInv'
  BY <1>3, RunRuleInv
<1>4. ASSUME NEW q \in Operators,
             CommitNewRules(q) \/ CommitUpdate(q) \/ CommitDelete(q) \/ CommitRun(q)
      PROVE  AutoInv'
  BY <1>4, CommitNewRulesInv, CommitUpdateInv, CommitDeleteInv, CommitRunInv
<1>5. ASSUME NEW q \in Operators, Conflict(q) \/ LoseRequest(q)
      PROVE  AutoInv'
  BY <1>5, RefuseInv DEF Conflict, LoseRequest
<1> QED
  BY <1>1, <1>2, <1>3, <1>4, <1>5 DEF AutoNext

(* The counts of the rules never exceed their logs, and two sets of        *)
(* templates are on file only if their seedings overlapped                 *)
(* (automation.py:25-53, 120-153).                                         *)
THEOREM RulesKept == AutoSpec => []RulesAreKept
<1>1. AutoInv => RulesAreKept
  BY DEF AutoInv, RulesAreKept
<1> QED
  BY <1>1, AutoInitInv, AutoStepInv, PTL DEF AutoSpec

LEMMA RulesTyped == AutoInv => AutoTypeOK
<1> SUFFICES ASSUME AutoInv PROVE AutoTypeOK
  OBVIOUS
<1>1. \A q \in Operators : desk[q] \in DeskRecords
  BY DEF AutoInv, AutoTypes
<1> QED
  BY <1>1 DEF AutoInv, AutoTypes, DeskRecords, AutoTypeOK

----------------------------------------------------------------------------
(* The business memory.                                                    *)

MindRecords ==
  [at : {"new", "open", "done", "failed", "lost"}, op : {"none", "store", "search", "consolidate"},
   chosen : SUBSET Minds, seen : [Minds -> Nat]]

MemoryTypes ==
  /\ mind \in [Minds -> MindRecords]
  /\ database \in {"sqlite", "postgres"}
  /\ aged \subseteq entries /\ entries \subseteq Minds /\ miscounted \subseteq Minds
  /\ confidence \in [Minds -> Int] /\ hits \in [Minds -> Nat] /\ open \in [Minds -> SUBSET Minds]

(* An entry is the work of a store that is over; nothing else was chosen.  *)
EntriesStored ==
  /\ \A i \in entries : Did(i, "store")
  /\ \A q \in Minds : \A i \in mind[q].chosen : Did(i, "store")

(* What an open search loaded, and what is counted, against the searches   *)
(* that returned the entry; what a search returned has been counted.       *)
HitsFit ==
  \A i \in Minds :
    /\ IsFiniteSet(Finders(i))
    /\ hits[i] <= Cardinality(Finders(i))
    /\ hits[i] < Cardinality(Finders(i)) => i \in miscounted
    /\ Finders(i) # {} => hits[i] > 0
    /\ \A q \in Minds : mind[q].at = "open" => mind[q].seen[i] <= Cardinality(Finders(i))

(* A consolidation chose entries without confidence; those it found in use *)
(* were found before it ended, and are gone once it has.                   *)
ConsolidationsFit ==
  \A c \in Minds : mind[c].op = "consolidate" =>
    /\ \A i \in mind[c].chosen : confidence[i] <= 0
    /\ mind[c].at = "done" => mind[c].chosen \cap entries = {}
    /\ mind[c].at \in {"open", "done"} =>
         \A i \in mind[c].chosen : \A q \in Finders(i) : c \in open[q]

MemoryInv ==
  MemoryTypes /\ EntriesStored /\ HitsFit /\ ConsolidationsFit

(* An empty memory.                                                        *)
LEMMA MemoryInitInv == MemoryInit => MemoryInv
<1> SUFFICES ASSUME MemoryInit PROVE MemoryInv
  OBVIOUS
<1>1. /\ database \in {"sqlite", "postgres"} /\ entries = {} /\ aged = {} /\ miscounted = {}
      /\ confidence = [i \in Minds |-> 0] /\ hits = [i \in Minds |-> 0]
      /\ mind = [q \in Minds |-> NewMind] /\ open = [q \in Minds |-> {}]
  BY MemoryAssumption DEF MemoryInit
<1>2. /\ NewMind \in MindRecords /\ NewMind.at = "new" /\ NewMind.op = "none" /\ NewMind.chosen = {}
  BY DEF NewMind, MindRecords
<1>3. MemoryTypes
  BY <1>1, <1>2 DEF MemoryTypes
<1>4. EntriesStored /\ ConsolidationsFit
  BY <1>1, <1>2 DEF EntriesStored, ConsolidationsFit, Did
<1>5. \A i : Finders(i) = {}
  BY <1>1, <1>2 DEF Finders, Did
<1>6. HitsFit
  BY <1>1, <1>2, <1>5, FS_EmptySet DEF HitsFit
<1> QED
  BY <1>3, <1>4, <1>6 DEF MemoryInv

(* Searches that are over stay what they were.                             *)
LEMMA FindersStay ==
  ASSUME MemoryTypes, NEW q \in Minds, mind[q].at \in {"new", "open"},
         \A p \in Minds \ {q} : mind'[p] = mind[p],
         ~(mind'[q].at = "done" /\ mind'[q].op = "search")
  PROVE  /\ \A i : Finders(i)' = Finders(i)
         /\ \A i, op : Did(i, op) /\ i \in Minds => i # q /\ Did(i, op)' /\ mind'[i] = mind[i]
BY DEF Finders, Did

(* A request begins, and remembers what it chose.                          *)
LEMMA ThinkInv ==
  ASSUME MemoryInv, NEW q \in Minds, NEW op \in {"store", "search", "consolidate"},
         NEW chosen \in SUBSET entries, Think(q, op, chosen),
         op = "consolidate" => chosen \subseteq Useless
  PROVE  MemoryInv'
<1> DEFINE r == [at |-> "open", op |-> op, chosen |-> chosen, seen |-> hits]
<1>1. /\ mind[q].at = "new" /\ mind' = [mind EXCEPT ![q] = r]
      /\ UNCHANGED <<database, entries, confidence, hits, aged, open, miscounted>>
  BY DEF Think
<1>2. r \in MindRecords /\ r.at = "open" /\ r.op = op /\ r.chosen = chosen /\ r.seen = hits
  BY DEF MindRecords, MemoryInv, MemoryTypes
<1> HIDE DEF r
<1>3. mind'[q] = r /\ \A p \in Minds \ {q} : mind'[p] = mind[p]
  BY <1>1 DEF MemoryInv, MemoryTypes
<1>4. MemoryTypes'
  BY <1>1, <1>2 DEF MemoryInv, MemoryTypes
<1>5. /\ \A i : Finders(i)' = Finders(i)
      /\ \A i, o : Did(i, o) /\ i \in Minds => i # q /\ Did(i, o)' /\ mind'[i] = mind[i]
  BY <1>1, <1>2, <1>3, FindersStay DEF MemoryInv
<1>6. EntriesStored'
  <2>1. \A i \in entries : i \in Minds /\ Did(i, "store")
    BY DEF MemoryInv, MemoryTypes, EntriesStored
  <2>2. \A p \in Minds : \A i \in mind[p].chosen : i \in Minds /\ Did(i, "store")
    BY DEF MemoryInv, MemoryTypes, MindRecords, EntriesStored
  <2> QED
    BY <2>1, <2>2, <1>1, <1>2, <1>3, <1>5 DEF EntriesStored
<1>7. HitsFit'
  BY <1>1, <1>2, <1>3, <1>5 DEF MemoryInv, HitsFit
<1>8. ASSUME NEW i \in Useless
      PROVE  confidence[i] <= 0 /\ Finders(i) = {}
  <2>1. i \in Minds /\ confidence[i] \in Int /\ hits[i] = 0 /\ 10 * confidence[i] < 1
    BY <1>8 DEF Useless, MemoryInv, MemoryTypes
  <2> QED
    BY <2>1 DEF MemoryInv, HitsFit
<1>9. ConsolidationsFit'
  <2> SUFFICES ASSUME NEW c \in Minds, mind'[c].op = "consolidate"
               PROVE  /\ \A i \in mind'[c].chosen : confidence[i] <= 0
                      /\ mind'[c].at = "done" => mind'[c].chosen \cap entries = {}
                      /\ mind'[c].at \in {"open", "done"} =>
                           \A i \in mind'[c].chosen : \A p \in Finders(i) : c \in open[p]
    BY <1>1, <1>5 DEF ConsolidationsFit
  <2>1. CASE c = q
    BY <2>1, <1>2, <1>3, <1>8
  <2>2. CASE c # q
    BY <2>2, <1>3 DEF MemoryInv, ConsolidationsFit
  <2> QED
    BY <2>1, <2>2
<1> QED
  BY <1>4, <1>6, <1>7, <1>9 DEF MemoryInv

Closing(r, outcome, s) == [[r EXCEPT !.at = outcome] EXCEPT !.seen = s]
EndsAs(e, r, outcome) ==
  e \in MindRecords /\ e.at = outcome /\ e.op = r.op /\ e.chosen = r.chosen

(* What a request's end changes of its record.                             *)
LEMMA EndedType ==
  ASSUME NEW r \in MindRecords, NEW outcome \in {"done", "failed", "lost"}, NEW s \in [Minds -> Nat]
  PROVE  EndsAs(Closing(r, outcome, s), r, outcome)
BY DEF MindRecords, Closing, EndsAs

(* A request ends, and remembers who was open.                             *)
LEMMA ConcludeMoves ==
  ASSUME MemoryInv, NEW q \in Minds, mind[q].at = "open", NEW outcome \in {"done", "failed", "lost"},
         Conclude(q, outcome)
  PROVE  /\ mind' \in [Minds -> MindRecords] /\ open' \in [Minds -> SUBSET Minds]
         /\ mind'[q].at = outcome /\ mind'[q].op = mind[q].op /\ mind'[q].chosen = mind[q].chosen
         /\ \A p \in Minds \ {q} : mind'[p] = mind[p] /\ open'[p] = open[p]
         /\ \A p \in Minds \ {q} : mind[p].at = "open" => p \in open'[q]
<1>1. NewMind.seen \in [Minds -> Nat]
  BY DEF NewMind
<1> DEFINE s == NewMind.seen
<1>2. /\ mind' = [mind EXCEPT ![q].at = outcome, ![q].seen = s]
      /\ open' = [open EXCEPT ![q] = {p \in Minds \ {q} : mind[p].at = "open"}]
  BY DEF Conclude
<1>3. mind \in [Minds -> MindRecords] /\ open \in [Minds -> SUBSET Minds]
  BY DEF MemoryInv, MemoryTypes
<1> HIDE DEF s
<1>4. s \in [Minds -> Nat] /\ mind[q] \in MindRecords
  BY <1>1, <1>3 DEF s
<1> DEFINE e == Closing(mind[q], outcome, s)
<1>5. e \in MindRecords /\ e.at = outcome /\ e.op = mind[q].op /\ e.chosen = mind[q].chosen
  <2>1. EndsAs(e, mind[q], outcome)
    BY <1>4, EndedType
  <2> QED
    BY <2>1 DEF EndsAs
<1>6. mind' = [mind EXCEPT ![q] = e]
  BY <1>2, <1>3 DEF Closing
<1> HIDE DEF e
<1>7. mind' \in [Minds -> MindRecords] /\ mind'[q] = e /\ \A p \in Minds \ {q} : mind'[p] = mind[p]
  BY <1>3, <1>5, <1>6
<1> QED
  BY <1>2, <1>3, <1>5, <1>7

(* An end that finds nothing, and leaves the entries alone.                *)
LEMMA ConcludeInv ==
  ASSUME MemoryInv, NEW q \in Minds, mind[q].at = "open", NEW outcome \in {"done", "failed", "lost"},
         Conclude(q, outcome), UNCHANGED <<database, entries, confidence, hits, aged, miscounted>>,
         outcome # "done"
  PROVE  MemoryInv'
<1>1. /\ mind' \in [Minds -> MindRecords] /\ open' \in [Minds -> SUBSET Minds]
      /\ mind'[q].at = outcome /\ mind'[q].op = mind[q].op /\ mind'[q].chosen = mind[q].chosen
      /\ \A p \in Minds \ {q} : mind'[p] = mind[p] /\ open'[p] = open[p]
  BY ConcludeMoves
<1>2. MemoryTypes'
  BY <1>1 DEF MemoryInv, MemoryTypes
<1>3. /\ \A i : Finders(i)' = Finders(i)
      /\ \A i, o : Did(i, o) /\ i \in Minds => i # q /\ Did(i, o)' /\ mind'[i] = mind[i]
  BY <1>1, FindersStay DEF MemoryInv
<1>4. /\ \A i \in entries : i \in Minds
      /\ \A p \in Minds : mind'[p].chosen = mind[p].chosen /\ mind'[p].op = mind[p].op
      /\ \A p \in Minds : mind[p].chosen \subseteq Minds
  BY <1>1 DEF MemoryInv, MemoryTypes, MindRecords
<1>5. EntriesStored'
  BY <1>3, <1>4 DEF MemoryInv, EntriesStored
<1>6. HitsFit'
  BY <1>1, <1>3 DEF MemoryInv, HitsFit
<1>7. \A i, p : p \in Finders(i) => p # q /\ p \in Minds
  BY DEF Finders, Did
<1>8. ConsolidationsFit'
  BY <1>1, <1>3, <1>4, <1>7 DEF MemoryInv, ConsolidationsFit
<1> QED
  BY <1>2, <1>5, <1>6, <1>8 DEF MemoryInv

(* An entry is stored.                                                     *)
LEMMA CommitStoreInv ==
  ASSUME MemoryInv, NEW q \in Minds, NEW c \in Confidences, CommitStore(q, c)
  PROVE  MemoryInv'
<1>1. /\ mind[q].at = "open" /\ mind[q].op = "store" /\ entries' = entries \cup {q}
      /\ confidence' = [confidence EXCEPT ![q] = Stored(c)] /\ Conclude(q, "done")
      /\ UNCHANGED <<database, hits, aged, miscounted>>
  BY DEF CommitStore
<1>2. Stored(c) \in Int
  BY MemoryAssumption DEF Stored
<1>3. /\ mind' \in [Minds -> MindRecords] /\ open' \in [Minds -> SUBSET Minds]
      /\ mind'[q].at = "done" /\ mind'[q].op = "store" /\ mind'[q].chosen = mind[q].chosen
      /\ \A p \in Minds \ {q} : mind'[p] = mind[p] /\ open'[p] = open[p]
  BY <1>1, ConcludeMoves
<1>4. MemoryTypes'
  BY <1>1, <1>2, <1>3 DEF MemoryInv, MemoryTypes
<1>5. /\ \A i : Finders(i)' = Finders(i)
      /\ \A i, o : Did(i, o) /\ i \in Minds => i # q /\ Did(i, o)' /\ mind'[i] = mind[i]
  BY <1>1, <1>3, FindersStay DEF MemoryInv
<1>6. /\ \A i \in entries : i \in Minds /\ Did(i, "store")
      /\ \A p \in Minds : mind'[p].chosen = mind[p].chosen /\ mind'[p].op = mind[p].op
      /\ \A p \in Minds : \A i \in mind[p].chosen : i \in Minds /\ Did(i, "store")
  BY <1>1, <1>3 DEF MemoryInv, MemoryTypes, MindRecords, EntriesStored
<1>7. EntriesStored'
  BY <1>1, <1>3, <1>5, <1>6 DEF EntriesStored, Did
<1>8. HitsFit'
  BY <1>1, <1>3, <1>5 DEF MemoryInv, HitsFit
<1>9. \A i, p : p \in Finders(i) => p # q /\ p \in Minds
  BY <1>1 DEF Finders, Did
<1>10. \A p \in Minds : \A i \in mind[p].chosen : i # q /\ confidence'[i] = confidence[i]
  BY <1>1, <1>5, <1>6 DEF MemoryInv, MemoryTypes
<1>11. ConsolidationsFit'
  <2> SUFFICES ASSUME NEW d \in Minds, mind'[d].op = "consolidate"
               PROVE  /\ \A i \in mind'[d].chosen : confidence'[i] <= 0
                      /\ mind'[d].at = "done" => mind'[d].chosen \cap entries' = {}
                      /\ mind'[d].at \in {"open", "done"} =>
                           \A i \in mind'[d].chosen : \A p \in Finders(i)' : d \in open'[p]
    BY DEF ConsolidationsFit
  <2>1. d # q /\ mind'[d] = mind[d]
    BY <1>3
  <2> QED
    BY <2>1, <1>1, <1>3, <1>5, <1>9, <1>10 DEF MemoryInv, ConsolidationsFit
<1> QED
  BY <1>4, <1>7, <1>8, <1>11 DEF MemoryInv

(* The chosen entries go.                                                  *)
LEMMA CommitConsolidateInv ==
  ASSUME MemoryInv, NEW q \in Minds, CommitConsolidate(q)
  PROVE  MemoryInv'
<1>1. /\ mind[q].at = "open" /\ mind[q].op = "consolidate" /\ Conclude(q, "done")
      /\ entries' = entries \ mind[q].chosen /\ aged' = aged \ mind[q].chosen
      /\ UNCHANGED <<database, confidence, hits, miscounted>>
  BY DEF CommitConsolidate
<1>2. /\ mind' \in [Minds -> MindRecords] /\ open' \in [Minds -> SUBSET Minds]
      /\ mind'[q].at = "done" /\ mind'[q].op = "consolidate" /\ mind'[q].chosen = mind[q].chosen
      /\ \A p \in Minds \ {q} : mind'[p] = mind[p] /\ open'[p] = open[p]
  BY <1>1, ConcludeMoves
<1>3. MemoryTypes'
  BY <1>1, <1>2 DEF MemoryInv, MemoryTypes
<1>4. /\ \A i : Finders(i)' = Finders(i)
      /\ \A i, o : Did(i, o) /\ i \in Minds => i # q /\ Did(i, o)' /\ mind'[i] = mind[i]
  BY <1>1, <1>2, FindersStay DEF MemoryInv
<1>5. /\ \A i \in entries : i \in Minds
      /\ \A p \in Minds : mind'[p].chosen = mind[p].chosen /\ mind'[p].op = mind[p].op
      /\ \A p \in Minds : mind[p].chosen \subseteq Minds
  BY <1>1, <1>2 DEF MemoryInv, MemoryTypes, MindRecords
<1>6. EntriesStored'
  BY <1>1, <1>4, <1>5 DEF MemoryInv, EntriesStored
<1>7. HitsFit'
  BY <1>1, <1>2, <1>4 DEF MemoryInv, HitsFit
<1>8. \A i, p : p \in Finders(i) => p # q /\ p \in Minds
  BY <1>1 DEF Finders, Did
<1>9. ConsolidationsFit'
  <2> SUFFICES ASSUME NEW c \in Minds, mind'[c].op = "consolidate"
               PROVE  /\ \A i \in mind'[c].chosen : confidence'[i] <= 0
                      /\ mind'[c].at = "done" => mind'[c].chosen \cap entries' = {}
                      /\ mind'[c].at \in {"open", "done"} =>
                           \A i \in mind'[c].chosen : \A p \in Finders(i)' : c \in open'[p]
    BY DEF ConsolidationsFit
  <2>1. mind[c].op = "consolidate" /\ mind'[c].chosen = mind[c].chosen
    BY <1>5
  <2>2. \A i \in mind'[c].chosen : confidence'[i] <= 0
    BY <2>1, <1>1 DEF MemoryInv, ConsolidationsFit
  <2>3. mind'[c].at = "done" => mind'[c].chosen \cap entries' = {}
    BY <2>1, <1>1, <1>2 DEF MemoryInv, ConsolidationsFit
  <2>4. mind'[c].at \in {"open", "done"} => mind[c].at \in {"open", "done"}
    BY <1>1, <1>2
  <2>5. ASSUME mind'[c].at \in {"open", "done"}, NEW i \in mind'[c].chosen, NEW p \in Finders(i)
        PROVE  c \in open'[p]
    BY <2>1, <2>4, <2>5, <1>2, <1>8 DEF MemoryInv, ConsolidationsFit
  <2> QED
    BY <2>2, <2>3, <2>5, <1>4
<1> QED
  BY <1>3, <1>6, <1>7, <1>9 DEF MemoryInv

(* A search counts what it found: one search more, one access more than it *)
(* loaded.                                                                 *)
LEMMA CommitSearchInv ==
  ASSUME MemoryInv, NEW q \in Minds, CommitSearch(q)
  PROVE  MemoryInv'
<1>1. /\ mind[q].at = "open" /\ mind[q].op = "search" /\ Conclude(q, "done")
      /\ mind[q].chosen \subseteq entries
      /\ hits' = [i \in Minds |-> IF i \in mind[q].chosen THEN mind[q].seen[i] + 1 ELSE hits[i]]
      /\ miscounted' = miscounted \cup {i \in mind[q].chosen : hits[i] # mind[q].seen[i]}
      /\ UNCHANGED <<database, entries, confidence, aged>>
  BY DEF CommitSearch, Counted, SearchFails
<1>2. /\ mind' \in [Minds -> MindRecords] /\ open' \in [Minds -> SUBSET Minds]
      /\ mind'[q].at = "done" /\ mind'[q].op = "search" /\ mind'[q].chosen = mind[q].chosen
      /\ \A p \in Minds \ {q} : mind'[p] = mind[p] /\ open'[p] = open[p]
      /\ \A p \in Minds \ {q} : mind[p].at = "open" => p \in open'[q]
  BY <1>1, ConcludeMoves
<1>3. /\ mind[q].seen \in [Minds -> Nat] /\ mind[q].chosen \subseteq Minds /\ hits \in [Minds -> Nat]
  BY DEF MemoryInv, MemoryTypes, MindRecords
<1>4. hits' \in [Minds -> Nat] /\ miscounted' \subseteq Minds
  BY <1>1, <1>3 DEF MemoryInv, MemoryTypes
<1>5. MemoryTypes'
  BY <1>1, <1>2, <1>4 DEF MemoryInv, MemoryTypes
<1>6. \A i : q \notin Finders(i) /\
        Finders(i)' = IF i \in mind[q].chosen THEN Finders(i) \cup {q} ELSE Finders(i)
  BY <1>1, <1>2 DEF Finders, Did
<1>7. /\ \A i \in entries : i \in Minds
      /\ \A p \in Minds : mind'[p].chosen = mind[p].chosen /\ mind'[p].op = mind[p].op
      /\ \A p \in Minds : mind[p].chosen \subseteq Minds
  BY <1>1, <1>2 DEF MemoryInv, MemoryTypes, MindRecords
<1>8. \A i \in Minds : Did(i, "store") <=> Did(i, "store")'
  BY <1>1, <1>2 DEF Did
<1>9. EntriesStored'
  BY <1>1, <1>7, <1>8 DEF MemoryInv, EntriesStored
<1>10. HitsFit'
  <2> SUFFICES ASSUME NEW i \in Minds
               PROVE  /\ IsFiniteSet(Finders(i)')
                      /\ hits'[i] <= Cardinality(Finders(i)')
                      /\ hits'[i] < Cardinality(Finders(i)') => i \in miscounted'
                      /\ Finders(i)' # {} => hits'[i] > 0
                      /\ \A p \in Minds : mind'[p].at = "open" => mind'[p].seen[i] <= Cardinality(Finders(i)')
    BY DEF HitsFit
  <2>1. /\ IsFiniteSet(Finders(i)) /\ hits[i] <= Cardinality(Finders(i))
        /\ hits[i] < Cardinality(Finders(i)) => i \in miscounted
        /\ Finders(i) # {} => hits[i] > 0
        /\ \A p \in Minds : mind[p].at = "open" => mind[p].seen[i] <= Cardinality(Finders(i))
    BY DEF MemoryInv, HitsFit
  <2>2. Cardinality(Finders(i)) \in Nat
    BY <2>1, FS_CardinalityType
  <2>3. \A p \in Minds : mind[p].seen[i] \in Nat
    BY DEF MemoryInv, MemoryTypes, MindRecords
  <2>4. \A p \in Minds : mind'[p].at = "open" => mind'[p] = mind[p]
    BY <1>2
  <2>5. CASE i \notin mind[q].chosen
    <3>1. Finders(i)' = Finders(i) /\ hits'[i] = hits[i] /\ miscounted \subseteq miscounted'
      BY <2>5, <1>1, <1>6
    <3> QED
      BY <3>1, <2>1, <2>4
  <2>6. CASE i \in mind[q].chosen
    <3>1. /\ IsFiniteSet(Finders(i) \cup {q})
          /\ Cardinality(Finders(i) \cup {q}) = Cardinality(Finders(i)) + 1
      BY <2>1, <1>6, FS_AddElement
    <3>2. /\ Finders(i)' = Finders(i) \cup {q} /\ hits'[i] = mind[q].seen[i] + 1
          /\ miscounted \subseteq miscounted' /\ (hits[i] # mind[q].seen[i] => i \in miscounted')
      BY <2>6, <1>1, <1>6
    <3>3. mind[q].seen[i] <= Cardinality(Finders(i)) /\ mind[q].seen[i] \in Nat /\ hits[i] \in Nat
      BY <2>1, <2>3, <1>1, <1>3
    <3>4. Cardinality(Finders(i)') = Cardinality(Finders(i)) + 1 /\ IsFiniteSet(Finders(i)')
      BY <3>1, <3>2
    <3>5. \A p \in Minds : mind'[p].at = "open" => mind'[p].seen[i] <= Cardinality(Finders(i)')
      BY <3>4, <2>1, <2>2, <2>3, <2>4
    <3> DEFINE n == Cardinality(Finders(i))
               m == mind[q].seen[i]
    <3>6. hits'[i] = m + 1 /\ Cardinality(Finders(i)') = n + 1 /\ m <= n /\ m \in Nat /\ n \in Nat
      BY <3>2, <3>3, <3>4, <2>2
    <3>7. /\ hits[i] < n => i \in miscounted'
          /\ hits[i] # m => i \in miscounted'
      BY <3>2, <2>1
    <3> HIDE DEF n, m
    <3>8. hits'[i] <= Cardinality(Finders(i)') /\ hits'[i] > 0
      BY <3>6
    <3>9. ASSUME hits'[i] < Cardinality(Finders(i)') PROVE i \in miscounted'
      <4>1. m < n
        BY <3>6, <3>9
      <4> QED
        BY <4>1, <3>3, <3>6, <3>7
    <3> QED
      BY <3>4, <3>5, <3>8, <3>9
  <2> QED
    BY <2>5, <2>6
<1>11. ConsolidationsFit'
  <2> SUFFICES ASSUME NEW c \in Minds, mind'[c].op = "consolidate"
               PROVE  /\ \A i \in mind'[c].chosen : confidence'[i] <= 0
                      /\ mind'[c].at = "done" => mind'[c].chosen \cap entries' = {}
                      /\ mind'[c].at \in {"open", "done"} =>
                           \A i \in mind'[c].chosen : \A p \in Finders(i)' : c \in open'[p]
    BY DEF ConsolidationsFit
  <2>1. c # q /\ mind'[c] = mind[c] /\ mind[c].op = "consolidate"
    BY <1>1, <1>2
  <2>2. ASSUME mind[c].at \in {"open", "done"}, NEW i \in mind[c].chosen, NEW p \in Finders(i)'
        PROVE  c \in open'[p]
    <3>1. CASE p = q
      <4>1. i \in mind[q].chosen
        BY <3>1, <2>2, <1>6
      <4>2. mind[c].at = "open"
        BY <4>1, <2>1, <2>2, <1>1 DEF MemoryInv, ConsolidationsFit
      <4> QED
        BY <4>2, <3>1, <2>1, <1>2
    <3>2. CASE p # q
      <4>1. p \in Finders(i) /\ p \in Minds \ {q}
        BY <3>2, <2>2, <1>6 DEF Finders
      <4> QED
        BY <4>1, <2>1, <2>2, <1>2 DEF MemoryInv, ConsolidationsFit
    <3> QED
      BY <3>1, <3>2
  <2> QED
    BY <2>1, <2>2, <1>1 DEF MemoryInv, ConsolidationsFit
<1> QED
  BY <1>5, <1>9, <1>10, <1>11 DEF MemoryInv

(* All together.                                                           *)
LEMMA MemoryStepInv ==
  ASSUME MemoryInv, [MemoryNext]_memoryVars
  PROVE  MemoryInv'
<1>1. CASE UNCHANGED memoryVars
  BY <1>1 DEF memoryVars, MemoryInv, MemoryTypes, EntriesStored, HitsFit, ConsolidationsFit,
              Finders, Did
<1>2. CASE MonthPasses
  BY <1>2 DEF MonthPasses, MemoryInv, MemoryTypes, EntriesStored, HitsFit, ConsolidationsFit,
              Finders, Did
<1>3. ASSUME NEW q \in Minds, StartStore(q) \/ StartConsolidate(q)
      PROVE  MemoryInv'
  <2>1. {} \in SUBSET entries /\ Useless \in SUBSET entries
    BY DEF Useless
  <2> QED
    BY <2>1, <1>3, ThinkInv DEF StartStore, StartConsolidate
<1>4. ASSUME NEW q \in Minds, NEW t \in Thresholds, StartSearch(q, t)
      PROVE  MemoryInv'
  BY <1>4, ThinkInv DEF StartSearch
<1>5. ASSUME NEW q \in Minds, NEW c \in Confidences, CommitStore(q, c)
      PROVE  MemoryInv'
  BY <1>5, CommitStoreInv
<1>6. ASSUME NEW q \in Minds, CommitSearch(q) \/ CommitConsolidate(q)
      PROVE  MemoryInv'
  BY <1>6, CommitSearchInv, CommitConsolidateInv
<1>7. ASSUME NEW q \in Minds, FailSearch(q) \/ LoseThought(q)
      PROVE  MemoryInv'
  BY <1>7, ConcludeInv DEF FailSearch, LoseThought
<1> QED
  BY <1>1, <1>2, <1>3, <1>4, <1>5, <1>6, <1>7 DEF MemoryNext

(* An entry a search returned is pruned only by a consolidation that was   *)
(* open while that search ended, and every use is counted but for those    *)
(* two overlapping searches wrote over (memory.py:150-153, 182-192).       *)
THEOREM MemoriesKept == MemorySpec => []MemoriesAreKept
<1>1. ASSUME MemoryInv PROVE MemoriesAreKept
  <2>1. FoundEntriesSurvive
    <3> SUFFICES ASSUME NEW q \in Minds, NEW c \in Minds, NEW i \in mind[q].chosen,
                        Did(q, "search"), Did(c, "consolidate"), i \in mind[c].chosen
                 PROVE  c \in open[q]
      BY DEF FoundEntriesSurvive
    <3>1. q \in Finders(i)
      BY DEF Finders
    <3> QED
      BY <3>1, <1>1 DEF MemoryInv, ConsolidationsFit, Did
  <2>2. AccessesAreCounted
    BY <1>1 DEF MemoryInv, MemoryTypes, HitsFit, AccessesAreCounted
  <2> QED
    BY <2>1, <2>2, <1>1 DEF MemoryInv, MemoriesAreKept
<1> QED
  BY <1>1, MemoryInitInv, MemoryStepInv, PTL DEF MemorySpec

LEMMA MemoriesTyped == MemoryInv => MemoryTypeOK
<1> SUFFICES ASSUME MemoryInv PROVE MemoryTypeOK
  OBVIOUS
<1>1. \A q \in Minds : mind[q] \in MindRecords
  BY DEF MemoryInv, MemoryTypes
<1> QED
  BY <1>1 DEF MemoryInv, MemoryTypes, MindRecords, MemoryTypeOK

----------------------------------------------------------------------------
(* Conversations with the business partner.                                *)

(* A message is that of a chat that is in its thread, and has not gone.    *)
Present(q, h) == chat[q].thread = h /\ chat[q].at \notin {"new", "gone"}
HasAnswer(q) == chat[q].at \in {"remember", "done", "failed"}
Spoken(h, k) ==
  \E q \in Chats :
    /\ Present(q, h)
    /\ \/ thread[h][k] = Said("user", q)
       \/ thread[h][k] = Said("assistant", q) /\ HasAnswer(q)

Messages == [role : {"system", "user", "assistant"}, chat : Chats \cup {"nobody"}]
ChatTypes ==
  /\ thread \in [Threads -> Seq(Messages)]
  /\ \A q \in Chats :
       /\ DOMAIN chat[q] = {"at", "thread", "tool", "shown"}
       /\ chat[q].at \in {"new", "reply", "remember", "done", "failed", "gone"}
       /\ chat[q].at # "new" => chat[q].thread \in Threads
  /\ DOMAIN chat = Chats /\ DOMAIN heard = Chats /\ DOMAIN remembered = Chats

(* One system prompt, then messages of the chats that are in the thread.   *)
ThreadsFit ==
  \A h \in Threads :
    /\ thread[h] # << >> => thread[h][1] = System
    /\ \A k \in 2..Len(thread[h]) : Spoken(h, k)

(* An open chat has heard what stands behind its question.                 *)
Hears(q) ==
  /\ chat[q].at = "new" => heard[q] = {}
  /\ chat[q].at = "reply" =>
       \A i \in Positions(chat[q].thread, "user", q) :
         heard[q] = {thread[chat[q].thread][k].chat : k \in i + 1 .. Len(thread[chat[q].thread])}

(* The parts of ThreadsAreCoherent, for one chat.                          *)
Turn(q) ==
  chat[q].at \notin {"new", "gone"} =>
    LET h == chat[q].thread IN
    /\ thread[h][1] = System
    /\ \E i \in 1..Len(thread[h]) :
         /\ Positions(h, "user", q) = {i}
         /\ chat[q].at \in {"remember", "done"} =>
              \E j \in i + 1 .. Len(thread[h]) : Positions(h, "assistant", q) = {j}
Whole(q) ==
  \A h \in Threads : \A i \in Positions(h, "user", q), j \in Positions(h, "assistant", q) :
    {thread[h][k].chat : k \in i + 1 .. j - 1} = heard[q]
Entry(q) ==
  remembered[q] # "nothing" =>
    /\ chat[q].at \in {"done", "gone"}
    /\ chat[q].at = "gone" \/ Positions(chat[q].thread, "assistant", q) # {}

ConversationInv ==
  ChatTypes /\ ThreadsFit /\ \A q \in Chats : Hears(q) /\ Turn(q) /\ Whole(q) /\ Entry(q)

(* Nobody has spoken.                                                      *)
LEMMA ConversationInitInv == ConversationInit => ConversationInv
<1> SUFFICES ASSUME ConversationInit PROVE ConversationInv
  OBVIOUS
<1>1. /\ thread = [h \in Threads |-> << >>] /\ heard = [q \in Chats |-> {}]
      /\ remembered = [q \in Chats |-> "nothing"]
      /\ chat = [q \in Chats |-> [at |-> "new", thread |-> "none", tool |-> "none", shown |-> << >>]]
  BY DEF ConversationInit
<1>2. ChatTypes
  BY <1>1 DEF ChatTypes
<1>3. \A h \in Threads : Len(thread[h]) = 0 /\ thread[h] = << >>
  BY <1>1
<1>4. ThreadsFit /\ \A q \in Chats : Whole(q)
  BY <1>3 DEF ThreadsFit, Whole, Positions
<1>5. \A q \in Chats : Hears(q) /\ Turn(q) /\ Entry(q)
  BY <1>1 DEF Hears, Turn, Entry
<1> QED
  BY <1>2, <1>4, <1>5 DEF ConversationInv

(* Whoever has a message in a thread is present in it.                     *)
LEMMA AuthorsArePresent ==
  ASSUME ConversationInv, NEW h \in Threads, NEW role \in {"user", "assistant"}, NEW q,
         NEW i \in Positions(h, role, q)
  PROVE  i \in 2..Len(thread[h]) /\ Present(q, h) /\ (role = "assistant" => HasAnswer(q))
<1>1. i \in 1..Len(thread[h]) /\ thread[h][i] = Said(role, q)
  BY DEF Positions
<1>2. Said(role, q) # System
  BY DEF Said, System
<1>3. thread[h] \in Seq(Messages)
  BY DEF ConversationInv, ChatTypes
<1>4. thread[h] # << >>
  BY <1>1, <1>3
<1>5. i # 1
  BY <1>1, <1>2, <1>4 DEF ConversationInv, ThreadsFit
<1>6. i \in 2..Len(thread[h])
  BY <1>1, <1>3, <1>5
<1>7. PICK p \in Chats : /\ Present(p, h)
                         /\ \/ Said(role, q) = Said("user", p)
                            \/ Said(role, q) = Said("assistant", p) /\ HasAnswer(p)
  BY <1>1, <1>6 DEF ConversationInv, ThreadsFit, Spoken
<1>8. p = q /\ (role = "assistant" => HasAnswer(p))
  BY <1>7 DEF Said
<1> QED
  BY <1>6, <1>7, <1>8

(* A message goes to the end of a thread, which begins when it has to.     *)
LEMMA MessageAppended ==
  ASSUME ConversationInv, NEW h \in Threads, NEW m \in Messages, m.role # "system",
         thread' = [thread EXCEPT ![h] = Append(Conversation(h), m)]
  PROVE  /\ thread' \in [Threads -> Seq(Messages)]
         /\ \A g \in Threads \ {h} : thread'[g] = thread[g]
         /\ \E n \in Nat \ {0} :
              /\ Len(thread'[h]) = n + 1 /\ thread'[h][1] = System /\ thread'[h][n + 1] = m
              /\ \A k \in 2..n : thread'[h][k] = thread[h][k]
              /\ IF thread[h] = << >> THEN n = 1 ELSE n = Len(thread[h])
<1>1. thread[h] \in Seq(Messages) /\ thread \in [Threads -> Seq(Messages)]
  BY DEF ConversationInv, ChatTypes
<1>2. System \in Messages
  BY DEF System, Messages
<1> DEFINE s == Conversation(h)
<1>3. /\ s \in Seq(Messages) /\ s # << >> /\ s[1] = System
      /\ IF thread[h] = << >> THEN Len(s) = 1 ELSE s = thread[h]
  <2>1. <<System>> \in Seq(Messages) /\ Len(<<System>>) = 1 /\ <<System>>[1] = System /\ <<System>> # << >>
    BY <1>2
  <2> QED
    BY <1>1, <2>1 DEF Conversation, ConversationInv, ThreadsFit
<1> HIDE DEF s
<1>4. /\ Append(s, m) \in Seq(Messages) /\ Len(Append(s, m)) = Len(s) + 1
      /\ Append(s, m)[Len(s) + 1] = m /\ Len(s) \in Nat \ {0}
      /\ \A k \in 1..Len(s) : Append(s, m)[k] = s[k]
  BY <1>3
<1>5. thread'[h] = Append(s, m) /\ \A g \in Threads \ {h} : thread'[g] = thread[g]
  BY <1>1 DEF s
<1>6. thread' \in [Threads -> Seq(Messages)]
  BY <1>1, <1>4 DEF s
<1>7. thread'[h][1] = System
  BY <1>3, <1>4, <1>5
<1>8. \A k \in 2..Len(s) : thread'[h][k] = thread[h][k]
  <2>1. CASE thread[h] = << >>
    <3>1. Len(s) = 1
      BY <2>1, <1>3
    <3> QED
      BY <3>1
  <2>2. CASE thread[h] # << >>
    BY <2>2, <1>3, <1>4, <1>5
  <2> QED
    BY <2>1, <2>2
<1>9. IF thread[h] = << >> THEN Len(s) = 1 ELSE Len(s) = Len(thread[h])
  BY <1>3
<1> QED
  BY <1>4, <1>5, <1>6, <1>7, <1>8, <1>9

AppendedBy(h, speaker, voice, n) ==
  /\ n \in Nat \ {0}
  /\ Len(thread'[h]) = n + 1 /\ thread'[h][1] = System
  /\ thread'[h][n + 1] = Said(voice, speaker)
  /\ \A k \in 2..n : thread'[h][k] = thread[h][k]
  /\ IF thread[h] = << >> THEN n = 1 ELSE n = Len(thread[h])

(* Where everybody's messages stand once one has been appended.            *)
LEMMA PositionsAfter ==
  ASSUME ConversationInv, NEW h \in Threads, NEW speaker \in Chats, NEW voice \in {"user", "assistant"},
         NEW n, AppendedBy(h, speaker, voice, n),
         NEW role \in {"user", "assistant"}, NEW q
  PROVE  /\ Positions(h, role, q)' =
              Positions(h, role, q) \cup {i \in {n + 1} : role = voice /\ q = speaker}
         /\ \A i \in Positions(h, role, q) : i \in 2..n
<1> USE DEF AppendedBy
<1>1. thread[h] \in Seq(Messages) /\ Len(thread[h]) \in Nat /\ Len(thread[h]) <= n
  <2>1. thread[h] \in Seq(Messages) /\ Len(thread[h]) \in Nat
    BY DEF ConversationInv, ChatTypes
  <2>2. thread[h] = << >> => Len(thread[h]) = 0
    OBVIOUS
  <2> QED
    BY <2>1, <2>2
<1>2. \A i \in Positions(h, role, q) : i \in 2..Len(thread[h])
  BY AuthorsArePresent
<1>3. \A i \in Positions(h, role, q) : i \in 2..n
  BY <1>1, <1>2
<1>4. ASSUME NEW i \in Positions(h, role, q) PROVE i \in Positions(h, role, q)'
  <2>1. thread'[h][i] = thread[h][i] /\ thread[h][i] = Said(role, q)
    BY <1>3, <1>4 DEF Positions
  <2> QED
    BY <1>3, <2>1 DEF Positions
<1>5. ASSUME NEW i \in Positions(h, role, q)', i # n + 1 PROVE i \in Positions(h, role, q)
  <2>1. i \in 1..(n + 1) /\ thread'[h][i] = Said(role, q)
    BY <1>5 DEF Positions
  <2>2. Said(role, q) # System
    BY DEF Said, System
  <2>3. i \in 2..n
    BY <2>1, <2>2, <1>5
  <2>4. n = Len(thread[h])
    BY <2>3
  <2> QED
    BY <2>1, <2>3, <2>4 DEF Positions
<1>6. n + 1 \in Positions(h, role, q)' <=> role = voice /\ q = speaker
  <2>1. Said(voice, speaker) = Said(role, q) <=> role = voice /\ q = speaker
    BY DEF Said
  <2>2. n + 1 \in 1..Len(thread'[h])
    OBVIOUS
  <2> QED
    BY <2>1, <2>2 DEF Positions
<1>7. n + 1 \notin Positions(h, role, q)
  BY <1>3
<1> QED
  BY <1>3, <1>4, <1>5, <1>6, <1>7

(* A chat speaks in a thread: what this leaves true of the other chats,    *)
(* and where its own messages now stand.                                   *)
LEMMA OthersHear ==
  ASSUME ConversationInv, NEW h \in Threads, NEW q \in Chats, NEW voice \in {"user", "assistant"},
         Speak(q, h, Append(Conversation(h), Said(voice, q))),
         remembered' = remembered,
         \A p \in Chats \ {q} : chat'[p] = chat[p],
         Present(q, h)', voice = "assistant" => HasAnswer(q)', HasAnswer(q) => HasAnswer(q)',
         Present(q, h) \/ chat[q].at = "new",
         NEW n, AppendedBy(h, q, voice, n)
  PROVE  /\ ThreadsFit'
         /\ \A p \in Chats \ {q} : Hears(p)' /\ Turn(p)' /\ Whole(p)' /\ Entry(p)'
         /\ Positions(h, voice, q)' = Positions(h, voice, q) \cup {n + 1}
         /\ \A g \in Threads, role \in {"user", "assistant"} :
              g # h \/ role # voice => Positions(g, role, q)' = Positions(g, role, q)
         /\ heard'[q] = heard[q]
<1>1. /\ thread' = [thread EXCEPT ![h] = Append(Conversation(h), Said(voice, q))]
      /\ \A g \in Threads \ {h} : thread'[g] = thread[g]
      /\ heard' = [p \in Chats |-> IF p # q /\ chat[p].at = "reply" /\ chat[p].thread = h
                                   THEN heard[p] \cup {q} ELSE heard[p]]
  BY DEF Speak, ConversationInv, ChatTypes
<1>2. \A p : \A role \in {"user", "assistant"} :
        /\ Positions(h, role, p)' =
             Positions(h, role, p) \cup {i \in {n + 1} : role = voice /\ p = q}
        /\ \A i \in Positions(h, role, p) : i \in 2..n
  <2> TAKE p
  <2> TAKE role \in {"user", "assistant"}
  <2> QED
    BY PositionsAfter
<1> USE DEF AppendedBy
<1>3. \A g \in Threads \ {h} : \A role, p : Positions(g, role, p)' = Positions(g, role, p)
  BY <1>1 DEF Positions
<1>4. \A g \in Threads, role \in {"user", "assistant"}, p \in Chats :
        p # q => Positions(g, role, p)' = Positions(g, role, p)
  <2> SUFFICES ASSUME NEW g \in Threads, NEW role \in {"user", "assistant"}, NEW p \in Chats, p # q
               PROVE  Positions(g, role, p)' = Positions(g, role, p)
    OBVIOUS
  <2>1. CASE g = h
    <3>1. {i \in {n + 1} : role = voice /\ p = q} = {}
      OBVIOUS
    <3>2. Positions(h, role, p)' =
            Positions(h, role, p) \cup {i \in {n + 1} : role = voice /\ p = q}
      <4> HIDE DEF AppendedBy
      <4> QED
        BY PositionsAfter
    <3> QED
      BY ONLY <2>1, <3>1, <3>2
  <2> QED
    BY <2>1, <1>3
<1>5. \A g \in Threads : Len(thread[g]) \in Nat /\ Len(thread'[g]) \in Nat /\ Len(thread[g]) <= Len(thread'[g])
  <2>1. \A g \in Threads : Len(thread[g]) \in Nat /\ (thread[g] = << >> => Len(thread[g]) = 0)
    BY DEF ConversationInv, ChatTypes
  <2> QED
    BY <2>1, <1>1
<1>6. \A i, j \in Nat : i > 0 /\ j <= n =>
        {thread'[h][k].chat : k \in i + 1 .. j} = {thread[h][k].chat : k \in i + 1 .. j}
  <2> SUFFICES ASSUME NEW i \in Nat, NEW j \in Nat, i > 0, j <= n
               PROVE  {thread'[h][k].chat : k \in i + 1 .. j} = {thread[h][k].chat : k \in i + 1 .. j}
    OBVIOUS
  <2>1. \A k \in i + 1 .. j : k \in 2..n
    OBVIOUS
  <2>2. \A k \in i + 1 .. j : thread'[h][k] = thread[h][k]
    BY <2>1
  <2> QED
    BY ONLY <2>2
<1>7. ThreadsFit'
  <2>1. \A p \in Chats, g \in Threads : Present(p, g) => Present(p, g)'
    BY DEF Present
  <2>2. \A p \in Chats : HasAnswer(p) => HasAnswer(p)'
    BY DEF HasAnswer
  <2>3. ASSUME NEW g \in Threads, NEW k, Spoken(g, k), thread'[g][k] = thread[g][k]
        PROVE  Spoken(g, k)'
    BY <2>1, <2>2, <2>3 DEF Spoken
  <2>4. ASSUME NEW g \in Threads, g # h
        PROVE  /\ thread'[g] # << >> => thread'[g][1] = System
               /\ \A k \in 2..Len(thread'[g]) : Spoken(g, k)'
    <3>1. thread'[g] = thread[g]
      BY <2>4, <1>1
    <3> QED
      BY <2>3, <3>1 DEF ConversationInv, ThreadsFit
  <2>5. ASSUME NEW k \in 2..(n + 1)
        PROVE  Spoken(h, k)'
    <3>1. CASE k = n + 1
      <4>1. thread'[h][k] = Said(voice, q)
        BY <3>1
      <4> QED
        BY <4>1 DEF Spoken
    <3>2. CASE k # n + 1
      <4>1. k \in 2..n
        BY <3>2, <2>5
      <4>2. thread[h] # << >>
        BY <4>1
      <4>3. k \in 2..Len(thread[h]) /\ thread'[h][k] = thread[h][k]
        BY <4>1, <4>2
      <4> QED
        BY <4>3, <2>3 DEF ConversationInv, ThreadsFit
    <3> QED
      BY <3>1, <3>2
  <2> QED
    <3>1. Len(thread'[h]) = n + 1 /\ thread'[h][1] = System
      OBVIOUS
    <3>2. \A k \in 2..Len(thread'[h]) : Spoken(h, k)'
      BY <2>5, <3>1
    <3> QED
      BY <2>4, <3>1, <3>2 DEF ThreadsFit
<1>8. ASSUME NEW p \in Chats \ {q}
      PROVE  /\ chat[p].at = "new" => heard'[p] = {}
             /\ chat[p].at = "reply" =>
                  \A i \in Positions(chat[p].thread, "user", p)' :
                    heard'[p] = {thread'[chat[p].thread][k].chat :
                                   k \in i + 1 .. Len(thread'[chat[p].thread])}
  <2>1. chat[p].at = "new" => heard'[p] = {}
    BY <1>1 DEF ConversationInv, Hears
  <2>2. ASSUME chat[p].at = "reply", NEW i \in Positions(chat[p].thread, "user", p)'
        PROVE  heard'[p] = {thread'[chat[p].thread][k].chat : k \in i + 1 .. Len(thread'[chat[p].thread])}
    <3> DEFINE g == chat[p].thread
    <3>1. g \in Threads
      BY <2>2 DEF ConversationInv, ChatTypes
    <3>2. i \in Positions(g, "user", p)
      BY <2>2, <3>1, <1>4
    <3>3. heard[p] = {thread[g][k].chat : k \in i + 1 .. Len(thread[g])}
      BY <2>2, <3>2 DEF ConversationInv, Hears
    <3>4. CASE g # h
      BY <3>1, <3>3, <3>4, <1>1
    <3>5. CASE g = h
      <4>1. i \in 2..n /\ n = Len(thread[h])
        <5>1. i \in 2..n /\ thread[h] # << >>
          BY <3>2, <3>5, <1>2, <1>5 DEF Positions
        <5> QED
          BY <5>1
      <4>2. heard'[p] = heard[p] \cup {q}
        BY <2>2, <3>5, <1>1
      <4>3. heard[p] = {thread'[h][k].chat : k \in i + 1 .. n}
        <5>1. heard[p] = {thread[h][k].chat : k \in i + 1 .. n}
          BY <3>3, <3>5, <4>1
        <5>2. i \in Nat /\ i > 0 /\ n \in Nat /\ n <= n
          BY <4>1
        <5>3. {thread'[h][k].chat : k \in i + 1 .. n} = {thread[h][k].chat : k \in i + 1 .. n}
          BY <5>2, <1>6
        <5> QED
          BY <5>1, <5>3, Zenon
      <4>4. thread'[h][n + 1].chat = q
        BY DEF Said
      <4>5. {thread'[h][k].chat : k \in i + 1 .. n + 1} = {thread'[h][k].chat : k \in i + 1 .. n} \cup {q}
        <5>1. i + 1 .. n + 1 = (i + 1 .. n) \cup {n + 1}
          BY <4>1
        <5> HIDE DEF g
        <5> QED
          BY <5>1, <4>4
      <4>6. heard'[p] = {thread'[h][k].chat : k \in i + 1 .. n + 1}
        BY <4>2, <4>3, <4>5
      <4>7. Len(thread'[g]) = n + 1
        BY <3>5
      <4> QED
        BY <4>6, <4>7, <3>5
    <3> QED
      BY <3>4, <3>5
  <2> QED
    BY <2>1, <2>2
<1>9. ASSUME NEW p \in Chats \ {q}, chat[p].at \notin {"new", "gone"}
      PROVE  LET g == chat[p].thread IN
             /\ thread'[g][1] = System
             /\ \E i \in 1..Len(thread'[g]) :
                  /\ Positions(g, "user", p)' = {i}
                  /\ chat[p].at \in {"remember", "done"} =>
                       \E j \in i + 1 .. Len(thread'[g]) : Positions(g, "assistant", p)' = {j}
  <2> DEFINE g == chat[p].thread
  <2>1. g \in Threads
    BY <1>9 DEF ConversationInv, ChatTypes
  <2>2. thread[g][1] = System
    BY <1>9 DEF ConversationInv, Turn
  <2>3. PICK i \in 1..Len(thread[g]) :
          /\ Positions(g, "user", p) = {i}
          /\ chat[p].at \in {"remember", "done"} =>
               \E j \in i + 1 .. Len(thread[g]) : Positions(g, "assistant", p) = {j}
    BY <1>9 DEF ConversationInv, Turn
  <2>4. Positions(g, "user", p)' = Positions(g, "user", p) /\ Positions(g, "assistant", p)' = Positions(g, "assistant", p)
    BY <2>1, <1>4
  <2>5. thread'[g][1] = System
    BY <2>1, <2>2, <1>1
  <2> HIDE DEF g
  <2>6. i \in 1..Len(thread'[g]) /\ \A j \in i + 1 .. Len(thread[g]) : j \in i + 1 .. Len(thread'[g])
    BY <2>1, <2>3, <1>5
  <2>7. chat[p].at \in {"remember", "done"} =>
          \E j \in i + 1 .. Len(thread'[g]) : Positions(g, "assistant", p)' = {j}
    BY <2>3, <2>4, <2>6
  <2> QED
    BY <2>3, <2>4, <2>5, <2>6, <2>7 DEF g
<1>10. ASSUME NEW p \in Chats \ {q}, NEW g \in Threads, NEW i \in Positions(g, "user", p)',
              NEW j \in Positions(g, "assistant", p)'
       PROVE  {thread'[g][k].chat : k \in i + 1 .. j - 1} = heard'[p]
  <2>1. i \in Positions(g, "user", p) /\ j \in Positions(g, "assistant", p)
    BY <1>4, <1>10
  <2>2. {thread[g][k].chat : k \in i + 1 .. j - 1} = heard[p]
    BY <2>1 DEF ConversationInv, Whole
  <2>3. HasAnswer(p)
    BY <2>1, AuthorsArePresent
  <2>4. heard'[p] = heard[p]
    BY <2>3, <1>1 DEF HasAnswer
  <2>5. CASE g # h
    BY <2>2, <2>4, <2>5, <1>1
  <2>6. CASE g = h
    <3>1. i \in Nat /\ i > 0 /\ j - 1 \in Nat /\ j - 1 <= n
      BY <2>1, <2>6, <1>2
    <3> QED
      BY <3>1, <2>2, <2>4, <2>6, <1>6
  <2> QED
    BY <2>5, <2>6
<1>11. ASSUME NEW p \in Chats \ {q}, remembered[p] # "nothing"
       PROVE  chat[p].at = "gone" \/ Positions(chat[p].thread, "assistant", p)' # {}
  <2>1. chat[p].at = "done" => chat[p].thread \in Threads
    BY DEF ConversationInv, ChatTypes
  <2> QED
    BY <1>4, <1>11, <2>1 DEF ConversationInv, Entry
<1>12. /\ Positions(h, voice, q)' = Positions(h, voice, q) \cup {n + 1}
       /\ \A g \in Threads, role \in {"user", "assistant"} :
            g # h \/ role # voice => Positions(g, role, q)' = Positions(g, role, q)
  <2> HIDE DEF AppendedBy
  <2>1. Positions(h, voice, q)' = Positions(h, voice, q) \cup {i \in {n + 1} : voice = voice /\ q = q}
    BY PositionsAfter
  <2>2. ASSUME NEW role \in {"user", "assistant"}, role # voice
        PROVE  Positions(h, role, q)' = Positions(h, role, q)
    <3>1. Positions(h, role, q)' = Positions(h, role, q) \cup {i \in {n + 1} : role = voice /\ q = q}
      BY PositionsAfter
    <3> QED
      BY <3>1, <2>2
  <2> QED
    BY <2>1, <2>2, <1>3
<1>13. heard'[q] = heard[q]
  BY <1>1
<1>14. ASSUME NEW p \in Chats \ {q} PROVE Hears(p)' /\ Turn(p)' /\ Whole(p)' /\ Entry(p)'
  <2>1. chat'[p] = chat[p] /\ remembered'[p] = remembered[p]
    OBVIOUS
  <2>2. Hears(p)'
    BY <2>1, <1>8 DEF Hears
  <2>3. Turn(p)'
    BY <2>1, <1>9 DEF Turn
  <2>4. Whole(p)'
    BY <1>10 DEF Whole
  <2>5. remembered[p] # "nothing" => chat[p].at \in {"done", "gone"}
    BY DEF ConversationInv, Entry
  <2>6. Entry(p)'
    BY <2>1, <2>5, <1>11 DEF Entry
  <2> QED
    BY <2>2, <2>3, <2>4, <2>6
<1> QED
  BY <1>7, <1>12, <1>13, <1>14

(* What a chat's step leaves of its record's shape.                        *)
LEMMA ChatMoves ==
  ASSUME ChatTypes, NEW q \in Chats, NEW r, chat' = [chat EXCEPT ![q] = r],
         DOMAIN r = {"at", "thread", "tool", "shown"},
         r.at \in {"reply", "remember", "done", "failed"}, r.thread \in Threads,
         thread' \in [Threads -> Seq(Messages)], DOMAIN heard' = Chats, DOMAIN remembered' = Chats
  PROVE  ChatTypes' /\ chat'[q] = r /\ \A p \in Chats \ {q} : chat'[p] = chat[p]
BY DEF ChatTypes

(* Speaking is an append, to a thread that may have to begin.              *)
LEMMA SpeakAppends ==
  ASSUME ConversationInv, NEW q \in Chats, NEW h \in Threads, NEW voice \in {"user", "assistant"},
         Speak(q, h, Append(Conversation(h), Said(voice, q)))
  PROVE  /\ thread' \in [Threads -> Seq(Messages)] /\ DOMAIN heard' = Chats
         /\ \E n : AppendedBy(h, q, voice, n)
<1> DEFINE m == Said(voice, q)
<1>1. m \in Messages /\ m.role # "system"
  BY DEF Said, Messages
<1>2. thread' = [thread EXCEPT ![h] = Append(Conversation(h), m)] /\ DOMAIN heard' = Chats
  BY DEF Speak
<1> HIDE DEF m
<1>3. thread' \in [Threads -> Seq(Messages)]
  BY <1>1, <1>2, MessageAppended
<1>4. PICK n \in Nat \ {0} :
        /\ Len(thread'[h]) = n + 1 /\ thread'[h][1] = System /\ thread'[h][n + 1] = m
        /\ \A k \in 2..n : thread'[h][k] = thread[h][k]
        /\ IF thread[h] = << >> THEN n = 1 ELSE n = Len(thread[h])
  BY <1>1, <1>2, MessageAppended
<1>5. AppendedBy(h, q, voice, n)
  BY <1>4 DEF AppendedBy, m
<1> QED
  BY <1>2, <1>3, <1>5

(* A chat asks.                                                            *)
LEMMA AskInv ==
  ASSUME ConversationInv, NEW q \in Chats, NEW h \in Threads, Ask(q, h)
  PROVE  ConversationInv'
<1>1. /\ chat[q].at = "new" /\ Speak(q, h, Append(Conversation(h), Said("user", q)))
      /\ remembered' = remembered
  BY DEF Ask
<1>2. PICK tool, shown :
        chat' = [chat EXCEPT ![q] = [at |-> "reply", thread |-> h, tool |-> tool, shown |-> shown]]
  BY DEF Ask
<1>3. thread' \in [Threads -> Seq(Messages)] /\ DOMAIN heard' = Chats
  BY <1>1, SpeakAppends
<1>4. PICK n : AppendedBy(h, q, "user", n)
  BY <1>1, SpeakAppends
<1> DEFINE r == [at |-> "reply", thread |-> h, tool |-> tool, shown |-> shown]
<1>5. DOMAIN r = {"at", "thread", "tool", "shown"} /\ r.at = "reply" /\ r.thread = h
  OBVIOUS
<1>6. chat' = [chat EXCEPT ![q] = r]
  BY <1>2
<1> HIDE DEF r
<1>7. /\ ChatTypes' /\ chat'[q].at = "reply" /\ chat'[q].thread = h
      /\ \A p \in Chats \ {q} : chat'[p] = chat[p]
  BY <1>1, <1>3, <1>5, <1>6, ChatMoves DEF ConversationInv, ChatTypes
<1>8. Present(q, h)' /\ ~ HasAnswer(q)
  BY <1>1, <1>7 DEF Present, HasAnswer
<1>9. \A g \in Threads, role \in {"user", "assistant"} : Positions(g, role, q) = {}
  BY <1>1, AuthorsArePresent DEF Present
<1>10. /\ ThreadsFit'
       /\ \A p \in Chats \ {q} : Hears(p)' /\ Turn(p)' /\ Whole(p)' /\ Entry(p)'
       /\ Positions(h, "user", q)' = Positions(h, "user", q) \cup {n + 1}
       /\ \A g \in Threads, role \in {"user", "assistant"} :
            g # h \/ role # "user" => Positions(g, role, q)' = Positions(g, role, q)
       /\ heard'[q] = heard[q]
  BY <1>1, <1>4, <1>7, <1>8, OthersHear
<1>11. /\ Positions(h, "user", q)' = {n + 1}
       /\ \A g \in Threads : Positions(g, "assistant", q)' = {}
  BY <1>9, <1>10
<1>12. n \in Nat \ {0} /\ Len(thread'[h]) = n + 1 /\ thread'[h][1] = System
  BY <1>4 DEF AppendedBy
<1>13. Hears(q)'
  <2>1. heard'[q] = {}
    BY <1>1, <1>10 DEF ConversationInv, Hears
  <2>2. (n + 1) + 1 .. Len(thread'[h]) = {}
    BY <1>12
  <2> QED
    BY <2>1, <2>2, <1>7, <1>11 DEF Hears
<1>14. Turn(q)'
  <2>1. n + 1 \in 1..Len(thread'[h])
    BY <1>12
  <2> QED
    BY <2>1, <1>7, <1>11, <1>12 DEF Turn
<1>15. Whole(q)' /\ Entry(q)'
  BY <1>1, <1>11 DEF Whole, Entry, ConversationInv
<1> QED
  BY <1>7, <1>10, <1>13, <1>14, <1>15 DEF ConversationInv

MovedOn(r, at, shown) == [[r EXCEPT !.at = at] EXCEPT !.shown = shown]

(* An open chat's record keeps its thread and its shape.                   *)
LEMMA MovedOnType ==
  ASSUME NEW r, DOMAIN r = {"at", "thread", "tool", "shown"}, NEW at, NEW shown
  PROVE  /\ DOMAIN MovedOn(r, at, shown) = {"at", "thread", "tool", "shown"}
         /\ MovedOn(r, at, shown).at = at /\ MovedOn(r, at, shown).thread = r.thread
BY DEF MovedOn

(* A chat is answered.                                                     *)
LEMMA ReplyInv ==
  ASSUME ConversationInv, NEW q \in Chats, Reply(q)
  PROVE  ConversationInv'
<1>1. chat[q].at = "reply"
  BY DEF Reply
<1>2. PICK h \in Threads : h = chat[q].thread
  BY <1>1 DEF ConversationInv, ChatTypes
<1>3. /\ chat[q].at = "reply" /\ remembered' = remembered
      /\ Speak(q, h, Append(thread[h], Said("assistant", q)))
      /\ chat' = [chat EXCEPT ![q].at = "remember", ![q].shown = << >>]
  BY <1>2 DEF Reply, WithReply
<1>4. h \in Threads /\ DOMAIN chat[q] = {"at", "thread", "tool", "shown"} /\ thread[h] \in Seq(Messages)
  BY <1>3, <1>2 DEF ConversationInv, ChatTypes
<1>5. PICK i \in 1..Len(thread[h]) : Positions(h, "user", q) = {i}
  BY <1>3, <1>2 DEF ConversationInv, Turn
<1>6. thread[h] # << >> /\ Conversation(h) = thread[h]
  BY <1>4, <1>5 DEF Conversation
<1>7. Speak(q, h, Append(Conversation(h), Said("assistant", q)))
  BY <1>3, <1>6
<1> DEFINE r == MovedOn(chat[q], "remember", << >>)
<1>8. DOMAIN r = {"at", "thread", "tool", "shown"} /\ r.at = "remember" /\ r.thread = h
  <2>1. \A s, at, shown : DOMAIN s = {"at", "thread", "tool", "shown"} =>
          /\ DOMAIN MovedOn(s, at, shown) = {"at", "thread", "tool", "shown"}
          /\ MovedOn(s, at, shown).at = at /\ MovedOn(s, at, shown).thread = s.thread
    BY MovedOnType
  <2>2. PICK s : s = chat[q]
    OBVIOUS
  <2>3. PICK shown : shown = << >>
    OBVIOUS
  <2>4. DOMAIN s = {"at", "thread", "tool", "shown"}
    BY <2>2, <1>4
  <2>5. /\ DOMAIN MovedOn(s, "remember", shown) = {"at", "thread", "tool", "shown"}
        /\ MovedOn(s, "remember", shown).at = "remember"
        /\ MovedOn(s, "remember", shown).thread = s.thread
    BY ONLY <2>1, <2>4
  <2> QED
    BY <2>2, <2>3, <2>5, <1>2
<1>9. chat' = [chat EXCEPT ![q] = r]
  BY <1>3 DEF MovedOn
<1> HIDE DEF r
<1>10. thread' \in [Threads -> Seq(Messages)] /\ DOMAIN heard' = Chats
  BY <1>4, <1>7, SpeakAppends
<1>11. PICK n : AppendedBy(h, q, "assistant", n)
  BY <1>4, <1>7, SpeakAppends
<1>12. /\ ChatTypes' /\ chat'[q].at = "remember" /\ chat'[q].thread = h
       /\ \A p \in Chats \ {q} : chat'[p] = chat[p]
  BY <1>3, <1>4, <1>8, <1>9, <1>10, ChatMoves DEF ConversationInv, ChatTypes
<1>13. Present(q, h)' /\ HasAnswer(q)' /\ Present(q, h) /\ ~ HasAnswer(q)
  BY <1>3, <1>12, <1>2 DEF Present, HasAnswer
<1>14. /\ ThreadsFit'
       /\ \A p \in Chats \ {q} : Hears(p)' /\ Turn(p)' /\ Whole(p)' /\ Entry(p)'
       /\ Positions(h, "assistant", q)' = Positions(h, "assistant", q) \cup {n + 1}
       /\ \A g \in Threads, role \in {"user", "assistant"} :
            g # h \/ role # "assistant" => Positions(g, role, q)' = Positions(g, role, q)
       /\ heard'[q] = heard[q]
  <2>1. remembered' = remembered /\ \A p \in Chats \ {q} : chat'[p] = chat[p]
    BY <1>3, <1>12
  <2> QED
    BY <2>1, <1>7, <1>11, <1>13, OthersHear
<1>15. \A g \in Threads : Positions(g, "assistant", q) = {}
  BY <1>13, AuthorsArePresent
<1>16. /\ \A g \in Threads : Positions(g, "user", q)' = Positions(g, "user", q)
       /\ \A g \in Threads : g # h => Positions(g, "assistant", q)' = {}
       /\ Positions(h, "assistant", q)' = {n + 1}
  BY <1>14, <1>15
<1>17. /\ n = Len(thread[h]) /\ n \in Nat \ {0} /\ Len(thread'[h]) = n + 1 /\ thread'[h][1] = System
       /\ \A k \in 2..n : thread'[h][k] = thread[h][k]
  BY <1>6, <1>11 DEF AppendedBy
<1>18. Hears(q)' /\ Entry(q)'
  BY <1>3, <1>12 DEF Hears, Entry, ConversationInv
<1>19. Turn(q)'
  <2>1. i \in 1..Len(thread'[h]) /\ n + 1 \in i + 1 .. Len(thread'[h])
    BY <1>5, <1>17
  <2>2. Positions(h, "user", q)' = {i}
    BY <1>4, <1>5, <1>16
  <2> QED
    BY <2>1, <2>2, <1>12, <1>16, <1>17 DEF Turn
<1>20. Whole(q)'
  <2> SUFFICES ASSUME NEW g \in Threads, NEW k \in Positions(g, "user", q)',
                      NEW j \in Positions(g, "assistant", q)'
               PROVE  {thread'[g][l].chat : l \in k + 1 .. j - 1} = heard'[q]
    BY DEF Whole
  <2>1. g = h /\ j = n + 1 /\ k = i
    <3>1. g = h /\ j = n + 1
      BY <1>16
    <3> QED
      BY <3>1, <1>5, <1>16, <1>4
  <2>2. heard[q] = {thread[h][l].chat : l \in i + 1 .. n}
    <3>1. Hears(q) /\ i \in Positions(chat[q].thread, "user", q)
      BY <1>2, <1>5 DEF ConversationInv
    <3>2. heard[q] = {thread[chat[q].thread][o].chat : o \in i + 1 .. Len(thread[chat[q].thread])}
      BY <1>1, <3>1 DEF Hears
    <3> QED
      BY <3>2, <1>2, <1>17
  <2>3. \A l \in i + 1 .. n : thread'[h][l] = thread[h][l]
    BY <1>5, <1>17
  <2>4. {thread'[h][l].chat : l \in i + 1 .. n} = {thread[h][l].chat : l \in i + 1 .. n}
    BY <2>3
  <2>5. j - 1 = n
    BY <2>1, <1>17
  <2> QED
    BY <2>1, <2>2, <2>4, <2>5, <1>14
<1> QED
  BY <1>12, <1>14, <1>18, <1>19, <1>20 DEF ConversationInv

(* An open chat ends, and its thread stays what it is.                     *)
LEMMA ChatEndsInv ==
  ASSUME ConversationInv, NEW q \in Chats, NEW r, chat' = [chat EXCEPT ![q] = r],
         DOMAIN r = {"at", "thread", "tool", "shown"}, r.thread = chat[q].thread,
         \/ chat[q].at = "reply" /\ r.at = "failed"
         \/ chat[q].at = "remember" /\ r.at \in {"done", "failed"},
         thread' = thread, heard' = heard, DOMAIN remembered' = Chats,
         \A p \in Chats \ {q} : remembered'[p] = remembered[p],
         remembered'[q] # remembered[q] => r.at = "done"
  PROVE  ConversationInv'
<1>1. chat[q].thread \in Threads /\ thread \in [Threads -> Seq(Messages)]
  BY DEF ConversationInv, ChatTypes
<1>2. ChatTypes' /\ chat'[q] = r /\ \A p \in Chats \ {q} : chat'[p] = chat[p]
  BY <1>1, ChatMoves DEF ConversationInv, ChatTypes
<1>3. \A g, role, p : Positions(g, role, p)' = Positions(g, role, p)
  BY DEF Positions
<1>4. ThreadsFit'
  <2>1. /\ \A p \in Chats, g \in Threads : Present(p, g) => Present(p, g)'
        /\ \A p \in Chats : HasAnswer(p) => HasAnswer(p)'
    BY <1>2 DEF Present, HasAnswer
  <2>2. \A g \in Threads : \A k : Spoken(g, k) => Spoken(g, k)'
    BY <2>1 DEF Spoken
  <2> QED
    BY <2>2 DEF ConversationInv, ThreadsFit
<1>5. ASSUME NEW p \in Chats \ {q} PROVE Hears(p)' /\ Turn(p)' /\ Whole(p)' /\ Entry(p)'
  <2>1. Hears(p) /\ Turn(p) /\ Whole(p) /\ Entry(p)
    BY DEF ConversationInv
  <2> QED
    BY <2>1, <1>2, <1>3 DEF Hears, Turn, Whole, Entry
<1>6. Hears(q) /\ Turn(q) /\ Whole(q) /\ Entry(q)
  BY DEF ConversationInv
<1>7. Hears(q)' /\ Whole(q)'
  BY <1>2, <1>3, <1>6 DEF Hears, Whole
<1>8. Turn(q)'
  <2>1. PICK h \in Threads : h = chat[q].thread
    BY <1>1
  <2>2. PICK i \in 1..Len(thread[h]) :
          /\ thread[h][1] = System /\ Positions(h, "user", q) = {i}
          /\ chat[q].at \in {"remember", "done"} =>
               \E j \in i + 1 .. Len(thread[h]) : Positions(h, "assistant", q) = {j}
    BY <1>6, <2>1 DEF Turn
  <2>3. Positions(h, "user", q)' = Positions(h, "user", q) /\ Positions(h, "assistant", q)' = Positions(h, "assistant", q)
    BY <1>3
  <2>4. chat'[q].thread = h /\ (chat'[q].at \in {"remember", "done"} => chat[q].at = "remember")
    BY <1>2, <2>1
  <2> QED
    BY <2>2, <2>3, <2>4 DEF Turn
<1>9. Entry(q)'
  <2>1. remembered[q] = "nothing"
    BY <1>6 DEF Entry
  <2>2. chat[q].at = "remember" => Positions(chat[q].thread, "assistant", q) # {}
    BY <1>6 DEF Turn
  <2> QED
    BY <2>1, <2>2, <1>2, <1>3 DEF Entry
<1> QED
  BY <1>2, <1>4, <1>5, <1>7, <1>8, <1>9 DEF ConversationInv

(* The process forgets the threads, and whoever was in them is gone.       *)
LEMMA RebootInv == ASSUME ConversationInv, Reboot PROVE ConversationInv'
<1>1. /\ thread' = [h \in Threads |-> << >>] /\ heard' = heard /\ remembered' = remembered
      /\ chat' = [q \in Chats |-> IF chat[q].at = "new" THEN chat[q] ELSE [chat[q] EXCEPT !.at = "gone"]]
  BY DEF Reboot
<1>2. \A q \in Chats : /\ DOMAIN chat'[q] = {"at", "thread", "tool", "shown"}
                       /\ chat'[q].at = IF chat[q].at = "new" THEN "new" ELSE "gone"
                       /\ chat'[q].thread = chat[q].thread
  BY <1>1 DEF ConversationInv, ChatTypes
<1>3. ChatTypes'
  BY <1>1, <1>2 DEF ConversationInv, ChatTypes
<1>4. \A h \in Threads : thread'[h] = << >> /\ Len(thread'[h]) = 0
  BY <1>1
<1>5. ThreadsFit' /\ \A q \in Chats : Whole(q)'
  BY <1>4 DEF ThreadsFit, Whole, Positions
<1>6. \A q \in Chats : Hears(q)' /\ Turn(q)' /\ Entry(q)'
  BY <1>1, <1>2 DEF ConversationInv, Hears, Turn, Entry
<1> QED
  BY <1>3, <1>5, <1>6 DEF ConversationInv

(* All together.                                                           *)
LEMMA ConversationStepInv ==
  ASSUME ConversationInv, [ConversationNext]_conversationVars
  PROVE  ConversationInv'
<1>1. CASE UNCHANGED conversationVars
  <2>1. thread' = thread /\ chat' = chat /\ heard' = heard /\ remembered' = remembered
    BY <1>1 DEF conversationVars
  <2> QED
    <3>1. ASSUME ThreadsFit PROVE ThreadsFit'
      BY <2>1, <3>1 DEF ThreadsFit, Spoken, Present, HasAnswer, Positions
    <3>2. ASSUME NEW q, Hears(q), Turn(q), Whole(q), Entry(q)
          PROVE  Hears(q)' /\ Turn(q)' /\ Whole(q)' /\ Entry(q)'
      BY <2>1, <3>2 DEF Hears, Turn, Whole, Entry, Positions
    <3> QED
      BY <2>1, <3>1, <3>2 DEF ConversationInv, ChatTypes
<1>2. ASSUME NEW q \in Chats, ModelFails(q) PROVE ConversationInv'
  <2> DEFINE r == MovedOn(chat[q], "failed", chat[q].shown)
  <2>1. DOMAIN chat[q] = {"at", "thread", "tool", "shown"} /\ DOMAIN remembered = Chats
    BY DEF ConversationInv, ChatTypes
  <2>2. chat' = [chat EXCEPT ![q] = r]
    BY <1>2, <2>1 DEF ModelFails, MovedOn
  <2>3. DOMAIN r = {"at", "thread", "tool", "shown"} /\ r.at = "failed" /\ r.thread = chat[q].thread
    BY <2>1, MovedOnType
  <2>4. chat[q].at = "reply" /\ thread' = thread /\ heard' = heard /\ remembered' = remembered
    BY <1>2 DEF ModelFails
  <2> HIDE DEF r
  <2> QED
    BY <2>1, <2>2, <2>3, <2>4, ChatEndsInv
<1>3. ASSUME NEW q \in Chats, Remember(q) PROVE ConversationInv'
  <2>1. DOMAIN chat[q] = {"at", "thread", "tool", "shown"} /\ DOMAIN remembered = Chats
    BY DEF ConversationInv, ChatTypes
  <2>2. PICK at \in {"done", "failed"} :
          /\ chat' = [chat EXCEPT ![q].at = at]
          /\ \/ at = "done" /\ remembered' = [remembered EXCEPT ![q] = chat[q].tool]
             \/ remembered' = remembered
    BY <1>3 DEF Remember
  <2>3. /\ DOMAIN remembered' = Chats /\ \A p \in Chats \ {q} : remembered'[p] = remembered[p]
        /\ remembered'[q] # remembered[q] => at = "done"
    BY <2>1, <2>2
  <2> DEFINE r == MovedOn(chat[q], at, chat[q].shown)
  <2>4. chat' = [chat EXCEPT ![q] = r]
    BY <2>1, <2>2 DEF MovedOn
  <2>5. DOMAIN r = {"at", "thread", "tool", "shown"} /\ r.at = at /\ r.thread = chat[q].thread
    BY <2>1, MovedOnType
  <2>6. chat[q].at = "remember" /\ thread' = thread /\ heard' = heard
    BY <1>3 DEF Remember
  <2> HIDE DEF r
  <2> QED
    BY <2>3, <2>4, <2>5, <2>6, ChatEndsInv
<1> QED
  BY <1>1, <1>2, <1>3, AskInv, ReplyInv, RebootInv DEF ConversationNext

(* Turns are whole in their threads, torn apart only by turns that         *)
(* overlapped them, and what is remembered was answered (partner.py:40-51, *)
(* 95-125).                                                                *)
THEOREM ThreadsCohere == ConversationSpec => []ThreadsAreCoherent
<1>1. ASSUME ConversationInv PROVE ThreadsAreCoherent
  <2>1. \A q \in Chats : Turn(q) /\ Whole(q) /\ Entry(q)
    BY <1>1 DEF ConversationInv
  <2>2. TurnsAreKept
    BY <2>1 DEF Turn, TurnsAreKept
  <2>3. OnlyOverlapsInterleave
    BY <2>1 DEF Whole, OnlyOverlapsInterleave
  <2>4. RememberedWereAnswered
    BY <2>1 DEF Entry, RememberedWereAnswered
  <2> QED
    BY <2>2, <2>3, <2>4 DEF ThreadsAreCoherent
<1> QED
  BY <1>1, ConversationInitInv, ConversationStepInv, PTL DEF ConversationSpec

----------------------------------------------------------------------------
(* What no step of a chat touches.                                         *)
EnginesFit == engine \in {"mock", "llm"} /\ reboots \in 0..MaxReboots

LEMMA ConversationTypesStep == EnginesFit /\ [ConversationNext]_conversationVars => EnginesFit'
<1> SUFFICES ASSUME EnginesFit, [ConversationNext]_conversationVars PROVE EnginesFit'
  OBVIOUS
<1>1. CASE Reboot
  BY <1>1, ConversationAssumption DEF Reboot, EnginesFit
<1>2. CASE UNCHANGED <<engine, reboots>>
  BY <1>2 DEF EnginesFit
<1>3. ASSUME NEW q \in Chats,
             (\E h \in Threads : Ask(q, h)) \/ Reply(q) \/ ModelFails(q) \/ Remember(q)
      PROVE  UNCHANGED <<engine, reboots>>
  BY <1>3 DEF Ask, Reply, ModelFails, Remember
<1> QED
  BY <1>1, <1>2, <1>3 DEF ConversationNext, conversationVars

LEMMA ConversationsBegin == ConversationInit => EnginesFit
BY ConversationAssumption DEF ConversationInit, EnginesFit

LEMMA ConversationsTyped == ConversationInv /\ EnginesFit => ConversationTypeOK
<1> SUFFICES ASSUME ConversationInv, EnginesFit PROVE ConversationTypeOK
  OBVIOUS
<1>1. ASSUME NEW h \in Threads, NEW i \in 1..Len(thread[h])
      PROVE  thread[h][i].role \in {"system", "user", "assistant"}
  <2>1. thread[h] \in Seq(Messages)
    BY DEF ConversationInv, ChatTypes
  <2> DEFINE M == Messages
  <2>2. thread[h][i] \in M
    <3> HIDE DEF M
    <3>1. thread[h] \in Seq(M)
      BY <2>1 DEF M
    <3> QED
      BY <3>1
  <2> QED
    BY <2>2 DEF Messages
<1> QED
  BY <1>1 DEF ConversationInv, ChatTypes, EnginesFit, ConversationTypeOK

----------------------------------------------------------------------------
(* Accounts, whatever Redis forgets and whenever a call dies.              *)

(* Where a call may be, and where it has no token of its own yet.          *)
Unissued == {"new", "insert", "ping", "check", "user"}
Refreshing == {"ping", "check", "user"}
Stores == Calls \cup {Redis}

CallRecords ==
  [at : Unissued \cup Ended \cup {"answered"},
   op : {"none", "send", "verify", "register", "login", "refresh"},
   phone : Phones \cup {NoOne}, token : Calls \cup {NoOne},
   store : Stores \cup {NoOne}, late : BOOLEAN]

AccountTypes ==
  /\ call \in [Calls -> CallRecords]
  /\ now \in 0..LastMoment /\ restarts \in 0..MaxRestarts
  /\ accounts \in [Phones -> Calls \cup {NoOne}] /\ codes \in [Phones -> Calls \cup {NoOne}]
  /\ store \in Stores \cup {NoOne}
  /\ revocations \in [Stores -> [Calls -> Nat]] /\ issued \in [Calls -> Nat]
  /\ meanwhile \in [Calls -> SUBSET Calls] /\ forgotten \subseteq Calls

(* What a call is doing, by where it is.                                   *)
Underway(c) ==
  /\ c.at \in {"insert", "answered"} => c.op = "register"
  /\ c.op = "register" => c.phone \in Phones
  /\ c.at \in Refreshing => c.op = "refresh"
  /\ c.op = "refresh" => c.token \in Calls
  /\ c.at \in {"check", "user"} => c.store \in Stores
CallsFit == \A q \in Calls : Underway(call[q])

(* A call has a token once, and refreshes one that exists.                 *)
TokensExist ==
  /\ \A q \in Calls : call[q].at \in Unissued => issued[q] = 0
  /\ \A q \in Calls : call[q].at \in Refreshing => issued[call[q].token] # 0

KindInv == AccountTypes /\ CallsFit /\ TokensExist

(* Open registrations found the phone free, and hold its row alone.        *)
RowsAreHeld ==
  /\ \A q \in Calls : call[q].at = "answered" => accounts[call[q].phone] = NoOne
  /\ \A q, r \in Calls :
       call[q].at = "answered" /\ call[r].at = "answered" /\ call[q].phone = call[r].phone => q = r

(* A pending code is of one phone and a call that sent it; one that opened *)
(* is pending no more.                                                     *)
CodesPend ==
  /\ \A p \in Phones : codes[p] # NoOne => call[codes[p]].at # "new"
  /\ \A p, r \in Phones : codes[p] # NoOne /\ codes[p] = codes[r] => p = r
  /\ \A q \in Calls : Succeeded(q, "verify") =>
       /\ call[q].token \in Calls /\ call[call[q].token].at # "new"
       /\ \A p \in Phones : codes[p] # call[q].token

(* A revocation, of whichever store, lasts into the last second.           *)
Lasts(s, t) == revocations[s][t] # 0 => issued[t] # 0 /\ revocations[s][t] >= 2 * issued[t] - 1
RevocationsLast == \A s \in Stores, t \in Calls : Lasts(s, t)

RevokedSomewhere(t) == \E s \in Stores : revocations[s][t] # 0
RevokedNow(t) == t \in forgotten \/ store = NoOne \/ revocations[store][t] # 0
RotatedAreRevoked ==
  \A p \in Calls : Succeeded(p, "refresh") =>
    RevokedSomewhere(call[p].token) /\ RevokedNow(call[p].token)

(* What a call that refreshes a token already rotated can still find.      *)
Finds(q) ==
  \/ call[q].token \in forgotten
  \/ call[q].at = "ping"
  \/ call[q].at = "check" /\ revocations[call[q].store][call[q].token] # 0
  \/ call[q].at = "user" /\ call[q].late
RacesAreKnown ==
  \A p, q \in Calls :
    /\ Succeeded(p, "refresh") /\ call[q].at \in Refreshing /\ call[p].token = call[q].token
    => p \in meanwhile[q] \/ Finds(q)

TokenInv == RevocationsLast /\ RotatedAreRevoked /\ RacesAreKnown /\ TokensRotateOnce
AccountInv == KindInv /\ RowsAreHeld /\ OneAccountPerPhone /\ CodesPend /\ CodesAreSpent /\ TokenInv

(* Before the first call nothing is on file.                               *)
LEMMA AccountInitInv == AccountInit => AccountInv
BY AccountAssumption
DEF AccountInit, AccountInv, KindInv, AccountTypes, CallRecords, CallsFit, Underway, TokensExist,
    RowsAreHeld, OneAccountPerPhone, CodesPend, CodesAreSpent, TokenInv, RevocationsLast, Lasts,
    RotatedAreRevoked, RacesAreKnown, TokensRotateOnce, Succeeded, NewCall, Stores, Unissued,
    Refreshing, Ended, NoOne, Redis

(* A call that moves on is remembered by those still open, and by no other.*)
LEMMA AdvanceType ==
  ASSUME KindInv, NEW q \in Calls, NEW changed \in CallRecords, Advance(q, changed)
  PROVE  /\ call' \in [Calls -> CallRecords] /\ meanwhile' \in [Calls -> SUBSET Calls]
         /\ call'[q] = changed /\ \A r \in Calls \ {q} : call'[r] = call[r]
         /\ \A r \in Calls : meanwhile[r] \subseteq meanwhile'[r]
         /\ changed.at \in Ended =>
              \A r \in Calls \ {q} : call[r].at \notin Ended \cup {"new"} => q \in meanwhile'[r]
<1>1. call \in [Calls -> CallRecords] /\ meanwhile \in [Calls -> SUBSET Calls]
  BY DEF KindInv, AccountTypes
<1>2. /\ call' = [call EXCEPT ![q] = changed]
      /\ meanwhile' = IF changed.at \notin Ended THEN meanwhile
           ELSE [p \in Calls |-> IF p = q \/ call[p].at \in Ended \cup {"new"} THEN meanwhile[p]
                                 ELSE meanwhile[p] \cup {q}]
  BY DEF Advance
<1> QED
  BY <1>1, <1>2

(* A token lives for a positive number of moments.                         *)
LEMMA ExpiryType == KindInv => Expiry \in Nat \ {0}
BY AccountAssumption DEF KindInv, AccountTypes, Expiry

(* Seconds left, at least one: the revocation ends in the last second.     *)
LEMMA TtlLasts ==
  ASSUME KindInv, NEW t \in Calls
  PROVE  now + 2 * Ttl(t) \in Nat /\ now + 2 * Ttl(t) >= 2 * issued[t] - 1 /\ now + 2 * Ttl(t) # 0
BY AccountAssumption DEF KindInv, AccountTypes, Ttl

(* The records a call moves to.                                            *)
LEMMA MovedType ==
  ASSUME KindInv, NEW q \in Calls, NEW where \in Unissued \cup Ended \cup {"answered"}
  PROVE  /\ Moved(q, where) \in CallRecords /\ Moved(q, where).at = where
         /\ Moved(q, where).op = call[q].op /\ Moved(q, where).phone = call[q].phone
         /\ Moved(q, where).token = call[q].token /\ Moved(q, where).store = call[q].store
         /\ Moved(q, where).late = call[q].late
<1>1. call[q] \in CallRecords
  BY DEF KindInv, AccountTypes
<1> SUFFICES ASSUME NEW c \in CallRecords, c = call[q]
             PROVE  LET d == [c EXCEPT !.at = where]
                    IN  d \in CallRecords /\ d.at = where /\ d.op = c.op /\ d.phone = c.phone
                        /\ d.token = c.token /\ d.store = c.store /\ d.late = c.late
  BY <1>1 DEF Moved
<1> QED
  BY DEF CallRecords

(* A call that begins has a record of its kind.                            *)
LEMMA BeginType ==
  ASSUME NEW q, NEW op \in {"send", "verify", "register", "login", "refresh"}, NEW p \in Phones \cup {NoOne},
         NEW where \in Unissued \cup Ended \cup {"answered"}
  PROVE  /\ BeginCall(q, op, p, where) \in CallRecords /\ BeginCall(q, op, p, where).at = where
         /\ BeginCall(q, op, p, where).op = op /\ BeginCall(q, op, p, where).phone = p
         /\ BeginCall(q, op, p, where).token = NoOne /\ BeginCall(q, op, p, where).store = NoOne
BY DEF BeginCall, NewCall, CallRecords

(* An edit of a record edits what it names.                                *)
LEMMA EditedType ==
  ASSUME NEW c \in CallRecords
  PROVE  /\ \A where \in Unissued, s \in Stores : [c EXCEPT !.at = where, !.store = s] \in CallRecords
         /\ \A late \in BOOLEAN :
              /\ [c EXCEPT !.late = late] \in CallRecords /\ [c EXCEPT !.late = late].late = late
              /\ [c EXCEPT !.late = late].at = c.at /\ [c EXCEPT !.late = late].op = c.op
              /\ [c EXCEPT !.late = late].phone = c.phone
              /\ [c EXCEPT !.late = late].token = c.token
              /\ [c EXCEPT !.late = late].store = c.store
BY DEF CallRecords

(* Both invariants of kind survive a call that moves to a fitting record,  *)
(* taking a token of its own or none.                                      *)
LEMMA KindMoves ==
  ASSUME KindInv, NEW q \in Calls, NEW changed \in CallRecords, Advance(q, changed),
         Underway(changed),
         \/ issued' = issued
         \/ \E e \in Nat \ {0} : issued' = [issued EXCEPT ![q] = e] /\ changed.at \notin Unissued,
         changed.at \in Refreshing => issued[changed.token] # 0,
         call[q].at \in Unissued \/ (issued' = issued /\ changed.at \notin Unissued)
  PROVE  /\ CallsFit' /\ TokensExist' /\ issued' \in [Calls -> Nat]
         /\ \A t \in Calls : issued[t] # 0 => issued'[t] = issued[t]
<1>1. /\ call'[q] = changed /\ \A r \in Calls \ {q} : call'[r] = call[r]
  BY AdvanceType
<1>2. issued \in [Calls -> Nat] /\ (call[q].at \in Unissued => issued[q] = 0)
  BY DEF KindInv, AccountTypes, TokensExist
<1>3. issued' \in [Calls -> Nat] /\ \A t \in Calls : issued[t] # 0 => issued'[t] = issued[t]
  BY <1>2
<1>4. CallsFit'
  BY <1>1 DEF KindInv, CallsFit, Underway
<1>5. TokensExist'
  <2>1. ASSUME NEW r \in Calls, call'[r].at \in Unissued PROVE issued'[r] = 0
    <3>1. CASE r = q
      BY <3>1, <1>1, <1>2, <2>1
    <3>2. CASE r # q
      BY <3>2, <1>1, <1>2, <2>1 DEF KindInv, TokensExist
    <3> QED
      BY <3>1, <3>2
  <2>2. ASSUME NEW r \in Calls, call'[r].at \in Refreshing PROVE issued'[call'[r].token] # 0
    <3>1. CASE r = q
      <4>1. changed.token \in Calls
        BY <3>1, <1>1, <2>2 DEF Underway
      <4> QED
        BY <4>1, <3>1, <1>1, <1>3, <2>2
    <3>2. CASE r # q
      <4>1. call[r].token \in Calls
        BY <3>2, <1>1, <2>2 DEF KindInv, CallsFit, Underway
      <4> QED
        BY <4>1, <3>2, <1>1, <1>3, <2>2 DEF KindInv, TokensExist
    <3> QED
      BY <3>1, <3>2
  <2> QED
    BY <2>1, <2>2 DEF TokensExist
<1> QED
  BY <1>3, <1>4, <1>5

(* The other variables keep their types.                                   *)
RestFits ==
  /\ now \in 0..LastMoment /\ restarts \in 0..MaxRestarts
  /\ accounts \in [Phones -> Calls \cup {NoOne}] /\ codes \in [Phones -> Calls \cup {NoOne}]
  /\ store \in Stores \cup {NoOne}
  /\ revocations \in [Stores -> [Calls -> Nat]] /\ forgotten \subseteq Calls

(* KindInv, from what a step does to calls, tables and tokens.             *)
LEMMA KindFromParts ==
  ASSUME KindInv, NEW q \in Calls, NEW changed \in CallRecords, Advance(q, changed),
         CallsFit' /\ TokensExist' /\ issued' \in [Calls -> Nat], RestFits'
  PROVE  KindInv'
BY AdvanceType DEF KindInv, AccountTypes, RestFits

(* Each action keeps KindInv: here send_otp.                               *)
LEMMA SendCodeKind ==
  ASSUME KindInv, NEW q \in Calls, NEW p \in Phones, SendCode(q, p)
  PROVE  KindInv'
<1> DEFINE changed == BeginCall(q, "send", p, "done")
<1>1. /\ changed \in CallRecords /\ changed.at = "done" /\ changed.op = "send"
  BY BeginType DEF Ended
<1>2. call[q].at \in Unissued /\ Advance(q, changed) /\ issued' = issued
  BY DEF SendCode, Unissued
<1> HIDE DEF changed
<1>3. Underway(changed) /\ changed.at \notin Refreshing
  BY <1>1 DEF Underway, Refreshing
<1>4. RestFits'
  BY DEF SendCode, RestFits, KindInv, AccountTypes
<1> QED
  BY <1>1, <1>2, <1>3, <1>4, KindMoves, KindFromParts

(* verify_otp.                                                             *)
LEMMA VerifyCodeKind ==
  ASSUME KindInv, NEW q \in Calls, NEW p \in Phones, NEW code \in Calls, VerifyCode(q, p, code)
  PROVE  KindInv'
<1>1. PICK changed \in {[BeginCall(q, "verify", p, "done") EXCEPT !.token = code],
                        BeginCall(q, "verify", p, "refused")} : Advance(q, changed)
  BY DEF VerifyCode
<1>2. changed \in CallRecords /\ changed.at \in {"done", "refused"} /\ changed.op = "verify"
  BY DEF BeginCall, NewCall, CallRecords, Ended
<1>3. Underway(changed) /\ changed.at \notin Refreshing
  BY <1>2 DEF Underway, Refreshing
<1>4. RestFits'
  BY DEF VerifyCode, CodeSpent, RestFits, KindInv, AccountTypes
<1>5. call[q].at \in Unissued /\ issued' = issued
  BY DEF VerifyCode, Unissued
<1> QED
  BY <1>1, <1>2, <1>3, <1>4, <1>5, KindMoves, KindFromParts

(* register, up to its SELECT.                                             *)
LEMMA RegisterKind ==
  ASSUME KindInv, NEW q \in Calls, NEW p \in Phones, Register(q, p)
  PROVE  KindInv'
<1>1. PICK changed \in {BeginCall(q, "register", p, "insert"), BeginCall(q, "register", p, "refused")} :
        Advance(q, changed)
  BY DEF Register
<1>2. /\ changed \in CallRecords /\ changed.at \in {"insert", "refused"} /\ changed.op = "register"
      /\ changed.phone = p
  BY DEF BeginCall, NewCall, CallRecords, Ended, Unissued
<1>3. Underway(changed) /\ changed.at \notin Refreshing
  BY <1>2 DEF Underway, Refreshing
<1>4. RestFits'
  BY DEF Register, RestFits, KindInv, AccountTypes
<1>5. call[q].at \in Unissued /\ issued' = issued
  BY DEF Register, Unissued
<1> QED
  BY <1>1, <1>2, <1>3, <1>4, <1>5, KindMoves, KindFromParts

(* The INSERT, answered or refused.                                        *)
LEMMA InsertAccountKind ==
  ASSUME KindInv, NEW q \in Calls, InsertAccount(q)
  PROVE  KindInv'
<1>1. PICK where \in {"answered", "failed"} :
        /\ Advance(q, Moved(q, where))
        /\ issued' = issued \/ issued' = [issued EXCEPT ![q] = Expiry]
  BY DEF InsertAccount
<1> DEFINE changed == Moved(q, where)
<1>2. /\ changed \in CallRecords /\ changed.at \in {"answered", "failed"}
      /\ changed.op = call[q].op /\ changed.phone = call[q].phone
  BY MovedType DEF Ended
<1>3. call[q].at = "insert" /\ Advance(q, changed)
  BY <1>1 DEF InsertAccount
<1> HIDE DEF changed
<1>4. Underway(changed) /\ changed.at \notin Unissued /\ changed.at \notin Refreshing
  BY <1>2, <1>3 DEF Underway, Refreshing, Unissued, KindInv, CallsFit
<1>5. RestFits'
  BY DEF InsertAccount, RestFits, KindInv, AccountTypes
<1>6. issued' = issued \/ \E e \in Nat \ {0} : issued' = [issued EXCEPT ![q] = e]
  BY <1>1, ExpiryType
<1>7. call[q].at \in Unissued
  BY <1>3 DEF Unissued
<1> QED
  BY <1>2, <1>3, <1>4, <1>5, <1>6, <1>7, KindMoves, KindFromParts

(* The commit that follows the answer.                                     *)
LEMMA CommitAccountKind ==
  ASSUME KindInv, NEW q \in Calls, CommitAccount(q)
  PROVE  KindInv'
<1> DEFINE changed == Moved(q, "done")
<1>1. /\ changed \in CallRecords /\ changed.at = "done"
      /\ changed.op = call[q].op /\ changed.phone = call[q].phone
  BY MovedType DEF Ended
<1>2. call[q].at = "answered" /\ Advance(q, changed) /\ issued' = issued
  BY DEF CommitAccount
<1> HIDE DEF changed
<1>3. Underway(changed) /\ changed.at \notin Unissued /\ changed.at \notin Refreshing
  BY <1>1, <1>2 DEF Underway, Refreshing, Unissued, KindInv, CallsFit
<1>4. RestFits'
  BY DEF CommitAccount, RestFits, KindInv, AccountTypes
<1> QED
  BY <1>1, <1>2, <1>3, <1>4, KindMoves, KindFromParts

(* login.                                                                  *)
LEMMA LoginKind ==
  ASSUME KindInv, NEW q \in Calls, NEW p \in Phones, Login(q, p)
  PROVE  KindInv'
<1>1. PICK where \in {"done", "refused"} :
        /\ Advance(q, BeginCall(q, "login", p, where))
        /\ issued' = issued \/ issued' = [issued EXCEPT ![q] = Expiry]
  BY DEF Login
<1> DEFINE changed == BeginCall(q, "login", p, where)
<1>2. changed \in CallRecords /\ changed.at \in {"done", "refused"} /\ changed.op = "login"
  BY BeginType DEF Ended
<1>3. call[q].at \in Unissued /\ Advance(q, changed)
  BY <1>1 DEF Login, Unissued
<1> HIDE DEF changed
<1>4. Underway(changed) /\ changed.at \notin Unissued /\ changed.at \notin Refreshing
  BY <1>2, <1>3 DEF Underway, Refreshing, Unissued
<1>5. RestFits'
  BY DEF Login, RestFits, KindInv, AccountTypes
<1>6. issued' = issued \/ \E e \in Nat \ {0} : issued' = [issued EXCEPT ![q] = e]
  BY <1>1, ExpiryType
<1> QED
  BY <1>2, <1>3, <1>4, <1>5, <1>6, KindMoves, KindFromParts

(* refresh, up to the first call of the store.                             *)
LEMMA RefreshKind ==
  ASSUME KindInv, NEW q \in Calls, NEW t \in Calls, Refresh(q, t)
  PROVE  KindInv'
<1>1. PICK where \in {"ping", "check"} :
        /\ where = "check" => store # NoOne
        /\ Advance(q, [BeginCall(q, "refresh", call[t].phone, where)
                       EXCEPT !.token = t, !.store = store])
  BY DEF Refresh
<1> DEFINE changed == [BeginCall(q, "refresh", call[t].phone, where) EXCEPT !.token = t, !.store = store]
<1>2. /\ changed \in CallRecords /\ changed.at = where /\ changed.op = "refresh"
      /\ changed.token = t /\ changed.store = store
  BY DEF BeginCall, NewCall, CallRecords, Unissued, KindInv, AccountTypes
<1>3. call[q].at \in Unissued /\ Advance(q, changed) /\ issued' = issued /\ issued[t] # 0
  BY <1>1 DEF Refresh, Unissued, Accepted
<1> HIDE DEF changed
<1>4. Underway(changed)
  BY <1>1, <1>2 DEF Underway, Refreshing, KindInv, AccountTypes
<1>5. RestFits'
  BY DEF Refresh, RestFits, KindInv, AccountTypes
<1> QED
  BY <1>2, <1>3, <1>4, <1>5, KindMoves, KindFromParts

(* The first call that pings installs a store.                             *)
LEMMA InstallKind ==
  ASSUME KindInv, NEW q \in Calls, Install(q)
  PROVE  KindInv'
<1>1. PICK found \in {q, Redis} :
        /\ store' = found
        /\ call' = [call EXCEPT ![q].at = "check", ![q].store = found]
        /\ forgotten' = forgotten \cup
             {t \in Calls : revocations[found][t] = 0 /\ \E s \in Calls \cup {Redis} : revocations[s][t] # 0}
  BY DEF Install
<1>2. /\ call[q].at = "ping" /\ found \in Stores
      /\ UNCHANGED <<now, restarts, accounts, codes, revocations, issued, meanwhile>>
  BY DEF Install, Stores
<1>3. call' \in [Calls -> CallRecords]
  <2>1. call'[q] = [call[q] EXCEPT !.at = "check", !.store = found]
    BY <1>1 DEF KindInv, AccountTypes, CallRecords
  <2>2. call[q] \in CallRecords
    BY DEF KindInv, AccountTypes
  <2>3. [call[q] EXCEPT !.at = "check", !.store = found] \in CallRecords
    BY <1>2, <2>2, EditedType DEF Unissued
  <2>4. \A r \in Calls \ {q} : call'[r] = call[r]
    BY <1>1 DEF KindInv, AccountTypes
  <2>5. call' = [r \in Calls |-> call'[r]] /\ \A r \in Calls : call[r] \in CallRecords
    BY <1>1 DEF KindInv, AccountTypes
  <2> QED
    BY <2>1, <2>3, <2>4, <2>5
<1>4. /\ call'[q].at = "check" /\ call'[q].store = found /\ call'[q].op = call[q].op
      /\ call'[q].token = call[q].token /\ call'[q].phone = call[q].phone
      /\ \A r \in Calls \ {q} : call'[r] = call[r]
  BY <1>1 DEF KindInv, AccountTypes, CallRecords
<1>5. AccountTypes'
  BY <1>1, <1>2, <1>3 DEF KindInv, AccountTypes
<1>6. CallsFit'
  BY <1>2, <1>4 DEF KindInv, CallsFit, Underway, Refreshing
<1>7. TokensExist'
  BY <1>2, <1>4 DEF KindInv, TokensExist, Unissued, Refreshing
<1> QED
  BY <1>5, <1>6, <1>7 DEF KindInv

(* is_revoked.                                                             *)
LEMMA CheckKind ==
  ASSUME KindInv, NEW q \in Calls, Check(q)
  PROVE  KindInv'
<1>1. PICK changed \in {Moved(q, "refused"),
                        [Moved(q, "user") EXCEPT !.late = now > 2 * issued[call[q].token] - 2]} :
        Advance(q, changed)
  BY DEF Check
<1>2. /\ changed \in CallRecords /\ changed.at \in {"user", "refused"}
      /\ changed.op = call[q].op /\ changed.phone = call[q].phone
      /\ changed.token = call[q].token /\ changed.store = call[q].store
  <2>1. CASE changed = Moved(q, "refused")
    BY <2>1, MovedType DEF Ended
  <2>2. CASE changed = [Moved(q, "user") EXCEPT !.late = now > 2 * issued[call[q].token] - 2]
    <3>1. /\ Moved(q, "user") \in CallRecords /\ Moved(q, "user").at = "user"
          /\ Moved(q, "user").op = call[q].op /\ Moved(q, "user").phone = call[q].phone
          /\ Moved(q, "user").token = call[q].token /\ Moved(q, "user").store = call[q].store
      BY MovedType DEF Unissued
    <3>2. PICK late \in BOOLEAN : late = (now > 2 * issued[call[q].token] - 2)
      <4>1. (now > 2 * issued[call[q].token] - 2) \in BOOLEAN
        BY SMT
      <4> QED
        BY <4>1, Zenon
    <3>3. changed = [Moved(q, "user") EXCEPT !.late = late]
      BY <2>2, <3>2
    <3> QED
      BY <3>1, <3>3, EditedType
  <2> QED
    BY <1>1, <2>1, <2>2
<1>3. call[q].at = "check" /\ issued' = issued
  BY DEF Check
<1>4. Underway(changed) /\ issued[changed.token] # 0
  BY <1>2, <1>3 DEF Underway, Refreshing, KindInv, CallsFit, TokensExist
<1>5. RestFits'
  BY DEF Check, RestFits, KindInv, AccountTypes
<1>6. call[q].at \in Unissued
  BY <1>3 DEF Unissued
<1> QED
  BY <1>1, <1>2, <1>3, <1>4, <1>5, <1>6, KindMoves, KindFromParts

(* revoke, and the new token.                                              *)
LEMMA RotateKind ==
  ASSUME KindInv, NEW q \in Calls, Rotate(q)
  PROVE  KindInv'
<1>1. PICK where \in {"done", "refused"} :
        /\ Advance(q, Moved(q, where))
        /\ issued' = issued \/ issued' = [issued EXCEPT ![q] = Expiry]
  BY DEF Rotate
<1> DEFINE changed == Moved(q, where)
<1>2. /\ changed \in CallRecords /\ changed.at \in {"done", "refused"}
      /\ changed.op = call[q].op /\ changed.phone = call[q].phone
      /\ changed.token = call[q].token /\ changed.store = call[q].store
  BY MovedType DEF Ended
<1>3. call[q].at = "user" /\ Advance(q, changed)
  BY <1>1 DEF Rotate
<1> HIDE DEF changed
<1>4. Underway(changed) /\ changed.at \notin Unissued /\ changed.at \notin Refreshing
  BY <1>2, <1>3 DEF Underway, Refreshing, Unissued, KindInv, CallsFit
<1>5. call[q].token \in Calls /\ call[q].store \in Stores
  BY <1>3 DEF KindInv, CallsFit, Underway, Refreshing
<1>6. RestFits'
  <2>1. \A t \in Calls : now + 2 * Ttl(t) \in Nat
    BY TtlLasts
  <2>2. revocations' \in [Stores -> [Calls -> Nat]] /\ forgotten' \subseteq Calls
    <3> DEFINE until == now + 2 * Ttl(call[q].token)
    <3>1. until \in Nat
      BY <1>5, <2>1
    <3>2. \/ revocations' = [revocations EXCEPT ![call[q].store][call[q].token] = until]
          \/ revocations' = revocations
      BY DEF Rotate
    <3>3. forgotten' \subseteq Calls
      BY <1>5 DEF Rotate, KindInv, AccountTypes
    <3>4. revocations \in [Stores -> [Calls -> Nat]]
      BY DEF KindInv, AccountTypes
    <3> HIDE DEF until
    <3>5. revocations' \in [Stores -> [Calls -> Nat]]
      BY ONLY <1>5, <3>1, <3>2, <3>4
    <3> QED
      BY <3>3, <3>5
  <2> QED
    BY <2>2 DEF Rotate, RestFits, KindInv, AccountTypes
<1>7. issued' = issued \/ \E e \in Nat \ {0} : issued' = [issued EXCEPT ![q] = e]
  BY <1>1, ExpiryType
<1>8. call[q].at \in Unissued
  BY <1>3 DEF Unissued
<1> QED
  BY <1>2, <1>3, <1>4, <1>6, <1>7, <1>8, KindMoves, KindFromParts

(* Redis fails in the middle of a refresh.                                 *)
LEMMA StoreErrorKind ==
  ASSUME KindInv, NEW q \in Calls, StoreError(q)
  PROVE  KindInv'
<1> DEFINE changed == Moved(q, "failed")
<1>1. /\ changed \in CallRecords /\ changed.at = "failed"
      /\ changed.op = call[q].op /\ changed.phone = call[q].phone
      /\ changed.token = call[q].token /\ changed.store = call[q].store
  BY MovedType DEF Ended
<1>2. call[q].at \in {"check", "user"} /\ Advance(q, changed) /\ issued' = issued
  BY DEF StoreError
<1> HIDE DEF changed
<1>3. Underway(changed) /\ changed.at \notin Unissued /\ changed.at \notin Refreshing
  BY <1>1, <1>2 DEF Underway, Refreshing, Unissued, KindInv, CallsFit
<1>4. call[q].token \in Calls
  BY <1>2 DEF KindInv, CallsFit, Underway, Refreshing
<1>5. RestFits'
  <2>1. UNCHANGED <<now, restarts, accounts, codes, store, forgotten>>
    BY DEF StoreError
  <2>2. revocations' \in [Stores -> [Calls -> Nat]]
    <3> DEFINE until == now + 2 * Ttl(call[q].token)
    <3>1. until \in Nat
      BY <1>4, TtlLasts
    <3>2. \/ revocations' = [revocations EXCEPT ![Redis][call[q].token] = until]
          \/ revocations' = revocations
      BY DEF StoreError
    <3> HIDE DEF until
    <3> QED
      BY <3>1, <3>2 DEF KindInv, AccountTypes
  <2> QED
    BY <2>1, <2>2 DEF RestFits, KindInv, AccountTypes
<1>6. call[q].at \in Unissued
  BY <1>2 DEF Unissued
<1> QED
  BY <1>1, <1>2, <1>3, <1>5, <1>6, KindMoves, KindFromParts

(* Time passes.                                                            *)
LEMMA TickKind == KindInv /\ Tick => KindInv'
BY AccountAssumption DEF KindInv, AccountTypes, CallsFit, TokensExist, Tick

(* What a restart leaves of the calls.                                     *)
LEMMA RestartCalls ==
  ASSUME KindInv, Restart
  PROVE  \A q \in Calls :
           \/ call'[q] = call[q] /\ call[q].at \in Ended \cup {"new"}
           \/ /\ call'[q] \in CallRecords /\ call'[q].at = "lost"
              /\ call'[q].op = call[q].op /\ call'[q].phone = call[q].phone
              /\ call'[q].token = call[q].token
BY MovedType DEF Restart, Ended

(* A restart forgets the store in memory.                                  *)
LEMMA RestartKind ==
  ASSUME KindInv, Restart
  PROVE  KindInv'
<1>1. call' \in [Calls -> CallRecords]
  <2>1. \A q \in Calls : call[q] \in CallRecords
    BY DEF KindInv, AccountTypes
  <2>2. call' = [q \in Calls |-> call'[q]]
    BY DEF Restart
  <2> QED
    BY <2>1, <2>2, RestartCalls
<1>2. AccountTypes'
  BY <1>1, AccountAssumption DEF KindInv, AccountTypes, Restart
<1>3. CallsFit'
  BY RestartCalls DEF KindInv, CallsFit, Underway, Refreshing, Ended
<1>4. TokensExist'
  BY RestartCalls DEF KindInv, TokensExist, Restart, Unissued, Refreshing, Ended
<1> QED
  BY <1>2, <1>3, <1>4 DEF KindInv

(* All together.                                                           *)
LEMMA KindStep ==
  ASSUME KindInv, [AccountNext]_accountVars
  PROVE  KindInv'
<1>1. CASE UNCHANGED accountVars
  BY <1>1 DEF accountVars, KindInv, AccountTypes, CallsFit, TokensExist
<1>2. CASE Tick \/ Restart
  BY <1>2, TickKind, RestartKind
<1>3. ASSUME NEW q \in Calls, NEW p \in Phones,
             SendCode(q, p) \/ Register(q, p) \/ Login(q, p)
               \/ \E code \in Calls : VerifyCode(q, p, code)
      PROVE  KindInv'
  BY <1>3, SendCodeKind, RegisterKind, LoginKind, VerifyCodeKind
<1>4. ASSUME NEW q \in Calls, NEW t \in Calls, Refresh(q, t)
      PROVE  KindInv'
  BY <1>4, RefreshKind
<1>5. ASSUME NEW q \in Calls, InsertAccount(q) \/ CommitAccount(q) \/ Install(q) \/ Check(q)
                                 \/ Rotate(q) \/ StoreError(q)
      PROVE  KindInv'
  BY <1>5, InsertAccountKind, CommitAccountKind, InstallKind, CheckKind, RotateKind, StoreErrorKind
<1> QED
  BY <1>1, <1>2, <1>3, <1>4, <1>5 DEF AccountNext

(* A call goes on to a place; the others stay where they are.              *)
Goes(q, place, op, telephone, token) ==
  /\ call'[q].at = place /\ call'[q].op = op
  /\ call'[q].phone = telephone /\ call'[q].token = token
  /\ \A r \in Calls \ {q} : call'[r] = call[r]
  /\ \A r \in Calls : meanwhile[r] \subseteq meanwhile'[r]
  /\ place \in Ended =>
       \A r \in Calls \ {q} : call[r].at \notin Ended \cup {"new"} => q \in meanwhile'[r]
Continues(q, place) == Goes(q, place, call[q].op, call[q].phone, call[q].token)

(* What the ends and the beginnings of a call have in common.              *)
LEMMA AdvanceGoes ==
  ASSUME KindInv, NEW q \in Calls, NEW changed \in CallRecords, Advance(q, changed)
  PROVE  Goes(q, changed.at, changed.op, changed.phone, changed.token) /\ call'[q] = changed
BY AdvanceType DEF Goes

(* A call in the middle of a refresh.                                      *)
LEMMA MovedGoes ==
  ASSUME KindInv, NEW q \in Calls, NEW where \in Unissued \cup Ended \cup {"answered"},
         Advance(q, Moved(q, where))
  PROVE  Continues(q, where) /\ call'[q].store = call[q].store /\ call'[q].late = call[q].late
BY MovedType, AdvanceGoes DEF Continues

(* The first step of a call.                                               *)
LEMMA BeginGoes ==
  ASSUME KindInv, NEW q \in Calls, NEW op \in {"send", "verify", "register", "login", "refresh"},
         NEW p \in Phones \cup {NoOne}, NEW where \in Unissued \cup Ended \cup {"answered"},
         Advance(q, BeginCall(q, op, p, where))
  PROVE  Goes(q, where, op, p, NoOne)
<1>1. BeginCall(q, op, p, where) \in CallRecords
  BY BeginType
<1> QED
  BY <1>1, BeginType, AdvanceGoes

(* Where each handler takes its call.                                      *)
LEMMA StartsGo ==
  ASSUME KindInv, NEW q \in Calls, NEW p \in Phones
  PROVE  /\ SendCode(q, p) => Goes(q, "done", "send", p, NoOne)
         /\ Register(q, p) => \/ accounts[p] = NoOne /\ Goes(q, "insert", "register", p, NoOne)
                              \/ Goes(q, "refused", "register", p, NoOne)
         /\ Login(q, p) => \E place \in {"done", "refused"} : Goes(q, place, "login", p, NoOne)
         /\ \A code \in Calls : VerifyCode(q, p, code) =>
              \/ codes[p] = code /\ codes' = CodeSpent(p) /\ Goes(q, "done", "verify", p, code)
              \/ codes' = codes /\ Goes(q, "refused", "verify", p, NoOne)
<1>1. SendCode(q, p) => Goes(q, "done", "send", p, NoOne)
  BY BeginGoes DEF SendCode, Ended
<1>2. Register(q, p) => \/ accounts[p] = NoOne /\ Goes(q, "insert", "register", p, NoOne)
                        \/ Goes(q, "refused", "register", p, NoOne)
  BY BeginGoes DEF Register, Ended, Unissued
<1>3. Login(q, p) => \E place \in {"done", "refused"} : Goes(q, place, "login", p, NoOne)
  BY BeginGoes DEF Login, Ended
<1>4. ASSUME NEW code \in Calls, VerifyCode(q, p, code)
      PROVE  \/ codes[p] = code /\ codes' = CodeSpent(p) /\ Goes(q, "done", "verify", p, code)
             \/ codes' = codes /\ Goes(q, "refused", "verify", p, NoOne)
  <2>1. CASE codes[p] = code
    <3> DEFINE changed == [BeginCall(q, "verify", p, "done") EXCEPT !.token = code]
    <3>1. Advance(q, changed) /\ codes' = CodeSpent(p)
      BY <1>4, <2>1 DEF VerifyCode
    <3>2. /\ changed \in CallRecords /\ changed.at = "done" /\ changed.op = "verify"
          /\ changed.phone = p /\ changed.token = code
      BY DEF BeginCall, NewCall, CallRecords, Ended
    <3> HIDE DEF changed
    <3>3. Goes(q, changed.at, changed.op, changed.phone, changed.token)
      BY <3>1, <3>2, AdvanceGoes
    <3> QED
      BY <2>1, <3>1, <3>2, <3>3
  <2>2. CASE codes[p] # code
    BY <1>4, <2>2, BeginGoes DEF VerifyCode, Ended
  <2> QED
    BY <2>1, <2>2
<1> QED
  BY <1>1, <1>2, <1>3, <1>4

(* A refresh begins.                                                       *)
LEMMA RefreshGoes ==
  ASSUME KindInv, NEW q \in Calls, NEW t \in Calls, Refresh(q, t)
  PROVE  /\ Goes(q, IF store = NoOne THEN "ping" ELSE "check", "refresh", call[t].phone, t)
         /\ call'[q].store = store
<1> DEFINE where == IF store = NoOne THEN "ping" ELSE "check"
           changed == [BeginCall(q, "refresh", call[t].phone, where) EXCEPT !.token = t, !.store = store]
<1>1. Advance(q, changed)
  BY DEF Refresh
<1>2. /\ changed \in CallRecords /\ changed.at = where /\ changed.op = "refresh"
      /\ changed.token = t /\ changed.store = store /\ changed.phone = call[t].phone
  BY DEF BeginCall, NewCall, CallRecords, Unissued, KindInv, AccountTypes
<1> HIDE DEF changed
<1>3. Goes(q, changed.at, changed.op, changed.phone, changed.token) /\ call'[q] = changed
  BY <1>1, <1>2, AdvanceGoes
<1> QED
  BY <1>2, <1>3

(* A store is installed.                                                   *)
LEMMA InstallGoes ==
  ASSUME KindInv, NEW q \in Calls, Install(q)
  PROVE  /\ Continues(q, "check") /\ store' \in {q, Redis} /\ call'[q].store = store'
         /\ forgotten' = forgotten \cup
              {t \in Calls : revocations[store'][t] = 0 /\ RevokedSomewhere(t)}
<1>1. PICK found \in {q, Redis} :
        /\ store' = found
        /\ call' = [call EXCEPT ![q].at = "check", ![q].store = found]
        /\ forgotten' = forgotten \cup
             {t \in Calls : revocations[found][t] = 0 /\ \E s \in Calls \cup {Redis} : revocations[s][t] # 0}
  BY DEF Install
<1>2. /\ call'[q].at = "check" /\ call'[q].store = found /\ call'[q].op = call[q].op
      /\ call'[q].token = call[q].token /\ call'[q].phone = call[q].phone
      /\ \A r \in Calls \ {q} : call'[r] = call[r]
  BY <1>1 DEF KindInv, AccountTypes, CallRecords
<1>3. meanwhile' = meanwhile /\ "check" \notin Ended
  BY DEF Install, Ended
<1>4. Continues(q, "check")
  BY <1>2, <1>3 DEF Continues, Goes
<1> QED
  BY <1>1, <1>2, <1>4 DEF RevokedSomewhere, Stores

(* A token is looked up.                                                   *)
LEMMA CheckGoes ==
  ASSUME KindInv, NEW q \in Calls, Check(q)
  PROVE  \/ Continues(q, "refused")
         \/ /\ ~ IsRevoked(call[q].store, call[q].token) /\ Continues(q, "user")
            /\ now > 2 * issued[call[q].token] - 2 => call'[q].late
<1>1. CASE IsRevoked(call[q].store, call[q].token)
  BY <1>1, MovedGoes DEF Check, Ended
<1>2. CASE ~ IsRevoked(call[q].store, call[q].token)
  <2> DEFINE ending == (now > 2 * issued[call[q].token] - 2)
             changed == [Moved(q, "user") EXCEPT !.late = ending]
  <2>1. Advance(q, changed)
    BY <1>2 DEF Check
  <2>2. /\ Moved(q, "user") \in CallRecords /\ Moved(q, "user").at = "user"
        /\ Moved(q, "user").op = call[q].op /\ Moved(q, "user").phone = call[q].phone
        /\ Moved(q, "user").token = call[q].token
    BY MovedType DEF Unissued
  <2>3. ending \in BOOLEAN
    BY SMT
  <2> HIDE DEF ending
  <2>4. /\ changed \in CallRecords /\ changed.at = "user" /\ changed.op = call[q].op
        /\ changed.phone = call[q].phone /\ changed.token = call[q].token /\ changed.late = ending
    BY <2>2, <2>3, EditedType
  <2> HIDE DEF changed
  <2>5. Goes(q, changed.at, changed.op, changed.phone, changed.token) /\ call'[q] = changed
    BY <2>1, <2>4, AdvanceGoes
  <2>6. Continues(q, "user") /\ call'[q].late = ending
    BY <2>4, <2>5 DEF Continues
  <2>7. now > 2 * issued[call[q].token] - 2 => call'[q].late
    BY <2>6 DEF ending
  <2> QED
    BY <1>2, <2>6, <2>7
<1> QED
  BY <1>1, <1>2

(* A call ends, whatever comes of it.                                      *)
LEMMA EndsGo ==
  ASSUME KindInv, NEW q \in Calls
  PROVE  /\ InsertAccount(q) => \/ accounts[call[q].phone] = NoOne /\ Continues(q, "answered")
                                \/ Continues(q, "failed")
         /\ CommitAccount(q) => Continues(q, "done")
         /\ Rotate(q) => \/ /\ Continues(q, "done") /\ call'[q].late = call[q].late
                            /\ revocations' = [revocations EXCEPT ![call[q].store][call[q].token] =
                                                 now + 2 * Ttl(call[q].token)]
                            /\ forgotten' = IF call[q].store = store THEN forgotten
                                            ELSE forgotten \cup {call[q].token}
                         \/ Continues(q, "refused") /\ UNCHANGED <<revocations, forgotten>>
         /\ StoreError(q) => Continues(q, "failed")
BY MovedGoes DEF InsertAccount, CommitAccount, Rotate, StoreError, Ended

RowInv == RowsAreHeld /\ OneAccountPerPhone

(* A call that neither holds a row nor has committed one leaves them alone.*)
LEMMA RowsQuiet ==
  ASSUME RowInv, NEW q \in Calls, NEW place, NEW op, NEW p, NEW t, Goes(q, place, op, p, t),
         place # "answered", ~(place = "done" /\ op = "register"), accounts' = accounts
  PROVE  RowInv'
BY DEF RowInv, RowsAreHeld, OneAccountPerPhone, Succeeded, Goes

(* The INSERT finds the row held, or holds it.                             *)
LEMMA InsertAccountRows ==
  ASSUME KindInv, RowInv, NEW q \in Calls, InsertAccount(q)
  PROVE  RowInv'
<1>1. /\ call[q].at = "insert" /\ accounts' = accounts
      /\ \A r \in Calls : ~(call[r].at = "answered" /\ call[r].phone = call[q].phone)
  BY DEF InsertAccount
<1>2. CASE Continues(q, "failed")
  BY <1>1, <1>2, RowsQuiet DEF Continues
<1>3. CASE accounts[call[q].phone] = NoOne /\ Continues(q, "answered")
  BY <1>1, <1>3 DEF RowInv, RowsAreHeld, OneAccountPerPhone, Succeeded, Goes, Continues
<1> QED
  BY <1>2, <1>3, EndsGo

(* The commit puts the held row on file.                                   *)
LEMMA CommitAccountRows ==
  ASSUME KindInv, RowInv, NEW q \in Calls, CommitAccount(q)
  PROVE  RowInv'
<1>1. /\ call[q].at = "answered" /\ accounts' = [accounts EXCEPT ![call[q].phone] = q]
      /\ call[q].op = "register" /\ call[q].phone \in Phones
      /\ accounts[call[q].phone] = NoOne
  BY DEF CommitAccount, KindInv, CallsFit, Underway, RowInv, RowsAreHeld
<1>2. Continues(q, "done")
  BY EndsGo
<1>3. /\ accounts'[call[q].phone] = q
      /\ \A p \in Phones : p # call[q].phone => accounts'[p] = accounts[p]
  BY <1>1 DEF KindInv, AccountTypes
<1>4. RowsAreHeld'
  <2>1. ASSUME NEW r \in Calls, call'[r].at = "answered"
        PROVE  r # q /\ call'[r] = call[r] /\ accounts'[call[r].phone] = NoOne
    <3>1. r # q /\ call'[r] = call[r]
      BY <1>2, <2>1 DEF Continues, Goes
    <3>2. call[r].phone \in Phones /\ call[r].phone # call[q].phone
      BY <1>1, <2>1, <3>1 DEF RowInv, RowsAreHeld, KindInv, CallsFit, Underway
    <3> QED
      BY <1>3, <2>1, <3>1, <3>2 DEF RowInv, RowsAreHeld
  <2> QED
    BY <2>1 DEF RowInv, RowsAreHeld
<1>5. OneAccountPerPhone'
  <2> SUFFICES ASSUME NEW r \in Calls, Succeeded(r, "register")'
               PROVE  accounts'[call'[r].phone] = r
    BY DEF OneAccountPerPhone
  <2>1. CASE r = q
    BY <2>1, <1>2, <1>3 DEF Continues, Goes
  <2>2. CASE r # q
    <3>1. call'[r] = call[r] /\ Succeeded(r, "register")
      BY <2>2, <1>2 DEF Continues, Goes, Succeeded
    <3>2. accounts[call[r].phone] = r /\ call[r].phone \in Phones
      BY <3>1 DEF RowInv, OneAccountPerPhone, Succeeded, KindInv, CallsFit, Underway
    <3>3. call[r].phone # call[q].phone
      BY <1>1, <3>2, AccountAssumption
    <3> QED
      BY <1>3, <3>1, <3>2, <3>3
  <2> QED
    BY <2>1, <2>2
<1> QED
  BY <1>4, <1>5 DEF RowInv

(* A restart releases the rows held.                                       *)
LEMMA RestartRows ==
  ASSUME KindInv, RowInv, Restart
  PROVE  RowInv'
<1>1. accounts' = accounts
  BY DEF Restart
<1> QED
  BY <1>1, RestartCalls DEF RowInv, RowsAreHeld, OneAccountPerPhone, Succeeded, Ended

(* All together.                                                           *)
LEMMA RowStep ==
  ASSUME KindInv, RowInv, [AccountNext]_accountVars
  PROVE  RowInv'
<1>1. CASE UNCHANGED accountVars \/ Tick
  BY <1>1 DEF accountVars, RowInv, RowsAreHeld, OneAccountPerPhone, Succeeded, Tick
<1>2. CASE Restart
  BY <1>2, RestartRows
<1>3. ASSUME NEW q \in Calls, NEW p \in Phones,
             SendCode(q, p) \/ Register(q, p) \/ Login(q, p)
               \/ \E code \in Calls : VerifyCode(q, p, code)
      PROVE  RowInv'
  <2>1. accounts' = accounts
    BY <1>3 DEF SendCode, Register, Login, VerifyCode
  <2>2. PICK place \in {"done", "insert", "refused"}, op \in {"send", "register", "login", "verify"},
             t \in Calls \cup {NoOne} :
               Goes(q, place, op, p, t) /\ ~(place = "done" /\ op = "register")
    BY <1>3, StartsGo
  <2> QED
    BY <2>1, <2>2, RowsQuiet
<1>4. ASSUME NEW q \in Calls, NEW t \in Calls, Refresh(q, t)
      PROVE  RowInv'
  <2>1. accounts' = accounts
    BY <1>4 DEF Refresh
  <2>2. PICK place \in {"ping", "check"} : Goes(q, place, "refresh", call[t].phone, t)
    BY <1>4, RefreshGoes
  <2> QED
    BY <2>1, <2>2, RowsQuiet
<1>5. ASSUME NEW q \in Calls, Install(q) \/ Check(q) \/ Rotate(q) \/ StoreError(q)
      PROVE  RowInv'
  <2>1. accounts' = accounts /\ call[q].at \in Refreshing
    BY <1>5 DEF Install, Check, Rotate, StoreError, Refreshing
  <2>2. call[q].op = "refresh"
    BY <2>1 DEF KindInv, CallsFit, Underway
  <2>3. PICK place \in {"check", "refused", "user", "done", "failed"} : Continues(q, place)
    BY <1>5, InstallGoes, CheckGoes, EndsGo
  <2> QED
    BY <2>1, <2>2, <2>3, RowsQuiet DEF Continues
<1>6. ASSUME NEW q \in Calls, InsertAccount(q) \/ CommitAccount(q)
      PROVE  RowInv'
  BY <1>6, InsertAccountRows, CommitAccountRows
<1> QED
  BY <1>1, <1>2, <1>3, <1>4, <1>5, <1>6 DEF AccountNext

----------------------------------------------------------------------------
CodeInv == CodesPend /\ CodesAreSpent

(* A call that verifies nothing, where no code was sent.                   *)
LEMMA CodesQuiet ==
  ASSUME KindInv, CodeInv, NEW q \in Calls, NEW place, NEW op, NEW p, NEW t,
         Goes(q, place, op, p, t),
         place # "new", ~(place = "done" /\ op = "verify"), codes' = codes
  PROVE  CodeInv'
<1>1. \A r \in Calls : call[r].at # "new" => call'[r].at # "new"
  BY DEF Goes
<1>2. \A r \in Calls : Succeeded(r, "verify")' => Succeeded(r, "verify") /\ call'[r] = call[r]
  BY DEF Goes, Succeeded
<1>3. codes \in [Phones -> Calls \cup {NoOne}]
  BY DEF KindInv, AccountTypes
<1> QED
  BY <1>1, <1>2, <1>3 DEF CodeInv, CodesPend, CodesAreSpent

(* A code sent replaces the one pending.                                   *)
LEMMA SendCodeCodes ==
  ASSUME KindInv, CodeInv, NEW q \in Calls, NEW p \in Phones, SendCode(q, p)
  PROVE  CodeInv'
<1>1. Goes(q, "done", "send", p, NoOne) /\ call[q].at = "new"
  BY StartsGo DEF SendCode
<1>2. codes'[p] = q /\ \A r \in Phones : r # p => codes'[r] = codes[r]
  BY DEF SendCode, KindInv, AccountTypes
<1>3. CodesPend'
  <2>1. \A r \in Calls : call[r].at # "new" => call'[r].at # "new"
    BY <1>1 DEF Goes
  <2>2. \A r \in Calls : Succeeded(r, "verify")' =>
          Succeeded(r, "verify") /\ call'[r] = call[r] /\ call[r].token # q
    BY <1>1 DEF Goes, Succeeded, CodeInv, CodesPend
  <2>3. \A r \in Phones : codes[r] \in Calls \cup {NoOne}
    BY DEF KindInv, AccountTypes
  <2>4. call'[q].at # "new"
    BY <1>1 DEF Goes
  <2>5. \A r \in Phones : codes[r] # NoOne => codes[r] # q
    BY <1>1 DEF CodeInv, CodesPend
  <2>6. \A r \in Phones : codes'[r] # NoOne => call'[codes'[r]].at # "new"
    BY <1>2, <2>1, <2>3, <2>4 DEF CodeInv, CodesPend
  <2>7. \A r1, r2 \in Phones : codes'[r1] # NoOne /\ codes'[r1] = codes'[r2] => r1 = r2
    BY <1>2, <2>5 DEF CodeInv, CodesPend
  <2>8. \A r \in Calls : Succeeded(r, "verify")' =>
          /\ call'[r].token \in Calls /\ call'[call'[r].token].at # "new"
          /\ \A x \in Phones : codes'[x] # call'[r].token
    BY <1>2, <2>1, <2>2 DEF CodeInv, CodesPend
  <2> QED
    BY <2>6, <2>7, <2>8 DEF CodesPend
<1>4. CodesAreSpent'
  BY <1>1 DEF CodeInv, CodesAreSpent, Succeeded, Goes
<1> QED
  BY <1>3, <1>4 DEF CodeInv

(* A code that opens is deleted with it.                                   *)
LEMMA VerifyCodeCodes ==
  ASSUME KindInv, CodeInv, NEW q \in Calls, NEW p \in Phones, NEW code \in Calls,
         VerifyCode(q, p, code)
  PROVE  CodeInv'
<1>1. CASE codes' = codes /\ Goes(q, "refused", "verify", p, NoOne)
  BY <1>1, CodesQuiet
<1>2. CASE codes[p] = code /\ codes' = CodeSpent(p) /\ Goes(q, "done", "verify", p, code)
  <2>1. codes'[p] = NoOne /\ \A r \in Phones : r # p => codes'[r] = codes[r]
    BY <1>2 DEF CodeSpent, KindInv, AccountTypes
  <2>2. /\ code # NoOne /\ call[q].at = "new" /\ call[code].at # "new"
        /\ \A r \in Phones : codes'[r] # code
    BY <1>2, <2>1, AccountAssumption DEF CodeInv, CodesPend, VerifyCode
  <2>3. \A r \in Calls : Succeeded(r, "verify") => call[r].token # code
    BY <1>2 DEF CodeInv, CodesPend
  <2>4. \A r \in Calls \ {q} : call'[r] = call[r]
    BY <1>2 DEF Goes
  <2>5. CodesPend'
    <3>1. \A r \in Calls : call[r].at # "new" => call'[r].at # "new"
      BY <1>2 DEF Goes
    <3>2. \A r \in Phones : codes'[r] # NoOne => codes'[r] = codes[r] /\ codes[r] \in Calls
      BY <2>1 DEF KindInv, AccountTypes
    <3>3. \A r \in Phones : codes'[r] # NoOne => call'[codes'[r]].at # "new"
      BY <3>1, <3>2 DEF CodeInv, CodesPend
    <3>4. \A r1, r2 \in Phones : codes'[r1] # NoOne /\ codes'[r1] = codes'[r2] => r1 = r2
      BY <3>2 DEF CodeInv, CodesPend
    <3>5. ASSUME NEW r \in Calls, Succeeded(r, "verify")'
          PROVE  /\ call'[r].token \in Calls /\ call'[call'[r].token].at # "new"
                 /\ \A x \in Phones : codes'[x] # call'[r].token
      <4>1. CASE r = q
        BY <4>1, <1>2, <2>2, <3>1 DEF Goes
      <4>2. CASE r # q
        <5>1. Succeeded(r, "verify") /\ call'[r] = call[r]
          BY <4>2, <2>4, <3>5 DEF Succeeded
        <5>2. call[r].token \in Calls /\ call[call[r].token].at # "new"
          BY <5>1 DEF CodeInv, CodesPend
        <5>3. \A x \in Phones : codes[x] # call[r].token
          BY <5>1 DEF CodeInv, CodesPend
        <5>4. \A x \in Phones : codes'[x] # call[r].token
          BY <5>2, <5>3, <3>2, <2>1, AccountAssumption
        <5> QED
          BY <5>1, <5>2, <5>4, <3>1
      <4> QED
        BY <4>1, <4>2
    <3> QED
      BY <3>3, <3>4, <3>5 DEF CodesPend
  <2>6. CodesAreSpent'
    BY <1>2, <2>3, <2>4 DEF CodeInv, CodesAreSpent, Succeeded, Goes
  <2> QED
    BY <2>5, <2>6 DEF CodeInv
<1> QED
  BY <1>1, <1>2, StartsGo

(* A restart forgets the codes in memory.                                  *)
LEMMA RestartCodes ==
  ASSUME KindInv, CodeInv, Restart
  PROVE  CodeInv'
<1>1. \A p \in Phones : codes'[p] = NoOne
  BY DEF Restart
<1>2. \A q \in Calls : Succeeded(q, "verify")' => Succeeded(q, "verify") /\ call'[q] = call[q]
  BY RestartCalls DEF Succeeded, Ended
<1>3. \A q \in Calls : call[q].at # "new" => call'[q].at # "new"
  BY RestartCalls DEF Ended
<1> QED
  BY <1>1, <1>2, <1>3, AccountAssumption DEF CodeInv, CodesPend, CodesAreSpent

(* All together.                                                           *)
LEMMA CodeStep ==
  ASSUME KindInv, CodeInv, [AccountNext]_accountVars
  PROVE  CodeInv'
<1>1. CASE UNCHANGED accountVars \/ Tick
  BY <1>1 DEF accountVars, CodeInv, CodesPend, CodesAreSpent, Succeeded, Tick
<1>2. CASE Restart
  BY <1>2, RestartCodes
<1>3. ASSUME NEW q \in Calls, NEW p \in Phones,
             SendCode(q, p) \/ \E code \in Calls : VerifyCode(q, p, code)
      PROVE  CodeInv'
  BY <1>3, SendCodeCodes, VerifyCodeCodes
<1>4. ASSUME NEW q \in Calls, NEW p \in Phones, Register(q, p) \/ Login(q, p)
      PROVE  CodeInv'
  <2>1. codes' = codes
    BY <1>4 DEF Register, Login
  <2>2. PICK place \in {"done", "insert", "refused"}, op \in {"register", "login"} :
          Goes(q, place, op, p, NoOne)
    BY <1>4, StartsGo
  <2> QED
    BY <2>1, <2>2, CodesQuiet
<1>5. ASSUME NEW q \in Calls, NEW t \in Calls, Refresh(q, t)
      PROVE  CodeInv'
  <2>1. codes' = codes
    BY <1>5 DEF Refresh
  <2>2. PICK place \in {"ping", "check"} : Goes(q, place, "refresh", call[t].phone, t)
    BY <1>5, RefreshGoes
  <2> QED
    BY <2>1, <2>2, CodesQuiet
<1>6. ASSUME NEW q \in Calls, InsertAccount(q) \/ CommitAccount(q) \/ Install(q) \/ Check(q)
                                 \/ Rotate(q) \/ StoreError(q)
      PROVE  CodeInv'
  <2>1. codes' = codes /\ call[q].at \in {"insert", "answered"} \cup Refreshing
    BY <1>6 DEF InsertAccount, CommitAccount, Install, Check, Rotate, StoreError, Refreshing
  <2>2. call[q].op \in {"register", "refresh"}
    BY <2>1 DEF KindInv, CallsFit, Underway
  <2>3. PICK place \in {"answered", "check", "refused", "user", "done", "failed"} : Continues(q, place)
    BY <1>6, InstallGoes, CheckGoes, EndsGo
  <2> QED
    BY <2>1, <2>2, <2>3, CodesQuiet DEF Continues
<1> QED
  BY <1>1, <1>2, <1>3, <1>4, <1>5, <1>6 DEF AccountNext

----------------------------------------------------------------------------
(* A token's expiry is settled when it is issued.                          *)
LEMMA IssuedKept ==
  ASSUME KindInv, [AccountNext]_accountVars, NEW t \in Calls, issued[t] # 0
  PROVE  issued'[t] = issued[t]
<1>1. CASE issued' = issued
  BY <1>1
<1>2. ASSUME NEW q \in Calls, issued' = [issued EXCEPT ![q] = Expiry],
             call[q].at \in {"new", "insert", "user"}
      PROVE  issued'[t] = issued[t]
  <2>1. issued[q] = 0
    BY <1>2 DEF KindInv, TokensExist, Unissued
  <2> QED
    BY <1>2, <2>1 DEF KindInv, AccountTypes
<1>3. \/ issued' = issued
      \/ \E q \in Calls : /\ issued' = [issued EXCEPT ![q] = Expiry]
                          /\ call[q].at \in {"new", "insert", "user"}
  <2>1. UNCHANGED accountVars \/ Tick \/ Restart => issued' = issued
    BY DEF accountVars, Tick, Restart
  <2>2. \A q \in Calls : \A p \in Phones : SendCode(q, p) \/ Register(q, p) => issued' = issued
    BY DEF SendCode, Register
  <2>3. \A q \in Calls : \A p \in Phones : \A code \in Calls : VerifyCode(q, p, code) => issued' = issued
    BY DEF VerifyCode
  <2>4. \A q, r \in Calls : Refresh(q, r) => issued' = issued
    BY DEF Refresh
  <2>5. \A q \in Calls : CommitAccount(q) \/ Install(q) \/ Check(q) \/ StoreError(q) => issued' = issued
    BY DEF CommitAccount, Install, Check, StoreError
  <2>6. \A q \in Calls : \A p \in Phones : Login(q, p) =>
          \/ issued' = issued
          \/ issued' = [issued EXCEPT ![q] = Expiry] /\ call[q].at \in {"new", "insert", "user"}
    BY DEF Login
  <2>7. \A q \in Calls : InsertAccount(q) \/ Rotate(q) =>
          \/ issued' = issued
          \/ issued' = [issued EXCEPT ![q] = Expiry] /\ call[q].at \in {"new", "insert", "user"}
    BY DEF InsertAccount, Rotate
  <2> QED
    BY <2>1, <2>2, <2>3, <2>4, <2>5, <2>6, <2>7 DEF AccountNext
<1> QED
  BY <1>1, <1>2, <1>3

(* No revocation is taken back, and the store stays.                       *)
Keeps ==
  /\ \A s \in Stores, t \in Calls : revocations[s][t] # 0 => revocations'[s][t] # 0
  /\ forgotten \subseteq forgotten' /\ store' = store

(* RevocationsLast, where no revocation is added.                          *)
LEMMA RevocationsStay ==
  ASSUME KindInv, RevocationsLast, [AccountNext]_accountVars, revocations' = revocations
  PROVE  RevocationsLast'
BY IssuedKept DEF RevocationsLast, Lasts

(* One more revocation, as long as the token has left.                     *)
LEMMA RevocationAdded ==
  ASSUME KindInv, RevocationsLast, [AccountNext]_accountVars, NEW s \in Stores, NEW t \in Calls,
         issued[t] # 0, revocations' = [revocations EXCEPT ![s][t] = now + 2 * Ttl(t)]
  PROVE  /\ RevocationsLast' /\ revocations'[s][t] # 0
         /\ \A x \in Stores, y \in Calls : revocations[x][y] # 0 => revocations'[x][y] # 0
<1> DEFINE end == now + 2 * Ttl(t)
<1>1. end \in Nat /\ end >= 2 * issued[t] - 1 /\ end # 0
  BY TtlLasts
<1> HIDE DEF end
<1>2. /\ revocations'[s][t] = end
      /\ \A x \in Stores, y \in Calls : x # s \/ y # t => revocations'[x][y] = revocations[x][y]
  BY DEF end, KindInv, AccountTypes
<1>3. RevocationsLast'
  BY <1>1, <1>2, IssuedKept DEF RevocationsLast, Lasts
<1> QED
  BY <1>1, <1>2, <1>3

(* A call that ends otherwise than by a rotation changes nothing for the   *)
(* tokens of the others.                                                   *)
LEMMA TokensStay ==
  ASSUME KindInv, TokenInv, NEW q \in Calls, NEW place, NEW op, NEW p, NEW t,
         Goes(q, place, op, p, t), Keeps, RevocationsLast',
         ~(place = "done" /\ op = "refresh"), place \notin Refreshing
  PROVE  TokenInv'
<1>1. \A r \in Calls : Succeeded(r, "refresh")' => Succeeded(r, "refresh") /\ call'[r] = call[r]
  BY DEF Goes, Succeeded
<1>2. \A r \in Calls : call'[r].at \in Refreshing => call'[r] = call[r] /\ call[r].at \in Refreshing
  BY DEF Goes
<1>3. \A r \in Calls : Succeeded(r, "refresh") => call[r].token \in Calls
  BY DEF Succeeded, KindInv, CallsFit, Underway
<1>4. RotatedAreRevoked'
  <2> SUFFICES ASSUME NEW r \in Calls, Succeeded(r, "refresh")'
               PROVE  RevokedSomewhere(call[r].token)' /\ RevokedNow(call[r].token)' /\ call'[r] = call[r]
    BY DEF RotatedAreRevoked
  <2>1. /\ RevokedSomewhere(call[r].token) /\ RevokedNow(call[r].token) /\ call'[r] = call[r]
        /\ call[r].token \in Calls
    BY <1>1, <1>3 DEF TokenInv, RotatedAreRevoked
  <2>2. store \in Stores \cup {NoOne}
    BY DEF KindInv, AccountTypes
  <2> QED
    BY <2>1, <2>2 DEF RevokedSomewhere, RevokedNow, Keeps
<1>5. RacesAreKnown'
  <2> SUFFICES ASSUME NEW x \in Calls, NEW r \in Calls, Succeeded(x, "refresh")',
                      call'[r].at \in Refreshing, call'[x].token = call'[r].token
               PROVE  x \in meanwhile'[r] \/ Finds(r)'
    BY DEF RacesAreKnown
  <2>1. /\ call'[x] = call[x] /\ call'[r] = call[r] /\ Succeeded(x, "refresh")
        /\ call[r].at \in Refreshing
    BY <1>1, <1>2
  <2>2. x \in meanwhile[r] \/ Finds(r)
    BY <2>1 DEF TokenInv, RacesAreKnown
  <2>3. call[r].token \in Calls /\ (call[r].at = "check" => call[r].store \in Stores)
    BY <2>1 DEF KindInv, CallsFit, Underway
  <2> QED
    BY <2>1, <2>2, <2>3 DEF Goes, Finds, Keeps
<1>6. TokensRotateOnce'
  <2> SUFFICES ASSUME NEW x \in Calls, NEW r \in Calls, Succeeded(x, "refresh")',
                      Succeeded(r, "refresh")', x # r, call'[x].token = call'[r].token
               PROVE  \/ Overlapped(x, r)' \/ call'[x].token \in forgotten'
                      \/ call'[x].late \/ call'[r].late
    BY DEF TokensRotateOnce
  <2>1. /\ call'[x] = call[x] /\ call'[r] = call[r]
        /\ Succeeded(x, "refresh") /\ Succeeded(r, "refresh")
    BY <1>1
  <2>2. \/ Overlapped(x, r) \/ call[x].token \in forgotten \/ call[x].late \/ call[r].late
    BY <2>1 DEF TokenInv, TokensRotateOnce
  <2> QED
    BY <2>1, <2>2 DEF Goes, Keeps, Overlapped
<1> QED
  BY <1>4, <1>5, <1>6 DEF TokenInv

(* What a rotation was, it stays, and overlaps are not forgotten.          *)
LEMMA RotationsStay ==
  ASSUME KindInv, TokenInv, NEW q \in Calls, NEW place, NEW op, NEW p, NEW t,
         Goes(q, place, op, p, t), forgotten \subseteq forgotten',
         NEW x \in Calls \ {q}, NEW r \in Calls \ {q}, x # r,
         Succeeded(x, "refresh")', Succeeded(r, "refresh")', call'[x].token = call'[r].token
  PROVE  \/ Overlapped(x, r)' \/ call'[x].token \in forgotten'
         \/ call'[x].late \/ call'[r].late
<1>1. /\ call'[x] = call[x] /\ call'[r] = call[r]
      /\ Succeeded(x, "refresh") /\ Succeeded(r, "refresh")
  BY DEF Goes, Succeeded
<1>2. \/ Overlapped(x, r) \/ call[x].token \in forgotten \/ call[x].late \/ call[r].late
  BY <1>1 DEF TokenInv, TokensRotateOnce
<1> QED
  BY <1>1, <1>2 DEF Goes, Overlapped

(* A refresh that begins now is a race with those that are done.           *)
LEMMA RefreshTokens ==
  ASSUME KindInv, TokenInv, [AccountNext]_accountVars, NEW q \in Calls, NEW t \in Calls, Refresh(q, t)
  PROVE  TokenInv'
<1> DEFINE place == IF store = NoOne THEN "ping" ELSE "check"
<1>1. Goes(q, place, "refresh", call[t].phone, t) /\ call'[q].store = store
  BY RefreshGoes
<1>2. UNCHANGED <<store, revocations, forgotten>>
  BY DEF Refresh
<1>3. RevocationsLast'
  BY <1>2, RevocationsStay DEF TokenInv
<1>4. \A r \in Calls : Succeeded(r, "refresh")' =>
        r # q /\ Succeeded(r, "refresh") /\ call'[r] = call[r]
  BY <1>1 DEF Goes, Succeeded
<1>5. RotatedAreRevoked'
  BY <1>2, <1>4 DEF TokenInv, RotatedAreRevoked, RevokedSomewhere, RevokedNow
<1>6. RacesAreKnown'
  <2> SUFFICES ASSUME NEW x \in Calls, NEW r \in Calls, Succeeded(x, "refresh")',
                      call'[r].at \in Refreshing, call'[x].token = call'[r].token
               PROVE  x \in meanwhile'[r] \/ Finds(r)'
    BY DEF RacesAreKnown
  <2>1. Succeeded(x, "refresh") /\ call'[x] = call[x]
    BY <1>4
  <2>2. CASE r # q
    <3>1. call'[r] = call[r] /\ (x \in meanwhile[r] \/ Finds(r))
      BY <2>1, <2>2, <1>1 DEF Goes, TokenInv, RacesAreKnown
    <3> QED
      BY <3>1, <1>1, <1>2 DEF Goes, Finds
  <2>3. CASE r = q
    <3>1. RevokedNow(t) /\ call'[q].token = t /\ call'[q].at = place
      BY <2>1, <2>3, <1>1 DEF Goes, TokenInv, RotatedAreRevoked
    <3> QED
      BY <2>3, <3>1, <1>1, <1>2 DEF RevokedNow, Finds
  <2> QED
    BY <2>2, <2>3
<1>7. TokensRotateOnce'
  <2>1. forgotten \subseteq forgotten'
    BY <1>2
  <2> QED
    BY <2>1, <1>1, <1>4, RotationsStay DEF TokensRotateOnce
<1> QED
  BY <1>3, <1>5, <1>6, <1>7 DEF TokenInv

(* A store is installed: the revocations are where they were.              *)
LEMMA InstallTokens ==
  ASSUME KindInv, TokenInv, [AccountNext]_accountVars, NEW q \in Calls, Install(q)
  PROVE  TokenInv'
<1>1. /\ Continues(q, "check") /\ store' \in {q, Redis} /\ call'[q].store = store'
      /\ forgotten' = forgotten \cup
           {t \in Calls : revocations[store'][t] = 0 /\ RevokedSomewhere(t)}
  BY InstallGoes
<1>2. revocations' = revocations
  BY DEF Install
<1>3. RevocationsLast'
  BY <1>2, RevocationsStay DEF TokenInv
<1>4. \A r \in Calls : Succeeded(r, "refresh")' =>
        r # q /\ Succeeded(r, "refresh") /\ call'[r] = call[r] /\ call[r].token \in Calls
  BY <1>1 DEF Goes, Continues, Succeeded, KindInv, CallsFit, Underway
<1>5. \A r \in Calls : Succeeded(r, "refresh")' =>
        /\ RevokedSomewhere(call[r].token)
        /\ call[r].token \in forgotten' \/ revocations'[store'][call[r].token] # 0
  BY <1>1, <1>2, <1>4 DEF TokenInv, RotatedAreRevoked
<1>6. RotatedAreRevoked'
  BY <1>2, <1>4, <1>5 DEF RotatedAreRevoked, RevokedSomewhere, RevokedNow
<1>7. RacesAreKnown'
  <2> SUFFICES ASSUME NEW x \in Calls, NEW r \in Calls, Succeeded(x, "refresh")',
                      call'[r].at \in Refreshing, call'[x].token = call'[r].token
               PROVE  x \in meanwhile'[r] \/ Finds(r)'
    BY DEF RacesAreKnown
  <2>1. Succeeded(x, "refresh") /\ call'[x] = call[x]
    BY <1>4
  <2>2. CASE r # q
    <3>1. call'[r] = call[r] /\ (x \in meanwhile[r] \/ Finds(r))
      BY <2>1, <2>2, <1>1 DEF Goes, Continues, TokenInv, RacesAreKnown
    <3> QED
      BY <3>1, <1>1, <1>2 DEF Goes, Continues, Finds
  <2>3. CASE r = q
    <3>1. call'[q].at = "check" /\ call'[q].token = call[x].token
      BY <2>1, <2>3, <1>1 DEF Goes, Continues
    <3> QED
      BY <2>3, <3>1, <1>1, <1>5 DEF Finds
  <2> QED
    BY <2>2, <2>3
<1>8. TokensRotateOnce'
  <2>1. forgotten \subseteq forgotten'
    BY <1>1
  <2> QED
    BY <2>1, <1>1, <1>4, RotationsStay DEF TokensRotateOnce, Continues
<1> QED
  BY <1>3, <1>6, <1>7, <1>8 DEF TokenInv

(* A token in its store is refused until the last second of its life.      *)
LEMMA UnrevokedIsLate ==
  ASSUME KindInv, RevocationsLast, NEW s \in Stores, NEW t \in Calls,
         revocations[s][t] # 0, ~ IsRevoked(s, t)
  PROVE  now > 2 * issued[t] - 2
<1>1. revocations[s][t] >= 2 * issued[t] - 1
  BY DEF RevocationsLast, Lasts
<1>2. revocations[s][t] \in Nat /\ issued[t] \in Nat /\ now \in Nat
  BY AccountAssumption DEF KindInv, AccountTypes
<1>3. now >= revocations[s][t]
  BY <1>2 DEF IsRevoked
<1> QED
  BY <1>1, <1>2, <1>3

(* A check that finds nothing is a race or in the last second.             *)
LEMMA CheckTokens ==
  ASSUME KindInv, TokenInv, [AccountNext]_accountVars, NEW q \in Calls, Check(q)
  PROVE  TokenInv'
<1>1. UNCHANGED <<store, revocations, forgotten>> /\ call[q].at = "check"
  BY DEF Check
<1>2. RevocationsLast'
  BY <1>1, RevocationsStay DEF TokenInv
<1>3. CASE Continues(q, "refused")
  <2>1. Keeps /\ "refused" \notin Refreshing
    BY <1>1 DEF Keeps, Refreshing
  <2> QED
    BY <2>1, <1>2, <1>3, TokensStay DEF Continues
<1>4. CASE /\ ~ IsRevoked(call[q].store, call[q].token) /\ Continues(q, "user")
           /\ now > 2 * issued[call[q].token] - 2 => call'[q].late
  <2>1. \A r \in Calls : Succeeded(r, "refresh")' =>
          r # q /\ Succeeded(r, "refresh") /\ call'[r] = call[r]
    BY <1>4 DEF Goes, Continues, Succeeded
  <2>2. RotatedAreRevoked'
    BY <1>1, <2>1 DEF TokenInv, RotatedAreRevoked, RevokedSomewhere, RevokedNow
  <2>3. call[q].token \in Calls /\ call[q].store \in Stores
    BY <1>1 DEF KindInv, CallsFit, Underway, Refreshing
  <2>4. RacesAreKnown'
    <3> SUFFICES ASSUME NEW x \in Calls, NEW r \in Calls, Succeeded(x, "refresh")',
                        call'[r].at \in Refreshing, call'[x].token = call'[r].token
                 PROVE  x \in meanwhile'[r] \/ Finds(r)'
      BY DEF RacesAreKnown
    <3>1. Succeeded(x, "refresh") /\ call'[x] = call[x]
      BY <2>1
    <3>2. CASE r # q
      <4>1. call'[r] = call[r] /\ (x \in meanwhile[r] \/ Finds(r))
        BY <3>1, <3>2, <1>4 DEF Goes, Continues, TokenInv, RacesAreKnown
      <4> QED
        BY <4>1, <1>1, <1>4 DEF Goes, Continues, Finds
    <3>3. CASE r = q
      <4>1. call'[q].at = "user" /\ call'[q].token = call[q].token
        BY <1>4 DEF Goes, Continues
      <4>2. x \in meanwhile[q] \/ Finds(q)
        BY <3>1, <3>3, <4>1, <1>1 DEF TokenInv, RacesAreKnown, Refreshing
      <4>3. Finds(q) => call[q].token \in forgotten \/ call'[q].late
        BY <1>1, <1>4, <2>3, UnrevokedIsLate DEF Finds, TokenInv
      <4> QED
        BY <3>3, <4>1, <4>2, <4>3, <1>1, <1>4 DEF Goes, Continues, Finds
    <3> QED
      BY <3>2, <3>3
  <2>5. TokensRotateOnce'
    <3>1. forgotten \subseteq forgotten'
      BY <1>1
    <3> QED
      BY <3>1, <1>4, <2>1, RotationsStay DEF TokensRotateOnce, Continues
  <2> QED
    BY <1>2, <2>2, <2>4, <2>5 DEF TokenInv
<1> QED
  BY <1>3, <1>4, CheckGoes

(* A rotation revokes in the store that is installed, and is a race with   *)
(* the refreshes still open.                                               *)
LEMMA RotateTokens ==
  ASSUME KindInv, TokenInv, [AccountNext]_accountVars, NEW q \in Calls, Rotate(q)
  PROVE  TokenInv'
<1> DEFINE t == call[q].token
           s == call[q].store
<1>1. t \in Calls /\ s \in Stores /\ issued[t] # 0 /\ call[q].at = "user" /\ store' = store
      /\ call[q].op = "refresh"
  BY DEF Rotate, KindInv, CallsFit, Underway, Refreshing, TokensExist
<1>2. CASE Continues(q, "refused") /\ UNCHANGED <<revocations, forgotten>>
  <2>1. Keeps /\ "refused" \notin Refreshing
    BY <1>1, <1>2 DEF Keeps, Refreshing
  <2>2. RevocationsLast'
    BY <1>2, RevocationsStay DEF TokenInv
  <2> QED
    BY <2>1, <2>2, <1>2, TokensStay DEF Continues
<1>3. CASE /\ Continues(q, "done") /\ call'[q].late = call[q].late
           /\ revocations' = [revocations EXCEPT ![s][t] = now + 2 * Ttl(t)]
           /\ forgotten' = IF s = store THEN forgotten ELSE forgotten \cup {t}
  <2>1. /\ RevocationsLast' /\ revocations'[s][t] # 0
        /\ \A x \in Stores, y \in Calls : revocations[x][y] # 0 => revocations'[x][y] # 0
    BY <1>1, <1>3, RevocationAdded DEF TokenInv
  <2>2. forgotten \subseteq forgotten' /\ (s # store => t \in forgotten')
    BY <1>3
  <2>3. /\ call'[q].token = t /\ Succeeded(q, "refresh")'
        /\ \A r \in Calls : call[r].at \in Refreshing /\ r # q => q \in meanwhile'[r]
    BY <1>1, <1>3 DEF Continues, Goes, Succeeded, Ended, Refreshing
  <2>4. \A r \in Calls \ {q} : /\ call'[r] = call[r]
                               /\ Succeeded(r, "refresh")' => Succeeded(r, "refresh")
                               /\ meanwhile[r] \subseteq meanwhile'[r]
    BY <1>3 DEF Continues, Goes, Succeeded
  <2>5. \A r \in Calls : Succeeded(r, "refresh") => call[r].token \in Calls
    BY DEF Succeeded, KindInv, CallsFit, Underway
  <2>6. store \in Stores \cup {NoOne}
    BY DEF KindInv, AccountTypes
  <2>7. RotatedAreRevoked'
    <3> SUFFICES ASSUME NEW r \in Calls, Succeeded(r, "refresh")'
                 PROVE  RevokedSomewhere(call[r].token)' /\ RevokedNow(call[r].token)'
      BY DEF RotatedAreRevoked
    <3>1. CASE r = q
      BY <3>1, <1>1, <2>1, <2>2, <2>3 DEF RevokedSomewhere, RevokedNow
    <3>2. CASE r # q
      <4>1. /\ RevokedSomewhere(call[r].token) /\ RevokedNow(call[r].token)
            /\ call'[r] = call[r] /\ call[r].token \in Calls
        BY <3>2, <2>4, <2>5 DEF TokenInv, RotatedAreRevoked
      <4> QED
        BY <4>1, <1>1, <2>1, <2>2, <2>6 DEF RevokedSomewhere, RevokedNow
    <3> QED
      BY <3>1, <3>2
  <2>8. RacesAreKnown'
    <3> SUFFICES ASSUME NEW x \in Calls, NEW r \in Calls, Succeeded(x, "refresh")',
                        call'[r].at \in Refreshing, call'[x].token = call'[r].token
                 PROVE  x \in meanwhile'[r] \/ Finds(r)'
      BY DEF RacesAreKnown
    <3>1. r # q /\ call'[r] = call[r] /\ call[r].at \in Refreshing
      BY <1>3, <2>4 DEF Continues, Goes, Refreshing
    <3>2. CASE x = q
      BY <3>1, <3>2, <2>3
    <3>3. CASE x # q
      <4>1. call'[x] = call[x] /\ (x \in meanwhile[r] \/ Finds(r))
        BY <3>1, <3>3, <2>4 DEF TokenInv, RacesAreKnown
      <4>2. call[r].token \in Calls /\ (call[r].at = "check" => call[r].store \in Stores)
        BY <3>1 DEF KindInv, CallsFit, Underway
      <4> QED
        BY <4>1, <4>2, <3>1, <2>1, <2>2, <2>4 DEF Finds
    <3> QED
      BY <3>2, <3>3
  <2>9. TokensRotateOnce'
    <3> SUFFICES ASSUME NEW x \in Calls, NEW r \in Calls, Succeeded(x, "refresh")',
                        Succeeded(r, "refresh")', x # r, call'[x].token = call'[r].token
                 PROVE  \/ Overlapped(x, r)' \/ call'[x].token \in forgotten'
                        \/ call'[x].late \/ call'[r].late
      BY DEF TokensRotateOnce
    <3>1. ASSUME NEW y \in Calls \ {q}, Succeeded(y, "refresh")', call'[y].token = t
          PROVE  y \in meanwhile'[q] \/ t \in forgotten' \/ call'[q].late
      <4>1. Succeeded(y, "refresh") /\ call[y].token = t
        BY <3>1, <2>4
      <4>2. y \in meanwhile[q] \/ Finds(q)
        BY <4>1, <1>1 DEF TokenInv, RacesAreKnown, Refreshing
      <4>3. meanwhile[q] \subseteq meanwhile'[q]
        BY <1>3 DEF Continues, Goes
      <4> QED
        BY <4>2, <4>3, <1>1, <1>3, <2>2 DEF Finds
    <3>2. CASE x = q
      BY <3>1, <3>2, <2>3 DEF Overlapped
    <3>3. CASE r = q
      BY <3>1, <3>3, <2>3 DEF Overlapped
    <3>4. CASE x # q /\ r # q
      BY <3>4, <1>3, <2>2, RotationsStay DEF Continues
    <3> QED
      BY <3>2, <3>3, <3>4
  <2> QED
    BY <2>1, <2>7, <2>8, <2>9 DEF TokenInv
<1> QED
  BY <1>2, <1>3, EndsGo

(* A store that fails rotates nothing.                                     *)
LEMMA StoreErrorTokens ==
  ASSUME KindInv, TokenInv, [AccountNext]_accountVars, NEW q \in Calls, StoreError(q)
  PROVE  TokenInv'
<1>1. /\ Continues(q, "failed") /\ UNCHANGED <<store, forgotten>> /\ "failed" \notin Refreshing
      /\ call[q].at \in Refreshing
  BY EndsGo DEF StoreError, Refreshing
<1>2. call[q].token \in Calls /\ issued[call[q].token] # 0 /\ Redis \in Stores
  BY <1>1 DEF KindInv, CallsFit, Underway, TokensExist, Stores
<1>3. \/ revocations' = revocations
      \/ revocations' = [revocations EXCEPT ![Redis][call[q].token] = now + 2 * Ttl(call[q].token)]
  BY DEF StoreError
<1>4. RevocationsLast' /\ Keeps
  BY <1>1, <1>2, <1>3, RevocationsStay, RevocationAdded DEF TokenInv, Keeps
<1> QED
  BY <1>1, <1>4, TokensStay DEF Continues

(* A restart loses revocations, and says so.                               *)
LEMMA RestartTokens ==
  ASSUME KindInv, TokenInv, [AccountNext]_accountVars, Restart
  PROVE  TokenInv'
<1>1. store' = NoOne /\ UNCHANGED <<revocations, forgotten, meanwhile>>
  BY DEF Restart
<1>2. RevocationsLast'
  BY <1>1, RevocationsStay DEF TokenInv
<1>3. \A r \in Calls : /\ Succeeded(r, "refresh")' => Succeeded(r, "refresh") /\ call'[r] = call[r]
                      /\ call'[r].at \notin Refreshing
  BY RestartCalls DEF Succeeded, Ended, Refreshing
<1>4. RotatedAreRevoked'
  BY <1>1, <1>3 DEF TokenInv, RotatedAreRevoked, RevokedSomewhere, RevokedNow
<1>5. RacesAreKnown' /\ TokensRotateOnce'
  BY <1>1, <1>3 DEF TokenInv, RacesAreKnown, TokensRotateOnce, Overlapped
<1> QED
  BY <1>2, <1>4, <1>5 DEF TokenInv

(* All together.                                                           *)
LEMMA TokenStep ==
  ASSUME KindInv, TokenInv, [AccountNext]_accountVars
  PROVE  TokenInv'
<1>1. CASE UNCHANGED accountVars \/ Tick
  BY <1>1 DEF accountVars, Tick, TokenInv, RevocationsLast, Lasts, RotatedAreRevoked, RevokedSomewhere,
              RevokedNow, RacesAreKnown, Finds, TokensRotateOnce, Overlapped, Succeeded
<1>2. CASE Restart
  BY <1>2, RestartTokens
<1>3. ASSUME NEW q \in Calls, NEW p \in Phones,
             SendCode(q, p) \/ Register(q, p) \/ Login(q, p)
               \/ \E code \in Calls : VerifyCode(q, p, code)
      PROVE  TokenInv'
  <2>1. UNCHANGED <<store, revocations, forgotten>>
    BY <1>3 DEF SendCode, Register, Login, VerifyCode
  <2>2. PICK place \in {"done", "insert", "refused"}, op \in {"send", "register", "login", "verify"},
             t \in Calls \cup {NoOne} : Goes(q, place, op, p, t)
    BY <1>3, StartsGo
  <2>3. RevocationsLast' /\ Keeps /\ place \notin Refreshing
    BY <2>1, RevocationsStay DEF TokenInv, Keeps, Refreshing
  <2> QED
    BY <2>2, <2>3, TokensStay
<1>4. ASSUME NEW q \in Calls, InsertAccount(q) \/ CommitAccount(q)
      PROVE  TokenInv'
  <2>1. UNCHANGED <<store, revocations, forgotten>> /\ call[q].at \in {"insert", "answered"}
    BY <1>4 DEF InsertAccount, CommitAccount
  <2>2. call[q].op # "refresh"
    BY <2>1 DEF KindInv, CallsFit, Underway
  <2>3. PICK place \in {"answered", "done", "failed"} : Continues(q, place)
    BY <1>4, EndsGo
  <2>4. RevocationsLast' /\ Keeps /\ place \notin Refreshing
    BY <2>1, RevocationsStay DEF TokenInv, Keeps, Refreshing
  <2> QED
    BY <2>2, <2>3, <2>4, TokensStay DEF Continues
<1>5. ASSUME NEW q \in Calls, NEW t \in Calls, Refresh(q, t)
      PROVE  TokenInv'
  BY <1>5, RefreshTokens
<1>6. ASSUME NEW q \in Calls, Install(q) \/ Check(q) \/ Rotate(q) \/ StoreError(q)
      PROVE  TokenInv'
  BY <1>6, InstallTokens, CheckTokens, RotateTokens, StoreErrorTokens
<1> QED
  BY <1>1, <1>2, <1>3, <1>4, <1>5, <1>6 DEF AccountNext

(* Accounts, codes, tokens and revocations stay in the shapes AccountInv   *)
(* names, whatever the calls do (auth/routes.py, auth/tokens.py).          *)
THEOREM AccountInvariance == AccountSpec => []AccountInv
<1>1. AccountInv /\ [AccountNext]_accountVars => AccountInv'
  BY KindStep, RowStep, CodeStep, TokenStep DEF AccountInv, RowInv, CodeInv
<1> QED
  BY <1>1, AccountInitInv, PTL DEF AccountSpec

(* A phone has one account at most and every token of a registration that  *)
(* went through has its account (auth/routes.py:44-67), however many       *)
(* registrations of it race.                                               *)
THEOREM AccountPerPhone == AccountSpec => []OneAccountPerPhone
<1>1. AccountInv => OneAccountPerPhone
  BY DEF AccountInv
<1> QED
  BY <1>1, AccountInvariance, PTL

(* A code opens once (auth/routes.py:32-38) and a refresh token is rotated *)
(* once (102-131) but for races, stores that were lost and the last second *)
(* of its life.                                                            *)
THEOREM CredentialsOnce == AccountSpec => []CredentialsWorkOnce
<1>1. AccountInv => CredentialsWorkOnce
  BY DEF AccountInv, TokenInv, CredentialsWorkOnce
<1> QED
  BY <1>1, AccountInvariance, PTL

LEMMA AccountsTyped == AccountInv => AccountTypeOK
<1> SUFFICES ASSUME AccountInv PROVE AccountTypeOK
  OBVIOUS
<1>1. AccountTypes
  BY DEF AccountInv, KindInv
<1>2. \A q \in Calls : call[q].store \in Calls \cup {NoOne, Redis}
  BY <1>1 DEF AccountTypes, CallRecords, Stores
<1> QED
  BY <1>1, <1>2 DEF AccountTypes, Stores, AccountTypeOK
=============================================================================
