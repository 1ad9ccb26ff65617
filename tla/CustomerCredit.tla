--------------------------- MODULE CustomerCredit ---------------------------
(***************************************************************************)
(* The credit book of app/modules/crm: a customer is created with a limit, *)
(* the limit is edited, credit is added and paid back.                     *)
(*                                                                         *)
(* Each request reads the customer's row without a lock, decides in Python *)
(* and writes one column back as an absolute value; the write becomes      *)
(* visible with get_db's commit.  Nothing is decided between the flush and *)
(* the commit, and the row is locked from one to the other, so that both   *)
(* are one step here.                                                      *)
(***************************************************************************)
EXTENDS Integers

CONSTANTS
  Clerks,         \* requests to the customers router, each handled once
  Customers,
  CreditAmounts,  \* the query parameter amount, ge=1
  Limits          \* credit limits asked for; nothing keeps them positive

ASSUME CreditAssumption ==
  /\ Customers # {} /\ CreditAmounts \subseteq Nat \ {0}
  /\ Limits \subseteq Int

VARIABLES
  stored,   \* the customers with a committed row
  limit,    \* credit_limit, committed
  balance,  \* credit_balance, committed
  clerk,    \* what each request read, and is about to write
  owed,     \* history: credit granted less credit paid, by what was committed
  highest,  \* history: the highest limit a customer ever had
  raced     \* history: customers one of whose balances was lost to a race

creditVars == <<stored, limit, balance, clerk, owed, highest, raced>>

(* amount: what is asked, a limit for create and limit; seen: the balance  *)
(* it read; stale: the columns another request committed since.            *)
NewClerk == [at |-> "new", op |-> "none", customer |-> CHOOSE c \in Customers : TRUE,
             amount |-> 0, seen |-> 0, stale |-> {}]

CreditInit ==
  /\ stored = {}
  /\ limit = [c \in Customers |-> 0]
  /\ balance = [c \in Customers |-> 0]
  /\ clerk = [k \in Clerks |-> NewClerk]
  /\ owed = [c \in Customers |-> 0]
  /\ highest = [c \in Customers |-> 0]
  /\ raced = {}
----------------------------------------------------------------------------
Answer(k, outcome) ==
  /\ clerk' = [clerk EXCEPT ![k] = [NewClerk EXCEPT !.at = outcome]]
  /\ UNCHANGED <<stored, limit, balance, owed, highest, raced>>

ToWrite(k, op, c, amount) ==
  /\ clerk' = [clerk EXCEPT ![k] = [at |-> "commit", op |-> op, customer |-> c,
                                     amount |-> amount, seen |-> balance[c], stale |-> {}]]
  /\ UNCHANGED <<stored, limit, balance, owed, highest, raced>>

(* create_customer: no limit, or null, is a limit of 0; the id is fresh;   *)
(* the event has no subscriber.                                            *)
StartCreate(k, c, l) ==
  /\ clerk[k].at = "new" /\ c \notin stored
  /\ \A j \in Clerks : ~(clerk[j].op = "create" /\ clerk[j].customer = c)
  /\ ToWrite(k, "create", c, l)

(* CustomerRepository.get: a customer of another business is not found.    *)
NotFound(k, c) ==
  /\ clerk[k].at = "new" /\ c \notin stored
  /\ Answer(k, "refused")

(* update_customer with a limit; the other fields it sets play no part in  *)
(* the credit book.  The balance is not looked at.                         *)
StartUpdate(k, c, l) ==
  /\ clerk[k].at = "new" /\ c \in stored
  /\ ToWrite(k, "limit", c, l)

(* A limit of null is set on the row and refused by the response model     *)
(* before the commit: the request fails and leaves nothing.                *)
StartNullLimit(k, c) ==
  /\ clerk[k].at = "new" /\ c \in stored
  /\ Answer(k, "failed")

(* Faulty: the limit is compared with the balance before the addition.     *)
CreditAllowedLate(c, amount) == balance[c] <= limit[c]
(* adjust_credit, 45-47.                                                   *)
CreditAllowed(c, amount) == balance[c] + amount <= limit[c]

StartAdd(k, c, amount) ==
  /\ clerk[k].at = "new" /\ c \in stored
  /\ IF CreditAllowed(c, amount)
     THEN ToWrite(k, "add", c, amount)
     ELSE Answer(k, "failed")

(* pay_credit of the router, 114.                                          *)
StartPay(k, c, amount) ==
  /\ clerk[k].at = "new" /\ c \in stored
  /\ IF amount > balance[c]
     THEN Answer(k, "refused")
     ELSE ToWrite(k, "pay", c, amount)
----------------------------------------------------------------------------
(* Requests that read the row before this commit decide on what is gone.   *)
Finish(k, columns) ==
  clerk' = [j \in Clerks |->
    IF j = k THEN [NewClerk EXCEPT !.at = "done"]
    ELSE IF clerk[j].at = "commit" /\ clerk[j].customer = clerk[k].customer
         THEN [clerk[j] EXCEPT !.stale = @ \cup columns] ELSE clerk[j]]

Larger(a, b) == IF a >= b THEN a ELSE b

CommitCreate(k) ==
  LET c == clerk[k].customer IN
  /\ clerk[k].at = "commit" /\ clerk[k].op = "create"
  /\ stored' = stored \cup {c}
  /\ limit' = [limit EXCEPT ![c] = clerk[k].amount]
  /\ highest' = [highest EXCEPT ![c] = Larger(@, clerk[k].amount)]
  /\ Finish(k, {})
  /\ UNCHANGED <<balance, owed, raced>>

(* Faulty: a save writes every column of the row, the balance it read too. *)
CommitWholeRow(k) ==
  LET c == clerk[k].customer IN
  /\ clerk[k].at = "commit" /\ clerk[k].op = "limit"
  /\ limit' = [limit EXCEPT ![c] = clerk[k].amount]
  /\ balance' = [balance EXCEPT ![c] = clerk[k].seen]
  /\ highest' = [highest EXCEPT ![c] = Larger(@, clerk[k].amount)]
  /\ Finish(k, {"limit"})
  /\ UNCHANGED <<stored, owed, raced>>
(* SQLAlchemy writes the columns that were set and no other.               *)
CommitLimit(k) ==
  LET c == clerk[k].customer IN
  /\ clerk[k].at = "commit" /\ clerk[k].op = "limit"
  /\ limit' = [limit EXCEPT ![c] = clerk[k].amount]
  /\ highest' = [highest EXCEPT ![c] = Larger(@, clerk[k].amount)]
  /\ Finish(k, {"limit"})
  /\ UNCHANGED <<stored, balance, owed, raced>>

(* adjust_credit and pay_credit of the repository.                         *)
NewBalance(k) == IF clerk[k].op = "add" THEN clerk[k].seen + clerk[k].amount
                 ELSE Larger(0, clerk[k].seen - clerk[k].amount)

CommitBalance(k) ==
  LET c == clerk[k].customer IN
  /\ clerk[k].at = "commit" /\ clerk[k].op \in {"add", "pay"}
  /\ balance' = [balance EXCEPT ![c] = NewBalance(k)]
  /\ owed' = [owed EXCEPT ![c] = IF clerk[k].op = "add" THEN @ + clerk[k].amount
                                 ELSE @ - clerk[k].amount]
  /\ raced' = IF "balance" \in clerk[k].stale THEN raced \cup {c} ELSE raced
  /\ Finish(k, {"balance"})
  /\ UNCHANGED <<stored, limit, highest>>

(* A restart, or a lost connection: the transaction is rolled back.        *)
Lose(k) ==
  /\ clerk[k].at = "commit"
  /\ Answer(k, "lost")

CreditNext ==
  \E k \in Clerks :
    \/ \E c \in Customers :
         \/ NotFound(k, c) \/ StartNullLimit(k, c)
         \/ \E l \in Limits : StartCreate(k, c, l) \/ StartUpdate(k, c, l)
         \/ \E a \in CreditAmounts : StartAdd(k, c, a) \/ StartPay(k, c, a)
    \/ CommitCreate(k) \/ CommitLimit(k) \/ CommitBalance(k) \/ Lose(k)

CreditSpec == CreditInit /\ [][CreditNext]_creditVars
----------------------------------------------------------------------------
CreditTypeOK ==
  /\ stored \subseteq Customers /\ raced \subseteq Customers
  /\ limit \in [Customers -> Int] /\ balance \in [Customers -> Int]
  /\ owed \in [Customers -> Int] /\ highest \in [Customers -> Int]
  /\ clerk \in [Clerks -> [at : {"new", "commit", "done", "refused", "failed", "lost"},
                           op : {"none", "create", "limit", "add", "pay"},
                           customer : Customers, amount : Int, seen : Int,
                           stale : SUBSET {"limit", "balance"}]]

(* The balance on file is never negative and never above the highest limit *)
(* the customer ever had, whatever interleaves: adjust_credit and          *)
(* pay_credit (crm/repository.py:44-53) write values computed from rows    *)
(* that may be stale, after checks on those same rows.                     *)
BalanceWithinLimits ==
  \A c \in Customers : 0 <= balance[c] /\ balance[c] <= highest[c]

(* Unless two requests wrote one balance at once, it is the credit granted *)
(* less the credit paid: editing the customer meanwhile                    *)
(* (crm/router.py:68-85) never touches it.                                 *)
BalanceIsOwed == \A c \in Customers \ raced : balance[c] = owed[c]

(* Credit is only granted within the limit then in force, even on a stale  *)
(* balance: only a limit edited under the request is overlooked            *)
(* (crm/repository.py:45-47).                                              *)
CreditIsCovered ==
  [][\A k \in Clerks : \A c \in Customers :
       /\ clerk[k].op = "add" /\ clerk'[k].at = "done" /\ clerk[k].customer = c
       => balance'[c] <= limit[c] \/ "limit" \in clerk[k].stale]_creditVars

(* The credit book (crm/repository.py:44-53, crm/router.py:68-85): stale   *)
(* checks lose a change of the balance only to a race, and even then leave *)
(* it between nothing and the highest limit.                               *)
BalancesAreKept == BalanceWithinLimits /\ BalanceIsOwed
=============================================================================
