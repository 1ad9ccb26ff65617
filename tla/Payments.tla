------------------------------ MODULE Payments ------------------------------
(***************************************************************************)
(* M-Pesa payments: POST /payments/mpesa/stk-push, /mpesa/callback and     *)
(* /mpesa/query/{id}, between Safaricom's Daraja API, which asks the       *)
(* customer and calls back any number of times in any order or never, and  *)
(* the payments table.                                                     *)
(*                                                                         *)
(* Daraja is awaited in the middle of a request and answers with what it   *)
(* knows at that moment; the row is read later, changed in the session,    *)
(* and written by a flush or by the commit after the response.  SQLAlchemy *)
(* writes only the columns whose value differs from the one it loaded, and *)
(* a row that was written stays locked until its transaction ends.         *)
(***************************************************************************)
EXTENDS Integers, FiniteSets

CONSTANTS
  Requests,      \* each is handled once; Daraja names a checkout by its push
  MockCheckout,  \* the checkout id of every push in mock mode
  NoCheckout,    \* the reference "" of a push that Daraja refused
  Amounts,       \* in KES
  Metadata,      \* how a successful callback may describe the payment
  Modes,         \* is MPESA_CONSUMER_KEY missing? settled when the process starts
  MaxRestarts

ASSUME IdAssumption ==
  /\ MockCheckout \notin Requests /\ NoCheckout \notin Requests
  /\ MockCheckout # NoCheckout
ASSUME InputAssumption ==
  /\ Amounts \subseteq Int
  /\ Metadata \subseteq {"receipt", "none", "unreadable"}
  /\ Modes \subseteq BOOLEAN /\ MaxRestarts \in Nat

VARIABLES
  mock,        \* MpesaClient.is_mock
  checkouts,   \* Daraja: what became of each checkout
  callbacks,   \* Daraja's calls, never removed: delivered twice, late or never
  payments,    \* committed rows
  step, op,
  answer,      \* what Daraja answered the request
  target,      \* the payment a callback or a query loaded
  loaded, row, \* its columns as loaded, and as changed in the session
  announced,   \* payments for which PAYMENT_COMPLETED was published
  restarts,
  early        \* history: checkouts queried while the customer had not decided

session == <<step, op, answer, target, loaded, row>>
paymentVars == <<mock, checkouts, callbacks, payments, step, op, answer, target, loaded, row,
          announced, restarts, early>>

None == [kind |-> "none"]
NoColumns == [status |-> "none", receipt |-> NoCheckout]
NoPayment == [reference |-> NoCheckout, amount |-> 0, columns |-> NoColumns]

Ended == {"done", "refused", "failed", "lost"}
Proceed(r, label) == step' = [step EXCEPT ![r] = label]

PaymentsInit ==
  /\ mock \in Modes
  /\ checkouts = [c \in Requests |-> "none"]
  (* in mock mode a developer posts the callback (tests/test_payments.py)  *)
  /\ callbacks = IF mock THEN [checkout : {MockCheckout}, paid : {TRUE}, metadata : Metadata]
                         ELSE {}
  /\ payments = [i \in Requests |-> NoPayment]
  /\ step = [r \in Requests |-> "new"]
  /\ op = [r \in Requests |-> None]
  /\ answer = [r \in Requests |-> "none"]
  /\ target = [r \in Requests |-> r]
  /\ loaded = [r \in Requests |-> NoColumns]
  /\ row = loaded
  /\ announced = {}
  /\ restarts = 0
  /\ early = {}
----------------------------------------------------------------------------
(* initiate_stk_push, 32-35: the amount is checked and Daraja is asked; in *)
(* mock mode stk_push returns at once.                                     *)
StartPush(r, amount) ==
  /\ step[r] = "new"
  /\ op' = [op EXCEPT ![r] = [kind |-> "push", amount |-> amount]]
  /\ answer' = [answer EXCEPT ![r] = IF mock THEN "0" ELSE @]
  /\ Proceed(r, CASE amount < 1 -> "refused" [] mock -> "commit" [] OTHER -> "daraja")
  /\ UNCHANGED <<mock, checkouts, callbacks, payments, target, loaded, row, announced,
                 restarts, early>>

(* Daraja opens a checkout on the customer's phone, or refuses to.         *)
DarajaAnswersPush(r) ==
  /\ step[r] = "daraja" /\ op[r].kind = "push"
  /\ \/ /\ checkouts' = [checkouts EXCEPT ![r] = "pending"]
        /\ answer' = [answer EXCEPT ![r] = "0"]
     \/ /\ answer' = [answer EXCEPT ![r] = "other"]
        /\ UNCHANGED checkouts
  /\ Proceed(r, "commit")
  /\ UNCHANGED <<mock, callbacks, payments, op, target, loaded, row, announced,
                 restarts, early>>

(* httpx gives up: the request fails and is rolled back, whether or not    *)
(* Daraja had opened the checkout.                                         *)
DarajaSilent(r) ==
  /\ step[r] = "daraja"
  /\ \/ op[r].kind = "push" /\ checkouts' = [checkouts EXCEPT ![r] = "pending"]
     \/ UNCHANGED checkouts
  /\ Proceed(r, "failed")
  /\ UNCHANGED <<mock, callbacks, payments, op, answer, target, loaded, row, announced,
                 restarts, early>>

(* 39-45: the row, inserted by a flush, visible with get_db's commit.      *)
Reference(r) == CASE answer[r] # "0" -> NoCheckout [] mock -> MockCheckout [] OTHER -> r
NewPayment(r) ==
  [reference |-> Reference(r), amount |-> 100 * op[r].amount,
   columns |-> [status |-> IF answer[r] = "0" THEN "pending" ELSE "failed",
                receipt |-> NoCheckout]]

CommitPush(r) ==
  /\ step[r] = "commit" /\ op[r].kind = "push"
  /\ payments' = [payments EXCEPT ![r] = NewPayment(r)]
  /\ Proceed(r, "done")
  /\ UNCHANGED <<mock, checkouts, callbacks, op, answer, target, loaded, row, announced,
                 restarts, early>>
----------------------------------------------------------------------------
(* The customer's answer, and what Daraja then has to say about it.        *)
Pays(c) ==
  /\ checkouts[c] = "pending"
  /\ checkouts' = [checkouts EXCEPT ![c] = "paid"]
  /\ callbacks' = callbacks \cup [checkout : {c}, paid : {TRUE}, metadata : Metadata]
  /\ UNCHANGED <<mock, payments, session, announced, restarts, early>>

Declines(c) ==
  /\ checkouts[c] = "pending"
  /\ checkouts' = [checkouts EXCEPT ![c] = "declined"]
  /\ callbacks' = callbacks \cup [checkout : {c}, paid : {FALSE}, metadata : {"none"}]
  /\ UNCHANGED <<mock, payments, session, announced, restarts, early>>

(* get_by_reference: the committed rows scalar_one_or_none chooses from.   *)
ByReference(c) == {i \in Requests : payments[i] # NoPayment /\ payments[i].reference = c}

(* Faulty: an empty receipt replaces the stored one.                       *)
ReceiptReplaced(call, old) ==
  IF call.metadata = "receipt" THEN call.checkout ELSE NoCheckout
(* 86: the receipt of the call, or the one already there.                  *)
Receipt(call, old) == IF call.metadata = "receipt" THEN call.checkout ELSE old

(* 66, 70-72, 107: an unknown or ambiguous checkout, or metadata that does *)
(* not parse, changes nothing and is accepted all the same.                *)
CallbackIgnored(r, call) ==
  /\ step[r] = "new"
  /\ \/ Cardinality(ByReference(call.checkout)) # 1
     \/ call.paid /\ call.metadata = "unreadable"
  /\ op' = [op EXCEPT ![r] = [kind |-> "ignored"]]
  /\ Proceed(r, "done")
  /\ UNCHANGED <<mock, checkouts, callbacks, payments, answer, target, loaded, row,
                 announced, restarts, early>>

(* Faulty: the payment fails when the call has no receipt.                 *)
OutcomeOfReceipt(call) ==
  IF call.paid /\ call.metadata = "receipt" THEN "completed" ELSE "failed"
(* Faulty: a status no other code knows.                                   *)
OutcomeMisspelt(call) == IF call.paid THEN "complete" ELSE "failed"
OutcomeOf(call) == IF call.paid THEN "completed" ELSE "failed"

(* Faulty: the error of line 90 is not caught, get_db rolls back.          *)
CallbackPropagates(r, call) ==
  /\ step[r] = "new"
  /\ ~(call.paid /\ call.metadata = "unreadable")
  /\ \E i \in ByReference(call.checkout) :
       /\ Cardinality(ByReference(call.checkout)) = 1
       /\ target' = [target EXCEPT ![r] = i]
       /\ loaded' = [loaded EXCEPT ![r] = payments[i].columns]
       /\ row' = [row EXCEPT ![r] =
            IF call.paid THEN payments[i].columns
            ELSE [payments[i].columns EXCEPT !.status = OutcomeOf(call)]]
  /\ op' = [op EXCEPT ![r] = [kind |-> "callback", call |-> call]]
  /\ Proceed(r, IF call.paid THEN "commit" ELSE "flush")
  /\ UNCHANGED <<mock, checkouts, callbacks, payments, answer, announced, restarts, early>>

(* 70-104: the row is read and changed.  A successful call then fails at   *)
(* line 90, Payment having no business_id: the error is swallowed by 107,  *)
(* PAYMENT_COMPLETED is not published, the sale is not marked, and get_db  *)
(* commits what lines 85-86 changed.                                       *)
CallbackFound(r, call) ==
  /\ step[r] = "new"
  /\ ~(call.paid /\ call.metadata = "unreadable")
  /\ \E i \in ByReference(call.checkout) :
       /\ Cardinality(ByReference(call.checkout)) = 1
       /\ target' = [target EXCEPT ![r] = i]
       /\ loaded' = [loaded EXCEPT ![r] = payments[i].columns]
       /\ row' = [row EXCEPT ![r] =
            [status |-> OutcomeOf(call),
             receipt |-> IF call.paid THEN Receipt(call, payments[i].columns.receipt)
                                      ELSE payments[i].columns.receipt]]
  /\ op' = [op EXCEPT ![r] = [kind |-> "callback", call |-> call]]
  /\ Proceed(r, IF call.paid THEN "commit" ELSE "flush")
  /\ UNCHANGED <<mock, checkouts, callbacks, payments, answer, announced, restarts, early>>
----------------------------------------------------------------------------
(* query_payment_status, 119: Daraja is asked first; a mock always says 0. *)
StartQuery(r, c) ==
  /\ step[r] = "new"
  /\ IF mock THEN c = MockCheckout ELSE c \in Requests /\ checkouts[c] # "none"
  /\ op' = [op EXCEPT ![r] = [kind |-> "query", checkout |-> c]]
  /\ answer' = [answer EXCEPT ![r] = IF mock THEN "0" ELSE @]
  /\ Proceed(r, IF mock THEN "read" ELSE "daraja")
  /\ UNCHANGED <<mock, checkouts, callbacks, payments, target, loaded, row, announced,
                 restarts, early>>

(* "0" once the customer has paid, anything else before and otherwise.     *)
DarajaAnswersQuery(r) ==
  LET c == op[r].checkout
  IN  /\ step[r] = "daraja" /\ op[r].kind = "query"
      /\ answer' = [answer EXCEPT ![r] = IF checkouts[c] = "paid" THEN "0" ELSE "other"]
      /\ early' = IF checkouts[c] = "pending" THEN early \cup {c} ELSE early
      /\ Proceed(r, "read")
      /\ UNCHANGED <<mock, checkouts, callbacks, payments, op, target, loaded, row,
                     announced, restarts>>

(* 120-125: the row is read, and set to what Daraja answered before.       *)
ReadPayment(r) ==
  /\ step[r] = "read" /\ Cardinality(ByReference(op[r].checkout)) = 1
  /\ \E i \in ByReference(op[r].checkout) :
       /\ target' = [target EXCEPT ![r] = i]
       /\ loaded' = [loaded EXCEPT ![r] = payments[i].columns]
       /\ row' = [row EXCEPT ![r] =
            [payments[i].columns EXCEPT !.status = IF answer[r] = "0" THEN "completed"
                                                                      ELSE "failed"]]
  /\ Proceed(r, "flush")
  /\ UNCHANGED <<mock, checkouts, callbacks, payments, op, answer, announced, restarts, early>>

(* 121: no such payment; or several, and scalar_one_or_none raises.        *)
PaymentNotFound(r) ==
  /\ step[r] = "read" /\ Cardinality(ByReference(op[r].checkout)) # 1
  /\ Proceed(r, IF ByReference(op[r].checkout) = {} THEN "done" ELSE "failed")
  /\ UNCHANGED <<mock, checkouts, callbacks, payments, op, answer, target, loaded, row,
                 announced, restarts, early>>
----------------------------------------------------------------------------
(* A flushed change locks its row until the transaction ends; a successful *)
(* callback flushes only as part of its commit.                            *)
Changed(r) == row[r] # loaded[r]
Flushes(r) == op[r].kind = "query" \/ (op[r].kind = "callback" /\ ~op[r].call.paid)
Holds(r, i) == step[r] = "commit" /\ Flushes(r) /\ Changed(r) /\ target[r] = i
Blocked(r) == Changed(r) /\ \E q \in Requests \ {r} : Holds(q, target[r])

Flush(r) ==
  /\ step[r] = "flush" /\ ~Blocked(r)
  /\ Proceed(r, "commit")
  /\ UNCHANGED <<mock, checkouts, callbacks, payments, op, answer, target, loaded, row,
                 announced, restarts, early>>

(* The UPDATE: the columns that differ from what the session loaded.       *)
Written(r) ==
  LET old == payments[target[r]].columns
  IN  [status |-> IF row[r].status = loaded[r].status THEN old.status ELSE row[r].status,
       receipt |-> IF row[r].receipt = loaded[r].receipt THEN old.receipt
                                                         ELSE row[r].receipt]

CommitChange(r) ==
  /\ step[r] = "commit" /\ op[r].kind \in {"callback", "query"}
  /\ Flushes(r) \/ ~Blocked(r)
  /\ payments' = [payments EXCEPT ![target[r]].columns = Written(r)]
  /\ Proceed(r, "done")
  /\ UNCHANGED <<mock, checkouts, callbacks, op, answer, target, loaded, row, announced,
                 restarts, early>>

(* The process dies and is restarted: what was not committed is gone.      *)
UnderWay == {r \in Requests : step[r] \notin Ended \cup {"new"}}
Restart ==
  /\ UnderWay # {} /\ restarts < MaxRestarts
  /\ restarts' = restarts + 1
  /\ step' = [r \in Requests |-> IF r \in UnderWay THEN "lost" ELSE step[r]]
  /\ UNCHANGED <<mock, checkouts, callbacks, payments, op, answer, target, loaded, row,
                 announced, early>>

Push(r) ==
  \/ \E amount \in Amounts : StartPush(r, amount)
  \/ DarajaAnswersPush(r) \/ DarajaSilent(r) \/ CommitPush(r)
Callback(r) == \E call \in callbacks : CallbackIgnored(r, call) \/ CallbackFound(r, call)
Query(r) ==
  \/ \E c \in Requests \cup {MockCheckout} : StartQuery(r, c)
  \/ DarajaAnswersQuery(r) \/ ReadPayment(r) \/ PaymentNotFound(r)

Idle == UnderWay = {} /\ UNCHANGED paymentVars
PaymentsNext ==
  \/ \E r \in Requests : Push(r) \/ Callback(r) \/ Query(r) \/ Flush(r) \/ CommitChange(r)
  \/ \E c \in Requests : Pays(c) \/ Declines(c)
  \/ Restart
  \/ Idle

PaymentsSpec == PaymentsInit /\ [][PaymentsNext]_paymentVars
----------------------------------------------------------------------------
Checkouts == Requests \cup {MockCheckout}
References == Checkouts \cup {NoCheckout}
CallbackKinds ==
  [checkout : Checkouts, paid : BOOLEAN, metadata : {"receipt", "none", "unreadable"}]
Columns == [status : {"none", "pending", "completed", "failed"}, receipt : References]
Ops == {None, [kind |-> "ignored"]} \cup [kind : {"push"}, amount : Amounts]
         \cup [kind : {"callback"}, call : CallbackKinds]
         \cup [kind : {"query"}, checkout : Checkouts]

(* Every variable holds a value of its kind.                               *)
PaymentsTypeOK ==
  /\ mock \in Modes
  /\ checkouts \in [Requests -> {"none", "pending", "paid", "declined"}]
  /\ callbacks \subseteq CallbackKinds
  /\ payments \in [Requests -> [reference : References, amount : Int, columns : Columns]]
  /\ step \in [Requests -> Ended \cup {"new", "daraja", "read", "flush", "commit"}]
  /\ op \in [Requests -> Ops]
  /\ answer \in [Requests -> {"none", "0", "other"}]
  /\ target \in [Requests -> Requests]
  /\ loaded \in [Requests -> Columns] /\ row \in [Requests -> Columns]
  /\ announced \subseteq Requests
  /\ restarts \in 0..MaxRestarts
  /\ early \subseteq Requests

(* The payment of an accepted push is, from its commit on, the one payment *)
(* its checkout id finds: no callback moves the reference                  *)
(* (tests/test_payments.py:111).                                           *)
FoundByCheckout(r) ==
  (op[r].kind = "push" /\ step[r] = "done" /\ answer[r] = "0") =>
    ByReference(Reference(r)) = {r}
LivePaymentsAreFound == \A r \in Requests : ~mock => FoundByCheckout(r)

(* A stored outcome is the one Daraja settled on, whatever calls were      *)
(* repeated, reordered or lost and whatever queries ran beside them,       *)
(* unless a query was answered while the customer had yet to decide:       *)
(* line 124 takes "still processing" for a failure.                        *)
OutcomeIsDarajas ==
  \A i \in Requests :
    LET payment == payments[i] IN
    (~mock /\ payment.reference \in Requests \ early) =>
      /\ payment.columns.status = "completed" => checkouts[payment.reference] = "paid"
      /\ payment.columns.status = "failed" => checkouts[payment.reference] = "declined"

(* What an accepted callback said of a payment it found is stored by the   *)
(* time its transaction ends, and stays, although the handler always fails *)
(* after a successful one and swallows the error (router.py 85-90, 107).   *)
CallbackIsApplied ==
  \A r \in Requests :
    (op[r].kind = "callback" /\ step[r] = "done") =>
      LET call == op[r].call
          columns == payments[target[r]].columns
      IN  /\ call.metadata = "receipt" => columns.receipt = call.checkout
          /\ call.checkout \notin early => columns.status = OutcomeOf(call)

(* A stored receipt is never lost or replaced: neither by a call without   *)
(* one that read the row before, nor by a query (router.py 86).            *)
ReceiptIsKept ==
  [][\A i \in Requests :
       payments[i].columns.receipt # NoCheckout =>
         payments'[i].columns.receipt = payments[i].columns.receipt]_paymentVars

(* A payment a callback completed was announced: milestones.md:68 "notify  *)
(* on PaymentReceived" "on_payment_completed->payment_received".           *)
CompletionIsAnnounced ==
  \A r \in Requests :
    (op[r].kind = "callback" /\ step[r] = "done" /\ op[r].call.paid) =>
      target[r] \in announced
=============================================================================
