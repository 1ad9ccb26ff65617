--------------------------- MODULE PaymentsProofs ---------------------------
(***************************************************************************)
(* What holds of Payments for every set of requests and every order and    *)
(* number of Daraja's answers, callbacks and restarts.                     *)
(***************************************************************************)
EXTENDS Payments, TLAPS

(* Where a request is tells what it is.                                    *)
ControlOf(r) ==
  /\ step[r] = "new" <=> op[r].kind = "none"
  /\ step[r] = "daraja" => op[r].kind \in {"push", "query"}
  /\ (step[r] = "daraja" /\ op[r].kind = "query") => op[r].checkout \in Requests
  /\ step[r] = "read" => op[r].kind = "query"
  /\ step[r] = "flush" => op[r].kind \in {"callback", "query"}
  /\ step[r] = "commit" => op[r].kind \in {"push", "callback", "query"}

TypeInv == PaymentsTypeOK /\ \A r \in Requests : ControlOf(r)

(* The components of an operation, by its kind.                            *)
LEMMA OpFields ==
  ASSUME PaymentsTypeOK, NEW r \in Requests
  PROVE  /\ op[r].kind \in {"none", "ignored", "push", "callback", "query"}
         /\ op[r].kind = "push" => op[r].amount \in Amounts
         /\ op[r].kind = "callback" => op[r].call \in CallbackKinds
         /\ op[r].kind = "query" => op[r].checkout \in Checkouts
<1>1. op[r] \in Ops
  BY DEF PaymentsTypeOK
<1>2. CASE op[r] \in {None, [kind |-> "ignored"]}
  BY <1>2 DEF None
<1>3. CASE op[r] \in [kind : {"push"}, amount : Amounts]
  BY <1>3
<1>4. CASE op[r] \in [kind : {"callback"}, call : CallbackKinds]
  BY <1>4
<1>5. CASE op[r] \in [kind : {"query"}, checkout : Checkouts]
  BY <1>5
<1> QED
  BY <1>1, <1>2, <1>3, <1>4, <1>5 DEF Ops

LEMMA InitType == PaymentsInit => TypeInv
<1> SUFFICES ASSUME PaymentsInit PROVE TypeInv
  OBVIOUS
<1>1. callbacks \subseteq CallbackKinds
  BY InputAssumption DEF PaymentsInit, CallbackKinds, Checkouts
<1>2. payments \in [Requests -> [reference : References, amount : Int, columns : Columns]]
  BY DEF PaymentsInit, NoPayment, NoColumns, References, Columns
<1>3. loaded \in [Requests -> Columns] /\ row \in [Requests -> Columns]
  BY DEF PaymentsInit, NoColumns, References, Columns
<1>4. op \in [Requests -> Ops]
  BY DEF PaymentsInit, Ops
<1>5. /\ mock \in Modes /\ announced \subseteq Requests /\ early \subseteq Requests
      /\ restarts \in 0..MaxRestarts
  BY InputAssumption DEF PaymentsInit
<1>6. /\ step \in [Requests -> Ended \cup {"new", "daraja", "read", "flush", "commit"}]
      /\ answer \in [Requests -> {"none", "0", "other"}]
      /\ target \in [Requests -> Requests]
      /\ checkouts \in [Requests -> {"none", "pending", "paid", "declined"}]
  BY DEF PaymentsInit
<1>7. PaymentsTypeOK
  BY <1>1, <1>2, <1>3, <1>4, <1>5, <1>6 DEF PaymentsTypeOK
<1> QED
  BY <1>7 DEF PaymentsInit, TypeInv, ControlOf, None, Ended

LEMMA PushType ==
  ASSUME TypeInv, NEW r \in Requests, NEW amount \in Amounts, StartPush(r, amount)
  PROVE  TypeInv'
<1>1. op' \in [Requests -> Ops]
  BY DEF StartPush, TypeInv, PaymentsTypeOK, Ops
<1>2. PaymentsTypeOK'
  BY <1>1 DEF StartPush, TypeInv, PaymentsTypeOK, Proceed, Ended
<1> QED
  BY <1>2 DEF StartPush, TypeInv, PaymentsTypeOK, Proceed, ControlOf, Ended

LEMMA DarajaType ==
  ASSUME TypeInv, NEW r \in Requests,
         DarajaAnswersPush(r) \/ DarajaSilent(r) \/ DarajaAnswersQuery(r)
  PROVE  TypeInv'
<1>1. CASE DarajaAnswersPush(r) \/ DarajaSilent(r)
  <2>1. PaymentsTypeOK'
    BY <1>1 DEF DarajaAnswersPush, DarajaSilent, TypeInv, PaymentsTypeOK, Proceed, Ended
  <2> QED
    BY <1>1, <2>1 DEF DarajaAnswersPush, DarajaSilent, TypeInv, PaymentsTypeOK, Proceed, ControlOf, Ended
<1>2. CASE DarajaAnswersQuery(r)
  <2>1. op[r].checkout \in Requests
    BY <1>2 DEF DarajaAnswersQuery, TypeInv, ControlOf
  <2>2. early' \subseteq Requests
    <3>1. early' = early \/ early' = early \cup {op[r].checkout}
      BY <1>2 DEF DarajaAnswersQuery
    <3>2. early \subseteq Requests
      BY DEF TypeInv, PaymentsTypeOK
    <3> QED
      BY <2>1, <3>1, <3>2
  <2>3. PaymentsTypeOK'
    BY <1>2, <2>2 DEF DarajaAnswersQuery, TypeInv, PaymentsTypeOK, Proceed, Ended
  <2> QED
    BY <1>2, <2>3 DEF DarajaAnswersQuery, TypeInv, PaymentsTypeOK, Proceed, ControlOf, Ended
<1> QED
  BY <1>1, <1>2

LEMMA CommitPushType ==
  ASSUME TypeInv, NEW r \in Requests, CommitPush(r)
  PROVE  TypeInv'
<1>1. op[r].kind = "push" /\ op[r].amount \in Int
  BY OpFields, InputAssumption DEF CommitPush, TypeInv
<1>2. NewPayment(r) \in [reference : References, amount : Int, columns : Columns]
  BY <1>1 DEF NewPayment, Reference, References, Checkouts, Columns
<1>3. payments' \in [Requests -> [reference : References, amount : Int, columns : Columns]]
  BY <1>2 DEF CommitPush, TypeInv, PaymentsTypeOK
<1>4. PaymentsTypeOK'
  BY <1>3 DEF CommitPush, TypeInv, PaymentsTypeOK, Proceed, Ended
<1> QED
  BY <1>4 DEF CommitPush, TypeInv, PaymentsTypeOK, Proceed, ControlOf, Ended

LEMMA CustomerType ==
  ASSUME TypeInv, NEW c \in Requests, Pays(c) \/ Declines(c)
  PROVE  TypeInv'
<1>1. callbacks' \subseteq CallbackKinds
  <2>1. /\ [checkout : {c}, paid : {TRUE}, metadata : Metadata] \subseteq CallbackKinds
        /\ [checkout : {c}, paid : {FALSE}, metadata : {"none"}] \subseteq CallbackKinds
    BY InputAssumption DEF CallbackKinds, Checkouts
  <2>2. callbacks \subseteq CallbackKinds
    BY DEF TypeInv, PaymentsTypeOK
  <2> QED
    BY <2>1, <2>2 DEF Pays, Declines
<1>2. PaymentsTypeOK'
  BY <1>1 DEF Pays, Declines, session, TypeInv, PaymentsTypeOK
<1> QED
  BY <1>2 DEF Pays, Declines, session, TypeInv, ControlOf

LEMMA CallbackType ==
  ASSUME TypeInv, NEW r \in Requests, NEW call \in callbacks,
         CallbackIgnored(r, call) \/ CallbackFound(r, call)
  PROVE  TypeInv'
<1>1. call \in CallbackKinds
  BY DEF TypeInv, PaymentsTypeOK
<1>2. CASE CallbackIgnored(r, call)
  <2>1. op' \in [Requests -> Ops]
    BY <1>2 DEF CallbackIgnored, TypeInv, PaymentsTypeOK, Ops
  <2>2. PaymentsTypeOK'
    BY <1>2, <2>1 DEF CallbackIgnored, TypeInv, PaymentsTypeOK, Proceed, Ended
  <2> QED
    BY <1>2, <2>2 DEF CallbackIgnored, TypeInv, PaymentsTypeOK, Proceed, ControlOf, Ended
<1>3. CASE CallbackFound(r, call)
  <2>1. op' \in [Requests -> Ops]
    BY <1>1, <1>3 DEF CallbackFound, TypeInv, PaymentsTypeOK, Ops
  <2>2. PICK i \in Requests :
          /\ target' = [target EXCEPT ![r] = i]
          /\ loaded' = [loaded EXCEPT ![r] = payments[i].columns]
          /\ row' = [row EXCEPT ![r] =
               [status |-> OutcomeOf(call),
                receipt |-> IF call.paid THEN Receipt(call, payments[i].columns.receipt)
                                         ELSE payments[i].columns.receipt]]
    BY <1>3 DEF CallbackFound, ByReference
  <2>3. payments[i].columns \in Columns
    BY DEF TypeInv, PaymentsTypeOK
  <2>4. call.checkout \in References
    BY <1>1 DEF CallbackKinds, References
  <2>5. loaded' \in [Requests -> Columns] /\ target' \in [Requests -> Requests]
    BY <2>2, <2>3 DEF TypeInv, PaymentsTypeOK
  <2>6. [status |-> OutcomeOf(call),
         receipt |-> IF call.paid THEN Receipt(call, payments[i].columns.receipt)
                                  ELSE payments[i].columns.receipt] \in Columns
    BY <2>3, <2>4 DEF Columns, OutcomeOf, Receipt, References
  <2>7. row' \in [Requests -> Columns]
    BY <2>2, <2>6 DEF TypeInv, PaymentsTypeOK
  <2>8. PaymentsTypeOK'
    BY <1>3, <2>1, <2>5, <2>7 DEF CallbackFound, TypeInv, PaymentsTypeOK, Proceed, Ended
  <2> QED
    BY <1>3, <2>8 DEF CallbackFound, TypeInv, PaymentsTypeOK, Proceed, ControlOf, Ended
<1> QED
  BY <1>2, <1>3

LEMMA StartQueryType ==
  ASSUME TypeInv, NEW r \in Requests, NEW c \in Requests \cup {MockCheckout}, StartQuery(r, c)
  PROVE  TypeInv'
<1>1. op' \in [Requests -> Ops]
  BY DEF StartQuery, TypeInv, PaymentsTypeOK, Ops, Checkouts
<1>2. PaymentsTypeOK'
  BY <1>1 DEF StartQuery, TypeInv, PaymentsTypeOK, Proceed, Ended
<1> QED
  BY <1>2 DEF StartQuery, TypeInv, PaymentsTypeOK, Proceed, ControlOf, Ended

LEMMA ReadType ==
  ASSUME TypeInv, NEW r \in Requests, ReadPayment(r) \/ PaymentNotFound(r)
  PROVE  TypeInv'
<1>1. CASE ReadPayment(r)
  <2>1. PICK i \in Requests :
          /\ target' = [target EXCEPT ![r] = i]
          /\ loaded' = [loaded EXCEPT ![r] = payments[i].columns]
          /\ row' = [row EXCEPT ![r] =
               [payments[i].columns EXCEPT !.status = IF answer[r] = "0" THEN "completed"
                                                                         ELSE "failed"]]
    BY <1>1 DEF ReadPayment, ByReference
  <2>2. payments[i].columns \in Columns
    BY DEF TypeInv, PaymentsTypeOK
  <2>3. /\ loaded' \in [Requests -> Columns] /\ target' \in [Requests -> Requests]
        /\ row' \in [Requests -> Columns]
    BY <2>1, <2>2 DEF TypeInv, PaymentsTypeOK, Columns
  <2>4. PaymentsTypeOK'
    BY <1>1, <2>3 DEF ReadPayment, TypeInv, PaymentsTypeOK, Proceed, Ended
  <2> QED
    BY <1>1, <2>4 DEF ReadPayment, TypeInv, PaymentsTypeOK, Proceed, ControlOf, Ended
<1>2. CASE PaymentNotFound(r)
  <2>1. PaymentsTypeOK'
    BY <1>2 DEF PaymentNotFound, TypeInv, PaymentsTypeOK, Proceed, Ended
  <2> QED
    BY <1>2, <2>1 DEF PaymentNotFound, TypeInv, PaymentsTypeOK, Proceed, ControlOf, Ended
<1> QED
  BY <1>1, <1>2

LEMMA FlushType == ASSUME TypeInv, NEW r \in Requests, Flush(r) PROVE TypeInv'
BY DEF Flush, TypeInv, PaymentsTypeOK, Proceed, ControlOf, Ended

LEMMA CommitChangeType ==
  ASSUME TypeInv, NEW r \in Requests, CommitChange(r)
  PROVE  TypeInv'
<1>1. Written(r) \in Columns
  BY DEF TypeInv, PaymentsTypeOK, Written, Columns
<1>2. payments' \in [Requests -> [reference : References, amount : Int, columns : Columns]]
  BY <1>1 DEF CommitChange, TypeInv, PaymentsTypeOK
<1>3. PaymentsTypeOK'
  BY <1>2 DEF CommitChange, TypeInv, PaymentsTypeOK, Proceed, Ended
<1> QED
  BY <1>3 DEF CommitChange, TypeInv, PaymentsTypeOK, Proceed, ControlOf, Ended

LEMMA CrashType == ASSUME TypeInv, Restart PROVE TypeInv'
<1>1. PaymentsTypeOK'
  BY InputAssumption DEF Restart, TypeInv, PaymentsTypeOK, Ended
<1> QED
  BY <1>1 DEF Restart, TypeInv, PaymentsTypeOK, ControlOf, UnderWay, Ended

LEMMA TypeStep == TypeInv /\ [PaymentsNext]_paymentVars => TypeInv'
<1> SUFFICES ASSUME TypeInv, [PaymentsNext]_paymentVars PROVE TypeInv'
  OBVIOUS
<1>1. ASSUME NEW r \in Requests, Push(r) PROVE TypeInv'
  BY <1>1, PushType, DarajaType, CommitPushType DEF Push
<1>2. ASSUME NEW r \in Requests, Callback(r) PROVE TypeInv'
  BY <1>2, CallbackType DEF Callback
<1>3. ASSUME NEW r \in Requests, Query(r) PROVE TypeInv'
  BY <1>3, StartQueryType, DarajaType, ReadType DEF Query
<1>4. ASSUME NEW r \in Requests, Flush(r) \/ CommitChange(r) PROVE TypeInv'
  BY <1>4, FlushType, CommitChangeType
<1>5. ASSUME NEW c \in Requests, Pays(c) \/ Declines(c) PROVE TypeInv'
  BY <1>5, CustomerType
<1>6. CASE Restart
  BY <1>6, CrashType
<1>7. CASE UNCHANGED paymentVars
  BY <1>7 DEF paymentVars, TypeInv, PaymentsTypeOK, ControlOf
<1> QED
  BY <1>1, <1>2, <1>3, <1>4, <1>5, <1>6, <1>7 DEF PaymentsNext, Idle

(* The rows, Daraja's side and the sessions keep to their types.           *)
THEOREM TypeCorrect == PaymentsSpec => []PaymentsTypeOK
<1>1. PaymentsSpec => []TypeInv
  BY InitType, TypeStep, PTL DEF PaymentsSpec
<1> QED
  BY <1>1, PTL DEF TypeInv
----------------------------------------------------------------------------
(* What a call says is what Daraja settled, or the developer's word.       *)
Told(call) ==
  /\ ~call.paid => call.metadata # "receipt"
  /\ IF mock THEN call.checkout = MockCheckout /\ call.paid
     ELSE /\ call.checkout \in Requests
          /\ checkouts[call.checkout] = IF call.paid THEN "paid" ELSE "declined"

(* What a request heard, from a call or from Daraja's answer.              *)
HeardOf(r) ==
  /\ mock => step[r] # "daraja"
  /\ (mock \/ step[r] = "daraja" \/ op[r].kind # "push") => checkouts[r] = "none"
  /\ op[r].kind = "callback" => Told(op[r].call)
  /\ (step[r] = "daraja" /\ op[r].kind = "query") => checkouts[op[r].checkout] # "none"
  /\ (mock /\ op[r].kind \in {"push", "query"}) => answer[r] = "0"
  /\ (~mock /\ op[r].kind = "query" /\ step[r] \in {"read", "flush", "commit"}) =>
       /\ op[r].checkout \in Requests
       /\ answer[r] = "0" => checkouts[op[r].checkout] = "paid"
       /\ (answer[r] # "0" /\ op[r].checkout \notin early) =>
            checkouts[op[r].checkout] = "declined"

Heard == (\A call \in callbacks : Told(call)) /\ (\A r \in Requests : HeardOf(r))

(* A row is the row of a push that ended, under that push's checkout.      *)
Settled == {"completed", "failed"}
RowOf(i) ==
  /\ payments[i] # NoPayment => op[i].kind = "push" /\ step[i] = "done"
  /\ (op[i].kind = "push" /\ step[i] = "done") => payments[i].reference = Reference(i)
  /\ payments[i].columns.receipt \in {NoCheckout, payments[i].reference}
  /\ (mock /\ payments[i].reference = MockCheckout) => payments[i].columns.status # "failed"

(* What a request is about to write.                                       *)
CheckoutOf(r) == IF op[r].kind = "callback" THEN op[r].call.checkout ELSE op[r].checkout
Said(r) == IF op[r].kind = "callback" THEN OutcomeOf(op[r].call)
           ELSE IF answer[r] = "0" THEN "completed" ELSE "failed"
WorkOf(r) ==
  (step[r] \in {"flush", "commit"} /\ op[r].kind \in {"callback", "query"}) =>
    LET columns == payments[target[r]].columns IN
      /\ payments[target[r]].reference = CheckoutOf(r)
      /\ row[r].status = Said(r)
      /\ row[r].receipt \in {loaded[r].receipt, CheckoutOf(r)}
      /\ loaded[r].receipt # NoCheckout => columns.receipt = loaded[r].receipt
      /\ loaded[r].receipt \in {NoCheckout, CheckoutOf(r)}
      /\ (op[r].kind = "callback" /\ op[r].call.metadata = "receipt") =>
           row[r].receipt = op[r].call.checkout
      /\ loaded[r].status \in Settled => columns.status \in Settled

(* What a callback that ended has left behind.                             *)
AppliedOf(r) ==
  (op[r].kind = "callback" /\ step[r] = "done") =>
    /\ payments[target[r]].reference = op[r].call.checkout
    /\ payments[target[r]].columns.status \in Settled
    /\ op[r].call.metadata = "receipt" =>
         payments[target[r]].columns.receipt = op[r].call.checkout

Rows == \A r \in Requests : RowOf(r) /\ WorkOf(r) /\ AppliedOf(r)

LEMMA InitHeard == PaymentsInit => Heard
<1> SUFFICES ASSUME PaymentsInit PROVE Heard
  OBVIOUS
<1>1. ASSUME NEW r \in Requests PROVE HeardOf(r)
  BY DEF PaymentsInit, HeardOf, None
<1>2. ASSUME NEW call \in callbacks PROVE Told(call)
  <2>1. mock /\ call \in [checkout : {MockCheckout}, paid : {TRUE}, metadata : Metadata]
    BY DEF PaymentsInit
  <2> QED
    BY <2>1 DEF Told
<1> QED
  BY <1>1, <1>2 DEF Heard

(* What is settled stays settled, and a query that came early is known.    *)
Lasting ==
  /\ mock' = mock /\ early \subseteq early'
  /\ \A c \in Requests : /\ checkouts[c] \in {"paid", "declined"} => checkouts'[c] = checkouts[c]
                         /\ checkouts[c] # "none" => checkouts'[c] # "none"

LEMMA ToldLasts ==
  ASSUME Lasting, NEW call, Told(call) PROVE Told(call)'
BY DEF Lasting, Told

(* Another request hears nothing new, provided its own checkout is as it   *)
(* was.                                                                    *)
LEMMA OthersHeard ==
  ASSUME TypeInv, Heard, Lasting, NEW q \in Requests,
         step'[q] = step[q] \/ step'[q] = "lost", op'[q] = op[q], answer'[q] = answer[q],
         checkouts'[q] = checkouts[q] \/ checkouts[q] # "none"
  PROVE  HeardOf(q)'
<1>1. HeardOf(q) /\ ControlOf(q)
  BY DEF Heard, TypeInv
<1>2. op[q].kind = "callback" => Told(op[q].call)'
  BY <1>1, ToldLasts DEF HeardOf
<1>3. (step[q] = "daraja" /\ op[q].kind = "query") => op[q].checkout \in Requests
  BY <1>1 DEF ControlOf
<1> QED
  BY <1>1, <1>2, <1>3 DEF HeardOf, Lasting, Told

(* A push, a callback or a query at a step of its own.                     *)
LEMMA OwnHeard ==
  ASSUME TypeInv, Heard, NEW r \in Requests, Push(r) \/ Callback(r) \/ Query(r)
  PROVE  Lasting /\ HeardOf(r)'
<1>1. HeardOf(r) /\ ControlOf(r) /\ step[r] \in Ended \cup {"new", "daraja", "read", "flush", "commit"}
  BY DEF Heard, TypeInv, PaymentsTypeOK
<1>2. CASE \E amount \in Amounts : StartPush(r, amount)
  BY <1>1, <1>2 DEF StartPush, Proceed, Lasting, HeardOf, ControlOf, TypeInv, PaymentsTypeOK
<1>3. CASE DarajaAnswersPush(r)
  BY <1>1, <1>3 DEF DarajaAnswersPush, Proceed, Lasting, HeardOf, ControlOf, TypeInv, PaymentsTypeOK
<1>4. CASE DarajaSilent(r)
  BY <1>1, <1>4 DEF DarajaSilent, Proceed, Lasting, HeardOf, ControlOf, TypeInv, PaymentsTypeOK
<1>5. CASE CommitPush(r)
  BY <1>1, <1>5 DEF CommitPush, Proceed, Lasting, HeardOf, ControlOf, TypeInv, PaymentsTypeOK
<1>6. CASE Callback(r)
  <2>1. PICK call \in callbacks : CallbackIgnored(r, call) \/ CallbackFound(r, call)
    BY <1>6 DEF Callback
  <2>2. Told(call)
    BY DEF Heard
  <2> QED
    BY <1>1, <2>1, <2>2 DEF CallbackIgnored, CallbackFound, Proceed, Lasting, HeardOf, ControlOf, Told,
       TypeInv, PaymentsTypeOK
<1>7. CASE \E c \in Requests \cup {MockCheckout} : StartQuery(r, c)
  BY <1>1, <1>7 DEF StartQuery, Proceed, Lasting, HeardOf, ControlOf, TypeInv, PaymentsTypeOK
<1>8. CASE DarajaAnswersQuery(r)
  BY <1>1, <1>8 DEF DarajaAnswersQuery, Proceed, Lasting, HeardOf, ControlOf, TypeInv, PaymentsTypeOK
<1>9. CASE ReadPayment(r) \/ PaymentNotFound(r)
  BY <1>1, <1>9 DEF ReadPayment, PaymentNotFound, Proceed, Lasting, HeardOf, ControlOf, TypeInv, PaymentsTypeOK
<1> QED
  BY <1>2, <1>3, <1>4, <1>5, <1>6, <1>7, <1>8, <1>9 DEF Push, Query

(* What a step of r leaves alone elsewhere.                                *)
LEMMA Apart ==
  ASSUME TypeInv, NEW r \in Requests, NEW q \in Requests \ {r},
         Push(r) \/ Callback(r) \/ Query(r) \/ Flush(r) \/ CommitChange(r)
  PROVE  /\ step'[q] = step[q] /\ op'[q] = op[q] /\ answer'[q] = answer[q]
         /\ target'[q] = target[q] /\ loaded'[q] = loaded[q] /\ row'[q] = row[q]
         /\ checkouts'[q] = checkouts[q] /\ callbacks' = callbacks
<1>1. CASE Push(r)
  BY <1>1 DEF Push, StartPush, DarajaAnswersPush, DarajaSilent, CommitPush, Proceed, TypeInv, PaymentsTypeOK
<1>2. CASE Callback(r)
  BY <1>2 DEF Callback, CallbackIgnored, CallbackFound, Proceed, TypeInv, PaymentsTypeOK
<1>3. CASE Query(r)
  BY <1>3 DEF Query, StartQuery, DarajaAnswersQuery, ReadPayment, PaymentNotFound, Proceed,
     TypeInv, PaymentsTypeOK
<1>4. CASE Flush(r) \/ CommitChange(r)
  BY <1>4 DEF Flush, CommitChange, Proceed, TypeInv, PaymentsTypeOK
<1> QED
  BY <1>1, <1>2, <1>3, <1>4

LEMMA LastingStep == TypeInv /\ Heard /\ [PaymentsNext]_paymentVars => Lasting
<1> SUFFICES ASSUME TypeInv, Heard, [PaymentsNext]_paymentVars PROVE Lasting
  OBVIOUS
<1>1. ASSUME NEW r \in Requests, Push(r) \/ Callback(r) \/ Query(r) PROVE Lasting
  BY <1>1, OwnHeard
<1>2. ASSUME NEW r \in Requests, Flush(r) \/ CommitChange(r) PROVE Lasting
  BY <1>2 DEF Flush, CommitChange, Lasting
<1>3. ASSUME NEW c \in Requests, Pays(c) \/ Declines(c) PROVE Lasting
  BY <1>3 DEF Pays, Declines, Lasting, TypeInv, PaymentsTypeOK
<1>4. CASE Restart \/ UNCHANGED paymentVars
  BY <1>4 DEF Restart, Lasting, paymentVars
<1> QED
  BY <1>1, <1>2, <1>3, <1>4 DEF PaymentsNext, Idle

LEMMA HeardStep == TypeInv /\ Heard /\ [PaymentsNext]_paymentVars => Heard'
<1> SUFFICES ASSUME TypeInv, Heard, [PaymentsNext]_paymentVars PROVE Heard'
  OBVIOUS
<1>6. Lasting
  BY LastingStep
<1>1. ASSUME NEW r \in Requests, Push(r) \/ Callback(r) \/ Query(r) PROVE Heard'
  <2>1. HeardOf(r)'
    BY <1>1, OwnHeard
  <2>2. ASSUME NEW q \in Requests \ {r} PROVE HeardOf(q)'
    BY <1>1, <1>6, Apart, OthersHeard
  <2>3. callbacks' = callbacks
    BY <1>1 DEF Push, Callback, Query, StartPush, DarajaAnswersPush, DarajaSilent, CommitPush,
       CallbackIgnored, CallbackFound, StartQuery, DarajaAnswersQuery, ReadPayment, PaymentNotFound
  <2>4. \A call \in callbacks' : Told(call)'
    BY <1>6, <2>3, ToldLasts DEF Heard
  <2> QED
    BY <2>1, <2>2, <2>4 DEF Heard
<1>2. ASSUME NEW r \in Requests, Flush(r) \/ CommitChange(r) PROVE Heard'
  <2>1. HeardOf(r) /\ step[r] \in {"flush", "commit"} /\ ControlOf(r)
    BY <1>2 DEF Heard, TypeInv, Flush, CommitChange
  <2>2. mock' = mock /\ checkouts' = checkouts /\ early' = early /\ callbacks' = callbacks
    BY <1>2 DEF Flush, CommitChange
  <2>3. HeardOf(r)'
    BY <1>2, <2>1, <2>2 DEF Flush, CommitChange, Proceed, HeardOf, Told, TypeInv, PaymentsTypeOK
  <2>4. ASSUME NEW q \in Requests \ {r} PROVE HeardOf(q)'
    BY <1>2, <1>6, Apart, OthersHeard
  <2> QED
    BY <1>6, <2>2, <2>3, <2>4, ToldLasts DEF Heard
<1>3. ASSUME NEW c \in Requests, Pays(c) \/ Declines(c) PROVE Heard'
  <2>1. checkouts[c] = "pending"
    BY <1>3 DEF Pays, Declines
  <2>2. ASSUME NEW q \in Requests PROVE HeardOf(q)'
    BY <1>3, <1>6, <2>1, OthersHeard DEF Pays, Declines, session, TypeInv, PaymentsTypeOK
  <2>3. ~mock
    BY <2>1 DEF Heard, HeardOf
  <2>4. ASSUME NEW call \in callbacks' PROVE Told(call)'
    <3>1. CASE call \in callbacks
      BY <1>6, <3>1, ToldLasts DEF Heard
    <3>2. CASE call \notin callbacks
      <4>1. CASE Pays(c)
        <5>1. call \in [checkout : {c}, paid : {TRUE}, metadata : Metadata]
          BY <3>2, <4>1 DEF Pays
        <5> QED
          BY <2>3, <4>1, <5>1 DEF Pays, Told, TypeInv, PaymentsTypeOK
      <4>2. CASE Declines(c)
        <5>1. call \in [checkout : {c}, paid : {FALSE}, metadata : {"none"}]
          BY <3>2, <4>2 DEF Declines
        <5>2. call.checkout = c /\ ~call.paid /\ call.metadata # "receipt"
          BY <5>1
        <5>3. ~mock' /\ checkouts'[c] = "declined"
          BY <2>3, <4>2 DEF Declines, TypeInv, PaymentsTypeOK
        <5> QED
          BY <5>2, <5>3 DEF Told
      <4> QED
        BY <1>3, <4>1, <4>2
    <3> QED
      BY <3>1, <3>2
  <2> QED
    BY <2>2, <2>4 DEF Heard
<1>4. CASE Restart
  <2>1. callbacks' = callbacks
    BY <1>4 DEF Restart
  <2>2. ASSUME NEW q \in Requests PROVE HeardOf(q)'
    BY <1>4, <1>6, OthersHeard DEF Restart, TypeInv, PaymentsTypeOK
  <2> QED
    BY <1>6, <2>1, <2>2, ToldLasts DEF Heard
<1>5. CASE UNCHANGED paymentVars
  BY <1>5 DEF paymentVars, Heard, HeardOf, Told
<1> QED
  BY <1>1, <1>2, <1>3, <1>4, <1>5 DEF PaymentsNext, Idle

LEMMA InitRows == PaymentsInit => Rows
BY DEF PaymentsInit, Rows, RowOf, WorkOf, AppliedOf, NoPayment, NoColumns, None

(* A request that keeps its rows and its place keeps what Rows says of it. *)
LEMMA OthersRows ==
  ASSUME TypeInv, Rows, payments' = payments, mock' = mock, NEW q \in Requests,
         step'[q] = step[q] \/ (step'[q] = "lost" /\ step[q] \notin Ended \cup {"new"}),
         op'[q] = op[q], answer'[q] = answer[q],
         target'[q] = target[q], loaded'[q] = loaded[q], row'[q] = row[q]
  PROVE  RowOf(q)' /\ WorkOf(q)' /\ AppliedOf(q)'
<1>1. RowOf(q) /\ WorkOf(q) /\ AppliedOf(q)
  BY DEF Rows
<1>2. RowOf(q)'
  BY <1>1 DEF RowOf, Reference, Ended
<1>3. WorkOf(q)'
  BY <1>1 DEF WorkOf, CheckoutOf, Said, OutcomeOf
<1>4. AppliedOf(q)'
  BY <1>1 DEF AppliedOf
<1> QED
  BY <1>2, <1>3, <1>4

(* The steps of r that commit nothing.                                     *)
LEMMA OwnRows ==
  ASSUME TypeInv, Heard, Rows, NEW r \in Requests,
         Push(r) \/ Callback(r) \/ Query(r) \/ Flush(r), ~CommitPush(r)
  PROVE  /\ payments' = payments /\ mock' = mock
         /\ RowOf(r)' /\ WorkOf(r)' /\ AppliedOf(r)'
<1>1. RowOf(r) /\ WorkOf(r) /\ AppliedOf(r) /\ ControlOf(r) /\ HeardOf(r)
  BY DEF Rows, TypeInv, Heard
<1>2. CASE \E amount \in Amounts : StartPush(r, amount)
  BY <1>1, <1>2 DEF StartPush, Proceed, RowOf, WorkOf, AppliedOf, ControlOf, TypeInv, PaymentsTypeOK
<1>3. CASE DarajaAnswersPush(r) \/ DarajaSilent(r) \/ DarajaAnswersQuery(r)
  BY <1>1, <1>3 DEF DarajaAnswersPush, DarajaSilent, DarajaAnswersQuery, Proceed, RowOf, WorkOf,
     AppliedOf, ControlOf, TypeInv, PaymentsTypeOK
<1>4. CASE Callback(r)
  <2>1. PICK call \in callbacks : CallbackIgnored(r, call) \/ CallbackFound(r, call)
    BY <1>4 DEF Callback
  <2>2. CASE CallbackIgnored(r, call)
    BY <1>1, <2>2 DEF CallbackIgnored, Proceed, RowOf, WorkOf, AppliedOf, ControlOf, TypeInv, PaymentsTypeOK
  <2>3. CASE CallbackFound(r, call)
    <3>1. PICK i \in ByReference(call.checkout) :
            /\ target' = [target EXCEPT ![r] = i]
            /\ loaded' = [loaded EXCEPT ![r] = payments[i].columns]
            /\ row' = [row EXCEPT ![r] =
                 [status |-> OutcomeOf(call),
                  receipt |-> IF call.paid THEN Receipt(call, payments[i].columns.receipt)
                                           ELSE payments[i].columns.receipt]]
      BY <2>3 DEF CallbackFound
    <3>2. /\ op'[r] = [kind |-> "callback", call |-> call]
          /\ target'[r] = i /\ loaded'[r] = payments[i].columns
          /\ row'[r].status = OutcomeOf(call)
          /\ row'[r].receipt = IF call.paid THEN Receipt(call, payments[i].columns.receipt)
                                            ELSE payments[i].columns.receipt
          /\ payments' = payments /\ mock' = mock /\ step'[r] \in {"flush", "commit"}
      BY <2>3, <3>1 DEF CallbackFound, Proceed, TypeInv, PaymentsTypeOK
    <3>3. i \in Requests /\ payments[i].reference = call.checkout
      BY DEF ByReference
    <3>4. payments[i].columns.receipt \in {NoCheckout, call.checkout}
      BY <3>3 DEF Rows, RowOf
    <3>5. ~call.paid => call.metadata # "receipt"
      BY DEF Heard, Told
    <3>6. WorkOf(r)'
      BY <3>2, <3>3, <3>4, <3>5 DEF WorkOf, CheckoutOf, Said, Receipt
    <3>7. RowOf(r)' /\ AppliedOf(r)'
      BY <1>1, <3>2, <2>3 DEF CallbackFound, RowOf, AppliedOf, ControlOf
    <3> QED
      BY <3>2, <3>6, <3>7
  <2> QED
    BY <2>1, <2>2, <2>3
<1>5. CASE \E c \in Requests \cup {MockCheckout} : StartQuery(r, c)
  BY <1>1, <1>5 DEF StartQuery, Proceed, RowOf, WorkOf, AppliedOf, ControlOf, TypeInv, PaymentsTypeOK
<1>6. CASE ReadPayment(r)
  <2>1. PICK i \in ByReference(op[r].checkout) :
          /\ target' = [target EXCEPT ![r] = i]
          /\ loaded' = [loaded EXCEPT ![r] = payments[i].columns]
          /\ row' = [row EXCEPT ![r] =
               [payments[i].columns EXCEPT !.status = IF answer[r] = "0" THEN "completed"
                                                                         ELSE "failed"]]
    BY <1>6 DEF ReadPayment
  <2>2. i \in Requests /\ payments[i].reference = op[r].checkout /\ payments[i].columns \in Columns
    BY DEF ByReference, TypeInv, PaymentsTypeOK
  <2>3. /\ op' = op /\ answer' = answer /\ op[r].kind = "query"
        /\ target'[r] = i /\ loaded'[r] = payments[i].columns
        /\ row'[r].status = Said(r)
        /\ row'[r].receipt = payments[i].columns.receipt
        /\ payments' = payments /\ mock' = mock /\ step'[r] = "flush"
    BY <1>1, <1>6, <2>1, <2>2 DEF ReadPayment, Proceed, ControlOf, Said, Columns, TypeInv, PaymentsTypeOK
  <2>4. payments[i].columns.receipt \in {NoCheckout, op[r].checkout}
    BY <2>2 DEF Rows, RowOf
  <2>5. WorkOf(r)'
    BY <2>2, <2>3, <2>4 DEF WorkOf, CheckoutOf, Said
  <2> QED
    BY <1>1, <2>3, <2>5 DEF RowOf, AppliedOf
<1>7. CASE PaymentNotFound(r)
  BY <1>1, <1>7 DEF PaymentNotFound, Proceed, RowOf, WorkOf, AppliedOf, ControlOf, TypeInv, PaymentsTypeOK
<1>8. CASE Flush(r)
  BY <1>1, <1>8 DEF Flush, Proceed, RowOf, WorkOf, AppliedOf, ControlOf, CheckoutOf, Said, OutcomeOf,
     TypeInv, PaymentsTypeOK
<1> QED
  BY <1>2, <1>3, <1>4, <1>5, <1>6, <1>7, <1>8 DEF Push, Query

(* A push adds a row where none was, so nobody works on it.                *)
LEMMA PushRows ==
  ASSUME TypeInv, Heard, Rows, NEW r \in Requests, CommitPush(r)
  PROVE  Rows'
<1>1. /\ ControlOf(r) /\ RowOf(r) /\ HeardOf(r) /\ op[r].kind = "push" /\ step[r] = "commit"
      /\ op' = op /\ mock' = mock /\ answer' = answer
      /\ payments'[r] = NewPayment(r) /\ step'[r] = "done"
  BY DEF CommitPush, Proceed, TypeInv, PaymentsTypeOK, Rows, Heard
<1>2. payments[r] = NoPayment
  BY <1>1 DEF RowOf
<1>3. RowOf(r)' /\ WorkOf(r)' /\ AppliedOf(r)'
  BY <1>1 DEF RowOf, WorkOf, AppliedOf, NewPayment, Reference, HeardOf
<1>4. ASSUME NEW q \in Requests \ {r} PROVE RowOf(q)' /\ WorkOf(q)' /\ AppliedOf(q)'
  <2>1. /\ step'[q] = step[q] /\ op'[q] = op[q] /\ answer'[q] = answer[q]
        /\ target'[q] = target[q] /\ loaded'[q] = loaded[q] /\ row'[q] = row[q]
    BY Apart DEF Push
  <2>2. payments'[q] = payments[q]
    BY DEF CommitPush, TypeInv, PaymentsTypeOK
  <2>3. RowOf(q) /\ WorkOf(q) /\ AppliedOf(q) /\ target[q] \in Requests
    BY DEF Rows, TypeInv, PaymentsTypeOK
  <2>4. /\ op[q].kind = "callback" => op[q].call.checkout # NoCheckout
        /\ op[q].kind = "query" => op[q].checkout # NoCheckout
    BY OpFields, IdAssumption DEF TypeInv, CallbackKinds, Checkouts
  <2>5. RowOf(q)'
    BY <1>1, <2>1, <2>2, <2>3 DEF RowOf, Reference
  <2>6. payments[target[q]].reference # NoCheckout => payments'[target[q]] = payments[target[q]]
    BY <1>2, <2>3 DEF CommitPush, TypeInv, PaymentsTypeOK, NoPayment
  <2>7. WorkOf(q)'
    BY <2>1, <2>3, <2>4, <2>6 DEF WorkOf, CheckoutOf, Said, OutcomeOf
  <2>8. AppliedOf(q)'
    BY <2>1, <2>3, <2>4, <2>6 DEF AppliedOf
  <2> QED
    BY <2>5, <2>7, <2>8
<1> QED
  BY <1>3, <1>4 DEF Rows

(* What the UPDATE of r makes of its row: settled for good, the receipt    *)
(* kept, and both as r heard them unless another wrote them first.         *)
LEMMA Update ==
  ASSUME TypeInv, Heard, Rows, NEW r \in Requests, CommitChange(r)
  PROVE  LET i == target[r]
             old == payments[i].columns
             new == payments'[i].columns
         IN  /\ i \in Requests /\ payments[i].reference = CheckoutOf(r)
             /\ payments'[i].reference = payments[i].reference
             /\ new.status \in {old.status, Said(r)} /\ new.status \in Settled
             /\ new.receipt \in {old.receipt, CheckoutOf(r)}
             /\ old.receipt # NoCheckout => new.receipt = old.receipt
             /\ (op[r].kind = "callback" /\ op[r].call.metadata = "receipt") =>
                  new.receipt = op[r].call.checkout
             /\ mock => Said(r) # "failed"
             /\ \A j \in Requests \ {i} : payments'[j] = payments[j]
<1> DEFINE i == target[r]
           old == payments[i].columns
           new == payments'[i].columns
<1>1. /\ step[r] = "commit" /\ op[r].kind \in {"callback", "query"} /\ i \in Requests
      /\ payments' = [payments EXCEPT ![i].columns = Written(r)]
      /\ payments \in [Requests -> [reference : References, amount : Int, columns : Columns]]
  BY DEF CommitChange, TypeInv, PaymentsTypeOK
<1>2. WorkOf(r) /\ RowOf(i) /\ HeardOf(r)
  BY <1>1 DEF Rows, Heard
<1>3. /\ new = Written(r) /\ payments'[i].reference = payments[i].reference
      /\ \A j \in Requests \ {i} : payments'[j] = payments[j]
  BY <1>1
<1>4. /\ new.status = IF row[r].status = loaded[r].status THEN old.status ELSE row[r].status
      /\ new.receipt = IF row[r].receipt = loaded[r].receipt THEN old.receipt ELSE row[r].receipt
  BY <1>3 DEF Written
<1>5. Said(r) \in Settled
  BY DEF Said, OutcomeOf, Settled
<1>6. payments[i].reference = CheckoutOf(r) /\ row[r].status = Said(r)
  BY <1>1, <1>2 DEF WorkOf
<1>7. new.status \in {old.status, Said(r)} /\ new.status \in Settled
  BY <1>1, <1>2, <1>4, <1>5, <1>6 DEF WorkOf
<1>8. /\ new.receipt \in {old.receipt, CheckoutOf(r)}
      /\ old.receipt # NoCheckout => new.receipt = old.receipt
  BY <1>1, <1>2, <1>4, <1>6 DEF WorkOf, RowOf
<1>9. (op[r].kind = "callback" /\ op[r].call.metadata = "receipt") =>
        new.receipt = op[r].call.checkout
  <2> SUFFICES ASSUME op[r].kind = "callback", op[r].call.metadata = "receipt"
               PROVE  new.receipt = op[r].call.checkout
    OBVIOUS
  <2>1. op[r].call.checkout # NoCheckout
    BY OpFields, IdAssumption DEF TypeInv, CallbackKinds, Checkouts
  <2> QED
    BY <1>1, <1>2, <1>4, <2>1 DEF WorkOf
<1>10. mock => Said(r) # "failed"
  BY <1>1, <1>2 DEF HeardOf, Said, OutcomeOf, Told
<1> QED
  BY <1>1, <1>3, <1>6, <1>7, <1>8, <1>9, <1>10

LEMMA ChangeRows ==
  ASSUME TypeInv, Heard, Rows, NEW r \in Requests, CommitChange(r)
  PROVE  Rows'
<1> DEFINE i == target[r]
<1>1. /\ step[r] = "commit" /\ op[r].kind \in {"callback", "query"} /\ step'[r] = "done"
      /\ op' = op /\ answer' = answer /\ mock' = mock /\ target' = target
      /\ loaded' = loaded /\ row' = row
      /\ \A q \in Requests \ {r} : step'[q] = step[q]
  BY DEF CommitChange, Proceed, TypeInv, PaymentsTypeOK
<1>2. CheckoutOf(r) # NoCheckout
  BY <1>1, OpFields, IdAssumption DEF CheckoutOf, TypeInv, CallbackKinds, Checkouts
<1>3. i \in Requests /\ payments[i] # NoPayment
  BY <1>2, Update DEF NoPayment
<1>4. ASSUME NEW q \in Requests PROVE RowOf(q)'
  <2>1. RowOf(q)
    BY DEF Rows
  <2>2. CASE q = i
    BY <1>1, <1>3, <2>1, <2>2, Update DEF RowOf, Reference
  <2>3. CASE q # i
    <3>1. payments'[q] = payments[q]
      BY <2>3, Update
    <3>2. q = r => op[q].kind # "push"
      BY <1>1
    <3> QED
      BY <1>1, <2>1, <3>1, <3>2 DEF RowOf, Reference
  <2> QED
    BY <2>2, <2>3
<1>5. ASSUME NEW q \in Requests PROVE WorkOf(q)'
  <2>1. CASE q = r
    BY <1>1, <2>1 DEF WorkOf
  <2>2. CASE q # r
    <3>1. WorkOf(q) /\ target[q] \in Requests /\ step'[q] = step[q]
      BY <1>1, <2>2 DEF Rows, TypeInv, PaymentsTypeOK
    <3>2. CASE target[q] = i
      BY <1>1, <3>1, <3>2, Update DEF WorkOf, CheckoutOf, Said, OutcomeOf
    <3>3. CASE target[q] # i
      <4>1. payments'[target[q]] = payments[target[q]]
        BY <3>1, <3>3, Update
      <4> QED
        BY <1>1, <3>1, <4>1 DEF WorkOf, CheckoutOf, Said, OutcomeOf
    <3> QED
      BY <3>2, <3>3
  <2> QED
    BY <2>1, <2>2
<1>6. ASSUME NEW q \in Requests PROVE AppliedOf(q)'
  <2>1. CASE q = r
    BY <1>1, <2>1, Update DEF AppliedOf, CheckoutOf
  <2>2. CASE q # r
    <3>1. AppliedOf(q) /\ target[q] \in Requests /\ step'[q] = step[q]
      BY <1>1, <2>2 DEF Rows, TypeInv, PaymentsTypeOK
    <3>2. op[q].kind = "callback" => op[q].call.checkout # NoCheckout
      BY OpFields, IdAssumption DEF TypeInv, CallbackKinds, Checkouts
    <3>3. CASE target[q] = i
      BY <1>1, <3>1, <3>2, <3>3, Update DEF AppliedOf
    <3>4. CASE target[q] # i
      <4>1. payments'[target[q]] = payments[target[q]]
        BY <3>1, <3>4, Update
      <4> QED
        BY <1>1, <3>1, <4>1 DEF AppliedOf
    <3> QED
      BY <3>3, <3>4
  <2> QED
    BY <2>1, <2>2
<1> QED
  BY <1>4, <1>5, <1>6 DEF Rows

LEMMA RowsStep == TypeInv /\ Heard /\ Rows /\ [PaymentsNext]_paymentVars => Rows'
<1> SUFFICES ASSUME TypeInv, Heard, Rows, [PaymentsNext]_paymentVars PROVE Rows'
  OBVIOUS
<1>1. ASSUME NEW r \in Requests, CommitPush(r) \/ CommitChange(r) PROVE Rows'
  BY <1>1, PushRows, ChangeRows
<1>2. ASSUME NEW r \in Requests, ~CommitPush(r),
             Push(r) \/ Callback(r) \/ Query(r) \/ Flush(r)
      PROVE  Rows'
  <2>1. /\ payments' = payments /\ mock' = mock
        /\ RowOf(r)' /\ WorkOf(r)' /\ AppliedOf(r)'
    BY <1>2, OwnRows
  <2>2. ASSUME NEW q \in Requests \ {r} PROVE RowOf(q)' /\ WorkOf(q)' /\ AppliedOf(q)'
    BY <1>2, <2>1, Apart, OthersRows
  <2> QED
    BY <2>1, <2>2 DEF Rows
<1>3. ASSUME NEW c \in Requests, Pays(c) \/ Declines(c) PROVE Rows'
  BY <1>3, OthersRows DEF Pays, Declines, session, Rows
<1>4. CASE Restart
  <2>1. ASSUME NEW q \in Requests PROVE RowOf(q)' /\ WorkOf(q)' /\ AppliedOf(q)'
    BY <1>4, OthersRows DEF Restart, UnderWay, TypeInv, PaymentsTypeOK
  <2> QED
    BY <2>1 DEF Rows
<1>5. CASE UNCHANGED paymentVars
  BY <1>5, OthersRows DEF paymentVars, Rows
<1> QED
  BY <1>1, <1>2, <1>3, <1>4, <1>5 DEF PaymentsNext, Idle

Inv == TypeInv /\ Heard /\ Rows

LEMMA InvHolds == PaymentsSpec => []Inv
<1>1. PaymentsInit => Inv
  BY InitType, InitHeard, InitRows DEF Inv
<1>2. Inv /\ [PaymentsNext]_paymentVars => Inv'
  BY TypeStep, HeardStep, RowsStep DEF Inv
<1> QED
  BY <1>1, <1>2, PTL DEF PaymentsSpec
----------------------------------------------------------------------------
LEMMA OutcomeStep == Inv /\ OutcomeIsDarajas /\ [PaymentsNext]_paymentVars => OutcomeIsDarajas'
<1> SUFFICES ASSUME Inv, OutcomeIsDarajas, [PaymentsNext]_paymentVars PROVE OutcomeIsDarajas'
  OBVIOUS
<1> USE DEF Inv
<1>1. Lasting
  BY LastingStep
<1>2. ASSUME NEW i \in Requests, payments'[i] = payments[i],
             ~mock', payments'[i].reference \in Requests \ early'
      PROVE  /\ payments'[i].columns.status = "completed" =>
                  checkouts'[payments'[i].reference] = "paid"
             /\ payments'[i].columns.status = "failed" =>
                  checkouts'[payments'[i].reference] = "declined"
  BY <1>1, <1>2 DEF Lasting, OutcomeIsDarajas
<1>3. ASSUME NEW r \in Requests, CommitPush(r) PROVE OutcomeIsDarajas'
  <2>1. payments'[r] = NewPayment(r) /\ \A i \in Requests \ {r} : payments'[i] = payments[i]
    BY <1>3 DEF CommitPush, TypeInv, PaymentsTypeOK
  <2>2. payments'[r].columns.status = "completed" => FALSE
    BY <2>1 DEF NewPayment
  <2>3. payments'[r].columns.status = "failed" => payments'[r].reference \notin Requests
    BY <2>1, IdAssumption DEF NewPayment, Reference
  <2> QED
    BY <1>2, <2>1, <2>2, <2>3 DEF OutcomeIsDarajas
<1>4. ASSUME NEW r \in Requests, CommitChange(r) PROVE OutcomeIsDarajas'
  <2> DEFINE i == target[r]
             c == CheckoutOf(r)
  <2>1. /\ i \in Requests /\ payments[i].reference = c /\ payments'[i].reference = c
        /\ payments'[i].columns.status \in {payments[i].columns.status, Said(r)}
        /\ \A j \in Requests \ {i} : payments'[j] = payments[j]
    BY <1>4, Update
  <2>2. /\ step[r] = "commit" /\ op[r].kind \in {"callback", "query"}
        /\ mock' = mock /\ early' = early /\ checkouts' = checkouts
    BY <1>4 DEF CommitChange
  <2>3. (~mock /\ c \in Requests \ early) =>
          /\ Said(r) = "completed" => checkouts[c] = "paid"
          /\ Said(r) = "failed" => checkouts[c] = "declined"
    BY <2>2 DEF Heard, HeardOf, Told, Said, OutcomeOf, CheckoutOf
  <2> QED
    BY <1>2, <2>1, <2>2, <2>3 DEF OutcomeIsDarajas
<1>5. CASE payments' = payments
  BY <1>2, <1>5 DEF OutcomeIsDarajas
<1>6. payments' = payments \/ \E r \in Requests : CommitPush(r) \/ CommitChange(r)
  BY DEF PaymentsNext, Push, Callback, Query, StartPush, DarajaAnswersPush, DarajaSilent,
     CallbackIgnored, CallbackFound, StartQuery, DarajaAnswersQuery, ReadPayment, PaymentNotFound,
     Flush, Pays, Declines, Restart, Idle, paymentVars
<1> QED
  BY <1>3, <1>4, <1>5, <1>6

(* For any number of requests, callbacks and restarts, a stored outcome is *)
(* Daraja's, unless a query came before the customer's decision.           *)
THEOREM OutcomeCorrect == PaymentsSpec => []OutcomeIsDarajas
<1>1. PaymentsInit => OutcomeIsDarajas
  BY DEF PaymentsInit, OutcomeIsDarajas, NoPayment, NoColumns
<1> QED
  BY <1>1, InvHolds, OutcomeStep, PTL DEF PaymentsSpec

(* An applied callback stays applied.                                      *)
THEOREM CallbacksApplied == PaymentsSpec => []CallbackIsApplied
<1>1. Inv /\ OutcomeIsDarajas => CallbackIsApplied
  <2> SUFFICES ASSUME Inv, OutcomeIsDarajas, NEW r \in Requests,
                      op[r].kind = "callback", step[r] = "done"
               PROVE  LET call == op[r].call
                          columns == payments[target[r]].columns
                      IN  /\ call.metadata = "receipt" => columns.receipt = call.checkout
                          /\ call.checkout \notin early => columns.status = OutcomeOf(call)
    BY DEF CallbackIsApplied
  <2>1. AppliedOf(r) /\ HeardOf(r) /\ target[r] \in Requests /\ RowOf(target[r])
    BY DEF Inv, TypeInv, PaymentsTypeOK, Rows, Heard
  <2>2. CASE mock
    BY <2>1, <2>2 DEF AppliedOf, RowOf, HeardOf, Told, OutcomeOf, Settled
  <2>3. CASE ~mock
    BY <2>1, <2>3 DEF AppliedOf, HeardOf, Told, OutcomeOf, Settled, OutcomeIsDarajas
  <2> QED
    BY <2>2, <2>3
<1> QED
  BY <1>1, InvHolds, OutcomeCorrect, PTL

(* A receipt, once stored, is never changed.                               *)
THEOREM ReceiptSafe == PaymentsSpec => ReceiptIsKept
<1>1. Inv /\ [PaymentsNext]_paymentVars =>
        [\A i \in Requests :
           payments[i].columns.receipt # NoCheckout =>
             payments'[i].columns.receipt = payments[i].columns.receipt]_paymentVars
  <2> SUFFICES ASSUME Inv, [PaymentsNext]_paymentVars, NEW i \in Requests,
                      payments[i].columns.receipt # NoCheckout
               PROVE  payments'[i].columns.receipt = payments[i].columns.receipt
    OBVIOUS
  <2> USE DEF Inv
  <2>1. ASSUME NEW r \in Requests, CommitPush(r)
        PROVE  payments'[i] = payments[i]
    <3>1. payments[r] = NoPayment
      BY <2>1 DEF CommitPush, Rows, RowOf
    <3>2. i # r
      BY <3>1 DEF NoPayment, NoColumns
    <3> QED
      BY <2>1, <3>2 DEF CommitPush, TypeInv, PaymentsTypeOK
  <2>2. ASSUME NEW r \in Requests, CommitChange(r)
        PROVE  payments'[i].columns.receipt = payments[i].columns.receipt
    BY <2>2, Update
  <2>3. payments' = payments \/ \E r \in Requests : CommitPush(r) \/ CommitChange(r)
    BY DEF PaymentsNext, Push, Callback, Query, StartPush, DarajaAnswersPush, DarajaSilent,
       CallbackIgnored, CallbackFound, StartQuery, DarajaAnswersQuery, ReadPayment,
       PaymentNotFound, Flush, Pays, Declines, Restart, Idle, paymentVars
  <2> QED
    BY <2>1, <2>2, <2>3
<1> QED
  BY <1>1, InvHolds, PTL DEF PaymentsSpec, ReceiptIsKept

(* With credentials, every committed push is found by its checkout id, and *)
(* found alone.                                                            *)
THEOREM PushesAreFound == PaymentsSpec => []LivePaymentsAreFound
<1>1. Inv => LivePaymentsAreFound
  <2> SUFFICES ASSUME Inv, ~mock, NEW r \in Requests,
                      op[r].kind = "push", step[r] = "done", answer[r] = "0"
               PROVE  ByReference(Reference(r)) = {r}
    BY DEF LivePaymentsAreFound, FoundByCheckout
  <2>1. Reference(r) = r /\ payments[r].reference = r /\ payments[r] # NoPayment
    BY IdAssumption DEF Inv, Rows, RowOf, Reference, NoPayment
  <2>2. ASSUME NEW i \in Requests, payments[i] # NoPayment, payments[i].reference = r
        PROVE  i = r
    BY <2>2, IdAssumption DEF Inv, Rows, RowOf, Reference
  <2> QED
    BY <2>1, <2>2 DEF ByReference
<1> QED
  BY <1>1, InvHolds, PTL
=============================================================================
