------------------------------ MODULE Advisor ------------------------------
(***************************************************************************)
(* Observations, insights, forecasts and raw chats of app/api/ai/routes.py *)
(* up to the model's answer.                                               *)
(*                                                                         *)
(* Whether there is enough data is asked again and again in one request:   *)
(* each detector asks for itself.  Every time the days and the number of   *)
(* sales are two queries, and sales are made and voided between them.      *)
(***************************************************************************)
EXTENDS Integers, Sequences, FiniteSets, FiniteSetsExt

CONSTANTS
  Invoices,         \* sales
  OldestDays,       \* how many days ago a sale on file at the start was made
  MinDays,          \* min_data_days, 7
  MinTransactions,  \* min_tx_per_sku, 10
  AdviceStores      \* "sqlite", "postgres"

ASSUME AdviceAssumption ==
  /\ IsFiniteSet(Invoices)
  /\ OldestDays \subseteq Nat /\ MinDays \in Nat /\ MinTransactions \in Nat
  /\ AdviceStores \subseteq {"sqlite", "postgres"}

VARIABLES
  adviceStore,
  invoice,   \* [status, age in days] of each sale, committed
  advice,    \* the request: kind, the figures read so far, what it was told
  witness    \* history: was there enough, was there too little, was a sale
             \* voided, since the current check began; traffic since the start

adviceVars == <<adviceStore, invoice, advice, witness>>

Completed(sales) == {i \in Invoices : sales[i].status = "completed"}
(* _days_of_data and _total_transactions.                                  *)
DaysOfData(sales) ==
  IF Completed(sales) = {} THEN 0 ELSE Max({sales[i].age : i \in Completed(sales)})
Transactions(sales) == Cardinality(Completed(sales))

(* Faulty: either will do.                                                 *)
EnoughOfEither(days, transactions) == days >= MinDays \/ transactions >= MinTransactions
(* Faulty: the minimum itself is not enough.                               *)
EnoughStrict(days, transactions) == days > MinDays /\ transactions > MinTransactions
(* has_enough_data.                                                        *)
Enough(days, transactions) == days >= MinDays /\ transactions >= MinTransactions
TrulyEnough(sales) == DaysOfData(sales) >= MinDays /\ Transactions(sales) >= MinTransactions

NoAdvice == [at |-> "idle", kind |-> "none", days |-> 0, figures |-> << >>,
             raised |-> "nothing", answer |-> "none"]
Nobody == [ample |-> FALSE, short |-> FALSE, voided |-> FALSE, traffic |-> FALSE, verdict |-> TRUE]

AdviceInit ==
  /\ adviceStore \in AdviceStores
  /\ invoice \in [Invoices -> [status : {"none", "completed"}, age : OldestDays]]
  /\ advice = NoAdvice
  /\ witness = Nobody
----------------------------------------------------------------------------
Verdict(n) == Enough(advice.figures[n].days, advice.figures[n].transactions)

(* How many times the two figures are read.  insights: the check, the four *)
(* signals, and the three detectors once more inside get_insights; or the  *)
(* check and the figures of the refusal.  observations: the check and the  *)
(* three detectors.  forecast: the check and the prediction's.  readiness: *)
(* its own, the prediction's, and the check.                               *)
Reads ==
  CASE advice.kind = "readiness"    -> 3
    [] advice.kind = "forecast"     -> 2
    [] advice.kind = "observations" -> IF Verdict(1) THEN 4 ELSE 1
    [] advice.kind = "insights"     -> IF ~ Verdict(1) THEN 2 ELSE
                                       IF Len(advice.figures) >= 5 /\ ~ Verdict(5) THEN 5 ELSE 8

(* detect_peak_hours calls to_char, which SQLite does not have.            *)
PeakHoursFail ==
  LET n == Len(advice.figures) IN
  /\ adviceStore = "sqlite" /\ n > 0 /\ Verdict(n)
  /\ \/ advice.kind = "observations" /\ n = 2
     \/ advice.kind = "insights" /\ n \in {2, 6} /\ Verdict(1)

Ready == Len(advice.figures) > 0 /\ Len(advice.figures) = Reads

StartAdvice(kind) ==
  /\ advice.at = "idle"
  /\ advice' = [NoAdvice EXCEPT !.at = IF kind = "chat" THEN "model" ELSE "days", !.kind = kind]
  /\ UNCHANGED <<adviceStore, invoice, witness>>

ReadDays ==
  /\ advice.at = "days" /\ ~ PeakHoursFail /\ ~ Ready
  /\ advice' = [advice EXCEPT !.at = "transactions", !.days = DaysOfData(invoice)]
  /\ witness' = [witness EXCEPT !.ample = TrulyEnough(invoice), !.short = ~ TrulyEnough(invoice),
                                !.voided = FALSE]
  /\ UNCHANGED <<adviceStore, invoice>>

ReadTransactions ==
  /\ advice.at = "transactions"
  /\ advice' = [advice EXCEPT !.at = "days",
       !.figures = Append(@, [days |-> advice.days, transactions |-> Transactions(invoice)])]
  /\ witness' = [witness EXCEPT !.verdict = Enough(advice.days, Transactions(invoice))]
  /\ UNCHANGED <<adviceStore, invoice>>

PeakHoursRaise ==
  /\ advice.at = "days" /\ PeakHoursFail
  /\ advice' = [advice EXCEPT !.at = "done", !.answer = "error"]
  /\ UNCHANGED <<adviceStore, invoice, witness>>

(* Everything is read: ask the model, or answer without it.                *)
FinishReading ==
  /\ advice.at = "days" /\ ~ PeakHoursFail /\ Ready
  /\ advice' =
       IF advice.kind \in {"insights", "forecast"} /\ Verdict(1)
       THEN [advice EXCEPT !.at = "model"]
       ELSE [advice EXCEPT !.at = "done", !.answer =
              IF advice.kind \in {"insights", "forecast"} THEN "not_ready" ELSE "figures"]
  /\ UNCHANGED <<adviceStore, invoice, witness>>

(* OmnirouteGateway.chat: no key raises ConfigurationError, a transport    *)
(* error, a status other than 200 and most unexpected bodies GatewayError; *)
(* an event that is no object raises AttributeError.                       *)
Raised(outcome) ==
  CASE outcome = "answer" -> "nothing"
    [] outcome \in {"transport", "status", "shape"} -> "GatewayError"
    [] outcome \in {"no_key", "bare_event"} -> "another"

(* Faulty: a service that lets the gateway's errors through.               *)
RepliesUncaught(kind, raised) == IF raised = "nothing" THEN "narrative" ELSE "error"
(* The callers catch GatewayError and no other.                            *)
Replies(kind, raised) ==
  IF raised = "nothing" THEN "narrative"
  ELSE IF raised = "another" THEN "error"
  ELSE IF kind = "chat" THEN "bad_gateway" ELSE "signals"

AskModel(outcome) ==
  /\ advice.at = "model"
  /\ advice' = [advice EXCEPT !.at = "done", !.raised = Raised(outcome),
                              !.answer = Replies(advice.kind, Raised(outcome))]
  /\ UNCHANGED <<adviceStore, invoice, witness>>

Noticed(sales, voided) ==
  witness' = [witness EXCEPT !.ample = @ \/ TrulyEnough(sales), !.short = @ \/ ~ TrulyEnough(sales),
                             !.voided = @ \/ voided, !.traffic = TRUE]

SaleIsMade(i) ==
  /\ advice.at \in {"days", "transactions"} /\ invoice[i].status = "none"
  /\ invoice' = [invoice EXCEPT ![i] = [status |-> "completed", age |-> 0]]
  /\ Noticed(invoice', FALSE)
  /\ UNCHANGED <<adviceStore, advice>>
SaleIsVoided(i) ==
  /\ advice.at \in {"days", "transactions"} /\ invoice[i].status = "completed"
  /\ invoice' = [invoice EXCEPT ![i].status = "voided"]
  /\ Noticed(invoice', TRUE)
  /\ UNCHANGED <<adviceStore, advice>>

AdviceNext ==
  \/ \E kind \in {"readiness", "observations", "insights", "forecast", "chat"} : StartAdvice(kind)
  \/ ReadDays \/ ReadTransactions \/ PeakHoursRaise \/ FinishReading
  \/ \E o \in {"answer", "transport", "status", "shape", "no_key", "bare_event"} : AskModel(o)
  \/ \E i \in Invoices : SaleIsMade(i) \/ SaleIsVoided(i)

AdviceSpec == AdviceInit /\ [][AdviceNext]_adviceVars
----------------------------------------------------------------------------
AdviceTypeOK ==
  /\ advice.at \in {"idle", "days", "transactions", "model", "done"}
  /\ Len(advice.figures) <= 8
  /\ \A i \in Invoices : invoice[i].status \in {"none", "completed", "voided"}

(* A check's verdict was true at some moment while it was made, although   *)
(* its two figures are of different moments (observation.py:42-46): always *)
(* when it says there is too little, and when it says there is enough      *)
(* unless a sale was voided between its queries.                           *)
VerdictsWereTrue ==
  advice.at = "days" /\ advice.figures # << >> =>
    IF witness.verdict THEN witness.ample \/ witness.voided ELSE witness.short

(* A refusal for lack of data names figures of which one is really short,  *)
(* although they are read after the verdict (insight_service.py:23-34),    *)
(* unless sales committed meanwhile.                                       *)
RefusalsNameTheShortage ==
  advice.answer = "not_ready" /\ advice.kind = "insights" /\ ~ witness.traffic =>
    \/ advice.figures[2].days < MinDays
    \/ advice.figures[2].transactions < MinTransactions

(* A failing model costs an answer only if no key is configured or its     *)
(* stream holds an event that is no object; otherwise the caller gets the  *)
(* signals, the placeholder or a 502 (insight_service.py:62-65,            *)
(* forecast_service.py:37-40, ai/routes.py:94-99).                         *)
ModelFailuresAreAnswered ==
  advice.answer = "error" => advice.raised = "another" \/ PeakHoursFail

(* What the caller is told, that there is too little data or that a model  *)
(* failed, is what happened (observation.py:42-46, insight_service.py:20-65*)
(* and forecast_service.py:25-40).                                         *)
AdviceIsTrue == VerdictsWereTrue /\ RefusalsNameTheShortage /\ ModelFailuresAreAnswered
=============================================================================
