------------------------------ MODULE Reports ------------------------------
(***************************************************************************)
(* The reports of app/api/reports/routes.py.  A report is a sequence of    *)
(* queries on one session, each of which sees what was committed when it   *)
(* ran: a sale or a void that commits meanwhile is in some of its figures  *)
(* and not in others.                                                      *)
(*                                                                         *)
(* Days are counted back from the day of the report.  A sale is one unit   *)
(* of one product; names, margins and the order of rows are left out.      *)
(***************************************************************************)
EXTENDS Integers, Sequences, FiniteSets, Functions

CONSTANTS
  Receipts,          \* the sales of the business, made before or during a report
  Totals,            \* what a sale may total; a discount may exceed the goods
  Ages,              \* how many days before the report a sale was made
  Weekdays, Days,    \* datetime.now().weekday() and .day of the report
  ReportStores       \* "sqlite", "postgres"

ASSUME ReportAssumption ==
  /\ IsFiniteSet(Receipts) /\ Totals \subseteq Int /\ Ages \subseteq Nat
  /\ Weekdays \subseteq 0..6 /\ Days \subseteq 1..31
  /\ ReportStores \subseteq {"sqlite", "postgres"}

VARIABLES
  reportStore,
  today,      \* the calendar of the report: weekday, day of the month
  receipt,    \* the committed sales
  report,     \* kind, the answers so far, and what was committed at its start
  traffic     \* history: the totals committed or voided while it ran, and how many

reportVars == <<reportStore, today, receipt, report, traffic>>

NoReceipt == [status |-> "none", age |-> 0, total |-> 0, late |-> FALSE]

ReportInit ==
  /\ reportStore \in ReportStores
  /\ today \in [weekday : Weekdays, day : Days]
  /\ receipt \in [Receipts -> {NoReceipt} \cup
       [status : {"completed", "voided"}, age : Ages, total : Totals, late : {FALSE}]]
  /\ report = [at |-> "idle", kind |-> "none", answers |-> << >>, opening |-> receipt]
  /\ traffic = [value |-> 0, count |-> 0]
----------------------------------------------------------------------------
(* A query over completed sales of the last `since` days, back from `upto`;*)
(* `closed` is the condition created_at <= the moment the report began.    *)
Over(what, since, upto, closed) ==
  [what |-> what, since |-> since, upto |-> upto, closed |-> closed]

(* Faulty: a voided sale still counts.                                     *)
SelectedAll(sales, q) ==
  {r \in Receipts : /\ sales[r].status # "none" /\ sales[r].age \in q.upto .. q.since
                    /\ q.closed => ~ sales[r].late}
(* The WHERE clauses.                                                      *)
Selected(sales, q) ==
  {r \in Receipts : /\ sales[r].status = "completed" /\ sales[r].age \in q.upto .. q.since
                    /\ q.closed => ~ sales[r].late}

AnswerTo(sales, q) ==
  CASE q.what = "revenue" -> SumFunctionOnSet([r \in Receipts |-> sales[r].total], Selected(sales, q))
    [] q.what = "units"   -> Cardinality(Selected(sales, q))
    [] q.what = "stock"   ->    \* of an opening stock of one unit per receipt
         Cardinality({r \in Receipts : sales[r].status # "completed"})

(* revenue_since(start).                                                   *)
RevenueSince(days) == Over("revenue", days, 0, FALSE)

(* revenue_summary, 39-44, in the order the queries run.                   *)
SummaryQueries ==
  <<RevenueSince(0), RevenueSince(1), RevenueSince(0),
    RevenueSince(today.weekday), RevenueSince(today.weekday + 7), RevenueSince(today.weekday),
    RevenueSince(today.day - 1), RevenueSince(30), RevenueSince(today.day - 1)>>

(* today, yesterday, this week, last week, this month, "last month".       *)
SummaryFigures(a) == <<a[1], a[2] - a[3], a[4], a[5] - a[6], a[7], a[8] - a[9]>>

(* profit_loss, without dates: revenue, cost of goods (at a cost of one),  *)
(* and the breakdown by payment method, whose rows add up to its sum.      *)
ProfitQueries ==
  <<Over("revenue", 30, 0, TRUE), Over("units", 30, 0, TRUE), Over("revenue", 30, 0, TRUE)>>

(* top_products: the stock of each row is read after the rows.             *)
ProductQueries == <<Over("units", 30, 0, FALSE), Over("stock", 0, 0, FALSE)>>

(* analytics_dashboard_view, 216-220; sales_chart is the sum of its bars.  *)
DashboardQueries == SummaryQueries \o ProductQueries \o <<RevenueSince(29)>>

Queries(kind) ==
  CASE kind = "summary"   -> SummaryQueries
    [] kind = "profit"    -> ProfitQueries
    [] kind = "dashboard" -> DashboardQueries

StartReport(kind) ==
  /\ reportStore = "sqlite" /\ report.at = "idle"
  /\ report' = [at |-> "reading", kind |-> kind, answers |-> << >>, opening |-> receipt]
  /\ UNCHANGED <<reportStore, today, receipt, traffic>>

(* On Postgres the aware bound of _day_start is refused for the naive      *)
(* created_at: no report without dates of its own is ever answered.        *)
ReportRefused(kind) ==
  /\ reportStore = "postgres" /\ report.at = "idle"
  /\ report' = [report EXCEPT !.at = "failed", !.kind = kind]
  /\ UNCHANGED <<reportStore, today, receipt, traffic>>

Asked == Len(report.answers) + 1
RunQuery ==
  /\ report.at = "reading" /\ Asked <= Len(Queries(report.kind))
  /\ report' = [report EXCEPT !.answers =
                  Append(@, AnswerTo(receipt, Queries(report.kind)[Asked]))]
  /\ UNCHANGED <<reportStore, today, receipt, traffic>>

FinishReport ==
  /\ report.at = "reading" /\ Asked > Len(Queries(report.kind))
  /\ report' = [report EXCEPT !.at = "done"]
  /\ UNCHANGED <<reportStore, today, receipt, traffic>>

(* Sales and voids of others; a sale of today may have been inserted       *)
(* before the report began and be committed after.                         *)
Magnitude(n) == IF n < 0 THEN -n ELSE n
Passed(n) == traffic' = [value |-> traffic.value + Magnitude(n), count |-> traffic.count + 1]

SaleCommits(r, total, late) ==
  /\ report.at = "reading" /\ receipt[r].status = "none"
  /\ receipt' = [receipt EXCEPT ![r] =
                   [status |-> "completed", age |-> 0, total |-> total, late |-> late]]
  /\ Passed(total)
  /\ UNCHANGED <<reportStore, today, report>>

VoidCommits(r) ==
  /\ report.at = "reading" /\ receipt[r].status = "completed"
  /\ receipt' = [receipt EXCEPT ![r].status = "voided"]
  /\ Passed(receipt[r].total)
  /\ UNCHANGED <<reportStore, today, report>>

ReportNext ==
  \/ \E kind \in {"summary", "profit", "dashboard"} : StartReport(kind) \/ ReportRefused(kind)
  \/ RunQuery \/ FinishReport
  \/ \E r \in Receipts :
       VoidCommits(r) \/ \E t \in Totals, late \in BOOLEAN : SaleCommits(r, t, late)

ReportSpec == ReportInit /\ [][ReportNext]_reportVars
----------------------------------------------------------------------------
ReportTypeOK ==
  /\ report.at \in {"idle", "reading", "done", "failed"}
  /\ \A i \in 1..Len(report.answers) : report.answers[i] \in Int
  /\ \A r \in Receipts : receipt[r].status \in {"none", "completed", "voided"}
  /\ traffic \in [value : Nat, count : Nat]

(* What was sold from `first` days ago to `last` days ago, first and last  *)
(* included, when the report began.                                        *)
Sold(first, last) ==
  SumFunctionOnSet([r \in Receipts |-> report.opening[r].total],
    {r \in Receipts : report.opening[r].status = "completed" /\ report.opening[r].age \in last..first})

(* The figures by their names, but for the last: "last month" is to the    *)
(* code from thirty days ago to the start of this month (29, 44), which is *)
(* the month before in part only, and on the 31st is nothing.              *)
TrueFigures ==
  <<Sold(0, 0), Sold(1, 1), Sold(today.weekday, 0), Sold(today.weekday + 7, today.weekday + 1),
    Sold(today.day - 1, 0), Sold(30, today.day)>>

(* Each of the six figures of the summary differs from the sales of its    *)
(* days, for "last month" those of the code's window, by at most what was  *)
(* sold and voided while the report ran, although half of them are         *)
(* differences of two queries that saw different sales                     *)
(* (reports/routes.py:39-44); undisturbed, they are those sales.           *)
FiguresErrByTraffic ==
  report.at = "done" /\ report.kind \in {"summary", "dashboard"} =>
    \A i \in 1..6 :
      Magnitude(SummaryFigures(report.answers)[i] - TrueFigures[i]) <= traffic.value

(* The revenue, the cost of goods and the breakdown of a profit and loss   *)
(* statement come from three queries (reports/routes.py:174-200): they     *)
(* speak of the same sales up to those committed or voided between them.   *)
ProfitAddsUp ==
  report.at = "done" /\ report.kind = "profit" =>
    /\ Magnitude(report.answers[1] - report.answers[3]) <= traffic.value
    /\ Magnitude(report.answers[2] -
         Cardinality({r \in Receipts : report.opening[r].status = "completed"
                                       /\ report.opening[r].age <= 30})) <= traffic.count

(* The units sold and the stock remaining that the dashboard shows side by *)
(* side add up to the stock of thirty days before, up to the sales and     *)
(* voids that committed between the two reads (reports/routes.py:64-90).   *)
UnitsAreAccountedFor ==
  report.at = "done" /\ report.kind = "dashboard" =>
    Magnitude((report.answers[10] + report.answers[11]) -
      Cardinality({r \in Receipts : ~ (report.opening[r].status = "completed"
                                        /\ report.opening[r].age > 30)})) <= traffic.count

(* Figures of one report that belong together differ by no more than what  *)
(* was sold and voided between their queries (reports/routes.py:22-244).   *)
ReportsErrByTraffic == FiguresErrByTraffic /\ ProfitAddsUp /\ UnitsAreAccountedFor
=============================================================================
