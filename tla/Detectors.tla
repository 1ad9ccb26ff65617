----------------------------- MODULE Detectors -----------------------------
(***************************************************************************)
(* What app/services/observation.py finds in a month of sales: products    *)
(* that run out, days of unusual revenue, and the observations it makes of *)
(* them.  Sales come in, and a request looks at what there is; the checks  *)
(* that there is enough data are in Advisor.                               *)
(***************************************************************************)
EXTENDS Integers, Sequences, FiniteSets, SequencesExt

CONSTANTS
  Wares,        \* products sold in the last 30 days
  WareKinds,    \* units of one sold in these 30 days, and on hand, less than none included
  ShortQuotients, \* <<sold, stock>> whose floating quotient falls short of a whole number
  DayTotals,    \* revenues of a day
  MostDays,     \* bound: days with sales, 30 in the code
  ObservationLimit \* get_insights(limit)

ASSUME DetectorAssumption ==
  /\ IsFiniteSet(Wares) /\ WareKinds \subseteq [sold : Nat \ {0}, stock : Int]
  /\ ShortQuotients \subseteq (Nat \ {0}) \X (Nat \ {0})
  /\ \A p \in ShortQuotients : (30 * p[2]) % Max({3, p[1]}) = 0
  /\ DayTotals \subseteq Int /\ MostDays \in Nat /\ ObservationLimit \in Nat \ {0}

VARIABLES
  ware,      \* sold and stock of each product
  revenues,  \* the revenue of each day with a completed sale, in order
  peak,      \* is there a busiest hour?
  told       \* the observations of the last request

detectorVars == <<ware, revenues, peak, told>>

DetectorInit ==
  /\ ware \in [Wares -> WareKinds]
  /\ revenues = << >>
  /\ peak = FALSE
  /\ told = << >>
----------------------------------------------------------------------------
(* Faulty: a part of a day is rounded up.                                  *)
DaysUntilOutUp(w) ==
  LET sold == Max({3, ware[w].sold}) IN (30 * ware[w].stock + sold - 1) \div sold
(* int(stock / max(sold / 30, 0.1)): truncated towards zero, of a floating *)
(* quotient that may fall short of a whole number: 31 / (31 / 30) < 30,    *)
(* and 31 or 62 on hand of 31 or 62 sold do all.                           *)
DaysUntilOut(w) ==
  LET sold == Max({3, ware[w].sold})
      left == Max({ware[w].stock, -ware[w].stock})
      exact == (30 * left) \div sold
      days == IF <<ware[w].sold, left>> \in ShortQuotients THEN exact - 1 ELSE exact
  IN  IF ware[w].stock < 0 THEN -days ELSE days

ReorderDay(w) == Max({0, DaysUntilOut(w) - 3})

(* round(sold / 30, 1), in tenths.                                         *)
Velocity(w) == (20 * ware[w].sold + 30) \div 60

(* ORDER BY total_qty DESC leaves the order of equals open.                *)
IsBestSellersFirst(order) ==
  \A i, j \in 1..Len(order) : i < j => ware[order[i]].sold >= ware[order[j]].sold

(* Faulty: the first three are looked at only while they sell fast.        *)
MoverObservationFast(w) ==
  IF Velocity(w) > 50 THEN <<[type |-> "fast_mover", about |-> w]>> ELSE << >>
(* 198-220.                                                                *)
MoverObservation(w) ==
  IF DaysUntilOut(w) <= 3 THEN <<[type |-> "low_stock_warning", about |-> w]>>
  ELSE IF Velocity(w) > 50 THEN <<[type |-> "fast_mover", about |-> w]>> ELSE << >>

(* The k-th of the values of a function, the smallest first.               *)
Ranked(f, k) == Min({v \in Range(f) : Cardinality({i \in DOMAIN f : f[i] <= v}) >= k})

(* numpy's percentile, times four: a weighted mean of two neighbours among *)
(* the sorted values.                                                      *)
FourQuartiles(quarters) ==
  LET position == (Len(revenues) - 1) * quarters
      i == position \div 4 + 1
      past == position % 4
  IN  IF past = 0 THEN 4 * Ranked(revenues, i)
      ELSE (4 - past) * Ranked(revenues, i) + past * Ranked(revenues, i + 1)

(* Faulty: the fences are the quartiles themselves.                        *)
FenceTight(revenue, q1, q3) ==
  IF 4 * revenue > q3 THEN "revenue_spike" ELSE IF 4 * revenue < q1 THEN "revenue_drop" ELSE "usual"
(* 143-165; everything times eight.                                        *)
Fence(revenue, q1, q3) ==
  IF 8 * revenue > 2 * q3 + 3 * (q3 - q1) THEN "revenue_spike"
  ELSE IF 8 * revenue < 2 * q1 - 3 * (q3 - q1) THEN "revenue_drop" ELSE "usual"

Judged(day) == Fence(revenues[day], FourQuartiles(1), FourQuartiles(3))

(* detect_anomalies: in the order of the days; a day without sales has no  *)
(* row, and is no drop.                                                    *)
UnusualDays ==
  IF Len(revenues) < 7 THEN {} ELSE {day \in 1..Len(revenues) : Judged(day) # "usual"}
Anomalies ==
  LET days == [day \in UnusualDays |-> day] IN
  [k \in 1..Cardinality(UnusualDays) |->
     [type |-> Judged(Ranked(days, k)), about |-> Ranked(days, k)]]

(* generate_observations with enough data: the first three movers, if      *)
(* there are as many.                                                      *)
MoverAt(order, i) == IF i <= Len(order) THEN MoverObservation(order[i]) ELSE << >>
Observations(order) ==
  (IF peak THEN <<[type |-> "peak_hours", about |-> 0]>> ELSE << >>)
    \o MoverAt(order, 1) \o MoverAt(order, 2) \o MoverAt(order, 3) \o Anomalies

Orders == SetToSeqs(Wares)

(* get_insights with its limit.  Asked again before the data change it has *)
(* the same answers to give.                                               *)
Observe ==
  /\ told = << >>
  /\ \E order \in Orders :
       /\ IsBestSellersFirst(order)
       /\ told' = SubSeq(Observations(order), 1, Min({ObservationLimit, Len(Observations(order))}))
  /\ UNCHANGED <<ware, revenues, peak>>

(* A day with sales ends.                                                  *)
DayEnds ==
  /\ Len(revenues) < MostDays
  /\ \E revenue \in DayTotals : revenues' = Append(revenues, revenue)
  /\ peak' = TRUE
  /\ told' = << >>
  /\ UNCHANGED ware

DetectorNext == Observe \/ DayEnds

DetectorSpec == DetectorInit /\ [][DetectorNext]_detectorVars
----------------------------------------------------------------------------
Told(type, about) == \E i \in 1..Len(told) : told[i] = [type |-> type, about |-> about]
Count(type) == Cardinality({i \in 1..Len(told) : told[i].type = type})

DetectorTypeOK ==
  /\ Len(told) <= ObservationLimit
  /\ \A i \in 1..Len(told) :
       told[i].type \in {"peak_hours", "low_stock_warning", "fast_mover",
                         "revenue_spike", "revenue_drop"}

(* "Reorder 3 days before empty" (observation.py:113): whoever reorders on *)
(* the day named has stock for three more days at the rate of the month,   *)
(* for all the truncation and the floor put under slow sellers.            *)
ReorderLeavesThreeDays ==
  \A w \in Wares : ReorderDay(w) > 0 =>
    30 * ware[w].stock - ReorderDay(w) * ware[w].sold >= 3 * ware[w].sold

(* A product that sells more than all but two others and will be gone      *)
(* within four days is in the observations, unless the limit cut it off    *)
(* (observation.py:198-210, 239).                                          *)
BestSellersAreWatched ==
  told # << >> /\ Len(told) < ObservationLimit =>
    \A w \in Wares :
      /\ Cardinality({v \in Wares \ {w} : ware[v].sold >= ware[w].sold}) <= 2
      /\ 30 * ware[w].stock < 4 * ware[w].sold
      => Told("low_stock_warning", w)

(* However revenues are spread, at most a quarter of the days are spikes,  *)
(* and at most a quarter are drops (observation.py:143-165).               *)
OutliersAreRare ==
  \A type \in {"revenue_spike", "revenue_drop"} : 4 * Count(type) <= Len(revenues)

(* What is observed is worth acting on (observation.py:85-239): warnings   *)
(* come in time and for what sells, and the unusual is rare.               *)
ObservationsAreSound == ReorderLeavesThreeDays /\ BestSellersAreWatched /\ OutliersAreRare
=============================================================================
