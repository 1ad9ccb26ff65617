---------------------------- MODULE BusinessDNA ----------------------------
(***************************************************************************)
(* The profile of a business, app/services/dna.py: a category signature,   *)
(* customer segments and a health score, from a dozen queries run one      *)
(* after another while the shop goes on, with an entry in the business     *)
(* memory for each, committed with the request.                            *)
(*                                                                         *)
(* K-means puts each customer into one of four clusters; which one is left *)
(* open.  The suppliers all get the same score and play no part.           *)
(***************************************************************************)
EXTENDS Integers, Sequences, FiniteSets, FiniteSetsExt, Functions

CONSTANTS
  Purchases, Patrons, Shelves,  \* sales, customers and batches of the business
  PurchaseTotals,               \* a discount may exceed the goods
  PurchaseAges,                 \* days since the sale
  MinCustomers,                 \* 5 in the code
  MaxTraffic                    \* bound: changes committed during a profile

ASSUME DNAAssumption ==
  /\ IsFiniteSet(Purchases) /\ IsFiniteSet(Patrons) /\ IsFiniteSet(Shelves)
  /\ PurchaseTotals \subseteq Int /\ PurchaseAges \subseteq Nat
  /\ MinCustomers \in Nat /\ MaxTraffic \in Nat

VARIABLES
  shop,     \* the committed rows: purchase, patron, shelf
  profile,  \* kind, the answers of the queries so far
  signs,    \* the committed memory entries of the profile
  changes   \* history: how many changes were committed during the profile

dnaVars == <<shop, profile, signs, changes>>

Missing == [there |-> FALSE, total |-> 0, age |-> 0]
NewPatron == [there |-> TRUE, visits |-> 0, credit |-> 0, limit |-> 0]

DNAInit ==
  /\ shop \in [purchase : [Purchases -> {Missing} \cup
                             [there : {TRUE}, total : PurchaseTotals, age : PurchaseAges]],
               patron : [Patrons -> {[NewPatron EXCEPT !.there = FALSE],
                                     [NewPatron EXCEPT !.visits = 2]}],
               shelf : [Shelves -> {"none", "low"}]]
  /\ profile \in [at : {"running"}, kind : {"health", "profile"}, answers : {<< >>}]
  /\ signs = {}
  /\ changes = 0
----------------------------------------------------------------------------
MadeWithin(first, last) ==
  {s \in Purchases : shop.purchase[s].there /\ shop.purchase[s].age \in last .. first - 1}
Takings(sales) == [sum |-> SumFunctionOnSet([s \in Purchases |-> shop.purchase[s].total], sales),
                   count |-> Cardinality(sales)]
OnFile == {p \in Patrons : shop.patron[p].there}
Ever == 1000000

(* The queries, each answered with what is committed when it runs.         *)
AnswerOf(query) ==
  CASE query = "age"        -> IF MadeWithin(Ever, 0) = {} THEN 0
                               ELSE Max({shop.purchase[s].age : s \in MadeWithin(Ever, 0)})
    [] query = "categories" -> Cardinality(MadeWithin(31, 0))
    [] query = "regulars"   -> Cardinality({p \in OnFile : shop.patron[p].visits > 0})
    [] query = "all_sales"  -> Takings(MadeWithin(Ever, 0))
    [] query = "week"       -> Takings(MadeWithin(8, 0))
    [] query = "customers"  -> Cardinality(OnFile)
    [] query = "repeat"     -> Cardinality({p \in OnFile : shop.patron[p].visits >= 2})
    [] query = "batches"    -> Cardinality({b \in Shelves : shop.shelf[b] # "none"})
    [] query = "low"        -> Cardinality({b \in Shelves : shop.shelf[b] = "low"})
    [] query = "credit"     -> SumFunctionOnSet([p \in Patrons |-> shop.patron[p].credit], OnFile)
    [] query = "limits"     -> SumFunctionOnSet([p \in Patrons |-> shop.patron[p].limit], OnFile)
    [] query = "this_month" -> Takings(MadeWithin(31, 0)).sum
    [] query = "last_month" -> Takings(MadeWithin(61, 31)).sum

HealthQueries == <<"all_sales", "week", "customers", "repeat", "batches", "low",
                   "credit", "limits", "this_month", "last_month">>

(* full_dna_profile: _has_data is asked before the categories and before   *)
(* the customers; what it gates is read, or skipped, right after.          *)
DNAQueries == IF profile.kind = "health" THEN HealthQueries
              ELSE <<"age", "categories", "age", "regulars">> \o HealthQueries

RunDNAQuery ==
  /\ profile.at = "running" /\ Len(profile.answers) < Len(DNAQueries)
  /\ profile' = [profile EXCEPT !.answers =
                   Append(@, AnswerOf(DNAQueries[Len(@) + 1]))]
  /\ UNCHANGED <<shop, signs, changes>>

(* The answers of the health queries.                                      *)
Health(i) == profile.answers[Len(profile.answers) - 10 + i]
OrOne(n) == IF n = 0 THEN 1 ELSE n
AtLeastOne(n) == Max({n, 1})
(* int() of a quotient.                                                    *)
Truncated(n, d) == IF n < 0 THEN -((-n) \div d) ELSE n \div d

(* 220-235: the average of the week over the average of all, the latter    *)
(* one at least, in thirtieths; an average is sum / count.                 *)
RevenueHealth ==
  LET all == Health(1)   week == Health(2)
      average == IF all.count = 0 THEN [sum |-> 1, count |-> 1]
                 ELSE [all EXCEPT !.sum = Max({@, all.count})]
  IN  Min({30, Truncated(30 * week.sum * average.count, AtLeastOne(week.count) * average.sum)})

(* 251.                                                                    *)
Retention == Min({25, Truncated(25 * Health(4), AtLeastOne(Health(3)))})

(* Faulty: a share is trusted to be a share.                               *)
StockHealthUnbounded == 25 - Truncated(25 * Health(6), AtLeastOne(OrOne(Health(5))))
(* 269.                                                                    *)
StockHealth == Min({25, Max({0, 25 - Truncated(25 * Health(6), AtLeastOne(OrOne(Health(5))))})})
(* 283.                                                                    *)
CreditHealth == Min({20, Max({0, 20 - Truncated(20 * Health(7), AtLeastOne(OrOne(Health(8))))})})

Score == RevenueHealth + Retention + StockHealth + CreditHealth

(* Faulty: the last month over this one.                                   *)
TrendInverted ==
  LET this == OrOne(Health(9)) IN
  IF 10 * Health(10) > 11 * this THEN "improving"
  ELSE IF 10 * Health(10) < 9 * this THEN "declining" ELSE "stable"
(* _determine_trend: this month over the last, which is one if it was none *)
(* and may be negative; in elevenths and ninths of ten.                    *)
Trend ==
  LET last == OrOne(Health(10))
      above == IF last > 0 THEN 10 * Health(9) > 11 * last ELSE 10 * Health(9) < 11 * last
      below == IF last > 0 THEN 10 * Health(9) < 9 * last ELSE 10 * Health(9) > 9 * last
  IN  IF above THEN "improving" ELSE IF below THEN "declining" ELSE "stable"

(* _has_data.                                                              *)
HasData(age) == age >= 14

(* The entries a profile leaves: the top category, the cluster named       *)
(* "high_value" if anyone fell into it, and the score.                     *)
Entries(clustered) ==
  LET a == profile.answers IN
  (IF profile.kind = "profile" /\ HasData(a[1]) /\ a[2] > 0 THEN {"category"} ELSE {})
    \cup (IF profile.kind = "profile" /\ HasData(a[3]) /\ a[4] >= MinCustomers /\ clustered
          THEN {"segments"} ELSE {})
    \cup {"health"}

(* memory.store, three times at most, and one commit for all.              *)
CommitProfile ==
  /\ profile.at = "running" /\ Len(profile.answers) = Len(DNAQueries)
  /\ \E clustered \in BOOLEAN : signs' = Entries(clustered)
  /\ profile' = [profile EXCEPT !.at = "done"]
  /\ UNCHANGED <<shop, changes>>

(* An error anywhere, or a restart: none of the entries stays.             *)
LoseProfile ==
  /\ profile.at = "running" /\ profile.answers # << >>
  /\ profile' = [profile EXCEPT !.at = "failed"]
  /\ UNCHANGED <<shop, signs, changes>>

(* What others commit meanwhile.                                           *)
ShopChanges ==
  /\ profile.at = "running" /\ changes < MaxTraffic
  /\ changes' = changes + 1
  /\ \/ \E s \in Purchases :
          IF shop.purchase[s].there
          THEN shop' = [shop EXCEPT !.purchase[s] = Missing]   \* voided
          ELSE \E t \in PurchaseTotals :
                 shop' = [shop EXCEPT !.purchase[s] = [there |-> TRUE, total |-> t, age |-> 0]]
     \/ \E p \in Patrons :
          \/ ~ shop.patron[p].there /\ shop' = [shop EXCEPT !.patron[p].there = TRUE]
          \/ /\ shop.patron[p].there
             /\ \/ shop' = [shop EXCEPT !.patron[p].visits = 2]
                \/ shop' = [shop EXCEPT !.patron[p].credit = 1]
                \/ \E limit \in {0, 1} : shop' = [shop EXCEPT !.patron[p].limit = limit]
     \/ \E b \in Shelves, level \in {"full", "low"} : shop' = [shop EXCEPT !.shelf[b] = level]
  /\ UNCHANGED <<profile, signs>>

DNANext == RunDNAQuery \/ CommitProfile \/ LoseProfile \/ ShopChanges

DNASpec == DNAInit /\ [][DNANext]_dnaVars
----------------------------------------------------------------------------
Complete == profile.at # "failed" /\ Len(profile.answers) = Len(DNAQueries)

DNATypeOK ==
  /\ profile.at \in {"running", "done", "failed"} /\ changes \in 0..MaxTraffic
  /\ signs \subseteq {"category", "segments", "health"}
  /\ Complete => Trend \in {"improving", "declining", "stable"}

(* "overall business health score (0-100)" (dna.py:213): whatever commits  *)
(* between the queries, no component leaves its range (dna.py:234-286),    *)
(* but for the revenue of a week in which discounts exceeded the sales.    *)
ScoreIsBounded ==
  Complete =>
    /\ RevenueHealth <= 30 /\ (Health(2).sum >= 0 => RevenueHealth >= 0)
    /\ Retention \in 0..25 /\ StockHealth \in 0..25 /\ CreditHealth \in 0..20
    /\ Score <= 100

(* The trend goes with the takings (dna.py:328-336): a month better than   *)
(* the last is never "declining", a worse one never "improving", and two   *)
(* equal months are "stable", unless the last one brought nothing.         *)
TrendFollowsTakings ==
  Complete /\ Health(10) >= 0 =>
    /\ Health(9) > Health(10) => Trend # "declining"
    /\ Health(9) < Health(10) => Trend # "improving"
    /\ Health(9) = Health(10) /\ Health(10) > 0 => Trend = "stable"

(* Score and trend stay what they are called (dna.py:213, 328-336) while   *)
(* the shop goes on between the queries they are made of.                  *)
ProfileIsSound == ScoreIsBounded /\ TrendFollowsTakings
=============================================================================
