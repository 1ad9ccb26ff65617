----------------------------- MODULE StockBook -----------------------------
(***************************************************************************)
(* The stock book a shopkeeper thinks of: every adjustment, sale and void  *)
(* happens at once and counts exactly once.  StockLedger implements it     *)
(* when requests are handled one at a time.                                *)
(***************************************************************************)
EXTENDS Integers, Sequences, Functions

CONSTANTS Requests, Products, Baskets, AdjustQuantities, OpeningStock

VARIABLES
  onHand,   \* the quantity of each product
  sold      \* what each sale took away and whether it still stands

bvars == <<onHand, sold>>

Unsold == [status |-> "none", basket |-> <<>>]

Quantity(basket, p) ==
  SumFunction([k \in DOMAIN basket |-> IF basket[k].product = p THEN basket[k].quantity ELSE 0])

BookInit ==
  /\ onHand = [p \in Products |-> OpeningStock]
  /\ sold = [s \in Requests |-> Unsold]

(* Add or remove; what is not there cannot be removed.                     *)
Adjust(p, q) ==
  /\ onHand[p] + q >= 0
  /\ onHand' = [onHand EXCEPT ![p] = @ + q]
  /\ UNCHANGED sold

(* A sale takes its basket, in stock or not.                               *)
Sell(s, basket) ==
  /\ sold[s] = Unsold
  /\ sold' = [sold EXCEPT ![s] = [status |-> "completed", basket |-> basket]]
  /\ onHand' = [p \in Products |-> onHand[p] - Quantity(basket, p)]

(* A standing sale is voided, once, and its basket put back.               *)
Void(s) ==
  /\ sold[s].status = "completed"
  /\ sold' = [sold EXCEPT ![s].status = "voided"]
  /\ onHand' = [p \in Products |-> onHand[p] + Quantity(sold[s].basket, p)]

BookNext ==
  \/ \E p \in Products, q \in AdjustQuantities : Adjust(p, q)
  \/ \E s \in Requests, basket \in Baskets : Sell(s, basket)
  \/ \E s \in Requests : Void(s)

BookSpec == BookInit /\ [][BookNext]_bvars
=============================================================================
