--------------------------- MODULE MCStockLedger ---------------------------
(* Small instances of StockLedger for TLC.                                 *)
EXTENDS StockProperties, TLC

CONSTANTS r1, r2, r3, r4, ann, tea, chips

Item(p, n) == [product |-> p, quantity |-> n]

(* one line; two products in both orders; a product listed twice           *)
OneLine == {<<Item(tea, 1)>>}
CrossedLines == {<<Item(tea, 1), Item(chips, 1)>>, <<Item(chips, 1), Item(tea, 1)>>}
RepeatedLine == {<<Item(tea, 1), Item(tea, 2)>>}
TwoKinds == OneLine \cup {<<Item(chips, 1), Item(tea, 2)>>}
PricedBaskets == {<<Item(tea, 1), Item(tea, 2)>>, <<Item(chips, 1), Item(tea, 1)>>}

UpAndDown == {-2, 1}
WithZero == {-1, 0, 1}

RequestSymmetry == Permutations(Requests)
=============================================================================
