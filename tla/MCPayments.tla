----------------------------- MODULE MCPayments -----------------------------
(* Small instances of Payments for TLC.                                    *)
EXTENDS Payments, TLC

CONSTANTS r1, r2, r3, r4

RequestSymmetry == Permutations(Requests)
=============================================================================
