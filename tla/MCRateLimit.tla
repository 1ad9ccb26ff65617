----------------------------- MODULE MCRateLimit -----------------------------
(* Small instances of RateLimit for TLC.                                   *)
EXTENDS RateLimit, TLC

CONSTANTS c1, c2, c3, c4, onAuth, onPayments

(* As in DEFAULT_LIMITS, payments may call more often than auth.           *)
PrefixLimits == (onAuth :> 1) @@ (onPayments :> 2)

(* All calls of one caller: callers meet in the store alone.               *)
OneCaller == {[c \in Calls |-> k] : k \in Keys}

CallSymmetry == Permutations(Calls)
=============================================================================
