----------------------------- MODULE MCEntrance -----------------------------
(* Small instances of two parts that meet callers from outside: the        *)
(* limiter in front of /auth and /payments, and the payments behind it.    *)
(* They share no state: a behaviour is one of the part it began with.  The *)
(* calls of the one are named like the requests of the other.              *)
EXTENDS MCRateLimit, Payments

VARIABLE part

(* A part that is not looked at has one beginning.                         *)
EntranceInit ==
  /\ part \in {"limiter", "payments"}
  /\ Init /\ PaymentsInit
  /\ part # "limiter" => ~redisUrl /\ key \in [Calls -> {onAuth}]
  /\ part # "payments" => ~mock

(* The limiter's clock stops at its bound; the payments may not get stuck. *)
Rests == part = "limiter" /\ UNCHANGED <<vars, paymentVars>>

EntranceNext ==
  /\ UNCHANGED part
  /\ \/ part = "limiter" /\ Next /\ UNCHANGED paymentVars
     \/ part = "payments" /\ PaymentsNext /\ UNCHANGED vars
     \/ Rests

EntranceSpec == EntranceInit /\ [][EntranceNext]_<<part, vars, paymentVars>>
=============================================================================
