----------------------------- MODULE FixedWindow -----------------------------
(***************************************************************************)
(* The limiter core/ratelimit.py sets out to be ("fixed-window counter",   *)
(* line 3; "20 auth attempts / min", line 93), one window per counter: the *)
(* first call opens it, it serves its limit of calls and refuses the rest  *)
(* until more than Window has passed since it opened.                      *)
(***************************************************************************)
EXTENDS Integers

CONSTANTS Calls, Counters, Limit, Window   \* each counter has its limit

VARIABLES
  clock,
  opened,   \* when the window of a counter opened
  served,   \* how many calls it has served, 0 before the first
  verdict   \* what each call was told

wvars == <<clock, opened, served, verdict>>

WindowInit ==
  /\ clock = 0
  /\ opened = [n \in Counters |-> 0]
  /\ served = [n \in Counters |-> 0]
  /\ verdict = [c \in Calls |-> "none"]

Over(n) == served[n] = 0 \/ clock - opened[n] > Window

Told(c, answer) ==
  /\ verdict[c] = "none"
  /\ verdict' = [verdict EXCEPT ![c] = answer]

ServeFirst(c, n) ==
  /\ Over(n)
  /\ Told(c, "served")
  /\ opened' = [opened EXCEPT ![n] = clock]
  /\ served' = [served EXCEPT ![n] = 1]
  /\ UNCHANGED clock

Serve(c, n) ==
  /\ ~Over(n) /\ served[n] < Limit[n]
  /\ Told(c, "served")
  /\ served' = [served EXCEPT ![n] = @ + 1]
  /\ UNCHANGED <<clock, opened>>

Refuse(c, n) ==
  /\ ~Over(n) /\ served[n] = Limit[n]
  /\ Told(c, "refused")
  /\ UNCHANGED <<clock, opened, served>>

Advance == /\ clock' = clock + 1
           /\ UNCHANGED <<opened, served, verdict>>

(* Nothing but the clock moves unless a call is told something.            *)
WindowNext ==
  \/ Advance
  \/ \E c \in Calls :
       /\ verdict'[c] # verdict[c]
       /\ \E n \in Counters : ServeFirst(c, n) \/ Serve(c, n) \/ Refuse(c, n)

WindowSpec == WindowInit /\ [][WindowNext]_wvars
=============================================================================
