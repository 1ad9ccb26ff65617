------------------------------ MODULE RateLimit ------------------------------
(***************************************************************************)
(* core/ratelimit.py: the middleware in front of /auth and /payments, the  *)
(* store it builds on first use, and the two kinds of store.  A call that  *)
(* finds no store awaits a ping of Redis and then installs what it found,  *)
(* whatever another call installed meanwhile.  Counting in memory has no   *)
(* await; counting in Redis is one atomic pipeline and a TTL query after.  *)
(*                                                                         *)
(* Time is in ticks, Second ticks to a second: the code keeps fractions    *)
(* and rounds the seconds it reports.                                      *)
(***************************************************************************)
EXTENDS Integers, FiniteSets

CONSTANTS
  Calls,           \* requests to a limited prefix
  Keys,            \* prefix, client and user, joined by the middleware
  Callers,         \* which key each call may have
  NoStore, Redis,
  Limit,           \* of each key: its prefix has one
  WindowSeconds, Second,
  RedisUrls,       \* may settings.REDIS_URL be set, may it be empty?
  MaxTime, MaxCrashes

Window == WindowSeconds * Second

ASSUME CallsAssumption == IsFiniteSet(Calls)
ASSUME LimitAssumption == Limit \in [Keys -> Nat \ {0}]
ASSUME KeyAssumption == Callers \subseteq [Calls -> Keys]
ASSUME TimeAssumption ==
  WindowSeconds \in Nat \ {0} /\ Second \in Nat \ {0} /\ MaxTime \in Nat /\ MaxCrashes \in Nat
ASSUME StoreAssumption ==
  NoStore \notin Calls \cup {Redis} /\ Redis \notin Calls /\ RedisUrls \subseteq BOOLEAN

VARIABLES
  now,
  redisUrl,   \* whether settings.REDIS_URL is set
  store,      \* the module's _store; a memory store is named after the call that built it
  buckets,    \* per store and key: hits, and since when they count
  pc,
  key, using, \* the call's key and the store it was given
  count, told,\* what incr returned: hits and seconds to wait
  crashes,
  when        \* history: when the call was counted

vars == <<now, redisUrl, store, buckets, pc, key, using, count, told, crashes, when>>
locals == <<key, using, count, told, when>>

Stores == Calls \cup {Redis}
Empty == [since |-> 0, count |-> 0]
InFlight == {"ping", "pipe", "ttl"}
Goto(c, label) == pc' = [pc EXCEPT ![c] = label]

Init ==
  /\ now = 0
  /\ redisUrl \in RedisUrls
  /\ store = NoStore
  /\ buckets = [s \in Stores |-> [k \in Keys |-> Empty]]
  /\ pc = [c \in Calls |-> "new"]
  /\ key \in Callers
  /\ using = [c \in Calls |-> NoStore]
  /\ count = [c \in Calls |-> 0]
  /\ told = [c \in Calls |-> 0]
  /\ when = [c \in Calls |-> 0]
  /\ crashes = 0
----------------------------------------------------------------------------
(* Faulty: the last call of the limit is refused already.                  *)
VerdictAtLimit(k, n) == IF n >= Limit[k] THEN "refused" ELSE "admitted"
(* Faulty: one call too many.                                              *)
VerdictBeyondLimit(k, n) == IF n > Limit[k] + 1 THEN "refused" ELSE "admitted"
(* The middleware's decision, line 130.                                    *)
Verdict(k, n) == IF n > Limit[k] THEN "refused" ELSE "admitted"

(* Faulty: every hit starts the window anew.                               *)
MemoryWindowSliding(b) ==
  IF b.count = 0 \/ now - b.since > Window THEN [since |-> now, count |-> 1]
                                           ELSE [since |-> now, count |-> b.count + 1]
(* Lines 39-44: the bucket after one more hit.                             *)
MemoryWindow(b) ==
  IF b.count = 0 \/ now - b.since > Window THEN [since |-> now, count |-> 1]
                                           ELSE [b EXCEPT !.count = @ + 1]

(* Faulty: reports the time gone by instead of the time left.              *)
SecondsGone(b) == (now - b.since) \div Second
(* Line 45; int() truncates.                                               *)
SecondsLeft(b) == (b.since + Window - now) \div Second

Counted(c, s, b) ==
  /\ using' = [using EXCEPT ![c] = s]
  /\ buckets' = [buckets EXCEPT ![s][key[c]] = b]
  /\ count' = [count EXCEPT ![c] = b.count]
  /\ when' = [when EXCEPT ![c] = now]

MemoryIncr(c, s) ==
  LET b == MemoryWindow(buckets[s][key[c]])
  IN  /\ Counted(c, s, b)
      /\ told' = [told EXCEPT ![c] = SecondsLeft(b)]
      /\ Goto(c, Verdict(key[c], b.count))

(* incr on the store the call was given: memory answers at once.           *)
Incr(c, s) ==
  IF s = Redis
    THEN /\ using' = [using EXCEPT ![c] = Redis]
         /\ Goto(c, "pipe")
         /\ UNCHANGED <<buckets, count, told, when>>
    ELSE MemoryIncr(c, s)

(* Faulty: every call builds a store of its own.                           *)
ArriveBuilding(c) ==
  /\ pc[c] = "new"
  /\ IF redisUrl THEN Goto(c, "ping") /\ UNCHANGED <<store, buckets, using, count, told, when>>
                 ELSE store' = c /\ Incr(c, c)
  /\ UNCHANGED <<now, redisUrl, key, crashes>>

(* dispatch and get_ratelimit_store, 67-89, up to the first await.         *)
Arrive(c) ==
  /\ pc[c] = "new"
  /\ CASE store # NoStore -> Incr(c, store) /\ UNCHANGED store
       [] store = NoStore /\ redisUrl -> /\ Goto(c, "ping")
                                         /\ UNCHANGED <<store, buckets, using, count, told, when>>
       [] OTHER -> store' = c /\ Incr(c, c)
  /\ UNCHANGED <<now, redisUrl, key, crashes>>

(* 75-84: Redis answers within a second, or memory takes its place.        *)
PingAnswered(c) ==
  /\ pc[c] = "ping"
  /\ store' = Redis
  /\ Incr(c, Redis)
  /\ UNCHANGED <<now, redisUrl, key, crashes>>

PingFailed(c) ==
  /\ pc[c] = "ping"
  /\ store' = c
  /\ Incr(c, c)
  /\ UNCHANGED <<now, redisUrl, key, crashes>>

(* Lines 54-57: INCR creates an expired key again, EXPIRE restarts it.     *)
RedisWindow(b) ==
  IF b.count = 0 \/ now >= b.since + Window THEN [since |-> now, count |-> 1]
                                            ELSE [since |-> now, count |-> b.count + 1]

RedisIncr(c) ==
  /\ pc[c] = "pipe"
  /\ Counted(c, Redis, RedisWindow(buckets[Redis][key[c]]))
  /\ Goto(c, "ttl")
  /\ UNCHANGED <<now, redisUrl, store, key, told, crashes>>

(* TTL rounds to the nearest second and is negative for a missing key.     *)
Ttl(b) ==
  LET left == b.since + Window - now
  IN  IF left > 0 THEN (2 * left + Second) \div (2 * Second) ELSE 0 - 2

(* Faulty: the negative answer is reported as it came.                     *)
RedisTtlRaw(c) ==
  /\ pc[c] = "ttl"
  /\ told' = [told EXCEPT ![c] = Ttl(buckets[Redis][key[c]])]
  /\ Goto(c, Verdict(key[c], count[c]))
  /\ UNCHANGED <<now, redisUrl, store, buckets, key, using, count, when, crashes>>

RedisTtl(c) ==
  LET ttl == Ttl(buckets[Redis][key[c]])
  IN  /\ pc[c] = "ttl"
      /\ told' = [told EXCEPT ![c] = IF ttl < 0 THEN 0 ELSE ttl]
      /\ Goto(c, Verdict(key[c], count[c]))
      /\ UNCHANGED <<now, redisUrl, store, buckets, key, using, count, when, crashes>>

(* Nothing catches an error of Redis: the request fails.                   *)
RedisError(c) ==
  /\ pc[c] \in {"pipe", "ttl"}
  /\ Goto(c, "failed")
  /\ UNCHANGED <<now, redisUrl, store, buckets, locals, crashes>>
----------------------------------------------------------------------------
Tick ==
  /\ now < MaxTime
  /\ now' = now + 1
  /\ UNCHANGED <<redisUrl, store, buckets, pc, locals, crashes>>

(* The process restarts: memory stores are gone, Redis is not.             *)
Crash ==
  /\ crashes < MaxCrashes
  /\ crashes' = crashes + 1
  /\ store' = NoStore
  /\ pc' = [c \in Calls |-> IF pc[c] \in InFlight THEN "lost" ELSE pc[c]]
  /\ UNCHANGED <<now, redisUrl, buckets, locals>>

Handle(c) ==
  \/ Arrive(c) \/ PingAnswered(c) \/ PingFailed(c)
  \/ RedisIncr(c) \/ RedisTtl(c) \/ RedisError(c)

Next == (\E c \in Calls : Handle(c)) \/ Tick \/ Crash

Spec == Init /\ [][Next]_vars
----------------------------------------------------------------------------
(* Every variable has its type.                                            *)
TypeOK ==
  /\ now \in 0..MaxTime /\ crashes \in 0..MaxCrashes
  /\ redisUrl \in BOOLEAN
  /\ store \in Stores \cup {NoStore}
  /\ buckets \in [Stores -> [Keys -> [since : 0..MaxTime, count : Nat]]]
  /\ pc \in [Calls -> {"new", "ping", "pipe", "ttl", "admitted", "refused", "failed", "lost"}]
  /\ key \in [Calls -> Keys]
  /\ using \in [Calls -> Stores \cup {NoStore}]
  /\ count \in [Calls -> Nat] /\ told \in [Calls -> Nat]
  /\ when \in [Calls -> 0..MaxTime]

(* Counted and let through, even if Redis then fails or the answer is lost. *)
Passed(c) == count[c] # 0 /\ Verdict(key[c], count[c]) = "admitted"
SameCounter(c, d) == using[c] = using[d] /\ key[c] = key[d]
PassedFrom(c, from, to) ==
  {d \in Calls : Passed(d) /\ SameCounter(c, d) /\ when[d] \in from..to}

(* However the calls fall, no stretch of Window lets more than 2 * Limit-1 *)
(* through one memory store (the tail of one window and the next), nor     *)
(* more than Limit through Redis, whose window follows the last call.      *)
PassesAreBounded ==
  \A c \in Calls : Passed(c) =>
    Cardinality(PassedFrom(c, when[c], when[c] + Window - 1))
      <= IF using[c] = Redis THEN Limit[key[c]] ELSE 2 * Limit[key[c]] - 1

(* A memory store refuses a caller only when Limit calls of this key were  *)
(* admitted within the last Window.                                        *)
RefusalIsEarned ==
  \A c \in Calls : (pc[c] = "refused" /\ using[c] # Redis) =>
    Cardinality(PassedFrom(c, when[c] - Window, when[c])) >= Limit[key[c]]

(* A caller of a memory store who waited a second more than it was told is *)
(* refused again only because others were admitted after it was told.      *)
RetryAfterIsHonest ==
  \A c, d \in Calls :
    (/\ pc[c] = "refused" /\ pc[d] = "refused"
     /\ SameCounter(c, d) /\ using[c] # Redis
     /\ when[d] >= when[c] + (told[c] + 1) * Second)
      => Cardinality(PassedFrom(c, when[c] + 1, when[d])) >= Limit[key[c]]

(* The store calls are counted in is replaced only by a call that found    *)
(* none and whose ping ends, or by a restart.                              *)
StoreIsReplacedOnlyByARacer ==
  [][(store # NoStore /\ store' # store) =>
       (crashes' # crashes \/ \E c \in Calls : pc[c] = "ping" /\ pc'[c] # "ping")]_vars

(* ratelimit.py:3 and :93: a fixed window, 20 attempts a minute, whatever  *)
(* the store: a refusal follows Limit admissions within the last Window.   *)
EveryStoreIsAFixedWindow ==
  \A c \in Calls : pc[c] = "refused" =>
    Cardinality(PassedFrom(c, when[c] - Window, when[c])) >= Limit[key[c]]

(* The memory stores are fixed windows: the hits beyond Limit, the pings,  *)
(* the races to build a store and the restarts are invisible.              *)
MemoryCounters == Calls \X Keys
AtMostLimit(k, n) == IF n > Limit[k] THEN Limit[k] ELSE n
FW == INSTANCE FixedWindow WITH
  Counters <- MemoryCounters,
  Limit <- [n \in MemoryCounters |-> Limit[n[2]]],
  clock <- now,
  opened <- [n \in MemoryCounters |-> buckets[n[1]][n[2]].since],
  served <- [n \in MemoryCounters |-> AtMostLimit(n[2], buckets[n[1]][n[2]].count)],
  verdict <- [c \in Calls |-> IF using[c] = Redis THEN "none"
                              ELSE CASE pc[c] = "admitted" -> "served"
                                     [] pc[c] = "refused" -> "refused"
                                     [] OTHER -> "none"]
MemoryIsAFixedWindow == FW!WindowSpec
=============================================================================
