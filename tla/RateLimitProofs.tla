--------------------------- MODULE RateLimitProofs ---------------------------
(***************************************************************************)
(* What holds of RateLimit for every set of calls, keys and limits, and    *)
(* however long the clock runs.                                            *)
(***************************************************************************)
EXTENDS RateLimit, FiniteSetTheorems, TLAPS

(* What the location of a call tells about its locals.                     *)
Located ==
  \A c \in Calls :
    /\ pc[c] \in {"new", "ping"} => using[c] = NoStore /\ count[c] = 0
    /\ pc[c] \in {"pipe", "ttl"} => using[c] = Redis
    /\ pc[c] = "pipe" => count[c] = 0

(* A bucket was opened in the past, and an unused one holds nothing.       *)
BucketsOpened == \A s \in Stores, k \in Keys : buckets[s][k].since <= now

IInv == TypeOK /\ Located /\ BucketsOpened

LEMMA WindowType == Window \in Nat \ {0}
BY TimeAssumption DEF Window

(* A memory bucket after a hit: open, counting, not yet over.              *)
LEMMA MemoryWindowType ==
  ASSUME TypeOK, NEW b \in [since : 0..MaxTime, count : Nat], b.since <= now
  PROVE  /\ MemoryWindow(b) \in [since : 0..MaxTime, count : Nat]
         /\ MemoryWindow(b).count # 0
         /\ MemoryWindow(b).since <= now /\ now - MemoryWindow(b).since <= Window
BY WindowType, TimeAssumption DEF TypeOK, MemoryWindow

LEMMA SecondsLeftType ==
  ASSUME TypeOK, NEW b \in [since : 0..MaxTime, count : Nat], now - b.since <= Window
  PROVE  SecondsLeft(b) \in Nat
<1>1. b.since + Window - now \in Nat
  BY WindowType, TimeAssumption DEF TypeOK
<1> QED
  BY <1>1, TimeAssumption DEF SecondsLeft

LEMMA InitInv == Init => IInv
<1> SUFFICES ASSUME Init PROVE IInv
  OBVIOUS
<1>1. TypeOK
  BY KeyAssumption, TimeAssumption, StoreAssumption DEF Init, TypeOK, Stores, Empty
<1>2. Located
  BY DEF Init, Located
<1>3. BucketsOpened
  BY DEF Init, BucketsOpened, Empty
<1> QED
  BY <1>1, <1>2, <1>3 DEF IInv

(* One hit in memory, by a call that has just been given its store.        *)
LEMMA MemoryIncrInv ==
  ASSUME IInv, NEW c \in Calls, NEW s \in Calls, pc[c] \in {"new", "ping"},
         MemoryIncr(c, s), store' \in Stores \cup {NoStore},
         UNCHANGED <<now, redisUrl, key, crashes>>
  PROVE  IInv'
<1> DEFINE b == MemoryWindow(buckets[s][key[c]])
<1> USE DEF IInv
<1>1. /\ buckets[s][key[c]] \in [since : 0..MaxTime, count : Nat]
      /\ buckets[s][key[c]].since <= now /\ key[c] \in Keys /\ s \in Stores
  BY DEF TypeOK, BucketsOpened, Stores
<1>2. /\ b \in [since : 0..MaxTime, count : Nat] /\ b.since <= now
      /\ now - b.since <= Window
  BY <1>1, MemoryWindowType
<1>3. SecondsLeft(b) \in Nat
  BY <1>2, SecondsLeftType
<1> HIDE DEF b
<1>4. /\ using' = [using EXCEPT ![c] = s]
      /\ buckets' = [buckets EXCEPT ![s][key[c]] = b]
      /\ count' = [count EXCEPT ![c] = b.count]
      /\ when' = [when EXCEPT ![c] = now]
      /\ told' = [told EXCEPT ![c] = SecondsLeft(b)]
      /\ pc' = [pc EXCEPT ![c] = Verdict(key[c], b.count)]
  BY DEF MemoryIncr, Counted, Goto, b
<1>5. Verdict(key[c], b.count) \in {"admitted", "refused"}
  BY DEF Verdict
<1>6. TypeOK'
  BY <1>1, <1>2, <1>3, <1>4, <1>5 DEF TypeOK
<1>7. Located'
  BY <1>4, <1>5 DEF TypeOK, Located
<1>8. BucketsOpened'
  BY <1>1, <1>2, <1>4 DEF TypeOK, BucketsOpened
<1> QED
  BY <1>6, <1>7, <1>8

(* A call is given a store: it counts at once, or starts the pipeline.     *)
LEMMA IncrInv ==
  ASSUME IInv, NEW c \in Calls, NEW s \in Stores, pc[c] \in {"new", "ping"},
         Incr(c, s), store' \in Stores \cup {NoStore},
         UNCHANGED <<now, redisUrl, key, crashes>>
  PROVE  IInv'
<1>1. CASE s = Redis
  <2>1. /\ using' = [using EXCEPT ![c] = Redis]
        /\ pc' = [pc EXCEPT ![c] = "pipe"]
        /\ UNCHANGED <<buckets, count, told, when>>
    BY <1>1 DEF Incr, Goto
  <2>2. TypeOK'
    BY <2>1 DEF IInv, TypeOK, Stores
  <2>3. Located' /\ BucketsOpened'
    BY <2>1 DEF IInv, TypeOK, Located, BucketsOpened
  <2> QED
    BY <2>2, <2>3 DEF IInv
<1>2. CASE s # Redis
  <2>1. s \in Calls /\ MemoryIncr(c, s)
    BY <1>2 DEF Incr, Stores
  <2> QED
    BY <2>1, MemoryIncrInv
<1> QED
  BY <1>1, <1>2

LEMMA RedisWindowType ==
  ASSUME TypeOK, NEW b \in [since : 0..MaxTime, count : Nat]
  PROVE  /\ RedisWindow(b) \in [since : 0..MaxTime, count : Nat]
         /\ RedisWindow(b).since <= now
BY TimeAssumption DEF TypeOK, RedisWindow

LEMMA TtlType ==
  ASSUME TypeOK, NEW b \in [since : 0..MaxTime, count : Nat]
  PROVE  Ttl(b) \in Int
<1>1. /\ b.since + Window - now \in Int /\ Second \in Nat /\ 2 * Second # 0
      /\ 2 * Second \in Nat
  BY WindowType, TimeAssumption DEF TypeOK
<1> QED
  BY <1>1 DEF Ttl

LEMMA NextInv == IInv /\ [Next]_vars => IInv'
<1> SUFFICES ASSUME IInv, [Next]_vars PROVE IInv'
  OBVIOUS
<1> USE DEF IInv
<1>1. CASE \E c \in Calls : Arrive(c)
  <2> PICK c \in Calls : Arrive(c)
    BY <1>1
  <2>1. CASE store # NoStore
    <3>1. store \in Stores /\ Incr(c, store) /\ store' = store
      BY <2>1 DEF Arrive, TypeOK
    <3> QED
      BY <3>1, IncrInv DEF Arrive
  <2>2. CASE store = NoStore /\ redisUrl
    <3>1. pc' = [pc EXCEPT ![c] = "ping"] /\ pc[c] = "new"
          /\ UNCHANGED <<now, redisUrl, store, buckets, key, using, count, told, when, crashes>>
      BY <2>2 DEF Arrive, Goto
    <3>2. TypeOK'
      BY <3>1 DEF TypeOK
    <3>3. Located' /\ BucketsOpened'
      BY <3>1 DEF TypeOK, Located, BucketsOpened
    <3> QED
      BY <3>2, <3>3
  <2>3. CASE store = NoStore /\ ~redisUrl
    <3>1. store' = c /\ Incr(c, c) /\ c \in Stores
      BY <2>3 DEF Arrive, Stores
    <3> QED
      BY <3>1, IncrInv DEF Arrive
  <2> QED
    BY <2>1, <2>2, <2>3
<1>2. CASE \E c \in Calls : PingAnswered(c)
  <2> PICK c \in Calls : PingAnswered(c)
    BY <1>2
  <2>1. Redis \in Stores
    BY DEF Stores
  <2> QED
    BY <2>1, IncrInv DEF PingAnswered
<1>3. CASE \E c \in Calls : PingFailed(c)
  <2> PICK c \in Calls : PingFailed(c)
    BY <1>3
  <2>1. c \in Stores
    BY DEF Stores
  <2> QED
    BY <2>1, IncrInv DEF PingFailed
<1>4. CASE \E c \in Calls : RedisIncr(c)
  <2> PICK c \in Calls : RedisIncr(c)
    BY <1>4
  <2> DEFINE b == RedisWindow(buckets[Redis][key[c]])
  <2>1. key[c] \in Keys /\ Redis \in Stores
        /\ buckets[Redis][key[c]] \in [since : 0..MaxTime, count : Nat]
    BY DEF TypeOK, Stores
  <2>2. b \in [since : 0..MaxTime, count : Nat] /\ b.since <= now
    BY <2>1, RedisWindowType
  <2> HIDE DEF b
  <2>3. /\ using' = [using EXCEPT ![c] = Redis]
        /\ buckets' = [buckets EXCEPT ![Redis][key[c]] = b]
        /\ count' = [count EXCEPT ![c] = b.count]
        /\ when' = [when EXCEPT ![c] = now]
        /\ pc' = [pc EXCEPT ![c] = "ttl"]
        /\ UNCHANGED <<now, redisUrl, store, key, told, crashes>>
    BY DEF RedisIncr, Counted, Goto, b
  <2>4. TypeOK'
    BY <2>1, <2>2, <2>3 DEF TypeOK
  <2>5. Located' /\ BucketsOpened'
    BY <2>1, <2>2, <2>3 DEF TypeOK, Located, BucketsOpened
  <2> QED
    BY <2>4, <2>5
<1>5. CASE \E c \in Calls : RedisTtl(c)
  <2> PICK c \in Calls : RedisTtl(c)
    BY <1>5
  <2> DEFINE ttl == Ttl(buckets[Redis][key[c]])
             t == IF ttl < 0 THEN 0 ELSE ttl
  <2>1. buckets[Redis][key[c]] \in [since : 0..MaxTime, count : Nat]
    BY DEF TypeOK, Stores
  <2>2. t \in Nat
    BY <2>1, TtlType
  <2> HIDE DEF t, ttl
  <2>3. /\ told' = [told EXCEPT ![c] = t]
        /\ pc' = [pc EXCEPT ![c] = Verdict(key[c], count[c])]
        /\ UNCHANGED <<now, redisUrl, store, buckets, key, using, count, when, crashes>>
    BY DEF RedisTtl, Goto, t, ttl
  <2>4. Verdict(key[c], count[c]) \in {"admitted", "refused"}
    BY DEF Verdict
  <2>5. TypeOK'
    BY <2>2, <2>3, <2>4 DEF TypeOK
  <2>6. Located' /\ BucketsOpened'
    BY <2>3, <2>4 DEF TypeOK, Located, BucketsOpened
  <2> QED
    BY <2>5, <2>6
<1>6. CASE \E c \in Calls : RedisError(c)
  BY <1>6 DEF TypeOK, Located, BucketsOpened, RedisError, Goto, locals
<1>7. CASE Tick
  <2>1. TypeOK'
    BY <1>7, TimeAssumption DEF TypeOK, Tick, locals
  <2>2. BucketsOpened'
    BY <1>7 DEF TypeOK, BucketsOpened, Tick
  <2>3. Located'
    BY <1>7 DEF Located, Tick, locals
  <2> QED
    BY <2>1, <2>2, <2>3
<1>8. CASE Crash
  <2>1. TypeOK'
    BY <1>8, TimeAssumption DEF TypeOK, Crash, locals, InFlight
  <2>2. Located' /\ BucketsOpened'
    BY <1>8 DEF TypeOK, Located, BucketsOpened, Crash, locals, InFlight
  <2> QED
    BY <2>1, <2>2
<1>9. CASE UNCHANGED vars
  BY <1>9 DEF vars, TypeOK, Located, BucketsOpened
<1> QED
  BY <1>1, <1>2, <1>3, <1>4, <1>5, <1>6, <1>7, <1>8, <1>9 DEF Next, Handle

THEOREM Invariance == Spec => []IInv
<1> QED
  BY InitInv, NextInv, PTL DEF Spec

(* Every reachable state is well typed; in particular no caller is told to *)
(* wait a negative number of seconds.                                      *)
THEOREM TypeCorrect == Spec => []TypeOK
<1>1. IInv => TypeOK
  BY DEF IInv
<1> QED
  BY <1>1, Invariance, PTL

(* A call that is counted, or turns to Redis, waits for no ping.           *)
LEMMA CountedIsNotPinging ==
  ASSUME IInv, NEW c \in Calls, NEW s \in Stores, Incr(c, s)
  PROVE  pc'[c] # "ping"
<1>1. c \in DOMAIN pc
  BY DEF IInv, TypeOK
<1>2. CASE s = Redis
  BY <1>1, <1>2 DEF Incr, Goto
<1>3. CASE s # Redis
  BY <1>1, <1>3 DEF Incr, MemoryIncr, Goto, Verdict
<1> QED
  BY <1>2, <1>3

(* The store calls are counted in, once there, is replaced only by a call  *)
(* that found none and whose ping ends, or by a restart.                   *)
THEOREM StoreSettles == Spec => StoreIsReplacedOnlyByARacer
<1> DEFINE Replaced ==
      (store # NoStore /\ store' # store) =>
        (crashes' # crashes \/ \E c \in Calls : pc[c] = "ping" /\ pc'[c] # "ping")
<1>1. IInv /\ [Next]_vars => Replaced
  <2> SUFFICES ASSUME IInv, [Next]_vars, store # NoStore, store' # store
               PROVE  crashes' # crashes \/ \E c \in Calls : pc[c] = "ping" /\ pc'[c] # "ping"
    OBVIOUS
  <2>1. ASSUME NEW c \in Calls, PingAnswered(c) \/ PingFailed(c)
        PROVE  pc[c] = "ping" /\ pc'[c] # "ping"
    <3>1. \E s \in Stores : pc[c] = "ping" /\ Incr(c, s)
      BY <2>1 DEF PingAnswered, PingFailed, Stores
    <3> QED
      BY <3>1, CountedIsNotPinging
  <2>2. CASE Crash
    BY <2>2, TimeAssumption DEF Crash, IInv, TypeOK
  <2>3. CASE \E c \in Calls : Arrive(c)
    BY <2>3 DEF Arrive
  <2>4. CASE (\E c \in Calls : RedisIncr(c) \/ RedisTtl(c) \/ RedisError(c)) \/ Tick
    BY <2>4 DEF RedisIncr, RedisTtl, RedisError, Tick
  <2>5. CASE UNCHANGED vars
    BY <2>5 DEF vars
  <2> QED
    BY <2>1, <2>2, <2>3, <2>4, <2>5 DEF Next, Handle
<1> QED
  BY <1>1, Invariance, PTL DEF Spec, StoreIsReplacedOnlyByARacer
----------------------------------------------------------------------------
(* Memory implements the fixed window.                                     *)
Opened == [n \in MemoryCounters |-> buckets[n[1]][n[2]].since]
Served == [n \in MemoryCounters |-> AtMostLimit(n[2], buckets[n[1]][n[2]].count)]
VerdictSeen == [c \in Calls |-> IF using[c] = Redis THEN "none"
                                ELSE CASE pc[c] = "admitted" -> "served"
                                       [] pc[c] = "refused" -> "refused"
                                       [] OTHER -> "none"]

LEMMA InitImplements == Init => FW!WindowInit
<1> SUFFICES ASSUME Init PROVE FW!WindowInit
  OBVIOUS
<1>1. \A n \in MemoryCounters : /\ buckets[n[1]][n[2]] = Empty
                                /\ Limit[n[2]] \in Nat \ {0}
  BY LimitAssumption DEF Init, MemoryCounters, Stores
<1>2. Opened = [n \in MemoryCounters |-> 0]
  BY <1>1 DEF Opened, Empty
<1>3. Served = [n \in MemoryCounters |-> 0]
  BY <1>1 DEF Served, Empty, AtMostLimit
<1>4. VerdictSeen = [c \in Calls |-> "none"]
  BY DEF VerdictSeen, Init
<1> QED
  BY <1>2, <1>3, <1>4 DEF Init, FW!WindowInit, Opened, Served, VerdictSeen

(* A hit in memory is a call served or refused by the window.              *)
LEMMA MemoryIncrImplements ==
  ASSUME IInv, NEW c \in Calls, NEW s \in Calls, pc[c] \in {"new", "ping"},
         MemoryIncr(c, s), UNCHANGED <<now, key>>
  PROVE  FW!WindowNext
<1>0. PICK k \in Keys : k = key[c]
  BY DEF IInv, TypeOK
<1> DEFINE n == <<s, k>>
           old == buckets[s][k]
           b == MemoryWindow(old)
<1> USE DEF IInv
<1>1. /\ s \in Stores /\ n \in MemoryCounters
      /\ n[1] = s /\ n[2] = k
      /\ Limit[k] \in Nat \ {0}
      /\ old \in [since : 0..MaxTime, count : Nat] /\ old.since <= now
      /\ now \in Nat /\ now \in 0..MaxTime
  BY LimitAssumption DEF TypeOK, BucketsOpened, Stores, MemoryCounters
<1>2. /\ using' = [using EXCEPT ![c] = s]
      /\ buckets' = [buckets EXCEPT ![s][k] = b]
      /\ pc' = [pc EXCEPT ![c] = Verdict(k, b.count)]
  BY <1>0 DEF MemoryIncr, Counted, Goto
<1>3. \A m \in MemoryCounters : m # n => buckets'[m[1]][m[2]] = buckets[m[1]][m[2]]
  BY <1>1, <1>2 DEF MemoryCounters, TypeOK, Stores
<1>4. buckets'[s][k] = b
  BY <1>1, <1>2 DEF TypeOK
<1>5. VerdictSeen[c] = "none" /\ s # Redis /\ using'[c] = s
  BY <1>2, StoreAssumption DEF VerdictSeen, TypeOK
<1>6. Verdict(k, b.count) = "admitted" =>
        VerdictSeen' = [VerdictSeen EXCEPT ![c] = "served"]
  BY <1>2, <1>5 DEF VerdictSeen, TypeOK
<1>7. Verdict(k, b.count) = "refused" =>
        VerdictSeen' = [VerdictSeen EXCEPT ![c] = "refused"]
  BY <1>2, <1>5 DEF VerdictSeen, TypeOK
<1>8. Opened' = [Opened EXCEPT ![n] = b.since]
  BY <1>1, <1>3, <1>4 DEF Opened
<1>9. Served' = [Served EXCEPT ![n] = AtMostLimit(k, b.count)]
  BY <1>1, <1>3, <1>4 DEF Served
<1>10. Opened[n] = old.since /\ Served[n] = AtMostLimit(k, old.count)
  BY <1>1 DEF Opened, Served
<1>11. CASE old.count = 0 \/ now - old.since > Window
  <2>1. b = [since |-> now, count |-> 1]
    BY <1>11 DEF MemoryWindow
  <2>2. AtMostLimit(k, b.count) = 1 /\ Verdict(k, b.count) = "admitted"
    BY <2>1, <1>1 DEF AtMostLimit, Verdict
  <2>3. Served[n] = 0 \/ now - Opened[n] > Window
    BY <1>1, <1>10, <1>11 DEF AtMostLimit
  <2>4. /\ b.since = now /\ b.count = 1
    BY <2>1
  <2>5. /\ Opened' = [Opened EXCEPT ![n] = now]
        /\ Served' = [Served EXCEPT ![n] = 1]
        /\ VerdictSeen' = [VerdictSeen EXCEPT ![c] = "served"]
    BY <1>6, <1>8, <1>9, <2>2, <2>4
  <2> HIDE DEF b, old
  <2>6. FW!ServeFirst(c, n)
    BY <1>5, <2>3, <2>5
       DEF FW!ServeFirst, FW!Over, FW!Told, Opened, Served, VerdictSeen
  <2>7. n \in MemoryCounters /\ VerdictSeen'[c] # VerdictSeen[c]
    BY <1>1, <1>5, <2>5 DEF VerdictSeen
  <2> HIDE DEF n
  <2> QED
    BY <2>6, <2>7 DEF FW!WindowNext, VerdictSeen
<1>12. CASE ~(old.count = 0 \/ now - old.since > Window)
  <2>1. b = [old EXCEPT !.count = old.count + 1]
    BY <1>12 DEF MemoryWindow
  <2>2. b.since = old.since /\ b.count = old.count + 1 /\ old.count \in Nat \ {0}
    BY <1>1, <1>12, <2>1
  <2>3. Opened' = Opened
    BY <1>8, <1>10, <2>2 DEF Opened
  <2>4. ~(Served[n] = 0 \/ now - Opened[n] > Window)
    BY <1>1, <1>10, <1>12, <2>2 DEF AtMostLimit
  <2>5. CASE old.count < Limit[k]
    <3>1. /\ Verdict(k, b.count) = "admitted"
          /\ AtMostLimit(k, b.count) = Served[n] + 1 /\ Served[n] < Limit[k]
      BY <1>1, <1>10, <2>2, <2>5 DEF Verdict, AtMostLimit
    <3>2. FW!Serve(c, n)
      BY <1>1, <1>5, <1>6, <1>9, <2>3, <2>4, <3>1
         DEF FW!Serve, FW!Over, FW!Told, Opened, Served, VerdictSeen
    <3>3. VerdictSeen'[c] # VerdictSeen[c]
      BY <1>5, <1>6, <3>1 DEF VerdictSeen
    <3> QED
      BY <1>1, <3>2, <3>3 DEF FW!WindowNext, VerdictSeen
  <2>6. CASE ~(old.count < Limit[k])
    <3>1. /\ Verdict(k, b.count) = "refused"
          /\ AtMostLimit(k, b.count) = Served[n] /\ Served[n] = Limit[k]
      BY <1>1, <1>10, <2>2, <2>6 DEF Verdict, AtMostLimit
    <3>2. Served' = Served
      BY <1>9, <3>1 DEF Served
    <3>3. FW!Refuse(c, n)
      BY <1>1, <1>5, <1>7, <2>3, <2>4, <3>1, <3>2
         DEF FW!Refuse, FW!Over, FW!Told, Opened, Served, VerdictSeen
    <3>4. VerdictSeen'[c] # VerdictSeen[c]
      BY <1>5, <1>7, <3>1 DEF VerdictSeen
    <3> QED
      BY <1>1, <3>3, <3>4 DEF FW!WindowNext, VerdictSeen
  <2> QED
    BY <2>5, <2>6
<1> QED
  BY <1>11, <1>12

(* The window sees nothing of a step that leaves memory and the answers of *)
(* memory alone.                                                           *)
LEMMA Invisible ==
  ASSUME UNCHANGED now, VerdictSeen' = VerdictSeen,
         \A s \in Calls, k \in Keys : buckets'[s][k] = buckets[s][k]
  PROVE  UNCHANGED FW!wvars
<1>1. \A n \in MemoryCounters : buckets'[n[1]][n[2]] = buckets[n[1]][n[2]]
  BY DEF MemoryCounters
<1>2. Opened' = Opened /\ Served' = Served
  BY <1>1 DEF Opened, Served
<1> QED
  BY <1>2 DEF FW!wvars, Opened, Served, VerdictSeen

LEMMA IncrImplements ==
  ASSUME IInv, NEW c \in Calls, NEW s \in Stores, pc[c] \in {"new", "ping"},
         Incr(c, s), UNCHANGED <<now, key>>
  PROVE  [FW!WindowNext]_(FW!wvars)
<1>1. CASE s = Redis
  <2>1. /\ using' = [using EXCEPT ![c] = Redis]
        /\ pc' = [pc EXCEPT ![c] = "pipe"] /\ UNCHANGED buckets
    BY <1>1 DEF Incr, Goto
  <2>2. VerdictSeen' = VerdictSeen
    BY <2>1 DEF VerdictSeen, IInv, TypeOK
  <2> QED
    BY <2>1, <2>2, Invisible
<1>2. CASE s # Redis
  <2>1. s \in Calls /\ MemoryIncr(c, s)
    BY <1>2 DEF Incr, Stores
  <2> QED
    BY <2>1, MemoryIncrImplements
<1> QED
  BY <1>1, <1>2

LEMMA NextImplements == IInv /\ [Next]_vars => [FW!WindowNext]_(FW!wvars)
<1> SUFFICES ASSUME IInv, [Next]_vars PROVE [FW!WindowNext]_(FW!wvars)
  OBVIOUS
<1> USE DEF IInv
<1>1. CASE \E c \in Calls : Arrive(c)
  <2> PICK c \in Calls : Arrive(c)
    BY <1>1
  <2>1. CASE store # NoStore
    <3>1. store \in Stores /\ Incr(c, store)
      BY <2>1 DEF Arrive, TypeOK
    <3> QED
      BY <3>1, IncrImplements DEF Arrive
  <2>2. CASE store = NoStore /\ redisUrl
    <3>1. pc' = [pc EXCEPT ![c] = "ping"] /\ pc[c] = "new" /\ UNCHANGED <<now, buckets, using>>
      BY <2>2 DEF Arrive, Goto
    <3>2. VerdictSeen' = VerdictSeen
      BY <3>1 DEF VerdictSeen, TypeOK
    <3> QED
      BY <3>1, <3>2, Invisible
  <2>3. CASE store = NoStore /\ ~redisUrl
    <3>1. Incr(c, c) /\ c \in Stores
      BY <2>3 DEF Arrive, Stores
    <3> QED
      BY <3>1, IncrImplements DEF Arrive
  <2> QED
    BY <2>1, <2>2, <2>3
<1>2. CASE \E c \in Calls : PingAnswered(c) \/ PingFailed(c)
  <2> PICK c \in Calls : PingAnswered(c) \/ PingFailed(c)
    BY <1>2
  <2>1. c \in Stores /\ Redis \in Stores
    BY DEF Stores
  <2> QED
    BY <2>1, IncrImplements DEF PingAnswered, PingFailed
<1>3. CASE \E c \in Calls : RedisIncr(c)
  <2> PICK c \in Calls : RedisIncr(c)
    BY <1>3
  <2>1. /\ using' = [using EXCEPT ![c] = Redis]
        /\ pc' = [pc EXCEPT ![c] = "ttl"] /\ pc[c] = "pipe" /\ UNCHANGED now
    BY DEF RedisIncr, Counted, Goto
  <2>2. \A s \in Calls, k \in Keys : buckets'[s][k] = buckets[s][k]
    BY StoreAssumption DEF RedisIncr, Counted, TypeOK, Stores
  <2>3. VerdictSeen' = VerdictSeen
    BY <2>1 DEF VerdictSeen, TypeOK
  <2> QED
    BY <2>1, <2>2, <2>3, Invisible
<1>4. CASE \E c \in Calls : RedisTtl(c) \/ RedisError(c)
  <2> PICK c \in Calls : RedisTtl(c) \/ RedisError(c)
    BY <1>4
  <2>1. /\ using[c] = Redis /\ UNCHANGED <<now, buckets, using>>
        /\ \A d \in Calls \ {c} : pc'[d] = pc[d]
    BY DEF RedisTtl, RedisError, Goto, locals, TypeOK, Located
  <2>2. VerdictSeen' = VerdictSeen
    BY <2>1 DEF VerdictSeen
  <2> QED
    BY <2>1, <2>2, Invisible
<1>5. CASE Tick
  <2>1. now' = now + 1 /\ UNCHANGED <<buckets, pc, using>>
    BY <1>5 DEF Tick, locals
  <2>2. FW!Advance
    BY <2>1 DEF FW!Advance
  <2> QED
    BY <2>2 DEF FW!WindowNext
<1>6. CASE Crash
  <2>1. /\ UNCHANGED <<now, buckets, using>>
        /\ pc' = [c \in Calls |-> IF pc[c] \in InFlight THEN "lost" ELSE pc[c]]
    BY <1>6 DEF Crash, locals
  <2>2. VerdictSeen' = VerdictSeen
    BY <2>1 DEF VerdictSeen, InFlight
  <2> QED
    BY <2>1, <2>2, Invisible
<1>7. CASE UNCHANGED vars
  <2>1. UNCHANGED <<now, buckets, using, pc>>
    BY <1>7 DEF vars
  <2>2. VerdictSeen' = VerdictSeen
    BY <2>1 DEF VerdictSeen
  <2> QED
    BY <2>1, <2>2, Invisible
<1> QED
  BY <1>1, <1>2, <1>3, <1>4, <1>5, <1>6, <1>7 DEF Next, Handle

(* The memory store is the fixed window the module's docstring promises,   *)
(* through every race to build it, restart and hit beyond the limit.       *)
THEOREM MemoryImplements == Spec => MemoryIsAFixedWindow
<1> QED
  BY InitImplements, NextImplements, Invariance, PTL
     DEF Spec, MemoryIsAFixedWindow, FW!WindowSpec
----------------------------------------------------------------------------
(* A refusal is earned: the calls let through in the open window are as    *)
(* many as the bucket says, up to the limit.                               *)
HitsIn(s, k) ==
  {d \in Calls : /\ Passed(d) /\ using[d] = s /\ key[d] = k
                 /\ when[d] >= buckets[s][k].since}

CountedCalls ==
  \A c \in Calls : /\ when[c] <= now
                   /\ pc[c] \in {"ttl", "admitted", "refused"} => count[c] # 0

FullWindows ==
  \A s \in Calls, k \in Keys :
    Cardinality(HitsIn(s, k)) >= AtMostLimit(k, buckets[s][k].count)

Earned == CountedCalls /\ FullWindows /\ RefusalIsEarned

(* What was counted stays as it was counted.                               *)
Keeps == /\ UNCHANGED key
         /\ \A d \in Calls : count[d] # 0 =>
              count'[d] = count[d] /\ using'[d] = using[d] /\ when'[d] = when[d]

LEMMA LargerSet ==
  ASSUME NEW S, NEW T \in SUBSET Calls, S \subseteq T
  PROVE  /\ Cardinality(S) \in Nat /\ Cardinality(T) \in Nat
         /\ Cardinality(S) <= Cardinality(T)
<1>1. IsFiniteSet(T)
  BY CallsAssumption, FS_Subset
<1>2. IsFiniteSet(S) /\ Cardinality(S) <= Cardinality(T)
  BY <1>1, FS_Subset
<1> QED
  BY <1>1, <1>2, FS_CardinalityType

LEMMA PassedStays ==
  ASSUME Keeps, NEW d \in Calls, Passed(d)
  PROVE  Passed(d)' /\ using'[d] = using[d] /\ when'[d] = when[d] /\ key'[d] = key[d]
BY DEF Keeps, Passed, Verdict

LEMMA InitEarned == Init => Earned
<1> SUFFICES ASSUME Init PROVE Earned
  OBVIOUS
<1>1. CountedCalls
  BY DEF Init, CountedCalls
<1>2. RefusalIsEarned
  BY DEF Init, RefusalIsEarned
<1>3. FullWindows
  <2> SUFFICES ASSUME NEW s \in Calls, NEW k \in Keys
               PROVE  Cardinality(HitsIn(s, k)) >= AtMostLimit(k, buckets[s][k].count)
    BY DEF FullWindows
  <2>1. HitsIn(s, k) = {}
    BY DEF HitsIn, Passed, Init
  <2>2. buckets[s][k].count = 0 /\ Limit[k] \in Nat
    BY LimitAssumption DEF Init, Stores, Empty
  <2> QED
    BY <2>1, <2>2, FS_EmptySet DEF AtMostLimit
<1> QED
  BY <1>1, <1>2, <1>3 DEF Earned

(* An old refusal stays earned.                                            *)
LEMMA OldRefusal ==
  ASSUME IInv, Earned, Keeps, NEW c \in Calls, pc[c] = "refused", using[c] # Redis
  PROVE  using'[c] = using[c] /\ when'[c] = when[c] /\ key'[c] = key[c]
         /\ Cardinality(PassedFrom(c, when[c] - Window, when[c])') >= Limit[key[c]]
<1>1. count[c] # 0
  BY DEF Earned, CountedCalls
<1>2. using'[c] = using[c] /\ when'[c] = when[c] /\ key'[c] = key[c]
  BY <1>1 DEF Keeps
<1> DEFINE S == PassedFrom(c, when[c] - Window, when[c])
           T == PassedFrom(c, when[c] - Window, when[c])'
<1>3. S \subseteq T
  BY <1>2, PassedStays DEF PassedFrom, SameCounter
<1>4. T \subseteq Calls
  BY DEF PassedFrom
<1>5. Cardinality(S) >= Limit[key[c]]
  BY DEF Earned, RefusalIsEarned
<1>6. Limit[key[c]] \in Nat
  BY LimitAssumption DEF IInv, TypeOK
<1> HIDE DEF S, T
<1>7. Cardinality(T) >= Limit[key[c]]
  BY <1>3, <1>4, <1>5, <1>6, LargerSet
<1> QED
  BY <1>2, <1>7 DEF T

(* A step that touches no memory bucket and refuses nobody in memory.      *)
LEMMA QuietEarned ==
  ASSUME IInv, Earned, Keeps, CountedCalls',
         \A s \in Calls, k \in Keys : buckets'[s][k] = buckets[s][k],
         \A c \in Calls : (pc'[c] = "refused" /\ using'[c] # Redis) =>
                            (pc[c] = "refused" /\ using[c] # Redis)
  PROVE  Earned'
<1>1. FullWindows'
  <2> SUFFICES ASSUME NEW s \in Calls, NEW k \in Keys
               PROVE  Cardinality(HitsIn(s, k)') >= AtMostLimit(k, buckets'[s][k].count)
    BY DEF FullWindows
  <2>1. HitsIn(s, k) \subseteq HitsIn(s, k)'
    BY PassedStays DEF HitsIn
  <2>2. HitsIn(s, k)' \subseteq Calls
    BY DEF HitsIn
  <2>3. Cardinality(HitsIn(s, k)) >= AtMostLimit(k, buckets[s][k].count)
    BY DEF Earned, FullWindows
  <2>4. AtMostLimit(k, buckets[s][k].count) \in Nat
    BY LimitAssumption DEF AtMostLimit, IInv, TypeOK, Stores
  <2> QED
    BY <2>1, <2>2, <2>3, <2>4, LargerSet
<1>2. RefusalIsEarned'
  BY OldRefusal DEF RefusalIsEarned
<1> QED
  BY <1>1, <1>2 DEF Earned

LEMMA MemoryIncrEarned ==
  ASSUME IInv, Earned, NEW c \in Calls, NEW s \in Calls, pc[c] \in {"new", "ping"},
         MemoryIncr(c, s), UNCHANGED <<now, key>>
  PROVE  Earned'
<1>0. PICK k \in Keys : k = key[c]
  BY DEF IInv, TypeOK
<1> DEFINE old == buckets[s][k]
           b == MemoryWindow(old)
<1>1. /\ s \in Stores /\ Limit[k] \in Nat \ {0} /\ s # Redis /\ s # NoStore
      /\ old \in [since : 0..MaxTime, count : Nat] /\ old.since <= now
      /\ now \in Nat /\ now \in 0..MaxTime
  BY LimitAssumption, StoreAssumption DEF IInv, TypeOK, BucketsOpened, Stores
<1>2. /\ using' = [using EXCEPT ![c] = s]
      /\ buckets' = [buckets EXCEPT ![s][k] = b]
      /\ count' = [count EXCEPT ![c] = b.count]
      /\ when' = [when EXCEPT ![c] = now]
      /\ pc' = [pc EXCEPT ![c] = Verdict(k, b.count)]
  BY <1>0 DEF MemoryIncr, Counted, Goto
<1>3. /\ b \in [since : 0..MaxTime, count : Nat] /\ b.count # 0
      /\ b.since <= now /\ now - b.since <= Window
  BY <1>1, MemoryWindowType DEF IInv
<1>4. \/ b.since = now /\ b.count = 1
      \/ b.since = old.since /\ b.count = old.count + 1
  BY <1>1 DEF MemoryWindow
<1> HIDE DEF b
<1>5. count[c] = 0 /\ using[c] = NoStore
  BY DEF IInv, Located
<1>6. /\ count'[c] = b.count /\ when'[c] = now /\ using'[c] = s
      /\ pc'[c] = Verdict(k, b.count) /\ key'[c] = k /\ buckets'[s][k] = b
  BY <1>0, <1>1, <1>2 DEF IInv, TypeOK
<1>7. Keeps
  BY <1>2, <1>5 DEF Keeps, IInv, TypeOK
<1>8. CountedCalls'
  BY <1>1, <1>2, <1>3 DEF Earned, CountedCalls, Verdict, IInv, TypeOK
<1>9. HitsIn(s, k) \in SUBSET Calls /\ HitsIn(s, k)' \in SUBSET Calls
  BY DEF HitsIn
<1>10. c \notin HitsIn(s, k)
  BY <1>5 DEF HitsIn, Passed
<1>11. IsFiniteSet(HitsIn(s, k)) /\ IsFiniteSet(HitsIn(s, k)')
  BY <1>9, CallsAssumption, FS_Subset
<1>12. Cardinality(HitsIn(s, k)) \in Nat /\ Cardinality(HitsIn(s, k)') \in Nat
  BY <1>11, FS_CardinalityType
<1>13. Cardinality(HitsIn(s, k)) >= AtMostLimit(k, old.count)
  BY DEF Earned, FullWindows
<1>14. Verdict(k, b.count) = "admitted" => c \in HitsIn(s, k)'
  BY <1>0, <1>3, <1>6 DEF HitsIn, Passed
<1>15. b.since = old.since => HitsIn(s, k) \subseteq HitsIn(s, k)'
  BY <1>6, <1>7, PassedStays DEF HitsIn
<1>16. Cardinality(HitsIn(s, k)') >= AtMostLimit(k, b.count)
  <2>1. CASE b.since = now /\ b.count = 1
    <3>1. AtMostLimit(k, b.count) = 1 /\ Verdict(k, b.count) = "admitted"
      BY <1>1, <2>1 DEF AtMostLimit, Verdict
    <3>2. HitsIn(s, k)' # {}
      BY <1>14, <3>1
    <3>3. Cardinality(HitsIn(s, k)') # 0
      BY <1>11, <3>2, FS_EmptySet
    <3> QED
      BY <1>12, <3>1, <3>3
  <2>2. CASE b.since = old.since /\ b.count = old.count + 1
    <3>1. CASE Verdict(k, b.count) = "admitted"
      <4>1. HitsIn(s, k) \cup {c} \subseteq HitsIn(s, k)'
        BY <1>14, <1>15, <2>2, <3>1
      <4>2. Cardinality(HitsIn(s, k) \cup {c}) = Cardinality(HitsIn(s, k)) + 1
        BY <1>10, <1>11, FS_AddElement
      <4>3. Cardinality(HitsIn(s, k)) + 1 <= Cardinality(HitsIn(s, k)')
        BY <1>9, <4>1, <4>2, LargerSet
      <4> QED
        BY <1>1, <1>12, <1>13, <2>2, <4>3 DEF AtMostLimit
    <3>2. CASE Verdict(k, b.count) # "admitted"
      <4>1. Cardinality(HitsIn(s, k)) <= Cardinality(HitsIn(s, k)')
        BY <1>9, <1>15, <2>2, LargerSet
      <4>2. b.count > Limit[k]
        BY <3>2 DEF Verdict
      <4> QED
        BY <1>1, <1>12, <1>13, <2>2, <4>1, <4>2 DEF AtMostLimit
    <3> QED
      BY <3>1, <3>2
  <2> QED
    BY <1>4, <2>1, <2>2
<1>17. FullWindows'
  <2> SUFFICES ASSUME NEW t \in Calls, NEW j \in Keys
               PROVE  Cardinality(HitsIn(t, j)') >= AtMostLimit(j, buckets'[t][j].count)
    BY DEF FullWindows
  <2>1. CASE t = s /\ j = k
    BY <1>6, <1>16, <2>1
  <2>2. CASE ~(t = s /\ j = k)
    <3>1. buckets'[t][j] = buckets[t][j]
      BY <1>2, <2>2 DEF IInv, TypeOK, Stores
    <3>2. HitsIn(t, j) \subseteq HitsIn(t, j)'
      BY <1>7, <3>1, PassedStays DEF HitsIn
    <3>3. HitsIn(t, j)' \in SUBSET Calls
      BY DEF HitsIn
    <3>4. Cardinality(HitsIn(t, j)) >= AtMostLimit(j, buckets[t][j].count)
      BY DEF Earned, FullWindows
    <3>5. AtMostLimit(j, buckets[t][j].count) \in Nat
      BY LimitAssumption DEF AtMostLimit, IInv, TypeOK, Stores
    <3> QED
      BY <3>1, <3>2, <3>3, <3>4, <3>5, LargerSet
  <2> QED
    BY <2>1, <2>2
<1>18. RefusalIsEarned'
  <2> SUFFICES ASSUME NEW d \in Calls, pc'[d] = "refused", using'[d] # Redis
               PROVE  Cardinality(PassedFrom(d, when[d] - Window, when[d])') >= Limit[key'[d]]
    BY DEF RefusalIsEarned
  <2>1. CASE d = c
    <3>1. b.count > Limit[k]
      BY <1>6, <2>1 DEF Verdict
    <3>2. Cardinality(HitsIn(s, k)') >= Limit[k]
      BY <1>1, <1>12, <1>16, <3>1 DEF AtMostLimit
    <3>3. HitsIn(s, k)' \subseteq PassedFrom(c, when[c] - Window, when[c])'
      <4> SUFFICES ASSUME NEW e \in HitsIn(s, k)'
                   PROVE  e \in PassedFrom(c, when[c] - Window, when[c])'
        OBVIOUS
      <4>1. /\ e \in Calls /\ Passed(e)' /\ using'[e] = s /\ key'[e] = k
            /\ when'[e] >= b.since
        BY <1>6 DEF HitsIn
      <4>2. when'[e] \in Int /\ when'[e] <= now
        BY <1>1, <1>2, <1>8, <4>1 DEF CountedCalls, IInv, TypeOK
      <4>3. when'[e] \in (now - Window)..now
        BY <1>1, <1>3, <4>1, <4>2, WindowType
      <4> QED
        BY <1>6, <4>1, <4>3 DEF PassedFrom, SameCounter
    <3>4. PassedFrom(c, when[c] - Window, when[c])' \in SUBSET Calls
      BY DEF PassedFrom
    <3> QED
      BY <1>1, <1>6, <2>1, <3>2, <3>3, <3>4, LargerSet
  <2>2. CASE d # c
    <3>1. pc[d] = "refused" /\ using[d] # Redis
      BY <1>2, <2>2 DEF IInv, TypeOK
    <3> QED
      BY <1>7, <3>1, OldRefusal
  <2> QED
    BY <2>1, <2>2
<1> QED
  BY <1>8, <1>17, <1>18 DEF Earned

LEMMA IncrEarned ==
  ASSUME IInv, Earned, NEW c \in Calls, NEW s \in Stores, pc[c] \in {"new", "ping"},
         Incr(c, s), UNCHANGED <<now, key>>
  PROVE  Earned'
<1>1. CASE s = Redis
  <2>1. /\ using' = [using EXCEPT ![c] = Redis]
        /\ pc' = [pc EXCEPT ![c] = "pipe"] /\ UNCHANGED <<buckets, count, when>>
    BY <1>1 DEF Incr, Goto
  <2>2. Keeps
    BY <2>1 DEF Keeps, IInv, TypeOK, Located
  <2>3. CountedCalls'
    BY <2>1 DEF Earned, CountedCalls, IInv, TypeOK
  <2>4. \A d \in Calls : (pc'[d] = "refused" /\ using'[d] # Redis) =>
                           (pc[d] = "refused" /\ using[d] # Redis)
    BY <2>1 DEF IInv, TypeOK
  <2> QED
    BY <2>1, <2>2, <2>3, <2>4, QuietEarned
<1>2. CASE s # Redis
  <2>1. s \in Calls /\ MemoryIncr(c, s)
    BY <1>2 DEF Incr, Stores
  <2> QED
    BY <2>1, MemoryIncrEarned
<1> QED
  BY <1>1, <1>2

LEMMA NextEarned == IInv /\ Earned /\ [Next]_vars => Earned'
<1> SUFFICES ASSUME IInv, Earned, [Next]_vars PROVE Earned'
  OBVIOUS
<1>1. CASE \E c \in Calls : Arrive(c)
  <2> PICK c \in Calls : Arrive(c)
    BY <1>1
  <2>1. CASE store # NoStore
    <3>1. store \in Stores /\ Incr(c, store)
      BY <2>1 DEF Arrive, IInv, TypeOK
    <3> QED
      BY <3>1, IncrEarned DEF Arrive
  <2>2. CASE store = NoStore /\ redisUrl
    <3>1. pc' = [pc EXCEPT ![c] = "ping"]
          /\ UNCHANGED <<now, buckets, using, count, when, key>>
      BY <2>2 DEF Arrive, Goto
    <3>2. Keeps /\ CountedCalls'
      BY <3>1 DEF Keeps, Earned, CountedCalls, IInv, TypeOK
    <3>3. \A d \in Calls : pc'[d] = "refused" => pc[d] = "refused"
      BY <3>1 DEF IInv, TypeOK
    <3> QED
      BY <3>1, <3>2, <3>3, QuietEarned
  <2>3. CASE store = NoStore /\ ~redisUrl
    <3>1. Incr(c, c) /\ c \in Stores
      BY <2>3 DEF Arrive, Stores
    <3> QED
      BY <3>1, IncrEarned DEF Arrive
  <2> QED
    BY <2>1, <2>2, <2>3
<1>2. CASE \E c \in Calls : PingAnswered(c) \/ PingFailed(c)
  <2> PICK c \in Calls : PingAnswered(c) \/ PingFailed(c)
    BY <1>2
  <2>1. c \in Stores /\ Redis \in Stores
    BY DEF Stores
  <2> QED
    BY <2>1, IncrEarned DEF PingAnswered, PingFailed
<1>3. CASE \E c \in Calls : RedisIncr(c)
  <2> PICK c \in Calls : RedisIncr(c)
    BY <1>3
  <2> DEFINE b == RedisWindow(buckets[Redis][key[c]])
  <2>1. /\ using' = [using EXCEPT ![c] = Redis]
        /\ count' = [count EXCEPT ![c] = b.count]
        /\ when' = [when EXCEPT ![c] = now]
        /\ pc' = [pc EXCEPT ![c] = "ttl"] /\ pc[c] = "pipe" /\ UNCHANGED <<now, key>>
    BY DEF RedisIncr, Counted, Goto
  <2>2. b.count # 0
    BY DEF RedisWindow, IInv, TypeOK, Stores
  <2> HIDE DEF b
  <2>3. \A s \in Calls, k \in Keys : buckets'[s][k] = buckets[s][k]
    BY StoreAssumption DEF RedisIncr, Counted, IInv, TypeOK, Stores
  <2>4. Keeps
    BY <2>1 DEF Keeps, IInv, TypeOK, Located
  <2>5. CountedCalls'
    BY <2>1, <2>2 DEF Earned, CountedCalls, IInv, TypeOK
  <2>6. \A d \in Calls : (pc'[d] = "refused" /\ using'[d] # Redis) =>
                           (pc[d] = "refused" /\ using[d] # Redis)
    BY <2>1 DEF IInv, TypeOK
  <2> QED
    BY <2>3, <2>4, <2>5, <2>6, QuietEarned
<1>4. CASE \E c \in Calls : RedisTtl(c) \/ RedisError(c)
  <2> PICK c \in Calls : RedisTtl(c) \/ RedisError(c)
    BY <1>4
  <2>1. /\ UNCHANGED <<now, buckets, using, count, when, key>>
        /\ using[c] = Redis /\ \A d \in Calls \ {c} : pc'[d] = pc[d]
        /\ pc[c] = "ttl" \/ pc'[c] = "failed"
    BY DEF RedisTtl, RedisError, Goto, locals, IInv, TypeOK, Located
  <2>2. Keeps /\ CountedCalls'
    BY <2>1 DEF Keeps, Earned, CountedCalls
  <2> QED
    BY <2>1, <2>2, QuietEarned
<1>5. CASE Tick
  <2>1. now' = now + 1 /\ UNCHANGED <<buckets, pc, using, count, when, key>>
    BY <1>5 DEF Tick, locals
  <2>2. Keeps /\ CountedCalls'
    BY <2>1 DEF Keeps, Earned, CountedCalls, IInv, TypeOK
  <2> QED
    BY <2>1, <2>2, QuietEarned
<1>6. CASE Crash
  <2>1. /\ UNCHANGED <<now, buckets, using, count, when, key>>
        /\ pc' = [c \in Calls |-> IF pc[c] \in InFlight THEN "lost" ELSE pc[c]]
    BY <1>6 DEF Crash, locals
  <2>2. Keeps /\ CountedCalls'
    BY <2>1 DEF Keeps, Earned, CountedCalls
  <2> QED
    BY <2>1, <2>2, QuietEarned
<1>7. CASE UNCHANGED vars
  <2>1. UNCHANGED <<now, buckets, using, count, when, key, pc>>
    BY <1>7 DEF vars
  <2>2. Keeps /\ CountedCalls'
    BY <2>1 DEF Keeps, Earned, CountedCalls
  <2> QED
    BY <2>1, <2>2, QuietEarned
<1> QED
  BY <1>1, <1>2, <1>3, <1>4, <1>5, <1>6, <1>7 DEF Next, Handle

(* Whoever the memory store refuses was beaten to it by Limit other calls  *)
(* of the same key within the last Window.                                 *)
THEOREM RefusalsAreEarned == Spec => []RefusalIsEarned
<1>1. Earned => RefusalIsEarned
  BY DEF Earned
<1> QED
  BY <1>1, InitEarned, NextEarned, Invariance, PTL DEF Spec
----------------------------------------------------------------------------
(* Calls counted in one store under one key, and those let through, from a *)
(* time on or in a stretch of time.                                        *)
Hits(s, k) == {d \in Calls : count[d] # 0 /\ using[d] = s /\ key[d] = k}
Passes(s, k) == {d \in Hits(s, k) : Passed(d)}
From(s, k, t) == {d \in Passes(s, k) : when[d] >= t}
Between(s, k, from, to) == {d \in Passes(s, k) : when[d] \in from..to}

(* A memory window: no hit after its end; it let through at most what its  *)
(* count says, all but the hit that opened it later than its opening; the  *)
(* Window before it was opened let through less than Limit; and no stretch *)
(* of Window more than 2 * Limit - 1.                                      *)
MemoryBoundOf(s, k) ==
  LET b == buckets[s][k]
  IN  /\ \A d \in Hits(s, k) : when[d] <= b.since + Window
      /\ Cardinality(From(s, k, b.since)) <= AtMostLimit(k, b.count)
      /\ Cardinality(From(s, k, b.since + 1))
           <= IF b.count = 0 THEN 0 ELSE AtMostLimit(k, b.count) - 1
      /\ Cardinality(Between(s, k, b.since - Window + 1, b.since - 1)) <= Limit[k] - 1
      /\ \A t \in Nat : Cardinality(Between(s, k, t, t + Window - 1)) <= 2 * Limit[k] - 1

(* A key of Redis: its window follows the last hit, and from a time that a *)
(* hit now could still reach on, it let through at most what it counted.   *)
RedisBoundOf(k) ==
  LET b == buckets[Redis][k]
  IN  /\ \A d \in Hits(Redis, k) : when[d] <= b.since
      /\ \A t \in Int : t > b.since - Window =>
           Cardinality(From(Redis, k, t)) <= AtMostLimit(k, b.count)
      /\ \A t \in Nat : Cardinality(Between(Redis, k, t, t + Window - 1)) <= Limit[k]

Bounded ==
  /\ \A d \in Calls : count[d] # 0 => using[d] \in Stores
  /\ \A k \in Keys : (\A s \in Calls : MemoryBoundOf(s, k)) /\ RedisBoundOf(k)

LEMMA FiniteParts ==
  \A s, k, t, u :
    /\ Passes(s, k) \in SUBSET Calls /\ From(s, k, t) \in SUBSET Calls
    /\ Between(s, k, t, u) \in SUBSET Calls
BY DEF Hits, Passes, From, Between

LEMMA FiniteCalls ==
  ASSUME NEW S \in SUBSET Calls
  PROVE  IsFiniteSet(S) /\ Cardinality(S) \in Nat
BY CallsAssumption, FS_Subset, FS_CardinalityType

(* One call more adds at most one.                                         *)
LEMMA OneMore ==
  ASSUME NEW S \in SUBSET Calls, NEW T \in SUBSET Calls, NEW c \in Calls, T \subseteq S \cup {c}
  PROVE  Cardinality(T) <= Cardinality(S) + 1
<1>1. S \cup {c} \in SUBSET Calls /\ IsFiniteSet(S)
  BY FiniteCalls
<1>2. Cardinality(S \cup {c}) <= Cardinality(S) + 1
  BY <1>1, FiniteCalls, FS_AddElement
<1>3. Cardinality(T) <= Cardinality(S \cup {c})
  BY <1>1, LargerSet
<1> QED
  BY <1>1, <1>2, <1>3, FiniteCalls

LEMMA TwoParts ==
  ASSUME NEW S \in SUBSET Calls, NEW T \in SUBSET Calls, NEW U \in SUBSET Calls,
         U \subseteq S \cup T
  PROVE  Cardinality(U) <= Cardinality(S) + Cardinality(T)
<1>1. S \cup T \in SUBSET Calls /\ S \cap T \in SUBSET Calls
  OBVIOUS
<1>2. Cardinality(S \cup T) = Cardinality(S) + Cardinality(T) - Cardinality(S \cap T)
  BY FiniteCalls, FS_Union
<1>3. Cardinality(U) <= Cardinality(S \cup T)
  BY <1>1, LargerSet
<1> QED
  BY <1>1, <1>2, <1>3, FiniteCalls

LEMMA InitBounded == Init => Bounded
<1> SUFFICES ASSUME Init PROVE Bounded
  OBVIOUS
<1>1. \A s, k, t, u : Hits(s, k) = {} /\ From(s, k, t) = {} /\ Between(s, k, t, u) = {}
  BY DEF Init, Hits, Passes, From, Between
<1>2. ASSUME NEW s \in Stores, NEW k \in Keys
      PROVE  buckets[s][k].count = 0 /\ Limit[k] \in Nat /\ Limit[k] >= 1
             /\ AtMostLimit(k, buckets[s][k].count) = 0
  BY LimitAssumption DEF Init, Empty, AtMostLimit
<1>3. Cardinality({}) = 0
  BY FS_EmptySet
<1>4. ASSUME NEW s \in Calls, NEW k \in Keys PROVE MemoryBoundOf(s, k)
  <2>1. s \in Stores
    BY DEF Stores
  <2>2. \A t, u : Cardinality(From(s, k, t)) = 0 /\ Cardinality(Between(s, k, t, u)) = 0
    BY <1>1, <1>3
  <2>3. 0 <= Limit[k] - 1 /\ 0 <= 2 * Limit[k] - 1
    BY <1>2, <2>1
  <2> QED
    BY <1>1, <1>2, <2>1, <2>2, <2>3 DEF MemoryBoundOf
<1>5. ASSUME NEW k \in Keys PROVE RedisBoundOf(k)
  <2>1. Redis \in Stores
    BY DEF Stores
  <2>2. \A t, u : Cardinality(From(Redis, k, t)) = 0 /\ Cardinality(Between(Redis, k, t, u)) = 0
    BY <1>1, <1>3
  <2>3. 0 <= Limit[k]
    BY <1>2, <2>1
  <2> QED
    BY <1>1, <1>2, <2>1, <2>2, <2>3 DEF RedisBoundOf
<1> QED
  BY <1>4, <1>5 DEF Bounded, Init

(* A step that counts nobody and touches no bucket.                        *)
LEMMA QuietBounded ==
  ASSUME Bounded, UNCHANGED <<buckets, count, when, key>>,
         \A d \in Calls : count[d] # 0 => using'[d] = using[d]
  PROVE  Bounded'
<1>1. ASSUME NEW s, NEW k PROVE Hits(s, k)' = Hits(s, k) /\ Passes(s, k)' = Passes(s, k)
  BY DEF Hits, Passes, Passed, Verdict
<1>2. ASSUME NEW s, NEW k, NEW t, NEW u
      PROVE  From(s, k, t)' = From(s, k, t) /\ Between(s, k, t, u)' = Between(s, k, t, u)
  BY <1>1 DEF From, Between
<1>3. ASSUME NEW s \in Calls, NEW k \in Keys PROVE MemoryBoundOf(s, k)'
  <2>1. MemoryBoundOf(s, k)
    BY DEF Bounded
  <2> QED
    BY <1>1, <1>2, <2>1 DEF MemoryBoundOf, AtMostLimit
<1>4. ASSUME NEW k \in Keys PROVE RedisBoundOf(k)'
  <2>1. RedisBoundOf(k)
    BY DEF Bounded
  <2> QED
    BY <1>1, <1>2, <2>1 DEF RedisBoundOf, AtMostLimit
<1> QED
  BY <1>3, <1>4 DEF Bounded

(* Call c is counted in store s under key k, whose bucket becomes b.       *)
CountedAs(c, s, k, b) ==
  /\ c \in Calls /\ s \in Stores /\ k \in Keys /\ k = key[c] /\ key' = key /\ now' = now
  /\ count[c] = 0 /\ b \in [since : 0..MaxTime, count : Nat] /\ b.count # 0
  /\ using' = [using EXCEPT ![c] = s]
  /\ buckets' = [buckets EXCEPT ![s][k] = b]
  /\ count' = [count EXCEPT ![c] = b.count]
  /\ when' = [when EXCEPT ![c] = now]

LEMMA CountedSets ==
  ASSUME IInv, NEW c, NEW s, NEW k, NEW b, CountedAs(c, s, k, b)
  PROVE  /\ when'[c] = now /\ \A d \in Calls \ {c} : when'[d] = when[d]
         /\ buckets'[s][k] = b
         /\ Hits(s, k)' = Hits(s, k) \cup {c} /\ c \notin Hits(s, k)
         /\ Passes(s, k)' = Passes(s, k) \cup (IF b.count > Limit[k] THEN {} ELSE {c})
         /\ \A t \in Stores, j \in Keys : (t # s \/ j # k) =>
              /\ buckets'[t][j] = buckets[t][j]
              /\ Hits(t, j)' = Hits(t, j) /\ Passes(t, j)' = Passes(t, j)
<1>1. /\ c \in Calls /\ s \in Stores /\ k \in Keys
      /\ using'[c] = s /\ count'[c] = b.count /\ when'[c] = now /\ key'[c] = k
      /\ \A d \in Calls \ {c} : /\ using'[d] = using[d] /\ count'[d] = count[d]
                                /\ when'[d] = when[d] /\ key'[d] = key[d]
  BY DEF CountedAs, IInv, TypeOK
<1>2. \A d \in Calls \ {c} : Passed(d)' <=> Passed(d)
  BY <1>1 DEF Passed, Verdict
<1>3. Passed(c)' <=> ~(b.count > Limit[k])
  BY <1>1 DEF Passed, Verdict, CountedAs
<1>4. count[c] = 0 /\ b.count # 0
  BY DEF CountedAs
<1>5. Hits(s, k)' = Hits(s, k) \cup {c} /\ c \notin Hits(s, k)
  BY <1>1, <1>4 DEF Hits
<1>6. Passes(s, k)' = Passes(s, k) \cup (IF b.count > Limit[k] THEN {} ELSE {c})
  BY <1>2, <1>3, <1>5 DEF Passes, Hits
<1>7. ASSUME NEW t \in Stores, NEW j \in Keys, t # s \/ j # k
      PROVE  Hits(t, j)' = Hits(t, j) /\ Passes(t, j)' = Passes(t, j)
  <2>1. Hits(t, j)' = Hits(t, j) /\ c \notin Hits(t, j)
    BY <1>1, <1>4, <1>7 DEF Hits
  <2> QED
    BY <1>2, <2>1 DEF Passes, Hits
<1>8. buckets'[s][k] = b /\ \A t \in Stores, j \in Keys : (t # s \/ j # k) =>
        buckets'[t][j] = buckets[t][j]
  BY <1>1 DEF CountedAs, IInv, TypeOK
<1> QED
  BY <1>1, <1>5, <1>6, <1>7, <1>8

(* The other buckets keep their bounds.                                    *)
LEMMA OthersBounded ==
  ASSUME IInv, Bounded, NEW c, NEW s, NEW k, NEW b, CountedAs(c, s, k, b)
  PROVE  /\ \A t \in Calls, j \in Keys : (t # s \/ j # k) => MemoryBoundOf(t, j)'
         /\ \A j \in Keys : (Redis # s \/ j # k) => RedisBoundOf(j)'
         /\ \A d \in Calls : count'[d] # 0 => using'[d] \in Stores
<1>1. ASSUME NEW t \in Stores, NEW j \in Keys, t # s \/ j # k
      PROVE  /\ Hits(t, j)' = Hits(t, j) /\ buckets'[t][j] = buckets[t][j]
             /\ \A d \in Hits(t, j) : when'[d] = when[d]
             /\ \A f, u : From(t, j, f)' = From(t, j, f) /\ Between(t, j, f, u)' = Between(t, j, f, u)
  <2>1. /\ Hits(t, j)' = Hits(t, j) /\ Passes(t, j)' = Passes(t, j)
        /\ buckets'[t][j] = buckets[t][j] /\ \A d \in Calls \ {c} : when'[d] = when[d]
    BY <1>1, CountedSets
  <2>2. c \notin Hits(t, j)
    BY DEF CountedAs, Hits
  <2>3. \A d \in Hits(t, j) : when'[d] = when[d]
    BY <2>1, <2>2 DEF Hits
  <2>4. \A d \in Passes(t, j) : when'[d] = when[d]
    BY <2>3 DEF Passes
  <2> QED
    BY <2>1, <2>3, <2>4 DEF From, Between
<1>2. ASSUME NEW t \in Calls, NEW j \in Keys, t # s \/ j # k PROVE MemoryBoundOf(t, j)'
  <2>1. MemoryBoundOf(t, j) /\ t \in Stores
    BY DEF Bounded, Stores
  <2> QED
    BY <1>1, <1>2, <2>1 DEF MemoryBoundOf, AtMostLimit
<1>3. ASSUME NEW j \in Keys, Redis # s \/ j # k PROVE RedisBoundOf(j)'
  <2>1. RedisBoundOf(j) /\ Redis \in Stores
    BY DEF Bounded, Stores
  <2> QED
    BY <1>1, <1>3, <2>1 DEF RedisBoundOf, AtMostLimit
<1>4. \A d \in Calls : count'[d] # 0 => using'[d] \in Stores
  BY DEF CountedAs, Bounded, IInv, TypeOK
<1> QED
  BY <1>2, <1>3, <1>4

(* The parts of the counter of c, with c added.                            *)
LEMMA CountedParts ==
  ASSUME IInv, NEW c, NEW s, NEW k, NEW b, CountedAs(c, s, k, b),
         \A d \in Hits(s, k) : when[d] <= now
  PROVE  \A t, u \in Int :
           /\ From(s, k, t)' \subseteq From(s, k, t) \cup {c}
           /\ (b.count > Limit[k] \/ t > now) => From(s, k, t)' = From(s, k, t)
           /\ Between(s, k, t, u)' \subseteq Between(s, k, t, u) \cup {c}
           /\ now \notin t..u => Between(s, k, t, u)' = Between(s, k, t, u)
           /\ Between(s, k, t, u)' \subseteq From(s, k, t)'
<1>1. /\ when'[c] = now /\ c \notin Hits(s, k) /\ now \in Int
      /\ \A d \in Calls \ {c} : when'[d] = when[d]
      /\ Passes(s, k)' = Passes(s, k) \cup (IF b.count > Limit[k] THEN {} ELSE {c})
  BY CountedSets DEF IInv, TypeOK
<1>2. c \notin Passes(s, k) /\ \A d \in Passes(s, k) : when'[d] = when[d] /\ when[d] \in Int
  BY <1>1 DEF Passes, Hits, IInv, TypeOK
<1> SUFFICES ASSUME NEW t \in Int, NEW u \in Int
             PROVE  /\ From(s, k, t)' \subseteq From(s, k, t) \cup {c}
                    /\ (b.count > Limit[k] \/ t > now) => From(s, k, t)' = From(s, k, t)
                    /\ Between(s, k, t, u)' \subseteq Between(s, k, t, u) \cup {c}
                    /\ now \notin t..u => Between(s, k, t, u)' = Between(s, k, t, u)
                    /\ Between(s, k, t, u)' \subseteq From(s, k, t)'
  OBVIOUS
<1>3. From(s, k, t)' \subseteq From(s, k, t) \cup {c}
  BY <1>1, <1>2 DEF From
<1>4. (b.count > Limit[k] \/ t > now) => From(s, k, t)' = From(s, k, t)
  BY <1>1, <1>2 DEF From
<1>5. Between(s, k, t, u)' \subseteq Between(s, k, t, u) \cup {c}
  BY <1>1, <1>2 DEF Between
<1>6. now \notin t..u => Between(s, k, t, u)' = Between(s, k, t, u)
  BY <1>1, <1>2 DEF Between
<1>7. Between(s, k, t, u)' \subseteq From(s, k, t)'
  BY <1>1, <1>2 DEF Between, From
<1> QED
  BY <1>3, <1>4, <1>5, <1>6, <1>7

(* One hit in memory.                                                      *)
LEMMA MemoryHitBounded ==
  ASSUME IInv, Earned, Bounded, NEW c, NEW s \in Calls, NEW k, NEW b, CountedAs(c, s, k, b),
         b = MemoryWindow(buckets[s][k])
  PROVE  MemoryBoundOf(s, k)'
<1> DEFINE old == buckets[s][k]
           L == Limit[k]
<1>1. /\ c \in Calls /\ s \in Stores /\ k \in Keys /\ L \in Nat /\ L >= 1
      /\ old.since \in Nat /\ old.count \in Nat /\ now \in Nat /\ Window \in Nat /\ Window >= 1
      /\ b.since \in Nat /\ b.count \in Nat /\ old.since <= now /\ now' = now
  BY LimitAssumption, WindowType DEF CountedAs, IInv, TypeOK, BucketsOpened, Stores
<1>2. /\ \A d \in Hits(s, k) : when[d] <= old.since + Window
      /\ Cardinality(From(s, k, old.since)) <= AtMostLimit(k, old.count)
      /\ Cardinality(From(s, k, old.since + 1))
           <= IF old.count = 0 THEN 0 ELSE AtMostLimit(k, old.count) - 1
      /\ Cardinality(Between(s, k, old.since - Window + 1, old.since - 1)) <= L - 1
      /\ \A t \in Nat : Cardinality(Between(s, k, t, t + Window - 1)) <= 2 * L - 1
  BY <1>1 DEF Bounded, MemoryBoundOf
<1>3. \A d \in Hits(s, k) : when[d] <= now /\ when[d] \in Nat
  BY DEF Hits, Earned, CountedCalls, IInv, TypeOK
<1>4. \A t, u \in Int :
        /\ From(s, k, t)' \subseteq From(s, k, t) \cup {c}
        /\ (b.count > L \/ t > now) => From(s, k, t)' = From(s, k, t)
        /\ Between(s, k, t, u)' \subseteq Between(s, k, t, u) \cup {c}
        /\ now \notin t..u => Between(s, k, t, u)' = Between(s, k, t, u)
        /\ Between(s, k, t, u)' \subseteq From(s, k, t)'
  BY <1>3, CountedParts
<1>5. /\ when'[c] = now /\ buckets'[s][k] = b /\ Hits(s, k)' = Hits(s, k) \cup {c}
      /\ \A d \in Hits(s, k) : when'[d] = when[d]
  BY <1>1, CountedSets DEF Hits
<1>6. \A t, u : /\ From(s, k, t) \in SUBSET Calls /\ Between(s, k, t, u) \in SUBSET Calls
                /\ From(s, k, t)' \in SUBSET Calls /\ Between(s, k, t, u)' \in SUBSET Calls
  BY FiniteParts DEF From, Between, Passes, Hits
<1> DEFINE Four == /\ \A d \in Hits(s, k)' : when'[d] <= b.since + Window
                  /\ Cardinality(From(s, k, b.since)') <= AtMostLimit(k, b.count)
                  /\ Cardinality(From(s, k, b.since + 1)') <= AtMostLimit(k, b.count) - 1
                  /\ Cardinality(Between(s, k, b.since - Window + 1, b.since - 1)') <= L - 1
<1>7. ASSUME ~(old.count = 0 \/ now - old.since > Window) PROVE Four
  <2>1. b.since = old.since /\ b.count = old.count + 1 /\ now <= old.since + Window
    BY <1>1, <1>7 DEF MemoryWindow
  <2>2. \A d \in Hits(s, k)' : when'[d] <= b.since + Window
    BY <1>2, <1>5, <2>1
  <2>3. Cardinality(From(s, k, b.since)') <= AtMostLimit(k, b.count)
    <3>1. CASE b.count > L
      <4>1. From(s, k, b.since)' = From(s, k, old.since)
        BY <1>1, <1>4, <2>1, <3>1
      <4> QED
        BY <1>1, <1>2, <2>1, <3>1, <4>1 DEF AtMostLimit
    <3>2. CASE ~(b.count > L)
      <4>1. Cardinality(From(s, k, b.since)') <= Cardinality(From(s, k, old.since)) + 1
        BY <1>1, <1>4, <1>6, <2>1, OneMore
      <4>2. AtMostLimit(k, old.count) = old.count /\ AtMostLimit(k, b.count) = old.count + 1
        BY <1>1, <2>1, <3>2 DEF AtMostLimit
      <4> QED
        BY <1>1, <1>2, <1>6, <4>1, <4>2, FiniteCalls
    <3> QED
      BY <3>1, <3>2
  <2>4. Cardinality(From(s, k, b.since + 1)') <= AtMostLimit(k, b.count) - 1
    <3>0. Cardinality(From(s, k, old.since + 1)) <= AtMostLimit(k, old.count) - 1
      BY <1>2, <1>7
    <3>1. CASE b.count > L
      <4>1. From(s, k, b.since + 1)' = From(s, k, old.since + 1)
        BY <1>1, <1>4, <2>1, <3>1
      <4>2. AtMostLimit(k, b.count) = L /\ AtMostLimit(k, old.count) <= L
        BY <1>1, <3>1 DEF AtMostLimit
      <4>3. AtMostLimit(k, old.count) \in Int
        BY <1>1 DEF AtMostLimit
      <4> QED
        BY <1>1, <1>6, <3>0, <4>1, <4>2, <4>3, FiniteCalls
    <3>2. CASE ~(b.count > L)
      <4>1. Cardinality(From(s, k, b.since + 1)') <= Cardinality(From(s, k, old.since + 1)) + 1
        BY <1>1, <1>4, <1>6, <2>1, OneMore
      <4>2. AtMostLimit(k, old.count) = old.count /\ AtMostLimit(k, b.count) = old.count + 1
        BY <1>1, <2>1, <3>2 DEF AtMostLimit
      <4> QED
        BY <1>1, <1>6, <3>0, <4>1, <4>2, FiniteCalls
    <3> QED
      BY <3>1, <3>2
  <2>5. Cardinality(Between(s, k, b.since - Window + 1, b.since - 1)') <= L - 1
    BY <1>1, <1>2, <1>4, <2>1
  <2> QED
    BY <2>2, <2>3, <2>4, <2>5
<1>8. ASSUME old.count = 0 \/ now - old.since > Window PROVE Four
  <2>1. b.since = now /\ b.count = 1 /\ AtMostLimit(k, b.count) = 1
    BY <1>1, <1>8 DEF MemoryWindow, AtMostLimit
  <2>2. \A d \in Hits(s, k)' : when'[d] <= b.since + Window
    BY <1>1, <1>3, <1>5, <2>1
  <2>3. old.count = 0 => From(s, k, old.since) = {}
    <3>1. Cardinality(From(s, k, old.since)) \in Nat /\ IsFiniteSet(From(s, k, old.since))
      BY <1>6, FiniteCalls
    <3>2. old.count = 0 => Cardinality(From(s, k, old.since)) = 0
      BY <1>1, <1>2, <3>1 DEF AtMostLimit
    <3> QED
      BY <3>1, <3>2, FS_EmptySet
  <2>4. \A d \in Passes(s, k) : /\ when[d] \in Nat /\ when[d] <= old.since + Window
                                /\ old.count = 0 => when[d] < old.since
    BY <1>1, <1>2, <1>3, <2>3 DEF Passes, From
  <2>5. From(s, k, now) = {} /\ From(s, k, now + 1) = {}
    BY <1>1, <1>8, <2>4 DEF From
  <2>6. Cardinality({}) = 0
    BY FS_EmptySet
  <2>7. Cardinality(From(s, k, b.since)') <= AtMostLimit(k, b.count)
    <3>1. Cardinality(From(s, k, b.since)') <= Cardinality(From(s, k, b.since)) + 1
      BY <1>1, <1>4, <1>6, OneMore
    <3> QED
      BY <2>1, <2>5, <2>6, <3>1
  <2>8. Cardinality(From(s, k, b.since + 1)') <= AtMostLimit(k, b.count) - 1
    <3>1. From(s, k, b.since + 1)' = From(s, k, b.since + 1)
      BY <1>1, <1>4, <2>1
    <3> QED
      BY <2>1, <2>5, <2>6, <3>1
  <2>9. Cardinality(Between(s, k, b.since - Window + 1, b.since - 1)') <= L - 1
    <3> DEFINE S == Between(s, k, now - Window + 1, now - 1)
               early == Between(s, k, old.since - Window + 1, old.since - 1)
               late == From(s, k, old.since + 1)
    <3>1. Between(s, k, b.since - Window + 1, b.since - 1)' = S
      BY <1>1, <1>4, <2>1
    <3>2. CASE old.count = 0
      <4>1. S \subseteq early
        BY <1>1, <2>4, <3>2 DEF Between
      <4> QED
        BY <1>1, <1>2, <1>6, <3>1, <4>1, LargerSet
    <3>3. CASE old.count # 0
      <4>1. S \subseteq late
        BY <1>1, <1>8, <2>4, <3>3 DEF Between, From
      <4>2. Cardinality(S) <= Cardinality(late) /\ Cardinality(S) \in Nat /\ Cardinality(late) \in Nat
        BY <1>6, <4>1, LargerSet
      <4>3. Cardinality(late) <= AtMostLimit(k, old.count) - 1
        BY <1>2, <3>3
      <4>4. AtMostLimit(k, old.count) <= L /\ AtMostLimit(k, old.count) \in Nat
        BY <1>1 DEF AtMostLimit
      <4> HIDE DEF S, late
      <4> QED
        BY <1>1, <3>1, <4>2, <4>3, <4>4
    <3> QED
      BY <3>2, <3>3
  <2> QED
    BY <2>2, <2>7, <2>8, <2>9
<1>9. Four /\ b.since <= now
  BY <1>1, <1>7, <1>8 DEF MemoryWindow
<1>10. ASSUME NEW t \in Nat PROVE Cardinality(Between(s, k, t, t + Window - 1)') <= 2 * L - 1
  <2> DEFINE S == Between(s, k, t, t + Window - 1)'
             early == Between(s, k, b.since - Window + 1, b.since - 1)'
             late == From(s, k, b.since)'
  <2>1. /\ Cardinality(S) \in Nat /\ Cardinality(early) \in Nat /\ Cardinality(late) \in Nat
        /\ Cardinality(early) <= L - 1 /\ Cardinality(late) <= L
    <3>1. AtMostLimit(k, b.count) <= L
      BY <1>1 DEF AtMostLimit
    <3>2. AtMostLimit(k, b.count) \in Nat
      BY <1>1 DEF AtMostLimit
    <3> QED
      BY <1>1, <1>6, <1>9, <3>1, <3>2, FiniteCalls
  <2>2. CASE now \notin t..(t + Window - 1)
    BY <1>1, <1>2, <1>4, <2>2
  <2>3. CASE now \in t..(t + Window - 1)
    <3>1. b.since <= t + Window - 1
      BY <1>1, <1>9, <2>3
    <3>2. \A d \in Passes(s, k)' : when'[d] \in Nat
      BY <1>1, <1>3, <1>5 DEF Passes
    <3>3. S \subseteq early \cup late
      BY <1>1, <3>1, <3>2 DEF Between, From
    <3>4. Cardinality(S) <= Cardinality(early) + Cardinality(late)
      BY <1>6, <3>3, TwoParts
    <3>5. L \in Nat
      BY <1>1
    <3>6. Cardinality(S) <= 2 * L - 1
      <4> HIDE DEF S, early, late, L
      <4> QED
        BY <2>1, <3>4, <3>5
    <3> QED
      BY <3>6
  <2> QED
    BY <2>2, <2>3
<1> QED
  BY <1>1, <1>5, <1>9, <1>10 DEF MemoryBoundOf, AtMostLimit, CountedAs

(* One hit in Redis.                                                       *)
LEMMA RedisHitBounded ==
  ASSUME IInv, Earned, Bounded, NEW c, NEW k, NEW b, CountedAs(c, Redis, k, b),
         b = RedisWindow(buckets[Redis][k])
  PROVE  RedisBoundOf(k)'
<1> DEFINE old == buckets[Redis][k]
           L == Limit[k]
<1>1. /\ c \in Calls /\ Redis \in Stores /\ k \in Keys /\ L \in Nat /\ L >= 1
      /\ old.since \in Nat /\ old.count \in Nat /\ now \in Nat /\ Window \in Nat /\ Window >= 1
      /\ b.count \in Nat /\ old.since <= now /\ now' = now
  BY LimitAssumption, WindowType DEF CountedAs, IInv, TypeOK, BucketsOpened, Stores
<1>2. /\ \A d \in Hits(Redis, k) : when[d] <= old.since
      /\ \A t \in Int : t > old.since - Window =>
           Cardinality(From(Redis, k, t)) <= AtMostLimit(k, old.count)
      /\ \A t \in Nat : Cardinality(Between(Redis, k, t, t + Window - 1)) <= L
  BY <1>1 DEF Bounded, RedisBoundOf
<1>3. \A d \in Hits(Redis, k) : when[d] <= now /\ when[d] \in Nat
  BY DEF Hits, Earned, CountedCalls, IInv, TypeOK
<1>4. \A t, u \in Int :
        /\ From(Redis, k, t)' \subseteq From(Redis, k, t) \cup {c}
        /\ (b.count > L \/ t > now) => From(Redis, k, t)' = From(Redis, k, t)
        /\ now \notin t..u => Between(Redis, k, t, u)' = Between(Redis, k, t, u)
        /\ Between(Redis, k, t, u)' \subseteq From(Redis, k, t)'
  BY <1>3, CountedParts
<1>5. /\ when'[c] = now /\ buckets'[Redis][k] = b /\ Hits(Redis, k)' = Hits(Redis, k) \cup {c}
      /\ \A d \in Hits(Redis, k) : when'[d] = when[d]
  BY <1>1, CountedSets DEF Hits
<1>6. \A t, u : /\ From(Redis, k, t) \in SUBSET Calls /\ From(Redis, k, t)' \in SUBSET Calls
                /\ Between(Redis, k, t, u)' \in SUBSET Calls
  BY FiniteParts DEF From, Between, Passes, Hits
<1>7. b.since = now
  BY DEF RedisWindow
<1>8. \A d \in Hits(Redis, k)' : when'[d] <= b.since
  BY <1>1, <1>3, <1>5, <1>7
<1>9. ASSUME NEW t \in Int, t > now - Window
      PROVE  Cardinality(From(Redis, k, t)') <= AtMostLimit(k, b.count)
  <2>1. /\ Cardinality(From(Redis, k, t)') <= Cardinality(From(Redis, k, t)) + 1
        /\ Cardinality(From(Redis, k, t)) \in Nat /\ Cardinality(From(Redis, k, t)') \in Nat
    BY <1>1, <1>4, <1>6, OneMore, FiniteCalls
  <2>2. Cardinality(From(Redis, k, t)) <= AtMostLimit(k, old.count)
    BY <1>1, <1>2, <1>9
  <2>3. CASE ~(old.count = 0 \/ now >= old.since + Window)
    <3>1. b.count = old.count + 1
      BY <2>3 DEF RedisWindow
    <3>2. CASE b.count > L
      <4>1. Cardinality(From(Redis, k, t)') = Cardinality(From(Redis, k, t))
        BY <1>4, <3>2
      <4>2. AtMostLimit(k, old.count) <= L /\ AtMostLimit(k, b.count) = L
            /\ AtMostLimit(k, old.count) \in Nat
        BY <1>1, <3>2 DEF AtMostLimit
      <4> QED
        BY <1>1, <2>1, <2>2, <4>1, <4>2
    <3>3. CASE ~(b.count > L)
      <4>1. AtMostLimit(k, old.count) = old.count /\ AtMostLimit(k, b.count) = old.count + 1
        BY <1>1, <3>1, <3>3 DEF AtMostLimit
      <4> QED
        BY <1>1, <2>1, <2>2, <4>1
    <3> QED
      BY <3>2, <3>3
  <2>4. CASE old.count = 0 \/ now >= old.since + Window
    <3>1. b.count = 1 /\ AtMostLimit(k, b.count) = 1
      BY <1>1, <2>4 DEF RedisWindow, AtMostLimit
    <3>2. Cardinality(From(Redis, k, t)) = 0
      <4>1. CASE old.count = 0
        BY <1>1, <2>1, <2>2, <4>1 DEF AtMostLimit
      <4>2. CASE now >= old.since + Window
        <5>1. From(Redis, k, t) = {}
          BY <1>1, <1>2, <1>3, <1>9, <4>2 DEF From, Passes
        <5> QED
          BY <5>1, FS_EmptySet
      <4> QED
        BY <2>4, <4>1, <4>2
    <3> QED
      BY <2>1, <3>1, <3>2
  <2> QED
    BY <2>3, <2>4
<1>10. ASSUME NEW t \in Nat PROVE Cardinality(Between(Redis, k, t, t + Window - 1)') <= L
  <2>1. CASE now \notin t..(t + Window - 1)
    BY <1>1, <1>2, <1>4, <2>1
  <2>2. CASE now \in t..(t + Window - 1)
    <3>1. Cardinality(From(Redis, k, t)') <= AtMostLimit(k, b.count)
      BY <1>1, <1>9, <2>2
    <3>2. Between(Redis, k, t, t + Window - 1)' \subseteq From(Redis, k, t)'
      BY <1>1, <1>4
    <3>3. AtMostLimit(k, b.count) <= L /\ AtMostLimit(k, b.count) \in Nat
      BY <1>1 DEF AtMostLimit
    <3> QED
      BY <1>1, <1>6, <3>1, <3>2, <3>3, LargerSet
  <2> QED
    BY <2>1, <2>2
<1> QED
  BY <1>1, <1>5, <1>7, <1>8, <1>9, <1>10 DEF RedisBoundOf, AtMostLimit, CountedAs

(* Which steps count a call, and how.                                      *)
LEMMA WhoCounts ==
  ASSUME IInv, Earned, [Next]_vars
  PROVE  \/ /\ UNCHANGED <<buckets, count, when, key>>
            /\ \A d \in Calls : count[d] # 0 => using'[d] = using[d]
         \/ \E c \in Calls, s \in Stores, k \in Keys :
              LET b == IF s = Redis THEN RedisWindow(buckets[s][k])
                                    ELSE MemoryWindow(buckets[s][k])
              IN  CountedAs(c, s, k, b)
<1> DEFINE Quiet == /\ UNCHANGED <<buckets, count, when, key>>
                    /\ \A d \in Calls : count[d] # 0 => using'[d] = using[d]
           AsIn(s, k) == IF s = Redis THEN RedisWindow(buckets[s][k])
                                      ELSE MemoryWindow(buckets[s][k])
           Counts(c, s, k) == CountedAs(c, s, k, AsIn(s, k))
<1>1. ASSUME NEW c \in Calls, pc[c] \in {"new", "ping"}, NEW s \in Stores, Incr(c, s),
             UNCHANGED <<now, key>>
      PROVE  Quiet \/ \E k \in Keys : Counts(c, s, k)
  <2>1. CASE s = Redis
    BY <1>1, <2>1 DEF Incr, IInv, TypeOK, Located
  <2>2. CASE s # Redis
    <3>1. MemoryIncr(c, s) /\ count[c] = 0 /\ key[c] \in Keys
      BY <1>1, <2>2 DEF Incr, IInv, TypeOK, Located
    <3>2. /\ MemoryWindow(buckets[s][key[c]]) \in [since : 0..MaxTime, count : Nat]
          /\ MemoryWindow(buckets[s][key[c]]).count # 0
      BY <3>1, MemoryWindowType DEF IInv, TypeOK, BucketsOpened
    <3>3. Counts(c, s, key[c])
      BY <1>1, <2>2, <3>1, <3>2 DEF MemoryIncr, Counted, CountedAs
    <3> QED
      BY <3>1, <3>3
  <2> QED
    BY <2>1, <2>2
<1>2. ASSUME NEW c \in Calls, RedisIncr(c) PROVE \E k \in Keys : Counts(c, Redis, k)
  <2>1. pc[c] = "pipe" /\ count[c] = 0 /\ key[c] \in Keys /\ Redis \in Stores
    BY <1>2 DEF RedisIncr, IInv, TypeOK, Located, Stores
  <2>2. /\ RedisWindow(buckets[Redis][key[c]]) \in [since : 0..MaxTime, count : Nat]
        /\ RedisWindow(buckets[Redis][key[c]]).count # 0
    BY <2>1 DEF IInv, TypeOK, RedisWindow
  <2>3. Counts(c, Redis, key[c])
    BY <1>2, <2>1, <2>2 DEF RedisIncr, Counted, CountedAs
  <2> QED
    BY <2>1, <2>3
<1>3. ASSUME NEW c \in Calls, Arrive(c) \/ PingAnswered(c) \/ PingFailed(c)
      PROVE  Quiet \/ \E s \in Stores : Incr(c, s) /\ pc[c] \in {"new", "ping"}
                                        /\ UNCHANGED <<now, key>>
  BY <1>3 DEF Arrive, PingAnswered, PingFailed, IInv, TypeOK, Stores
<1>4. ASSUME NEW c \in Calls, RedisTtl(c) \/ RedisError(c) PROVE Quiet
  BY <1>4 DEF RedisTtl, RedisError, locals
<1>5. ASSUME Tick \/ Crash \/ UNCHANGED vars PROVE Quiet
  BY <1>5 DEF Tick, Crash, locals, vars
<1> HIDE DEF Quiet, Counts
<1>6. Quiet \/ \E c \in Calls, s \in Stores, k \in Keys : Counts(c, s, k)
  <2>1. Redis \in Stores
    BY DEF Stores
  <2> QED
    BY <1>1, <1>2, <1>3, <1>4, <1>5, <2>1 DEF Next, Handle
<1> QED
  BY <1>6 DEF Quiet, Counts

LEMMA NextBounded == IInv /\ Earned /\ Bounded /\ [Next]_vars => Bounded'
<1> SUFFICES ASSUME IInv, Earned, Bounded, [Next]_vars PROVE Bounded'
  OBVIOUS
<1>1. ASSUME NEW c \in Calls, NEW s \in Stores, NEW k \in Keys, NEW b,
             b = IF s = Redis THEN RedisWindow(buckets[s][k]) ELSE MemoryWindow(buckets[s][k]),
             CountedAs(c, s, k, b)
      PROVE  Bounded'
  <2>1. CASE s = Redis
    <3>1. Redis \notin Calls
      BY StoreAssumption
    <3> QED
      BY <1>1, <2>1, <3>1, RedisHitBounded, OthersBounded DEF Bounded
  <2>2. CASE s # Redis
    <3>1. s \in Calls
      BY <2>2 DEF Stores
    <3> QED
      BY <1>1, <2>2, <3>1, MemoryHitBounded, OthersBounded DEF Bounded
  <2> QED
    BY <2>1, <2>2
<1> QED
  BY <1>1, WhoCounts, QuietBounded

(* However calls of a key fall in time, however many stores are built and  *)
(* lost: no stretch of Window lets more than 2 * Limit - 1 through one     *)
(* memory store, nor more than Limit through Redis.                        *)
THEOREM PassesBounded == Spec => []PassesAreBounded
<1>1. IInv /\ Bounded => PassesAreBounded
  <2> SUFFICES ASSUME IInv, Bounded, NEW c \in Calls, Passed(c)
               PROVE  Cardinality(PassedFrom(c, when[c], when[c] + Window - 1))
                        <= IF using[c] = Redis THEN Limit[key[c]] ELSE 2 * Limit[key[c]] - 1
    BY DEF PassesAreBounded
  <2>1. /\ using[c] \in Stores /\ key[c] \in Keys /\ when[c] \in Nat
    BY DEF Bounded, Passed, IInv, TypeOK
  <2>2. PassedFrom(c, when[c], when[c] + Window - 1)
          = Between(using[c], key[c], when[c], when[c] + Window - 1)
    BY DEF PassedFrom, SameCounter, Passed, Between, Passes, Hits
  <2> QED
    BY <2>1, <2>2 DEF Bounded, MemoryBoundOf, RedisBoundOf, Stores
<1> QED
  BY <1>1, InitEarned, NextEarned, InitBounded, NextBounded, InitInv, NextInv, PTL DEF Spec
----------------------------------------------------------------------------
(* What a refused caller was told lies beyond the end of the window it was *)
(* refused in, unless that window is over.                                 *)
Told ==
  \A c \in Calls : (pc[c] = "refused" /\ using[c] # Redis) =>
    LET b == buckets[using[c]][key[c]]
    IN  /\ b.count # 0
        /\ when[c] >= b.since => when[c] + (told[c] + 1) * Second > b.since + Window

Honest == Told /\ RetryAfterIsHonest

LEMMA InitHonest == Init => Honest
BY DEF Init, Honest, Told, RetryAfterIsHonest

(* Seconds left, and one more, reach beyond the window.                    *)
LEMMA SecondsReach ==
  ASSUME NEW left \in Nat
  PROVE  left \div Second \in Nat /\ (left \div Second + 1) * Second > left
<1>1. Second \in Nat /\ Second > 0
  BY TimeAssumption
<1>2. left \div Second \in Nat
  BY <1>1
<1>3. (left \div Second + 1) * Second > left
  BY <1>1
<1> QED
  BY <1>2, <1>3

(* An old refusal keeps what it was told, and what was let through since.  *)
LEMMA OldHonest ==
  ASSUME IInv, Honest, Keeps, NEW c \in Calls, NEW d \in Calls,
         pc[c] = "refused", pc[d] = "refused", SameCounter(c, d), using[c] # Redis,
         when[d] >= when[c] + (told[c] + 1) * Second,
         using'[c] = using[c], when'[c] = when[c], key'[c] = key[c], when'[d] = when[d]
  PROVE  Cardinality(PassedFrom(c, when[c] + 1, when[d])') >= Limit[key[c]]
<1> DEFINE S == PassedFrom(c, when[c] + 1, when[d])
           T == PassedFrom(c, when[c] + 1, when[d])'
<1>1. S \subseteq T
  BY PassedStays DEF PassedFrom, SameCounter
<1>2. T \subseteq Calls
  BY DEF PassedFrom
<1>3. Cardinality(S) >= Limit[key[c]]
  BY DEF Honest, RetryAfterIsHonest
<1>4. Limit[key[c]] \in Nat
  BY LimitAssumption DEF IInv, TypeOK
<1> HIDE DEF S, T
<1>5. Cardinality(T) >= Limit[key[c]]
  BY <1>1, <1>2, <1>3, <1>4, LargerSet
<1> QED
  BY <1>5 DEF T

(* A step that counts nobody in memory.                                    *)
LEMMA QuietHonest ==
  ASSUME IInv, Earned, Bounded, Honest, Keeps,
         \A s \in Calls, k \in Keys : buckets'[s][k] = buckets[s][k],
         \A c \in Calls : (pc'[c] = "refused" /\ using'[c] # Redis) =>
                            pc[c] = "refused" /\ using[c] # Redis /\ told'[c] = told[c]
  PROVE  Honest'
<1>1. ASSUME NEW c \in Calls, pc'[c] = "refused", using'[c] # Redis
      PROVE  /\ pc[c] = "refused" /\ using[c] # Redis /\ told'[c] = told[c]
             /\ using'[c] = using[c] /\ when'[c] = when[c] /\ key'[c] = key[c]
  BY <1>1 DEF Earned, CountedCalls, Keeps
<1>0. \A c \in Calls : (pc[c] = "refused" /\ using[c] # Redis) => using[c] \in Calls
  BY DEF Earned, CountedCalls, Bounded, Stores
<1>2. Told'
  <2> SUFFICES ASSUME NEW c \in Calls, pc'[c] = "refused", using'[c] # Redis
               PROVE  LET b == buckets'[using'[c]][key'[c]]
                      IN  /\ b.count # 0
                          /\ when'[c] >= b.since =>
                               when'[c] + (told'[c] + 1) * Second > b.since + Window
    BY DEF Told, Window
  <2>1. /\ pc[c] = "refused" /\ using[c] # Redis /\ told'[c] = told[c]
        /\ using'[c] = using[c] /\ when'[c] = when[c] /\ key'[c] = key[c]
    BY <1>1
  <2>2. using[c] \in Calls /\ key[c] \in Keys
    BY <1>0, <2>1 DEF IInv, TypeOK
  <2>3. buckets'[using'[c]][key'[c]] = buckets[using[c]][key[c]]
    BY <2>1, <2>2
  <2> QED
    BY <2>1, <2>3 DEF Honest, Told
<1>3. RetryAfterIsHonest'
  <2> SUFFICES ASSUME NEW c \in Calls, NEW d \in Calls, pc'[c] = "refused", pc'[d] = "refused",
                      SameCounter(c, d)', using'[c] # Redis,
                      when'[d] >= when'[c] + (told'[c] + 1) * Second
               PROVE  Cardinality(PassedFrom(c, when[c] + 1, when[d])') >= Limit[key'[c]]
    BY DEF RetryAfterIsHonest
  <2>1. /\ pc[c] = "refused" /\ using[c] # Redis /\ told'[c] = told[c]
        /\ using'[c] = using[c] /\ when'[c] = when[c] /\ key'[c] = key[c]
    BY <1>1
  <2>2. /\ pc[d] = "refused" /\ using'[d] = using[d] /\ when'[d] = when[d] /\ key'[d] = key[d]
    BY <1>1 DEF SameCounter
  <2> QED
    BY <2>1, <2>2, OldHonest DEF SameCounter
<1> QED
  BY <1>2, <1>3 DEF Honest

(* A hit in memory: a refusal is told the end of the open window, and a    *)
(* caller refused before that window saw Limit others let through since.   *)
LEMMA MemoryIncrHonest ==
  ASSUME IInv, Earned, Earned', Bounded, Honest, NEW c \in Calls, NEW s \in Calls,
         pc[c] \in {"new", "ping"}, MemoryIncr(c, s), UNCHANGED <<now, key>>
  PROVE  Honest'
<1>0. PICK k \in Keys : k = key[c]
  BY DEF IInv, TypeOK
<1> DEFINE old == buckets[s][k]
           b == MemoryWindow(old)
<1>1. /\ s \in Stores /\ Limit[k] \in Nat \ {0} /\ s # Redis
      /\ old \in [since : 0..MaxTime, count : Nat] /\ old.since <= now
      /\ now \in Nat /\ Window \in Nat
  BY LimitAssumption, StoreAssumption, WindowType DEF IInv, TypeOK, BucketsOpened, Stores
<1>2. /\ using' = [using EXCEPT ![c] = s]
      /\ buckets' = [buckets EXCEPT ![s][k] = b]
      /\ count' = [count EXCEPT ![c] = b.count]
      /\ when' = [when EXCEPT ![c] = now]
      /\ told' = [told EXCEPT ![c] = SecondsLeft(b)]
      /\ pc' = [pc EXCEPT ![c] = Verdict(k, b.count)]
  BY <1>0 DEF MemoryIncr, Counted, Goto
<1>3. /\ b \in [since : 0..MaxTime, count : Nat] /\ b.count # 0
      /\ b.since <= now /\ now - b.since <= Window
  BY <1>1, MemoryWindowType DEF IInv
<1>4. b.since = old.since \/ (b.since = now /\ (old.count = 0 \/ now - old.since > Window))
  BY DEF MemoryWindow
<1> HIDE DEF b
<1>5. /\ when'[c] = now /\ using'[c] = s /\ key'[c] = k /\ buckets'[s][k] = b
      /\ pc'[c] = Verdict(k, b.count) /\ told'[c] = SecondsLeft(b)
      /\ \A d \in Calls \ {c} : /\ when'[d] = when[d] /\ using'[d] = using[d]
                                /\ key'[d] = key[d] /\ pc'[d] = pc[d] /\ told'[d] = told[d]
  BY <1>0, <1>1, <1>2 DEF IInv, TypeOK
<1>6. Keeps
  BY <1>2 DEF Keeps, IInv, TypeOK, Located
<1>7. now + (SecondsLeft(b) + 1) * Second > b.since + Window /\ SecondsLeft(b) \in Nat
  <2>1. b.since + Window - now \in Nat
    BY <1>1, <1>3
  <2>2. /\ SecondsLeft(b) \in Nat /\ (SecondsLeft(b) + 1) * Second > b.since + Window - now
    BY <2>1, SecondsReach DEF SecondsLeft
  <2>3. (SecondsLeft(b) + 1) * Second \in Nat
    BY <2>2, TimeAssumption
  <2> QED
    BY <1>1, <1>3, <2>2, <2>3
<1>8. ASSUME NEW d \in Calls \ {c}, pc[d] = "refused", using[d] # Redis
      PROVE  /\ using[d] \in Calls /\ key[d] \in Keys /\ when[d] \in Nat /\ told[d] \in Nat
             /\ when[d] <= now /\ count[d] # 0
             /\ using[d] = s /\ key[d] = k => when[d] <= old.since + Window
    <2>1. /\ using[d] \in Calls /\ key[d] \in Keys /\ when[d] \in Nat /\ told[d] \in Nat
          /\ when[d] <= now /\ count[d] # 0
      BY <1>8 DEF Earned, CountedCalls, Bounded, Stores, IInv, TypeOK
    <2> QED
      BY <2>1 DEF Bounded, MemoryBoundOf, Hits
(* Callers told in the window that stays open, or before it.               *)
<1>9. ASSUME NEW d \in Calls \ {c}, pc[d] = "refused", using[d] = s, key[d] = k,
             when[d] >= b.since
      PROVE  when[d] + (told[d] + 1) * Second > b.since + Window
  <2>1. CASE b.since = old.since
    BY <1>1, <1>9, <2>1 DEF Honest, Told
  <2>2. CASE b.since = now /\ now - old.since > Window
    BY <1>1, <1>8, <1>9, <2>2
  <2>3. CASE b.since = now /\ old.count = 0
    BY <1>1, <1>9, <2>3 DEF Honest, Told
  <2> QED
    BY <1>4, <2>1, <2>2, <2>3
<1>10. Told'
  <2> SUFFICES ASSUME NEW d \in Calls, pc'[d] = "refused", using'[d] # Redis
               PROVE  LET x == buckets'[using'[d]][key'[d]]
                      IN  /\ x.count # 0
                          /\ when'[d] >= x.since =>
                               when'[d] + (told'[d] + 1) * Second > x.since + Window
    BY DEF Told, Window
  <2>1. CASE d = c
    BY <1>3, <1>5, <1>7, <2>1
  <2>2. CASE d # c
    <3>1. /\ pc[d] = "refused" /\ using[d] # Redis /\ when'[d] = when[d] /\ told'[d] = told[d]
          /\ using'[d] = using[d] /\ key'[d] = key[d]
      BY <1>5, <2>2
    <3>2. CASE using[d] = s /\ key[d] = k
      BY <1>3, <1>5, <1>9, <2>2, <3>1, <3>2
    <3>3. CASE using[d] # s \/ key[d] # k
      <4>1. buckets'[using[d]][key[d]] = buckets[using[d]][key[d]]
        BY <1>1, <1>2, <1>8, <2>2, <3>1, <3>3 DEF IInv, TypeOK, Stores
      <4> QED
        BY <3>1, <4>1 DEF Honest, Told
    <3> QED
      BY <3>2, <3>3
  <2> QED
    BY <2>1, <2>2
<1>11. RetryAfterIsHonest'
  <2> SUFFICES ASSUME NEW d \in Calls, NEW e \in Calls, pc'[d] = "refused", pc'[e] = "refused",
                      SameCounter(d, e)', using'[d] # Redis,
                      when'[e] >= when'[d] + (told'[d] + 1) * Second
               PROVE  Cardinality(PassedFrom(d, when[d] + 1, when[e])') >= Limit[key'[d]]
    BY DEF RetryAfterIsHonest
  <2>1. CASE d = c
    <3>1. when'[e] <= now
      BY <1>1, <1>2, <1>5 DEF Earned, CountedCalls
    <3>2. when'[e] >= now + (SecondsLeft(b) + 1) * Second
      BY <1>5, <2>1
    <3>3. (SecondsLeft(b) + 1) * Second > 0
      BY <1>7, TimeAssumption
    <3>4. (SecondsLeft(b) + 1) * Second \in Int /\ when'[e] \in Int
      BY <1>1, <1>2, <1>7, TimeAssumption DEF IInv, TypeOK
    <3> HIDE DEF b
    <3> QED
      BY <1>1, <3>1, <3>2, <3>3, <3>4
  <2>2. CASE d # c /\ e # c
    BY <1>5, <1>6, <2>2, OldHonest DEF SameCounter
  <2>3. CASE d # c /\ e = c
    <3>1. /\ pc[d] = "refused" /\ using[d] = s /\ key[d] = k /\ when'[d] = when[d]
          /\ told'[d] = told[d] /\ key'[d] = k /\ using'[d] = s /\ when'[e] = now
      BY <1>5, <2>3 DEF SameCounter
    <3>2. when[d] < b.since
      <4>1. CASE when[d] >= b.since
        BY <1>3, <1>1, <1>5, <1>8, <1>9, <2>3, <3>1, <4>1, TimeAssumption
      <4> QED
        BY <1>1, <1>3, <1>8, <2>3, <3>1, <4>1
    <3>3. b.count > Limit[k]
      BY <1>5, <2>3 DEF Verdict
    <3> DEFINE S == HitsIn(s, k)'
               T == PassedFrom(d, when[d] + 1, when[e])'
    <3>4. Cardinality(S) >= Limit[k]
      BY <1>1, <1>3, <1>5, <3>3 DEF Earned, FullWindows, AtMostLimit
    <3>5. S \subseteq T
      <4> SUFFICES ASSUME NEW f \in Calls, f \in S PROVE f \in T
        BY DEF HitsIn
      <4>1. Passed(f)' /\ using'[f] = s /\ key'[f] = k /\ when'[f] >= b.since
        BY <1>5 DEF HitsIn
      <4>2. when'[f] <= now /\ when'[f] \in Int
        <5>1. f = c => when'[f] = now
          BY <1>5
        <5>2. f # c => when'[f] = when[f]
          BY <1>5
        <5> QED
          BY <1>1, <5>1, <5>2 DEF Earned, CountedCalls, IInv, TypeOK
      <4>3. when'[f] \in (when'[d] + 1)..when'[e]
        BY <1>3, <1>8, <2>3, <3>1, <3>2, <4>1, <4>2
      <4> QED
        BY <3>1, <4>1, <4>3 DEF PassedFrom, SameCounter
    <3>6. T \subseteq Calls
      BY DEF PassedFrom
    <3> HIDE DEF S, T
    <3>7. Cardinality(T) >= Limit[k]
      BY <1>1, <3>4, <3>5, <3>6, LargerSet
    <3> QED
      BY <3>1, <3>7 DEF T
  <2> QED
    BY <2>1, <2>2, <2>3
<1> QED
  BY <1>10, <1>11 DEF Honest

(* Every step counts nobody in memory, or is one hit there.                *)
LEMMA NextHonest == IInv /\ Earned /\ Bounded /\ Honest /\ [Next]_vars => Honest'
<1> SUFFICES ASSUME IInv, Earned, Bounded, Honest, [Next]_vars PROVE Honest'
  OBVIOUS
<1>0. Earned'
  BY NextEarned
<1> DEFINE Quiet == /\ Keeps
                    /\ \A s \in Calls, k \in Keys : buckets'[s][k] = buckets[s][k]
                    /\ \A c \in Calls : (pc'[c] = "refused" /\ using'[c] # Redis) =>
                         pc[c] = "refused" /\ using[c] # Redis /\ told'[c] = told[c]
<1>1. ASSUME NEW c \in Calls, pc[c] \in {"new", "ping"}, NEW s \in Stores, Incr(c, s),
             UNCHANGED <<now, key>>
      PROVE  Honest'
  <2>1. CASE s = Redis
    <3>1. Quiet
      BY <1>1, <2>1 DEF Incr, Goto, Keeps, IInv, TypeOK, Located
    <3> QED
      BY <3>1, QuietHonest
  <2>2. CASE s # Redis
    BY <1>0, <1>1, <2>2, MemoryIncrHonest DEF Incr, Stores
  <2> QED
    BY <2>1, <2>2
<1>2. ASSUME NEW c \in Calls, Arrive(c) \/ PingAnswered(c) \/ PingFailed(c)
      PROVE  Quiet \/ \E s \in Stores : Incr(c, s) /\ pc[c] \in {"new", "ping"}
                                        /\ UNCHANGED <<now, key>>
  BY <1>2 DEF Arrive, PingAnswered, PingFailed, Goto, Keeps, IInv, TypeOK, Stores
<1>3. ASSUME NEW c \in Calls, RedisIncr(c) PROVE Quiet
  BY <1>3, StoreAssumption DEF RedisIncr, Counted, Goto, Keeps, IInv, TypeOK, Located, Stores
<1>4. ASSUME NEW c \in Calls, RedisTtl(c) PROVE Quiet
  BY <1>4 DEF RedisTtl, Goto, Keeps, IInv, TypeOK, Located
<1>5. ASSUME NEW c \in Calls, RedisError(c) PROVE Quiet
  BY <1>5 DEF RedisError, Goto, locals, Keeps, IInv, TypeOK, Located
<1>6. ASSUME Tick \/ Crash \/ UNCHANGED vars PROVE Quiet
  BY <1>6 DEF Tick, Crash, locals, vars, Keeps, InFlight, IInv, TypeOK, Located
<1> HIDE DEF Quiet
<1>7. Quiet \/ \E c \in Calls, s \in Stores : Incr(c, s) /\ pc[c] \in {"new", "ping"}
                                              /\ UNCHANGED <<now, key>>
  BY <1>2, <1>3, <1>4, <1>5, <1>6 DEF Next, Handle
<1>8. CASE Quiet
  BY <1>8, QuietHonest DEF Quiet
<1> QED
  BY <1>1, <1>7, <1>8

(* Whatever the calls and the stores: who waits a second more than a       *)
(* memory store told it is refused again only behind Limit others.         *)
THEOREM RetryIsHonest == Spec => []RetryAfterIsHonest
<1>1. Honest => RetryAfterIsHonest
  BY DEF Honest
<1> QED
  BY <1>1, InitEarned, NextEarned, InitBounded, NextBounded, InitHonest, NextHonest,
     InitInv, NextInv, PTL DEF Spec
=============================================================================
