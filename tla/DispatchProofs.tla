--------------------------- MODULE DispatchProofs ---------------------------
(***************************************************************************)
(* Theorems about what a notification passes on its way out, each for any  *)
(* values of the constants: the counters of WindowedQuota, the dispatch of *)
(* ChannelDispatch, the do-not-disturb gate of DndGate.  The three share   *)
(* no state; each has a section and an inductive invariant of its own.     *)
(***************************************************************************)
EXTENDS WindowedQuota, ChannelDispatch, DndGate, WellFoundedInduction, TLAPS

-----------------------------------------------------------------------------
(* The retry budget and the frequency caps.                                *)

\* A moment lies before the end of the window it is in.
LEMMA InWindow ==
    ASSUME NEW now \in Int, NEW w \in Nat \ {0}
    PROVE  /\ now \div w \in Int
           /\ now < (now \div w + 1) * w
  OBVIOUS

\* When a counter is gone if its calls came with this lag.
EndWithLag(k, lag) == (k[3] + 1) * Window[k[1]] + lag

\* With one lag for all calls of its name, a counter is never created twice.
Faithful(k) ==
    /\ granted[k] = 0 => count[k] = 0 /\ lags[k] = {}
    /\ granted[k] > 0 => lags[k] /= {}
    /\ \A lag \in lags[k] : OneLag(k) =>
            /\ expires[k] = EndWithLag(k, lag)
            /\ count[k] = granted[k]
            /\ granted[k] <= Limit[k[1]]

QuotaInv ==
    /\ TypeOK
    /\ \A c \in Callers : reading[c] /= None => KeysOf(reading[c]) \subseteq Keys
    /\ \A k \in Keys : Faithful(k)

\* The limits and windows of a counter's dimension.
LEMMA KeyParts ==
    ASSUME NEW k \in Keys
    PROVE  /\ k[1] \in Dimensions /\ k[3] \in Int
           /\ Window[k[1]] \in Nat \ {0} /\ Limit[k[1]] \in Nat \ {0}
  BY QuotaAssumption DEF Keys

\* A call in the name of a counter comes before its end, by the caller's clock.
LEMMA OwnWindow ==
    ASSUME NEW r, r.now \in Int, KeysOf(r) \subseteq Keys, NEW k \in KeysOf(r)
    PROVE  /\ k \in Keys
           /\ SecondsUntilNext(k[1], r.now) = (k[3] + 1) * Window[k[1]] - r.now
           /\ SecondsUntilNext(k[1], r.now) > 0
  <1>1. PICK d \in Dimensions : k = KeyOf(r, d)
      BY DEF KeysOf
  <1>2. k[1] = d /\ k[3] = r.now \div Window[d]
      BY <1>1 DEF KeyOf, Bucket
  <1>3. Window[d] \in Nat \ {0}
      BY QuotaAssumption
  <1>4. r.now \div Window[d] \in Int /\ r.now < (r.now \div Window[d] + 1) * Window[d]
      BY <1>3, InWindow
  <1>5. (r.now \div Window[d] + 1) * Window[d] \in Int
      BY <1>3, <1>4
  <1> QED
      BY <1>2, <1>4, <1>5 DEF SecondsUntilNext, Bucket

LEMMA InitQuota == Init => QuotaInv
  <1> SUFFICES ASSUME Init PROVE QuotaInv
      OBVIOUS
  <1>1. TypeOK
      BY KeyParts DEF Init, TypeOK
  <1>2. \A k \in Keys : Faithful(k)
      BY DEF Init, Faithful
  <1> QED
      BY <1>1, <1>2 DEF Init, QuotaInv

\* What a granted call does to one of its counters.
LEMMA GrantCounts ==
    ASSUME QuotaInv, NEW c \in Callers, Grant(c), NEW k \in KeysOf(reading[c])
    PROVE  /\ k \in Keys
           /\ count'[k] \in Nat /\ expires'[k] \in Int /\ granted'[k] \in Nat
           /\ count'[k] <= Limit[k[1]]
           /\ time - reading[c].now \in Int
           /\ lags'[k] = lags[k] \cup {time - reading[c].now}
           /\ Faithful(k)'
  <1> DEFINE r == reading[c]
             m == time - r.now
             w == Window[k[1]]
             end == (k[3] + 1) * w
  <1>1. r \in [request : Requests, now : Int] /\ KeysOf(r) \subseteq Keys
      BY DEF Grant, QuotaInv, TypeOK
  <1>2. /\ k \in Keys
        /\ SecondsUntilNext(k[1], r.now) = end - r.now
        /\ SecondsUntilNext(k[1], r.now) > 0
      BY <1>1, OwnWindow
  <1>3. /\ k[3] \in Int /\ w \in Nat \ {0} /\ Limit[k[1]] \in Nat \ {0}
        /\ end \in Int
      BY <1>2, KeyParts
  <1>4. /\ time \in Nat /\ m \in Int /\ r.now \in Int
        /\ count[k] \in Nat /\ expires[k] \in Int /\ granted[k] \in Nat
        /\ lags[k] \subseteq Int
      BY <1>1, <1>2 DEF QuotaInv, TypeOK
  <1>5. /\ count'[k] = Current(k) + 1
        /\ expires'[k] = IF Current(k) = 0 THEN time + SecondsUntilNext(k[1], r.now)
                         ELSE expires[k]
        /\ granted'[k] = granted[k] + 1
        /\ lags'[k] = lags[k] \cup {m}
        /\ Current(k) < Limit[k[1]]
      BY <1>2 DEF Grant, HasCapacity
  <1>6. Current(k) \in Nat
      BY <1>4 DEF Current
  <1>7. Faithful(k)
      BY <1>2 DEF QuotaInv
  <1>8. /\ count'[k] \in Nat /\ expires'[k] \in Int /\ granted'[k] \in Nat
        /\ count'[k] <= Limit[k[1]]
    <2> HIDE DEF m, end, r, w
    <2> QED
        BY <1>2, <1>3, <1>4, <1>5, <1>6
  <1>9. ASSUME OneLag(k)'
        PROVE  /\ lags'[k] = {m}
               /\ expires'[k] = end + m
               /\ count'[k] = granted'[k]
               /\ granted'[k] <= Limit[k[1]]
    <2>1. lags'[k] = {m} /\ lags[k] \subseteq {m}
        BY <1>5, <1>9 DEF OneLag
    <2>2. CASE granted[k] = 0
      <3>1. Current(k) = 0
          BY <1>7, <2>2 DEF Faithful, Current
      <3> QED
          <4> HIDE DEF end, w
          <4> QED
              BY <1>2, <1>3, <1>4, <1>5, <2>1, <2>2, <3>1
    <2>3. CASE granted[k] > 0
      <3>1. lags[k] = {m} /\ OneLag(k)
          BY <1>7, <2>1, <2>3 DEF Faithful, OneLag
      <3>2. expires[k] = end + m /\ count[k] = granted[k]
          BY <1>7, <3>1 DEF Faithful, EndWithLag
      <3>3. expires[k] > time
        <4> HIDE DEF end, w
        <4> QED
            BY <1>2, <1>3, <1>4, <3>2
      <3>4. Current(k) = granted[k]
          BY <3>2, <3>3 DEF Current
      <3> QED
          <4> HIDE DEF end, w, m
          <4> QED
              BY <1>3, <1>4, <1>5, <2>1, <2>3, <3>2, <3>4
    <2> QED
        BY <1>4, <2>2, <2>3
  <1>10. Faithful(k)'
    <2> HIDE DEF m
    <2> QED
        BY <1>4, <1>5, <1>8, <1>9 DEF Faithful, EndWithLag
  <1> QED
      BY <1>2, <1>4, <1>5, <1>8, <1>10

\* A counter that keeps its values keeps what is true of it.
LEMMA Untouched ==
    ASSUME NEW k, Faithful(k),
           count'[k] = count[k], expires'[k] = expires[k],
           granted'[k] = granted[k], lags'[k] = lags[k]
    PROVE  Faithful(k)'
  BY DEF Faithful, OneLag, EndWithLag

LEMMA GrantKeeps ==
    ASSUME QuotaInv, NEW c \in Callers, Grant(c)
    PROVE  QuotaInv'
  <1>1. ASSUME NEW k \in Keys, k \notin KeysOf(reading[c])
        PROVE  /\ count'[k] = count[k] /\ expires'[k] = expires[k]
               /\ granted'[k] = granted[k] /\ lags'[k] = lags[k]
      BY <1>1 DEF Grant
  <1>2. \A k \in Keys : Faithful(k)'
      BY <1>1, GrantCounts, Untouched DEF QuotaInv
  <1>3. \A k \in Keys :
            /\ count'[k] \in Nat /\ expires'[k] \in Int /\ granted'[k] \in Nat
            /\ count'[k] <= Limit[k[1]] /\ lags'[k] \subseteq Int
      BY <1>1, GrantCounts DEF QuotaInv, TypeOK
  <1>4. /\ count' = [k \in Keys |-> count'[k]] /\ expires' = [k \in Keys |-> expires'[k]]
        /\ granted' = [k \in Keys |-> granted'[k]] /\ lags' = [k \in Keys |-> lags'[k]]
      BY DEF Grant
  <1>5. /\ count' \in [Keys -> Nat] /\ expires' \in [Keys -> Int]
        /\ granted' \in [Keys -> Nat] /\ lags' \in [Keys -> SUBSET Int]
      BY <1>3, <1>4
  <1>6. /\ time' = time
        /\ reading' \in [Callers -> [request : Requests, now : Int] \cup {None}]
        /\ \A d \in Callers : reading'[d] /= None => reading'[d] = reading[d]
      BY DEF Grant, QuotaInv, TypeOK
  <1>7. TypeOK'
      BY <1>3, <1>5, <1>6 DEF TypeOK, QuotaInv
  <1>8. \A d \in Callers : reading'[d] /= None => KeysOf(reading'[d]) \subseteq Keys
      BY <1>6 DEF QuotaInv
  <1> QED
      BY <1>2, <1>7, <1>8 DEF QuotaInv, KeysOf, KeyOf, Bucket

\* Steps that leave the counters and their history alone.
LEMMA CountersStay ==
    ASSUME QuotaInv, time' \in Nat,
           UNCHANGED <<count, expires, granted, lags>>,
           reading' \in [Callers -> [request : Requests, now : Int] \cup {None}],
           \A c \in Callers : reading'[c] /= None => KeysOf(reading'[c]) \subseteq Keys
    PROVE  QuotaInv'
  <1>1. TypeOK'
      BY DEF TypeOK, QuotaInv
  <1>2. \A k \in Keys : Faithful(k)'
      BY Untouched DEF QuotaInv
  <1> QED
      BY <1>1, <1>2 DEF QuotaInv, KeysOf, KeyOf, Bucket

LEMMA ReadClockKeeps ==
    ASSUME QuotaInv, NEW c \in Callers, NEW request \in Requests, ReadClock(c, request)
    PROVE  QuotaInv'
  <1> DEFINE r == [request |-> request, now |-> time + Skew[c]]
  <1>1. time \in Nat /\ Skew[c] \in Int
      BY QuotaAssumption DEF QuotaInv, TypeOK
  <1>2. r \in [request : Requests, now : Int]
      BY <1>1
  <1>3. /\ KeysOf(r) \subseteq Keys /\ reading' = [reading EXCEPT ![c] = r]
        /\ UNCHANGED <<time, count, expires, granted, lags>>
      BY DEF ReadClock
  <1> HIDE DEF r
  <1>4. reading' \in [Callers -> [request : Requests, now : Int] \cup {None}]
      BY <1>2, <1>3 DEF QuotaInv, TypeOK
  <1>5. \A d \in Callers : reading'[d] = IF d = c THEN r ELSE reading[d]
      BY <1>3 DEF QuotaInv, TypeOK
  <1>6. \A d \in Callers : reading'[d] /= None => KeysOf(reading'[d]) \subseteq Keys
      BY <1>3, <1>5 DEF QuotaInv
  <1> QED
      BY <1>1, <1>3, <1>4, <1>6, CountersStay

\* A call that ends without capacity being taken.
LEMMA EndsKeeps ==
    ASSUME QuotaInv, NEW c \in Callers, Refuse(c) \/ ScriptFails(c)
    PROVE  QuotaInv'
  <1>1. /\ reading' = [reading EXCEPT ![c] = None]
        /\ UNCHANGED <<time, count, expires, granted, lags>>
      BY DEF Refuse, ScriptFails
  <1>2. time' \in Nat /\ reading' \in [Callers -> [request : Requests, now : Int] \cup {None}]
      BY <1>1 DEF QuotaInv, TypeOK
  <1>3. \A d \in Callers : reading'[d] /= None => reading'[d] = reading[d]
      BY <1>1 DEF QuotaInv, TypeOK
  <1>4. \A d \in Callers : reading'[d] /= None => KeysOf(reading'[d]) \subseteq Keys
      BY <1>3 DEF QuotaInv
  <1> QED
      BY <1>1, <1>2, <1>4, CountersStay

LEMMA StepQuota == QuotaInv /\ [Next]_vars => QuotaInv'
  <1> SUFFICES ASSUME QuotaInv, [Next]_vars PROVE QuotaInv'
      OBVIOUS
  <1>1. ASSUME time' \in Nat, UNCHANGED quota
        PROVE  QuotaInv'
    <2>1. UNCHANGED <<count, expires, granted, lags>> /\ reading' = reading
        BY <1>1 DEF quota
    <2>2. reading' \in [Callers -> [request : Requests, now : Int] \cup {None}]
        BY <2>1 DEF QuotaInv, TypeOK
    <2>3. \A d \in Callers : reading'[d] /= None => KeysOf(reading'[d]) \subseteq Keys
        BY <2>1 DEF QuotaInv
    <2> QED
        BY <1>1, <2>1, <2>2, <2>3, CountersStay
  <1>2. CASE Tick
      BY <1>1, <1>2 DEF Tick, QuotaInv, TypeOK
  <1>3. CASE \E c \in Callers, request \in Requests : ReadClock(c, request)
      BY <1>3, ReadClockKeeps
  <1>4. CASE \E c \in Callers : Grant(c)
      BY <1>4, GrantKeeps
  <1>5. CASE \E c \in Callers : Refuse(c) \/ ScriptFails(c)
      BY <1>5, EndsKeeps
  <1>6. CASE \E client \in Clients : Allow(client)
      BY <1>1, <1>6 DEF Allow, QuotaInv, TypeOK
  <1>7. CASE UNCHANGED vars
      BY <1>1, <1>7 DEF vars, QuotaInv, TypeOK
  <1> QED
      BY <1>2, <1>3, <1>4, <1>5, <1>6, <1>7 DEF Next

\* The state keeps its shape, and no counter of the retry budget or of the
\* frequency caps is ever above its limit, whatever the callers' clocks say.
THEOREM QuotaTypeCorrect == Spec => []TypeOK
  <1>1. QuotaInv => TypeOK
      BY DEF QuotaInv
  <1> QED
      BY <1>1, InitQuota, StepQuota, PTL DEF Spec

\* A counter whose calls came with one lag between their clock and the script
\* counts all of them, so no more than its limit are granted in its window.
THEOREM GrantsAreCounted == Spec => []CountsGrants
  <1>1. QuotaInv => CountsGrants
    <2> SUFFICES ASSUME QuotaInv, NEW k \in Keys, OneLag(k)
                 PROVE  count[k] = granted[k] /\ granted[k] <= Limit[k[1]]
        BY DEF CountsGrants
    <2>1. Faithful(k) /\ granted[k] \in Nat /\ Limit[k[1]] \in Nat \ {0}
        BY KeyParts DEF QuotaInv, TypeOK
    <2> QED
        BY <2>1 DEF Faithful
  <1> QED
      BY <1>1, InitQuota, StepQuota, PTL DEF Spec

-----------------------------------------------------------------------------
(* The limiter of the HTTP API.                                            *)

\* sums[t] requests of the client were let through before the moment t.
Sums(c, sums) ==
    /\ sums \in [0..Horizon + 1 -> Nat]
    /\ \A t \in 0..Horizon : sums[t + 1] = sums[t] + served[c][t]
    /\ \A s, t \in 0..Horizon + 1 : s <= t => sums[s] <= sums[t]
    /\ \A t \in time + 1..Horizon + 1 : sums[t] = sums[time + 1]

\* Where a stretch of a window's length begins that ends before this moment.
Back(t) == IF t < ApiWindow THEN 0 ELSE t - ApiWindow

\* Between two windows the last one counts, and within one the one before it.
ClientIsServed(c, sums) ==
    /\ Over(c) =>
        sums[time + 1] = sums[time] /\ sums[time] - sums[Back(time)] <= ApiMax
    /\ ~Over(c) =>
        LET began == buckets[c].resetAt - ApiWindow
        IN  /\ began \in 0..time
            /\ sums[time + 1] - sums[began] <= ApiMax
            /\ sums[time + 1] - sums[began] <= buckets[c].count
            /\ sums[began] - sums[Back(began)] <= ApiMax
    /\ \A t \in 0..Horizon : t + ApiWindow <= Horizon + 1 =>
        sums[t + ApiWindow] - sums[t] <= 2 * ApiMax

\* A set of numbers that is not empty has a least one.
LEMMA LeastNumber ==
    ASSUME NEW T \in SUBSET Nat, T /= {}
    PROVE  \E m \in T : \A n \in T : m <= n
  <1>1. PICK x \in T : \A y \in T : ~ (<<y, x>> \in OpToRel(<, Nat))
      BY WFMin, NatLessThanWellFounded
  <1>2. \A y \in T : ~ (y < x)
      BY <1>1 DEF OpToRel
  <1> QED
      BY <1>2

\* What was served from one moment on is the difference of two sums.
LEMMA ServedIsDifference ==
    ASSUME NEW c \in Clients, NEW sums, Sums(c, sums), served[c] \in [0..Horizon -> Nat],
           NEW from \in 0..Horizon, from + ApiWindow <= Horizon + 1
    PROVE  ServedFrom(c, from) = sums[from + ApiWindow] - sums[from]
  <1> DEFINE D == from..from + ApiWindow - 1
             Body(g) == [t \in D |-> served[c][t] + (IF t = from THEN 0 ELSE g[t - 1])]
             upTo == CHOOSE g : g = Body(g)
             h == [t \in D |-> sums[t + 1] - sums[from]]
  <1>1. ApiWindow \in Nat \ {0} /\ Horizon \in Nat
      BY ApiAssumption, QuotaAssumption
  <1>2. h = Body(h)
    <2>1. ASSUME NEW t \in D
          PROVE  h[t] = served[c][t] + (IF t = from THEN 0 ELSE h[t - 1])
      <3>0. t \in 0..Horizon /\ t \in 0..Horizon + 1 /\ t + 1 \in 0..Horizon + 1 /\ from \in 0..Horizon + 1
          BY <1>1
      <3>1. /\ t \in 0..Horizon /\ sums[t + 1] = sums[t] + served[c][t]
            /\ sums[t + 1] \in Nat /\ sums[t] \in Nat /\ sums[from] \in Nat
            /\ served[c][t] \in Nat
          BY <3>0 DEF Sums
      <3>2. CASE t = from
          BY <3>1, <3>2
      <3>3. CASE t /= from
        <4>1. t - 1 \in D /\ (t - 1) + 1 = t
            BY <1>1, <3>3
        <4>2. h[t - 1] = sums[t] - sums[from]
            BY <4>1
        <4> QED
            BY <3>1, <3>3, <4>1, <4>2
      <3> QED
          BY <3>2, <3>3
    <2> QED
        BY <2>1
  <1>3. upTo = Body(upTo)
    <2> HIDE DEF Body, h
    <2> QED
        BY <1>2
  <1>4. \A t \in D : upTo[t] = served[c][t] + (IF t = from THEN 0 ELSE upTo[t - 1])
    <2> HIDE DEF upTo
    <2> QED
        BY <1>3
  <1>5. ServedFrom(c, from) = upTo[from + ApiWindow - 1]
      BY DEF ServedFrom
  <1> DEFINE T == {t \in D : upTo[t] /= sums[t + 1] - sums[from]}
  <1> HIDE DEF upTo
  <1>6. T = {}
    <2> SUFFICES ASSUME T /= {} PROVE FALSE
        OBVIOUS
    <2>1. T \in SUBSET Nat
        BY <1>1
    <2>2. PICK t \in T : \A s \in T : t <= s
        BY <2>1, LeastNumber
    <2>3. t \in D /\ t \in 0..Horizon /\ t + 1 \in 0..Horizon + 1
        BY <1>1, <2>2
    <2>6. from \in 0..Horizon + 1 /\ t \in 0..Horizon + 1
        BY <1>1, <2>3
    <2>7. /\ sums[t + 1] = sums[t] + served[c][t]
          /\ sums[t + 1] \in Nat /\ sums[t] \in Nat /\ sums[from] \in Nat
          /\ served[c][t] \in Nat
      <3> HIDE DEF T
      <3> QED
          BY <2>3, <2>6 DEF Sums
    <2>4. CASE t = from
        BY <1>4, <2>2, <2>3, <2>7, <2>4
    <2>5. CASE t /= from
      <3>1. t - 1 \in D /\ (t - 1) + 1 = t
        <4>1. t \in D /\ from \in Nat
            BY <1>1, <2>3
        <4> HIDE DEF T
        <4> QED
            BY <1>1, <2>5, <4>1
      <3>3. t - 1 \notin T
          BY <1>1, <2>1, <2>2, <2>3
      <3>2. upTo[t - 1] = sums[t] - sums[from]
          BY <3>1, <3>3
      <3> QED
          BY <1>4, <2>2, <2>3, <2>7, <2>5, <3>2
    <2> QED
        BY <2>4, <2>5
  <1>7. from + ApiWindow - 1 \in D
      BY <1>1
  <1> QED
      BY <1>1, <1>5, <1>6, <1>7

ApiTypeOK ==
    /\ time \in 0..Horizon
    /\ buckets \in [Clients -> [count : Nat, resetAt : Nat] \cup {None}]
    /\ served \in [Clients -> [0..Horizon -> Nat]]

ApiInv ==
    /\ ApiTypeOK
    /\ \A c \in Clients : \E sums : Sums(c, sums) /\ ClientIsServed(c, sums)

LEMMA ApiParts ==
    /\ ApiWindow \in Nat /\ ApiWindow > 0 /\ ApiMax \in Nat /\ ApiMax > 0 /\ Horizon \in Nat
    /\ \A b \in [count : Nat, resetAt : Nat] : b /= None /\ b.count \in Nat /\ b.resetAt \in Nat
    /\ \A t \in Nat : Back(t) \in 0..t /\ t - ApiWindow <= Back(t)
  BY ApiAssumption, QuotaAssumption DEF Back

LEMMA InitApi == Init => ApiInv
  <1> SUFFICES ASSUME Init PROVE ApiInv
      OBVIOUS
  <1>1. ApiTypeOK
      BY ApiParts DEF Init, ApiTypeOK
  <1>2. ASSUME NEW c \in Clients
        PROVE  \E sums : Sums(c, sums) /\ ClientIsServed(c, sums)
    <2> DEFINE sums == [t \in 0..Horizon + 1 |-> 0]
    <2>1. \A t \in 0..Horizon + 1 : sums[t] = 0
        OBVIOUS
    <2>2. served[c] = [t \in 0..Horizon |-> 0] /\ Over(c) /\ time = 0
        BY <1>2 DEF Init, Over
    <2>3. Sums(c, sums)
      <3>1. \A t \in 0..Horizon : t \in 0..Horizon + 1 /\ t + 1 \in 0..Horizon + 1
          BY ApiParts
      <3>2. \A t \in 0..Horizon : sums[t + 1] = sums[t] + served[c][t]
          BY <2>1, <2>2, <3>1
      <3>3. 0 + 1 \in 0..Horizon + 1 /\ \A t \in 0 + 1..Horizon + 1 : t \in 0..Horizon + 1
          BY ApiParts
      <3> QED
        <4>1. sums \in [0..Horizon + 1 -> Nat]
            OBVIOUS
        <4> HIDE DEF sums
        <4> QED
            BY <2>1, <2>2, <3>2, <3>3, <4>1 DEF Sums
    <2>4. ClientIsServed(c, sums)
      <3>1. /\ 0 \in 0..Horizon + 1 /\ 1 \in 0..Horizon + 1 /\ Back(0) \in 0..Horizon + 1
            /\ 0 + 1 = 1
          BY ApiParts
      <3>2. \A t \in 0..Horizon : t + ApiWindow <= Horizon + 1 =>
                t \in 0..Horizon + 1 /\ t + ApiWindow \in 0..Horizon + 1
          BY ApiParts
      <3> HIDE DEF sums
      <3> QED
        <4>1. /\ sums[time + 1] = sums[time] /\ sums[time] - sums[Back(time)] <= ApiMax
          <5>1. sums[0] = 0 /\ sums[1] = 0 /\ sums[Back(0)] = 0 /\ time = 0
              BY <2>1, <2>2, <3>1
          <5> QED
              BY <3>1, <5>1, ApiParts
        <4>2. \A t \in 0..Horizon : t + ApiWindow <= Horizon + 1 =>
                sums[t + ApiWindow] - sums[t] <= 2 * ApiMax
            BY <2>1, <3>2, ApiParts
        <4> QED
            BY <2>2, <4>1, <4>2 DEF ClientIsServed
    <2> QED
        BY <2>3, <2>4
  <1> QED
      BY <1>1, <1>2 DEF ApiInv

\* A step that leaves the API alone, at the same moment or the next.
LEMMA ApiStays ==
    ASSUME ApiInv, UNCHANGED api, time' \in 0..Horizon, time' = time \/ time' = time + 1
    PROVE  ApiInv'
  <1>1. buckets' = buckets /\ served' = served
      BY DEF api
  <1>2. ApiTypeOK'
      BY <1>1 DEF ApiInv, ApiTypeOK
  <1>3. ASSUME NEW c \in Clients
        PROVE  \E sums : Sums(c, sums)' /\ ClientIsServed(c, sums)'
    <2>1. PICK sums : Sums(c, sums) /\ ClientIsServed(c, sums)
        BY <1>3 DEF ApiInv
    <2>2. time \in 0..Horizon /\ time \in Nat
        BY ApiParts DEF ApiInv, ApiTypeOK
    <2>3. CASE time' = time
        BY <1>1, <2>1, <2>3 DEF Sums, ClientIsServed, Over
    <2>4. CASE time' = time + 1
      <3>1. time + 1 \in 0..Horizon /\ time + 2 \in 0..Horizon + 1 /\ time + 1 \in 0..Horizon + 1
          BY <2>2, <2>4, ApiParts
      <3>2. /\ sums \in [0..Horizon + 1 -> Nat]
            /\ \A s, t \in 0..Horizon + 1 : s <= t => sums[s] <= sums[t]
            /\ \A t \in time + 1..Horizon + 1 : sums[t] = sums[time + 1]
          BY <2>1 DEF Sums
      <3>3. sums[time + 2] = sums[time + 1]
          BY <2>2, <3>1, <3>2, ApiParts
      <3>4. Sums(c, sums)'
        <4>1. \A t \in time' + 1..Horizon + 1 : sums[t] = sums[time' + 1]
            BY <2>2, <2>4, <3>2, <3>3, ApiParts
        <4> QED
            BY <1>1, <2>1, <4>1 DEF Sums
      <3>5. (\A t \in 0..Horizon : t + ApiWindow <= Horizon + 1 =>
                sums[t + ApiWindow] - sums[t] <= 2 * ApiMax)
          BY <2>1 DEF ClientIsServed
      <3>6. CASE Over(c)
        <4>1. Over(c)'
            BY <1>1, <2>2, <2>4, <3>6, ApiParts DEF Over, ApiInv, ApiTypeOK
        <4>2. sums[time + 1] = sums[time] /\ sums[time] - sums[Back(time)] <= ApiMax
            BY <2>1, <3>6 DEF ClientIsServed
        <4>3. /\ Back(time) \in 0..Horizon + 1 /\ Back(time + 1) \in 0..Horizon + 1
              /\ Back(time) <= Back(time + 1) /\ time \in 0..Horizon + 1
            BY <2>2, <3>1, ApiParts DEF Back
        <4>4. /\ sums[Back(time)] <= sums[Back(time + 1)]
              /\ sums[Back(time)] \in Nat /\ sums[Back(time + 1)] \in Nat
              /\ sums[time] \in Nat /\ sums[time + 1] \in Nat
            BY <3>1, <3>2, <4>3
        <4>5. sums[time + 1] - sums[Back(time + 1)] <= ApiMax
            BY <4>2, <4>4, ApiParts
        <4>6. time' + 1 = time + 2
            BY <2>2, <2>4
        <4> QED
            BY <2>4, <3>3, <3>4, <3>5, <4>1, <4>5, <4>6 DEF ClientIsServed
      <3>7. CASE ~Over(c)
        <4> DEFINE began == buckets[c].resetAt - ApiWindow
        <4>1. /\ began \in 0..time
              /\ sums[time + 1] - sums[began] <= ApiMax
              /\ sums[time + 1] - sums[began] <= buckets[c].count
              /\ sums[began] - sums[Back(began)] <= ApiMax
            BY <2>1, <3>7 DEF ClientIsServed
        <4>2. /\ buckets[c] /= None /\ buckets[c].resetAt \in Nat /\ buckets[c].resetAt > time
            BY <2>2, <3>7, ApiParts DEF Over, ApiInv, ApiTypeOK
        <4>3. time' + 1 = time + 2 /\ time' = time + 1
            BY <2>2, <2>4
        <4>4. CASE Over(c)'
          <5>1. buckets[c].resetAt = time + 1 /\ began = Back(time + 1)
              BY <1>1, <2>2, <2>4, <4>2, <4>4, <4>1, ApiParts DEF Over, Back
          <5> HIDE DEF began
          <5>2. sums[time'] - sums[Back(time')] <= ApiMax /\ sums[time' + 1] = sums[time']
              BY <3>3, <4>1, <4>3, <5>1
          <5> QED
              BY <3>4, <3>5, <4>4, <5>2 DEF ClientIsServed
        <4>5. CASE ~Over(c)'
          <5>1. /\ began \in 0..time'
                /\ sums[time' + 1] - sums[began] <= ApiMax
                /\ sums[time' + 1] - sums[began] <= buckets'[c].count
                /\ sums[began] - sums[Back(began)] <= ApiMax
                /\ began = buckets'[c].resetAt - ApiWindow
            <6>1. began = buckets'[c].resetAt - ApiWindow /\ buckets'[c].count = buckets[c].count
                BY <1>1
            <6>2. began \in 0..time'
                BY <2>2, <4>1, <4>3
            <6> HIDE DEF began
            <6> QED
                BY <3>3, <4>1, <4>3, <6>1, <6>2
          <5> HIDE DEF began
          <5> QED
              BY <3>4, <3>5, <4>5, <5>1 DEF ClientIsServed
        <4> QED
            BY <4>4, <4>5
      <3> QED
          BY <3>6, <3>7
    <2> QED
        BY <2>3, <2>4
  <1> QED
      BY <1>2, <1>3 DEF ApiInv

\* The client's window as its request finds it.
LEMMA WindowFound ==
    ASSUME ApiInv, NEW client \in Clients,
           NEW sums, Sums(client, sums), ClientIsServed(client, sums)
    PROVE  LET bucket == ClientBucket(client)
               began == bucket.resetAt - ApiWindow
           IN  /\ bucket \in [count : Nat, resetAt : Nat] /\ bucket.resetAt > time
               /\ began \in 0..time
               /\ sums[time + 1] - sums[began] <= ApiMax
               /\ sums[time + 1] - sums[began] <= bucket.count
               /\ sums[began] - sums[Back(began)] <= ApiMax
  <1>1. time \in Nat /\ buckets[client] \in [count : Nat, resetAt : Nat] \cup {None}
      BY ApiParts DEF ApiInv, ApiTypeOK
  <1>2. CASE Over(client)
    <2>1. ClientBucket(client) = [count |-> 0, resetAt |-> time + ApiWindow]
        BY <1>2 DEF ClientBucket
    <2>2. (time + ApiWindow) - ApiWindow = time /\ time + ApiWindow \in Nat /\ time + ApiWindow > time
        BY <1>1, ApiParts
    <2>3. sums[time + 1] = sums[time] /\ sums[time] - sums[Back(time)] <= ApiMax
        BY <1>2 DEF ClientIsServed
    <2>4. sums[time] \in Nat
      <3>1. time \in 0..Horizon + 1
          BY ApiParts DEF ApiInv, ApiTypeOK
      <3> QED
          BY <3>1 DEF Sums
    <2> QED
        BY <1>1, <2>1, <2>2, <2>3, <2>4, ApiParts
  <1>3. CASE ~Over(client)
    <2>1. ClientBucket(client) = buckets[client] /\ buckets[client] /= None
        BY <1>3 DEF ClientBucket, Over
    <2>2. buckets[client].resetAt > time
        BY <1>1, <1>3, <2>1, ApiParts DEF Over
    <2> QED
        BY <1>1, <1>3, <2>1, <2>2 DEF ClientIsServed
  <1> QED
      BY <1>2, <1>3

\* One more request let through: every stretch of a window's length that holds
\* it lies within the window it is counted in and the one before.
LEMMA OneMoreServed ==
    ASSUME ApiInv, NEW client \in Clients,
           NEW sums, Sums(client, sums), ClientIsServed(client, sums),
           ClientBucket(client).count < ApiMax,
           served' = [served EXCEPT ![client][time] = @ + 1], time' = time,
           buckets'[client] = [ClientBucket(client) EXCEPT !.count = @ + 1]
    PROVE  \E more : Sums(client, more)' /\ ClientIsServed(client, more)'
  <1>0. PICK more : more = [t \in 0..Horizon + 1 |-> IF t > time THEN sums[t] + 1 ELSE sums[t]]
      OBVIOUS
  <1> DEFINE bucket == ClientBucket(client)
             began == bucket.resetAt - ApiWindow
  <1>1. /\ bucket \in [count : Nat, resetAt : Nat] /\ bucket.resetAt > time
        /\ began \in 0..time
        /\ sums[time + 1] - sums[began] <= ApiMax
        /\ sums[time + 1] - sums[began] <= bucket.count
        /\ sums[began] - sums[Back(began)] <= ApiMax
      BY WindowFound
  <1>2. /\ time \in 0..Horizon /\ time \in Nat /\ time + 1 \in 0..Horizon + 1 /\ time \in 0..Horizon + 1
        /\ served \in [Clients -> [0..Horizon -> Nat]]
      BY ApiParts DEF ApiInv, ApiTypeOK
  <1>3. /\ sums \in [0..Horizon + 1 -> Nat]
        /\ \A t \in 0..Horizon : sums[t + 1] = sums[t] + served[client][t]
        /\ \A s, t \in 0..Horizon + 1 : s <= t => sums[s] <= sums[t]
        /\ \A t \in time + 1..Horizon + 1 : sums[t] = sums[time + 1]
      BY DEF Sums
  <1>4. \A t \in 0..Horizon + 1 : more[t] = IF t > time THEN sums[t] + 1 ELSE sums[t]
      BY <1>0
  <1>5. served'[client] = [served[client] EXCEPT ![time] = @ + 1]
      BY <1>2
  <1>6. more \in [0..Horizon + 1 -> Nat]
      BY <1>0, <1>3
  <1>7. Sums(client, more)'
    <2>1. ASSUME NEW t \in 0..Horizon
          PROVE  more[t + 1] = more[t] + served'[client][t]
      <3>1. t \in 0..Horizon + 1 /\ t + 1 \in 0..Horizon + 1 /\ t \in Nat
          BY ApiParts
      <3>2. sums[t] \in Nat /\ sums[t + 1] = sums[t] + served[client][t] /\ served[client][t] \in Nat
          BY <1>2, <1>3, <3>1
      <3>3. served'[client][t] = IF t = time THEN served[client][t] + 1 ELSE served[client][t]
          BY <1>2, <1>5
      <3> QED
          BY <1>2, <1>4, <3>1, <3>2, <3>3
    <2>2. ASSUME NEW s \in 0..Horizon + 1, NEW t \in 0..Horizon + 1, s <= t
          PROVE  more[s] <= more[t]
      <3>1. sums[s] <= sums[t] /\ sums[s] \in Nat /\ sums[t] \in Nat
          BY <1>3, <2>2
      <3> QED
          <4>1. s \in Nat /\ t \in Nat
              BY ApiParts
          <4>2. more[s] = IF s > time THEN sums[s] + 1 ELSE sums[s]
              BY <1>4
          <4>3. more[t] = IF t > time THEN sums[t] + 1 ELSE sums[t]
              BY <1>4
          <4> QED
              BY <1>2, <2>2, <3>1, <4>1, <4>2, <4>3
    <2>3. ASSUME NEW t \in time + 1..Horizon + 1
          PROVE  more[t] = more[time + 1]
        BY <1>2, <1>3, <1>4, ApiParts
    <2>4. \A t \in 0..Horizon : more[t + 1] = more[t] + served'[client][t]
        BY <2>1
    <2>5. \A s, t \in 0..Horizon + 1 : s <= t => more[s] <= more[t]
        BY <2>2
    <2>6. \A t \in time' + 1..Horizon + 1 : more[t] = more[time' + 1]
        BY <2>3
    <2> QED
        BY <1>6, <2>4, <2>5, <2>6 DEF Sums
  <1>8. /\ buckets'[client].resetAt = bucket.resetAt /\ buckets'[client].count = bucket.count + 1
        /\ buckets'[client] \in [count : Nat, resetAt : Nat]
      BY <1>1
  <1>9. ~Over(client)'
    <2>1. buckets'[client] /= None /\ buckets'[client].resetAt > time /\ buckets'[client].resetAt \in Nat
        BY <1>1, <1>8, ApiParts
    <2> QED
        BY <1>2, <2>1 DEF Over
  <1>10. began = buckets'[client].resetAt - ApiWindow
      BY <1>8
  <1>11. bucket.count \in Nat /\ bucket.count < ApiMax
      BY <1>1
  <1> HIDE DEF began, bucket
  <1>12. /\ began \in 0..Horizon + 1 /\ Back(began) \in 0..Horizon + 1
         /\ began \in Nat /\ Back(began) <= began /\ Back(began) \in Nat /\ began <= time
         /\ began - ApiWindow <= Back(began)
      BY <1>1, <1>2, ApiParts
  <1>13. /\ sums[began] \in Nat /\ sums[Back(began)] \in Nat /\ sums[time + 1] \in Nat
         /\ more[time + 1] = sums[time + 1] + 1 /\ more[began] = sums[began]
         /\ more[Back(began)] = sums[Back(began)]
      BY <1>2, <1>3, <1>4, <1>12
  <1>14. /\ more[time + 1] - more[began] <= ApiMax
         /\ more[time + 1] - more[began] <= bucket.count + 1
         /\ more[began] - more[Back(began)] <= ApiMax
      BY <1>1, <1>11, <1>13, ApiParts
  <1>15. ASSUME NEW t \in 0..Horizon, t + ApiWindow <= Horizon + 1
         PROVE  more[t + ApiWindow] - more[t] <= 2 * ApiMax
    <2>1. /\ t \in 0..Horizon + 1 /\ t + ApiWindow \in 0..Horizon + 1 /\ t \in Nat
          /\ t + ApiWindow \in Nat /\ t < t + ApiWindow
        BY <1>15, ApiParts
    <2>2. sums[t + ApiWindow] - sums[t] <= 2 * ApiMax
        BY <1>15 DEF ClientIsServed
    <2>3. sums[t] \in Nat /\ sums[t + ApiWindow] \in Nat /\ more[t] \in Nat
        BY <1>3, <1>6, <2>1
    <2>4. CASE t + ApiWindow <= time \/ t > time
      <3>1. more[t] = IF t > time THEN sums[t] + 1 ELSE sums[t]
          BY <1>4, <2>1
      <3>2. more[t + ApiWindow] =
                IF t + ApiWindow > time THEN sums[t + ApiWindow] + 1 ELSE sums[t + ApiWindow]
          BY <1>4, <2>1
      <3>3. \/ more[t] = sums[t] /\ more[t + ApiWindow] = sums[t + ApiWindow]
            \/ more[t] = sums[t] + 1 /\ more[t + ApiWindow] = sums[t + ApiWindow] + 1
          BY <1>2, <2>1, <2>4, <3>1, <3>2
      <3>4. more[t + ApiWindow] - more[t] = sums[t + ApiWindow] - sums[t]
          BY <2>3, <3>3
      <3> QED
          BY <2>2, <3>4
    <2>5. CASE t <= time /\ time < t + ApiWindow
      <3>1. more[t] = sums[t]
          BY <1>2, <1>4, <2>1, <2>5
      <3>2. sums[t + ApiWindow] = sums[time + 1] /\ more[t + ApiWindow] = sums[time + 1] + 1
        <4>1. t + ApiWindow \in time + 1..Horizon + 1
            BY <1>2, <2>1, <2>5, ApiParts
        <4>2. sums[t + ApiWindow] = sums[time + 1]
            BY <1>3, <4>1
        <4> QED
            BY <1>4, <2>1, <2>5, <4>2
      <3>3. CASE t >= began
        <4>1. sums[began] <= sums[t]
            BY <1>3, <1>12, <2>1, <3>3
        <4> QED
            BY <1>13, <1>14, <2>3, <3>1, <3>2, <4>1, ApiParts
      <3>4. CASE t < began
        <4>1. Back(began) <= t
            BY <1>1, <1>2, <1>12, <2>1, <2>5, <3>4, ApiParts DEF Back
        <4>2. sums[Back(began)] <= sums[t]
            BY <1>3, <1>12, <2>1, <4>1
        <4> QED
            BY <1>1, <1>13, <1>14, <2>3, <3>1, <3>2, <4>2, ApiParts
      <3> QED
          BY <1>12, <2>1, <3>3, <3>4
    <2> QED
        BY <1>2, <2>1, <2>4, <2>5
  <1>16. ClientIsServed(client, more)'
    <2>1. /\ began \in 0..time'
          /\ more[time' + 1] - more[began] <= ApiMax
          /\ more[time' + 1] - more[began] <= buckets'[client].count
          /\ more[began] - more[Back(began)] <= ApiMax
        BY <1>1, <1>8, <1>14
    <2>2. \A t \in 0..Horizon : t + ApiWindow <= Horizon + 1 =>
            more[t + ApiWindow] - more[t] <= 2 * ApiMax
        BY <1>15
    <2> QED
        BY <1>9, <1>10, <2>1, <2>2 DEF ClientIsServed
  <1> QED
      BY <1>7, <1>16

LEMMA AllowKeeps ==
    ASSUME ApiInv, NEW client \in Clients, Allow(client)
    PROVE  ApiInv'
  <1> DEFINE bucket == ClientBucket(client)
  <1>1. /\ buckets' = [c \in Clients |->
                IF c = client THEN [bucket EXCEPT !.count = @ + 1]
                ELSE IF Over(c) THEN None ELSE buckets[c]]
        /\ served' = IF bucket.count < ApiMax
                     THEN [served EXCEPT ![client][time] = @ + 1] ELSE served
        /\ time' = time
      BY DEF Allow
  <1>2. /\ time \in 0..Horizon /\ time \in Nat
        /\ buckets \in [Clients -> [count : Nat, resetAt : Nat] \cup {None}]
        /\ served \in [Clients -> [0..Horizon -> Nat]]
      BY DEF ApiInv, ApiTypeOK
  <1>3. bucket \in [count : Nat, resetAt : Nat]
      BY <1>2, ApiParts DEF ClientBucket, Over
  <1> HIDE DEF bucket
  <1>4. [bucket EXCEPT !.count = @ + 1] \in [count : Nat, resetAt : Nat]
      BY <1>3
  <1>5. ApiTypeOK'
    <2>1. buckets' \in [Clients -> [count : Nat, resetAt : Nat] \cup {None}]
        BY <1>1, <1>2, <1>4
    <2>2. served' \in [Clients -> [0..Horizon -> Nat]]
      <3>1. CASE bucket.count < ApiMax
        <4>3. served[client] \in [0..Horizon -> Nat]
            BY <1>2
        <4>1. served[client] \in [0..Horizon -> Nat] /\ served[client][time] + 1 \in Nat
            BY <1>2, <4>3
        <4>2. [served[client] EXCEPT ![time] = @ + 1] \in [0..Horizon -> Nat]
            BY <4>1
        <4> QED
            BY <1>1, <1>2, <3>1, <4>2
      <3> QED
          BY <1>1, <1>2, <3>1
    <2> QED
        BY <1>1, <1>2, <2>1, <2>2 DEF ApiTypeOK
  <1>6. ASSUME NEW c \in Clients, c /= client
        PROVE  \E sums : Sums(c, sums)' /\ ClientIsServed(c, sums)'
    <2>1. PICK sums : Sums(c, sums) /\ ClientIsServed(c, sums)
        BY DEF ApiInv
    <2>2. served'[c] = served[c]
        BY <1>1, <1>2, <1>6
    <2>3. buckets'[c] = IF Over(c) THEN None ELSE buckets[c]
        BY <1>1, <1>6
    <2>4. Over(c)' <=> Over(c)
      <3>1. CASE Over(c)
          BY <2>3, <3>1 DEF Over
      <3>2. CASE ~Over(c)
        <4>1. buckets'[c] = buckets[c] /\ time' = time
            BY <1>1, <2>3, <3>2
        <4> QED
            BY <3>2, <4>1 DEF Over
      <3> QED
          BY <3>1, <3>2
    <2>5. ~Over(c) => buckets'[c] = buckets[c]
        BY <2>3
    <2>6. Sums(c, sums)'
        BY <1>1, <2>1, <2>2 DEF Sums
    <2>7. ClientIsServed(c, sums)'
        BY <1>1, <2>1, <2>4, <2>5 DEF ClientIsServed
    <2> QED
        BY <2>6, <2>7
  <1>7. \E sums : Sums(client, sums)' /\ ClientIsServed(client, sums)'
    <2>1. PICK sums : Sums(client, sums) /\ ClientIsServed(client, sums)
        BY DEF ApiInv
    <2>2. buckets'[client] = [bucket EXCEPT !.count = @ + 1]
        BY <1>1
    <2>3. CASE bucket.count < ApiMax
        BY <1>1, <2>1, <2>2, <2>3, OneMoreServed DEF bucket
    <2>4. CASE ~(bucket.count < ApiMax)
      <3>1. served' = served
          BY <1>1, <2>4
      <3>2. Sums(client, sums)'
          BY <1>1, <2>1, <3>1 DEF Sums
      <3>3. ~Over(client) /\ bucket = buckets[client]
          BY <1>2, <2>4, ApiParts DEF bucket, ClientBucket
      <3>4. /\ buckets'[client].resetAt = buckets[client].resetAt
            /\ buckets'[client].count = buckets[client].count + 1
            /\ buckets'[client] /= None /\ buckets[client].count \in Nat
          BY <1>3, <1>4, <2>2, <3>3, ApiParts
      <3>5. ~Over(client)'
          BY <1>1, <3>3, <3>4 DEF Over
      <3> DEFINE began == buckets[client].resetAt - ApiWindow
      <3>6. /\ began \in 0..time
            /\ sums[time + 1] - sums[began] <= ApiMax
            /\ sums[time + 1] - sums[began] <= buckets[client].count
            /\ sums[began] - sums[Back(began)] <= ApiMax
            /\ \A t \in 0..Horizon : t + ApiWindow <= Horizon + 1 =>
                sums[t + ApiWindow] - sums[t] <= 2 * ApiMax
          BY <2>1, <3>3 DEF ClientIsServed
      <3>7. began = buckets'[client].resetAt - ApiWindow
          BY <3>4
      <3>8. began \in 0..Horizon + 1 /\ time + 1 \in 0..Horizon + 1
        <4>1. Horizon \in Nat
            BY ApiParts
        <4> HIDE DEF began
        <4> QED
            BY <1>2, <3>6, <4>1
      <3> HIDE DEF began
      <3>9. sums[time + 1] - sums[began] \in Int
          BY <2>1, <3>8 DEF Sums
      <3>10. sums[time + 1] - sums[began] <= buckets'[client].count
          BY <3>4, <3>6, <3>9
      <3> QED
          BY <1>1, <3>2, <3>5, <3>6, <3>7, <3>10 DEF ClientIsServed
    <2> QED
        BY <2>3, <2>4
  <1> QED
      BY <1>5, <1>6, <1>7 DEF ApiInv

LEMMA StepApi == ApiInv /\ [Next]_vars => ApiInv'
  <1> SUFFICES ASSUME ApiInv, [Next]_vars PROVE ApiInv'
      OBVIOUS
  <1>1. time \in 0..Horizon /\ time \in Nat
      BY ApiParts DEF ApiInv, ApiTypeOK
  <1>2. ASSUME time' = time, UNCHANGED api
        PROVE  ApiInv'
      BY <1>1, <1>2, ApiStays
  <1>3. CASE Tick
    <2>1. time' = time + 1 /\ time' \in 0..Horizon /\ UNCHANGED api
        BY <1>1, <1>3, ApiParts DEF Tick
    <2> QED
        BY <2>1, ApiStays
  <1>4. CASE \E c \in Callers, request \in Requests : ReadClock(c, request)
      BY <1>2, <1>4 DEF ReadClock
  <1>5. CASE \E c \in Callers : Grant(c)
      BY <1>2, <1>5 DEF Grant
  <1>6. CASE \E c \in Callers : Refuse(c) \/ ScriptFails(c)
      BY <1>2, <1>6 DEF Refuse, ScriptFails
  <1>7. CASE \E client \in Clients : Allow(client)
      BY <1>7, AllowKeeps
  <1>8. CASE UNCHANGED vars
      BY <1>2, <1>8 DEF vars
  <1> QED
      BY <1>3, <1>4, <1>5, <1>6, <1>7, <1>8 DEF Next

\* Over any stretch of time as long as a window, the API serves a client twice
\* its limit at the most.
THEOREM BurstIsBounded == Spec => []ApiBurst
  <1>1. ApiInv => ApiBurst
    <2> SUFFICES ASSUME ApiInv, NEW c \in Clients, NEW t \in 0..Horizon,
                        t + ApiWindow - 1 <= Horizon
                 PROVE  ServedFrom(c, t) <= 2 * ApiMax
        BY DEF ApiBurst
    <2>1. PICK sums : Sums(c, sums) /\ ClientIsServed(c, sums)
        BY DEF ApiInv
    <2>2. t + ApiWindow <= Horizon + 1
        BY ApiParts
    <2>3. ServedFrom(c, t) = sums[t + ApiWindow] - sums[t]
        BY <2>1, <2>2, ServedIsDifference DEF ApiInv, ApiTypeOK
    <2> QED
        BY <2>1, <2>2, <2>3 DEF ClientIsServed
  <1> QED
      BY <1>1, InitApi, StepApi, PTL DEF Spec

-----------------------------------------------------------------------------
(* A notification on its channels.                                         *)

\* No adapter has been called for the route.
Uncalled(i) == reply[i] = Absent /\ ~taken[i]

\* Nothing has been counted for the route.
Uncounted(i) ==
    /\ metrics[i].deliveries = 0 /\ metrics[i].failures = 0 /\ metrics[i].samples = 0
    /\ ~metricsFailed[i]

\* What the caller of an adapter learns of a message, before metrics count.
AnswerIsTrue(i) ==
    IF result[i] /= Absent /\ result[i].status /= "FAILED" THEN taken[i] \/ Hollow(i)
    ELSE taken[i] => reply[i] \in {"noId", "down", "lost"}

CountsAreTrue(i) ==
    LET called == result[i].code \notin {"NO_CHANNEL_RECIPIENT", "NO_CHANNEL_PROVIDER"}
    IN  /\ metrics[i].deliveries <= 1 /\ (metrics[i].deliveries = 1 => taken[i] \/ Hollow(i))
        /\ metrics[i].failures <= 2 /\ metrics[i].samples <= 2
        /\ order.measured /\ ~metricsFailed[i] =>
            /\ metrics[i].samples = IF called THEN 1 ELSE 0
            /\ metrics[i].deliveries = IF result[i].status /= "FAILED" THEN 1 ELSE 0
            /\ metrics[i].failures = metrics[i].samples - metrics[i].deliveries

RouteIsTrue(i) ==
    /\ place[i] \in {"waiting", "sending"} => Uncalled(i) /\ Uncounted(i)
    /\ place[i] = "recording" =>
        /\ order.measured /\ result[i] \in Results /\ Uncounted(i) /\ AnswerIsTrue(i)
        /\ result[i].code \notin {"NO_CHANNEL_RECIPIENT", "NO_CHANNEL_PROVIDER"}
    /\ place[i] = "recordingFailure" =>
        /\ order.measured
        /\ metrics[i].deliveries <= 1 /\ (metrics[i].deliveries = 1 => taken[i] \/ Hollow(i))
        /\ metrics[i].failures <= 1 /\ metrics[i].samples <= 1
        /\ metricsFailed[i] \/ (Uncounted(i) /\ (taken[i] => reply[i] \in {"noId", "down", "lost"}))
    /\ place[i] = "told" =>
        /\ result[i] \in Results
        /\ IF result[i].status /= "FAILED" THEN taken[i] \/ Hollow(i)
           ELSE taken[i] => InDoubt(i)
        /\ CountsAreTrue(i)

\* A ranked route is tried once all before it have failed for good.
TriedInTurn ==
    order.kind = "failover" =>
        \A i, j \in Routes : i < j /\ place[j] /= "waiting" =>
            place[i] = "told" /\ ~Delivered(result[i])

Counters == [deliveries : Nat, failures : Nat, samples : Nat]
Heard == {Absent} \cup UNION {Replies(c) : c \in Channels}
Places == {"waiting", "sending", "recording", "recordingFailure", "told"}

DispatchTypeOK ==
    /\ order.plan \in Seq(Channels)
    /\ order.measured \in BOOLEAN
    /\ place \in [Routes -> Places]
    /\ result \in [Routes -> Results \cup {Absent}]
    /\ reply \in [Routes -> Heard]
    /\ taken \in [Routes -> BOOLEAN]
    /\ metrics \in [Routes -> Counters]
    /\ metricsFailed \in [Routes -> BOOLEAN]

DispatchInv ==
    /\ DispatchTypeOK
    /\ TriedInTurn
    /\ \A i \in Routes : RouteIsTrue(i)

LEMMA NoResult ==
    /\ \A code \in Codes, retryable \in BOOLEAN :
        /\ Failure(code, retryable) \in Results /\ Failure(code, retryable) /= Absent
        /\ Failure(code, retryable).status = "FAILED"
        /\ Failure(code, retryable).code = code
    /\ \A status \in {"SENT", "ACCEPTED"} :
        /\ Accepted(status) \in Results /\ Accepted(status) /= Absent
        /\ Accepted(status).status = status
        /\ Accepted(status).code = Absent
    /\ Absent \notin Codes /\ Absent \notin Results
  <1>1. Absent \notin Codes /\ Absent \notin Results
      BY DispatchAssumption
  <1>2. ASSUME NEW code \in Codes, NEW retryable \in BOOLEAN
        PROVE  Failure(code, retryable) \in Results
      BY DEF Failure, Results
  <1>3. ASSUME NEW status \in {"SENT", "ACCEPTED"}
        PROVE  Accepted(status) \in Results
      BY DEF Accepted, Results
  <1>4. ASSUME NEW code, NEW retryable
        PROVE  /\ Failure(code, retryable).status = "FAILED"
               /\ Failure(code, retryable).code = code
      BY DEF Failure
  <1>5. ASSUME NEW status
        PROVE  Accepted(status).status = status /\ Accepted(status).code = Absent
      BY DEF Accepted
  <1>6. ASSUME NEW code \in Codes, NEW retryable \in BOOLEAN
        PROVE  Failure(code, retryable) /= Absent
      BY <1>1, <1>2
  <1>7. ASSUME NEW status \in {"SENT", "ACCEPTED"}
        PROVE  Accepted(status) /= Absent
      BY <1>1, <1>3
  <1>8. \A code \in Codes, retryable \in BOOLEAN :
            /\ Failure(code, retryable) \in Results /\ Failure(code, retryable) /= Absent
            /\ Failure(code, retryable).status = "FAILED"
            /\ Failure(code, retryable).code = code
      BY <1>2, <1>4, <1>6, Zenon
  <1>9. \A status \in {"SENT", "ACCEPTED"} :
            /\ Accepted(status) \in Results /\ Accepted(status) /= Absent
            /\ Accepted(status).status = status
            /\ Accepted(status).code = Absent
      BY <1>3, <1>5, <1>7, Zenon
  <1> QED
      BY <1>1, <1>8, <1>9, Zenon

\* What an adapter makes of a reply: a success of one that says the message was
\* taken, a failure of one that does not, an exception of a lost connection.
LEMMA AdaptersTell ==
    ASSUME NEW c \in Channels, NEW r \in Replies(c)
    PROVE  /\ Send(c, r) \in Results \cup {Absent}
           /\ Send(c, r) = Absent => r = "lost"
           /\ Send(c, r) /= Absent =>
                /\ Send(c, r).status /= "FAILED" => r \in {"accepted", "queued", "rejected", "unheard"}
                /\ Send(c, r).status = "FAILED" =>
                    r \in {"noId", "refused", "throttled", "down", "lost"}
                /\ Send(c, r).code \notin {"NO_CHANNEL_RECIPIENT", "NO_CHANNEL_PROVIDER"}
  <1>1. r \in {"accepted", "queued", "rejected", "unheard", "noId", "refused", "throttled", "down", "lost"}
      BY DEF Replies, Channels
  <1>2. \A b \in BOOLEAN : r \in Codes =>
            /\ Failure(r, b) \in Results /\ Failure(r, b) /= Absent
            /\ Failure(r, b).status = "FAILED"
            /\ Failure(r, b).code = r
      BY NoResult
  <1>3. r \in {"noId", "refused", "throttled", "down", "lost"} => r \in Codes
      BY DEF Codes
  <1>7. \A status \in {"SENT", "ACCEPTED"} :
            /\ Accepted(status) \in Results /\ Accepted(status) /= Absent
            /\ Accepted(status).status /= "FAILED"
            /\ Accepted(status).code \notin {"NO_CHANNEL_RECIPIENT", "NO_CHANNEL_PROVIDER"}
    <2>1. Absent \notin {"NO_CHANNEL_RECIPIENT", "NO_CHANNEL_PROVIDER"}
        BY NoResult DEF Codes
    <2> QED
        BY <2>1, NoResult
  <1>4. CASE c = "SMS"
    <2>1. Send(c, r) = TwilioSend(r)
        BY <1>4 DEF Send
    <2>2. CASE r \in {"accepted", "queued", "rejected"}
      <3>1. PICK status \in {"SENT", "ACCEPTED"} : Send(c, r) = Accepted(status)
          BY <2>1, <2>2 DEF TwilioSend
      <3> QED
          BY <1>7, <2>2, <3>1
    <2>3. CASE r = "lost"
        BY <2>1, <2>3 DEF TwilioSend, HttpFailure
    <2>4. CASE r \in {"noId", "refused", "throttled", "down"}
      <3>1. Send(c, r) = [status |-> "FAILED", code |-> r,
                          retryable |-> r \in {"throttled", "down"}]
          BY <2>1, <2>4 DEF TwilioSend, HttpFailure, Failure
      <3>2. r \in Codes
          BY <1>3, <2>4
      <3>3. Send(c, r) \in Results
          BY <3>1, <3>2 DEF Results
      <3> QED
          BY <2>4, <3>1, <3>3, NoResult
    <2>5. r /= "unheard"
        BY <1>4 DEF Replies
    <2> QED
        BY <1>1, <2>2, <2>3, <2>4, <2>5
  <1>5. CASE c = "WHATSAPP"
    <2>1. Send(c, r) = WhatsAppSend(r)
        BY <1>5 DEF Send
    <2>2. CASE r = "accepted"
      <3>1. Send(c, r) = Accepted("SENT")
          BY <2>1, <2>2 DEF WhatsAppSend
      <3> QED
          BY <1>7, <2>2, <3>1
    <2>3. CASE r = "lost"
        BY <2>1, <2>3 DEF WhatsAppSend, HttpFailure
    <2>4. CASE r \in {"noId", "refused", "throttled", "down"}
      <3>1. Send(c, r) = [status |-> "FAILED", code |-> r,
                          retryable |-> r \in {"throttled", "down"}]
          BY <2>1, <2>4 DEF WhatsAppSend, HttpFailure, Failure
      <3>2. r \in Codes
          BY <1>3, <2>4
      <3>3. Send(c, r) \in Results
          BY <3>1, <3>2 DEF Results
      <3> QED
          BY <2>4, <3>1, <3>3, NoResult
    <2>5. r \notin {"queued", "rejected", "unheard"}
        BY <1>5 DEF Replies
    <2> QED
        BY <1>1, <2>2, <2>3, <2>4, <2>5
  <1>6. CASE c \in {"PUSH", "EMAIL", "IN_APP"}
    <2>1. r \notin {"queued", "rejected", "noId"} /\ (r = "unheard" => c = "IN_APP")
        BY <1>6 DEF Replies
    <2>2. CASE r \in {"accepted", "unheard"}
      <3>1. Send(c, r) = Accepted("SENT")
          BY <1>6, <2>1, <2>2 DEF Send, FcmSend, SmtpSend, SocketSend
      <3> QED
          BY <1>7, <2>2, <3>1
    <2>3. CASE r \in {"refused", "throttled", "down", "lost"}
      <3>1. PICK b \in BOOLEAN : Send(c, r) = Failure(r, b)
          BY <1>6, <2>3 DEF Send, FcmSend, SmtpSend, SocketSend
      <3> QED
          BY <1>2, <1>3, <2>3, <3>1
    <2> QED
        BY <1>1, <2>1, <2>2, <2>3
  <1> QED
      BY <1>4, <1>5, <1>6 DEF Channels

\* A step of one route, and what it has to show of that route.
LEMMA RouteMoves ==
    ASSUME DispatchInv, NEW i \in Routes, order' = order,
           NEW p \in Places, NEW x \in Results \cup {Absent}, Goes(i, p, x),
           \E r \in Heard : reply' = [reply EXCEPT ![i] = r],
           \E b \in BOOLEAN : taken' = [taken EXCEPT ![i] = b],
           \E m \in Counters : metrics' = [metrics EXCEPT ![i] = m],
           \E b \in BOOLEAN : metricsFailed' = [metricsFailed EXCEPT ![i] = b],
           place[i] /= "told", place[i] = "waiting" => Turn(i),
           RouteIsTrue(i)'
    PROVE  DispatchInv'
  <1>1. /\ Routes' = Routes
        /\ \A j \in Routes : j /= i =>
            /\ place'[j] = place[j] /\ result'[j] = result[j] /\ reply'[j] = reply[j]
            /\ taken'[j] = taken[j] /\ metrics'[j] = metrics[j]
            /\ metricsFailed'[j] = metricsFailed[j]
      BY DEF Goes, DispatchInv, DispatchTypeOK, Routes
  <1>2. DispatchTypeOK'
    <2>1. place' \in [Routes -> Places] /\ result' \in [Routes -> Results \cup {Absent}]
        BY DEF Goes, DispatchInv, DispatchTypeOK
    <2>2. reply' \in [Routes -> Heard] /\ taken' \in [Routes -> BOOLEAN]
        BY DEF DispatchInv, DispatchTypeOK
    <2>3. metrics' \in [Routes -> Counters] /\ metricsFailed' \in [Routes -> BOOLEAN]
        BY DEF DispatchInv, DispatchTypeOK
    <2> QED
        BY <1>1, <2>1, <2>2, <2>3 DEF DispatchInv, DispatchTypeOK
  <1>3. TriedInTurn'
    <2> SUFFICES ASSUME order.kind = "failover", NEW j \in Routes, NEW k \in Routes,
                        j < k, place'[k] /= "waiting"
                 PROVE  place'[j] = "told" /\ ~Delivered(result'[j])
        BY <1>1 DEF TriedInTurn, Delivered
    <2>1. place[k] /= "waiting" => place[j] = "told" /\ ~Delivered(result[j])
        BY DEF DispatchInv, TriedInTurn
    <2>2. j /= k
        BY DEF Routes, DispatchInv, DispatchTypeOK
    <2>3. place[j] = "told" /\ ~Delivered(result[j])
      <3>1. CASE k = i
          BY <2>1, <3>1 DEF Turn
      <3>2. CASE k /= i
          BY <1>1, <2>1, <3>2
      <3> QED
          BY <3>1, <3>2
    <2>4. j /= i
        BY <2>3
    <2> QED
        BY <1>1, <2>3, <2>4
  <1>4. ASSUME NEW j \in Routes, j /= i
        PROVE  RouteIsTrue(j)'
    <2>1. RouteIsTrue(j)
        BY DEF DispatchInv
    <2>2. /\ place'[j] = place[j] /\ result'[j] = result[j] /\ reply'[j] = reply[j]
          /\ taken'[j] = taken[j] /\ metrics'[j] = metrics[j]
          /\ metricsFailed'[j] = metricsFailed[j] /\ order' = order
        BY <1>1, <1>4
    <2> QED
        BY <2>1, <2>2 DEF RouteIsTrue, Uncalled, Uncounted, AnswerIsTrue, CountsAreTrue,
           InDoubt, Hollow
  <1> QED
      BY <1>1, <1>2, <1>3, <1>4 DEF DispatchInv

\* What is known of the route that a step is about.
LEMMA RouteParts ==
    ASSUME DispatchInv, NEW i \in Routes
    PROVE  /\ Channel(i) \in Channels /\ order.measured \in BOOLEAN
           /\ place[i] \in Places /\ result[i] \in Results \cup {Absent}
           /\ taken[i] \in BOOLEAN /\ metricsFailed[i] \in BOOLEAN
           /\ metrics[i] \in Counters
           /\ RouteIsTrue(i)
           /\ \A p, x : Goes(i, p, x) => place'[i] = p /\ result'[i] = x
           /\ reply[i] \in Heard
           /\ UNCHANGED reply => \E r \in Heard : reply' = [reply EXCEPT ![i] = r]
           /\ UNCHANGED taken => \E b \in BOOLEAN : taken' = [taken EXCEPT ![i] = b]
           /\ UNCHANGED metrics => \E m \in Counters : metrics' = [metrics EXCEPT ![i] = m]
           /\ UNCHANGED metricsFailed =>
                \E b \in BOOLEAN : metricsFailed' = [metricsFailed EXCEPT ![i] = b]
  <1>1. /\ place \in [Routes -> Places] /\ result \in [Routes -> Results \cup {Absent}]
        /\ reply \in [Routes -> Heard] /\ taken \in [Routes -> BOOLEAN]
        /\ metrics \in [Routes -> Counters] /\ metricsFailed \in [Routes -> BOOLEAN]
        /\ order.plan \in Seq(Channels) /\ order.measured \in BOOLEAN
        /\ RouteIsTrue(i)
      BY DEF DispatchInv, DispatchTypeOK
  <1>2. Channel(i) \in Channels
      BY <1>1 DEF Channel, Routes
  <1>3. \A p, x : Goes(i, p, x) => place'[i] = p /\ result'[i] = x
      BY <1>1 DEF Goes
  <1>4. UNCHANGED taken => taken' = [taken EXCEPT ![i] = taken[i]]
      BY <1>1
  <1>5. UNCHANGED metrics => metrics' = [metrics EXCEPT ![i] = metrics[i]]
      BY <1>1
  <1>6. UNCHANGED metricsFailed => metricsFailed' = [metricsFailed EXCEPT ![i] = metricsFailed[i]]
      BY <1>1
  <1>7. UNCHANGED reply => reply' = [reply EXCEPT ![i] = reply[i]]
      BY <1>1
  <1> QED
      BY <1>1, <1>2, <1>3, <1>4, <1>5, <1>6, <1>7

LEMMA InitDispatch == DispatchInit => DispatchInv
  <1> SUFFICES ASSUME DispatchInit PROVE DispatchInv
      OBVIOUS
  <1>1. order.plan \in Seq(Channels) /\ order.measured \in BOOLEAN
      BY DispatchAssumption DEF DispatchInit
  <1>2. /\ place = [i \in Routes |-> "waiting"]
        /\ result = [i \in Routes |-> Absent] /\ reply = [i \in Routes |-> Absent]
        /\ taken = [i \in Routes |-> FALSE]
        /\ metrics = [i \in Routes |-> [deliveries |-> 0, failures |-> 0, samples |-> 0]]
        /\ metricsFailed = [i \in Routes |-> FALSE]
      BY DEF DispatchInit
  <1>3. DispatchTypeOK
    <2>1. [deliveries |-> 0, failures |-> 0, samples |-> 0] \in Counters
        BY DEF Counters
    <2>2. metrics \in [Routes -> Counters]
        BY <1>2, <2>1
    <2> QED
        BY <1>1, <1>2, <2>1, <2>2 DEF DispatchTypeOK, Places, Heard
  <1>4. TriedInTurn
      BY <1>2 DEF TriedInTurn
  <1>5. \A i \in Routes : RouteIsTrue(i)
      BY <1>2 DEF RouteIsTrue, Uncalled, Uncounted
  <1> QED
      BY <1>3, <1>4, <1>5 DEF DispatchInv

\* A route that is not sent, and one whose recipient the adapter refuses.
LEMMA NotSentKeeps ==
    ASSUME DispatchInv, NEW i \in Routes,
           NoRecipient(i) \/ NoProvider(i)
    PROVE  DispatchInv'
  <1>1. PICK code \in {"NO_CHANNEL_RECIPIENT", "NO_CHANNEL_PROVIDER"} : NotSent(i, code)
      BY DEF NoRecipient, NoProvider
  <1> DEFINE x == Failure(code, FALSE)
  <1>2. x \in Results /\ x.status = "FAILED" /\ x.code = code
      BY NoResult DEF Codes
  <1>3. /\ Turn(i) /\ Goes(i, "told", x)
        /\ UNCHANGED <<order, reply, taken, metrics, metricsFailed>>
      BY <1>1 DEF NotSent
  <1> HIDE DEF x
  <1>4. place'[i] = "told" /\ result'[i] = x
      BY <1>3, RouteParts
  <1>5. place[i] = "waiting"
      BY <1>3 DEF Turn
  <1>6. Uncalled(i) /\ Uncounted(i)
      BY <1>5, RouteParts DEF RouteIsTrue
  <1>7. RouteIsTrue(i)'
      BY <1>2, <1>3, <1>4, <1>6 DEF RouteIsTrue, Uncalled, Uncounted, CountsAreTrue
  <1> QED
      BY <1>2, <1>3, <1>5, <1>7, RouteMoves, RouteParts DEF Places

\* What MetricsDeliveryProvider makes of an answer that is true.
LEMMA AnsweredKeeps ==
    ASSUME DispatchInv, NEW i \in Routes, NEW x \in Results \cup {Absent}, Answered(i, x),
           UNCHANGED <<order, metrics, metricsFailed>>,
           Uncounted(i), place[i] \in {"waiting", "sending"}, place[i] = "waiting" => Turn(i),
           \E r \in Heard : reply' = [reply EXCEPT ![i] = r],
           \E b \in BOOLEAN : taken' = [taken EXCEPT ![i] = b],
           IF x /= Absent /\ x.status /= "FAILED" THEN taken'[i] \/ Hollow(i)'
           ELSE taken'[i] => reply'[i] \in {"noId", "down", "lost"},
           x /= Absent => x.code \notin {"NO_CHANNEL_RECIPIENT", "NO_CHANNEL_PROVIDER"}
    PROVE  DispatchInv'
  <1>1. /\ DispatchException \in Results /\ DispatchException /= Absent
        /\ DispatchException.status = "FAILED"
    <2>1. CASE order.kind = "failover"
        BY <2>1, NoResult DEF DispatchException, Codes
    <2>2. CASE order.kind /= "failover"
        BY <2>2, NoResult DEF DispatchException, Codes
    <2> QED
        BY <2>1, <2>2
  <1>2. order.measured \in BOOLEAN /\ Absent \notin Results
      BY RouteParts, NoResult
  <1>3. \E m \in Counters : metrics' = [metrics EXCEPT ![i] = m]
      BY RouteParts
  <1>4. \E b \in BOOLEAN : metricsFailed' = [metricsFailed EXCEPT ![i] = b]
      BY RouteParts
  <1>5. place[i] /= "told"
      OBVIOUS
  <1>6. ASSUME NEW p \in Places, NEW y \in Results \cup {Absent}, Goes(i, p, y), RouteIsTrue(i)'
        PROVE  DispatchInv'
      BY <1>3, <1>4, <1>5, <1>6, RouteMoves
  <1>7. CASE order.measured /\ x = Absent
    <2>1. Goes(i, "recordingFailure", Absent)
        BY <1>7 DEF Answered
    <2>2. place'[i] = "recordingFailure"
        BY <2>1, RouteParts
    <2>3. RouteIsTrue(i)'
        BY <1>7, <2>2 DEF RouteIsTrue, Uncounted
    <2> QED
        BY <1>6, <2>1, <2>3 DEF Places
  <1>8. CASE order.measured /\ x /= Absent
    <2>1. Goes(i, "recording", x)
        BY <1>8 DEF Answered
    <2>2. place'[i] = "recording" /\ result'[i] = x
        BY <2>1, RouteParts
    <2>3. RouteIsTrue(i)'
        BY <1>8, <2>2 DEF RouteIsTrue, Uncounted, AnswerIsTrue
    <2> QED
        BY <1>6, <2>1, <2>3 DEF Places
  <1>9. CASE ~order.measured /\ x = Absent
    <2>1. Goes(i, "told", DispatchException)
        BY <1>9 DEF Answered
    <2>2. place'[i] = "told" /\ result'[i] = DispatchException
        BY <2>1, RouteParts
    <2>3. RouteIsTrue(i)'
        BY <1>1, <1>9, <2>2 DEF RouteIsTrue, Uncounted, CountsAreTrue, InDoubt
    <2> QED
        BY <1>1, <1>6, <2>1, <2>3 DEF Places
  <1>10. CASE ~order.measured /\ x /= Absent
    <2>1. Goes(i, "told", x)
        BY <1>10 DEF Answered
    <2>2. place'[i] = "told" /\ result'[i] = x
        BY <2>1, RouteParts
    <2>3. RouteIsTrue(i)'
        BY <1>10, <2>2 DEF RouteIsTrue, Uncounted, CountsAreTrue, InDoubt
    <2> QED
        BY <1>6, <2>1, <2>3 DEF Places
  <1> QED
      BY <1>2, <1>7, <1>8, <1>9, <1>10

LEMMA BeginKeeps ==
    ASSUME DispatchInv, NEW i \in Routes, Begin(i)
    PROVE  DispatchInv'
  <1> DEFINE address == ResolveDeliveryRecipient(Channel(i))
  <1>1. Turn(i) /\ place[i] = "waiting" /\ UNCHANGED <<order, reply, taken, metrics, metricsFailed>>
      BY DEF Begin, Turn
  <1>2. Uncalled(i) /\ Uncounted(i)
      BY <1>1, RouteParts DEF RouteIsTrue
  <1>3. CASE Invalid(Channel(i), address)
    <2> DEFINE x == Failure(Rejection(Channel(i), address), FALSE)
    <2>1. Answered(i, x)
        BY <1>3 DEF Begin
    <2>2. /\ x \in Results /\ x.status = "FAILED"
          /\ x.code \notin {"NO_CHANNEL_RECIPIENT", "NO_CHANNEL_PROVIDER"}
      <3>1. Rejection(Channel(i), address) \in
                {"INVALID_RECIPIENT", "INVALID_REGISTRATION_TOKEN", "RECIPIENT_USER_MISMATCH"}
          BY DEF Rejection
      <3>2. PICK code \in Codes :
                /\ code = Rejection(Channel(i), address)
                /\ code \notin {"NO_CHANNEL_RECIPIENT", "NO_CHANNEL_PROVIDER"}
          BY <3>1 DEF Codes
      <3>3. Failure(code, FALSE) \in Results /\ Failure(code, FALSE).status = "FAILED"
            /\ Failure(code, FALSE).code = code
          BY NoResult
      <3> QED
          BY <3>2, <3>3
    <2> HIDE DEF x
    <2>3. ~taken'[i]
        BY <1>1, <1>2 DEF Uncalled
    <2> QED
        BY <1>1, <1>2, <2>1, <2>2, <2>3, AnsweredKeeps, RouteParts
  <1>4. CASE ~Invalid(Channel(i), address)
    <2>1. Goes(i, "sending", Absent)
        BY <1>4 DEF Begin
    <2>2. place'[i] = "sending"
        BY <2>1, RouteParts
    <2>3. RouteIsTrue(i)'
        BY <1>1, <1>2, <2>2 DEF RouteIsTrue, Uncalled, Uncounted
    <2> QED
        BY <1>1, <2>1, <2>3, RouteMoves, RouteParts DEF Places
  <1> QED
      BY <1>3, <1>4

LEMMA AnswerKeeps ==
    ASSUME DispatchInv, NEW i \in Routes, Answer(i)
    PROVE  DispatchInv'
  <1> DEFINE c == Channel(i)
             address == ResolveDeliveryRecipient(c)
  <1>1. place[i] = "sending" /\ UNCHANGED <<order, metrics, metricsFailed>>
      BY DEF Answer
  <1>2. PICK r \in ReplyTo(c, address) :
            /\ reply' = [reply EXCEPT ![i] = r]
            /\ \E took \in MayBeTaken(r, address) : taken' = [taken EXCEPT ![i] = took]
            /\ Answered(i, Send(c, r))
      BY DEF Answer
  <1>3. PICK took \in MayBeTaken(r, address) : taken' = [taken EXCEPT ![i] = took]
      BY <1>2
  <1>4. c \in Channels /\ r \in Replies(c) /\ r \in Heard
      BY RouteParts DEF ReplyTo, Heard
  <1>5. Uncounted(i)
      BY <1>1, RouteParts DEF RouteIsTrue
  <1>6. reply'[i] = r /\ taken'[i] = took
      BY <1>2, <1>3 DEF DispatchInv, DispatchTypeOK
  <1>7. /\ took \in BOOLEAN
        /\ r \in {"accepted", "queued"} => took
        /\ took /\ r \notin {"accepted", "queued", "rejected", "unheard"} =>
            r \in {"noId", "down", "lost"}
      BY <1>3 DEF MayBeTaken
  <1>8. /\ Send(c, r) \in Results \cup {Absent}
        /\ Send(c, r) = Absent => r = "lost"
        /\ Send(c, r) /= Absent =>
                /\ Send(c, r).status /= "FAILED" => r \in {"accepted", "queued", "rejected", "unheard"}
                /\ Send(c, r).status = "FAILED" =>
                    r \in {"noId", "refused", "throttled", "down", "lost"}
                /\ Send(c, r).code \notin {"NO_CHANNEL_RECIPIENT", "NO_CHANNEL_PROVIDER"}
      BY <1>4, AdaptersTell
  <1>9. IF Send(c, r) /= Absent /\ Send(c, r).status /= "FAILED" THEN taken'[i] \/ Hollow(i)'
        ELSE taken'[i] => reply'[i] \in {"noId", "down", "lost"}
      BY <1>6, <1>7, <1>8 DEF Hollow
  <1>10. (\E h \in Heard : reply' = [reply EXCEPT ![i] = h])
         /\ (\E b \in BOOLEAN : taken' = [taken EXCEPT ![i] = b])
      BY <1>2, <1>3, <1>4, <1>7
  <1> HIDE DEF c, address
  <1> QED
      BY <1>1, <1>2, <1>5, <1>8, <1>9, <1>10, AnsweredKeeps

\* The counters a step of MetricsDeliveryProvider may move.
LEMMA Counting ==
    ASSUME DispatchInv, NEW i \in Routes, NEW applied, Recorded(i, applied)
    PROVE  /\ \E m \in Counters : metrics' = [metrics EXCEPT ![i] = m]
           /\ metrics'[i].deliveries = IF "deliveries" \in applied
                THEN metrics[i].deliveries + 1 ELSE metrics[i].deliveries
           /\ metrics'[i].failures = IF "failures" \in applied
                THEN metrics[i].failures + 1 ELSE metrics[i].failures
           /\ metrics'[i].samples = IF "samples" \in applied
                THEN metrics[i].samples + 1 ELSE metrics[i].samples
  <1> DEFINE m == [f \in DOMAIN metrics[i] |->
                        IF f \in applied THEN metrics[i][f] + 1 ELSE metrics[i][f]]
  <1>1. metrics \in [Routes -> Counters] /\ metrics[i] \in Counters
      BY DEF DispatchInv, DispatchTypeOK
  <1>2. metrics' = [metrics EXCEPT ![i] = m]
      BY DEF Recorded
  <1>3. DOMAIN metrics[i] = {"deliveries", "failures", "samples"}
      BY <1>1 DEF Counters
  <1>4. /\ m.deliveries = IF "deliveries" \in applied THEN metrics[i].deliveries + 1 ELSE metrics[i].deliveries
        /\ m.failures = IF "failures" \in applied THEN metrics[i].failures + 1 ELSE metrics[i].failures
        /\ m.samples = IF "samples" \in applied THEN metrics[i].samples + 1 ELSE metrics[i].samples
      BY <1>3
  <1>5. m = [deliveries |-> m.deliveries, failures |-> m.failures, samples |-> m.samples]
      BY <1>3
  <1>6. m \in Counters
    <2>1. m.deliveries \in Nat /\ m.failures \in Nat /\ m.samples \in Nat
        BY <1>1, <1>4 DEF Counters
    <2> HIDE DEF m
    <2> QED
        BY <1>5, <2>1 DEF Counters
  <1>7. metrics'[i] = m
      BY <1>1, <1>2
  <1> HIDE DEF m
  <1> QED
      BY <1>2, <1>4, <1>6, <1>7

LEMMA RecordKeeps ==
    ASSUME DispatchInv, NEW i \in Routes, Record(i)
    PROVE  DispatchInv'
  <1>1. /\ place[i] = "recording" /\ Recorded(i, Increments(result[i]))
        /\ Goes(i, "told", result[i]) /\ UNCHANGED <<order, reply, taken, metricsFailed>>
      BY DEF Record
  <1>2. /\ order.measured /\ result[i] \in Results /\ Uncounted(i) /\ AnswerIsTrue(i)
        /\ result[i].code \notin {"NO_CHANNEL_RECIPIENT", "NO_CHANNEL_PROVIDER"}
      BY <1>1, RouteParts DEF RouteIsTrue
  <1>3. place'[i] = "told" /\ result'[i] = result[i]
      BY <1>1, RouteParts
  <1>4. /\ metrics'[i].samples = 1
        /\ metrics'[i].deliveries = IF result[i].status /= "FAILED" THEN 1 ELSE 0
        /\ metrics'[i].failures = IF result[i].status /= "FAILED" THEN 0 ELSE 1
      BY <1>1, <1>2, Counting DEF Increments, Delivered, Uncounted
  <1>5. RouteIsTrue(i)'
    <2>1. IF result'[i].status /= "FAILED" THEN taken'[i] \/ Hollow(i)'
          ELSE taken'[i] => InDoubt(i)'
        BY <1>1, <1>2, <1>3, NoResult DEF AnswerIsTrue, InDoubt, Hollow
    <2>2. CountsAreTrue(i)'
        BY <1>1, <1>2, <1>3, <1>4, <2>1, NoResult DEF CountsAreTrue, AnswerIsTrue, Hollow
    <2> QED
        BY <1>2, <1>3, <2>1, <2>2 DEF RouteIsTrue
  <1>6. \E m \in Counters : metrics' = [metrics EXCEPT ![i] = m]
      BY <1>1, Counting
  <1> QED
      BY <1>1, <1>2, <1>5, <1>6, RouteMoves, RouteParts DEF Places

LEMMA RecordThrowsKeeps ==
    ASSUME DispatchInv, NEW i \in Routes, RecordThrows(i)
    PROVE  DispatchInv'
  <1>1. /\ place[i] = "recording" /\ metricsFailed' = [metricsFailed EXCEPT ![i] = TRUE]
        /\ Goes(i, "recordingFailure", Absent) /\ UNCHANGED <<order, reply, taken>>
      BY DEF RecordThrows
  <1>2. PICK applied \in SUBSET Increments(result[i]) : Recorded(i, applied)
      BY DEF RecordThrows
  <1>3. order.measured /\ result[i] \in Results /\ Uncounted(i) /\ AnswerIsTrue(i)
      BY <1>1, RouteParts DEF RouteIsTrue
  <1>4. place'[i] = "recordingFailure" /\ metricsFailed'[i]
      BY <1>1, RouteParts DEF DispatchInv, DispatchTypeOK
  <1>5. /\ metrics'[i].deliveries <= 1 /\ metrics'[i].failures <= 1 /\ metrics'[i].samples <= 1
        /\ metrics'[i].deliveries = 1 => "deliveries" \in applied
      BY <1>2, <1>3, Counting DEF Uncounted
  <1>6. "deliveries" \in applied => taken'[i] \/ Hollow(i)'
      BY <1>1, <1>2, <1>3, NoResult DEF Increments, Delivered, AnswerIsTrue, Hollow
  <1>7. RouteIsTrue(i)'
      BY <1>1, <1>3, <1>4, <1>5, <1>6 DEF RouteIsTrue
  <1>8. \E m \in Counters : metrics' = [metrics EXCEPT ![i] = m]
      BY <1>2, Counting
  <1> QED
      BY <1>1, <1>7, <1>8, RouteMoves, RouteParts DEF Places

LEMMA RecordFailureKeeps ==
    ASSUME DispatchInv, NEW i \in Routes, RecordFailure(i)
    PROVE  DispatchInv'
  <1>1. /\ place[i] = "recordingFailure"
        /\ Goes(i, "told", DispatchException) /\ UNCHANGED <<order, reply, taken>>
      BY DEF RecordFailure
  <1>2. PICK applied \in SUBSET {"failures", "samples"} :
            /\ Recorded(i, applied)
            /\ \/ applied = {"failures", "samples"} /\ UNCHANGED metricsFailed
               \/ metricsFailed' = [metricsFailed EXCEPT ![i] = TRUE]
      BY DEF RecordFailure
  <1>3. /\ DispatchException \in Results /\ DispatchException.status = "FAILED"
        /\ DispatchException.code = "PROVIDER_DISPATCH_EXCEPTION"
    <2>1. CASE order.kind = "failover"
        BY <2>1, NoResult DEF DispatchException, Codes
    <2>2. CASE order.kind /= "failover"
        BY <2>2, NoResult DEF DispatchException, Codes
    <2> QED
        BY <2>1, <2>2
  <1>4. place'[i] = "told" /\ result'[i] = DispatchException
      BY <1>1, RouteParts
  <1>5. /\ order.measured
        /\ metrics[i].deliveries <= 1 /\ (metrics[i].deliveries = 1 => taken[i] \/ Hollow(i))
        /\ metrics[i].failures <= 1 /\ metrics[i].samples <= 1
        /\ metricsFailed[i] \/ (Uncounted(i) /\ (taken[i] => reply[i] \in {"noId", "down", "lost"}))
      BY <1>1, RouteParts DEF RouteIsTrue
  <1>6. /\ metrics[i].failures \in Nat /\ metrics[i].samples \in Nat
        /\ metrics[i].deliveries \in Nat
      BY RouteParts DEF Counters
  <1>7. /\ metrics'[i].deliveries = metrics[i].deliveries
        /\ metrics'[i].failures <= 2 /\ metrics'[i].samples <= 2
        /\ applied = {"failures", "samples"} /\ Uncounted(i) =>
            metrics'[i].failures = 1 /\ metrics'[i].samples = 1
      BY <1>2, <1>5, <1>6, Counting DEF Uncounted
  <1>8. metricsFailed'[i] \/ (UNCHANGED metricsFailed /\ applied = {"failures", "samples"})
      BY <1>2 DEF DispatchInv, DispatchTypeOK
  <1>9. RouteIsTrue(i)'
    <2>1. taken'[i] => InDoubt(i)'
        BY <1>1, <1>5, <1>8 DEF InDoubt
    <2>2. CountsAreTrue(i)'
        BY <1>1, <1>3, <1>4, <1>5, <1>7, <1>8 DEF CountsAreTrue, Uncounted, Hollow
    <2> QED
        BY <1>3, <1>4, <2>1, <2>2 DEF RouteIsTrue
  <1>10. (\E m \in Counters : metrics' = [metrics EXCEPT ![i] = m])
         /\ (\E b \in BOOLEAN : metricsFailed' = [metricsFailed EXCEPT ![i] = b])
      BY <1>2, Counting, RouteParts
  <1> QED
      BY <1>1, <1>3, <1>9, <1>10, RouteMoves, RouteParts DEF Places

LEMMA StepDispatch == DispatchInv /\ [DispatchNext]_dispatchVars => DispatchInv'
  <1> SUFFICES ASSUME DispatchInv, [DispatchNext]_dispatchVars PROVE DispatchInv'
      OBVIOUS
  <1>1. CASE UNCHANGED dispatchVars
      BY <1>1 DEF dispatchVars, DispatchInv, DispatchTypeOK, Routes, TriedInTurn, Delivered,
         RouteIsTrue, Uncalled, Uncounted, AnswerIsTrue, CountsAreTrue, InDoubt, Hollow
  <1>2. CASE \E i \in Routes : NoRecipient(i) \/ NoProvider(i)
      BY <1>2, NotSentKeeps
  <1>3. CASE \E i \in Routes : Begin(i)
      BY <1>3, BeginKeeps
  <1>4. CASE \E i \in Routes : Answer(i)
      BY <1>4, AnswerKeeps
  <1>5. CASE \E i \in Routes : Record(i)
      BY <1>5, RecordKeeps
  <1>6. CASE \E i \in Routes : RecordThrows(i)
      BY <1>6, RecordThrowsKeeps
  <1>7. CASE \E i \in Routes : RecordFailure(i)
      BY <1>7, RecordFailureKeeps
  <1> QED
      BY <1>1, <1>2, <1>3, <1>4, <1>5, <1>6, <1>7 DEF DispatchNext

\* A caller is told of a delivery only when the message was taken; of the
\* ranked channels none is tried after one that took it, unless that was in
\* doubt; the metrics count each call once and as what it was.
THEOREM DispatchTellsTheTruth == DispatchSpec => []DispatchIsTrue
  <1>1. DispatchInv => DispatchIsTrue
    <2> SUFFICES ASSUME DispatchInv PROVE DispatchIsTrue
        OBVIOUS
    <2>1. ToldIsTrue
        BY RouteParts DEF ToldIsTrue, RouteIsTrue
    <2>2. OneChannelTakes
      <3> SUFFICES ASSUME order.kind = "failover", NEW i \in Routes, NEW j \in Routes,
                          i < j, taken[i], taken[j] \/ place[j] = "sending"
                   PROVE  InDoubt(i)
          BY DEF OneChannelTakes
      <3>1. place[j] /= "waiting"
          BY RouteParts DEF RouteIsTrue, Uncalled
      <3>2. place[i] = "told" /\ result[i].status = "FAILED"
          BY <3>1 DEF DispatchInv, TriedInTurn, Delivered
      <3> QED
          BY <3>2, RouteParts DEF RouteIsTrue
    <2>3. MetricsAgree
      <3> SUFFICES ASSUME NEW i \in Routes
                   PROVE  /\ metrics[i].deliveries <= 1 /\ (metrics[i].deliveries = 1 => taken[i] \/ Hollow(i))
                          /\ metrics[i].failures <= 2 /\ metrics[i].samples <= 2
                          /\ place[i] = "told" => CountsAreTrue(i)
          BY DEF MetricsAgree, CountsAreTrue
      <3>1. place[i] \in Places /\ RouteIsTrue(i) /\ metrics[i] \in Counters
          BY RouteParts
      <3> QED
          BY <3>1 DEF Places, RouteIsTrue, Uncounted, CountsAreTrue, Counters
    <2> QED
        BY <2>1, <2>2, <2>3 DEF DispatchIsTrue
  <1> QED
      BY <1>1, InitDispatch, StepDispatch, PTL DEF DispatchSpec

-----------------------------------------------------------------------------
(* The gate of an SMS: how stale its answer can be.                        *)

DndTypeOK ==
    /\ clock \in Int
    /\ listed \in BOOLEAN
    /\ lastOther \in Int
    /\ cache \in Entries \cup {NoAnswer}
    /\ dispatch \in [Dispatchers -> Calls \cup {NoAnswer}]

\* A cached answer that is wrong by now was right when its writer read it.
CacheIsRecent ==
    cache /= NoAnswer =>
        /\ cache.until <= clock + Ttl
        /\ cache.answer \in BOOLEAN /\ cache.answer /= listed =>
            lastOther >= cache.until - Ttl - DndDelay

\* A call has its own answer from the registry, or one from the cache.
CallIsRecent(d) ==
    dispatch[d] /= NoAnswer =>
        /\ dispatch[d].since <= clock
        /\ clock - dispatch[d].since <= DndDelay
        /\ dispatch[d].step \in {"write", "decide"} => dispatch[d].answer \in BOOLEAN
        /\ dispatch[d].step = "write" /\ dispatch[d].answer /= listed =>
            lastOther >= dispatch[d].since
        /\ dispatch[d].step = "decide" /\ dispatch[d].answer /= listed =>
            lastOther > dispatch[d].since - Ttl - DndDelay

DndInv ==
    /\ DndTypeOK
    /\ CacheIsRecent
    /\ \A d \in Dispatchers : CallIsRecent(d)

LEMMA DndParts ==
    /\ Ttl \in Nat /\ Ttl > 0 /\ DndDelay \in Nat
    /\ NoAnswer \notin BOOLEAN
    /\ \A entry \in Entries :
        entry /= NoAnswer /\ entry.answer \in Answers /\ entry.until \in Int
    /\ \A call \in Calls :
        /\ call /= NoAnswer /\ call.since \in Int /\ call.answer \in Answers
        /\ call.class \in {"PROMOTIONAL", "TRANSACTIONAL"}
  BY DndAssumption DEF Entries, Calls

LEMMA InitDnd == DndInit => DndInv
  <1> SUFFICES ASSUME DndInit PROVE DndInv
      OBVIOUS
  <1>1. \/ cache = NoAnswer
        \/ cache \in Entries /\ cache.until = Ttl /\ cache.answer \in {listed, NoAnswer}
      BY DndParts DEF DndInit, Entries, Answers
  <1>2. DndTypeOK
      BY <1>1, DndParts DEF DndInit, DndTypeOK, Lag
  <1>3. CacheIsRecent
      BY <1>1, DndParts DEF DndInit, CacheIsRecent
  <1> QED
      BY <1>2, <1>3 DEF DndInit, DndInv, CallIsRecent

\* One call goes on, the others stay where they are.
LEMMA Proceeding ==
    ASSUME DndInv, NEW d \in Dispatchers, dispatch[d] /= NoAnswer, NEW answer \in Answers,
           NEW step \in {"cache", "purge", "registry", "write", "decide"},
           Proceeds(d, step, answer)
    PROVE  /\ dispatch' \in [Dispatchers -> Calls \cup {NoAnswer}]
           /\ dispatch'[d] /= NoAnswer
           /\ dispatch'[d].since = dispatch[d].since
           /\ dispatch'[d].step = step
           /\ dispatch'[d].answer = answer
           /\ \A other \in Dispatchers \ {d} : dispatch'[other] = dispatch[other]
  <1> DEFINE call == [dispatch[d] EXCEPT !.step = step, !.answer = answer]
  <1>1. dispatch[d] \in Calls
      BY DEF DndInv, DndTypeOK
  <1>2. /\ call \in Calls /\ call.since = dispatch[d].since
        /\ call.step = step /\ call.answer = answer
      BY <1>1 DEF Calls
  <1>3. dispatch' = [dispatch EXCEPT ![d] = call]
      BY DEF Proceeds
  <1> HIDE DEF call
  <1> QED
      BY <1>2, <1>3, DndParts DEF DndInv, DndTypeOK

\* A step that leaves the clock and the registry alone.
LEMMA OneProceeds ==
    ASSUME DndInv, NEW d \in Dispatchers, dispatch[d] /= NoAnswer, NEW answer \in Answers,
           NEW step \in {"cache", "purge", "registry", "write", "decide"},
           Proceeds(d, step, answer), UNCHANGED <<clock, listed, lastOther>>,
           cache' \in Entries \cup {NoAnswer}, CacheIsRecent',
           step \in {"write", "decide"} => answer \in BOOLEAN,
           step = "write" /\ answer /= listed => lastOther >= dispatch[d].since,
           step = "decide" /\ answer /= listed => lastOther > dispatch[d].since - Ttl - DndDelay
    PROVE  DndInv'
  <1>1. DndTypeOK'
      BY Proceeding DEF DndInv, DndTypeOK
  <1>2. ASSUME NEW other \in Dispatchers
        PROVE  CallIsRecent(other)'
    <2>1. CallIsRecent(other)
        BY DEF DndInv
    <2>2. CASE other = d
        BY <2>1, <2>2, Proceeding DEF CallIsRecent
    <2>3. CASE other /= d
        BY <2>1, <2>3, Proceeding DEF CallIsRecent
    <2> QED
        BY <2>2, <2>3
  <1> QED
      BY <1>1, <1>2 DEF DndInv

LEMMA TickDnd ==
    ASSUME DndInv, DndTick
    PROVE  DndInv'
  <1>1. DndTypeOK'
      BY DEF DndTick, DndInv, DndTypeOK
  <1>2. CacheIsRecent'
      BY DndParts DEF DndTick, DndInv, DndTypeOK, CacheIsRecent
  <1>3. ASSUME NEW d \in Dispatchers, dispatch[d] /= NoAnswer
        PROVE  CallIsRecent(d)'
    <2>1. dispatch[d].since \in Int
        BY <1>3, DndParts DEF DndInv, DndTypeOK
    <2> QED
        BY <1>3, <2>1, DndParts DEF DndTick, DndInv, DndTypeOK, CallIsRecent
  <1> QED
      BY <1>1, <1>2, <1>3 DEF DndInv, CallIsRecent, DndTick

\* From here on every answer given before is of now at the latest.
LEMMA RegistryDnd ==
    ASSUME DndInv, RegistryChanges
    PROVE  DndInv'
  <1>1. DndTypeOK'
      BY DEF RegistryChanges, DndInv, DndTypeOK
  <1>2. CacheIsRecent'
      BY DndParts DEF RegistryChanges, DndInv, DndTypeOK, CacheIsRecent
  <1>3. ASSUME NEW d \in Dispatchers, dispatch[d] /= NoAnswer
        PROVE  CallIsRecent(d)'
    <2>1. dispatch[d].since \in Int
        BY <1>3, DndParts DEF DndInv, DndTypeOK
    <2> QED
        BY <1>3, <2>1, DndParts DEF RegistryChanges, DndInv, DndTypeOK, CallIsRecent
  <1> QED
      BY <1>1, <1>2, <1>3 DEF DndInv, CallIsRecent, RegistryChanges

LEMMA InvalidateDnd ==
    ASSUME DndInv, Invalidate
    PROVE  DndInv'
  BY DEF Invalidate, DndInv, DndTypeOK, CacheIsRecent, CallIsRecent

LEMMA StartDnd ==
    ASSUME DndInv, NEW d \in Dispatchers, NEW class \in {"PROMOTIONAL", "TRANSACTIONAL"},
           Start(d, class)
    PROVE  DndInv'
  <1> DEFINE call == [class |-> class, since |-> clock, step |-> "cache", answer |-> NoAnswer]
  <1>1. call \in Calls /\ call.since = clock /\ call.step = "cache"
      BY DEF DndInv, DndTypeOK, Calls, Answers
  <1>2. dispatch' = [dispatch EXCEPT ![d] = call]
      BY DEF Start
  <1> HIDE DEF call
  <1>3. DndTypeOK' /\ CacheIsRecent'
      BY <1>1, <1>2 DEF Start, DndInv, DndTypeOK, CacheIsRecent
  <1>4. ASSUME NEW other \in Dispatchers
        PROVE  CallIsRecent(other)'
    <2>1. CASE other = d
        BY <1>1, <1>2, <2>1, DndParts DEF Start, DndInv, DndTypeOK, CallIsRecent
    <2>2. CASE other /= d
        BY <1>2, <2>2 DEF Start, DndInv, DndTypeOK, CallIsRecent
    <2> QED
        BY <2>1, <2>2
  <1> QED
      BY <1>3, <1>4 DEF DndInv

LEMMA LookupDnd ==
    ASSUME DndInv, NEW d \in Dispatchers,
           \/ ReadCache(d) \/ Purge(d) \/ CacheFails(d)
           \/ ReadRegistry(d) \/ WriteCache(d) \/ WriteFails(d)
    PROVE  DndInv'
  <1> USE DEF At
  <1>1. /\ DndTypeOK /\ CacheIsRecent /\ CallIsRecent(d)
        /\ dispatch[d] /= NoAnswer => dispatch[d].since \in Int
      BY DndParts DEF DndInv, DndTypeOK
  <1>2. CASE ReadCache(d)
    <2>1. CASE Present /\ cache.answer /= NoAnswer
      <3>1. cache.answer \in BOOLEAN /\ cache.until \in Int /\ cache.until > clock
          BY <1>1, <2>1, DndParts DEF DndTypeOK, Present, Answers
      <3>2. cache.answer /= listed => lastOther > dispatch[d].since - Ttl - DndDelay
          BY <1>1, <1>2, <2>1, <3>1, DndParts
             DEF DndTypeOK, CacheIsRecent, CallIsRecent, Present, ReadCache
      <3>3. Proceeds(d, "decide", cache.answer)
          BY <1>2, <2>1 DEF ReadCache
      <3> QED
          BY <1>1, <1>2, <3>1, <3>2, <3>3, OneProceeds
             DEF ReadCache, DndTypeOK, CacheIsRecent, Answers
    <2>2. CASE ~(Present /\ cache.answer /= NoAnswer)
      <3>1. Proceeds(d, "purge", NoAnswer) \/ Proceeds(d, "registry", NoAnswer)
          BY <1>2, <2>2 DEF ReadCache
      <3> QED
          BY <1>1, <1>2, <3>1, OneProceeds DEF ReadCache, DndTypeOK, CacheIsRecent, Answers
    <2> QED
        BY <2>1, <2>2
  <1>3. CASE Purge(d)
      BY <1>1, <1>3, OneProceeds DEF Purge, CacheIsRecent, Answers
  <1>4. CASE CacheFails(d)
      BY <1>1, <1>4, OneProceeds DEF CacheFails, DndTypeOK, CacheIsRecent, Answers
  <1>5. CASE ReadRegistry(d)
      BY <1>1, <1>5, OneProceeds DEF ReadRegistry, DndTypeOK, CacheIsRecent, Answers
  <1>6. CASE WriteCache(d)
    <2>1. /\ dispatch[d].answer \in BOOLEAN
          /\ dispatch[d].answer /= listed => lastOther >= dispatch[d].since
          /\ clock - dispatch[d].since <= DndDelay
        BY <1>1, <1>6 DEF WriteCache, CallIsRecent
    <2>2. cache' \in Entries /\ cache'.until = clock + Ttl /\ cache'.answer = dispatch[d].answer
        BY <1>1, <1>6, <2>1, DndParts DEF WriteCache, Cached, Entries, Answers, DndTypeOK
    <2>3. CacheIsRecent'
        BY <1>1, <1>6, <2>1, <2>2, DndParts DEF WriteCache, CacheIsRecent, DndTypeOK
    <2>4. dispatch[d].answer /= listed => lastOther > dispatch[d].since - Ttl - DndDelay
        BY <1>1, <1>6, <2>1, DndParts DEF WriteCache, DndTypeOK
    <2> QED
        BY <1>6, <2>1, <2>2, <2>3, <2>4, OneProceeds DEF WriteCache, Answers
  <1>7. CASE WriteFails(d)
    <2>1. /\ dispatch[d].answer \in BOOLEAN
          /\ dispatch[d].answer /= listed => lastOther > dispatch[d].since - Ttl - DndDelay
        BY <1>1, <1>7, DndParts DEF WriteFails, CallIsRecent, DndTypeOK
    <2> QED
        BY <1>1, <1>7, <2>1, OneProceeds DEF WriteFails, DndTypeOK, CacheIsRecent, Answers
  <1> QED
      BY <1>2, <1>3, <1>4, <1>5, <1>6, <1>7

LEMMA EndDnd ==
    ASSUME DndInv, NEW d \in Dispatchers, RegistryFails(d) \/ Block(d) \/ SendSms(d)
    PROVE  DndInv'
  <1>1. dispatch' = [dispatch EXCEPT ![d] = NoAnswer] /\ UNCHANGED <<clock, listed, lastOther, cache>>
      BY DEF RegistryFails, Block, SendSms, Ends
  <1> QED
      BY <1>1 DEF DndInv, DndTypeOK, CacheIsRecent, CallIsRecent

LEMMA DndStep == DndInv /\ [DndNext]_dndVars => DndInv'
  <1> SUFFICES ASSUME DndInv, [DndNext]_dndVars
               PROVE  DndInv'
      OBVIOUS
  <1>1. CASE UNCHANGED dndVars
      BY <1>1 DEF dndVars, DndInv, DndTypeOK, CacheIsRecent, CallIsRecent
  <1>2. CASE DndTick \/ RegistryChanges \/ Invalidate
      BY <1>2, TickDnd, RegistryDnd, InvalidateDnd
  <1>3. ASSUME NEW d \in Dispatchers,
               \/ \E class \in {"PROMOTIONAL", "TRANSACTIONAL"} : Start(d, class)
               \/ ReadCache(d) \/ Purge(d) \/ CacheFails(d)
               \/ ReadRegistry(d) \/ RegistryFails(d)
               \/ WriteCache(d) \/ WriteFails(d)
               \/ Block(d) \/ SendSms(d)
        PROVE  DndInv'
      BY <1>3, StartDnd, LookupDnd, EndDnd
  <1> QED
      BY <1>1, <1>2, <1>3 DEF DndNext

\* A call that ends has decided by an answer no older than Lag.
KeptBy(d) ==
    dispatch[d] /= NoAnswer /\ dispatch'[d] = NoAnswer =>
        CASE dispatch[d].class = "TRANSACTIONAL" -> outcome' /= "BLOCKED_DND"
          [] dispatch[d].class = "PROMOTIONAL" ->
                outcome' /= "THROWN" /\ listed = (outcome' = "SENT") => clock - lastOther < Lag

\* Only an end of the call itself takes it away.
LEMMA WhoEnds ==
    ASSUME DndInv, DndNext, NEW d \in Dispatchers,
           dispatch[d] /= NoAnswer, dispatch'[d] = NoAnswer
    PROVE  RegistryFails(d) \/ Block(d) \/ SendSms(d)
  <1>1. ASSUME NEW c \in Dispatchers, NEW step \in {"cache", "purge", "registry", "write", "decide"},
               NEW answer \in Answers, dispatch[c] /= NoAnswer, Proceeds(c, step, answer)
        PROVE  FALSE
      BY <1>1, Proceeding
  <1>2. ASSUME NEW c \in Dispatchers, ReadCache(c)
        PROVE  FALSE
    <2>1. cache.answer \in Answers \/ ~Present
        BY DndParts DEF DndInv, DndTypeOK, Present
    <2>2. \E step \in {"purge", "registry", "decide"}, answer \in Answers : Proceeds(c, step, answer)
        BY <1>2, <2>1 DEF ReadCache, Answers, Present
    <2> QED
        BY <1>1, <1>2, <2>2 DEF ReadCache, At
  <1>3. ASSUME NEW c \in Dispatchers, Purge(c) \/ CacheFails(c) \/ ReadRegistry(c)
        PROVE  FALSE
      BY <1>1, <1>3 DEF Purge, CacheFails, ReadRegistry, At, DndInv, DndTypeOK, Answers
  <1>4. ASSUME NEW c \in Dispatchers, WriteCache(c) \/ WriteFails(c)
        PROVE  FALSE
    <2>1. dispatch[c] /= NoAnswer /\ Proceeds(c, "decide", dispatch[c].answer)
        BY <1>4 DEF WriteCache, WriteFails, At
    <2>2. dispatch[c].answer \in Answers
        BY <2>1, DndParts DEF DndInv, DndTypeOK
    <2> QED
        BY <1>1, <2>1, <2>2
  <1>5. ASSUME NEW c \in Dispatchers, NEW class \in {"PROMOTIONAL", "TRANSACTIONAL"}, Start(c, class)
        PROVE  FALSE
      BY <1>5 DEF Start, DndInv, DndTypeOK
  <1>6. ASSUME NEW c \in Dispatchers, RegistryFails(c) \/ Block(c) \/ SendSms(c)
        PROVE  c = d
      BY <1>6 DEF RegistryFails, Block, SendSms, Ends, DndInv, DndTypeOK
  <1>7. ~(DndTick \/ RegistryChanges \/ Invalidate)
      BY DEF DndTick, RegistryChanges, Invalidate
  <1> QED
      BY <1>2, <1>3, <1>4, <1>5, <1>6, <1>7 DEF DndNext

LEMMA DecidedRecently ==
    ASSUME DndInv, DndNext, NEW d \in Dispatchers
    PROVE  KeptBy(d)
  <1> SUFFICES ASSUME dispatch[d] /= NoAnswer, dispatch'[d] = NoAnswer
               PROVE  CASE dispatch[d].class = "TRANSACTIONAL" -> outcome' /= "BLOCKED_DND"
                        [] dispatch[d].class = "PROMOTIONAL" ->
                              outcome' /= "THROWN" /\ listed = (outcome' = "SENT") =>
                                  clock - lastOther < Lag
      BY DEF KeptBy
  <1>1. RegistryFails(d) \/ Block(d) \/ SendSms(d)
      BY WhoEnds
  <1>2. /\ dispatch[d].since \in Int
        /\ dispatch[d].class \in {"PROMOTIONAL", "TRANSACTIONAL"}
      BY DndParts DEF DndInv, DndTypeOK
  <1>3. CASE RegistryFails(d)
      BY <1>2, <1>3 DEF RegistryFails, Ends
  <1>4. CASE Block(d) \/ SendSms(d)
    <2>1. dispatch[d].answer \in BOOLEAN /\ clock - dispatch[d].since <= DndDelay
        BY <1>4 DEF Block, SendSms, At, DndInv, CallIsRecent
    <2>2. dispatch[d].answer /= listed => clock - lastOther < Lag
        BY <1>2, <1>4, <2>1, DndParts
           DEF Block, SendSms, At, DndInv, DndTypeOK, CallIsRecent, Lag
    <2>3. dispatch[d].class = "TRANSACTIONAL" => outcome' = "SENT"
        BY <1>4 DEF Block, SendSms, Blocked, Ends
    <2>4. CASE dispatch[d].class = "PROMOTIONAL"
      <3>1. IF dispatch[d].answer THEN outcome' = "BLOCKED_DND" ELSE outcome' = "SENT"
          BY <1>4, <2>4 DEF Block, SendSms, Blocked, Ends
      <3>2. listed = (outcome' = "SENT") => dispatch[d].answer /= listed
          BY <2>1, <3>1
      <3> QED
          BY <2>2, <2>4, <3>2
    <2> QED
        BY <1>2, <2>3, <2>4
  <1> QED
      BY <1>1, <1>3, <1>4

\* For any number of dispatches, any life of the cache and any delays: no
\* promotional SMS goes to a registered number, or is kept from one that is
\* not, by an answer older than Lag, and no transactional one is kept back
\* (SmsDispatchComplianceGate.dispatch, DndLookupService.lookup).
THEOREM GateIsRecent == DndSpec => DndIsKept
  <1>1. DndInv /\ [DndNext]_dndVars =>
            [\A d \in Dispatchers :
                dispatch[d] /= NoAnswer /\ dispatch'[d] = NoAnswer =>
                    CASE dispatch[d].class = "TRANSACTIONAL" -> outcome' /= "BLOCKED_DND"
                      [] dispatch[d].class = "PROMOTIONAL" ->
                            outcome' /= "THROWN" /\ listed = (outcome' = "SENT") =>
                                clock - lastOther < Lag]_dndVars
      BY DecidedRecently DEF KeptBy
  <1> QED
      BY <1>1, InitDnd, DndStep, PTL DEF DndSpec, DndIsKept
=============================================================================
