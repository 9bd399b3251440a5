---------------------------- MODULE WindowedQuota ----------------------------
(***************************************************************************)
(* Counters per calendar window.  The retry budget (retry/budget.ts) and   *)
(* the frequency caps (compliance/frequency-cap.ts) are one Lua script in  *)
(* Redis that checks every dimension of a request and then increments all  *)
(* of them or none.  The name of a counter carries the window by the clock *)
(* of the caller; its life in Redis begins when the script runs.  Callers  *)
(* read their clocks some time before their script runs, and the clocks    *)
(* may differ.  The answer to a refused call (which limit, when to retry)  *)
(* changes nothing and is left out.                                        *)
(*                                                                         *)
(* The limiter of the HTTP API (api/rate-limit.ts) counts in the process,  *)
(* in windows that begin with a client's first request.                    *)
(***************************************************************************)
EXTENDS Integers, FiniteSets

CONSTANTS
    Callers,        \* processes that ask for capacity
    Skew,           \* how far each caller's clock is ahead of the Redis clock
    Requests,       \* what is asked for: a job of a provider, a notification
    Dimensions,     \* the limits a request is checked against
    Subjects,       \* whom or what a limit is for
    Subject,        \* of a request in a dimension
    Window,         \* length of a dimension's windows
    Limit,          \* of a dimension
    Buckets,        \* bound: the windows looked at
    Horizon,        \* bound: the last moment looked at
    MaxDelay,       \* bound: how long a call may be under way
    Clients,        \* callers of the HTTP API
    ApiWindow, ApiMax,
    ApiCeiling,     \* bound: requests in one API window
    None

Keys == Dimensions \X Subjects \X Buckets

ASSUME QuotaAssumption ==
    /\ Skew \in [Callers -> Int]
    /\ Subject \in [Requests -> [Dimensions -> Subjects]]
    /\ Window \in [Dimensions -> Nat \ {0}]
    /\ Limit \in [Dimensions -> Nat \ {0}]
    /\ Buckets \subseteq Int
    /\ Horizon \in Nat /\ MaxDelay \in Nat
    /\ None \notin [request : Requests, now : Int]

ASSUME ApiAssumption ==
    /\ ApiWindow \in Nat \ {0} /\ ApiMax \in Nat \ {0}
    /\ None \notin [count : Nat, resetAt : Nat]

VARIABLES
    time,       \* the Redis clock, and the API's
    count,      \* the counters in Redis
    expires,    \* when each of them is gone
    reading,    \* the request each caller has read its clock for
    granted,    \* history: calls granted in the name of each counter
    lags,       \* history: how long before the script their clocks said its time
    buckets,    \* the API's counter of each client, or None
    served      \* history: requests let through per client and moment

quota == <<count, expires, reading, granted, lags>>
api == <<buckets, served>>
vars == <<time, quota, api>>

Init ==
    /\ time = 0
    /\ count = [k \in Keys |-> 0] /\ expires = [k \in Keys |-> 0]
    /\ reading = [c \in Callers |-> None]
    /\ granted = [k \in Keys |-> 0] /\ lags = [k \in Keys |-> {}]
    /\ buckets = [c \in Clients |-> None]
    /\ served = [c \in Clients |-> [t \in 0..Horizon |-> 0]]

-----------------------------------------------------------------------------
Tick ==
    /\ time < Horizon
    /\ \A c \in Callers : reading[c] /= None =>
            time + Skew[c] - reading[c].now < MaxDelay
    /\ time' = time + 1
    /\ UNCHANGED <<quota, api>>

-----------------------------------------------------------------------------
(* Retry budget and frequency caps.                                        *)

Bucket(d, now) == now \div Window[d]
KeyOf(r, d) == <<d, Subject[r.request][d], Bucket(d, r.now)>>
KeysOf(r) == {KeyOf(r, d) : d \in Dimensions}

\* secondsUntilNextMinute, secondsUntilNextHour, secondsUntilNextDay
SecondsUntilNext(d, now) == (Bucket(d, now) + 1) * Window[d] - now

Current(k) == IF expires[k] > time THEN count[k] ELSE 0

\* consume, checkAndIncrement: the names and the lives of the counters.
ReadClock(c, request) ==
    LET r == [request |-> request, now |-> time + Skew[c]]
    IN  /\ reading[c] = None
        /\ KeysOf(r) \subseteq Keys
        /\ reading' = [reading EXCEPT ![c] = r]
        /\ UNCHANGED <<time, count, expires, granted, lags, api>>

\* Mutant of HasCapacity: off by one.
HasCapacityForOneMore(k) == Current(k) <= Limit[k[1]]

HasCapacity(k) == Current(k) < Limit[k[1]]

\* The script finds capacity in every dimension and takes it.
Grant(c) ==
    LET r == reading[c]
    IN  /\ r /= None
        /\ \A k \in KeysOf(r) : HasCapacity(k)
        /\ count' = [k \in Keys |-> IF k \in KeysOf(r) THEN Current(k) + 1 ELSE count[k]]
        /\ expires' = [k \in Keys |->
                IF k \in KeysOf(r) /\ Current(k) = 0
                THEN time + SecondsUntilNext(k[1], r.now) ELSE expires[k]]
        /\ granted' = [k \in Keys |-> IF k \in KeysOf(r) THEN granted[k] + 1 ELSE granted[k]]
        /\ lags' = [k \in Keys |->
                IF k \in KeysOf(r) THEN lags[k] \cup {time - r.now} ELSE lags[k]]
        /\ reading' = [reading EXCEPT ![c] = None]
        /\ UNCHANGED <<time, api>>

\* Mutant of Refuse: the dimensions that have capacity are counted.
RefuseCounts(c) ==
    LET r == reading[c]
    IN  /\ r /= None
        /\ \E k \in KeysOf(r) : ~HasCapacity(k)
        /\ count' = [k \in Keys |->
                IF k \in KeysOf(r) /\ HasCapacity(k) /\ Current(k) > 0
                THEN Current(k) + 1 ELSE count[k]]
        /\ reading' = [reading EXCEPT ![c] = None]
        /\ UNCHANGED <<time, expires, granted, lags, api>>

Refuse(c) ==
    LET r == reading[c]
    IN  /\ r /= None
        /\ \E k \in KeysOf(r) : ~HasCapacity(k)
        /\ reading' = [reading EXCEPT ![c] = None]
        /\ UNCHANGED <<time, count, expires, granted, lags, api>>

\* The call of Redis fails and the caller throws.
ScriptFails(c) ==
    /\ reading[c] /= None
    /\ reading' = [reading EXCEPT ![c] = None]
    /\ UNCHANGED <<time, count, expires, granted, lags, api>>

-----------------------------------------------------------------------------
(* ApiRateLimiter.allow: windows that are over are deleted, then the       *)
(* client's request is counted, also when it is refused.                   *)

Over(c) == buckets[c] = None \/ buckets[c].resetAt <= time

\* Mutant of ClientBucket: every request opens a window of its own.
ClientBucketFresh(c) == [count |-> 0, resetAt |-> time + ApiWindow]

ClientBucket(c) ==
    IF Over(c) THEN [count |-> 0, resetAt |-> time + ApiWindow] ELSE buckets[c]

Allow(client) ==
    LET bucket == ClientBucket(client)
    IN  /\ bucket.count < ApiCeiling
        /\ buckets' = [c \in Clients |->
                IF c = client THEN [bucket EXCEPT !.count = @ + 1]
                ELSE IF Over(c) THEN None ELSE buckets[c]]
        /\ served' = IF bucket.count < ApiMax
                     THEN [served EXCEPT ![client][time] = @ + 1] ELSE served
        /\ UNCHANGED <<time, quota>>

-----------------------------------------------------------------------------
\* The two parts share the time alone and are looked at one or the other.
QuotaOnly == \A c \in Clients : buckets[c] = None
ApiOnly == \A k \in Keys : granted[k] = 0 /\ \A c \in Callers : reading[c] = None

Next ==
    \/ Tick
    \/ \E c \in Callers :
        \/ QuotaOnly /\ \E request \in Requests : ReadClock(c, request)
        \/ Grant(c) \/ Refuse(c) \/ ScriptFails(c)
    \/ ApiOnly /\ \E client \in Clients : Allow(client)

Spec == Init /\ [][Next]_vars

-----------------------------------------------------------------------------
(* The state has its shape; no counter in Redis is ever above its limit,   *)
(* whatever the clocks say (retry/budget.ts, compliance/frequency-cap.ts). *)
TypeOK ==
    /\ time \in Nat
    /\ count \in [Keys -> Nat] /\ expires \in [Keys -> Int]
    /\ reading \in [Callers -> [request : Requests, now : Int] \cup {None}]
    /\ \A k \in Keys : count[k] <= Limit[k[1]]
    /\ granted \in [Keys -> Nat] /\ lags \in [Keys -> SUBSET Int]

(* A counter stands for the calls granted in its name, which are no more   *)
(* than its limit, as long as all of them came with the same lag between   *)
(* their clock and the run of the script.  With two lags, a counter may    *)
(* expire before the last call of its window, which then finds it empty    *)
(* (retry/budget.ts, compliance/frequency-cap.ts).                         *)
OneLag(k) == \A m, n \in lags[k] : m = n

CountsGrants ==
    \A k \in Keys : OneLag(k) => count[k] = granted[k] /\ granted[k] <= Limit[k[1]]

(* Over any stretch of time as long as a window, the API serves a client   *)
(* twice its limit at the most (api/rate-limit.ts).                        *)
ServedFrom(c, from) ==
    LET upTo[t \in from..from + ApiWindow - 1] ==
            served[c][t] + (IF t = from THEN 0 ELSE upTo[t - 1])
    IN  upTo[from + ApiWindow - 1]

ApiBurst ==
    \A c \in Clients, t \in 0..Horizon : t + ApiWindow - 1 <= Horizon =>
        ServedFrom(c, t) <= 2 * ApiMax
=============================================================================
