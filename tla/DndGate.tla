------------------------------- MODULE DndGate -------------------------------
(***************************************************************************)
(* The last check before an SMS leaves (compliance/sms-dispatch.ts): is    *)
(* its number registered as do-not-disturb?  The registry is asked unless  *)
(* a cache in Redis has an answer, which lives for Ttl (compliance/dnd.ts).*)
(* One number; several dispatches may look it up at the same time, and     *)
(* every call of the cache may fail.                                       *)
(***************************************************************************)
EXTENDS Integers

CONSTANTS
    Dispatchers,    \* concurrent calls of the gate
    Ttl,            \* life of an answer in the cache
    DndDelay,       \* bound: how long one dispatch takes
    DndHorizon,     \* bound: the last moment looked at
    NoAnswer

\* What a call or the cache has for an answer: NoAnswer until there is one.
Answers == BOOLEAN \cup {NoAnswer}
Entries == [answer : Answers, until : Int]
Calls ==
    [class : {"PROMOTIONAL", "TRANSACTIONAL"}, since : Int, answer : Answers,
     step : {"cache", "purge", "registry", "write", "decide"}]

ASSUME DndAssumption ==
    /\ Ttl \in Nat \ {0} /\ DndDelay \in Nat /\ DndHorizon \in Nat
    /\ NoAnswer \notin BOOLEAN \cup Entries \cup Calls

VARIABLES
    clock,
    listed,         \* the registry's answer about the number
    lastOther,      \* history: when the registry last said the opposite
    cache,          \* the cached answer with its end, or NoAnswer
    dispatch,       \* the call under way of each dispatcher, or NoAnswer
    outcome         \* of the last call that ended, or NoAnswer

dndVars == <<clock, listed, lastOther, cache, dispatch, outcome>>

\* How long an answer may lag behind the registry: one dispatch stores what it
\* has read before, the answer lives for Ttl, and another one is slow to act.
Lag == Ttl + 2 * DndDelay

DndInit ==
    /\ clock = 0 /\ listed \in BOOLEAN /\ lastOther = - Lag - 1
    /\ cache \in {NoAnswer, [answer |-> listed, until |-> Ttl], [answer |-> NoAnswer, until |-> Ttl]}
    /\ dispatch = [d \in Dispatchers |-> NoAnswer]
    /\ outcome = NoAnswer

-----------------------------------------------------------------------------
DndTick ==
    /\ clock < DndHorizon
    /\ \A d \in Dispatchers : dispatch[d] /= NoAnswer => clock - dispatch[d].since < DndDelay
    /\ clock' = clock + 1
    /\ UNCHANGED <<listed, lastOther, cache, dispatch, outcome>>

\* register, unregister.
RegistryChanges ==
    /\ listed' = ~listed
    /\ lastOther' = clock
    /\ UNCHANGED <<clock, cache, dispatch, outcome>>

\* DndLookupService.invalidate, called by whoever knows of the change.
Invalidate ==
    /\ cache' = NoAnswer
    /\ UNCHANGED <<clock, listed, lastOther, dispatch, outcome>>

-----------------------------------------------------------------------------
(* SmsDispatchComplianceGate.dispatch, and lookup within it.               *)

Present == cache /= NoAnswer /\ cache.until > clock
At(d, step) == dispatch[d] /= NoAnswer /\ dispatch[d].step = step
Proceeds(d, step, answer) ==
    dispatch' = [dispatch EXCEPT ![d] = [@ EXCEPT !.step = step, !.answer = answer]]

\* Mutant of Cached: the entry is written without its life.
CachedForEver(answer) == [answer |-> answer, until |-> DndHorizon + Ttl]

Cached(answer) == [answer |-> answer, until |-> clock + Ttl]

Start(d, class) ==
    /\ dispatch[d] = NoAnswer
    /\ dispatch' = [dispatch EXCEPT ![d] =
            [class |-> class, since |-> clock, step |-> "cache", answer |-> NoAnswer]]
    /\ UNCHANGED <<clock, listed, lastOther, cache, outcome>>

\* RedisDndCache.get: a hit, or a miss, or a text that is neither answer.
ReadCache(d) ==
    /\ At(d, "cache")
    /\ CASE Present /\ cache.answer /= NoAnswer -> Proceeds(d, "decide", cache.answer)
         [] Present /\ cache.answer = NoAnswer -> Proceeds(d, "purge", NoAnswer)
         [] ~Present -> Proceeds(d, "registry", NoAnswer)
    /\ UNCHANGED <<clock, listed, lastOther, cache, outcome>>

\* It deletes what is there by then.
Purge(d) ==
    /\ At(d, "purge")
    /\ cache' = NoAnswer
    /\ Proceeds(d, "registry", NoAnswer)
    /\ UNCHANGED <<clock, listed, lastOther, outcome>>

\* The get or the del fails: a miss.
CacheFails(d) ==
    /\ At(d, "cache") \/ At(d, "purge")
    /\ Proceeds(d, "registry", NoAnswer)
    /\ UNCHANGED <<clock, listed, lastOther, cache, outcome>>

ReadRegistry(d) ==
    /\ At(d, "registry")
    /\ Proceeds(d, "write", listed)
    /\ UNCHANGED <<clock, listed, lastOther, cache, outcome>>

WriteCache(d) ==
    /\ At(d, "write")
    /\ cache' = Cached(dispatch[d].answer)
    /\ Proceeds(d, "decide", dispatch[d].answer)
    /\ UNCHANGED <<clock, listed, lastOther, outcome>>

WriteFails(d) ==
    /\ At(d, "write")
    /\ Proceeds(d, "decide", dispatch[d].answer)
    /\ UNCHANGED <<clock, listed, lastOther, cache, outcome>>

Ends(d, as) ==
    /\ dispatch' = [dispatch EXCEPT ![d] = NoAnswer]
    /\ outcome' = as
    /\ UNCHANGED <<clock, listed, lastOther, cache>>

\* Without an answer of the registry nothing is sent.
RegistryFails(d) == At(d, "registry") /\ Ends(d, "THROWN")

Blocked(d) == dispatch[d].class = "PROMOTIONAL" /\ dispatch[d].answer

Block(d) == At(d, "decide") /\ Blocked(d) /\ Ends(d, "BLOCKED_DND")

\* The message is handed to the provider; whether it takes it is of no matter.
SendSms(d) == At(d, "decide") /\ ~Blocked(d) /\ Ends(d, "SENT")

DndNext ==
    \/ DndTick \/ RegistryChanges \/ Invalidate
    \/ \E d \in Dispatchers :
        \/ \E class \in {"PROMOTIONAL", "TRANSACTIONAL"} : Start(d, class)
        \/ ReadCache(d) \/ Purge(d) \/ CacheFails(d)
        \/ ReadRegistry(d) \/ RegistryFails(d)
        \/ WriteCache(d) \/ WriteFails(d)
        \/ Block(d) \/ SendSms(d)

DndSpec == DndInit /\ [][DndNext]_dndVars

-----------------------------------------------------------------------------
(* A promotional SMS is sent to a registered number, or kept from one that *)
(* is not, only if the registry said otherwise no longer than Lag ago; a   *)
(* transactional one is never kept back (SmsDispatchComplianceGate.dispatch*)
(* and DndLookupService.lookup).                                           *)
DndIsKept ==
    [][\A d \in Dispatchers :
        dispatch[d] /= NoAnswer /\ dispatch'[d] = NoAnswer =>
            CASE dispatch[d].class = "TRANSACTIONAL" -> outcome' /= "BLOCKED_DND"
              [] dispatch[d].class = "PROMOTIONAL" ->
                    outcome' /= "THROWN" /\ listed = (outcome' = "SENT") =>
                        clock - lastOther < Lag]_dndVars
=============================================================================
