-------------------------- MODULE ProviderFailover --------------------------
(***************************************************************************)
(* src/providers/provider-failover.ts: ProviderFailoverService.send run by *)
(* several workers that share the Redis idempotency store.  Every await is *)
(* a step of its own, so claims, provider calls and the completion or the  *)
(* release of a claim interleave freely.                                   *)
(*                                                                         *)
(* A result is abstracted to what its caller can tell apart: "delivered",  *)
(* "permanent" (a failure that is not retryable) or "retryable".           *)
(***************************************************************************)
EXTENDS Naturals, Sequences

CONSTANTS
    Workers,        \* callers of send, in any number of processes
    Keys,           \* idempotency keys; a key stands for its notification
    Providers,      \* providers the fallback plans name
    Configured,     \* the providers the registry knows
    Plan,           \* per key: the ordered providers of its channel
    Faults,         \* what may go wrong, a subset of FaultKinds
    None            \* neither a worker nor a key

(***************************************************************************)
(* crash       a worker dies between two steps                             *)
(* refused     Redis rejects a command without applying it                 *)
(* lost_reply  Redis applies a command and its reply is lost               *)
(* ambiguous   a provider takes the message and its client throws          *)
(* expiry      a claim reaches its time to live while its worker still runs*)
(***************************************************************************)
FaultKinds == {"crash", "refused", "lost_reply", "ambiguous", "expiry"}

ASSUME FailoverAssumption ==
    /\ Configured \subseteq Providers
    /\ Plan \in [Keys -> Seq(Providers)]
    /\ Faults \subseteq FaultKinds
    /\ None \notin Workers \cup Keys

VARIABLES
    store,          \* per key: the value Redis holds
    pc,             \* per worker: the await it is at
    key,            \* per worker: the key of its call, None between calls
    pos,            \* per worker: the position in the provider chain
    outcome,        \* per worker: what sendThroughProviders returned
    accepted,       \* history, per key: acceptances since its record expired
    refused,        \* history, per key: permanent refusals since then
    everAccepted,   \* history: the keys some provider ever accepted
    exposed,        \* history: the keys a fault has laid open to a second send
    told            \* history: the keys some caller was told are delivered

verdicts == <<accepted, refused, everAccepted, exposed>>
local == <<pc, key, pos, outcome>>
vars == <<store, local, verdicts, told>>

Absent == "absent"
InProgress == "IN_PROGRESS"
Final == {"delivered", "permanent"}
StoreValues == {Absent, InProgress} \cup Final
Outcomes == Final \cup {"retryable"}
PcValues == {"idle", "lookup", "chain", "sending", "accepted", "settle", "recover"}

\* Verdicts are counted up to this bound: one more than is ever right.
MaxVerdicts == 2
Count(n) == IF n < MaxVerdicts THEN n + 1 ELSE n

\* The awaits between a granted claim and the end of the call.
Holding(w) == pc[w] \in {"chain", "sending", "accepted", "settle", "recover"}
Holds(w, k) == Holding(w) /\ key[w] = k

TypeOK ==
    /\ store \in [Keys -> StoreValues]
    /\ pc \in [Workers -> PcValues]
    /\ key \in [Workers -> Keys \cup {None}]
    /\ pos \in [Workers -> Nat]
    /\ outcome \in [Workers -> Outcomes]
    /\ accepted \in [Keys -> 0..MaxVerdicts]
    /\ refused \in [Keys -> 0..MaxVerdicts]
    /\ everAccepted \subseteq Keys
    /\ exposed \subseteq Keys
    /\ told \subseteq Keys

Init ==
    /\ store = [k \in Keys |-> Absent]
    /\ pc = [w \in Workers |-> "idle"]
    /\ key = [w \in Workers |-> None]
    /\ pos = [w \in Workers |-> 1]
    /\ outcome = [w \in Workers |-> "retryable"]
    /\ accepted = [k \in Keys |-> 0]
    /\ refused = [k \in Keys |-> 0]
    /\ everAccepted = {}
    /\ exposed = {}
    /\ told = {}

-----------------------------------------------------------------------------
(* send: the claim, and the replay of a stored result *)

\* The call is over and its local variables are gone.
Leave(w) ==
    /\ pc' = [pc EXCEPT ![w] = "idle"]
    /\ key' = [key EXCEPT ![w] = None]
    /\ pos' = [pos EXCEPT ![w] = 1]
    /\ outcome' = [outcome EXCEPT ![w] = "retryable"]

\* The promise of the call resolves with a result.
Return(w, result) ==
    /\ Leave(w)
    /\ told' = IF result = "delivered" THEN told \cup {key[w]} ELSE told

\* The promise of the call is rejected.
Throw(w) == Leave(w) /\ UNCHANGED told

\* Mutant of ClaimGranted: SET without NX overwrites another worker's claim.
ClaimWithoutNX(w, k) ==
    /\ pc[w] = "idle"
    /\ store' = [store EXCEPT ![k] = InProgress]
    /\ pc' = [pc EXCEPT ![w] = "chain"]
    /\ key' = [key EXCEPT ![w] = k]
    /\ UNCHANGED <<pos, outcome, verdicts, told>>

\* SET key IN_PROGRESS EX ttl NX succeeds.
ClaimGranted(w, k) ==
    /\ pc[w] = "idle"
    /\ store[k] = Absent
    /\ store' = [store EXCEPT ![k] = InProgress]
    /\ pc' = [pc EXCEPT ![w] = "chain"]
    /\ key' = [key EXCEPT ![w] = k]
    /\ UNCHANGED <<pos, outcome, verdicts, told>>

\* The key exists: the stored value is read by a second command.
ClaimDenied(w, k) ==
    /\ pc[w] = "idle"
    /\ store[k] # Absent
    /\ pc' = [pc EXCEPT ![w] = "lookup"]
    /\ key' = [key EXCEPT ![w] = k]
    /\ UNCHANGED <<store, pos, outcome, verdicts, told>>

\* The claim is awaited outside the try block: its failure only throws.
ClaimThrows(w, k) ==
    /\ pc[w] = "idle"
    /\ \/ "refused" \in Faults /\ UNCHANGED store
       \/ /\ "lost_reply" \in Faults
          /\ store' = [store EXCEPT ![k] = IF @ = Absent THEN InProgress ELSE @]
    /\ UNCHANGED <<local, verdicts, told>>

\* Mutant of Lookup: any stored value counts as a completed delivery.
LookupTrustsClaim(w) ==
    /\ pc[w] = "lookup"
    /\ Return(w, IF store[key[w]] = Absent THEN "in_progress" ELSE "delivered")
    /\ UNCHANGED <<store, verdicts>>

\* A stored result is replayed; IN_PROGRESS or a vanished key is not one.
Lookup(w) ==
    /\ pc[w] = "lookup"
    /\ Return(w, IF store[key[w]] \in Final THEN store[key[w]] ELSE "in_progress")
    /\ UNCHANGED <<store, verdicts>>

\* Mutant of LookupThrows: the lookup is awaited inside the try block too, so
\* its failure releases the key, whoever holds it.
LookupThrowsReleases(w) ==
    /\ pc[w] = "lookup"
    /\ Faults \cap {"refused", "lost_reply"} # {}
    /\ store' = [store EXCEPT ![key[w]] = Absent]
    /\ Throw(w)
    /\ UNCHANGED verdicts

\* The lookup is outside the try block as well: its failure only throws.
LookupThrows(w) ==
    /\ pc[w] = "lookup"
    /\ Faults \cap {"refused", "lost_reply"} # {}
    /\ Throw(w)
    /\ UNCHANGED <<store, verdicts>>

-----------------------------------------------------------------------------
(* sendThroughProviders: one channel's ordered chain *)

Settle(w, o) ==
    /\ pc' = [pc EXCEPT ![w] = "settle"]
    /\ outcome' = [outcome EXCEPT ![w] = o]

\* Mutant of Advance: an exhausted chain is settled as a final failure.
AdvanceToFinal(w) ==
    IF pos[w] < Len(Plan[key[w]])
    THEN /\ pc' = [pc EXCEPT ![w] = "chain"]
         /\ pos' = [pos EXCEPT ![w] = @ + 1]
         /\ UNCHANGED outcome
    ELSE Settle(w, "permanent") /\ UNCHANGED pos

\* A retryable failure moves to the next provider; after the last it is the result.
Advance(w) ==
    IF pos[w] < Len(Plan[key[w]])
    THEN /\ pc' = [pc EXCEPT ![w] = "chain"]
         /\ pos' = [pos EXCEPT ![w] = @ + 1]
         /\ UNCHANGED outcome
    ELSE Settle(w, "retryable") /\ UNCHANGED pos

\* No plan for the channel is a permanent failure that reached no provider.
NoPlan(w) ==
    /\ pc[w] = "chain"
    /\ Plan[key[w]] = <<>>
    /\ Settle(w, "permanent")
    /\ UNCHANGED <<store, key, pos, verdicts, told>>

\* A provider the registry does not know counts as a retryable failure.
SkipUnavailable(w) ==
    /\ pc[w] = "chain"
    /\ pos[w] \in 1..Len(Plan[key[w]])
    /\ Plan[key[w]][pos[w]] \notin Configured
    /\ Advance(w)
    /\ UNCHANGED <<store, key, verdicts, told>>

CallProvider(w) ==
    /\ pc[w] = "chain"
    /\ pos[w] \in 1..Len(Plan[key[w]])
    /\ Plan[key[w]][pos[w]] \in Configured
    /\ pc' = [pc EXCEPT ![w] = "sending"]
    /\ UNCHANGED <<store, key, pos, outcome, verdicts, told>>

\* The provider takes the message; the worker does not know it yet.
ProviderAccepts(w) ==
    /\ pc[w] = "sending"
    /\ pc' = [pc EXCEPT ![w] = "accepted"]
    /\ accepted' = [accepted EXCEPT ![key[w]] = Count(@)]
    /\ everAccepted' = everAccepted \cup {key[w]}
    /\ UNCHANGED <<store, key, pos, outcome, refused, exposed, told>>

\* status ACCEPTED or SENT: the chain stops with a delivered result.
SendReturns(w) ==
    /\ pc[w] = "accepted"
    /\ Settle(w, "delivered")
    /\ UNCHANGED <<store, key, pos, verdicts, told>>

\* The provider's client throws although the message was taken: sendSafely
\* makes a retryable failure of it.
SendThrowsAfterAccept(w) ==
    /\ pc[w] = "accepted"
    /\ "ambiguous" \in Faults
    /\ Advance(w)
    /\ exposed' = exposed \cup {key[w]}
    /\ UNCHANGED <<store, key, accepted, refused, everAccepted, told>>

\* status FAILED with retryable, or an exception of the provider's client.
SendFailsRetryable(w) ==
    /\ pc[w] = "sending"
    /\ Advance(w)
    /\ UNCHANGED <<store, key, verdicts, told>>

\* Mutant of SendFailsPermanent: the chain goes on whatever the failure.
PermanentGoesOn(w) ==
    /\ pc[w] = "sending"
    /\ Advance(w)
    /\ refused' = [refused EXCEPT ![key[w]] = Count(@)]
    /\ UNCHANGED <<store, key, accepted, everAccepted, exposed, told>>

\* status FAILED without retryable stops the chain.
SendFailsPermanent(w) ==
    /\ pc[w] = "sending"
    /\ Settle(w, "permanent")
    /\ refused' = [refused EXCEPT ![key[w]] = Count(@)]
    /\ UNCHANGED <<store, key, pos, accepted, everAccepted, exposed, told>>

-----------------------------------------------------------------------------
(* send: complete or release the claim *)

\* Mutant of Settled: every result is stored, a retryable failure too.
SettledAlways(w) == outcome[w]

\* What the settling command writes: a final result replaces the claim, a
\* retryable failure gives it up.  Neither looks at who owns the key.
Settled(w) == IF outcome[w] = "retryable" THEN Absent ELSE outcome[w]

SettleApplied(w) ==
    /\ pc[w] = "settle"
    /\ store' = [store EXCEPT ![key[w]] = Settled(w)]
    /\ Return(w, outcome[w])
    /\ UNCHANGED verdicts

\* complete and release are inside the try block: their failure is caught.
\* Only a refused release does no harm: the catch block releases the claim.
SettleThrows(w) ==
    /\ pc[w] = "settle"
    /\ \/ /\ "refused" \in Faults
          /\ exposed' = IF outcome[w] = "retryable" THEN exposed ELSE exposed \cup {key[w]}
          /\ UNCHANGED store
       \/ /\ "lost_reply" \in Faults
          /\ exposed' = exposed \cup {key[w]}
          /\ store' = [store EXCEPT ![key[w]] = Settled(w)]
    /\ pc' = [pc EXCEPT ![w] = "recover"]
    /\ UNCHANGED <<key, pos, outcome, accepted, refused, everAccepted, told>>

\* catch: release the key, whatever it holds, and rethrow.
Recover(w) ==
    /\ pc[w] = "recover"
    /\ store' = [store EXCEPT ![key[w]] = Absent]
    /\ Throw(w)
    /\ UNCHANGED verdicts

\* The release in the catch block fails too; that error is thrown instead.
RecoverThrows(w) ==
    /\ pc[w] = "recover"
    /\ "refused" \in Faults
    /\ Throw(w)
    /\ UNCHANGED <<store, verdicts>>

-----------------------------------------------------------------------------
(* the environment *)

\* Mutant of Crash: a shutdown hook gives up the claims in flight.
CrashReleases(w) ==
    /\ "crash" \in Faults
    /\ pc[w] # "idle"
    /\ store' = IF Holding(w) THEN [store EXCEPT ![key[w]] = Absent] ELSE store
    /\ Throw(w)
    /\ UNCHANGED verdicts

\* The process dies; Redis keeps what it holds.
Crash(w) ==
    /\ "crash" \in Faults
    /\ pc[w] # "idle"
    /\ Throw(w)
    /\ UNCHANGED <<store, verdicts>>

\* EX ttl: a claim nobody works for any more, or a result, disappears.  That
\* ends whatever a fault did to the key, unless some worker still runs.
Expire(k) ==
    /\ store[k] # Absent
    /\ "expiry" \in Faults \/ \A w \in Workers : ~Holds(w, k)
    /\ store' = [store EXCEPT ![k] = Absent]
    /\ accepted' = [accepted EXCEPT ![k] = 0]
    /\ refused' = [refused EXCEPT ![k] = 0]
    /\ exposed' = IF \E w \in Workers : Holds(w, k) THEN exposed \cup {k} ELSE exposed \ {k}
    /\ UNCHANGED <<local, everAccepted, told>>

\* Everything send does once it is called.
Progress(w) ==
    \/ Lookup(w) \/ LookupThrows(w)
    \/ NoPlan(w) \/ SkipUnavailable(w) \/ CallProvider(w)
    \/ ProviderAccepts(w) \/ SendReturns(w) \/ SendThrowsAfterAccept(w)
    \/ SendFailsRetryable(w) \/ SendFailsPermanent(w)
    \/ SettleApplied(w) \/ SettleThrows(w) \/ Recover(w) \/ RecoverThrows(w)

Call(w) == \E k \in Keys : ClaimGranted(w, k) \/ ClaimDenied(w, k) \/ ClaimThrows(w, k)

Next ==
    \/ \E w \in Workers : Call(w) \/ Progress(w) \/ Crash(w)
    \/ \E k \in Keys : Expire(k)

Spec == Init /\ [][Next]_vars

-----------------------------------------------------------------------------
(* Properties *)

OneSender ==
    \A v, w \in Workers :
        v # w /\ Holding(v) /\ Holding(w) => key[v] # key[w]

SenderOwnsClaim ==
    \A w \in Workers : Holding(w) => store[key[w]] = InProgress

\* A claim excludes every other sender of its key: two workers are never
\* between the claim and the end of send for one idempotency key, and a
\* worker that runs the chain still owns the Redis claim it runs under.
Exclusive == OneSender /\ SenderOwnsClaim

\* Until the record expires, one message gets at most one final verdict
\* from all providers of all calls together: it is not sent again after a
\* provider accepted it, nor after one refused it for good.
OneVerdict == \A k \in Keys : accepted[k] + refused[k] <= 1

\* A caller is told "delivered", by its own call or by the replay of
\* another's, only if some provider did accept the message.
DeliveredIsTrue == told \subseteq everAccepted

\* A call that ends with an error, a retryable failure or a crash never
\* leaves behind a record that a later call would replay as final, unless a
\* provider gave that verdict.
RecordIsTrue ==
    \A k \in Keys :
        /\ store[k] = "delivered" => accepted[k] > 0
        /\ store[k] = "permanent" => refused[k] > 0 \/ Plan[k] = <<>>

\* Whatever fails, a second send of a message is the work of one of four
\* events on its own key: the claim ran out under a running worker, a client
\* threw after its provider took the message, storing a final result failed,
\* or the reply to the settling command was lost.  As long as none of them
\* happened the claim excludes every other sender and one verdict is given:
\* no failed claim or lookup, no crash and no failed release is one of them.
RepeatsAreExplained ==
    \A k \in Keys \ exposed :
        /\ accepted[k] + refused[k] <= 1
        /\ \A v, w \in Workers : Holds(v, k) /\ Holds(w, k) => v = w
        /\ \A w \in Workers : Holds(w, k) => store[k] = InProgress

-----------------------------------------------------------------------------
(* The abstract specification this one implements *)

senderBar ==
    [k \in Keys |-> IF \E w \in Workers : Holds(w, k)
                    THEN CHOOSE w \in Workers : Holds(w, k)
                    ELSE None]
verdictBar ==
    [k \in Keys |-> IF accepted[k] > 0 THEN "accepted"
                    ELSE IF refused[k] > 0 THEN "refused" ELSE "open"]

Abstract == INSTANCE SendOnce WITH sender <- senderBar, verdict <- verdictBar

\* send implements SendOnce: every step of a worker is a step of the
\* abstract sender or changes nothing it can see.
ImplementsSendOnce == Abstract!Spec
=============================================================================
