------------------------------ MODULE SendOnce ------------------------------
(***************************************************************************)
(* What sending one notification through a provider chain promises,        *)
(* whatever number of workers, retries and crashes are involved.  A key is *)
(* an idempotency key; it has at most one sender at a time, and within the *)
(* life of its record at most one final verdict of a provider: either one  *)
(* provider accepted the message or one refused it for good.               *)
(***************************************************************************)
CONSTANTS
    Workers,    \* delivery workers
    Keys,       \* idempotency keys
    None        \* not a worker

VARIABLES
    sender,     \* per key: the worker that is sending, or None
    verdict     \* per key: "open", "accepted" or "refused"

vars == <<sender, verdict>>

TypeOK ==
    /\ sender \in [Keys -> Workers \cup {None}]
    /\ verdict \in [Keys -> {"open", "accepted", "refused"}]

Init ==
    /\ sender = [k \in Keys |-> None]
    /\ verdict = [k \in Keys |-> "open"]

\* A worker starts sending a key nobody sends and no provider has decided.
Begin(w, k) ==
    /\ sender[k] = None
    /\ verdict[k] = "open"
    /\ sender' = [sender EXCEPT ![k] = w]
    /\ UNCHANGED verdict

\* A provider decides the fate of the message its sender handed over.
Decide(k) ==
    /\ sender[k] # None
    /\ verdict[k] = "open"
    /\ \E v \in {"accepted", "refused"} : verdict' = [verdict EXCEPT ![k] = v]
    /\ UNCHANGED sender

\* The sender is done, or gone.
End(k) ==
    /\ sender[k] # None
    /\ sender' = [sender EXCEPT ![k] = None]
    /\ UNCHANGED verdict

\* The record of the key reaches its time to live.
Forget(k) ==
    /\ sender[k] = None
    /\ verdict' = [verdict EXCEPT ![k] = "open"]
    /\ UNCHANGED sender

Next ==
    \E k \in Keys :
        \/ \E w \in Workers : Begin(w, k)
        \/ Decide(k)
        \/ End(k)
        \/ Forget(k)

Spec == Init /\ [][Next]_vars
=============================================================================
