----------------------- MODULE ProviderFailoverProofs -----------------------
(***************************************************************************)
(* Theorems about ProviderFailover, for any workers, keys and plans.  Each *)
(* names the faults it excludes; the model without that exclusion has a    *)
(* counterexample.                                                         *)
(***************************************************************************)
EXTENDS ProviderFailover, TLAPS

\* The actions of a worker and of Redis, by name.
LEMMA StepCases ==
    ASSUME Next
    PROVE  \/ \E w \in Workers, k \in Keys :
                  ClaimGranted(w, k) \/ ClaimDenied(w, k) \/ ClaimThrows(w, k)
           \/ \E w \in Workers : Progress(w) \/ Crash(w)
           \/ \E k \in Keys : Expire(k)
  BY DEF Next, Call

\* A call in flight has a key.
KeyOfCall == \A w \in Workers : pc[w] # "idle" => key[w] \in Keys

TypeInv == TypeOK /\ KeyOfCall

\* The verdict counters stay within their bound.
LEMMA CountType == ASSUME NEW n \in 0..MaxVerdicts PROVE Count(n) \in 0..MaxVerdicts
  BY DEF Count, MaxVerdicts

\* Advance only moves the worker's own program counter, position and outcome.
LEMMA AdvanceType ==
    ASSUME TypeInv, NEW w \in Workers, Advance(w)
    PROVE  /\ pc' \in [Workers -> PcValues]
           /\ pos' \in [Workers -> Nat]
           /\ outcome' \in [Workers -> Outcomes]
           /\ pc'[w] \in {"chain", "settle"}
           /\ \A v \in Workers : v # w => pc'[v] = pc[v]
  <1> USE DEF TypeInv, TypeOK, PcValues, Outcomes, Final
  <1>1. CASE pos[w] < Len(Plan[key[w]])
    <2>1. /\ pc' = [pc EXCEPT ![w] = "chain"]
          /\ pos' = [pos EXCEPT ![w] = pos[w] + 1]
          /\ outcome' = outcome
        BY <1>1 DEF Advance
    <2> QED
        BY <2>1
  <1>2. CASE ~(pos[w] < Len(Plan[key[w]]))
    <2>1. /\ pc' = [pc EXCEPT ![w] = "settle"]
          /\ outcome' = [outcome EXCEPT ![w] = "retryable"]
          /\ pos' = pos
        BY <1>2 DEF Advance, Settle
    <2> QED
        BY <2>1
  <1> QED
      BY <1>1, <1>2

\* Leave returns the worker to idle and touches no other.
LEMMA LeaveType ==
    ASSUME TypeInv, NEW w \in Workers, Leave(w)
    PROVE  /\ pc' \in [Workers -> PcValues]
           /\ key' \in [Workers -> Keys \cup {None}]
           /\ pos' \in [Workers -> Nat]
           /\ outcome' \in [Workers -> Outcomes]
           /\ pc'[w] = "idle"
           /\ \A v \in Workers : v # w => pc'[v] = pc[v] /\ key'[v] = key[v]
  BY DEF Leave, TypeInv, TypeOK, PcValues, Outcomes

\* A call that returns leaves, and reports a key or nothing.
LEMMA ReturnType ==
    ASSUME TypeInv, NEW w \in Workers, pc[w] # "idle", NEW r, Return(w, r)
    PROVE  Leave(w) /\ told' \subseteq Keys
  BY DEF Return, TypeInv, TypeOK, KeyOfCall

\* No step of a worker, of Redis or of a fault breaks the type invariant.
LEMMA TypeStep == TypeInv /\ [Next]_vars => TypeInv'
  <1> SUFFICES ASSUME TypeInv, [Next]_vars PROVE TypeInv'
      OBVIOUS
  <1> USE DEF TypeInv, TypeOK, KeyOfCall, StoreValues, PcValues, Outcomes, Final,
              InProgress, Absent, verdicts
  <1>1. ASSUME NEW w \in Workers, NEW k \in Keys, ClaimGranted(w, k) PROVE TypeInv'
      BY <1>1 DEF ClaimGranted
  <1>2. ASSUME NEW w \in Workers, NEW k \in Keys, ClaimDenied(w, k) PROVE TypeInv'
      BY <1>2 DEF ClaimDenied
  <1>3. ASSUME NEW w \in Workers, NEW k \in Keys, ClaimThrows(w, k) PROVE TypeInv'
      BY <1>3 DEF ClaimThrows, local
  <1>4. ASSUME NEW w \in Workers, Lookup(w) PROVE TypeInv'
      BY <1>4, ReturnType, LeaveType DEF Lookup
  <1>5. ASSUME NEW w \in Workers, LookupThrows(w) PROVE TypeInv'
      BY <1>5, LeaveType DEF LookupThrows, Throw
  <1>6. ASSUME NEW w \in Workers, NoPlan(w) PROVE TypeInv'
      BY <1>6 DEF NoPlan, Settle
  <1>7. ASSUME NEW w \in Workers, SkipUnavailable(w) PROVE TypeInv'
      BY <1>7, AdvanceType DEF SkipUnavailable
  <1>8. ASSUME NEW w \in Workers, CallProvider(w) PROVE TypeInv'
      BY <1>8 DEF CallProvider
  <1>9. ASSUME NEW w \in Workers, ProviderAccepts(w) PROVE TypeInv'
      BY <1>9, CountType DEF ProviderAccepts
  <1>10. ASSUME NEW w \in Workers, SendReturns(w) PROVE TypeInv'
      BY <1>10 DEF SendReturns, Settle
  <1>11. ASSUME NEW w \in Workers, SendThrowsAfterAccept(w) PROVE TypeInv'
      BY <1>11, AdvanceType DEF SendThrowsAfterAccept
  <1>12. ASSUME NEW w \in Workers, SendFailsRetryable(w) PROVE TypeInv'
      BY <1>12, AdvanceType DEF SendFailsRetryable
  <1>13. ASSUME NEW w \in Workers, SendFailsPermanent(w) PROVE TypeInv'
      BY <1>13, CountType DEF SendFailsPermanent, Settle
  <1>14. ASSUME NEW w \in Workers, SettleApplied(w) PROVE TypeInv'
      BY <1>14, ReturnType, LeaveType DEF SettleApplied, Settled
  <1>15. ASSUME NEW w \in Workers, SettleThrows(w) PROVE TypeInv'
      BY <1>15 DEF SettleThrows, Settled
  <1>16. ASSUME NEW w \in Workers, Recover(w) PROVE TypeInv'
      BY <1>16, LeaveType DEF Recover, Throw
  <1>17. ASSUME NEW w \in Workers, RecoverThrows(w) PROVE TypeInv'
      BY <1>17, LeaveType DEF RecoverThrows, Throw
  <1>18. ASSUME NEW w \in Workers, Crash(w) PROVE TypeInv'
      BY <1>18, LeaveType DEF Crash, Throw
  <1>19. ASSUME NEW k \in Keys, Expire(k) PROVE TypeInv'
      BY <1>19 DEF Expire, local, MaxVerdicts
  <1>20. CASE UNCHANGED vars
      BY <1>20 DEF vars, local
  <1> QED
      BY <1>1, <1>2, <1>3, <1>4, <1>5, <1>6, <1>7, <1>8, <1>9, <1>10, <1>11, <1>12,
         <1>13, <1>14, <1>15, <1>16, <1>17, <1>18, <1>19, <1>20, StepCases DEF Progress

\* The type invariant holds before the first call.
LEMMA TypeInit == Init => TypeInv
  BY DEF Init, TypeInv, TypeOK, KeyOfCall, StoreValues, PcValues, Outcomes, MaxVerdicts, Absent

\* Every variable of the failover keeps its type, whatever faults happen.
THEOREM TypeCorrect == Spec => []TypeOK
  <1>1. TypeInv => TypeOK
      BY DEF TypeInv
  <1> QED
      BY <1>1, TypeInit, TypeStep, PTL DEF Spec

-----------------------------------------------------------------------------
(* One sender per claim *)

\* Redis tells the truth about what it applied, and no claim runs out while
\* its worker is still sending.
ReliableClaims == Faults \cap {"lost_reply", "expiry"} = {}

\* What one step of a running call may do to the program counters and to
\* the store: it starts no claim, it only writes its own key, and it does
\* that only when it gives its claim up.
OwnStep(w) ==
    /\ \A v \in Workers : v # w => pc'[v] = pc[v] /\ key'[v] = key[v]
    /\ Holding(w)' => Holding(w) /\ key'[w] = key[w] /\ store' = store
    /\ ~Holding(w) => store' = store
    /\ \A k \in Keys : k # key[w] => store'[k] = store[k]

\* What a started call does, it does to its own locals and its own key.
LEMMA ProgressIsOwnStep ==
    ASSUME TypeInv, ReliableClaims, NEW w \in Workers, Progress(w) \/ Crash(w)
    PROVE  OwnStep(w)
  <1> USE DEF TypeInv, TypeOK, OwnStep, Holding
  <1>1. CASE Lookup(w)
      BY <1>1, LeaveType DEF Lookup, Return
  <1>2. CASE LookupThrows(w)
      BY <1>2, LeaveType DEF LookupThrows, Throw
  <1>3. CASE NoPlan(w)
      BY <1>3 DEF NoPlan, Settle
  <1>4. CASE SkipUnavailable(w)
      BY <1>4, AdvanceType DEF SkipUnavailable
  <1>5. CASE CallProvider(w)
      BY <1>5 DEF CallProvider
  <1>6. CASE ProviderAccepts(w)
      BY <1>6 DEF ProviderAccepts
  <1>7. CASE SendReturns(w)
      BY <1>7 DEF SendReturns, Settle
  <1>8. CASE SendThrowsAfterAccept(w)
      BY <1>8, AdvanceType DEF SendThrowsAfterAccept
  <1>9. CASE SendFailsRetryable(w)
      BY <1>9, AdvanceType DEF SendFailsRetryable
  <1>10. CASE SendFailsPermanent(w)
      BY <1>10 DEF SendFailsPermanent, Settle
  <1>11. CASE SettleApplied(w)
      BY <1>11, LeaveType DEF SettleApplied, Return
  <1>12. CASE SettleThrows(w)
      BY <1>12 DEF SettleThrows, ReliableClaims
  <1>13. CASE Recover(w)
      BY <1>13, LeaveType DEF Recover, Throw
  <1>14. CASE RecoverThrows(w)
      BY <1>14, LeaveType DEF RecoverThrows, Throw
  <1>15. CASE Crash(w)
      BY <1>15, LeaveType DEF Crash, Throw
  <1> QED
      BY <1>1, <1>2, <1>3, <1>4, <1>5, <1>6, <1>7, <1>8, <1>9, <1>10, <1>11, <1>12,
         <1>13, <1>14, <1>15 DEF Progress

ExclusionInv == TypeInv /\ SenderOwnsClaim /\ OneSender

\* With reliable claims no step lets a second sender in or takes a claim away.
LEMMA ExclusionStep ==
    ASSUME ReliableClaims
    PROVE  ExclusionInv /\ [Next]_vars => ExclusionInv'
  <1> SUFFICES ASSUME ExclusionInv, [Next]_vars
               PROVE  SenderOwnsClaim' /\ OneSender'
      BY TypeStep DEF ExclusionInv
  <1> USE DEF ExclusionInv, SenderOwnsClaim, OneSender
  <1>1. ASSUME NEW w \in Workers, Progress(w) \/ Crash(w)
        PROVE  SenderOwnsClaim' /\ OneSender'
    <2>1. OwnStep(w)
        BY <1>1, ProgressIsOwnStep
    <2>2. \A v \in Workers : Holding(v)' => Holding(v) /\ key'[v] = key[v]
        BY <2>1 DEF OwnStep, Holding
    <2>3. OneSender'
        BY <2>2
    <2>4. ASSUME NEW v \in Workers, Holding(v)' PROVE store'[key'[v]] = InProgress
      <3>1. CASE v = w
          BY <2>1, <2>4, <3>1 DEF OwnStep
      <3>2. CASE v # w /\ ~Holding(w)
          BY <2>1, <2>2, <2>4, <3>2 DEF OwnStep
      <3>3. CASE v # w /\ Holding(w)
        <4>1. key[v] \in Keys /\ key[v] # key[w]
            BY <2>2, <2>4, <3>3 DEF TypeInv, KeyOfCall, Holding
        <4> QED
            BY <2>1, <2>2, <2>4, <4>1 DEF OwnStep
      <3> QED
          BY <3>1, <3>2, <3>3
    <2> QED
        BY <2>3, <2>4
  <1>2. ASSUME NEW w \in Workers, NEW k \in Keys, ClaimGranted(w, k)
        PROVE  SenderOwnsClaim' /\ OneSender'
    <2>1. \A v \in Workers : v # w => pc'[v] = pc[v] /\ key'[v] = key[v]
        BY <1>2 DEF ClaimGranted, TypeInv, TypeOK
    <2>2. pc'[w] = "chain" /\ key'[w] = k /\ store'[k] = InProgress
        BY <1>2 DEF ClaimGranted, TypeInv, TypeOK
    <2>3. \A v \in Workers : v # w /\ Holding(v) => key[v] # k
        BY <1>2 DEF ClaimGranted, InProgress, Absent
    <2>4. \A j \in Keys : j # k => store'[j] = store[j]
        BY <1>2 DEF ClaimGranted, TypeInv, TypeOK
    <2>5. \A v \in Workers : Holding(v) => key[v] \in Keys
        BY DEF TypeInv, KeyOfCall, Holding
    <2> QED
        BY <2>1, <2>2, <2>3, <2>4, <2>5 DEF Holding
  <1>3. ASSUME NEW w \in Workers, NEW k \in Keys, ClaimDenied(w, k)
        PROVE  SenderOwnsClaim' /\ OneSender'
      BY <1>3 DEF ClaimDenied, Holding, TypeInv, TypeOK
  <1>4. ASSUME NEW w \in Workers, NEW k \in Keys, ClaimThrows(w, k)
        PROVE  SenderOwnsClaim' /\ OneSender'
      BY <1>4 DEF ClaimThrows, ReliableClaims, local, Holding
  <1>5. ASSUME NEW k \in Keys, Expire(k)
        PROVE  SenderOwnsClaim' /\ OneSender'
      BY <1>5 DEF Expire, ReliableClaims, local, Holding, Holds, TypeInv, TypeOK, KeyOfCall
  <1>6. CASE UNCHANGED vars
      BY <1>6 DEF vars, local, Holding
  <1> QED
      BY <1>1, <1>2, <1>3, <1>4, <1>5, <1>6, StepCases

\* While Redis answers truthfully and claims outlive their sends, an
\* idempotency key never has two senders, and every sender still owns the
\* Redis claim it took: crashes, refused commands and clients that throw
\* after the provider took the message do not change that.
THEOREM Exclusion ==
    ASSUME ReliableClaims
    PROVE  Spec => []Exclusive
  <1>1. Init => ExclusionInv
      BY TypeInit DEF Init, ExclusionInv, OneSender, SenderOwnsClaim, Holding
  <1>2. ExclusionInv /\ [Next]_vars => ExclusionInv'
      BY ExclusionStep
  <1>3. ExclusionInv => Exclusive
      BY DEF ExclusionInv, Exclusive
  <1> QED
      BY <1>1, <1>2, <1>3, PTL DEF Spec

-----------------------------------------------------------------------------
(* A caller that is told "delivered" is told the truth *)

\* Every place a delivered result is kept in on its way to a caller.
TruthInv ==
    /\ TypeInv
    /\ DeliveredIsTrue
    /\ \A k \in Keys : store[k] = "delivered" => k \in everAccepted
    /\ \A w \in Workers :
          \/ pc[w] = "accepted"
          \/ pc[w] \in {"settle", "recover"} /\ outcome[w] = "delivered"
          => key[w] \in everAccepted

\* No step, under any fault, reports or records a delivery nobody accepted.
LEMMA TruthStep == TruthInv /\ [Next]_vars => TruthInv'
  <1> SUFFICES ASSUME TruthInv, [Next]_vars PROVE TruthInv'
      OBVIOUS
  <1>0. TypeInv /\ TypeInv'
      BY TypeStep DEF TruthInv
  <1> USE <1>0 DEF TruthInv, DeliveredIsTrue, TypeInv, TypeOK, KeyOfCall, InProgress, Absent, Final
  <1>1. ASSUME NEW w \in Workers, NEW k \in Keys, ClaimGranted(w, k) PROVE TruthInv'
      BY <1>1 DEF ClaimGranted, verdicts
  <1>2. ASSUME NEW w \in Workers, NEW k \in Keys, ClaimDenied(w, k) PROVE TruthInv'
      BY <1>2 DEF ClaimDenied, verdicts
  <1>3. ASSUME NEW w \in Workers, NEW k \in Keys, ClaimThrows(w, k) PROVE TruthInv'
      BY <1>3 DEF ClaimThrows, verdicts, local
  <1>4. ASSUME NEW w \in Workers, Lookup(w) PROVE TruthInv'
      BY <1>4 DEF Lookup, Return, Leave, verdicts
  <1>5. ASSUME NEW w \in Workers, LookupThrows(w) PROVE TruthInv'
      BY <1>5 DEF LookupThrows, Throw, Leave, verdicts
  <1>6. ASSUME NEW w \in Workers, NoPlan(w) PROVE TruthInv'
      BY <1>6 DEF NoPlan, Settle, verdicts
  <1>7. ASSUME NEW w \in Workers, SkipUnavailable(w) PROVE TruthInv'
      BY <1>7 DEF SkipUnavailable, Advance, Settle, verdicts
  <1>8. ASSUME NEW w \in Workers, CallProvider(w) PROVE TruthInv'
      BY <1>8 DEF CallProvider, verdicts
  <1>9. ASSUME NEW w \in Workers, ProviderAccepts(w) PROVE TruthInv'
      BY <1>9 DEF ProviderAccepts
  <1>10. ASSUME NEW w \in Workers, SendReturns(w) PROVE TruthInv'
      BY <1>10 DEF SendReturns, Settle, verdicts
  <1>11. ASSUME NEW w \in Workers, SendThrowsAfterAccept(w) PROVE TruthInv'
      BY <1>11 DEF SendThrowsAfterAccept, Advance, Settle, verdicts
  <1>12. ASSUME NEW w \in Workers, SendFailsRetryable(w) PROVE TruthInv'
      BY ZenonT(60), <1>12 DEF SendFailsRetryable, Advance, Settle, verdicts
  <1>13. ASSUME NEW w \in Workers, SendFailsPermanent(w) PROVE TruthInv'
      BY <1>13 DEF SendFailsPermanent, Settle
  <1>14. ASSUME NEW w \in Workers, SettleApplied(w) PROVE TruthInv'
      BY <1>14 DEF SettleApplied, Settled, Return, Leave, verdicts
  <1>15. ASSUME NEW w \in Workers, SettleThrows(w) PROVE TruthInv'
      BY <1>15 DEF SettleThrows, Settled, verdicts
  <1>16. ASSUME NEW w \in Workers, Recover(w) PROVE TruthInv'
      BY <1>16 DEF Recover, Throw, Leave, verdicts
  <1>17. ASSUME NEW w \in Workers, RecoverThrows(w) PROVE TruthInv'
      BY <1>17 DEF RecoverThrows, Throw, Leave, verdicts
  <1>18. ASSUME NEW w \in Workers, Crash(w) PROVE TruthInv'
      BY <1>18 DEF Crash, Throw, Leave, verdicts
  <1>19. ASSUME NEW k \in Keys, Expire(k) PROVE TruthInv'
      BY <1>19 DEF Expire, local
  <1>20. CASE UNCHANGED vars
      BY <1>20 DEF vars, local, verdicts
  <1> QED
      BY <1>1, <1>2, <1>3, <1>4, <1>5, <1>6, <1>7, <1>8, <1>9, <1>10, <1>11, <1>12,
         <1>13, <1>14, <1>15, <1>16, <1>17, <1>18, <1>19, <1>20, StepCases DEF Progress

\* Under every fault of the model, a caller is told that a notification was
\* delivered only after some provider accepted it.
THEOREM DeliveredTruth == Spec => []DeliveredIsTrue
  <1>1. Init => TruthInv
      BY TypeInit DEF Init, TruthInv, DeliveredIsTrue, Absent
  <1>2. TruthInv => DeliveredIsTrue
      BY DEF TruthInv
  <1> QED
      BY <1>1, <1>2, TruthStep, PTL DEF Spec
-----------------------------------------------------------------------------
(* A stored result was given by a provider *)

\* The verdict a worker is about to record.
VerdictIsTrue(w) ==
    /\ \/ pc[w] = "accepted"
       \/ pc[w] = "settle" /\ outcome[w] = "delivered"
       => accepted[key[w]] > 0
    /\ pc[w] = "settle" /\ outcome[w] = "permanent" =>
        refused[key[w]] > 0 \/ Plan[key[w]] = <<>>

RecordInv ==
    /\ ExclusionInv
    /\ RecordIsTrue
    /\ \A w \in Workers : VerdictIsTrue(w)

\* A verdict lives as long as the record, so as long as its claim is held.
LEMMA RecordStep ==
    ASSUME ReliableClaims
    PROVE  RecordInv /\ [Next]_vars => RecordInv'
  <1> SUFFICES ASSUME RecordInv, [Next]_vars PROVE RecordInv'
      OBVIOUS
  <1>0. /\ ExclusionInv /\ ExclusionInv' /\ TypeInv /\ OneSender
        /\ \A n \in 0..MaxVerdicts : Count(n) \in Nat /\ Count(n) > 0
      BY ExclusionStep DEF RecordInv, ExclusionInv, Count, MaxVerdicts
  <1> USE <1>0 DEF RecordInv, RecordIsTrue, VerdictIsTrue, TypeInv, TypeOK, KeyOfCall, InProgress, Absent, Final
  <1>1. ASSUME NEW w \in Workers, NEW k \in Keys, ClaimGranted(w, k) PROVE RecordInv'
      BY <1>1 DEF ClaimGranted, verdicts
  <1>2. ASSUME NEW w \in Workers, NEW k \in Keys, ClaimDenied(w, k) PROVE RecordInv'
      BY <1>2 DEF ClaimDenied, verdicts
  <1>3. ASSUME NEW w \in Workers, NEW k \in Keys, ClaimThrows(w, k) PROVE RecordInv'
      BY <1>3 DEF ClaimThrows, verdicts, local, ReliableClaims
  <1>4. ASSUME NEW w \in Workers, Lookup(w) PROVE RecordInv'
      BY <1>4 DEF Lookup, Return, Leave, verdicts
  <1>5. ASSUME NEW w \in Workers, LookupThrows(w) PROVE RecordInv'
      BY <1>5 DEF LookupThrows, Throw, Leave, verdicts
  <1>6. ASSUME NEW w \in Workers, NoPlan(w) PROVE RecordInv'
      BY <1>6 DEF NoPlan, Settle, verdicts
  <1>7. ASSUME NEW w \in Workers, SkipUnavailable(w) PROVE RecordInv'
      BY <1>7 DEF SkipUnavailable, Advance, Settle, verdicts
  <1>8. ASSUME NEW w \in Workers, CallProvider(w) PROVE RecordInv'
      BY <1>8 DEF CallProvider, verdicts
  <1>9. ASSUME NEW w \in Workers, ProviderAccepts(w) PROVE RecordInv'
      BY <1>9 DEF ProviderAccepts
  <1>10. ASSUME NEW w \in Workers, SendReturns(w) PROVE RecordInv'
      BY <1>10 DEF SendReturns, Settle, verdicts
  <1>11. ASSUME NEW w \in Workers, SendThrowsAfterAccept(w) PROVE RecordInv'
      BY <1>11 DEF SendThrowsAfterAccept, Advance, Settle, verdicts
  <1>12. ASSUME NEW w \in Workers, SendFailsRetryable(w) PROVE RecordInv'
      BY <1>12 DEF SendFailsRetryable, Advance, Settle, verdicts
  <1>13. ASSUME NEW w \in Workers, SendFailsPermanent(w) PROVE RecordInv'
      BY <1>13 DEF SendFailsPermanent, Settle
  <1>14. ASSUME NEW w \in Workers, SettleApplied(w) PROVE RecordInv'
      BY <1>14 DEF SettleApplied, Settled, Return, Leave, verdicts
  <1>15. ASSUME NEW w \in Workers, SettleThrows(w) PROVE RecordInv'
      BY <1>15 DEF SettleThrows, Settled, verdicts
  <1>16. ASSUME NEW w \in Workers, Recover(w) PROVE RecordInv'
      BY <1>16 DEF Recover, Throw, Leave, verdicts
  <1>17. ASSUME NEW w \in Workers, RecoverThrows(w) PROVE RecordInv'
      BY <1>17 DEF RecoverThrows, Throw, Leave, verdicts
  <1>18. ASSUME NEW w \in Workers, Crash(w) PROVE RecordInv'
      BY <1>18 DEF Crash, Throw, Leave, verdicts
  <1>19. ASSUME NEW k \in Keys, Expire(k) PROVE RecordInv'
      BY <1>19 DEF Expire, local, ReliableClaims, Holds, Holding
  <1>20. CASE UNCHANGED vars
      BY <1>20 DEF vars, local, verdicts
  <1> QED
      BY <1>1, <1>2, <1>3, <1>4, <1>5, <1>6, <1>7, <1>8, <1>9, <1>10, <1>11, <1>12,
         <1>13, <1>14, <1>15, <1>16, <1>17, <1>18, <1>19, <1>20, StepCases DEF Progress

\* While Redis answers truthfully and claims outlive their sends, a result is
\* on record only if a provider gave that verdict in the life of the record,
\* or, for a permanent failure, if there was no provider to ask: no error,
\* retryable failure or crash leaves one that a later call would replay.
THEOREM RecordTruth ==
    ASSUME ReliableClaims
    PROVE  Spec => []RecordIsTrue
  <1>1. Init => ExclusionInv
      BY TypeInit DEF Init, ExclusionInv, OneSender, SenderOwnsClaim, Holding
  <1>2. Init => RecordInv
      BY <1>1 DEF Init, RecordInv, RecordIsTrue, VerdictIsTrue, Absent
  <1>3. RecordInv /\ [Next]_vars => RecordInv'
      BY RecordStep
  <1>4. RecordInv => RecordIsTrue
      BY DEF RecordInv
  <1> QED
      BY <1>2, <1>3, <1>4, PTL DEF Spec

CrashOnly == Faults \subseteq {"crash"}

-----------------------------------------------------------------------------
(* One verdict *)

Undecided(k) == accepted[k] = 0 /\ refused[k] = 0

\* A worker that may still call a provider, or is about to give up its claim.
StillOpen(w) ==
    \/ pc[w] \in {"chain", "sending"}
    \/ pc[w] = "settle" /\ outcome[w] = "retryable"

VerdictInv ==
    /\ ExclusionInv
    /\ OneVerdict
    /\ \A k \in Keys : store[k] = Absent => Undecided(k)
    /\ \A w \in Workers : StillOpen(w) => Undecided(key[w])
    /\ \A w \in Workers : pc[w] # "recover"

\* A step that leaves the store and the verdicts alone and only lets its own
\* worker stay open, or go on to another phase, keeps the invariant.
LEMMA QuietStep ==
    ASSUME VerdictInv, CrashOnly, NEW w \in Workers,
           UNCHANGED <<store, accepted, refused>>,
           \A v \in Workers : v # w =>
               pc'[v] = pc[v] /\ key'[v] = key[v] /\ outcome'[v] = outcome[v],
           StillOpen(w)' => StillOpen(w) /\ key'[w] = key[w],
           pc'[w] # "recover",
           ExclusionInv'
    PROVE  VerdictInv'
  BY DEF VerdictInv, OneVerdict, Undecided, StillOpen

\* The first verdict on a message, by the worker that holds its claim.
LEMMA DecideStep ==
    ASSUME VerdictInv, NEW w \in Workers,
           key[w] \in Keys, Holding(w), store[key[w]] = InProgress,
           accepted[key[w]] = 0, refused[key[w]] = 0,
           \/ accepted' = [accepted EXCEPT ![key[w]] = 1] /\ refused' = refused
           \/ refused' = [refused EXCEPT ![key[w]] = 1] /\ accepted' = accepted,
           UNCHANGED <<store, key>>,
           \A v \in Workers : v # w => pc'[v] = pc[v] /\ outcome'[v] = outcome[v],
           ~StillOpen(w)', pc'[w] # "recover",
           ExclusionInv'
    PROVE  VerdictInv'
  <1>1. TypeOK /\ OneSender
      BY DEF VerdictInv, ExclusionInv, TypeInv
  <1>2. \A k \in Keys : k # key[w] => accepted'[k] = accepted[k] /\ refused'[k] = refused[k]
      BY <1>1 DEF TypeOK
  <1>3. OneVerdict'
      BY <1>1, <1>2 DEF VerdictInv, OneVerdict, TypeOK
  <1>4. \A k \in Keys : store'[k] = Absent => Undecided(k)'
      BY <1>2 DEF VerdictInv, Undecided, Absent, InProgress
  <1>5. ASSUME NEW v \in Workers, StillOpen(v)' PROVE Undecided(key[v])'
    <2>1. v # w /\ StillOpen(v) /\ Holding(v)
        BY <1>5 DEF StillOpen, Holding
    <2>2. key[v] # key[w] /\ key[v] \in Keys
        BY <1>1, <2>1 DEF OneSender, VerdictInv, ExclusionInv, TypeInv, KeyOfCall, Holding
    <2> QED
        BY <1>2, <2>1, <2>2 DEF VerdictInv, Undecided
  <1> QED
      BY <1>3, <1>4, <1>5 DEF VerdictInv

\* No step of a worker, a crash or an expiry gives a message a second verdict.
LEMMA VerdictStep ==
    ASSUME CrashOnly
    PROVE  VerdictInv /\ [Next]_vars => VerdictInv'
  <1> SUFFICES ASSUME VerdictInv, [Next]_vars
               PROVE  VerdictInv'
      OBVIOUS
  <1>1. ReliableClaims
      BY DEF CrashOnly, ReliableClaims
  <1>2. ExclusionInv /\ ExclusionInv' /\ TypeInv /\ TypeOK
      BY <1>1, ExclusionStep DEF VerdictInv, ExclusionInv, TypeInv
  <1>3. ASSUME NEW w \in Workers, NEW k \in Keys, ClaimGranted(w, k)
        PROVE  VerdictInv'
      BY <1>2, <1>3 DEF ClaimGranted, VerdictInv, OneVerdict, Undecided, StillOpen, verdicts,
                        TypeOK, Absent, InProgress
  <1>4. ASSUME NEW w \in Workers, NEW k \in Keys, ClaimDenied(w, k)
        PROVE  VerdictInv'
      BY <1>2, <1>4, QuietStep DEF ClaimDenied, StillOpen, verdicts, TypeOK
  <1>5. ASSUME NEW w \in Workers, NEW k \in Keys, ClaimThrows(w, k)
        PROVE  VerdictInv'
      BY <1>5 DEF ClaimThrows, CrashOnly
  <1>6. ASSUME NEW w \in Workers, Progress(w) PROVE VerdictInv'
    <2>1. CASE Lookup(w)
        BY <1>2, <2>1, QuietStep DEF Lookup, Return, Leave, StillOpen, verdicts, TypeOK
    <2>2. CASE LookupThrows(w)
        BY <2>2 DEF LookupThrows, CrashOnly
    <2>3. CASE NoPlan(w)
        BY <1>2, <2>3, QuietStep DEF NoPlan, Settle, StillOpen, verdicts, TypeOK
    <2>4. CASE SkipUnavailable(w)
        BY <1>2, <2>4, QuietStep
           DEF SkipUnavailable, Advance, Settle, StillOpen, verdicts, TypeOK
    <2>5. CASE CallProvider(w)
        BY <1>2, <2>5, QuietStep DEF CallProvider, StillOpen, verdicts, TypeOK
    <2>6. CASE ProviderAccepts(w)
      <3>1. key[w] \in Keys /\ Holding(w) /\ StillOpen(w) /\ store[key[w]] = InProgress
          BY <1>2, <2>6 DEF ProviderAccepts, TypeInv, KeyOfCall, Holding, StillOpen,
                            ExclusionInv, SenderOwnsClaim
      <3>2. accepted[key[w]] = 0 /\ refused[key[w]] = 0
          BY <3>1 DEF VerdictInv, Undecided
      <3>3. accepted' = [accepted EXCEPT ![key[w]] = 1]
          BY <2>6, <3>2 DEF ProviderAccepts, Count, MaxVerdicts
      <3> QED
          BY <1>2, <2>6, <3>1, <3>2, <3>3, DecideStep DEF ProviderAccepts, StillOpen, TypeOK
    <2>7. CASE SendReturns(w)
        BY <1>2, <2>7, QuietStep DEF SendReturns, Settle, StillOpen, verdicts, TypeOK
    <2>8. CASE SendThrowsAfterAccept(w)
        BY <2>8 DEF SendThrowsAfterAccept, CrashOnly
    <2>9. CASE SendFailsRetryable(w)
        BY <1>2, <2>9, QuietStep
           DEF SendFailsRetryable, Advance, Settle, StillOpen, verdicts, TypeOK
    <2>10. CASE SendFailsPermanent(w)
      <3>1. key[w] \in Keys /\ Holding(w) /\ StillOpen(w) /\ store[key[w]] = InProgress
          BY <1>2, <2>10 DEF SendFailsPermanent, TypeInv, KeyOfCall, Holding, StillOpen,
                             ExclusionInv, SenderOwnsClaim
      <3>2. accepted[key[w]] = 0 /\ refused[key[w]] = 0
          BY <3>1 DEF VerdictInv, Undecided
      <3>3. refused' = [refused EXCEPT ![key[w]] = 1]
          BY <2>10, <3>2 DEF SendFailsPermanent, Count, MaxVerdicts
      <3> QED
          BY <1>2, <2>10, <3>1, <3>2, <3>3, DecideStep
             DEF SendFailsPermanent, Settle, StillOpen, TypeOK
    <2>11. CASE SettleApplied(w)
      <3>1. key[w] \in Keys /\ Holding(w)
          BY <1>2, <2>11 DEF SettleApplied, TypeInv, KeyOfCall, Holding
      <3>2. UNCHANGED <<accepted, refused>> /\ Leave(w)
          BY <2>11 DEF SettleApplied, Return, verdicts
      <3>3. \A v \in Workers : StillOpen(v)' => StillOpen(v) /\ key'[v] = key[v]
          BY <1>2, <3>2 DEF Leave, StillOpen, TypeOK
      <3>4. store' = [store EXCEPT ![key[w]] = Settled(w)]
          BY <2>11 DEF SettleApplied
      <3>5. Settled(w) = Absent => Undecided(key[w])
          BY <1>2, <2>11 DEF SettleApplied, Settled, VerdictInv, StillOpen, TypeOK,
                             Outcomes, Final, Absent
      <3>6. \A k \in Keys : store'[k] = Absent => Undecided(k)
          BY <1>2, <3>1, <3>4, <3>5 DEF TypeOK, VerdictInv
      <3>7. \A v \in Workers : pc'[v] # "recover"
          BY <1>2, <3>2 DEF Leave, TypeOK, VerdictInv
      <3> QED
          BY <1>2, <3>2, <3>3, <3>6, <3>7 DEF VerdictInv, OneVerdict, Undecided
    <2>12. CASE SettleThrows(w)
        BY <2>12 DEF SettleThrows, CrashOnly
    <2>13. CASE Recover(w) \/ RecoverThrows(w)
        BY <2>13 DEF Recover, RecoverThrows, VerdictInv
    <2> QED
        BY <1>6, <2>1, <2>2, <2>3, <2>4, <2>5, <2>6, <2>7, <2>8, <2>9, <2>10, <2>11,
           <2>12, <2>13 DEF Progress
  <1>7. ASSUME NEW w \in Workers, Crash(w) PROVE VerdictInv'
      BY <1>2, <1>7, QuietStep DEF Crash, Throw, Leave, StillOpen, verdicts, TypeOK
  <1>8. ASSUME NEW k \in Keys, Expire(k) PROVE VerdictInv'
    <2>1. \A w \in Workers : ~Holds(w, k)
        BY <1>8 DEF Expire, CrashOnly
    <2>2. \A w \in Workers : StillOpen(w) => key[w] # k
        BY <2>1 DEF Holds, Holding, StillOpen
    <2> QED
        BY <1>2, <1>8, <2>2 DEF Expire, VerdictInv, OneVerdict, Undecided, StillOpen, local, TypeOK
  <1>9. CASE UNCHANGED vars
      BY <1>2, <1>9 DEF vars, local, verdicts, VerdictInv, OneVerdict, Undecided, StillOpen
  <1> QED
      BY <1>3, <1>4, <1>5, <1>6, <1>7, <1>8, <1>9, StepCases

\* With crashes as the only fault no message gets two final verdicts: it is
\* neither sent again once a provider accepted it, nor once one refused it.
THEOREM OneVerdictHolds ==
    ASSUME CrashOnly
    PROVE  Spec => []OneVerdict
  <1>1. Init => ExclusionInv
      BY TypeInit DEF Init, ExclusionInv, OneSender, SenderOwnsClaim, Holding
  <1>2. Init => VerdictInv
      BY <1>1 DEF Init, VerdictInv, OneVerdict, Undecided, StillOpen
  <1>3. VerdictInv /\ [Next]_vars => VerdictInv'
      BY VerdictStep
  <1>4. VerdictInv => OneVerdict
      BY DEF VerdictInv
  <1> QED
      BY <1>2, <1>3, <1>4, PTL DEF Spec
-----------------------------------------------------------------------------
(* What a second send of a message is due to *)

\* A worker that holds its claim and has no final verdict in its hands.
Pending(w) ==
    \/ pc[w] \in {"chain", "sending", "recover"}
    \/ pc[w] = "settle" /\ outcome[w] = "retryable"

\* What is known of a key no fault has laid open.
Sound(k) ==
    /\ accepted[k] + refused[k] <= 1
    /\ \A v, w \in Workers : Holds(v, k) /\ Holds(w, k) => v = w
    /\ \A w \in Workers : Holds(w, k) => store[k] = InProgress
    /\ \A w \in Workers : Holds(w, k) /\ Pending(w) => Undecided(k)
    /\ store[k] = Absent => Undecided(k)

RepeatInv ==
    /\ TypeInv
    /\ \A k \in Keys \ exposed : Sound(k)

\* Advance goes to the next provider, or settles the last one's failure.
LEMMA AdvancePhase ==
    ASSUME NEW w \in Workers, Advance(w)
    PROVE  \/ pc' = [pc EXCEPT ![w] = "chain"] /\ outcome' = outcome
           \/ pc' = [pc EXCEPT ![w] = "settle"] /\ outcome' = [outcome EXCEPT ![w] = "retryable"]
  BY DEF Advance, Settle

\* Every step keeps the keys sound that it does not lay open.
LEMMA RepeatStep == RepeatInv /\ [Next]_vars => RepeatInv'
  <1> SUFFICES ASSUME RepeatInv, [Next]_vars, NEW k \in Keys, k \notin exposed'
               PROVE  Sound(k)'
      BY TypeStep DEF RepeatInv
  <1>0. TypeInv /\ TypeInv'
      BY TypeStep DEF RepeatInv
  <1> USE <1>0 DEF RepeatInv, Sound, Undecided, Pending, Holds, Holding,
                   TypeInv, TypeOK, KeyOfCall, InProgress, Absent, Final
  <1>1. ASSUME NEW w \in Workers, NEW j \in Keys, ClaimGranted(w, j) PROVE Sound(k)'
      BY <1>1 DEF ClaimGranted, verdicts
  <1>2. ASSUME NEW w \in Workers, NEW j \in Keys, ClaimDenied(w, j) PROVE Sound(k)'
      BY <1>2 DEF ClaimDenied, verdicts
  <1>3. ASSUME NEW w \in Workers, NEW j \in Keys, ClaimThrows(w, j) PROVE Sound(k)'
      BY <1>3 DEF ClaimThrows, verdicts, local
  <1>4. ASSUME NEW w \in Workers, Lookup(w) PROVE Sound(k)'
      BY <1>4 DEF Lookup, Return, Leave, verdicts
  <1>5. ASSUME NEW w \in Workers, LookupThrows(w) PROVE Sound(k)'
      BY <1>5 DEF LookupThrows, Throw, Leave, verdicts
  <1>6. ASSUME NEW w \in Workers, NoPlan(w) PROVE Sound(k)'
      BY <1>6 DEF NoPlan, Settle, verdicts
  <1>7. ASSUME NEW w \in Workers, SkipUnavailable(w) PROVE Sound(k)'
    <2>1. pc[w] = "chain" /\ Advance(w) /\ UNCHANGED <<store, key, verdicts>>
        BY <1>7 DEF SkipUnavailable
    <2>2. CASE pc' = [pc EXCEPT ![w] = "chain"] /\ outcome' = outcome
        BY <2>1, <2>2 DEF verdicts
    <2>3. CASE /\ pc' = [pc EXCEPT ![w] = "settle"]
               /\ outcome' = [outcome EXCEPT ![w] = "retryable"]
        BY <2>1, <2>3 DEF verdicts
    <2> QED
        BY <2>1, <2>2, <2>3, AdvancePhase
  <1>8. ASSUME NEW w \in Workers, CallProvider(w) PROVE Sound(k)'
      BY <1>8 DEF CallProvider, verdicts
  <1>9. ASSUME NEW w \in Workers, ProviderAccepts(w) PROVE Sound(k)'
      BY <1>9 DEF ProviderAccepts, Count, MaxVerdicts
  <1>10. ASSUME NEW w \in Workers, SendReturns(w) PROVE Sound(k)'
      BY <1>10 DEF SendReturns, Settle, verdicts
  <1>11. ASSUME NEW w \in Workers, SendThrowsAfterAccept(w) PROVE Sound(k)'
      BY <1>11, AdvancePhase DEF SendThrowsAfterAccept
  <1>12. ASSUME NEW w \in Workers, SendFailsRetryable(w) PROVE Sound(k)'
      BY <1>12, AdvancePhase DEF SendFailsRetryable, verdicts
  <1>13. ASSUME NEW w \in Workers, SendFailsPermanent(w) PROVE Sound(k)'
      BY <1>13 DEF SendFailsPermanent, Settle, Count, MaxVerdicts
  <1>14. ASSUME NEW w \in Workers, SettleApplied(w) PROVE Sound(k)'
      BY <1>14 DEF SettleApplied, Settled, Return, Leave, verdicts, Outcomes
  <1>15. ASSUME NEW w \in Workers, SettleThrows(w) PROVE Sound(k)'
      BY <1>15 DEF SettleThrows, Settled
  <1>16. ASSUME NEW w \in Workers, Recover(w) PROVE Sound(k)'
      BY <1>16 DEF Recover, Throw, Leave, verdicts
  <1>17. ASSUME NEW w \in Workers, RecoverThrows(w) PROVE Sound(k)'
      BY <1>17 DEF RecoverThrows, Throw, Leave, verdicts
  <1>18. ASSUME NEW w \in Workers, Crash(w) PROVE Sound(k)'
      BY <1>18 DEF Crash, Throw, Leave, verdicts
  <1>19. ASSUME NEW j \in Keys, Expire(j) PROVE Sound(k)'
      BY <1>19 DEF Expire, local
  <1>20. CASE UNCHANGED vars
      BY <1>20 DEF vars, local, verdicts
  <1> QED
      BY <1>1, <1>2, <1>3, <1>4, <1>5, <1>6, <1>7, <1>8, <1>9, <1>10, <1>11, <1>12, <1>13, <1>14, <1>15, <1>16, <1>17, <1>18, <1>19, <1>20, StepCases DEF Progress

\* Under every fault of the model a key that none of the four events has laid
\* open has at most one sender, who owns the claim, and at most one verdict:
\* failed claims and lookups, crashes and failed releases repeat no message.
THEOREM RepeatsExplained == Spec => []RepeatsAreExplained
  <1>1. Init => RepeatInv
      BY TypeInit DEF Init, RepeatInv, Sound, Undecided, Pending, Holds, Holding, Absent, InProgress
  <1>2. RepeatInv => RepeatsAreExplained
      BY DEF RepeatInv, Sound, RepeatsAreExplained
  <1> QED
      BY <1>1, <1>2, RepeatStep, PTL DEF Spec

-----------------------------------------------------------------------------
(* The refinement *)

\* senderBar names the worker that holds a key, or nobody.
LEMMA SenderIsHolder ==
    ASSUME OneSender, NEW k \in Keys
    PROVE  /\ \A w \in Workers : Holds(w, k) => senderBar[k] = w
           /\ (\A w \in Workers : ~Holds(w, k)) => senderBar[k] = None
  BY DEF senderBar, OneSender, Holds

\* The same after a step.
LEMMA SenderIsHolderNext ==
    ASSUME OneSender', NEW k \in Keys
    PROVE  /\ \A w \in Workers : Holds(w, k)' => senderBar'[k] = w
           /\ (\A w \in Workers : ~Holds(w, k)') => senderBar'[k] = None
  BY DEF senderBar, OneSender, Holds

\* If no worker takes or leaves a key, senderBar does not change.
LEMMA SenderUnchanged ==
    ASSUME OneSender, OneSender',
           \A w \in Workers, k \in Keys : Holds(w, k)' <=> Holds(w, k)
    PROVE  senderBar' = senderBar
  <1>1. \A k \in Keys : senderBar'[k] = senderBar[k]
    <2> SUFFICES ASSUME NEW k \in Keys PROVE senderBar'[k] = senderBar[k]
        OBVIOUS
    <2>1. CASE \E w \in Workers : Holds(w, k)
        BY <2>1, SenderIsHolder, SenderIsHolderNext
    <2>2. CASE \A w \in Workers : ~Holds(w, k)
        BY <2>2, SenderIsHolder, SenderIsHolderNext
    <2> QED
        BY <2>1, <2>2
  <1> QED
      BY <1>1 DEF senderBar

\* If only one key is taken or left, senderBar changes there only.
LEMMA SenderMoves ==
    ASSUME OneSender, OneSender', NEW k \in Keys, NEW s, senderBar'[k] = s,
           \A w \in Workers, j \in Keys : j # k => (Holds(w, j)' <=> Holds(w, j))
    PROVE  senderBar' = [senderBar EXCEPT ![k] = s]
  <1>1. \A j \in Keys : j # k => senderBar'[j] = senderBar[j]
    <2> SUFFICES ASSUME NEW j \in Keys, j # k PROVE senderBar'[j] = senderBar[j]
        OBVIOUS
    <2>1. CASE \E w \in Workers : Holds(w, j)
        BY <2>1, SenderIsHolder, SenderIsHolderNext
    <2>2. CASE \A w \in Workers : ~Holds(w, j)
        BY <2>2, SenderIsHolder, SenderIsHolderNext
    <2> QED
        BY <2>1, <2>2
  <1> QED
      BY <1>1 DEF senderBar

\* If only one key is decided or forgotten, verdictBar changes there only.
LEMMA VerdictMoves ==
    ASSUME NEW k \in Keys, NEW v, verdictBar'[k] = v,
           \A j \in Keys : j # k => accepted'[j] = accepted[j] /\ refused'[j] = refused[j]
    PROVE  verdictBar' = [verdictBar EXCEPT ![k] = v]
  <1>1. \A j \in Keys : j # k => verdictBar'[j] = verdictBar[j]
      BY DEF verdictBar
  <1> QED
      BY <1>1 DEF verdictBar

\* A step that neither takes nor leaves a key, nor decides one, is a stutter.
LEMMA Stutter ==
    ASSUME VerdictInv, VerdictInv', UNCHANGED <<accepted, refused>>,
           \A w \in Workers, k \in Keys : Holds(w, k)' <=> Holds(w, k)
    PROVE  UNCHANGED Abstract!vars
  <1>1. senderBar' = senderBar
      BY SenderUnchanged DEF VerdictInv, ExclusionInv
  <1>2. verdictBar' = verdictBar
      BY DEF verdictBar
  <1> QED
      BY <1>1, <1>2 DEF Abstract!vars

\* A worker that gives its key up, with the verdict as it is, ends its send.
LEMMA EndsSend ==
    ASSUME VerdictInv, VerdictInv', UNCHANGED <<accepted, refused>>,
           NEW w \in Workers, Holding(w), Leave(w), NEW k \in Keys, k = key[w]
    PROVE  Abstract!End(k)
  <1>1. TypeOK /\ OneSender /\ OneSender'
      BY DEF VerdictInv, ExclusionInv, TypeInv
  <1>2. Holds(w, k) /\ \A v \in Workers : Holds(v, k) => v = w
      BY <1>1 DEF Holds, OneSender
  <1>3. \A v \in Workers : ~Holds(v, k)'
      BY <1>1, <1>2 DEF Leave, TypeOK, Holds, Holding
  <1>4. \A v \in Workers, j \in Keys : j # k => (Holds(v, j)' <=> Holds(v, j))
      BY <1>1 DEF Leave, TypeOK, Holds, Holding
  <1>5. senderBar[k] = w /\ senderBar'[k] = None
      BY <1>1, <1>2, <1>3, SenderIsHolder, SenderIsHolderNext
  <1>6. senderBar' = [senderBar EXCEPT ![k] = None]
      BY <1>1, <1>4, <1>5, SenderMoves
  <1>7. w # None
      BY FailoverAssumption DEF FailoverAssumption
  <1>8. verdictBar' = verdictBar
      BY DEF verdictBar
  <1> QED
      BY <1>5, <1>6, <1>7, <1>8 DEF Abstract!End

\* The worker that gets the claim begins to send the key.
LEMMA BeginsSend ==
    ASSUME VerdictInv, VerdictInv', NEW w \in Workers, NEW k \in Keys, ClaimGranted(w, k)
    PROVE  Abstract!Begin(w, k)
  <1>1. TypeOK /\ OneSender /\ OneSender' /\ SenderOwnsClaim
      BY DEF VerdictInv, ExclusionInv, TypeInv
  <1>2. \A v \in Workers : ~Holds(v, k)
      BY <1>1 DEF ClaimGranted, SenderOwnsClaim, Holds, Absent, InProgress
  <1>3. Holds(w, k)' /\ ~Holding(w)
      BY <1>1 DEF ClaimGranted, TypeOK, Holds, Holding
  <1>4. \A v \in Workers, j \in Keys : j # k => (Holds(v, j)' <=> Holds(v, j))
      BY <1>1, <1>3 DEF ClaimGranted, TypeOK, Holds, Holding
  <1>5. senderBar[k] = None /\ senderBar'[k] = w
      BY <1>1, <1>2, <1>3, SenderIsHolder, SenderIsHolderNext
  <1>6. senderBar' = [senderBar EXCEPT ![k] = w]
      BY <1>1, <1>4, <1>5, SenderMoves
  <1>7. verdictBar[k] = "open" /\ verdictBar' = verdictBar
      BY DEF ClaimGranted, VerdictInv, Undecided, verdictBar, verdicts
  <1> QED
      BY <1>5, <1>6, <1>7 DEF Abstract!Begin

\* A provider's verdict is given while the key has its sender.
LEMMA Decides ==
    ASSUME VerdictInv, VerdictInv', NEW w \in Workers, NEW k \in Keys, k = key[w],
           ProviderAccepts(w) \/ SendFailsPermanent(w)
    PROVE  Abstract!Decide(k)
  <1>1. TypeOK /\ OneSender /\ OneSender'
      BY DEF VerdictInv, ExclusionInv, TypeInv
  <1>2. \A v \in Workers, j \in Keys : Holds(v, j)' <=> Holds(v, j)
      BY <1>1 DEF ProviderAccepts, SendFailsPermanent, Settle, TypeOK, Holds, Holding
  <1>3. senderBar' = senderBar
      BY <1>1, <1>2, SenderUnchanged
  <1>4. senderBar[k] = w
      BY <1>1, SenderIsHolder DEF ProviderAccepts, SendFailsPermanent, Holds, Holding
  <1>5. w # None
      BY FailoverAssumption DEF FailoverAssumption
  <1>6. accepted[k] = 0 /\ refused[k] = 0
      BY DEF ProviderAccepts, SendFailsPermanent, VerdictInv, StillOpen, Undecided
  <1>7. verdictBar[k] = "open"
      BY <1>6 DEF verdictBar
  <1>8. \E v \in {"accepted", "refused"} : verdictBar' = [verdictBar EXCEPT ![k] = v]
    <2>1. CASE ProviderAccepts(w)
      <3>1. accepted' = [accepted EXCEPT ![k] = 1] /\ refused' = refused
          BY <2>1, <1>6 DEF ProviderAccepts, Count, MaxVerdicts
      <3>2. verdictBar' = [verdictBar EXCEPT ![k] = "accepted"]
        <4>1. verdictBar'[k] = "accepted"
            BY <1>1, <3>1 DEF verdictBar, TypeOK
        <4> QED
            BY <1>1, <3>1, <4>1, VerdictMoves DEF TypeOK
      <3> QED
          BY <3>2
    <2>2. CASE SendFailsPermanent(w)
      <3>1. refused' = [refused EXCEPT ![k] = 1] /\ accepted' = accepted
          BY <2>2, <1>6 DEF SendFailsPermanent, Count, MaxVerdicts
      <3>2. verdictBar' = [verdictBar EXCEPT ![k] = "refused"]
        <4>1. verdictBar'[k] = "refused"
            BY <1>1, <1>6, <3>1 DEF verdictBar, TypeOK
        <4> QED
            BY <1>1, <3>1, <4>1, VerdictMoves DEF TypeOK
      <3> QED
          BY <3>2
    <2> QED
        BY <2>1, <2>2
  <1> QED
      BY <1>3, <1>4, <1>5, <1>7, <1>8 DEF Abstract!Decide

\* A record only expires when nobody sends its key.
LEMMA Forgets ==
    ASSUME CrashOnly, VerdictInv, VerdictInv', NEW k \in Keys, Expire(k)
    PROVE  Abstract!Forget(k)
  <1>1. TypeOK /\ OneSender /\ OneSender'
      BY DEF VerdictInv, ExclusionInv, TypeInv
  <1>2. \A w \in Workers : ~Holds(w, k)
      BY DEF Expire, CrashOnly
  <1>3. \A v \in Workers, j \in Keys : Holds(v, j)' <=> Holds(v, j)
      BY DEF Expire, local, Holds, Holding
  <1>4. senderBar[k] = None /\ senderBar' = senderBar
      BY <1>1, <1>2, <1>3, SenderIsHolder, SenderUnchanged
  <1>5. accepted' = [accepted EXCEPT ![k] = 0] /\ refused' = [refused EXCEPT ![k] = 0]
      BY DEF Expire
  <1>6. verdictBar' = [verdictBar EXCEPT ![k] = "open"]
    <2>1. verdictBar'[k] = "open"
        BY <1>1, <1>5 DEF verdictBar, TypeOK
    <2> QED
        BY <1>1, <1>5, <2>1, VerdictMoves DEF TypeOK
  <1> QED
      BY <1>4, <1>6 DEF Abstract!Forget

\* Every step of the failover is a step of the abstract sender or a stutter.
LEMMA StepSimulation ==
    ASSUME CrashOnly, VerdictInv, VerdictInv', [Next]_vars
    PROVE  [Abstract!Next]_(Abstract!vars)
  <1>1. TypeOK /\ KeyOfCall
      BY DEF VerdictInv, ExclusionInv, TypeInv
  <1>2. ASSUME NEW w \in Workers, NEW k \in Keys, ClaimGranted(w, k)
        PROVE  Abstract!Next
      BY <1>2, BeginsSend DEF Abstract!Next
  <1>3. ASSUME NEW w \in Workers, NEW k \in Keys, ClaimDenied(w, k)
        PROVE  UNCHANGED Abstract!vars
      BY <1>1, <1>3, Stutter DEF ClaimDenied, TypeOK, Holds, Holding, verdicts
  <1>4. ASSUME NEW w \in Workers, NEW k \in Keys, ClaimThrows(w, k)
        PROVE  FALSE
      BY <1>4 DEF ClaimThrows, CrashOnly
  <1>5. ASSUME NEW w \in Workers, Lookup(w) PROVE UNCHANGED Abstract!vars
      BY <1>1, <1>5, Stutter DEF Lookup, Return, Leave, TypeOK, Holds, Holding, verdicts
  <1>6. ASSUME NEW w \in Workers,
               NoPlan(w) \/ SkipUnavailable(w) \/ CallProvider(w) \/ SendReturns(w)
                   \/ SendFailsRetryable(w)
        PROVE  UNCHANGED Abstract!vars
      BY <1>1, <1>6, Stutter
         DEF NoPlan, SkipUnavailable, CallProvider, SendReturns, SendFailsRetryable,
             Advance, Settle, TypeOK, Holds, Holding, verdicts
  <1>7. ASSUME NEW w \in Workers, ProviderAccepts(w) \/ SendFailsPermanent(w)
        PROVE  Abstract!Next
    <2>1. key[w] \in Keys
        BY <1>1, <1>7 DEF ProviderAccepts, SendFailsPermanent, KeyOfCall
    <2> QED
        BY <1>7, <2>1, Decides DEF Abstract!Next
  <1>8. ASSUME NEW w \in Workers, SettleApplied(w) PROVE Abstract!Next
    <2>1. key[w] \in Keys /\ Holding(w) /\ Leave(w) /\ UNCHANGED <<accepted, refused>>
        BY <1>1, <1>8 DEF SettleApplied, Return, KeyOfCall, Holding, verdicts
    <2> QED
        BY <2>1, EndsSend DEF Abstract!Next
  <1>9. ASSUME NEW w \in Workers, Crash(w) PROVE [Abstract!Next]_(Abstract!vars)
    <2>1. key[w] \in Keys /\ Leave(w) /\ UNCHANGED <<accepted, refused>>
        BY <1>1, <1>9 DEF Crash, Throw, KeyOfCall, verdicts
    <2>2. CASE Holding(w)
        BY <2>1, <2>2, EndsSend DEF Abstract!Next
    <2>3. CASE ~Holding(w)
        BY <1>1, <2>1, <2>3, Stutter DEF Leave, TypeOK, Holds, Holding
    <2> QED
        BY <2>2, <2>3
  <1>10. ASSUME NEW w \in Workers,
                LookupThrows(w) \/ SendThrowsAfterAccept(w) \/ SettleThrows(w)
                    \/ Recover(w) \/ RecoverThrows(w)
         PROVE  FALSE
      BY <1>10 DEF LookupThrows, SendThrowsAfterAccept, SettleThrows, Recover, RecoverThrows,
                   CrashOnly, VerdictInv
  <1>11. ASSUME NEW k \in Keys, Expire(k) PROVE Abstract!Next
      BY <1>11, Forgets DEF Abstract!Next
  <1>12. CASE UNCHANGED vars
      BY <1>12 DEF vars, local, verdicts, Abstract!vars, senderBar, verdictBar, Holds, Holding
  <1>13. ASSUME NEW w \in Workers, Progress(w) PROVE [Abstract!Next]_(Abstract!vars)
      BY <1>13, <1>5, <1>6, <1>7, <1>8, <1>10 DEF Progress
  <1> QED
      BY <1>2, <1>3, <1>4, <1>9, <1>11, <1>12, <1>13, StepCases

\* With crashes as the only fault, send implements SendOnce: one sender at a
\* time, one verdict per message, and nothing else an outsider could see.
THEOREM SendImplementsSendOnce ==
    ASSUME CrashOnly
    PROVE  Spec => ImplementsSendOnce
  <1>1. Init => ExclusionInv
      BY TypeInit DEF Init, ExclusionInv, OneSender, SenderOwnsClaim, Holding
  <1>2. Init => VerdictInv
      BY <1>1 DEF Init, VerdictInv, OneVerdict, Undecided, StillOpen
  <1>3. Init => Abstract!Init
    <2> SUFFICES ASSUME Init PROVE Abstract!Init
        OBVIOUS
    <2>1. \A w \in Workers, k \in Keys : ~Holds(w, k)
        BY DEF Init, Holds, Holding
    <2>2. OneSender
        BY DEF Init, OneSender, Holding
    <2>3. senderBar = [k \in Keys |-> None]
        BY <2>1, <2>2, SenderIsHolder DEF senderBar
    <2>4. verdictBar = [k \in Keys |-> "open"]
        BY DEF Init, verdictBar
    <2> QED
        BY <2>3, <2>4 DEF Abstract!Init
  <1>4. VerdictInv /\ [Next]_vars => VerdictInv'
      BY VerdictStep
  <1>5. VerdictInv /\ VerdictInv' /\ [Next]_vars => [Abstract!Next]_(Abstract!vars)
      BY StepSimulation
  <1> QED
      BY <1>2, <1>3, <1>4, <1>5, PTL DEF Spec, ImplementsSendOnce, Abstract!Spec
=============================================================================
