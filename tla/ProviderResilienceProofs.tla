---------------------- MODULE ProviderResilienceProofs ----------------------
(***************************************************************************)
(* Theorems about the circuit breaker, the rate limiter and the            *)
(* performance monitor, for any number of callers, any thresholds,         *)
(* cooldown and rate limit, with or without monitoring.                    *)
(***************************************************************************)
EXTENDS ProviderResilience, TLAPS, FiniteSetTheorems, WellFoundedInduction

CircuitOK ==
    /\ circuit \in [state : {"CLOSED", "OPEN", "HALF_OPEN"}, failures : Nat, age : Nat,
                    probe : BOOLEAN]
    /\ call \in [Callers -> [busy : BOOLEAN, age : Nat, probe : BOOLEAN]]
    /\ straggler \in BOOLEAN

\* Until a late answer came, a probe in flight means a HALF_OPEN circuit.
ProbeIsAlone ==
    ~straggler =>
        /\ Probing /= {} => circuit.state = "HALF_OPEN"
        /\ \A c, d \in Probing : c = d

BreakerInv ==
    /\ CircuitOK
    /\ circuit.probe => circuit.state = "HALF_OPEN" /\ Probing /= {}
    /\ circuit.state = "HALF_OPEN" => circuit.probe
    /\ circuit.state = "CLOSED" => circuit.failures < FailureThreshold
    /\ ProbeIsAlone

LEMMA CircuitParts ==
    ASSUME CircuitOK
    PROVE  /\ circuit.state \in {"CLOSED", "OPEN", "HALF_OPEN"}
           /\ circuit.failures \in Nat /\ circuit.age \in Nat /\ circuit.probe \in BOOLEAN
  BY DEF CircuitOK

LEMMA InitBreaker == Init => BreakerInv
  <1> SUFFICES ASSUME Init PROVE BreakerInv
      OBVIOUS
  <1>1. CircuitOK /\ Probing = {}
      BY DEF Init, CircuitOK, NewRecord, Idle, Probing, InFlight
  <1> QED
      BY <1>1, ResilienceAssumption DEF Init, BreakerInv, ProbeIsAlone, NewRecord

\* The record after an answer: no probe, and OPEN or CLOSED.
LEMMA Answered ==
    ASSUME BreakerInv, NEW record, record \in {Failed, Succeeded, Opened(Failed), Opened(Succeeded)}
    PROVE  /\ record \in [state : {"CLOSED", "OPEN"}, failures : Nat, age : Nat, probe : {FALSE}]
           /\ record.state = "CLOSED" => record.failures < FailureThreshold
  <1>1. CircuitOK /\ FailureThreshold \in Nat \ {0} /\ Cooldown \in Nat
      BY ResilienceAssumption DEF BreakerInv
  <1> DEFINE counted == [circuit EXCEPT !.probe = FALSE,
                                        !.failures = AtMost(@ + 1, FailureThreshold)]
  <1>2. /\ counted \in [state : {"CLOSED", "OPEN", "HALF_OPEN"}, failures : Nat, age : Nat,
                        probe : {FALSE}]
        /\ counted.state = circuit.state
    <2>1. AtMost(circuit.failures + 1, FailureThreshold) \in Nat
        BY <1>1, CircuitParts DEF AtMost
    <2> QED
        BY <1>1, <2>1 DEF CircuitOK
  <1>3. Failed = IF circuit.state = "HALF_OPEN" \/ counted.failures >= FailureThreshold
                 THEN [counted EXCEPT !.state = "OPEN", !.age = 0]
                 ELSE counted
      BY DEF Failed
  <1> HIDE DEF counted
  <1>4. /\ Failed \in [state : {"CLOSED", "OPEN"}, failures : Nat, age : Nat, probe : {FALSE}]
        /\ Failed.state = "CLOSED" => Failed.failures < FailureThreshold
    <2>1. CASE circuit.state = "HALF_OPEN" \/ counted.failures >= FailureThreshold
        BY <1>2, <1>3, <2>1
    <2>2. CASE ~(circuit.state = "HALF_OPEN" \/ counted.failures >= FailureThreshold)
      <3>1. Failed = counted /\ counted.failures \in Nat
          BY <1>2, <1>3, <2>2
      <3>2. counted.failures < FailureThreshold
          BY <1>1, <2>2, <3>1
      <3> QED
          BY <1>2, <2>2, <3>1, <3>2
    <2> QED
        BY <2>1, <2>2
  <1>5. /\ Succeeded \in [state : {"CLOSED", "OPEN"}, failures : Nat, age : Nat, probe : {FALSE}]
        /\ Succeeded.failures < FailureThreshold
      BY <1>1 DEF Succeeded, NewRecord
  <1>6. /\ Opened(Failed) \in [state : {"CLOSED", "OPEN"}, failures : Nat, age : Nat, probe : {FALSE}]
        /\ Opened(Failed).state = "OPEN"
      BY <1>4 DEF Opened
  <1>7. /\ Opened(Succeeded) \in [state : {"CLOSED", "OPEN"}, failures : Nat, age : Nat, probe : {FALSE}]
        /\ Opened(Succeeded).state = "OPEN"
      BY <1>5 DEF Opened
  <1> QED
      BY <1>4, <1>5, <1>6, <1>7

\* A rejected call finds the circuit OPEN, or its probe already taken.
LEMMA RejectedStep ==
    ASSUME BreakerInv, NEW c \in Callers, SendRejected(c)
    PROVE  BreakerInv'
  <1>1. CircuitOK
      BY DEF BreakerInv
  <1>2. circuit' = circuit
    <2>1. CASE HalfOpen
        BY <1>1, <2>1 DEF SendRejected, CircuitAllows, Acquired, HalfOpen, Cooled, BreakerInv, CircuitOK
    <2>2. CASE ~HalfOpen
        BY <2>2 DEF SendRejected, Acquired
    <2> QED
        BY <2>1, <2>2
  <1> QED
      BY <1>2 DEF SendRejected, BreakerInv, CircuitOK, ProbeIsAlone, Probing, InFlight

LEMMA AdmittedStep ==
    ASSUME BreakerInv, NEW c \in Callers, SendAdmitted(c)
    PROVE  BreakerInv'
  <1>1. CircuitOK /\ ~call[c].busy /\ c \notin Probing
      BY DEF BreakerInv, SendAdmitted, InFlight, Probing
  <1>2. /\ call' \in [Callers -> [busy : BOOLEAN, age : Nat, probe : BOOLEAN]]
        /\ call'[c].busy /\ call'[c].probe = HalfOpen
        /\ \A d \in Callers \ {c} : call'[d] = call[d]
      BY <1>1 DEF SendAdmitted, CircuitOK, HalfOpen, Cooled
  <1>3. CASE HalfOpen
    <2>1. ~circuit.probe /\ circuit.state = "OPEN"
        BY <1>1, <1>3 DEF SendAdmitted, CircuitAllows, HalfOpen, Cooled, BreakerInv
    <2>2. /\ circuit' \in [state : {"CLOSED", "OPEN", "HALF_OPEN"}, failures : Nat, age : Nat,
                           probe : BOOLEAN]
          /\ circuit'.state = "HALF_OPEN" /\ circuit'.probe
        BY <1>1, <1>3 DEF SendAdmitted, Acquired, CircuitOK
    <2>3. Probing' = Probing \cup {c}
        BY <1>2, <1>3 DEF Probing, InFlight
    <2>4. ~straggler => Probing = {}
        BY <2>1 DEF BreakerInv, ProbeIsAlone
    <2> QED
        BY <1>1, <1>2, <2>2, <2>3, <2>4 DEF SendAdmitted, BreakerInv, CircuitOK, ProbeIsAlone
  <1>4. CASE ~HalfOpen
    <2>1. circuit' = circuit
        BY <1>4 DEF SendAdmitted, Acquired
    <2>2. Probing' = Probing
        BY <1>1, <1>2, <1>4 DEF Probing, InFlight
    <2> QED
        BY <1>1, <1>2, <2>1, <2>2 DEF SendAdmitted, BreakerInv, CircuitOK, ProbeIsAlone
  <1> QED
      BY <1>3, <1>4

\* Any answer ends the probing; one that is late is remembered as such.
LEMMA AnswerStep ==
    ASSUME BreakerInv, NEW c \in Callers, NEW failed \in BOOLEAN, Answer(c, failed)
    PROVE  BreakerInv'
  <1>1. CircuitOK
      BY DEF BreakerInv
  <1>2. circuit' \in {Failed, Succeeded, Opened(Failed), Opened(Succeeded)}
      BY DEF Answer, RecordPerformance
  <1>3. /\ circuit' \in [state : {"CLOSED", "OPEN"}, failures : Nat, age : Nat, probe : {FALSE}]
        /\ circuit'.state = "CLOSED" => circuit'.failures < FailureThreshold
      BY <1>2, Answered
  <1>4. /\ call' = [call EXCEPT ![c] = Idle]
        /\ straggler' = (straggler \/ (~call[c].probe /\ circuit.state # "CLOSED"))
        /\ call[c].busy
      BY DEF Answer, RecordPerformance, InFlight
  <1>5. Probing' = Probing \ {c}
      BY <1>1, <1>4 DEF Probing, InFlight, CircuitOK, Idle
  <1>6. CircuitOK'
      BY <1>1, <1>3, <1>4 DEF CircuitOK, Idle
  <1>7. ProbeIsAlone'
    <2> SUFFICES ASSUME ~straggler'
                 PROVE  Probing' = {}
        BY DEF ProbeIsAlone
    <2>1. ~straggler /\ (call[c].probe \/ circuit.state = "CLOSED")
        BY <1>1, <1>4 DEF CircuitOK
    <2>2. CASE call[c].probe
        BY <1>4, <1>5, <2>1, <2>2 DEF BreakerInv, ProbeIsAlone, Probing, InFlight
    <2>3. CASE circuit.state = "CLOSED"
        BY <1>5, <2>1, <2>3 DEF BreakerInv, ProbeIsAlone
    <2> QED
        BY <2>1, <2>2, <2>3
  <1> QED
      BY <1>3, <1>6, <1>7 DEF BreakerInv

LEMMA TickStep ==
    ASSUME BreakerInv, Tick
    PROVE  BreakerInv'
  <1>1. CircuitOK /\ Cooldown \in Nat
      BY ResilienceAssumption DEF BreakerInv
  <1>2. /\ circuit' \in [state : {"CLOSED", "OPEN", "HALF_OPEN"}, failures : Nat, age : Nat,
                         probe : BOOLEAN]
        /\ circuit'.state = circuit.state /\ circuit'.probe = circuit.probe
        /\ circuit'.failures = circuit.failures
      BY <1>1 DEF Tick, CircuitOK, AtMost
  <1>3. ASSUME NEW c \in Callers
        PROVE  /\ call'[c] \in [busy : BOOLEAN, age : Nat, probe : BOOLEAN]
               /\ call'[c].busy = call[c].busy
               /\ call[c].busy => call'[c].probe = call[c].probe
    <2>1. call[c] \in [busy : BOOLEAN, age : Nat, probe : BOOLEAN]
        BY <1>1 DEF CircuitOK
    <2>2. CASE call[c].busy
      <3>1. call'[c] = [call[c] EXCEPT !.age = @ + 1]
          BY <2>2 DEF Tick, InFlight, Older
      <3> QED
          BY <2>1, <3>1
    <2>3. CASE ~call[c].busy
      <3>1. call'[c] = Idle
          BY <2>3 DEF Tick, InFlight
      <3>2. Idle \in [busy : BOOLEAN, age : Nat, probe : BOOLEAN] /\ Idle.busy = FALSE
          BY DEF Idle
      <3>3. call[c].busy = FALSE
          BY <2>1, <2>3
      <3> QED
          BY <2>3, <3>1, <3>2, <3>3
    <2> QED
        BY <2>2, <2>3
  <1>4. call' \in [Callers -> [busy : BOOLEAN, age : Nat, probe : BOOLEAN]]
      BY <1>3 DEF Tick
  <1>5. Probing' = Probing
      BY <1>3 DEF Probing, InFlight
  <1> QED
      BY <1>1, <1>2, <1>4, <1>5 DEF Tick, BreakerInv, CircuitOK, ProbeIsAlone

LEMMA BreakerStep == BreakerInv /\ [Next]_vars => BreakerInv'
  <1> SUFFICES ASSUME BreakerInv, [Next]_vars
               PROVE  BreakerInv'
      OBVIOUS
  <1>1. CASE UNCHANGED vars
      BY <1>1 DEF vars, BreakerInv, CircuitOK, ProbeIsAlone, Probing, InFlight
  <1>2. CASE Next
      BY <1>2, RejectedStep, AdmittedStep, AnswerStep, TickStep DEF Next, Send, Answers
  <1> QED
      BY <1>1, <1>2

\* The breaker is never stuck behind a probe that is gone, never HALF_OPEN
\* without one, has one probe at a time until a late answer came, and is not
\* closed with a full count of failures, in any order of calls, answers and
\* rejections (ProviderCircuitBreaker, ResilientDeliveryProvider.send).
THEOREM BreakerIsSound == Spec => []ProbeDiscipline
  <1>1. BreakerInv => ProbeDiscipline
    <2> SUFFICES ASSUME BreakerInv
                 PROVE  ~straggler => Cardinality(Probing) <= 1
        BY DEF BreakerInv, ProbeDiscipline
    <2> SUFFICES ASSUME ~straggler
                 PROVE  Cardinality(Probing) <= 1
        OBVIOUS
    <2>1. \A c, d \in Probing : c = d
        BY DEF BreakerInv, ProbeIsAlone
    <2>2. CASE Probing = {}
        BY <2>2, FS_EmptySet
    <2>3. CASE Probing /= {}
      <3>1. PICK c : c \in Probing
          BY <2>3
      <3>2. Probing = {c}
          BY <2>1, <3>1
      <3>3. Cardinality({c}) = 1
          BY FS_Singleton
      <3> QED
          BY <3>2, <3>3
    <2> QED
        BY <2>2, <2>3
  <1> QED
      BY <1>1, InitBreaker, BreakerStep, PTL DEF Spec

-----------------------------------------------------------------------------
(* The type invariant.                                                     *)

Samples == [age : 0..PerfWindow - 1, failed : BOOLEAN, ms : 0..MaxLatency]
AgedSamples == [age : Nat, failed : BOOLEAN, ms : 0..MaxLatency]

LEMMA LeastNumber ==
    ASSUME NEW T \in SUBSET Nat, T /= {}
    PROVE  \E m \in T : \A n \in T : m <= n
  <1>1. PICK x \in T : \A y \in T : ~ (<<y, x>> \in OpToRel(<, Nat))
      BY WFMin, NatLessThanWellFounded
  <1>2. \A y \in T : ~ (y < x)
      BY <1>1 DEF OpToRel
  <1> QED
      BY <1>2

\* The function by which Retained is defined, up to a place in the sequence.
RetainedUpTo(s, n, retained) ==
    retained = [i \in 0..n |->
                IF i = 0 THEN <<>>
                ELSE IF s[i].age < PerfWindow THEN Append(retained[i - 1], s[i])
                ELSE retained[i - 1]]

LEMMA RetainedExists ==
    ASSUME NEW s \in Seq(AgedSamples), NEW n \in 0..Len(s)
    PROVE  \E retained : RetainedUpTo(s, n, retained)
  <1> DEFINE Bad == {m \in 0..Len(s) : ~ \E retained : RetainedUpTo(s, m, retained)}
  <1> SUFFICES ASSUME Bad /= {} PROVE FALSE
      OBVIOUS
  <1>1. Bad \in SUBSET Nat /\ Len(s) \in Nat
      OBVIOUS
  <1>2. PICK m \in Bad : \A k \in Bad : m <= k
      BY <1>1, LeastNumber
  <1>3. m \in 0..Len(s) /\ ~ \E retained : RetainedUpTo(s, m, retained)
      BY <1>2
  <1>4. CASE m = 0
    <2>1. RetainedUpTo(s, 0, [i \in 0..0 |-> <<>>])
        BY DEF RetainedUpTo
    <2> QED
        BY <1>3, <1>4, <2>1
  <1>5. CASE m /= 0
    <2>1. m - 1 \in 0..Len(s) /\ m - 1 \notin Bad
      <3>1. m - 1 \in 0..Len(s) /\ ~(m <= m - 1)
          BY <1>1, <1>3, <1>5
      <3> HIDE DEF Bad
      <3> QED
          BY <1>2, <3>1
    <2>2. PICK f : RetainedUpTo(s, m - 1, f)
        BY <2>1
    <2>3. m \in Nat \ {0}
        BY <1>1, <1>3, <1>5
    <2>4. PICK last : last = IF s[m].age < PerfWindow THEN Append(f[m - 1], s[m]) ELSE f[m - 1]
        OBVIOUS
    <2>5. PICK g : g = [i \in 0..m |-> IF i = m THEN last ELSE f[i]]
        OBVIOUS
    <2>6. \A i \in 0..m - 1 : g[i] = f[i] /\ i \in 0..m
        BY <2>3, <2>5
    <2>7. \A i \in 0..m - 1 : f[i] = IF i = 0 THEN <<>>
                ELSE IF s[i].age < PerfWindow THEN Append(f[i - 1], s[i]) ELSE f[i - 1]
        BY <2>2, <2>3 DEF RetainedUpTo
    <2>8. ASSUME NEW i \in 0..m
          PROVE  g[i] = IF i = 0 THEN <<>>
                ELSE IF s[i].age < PerfWindow THEN Append(g[i - 1], s[i]) ELSE g[i - 1]
      <3>1. CASE i = m
        <4>1. g[i] = last /\ i /= 0 /\ m - 1 \in 0..m - 1 /\ g[m - 1] = f[m - 1]
            BY <2>3, <2>5, <2>6, <3>1
        <4> QED
            BY <2>4, <3>1, <4>1
      <3>2. CASE i = 0
          BY <2>3, <2>6, <2>7, <3>2
      <3>3. CASE i \in 1..m - 1
        <4>1. i \in 0..m - 1 /\ i - 1 \in 0..m - 1 /\ i /= 0
            BY <2>3, <3>3
        <4> QED
            BY <2>6, <2>7, <4>1
      <3> QED
          BY <2>3, <3>1, <3>2, <3>3
    <2>9. RetainedUpTo(s, m, g)
        BY <2>5, <2>8 DEF RetainedUpTo
    <2> QED
        BY <1>3, <2>9
  <1> QED
      BY <1>4, <1>5

\* What is retained of samples is inside the rolling window.
LEMMA RetainedSamples ==
    ASSUME NEW s \in Seq(AgedSamples)
    PROVE  Retained(s) \in Seq(Samples)
  <1>1. Len(s) \in Nat /\ DOMAIN s = 1..Len(s) /\ PerfWindow \in Nat \ {0}
      BY ResilienceAssumption
  <1>2. PICK retained : retained = CHOOSE f : RetainedUpTo(s, Len(s), f)
      OBVIOUS
  <1>3. RetainedUpTo(s, Len(s), retained)
    <2>1. Len(s) \in 0..Len(s)
        BY <1>1
    <2>2. \E f : RetainedUpTo(s, Len(s), f)
        BY <2>1, RetainedExists
    <2> QED
        BY <1>2, <2>2
  <1>4. Retained(s) = retained[Len(s)]
      BY <1>2 DEF Retained, RetainedUpTo
  <1>5. \A i \in 0..Len(s) : retained[i] = IF i = 0 THEN <<>>
            ELSE IF s[i].age < PerfWindow THEN Append(retained[i - 1], s[i]) ELSE retained[i - 1]
      BY <1>3 DEF RetainedUpTo
  <1> DEFINE Bad == {i \in 0..Len(s) : retained[i] \notin Seq(Samples)}
  <1>6. retained[0] \in Seq(Samples)
    <2>1. retained[0] = <<>>
        BY <1>1, <1>5
    <2> QED
        BY <2>1
  <1>7. ASSUME NEW i \in 1..Len(s), retained[i - 1] \in Seq(Samples)
        PROVE  retained[i] \in Seq(Samples)
    <2>1. i \in 0..Len(s) /\ i /= 0 /\ s[i] \in AgedSamples
        BY <1>1
    <2>2. s[i].age < PerfWindow => s[i] \in Samples
        BY <1>1, <2>1 DEF AgedSamples, Samples
    <2>3. retained[i] = IF s[i].age < PerfWindow THEN Append(retained[i - 1], s[i])
                        ELSE retained[i - 1]
        BY <1>5, <2>1
    <2> QED
        BY <1>7, <2>2, <2>3
  <1>8. \A i \in 0..Len(s) : retained[i] \in Seq(Samples)
    <2> SUFFICES ASSUME Bad /= {} PROVE FALSE
        OBVIOUS
    <2>1. Bad \in SUBSET Nat
        OBVIOUS
    <2>2. PICK m \in Bad : \A k \in Bad : m <= k
        BY <2>1, LeastNumber
    <2>3. m \in 0..Len(s) /\ retained[m] \notin Seq(Samples)
        BY <2>2
    <2>4. m /= 0
        BY <2>3, <1>6
    <2>5. m \in 1..Len(s) /\ m - 1 \in 0..Len(s) /\ ~(m <= m - 1)
        BY <1>1, <2>3, <2>4
    <2>6. retained[m - 1] \in Seq(Samples)
        BY <2>2, <2>5
    <2> QED
        BY <1>7, <2>3, <2>5, <2>6
  <1> QED
      BY <1>1, <1>4, <1>8

\* The parts of the type invariant.
Windows == [age : 0..RateWindow, requests : 0..MaxRequests]
Circuits == [state : {"CLOSED", "OPEN", "HALF_OPEN"}, failures : 0..FailureThreshold,
             age : 0..Cooldown, probe : BOOLEAN]
InCalls == [busy : BOOLEAN, age : 0..MaxLatency, probe : BOOLEAN]

LEMMA TypeParts ==
    TypeOK <=> /\ window \in Windows /\ circuit \in Circuits /\ samples \in Seq(Samples)
               /\ call \in [Callers -> InCalls] /\ straggler \in BOOLEAN
  BY DEF TypeOK, Windows, Circuits, Samples, InCalls

LEMMA InitType == Init => TypeOK
  <1> SUFFICES ASSUME Init PROVE TypeOK
      OBVIOUS
  <1>1. window \in Windows /\ circuit \in Circuits
      BY ResilienceAssumption DEF Init, NewRecord, Windows, Circuits
  <1>2. samples \in Seq(Samples) /\ straggler \in BOOLEAN
    <2>1. samples = <<>> /\ straggler = FALSE
        BY DEF Init
    <2>2. <<>> \in Seq(Samples)
        OBVIOUS
    <2> QED
        BY <2>1, <2>2
  <1>3. call \in [Callers -> InCalls]
      BY ResilienceAssumption DEF Init, Idle, InCalls
  <1> QED
      BY <1>1, <1>2, <1>3, TypeParts

\* A call the limiter lets through fits into its window.
LEMMA TakenFits == TypeOK /\ RateAllows => RateTaken \in Windows
  <1> SUFFICES ASSUME TypeOK, RateAllows PROVE RateTaken \in Windows
      OBVIOUS
  <1>1. window \in Windows /\ RateWindow \in Nat /\ MaxRequests \in Nat
      BY TypeParts, ResilienceAssumption
  <1>2. Current \in Windows
      BY <1>1 DEF Current, Windows
  <1> QED
      BY <1>1, <1>2 DEF RateAllows, RateTaken, Windows

LEMMA RecordsFit ==
    ASSUME TypeOK
    PROVE  {Acquired, Failed, Succeeded, Opened(Failed), Opened(Succeeded)} \subseteq Circuits
  <1>1. /\ circuit \in Circuits /\ FailureThreshold \in Nat \ {0} /\ Cooldown \in Nat
        /\ circuit.failures \in 0..FailureThreshold /\ 0 \in 0..Cooldown
      BY TypeParts, ResilienceAssumption DEF Circuits
  <1>2. AtMost(circuit.failures + 1, FailureThreshold) \in 0..FailureThreshold
      BY <1>1 DEF AtMost
  <1>3. Acquired \in Circuits
      BY <1>1 DEF Acquired, Circuits
  <1>4. Failed \in Circuits
    <2> DEFINE counted == [circuit EXCEPT !.probe = FALSE,
                                          !.failures = AtMost(@ + 1, FailureThreshold)]
    <2>1. counted \in Circuits
        BY <1>1, <1>2 DEF Circuits
    <2>2. Failed = IF circuit.state = "HALF_OPEN" \/ counted.failures >= FailureThreshold
                   THEN [counted EXCEPT !.state = "OPEN", !.age = 0]
                   ELSE counted
        BY DEF Failed
    <2> HIDE DEF counted
    <2>3. [counted EXCEPT !.state = "OPEN", !.age = 0] \in Circuits
        BY <1>1, <2>1 DEF Circuits
    <2> QED
        BY <2>1, <2>2, <2>3
  <1>5. Succeeded \in Circuits
      BY <1>1 DEF Succeeded, NewRecord, Circuits
  <1>6. \A record \in Circuits : Opened(record) \in Circuits
      BY <1>1 DEF Opened, Circuits
  <1> QED
      BY <1>3, <1>4, <1>5, <1>6

LEMMA SendTypes ==
    ASSUME TypeOK, NEW c \in Callers, Send(c)
    PROVE  TypeOK'
  <1>1. window' \in Windows /\ circuit' \in Circuits /\ UNCHANGED <<samples, straggler>>
      BY TakenFits, RecordsFit DEF Send, SendRejected, SendAdmitted
  <1>2. call' \in [Callers -> InCalls]
    <2>1. call \in [Callers -> InCalls] /\ 0 \in 0..MaxLatency
        BY TypeParts, ResilienceAssumption
    <2>2. HalfOpen \in BOOLEAN
        BY DEF HalfOpen, Cooled
    <2>3. [busy |-> TRUE, age |-> 0, probe |-> HalfOpen] \in InCalls
        BY <2>1, <2>2 DEF InCalls
    <2> QED
        BY <2>1, <2>3 DEF Send, SendRejected, SendAdmitted
  <1> QED
      BY <1>1, <1>2, TypeParts DEF Windows, Circuits, Samples, InCalls, TypeOK

LEMMA AnswerTypes ==
    ASSUME TypeOK, NEW c \in Callers, NEW failed \in BOOLEAN, Answer(c, failed)
    PROVE  TypeOK'
  <1>1. /\ window' = window /\ circuit' \in {Failed, Succeeded, Opened(Failed), Opened(Succeeded)}
        /\ samples' = Sampled(failed, call[c].age)
        /\ call' = [call EXCEPT ![c] = Idle] /\ straggler' \in BOOLEAN
      BY DEF Answer, RecordPerformance
  <1>2. call \in [Callers -> InCalls] /\ samples \in Seq(Samples) /\ PerfWindow \in Nat \ {0}
        /\ 0 \in 0..MaxLatency
      BY TypeParts, ResilienceAssumption
  <1>3. circuit' \in Circuits
      BY <1>1, RecordsFit
  <1>4. samples' \in Seq(Samples)
    <2>1. [age |-> 0, failed |-> failed, ms |-> call[c].age] \in Samples
        BY <1>2 DEF InCalls, Samples
    <2> QED
        BY <1>1, <1>2, <2>1 DEF Sampled
  <1>5. call' \in [Callers -> InCalls]
      BY <1>1, <1>2 DEF Idle, InCalls
  <1> QED
      BY <1>1, <1>3, <1>4, <1>5, TypeParts DEF Windows, Circuits, Samples, InCalls, TypeOK

LEMMA TickTypes ==
    ASSUME TypeOK, Tick
    PROVE  TypeOK'
  <1>1. /\ window \in Windows /\ circuit \in Circuits /\ samples \in Seq(Samples)
        /\ call \in [Callers -> InCalls] /\ straggler' = straggler
        /\ {RateWindow, Cooldown, PerfWindow, MaxLatency} \subseteq Nat \ {0}
      BY TypeParts, ResilienceAssumption DEF Tick
  <1>2. window' \in Windows
    <2>1. window.age \in 0..RateWindow
        BY <1>1 DEF Windows
    <2>2. AtMost(window.age + 1, RateWindow) \in 0..RateWindow
        BY <1>1, <2>1 DEF AtMost
    <2> QED
        BY <1>1, <2>2 DEF Tick, Windows
  <1>3. circuit' \in Circuits
    <2>1. circuit.age \in 0..Cooldown
        BY <1>1 DEF Circuits
    <2>2. AtMost(circuit.age + 1, Cooldown) \in 0..Cooldown
        BY <1>1, <2>1 DEF AtMost
    <2> QED
        BY <1>1, <2>1, <2>2 DEF Tick, Circuits
  <1>4. samples' \in Seq(Samples)
    <2>1. PICK aged : aged = [i \in DOMAIN samples |-> Older(samples[i])]
        OBVIOUS
    <2>2. Len(samples) \in Nat /\ DOMAIN samples = 1..Len(samples)
        BY <1>1
    <2>3. ASSUME NEW sample \in Samples PROVE Older(sample) \in AgedSamples
      <3>1. sample.age \in 0..PerfWindow - 1
          BY DEF Samples
      <3>2. sample.age + 1 \in Nat
          BY <1>1, <3>1
      <3> QED
          BY <3>2 DEF Samples, AgedSamples, Older
    <2>4. \A i \in 1..Len(samples) : aged[i] \in AgedSamples
        BY <1>1, <2>1, <2>2, <2>3
    <2>5. aged \in Seq(AgedSamples)
        BY <2>1, <2>2, <2>4
    <2> QED
        BY <2>1, <2>5, RetainedSamples DEF Tick
  <1>5. call' \in [Callers -> InCalls]
    <2>1. ASSUME NEW c \in Callers
          PROVE  (IF InFlight(c) THEN Older(call[c]) ELSE Idle) \in InCalls
      <3>1. call[c] \in InCalls
          BY <1>1
      <3>2. CASE call[c].busy
        <4>1. call[c].age < MaxLatency
            BY <3>2 DEF Tick, InFlight
        <4>2. call[c].age + 1 \in 0..MaxLatency
            BY <1>1, <3>1, <4>1 DEF InCalls
        <4>3. Older(call[c]) \in InCalls
            BY <3>1, <4>2 DEF Older, InCalls
        <4> QED
            BY <3>2, <4>3 DEF InFlight
      <3>3. CASE ~call[c].busy
          BY <1>1, <3>3 DEF InFlight, Idle, InCalls
      <3> QED
          BY <3>2, <3>3
    <2> QED
        BY <2>1 DEF Tick
  <1> QED
      BY <1>1, <1>2, <1>3, <1>4, <1>5, TypeParts DEF Windows, Circuits, Samples, InCalls, TypeOK

\* No window of the rate limiter lets through more than its requests, a count
\* of failures stops at the threshold, a sample is inside the rolling window
\* (FixedWindowProviderRateLimiter, ProviderPerformanceThresholdMonitor).
THEOREM TypeCorrect == Spec => []TypeOK
  <1>1. ASSUME TypeOK, [Next]_vars PROVE TypeOK'
    <2>1. CASE \E c \in Callers : Send(c)
        BY <1>1, <2>1, SendTypes
    <2>2. CASE \E c \in Callers : Answers(c)
        BY <1>1, <2>2, AnswerTypes DEF Answers
    <2>3. CASE Tick
        BY <1>1, <2>3, TickTypes
    <2>4. CASE UNCHANGED vars
        BY <1>1, <2>4 DEF vars, TypeOK
    <2> QED
        BY <1>1, <2>1, <2>2, <2>3, <2>4 DEF Next
  <1> QED
      BY <1>1, InitType, PTL DEF Spec
=============================================================================
