------------------------- MODULE ProviderResilience -------------------------
(***************************************************************************)
(* src/providers/provider-resilience.ts: ResilientDeliveryProvider.send    *)
(* for one provider, called concurrently in one process.  The code up to   *)
(* the await of provider.send is one step, the code after it another.      *)
(* Providers do not share any record, so one stands for all.               *)
(*                                                                         *)
(* Clock readings are only ever subtracted, so each record keeps the ticks *)
(* passed since its timestamp, counted up to the length that matters.      *)
(***************************************************************************)
EXTENDS Naturals, Sequences, SequencesExt, FiniteSets

CONSTANTS
    Callers,            \* concurrent calls of send
    MaxRequests,        \* ProviderRateLimitPolicy.maxRequests
    RateWindow,         \* ProviderRateLimitPolicy.windowMs
    FailureThreshold,   \* CircuitBreakerPolicy.failureThreshold
    Cooldown,           \* CircuitBreakerPolicy.cooldownMs
    Monitored,          \* whether the provider has a performance policy
    MinSamples,         \* its minimumSamples
    FailurePercent,     \* its failureRateThreshold, in percent
    SlowTicks,          \* its averageResponseTimeThresholdMs
    PerfWindow,         \* its windowMs
    MaxLatency          \* bound: the longest a provider's client waits

ASSUME ResilienceAssumption ==
    /\ {MaxRequests, RateWindow, FailureThreshold, Cooldown} \subseteq Nat \ {0}
    /\ {MinSamples, SlowTicks, PerfWindow, MaxLatency} \subseteq Nat \ {0}
    /\ FailurePercent \in 1..100
    /\ Monitored \in BOOLEAN

VARIABLES
    window,     \* the rate limiter's window: its age and requests
    circuit,    \* the circuit breaker's record
    samples,    \* the performance monitor's samples, oldest first
    call,       \* per caller: its provider call in flight, or Idle
    straggler   \* history: a call that is no probe was answered while the
                \* circuit was not CLOSED

vars == <<window, circuit, samples, call, straggler>>

Idle == [busy |-> FALSE, age |-> 0, probe |-> FALSE]
InFlight(c) == call[c].busy
Probing == {c \in Callers : InFlight(c) /\ call[c].probe}

AtMost(n, bound) == IF n < bound THEN n ELSE bound

TypeOK ==
    /\ window \in [age : 0..RateWindow, requests : 0..MaxRequests]
    /\ circuit \in [state : {"CLOSED", "OPEN", "HALF_OPEN"},
                    failures : 0..FailureThreshold,
                    age : 0..Cooldown, probe : BOOLEAN]
    /\ samples \in Seq([age : 0..PerfWindow - 1, failed : BOOLEAN, ms : 0..MaxLatency])
    /\ call \in [Callers -> [busy : BOOLEAN, age : 0..MaxLatency, probe : BOOLEAN]]
    /\ straggler \in BOOLEAN

\* recordFor creates the record closed; no window is one that is over.
NewRecord == [state |-> "CLOSED", failures |-> 0, age |-> 0, probe |-> FALSE]

Init ==
    /\ window = [age |-> RateWindow, requests |-> 0]
    /\ circuit = NewRecord
    /\ samples = <<>>
    /\ call = [c \in Callers |-> Idle]
    /\ straggler = FALSE

-----------------------------------------------------------------------------
(* FixedWindowProviderRateLimiter.tryAcquire *)

\* A window that is over is replaced by one that starts now.
Current == IF window.age >= RateWindow THEN [age |-> 0, requests |-> 0] ELSE window

\* Mutant of RateAllows: off by one.
RateAllowsOneMore == Current.requests <= MaxRequests

RateAllows == Current.requests < MaxRequests
RateTaken == [Current EXCEPT !.requests = @ + 1]

-----------------------------------------------------------------------------
(* ProviderCircuitBreaker *)

\* An OPEN circuit whose cooldown has passed is treated as HALF_OPEN.
Cooled == circuit.state = "OPEN" /\ circuit.age >= Cooldown

HalfOpen == circuit.state = "HALF_OPEN" \/ Cooled

CircuitAllows ==
    \/ circuit.state = "CLOSED"
    \/ Cooled /\ ~circuit.probe
    \/ circuit.state = "HALF_OPEN" /\ ~circuit.probe

\* The record after tryAcquire, whether it allowed the call or not.
Acquired ==
    IF HalfOpen THEN [circuit EXCEPT !.state = "HALF_OPEN", !.probe = TRUE] ELSE circuit

\* Mutant of Failed: a failed probe is not taken off the record.
FailedKeepsProbe ==
    LET counted == [circuit EXCEPT !.failures = AtMost(@ + 1, FailureThreshold)]
    IN  IF circuit.state = "HALF_OPEN" \/ counted.failures >= FailureThreshold
        THEN [counted EXCEPT !.state = "OPEN", !.age = 0]
        ELSE counted

\* The record after recordFailure.
Failed ==
    LET counted == [circuit EXCEPT !.probe = FALSE,
                                   !.failures = AtMost(@ + 1, FailureThreshold)]
    IN  IF circuit.state = "HALF_OPEN" \/ counted.failures >= FailureThreshold
        THEN [counted EXCEPT !.state = "OPEN", !.age = 0]
        ELSE counted

\* The record after recordSuccess.
Succeeded == NewRecord

\* The record after open.
Opened(record) == [record EXCEPT !.state = "OPEN", !.age = 0, !.probe = FALSE]

-----------------------------------------------------------------------------
(* ProviderPerformanceThresholdMonitor.record *)

\* thresholdExceeded of the assessment over the given samples.
Exceeded(s) ==
    LET failures == Len(SelectSeq(s, LAMBDA sample : sample.failed))
        response == FoldLeft(LAMBDA total, sample : total + sample.ms, 0, s)
    IN  /\ Len(s) >= MinSamples
        /\ \/ failures * 100 >= FailurePercent * Len(s)
           \/ response >= SlowTicks * Len(s)

Sampled(failed, ms) ==
    IF Monitored THEN Append(samples, [age |-> 0, failed |-> failed, ms |-> ms]) ELSE <<>>

\* The circuit record after recordPerformance: an assessment over the threshold
\* opens the circuit, whatever the answer itself had made of it.
RecordPerformance(record, taken) ==
    IF Monitored /\ Exceeded(taken) THEN Opened(record) ELSE record

-----------------------------------------------------------------------------
(* ResilientDeliveryProvider.send; a rate-limited call changes nothing *)

\* Mutant of SendRejected: a rejected call is recorded as a failure.
RejectionFails(c) ==
    /\ ~InFlight(c)
    /\ RateAllows
    /\ ~CircuitAllows
    /\ window' = RateTaken
    /\ circuit' = Failed
    /\ UNCHANGED <<samples, call, straggler>>

\* The circuit rejects the call, after it has taken a slot of the window.
SendRejected(c) ==
    /\ ~InFlight(c)
    /\ RateAllows
    /\ ~CircuitAllows
    /\ window' = RateTaken
    /\ circuit' = Acquired
    /\ UNCHANGED <<samples, call, straggler>>

SendAdmitted(c) ==
    /\ ~InFlight(c)
    /\ RateAllows
    /\ CircuitAllows
    /\ window' = RateTaken
    /\ circuit' = Acquired
    /\ call' = [call EXCEPT ![c] = [busy |-> TRUE, age |-> 0, probe |-> HalfOpen]]
    /\ UNCHANGED <<samples, straggler>>

\* The provider answers, or its client throws: both failures count alike.
Answer(c, failed) ==
    LET record == IF failed THEN Failed ELSE Succeeded
        taken == Sampled(failed, call[c].age)
    IN  /\ InFlight(c)
        /\ samples' = taken
        /\ circuit' = RecordPerformance(record, taken)
        /\ call' = [call EXCEPT ![c] = Idle]
        /\ straggler' = (straggler \/ (~call[c].probe /\ circuit.state # "CLOSED"))
        /\ UNCHANGED window

-----------------------------------------------------------------------------

Older(sample) == [sample EXCEPT !.age = @ + 1]

\* The samples still inside the rolling window, in their order.
Retained(s) ==
    LET retained[i \in 0..Len(s)] ==
            IF i = 0 THEN <<>>
            ELSE IF s[i].age < PerfWindow THEN Append(retained[i - 1], s[i])
            ELSE retained[i - 1]
    IN  retained[Len(s)]

\* Time passes; samples that left the rolling window are forgotten.
Tick ==
    /\ \A c \in Callers : InFlight(c) => call[c].age < MaxLatency
    /\ window' = [window EXCEPT !.age = AtMost(@ + 1, RateWindow)]
    /\ circuit' = [circuit EXCEPT !.age = IF circuit.state = "OPEN"
                                          THEN AtMost(@ + 1, Cooldown) ELSE @]
    /\ samples' = Retained([i \in DOMAIN samples |-> Older(samples[i])])
    /\ call' = [c \in Callers |-> IF InFlight(c) THEN Older(call[c]) ELSE Idle]
    /\ UNCHANGED straggler

Send(c) == SendRejected(c) \/ SendAdmitted(c)
Answers(c) == \E failed \in BOOLEAN : Answer(c, failed)

Next ==
    \/ \E c \in Callers : Send(c) \/ Answers(c)
    \/ Tick

Spec == Init /\ [][Next]_vars

\* Time passes, a provider's client answers or gives up, and notifications
\* for the provider keep coming.
Fairness ==
    /\ WF_vars(Tick)
    /\ \A c \in Callers : WF_vars(Answers(c))
    /\ WF_vars(\E c \in Callers : Send(c))

FairSpec == Spec /\ Fairness

-----------------------------------------------------------------------------
(* Properties *)

\* The breaker is never stuck behind a probe that is gone: while it turns
\* callers away because of a probe, that probe is in flight and its answer
\* will free the circuit.  A HALF_OPEN circuit always waits for one: no order
\* of late answers, slow successes and rejections leaves it with nobody
\* probing.  Two probes are in flight together only after the late answer of a
\* call admitted before the circuit opened, and a closed circuit has seen fewer
\* failures than its threshold, also when such answers arrive after it closed.
ProbeDiscipline ==
    /\ circuit.probe => circuit.state = "HALF_OPEN" /\ Probing # {}
    /\ circuit.state = "HALF_OPEN" => circuit.probe
    /\ ~straggler => Cardinality(Probing) <= 1
    /\ circuit.state = "CLOSED" => circuit.failures < FailureThreshold

\* A circuit that opened is tried again: rejected callers do not push the
\* cooldown back, nor do they use up every slot of the rate limiter.
Recovers == circuit.state = "OPEN" ~> circuit.state # "OPEN"
=============================================================================
