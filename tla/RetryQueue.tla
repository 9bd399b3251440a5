----------------------------- MODULE RetryQueue -----------------------------
(***************************************************************************)
(* The retry scheduler (retry/redis-scheduler.ts) and the retry worker     *)
(* that feeds it back (retry/worker.ts), with the policy of each priority  *)
(* (retry/priority-policy.ts) and the retry budget as a gate.              *)
(*                                                                         *)
(* Redis holds a sorted set of job ids, by due time, and a hash of their   *)
(* payloads.  A claim is one atomic script on the set; every other command *)
(* is a step of its own.  A payload is abstracted to the request that      *)
(* scheduled the job and to its attemptsMade; a due time, which grows with *)
(* the attempts, to whether the clock has passed it.                       *)
(***************************************************************************)
EXTENDS Naturals, FiniteSets

CONSTANTS
    Workers,        \* the loops that claim due jobs and process them
    Jobs,           \* job ids, one per notification
    Requests,       \* calls of schedule from outside the worker
    JobOf,          \* per request: the job it schedules
    MaxRetries,     \* per job: maxRetries of the policy of its priority
    Limit,          \* the limit of claimDue
    Faults,         \* what may go wrong, a subset of FaultKinds
    None            \* no payload, no outcome

(***************************************************************************)
(* crash     a worker or a caller of schedule dies                         *)
(* refused   a Redis command throws and was not executed                   *)
(* lost      the claim script runs, but its reply is lost                  *)
(* throw     deliver throws                                                *)
(* budget    the retry gate denies                                         *)
(***************************************************************************)
FaultKinds == {"crash", "refused", "lost", "throw", "budget"}

Outcomes == {"DELIVERED", "PERMANENT_FAILURE", "RETRIES_EXHAUSTED",
             "RETRY_BUDGET_EXHAUSTED"}

ASSUME RetryAssumption ==
    /\ JobOf \in [Requests -> Jobs]
    /\ MaxRetries \in [Jobs -> Nat \ {0}]
    /\ Limit \in Nat \ {0}
    /\ Faults \subseteq FaultKinds
    /\ None \notin Outcomes \cup [request : Requests, attempts : Nat]

VARIABLES
    queue,      \* the sorted set, per job: absent, waiting or due
    payload,    \* the hash, per job: its content, or None
    pc,         \* per worker and job: where the worker is with the job
    hand,       \* per worker and job: the content it read
    rejected,   \* the workers whose claimDue has thrown
    request,    \* per request: new, stored, scheduled or gone
    runs,       \* history, per request: how often it was delivered
    outcome,    \* per request: the outcome of process, or None
    hit         \* history: the jobs a worker lost to a fault

redis == <<queue, payload>>
tasks == <<pc, hand, rejected>>
history == <<runs, outcome>>
vars == <<redis, tasks, request, history, hit>>

Content(r, n) == [request |-> r, attempts |-> n]
Contents ==
    UNION {{Content(r, n) : n \in 0..MaxRetries[JobOf[r]]} : r \in Requests}

States == {"idle", "claimed", "read", "held", "failed", "admitted", "stored"}

TypeOK ==
    /\ queue \in [Jobs -> {"absent", "waiting", "due"}]
    /\ payload \in [Jobs -> Contents \cup {None}]
    /\ pc \in [Workers \X Jobs -> States]
    /\ hand \in [Workers \X Jobs -> Contents \cup {None}]
    /\ rejected \subseteq Workers
    /\ request \in [Requests -> {"new", "stored", "scheduled", "gone"}]
    /\ runs \in [Requests -> Nat]
    /\ outcome \in [Requests -> Outcomes \cup {None}]
    /\ hit \subseteq Jobs

Init ==
    /\ queue = [j \in Jobs |-> "absent"]
    /\ payload = [j \in Jobs |-> None]
    /\ pc = [t \in Workers \X Jobs |-> "idle"]
    /\ hand = [t \in Workers \X Jobs |-> None]
    /\ rejected = {}
    /\ request = [r \in Requests |-> "new"]
    /\ runs = [r \in Requests |-> 0]
    /\ outcome = [r \in Requests |-> None]
    /\ hit = {}

-----------------------------------------------------------------------------
(* schedule: the payload first, then the due time *)

StorePayload(j, content) == payload' = [payload EXCEPT ![j] = content]

AddDue(j) == queue' = [queue EXCEPT ![j] = "waiting"]

\* A first failed delivery is scheduled with attemptsMade = 0.
RequestStores(r) ==
    /\ request[r] = "new"
    /\ StorePayload(JobOf[r], Content(r, 0))
    /\ request' = [request EXCEPT ![r] = "stored"]
    /\ UNCHANGED <<queue, tasks, history, hit>>

RequestAdds(r) ==
    /\ request[r] = "stored"
    /\ AddDue(JobOf[r])
    /\ request' = [request EXCEPT ![r] = "scheduled"]
    /\ UNCHANGED <<payload, tasks, history, hit>>

\* schedule throws, or its process dies: the job is not known as scheduled.
RequestFails(r) ==
    /\ Faults \cap {"crash", "refused"} # {}
    /\ request[r] \in {"new", "stored"}
    /\ request' = [request EXCEPT ![r] = "gone"]
    /\ UNCHANGED <<redis, tasks, history, hit>>

\* The clock passes the due time of a job.
FallsDue(j) ==
    /\ queue[j] = "waiting"
    /\ queue' = [queue EXCEPT ![j] = "due"]
    /\ UNCHANGED <<payload, tasks, request, history, hit>>

-----------------------------------------------------------------------------
(* claimDue *)

DueJobs == {j \in Jobs : queue[j] = "due"}

Idle(w) == \A j \in Jobs : pc[<<w, j>>] = "idle"

\* ZRANGEBYSCORE ... LIMIT 0 limit: as many due jobs as the limit allows.
Claimable ==
    {batch \in SUBSET DueJobs :
        /\ batch # {}
        /\ \/ Cardinality(batch) = Limit
           \/ Cardinality(batch) < Limit /\ batch = DueJobs}

\* Mutant of Dequeued: every due job is removed, not the claimed ones.
DequeuedAllDue(batch) ==
    [j \in Jobs |-> IF queue[j] = "due" THEN "absent" ELSE queue[j]]

Dequeued(batch) == [j \in Jobs |-> IF j \in batch THEN "absent" ELSE queue[j]]

\* Mutant of Claim: the jobs are read without ZREM.
ClaimKeepsDue(w, batch) ==
    /\ Idle(w)
    /\ batch \in Claimable
    /\ pc' = [t \in Workers \X Jobs |->
                IF t[1] = w /\ t[2] \in batch THEN "claimed" ELSE pc[t]]
    /\ rejected' = rejected \ {w}
    /\ UNCHANGED <<queue, payload, hand, request, history, hit>>

Claim(w, batch) ==
    /\ Idle(w)
    /\ batch \in Claimable
    /\ queue' = Dequeued(batch)
    /\ pc' = [t \in Workers \X Jobs |->
                IF t[1] = w /\ t[2] \in batch THEN "claimed" ELSE pc[t]]
    /\ rejected' = rejected \ {w}
    /\ UNCHANGED <<payload, hand, request, history, hit>>

\* The script has removed the jobs, but claimDue throws.
ClaimReplyLost(w, batch) ==
    /\ "lost" \in Faults
    /\ Idle(w)
    /\ batch \in Claimable
    /\ queue' = Dequeued(batch)
    /\ hit' = hit \cup batch
    /\ UNCHANGED <<payload, tasks, request, history>>

ReadPayload(w, j) ==
    /\ pc[<<w, j>>] = "claimed"
    /\ hand' = [hand EXCEPT ![<<w, j>>] = payload[j]]
    /\ pc' = [pc EXCEPT ![<<w, j>>] = "read"]
    /\ UNCHANGED <<redis, rejected, request, history, hit>>

\* The content is kept if there was one and claimDue has not thrown.
Kept(w, j) == hand[<<w, j>>] # None /\ w \notin rejected

DeletePayload(w, j) ==
    /\ pc[<<w, j>>] = "read"
    /\ payload' = [payload EXCEPT ![j] = None]
    /\ pc' = [pc EXCEPT ![<<w, j>>] = IF Kept(w, j) THEN "held" ELSE "idle"]
    /\ hand' = [hand EXCEPT ![<<w, j>>] = IF Kept(w, j) THEN @ ELSE None]
    /\ UNCHANGED <<queue, rejected, request, history, hit>>

\* HGET or HDEL throws: Promise.all rejects and the whole batch is lost, while
\* the commands for its other jobs go on.
FetchThrows(w, j) ==
    /\ "refused" \in Faults
    /\ pc[<<w, j>>] \in {"claimed", "read"}
    /\ rejected' = rejected \cup {w}
    /\ pc' = [t \in Workers \X Jobs |->
                IF t = <<w, j>> \/ (t[1] = w /\ pc[t] = "held") THEN "idle" ELSE pc[t]]
    /\ hand' = [t \in Workers \X Jobs |->
                IF t = <<w, j>> \/ (t[1] = w /\ pc[t] = "held") THEN None ELSE hand[t]]
    /\ hit' = hit \cup {k \in Jobs : pc[<<w, k>>] # "idle"}
    /\ UNCHANGED <<redis, request, history>>

-----------------------------------------------------------------------------
(* process: one delivery attempt *)

\* claimDue has returned: every job of the batch has been read and deleted.
Fetched(w) == \A j \in Jobs : pc[<<w, j>>] \notin {"claimed", "read"}

Run(w, j) ==
    /\ pc[<<w, j>>] = "held"
    /\ Fetched(w)
    /\ runs' = [runs EXCEPT ![hand[<<w, j>>].request] = @ + 1]

PutDown(w, j) ==
    /\ pc' = [pc EXCEPT ![<<w, j>>] = "idle"]
    /\ hand' = [hand EXCEPT ![<<w, j>>] = None]
    /\ UNCHANGED rejected

Finish(w, j, result) ==
    /\ PutDown(w, j)
    /\ outcome' = [outcome EXCEPT ![hand[<<w, j>>].request] = result]

NextAttempt(w, j) == hand[<<w, j>>].attempts + 1

\* Mutant of Exhausted: the attempts already made are compared.
ExhaustedLate(w, j) == hand[<<w, j>>].attempts > MaxRetries[j]

Exhausted(w, j) == NextAttempt(w, j) > MaxRetries[j]

Delivered(w, j) ==
    /\ Run(w, j)
    /\ Finish(w, j, "DELIVERED")
    /\ UNCHANGED <<redis, request, hit>>

\* A failure without retryable is permanent, whatever attempts are left.
FailsPermanently(w, j) ==
    /\ Run(w, j)
    /\ Finish(w, j, "PERMANENT_FAILURE")
    /\ UNCHANGED <<redis, request, hit>>

FailsExhausted(w, j) ==
    /\ Run(w, j)
    /\ Exhausted(w, j)
    /\ Finish(w, j, "RETRIES_EXHAUSTED")
    /\ UNCHANGED <<redis, request, hit>>

FailsRetryable(w, j) ==
    /\ Run(w, j)
    /\ ~Exhausted(w, j)
    /\ pc' = [pc EXCEPT ![<<w, j>>] = "failed"]
    /\ UNCHANGED <<redis, hand, rejected, request, outcome, hit>>

\* The gate denies: the job is reported and not scheduled again.
BudgetExhausted(w, j) ==
    /\ "budget" \in Faults
    /\ pc[<<w, j>>] = "failed"
    /\ Finish(w, j, "RETRY_BUDGET_EXHAUSTED")
    /\ UNCHANGED <<redis, request, runs, hit>>

Admitted(w, j) ==
    /\ pc[<<w, j>>] = "failed"
    /\ pc' = [pc EXCEPT ![<<w, j>>] = "admitted"]
    /\ UNCHANGED <<redis, hand, rejected, request, history, hit>>

\* Mutant of RetryStores: the job keeps its number of attempts.
RetryStoresSame(w, j) ==
    /\ pc[<<w, j>>] = "admitted"
    /\ StorePayload(j, hand[<<w, j>>])
    /\ pc' = [pc EXCEPT ![<<w, j>>] = "stored"]
    /\ UNCHANGED <<queue, hand, rejected, request, history, hit>>

RetryStores(w, j) ==
    /\ pc[<<w, j>>] = "admitted"
    /\ StorePayload(j, Content(hand[<<w, j>>].request, NextAttempt(w, j)))
    /\ pc' = [pc EXCEPT ![<<w, j>>] = "stored"]
    /\ UNCHANGED <<queue, hand, rejected, request, history, hit>>

RetryAdds(w, j) ==
    /\ pc[<<w, j>>] = "stored"
    /\ AddDue(j)
    /\ PutDown(w, j)
    /\ UNCHANGED <<payload, request, history, hit>>

\* deliver, the gate or schedule throws: process rejects.
ProcessThrows(w, j) ==
    /\ \/ Run(w, j) /\ "throw" \in Faults
       \/ /\ pc[<<w, j>>] \in {"failed", "admitted", "stored"}
          /\ "refused" \in Faults
          /\ UNCHANGED runs
    /\ PutDown(w, j)
    /\ hit' = hit \cup {j}
    /\ UNCHANGED <<redis, request, outcome>>

Crash(w) ==
    /\ "crash" \in Faults
    /\ ~Idle(w)
    /\ pc' = [t \in Workers \X Jobs |-> IF t[1] = w THEN "idle" ELSE pc[t]]
    /\ hand' = [t \in Workers \X Jobs |-> IF t[1] = w THEN None ELSE hand[t]]
    /\ rejected' = rejected \ {w}
    /\ hit' = hit \cup {j \in Jobs : pc[<<w, j>>] # "idle"}
    /\ UNCHANGED <<redis, request, history>>

Fetch(w, j) == ReadPayload(w, j) \/ DeletePayload(w, j) \/ FetchThrows(w, j)

Process(w, j) ==
    \/ Delivered(w, j) \/ FailsPermanently(w, j) \/ FailsExhausted(w, j)
    \/ FailsRetryable(w, j) \/ BudgetExhausted(w, j) \/ Admitted(w, j)
    \/ RetryStores(w, j) \/ RetryAdds(w, j) \/ ProcessThrows(w, j)

Claims(w) == \E batch \in SUBSET Jobs : Claim(w, batch) \/ ClaimReplyLost(w, batch)

Next ==
    \/ \E r \in Requests : RequestStores(r) \/ RequestAdds(r) \/ RequestFails(r)
    \/ \E j \in Jobs : FallsDue(j)
    \/ \E w \in Workers : Claims(w) \/ Crash(w)
    \/ \E w \in Workers, j \in Jobs : Fetch(w, j) \/ Process(w, j)

Spec == Init /\ [][Next]_vars

\* Time passes, some worker keeps claiming, and a started call goes on.
Fairness ==
    /\ \A r \in Requests : WF_vars(RequestAdds(r))
    /\ \A j \in Jobs : WF_vars(FallsDue(j))
    /\ \A w \in Workers : WF_vars(Claims(w))
    /\ \A w \in Workers, j \in Jobs : WF_vars(Fetch(w, j) \/ Process(w, j))

FairSpec == Spec /\ Fairness

-----------------------------------------------------------------------------
(* Properties *)

Working(w, j) == pc[<<w, j>>] # "idle"
Queued(r) ==
    /\ queue[JobOf[r]] # "absent"
    /\ payload[JobOf[r]] # None
    /\ payload[JobOf[r]].request = r
InHand(r) ==
    \E w \in Workers :
        \/ /\ pc[<<w, JobOf[r]>>] = "claimed"
           /\ payload[JobOf[r]] # None
           /\ payload[JobOf[r]].request = r
        \/ /\ hand[<<w, JobOf[r]>>] # None
           /\ hand[<<w, JobOf[r]>>].request = r

\* A job is in the hands of one worker, and not in the queue meanwhile: no
\* two claims of concurrent workers return it.
OneHolder ==
    \A j \in Jobs : \A w \in Workers :
        Working(w, j) =>
            /\ queue[j] = "absent"
            /\ \A v \in Workers \ {w} : ~Working(v, j)

\* The attemptsMade of a stored payload is the number of deliveries that were
\* made, whatever crashed or threw in between; with the limit of the policy
\* it bounds them.
AttemptsCountRuns ==
    /\ \A j \in Jobs : \A r \in Requests :
        payload[j] # None /\ payload[j].request = r /\ queue[j] # "absent" =>
            runs[r] = payload[j].attempts
    /\ \A r \in Requests : runs[r] <= MaxRetries[JobOf[r]] + 1

\* A fault loses no more than the batch it hits: any other job whose schedule
\* returned is queued with its payload, in hand, or has its outcome.
NothingElseLost ==
    \A r \in Requests :
        request[r] = "scheduled" /\ JobOf[r] \notin hit =>
            outcome[r] # None \/ Queued(r) \/ InHand(r)

\* A scheduled job is retried until it has an outcome, whatever faults hit
\* other jobs and other batches.
Finishes ==
    \A r \in Requests :
        request[r] = "scheduled" ~> outcome[r] # None \/ JobOf[r] \in hit
=============================================================================
