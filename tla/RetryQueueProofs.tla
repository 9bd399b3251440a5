-------------------------- MODULE RetryQueueProofs --------------------------
(***************************************************************************)
(* Theorems about the retry scheduler and its workers, for any jobs,       *)
(* workers, policies, claim limit and faults, when every job is scheduled  *)
(* by one request: a job id is the id of one notification attempt.         *)
(***************************************************************************)
EXTENDS RetryQueue, TLAPS

\* Two requests never schedule one job (id of RetryJob in
\* retry/worker.ts).
OneRequestPerJob == \A r, s \in Requests : JobOf[r] = JobOf[s] => r = s

\* What a worker that works on a job has in its hand.
HandFits(w, j) ==
    /\ pc[<<w, j>>] \in {"idle", "claimed"} => hand[<<w, j>>] = None
    /\ pc[<<w, j>>] \in {"held", "failed", "admitted", "stored"} => hand[<<w, j>>] /= None
    /\ pc[<<w, j>>] \in {"held", "failed", "admitted"} => payload[j] = None
    /\ hand[<<w, j>>] /= None =>
        /\ JobOf[hand[<<w, j>>].request] = j
        /\ IF pc[<<w, j>>] \in {"failed", "admitted", "stored"}
           THEN /\ hand[<<w, j>>].attempts < MaxRetries[j]
                /\ runs[hand[<<w, j>>].request] = hand[<<w, j>>].attempts + 1
           ELSE runs[hand[<<w, j>>].request] = hand[<<w, j>>].attempts

\* What the hash has for a job that is queued, or that is not yet queued.
PayloadFits(j) ==
    payload[j] /= None =>
        /\ JobOf[payload[j].request] = j
        /\ runs[payload[j].request] = payload[j].attempts

\* A request whose schedule has not yet added the job has not been delivered.
Unscheduled(r) ==
    request[r] \in {"new", "stored"} =>
        /\ queue[JobOf[r]] = "absent"
        /\ \A w \in Workers : pc[<<w, JobOf[r]>>] = "idle"
        /\ runs[r] = 0
        /\ request[r] = "new" => payload[JobOf[r]] = None

QueueInv ==
    /\ TypeOK
    /\ OneHolder
    /\ \A w \in Workers, j \in Jobs : HandFits(w, j)
    /\ \A j \in Jobs : PayloadFits(j)
    /\ \A r \in Requests : Unscheduled(r)
    /\ \A r \in Requests : runs[r] <= MaxRetries[JobOf[r]] + 1

LEMMA ContentParts ==
    ASSUME NEW content \in Contents
    PROVE  /\ content \in [request : Requests, attempts : Nat]
           /\ content /= None
           /\ content.request \in Requests
           /\ content.attempts \in Nat
           /\ content.attempts <= MaxRetries[JobOf[content.request]]
  <1>1. PICK r \in Requests : \E n \in 0..MaxRetries[JobOf[r]] : content = Content(r, n)
      BY DEF Contents
  <1>2. MaxRetries[JobOf[r]] \in Nat
      BY RetryAssumption
  <1> QED
      BY <1>1, <1>2, RetryAssumption DEF Content

LEMMA ContentIn ==
    ASSUME NEW r \in Requests, NEW n \in Nat, n <= MaxRetries[JobOf[r]]
    PROVE  /\ Content(r, n) \in Contents
           /\ Content(r, n).request = r /\ Content(r, n).attempts = n
  <1>1. MaxRetries[JobOf[r]] \in Nat
      BY RetryAssumption
  <1>2. n \in 0..MaxRetries[JobOf[r]]
      BY <1>1
  <1> QED
      BY <1>2 DEF Content, Contents

LEMMA InitQueue == Init => QueueInv
  <1> SUFFICES ASSUME Init PROVE QueueInv
      OBVIOUS
  <1>1. TypeOK
      BY DEF Init, TypeOK, States
  <1>2. OneHolder
      BY DEF Init, OneHolder, Working
  <1>3. \A r \in Requests : JobOf[r] \in Jobs /\ MaxRetries[JobOf[r]] \in Nat
      BY RetryAssumption
  <1>4. \A w \in Workers, j \in Jobs : HandFits(w, j)
      BY DEF Init, HandFits
  <1>5. \A j \in Jobs : PayloadFits(j)
      BY DEF Init, PayloadFits
  <1>6. \A r \in Requests : Unscheduled(r)
      BY <1>3 DEF Init, Unscheduled
  <1>7. \A r \in Requests : runs[r] <= MaxRetries[JobOf[r]] + 1
      BY <1>3 DEF Init
  <1> QED
      BY <1>1, <1>2, <1>4, <1>5, <1>6, <1>7 DEF QueueInv


LEMMA HandParts ==
    ASSUME QueueInv, NEW w \in Workers, NEW j \in Jobs, hand[<<w, j>>] /= None
    PROVE  /\ hand[<<w, j>>].request \in Requests
           /\ hand[<<w, j>>].attempts \in Nat
           /\ hand[<<w, j>>].attempts <= MaxRetries[j]
           /\ JobOf[hand[<<w, j>>].request] = j
           /\ pc[<<w, j>>] /= "idle"
  BY ContentParts DEF QueueInv, TypeOK, HandFits

LEMMA PayloadParts ==
    ASSUME QueueInv, NEW j \in Jobs, payload[j] /= None
    PROVE  /\ payload[j].request \in Requests
           /\ payload[j].attempts \in Nat
           /\ payload[j].attempts <= MaxRetries[j]
           /\ JobOf[payload[j].request] = j
           /\ runs[payload[j].request] = payload[j].attempts
  BY ContentParts DEF QueueInv, TypeOK, PayloadFits

LEMMA JobParts ==
    /\ \A r \in Requests : JobOf[r] \in Jobs
    /\ \A j \in Jobs : MaxRetries[j] \in Nat \ {0}
  BY RetryAssumption

\* What one delivery attempt finds and counts.
LEMMA Ran ==
    ASSUME QueueInv, NEW w \in Workers, NEW j \in Jobs, Run(w, j),
           NEW r, r = hand[<<w, j>>].request
    PROVE  /\ r \in Requests /\ JobOf[r] = j
           /\ hand[<<w, j>>] /= None /\ pc[<<w, j>>] = "held"
           /\ runs' \in [Requests -> Nat]
           /\ runs'[r] = hand[<<w, j>>].attempts + 1
           /\ runs'[r] <= MaxRetries[j] + 1
           /\ \A q \in Requests \ {r} : runs'[q] = runs[q]
           /\ payload[j] = None
           /\ request[r] \notin {"new", "stored"}
  <1>1. hand[<<w, j>>] /= None /\ payload[j] = None /\ pc[<<w, j>>] = "held"
      BY DEF QueueInv, HandFits, Run
  <1>2. r \in Requests /\ JobOf[r] = j /\ hand[<<w, j>>].attempts \in Nat
      BY <1>1, HandParts
  <1>3. runs[r] = hand[<<w, j>>].attempts
      BY <1>1 DEF QueueInv, HandFits
  <1>4. request[r] \notin {"new", "stored"}
      BY <1>1, <1>2 DEF QueueInv, Unscheduled
  <1> QED
      BY <1>1, <1>2, <1>3, <1>4, HandParts, JobParts DEF Run, QueueInv, TypeOK

LEMMA RequestStoresStep ==
    ASSUME QueueInv, OneRequestPerJob, NEW r \in Requests, RequestStores(r)
    PROVE  QueueInv'
  <1> USE JobParts DEF QueueInv, RequestStores, StorePayload, TypeOK, redis, tasks, history
  <1>1. TypeOK'
      BY ContentIn, HandParts DEF States, Outcomes
  <1>2. OneHolder'
      BY DEF OneHolder, Working, Unscheduled
  <1>3. ASSUME NEW u \in Workers, NEW k \in Jobs
        PROVE  HandFits(u, k)'
      BY HandParts, PayloadParts, ContentIn DEF HandFits, OneHolder, Working, Unscheduled
  <1>4. ASSUME NEW k \in Jobs
        PROVE  PayloadFits(k)'
      BY HandParts, PayloadParts, ContentIn DEF PayloadFits, HandFits, Unscheduled, OneRequestPerJob
  <1>5. ASSUME NEW q \in Requests
        PROVE  Unscheduled(q)'
      BY HandParts DEF Unscheduled, OneRequestPerJob
  <1>6. (\A q \in Requests : runs[q] <= MaxRetries[JobOf[q]] + 1)'
      BY HandParts DEF HandFits
  <1> QED
      BY <1>1, <1>2, <1>3, <1>4, <1>5, <1>6

LEMMA RequestAddsStep ==
    ASSUME QueueInv, OneRequestPerJob, NEW r \in Requests, RequestAdds(r)
    PROVE  QueueInv'
  <1> USE JobParts DEF QueueInv, RequestAdds, AddDue, TypeOK, redis, tasks, history
  <1>1. TypeOK'
      BY ContentIn, HandParts DEF States, Outcomes
  <1>2. OneHolder'
      BY DEF OneHolder, Working, Unscheduled
  <1>3. ASSUME NEW u \in Workers, NEW k \in Jobs
        PROVE  HandFits(u, k)'
      BY HandParts, PayloadParts, ContentIn DEF HandFits, OneHolder, Working, Unscheduled
  <1>4. ASSUME NEW k \in Jobs
        PROVE  PayloadFits(k)'
      BY HandParts, PayloadParts, ContentIn DEF PayloadFits, HandFits, Unscheduled, OneRequestPerJob
  <1>5. ASSUME NEW q \in Requests
        PROVE  Unscheduled(q)'
      BY HandParts DEF Unscheduled, OneRequestPerJob
  <1>6. (\A q \in Requests : runs[q] <= MaxRetries[JobOf[q]] + 1)'
      BY HandParts DEF HandFits
  <1> QED
      BY <1>1, <1>2, <1>3, <1>4, <1>5, <1>6

LEMMA RequestFailsStep ==
    ASSUME QueueInv, OneRequestPerJob, NEW r \in Requests, RequestFails(r)
    PROVE  QueueInv'
  <1> USE JobParts DEF QueueInv, RequestFails, TypeOK, redis, tasks, history
  <1>1. TypeOK'
      BY ContentIn, HandParts DEF States, Outcomes
  <1>2. OneHolder'
      BY DEF OneHolder, Working, Unscheduled
  <1>3. ASSUME NEW u \in Workers, NEW k \in Jobs
        PROVE  HandFits(u, k)'
      BY HandParts, PayloadParts, ContentIn DEF HandFits, OneHolder, Working, Unscheduled
  <1>4. ASSUME NEW k \in Jobs
        PROVE  PayloadFits(k)'
      BY HandParts, PayloadParts, ContentIn DEF PayloadFits, HandFits, Unscheduled, OneRequestPerJob
  <1>5. ASSUME NEW q \in Requests
        PROVE  Unscheduled(q)'
      BY HandParts DEF Unscheduled, OneRequestPerJob
  <1>6. (\A q \in Requests : runs[q] <= MaxRetries[JobOf[q]] + 1)'
      BY HandParts DEF HandFits
  <1> QED
      BY <1>1, <1>2, <1>3, <1>4, <1>5, <1>6

LEMMA FallsDueStep ==
    ASSUME QueueInv, OneRequestPerJob, NEW j \in Jobs, FallsDue(j)
    PROVE  QueueInv'
  <1> USE JobParts DEF QueueInv, FallsDue, TypeOK, redis, tasks, history
  <1>1. TypeOK'
      BY ContentIn, HandParts DEF States, Outcomes
  <1>2. OneHolder'
      BY DEF OneHolder, Working, Unscheduled
  <1>3. ASSUME NEW u \in Workers, NEW k \in Jobs
        PROVE  HandFits(u, k)'
      BY HandParts, PayloadParts, ContentIn DEF HandFits, OneHolder, Working, Unscheduled
  <1>4. ASSUME NEW k \in Jobs
        PROVE  PayloadFits(k)'
      BY HandParts, PayloadParts, ContentIn DEF PayloadFits, HandFits, Unscheduled, OneRequestPerJob
  <1>5. ASSUME NEW q \in Requests
        PROVE  Unscheduled(q)'
      BY HandParts DEF Unscheduled, OneRequestPerJob
  <1>6. (\A q \in Requests : runs[q] <= MaxRetries[JobOf[q]] + 1)'
      BY HandParts DEF HandFits
  <1> QED
      BY <1>1, <1>2, <1>3, <1>4, <1>5, <1>6

LEMMA ClaimStep ==
    ASSUME QueueInv, OneRequestPerJob, NEW w \in Workers, NEW batch \in SUBSET Jobs,
           Claim(w, batch)
    PROVE  QueueInv'
  <1> USE JobParts DEF QueueInv, Claim, Dequeued, Claimable, DueJobs, Idle, TypeOK, redis, tasks, history
  <1>1. TypeOK'
      BY ContentIn, HandParts DEF States, Outcomes
  <1>2. OneHolder'
      BY DEF OneHolder, Working, Unscheduled
  <1>3. ASSUME NEW u \in Workers, NEW k \in Jobs
        PROVE  HandFits(u, k)'
      BY HandParts, PayloadParts, ContentIn DEF HandFits, OneHolder, Working, Unscheduled
  <1>4. ASSUME NEW k \in Jobs
        PROVE  PayloadFits(k)'
      BY HandParts, PayloadParts, ContentIn DEF PayloadFits, HandFits, Unscheduled, OneRequestPerJob
  <1>5. ASSUME NEW q \in Requests
        PROVE  Unscheduled(q)'
      BY HandParts DEF Unscheduled, OneRequestPerJob
  <1>6. (\A q \in Requests : runs[q] <= MaxRetries[JobOf[q]] + 1)'
      BY HandParts DEF HandFits
  <1> QED
      BY <1>1, <1>2, <1>3, <1>4, <1>5, <1>6

LEMMA ClaimReplyLostStep ==
    ASSUME QueueInv, OneRequestPerJob, NEW w \in Workers, NEW batch \in SUBSET Jobs,
           ClaimReplyLost(w, batch)
    PROVE  QueueInv'
  <1> USE JobParts DEF QueueInv, ClaimReplyLost, Dequeued, Claimable, DueJobs, TypeOK,
                       redis, tasks, history
  <1>1. TypeOK'
      BY ContentIn, HandParts DEF States, Outcomes
  <1>2. OneHolder'
      BY DEF OneHolder, Working, Unscheduled
  <1>3. ASSUME NEW u \in Workers, NEW k \in Jobs
        PROVE  HandFits(u, k)'
      BY HandParts, PayloadParts, ContentIn DEF HandFits, OneHolder, Working, Unscheduled
  <1>4. ASSUME NEW k \in Jobs
        PROVE  PayloadFits(k)'
      BY HandParts, PayloadParts, ContentIn DEF PayloadFits, HandFits, Unscheduled, OneRequestPerJob
  <1>5. ASSUME NEW q \in Requests
        PROVE  Unscheduled(q)'
      BY HandParts DEF Unscheduled, OneRequestPerJob
  <1>6. (\A q \in Requests : runs[q] <= MaxRetries[JobOf[q]] + 1)'
      BY HandParts DEF HandFits
  <1> QED
      BY <1>1, <1>2, <1>3, <1>4, <1>5, <1>6

LEMMA ReadPayloadStep ==
    ASSUME QueueInv, OneRequestPerJob, NEW w \in Workers, NEW j \in Jobs, ReadPayload(w, j)
    PROVE  QueueInv'
  <1> USE JobParts DEF QueueInv, ReadPayload, TypeOK, redis, tasks, history
  <1>1. TypeOK'
      BY ContentIn, HandParts DEF States, Outcomes
  <1>2. OneHolder'
      BY DEF OneHolder, Working, Unscheduled
  <1>3. ASSUME NEW u \in Workers, NEW k \in Jobs
        PROVE  HandFits(u, k)'
      BY HandParts, PayloadParts, ContentIn DEF HandFits, OneHolder, Working, Unscheduled
  <1>4. ASSUME NEW k \in Jobs
        PROVE  PayloadFits(k)'
      BY HandParts, PayloadParts, ContentIn DEF PayloadFits, HandFits, Unscheduled, OneRequestPerJob
  <1>5. ASSUME NEW q \in Requests
        PROVE  Unscheduled(q)'
      BY HandParts DEF Unscheduled, OneRequestPerJob
  <1>6. (\A q \in Requests : runs[q] <= MaxRetries[JobOf[q]] + 1)'
      BY HandParts DEF HandFits
  <1> QED
      BY <1>1, <1>2, <1>3, <1>4, <1>5, <1>6

LEMMA DeletePayloadStep ==
    ASSUME QueueInv, OneRequestPerJob, NEW w \in Workers, NEW j \in Jobs, DeletePayload(w, j)
    PROVE  QueueInv'
  <1> USE JobParts DEF QueueInv, DeletePayload, Kept, TypeOK, redis, tasks, history
  <1>1. TypeOK'
      BY ContentIn, HandParts DEF States, Outcomes
  <1>2. OneHolder'
      BY DEF OneHolder, Working, Unscheduled
  <1>3. ASSUME NEW u \in Workers, NEW k \in Jobs
        PROVE  HandFits(u, k)'
    <2>1. CASE u = w /\ k = j
        BY <2>1, HandParts DEF HandFits
    <2>2. CASE ~(u = w /\ k = j)
        BY <2>2 DEF HandFits, OneHolder, Working
    <2> QED
        BY <2>1, <2>2
  <1>4. ASSUME NEW k \in Jobs
        PROVE  PayloadFits(k)'
      BY HandParts, PayloadParts, ContentIn DEF PayloadFits, HandFits, Unscheduled, OneRequestPerJob
  <1>5. ASSUME NEW q \in Requests
        PROVE  Unscheduled(q)'
      BY HandParts DEF Unscheduled, OneRequestPerJob
  <1>6. (\A q \in Requests : runs[q] <= MaxRetries[JobOf[q]] + 1)'
      BY HandParts DEF HandFits
  <1> QED
      BY <1>1, <1>2, <1>3, <1>4, <1>5, <1>6

LEMMA FetchThrowsStep ==
    ASSUME QueueInv, OneRequestPerJob, NEW w \in Workers, NEW j \in Jobs, FetchThrows(w, j)
    PROVE  QueueInv'
  <1> USE JobParts DEF QueueInv, FetchThrows, TypeOK, redis, tasks, history
  <1>1. TypeOK'
      BY ContentIn, HandParts DEF States, Outcomes
  <1>2. OneHolder'
      BY DEF OneHolder, Working, Unscheduled
  <1>3. ASSUME NEW u \in Workers, NEW k \in Jobs
        PROVE  HandFits(u, k)'
      BY HandParts, PayloadParts, ContentIn DEF HandFits, OneHolder, Working, Unscheduled
  <1>4. ASSUME NEW k \in Jobs
        PROVE  PayloadFits(k)'
      BY HandParts, PayloadParts, ContentIn DEF PayloadFits, HandFits, Unscheduled, OneRequestPerJob
  <1>5. ASSUME NEW q \in Requests
        PROVE  Unscheduled(q)'
      BY HandParts DEF Unscheduled, OneRequestPerJob
  <1>6. (\A q \in Requests : runs[q] <= MaxRetries[JobOf[q]] + 1)'
      BY HandParts DEF HandFits
  <1> QED
      BY <1>1, <1>2, <1>3, <1>4, <1>5, <1>6

LEMMA DeliveredStep ==
    ASSUME QueueInv, OneRequestPerJob, NEW w \in Workers, NEW j \in Jobs, Delivered(w, j)
    PROVE  QueueInv'
  <1> USE JobParts DEF QueueInv, Delivered, Finish, PutDown, TypeOK, redis, tasks, history
  <1>1. TypeOK'
      BY Ran DEF States, Outcomes
  <1>2. OneHolder'
      BY DEF OneHolder, Working, Unscheduled
  <1>3. ASSUME NEW u \in Workers, NEW k \in Jobs
        PROVE  HandFits(u, k)'
      BY Ran, HandParts, PayloadParts DEF HandFits, OneHolder, Working, Unscheduled
  <1>4. ASSUME NEW k \in Jobs
        PROVE  PayloadFits(k)'
      BY Ran, PayloadParts DEF PayloadFits
  <1>5. ASSUME NEW q \in Requests
        PROVE  Unscheduled(q)'
      BY Ran, HandParts DEF Unscheduled, OneRequestPerJob
  <1>6. (\A q \in Requests : runs[q] <= MaxRetries[JobOf[q]] + 1)'
      BY Ran
  <1> QED
      BY <1>1, <1>2, <1>3, <1>4, <1>5, <1>6

LEMMA FailsPermanentlyStep ==
    ASSUME QueueInv, OneRequestPerJob, NEW w \in Workers, NEW j \in Jobs, FailsPermanently(w, j)
    PROVE  QueueInv'
  <1> USE JobParts DEF QueueInv, FailsPermanently, Finish, PutDown, TypeOK, redis, tasks, history
  <1>1. TypeOK'
      BY Ran DEF States, Outcomes
  <1>2. OneHolder'
      BY DEF OneHolder, Working, Unscheduled
  <1>3. ASSUME NEW u \in Workers, NEW k \in Jobs
        PROVE  HandFits(u, k)'
      BY Ran, HandParts, PayloadParts DEF HandFits, OneHolder, Working, Unscheduled
  <1>4. ASSUME NEW k \in Jobs
        PROVE  PayloadFits(k)'
      BY Ran, PayloadParts DEF PayloadFits
  <1>5. ASSUME NEW q \in Requests
        PROVE  Unscheduled(q)'
      BY Ran, HandParts DEF Unscheduled, OneRequestPerJob
  <1>6. (\A q \in Requests : runs[q] <= MaxRetries[JobOf[q]] + 1)'
      BY Ran
  <1> QED
      BY <1>1, <1>2, <1>3, <1>4, <1>5, <1>6

LEMMA FailsExhaustedStep ==
    ASSUME QueueInv, OneRequestPerJob, NEW w \in Workers, NEW j \in Jobs, FailsExhausted(w, j)
    PROVE  QueueInv'
  <1> USE JobParts DEF QueueInv, FailsExhausted, Finish, PutDown, TypeOK, redis, tasks, history
  <1>1. TypeOK'
      BY Ran DEF States, Outcomes
  <1>2. OneHolder'
      BY DEF OneHolder, Working, Unscheduled
  <1>3. ASSUME NEW u \in Workers, NEW k \in Jobs
        PROVE  HandFits(u, k)'
      BY Ran, HandParts, PayloadParts DEF HandFits, OneHolder, Working, Unscheduled
  <1>4. ASSUME NEW k \in Jobs
        PROVE  PayloadFits(k)'
      BY Ran, PayloadParts DEF PayloadFits
  <1>5. ASSUME NEW q \in Requests
        PROVE  Unscheduled(q)'
      BY Ran, HandParts DEF Unscheduled, OneRequestPerJob
  <1>6. (\A q \in Requests : runs[q] <= MaxRetries[JobOf[q]] + 1)'
      BY Ran
  <1> QED
      BY <1>1, <1>2, <1>3, <1>4, <1>5, <1>6

LEMMA FailsRetryableStep ==
    ASSUME QueueInv, OneRequestPerJob, NEW w \in Workers, NEW j \in Jobs, FailsRetryable(w, j)
    PROVE  QueueInv'
  <1> USE JobParts DEF QueueInv, FailsRetryable, Exhausted, NextAttempt, TypeOK, redis, tasks, history
  <1>1. TypeOK'
      BY Ran DEF States, Outcomes
  <1>2. OneHolder'
      BY SMTT(30), Ran DEF OneHolder, Working
  <1>3. ASSUME NEW u \in Workers, NEW k \in Jobs
        PROVE  HandFits(u, k)'
      BY SMTT(30), Ran, HandParts, PayloadParts DEF HandFits, OneHolder, Working, Unscheduled
  <1>4. ASSUME NEW k \in Jobs
        PROVE  PayloadFits(k)'
      BY Ran, PayloadParts DEF PayloadFits
  <1>5. ASSUME NEW q \in Requests
        PROVE  Unscheduled(q)'
      BY Ran, HandParts DEF Unscheduled, OneRequestPerJob
  <1>6. (\A q \in Requests : runs[q] <= MaxRetries[JobOf[q]] + 1)'
      BY Ran
  <1> QED
      BY <1>1, <1>2, <1>3, <1>4, <1>5, <1>6

LEMMA BudgetExhaustedStep ==
    ASSUME QueueInv, OneRequestPerJob, NEW w \in Workers, NEW j \in Jobs, BudgetExhausted(w, j)
    PROVE  QueueInv'
  <1> USE JobParts DEF QueueInv, BudgetExhausted, Finish, PutDown, TypeOK, redis, tasks, history
  <1>1. TypeOK'
      BY ContentIn, HandParts DEF States, Outcomes
  <1>2. OneHolder'
      BY DEF OneHolder, Working, Unscheduled
  <1>3. ASSUME NEW u \in Workers, NEW k \in Jobs
        PROVE  HandFits(u, k)'
      BY HandParts, PayloadParts, ContentIn DEF HandFits, OneHolder, Working, Unscheduled
  <1>4. ASSUME NEW k \in Jobs
        PROVE  PayloadFits(k)'
      BY HandParts, PayloadParts, ContentIn DEF PayloadFits, HandFits, Unscheduled, OneRequestPerJob
  <1>5. ASSUME NEW q \in Requests
        PROVE  Unscheduled(q)'
      BY HandParts DEF Unscheduled, OneRequestPerJob
  <1>6. (\A q \in Requests : runs[q] <= MaxRetries[JobOf[q]] + 1)'
      BY HandParts DEF HandFits
  <1> QED
      BY <1>1, <1>2, <1>3, <1>4, <1>5, <1>6

LEMMA AdmittedStep ==
    ASSUME QueueInv, OneRequestPerJob, NEW w \in Workers, NEW j \in Jobs, Admitted(w, j)
    PROVE  QueueInv'
  <1> USE JobParts DEF QueueInv, Admitted, TypeOK, redis, tasks, history
  <1>1. TypeOK'
      BY ContentIn, HandParts DEF States, Outcomes
  <1>2. OneHolder'
      BY DEF OneHolder, Working, Unscheduled
  <1>3. ASSUME NEW u \in Workers, NEW k \in Jobs
        PROVE  HandFits(u, k)'
      BY HandParts, PayloadParts, ContentIn DEF HandFits, OneHolder, Working, Unscheduled
  <1>4. ASSUME NEW k \in Jobs
        PROVE  PayloadFits(k)'
      BY HandParts, PayloadParts, ContentIn DEF PayloadFits, HandFits, Unscheduled, OneRequestPerJob
  <1>5. ASSUME NEW q \in Requests
        PROVE  Unscheduled(q)'
      BY HandParts DEF Unscheduled, OneRequestPerJob
  <1>6. (\A q \in Requests : runs[q] <= MaxRetries[JobOf[q]] + 1)'
      BY HandParts DEF HandFits
  <1> QED
      BY <1>1, <1>2, <1>3, <1>4, <1>5, <1>6

LEMMA RetryStoresStep ==
    ASSUME QueueInv, OneRequestPerJob, NEW w \in Workers, NEW j \in Jobs, RetryStores(w, j)
    PROVE  QueueInv'
  <1> USE JobParts DEF QueueInv, RetryStores, StorePayload, NextAttempt, TypeOK, redis, tasks, history
  <1>0. /\ hand[<<w, j>>] /= None
        /\ NextAttempt(w, j) \in Nat /\ NextAttempt(w, j) <= MaxRetries[j]
        /\ runs[hand[<<w, j>>].request] = NextAttempt(w, j)
      BY HandParts DEF HandFits
  <1>1. TypeOK'
      BY <1>0, ContentIn, HandParts DEF States, Outcomes
  <1>2. OneHolder'
      BY DEF OneHolder, Working, Unscheduled
  <1>3. ASSUME NEW u \in Workers, NEW k \in Jobs
        PROVE  HandFits(u, k)'
    <2>1. CASE u = w /\ k = j
        BY <1>0, <2>1 DEF HandFits, OneHolder, Working
    <2>2. CASE ~(u = w /\ k = j)
        BY <2>2 DEF HandFits, OneHolder, Working
    <2> QED
        BY <2>1, <2>2
  <1>4. ASSUME NEW k \in Jobs
        PROVE  PayloadFits(k)'
      BY SMTT(30), <1>0, HandParts, PayloadParts, ContentIn
         DEF PayloadFits, HandFits, Unscheduled, OneRequestPerJob
  <1>5. ASSUME NEW q \in Requests
        PROVE  Unscheduled(q)'
      BY HandParts DEF Unscheduled, OneRequestPerJob
  <1>6. (\A q \in Requests : runs[q] <= MaxRetries[JobOf[q]] + 1)'
      BY HandParts DEF HandFits
  <1> QED
      BY <1>1, <1>2, <1>3, <1>4, <1>5, <1>6

LEMMA RetryAddsStep ==
    ASSUME QueueInv, OneRequestPerJob, NEW w \in Workers, NEW j \in Jobs, RetryAdds(w, j)
    PROVE  QueueInv'
  <1> USE JobParts DEF QueueInv, RetryAdds, AddDue, PutDown, TypeOK, redis, tasks, history
  <1>1. TypeOK'
      BY ContentIn, HandParts DEF States, Outcomes
  <1>2. OneHolder'
      BY DEF OneHolder, Working, Unscheduled
  <1>3. ASSUME NEW u \in Workers, NEW k \in Jobs
        PROVE  HandFits(u, k)'
      BY HandParts, PayloadParts, ContentIn DEF HandFits, OneHolder, Working, Unscheduled
  <1>4. ASSUME NEW k \in Jobs
        PROVE  PayloadFits(k)'
      BY HandParts, PayloadParts, ContentIn DEF PayloadFits, HandFits, Unscheduled, OneRequestPerJob
  <1>5. ASSUME NEW q \in Requests
        PROVE  Unscheduled(q)'
      BY HandParts DEF Unscheduled, OneRequestPerJob
  <1>6. (\A q \in Requests : runs[q] <= MaxRetries[JobOf[q]] + 1)'
      BY HandParts DEF HandFits
  <1> QED
      BY <1>1, <1>2, <1>3, <1>4, <1>5, <1>6

LEMMA ProcessThrowsStep ==
    ASSUME QueueInv, OneRequestPerJob, NEW w \in Workers, NEW j \in Jobs, ProcessThrows(w, j)
    PROVE  QueueInv'
  <1> USE JobParts DEF QueueInv, ProcessThrows, PutDown, TypeOK, redis, tasks, history
  <1>1. TypeOK'
      BY Ran DEF States, Outcomes
  <1>2. OneHolder'
      BY DEF OneHolder, Working, Unscheduled
  <1>3. ASSUME NEW u \in Workers, NEW k \in Jobs
        PROVE  HandFits(u, k)'
      BY Ran, HandParts, PayloadParts DEF HandFits, OneHolder, Working, Unscheduled
  <1>4. ASSUME NEW k \in Jobs
        PROVE  PayloadFits(k)'
      BY Ran, PayloadParts DEF PayloadFits
  <1>5. ASSUME NEW q \in Requests
        PROVE  Unscheduled(q)'
      BY Ran, HandParts DEF Unscheduled, OneRequestPerJob
  <1>6. (\A q \in Requests : runs[q] <= MaxRetries[JobOf[q]] + 1)'
      BY Ran
  <1> QED
      BY <1>1, <1>2, <1>3, <1>4, <1>5, <1>6

LEMMA CrashStep ==
    ASSUME QueueInv, OneRequestPerJob, NEW w \in Workers, Crash(w)
    PROVE  QueueInv'
  <1> USE JobParts DEF QueueInv, Crash, TypeOK, redis, tasks, history
  <1>1. TypeOK'
      BY ContentIn, HandParts DEF States, Outcomes
  <1>2. OneHolder'
      BY DEF OneHolder, Working, Unscheduled
  <1>3. ASSUME NEW u \in Workers, NEW k \in Jobs
        PROVE  HandFits(u, k)'
      BY HandParts, PayloadParts, ContentIn DEF HandFits, OneHolder, Working, Unscheduled
  <1>4. ASSUME NEW k \in Jobs
        PROVE  PayloadFits(k)'
      BY HandParts, PayloadParts, ContentIn DEF PayloadFits, HandFits, Unscheduled, OneRequestPerJob
  <1>5. ASSUME NEW q \in Requests
        PROVE  Unscheduled(q)'
      BY HandParts DEF Unscheduled, OneRequestPerJob
  <1>6. (\A q \in Requests : runs[q] <= MaxRetries[JobOf[q]] + 1)'
      BY HandParts DEF HandFits
  <1> QED
      BY <1>1, <1>2, <1>3, <1>4, <1>5, <1>6

LEMMA QueueStep ==
    ASSUME QueueInv, OneRequestPerJob, [Next]_vars
    PROVE  QueueInv'
  <1>1. CASE UNCHANGED vars
      BY <1>1 DEF QueueInv, vars, redis, tasks, history, TypeOK, OneHolder, Working,
                  HandFits, PayloadFits, Unscheduled
  <1>2. CASE \E r \in Requests : RequestStores(r) \/ RequestAdds(r) \/ RequestFails(r)
      BY <1>2, RequestStoresStep, RequestAddsStep, RequestFailsStep
  <1>3. CASE \E j \in Jobs : FallsDue(j)
      BY <1>3, FallsDueStep
  <1>4. CASE \E w \in Workers : Claims(w) \/ Crash(w)
      BY <1>4, ClaimStep, ClaimReplyLostStep, CrashStep DEF Claims
  <1>5. CASE \E w \in Workers, j \in Jobs : Fetch(w, j)
      BY <1>5, ReadPayloadStep, DeletePayloadStep, FetchThrowsStep DEF Fetch
  <1>6. CASE \E w \in Workers, j \in Jobs : Process(w, j)
    <2>1. PICK w \in Workers, j \in Jobs : Process(w, j)
        BY <1>6
    <2> QED
        BY <2>1, DeliveredStep, FailsPermanentlyStep, FailsExhaustedStep, FailsRetryableStep,
           BudgetExhaustedStep, AdmittedStep, RetryStoresStep, RetryAddsStep, ProcessThrowsStep
           DEF Process
  <1> QED
      BY <1>1, <1>2, <1>3, <1>4, <1>5, <1>6 DEF Next

LEMMA QueueAlways == OneRequestPerJob /\ Spec => []QueueInv
  <1> SUFFICES ASSUME OneRequestPerJob
               PROVE  Spec => []QueueInv
      OBVIOUS
  <1>1. QueueInv /\ [Next]_vars => QueueInv'
      BY QueueStep
  <1> QED
      BY <1>1, InitQueue, PTL DEF Spec

\* Every variable keeps its type, whatever fails (retry/redis-scheduler.ts,
\* retry/worker.ts): in particular no job is scheduled with more attempts
\* than its policy allows.
THEOREM TypeCorrect == OneRequestPerJob /\ Spec => []TypeOK
  <1>1. QueueInv => TypeOK
      BY DEF QueueInv
  <1> QED
      BY <1>1, QueueAlways, PTL

\* However many workers claim at once, and whatever crashes, throws or is lost
\* between a claim and the next schedule, no two of them ever hold one job and
\* a job in hand is not in the queue (claimDue and process).
THEOREM HeldByOne == OneRequestPerJob /\ Spec => []OneHolder
  <1>1. QueueInv => OneHolder
      BY DEF QueueInv
  <1> QED
      BY <1>1, QueueAlways, PTL

\* The attempts stored with a queued job are the deliveries made for it, and
\* the policy bounds them, whatever faults interrupt the worker (process).
THEOREM AttemptsAreRuns == OneRequestPerJob /\ Spec => []AttemptsCountRuns
  <1>1. QueueInv => AttemptsCountRuns
      BY DEF QueueInv, PayloadFits, AttemptsCountRuns
  <1> QED
      BY <1>1, QueueAlways, PTL

-----------------------------------------------------------------------------
(* What a fault may lose *)

\* The hash has the content of a request.
Has(r) == payload[JobOf[r]] /= None /\ payload[JobOf[r]].request = r

\* A worker that will schedule the job again, or give it an outcome.
Carries(w, r) ==
    \/ pc[<<w, JobOf[r]>>] = "claimed" /\ Has(r)
    \/ /\ hand[<<w, JobOf[r]>>] /= None
       /\ hand[<<w, JobOf[r]>>].request = r
       /\ pc[<<w, JobOf[r]>>] = "stored" => Has(r)

Alive(r) ==
    /\ request[r] = "stored" => Has(r)
    /\ request[r] = "scheduled" /\ JobOf[r] \notin hit =>
        outcome[r] /= None \/ Queued(r) \/ \E w \in Workers : Carries(w, r)

\* A batch whose claimDue has thrown is lost.
RejectedIsHit(w, j) == w \in rejected /\ Working(w, j) => j \in hit

LossInv ==
    /\ QueueInv
    /\ \A r \in Requests : Alive(r)
    /\ \A w \in Workers, j \in Jobs : RejectedIsHit(w, j)

\* What a step leaves alone of a job.
Untouched(k) ==
    /\ queue'[k] = queue[k] /\ payload'[k] = payload[k]
    /\ \A u \in Workers : pc'[<<u, k>>] = pc[<<u, k>>] /\ hand'[<<u, k>>] = hand[<<u, k>>]

\* A step that leaves a job alone loses nothing of it.
LEMMA Elsewhere ==
    ASSUME LossInv, NEW q \in Requests, Untouched(JobOf[q]),
           request'[q] = request[q], outcome'[q] = outcome[q] \/ outcome'[q] /= None,
           hit \subseteq hit'
    PROVE  Alive(q)'
  <1>1. Has(q)' <=> Has(q)
      BY DEF Has, Untouched
  <1>2. Queued(q)' <=> Queued(q)
      BY DEF Queued, Untouched
  <1>3. \A u \in Workers : Carries(u, q)' <=> Carries(u, q)
      BY <1>1 DEF Carries, Untouched
  <1>4. Alive(q)
      BY DEF LossInv
  <1> QED
      BY <1>1, <1>2, <1>3, <1>4 DEF Alive

\* A job a worker is busy with is carried by that worker, or done, or lost.
LEMMA Carrier ==
    ASSUME LossInv, NEW q \in Requests, NEW w \in Workers, Working(w, JobOf[q])
    PROVE  /\ request[q] \notin {"new", "stored"}
           /\ request[q] = "scheduled" /\ JobOf[q] \notin hit /\ outcome[q] = None =>
                Carries(w, q) /\ w \notin rejected
           /\ \A v \in Workers \ {w} : pc[<<v, JobOf[q]>>] = "idle"
  <1>1. QueueInv /\ JobOf[q] \in Jobs
      BY JobParts DEF LossInv
  <1>2. request[q] \notin {"new", "stored"}
      BY <1>1 DEF QueueInv, Unscheduled, Working
  <1>3. /\ queue[JobOf[q]] = "absent"
        /\ \A v \in Workers \ {w} : pc[<<v, JobOf[q]>>] = "idle"
      BY <1>1 DEF QueueInv, OneHolder, Working
  <1>4. \A v \in Workers \ {w} : ~Carries(v, q)
      BY <1>1, <1>3, HandParts DEF Carries
  <1>5. w \in rejected => JobOf[q] \in hit
      BY <1>1 DEF LossInv, RejectedIsHit
  <1> QED
      BY <1>2, <1>3, <1>4, <1>5 DEF LossInv, Alive, Queued

\* The same for a step of that worker: it must carry the job on, finish it, or
\* report it lost.
LEMMA Here ==
    ASSUME LossInv, NEW q \in Requests, NEW w \in Workers, Working(w, JobOf[q]),
           UNCHANGED request, hit \subseteq hit',
           outcome'[q] = outcome[q] \/ outcome'[q] /= None,
           Carries(w, q) /\ w \notin rejected =>
               \/ Carries(w, q)' \/ Queued(q)' \/ outcome'[q] /= None \/ JobOf[q] \in hit'
    PROVE  Alive(q)'
  <1>1. /\ request[q] \notin {"new", "stored"}
        /\ request[q] = "scheduled" /\ JobOf[q] \notin hit /\ outcome[q] = None =>
             Carries(w, q) /\ w \notin rejected
      BY Carrier
  <1> QED
      BY <1>1 DEF Alive

LEMMA RequestStoresLoses ==
    ASSUME LossInv, OneRequestPerJob, NEW r \in Requests, RequestStores(r)
    PROVE  /\ \A q \in Requests : Alive(q)'
           /\ \A u \in Workers, k \in Jobs : RejectedIsHit(u, k)'
  <1> USE JobParts DEF LossInv, QueueInv, TypeOK, RequestStores, StorePayload, Content, redis, tasks, history
  <1>1. ASSUME NEW q \in Requests
        PROVE  Alive(q)'
    <2>1. CASE q = r
      <3>1. payload'[JobOf[r]] = Content(r, 0) /\ Content(r, 0) /= None
          BY RetryAssumption
      <3> QED
          BY <2>1, <3>1 DEF Alive, Has
    <2>2. CASE q /= r
      <3>1. JobOf[q] /= JobOf[r]
          BY <2>2 DEF OneRequestPerJob
      <3>2. Untouched(JobOf[q])
          BY <3>1 DEF Untouched
      <3> QED
          BY <2>2, <3>2, Elsewhere
    <2> QED
        BY <2>1, <2>2
  <1>2. ASSUME NEW u \in Workers, NEW k \in Jobs
        PROVE  RejectedIsHit(u, k)'
      BY DEF RejectedIsHit, Working
  <1> QED
      BY <1>1, <1>2

LEMMA RequestAddsLoses ==
    ASSUME LossInv, OneRequestPerJob, NEW r \in Requests, RequestAdds(r)
    PROVE  /\ \A q \in Requests : Alive(q)'
           /\ \A u \in Workers, k \in Jobs : RejectedIsHit(u, k)'
  <1> USE JobParts DEF LossInv, QueueInv, TypeOK, RequestAdds, AddDue, redis, tasks, history
  <1>1. ASSUME NEW q \in Requests
        PROVE  Alive(q)'
      BY SMTT(30), HandParts, PayloadParts DEF Alive, Has, Carries, Queued, HandFits, OneHolder, Working,
         Unscheduled, RejectedIsHit, OneRequestPerJob, Outcomes, States
  <1>2. ASSUME NEW u \in Workers, NEW k \in Jobs
        PROVE  RejectedIsHit(u, k)'
      BY DEF RejectedIsHit, Working
  <1> QED
      BY <1>1, <1>2

LEMMA RequestFailsLoses ==
    ASSUME LossInv, OneRequestPerJob, NEW r \in Requests, RequestFails(r)
    PROVE  /\ \A q \in Requests : Alive(q)'
           /\ \A u \in Workers, k \in Jobs : RejectedIsHit(u, k)'
  <1> USE JobParts DEF LossInv, QueueInv, TypeOK, RequestFails, redis, tasks, history
  <1>1. ASSUME NEW q \in Requests
        PROVE  Alive(q)'
      BY HandParts, PayloadParts DEF Alive, Has, Carries, Queued, HandFits, OneHolder, Working,
         Unscheduled, RejectedIsHit, OneRequestPerJob, Outcomes, States
  <1>2. ASSUME NEW u \in Workers, NEW k \in Jobs
        PROVE  RejectedIsHit(u, k)'
      BY DEF RejectedIsHit, Working
  <1> QED
      BY <1>1, <1>2

LEMMA FallsDueLoses ==
    ASSUME LossInv, OneRequestPerJob, NEW j \in Jobs, FallsDue(j)
    PROVE  /\ \A q \in Requests : Alive(q)'
           /\ \A u \in Workers, k \in Jobs : RejectedIsHit(u, k)'
  <1> USE JobParts DEF LossInv, QueueInv, TypeOK, FallsDue, redis, tasks, history
  <1>1. ASSUME NEW q \in Requests
        PROVE  Alive(q)'
      BY HandParts, PayloadParts DEF Alive, Has, Carries, Queued, HandFits, OneHolder, Working,
         Unscheduled, RejectedIsHit, OneRequestPerJob, Outcomes, States
  <1>2. ASSUME NEW u \in Workers, NEW k \in Jobs
        PROVE  RejectedIsHit(u, k)'
      BY DEF RejectedIsHit, Working
  <1> QED
      BY <1>1, <1>2

LEMMA ClaimLoses ==
    ASSUME LossInv, OneRequestPerJob, NEW w \in Workers, NEW batch \in SUBSET Jobs, Claim(w, batch)
    PROVE  /\ \A q \in Requests : Alive(q)'
           /\ \A u \in Workers, k \in Jobs : RejectedIsHit(u, k)'
  <1> USE JobParts DEF LossInv, QueueInv, TypeOK, Claim, Dequeued, Claimable, DueJobs, Idle, redis, tasks, history
  <1>1. ASSUME NEW q \in Requests
        PROVE  Alive(q)'
    <2>1. CASE JobOf[q] \in batch
      <3>1. queue[JobOf[q]] = "due"
          BY <2>1
      <3>2. request[q] \notin {"new", "stored"}
          BY <3>1 DEF Unscheduled
      <3>3. \A v \in Workers : pc[<<v, JobOf[q]>>] = "idle"
          BY <3>1 DEF OneHolder, Working
      <3>4. \A v \in Workers : ~Carries(v, q)
          BY <3>3, HandParts DEF Carries
      <3>5. Queued(q) => Carries(w, q)'
          BY <2>1 DEF Queued, Carries, Has
      <3> QED
          BY <3>2, <3>4, <3>5 DEF Alive
    <2>2. CASE JobOf[q] \notin batch
      <3>1. Untouched(JobOf[q])
          BY <2>2 DEF Untouched
      <3> QED
          BY <3>1, Elsewhere
    <2> QED
        BY <2>1, <2>2
  <1>2. ASSUME NEW u \in Workers, NEW k \in Jobs
        PROVE  RejectedIsHit(u, k)'
      BY DEF RejectedIsHit, Working
  <1> QED
      BY <1>1, <1>2

LEMMA ClaimReplyLostLoses ==
    ASSUME LossInv, OneRequestPerJob, NEW w \in Workers, NEW batch \in SUBSET Jobs, ClaimReplyLost(w, batch)
    PROVE  /\ \A q \in Requests : Alive(q)'
           /\ \A u \in Workers, k \in Jobs : RejectedIsHit(u, k)'
  <1> USE JobParts DEF LossInv, QueueInv, TypeOK, ClaimReplyLost, Dequeued, Claimable, DueJobs, redis, tasks, history
  <1>1. ASSUME NEW q \in Requests
        PROVE  Alive(q)'
    <2>1. CASE JobOf[q] \in batch
      <3>1. queue[JobOf[q]] = "due"
          BY <2>1
      <3>2. request[q] \notin {"new", "stored"}
          BY <3>1 DEF Unscheduled
      <3> QED
          BY <2>1, <3>2 DEF Alive
    <2>2. CASE JobOf[q] \notin batch
      <3>1. Untouched(JobOf[q])
          BY <2>2 DEF Untouched
      <3> QED
          BY <3>1, Elsewhere
    <2> QED
        BY <2>1, <2>2
  <1>2. ASSUME NEW u \in Workers, NEW k \in Jobs
        PROVE  RejectedIsHit(u, k)'
      BY DEF RejectedIsHit, Working
  <1> QED
      BY <1>1, <1>2

LEMMA ReadPayloadLoses ==
    ASSUME LossInv, OneRequestPerJob, NEW w \in Workers, NEW j \in Jobs, ReadPayload(w, j)
    PROVE  /\ \A q \in Requests : Alive(q)'
           /\ \A u \in Workers, k \in Jobs : RejectedIsHit(u, k)'
  <1> USE JobParts DEF LossInv, QueueInv, TypeOK, ReadPayload, redis, tasks, history
  <1>1. ASSUME NEW q \in Requests
        PROVE  Alive(q)'
    <2>1. CASE JobOf[q] /= j
      <3>1. Untouched(JobOf[q])
          BY <2>1 DEF Untouched
      <3> QED
          BY <2>1, <3>1, Elsewhere, HandParts, RetryAssumption DEF Outcomes
    <2>2. CASE JobOf[q] = j
      <3>1. Working(w, j)
          BY DEF Working
      <3>2. Carries(w, q) /\ w \notin rejected =>
                \/ Carries(w, q)' \/ Queued(q)' \/ outcome'[q] /= None \/ JobOf[q] \in hit'
          BY <2>2, HandParts, RetryAssumption, JobParts
             DEF Carries, Has, Queued, HandFits, Outcomes
      <3>3. outcome'[q] = outcome[q] \/ outcome'[q] /= None
          BY RetryAssumption DEF Outcomes
      <3> QED
          BY <2>2, <3>1, <3>2, <3>3, Here
    <2> QED
        BY <2>1, <2>2
  <1>2. ASSUME NEW u \in Workers, NEW k \in Jobs
        PROVE  RejectedIsHit(u, k)'
      BY DEF RejectedIsHit, Working
  <1> QED
      BY <1>1, <1>2

LEMMA DeletePayloadLoses ==
    ASSUME LossInv, OneRequestPerJob, NEW w \in Workers, NEW j \in Jobs, DeletePayload(w, j)
    PROVE  /\ \A q \in Requests : Alive(q)'
           /\ \A u \in Workers, k \in Jobs : RejectedIsHit(u, k)'
  <1> USE JobParts DEF LossInv, QueueInv, TypeOK, DeletePayload, Kept, redis, tasks, history
  <1>1. ASSUME NEW q \in Requests
        PROVE  Alive(q)'
    <2>1. CASE JobOf[q] /= j
      <3>1. Untouched(JobOf[q])
          BY <2>1 DEF Untouched
      <3> QED
          BY <2>1, <3>1, Elsewhere, HandParts, RetryAssumption DEF Outcomes
    <2>2. CASE JobOf[q] = j
      <3>1. Working(w, j)
          BY DEF Working
      <3>2. Carries(w, q) /\ w \notin rejected =>
                \/ Carries(w, q)' \/ Queued(q)' \/ outcome'[q] /= None \/ JobOf[q] \in hit'
          BY <2>2, HandParts, RetryAssumption, JobParts
             DEF Carries, Has, Queued, HandFits, Outcomes
      <3>3. outcome'[q] = outcome[q] \/ outcome'[q] /= None
          BY RetryAssumption DEF Outcomes
      <3> QED
          BY <2>2, <3>1, <3>2, <3>3, Here
    <2> QED
        BY <2>1, <2>2
  <1>2. ASSUME NEW u \in Workers, NEW k \in Jobs
        PROVE  RejectedIsHit(u, k)'
      BY DEF RejectedIsHit, Working
  <1> QED
      BY <1>1, <1>2

LEMMA FetchThrowsLoses ==
    ASSUME LossInv, OneRequestPerJob, NEW w \in Workers, NEW j \in Jobs, FetchThrows(w, j)
    PROVE  /\ \A q \in Requests : Alive(q)'
           /\ \A u \in Workers, k \in Jobs : RejectedIsHit(u, k)'
  <1> USE JobParts DEF LossInv, QueueInv, TypeOK, FetchThrows, redis, tasks, history
  <1>1. ASSUME NEW q \in Requests
        PROVE  Alive(q)'
    <2>1. CASE Working(w, JobOf[q])
      <3>1. request[q] \notin {"new", "stored"}
          BY <2>1, Carrier
      <3>2. JobOf[q] \in hit'
          BY <2>1 DEF Working
      <3> QED
          BY <3>1, <3>2 DEF Alive
    <2>2. CASE ~Working(w, JobOf[q])
      <3>1. pc[<<w, JobOf[q]>>] = "idle" /\ JobOf[q] /= j
          BY <2>2 DEF Working
      <3>2. Untouched(JobOf[q])
          BY <3>1 DEF Untouched
      <3> QED
          BY <3>2, Elsewhere
    <2> QED
        BY <2>1, <2>2
  <1>2. ASSUME NEW u \in Workers, NEW k \in Jobs
        PROVE  RejectedIsHit(u, k)'
      BY DEF RejectedIsHit, Working
  <1> QED
      BY <1>1, <1>2

LEMMA DeliveredLoses ==
    ASSUME LossInv, OneRequestPerJob, NEW w \in Workers, NEW j \in Jobs, Delivered(w, j)
    PROVE  /\ \A q \in Requests : Alive(q)'
           /\ \A u \in Workers, k \in Jobs : RejectedIsHit(u, k)'
  <1> USE JobParts DEF LossInv, QueueInv, TypeOK, Delivered, Run, Finish, PutDown, redis, tasks, history
  <1>1. ASSUME NEW q \in Requests
        PROVE  Alive(q)'
    <2>1. CASE JobOf[q] /= j
      <3>1. Untouched(JobOf[q])
          BY <2>1 DEF Untouched
      <3> QED
          BY <2>1, <3>1, Elsewhere, HandParts, RetryAssumption DEF Outcomes
    <2>2. CASE JobOf[q] = j
      <3>1. Working(w, j)
          BY DEF Working
      <3>2. Carries(w, q) /\ w \notin rejected =>
                \/ Carries(w, q)' \/ Queued(q)' \/ outcome'[q] /= None \/ JobOf[q] \in hit'
          BY <2>2, HandParts, RetryAssumption, JobParts
             DEF Carries, Has, Queued, HandFits, Outcomes
      <3>3. outcome'[q] = outcome[q] \/ outcome'[q] /= None
          BY RetryAssumption DEF Outcomes
      <3> QED
          BY <2>2, <3>1, <3>2, <3>3, Here
    <2> QED
        BY <2>1, <2>2
  <1>2. ASSUME NEW u \in Workers, NEW k \in Jobs
        PROVE  RejectedIsHit(u, k)'
      BY DEF RejectedIsHit, Working
  <1> QED
      BY <1>1, <1>2

LEMMA FailsPermanentlyLoses ==
    ASSUME LossInv, OneRequestPerJob, NEW w \in Workers, NEW j \in Jobs, FailsPermanently(w, j)
    PROVE  /\ \A q \in Requests : Alive(q)'
           /\ \A u \in Workers, k \in Jobs : RejectedIsHit(u, k)'
  <1> USE JobParts DEF LossInv, QueueInv, TypeOK, FailsPermanently, Run, Finish, PutDown, redis, tasks, history
  <1>1. ASSUME NEW q \in Requests
        PROVE  Alive(q)'
    <2>1. CASE JobOf[q] /= j
      <3>1. Untouched(JobOf[q])
          BY <2>1 DEF Untouched
      <3> QED
          BY <2>1, <3>1, Elsewhere, HandParts, RetryAssumption DEF Outcomes
    <2>2. CASE JobOf[q] = j
      <3>1. Working(w, j)
          BY DEF Working
      <3>2. Carries(w, q) /\ w \notin rejected =>
                \/ Carries(w, q)' \/ Queued(q)' \/ outcome'[q] /= None \/ JobOf[q] \in hit'
          BY <2>2, HandParts, RetryAssumption, JobParts
             DEF Carries, Has, Queued, HandFits, Outcomes
      <3>3. outcome'[q] = outcome[q] \/ outcome'[q] /= None
          BY RetryAssumption DEF Outcomes
      <3> QED
          BY <2>2, <3>1, <3>2, <3>3, Here
    <2> QED
        BY <2>1, <2>2
  <1>2. ASSUME NEW u \in Workers, NEW k \in Jobs
        PROVE  RejectedIsHit(u, k)'
      BY DEF RejectedIsHit, Working
  <1> QED
      BY <1>1, <1>2

LEMMA FailsExhaustedLoses ==
    ASSUME LossInv, OneRequestPerJob, NEW w \in Workers, NEW j \in Jobs, FailsExhausted(w, j)
    PROVE  /\ \A q \in Requests : Alive(q)'
           /\ \A u \in Workers, k \in Jobs : RejectedIsHit(u, k)'
  <1> USE JobParts DEF LossInv, QueueInv, TypeOK, FailsExhausted, Run, Finish, PutDown, redis, tasks, history
  <1>1. ASSUME NEW q \in Requests
        PROVE  Alive(q)'
    <2>1. CASE JobOf[q] /= j
      <3>1. Untouched(JobOf[q])
          BY <2>1 DEF Untouched
      <3> QED
          BY <2>1, <3>1, Elsewhere, HandParts, RetryAssumption DEF Outcomes
    <2>2. CASE JobOf[q] = j
      <3>1. Working(w, j)
          BY DEF Working
      <3>2. Carries(w, q) /\ w \notin rejected =>
                \/ Carries(w, q)' \/ Queued(q)' \/ outcome'[q] /= None \/ JobOf[q] \in hit'
          BY <2>2, HandParts, RetryAssumption, JobParts
             DEF Carries, Has, Queued, HandFits, Outcomes
      <3>3. outcome'[q] = outcome[q] \/ outcome'[q] /= None
          BY RetryAssumption DEF Outcomes
      <3> QED
          BY <2>2, <3>1, <3>2, <3>3, Here
    <2> QED
        BY <2>1, <2>2
  <1>2. ASSUME NEW u \in Workers, NEW k \in Jobs
        PROVE  RejectedIsHit(u, k)'
      BY DEF RejectedIsHit, Working
  <1> QED
      BY <1>1, <1>2

LEMMA FailsRetryableLoses ==
    ASSUME LossInv, OneRequestPerJob, NEW w \in Workers, NEW j \in Jobs, FailsRetryable(w, j)
    PROVE  /\ \A q \in Requests : Alive(q)'
           /\ \A u \in Workers, k \in Jobs : RejectedIsHit(u, k)'
  <1> USE JobParts DEF LossInv, QueueInv, TypeOK, FailsRetryable, Run, redis, tasks, history
  <1>1. ASSUME NEW q \in Requests
        PROVE  Alive(q)'
    <2>1. CASE JobOf[q] /= j
      <3>1. Untouched(JobOf[q])
          BY <2>1 DEF Untouched
      <3> QED
          BY <2>1, <3>1, Elsewhere, HandParts, RetryAssumption DEF Outcomes
    <2>2. CASE JobOf[q] = j
      <3>1. Working(w, j)
          BY DEF Working
      <3>2. Carries(w, q) /\ w \notin rejected =>
                \/ Carries(w, q)' \/ Queued(q)' \/ outcome'[q] /= None \/ JobOf[q] \in hit'
          BY <2>2, HandParts, RetryAssumption, JobParts
             DEF Carries, Has, Queued, HandFits, Outcomes
      <3>3. outcome'[q] = outcome[q] \/ outcome'[q] /= None
          BY RetryAssumption DEF Outcomes
      <3> QED
          BY <2>2, <3>1, <3>2, <3>3, Here
    <2> QED
        BY <2>1, <2>2
  <1>2. ASSUME NEW u \in Workers, NEW k \in Jobs
        PROVE  RejectedIsHit(u, k)'
      BY DEF RejectedIsHit, Working
  <1> QED
      BY <1>1, <1>2

LEMMA BudgetExhaustedLoses ==
    ASSUME LossInv, OneRequestPerJob, NEW w \in Workers, NEW j \in Jobs, BudgetExhausted(w, j)
    PROVE  /\ \A q \in Requests : Alive(q)'
           /\ \A u \in Workers, k \in Jobs : RejectedIsHit(u, k)'
  <1> USE JobParts DEF LossInv, QueueInv, TypeOK, BudgetExhausted, Finish, PutDown, redis, tasks, history
  <1>1. ASSUME NEW q \in Requests
        PROVE  Alive(q)'
    <2>1. CASE JobOf[q] /= j
      <3>1. Untouched(JobOf[q])
          BY <2>1 DEF Untouched
      <3> QED
          BY <2>1, <3>1, Elsewhere, HandParts, RetryAssumption DEF Outcomes
    <2>2. CASE JobOf[q] = j
      <3>1. Working(w, j)
          BY DEF Working
      <3>2. Carries(w, q) /\ w \notin rejected =>
                \/ Carries(w, q)' \/ Queued(q)' \/ outcome'[q] /= None \/ JobOf[q] \in hit'
          BY <2>2, HandParts, RetryAssumption, JobParts
             DEF Carries, Has, Queued, HandFits, Outcomes
      <3>3. outcome'[q] = outcome[q] \/ outcome'[q] /= None
          BY RetryAssumption DEF Outcomes
      <3> QED
          BY <2>2, <3>1, <3>2, <3>3, Here
    <2> QED
        BY <2>1, <2>2
  <1>2. ASSUME NEW u \in Workers, NEW k \in Jobs
        PROVE  RejectedIsHit(u, k)'
      BY DEF RejectedIsHit, Working
  <1> QED
      BY <1>1, <1>2

LEMMA AdmittedLoses ==
    ASSUME LossInv, OneRequestPerJob, NEW w \in Workers, NEW j \in Jobs, Admitted(w, j)
    PROVE  /\ \A q \in Requests : Alive(q)'
           /\ \A u \in Workers, k \in Jobs : RejectedIsHit(u, k)'
  <1> USE JobParts DEF LossInv, QueueInv, TypeOK, Admitted, redis, tasks, history
  <1>1. ASSUME NEW q \in Requests
        PROVE  Alive(q)'
    <2>1. CASE JobOf[q] /= j
      <3>1. Untouched(JobOf[q])
          BY <2>1 DEF Untouched
      <3> QED
          BY <2>1, <3>1, Elsewhere, HandParts, RetryAssumption DEF Outcomes
    <2>2. CASE JobOf[q] = j
      <3>1. Working(w, j)
          BY DEF Working
      <3>2. Carries(w, q) /\ w \notin rejected =>
                \/ Carries(w, q)' \/ Queued(q)' \/ outcome'[q] /= None \/ JobOf[q] \in hit'
          BY <2>2, HandParts, RetryAssumption, JobParts
             DEF Carries, Has, Queued, HandFits, Outcomes
      <3>3. outcome'[q] = outcome[q] \/ outcome'[q] /= None
          BY RetryAssumption DEF Outcomes
      <3> QED
          BY <2>2, <3>1, <3>2, <3>3, Here
    <2> QED
        BY <2>1, <2>2
  <1>2. ASSUME NEW u \in Workers, NEW k \in Jobs
        PROVE  RejectedIsHit(u, k)'
      BY DEF RejectedIsHit, Working
  <1> QED
      BY <1>1, <1>2

LEMMA RetryStoresLoses ==
    ASSUME LossInv, OneRequestPerJob, NEW w \in Workers, NEW j \in Jobs, RetryStores(w, j)
    PROVE  /\ \A q \in Requests : Alive(q)'
           /\ \A u \in Workers, k \in Jobs : RejectedIsHit(u, k)'
  <1> USE JobParts DEF LossInv, QueueInv, TypeOK, RetryStores, StorePayload, Content, redis, tasks, history
  <1>1. ASSUME NEW q \in Requests
        PROVE  Alive(q)'
    <2>1. CASE JobOf[q] /= j
      <3>1. Untouched(JobOf[q])
          BY <2>1 DEF Untouched
      <3> QED
          BY <2>1, <3>1, Elsewhere, HandParts, RetryAssumption DEF Outcomes
    <2>2. CASE JobOf[q] = j
      <3>1. Working(w, j)
          BY DEF Working
      <3>4. /\ payload'[j] /= None /\ payload'[j].request = hand[<<w, j>>].request
            /\ hand'[<<w, j>>] = hand[<<w, j>>]
        <4>1. hand[<<w, j>>] /= None
            BY DEF HandFits
        <4>2. hand[<<w, j>>].request \in Requests /\ NextAttempt(w, j) \in Nat
            BY <4>1, HandParts DEF NextAttempt
        <4>3. Content(hand[<<w, j>>].request, NextAttempt(w, j)) /= None
            BY <4>2, RetryAssumption DEF Content
        <4> QED
            BY <4>3
      <3>2. Carries(w, q) /\ w \notin rejected =>
                \/ Carries(w, q)' \/ Queued(q)' \/ outcome'[q] /= None \/ JobOf[q] \in hit'
          BY <2>2, <3>4 DEF Carries, Has
      <3>3. outcome'[q] = outcome[q] \/ outcome'[q] /= None
          BY RetryAssumption DEF Outcomes
      <3> QED
          BY <2>2, <3>1, <3>2, <3>3, Here
    <2> QED
        BY <2>1, <2>2
  <1>2. ASSUME NEW u \in Workers, NEW k \in Jobs
        PROVE  RejectedIsHit(u, k)'
      BY DEF RejectedIsHit, Working
  <1> QED
      BY <1>1, <1>2

LEMMA RetryAddsLoses ==
    ASSUME LossInv, OneRequestPerJob, NEW w \in Workers, NEW j \in Jobs, RetryAdds(w, j)
    PROVE  /\ \A q \in Requests : Alive(q)'
           /\ \A u \in Workers, k \in Jobs : RejectedIsHit(u, k)'
  <1> USE JobParts DEF LossInv, QueueInv, TypeOK, RetryAdds, AddDue, PutDown, redis, tasks, history
  <1>1. ASSUME NEW q \in Requests
        PROVE  Alive(q)'
    <2>1. CASE JobOf[q] /= j
      <3>1. Untouched(JobOf[q])
          BY <2>1 DEF Untouched
      <3> QED
          BY <2>1, <3>1, Elsewhere, HandParts, RetryAssumption DEF Outcomes
    <2>2. CASE JobOf[q] = j
      <3>1. Working(w, j)
          BY DEF Working
      <3>2. Carries(w, q) /\ w \notin rejected =>
                \/ Carries(w, q)' \/ Queued(q)' \/ outcome'[q] /= None \/ JobOf[q] \in hit'
          BY <2>2, HandParts, RetryAssumption, JobParts
             DEF Carries, Has, Queued, HandFits, Outcomes
      <3>3. outcome'[q] = outcome[q] \/ outcome'[q] /= None
          BY RetryAssumption DEF Outcomes
      <3> QED
          BY <2>2, <3>1, <3>2, <3>3, Here
    <2> QED
        BY <2>1, <2>2
  <1>2. ASSUME NEW u \in Workers, NEW k \in Jobs
        PROVE  RejectedIsHit(u, k)'
      BY DEF RejectedIsHit, Working
  <1> QED
      BY <1>1, <1>2

LEMMA ProcessThrowsLoses ==
    ASSUME LossInv, OneRequestPerJob, NEW w \in Workers, NEW j \in Jobs, ProcessThrows(w, j)
    PROVE  /\ \A q \in Requests : Alive(q)'
           /\ \A u \in Workers, k \in Jobs : RejectedIsHit(u, k)'
  <1> USE JobParts DEF LossInv, QueueInv, TypeOK, ProcessThrows, PutDown, redis, tasks, history
  <1>1. ASSUME NEW q \in Requests
        PROVE  Alive(q)'
    <2>1. CASE JobOf[q] /= j
      <3>1. Untouched(JobOf[q])
          BY <2>1 DEF Untouched
      <3> QED
          BY <2>1, <3>1, Elsewhere, HandParts, RetryAssumption DEF Outcomes
    <2>2. CASE JobOf[q] = j
      <3>1. Working(w, j)
          BY DEF Working, Run
      <3>2. Carries(w, q) /\ w \notin rejected =>
                \/ Carries(w, q)' \/ Queued(q)' \/ outcome'[q] /= None \/ JobOf[q] \in hit'
          BY <2>2, HandParts, RetryAssumption, JobParts
             DEF Carries, Has, Queued, HandFits, Outcomes
      <3>3. outcome'[q] = outcome[q] \/ outcome'[q] /= None
          BY RetryAssumption DEF Outcomes
      <3> QED
          BY <2>2, <3>1, <3>2, <3>3, Here
    <2> QED
        BY <2>1, <2>2
  <1>2. ASSUME NEW u \in Workers, NEW k \in Jobs
        PROVE  RejectedIsHit(u, k)'
      BY DEF RejectedIsHit, Working
  <1> QED
      BY <1>1, <1>2

LEMMA CrashLoses ==
    ASSUME LossInv, OneRequestPerJob, NEW w \in Workers, Crash(w)
    PROVE  /\ \A q \in Requests : Alive(q)'
           /\ \A u \in Workers, k \in Jobs : RejectedIsHit(u, k)'
  <1> USE JobParts DEF LossInv, QueueInv, TypeOK, Crash, redis, tasks, history
  <1>1. ASSUME NEW q \in Requests
        PROVE  Alive(q)'
    <2>1. CASE Working(w, JobOf[q])
      <3>1. request[q] \notin {"new", "stored"}
          BY <2>1, Carrier
      <3>2. JobOf[q] \in hit'
          BY <2>1 DEF Working
      <3> QED
          BY <3>1, <3>2 DEF Alive
    <2>2. CASE ~Working(w, JobOf[q])
      <3>1. pc[<<w, JobOf[q]>>] = "idle" /\ hand[<<w, JobOf[q]>>] = None
          BY <2>2 DEF Working, HandFits
      <3>2. Untouched(JobOf[q])
          BY <3>1 DEF Untouched
      <3> QED
          BY <3>2, Elsewhere
    <2> QED
        BY <2>1, <2>2
  <1>2. ASSUME NEW u \in Workers, NEW k \in Jobs
        PROVE  RejectedIsHit(u, k)'
      BY DEF RejectedIsHit, Working
  <1> QED
      BY <1>1, <1>2

LEMMA InitLoss == Init => LossInv
  <1> SUFFICES ASSUME Init PROVE LossInv
      OBVIOUS
  <1>1. QueueInv
      BY InitQueue
  <1>2. \A r \in Requests : Alive(r)
      BY DEF Init, Alive
  <1>3. \A w \in Workers, j \in Jobs : RejectedIsHit(w, j)
      BY DEF Init, RejectedIsHit
  <1> QED
      BY <1>1, <1>2, <1>3 DEF LossInv

LEMMA LossStep ==
    ASSUME LossInv, OneRequestPerJob, [Next]_vars
    PROVE  LossInv'
  <1>0. QueueInv'
      BY QueueStep DEF LossInv
  <1>1. CASE UNCHANGED vars
      BY <1>0, <1>1 DEF LossInv, vars, redis, tasks, history, Alive, Has, Carries, Queued,
                        RejectedIsHit, Working
  <1>2. CASE \E r \in Requests : RequestStores(r) \/ RequestAdds(r) \/ RequestFails(r)
      BY <1>0, <1>2, RequestStoresLoses, RequestAddsLoses, RequestFailsLoses DEF LossInv
  <1>3. CASE \E j \in Jobs : FallsDue(j)
      BY <1>0, <1>3, FallsDueLoses DEF LossInv
  <1>4. CASE \E w \in Workers : Claims(w) \/ Crash(w)
      BY <1>0, <1>4, ClaimLoses, ClaimReplyLostLoses, CrashLoses DEF Claims, LossInv
  <1>5. CASE \E w \in Workers, j \in Jobs : Fetch(w, j)
      BY <1>0, <1>5, ReadPayloadLoses, DeletePayloadLoses, FetchThrowsLoses DEF Fetch, LossInv
  <1>6. CASE \E w \in Workers, j \in Jobs : Process(w, j)
    <2>1. PICK w \in Workers, j \in Jobs : Process(w, j)
        BY <1>6
    <2>2. /\ \A q \in Requests : Alive(q)'
          /\ \A u \in Workers, k \in Jobs : RejectedIsHit(u, k)'
        BY <2>1, DeliveredLoses, FailsPermanentlyLoses, FailsExhaustedLoses, FailsRetryableLoses,
           BudgetExhaustedLoses, AdmittedLoses, RetryStoresLoses, RetryAddsLoses,
           ProcessThrowsLoses
           DEF Process
    <2> QED
        BY <1>0, <2>2 DEF LossInv
  <1> QED
      BY <1>1, <1>2, <1>3, <1>4, <1>5, <1>6 DEF Next

\* A fault loses no more than the batch it hits: any other job whose schedule
\* returned is queued with its payload, in a worker's hand, or has its outcome,
\* after any number of claims, retries and faults (claimDue and process).
THEOREM OnlyTheBatchIsLost == OneRequestPerJob /\ Spec => []NothingElseLost
  <1> SUFFICES ASSUME OneRequestPerJob
               PROVE  Spec => []NothingElseLost
      OBVIOUS
  <1>1. LossInv /\ [Next]_vars => LossInv'
      BY LossStep
  <1>2. LossInv => NothingElseLost
      BY DEF LossInv, Alive, Carries, Has, NothingElseLost, InHand
  <1> QED
      BY <1>1, <1>2, InitLoss, PTL DEF Spec
=============================================================================
