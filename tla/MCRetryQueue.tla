---------------------------- MODULE MCRetryQueue ----------------------------
EXTENDS RetryQueue, TLC

CONSTANTS j1, j2, j3, r1, r2, r3

\* One request for each job; the batch limit is smaller than the queue.
MCOneEach == (r1 :> j1) @@ (r2 :> j2) @@ (r3 :> j3)

\* Jobs of a low priority and one with one retry more.
MCRetries == (j1 :> 1) @@ (j2 :> 2) @@ (j3 :> 1)
=============================================================================
