--------------------------- MODULE EventIngestion ---------------------------
(***************************************************************************)
(* The Kafka consumer group of the engine (kafka/consumer.ts), the         *)
(* pipeline each message goes through (kafka/pipeline.ts) and the Redis    *)
(* deduplication it starts with (deduplication/service.ts).                *)
(*                                                                         *)
(* A partition is a fixed sequence of messages.  A message is abstracted   *)
(* to its deduplication key, idempotencyKey or else eventId; two messages  *)
(* with one key are two copies of one event.  KafkaJS hands the messages   *)
(* of a partition to its owner one after the other, and goes on to the     *)
(* next when eachMessage returns, which it always does.                    *)
(***************************************************************************)
EXTENDS Naturals, Sequences

CONSTANTS
    Workers,        \* processes of the consumer group
    Partitions,     \* partitions of notification-events and -critical
    Events,         \* deduplication keys
    Valid,          \* the events whose messages decode and validate
    Messages,       \* per partition: its messages, in offset order
    Faults,         \* what may go wrong, a subset of FaultKinds
    MaxMoves,       \* bound: crashes and rebalances together
    None            \* not a worker

(***************************************************************************)
(* crash      a worker dies; its partitions are assigned again             *)
(* rebalance  a partition moves although its worker still runs             *)
(* fail       enrichment or routing throws                                 *)
(* redis      the deduplication command throws, applied or not             *)
(* commit     the offset commit throws                                     *)
(* expiry     a deduplication key reaches its time to live                 *)
(***************************************************************************)
FaultKinds == {"crash", "rebalance", "fail", "redis", "commit", "expiry"}

ASSUME IngestionAssumption ==
    /\ Valid \subseteq Events
    /\ Messages \in [Partitions -> Seq(Events)]
    /\ Faults \subseteq FaultKinds
    /\ MaxMoves \in Nat
    /\ None \notin Workers

VARIABLES
    owner,      \* per partition: the worker it is assigned to, or None
    committed,  \* per partition: the position the group resumes from
    dedup,      \* the deduplication keys in Redis
    pc,         \* per worker and partition: where eachMessage is
    pos,        \* per worker and partition: the position being consumed
    fenced,     \* the workers that lost a partition and do not know it yet
    processed,  \* history, per event: routed how often in the life of its key
    handled,    \* history: the events routed at least once
    failed,     \* history: the positions whose handling threw
    orphaned,   \* history: the events whose key was set by a handling that
                \* threw or died before the event was routed
    moves       \* how many crashes and rebalances there were

broker == <<owner, committed, moves>>
history == <<processed, handled, failed, orphaned>>
vars == <<broker, dedup, pc, pos, fenced, history>>

MaxProcessed == 2   \* processed counts up to this bound

Positions(p) == 1..Len(Messages[p])
Event(w, p) == Messages[p][pos[<<w, p>>]]
Tasks == Workers \X Partitions
InHand(e) == \E w \in Workers, p \in Partitions : pc[<<w, p>>] = "claimed" /\ Event(w, p) = e

TypeOK ==
    /\ owner \in [Partitions -> Workers \cup {None}]
    /\ committed \in [Partitions -> Nat]
    /\ \A p \in Partitions : committed[p] \in 1..Len(Messages[p]) + 1
    /\ dedup \subseteq Events
    /\ pc \in [Tasks -> {"idle", "received", "claimed", "done"}]
    /\ pos \in [Tasks -> Nat]
    /\ fenced \subseteq Tasks
    /\ processed \in [Events -> 0..MaxProcessed]
    /\ handled \subseteq Events
    /\ failed \subseteq Partitions \X Nat
    /\ orphaned \subseteq Events
    /\ moves \in 0..MaxMoves

Init ==
    /\ owner = [p \in Partitions |-> None]
    /\ committed = [p \in Partitions |-> 1]
    /\ dedup = {}
    /\ pc = [t \in Tasks |-> "idle"]
    /\ pos = [t \in Tasks |-> 1]
    /\ fenced = {}
    /\ processed = [e \in Events |-> 0]
    /\ handled = {}
    /\ failed = {}
    /\ orphaned = {}
    /\ moves = 0

-----------------------------------------------------------------------------
(* The consumer group, as KafkaJS and the brokers run it *)

\* A partition without a live owner is assigned and read from its commit.
Assign(w, p) ==
    /\ owner[p] = None
    /\ pc[<<w, p>>] = "idle"
    /\ owner' = [owner EXCEPT ![p] = w]
    /\ pos' = [pos EXCEPT ![<<w, p>>] = committed[p]]
    /\ fenced' = fenced \ {<<w, p>>}
    /\ UNCHANGED <<committed, moves, dedup, pc, history>>

\* A new generation of the group begins without this owner, which still runs.
\* The coordinator takes no commit of the older generation from now on; the
\* worker does not know that yet, and goes on with the batch it has fetched.
Revoke(p) ==
    /\ "rebalance" \in Faults
    /\ owner[p] # None
    /\ moves < MaxMoves
    /\ moves' = moves + 1
    /\ owner' = [owner EXCEPT ![p] = None]
    /\ fenced' = fenced \cup {<<owner[p], p>>}
    /\ UNCHANGED <<committed, dedup, pc, pos, history>>

\* KafkaJS sends a heartbeat between two messages: its answer tells the
\* worker of the rebalance, and it drops the rest of the batch.
Heartbeat(w, p) ==
    /\ <<w, p>> \in fenced
    /\ pc[<<w, p>>] = "idle"
    /\ fenced' = fenced \ {<<w, p>>}
    /\ UNCHANGED <<broker, dedup, pc, pos, history>>

Crash(w) ==
    /\ "crash" \in Faults
    /\ moves < MaxMoves
    /\ moves' = moves + 1
    /\ owner' = [p \in Partitions |-> IF owner[p] = w THEN None ELSE owner[p]]
    /\ pc' = [t \in Tasks |-> IF t[1] = w THEN "idle" ELSE pc[t]]
    /\ pos' = [t \in Tasks |-> IF t[1] = w THEN 1 ELSE pos[t]]
    /\ fenced' = {t \in fenced : t[1] # w}
    /\ orphaned' = orphaned \cup {Event(w, p) : p \in {q \in Partitions : pc[<<w, q>>] = "claimed"}}
    /\ UNCHANGED <<committed, dedup, processed, handled, failed>>

\* The next message of the worker's own partition, or of one it has lost.
Receive(w, p) ==
    /\ owner[p] = w \/ <<w, p>> \in fenced
    /\ pc[<<w, p>>] = "idle"
    /\ pos[<<w, p>>] \in Positions(p)
    /\ pc' = [pc EXCEPT ![<<w, p>>] = "received"]
    /\ UNCHANGED <<broker, dedup, pos, fenced, history>>

-----------------------------------------------------------------------------
(* eachMessage *)

\* eachMessage returns: the worker goes on to the next message.
GoOn(w, p) ==
    /\ pc' = [pc EXCEPT ![<<w, p>>] = "idle"]
    /\ pos' = [pos EXCEPT ![<<w, p>>] = @ + 1]

\* Mutant of Swallow: the exception reaches KafkaJS, which retries the message.
SwallowNot(w, p) ==
    /\ pc' = [pc EXCEPT ![<<w, p>>] = "idle"]
    /\ failed' = failed \cup {<<p, pos[<<w, p>>]>>}
    /\ UNCHANGED <<pos, processed, handled>>

\* catch: the error is logged, nothing is committed, nothing rethrown.
Swallow(w, p) ==
    /\ GoOn(w, p)
    /\ failed' = failed \cup {<<p, pos[<<w, p>>]>>}
    /\ UNCHANGED <<processed, handled>>

\* The message has no value, does not decode or does not validate.
Invalid(w, p) ==
    /\ pc[<<w, p>>] = "received"
    /\ Event(w, p) \notin Valid
    /\ Swallow(w, p)
    /\ UNCHANGED <<broker, dedup, fenced, orphaned>>

\* Mutant of Claim: SET without NX reports every event as new.
ClaimAlways(w, p) ==
    /\ pc[<<w, p>>] = "received"
    /\ Event(w, p) \in Valid
    /\ dedup' = dedup \cup {Event(w, p)}
    /\ pc' = [pc EXCEPT ![<<w, p>>] = "claimed"]
    /\ UNCHANGED <<broker, pos, fenced, history>>

\* Mutant of Claim: the pipeline is not awaited, the commit goes first.
ClaimNotAwaited(w, p) ==
    /\ pc[<<w, p>>] = "received"
    /\ Event(w, p) \in Valid \ dedup
    /\ dedup' = dedup \cup {Event(w, p)}
    /\ pc' = [pc EXCEPT ![<<w, p>>] = "done"]
    /\ UNCHANGED <<broker, pos, fenced, history>>

\* isDuplicate: SET NX creates the key, before the event is processed.
Claim(w, p) ==
    /\ pc[<<w, p>>] = "received"
    /\ Event(w, p) \in Valid \ dedup
    /\ dedup' = dedup \cup {Event(w, p)}
    /\ pc' = [pc EXCEPT ![<<w, p>>] = "claimed"]
    /\ UNCHANGED <<broker, pos, fenced, history>>

\* isDuplicate: the key exists and the message is skipped as processed.
Duplicate(w, p) ==
    /\ pc[<<w, p>>] = "received"
    /\ Event(w, p) \in Valid \cap dedup
    /\ pc' = [pc EXCEPT ![<<w, p>>] = "done"]
    /\ UNCHANGED <<broker, dedup, pos, fenced, history>>

DedupThrows(w, p) ==
    /\ pc[<<w, p>>] = "received"
    /\ "redis" \in Faults
    /\ Event(w, p) \in Valid
    /\ \/ UNCHANGED <<dedup, orphaned>>
       \/ /\ Event(w, p) \notin dedup
          /\ dedup' = dedup \cup {Event(w, p)}
          /\ orphaned' = orphaned \cup {Event(w, p)}
    /\ Swallow(w, p)
    /\ UNCHANGED <<broker, fenced>>

\* enrich and route succeed.
Process(w, p) ==
    /\ pc[<<w, p>>] = "claimed"
    /\ processed' = [processed EXCEPT ![Event(w, p)] = IF @ < MaxProcessed THEN @ + 1 ELSE @]
    /\ handled' = handled \cup {Event(w, p)}
    /\ pc' = [pc EXCEPT ![<<w, p>>] = "done"]
    /\ UNCHANGED <<broker, dedup, pos, fenced, failed, orphaned>>

ProcessThrows(w, p) ==
    /\ pc[<<w, p>>] = "claimed"
    /\ "fail" \in Faults
    /\ orphaned' = orphaned \cup {Event(w, p)}
    /\ Swallow(w, p)
    /\ UNCHANGED <<broker, dedup, fenced>>

\* Mutant of CommittedAfter: the position after the next message.
CommittedTooFar(w, p) == pos[<<w, p>>] + 2

CommittedAfter(w, p) == pos[<<w, p>>] + 1

\* commitOffsets with the offset after the message.
Commit(w, p) ==
    /\ pc[<<w, p>>] = "done"
    /\ <<w, p>> \notin fenced
    /\ committed' = [committed EXCEPT ![p] = CommittedAfter(w, p)]
    /\ GoOn(w, p)
    /\ UNCHANGED <<owner, moves, dedup, fenced, history>>

\* The commit throws, always so for a worker of an older generation.
CommitThrows(w, p) ==
    /\ pc[<<w, p>>] = "done"
    /\ <<w, p>> \in fenced \/ "commit" \in Faults
    /\ Swallow(w, p)
    /\ UNCHANGED <<broker, dedup, fenced, orphaned>>

\* EX ttl: Redis forgets a deduplication key, a day after it was set and so
\* never while its message is still in hand.
Expire(e) ==
    /\ "expiry" \in Faults
    /\ e \in dedup
    /\ ~InHand(e)
    /\ dedup' = dedup \ {e}
    /\ processed' = [processed EXCEPT ![e] = 0]
    /\ UNCHANGED <<broker, pc, pos, fenced, handled, failed, orphaned>>

EachMessage(w, p) ==
    \/ Receive(w, p) \/ Invalid(w, p)
    \/ Claim(w, p) \/ Duplicate(w, p) \/ DedupThrows(w, p)
    \/ Process(w, p) \/ ProcessThrows(w, p)
    \/ Commit(w, p) \/ CommitThrows(w, p)

Next ==
    \/ \E w \in Workers, p \in Partitions : Assign(w, p) \/ Heartbeat(w, p) \/ EachMessage(w, p)
    \/ \E p \in Partitions : Revoke(p)
    \/ \E w \in Workers : Crash(w)
    \/ \E e \in Events : Expire(e)

Spec == Init /\ [][Next]_vars

\* The group assigns every partition, and a worker goes on with its messages.
\* Nothing says when a worker learns that it has lost a partition.
Fairness ==
    /\ \A p \in Partitions : WF_vars(\E w \in Workers : Assign(w, p))
    /\ \A w \in Workers, p \in Partitions : WF_vars(EachMessage(w, p))

FairSpec == Spec /\ Fairness

-----------------------------------------------------------------------------
(* Properties *)

Committed(p) == 1..committed[p] - 1

\* While its key lives an event is processed at most once, whatever copies
\* of it there are, on whatever partitions, workers and redeliveries.
ProcessedOnce == \A e \in Events : processed[e] <= 1

\* A committed message is never lost without a fault of its own handling:
\* its event has been routed, is in some worker's hands, or a handling threw
\* or died before the routing.  Rebalances, copies, expired keys and faults
\* that hit other messages never make the commit pass an event nobody routed.
CommittedIsHandled ==
    \A p \in Partitions : \A i \in Committed(p) :
        Messages[p][i] \in Valid =>
            \/ Messages[p][i] \in handled \cup orphaned
            \/ <<p, i>> \in failed
            \/ InHand(Messages[p][i])

\* "The message therefore remains uncommitted and can be processed again":
\* the commit does not pass a valid message whose handling threw.
FailedStaysUncommitted ==
    \A p \in Partitions : \A i \in Committed(p) :
        Messages[p][i] \in Valid /\ <<p, i>> \in failed => Messages[p][i] \in handled

\* No message, however broken, and no fault before it holds up a partition:
\* the commit gets past the last message unless that one is itself invalid or
\* its handling throws.
Drains ==
    \A p \in Partitions :
        Messages[p] # <<>> /\ Messages[p][Len(Messages[p])] \in Valid =>
            <>(\/ committed[p] = Len(Messages[p]) + 1
               \/ <<p, Len(Messages[p])>> \in failed)
=============================================================================
