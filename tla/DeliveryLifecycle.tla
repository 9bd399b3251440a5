------------------------- MODULE DeliveryLifecycle --------------------------
(***************************************************************************)
(* The status of one notification row and the three transactions of the    *)
(* code that move it: a provider callback (delivery/acknowledgements.ts),  *)
(* the dead-letter consumer (dlq/consumer.ts) and an operator resolving a  *)
(* dead letter (dlq/service.ts).                                           *)
(*                                                                         *)
(* Each is a Prisma $transaction on PostgreSQL at READ COMMITTED: its      *)
(* reads are steps of their own that see what is committed at that moment, *)
(* its writes become visible together when it commits.  No statement locks *)
(* a row it reads, and no update is conditional on what was read.          *)
(***************************************************************************)
EXTENDS Naturals, Sequences, FiniteSets

CONSTANTS
    Handlers,       \* requests to POST /provider-callbacks being served
    Consumers,      \* runs of DeadLetterQueueConsumer.consume
    Operators,      \* requests to resolve a dead letter being served
    Callbacks,      \* the callbacks the provider has for this notification
    CallbackStatus, \* per callback: its normalized status
    RetryCount,     \* per consumer: the retries its message has used
    MaxRetries,     \* the retries its policy allows
    MaxOpen,        \* how many transactions may overlap: 1 serialises them
    MaxEntries,     \* bound: dead letters ever created
    None            \* no callback and no status

Statuses == {"QUEUED", "SENT", "DELIVERED", "READ", "FAILED", "BOUNCED", "DLQ"}
Transactions == Handlers \cup Consumers \cup Operators

ASSUME LifecycleAssumption ==
    /\ CallbackStatus \in [Callbacks -> Statuses \ {"DLQ"}]
    /\ RetryCount \in [Consumers -> Nat]
    /\ {MaxRetries, MaxOpen, MaxEntries} \subseteq Nat
    /\ Handlers \cap Consumers = {}
    /\ (Handlers \cup Consumers) \cap Operators = {}
    /\ None \notin Callbacks \cup Statuses

VARIABLES
    status,     \* Notification.status
    linked,     \* whether the row carries the provider's externalId
    acks,       \* DeliveryAcknowledgement: the callbacks stored
    entries,    \* DeadLetterQueue: per entry, whether it is resolved
    log,        \* NotificationStateLog: its last row
    pc,         \* per transaction: "idle", "started" (after its first read)
                \* or "ready" (after its last one)
    arg,        \* per transaction: its callback or entry, None otherwise
    seen,       \* per transaction: the status it read, None if no row matched
    applied,    \* history, per callback: how often it changed the row
    overlaps    \* history: which transactions ran at the same time

rows == <<status, linked, acks, entries, log>>
local == <<pc, arg, seen>>
history == <<applied, overlaps>>
vars == <<rows, local, history>>

\* applied counts up to this bound: one more than is ever right.
MaxApplied == 2

\* Two of one kind ran at once, or two of different kinds did.
OverlapKinds == {"callbacks", "consumers", "operators", "mixed"}

Args == Callbacks \cup {None} \cup (1..MaxEntries)

TypeOK ==
    /\ status \in Statuses
    /\ linked \in BOOLEAN
    /\ acks \subseteq Callbacks
    /\ entries \in Seq(BOOLEAN)
    /\ log \in [from : Statuses, to : Statuses]
    /\ pc \in [Transactions -> {"idle", "started", "ready"}]
    /\ arg \in [Transactions -> Args]
    /\ seen \in [Transactions -> Statuses \cup {None}]
    /\ applied \in [Callbacks -> 0..MaxApplied]
    /\ overlaps \subseteq OverlapKinds

\* The notification has been queued for delivery.
Init ==
    /\ status = "QUEUED"
    /\ linked = FALSE
    /\ acks = {}
    /\ entries = <<>>
    /\ log = [from |-> "QUEUED", to |-> "QUEUED"]
    /\ pc = [t \in Transactions |-> "idle"]
    /\ arg = [t \in Transactions |-> None]
    /\ seen = [t \in Transactions |-> None]
    /\ applied = [c \in Callbacks |-> 0]
    /\ overlaps = {}

Open == {t \in Transactions : pc[t] # "idle"}
Unresolved == {i \in DOMAIN entries : ~entries[i]}

-----------------------------------------------------------------------------
(* Transactions *)

Kind(t) ==
    IF t \in Handlers THEN "callbacks" ELSE IF t \in Consumers THEN "consumers" ELSE "operators"

\* What a step of that kind overlaps with now.
Overlapping(kind) == {IF Kind(u) = kind THEN kind ELSE "mixed" : u \in Open}

Begin(t, next, a, s) ==
    /\ pc[t] = "idle"
    /\ Cardinality(Open) < MaxOpen
    /\ overlaps' = overlaps \cup Overlapping(Kind(t))
    /\ pc' = [pc EXCEPT ![t] = next]
    /\ arg' = [arg EXCEPT ![t] = a]
    /\ seen' = [seen EXCEPT ![t] = s]

Read(t, s) ==
    /\ pc' = [pc EXCEPT ![t] = "ready"]
    /\ seen' = [seen EXCEPT ![t] = s]
    /\ UNCHANGED arg

End(t) ==
    /\ pc' = [pc EXCEPT ![t] = "idle"]
    /\ arg' = [arg EXCEPT ![t] = None]
    /\ seen' = [seen EXCEPT ![t] = None]

\* The update of the row together with the state log row of the same step.
Move(from, to) ==
    /\ status' = to
    /\ log' = [from |-> from, to |-> to]

\* A transaction fails or its process dies: nothing of it is kept.
Rollback(t) ==
    /\ pc[t] # "idle"
    /\ End(t)
    /\ UNCHANGED <<rows, history>>

-----------------------------------------------------------------------------
(* DeliveryAcknowledgementService.record *)

\* STATE_RANK; a status without a rank counts as 0.
Rank(s) ==
    CASE s = "QUEUED" -> 1 [] s = "SENT" -> 2 [] s = "DELIVERED" -> 3 [] s = "READ" -> 4
      [] OTHER -> 0

\* Mutant of ShouldApply: FAILED is applied whatever was confirmed.
ShouldApplyFailure(current, incoming) ==
    /\ current \notin {"READ", "DLQ"}
    /\ \/ incoming \in {"FAILED", "BOUNCED"}
       \/ Rank(incoming) > Rank(current)

\* Mutant of ShouldApply: a dead letter is not protected from callbacks.
ShouldApplyToDlq(current, incoming) ==
    /\ current # "READ"
    /\ IF incoming \in {"FAILED", "BOUNCED"}
       THEN current # "DELIVERED"
       ELSE Rank(incoming) > Rank(current)

ShouldApply(current, incoming) ==
    /\ current \notin {"READ", "DLQ"}
    /\ IF incoming \in {"FAILED", "BOUNCED"}
       THEN current # "DELIVERED"
       ELSE Rank(incoming) > Rank(current)

\* A callback arrives and its duplicate is looked for.
CallbackArrives(h, c) ==
    /\ c \notin acks
    /\ Begin(h, "started", c, None)
    /\ UNCHANGED <<rows, applied>>

\* The row with the provider's externalId is read, if there is one yet.
CallbackReadsRow(h) ==
    /\ pc[h] = "started"
    /\ Read(h, IF linked THEN status ELSE None)
    /\ UNCHANGED <<rows, history>>

\* Mutant of Stores: nothing makes (provider, callbackId) unique.
StoresAlways(h) == acks' = acks \cup {arg[h]}

\* The unique index lets one transaction store a callback.
Stores(h) == arg[h] \notin acks /\ acks' = acks \cup {arg[h]}

\* A stored callback that matched no row, or does not advance it.
CallbackOnlyStored(h) ==
    /\ pc[h] = "ready"
    /\ seen[h] = None \/ ~ShouldApply(seen[h], CallbackStatus[arg[h]])
    /\ Stores(h)
    /\ End(h)
    /\ UNCHANGED <<status, linked, entries, log, history>>

\* Mutant of CallbackApplied: the state log always names SENT.
CallbackAppliedFromSent(h) ==
    /\ pc[h] = "ready"
    /\ seen[h] # None
    /\ ShouldApply(seen[h], CallbackStatus[arg[h]])
    /\ Stores(h)
    /\ Move("SENT", CallbackStatus[arg[h]])
    /\ applied' = [applied EXCEPT ![arg[h]] = IF @ < MaxApplied THEN @ + 1 ELSE @]
    /\ End(h)
    /\ UNCHANGED <<linked, entries, overlaps>>

CallbackApplied(h) ==
    /\ pc[h] = "ready"
    /\ seen[h] # None
    /\ ShouldApply(seen[h], CallbackStatus[arg[h]])
    /\ Stores(h)
    /\ Move(seen[h], CallbackStatus[arg[h]])
    /\ applied' = [applied EXCEPT ![arg[h]] = IF @ < MaxApplied THEN @ + 1 ELSE @]
    /\ End(h)
    /\ UNCHANGED <<linked, entries, overlaps>>

-----------------------------------------------------------------------------
(* DeadLetterQueueConsumer.consume *)

Exhausted(c) == RetryCount[c] >= MaxRetries

\* The notification is read; an earlier message throws RetryNotExhausted.
ConsumeReadsRow(c) ==
    /\ Exhausted(c)
    /\ Len(entries) + Cardinality(Open \cap Consumers) < MaxEntries
    /\ Begin(c, "started", None, status)
    /\ UNCHANGED <<rows, applied>>

\* An unresolved entry makes the message ALREADY_ENQUEUED.
ConsumeFindsEntry(c) ==
    /\ pc[c] = "started"
    /\ Unresolved # {}
    /\ End(c)
    /\ UNCHANGED <<rows, history>>

ConsumeFindsNone(c) ==
    /\ pc[c] = "started"
    /\ Unresolved = {}
    /\ Read(c, seen[c])
    /\ UNCHANGED <<rows, history>>

\* The entry is created and the row set to DLQ, whatever it is by now.
ConsumeEnqueues(c) ==
    /\ pc[c] = "ready"
    /\ entries' = Append(entries, FALSE)
    /\ Move(seen[c], "DLQ")
    /\ End(c)
    /\ UNCHANGED <<linked, acks, history>>

-----------------------------------------------------------------------------
(* DeadLetterQueueDashboardService.resolve *)

\* The entry is read; a resolved one throws DlqEntryResolved.
ResolveReadsEntry(o, i) ==
    /\ i \in Unresolved
    /\ Begin(o, "ready", i, None)
    /\ UNCHANGED <<rows, applied>>

\* Mutant of ResolveCommits: RETRY resolves the entry only.
ResolveKeepsRow(o, to) ==
    /\ pc[o] = "ready"
    /\ entries' = [entries EXCEPT ![arg[o]] = TRUE]
    /\ IF to = "QUEUED" THEN UNCHANGED <<status, log>> ELSE Move("DLQ", to)
    /\ End(o)
    /\ UNCHANGED <<linked, acks, history>>

\* RETRY queues the notification again, DISCARD fails it.  The state log
\* always names DLQ as the status it came from.
ResolveCommits(o, to) ==
    /\ pc[o] = "ready"
    /\ entries' = [entries EXCEPT ![arg[o]] = TRUE]
    /\ Move("DLQ", to)
    /\ End(o)
    /\ UNCHANGED <<linked, acks, history>>

-----------------------------------------------------------------------------
(* The delivery worker, outside this repository's code: it hands a queued  *)
(* notification to a provider and records the provider's externalId.       *)

WorkerSends ==
    /\ status = "QUEUED"
    /\ Cardinality(Open) < MaxOpen
    /\ \E to \in {"SENT", "FAILED"} :
          /\ Move("QUEUED", to)
          /\ linked' = (linked \/ to = "SENT")
    /\ overlaps' = overlaps \cup Overlapping("worker")
    /\ UNCHANGED <<acks, entries, local, applied>>

Callback(h) ==
    \/ \E c \in Callbacks : CallbackArrives(h, c)
    \/ CallbackReadsRow(h) \/ CallbackOnlyStored(h) \/ CallbackApplied(h)

Consume(c) ==
    ConsumeReadsRow(c) \/ ConsumeFindsEntry(c) \/ ConsumeFindsNone(c) \/ ConsumeEnqueues(c)

Resolve(o) ==
    \/ \E i \in 1..MaxEntries : ResolveReadsEntry(o, i)
    \/ \E to \in {"QUEUED", "FAILED"} : ResolveCommits(o, to)

Next ==
    \/ \E h \in Handlers : Callback(h)
    \/ \E c \in Consumers : Consume(c)
    \/ \E o \in Operators : Resolve(o)
    \/ \E t \in Transactions : Rollback(t)
    \/ WorkerSends

Spec == Init /\ [][Next]_vars

-----------------------------------------------------------------------------
(* Properties *)

\* However often and however concurrently a provider redelivers a callback,
\* it changes the notification at most once.
AppliedOnce == \A c \in Callbacks : applied[c] <= 1

\* A notification that is in the dead-letter state has an unresolved entry
\* an operator can act on, under every interleaving of consumers, operators
\* and callbacks: none is stranded in DLQ.
NoStrandedDeadLetter == status = "DLQ" => Unresolved # {}

\* "exactly once": as long as no two runs of the consumer overlap, a
\* notification never has two unresolved dead letters.  As long as only
\* callbacks meet callbacks and operators meet operators, an unresolved entry
\* and the DLQ status come and go together.
OneOpenEntry ==
    /\ "consumers" \notin overlaps => Cardinality(Unresolved) <= 1
    /\ overlaps \subseteq {"callbacks", "operators"} => (Unresolved # {} => status = "DLQ")

\* A callback never takes back a confirmed delivery: DELIVERED only moves on
\* to READ, and READ stays, while the callbacks of the notification are handled
\* one at a time, whatever consumers and operators do meanwhile.
ConfirmedStaysAlone ==
    [][\A h \in Handlers :
          CallbackApplied(h) /\ "callbacks" \notin overlaps =>
              status # "READ" /\ (status = "DELIVERED" => status' = "READ")]_vars

\* "Every state transition must be recorded": without overlaps, the log row
\* written with a change of the status says from which status to which it
\* went, and the rows form an unbroken chain.
TransitionsLogged ==
    [][overlaps' = {} /\ status' # status =>
          log' = [from |-> status, to |-> status'] /\ log.to = status]_vars
=============================================================================
