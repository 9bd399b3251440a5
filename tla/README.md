# Verification of the notification engine

TLA+ specifications of the stateful parts of the notification engine, the TLC
runs that check them on small instances, and TLAPS proofs of the theorems that
matter most. Source paths are relative to the repository's root; the code is
under `src/`, its documentation under `docs/`.

A module is translated from the code. Where a doc, a comment or a test of the
repository promises something else than the code does, section 4 says so.

## 1. Inventory

The engine takes events from Kafka, removes duplicates, finds the recipient's
preferences, routes the notification to channels, sends it through providers,
and tracks it until it is delivered, dead or given up.

```
 Kafka -> consumer -> pipeline (dedup, enrich, route) -> dispatch -> failover -> resilience -> provider
                                                           |                                      |
                 preferences, compliance gates ------------+        retry queue <-- failure ------+
                                                                         |                        |
                                                 dead letters <-- retries exhausted     callbacks (webhooks)
                                                        \                                        /
                                                         +------- Notification row (Postgres) --+
```

| Component | State | Operations | Interacts with | What is hard |
|---|---|---|---|---|
| Failover and idempotent send `providers/provider-failover.ts` | Redis key per idempotency key | claim (SET NX EX), lookup, provider chain, complete, release | Redis, the providers, other workers | many workers, crashes, lost replies, claims that expire |
| Resilience `providers/provider-resilience.ts` | rate window, circuit record, performance samples per provider | tryAcquire, recordSuccess, recordFailure, open, record | the provider it wraps, the clock | concurrent calls around one `await`, late answers |
| Delivery acknowledgements `delivery/acknowledgements.ts` | acknowledgement rows, `Notification.status`, state log | record | provider webhooks, Postgres | duplicates, any order, READ COMMITTED |
| Dead-letter queue `dlq/consumer.ts`, `dlq/service.ts` | dead-letter rows, `Notification.status`, state log | consume, resolve | retry outcomes, operators | check-then-create, two operators, callbacks meanwhile |
| Ingestion `kafka/consumer.ts`, `kafka/pipeline.ts`, `deduplication/service.ts` | committed offsets, deduplication keys | eachMessage, isDuplicate, process, commit | Kafka, Redis, enrichment, routing | crashes, rebalances, swallowed errors |
| Retry scheduling `retry/redis-scheduler.ts`, `retry/worker.ts`, `retry/priority-policy.ts` | sorted set and payload hash | schedule, claimDue, process | Redis, the retry gate, delivery | a claim that is four commands, lost batches |
| Retry backoff `retry/backoff.ts` | none | delay of an attempt | retry worker | overflow, caps |
| Retry budget, frequency caps `retry/budget.ts`, `compliance/frequency-cap.ts` | counters with expiry in Redis | check and count in a Lua script | retry worker, dispatch | windows by one clock, expiry by another; all dimensions or none |
| Digest and quiet-hours queues `preferences/digest.ts`, `compliance/quiet-hours-queue.ts` | lists and an index set in Redis | queue, drain | dispatch, schedulers | LRANGE and DEL are two commands |
| Preferences and cache `preferences/service.ts`, `cache.ts`, `defaults.ts`, `analytics.ts` | preference rows, cached copies, change counters | get, update, invalidate | Postgres, Redis | a stale copy written after the invalidation; default rows that shadow an opt-out |
| Preference resolution `preferences/resolver.ts` | none | resolve | enrichment, routing | precedence of rules |
| Consent, DND, SMS gate `compliance/consent.ts`, `dnd.ts`, `sms-dispatch.ts` | consent rows, audit log, DND cache | record, check, dispatch | Postgres, an external registry | a "fresh" lookup answered from a cache; concurrent records |
| Quiet hours and bypass `compliance/quiet-hours.ts`, `critical-quiet-hours-bypass.ts`, `classification.ts` | audit row | is it quiet, until when | dispatch | windows over midnight, time zones |
| Enrichment, channel policy `enrichment/` | none | enrich | preferences | reads only |
| Routing and dispatch `routing/` | none between calls | rank, fail over, fan out | resilient providers | concurrent partial failure |
| Provider adapters and health `providers/*-provider.ts`, `provider-health.ts` | connections | send, check | the providers | what a lost or odd answer counts as |
| Callback API `delivery/api.ts`, `callbacks.ts` | none | parse, normalise | acknowledgements | - |
| DLQ alerting `dlq/alerting.ts` | suppression key | evaluate | dead-letter count, e-mail | concurrent evaluations |
| DLQ classification and API `dlq/classifier.ts`, `api.ts` | none | classify, list, resolve | the dead-letter service | - |
| Event production `kafka/producer.ts`, `kafka/avro.ts`, `events/` | none | make, encode, publish, validate | Kafka | six hand-written tables of 25 events that must agree |
| Delivery analytics `analytics/` | counters | record, query | send | an error in metrics after a successful send |
| Templates `templates/` | registry | render, choose variant and locale | routing | fallback chains; fields a schema admits and a template refuses |
| HTTP API `api/`, `preferences/api.ts` | rate-limit counters | requests | everything | burst at a window boundary |
| Observability, shutdown `observability/` | shutdown phase | shutdown | all long-lived parts | a task that hangs |

What makes the parts correct, in a sentence each:

- **Failover:** one message has one sender at a time and one final verdict in
  the life of its record; a caller is told "delivered" only if a provider took
  the message; a second send has one of four causes.
- **Resilience:** the breaker probes one call at a time, is never stuck
  half-open, opens at its threshold and is tried again after it opened.
- **Acknowledgements and dead letters:** a callback is applied once, a
  confirmed delivery is not taken back, every dead letter has one open entry
  and every notification in DLQ has one, the state log is the history.
- **Ingestion:** an event is processed once, a commit passes only handled
  messages, no message blocks its partition.
- **Retry:** a job has one holder, its attempts are counted, none is lost, each
  reaches an outcome.
- **Queues of deferred messages:** an item is delivered once, and nothing is
  lost but what a fault hit.
- **Content:** an event reaches the consumer as it was produced; an admitted
  one can be rendered; quiet hours are kept unless the bypass is logged; what
  regulation makes mandatory cannot be blocked as promotional.
- **Preferences and routing:** routes follow the user's settings and
  regulation; the cache and the audit logs tell the truth about the rows.
- **Quotas:** no counter passes its limit, a denied request is counted nowhere.
- **Dispatch:** a route is told "delivered" only if the message was taken, or
  the reply only looks like it (section 4), one channel takes it, and the metrics count what the caller was told.
- **SMS gate:** no promotional SMS to a number registered for longer than a
  cached answer lives.

The hazards behind these, each with its line, are in `PROJECT.json`.

## 2. Modules and their correspondence to the code

| Module | Models | State | Actions |
|---|---|---|---|
| `SendOnce` | what sending promises, whatever the number of workers | per key a sender and a verdict | Begin, Decide, End, Forget |
| `ProviderFailover` | `ProviderFailoverService.send` of several workers and its Redis store | `store`: the Redis values; `pc`, `key`, `pos`, `outcome`: each call's await and locals; history of verdicts and of what callers were told | one action per await and its result, including the throwing ones; Crash; Expire (TTL) |
| `ProviderFailoverProofs` | - | - | type correctness, exclusion, truth of "delivered" and of records, one verdict, refinement of `SendOnce` |
| `ProviderResilience` | `ResilientDeliveryProvider.send`, its limiter, breaker and monitor | one record each, the calls in flight; clock readings as ticks since a timestamp | SendRejected, SendAdmitted (up to the await), Answer (after it), Tick |
| `ProviderResilienceProofs` | - | - | type correctness, the breaker's discipline |
| `DeliveryLifecycle` | `record`, `consume` and `resolve` on one notification row | `status`, `linked`, `acks`, `entries`, last `log` row; what each open transaction has read | begin, read and commit of each transaction, Rollback; WorkerSends is external |
| `DeliveryLifecycleProofs` | - | - | callbacks applied once, no stranded dead letter, the guarantees without overlap |
| `EventIngestion` | `eachMessage`, the pipeline, `isDuplicate` | offsets, deduplication keys, the position of each worker | Assign, Revoke, Heartbeat, Crash (KafkaJS and processes), Receive to Commit, each failing step |
| `EventIngestionProofs` | - | - | processed once, what a commit passes |
| `RetryQueue` | `schedule`, `claimDue`, `process` | sorted set, payload hash, each worker's batch | one action per Redis command and per outcome |
| `RetryQueueProofs` | - | - | one holder, attempts counted, what a fault may lose |
| `DeferredQueue` | the digest and the quiet-hours morning queue, one delivery window | per user a list and its TTL, the index set; the state of each call of `queue` and `drain` | one action per Redis command, each failing one, Expire |
| `DeferredQueueProofs` | - | - | what may be lost, no item returned twice |
| `EventCatalogue` | the tables of the 25 events: types, schemas, factory, copy, channel policy, classification | - | - |
| `NotificationContent` | one event from its producer to classification, quiet hours and rendering | the event as produced, as a Kafka message, as consumed; the last question and answer; the bypass log | Create/Produce, Publish, Consume, ClassifyEvent, AskQuietHours, AuditBypass (or its failure), Render |
| `PreferenceRouting` | preferences, consents and the routing of one user's events | rows, cache, consents and their log; what each call carries over its awaits; the last decision | read and commit of each transaction, cache writes, invalidation, each failing one; Route |
| `WindowedQuota` | retry budget, frequency caps, API limiter | counters with their expiry, the clock readings under way, API buckets | ReadClock (up to the script), Grant, Refuse, ScriptFails; Allow; Tick |
| `ChannelDispatch` | ranked failover and fan-out over the five adapters, the metrics wrapper | per route how far it is, its result, what the outside did, its counters | NoRecipient, NoProvider, Begin (up to the adapter's await), Answer, Record and its failures |
| `DndGate` | the do-not-disturb gate of an SMS, its cache and registry | the registry, the cache entry, each dispatch | one action per command, each failing one |
| `DispatchProofs` | - | - | of `WindowedQuota`, `ChannelDispatch` and `DndGate`: the counters stand for the grants, the API's burst, what a dispatch says and counts, how stale the gate's answer can be |
| `PreferenceProofs` | - | - | of `PreferenceRouting` and `NotificationContent`: cache, logs, routes; what is carried, admitted, classified, rendered and deferred |
| `MC*` | instances for TLC | - | - |

`DeliveryLifecycle` composes three source files on one row, and
`PreferenceRouting` composes preferences, resolution, scoring and routing,
because the hazards are between them. `SendOnce` is the abstract specification
`ProviderFailover` implements under the mapping `senderBar`, `verdictBar`: the
abstract sender of a key is the worker between a granted claim and the end of
its call, the verdict is what a provider decided in the life of the record.

Abstractions common to all modules: data that no property tells apart is a
model value; a delivery result is one of delivered, permanent failure or
retryable failure (in `ChannelDispatch`: what an adapter makes of one of nine
kinds of replies); a Redis value is what its reader makes of it. The value of an
event's field is one of a dozen kinds (ordinary, empty, zero, negative, not
finite, ...), as the schemas, JSON and the templates tell them apart; what the
source writes by hand per event is written by hand per event in
`EventCatalogue`, so that the tables can disagree. A JavaScript
function runs without interruption between two awaits, so the code between two
awaits is one action. A Lua script is one action. A Prisma `$transaction` runs
at PostgreSQL's default level, READ COMMITTED: a read sees what is committed at
that moment and takes no lock, the writes appear together at the commit, and
only the unique index on (provider, callbackId) rejects one.

History variables (`accepted`, `exposed`, `told`, `straggler`, `applied`, `overlaps`,
`processed`, `handled`, `orphaned`, `failed`, `runs`, `hit`, `delivered`, `early`,
`swept`, `dropped`, `overlap`, `wishes`, `crossed`, `mixed`, `granted`, `lags`,
`served`, `taken`, `reply`, `metricsFailed`, `lastOther`) are never read by
an action of the code; they let an invariant speak about the past.

## 3. Runs

| Run | Instance | Distinct states | Shows |
|---|---|---|---|
| `FailoverClaims` | 2 workers, 3 keys (two providers, one provider that is not configured, no plan), crashes | 38 thousand | exclusion, one verdict per message, stored results are true, `SendOnce` is implemented |
| `FailoverFaults` | 3 workers, 1 key, all five faults | 0.3 million | `DeliveredIsTrue`, `RepeatsAreExplained` |
| `ResilienceBreaker` | 3 callers, threshold, cooldown, windows of 2, latencies to 3 | 162 thousand | `ProbeDiscipline`; `Recovers` under fairness |
| `LifecycleOverlaps` | 2 callback requests for 4 callbacks, 3 dead-letter messages, 2 operators, any two transactions overlapping | 1.8 million (symmetry) | `AppliedOnce`, `NoStrandedDeadLetter` under every overlap; which overlap each other guarantee must be free of |
| `IngestionFaults` | 2 workers, 2 partitions, a copy of one event on both, a broken message, all six faults | 236 thousand | `ProcessedOnce`, `CommittedIsHandled`; `Drains` under fairness |
| `RetryFaults` | 2 workers, 3 jobs, batches of 2, 1 or 2 retries, all five faults | 84 thousand | `OneHolder`, `AttemptsCountRuns`, `NothingElseLost`; `Finishes` under fairness |
| `DeferredFaults` | 3 items of 2 users, 2 drains, the first without bob's timezone, all three faults | 0.6 million | `NothingElseLost`, `DeliveredOnce`; `Delivers` under fairness |
| `ContentFlow` | all 25 events, each field in turn at every value of its type, each priority; 4 windows, 9 clock changes, hours as slots; 2 languages beside English, 3 stocks of templates, 8 lengths of an SMS | 0.34 million | `ConsumedAsProduced`, `AdmittedRenders`, `MandatoryIsTransactional`, `QuietHoursKept` |
| `SettingsAndRoutes` | 2 calls at once, 5 edits, 3 event types, all segments and priorities, 3 performances, 2 row orders | 0.25 million | `RoutedAsWished`, `CacheIsCurrent`, `LogsAreTrue` |
| `QuotaWindows` | 2 callers with different clocks, 2 requests, 2 dimensions (one shared), limits of 2, one delay of a tick; 2 API clients | 0.3 million | no counter above its limit, `CountsGrants`, `ApiBurst` |
| `DispatchAndDnd` | 3 plans of two channels, every recipient, registration and reply; 2 SMS dispatches, a cache life of one tick | 4.6 million | `DispatchIsTrue`, `DndIsKept` |
| `IngestionSwallowed` | violation | | `FailedStaysUncommitted` |

Every property of a passing run has a mutant in `PROJECT.json`: a plausible bug
in a modelled operation under which TLC finds the property violated.

**Bounds.** `MaxVerdicts`, `MaxApplied`, `MaxProcessed` and `MaxDelivered` (2) cap history
counters one above the largest right value, so a violation still shows.
`MaxOpen` (2) is the number of transactions that overlap: every race in the
code is between two of them. `MaxEntries` (2) lets a second dead letter follow
a resolved one, or exist beside an open one. `MaxMoves` (1) is the number of
crashes and rebalances: one is enough for a message to be handled by an old
and a new owner of its partition. From the new generation on the old owner's
commits are rejected, but it goes on with its batch until a heartbeat tells it. `MaxLatency` (3) is longer than the cooldown,
so an answer may come after the circuit was opened and tried again. Two workers
suffice for each race over Redis: the code only ever compares a call with one
other, and the theorems hold for any number of them. `MaxConsents` (3) lets a
consent follow two that overlapped. `Horizon`, `Buckets` and `MaxDelay` let a call
read its clock in one window and run its script in the next, and a counter
expire between two such calls; `ApiCeiling` is one above the limit. `DndHorizon`
(3) is the largest lag of an answer: the property is violated with a lag one
shorter. `DaySlots` (24) makes a slot of the quiet hours an hour; the code's
minutes behave alike, and the search of 1560 minutes is 26 slots. In
`NotificationContent` one field at a time is odd, because schemas and templates
look at each field by itself. Symmetry is used in runs without liveness
properties only.

**Deadlock** is checked except in the modules that really may stop: all
callbacks stored, all partitions drained, all jobs finished, all drains
returned, an event refused or answered, a dispatch told, the horizon reached.

**Fairness.** `ProviderFailover` has none: it claims no progress, and that a
claim ends is the work of the TTL alone. `ProviderResilience`: time passes, provider
calls end, and notifications for the provider keep coming; the last comes from
outside the code, and without it nothing could reopen a circuit.
`EventIngestion`: the group assigns every partition and KafkaJS runs a started
`eachMessage` to its end. `RetryQueue`: time passes, a started `schedule` and
`process` go on, and some worker keeps calling `claimDue`; that loop is outside
`src/`, whose scheduler and worker it would drive. `DeferredQueue`: the delivery
time comes, each drain is called and runs on; who queues need not go on.

**What the conditional properties say.** Several guarantees hold only while
something does not happen, and the property names it:

| Property | holds unless |
|---|---|
| `ProbeDiscipline` (one probe at a time) | the answer of a call admitted before the circuit opened arrives meanwhile |
| `RepeatsAreExplained` (one sender and one verdict under every fault) | on that key a claim ran out under a running worker, a client threw after its provider took the message, a final result was not stored, or the reply to the settling command was lost |
| `OneOpenEntry` | runs of `consume` overlap: two that do both find no entry and both create one; that an open entry means a row in DLQ: unless different transactions overlap |
| `ConfirmedStaysAlone`, `TransitionsLogged` | callbacks, or any transactions, overlap |
| `CommittedIsHandled` | the handling of that very event threw or died |
| `NothingElseLost`, `Finishes` (retry) | a fault hit the job's batch |
| `NothingElseLost`, `DeliveredOnce` (deferred) | the item was pushed between the LRANGE and the DEL of a drain; drains overlap |
| `CacheIsCurrent` | a `get` loaded before an update committed and wrote after it, an invalidation failed, or one is due |
| `LogsAreTrue` | two calls read the previous value before either committed |
| `CountsGrants` | two callers of one counter had different lags between clock and script |
| `DispatchIsTrue` | a reply left in doubt whether the message was taken, or the metrics failed after it; for "delivered means taken": Twilio answered with a message that had failed, or no socket was in the room |
| `DndIsKept` | the registry changed within the life of an answer and the length of two dispatches |

Without its condition TLC finds a counterexample to each.

## 4. What disagrees with the code

A violation run shows the one that a reader should be able to replay:

- `IngestionSwallowed`: `eachMessage` swallows exceptions, so a later commit
  passes the failed message; the comment at `kafka/consumer.ts:192` says it
  "remains uncommitted and can be processed again".

Found while modelling; the condition of the property named marks the place:

- When `complete` fails after a provider accepted the message, the catch block
  releases the key and the next call sends it again
  (`provider-failover.ts:147`); `docs/event-processing-pipeline.md:469` says the
  check "prevents the same notification from being delivered multiple times"
  (`OneVerdict` holds with crashes as the only fault).
- `recordFailure` clears the probe mark whoever failed
  (`provider-resilience.ts:212`): the late failure of a call admitted before the
  circuit opened lets a second probe through beside the first; the class comment
  says "one-probe HALF_OPEN" (`ProbeDiscipline`).
- The decision to apply a callback uses a status that may be replaced before
  the commit, and the update is unconditional (`acknowledgements.ts:144`): FAILED
  may replace a DELIVERED committed meanwhile; the comment at line 104 says
  out-of-order webhooks are safe (`ConfirmedStaysAlone`).
- The delete of a claimed payload (`redis-scheduler.ts:66`) also deletes one
  stored since: schedule between the HGET and the HDEL of an older claim, and the
  queued job is later dropped; a test promises that rescheduling updates the job.
- The `*` row of a category the user turns off is shadowed for default channels
  by the rows `ensureDefaultPreferences` makes in the same transaction
  (`preferences/service.ts:98`): the channel is still routed, and
  `RoutedAsWished` has that written into it. The resolver by itself does let a
  category row switch a default channel off, as its test at
  `preferences/__tests__/resolver.test.ts:56` says.
- The comment at `routing/scoring.ts:25` says cost only breaks ties; at NORMAL
  and lower priority the cost of an SMS outweighs most of a delivery rate.
- `sms-dispatch.ts:33` speaks of "a fresh DND lookup"; it may be answered from a
  cache of 900 seconds (`DndIsKept` bounds the age).
- `consume` writes DLQ over whatever status the row has, DELIVERED included
  (`dlq/consumer.ts:151`); no property forbids it.
- An answer of Twilio with an id is ACCEPTED whatever its status
  (`twilio-sms-provider.ts:92`), one that is already "failed", "undelivered" or
  "canceled" too, and an emit to a room without sockets is SENT
  (`socketio-in-app-provider.ts:67`): the route counts as delivered and failover
  stops (`Hollow` in `DispatchIsTrue`).
- `analytics/realtime.ts:70` says one metric per attempt, and a test that metrics
  do not change the result; when Redis fails after a successful send, an exception
  is thrown, two metrics may be counted, and failover sends on the next channel
  (`DispatchIsTrue`).
- An exception of a provider is retryable in `channel-failover.ts:72` and not in
  `fanout.ts:88`; a rate limit is retryable with Twilio and WhatsApp and not with
  FCM; a success without an id is a failure that is not retryable although the
  message was perhaps sent.
- Dates are `z.string()` without a minimum (`events/schemas.ts`), and the
  templates of their events refuse an empty one; a user's empty name passes
  `??` and is refused, too (`AdmittedRenders`).
- `findResumeAt` looks 26 hours ahead and throws when a window leaves less free
  time than the clock is put on (`QuietHoursKept`).
- `digestMode`, `quietHoursOverride` and `priorityOverride` are resolved and have no
  effect on the routes; `enrich` reads rows without ORDER BY, so channels of equal
  score may change places (`MCRowOrders`).

## 5. Proofs

A theorem holds for every value of the constants that satisfies the assumption
its module states (the sorts of the constants, nothing more, where no other
condition is named here). Each rests on an inductive invariant; the text says
why it is needed.

**`ProviderFailover`**, for any workers, keys, providers, plans and faults:

- `TypeCorrect`: `Spec => []TypeOK`. Inductive invariant `TypeInv`: `TypeOK` and
  `KeyOfCall`, a call in flight has a key; without it the updates at `key[w]`
  could not be typed.
- `Exclusion`: if replies are not lost and claims outlive their sends
  (`ReliableClaims`), `OneSender` and `SenderOwnsClaim` hold. The two need each
  other: a step of one sender keeps the other's claim only because the keys
  differ, and keys stay different because a claim in the store denies the NX.
- `DeliveredTruth`: `DeliveredIsTrue` under every fault. `TruthInv` adds that a
  stored "delivered" and a worker that is about to report one both stand for an
  acceptance.
- `RepeatsExplained`: under every fault, `RepeatsAreExplained`. `RepeatInv` adds,
  for a key none of the four named events has hit, that a worker which may still
  get a verdict, or is about to give up its claim, has none yet (`Pending`), and
  that a key without a record has no verdict (`Sound`). The theorems that exclude
  faults leave open what each fault does; this one says that no crash, failed
  claim, failed lookup or failed release leads to a second send.
- `RecordTruth`: if replies are not lost and claims outlive their sends,
  `RecordIsTrue`. `RecordInv` adds to exclusion that a worker about to record a
  verdict got it from a provider, or found none to ask, since it took its claim.
- `OneVerdictHolds`: with crashes as the only fault, `OneVerdict`. `VerdictInv`
  adds to exclusion that a key without a record has no verdict, and that a
  worker which may still call a provider, or is about to give up its claim, has
  none either.
- `SendImplementsSendOnce`: with crashes as the only fault, the whole refinement
  `Spec => Abstract!Spec`; `StepSimulation` maps every action to a step of
  `SendOnce` or to a stutter, from `VerdictInv`.

The exclusions are needed: with a refused SET TLC finds two verdicts, and with
lost replies it refutes `Exclusive`.

**`ProviderResilience`**, for any callers, thresholds, windows and latencies:

- `BreakerIsSound`: `ProbeDiscipline`. `BreakerInv` says who is the probe: as
  long as no late answer interfered, a call in flight that was admitted as a
  probe is the only one, and there is none unless the circuit is half-open.
  Without that, an answer could not be told from one of an older probe.
- `TypeCorrect`: `TypeOK`, inductive as it stands, in it that a rate window passes
  no more than its requests and that no retained sample is older than the
  rolling window. `RetainedSamples` shows the latter of the filter in `record`.

**`DeliveryLifecycle`**, for any callbacks, consumers, operators and entries:

- `TypeCorrect`, `CallbackAppliedOnce`, `DeadLetterIsOpen` under every overlap;
  `EntryIsSingle`, `ConfirmedStays`, `LogIsTrue` under the overlaps each allows.
  `LifeInv` says what an open transaction still knows when it commits: two
  transactions of a kind that has not overlapped are not open together (`Apart`),
  a consumer about to create an entry has no rival (`SingleEntry`), an operator
  works on the only open entry (`EntryIsKnown`), and a status that was read is
  still the status, or has not become a confirmed delivery (`StatusIsSeen`,
  `ConfirmationIsSeen`).

**`EventIngestion`**, for any workers, partitions, messages and all six faults:

- `TypeCorrect`, `RoutedOnce` (`ProcessedOnce`), `NothingSkipped`
  (`CommittedIsHandled`). `IngestInv`: at most one worker has claimed an event, and
  it holds the key; a key stands for an event that is handled, in hand or lost to
  a fault; everything below a worker's position is accounted for,
  because a commit takes the position of its worker, whatever the group had
  committed before.

**`RetryQueue`**, for any jobs, workers, retry limits, claim limit and all five
faults, if each job is scheduled by one request (`OneRequestPerJob`; section 4
has what a second one does):

- `TypeCorrect`, `HeldByOne`, `AttemptsAreRuns`. `QueueInv` adds what a worker's
  hand and the hash hold at every step of `process`: the payload is gone while the
  job is being run, and its attempts are one behind the runs from a failure until
  the retry is stored.
- `OnlyTheBatchIsLost`: `NothingElseLost`. `LossInv` adds where each job is: one
  that no fault hit is queued with its payload, carried by the worker that claimed
  it, or finished; and a batch whose `claimDue` threw is hit as a whole.

**`DeferredQueue`**, for any users, items, drains, timezones and all three faults,
and any number of calls at once:

- `TypeCorrect`, `OnlyFaultsLose` (`NothingElseLost`), `ReturnedOnce`
  (`DeliveredOnce`). `DeferredInv` says how far a drain is with each user
  (`DrainFits`): what it has read and not yet deleted holds every item queued in
  time, and what it has deleted is in no list. `Accounted` follows an item from
  its push to the digest; `Once`, while drains do not overlap, keeps an item that
  was returned out of every list and hand.

**`PreferenceRouting`**, for any overlapping calls, edits, performances (a rate of
0 to 100, any latency) and row orders (any order of all channels), with every
failing command:

- `CacheFollowsRows` (`CacheIsCurrent`) and `LogsTellTheTruth` (`LogsAreTrue`).
  `RoutingInv` says what a call carries over its awaits (`CallIsTrue`): as long as
  no other call committed meanwhile, a `get` holds the rows as they are, an
  `update` the previous values and a consent the latest one. Without it nothing
  is known of what the call writes. `CacheIsTrue` and `LogIsTrue` say the same of
  the cached copy and of the audit log once such a call has ended.
- `RoutesFollowWishes` (`RoutedAsWished`). `RowsAreWishes` is what the routes need
  of the rows: each is what the user set last, or the default. The rest is about
  one call of `route`, and rests on three facts about its lists: what a filter of a
  list keeps (`KeptList`), that a channel's place in the ranking is the number of
  those before it (`Places`), and that the ranked list is therefore one of all
  and only the allowed channels, best first (`RankedRoutes`).

**`NotificationContent`**, for any languages, stocks of templates, SMS lengths and
limit, and for any day, windows and clock changes, if the search for the end of
quiet hours looks ahead at least a day (1560 minutes are more than 1440):

- `EventsArriveAsProduced` (`ConsumedAsProduced`). `CarriageInv` says what the
  encoding relies on (`Carriable`): the base fields are there, each with a value of
  its kind. `BaseNames` shows that a payload field takes the name of a base field
  only where both are texts, `SamplesAdmitted` that the factory fills in every
  field a schema lists with a value its check lets pass, table by table, and
  `Carried` what the two conversions make of a field. That the Avro name of an
  event type gives the type back is a computation on 25 strings: the module states
  it as the closed assumption `AvroNames`, which TLC evaluates completely.
- `MandatoryStaysTransactional`, `AdmittedEventsRender`. `AdmissionInv`: what a
  service is asked about passed the schema. `CopyChecked` compares the copy of all
  25 events with their schemas: every field a text names is required and cannot
  be empty, but for dates.
- `QuietHoursAreKept` (`QuietHoursKept`). `BypassInv` ties the decision and the log to
  the request. The argument counts positions in a window instead of slots of the
  day (`WithinIsInSlots`), so that a window over midnight is an interval like any
  other; `WindowEnds` shows that a window which leaves more time than the clock is
  put on ends within a day.

**`WindowedQuota`**, for any callers, clocks, dimensions, windows and limits:

- `QuotaTypeCorrect` (no counter passes its limit) and `GrantsAreCounted`
  (`CountsGrants`). `QuotaInv` adds `Faithful`: a counter whose callers all had one
  lag between clock and script does not expire before the last of them could
  count on it, so it is never restarted within its window.
- `BurstIsBounded` (`ApiBurst`). `ApiInv` says, with running sums of the requests
  served (`Sums`), that the bucket counts all that was served since it was opened,
  that a window before it passed no more than the limit, and that no more than
  twice the limit was served in any window's length;
  `ServedIsDifference` shows that the sum over a window is a difference of two.

**`ChannelDispatch`**, for any plans, recipients, registrations and replies, with
or without metrics:

- `DispatchTellsTheTruth` (`DispatchIsTrue`). `DispatchInv` says of each route what is
  known at each of its places: an adapter's answer is true of the outside
  (`AnswerIsTrue`), nothing is counted before it is recorded, and after a failure of
  the metrics only a reply in doubt leaves a message taken and not told.
  `TriedInTurn` says that a ranked route is called once those before it have failed.

**`DndGate`**, for any dispatches, life of the cache and delays:

- `GateIsRecent`: `DndIsKept`. `DndInv` bounds the age of what is stored: a cached
  answer that is wrong was right when its writer began, and so was the answer a
  call took from the cache before it decides.

Every safety property the passing runs check is the subject of a theorem. Only
model-checked are the liveness properties `Recovers`, `Drains`, `Finishes` and
`Delivers`: fairness and ENABLED are beyond the prover.

**How the proofs deal with lists and sums.** A recursive function of a model (the
filters `Kept` and `Retained`, `ServedFrom`) is shown to exist, and to do what
is claimed, with the least number for which the claim would fail (`LeastNumber`,
from the library's well-founded order of the numbers); the induction theorems
themselves take an operator, which the provers cannot instantiate. The models
keep to what the provers see through: filters as recursive functions and not
`SelectSeq`, tables joined with `++` of `EventCatalogue` and not with `@@`. The
catalogue's tables are compared group by group (`TableOfGroups`).

## 6. Plan

1. Done: the modules of section 2.
2. Next to model: `DlqAlerting` (one suppression key under concurrent
   evaluations), then the composition of retry outcomes with the dead-letter
   consumer, once the repository has code that connects them.
3. Next to prove: the converse of `LogsAreTrue` for an overlap (which entry may be
   wrong, and how), and that `DispatchInv` and `RoutingInv` compose: a route taken
   from a decision is sent to an allowed channel only.

## 7. Not modelled, and why

- Pure I/O or text: HTTP routers and OpenAPI, provider configuration, quotas and
  status lookups, the text engine and its helpers, logging, health probes.
- Read-only counting: sliding windows, time series, cost, dashboards, the
  rankings of preference changes.
- Random or floating-point: retry backoff with jitter, the weighted choice of a
  template variant. The other modules only use that a delay is not negative.
- The parsing of callbacks and of failure codes: tables whose result,
  `record()` or `consume()`, is modelled.
- DLQ alerting and graceful shutdown: small state machines whose failures reach
  operators only; their hazards are listed without a property.
- The delivery worker is described in the repository's docs only;
  `DeliveryLifecycle` models the one step the code depends on and marks it
  external.
