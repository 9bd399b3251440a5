-------------------------- MODULE PreferenceRouting --------------------------
(***************************************************************************)
(* What one user has set, and the routes an event of theirs is given:      *)
(* preferences with their Redis cache and change counters                  *)
(* (preferences/service.ts, cache.ts, defaults.ts, analytics.ts), consent  *)
(* with its audit log (compliance/consent.ts), and the path of an event    *)
(* through preference resolution, enrichment, scoring and routing.         *)
(*                                                                         *)
(* Calls of the services overlap; a database transaction (READ COMMITTED)  *)
(* is a step that reads and a step that commits.  A preference is for one  *)
(* event type, or with "*" for a category: its scope.  Of a preference     *)
(* only whether it is enabled is kept: digest mode, priority and           *)
(* quiet-hours override have no effect on resolution or routing.  Calls    *)
(* for a user who does not exist change nothing and are left out.          *)
(***************************************************************************)
EXTENDS EventCatalogue, Naturals, Functions

CONSTANTS
    Calls,          \* calls of the services that may be under way at once
    RoutedTypes,    \* the event types that have preferences and are routed
    Edits,          \* what one update may set: functions from scope, channel
    Performances,   \* measured performance per channel, some without one
    RowOrders,      \* the orders the database may return rows in, by channel
    MaxConsents,    \* bound: consents recorded before the last one begins
    None

AllChannels == {"SMS", "EMAIL", "PUSH", "WHATSAPP", "IN_APP"}
Segments == {"STANDARD", "PREMIUM", "ACTIVE_TRADER", "PASSIVE_INVESTOR"}

Scopes == RoutedTypes \cup {Category(t) : t \in RoutedTypes}
Keys == Scopes \X AllChannels
Settings == [Keys -> {"absent", "on", "off"}]

ASSUME RoutingAssumption ==
    /\ RoutedTypes \subseteq EventTypes
    /\ \A edit \in Edits : DOMAIN edit \subseteq Keys /\ Range(edit) \subseteq {"on", "off"}
    /\ \A p \in Performances :
        /\ DOMAIN p \subseteq AllChannels
        /\ \A c \in DOMAIN p : p[c].rate \in 0..100 /\ p[c].latency \in Nat
    /\ \A o \in RowOrders :
        o \in Seq(AllChannels) /\ IsInjective(o) /\ Range(o) = AllChannels

VARIABLES
    rows,       \* the user's preference rows
    cache,      \* what Redis holds of them, or None
    consents,   \* consent records, as committed
    consentLog, \* their audit entries
    pc, hand,   \* where each call is and what it carries
    decision,   \* the last routing decision, until something else happens
    wishes,     \* history: what the user set, by key
    crossed,    \* history: calls during which another one committed
    mixed       \* history: "consents" once a crossed one committed, "cache" when
                \* its content is of a crossed get or escaped an invalidation

vars == <<rows, cache, consents, consentLog, pc, hand, decision,
          wishes, crossed, mixed>>

Init ==
    /\ rows = [k \in Keys |-> "absent"] /\ wishes = rows
    /\ cache = None
    /\ consents = <<>> /\ consentLog = <<>>
    /\ pc = [c \in Calls |-> "idle"] /\ hand = [c \in Calls |-> None]
    /\ decision = None
    /\ crossed = {} /\ mixed = {}

-----------------------------------------------------------------------------
Goto(c, label, carried) ==
    /\ pc' = [pc EXCEPT ![c] = label]
    /\ hand' = [hand EXCEPT ![c] = carried]
    /\ decision' = None

Return(c) == Goto(c, "idle", None) /\ crossed' = crossed \ {c}

\* Another call's commit crosses every call at one of the labels.
Cross(c, labels) ==
    crossed' = (crossed \ {c}) \cup {d \in Calls \ {c} : pc[d] \in labels}

UnchangedStore == UNCHANGED <<rows, consents, consentLog, wishes>>

\* Preferences and consents share no state and are looked at one or the other.
AboutPreferences(c) == pc[c] = "idle" /\ consents = <<>> /\ \A d \in Calls : pc[d] /= "consenting"
AboutConsents(c) ==
    /\ pc[c] = "idle" /\ rows = [k \in Keys |-> "absent"]
    /\ \A d \in Calls : pc[d] \in {"idle", "consenting"}

DefaultRows ==
    [k \in Keys |->
        IF k[1] \in RoutedTypes /\ k[2] \in Range(ChannelPolicy[k[1]].defaultChannels)
        THEN "on" ELSE "absent"]

\* The rows after ensureDefaultPreferences: the defaults, once, as rows.
EnsureDefaultPreferences(r) ==
    IF \E k \in Keys : r[k] /= "absent" THEN r ELSE DefaultRows

-----------------------------------------------------------------------------
(* PreferenceService.get.  A hit in the cache returns it and changes       *)
(* nothing; a cache that fails is a miss.                                  *)

\* One step for the three commands of load: rows that are found are one read; if
\* there are none, createMany is one INSERT that skips the rows there are, so the
\* read after it sees what any other creator or update has committed by then, and
\* no row is ever deleted.
Load(c) ==
    /\ AboutPreferences(c)
    /\ rows' = EnsureDefaultPreferences(rows)
    /\ Goto(c, "writing", rows')
    /\ UNCHANGED <<cache, consents, consentLog, wishes, crossed, mixed>>

WriteCache(c) ==
    /\ pc[c] = "writing"
    /\ cache' = hand[c]
    /\ mixed' = IF c \in crossed THEN mixed \cup {"cache"} ELSE mixed \ {"cache"}
    /\ Return(c)
    /\ UnchangedStore

WriteCacheFails(c) ==
    /\ pc[c] = "writing"
    /\ Return(c)
    /\ UnchangedStore /\ UNCHANGED <<cache, mixed>>

\* The entry's 300 seconds are over.
ExpireCache ==
    /\ cache /= None
    /\ cache' = None /\ decision' = None
    /\ mixed' = mixed \ {"cache"}
    /\ UnchangedStore /\ UNCHANGED <<pc, hand, crossed>>

-----------------------------------------------------------------------------
(* PreferenceService.update: in one transaction the defaults, and for each *)
(* preference the previous row and the upsert; then the cache and the      *)
(* counters, neither of which may fail the call.                           *)

ReadPrevious(c, edit) ==
    /\ AboutPreferences(c)
    /\ Goto(c, "updating",
            [edit |-> edit,
             previous |-> Restrict(EnsureDefaultPreferences(rows), DOMAIN edit)])
    /\ UnchangedStore /\ UNCHANGED <<cache, crossed, mixed>>

\* preferenceChanges, counted by kind.
PreferenceChanges(previous, edit) ==
    [created |-> Cardinality({k \in DOMAIN edit : previous[k] = "absent"}),
     enabled |-> Cardinality({k \in DOMAIN edit :
                                previous[k] \notin {"absent", edit[k]}})]

UpdateCommits(c) ==
    LET edit == hand[c].edit
        before == EnsureDefaultPreferences(rows)
    IN  /\ pc[c] = "updating"
        /\ rows' = [k \in Keys |-> IF k \in DOMAIN edit THEN edit[k] ELSE before[k]]
        /\ wishes' = [k \in Keys |-> IF k \in DOMAIN edit THEN edit[k] ELSE wishes[k]]
        /\ Goto(c, "invalidating",
                [noted |-> PreferenceChanges(hand[c].previous, edit),
                 made |-> PreferenceChanges(before, edit),
                 alone |-> c \notin crossed])
        /\ Cross(c, {"writing", "updating"})
        /\ UNCHANGED <<cache, consents, consentLog, mixed>>

\* The transaction fails and the call throws; two updates may also deadlock.
UpdateAborts(c) ==
    /\ pc[c] = "updating"
    /\ Return(c)
    /\ UnchangedStore /\ UNCHANGED <<cache, mixed>>

\* Mutant of Invalidate: the entry is left to expire.
InvalidateNothing(c) ==
    /\ pc[c] = "invalidating"
    /\ Goto(c, "counting", hand[c])
    /\ UnchangedStore /\ UNCHANGED <<cache, mixed, crossed>>

Invalidate(c) ==
    /\ pc[c] = "invalidating"
    /\ cache' = None
    /\ mixed' = mixed \ {"cache"}
    /\ Goto(c, "counting", hand[c])
    /\ UnchangedStore /\ UNCHANGED crossed

InvalidateFails(c) ==
    /\ pc[c] = "invalidating"
    /\ mixed' = IF cache = None THEN mixed ELSE mixed \cup {"cache"}
    /\ Goto(c, "counting", hand[c])
    /\ UnchangedStore /\ UNCHANGED <<cache, crossed>>

\* recordAnalytics adds what was noted to two rankings in Redis, which only
\* the dashboard reads, or fails.
CountChanges(c) ==
    /\ pc[c] = "counting"
    /\ Return(c)
    /\ UnchangedStore /\ UNCHANGED <<cache, mixed>>

-----------------------------------------------------------------------------
(* ConsentService.record, for one user and kind of consent.                *)

\* Mutant of Latest: the records are ordered the other way round.
Earliest(s) == IF s = <<>> THEN None ELSE s[1]

Latest(s) == IF s = <<>> THEN None ELSE s[Len(s)]

ReadLatestConsent(c, granted) ==
    /\ AboutConsents(c)
    /\ Len(consents) < MaxConsents
    /\ Goto(c, "consenting", [granted |-> granted, previous |-> Latest(consents)])
    /\ UnchangedStore /\ UNCHANGED <<cache, crossed, mixed>>

ConsentCommits(c) ==
    /\ pc[c] = "consenting"
    /\ consents' = Append(consents, hand[c].granted)
    /\ consentLog' = Append(consentLog, hand[c])
    /\ mixed' = IF c \in crossed THEN mixed \cup {"consents"} ELSE mixed
    /\ Goto(c, "idle", None)
    /\ Cross(c, {"consenting"})
    /\ UNCHANGED <<rows, cache, wishes>>

ConsentAborts(c) ==
    /\ pc[c] = "consenting"
    /\ Return(c)
    /\ UnchangedStore /\ UNCHANGED <<cache, mixed>>

-----------------------------------------------------------------------------
(* Preference resolution.                                                  *)

SegmentOverrides ==
    [segment \in {"PREMIUM", "ACTIVE_TRADER", "PASSIVE_INVESTOR"} |->
      CASE segment = "PREMIUM" ->
                [transaction |-> <<"WHATSAPP">>, risk_margin |-> <<"WHATSAPP">>]
        [] segment = "ACTIVE_TRADER" ->
                [market_price |-> <<"PUSH", "SMS">>,
                 risk_margin |-> <<"PUSH", "SMS", "EMAIL">>]
        [] segment = "PASSIVE_INVESTOR" ->
                [sip_investment |-> <<"EMAIL", "IN_APP">>,
                 regulatory_compliance |-> <<"EMAIL", "IN_APP">>]]

\* The segment's channels; a segment nobody knows is STANDARD.
SegmentChannels(segment, t) ==
    IF segment \in DOMAIN SegmentOverrides
       /\ Category(t) \in DOMAIN SegmentOverrides[segment]
    THEN SegmentOverrides[segment][Category(t)] ELSE <<>>

\* Mutant of UserPreference: the category wins over the event type.
CategoryFirst(r, t, channel) ==
    IF r[<<Category(t), channel>>] /= "absent" THEN r[<<Category(t), channel>>]
    ELSE r[<<t, channel>>]

\* userPreferencesFor: the row of the event type, else that of the category.
UserPreference(r, t, channel) ==
    IF r[<<t, channel>>] /= "absent" THEN r[<<t, channel>>]
    ELSE r[<<Category(t), channel>>]

\* The members of a sequence that are in a set, in their order.
Kept(s, S) ==
    LET kept[i \in 0..Len(s)] ==
            IF i = 0 THEN <<>>
            ELSE IF s[i] \in S THEN Append(kept[i - 1], s[i]) ELSE kept[i - 1]
    IN  kept[Len(s)]

Without(s, t) == Kept(s, AllChannels \ Range(t))

\* The order the user's channels are looked at: rows of the category first.
UserOrder(r, t, order) ==
    LET starred == Kept(order, {c \in AllChannels : r[<<Category(t), c>>] /= "absent"})
        named == Kept(order, {c \in AllChannels : r[<<t, c>>] /= "absent"})
    IN  starred \o Without(named, starred)

\* PreferenceHierarchyResolver.resolve: the channels, in the map's order.
ResolvedChannels(r, t, segment, order) ==
    LET policy == ChannelPolicy[t]
        offered == policy.defaultChannels
                   \o Without(SegmentChannels(segment, t), policy.defaultChannels)
        chosen == offered \o Without(UserOrder(r, t, order), offered)
        kept == Kept(chosen, {c \in AllChannels : UserPreference(r, t, c) /= "off"})
    IN  kept \o Without(policy.regulatoryChannels, kept)

Source(r, t, channel) ==
    IF channel \in Range(ChannelPolicy[t].regulatoryChannels) THEN "REGULATORY_OVERRIDE"
    ELSE IF UserPreference(r, t, channel) = "on" THEN "USER_PREFERENCE"
    ELSE IF channel \in Range(ChannelPolicy[t].defaultChannels) THEN "SYSTEM_DEFAULT"
    ELSE "SEGMENT_OVERRIDE"

-----------------------------------------------------------------------------
(* Scoring and routing.  Scores are counted in quarters, delivery rates in *)
(* percent and latencies in hundreds of milliseconds.                      *)

ChannelCostPaisa == [SMS |-> 70, EMAIL |-> 2, PUSH |-> 1, WHATSAPP |-> 55, IN_APP |-> 0]

SourceWeight ==
    [REGULATORY_OVERRIDE |-> 10000, USER_PREFERENCE |-> 1000,
     SEGMENT_OVERRIDE |-> 500, SYSTEM_DEFAULT |-> 0]

CostQuarters == [CRITICAL |-> 0, HIGH |-> 1, NORMAL |-> 3, LOW |-> 4, VERY_LOW |-> 4]

Performance(p, channel) ==
    IF channel \in DOMAIN p THEN p[channel] ELSE [rate |-> 50, latency |-> 10]

DeliveryOptimization(measured) ==
    measured.rate - (IF measured.latency < 25 THEN measured.latency ELSE 25)

Score(channel, source, priority, p) ==
    4 * (SourceWeight[source] + DeliveryOptimization(Performance(p, channel)))
    - CostQuarters[priority] * ChannelCostPaisa[channel]

\* The sort is stable: of two equal scores the earlier channel stays first.
Before(routes, i, j) ==
    \/ routes[i].score > routes[j].score
    \/ routes[i].score = routes[j].score /\ i < j

Place(routes, i) == 1 + Cardinality({j \in DOMAIN routes : Before(routes, j, i)})

Ranked(routes) ==
    [k \in DOMAIN routes |-> routes[CHOOSE i \in DOMAIN routes : Place(routes, i) = k]]

\* EventEnrichmentService.enrich on the rows as they are, then
\* EventRoutingService.route; with no routes it throws.  It depends on the
\* committed rows alone, which are the same before and after every other
\* step of a call, so it is looked at between calls and one event at a time.
Route(t, segment, priority, p, order) ==
    LET channels == ResolvedChannels(rows, t, segment, order)
        route(channel) ==
            [channel |-> channel, source |-> Source(rows, t, channel),
             score |-> Score(channel, Source(rows, t, channel), priority, p)]
    IN  /\ decision = None /\ \A c \in Calls : pc[c] = "idle"
        /\ decision' = [type |-> t, priority |-> priority, segment |-> segment,
                        routes |-> Ranked([i \in DOMAIN channels |-> route(channels[i])])]
        /\ UnchangedStore /\ UNCHANGED <<cache, pc, hand, crossed, mixed>>

-----------------------------------------------------------------------------
Next ==
    \/ \E c \in Calls :
        \/ Load(c) \/ WriteCache(c) \/ WriteCacheFails(c)
        \/ \E edit \in Edits : ReadPrevious(c, edit)
        \/ UpdateCommits(c) \/ UpdateAborts(c)
        \/ Invalidate(c) \/ InvalidateFails(c) \/ CountChanges(c)
        \/ \E granted \in BOOLEAN : ReadLatestConsent(c, granted)
        \/ ConsentCommits(c) \/ ConsentAborts(c)
    \/ ExpireCache
    \/ \E t \in RoutedTypes, segment \in Segments, priority \in Priorities,
          p \in Performances, order \in RowOrders : Route(t, segment, priority, p, order)

Spec == Init /\ [][Next]_vars

-----------------------------------------------------------------------------
(* Where an event goes follows what the user set and what regulation       *)
(* demands.  Every mandatory channel is routed, before all others.  An     *)
(* optional channel the user turned off for the event's type is not        *)
(* routed; one turned off for the category is not either, unless it is a   *)
(* default channel, whose row for the type the first update or get has     *)
(* made.  A channel the user turned on is routed.  Mandatory channels go   *)
(* before chosen ones, these before those of the segment, those before     *)
(* defaults, whatever performance and cost say (preferences/service.ts,    *)
(* resolver.ts, routing/scoring.ts).                                       *)
Mandatory(d) == Range(ChannelPolicy[d.type].regulatoryChannels)
Routed(d) == {d.routes[i].channel : i \in DOMAIN d.routes}
Wish(d, channel) == wishes[<<d.type, channel>>]
CategoryWish(d, channel) == wishes[<<Category(d.type), channel>>]
IsDefault(d, channel) == channel \in Range(ChannelPolicy[d.type].defaultChannels)

RoutedAsWished ==
    decision /= None =>
        /\ Mandatory(decision) \subseteq Routed(decision)
        /\ \A i, j \in DOMAIN decision.routes : i < j =>
            /\ decision.routes[i].channel /= decision.routes[j].channel
            /\ SourceWeight[decision.routes[i].source] >= SourceWeight[decision.routes[j].source]
            /\ decision.routes[j].channel \in Mandatory(decision) =>
                    decision.routes[i].channel \in Mandatory(decision)
        /\ \A c \in AllChannels \ Mandatory(decision) :
            /\ Wish(decision, c) = "off" => c \notin Routed(decision)
            /\ Wish(decision, c) = "on" => c \in Routed(decision)
            /\ Wish(decision, c) = "absent" /\ ~IsDefault(decision, c) =>
                /\ CategoryWish(decision, c) = "off" => c \notin Routed(decision)
                /\ CategoryWish(decision, c) = "on" => c \in Routed(decision)
            /\ Wish(decision, c) = "absent" /\ IsDefault(decision, c) => c \in Routed(decision)

(* What the cache holds are the preferences in the database, unless an     *)
(* update is about to invalidate it, an invalidation failed, or a get that *)
(* loaded before an update committed wrote what it had loaded after it     *)
(* (preferences/service.ts).                                               *)
CacheIsCurrent ==
    cache /= None /\ "cache" \notin mixed =>
        cache = rows \/ \E c \in Calls : pc[c] = "invalidating"

(* Every consent's audit entry names the consent before it, and an update  *)
(* notes the changes it made and no other, unless two such calls           *)
(* overlapped: both read the previous value before either has committed    *)
(* (compliance/consent.ts, preferences/service.ts, analytics.ts).          *)
LogsAreTrue ==
    /\ "consents" \notin mixed =>
        consentLog = [i \in DOMAIN consents |->
            [granted |-> consents[i], previous |-> IF i = 1 THEN None ELSE consents[i - 1]]]
    /\ \A c \in Calls : pc[c] = "counting" /\ hand[c].alone => hand[c].noted = hand[c].made
=============================================================================
