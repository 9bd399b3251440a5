------------------------- MODULE NotificationContent -------------------------
(***************************************************************************)
(* One event from its producer to what the compliance services and the     *)
(* templates make of it: the event factory, the Avro encoding and the      *)
(* topic (kafka/avro.ts, kafka/producer.ts), the validation in the         *)
(* consumer (kafka/consumer.ts), classification, quiet hours with the      *)
(* bypass of critical events (compliance), and rendering (templates).      *)
(*                                                                         *)
(* The steps after admission are services without a caller of their own in *)
(* the repository; each is a step a caller may take on an admitted event.  *)
(* Time is counted in slots: a day has DaySlots of them and the search for *)
(* the end of a window looks at ScanSlots + 1.                             *)
(***************************************************************************)
EXTENDS EventCatalogue, Naturals, FiniteSetsExt

CONSTANTS
    Languages,      \* the languages users have set, supported or not
    DaySlots,       \* slots of a day
    ScanSlots,      \* slots findResumeAt looks ahead (1560 minutes)
    Windows,        \* pairs start, end of quiet hours, as slots of the day
    Shifts,         \* changes of the zone's offset: slot it happens, by how much
    QuietTypes,     \* the event types whose quiet hours are looked at
    MaxSms,         \* the longest SMS
    SmsLengths,     \* lengths of the words and of the links of a message
    Channels,       \* the channels rendered for
    Stored,         \* sets of languages a registry may have a template in
    Nothing

SupportedLanguages == {"en", "hi", "mr", "ta", "te"}
TemplateChannels == {"SMS", "EMAIL", "PUSH", "WHATSAPP", "IN_APP"}

ASSUME ContentAssumption ==
    /\ DaySlots \in Nat \ {0} /\ ScanSlots \in Nat /\ ScanSlots >= DaySlots
    /\ Windows \subseteq (0..DaySlots - 1) \X (0..DaySlots - 1)
    /\ \A s \in Shifts : s.at \in Nat /\ s.by \in 0..DaySlots - 1
    /\ QuietTypes \subseteq EventTypes
    /\ MaxSms \in Nat
    /\ Channels \subseteq TemplateChannels
    /\ \A l \in SmsLengths : l.words \in Nat /\ l.links \in Nat
    /\ Nothing \notin SupportedLanguages /\ Nothing \notin Nat

VARIABLES
    stage,      \* how far the event is
    produced,   \* the event as its producer has it
    message,    \* the Kafka message: topic and Avro record
    event,      \* the event as the consumer has it
    asked,      \* what the last service was asked
    answer,     \* what it answered
    audit       \* the quiet-hours bypass log

contentVars == <<stage, produced, message, event, asked, answer, audit>>

ContentInit ==
    /\ stage = "new"
    /\ produced = Nothing /\ message = Nothing /\ event = Nothing
    /\ asked = Nothing /\ answer = Nothing
    /\ audit = {}

-----------------------------------------------------------------------------
(* Producing.                                                              *)

\* createTestEvent, with the validation before it returns.
CreateTestEvent(t) ==
    /\ stage = "new"
    /\ produced' = TestEvent(t)
    /\ stage' = IF Admits(TestEvent(t)) THEN "produced" ELSE "invalid"
    /\ UNCHANGED <<message, event, asked, answer, audit>>

\* A producer of its own: one field is not what the factory makes it.
Produce(t, field, value, priority) ==
    /\ stage = "new"
    /\ produced' = [TestEvent(t) EXCEPT !.fields[field] = value,
                                        !.priority = priority]
    /\ stage' = "produced"
    /\ UNCHANGED <<message, event, asked, answer, audit>>

ToAvroEventType(t) == SubSeq(t, 1, 4) \o "_" \o SubSeq(t, 6, 8)
FromAvroEventType(a) == SubSeq(a, 1, 4) \o "-" \o SubSeq(a, 6, 8)

\* A fact about 25 strings: the Avro name of an event type gives it back.
ASSUME AvroNames == \A t \in EventTypes : FromAvroEventType(ToAvroEventType(t)) = t

\* JSON has no NaN and no infinities; Avro's metadata has strings only.
Json(value) == IF value = "notFinite" THEN "null" ELSE value
Strings(metadata) == IF metadata = "full" THEN "strings" ELSE metadata

Header == DOMAIN BaseTypes \ {"metadata"}

SerializeEvent(e) ==
    [eventType |-> ToAvroEventType(e.type), eventCategory |-> e.category,
     priority |-> e.priority,
     header |-> [f \in Header |-> IF e.fields[f] = "absent" THEN "null"
                                  ELSE e.fields[f]],
     payload |-> [f \in DOMAIN e.fields \ DOMAIN BaseTypes |-> Json(e.fields[f])],
     metadata |-> Strings(e.fields["metadata"])]

\* Mutant of DeserializeEvent: the idempotency key is kept as it is.
DeserializeKey(w) ==
    [type |-> FromAvroEventType(w.eventType), category |-> w.eventCategory,
     priority |-> w.priority,
     fields |-> w.payload ++ w.header ++ [metadata |-> w.metadata]]

\* An idempotency key that is null or the empty string is left out.
DeserializeEvent(w) ==
    [type |-> FromAvroEventType(w.eventType), category |-> w.eventCategory,
     priority |-> w.priority,
     fields |-> w.payload
        ++ [idempotencyKey |-> IF w.header["idempotencyKey"] = "full"
                               THEN "full" ELSE "absent"]
        ++ w.header ++ [metadata |-> w.metadata]]

Topic(priority) ==
    IF priority = "CRITICAL" THEN "notification-critical" ELSE "notification-events"

PublishEvent ==
    /\ stage = "produced"
    /\ message' = [topic |-> Topic(produced.priority), value |-> SerializeEvent(produced)]
    /\ stage' = "published"
    /\ UNCHANGED <<produced, event, asked, answer, audit>>

\* processMessage up to the pipeline.
Consume ==
    /\ stage = "published"
    /\ event' = DeserializeEvent(message.value)
    /\ stage' = IF Admits(event') THEN "admitted" ELSE "refused"
    /\ UNCHANGED <<produced, message, asked, answer, audit>>

-----------------------------------------------------------------------------
(* Classification.                                                         *)

ClassifyEvent(promotional) ==
    /\ stage = "admitted"
    /\ asked' = [containsPromotionalContent |-> promotional]
    /\ answer' = Classify(event.type, promotional)
    /\ stage' = "classified"
    /\ UNCHANGED <<produced, message, event, audit>>

-----------------------------------------------------------------------------
(* Quiet hours.  A request names a window, whether its times are written   *)
(* as HH:MM, whether the user overrides it, the slot it is made in, and    *)
(* the user's time zone: whether there is such a zone, and its shift.      *)

LocalTime(slot, shift) ==
    (slot + (IF slot >= shift.at THEN shift.by ELSE 0)) % DaySlots

\* Mutant of IsWithinWindow: the end belongs to the window.
WithEnd(local, window) ==
    IF window[1] < window[2]
    THEN local >= window[1] /\ local <= window[2]
    ELSE local >= window[1] \/ local <= window[2]

IsWithinWindow(local, window) ==
    IF window[1] < window[2]
    THEN local >= window[1] /\ local < window[2]
    ELSE local >= window[1] \/ local < window[2]

InWindow(q, slot) == IsWithinWindow(LocalTime(slot, q.shift), q.window)

\* The slots of the search that lie outside the window.
ResumeCandidates(q) == {k \in 0..ScanSlots : ~InWindow(q, q.now + k)}

Deliver(reason) == [status |-> "DELIVER_NOW", reason |-> reason]
Throws(error) == [status |-> "throws", reason |-> error]

\* QuietHoursService.evaluate: the window is parsed first, then the local time
\* is asked for, and only then does an override count.
QuietHours(q) ==
    IF ~q.wellFormed \/ q.window[1] = q.window[2]
    THEN Throws("InvalidQuietHoursWindowError")
    ELSE IF q.timezone = "unknown" THEN Throws("RangeError")
    ELSE IF q.override THEN Deliver("USER_OVERRIDE")
    ELSE IF ~InWindow(q, q.now) THEN Deliver("OUTSIDE_QUIET_HOURS")
    ELSE IF ResumeCandidates(q) = {} THEN Throws("NoEndOfWindow")
    ELSE [status |-> "DEFER_UNTIL_QUIET_HOURS_END",
          reason |-> "QUIET_HOURS", resumeAt |-> q.now + Min(ResumeCandidates(q))]

Bypasses(q) ==
    /\ event.priority = "CRITICAL"
    /\ QuietHours(q).status = "DEFER_UNTIL_QUIET_HOURS_END"

AskQuietHours(q) ==
    /\ stage = "admitted"
    /\ event.type \in QuietTypes
    /\ asked' = q
    /\ IF Bypasses(q)
       THEN stage' = "auditing" /\ UNCHANGED answer
       ELSE stage' = "decided" /\ answer' = QuietHours(q)
    /\ UNCHANGED <<produced, message, event, audit>>

AuditBypass ==
    /\ stage = "auditing"
    /\ audit' = audit \cup {[eventType |-> event.type, window |-> asked.window]}
    /\ answer' = Deliver("CRITICAL_BYPASS")
    /\ stage' = "decided"
    /\ UNCHANGED <<produced, message, event, asked>>

AuditThrows ==
    /\ stage = "auditing"
    /\ answer' = Throws("audit")
    /\ stage' = "decided"
    /\ UNCHANGED <<produced, message, event, asked, audit>>

-----------------------------------------------------------------------------
(* Rendering.  A request names the user's data, the channel, the languages *)
(* that have a template, and the lengths an SMS would have.                *)

ResolveTemplateLanguage(language) ==
    IF language \in SupportedLanguages THEN language ELSE "en"

\* LocalizedTemplateRegistry.find: the language of the template, or Nothing.
FindTemplate(language, stored) ==
    LET found == {ResolveTemplateLanguage(language)} \cap stored
    IN  IF found /= {} THEN ResolveTemplateLanguage(language)
        ELSE IF "en" \in stored THEN "en" ELSE Nothing

\* The part of the personalization context that templates name.
Context(r) ==
    [userName |-> IF r.name = "absent" THEN "full" ELSE r.name] ++ event.fields

\* A field is missing when undefined, null or the empty string.
MissingFields(r) ==
    {f \in RequiredFields(event.type) :
        \/ f \notin DOMAIN Context(r)
        \/ Context(r)[f] \in {"empty", "absent", "null"}}

\* formatSmsContent: the length of the message it makes of words and links,
\* or Nothing when the links alone are too long.
SmsLength(l) ==
    LET room == MaxSms - l.links - 3
    IN  IF l.words + l.links <= MaxSms THEN l.words + l.links
        ELSE IF l.links = 0 THEN MaxSms
        ELSE IF l.links > MaxSms THEN Nothing
        ELSE IF l.words = 0 \/ room <= 0 THEN l.links
        ELSE l.links + 3 + Min({l.words, room})

Failed(error, fields) == [status |-> error, missing |-> fields]

\* PersonalizationPipeline.render: the context, the required fields, and at
\* last the length of an SMS.
Rendered(r, language) ==
    IF r.timezone = "unknown" THEN Failed("RangeError", {})
    ELSE IF MissingFields(r) /= {}
         THEN Failed("TemplateValidationError", MissingFields(r))
    ELSE IF r.channel = "SMS" /\ SmsLength(r.sms) = Nothing
         THEN Failed("SmsContentError", {})
    ELSE [status |-> "rendered", language |-> language,
          length |-> IF r.channel = "SMS" THEN SmsLength(r.sms) ELSE 0]

RenderRequests ==
    [name : {"full", "empty", "absent"}, timezone : {"known", "unknown"},
     language : Languages, channel : Channels, stored : Stored, sms : SmsLengths]

Render(r) ==
    /\ stage = "admitted"
    /\ asked' = r
    /\ answer' = IF FindTemplate(r.language, r.stored) = Nothing
                 THEN Failed("NoTemplate", {})
                 ELSE Rendered(r, FindTemplate(r.language, r.stored))
    /\ stage' = "rendered"
    /\ UNCHANGED <<produced, message, event, audit>>

-----------------------------------------------------------------------------
QuietRequests ==
    [window : Windows, wellFormed : BOOLEAN, override : BOOLEAN,
     now : 0..DaySlots - 1, timezone : {"known", "unknown"}, shift : Shifts]

\* Requests are put only where the event is admitted: the guard stands before
\* the many requests as well, to spare their enumeration in other states.
ContentNext ==
    \/ \E t \in EventTypes :
        \/ CreateTestEvent(t)
        \/ \E field \in DOMAIN DeclaredFields(t) :
              \E value \in DeclaredValues[DeclaredFields(t)[field]] :
                 Produce(t, field, value, Samples[t].priority)
        \/ \E priority \in Priorities : Produce(t, "eventId", "full", priority)
    \/ PublishEvent
    \/ Consume
    \/ \E promotional \in BOOLEAN : ClassifyEvent(promotional)
    \/ stage = "admitted" /\ \E q \in QuietRequests : AskQuietHours(q)
    \/ AuditBypass
    \/ AuditThrows
    \/ stage = "admitted" /\ \E r \in RenderRequests : Render(r)

ContentSpec == ContentInit /\ [][ContentNext]_contentVars

-----------------------------------------------------------------------------
(* An event reaches the consumer as it was produced, but for what JSON and *)
(* Avro cannot carry: a number that is not finite, metadata that is not    *)
(* text, an empty idempotency key.  Whatever the factory makes is admitted *)
(* (kafka/avro.ts serializeEvent, deserializeEvent; events/factory.ts).    *)
AsCarried(field, value) ==
    CASE value = "notFinite" -> "null"
      [] field = "idempotencyKey" /\ value = "empty" -> "absent"
      [] field = "metadata" /\ value = "full" -> "strings"
      [] OTHER -> value

ConsumedAsProduced ==
    /\ event /= Nothing =>
        /\ <<event.type, event.category, event.priority>> =
                <<produced.type, produced.category, produced.priority>>
        /\ event.fields = [f \in DOMAIN produced.fields |->
                                AsCarried(f, produced.fields[f])]
        /\ (message.topic = "notification-critical") <=> (event.priority = "CRITICAL")
    /\ stage = "invalid" => produced /= TestEvent(produced.type)
    /\ stage = "refused" => produced /= TestEvent(produced.type)

(* An admitted event can be rendered in every channel and language: the    *)
(* template of its language or the English one, every field its copy       *)
(* names, and an SMS no longer than one message.  It fails only for a date *)
(* the schema lets be empty, a user whose name is the empty string, a time *)
(* zone that does not exist, or links longer than an SMS                   *)
(* (events/schemas.ts, templates/catalog.ts, validation.ts, sms.ts).       *)
Dates == {"recordDate", "deadline", "autoSquareOffTime", "dueDate", "retryDate",
          "projectedCompletion", "announcementDate", "expiryDate", "tradeDate",
          "effectiveDate"}

MayBeEmpty(f) == f \in Dates \/ (f = "userName" /\ asked.name = "empty")

AdmittedRenders ==
    stage = "rendered" =>
        \/ /\ answer.status = "rendered" /\ answer.length <= MaxSms
           /\ answer.language = IF asked.language \in SupportedLanguages \cap asked.stored
                                THEN asked.language ELSE "en"
        \/ /\ answer.status = "TemplateValidationError"
           /\ answer.missing /= {} /\ \A f \in answer.missing : MayBeEmpty(f)
        \/ answer.status = "RangeError" /\ asked.timezone = "unknown"
        \/ answer.status = "SmsContentError" /\ asked.sms.links > MaxSms
        \/ answer.status = "NoTemplate" /\ "en" \notin asked.stored

(* An event with mandatory channels is transactional, so that a            *)
(* do-not-disturb entry cannot keep its SMS back, unless its copy is       *)
(* promotional (enrichment/channel-policy.ts against                       *)
(* compliance/classification.ts).                                          *)
MandatoryIsTransactional ==
    stage = "classified" /\ ChannelPolicy[event.type].regulatoryChannels /= <<>> =>
        (answer = "TRANSACTIONAL" <=> ~asked.containsPromotionalContent)

(* Inside quiet hours nothing is delivered unless the user overrides them  *)
(* or the event is critical and its bypass is logged; what is deferred is  *)
(* deferred to the first moment outside the window, over midnight and over *)
(* a change of the clock; and no bypass is logged without need.  The       *)
(* search finds no end only where the clock is put on over all of the time *)
(* outside a window (compliance/quiet-hours.ts,                            *)
(* critical-quiet-hours-bypass.ts).                                        *)
WindowSlots(w) == {(w[1] + k) % DaySlots : k \in 0..((w[2] + DaySlots - w[1]) % DaySlots) - 1}
Quiet(slot) == LocalTime(slot, asked.shift) \in WindowSlots(asked.window)

QuietHoursKept ==
    stage = "decided" =>
        CASE answer.status = "DELIVER_NOW" /\ answer.reason = "CRITICAL_BYPASS" ->
                /\ event.priority = "CRITICAL" /\ ~asked.override /\ Quiet(asked.now)
                /\ audit = {[eventType |-> event.type, window |-> asked.window]}
          [] answer.status = "DELIVER_NOW" /\ answer.reason /= "CRITICAL_BYPASS" ->
                (asked.override \/ ~Quiet(asked.now)) /\ audit = {}
          [] answer.status = "DEFER_UNTIL_QUIET_HOURS_END" ->
                /\ event.priority /= "CRITICAL" /\ ~Quiet(answer.resumeAt)
                /\ \A slot \in asked.now..answer.resumeAt - 1 : Quiet(slot)
          [] answer.status = "throws" /\ answer.reason = "InvalidQuietHoursWindowError" ->
                ~asked.wellFormed \/ asked.window[1] = asked.window[2]
          [] answer.status = "throws" /\ answer.reason = "RangeError" ->
                asked.timezone = "unknown"
          [] answer.status = "throws" /\ answer.reason = "audit" ->
                event.priority = "CRITICAL" /\ ~asked.override /\ Quiet(asked.now)
          [] answer.status = "throws" /\ answer.reason = "NoEndOfWindow" ->
                Cardinality(WindowSlots(asked.window)) + asked.shift.by >= DaySlots
=============================================================================
