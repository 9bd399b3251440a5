--------------------------- MODULE ChannelDispatch ---------------------------
(***************************************************************************)
(* One notification on its way to its channels: one after another until a  *)
(* channel delivers (routing/channel-failover.ts), or on all at the same   *)
(* time (routing/fanout.ts).  Each route goes through the adapter of its   *)
(* channel (providers/*-provider.ts), which may be wrapped by the provider *)
(* that records metrics in Redis (analytics/realtime.ts).                  *)
(*                                                                         *)
(* What an adapter hears from outside is one of a few kinds of replies; a  *)
(* reply says what the caller learns, not always what happened.            *)
(***************************************************************************)
EXTENDS Integers, Sequences

CONSTANTS
    Plans,          \* the decisions looked at: channels in the order of their rank
    Overrides,      \* addresses a caller may give for a channel, Absent among them
    Absent

Channels == {"SMS", "WHATSAPP", "EMAIL", "PUSH", "IN_APP"}
Addresses == {"good", "malformed", "other"}     \* other: an address of another user

\* Of an adapter or of the service itself; a failure has a code.
Codes ==
    {"noId", "refused", "throttled", "down", "lost", "INVALID_RECIPIENT",
     "INVALID_REGISTRATION_TOKEN", "RECIPIENT_USER_MISMATCH",
     "NO_CHANNEL_RECIPIENT", "NO_CHANNEL_PROVIDER", "PROVIDER_DISPATCH_EXCEPTION"}
Results ==
    [status : {"FAILED", "SENT", "ACCEPTED"}, code : Codes \cup {Absent}, retryable : BOOLEAN]

ASSUME DispatchAssumption ==
    /\ Plans \subseteq Seq(Channels)
    /\ Overrides \in [Channels -> SUBSET (Addresses \cup {Absent})]
    /\ Absent \notin Addresses \cup Codes \cup Results

VARIABLES
    order,          \* the dispatch: its kind, routes, addresses and providers
    place,          \* how far each route is
    result,         \* of each route, or Absent
    reply,          \* history: what each adapter heard, or Absent
    taken,          \* history: whether the message reached the outside
    metrics,        \* the counters each route has moved
    metricsFailed   \* history: whether recording failed on the way

dispatchVars == <<order, place, result, reply, taken, metrics, metricsFailed>>

Routes == DOMAIN order.plan
Channel(i) == order.plan[i]

DispatchInit ==
    /\ \E plan \in Plans : LET used == {plan[i] : i \in DOMAIN plan} IN
        order \in [kind : {"failover", "fanout"}, plan : {plan},
                   phone : {"good", "malformed"}, email : {"good", "malformed"},
                   recipients : {o \in [used -> Addresses \cup {Absent}] :
                                    \A c \in used : o[c] \in Overrides[c]},
                   registered : SUBSET used, measured : BOOLEAN]
    /\ place = [i \in Routes |-> "waiting"]
    /\ result = [i \in Routes |-> Absent] /\ reply = [i \in Routes |-> Absent]
    /\ taken = [i \in Routes |-> FALSE]
    /\ metrics = [i \in Routes |-> [deliveries |-> 0, failures |-> 0, samples |-> 0]]
    /\ metricsFailed = [i \in Routes |-> FALSE]

-----------------------------------------------------------------------------
(* The adapters.                                                           *)

\* accepted: an answer with an id; queued: the same, of a message not yet sent;
\* rejected: the same, of a message Twilio has already failed; unheard: no socket
\* of the user is in the room; noId: a success without an id; refused, throttled:
\* what they say; down: an error of the service; lost: the connection breaks.
Replies(c) ==
    CASE c = "SMS" -> {"accepted", "queued", "rejected", "noId", "refused", "throttled", "down",
                       "lost"}
      [] c = "WHATSAPP" -> {"accepted", "noId", "refused", "throttled", "down", "lost"}
      [] c = "EMAIL" -> {"accepted", "refused", "down", "lost"}
      [] c = "PUSH" -> {"accepted", "refused", "throttled", "down", "lost"}
      [] c = "IN_APP" -> {"accepted", "unheard", "down"}

\* Twilio checks the number itself: only the other adapters validate.
ReplyTo(c, address) ==
    Replies(c) \ (IF address = "malformed" THEN {"accepted", "queued", "noId"} ELSE {})

MayBeTaken(r, address) ==
    CASE r \in {"accepted", "queued"} -> {TRUE}
      [] r \in {"noId", "down", "lost"} /\ address /= "malformed" -> BOOLEAN
      [] OTHER -> {FALSE}

Failure(code, retryable) == [status |-> "FAILED", code |-> code, retryable |-> retryable]
Accepted(status) == [status |-> status, code |-> Absent, retryable |-> FALSE]

\* validateRecipient, and the room of an in-app message is that of its user.
Invalid(c, address) ==
    \/ c /= "SMS" /\ address = "malformed"
    \/ c = "IN_APP" /\ address = "other"
Rejection(c, address) ==
    IF c = "IN_APP" /\ address = "other" THEN "RECIPIENT_USER_MISMATCH"
    ELSE IF c = "PUSH" THEN "INVALID_REGISTRATION_TOKEN" ELSE "INVALID_RECIPIENT"

\* TwilioSmsProvider and WhatsAppCloudProvider judge by the HTTP status, a
\* success without an id included; a connection that breaks is not caught.  Any
\* status Twilio gives but "sent" and "delivered" is ACCEPTED, "failed" too.
HttpFailure(r) == IF r = "lost" THEN Absent ELSE Failure(r, r \in {"throttled", "down"})
TwilioSend(r) ==
    CASE r = "accepted" -> Accepted("SENT")
      [] r \in {"queued", "rejected"} -> Accepted("ACCEPTED")
      [] OTHER -> HttpFailure(r)
WhatsAppSend(r) == IF r = "accepted" THEN Accepted("SENT") ELSE HttpFailure(r)

\* FcmPushProvider: three codes of the service are worth a retry.
FcmSend(r) == IF r = "accepted" THEN Accepted("SENT") ELSE Failure(r, r = "down")

\* NodemailerEmailProvider: whatever the transport throws is worth a retry.
SmtpSend(r) == IF r = "accepted" THEN Accepted("SENT") ELSE Failure(r, r /= "refused")

\* SocketIoInAppProvider: an emit says nothing of who is in the room.
SocketSend(r) == IF r \in {"accepted", "unheard"} THEN Accepted("SENT") ELSE Failure(r, TRUE)

\* The result of an adapter, Absent when it throws.
Send(c, r) ==
    CASE c = "SMS" -> TwilioSend(r)
      [] c = "WHATSAPP" -> WhatsAppSend(r)
      [] c = "PUSH" -> FcmSend(r)
      [] c = "EMAIL" -> SmtpSend(r)
      [] c = "IN_APP" -> SocketSend(r)

-----------------------------------------------------------------------------
(* dispatch and dispatchRoute, of both services.                           *)

ResolveDeliveryRecipient(c) ==
    IF order.recipients[c] /= Absent THEN order.recipients[c]
    ELSE CASE c \in {"SMS", "WHATSAPP"} -> order.phone
           [] c = "EMAIL" -> order.email
           [] c = "IN_APP" -> "good"
           [] c = "PUSH" -> Absent

DispatchException == Failure("PROVIDER_DISPATCH_EXCEPTION", order.kind = "failover")

\* Mutant of Delivered: a message the provider has only queued is not enough.
DeliveredIfSent(r) == r.status = "SENT"

Delivered(r) == r.status /= "FAILED"

\* Failover begins a route when all before it have failed, fan-out all at once.
Turn(i) ==
    /\ place[i] = "waiting"
    /\ order.kind = "failover" =>
            \A j \in Routes : j < i => place[j] = "told" /\ ~Delivered(result[j])

\* The route has its result, or a provider that throws has none to give.
Goes(i, to, with) ==
    /\ place' = [place EXCEPT ![i] = to]
    /\ result' = [result EXCEPT ![i] = with]

NotSent(i, code) ==
    /\ Turn(i)
    /\ Goes(i, "told", Failure(code, FALSE))
    /\ UNCHANGED <<order, reply, taken, metrics, metricsFailed>>

NoRecipient(i) ==
    /\ ResolveDeliveryRecipient(Channel(i)) = Absent
    /\ NotSent(i, "NO_CHANNEL_RECIPIENT")

NoProvider(i) ==
    /\ ResolveDeliveryRecipient(Channel(i)) /= Absent
    /\ Channel(i) \notin order.registered
    /\ NotSent(i, "NO_CHANNEL_PROVIDER")

\* What MetricsDeliveryProvider, or dispatchRoute, does with an answer.
Answered(i, answer) ==
    CASE order.measured /\ answer = Absent -> Goes(i, "recordingFailure", Absent)
      [] order.measured /\ answer /= Absent -> Goes(i, "recording", answer)
      [] ~order.measured /\ answer = Absent -> Goes(i, "told", DispatchException)
      [] ~order.measured /\ answer /= Absent -> Goes(i, "told", answer)

Begin(i) ==
    LET address == ResolveDeliveryRecipient(Channel(i))
    IN  /\ Turn(i)
        /\ address /= Absent /\ Channel(i) \in order.registered
        /\ IF Invalid(Channel(i), address)
           THEN Answered(i, Failure(Rejection(Channel(i), address), FALSE))
           ELSE Goes(i, "sending", Absent)
        /\ UNCHANGED <<order, reply, taken, metrics, metricsFailed>>

Answer(i) ==
    LET c == Channel(i)
        address == ResolveDeliveryRecipient(c)
    IN  /\ place[i] = "sending"
        /\ \E r \in ReplyTo(c, address) :
            /\ reply' = [reply EXCEPT ![i] = r]
            /\ \E took \in MayBeTaken(r, address) : taken' = [taken EXCEPT ![i] = took]
            /\ Answered(i, Send(c, r))
        /\ UNCHANGED <<order, metrics, metricsFailed>>

-----------------------------------------------------------------------------
(* MetricsDeliveryProvider.send after the provider answered or threw.      *)

\* RealtimeDeliveryMetricsService.record: three increments sent at once, of
\* which Redis has run "applied"; the total of the latencies is left out.
Increments(r) == {IF Delivered(r) THEN "deliveries" ELSE "failures", "samples"}
Recorded(i, applied) ==
    metrics' = [metrics EXCEPT ![i] =
        [f \in DOMAIN @ |-> IF f \in applied THEN @[f] + 1 ELSE @[f]]]

Record(i) ==
    /\ place[i] = "recording"
    /\ Recorded(i, Increments(result[i]))
    /\ Goes(i, "told", result[i])
    /\ UNCHANGED <<order, reply, taken, metricsFailed>>

\* Within the try block: the catch block records a failure of the provider.
RecordThrows(i) ==
    /\ place[i] = "recording"
    /\ \E applied \in SUBSET Increments(result[i]) : Recorded(i, applied)
    /\ metricsFailed' = [metricsFailed EXCEPT ![i] = TRUE]
    /\ Goes(i, "recordingFailure", Absent)
    /\ UNCHANGED <<order, reply, taken>>

\* The catch block throws in the end, whether it could record or not.
RecordFailure(i) ==
    /\ place[i] = "recordingFailure"
    /\ \/ /\ Recorded(i, {"failures", "samples"})
          /\ UNCHANGED metricsFailed
       \/ /\ \E applied \in SUBSET {"failures", "samples"} : Recorded(i, applied)
          /\ metricsFailed' = [metricsFailed EXCEPT ![i] = TRUE]
    /\ Goes(i, "told", DispatchException)
    /\ UNCHANGED <<order, reply, taken>>

DispatchNext == \E i \in Routes :
    \/ NoRecipient(i) \/ NoProvider(i) \/ Begin(i) \/ Answer(i)
    \/ Record(i) \/ RecordThrows(i) \/ RecordFailure(i)

DispatchSpec == DispatchInit /\ [][DispatchNext]_dispatchVars

-----------------------------------------------------------------------------
\* The caller cannot know that the message was taken: the provider's answer
\* did not say so, or the metrics failed after it.
InDoubt(i) == reply[i] \in {"noId", "down", "lost"} \/ metricsFailed[i]

\* The adapter takes for a delivery what reaches nobody.
Hollow(i) == reply[i] \in {"rejected", "unheard"}

ToldIsTrue ==
    \A i \in Routes : place[i] = "told" =>
        IF result[i].status /= "FAILED" THEN taken[i] \/ Hollow(i) ELSE taken[i] => InDoubt(i)

OneChannelTakes ==
    order.kind = "failover" =>
        \A i, j \in Routes :
            i < j /\ taken[i] /\ (taken[j] \/ place[j] = "sending") => InDoubt(i)

MetricsAgree ==
    \A i \in Routes :
        LET m == metrics[i]
            called == result[i].code \notin {"NO_CHANNEL_RECIPIENT", "NO_CHANNEL_PROVIDER"}
        IN  /\ m.deliveries <= 1 /\ (m.deliveries = 1 => taken[i] \/ Hollow(i))
            /\ m.failures <= 2 /\ m.samples <= 2
            /\ place[i] = "told" /\ order.measured /\ ~metricsFailed[i] =>
                /\ m.samples = IF called THEN 1 ELSE 0
                /\ m.deliveries = IF result[i].status /= "FAILED" THEN 1 ELSE 0
                /\ m.failures = m.samples - m.deliveries

(* A route is said to have delivered only when the message was taken, or   *)
(* Twilio answered that it had already failed, or nobody was in the room.  *)
(* Of the ranked channels one takes the message and none after it is       *)
(* tried, except where a taken message was in doubt                        *)
(* (ChannelFailoverService and MultiChannelFanoutService, dispatch).  Each *)
(* call of a provider is counted once and as what its caller was told it   *)
(* was, unless Redis failed on the way: it may then be counted not at all, *)
(* or as a delivery and as a failure (MetricsDeliveryProvider.send).       *)
DispatchIsTrue == ToldIsTrue /\ OneChannelTakes /\ MetricsAgree
=============================================================================
