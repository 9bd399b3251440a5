--------------------------- MODULE EventCatalogue ---------------------------
(***************************************************************************)
(* The tables of the 25 financial events: what their TypeScript types      *)
(* declare (events/types.ts), what the zod schemas admit                   *)
(* (events/schemas.ts), what the event factory fills in                    *)
(* (events/factory.ts), which fields the message copy names                *)
(* (templates/locales), which channels an event uses by default and by     *)
(* regulation (enrichment/channel-policy.ts) and how it is classified      *)
(* (compliance/classification.ts).  They are written by hand, file by      *)
(* file, in the source, and so they are here: nothing in one table is      *)
(* derived from another.                                                   *)
(*                                                                         *)
(* The value of a field is abstracted to what these tables tell apart:     *)
(*   full      an ordinary value: text, a number in 1..100, a list, ...    *)
(*   empty     the empty string                                            *)
(*   none      the empty list or record                                    *)
(*   blank     a list that holds an empty string                           *)
(*   zero, minus, over     0, a negative number, a number above 100        *)
(*   notFinite             NaN or an infinity                              *)
(*   absent, null          undefined, and what JSON makes of notFinite     *)
(***************************************************************************)
EXTENDS Sequences, FiniteSets

\* f, and g where f has nothing.
f ++ g == [x \in DOMAIN f \cup DOMAIN g |-> IF x \in DOMAIN f THEN f[x] ELSE g[x]]

TransactionEvents == {"TXNX-001", "TXNX-002", "TXNX-003", "TXNX-004", "TXNX-005"}
RiskMarginEvents == {"RISK-001", "RISK-002", "RISK-003", "RISK-004", "RISK-005"}
SipInvestmentEvents == {"SIPX-001", "SIPX-002", "SIPX-003", "SIPX-004", "SIPX-005"}
MarketPriceEvents == {"MKTX-001", "MKTX-002", "MKTX-003", "MKTX-004", "MKTX-005"}
RegulatoryEvents == {"REGX-001", "REGX-002", "REGX-003", "REGX-004", "REGX-005"}

-----------------------------------------------------------------------------
(* What the types declare, per event type and field.                       *)

TransactionTypes ==
    [t \in TransactionEvents |->
      CASE t = "TXNX-001" -> [stockName |-> "string", quantity |-> "number",
                              price |-> "number", total |-> "number",
                              portfolioImpact |-> "number"]
        [] t = "TXNX-002" -> [stockName |-> "string", quantity |-> "number",
                              price |-> "number", pnl |-> "number",
                              taxImplication |-> "number"]
        [] t = "TXNX-003" -> [reasonCode |-> "string", alternativeAction |-> "string",
                              supportLink |-> "string"]
        [] t = "TXNX-004" -> [company |-> "string", amount |-> "number",
                              recordDate |-> "string", bankAccount |-> "string"]
        [] t = "TXNX-005" -> [amount |-> "number", source |-> "string",
                              availableBalance |-> "number"]]

RiskMarginTypes ==
    [t \in RiskMarginEvents |->
      CASE t = "RISK-001" -> [shortfallAmount |-> "number", deadline |-> "string",
                              liquidationRisk |-> "string"]
        [] t = "RISK-002" -> [shortfall |-> "number", actionRequired |-> "string",
                              autoSquareOffTime |-> "string"]
        [] t = "RISK-003" -> [positionsClosed |-> "strings", pnlImpact |-> "number",
                              remainingPositions |-> "strings"]
        [] t = "RISK-004" -> [riskMetricBreached |-> "string",
                              affectedHoldings |-> "strings", suggestion |-> "string"]
        [] t = "RISK-005" -> [concentratedAsset |-> "string",
                              allocationPercentage |-> "number"]]

SipInvestmentTypes ==
    [t \in SipInvestmentEvents |->
      CASE t = "SIPX-001" -> [fundName |-> "string", amount |-> "number",
                              dueDate |-> "string", bankBalanceCheck |-> "number"]
        [] t = "SIPX-002" -> [fund |-> "string", unitsAllotted |-> "number",
                              nav |-> "number", totalInvestment |-> "number"]
        [] t = "SIPX-003" -> [reason |-> "string", retryDate |-> "string",
                              actionRequired |-> "string"]
        [] t = "SIPX-004" -> [currentAmount |-> "number",
                              suggestedIncrease |-> "number", goalImpact |-> "string"]
        [] t = "SIPX-005" -> [goalName |-> "string", percentageComplete |-> "number",
                              projectedCompletion |-> "string"]]

MarketPriceTypes ==
    [t \in MarketPriceEvents |->
      CASE t = "MKTX-001" -> [stock |-> "string", targetPrice |-> "number",
                              currentPrice |-> "number", direction |-> "choice"]
        [] t = "MKTX-002" -> [stock |-> "string", circuitLevel |-> "number",
                              tradingHaltDuration |-> "number"]
        [] t = "MKTX-003" -> [marketStatus |-> "choice", indexLevels |-> "figures",
                              portfolioOvernightChange |-> "number"]
        [] t = "MKTX-004" -> [stock |-> "string", milestone |-> "choice",
                              holdingStatus |-> "string"]
        [] t = "MKTX-005" -> [company |-> "string", announcementDate |-> "string",
                              expectedEps |-> "number", historical |-> "string"]]

RegulatoryTypes ==
    [t \in RegulatoryEvents |->
      CASE t = "REGX-001" -> [expiryDate |-> "string", documentsNeeded |-> "strings",
                              submissionLink |-> "string"]
        [] t = "REGX-002" -> [currentNomineeStatus |-> "string", deadline |-> "string",
                              link |-> "string"]
        [] t = "REGX-003" -> [tradeDate |-> "string", pdfAttachment |-> "string",
                              summary |-> "string"]
        [] t = "REGX-004" -> [period |-> "string", downloadLink |-> "string",
                              keyFigures |-> "figures"]
        [] t = "REGX-005" -> [changeSummary |-> "string", impactOnUser |-> "string",
                              effectiveDate |-> "string"]]

PayloadTypes ==
    TransactionTypes ++ RiskMarginTypes ++ SipInvestmentTypes
    ++ MarketPriceTypes ++ RegulatoryTypes

EventTypes == DOMAIN PayloadTypes

\* The fields of every event; its type, category and priority are apart.
BaseTypes ==
    [eventId |-> "string", idempotencyKey |-> "optional", userId |-> "string",
     occurredAt |-> "string", correlationId |-> "string", source |-> "string",
     metadata |-> "record"]

\* A payload field of the name of a base field (source) takes its place.
DeclaredFields(t) == PayloadTypes[t] ++ BaseTypes

\* The values a typed producer can give a field of each kind.
DeclaredValues ==
    [string |-> {"full", "empty"}, optional |-> {"full", "empty", "absent"},
     number |-> {"full", "zero", "minus", "over", "notFinite"},
     strings |-> {"full", "none", "blank"}, figures |-> {"full", "none"},
     choice |-> {"full"}, record |-> {"full", "strings", "absent"}]

Priorities == {"CRITICAL", "HIGH", "NORMAL", "LOW", "VERY_LOW"}

CategoryPrefix ==
    [TXNX |-> "transaction", RISK |-> "risk_margin", SIPX |-> "sip_investment",
     MKTX |-> "market_price", REGX |-> "regulatory_compliance"]

Category(t) == CategoryPrefix[SubSeq(t, 1, 4)]

-----------------------------------------------------------------------------
(* What the schemas admit.                                                 *)

TransactionSchemas ==
    [t \in TransactionEvents |->
      CASE t = "TXNX-001" -> [stockName |-> "text", quantity |-> "positive",
                              price |-> "nonnegative", total |-> "nonnegative",
                              portfolioImpact |-> "number"]
        [] t = "TXNX-002" -> [stockName |-> "text", quantity |-> "positive",
                              price |-> "nonnegative", pnl |-> "number",
                              taxImplication |-> "nonnegative"]
        [] t = "TXNX-003" -> [reasonCode |-> "text", alternativeAction |-> "text",
                              supportLink |-> "text"]
        [] t = "TXNX-004" -> [company |-> "text", amount |-> "nonnegative",
                              recordDate |-> "anyText", bankAccount |-> "text"]
        [] t = "TXNX-005" -> [amount |-> "nonnegative", source |-> "text",
                              availableBalance |-> "nonnegative"]]

RiskMarginSchemas ==
    [t \in RiskMarginEvents |->
      CASE t = "RISK-001" -> [shortfallAmount |-> "positive", deadline |-> "anyText",
                              liquidationRisk |-> "text"]
        [] t = "RISK-002" -> [shortfall |-> "positive", actionRequired |-> "text",
                              autoSquareOffTime |-> "anyText"]
        [] t = "RISK-003" -> [positionsClosed |-> "someTexts", pnlImpact |-> "number",
                              remainingPositions |-> "anyTexts"]
        [] t = "RISK-004" -> [riskMetricBreached |-> "text",
                              affectedHoldings |-> "someTexts", suggestion |-> "text"]
        [] t = "RISK-005" -> [concentratedAsset |-> "text",
                              allocationPercentage |-> "percent"]]

SipInvestmentSchemas ==
    [t \in SipInvestmentEvents |->
      CASE t = "SIPX-001" -> [fundName |-> "text", amount |-> "positive",
                              dueDate |-> "anyText", bankBalanceCheck |-> "nonnegative"]
        [] t = "SIPX-002" -> [fund |-> "text", unitsAllotted |-> "positive",
                              nav |-> "positive", totalInvestment |-> "nonnegative"]
        [] t = "SIPX-003" -> [reason |-> "text", retryDate |-> "anyText",
                              actionRequired |-> "text"]
        [] t = "SIPX-004" -> [currentAmount |-> "positive",
                              suggestedIncrease |-> "positive", goalImpact |-> "text"]
        [] t = "SIPX-005" -> [goalName |-> "text", percentageComplete |-> "percent",
                              projectedCompletion |-> "anyText"]]

MarketPriceSchemas ==
    [t \in MarketPriceEvents |->
      CASE t = "MKTX-001" -> [stock |-> "text", targetPrice |-> "nonnegative",
                              currentPrice |-> "nonnegative", direction |-> "oneOf"]
        [] t = "MKTX-002" -> [stock |-> "text", circuitLevel |-> "positive",
                              tradingHaltDuration |-> "nonnegative"]
        [] t = "MKTX-003" -> [marketStatus |-> "oneOf", indexLevels |-> "figures",
                              portfolioOvernightChange |-> "number"]
        [] t = "MKTX-004" -> [stock |-> "text", milestone |-> "oneOf",
                              holdingStatus |-> "text"]
        [] t = "MKTX-005" -> [company |-> "text", announcementDate |-> "anyText",
                              expectedEps |-> "number", historical |-> "text"]]

RegulatorySchemas ==
    [t \in RegulatoryEvents |->
      CASE t = "REGX-001" -> [expiryDate |-> "anyText", documentsNeeded |-> "someTexts",
                              submissionLink |-> "text"]
        [] t = "REGX-002" -> [currentNomineeStatus |-> "text", deadline |-> "anyText",
                              link |-> "text"]
        [] t = "REGX-003" -> [tradeDate |-> "anyText", pdfAttachment |-> "text",
                              summary |-> "text"]
        [] t = "REGX-004" -> [period |-> "text", downloadLink |-> "text",
                              keyFigures |-> "figures"]
        [] t = "REGX-005" -> [changeSummary |-> "text", impactOnUser |-> "text",
                              effectiveDate |-> "anyText"]]

\* Mutant of PayloadSchemas: the min(1) of one text is lost.
PayloadSchemasLax ==
    [(TransactionSchemas ++ RiskMarginSchemas ++ SipInvestmentSchemas
      ++ MarketPriceSchemas ++ RegulatorySchemas)
        EXCEPT !["TXNX-003"].reasonCode = "anyText"]

PayloadSchemas ==
    TransactionSchemas ++ RiskMarginSchemas ++ SipInvestmentSchemas
    ++ MarketPriceSchemas ++ RegulatorySchemas

BaseSchema ==
    [eventId |-> "text", idempotencyKey |-> "optionalText", userId |-> "text",
     occurredAt |-> "text", correlationId |-> "text", source |-> "text",
     metadata |-> "optionalRecord"]

\* The values a check of each kind lets pass.
AdmittedValues ==
    [text |-> {"full"}, anyText |-> {"full", "empty"},
     optionalText |-> {"full", "absent"},
     number |-> {"full", "zero", "minus", "over"},
     nonnegative |-> {"full", "zero", "over"}, positive |-> {"full", "over"},
     percent |-> {"full", "zero"}, someTexts |-> {"full"},
     anyTexts |-> {"full", "none"}, figures |-> {"full", "none"},
     oneOf |-> {"full"}, optionalRecord |-> {"full", "strings", "absent"}]

\* FinancialEventSchema.safeParse: the member of the union the event type
\* names is applied to every field it lists.
Admits(e) ==
    /\ e.type \in DOMAIN PayloadSchemas
    /\ e.category = Category(e.type)
    /\ e.priority \in Priorities
    /\ LET schema == PayloadSchemas[e.type] ++ BaseSchema
       IN  \A f \in DOMAIN schema :
               (IF f \in DOMAIN e.fields THEN e.fields[f] ELSE "absent")
                   \in AdmittedValues[schema[f]]

-----------------------------------------------------------------------------
(* What the event factory fills in: a priority and an ordinary value for   *)
(* every field.  metadata is left out; only a P&L impact is negative.      *)

Sample(priority, fields) ==
    [priority |-> priority,
     payload |-> [f \in fields |-> IF f = "pnlImpact" THEN "minus" ELSE "full"]]

TransactionSamples ==
    [t \in TransactionEvents |->
      CASE t = "TXNX-001" -> Sample("HIGH", {"stockName", "quantity", "price", "total",
                                             "portfolioImpact"})
        [] t = "TXNX-002" -> Sample("HIGH", {"stockName", "quantity", "price", "pnl",
                                             "taxImplication"})
        [] t = "TXNX-003" -> Sample("CRITICAL", {"reasonCode", "alternativeAction",
                                                 "supportLink"})
        [] t = "TXNX-004" -> Sample("HIGH", {"company", "amount", "recordDate",
                                             "bankAccount"})
        [] t = "TXNX-005" -> Sample("HIGH", {"amount", "source", "availableBalance"})]

RiskMarginSamples ==
    [t \in RiskMarginEvents |->
      CASE t = "RISK-001" -> Sample("CRITICAL", {"shortfallAmount", "deadline",
                                                 "liquidationRisk"})
        [] t = "RISK-002" -> Sample("CRITICAL", {"shortfall", "actionRequired",
                                                 "autoSquareOffTime"})
        [] t = "RISK-003" -> Sample("CRITICAL", {"positionsClosed", "pnlImpact",
                                                 "remainingPositions"})
        [] t = "RISK-004" -> Sample("CRITICAL", {"riskMetricBreached",
                                                 "affectedHoldings", "suggestion"})
        [] t = "RISK-005" -> Sample("CRITICAL", {"concentratedAsset",
                                                 "allocationPercentage"})]

SipInvestmentSamples ==
    [t \in SipInvestmentEvents |->
      CASE t = "SIPX-001" -> Sample("NORMAL", {"fundName", "amount", "dueDate",
                                               "bankBalanceCheck"})
        [] t = "SIPX-002" -> Sample("HIGH", {"fund", "unitsAllotted", "nav",
                                             "totalInvestment"})
        [] t = "SIPX-003" -> Sample("CRITICAL", {"reason", "retryDate",
                                                 "actionRequired"})
        [] t = "SIPX-004" -> Sample("NORMAL", {"currentAmount", "suggestedIncrease",
                                               "goalImpact"})
        [] t = "SIPX-005" -> Sample("NORMAL", {"goalName", "percentageComplete",
                                               "projectedCompletion"})]

MarketPriceSamples ==
    [t \in MarketPriceEvents |->
      CASE t = "MKTX-001" -> Sample("NORMAL", {"stock", "targetPrice", "currentPrice",
                                               "direction"})
        [] t = "MKTX-002" -> Sample("CRITICAL", {"stock", "circuitLevel",
                                                 "tradingHaltDuration"})
        [] t = "MKTX-003" -> Sample("LOW", {"marketStatus", "indexLevels",
                                            "portfolioOvernightChange"})
        [] t = "MKTX-004" -> Sample("NORMAL", {"stock", "milestone", "holdingStatus"})
        [] t = "MKTX-005" -> Sample("NORMAL", {"company", "announcementDate",
                                               "expectedEps", "historical"})]

RegulatorySamples ==
    [t \in RegulatoryEvents |->
      CASE t = "REGX-001" -> Sample("HIGH", {"expiryDate", "documentsNeeded",
                                             "submissionLink"})
        [] t = "REGX-002" -> Sample("HIGH", {"currentNomineeStatus", "deadline", "link"})
        [] t = "REGX-003" -> Sample("HIGH", {"tradeDate", "pdfAttachment", "summary"})
        [] t = "REGX-004" -> Sample("HIGH", {"period", "downloadLink", "keyFigures"})
        [] t = "REGX-005" -> Sample("CRITICAL", {"changeSummary", "impactOnUser",
                                                 "effectiveDate"})]

Samples ==
    TransactionSamples ++ RiskMarginSamples ++ SipInvestmentSamples
    ++ MarketPriceSamples ++ RegulatorySamples

BaseSample == [f \in DOMAIN BaseTypes \ {"metadata"} |-> "full"]

TestEvent(t) ==
    [type |-> t, category |-> Category(t), priority |-> Samples[t].priority,
     fields |-> Samples[t].payload ++ BaseSample ++ [metadata |-> "absent"]]

-----------------------------------------------------------------------------
(* The fields the copy of an event names besides the user's name; the five *)
(* languages name the same ones.                                           *)

Copy ==
    [t \in EventTypes |->
      CASE t = "TXNX-001" -> {"quantity", "stockName", "price"}
        [] t = "TXNX-002" -> {"stockName", "pnl"}
        [] t = "TXNX-003" -> {"reasonCode", "alternativeAction"}
        [] t = "TXNX-004" -> {"amount", "company", "bankAccount"}
        [] t = "TXNX-005" -> {"amount", "availableBalance"}
        [] t = "RISK-001" -> {"shortfallAmount", "deadline", "liquidationRisk"}
        [] t = "RISK-002" -> {"shortfall", "actionRequired", "autoSquareOffTime"}
        [] t = "RISK-003" -> {"positionsClosed", "pnlImpact"}
        [] t = "RISK-004" -> {"riskMetricBreached", "suggestion"}
        [] t = "RISK-005" -> {"concentratedAsset", "allocationPercentage"}
        [] t = "SIPX-001" -> {"amount", "fundName", "dueDate"}
        [] t = "SIPX-002" -> {"fund", "unitsAllotted", "nav"}
        [] t = "SIPX-003" -> {"reason", "retryDate", "actionRequired"}
        [] t = "SIPX-004" -> {"currentAmount", "suggestedIncrease", "goalImpact"}
        [] t = "SIPX-005" -> {"goalName", "percentageComplete", "projectedCompletion"}
        [] t = "MKTX-001" -> {"stock", "currentPrice", "direction"}
        [] t = "MKTX-002" -> {"stock", "circuitLevel", "tradingHaltDuration"}
        [] t = "MKTX-003" -> {"marketStatus", "portfolioOvernightChange"}
        [] t = "MKTX-004" -> {"stock", "milestone", "holdingStatus"}
        [] t = "MKTX-005" -> {"company", "announcementDate", "expectedEps"}
        [] t = "REGX-001" -> {"expiryDate", "documentsNeeded", "submissionLink"}
        [] t = "REGX-002" -> {"currentNomineeStatus", "deadline", "link"}
        [] t = "REGX-003" -> {"tradeDate", "summary"}
        [] t = "REGX-004" -> {"period", "downloadLink"}
        [] t = "REGX-005" -> {"effectiveDate", "changeSummary", "impactOnUser"}]

\* requiredFields: every name between braces, the helper in front dropped.
RequiredFields(t) == {"userName"} \cup Copy[t]

-----------------------------------------------------------------------------
(* Channels by default and by regulation.  Where an event has regulatory   *)
(* channels they are its default channels, in the same order.              *)

Regulated(channels) ==
    [defaultChannels |-> channels, regulatoryChannels |-> channels]
Unregulated(channels) ==
    [defaultChannels |-> channels, regulatoryChannels |-> <<>>]

ChannelPolicy ==
    [t \in EventTypes |->
      CASE t = "TXNX-001" -> Regulated(<<"SMS", "PUSH", "EMAIL">>)
        [] t = "TXNX-002" -> Regulated(<<"SMS", "PUSH", "EMAIL">>)
        [] t = "TXNX-003" -> Regulated(<<"PUSH", "SMS">>)
        [] t = "TXNX-004" -> Unregulated(<<"EMAIL", "PUSH">>)
        [] t = "TXNX-005" -> Regulated(<<"SMS", "PUSH">>)
        [] t = "RISK-001" -> Regulated(<<"SMS", "PUSH">>)
        [] t = "RISK-002" -> Regulated(<<"SMS", "PUSH", "EMAIL">>)
        [] t = "RISK-003" -> Regulated(<<"SMS", "PUSH", "EMAIL">>)
        [] t = "RISK-004" -> Unregulated(<<"PUSH", "EMAIL">>)
        [] t = "RISK-005" -> Unregulated(<<"EMAIL", "IN_APP">>)
        [] t = "SIPX-001" -> Unregulated(<<"PUSH", "WHATSAPP">>)
        [] t = "SIPX-002" -> Regulated(<<"SMS", "EMAIL">>)
        [] t = "SIPX-003" -> Regulated(<<"SMS", "PUSH", "EMAIL">>)
        [] t = "SIPX-004" -> Unregulated(<<"EMAIL", "IN_APP">>)
        [] t = "SIPX-005" -> Unregulated(<<"PUSH", "IN_APP">>)
        [] t = "MKTX-001" -> Unregulated(<<"PUSH", "SMS">>)
        [] t = "MKTX-002" -> Regulated(<<"PUSH", "SMS">>)
        [] t = "MKTX-003" -> Unregulated(<<"PUSH">>)
        [] t = "MKTX-004" -> Unregulated(<<"PUSH", "EMAIL">>)
        [] t = "MKTX-005" -> Unregulated(<<"EMAIL", "IN_APP">>)
        [] t = "REGX-001" -> Regulated(<<"SMS", "EMAIL", "PUSH">>)
        [] t = "REGX-002" -> Regulated(<<"EMAIL", "PUSH">>)
        [] t = "REGX-003" -> Regulated(<<"EMAIL">>)
        [] t = "REGX-004" -> Regulated(<<"EMAIL", "IN_APP">>)
        [] t = "REGX-005" -> Unregulated(<<"EMAIL">>)]

-----------------------------------------------------------------------------
(* Classification of an event for SMS compliance.                          *)

\* Mutant of PromotionalEvents: an event too many.
PromotionalEventsMore == {"SIPX-002", "SIPX-004", "MKTX-003", "MKTX-004", "MKTX-005"}

PromotionalEvents == {"SIPX-004", "MKTX-003", "MKTX-004", "MKTX-005"}

Classify(t, containsPromotionalContent) ==
    IF containsPromotionalContent \/ t \in PromotionalEvents
    THEN "PROMOTIONAL" ELSE "TRANSACTIONAL"
=============================================================================
