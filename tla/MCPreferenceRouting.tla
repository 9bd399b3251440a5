------------------------- MODULE MCPreferenceRouting -------------------------
EXTENDS PreferenceRouting, TLC

\* Opting out of a default and of a channel of the segment, for the type and
\* for the category, back in, and into a channel nobody offered.
MCEdits ==
    {<<"MKTX-001", "PUSH">> :> "off",
     <<"MKTX-001", "PUSH">> :> "on",
     <<"market_price", "PUSH">> :> "off" @@ <<"market_price", "WHATSAPP">> :> "on",
     <<"MKTX-001", "WHATSAPP">> :> "off" @@ <<"transaction", "WHATSAPP">> :> "off",
     <<"RISK-001", "SMS">> :> "off" @@ <<"RISK-001", "EMAIL">> :> "on"}

\* Nothing measured; the best channel the costly one, and the other way round.
MCPerformances ==
    {[c \in {} |-> 0],
     [c \in {"SMS", "EMAIL"} |-> IF c = "SMS" THEN [rate |-> 100, latency |-> 0]
                                 ELSE [rate |-> 0, latency |-> 100]],
     [c \in {"PUSH", "WHATSAPP"} |-> IF c = "PUSH" THEN [rate |-> 0, latency |-> 30]
                                     ELSE [rate |-> 100, latency |-> 1]]}

MCRowOrders == {<<"SMS", "EMAIL", "PUSH", "WHATSAPP", "IN_APP">>,
                <<"IN_APP", "WHATSAPP", "PUSH", "EMAIL", "SMS">>}
=============================================================================
