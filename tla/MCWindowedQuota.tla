--------------------------- MODULE MCWindowedQuota ---------------------------
EXTENDS WindowedQuota, TLC

CONSTANTS fast, slow

MCSkew == fast :> 1 @@ slow :> 0

\* Of the retry budget a limit of all providers per minute and one of each
\* provider per hour; a tick is half a minute and an hour two minutes.
MCDimensions == {"GLOBAL_MINUTE", "PROVIDER_HOUR"}
MCSubject == [r \in Requests |-> [d \in MCDimensions |-> IF d = "GLOBAL_MINUTE" THEN "all" ELSE r]]
MCWindow == [GLOBAL_MINUTE |-> 2, PROVIDER_HOUR |-> 4]
MCLimit == [GLOBAL_MINUTE |-> 2, PROVIDER_HOUR |-> 2]
=============================================================================
