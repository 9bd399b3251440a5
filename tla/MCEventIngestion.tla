-------------------------- MODULE MCEventIngestion --------------------------
EXTENDS EventIngestion, TLC

CONSTANTS events, critical, a, b, bad

\* One event copied across both partitions, another one, and a broken message.
MCMessages == (events :> <<a, bad, b>>) @@ (critical :> <<a>>)

\* One partition with three events.
MCOnePartition == events :> <<a, bad, b>>
=============================================================================
