------------------------ MODULE MCDeliveryLifecycle -------------------------
EXTENDS DeliveryLifecycle, TLC

CONSTANTS cSent, cDelivered, cRead, cFailed, d1, d2, d3

\* A delivery that is confirmed step by step and one that fails.
MCSerial ==
    (cSent :> "SENT") @@ (cDelivered :> "DELIVERED") @@ (cRead :> "READ") @@ (cFailed :> "FAILED")

\* d1 and d2 hold exhausted messages, d3 one that is not.
MCRetryCount == (d1 :> 2) @@ (d2 :> 3) @@ (d3 :> 1)

MCSymmetry == Permutations(Handlers) \cup Permutations(Operators)
=============================================================================
