-------------------------- MODULE MCDeferredQueue ---------------------------
EXTENDS DeferredQueue, TLC

CONSTANTS ann, bob, a1, a2, b1, first, second

MCUserOf == (a1 :> ann) @@ (a2 :> ann) @@ (b1 :> bob)

\* The first drain does not know the timezone of bob.
MCTimezones == (first :> {ann}) @@ (second :> {ann, bob})
=============================================================================
