------------------------ MODULE MCProviderResilience ------------------------
EXTENDS ProviderResilience, TLC
=============================================================================
