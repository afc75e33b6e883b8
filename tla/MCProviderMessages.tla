------------------------- MODULE MCProviderMessages -------------------------
EXTENDS ProviderMessages

CONSTANTS m1, i1, h1, h2
=============================================================================
