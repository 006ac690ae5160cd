--------------------------- MODULE MCStakeDriver ---------------------------
EXTENDS StakeDriver
=============================================================================
