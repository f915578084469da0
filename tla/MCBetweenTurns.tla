--------------------------- MODULE MCBetweenTurns ---------------------------
EXTENDS BetweenTurns
=============================================================================
