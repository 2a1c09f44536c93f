--------------------------- MODULE MCStateStream ---------------------------
EXTENDS StateStream
=============================================================================
