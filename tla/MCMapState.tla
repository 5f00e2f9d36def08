----------------------------- MODULE MCMapState -----------------------------
EXTENDS MapState, TLC
=============================================================================
