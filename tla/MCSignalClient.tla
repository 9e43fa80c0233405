--------------------------- MODULE MCSignalClient --------------------------
EXTENDS SignalClient

CONSTANTS r1, r2
=============================================================================
