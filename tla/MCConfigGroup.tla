--------------------------- MODULE MCConfigGroup ---------------------------
EXTENDS ConfigGroupMetrics

CONSTANTS c1

MCClients1 == {c1}
=============================================================================
