--------------------------- MODULE MCTopologyDump ---------------------------
EXTENDS TopologyDump

\* A counter that counts up to 0, one that is right by chance, and one that is
\* too high.
Uninitialised == {-1, 0, 1}
=============================================================================
