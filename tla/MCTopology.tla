----------------------------- MODULE MCTopology -----------------------------
EXTENDS Topology
=============================================================================
