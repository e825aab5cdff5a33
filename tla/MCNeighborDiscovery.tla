------------------------ MODULE MCNeighborDiscovery ------------------------
EXTENDS NeighborDiscovery
=============================================================================
