---------------------------- MODULE MCPerfServer ----------------------------
EXTENDS PerfServerPeers, TLC

Symmetry == Permutations(Clients) \cup Permutations(Perfs) \cup Permutations(Addrs)
=============================================================================
