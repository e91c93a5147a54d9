---------------------------- MODULE MCTunnelClient ----------------------------
\* TunnelClient for TLC: ids and tasks are interchangeable model values.
EXTENDS TunnelClient, TLC

TaskSymmetry ==
    Permutations(Ids) \cup Permutations(Runtimes) \cup Permutations(Streams)

=============================================================================
