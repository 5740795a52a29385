------------------------------ MODULE MCPollSet ------------------------------
EXTENDS PollSet, TLC

Symmetry == Permutations(Sessions) \cup Permutations(Fds)
=============================================================================
