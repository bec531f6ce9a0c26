--------------------------- MODULE MCShardedAlloc ---------------------------
EXTENDS ShardedAlloc, TLC

Symmetry == Permutations(Threads) \cup Permutations(Units)
=============================================================================
