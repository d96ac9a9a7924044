-------------------------- MODULE MCConsumerRepair --------------------------
EXTENDS ConsumerRepair, TLC

Interchangeable == Permutations(Send) \cup Permutations(Pipe \ {First})

=============================================================================
