----------------------------- MODULE MCPublish -----------------------------
EXTENDS Publish, TLC

\* The nodes and the transactions are interchangeable.
Symmetry == Permutations(Peer) \cup Permutations(Tx)
=============================================================================
