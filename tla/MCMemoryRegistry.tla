-------------------------- MODULE MCMemoryRegistry --------------------------
EXTENDS MemoryRegistry, TLC

CONSTANTS metadata, rating, i1, i2, i3

\* Two instances of one service and one of another.
MCServiceOf == [i \in Instance |-> IF i = i3 THEN rating ELSE metadata]
\* The replicas of one service are interchangeable, and so are the clients.
Symmetry == Permutations({i1, i2}) \cup Permutations(Client)
=============================================================================
