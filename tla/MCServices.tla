----------------------------- MODULE MCServices -----------------------------
EXTENDS Services, TLC

\* The goroutines of a service are interchangeable.
Symmetry == Permutations(MetadataCall) \cup Permutations(RatingCall)
=============================================================================
