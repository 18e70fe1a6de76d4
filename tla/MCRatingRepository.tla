------------------------- MODULE MCRatingRepository -------------------------
EXTENDS RatingRepository, TLC

\* Writers are interchangeable, and so are readers.
Symmetry == Permutations(Writers) \cup Permutations(Readers)
=============================================================================
