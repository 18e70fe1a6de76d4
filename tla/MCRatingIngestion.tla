------------------------- MODULE MCRatingIngestion --------------------------
EXTENDS RatingIngestion

CONSTANTS e1, e2, e3, e4, bad, k1, k2, k3

\* e1 and e4 are two ratings of one record by one user.
MCKeyOf == [e \in Event |-> CASE e \in {e1, e4} -> k1
                              [] e = e2 -> k2 [] OTHER -> k3]
=============================================================================
