----------------------------- MODULE RatingStore -----------------------------
(***************************************************************************)
(* What the rating repository promises, as an abstract specification: for  *)
(* every record a set of ratings to which a Put adds one rating, and from  *)
(* which nothing is ever removed.                                          *)
(*                                                                         *)
(* The order of a record's ratings is not part of the promise: the only    *)
(* reader, Controller.GetAggregatedRating, sums them.                      *)
(***************************************************************************)

CONSTANTS Key,      \* a record type and a record id
          Rating    \* the ratings that may be put, each put adding one

VARIABLE store      \* store[k]: the ratings of record k

Init == store = [k \in Key |-> {}]

Put(k, x) ==
  /\ x \notin store[k]
  /\ store' = [store EXCEPT ![k] = @ \cup {x}]

Next == \E k \in Key, x \in Rating : Put(k, x)

Spec == Init /\ [][Next]_store
=============================================================================
