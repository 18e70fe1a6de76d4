------------------------------ MODULE Services ------------------------------
(***************************************************************************)
(* The metadata and the rating service side by side, over the same kind of *)
(* repository, as their clients use them: the integration test and the     *)
(* movie service call both.                                                *)
(***************************************************************************)
EXTENDS MetadataService, RatingService

CONSTANT MaxCalls    \* bound: the calls that clients make

ASSUME MaxCallsOK == MaxCalls \in Nat

VARIABLE made        \* the calls made so far

vars == <<storage, metadataVars, ratingVars, made>>

Init == storage \in Storages /\ MetadataInit /\ RatingInit /\ made = 0

\* A client calls one of the services.
Call ==
  /\ made < MaxCalls
  /\ made' = made + 1
  /\ \/ MetadataArrives /\ UNCHANGED ratingVars
     \/ RatingArrives /\ UNCHANGED metadataVars

Next ==
  /\ UNCHANGED storage
  /\ \/ Call
     \/ (MetadataGoesOn \/ MetadataRestart) /\ UNCHANGED <<ratingVars, made>>
     \/ (RatingGoesOn \/ RatingRestart) /\ UNCHANGED <<metadataVars, made>>

Spec == Init /\ [][Next]_vars

\* The state of both services has its type.
TypeOK == MetadataTypeOK /\ RatingTypeOK /\ made \in 0..MaxCalls
=============================================================================
