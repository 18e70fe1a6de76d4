------------------------- MODULE MovieDetailsProofs -------------------------
(***************************************************************************)
(* Theorems about the movie service's requests, for every number of        *)
(* requests, movies, attempts and tokens, and for both pairs of gateways.  *)
(***************************************************************************)
EXTENDS MovieDetails, TLAPS

(***************************************************************************)
(* The invariant.  A request in flight has seen what its movie is now, what *)
(* it found was the movie's, and it has attempts left while it calls the   *)
(* metadata service; an answered one has what the properties say.  Only    *)
(* the gRPC gateways can panic, and a panic leaves nothing in flight.      *)
(***************************************************************************)

Reading(r) == pc[r] \in {"lookupMetadata", "callMetadata"}
Rating(r)  == pc[r] \in {"lookupRating", "callRating"}

InFlight(r) ==
  /\ pc[r] # "idle" => /\ id[r] \in Movie
                       /\ version[id[r]] \in versions[r]
                       /\ aggregate[id[r]] \in aggregates[r]
  /\ Reading(r) => found[r] = 0
  /\ Rating(r) => found[r] # 0 /\ found[r] \in versions[r]
  /\ pc[r] = "lookupMetadata" => attempt[r] = 0 /\ failure[r] = "none"
  /\ pc[r] = "callMetadata" => /\ attempt[r] < MaxRetries
                               /\ transport = "http" => attempt[r] = 0

Settled(r) ==
  Answered(r) =>
    /\ reply[r].status = "OK" => /\ reply[r].metadata # 0 /\ reply[r].metadata \in versions[r]
                                 /\ reply[r].rating \in aggregates[r] \cup {0}
    /\ reply[r].status = "NotFound" => 0 \in versions[r]
    /\ found[r] # 0 /\ reply[r].status # "OK" => transport = "http" /\ 0 \in aggregates[r]
    /\ found[r] = 0 /\ failure[r] \in Retryable =>
         attempt[r] = IF transport = "grpc" THEN MaxRetries ELSE 1

RequestOK(r) == InFlight(r) /\ Settled(r)

IInv == /\ TypeOK
        /\ tokens + excess = Burst
        /\ panicked => transport = "grpc"
        /\ \A r \in Request : RequestOK(r)

LEMMA InitIInv == Init => IInv
<1> SUFFICES ASSUME Init PROVE IInv
  OBVIOUS
<1>1. Burst \in Nat /\ MaxVersion \in Nat /\ MaxRatings \in Nat /\ MaxRestarts \in Nat
      /\ MaxRetries \in Nat
  BY MovieConstantsOK
<1>2. TypeOK
  <2>1. listing \in [Backend -> {"active", "stale", "none"}] /\ serving \in SUBSET Backend
    BY DEF Init
  <2>2. /\ failure \in [Request -> StatusCode] /\ found \in [Request -> Version]
        /\ reply \in [Request -> Reply]
    BY <1>1 DEF Init, Version, Aggregate, StatusCode, Reply, NoReply
  <2>3. /\ version \in [Movie -> Version] /\ aggregate \in [Movie -> Aggregate]
        /\ versions \in [Request -> SUBSET Version] /\ aggregates \in [Request -> SUBSET Aggregate]
    BY <1>1 DEF Init, Version, Aggregate
  <2>4. /\ tokens \in 0..Burst /\ excess \in Nat /\ restarts \in 0..MaxRestarts
        /\ attempt \in [Request -> 0..MaxRetries]
    BY <1>1 DEF Init
  <2>5. /\ transport \in Transports /\ panicked \in BOOLEAN
        /\ pc \in [Request -> {"idle", "lookupMetadata", "callMetadata",
                               "lookupRating", "callRating", "cut"}]
        /\ id \in [Request -> Movie \cup {NoMovie}]
        /\ ctx \in [Request -> {"open", "deadline", "done"}]
        /\ lost \in [Request -> BOOLEAN]
    BY DEF Init
  <2> QED BY <2>1, <2>2, <2>3, <2>4, <2>5 DEF TypeOK
<1>4. ~panicked
  BY DEF Init
<1>3. ASSUME NEW r \in Request PROVE RequestOK(r)
  BY MovieConstantsOK DEF Init, RequestOK, InFlight, Settled, Reading, Rating, Answered
<1> QED BY <1>1, <1>2, <1>3, <1>4 DEF IInv, Init

\* What a change of the services leaves of the requests, which observe it.
LEMMA ObserveKeeps ==
  ASSUME IInv, Observe, UNCHANGED <<transport, request>>,
         version' \in [Movie -> Version], aggregate' \in [Movie -> Aggregate]
  PROVE  /\ versions' \in [Request -> SUBSET Version]
         /\ aggregates' \in [Request -> SUBSET Aggregate]
         /\ \A r \in Request : RequestOK(r)'
<1>1. ASSUME NEW r \in Request
      PROVE  /\ versions'[r] \in SUBSET Version /\ aggregates'[r] \in SUBSET Aggregate
             /\ versions[r] \subseteq versions'[r] /\ aggregates[r] \subseteq aggregates'[r]
             /\ pc[r] = "idle" => versions'[r] = versions[r] /\ aggregates'[r] = aggregates[r]
             /\ pc[r] # "idle" => /\ version'[id[r]] \in versions'[r]
                                  /\ aggregate'[id[r]] \in aggregates'[r]
  BY <1>1 DEF IInv, TypeOK, Observe, RequestOK, InFlight
<1>2. /\ versions' \in [Request -> SUBSET Version]
      /\ aggregates' \in [Request -> SUBSET Aggregate]
  BY <1>1 DEF Observe
<1>3. ASSUME NEW r \in Request PROVE RequestOK(r)'
  <2>1. InFlight(r)'
    BY <1>1, <1>3 DEF IInv, RequestOK, InFlight, Reading, Rating, request
  <2>2. Settled(r)'
    BY <1>1, <1>3 DEF IInv, RequestOK, Settled, Answered, request
  <2> QED BY <2>1, <2>2 DEF RequestOK
<1> QED BY <1>2, <1>3

\* A step of one request leaves the others alone.
LEMMA OthersKept ==
  ASSUME IInv, NEW r \in Request, NEW q \in Request, q # r, UNCHANGED <<transport, version, aggregate>>,
         pc'[q] = pc[q], id'[q] = id[q], attempt'[q] = attempt[q], failure'[q] = failure[q],
         found'[q] = found[q], reply'[q] = reply[q],
         versions'[q] = versions[q], aggregates'[q] = aggregates[q]
  PROVE  RequestOK(q)'
BY DEF IInv, RequestOK, InFlight, Settled, Reading, Rating, Answered

LEMMA BackendStep ==
  ASSUME IInv,
         \/ \E m \in Movie : PutMetadata(m) \/ PutRating(m)
         \/ \E s \in Backend : ListingChanges(s) \/ Stop(s) \/ Start(s)
  PROVE  IInv'
<1> USE MovieConstantsOK
<1>1. ASSUME NEW m \in Movie, PutMetadata(m) PROVE IInv'
  <2>1. version' \in [Movie -> Version] /\ aggregate' \in [Movie -> Aggregate]
    BY <1>1 DEF IInv, TypeOK, PutMetadata, Version
  <2>2. /\ versions' \in [Request -> SUBSET Version] /\ aggregates' \in [Request -> SUBSET Aggregate]
        /\ \A r \in Request : RequestOK(r)'
    BY <1>1, <2>1, ObserveKeeps DEF PutMetadata, process
  <2> QED BY <1>1, <2>1, <2>2 DEF IInv, TypeOK, PutMetadata, process, request
<1>2. ASSUME NEW m \in Movie, PutRating(m) PROVE IInv'
  <2>1. version' \in [Movie -> Version] /\ aggregate' \in [Movie -> Aggregate]
    BY <1>2 DEF IInv, TypeOK, PutRating, Aggregate
  <2>2. /\ versions' \in [Request -> SUBSET Version] /\ aggregates' \in [Request -> SUBSET Aggregate]
        /\ \A r \in Request : RequestOK(r)'
    BY <1>2, <2>1, ObserveKeeps DEF PutRating, process
  <2> QED BY <1>2, <2>1, <2>2 DEF IInv, TypeOK, PutRating, process, request
<1>3. ASSUME NEW s \in Backend, Start(s) PROVE IInv'
  <2>1. version' \in [Movie -> Version] /\ aggregate' \in [Movie -> Aggregate]
    BY <1>3 DEF IInv, TypeOK, Start, Version, Aggregate
  <2>2. /\ versions' \in [Request -> SUBSET Version] /\ aggregates' \in [Request -> SUBSET Aggregate]
        /\ \A r \in Request : RequestOK(r)'
    BY <1>3, <2>1, ObserveKeeps DEF Start, process
  <2>3. restarts' \in 0..MaxRestarts /\ serving' \in SUBSET Backend
    BY <1>3 DEF IInv, TypeOK, Start
  <2> QED BY <1>3, <2>1, <2>2, <2>3 DEF IInv, TypeOK, Start, process, request
<1>4. ASSUME NEW s \in Backend, ListingChanges(s) \/ Stop(s) PROVE IInv'
  <2>1. UNCHANGED <<process, restarts, version, aggregate, request, history>>
    BY <1>4 DEF ListingChanges, Stop
  <2>2. /\ listing' \in [Backend -> {"active", "stale", "none"}]
        /\ serving' \in SUBSET Backend
    BY <1>4 DEF IInv, TypeOK, ListingChanges, Stop
  <2>3. TypeOK'
    BY <2>1, <2>2 DEF IInv, TypeOK, process, request, history
  <2>4. ASSUME NEW r \in Request PROVE RequestOK(r)'
    BY <2>1, <2>4 DEF IInv, RequestOK, InFlight, Settled, Reading, Rating, Answered,
                      process, request, history
  <2> QED BY <2>1, <2>3, <2>4 DEF IInv, process, request
<1> QED BY <1>1, <1>2, <1>3, <1>4

LEMMA RefillStep == ASSUME IInv, Refill PROVE IInv'
<1>1. tokens' + excess' = Burst /\ tokens' \in 0..Burst /\ excess' \in Nat
  BY MovieConstantsOK DEF IInv, TypeOK, Refill
<1>2. UNCHANGED <<transport, backend, request, history>>
  BY DEF Refill
<1>3. TypeOK'
  BY <1>1, <1>2 DEF IInv, TypeOK, backend, request, history
<1>4. ASSUME NEW r \in Request PROVE RequestOK(r)'
  BY <1>2, <1>4 DEF IInv, RequestOK, InFlight, Settled, Reading, Rating, Answered,
                    backend, request, history
<1> QED BY <1>1, <1>2, <1>3, <1>4 DEF IInv, request

LEMMA RefuseStep == ASSUME IInv, NEW r \in Request, Refuse(r) PROVE IInv'
<1> USE DEF Refuse, Return
<1>1. TypeOK'
  <2>1. [status |-> "ResourceExhausted", metadata |-> 0, rating |-> 0] \in Reply
    BY MovieConstantsOK DEF Reply, Version, Aggregate
  <2> QED BY <2>1 DEF IInv, TypeOK, process, backend, history
<1>2. RequestOK(r)'
  BY MovieConstantsOK DEF IInv, TypeOK, RequestOK, InFlight, Settled, Reading, Rating, Answered
<1>3. ASSUME NEW q \in Request, q # r PROVE RequestOK(q)'
  BY <1>3, OthersKept DEF IInv, TypeOK, process, backend, history
<1> QED BY <1>1, <1>2, <1>3 DEF IInv, process

LEMMA GetMovieDetailsStep ==
  ASSUME IInv, NEW r \in Request, GetMovieDetails(r) PROVE IInv'
<1> USE DEF GetMovieDetails, Admit, Limit
<1>1. tokens' + excess' = Burst /\ tokens' \in 0..Burst /\ excess' \in Nat
  BY MovieConstantsOK DEF IInv, TypeOK
<1>2. UNCHANGED <<transport, panicked, listing, serving, restarts, version, aggregate, lost>>
  BY DEF backend
<1>3. /\ attempt' \in [Request -> 0..MaxRetries] /\ attempt'[r] = 0
      /\ failure' \in [Request -> StatusCode] /\ failure'[r] = "none"
      /\ found' \in [Request -> Version] /\ found'[r] = 0
  BY MovieConstantsOK DEF IInv, TypeOK, StatusCode, Version
<1>4. CASE /\ id' = [id EXCEPT ![r] = NoMovie]
           /\ Return(r, "InvalidArgument", 0, 0)
           /\ UNCHANGED history
  <2>1. [status |-> "InvalidArgument", metadata |-> 0, rating |-> 0] \in Reply
    BY MovieConstantsOK DEF Reply, Version, Aggregate
  <2>2. TypeOK'
    BY <1>1, <1>2, <1>3, <1>4, <2>1 DEF IInv, TypeOK, Return, history
  <2>3. RequestOK(r)'
    BY <1>4, MovieConstantsOK
       DEF IInv, TypeOK, RequestOK, InFlight, Settled, Reading, Rating, Answered, Return
  <2>4. ASSUME NEW q \in Request, q # r PROVE RequestOK(q)'
    BY <1>2, <1>4, <2>4, OthersKept DEF IInv, TypeOK, Return, history
  <2> QED BY <1>1, <1>2, <2>2, <2>3, <2>4 DEF IInv
<1>5. ASSUME NEW m \in Movie,
             id' = [id EXCEPT ![r] = m], pc' = [pc EXCEPT ![r] = "lookupMetadata"],
             reply' = [reply EXCEPT ![r] = NoReply],
             NEW c \in {"open", "deadline"}, ctx' = [ctx EXCEPT ![r] = c],
             versions' = [versions EXCEPT ![r] = {version[m]}],
             aggregates' = [aggregates EXCEPT ![r] = {aggregate[m]}]
      PROVE  IInv'
  <2>1. NoReply \in Reply /\ version[m] \in Version /\ aggregate[m] \in Aggregate
    BY MovieConstantsOK DEF IInv, TypeOK, Reply, NoReply, Version, Aggregate
  <2>2. TypeOK'
    BY <1>1, <1>2, <1>3, <1>5, <2>1 DEF IInv, TypeOK
  <2>3. RequestOK(r)'
    BY <1>2, <1>3, <1>5, MovieConstantsOK
       DEF IInv, TypeOK, RequestOK, InFlight, Settled, Reading, Rating, Answered
  <2>4. ASSUME NEW q \in Request, q # r PROVE RequestOK(q)'
    BY <1>2, <1>5, <2>4, OthersKept DEF IInv, TypeOK
  <2> QED BY <1>1, <1>2, <2>2, <2>3, <2>4 DEF IInv
<1> QED BY <1>4, <1>5

\* The answer to a failed call of the metadata gateway.
LEMMA MetadataFailsStep ==
  ASSUME IInv, NEW r \in Request, Reading(r), NEW code \in StatusCode, MetadataFails(r, code),
         code = "NotFound" => 0 \in versions[r],
         UNCHANGED <<process, panicked, backend, id, found, history>>,
         lost' \in [Request -> BOOLEAN],
         NEW n \in 0..MaxRetries, attempt' = [attempt EXCEPT ![r] = n],
         failure' = [failure EXCEPT ![r] = code],
         code \in Retryable => n = IF transport = "grpc" THEN MaxRetries ELSE 1
  PROVE  IInv'
<1> USE DEF MetadataFails, Return
<1>1. TypeOK'
  <2>1. /\ [status |-> "NotFound", metadata |-> 0, rating |-> 0] \in Reply
        /\ [status |-> "Internal", metadata |-> 0, rating |-> 0] \in Reply
    BY MovieConstantsOK DEF Reply, Version, Aggregate
  <2> QED BY <2>1 DEF IInv, TypeOK, process, backend, history
<1>2. RequestOK(r)'
  <2>1. found[r] = 0
    BY DEF IInv, RequestOK, InFlight
  <2>2. InFlight(r)'
    BY DEF IInv, TypeOK, InFlight, Reading, Rating
  <2>3. Settled(r)'
    BY <2>1 DEF IInv, TypeOK, Settled, Answered, IsErrNotFound, process, history
  <2> QED BY <2>2, <2>3 DEF RequestOK
<1>3. ASSUME NEW q \in Request, q # r PROVE RequestOK(q)'
  BY <1>3, OthersKept DEF IInv, TypeOK, process, backend, history
<1> QED BY <1>1, <1>2, <1>3 DEF IInv, process

\* The panic ends every request in flight and answers none.
LEMMA PanicStep ==
  ASSUME IInv, Panic, transport = "grpc",
         UNCHANGED <<process, backend, id, attempt, failure, found, reply, ctx, lost, history>>
  PROVE  IInv'
<1>1. pc' \in [Request -> {"idle", "lookupMetadata", "callMetadata",
                          "lookupRating", "callRating", "cut"}]
  BY DEF Panic
<1>2. TypeOK'
  BY <1>1 DEF IInv, TypeOK, Panic, process, backend, history
<1>3. ASSUME NEW q \in Request PROVE RequestOK(q)'
  <2>1. pc'[q] = IF pc[q] = "idle" THEN "idle" ELSE "cut"
    BY DEF Panic
  <2> QED BY <2>1 DEF IInv, RequestOK, InFlight, Settled, Reading, Rating, Answered,
                      process, backend, history
<1> QED BY <1>2, <1>3 DEF IInv, Panic, process

LEMMA LookupMetadataStep == ASSUME IInv, NEW r \in Request, LookupMetadata(r) PROVE IInv'
<1> USE DEF LookupMetadata
<1>1. CASE pc' = [pc EXCEPT ![r] = "callMetadata"] /\ UNCHANGED <<panicked, reply, ctx>>
  <2>2. TypeOK'
    BY <1>1 DEF IInv, TypeOK, process, backend, history
  <2>3. RequestOK(r)'
    BY <1>1, MovieConstantsOK DEF IInv, TypeOK, RequestOK, InFlight, Settled, Reading, Rating,
                                  Answered, process, backend, history
  <2>4. ASSUME NEW q \in Request, q # r PROVE RequestOK(q)'
    BY <1>1, <2>4, OthersKept DEF IInv, TypeOK, process, backend, history
  <2> QED BY <1>1, <2>2, <2>3, <2>4 DEF IInv, process
<1>2. CASE MetadataFails(r, "none") /\ UNCHANGED panicked
  <2>1. Reading(r) /\ attempt[r] = 0 /\ failure[r] = "none"
    BY DEF IInv, RequestOK, InFlight, Reading
  <2>2. /\ attempt' = [attempt EXCEPT ![r] = 0] /\ failure' = [failure EXCEPT ![r] = "none"]
        /\ 0 \in 0..MaxRetries /\ "none" \in StatusCode /\ "none" \notin Retryable
        /\ lost' \in [Request -> BOOLEAN]
    BY <2>1, MovieConstantsOK DEF IInv, TypeOK, StatusCode, Retryable
  <2> QED BY <1>2, <2>1, <2>2, MetadataFailsStep
<1>3. CASE LookupPanics("metadata") /\ Panic /\ UNCHANGED <<reply, ctx>>
  BY <1>3, PanicStep DEF LookupPanics
<1> QED BY <1>1, <1>2, <1>3

\* A request only meets "not found" if there is nothing to be found.
LEMMA FailureCodes ==
  ASSUME NEW r \in Request, NEW s, NEW value, NEW code \in Failures(r, s, value)
  PROVE  code \in StatusCode /\ (code = "NotFound" => value = 0)
BY DEF Failures, StatusCode, Retryable

LEMMA CallMetadataStep == ASSUME IInv, NEW r \in Request, CallMetadata(r) PROVE IInv'
<1> USE DEF CallMetadata, NextAttempt
<1>1. /\ attempt[r] \in 0..MaxRetries /\ attempt[r] < MaxRetries
      /\ transport = "http" => attempt[r] = 0
      /\ attempt[r] + 1 \in 0..MaxRetries /\ attempt' = [attempt EXCEPT ![r] = attempt[r] + 1]
      /\ lost' \in [Request -> BOOLEAN]
  BY MovieConstantsOK DEF IInv, TypeOK, RequestOK, InFlight
<1>2. /\ Reading(r) /\ id[r] \in Movie /\ version[id[r]] \in versions[r]
      /\ version[id[r]] \in Version /\ found[r] = 0
  BY DEF IInv, TypeOK, RequestOK, InFlight, Reading
<1>3. CASE /\ version[id[r]] # 0
           /\ found' = [found EXCEPT ![r] = version[id[r]]]
           /\ pc' = [pc EXCEPT ![r] = "lookupRating"]
           /\ UNCHANGED <<failure, reply, ctx>>
  <2>1. TypeOK'
    BY <1>1, <1>2, <1>3 DEF IInv, TypeOK, process, backend, history
  <2>2. RequestOK(r)'
    BY <1>2, <1>3 DEF IInv, TypeOK, RequestOK, InFlight, Settled, Reading, Rating, Answered,
                      process, backend, history
  <2>3. ASSUME NEW q \in Request, q # r PROVE RequestOK(q)'
    BY <1>3, <2>3, OthersKept DEF IInv, TypeOK, process, backend, history
  <2> QED BY <2>1, <2>2, <2>3 DEF IInv, process
<1>4. ASSUME NEW code \in Failures(r, "metadata", version[id[r]]),
             failure' = [failure EXCEPT ![r] = code], UNCHANGED found,
             RetriesLeft(r, code), UNCHANGED <<pc, reply, ctx>>
      PROVE  IInv'
  <2>1. code \in StatusCode
    BY <1>4, FailureCodes
  <2>2. TypeOK'
    BY <1>1, <1>4, <2>1 DEF IInv, TypeOK, process, backend, history
  <2>3. RequestOK(r)'
    BY <1>1, <1>2, <1>4, MovieConstantsOK
       DEF IInv, TypeOK, RequestOK, InFlight, Settled, Reading, Rating, Answered, RetriesLeft,
           process, backend, history
  <2>4. ASSUME NEW q \in Request, q # r PROVE RequestOK(q)'
    BY <1>4, <2>4, OthersKept DEF IInv, TypeOK, process, backend, history
  <2> QED BY <2>2, <2>3, <2>4 DEF IInv, process
<1>5. ASSUME NEW code \in Failures(r, "metadata", version[id[r]]),
             failure' = [failure EXCEPT ![r] = code], UNCHANGED found,
             ~RetriesLeft(r, code), MetadataFails(r, code)
      PROVE  IInv'
  <2>1. code \in StatusCode /\ (code = "NotFound" => 0 \in versions[r])
    BY <1>2, <1>5, FailureCodes
  <2>2. code \in Retryable => attempt[r] + 1 = IF transport = "grpc" THEN MaxRetries ELSE 1
    BY <1>1, <1>5, MovieConstantsOK DEF IInv, TypeOK, RetriesLeft
  <2> QED BY <1>1, <1>2, <1>5, <2>1, <2>2, MetadataFailsStep
<1> QED BY <1>3, <1>4, <1>5

\* The end of a request whose metadata was found: with a rating, or after the
\* rating gateway failed.
LEMMA RatingEnds ==
  ASSUME IInv, NEW r \in Request, Rating(r),
         UNCHANGED <<process, panicked, backend, id, attempt, found, history>>,
         lost' \in [Request -> BOOLEAN],
         failure' \in [Request -> StatusCode],
         \A q \in Request : q # r => failure'[q] = failure[q],
         \/ \E rating \in Aggregate : rating \in aggregates[r] \cup {0} /\ Return(r, "OK", found[r], rating)
         \/ transport = "http" /\ 0 \in aggregates[r] /\ Return(r, "Internal", 0, 0)
  PROVE  IInv'
<1> USE DEF Return
<1>1. found[r] # 0 /\ found[r] \in versions[r] /\ found[r] \in Version
  BY DEF IInv, TypeOK, RequestOK, InFlight
<1>2. PICK status \in {"OK", "Internal"}, metadata \in Version, rating \in Aggregate :
        /\ Return(r, status, metadata, rating)
        /\ status = "OK" => metadata = found[r] /\ rating \in aggregates[r] \cup {0}
        /\ status # "OK" => transport = "http" /\ 0 \in aggregates[r]
  BY <1>1, MovieConstantsOK DEF Version, Aggregate
<1>3. TypeOK'
  <2>1. [status |-> status, metadata |-> metadata, rating |-> rating] \in Reply
    BY <1>2 DEF Reply
  <2> QED BY <1>2, <2>1 DEF IInv, TypeOK, process, backend, history
<1>4. RequestOK(r)'
  <2>1. InFlight(r)'
    BY <1>2 DEF IInv, TypeOK, InFlight, Reading, Rating
  <2>2. Settled(r)'
    BY <1>1, <1>2 DEF IInv, TypeOK, Settled, Answered, process, history
  <2> QED BY <2>1, <2>2 DEF RequestOK
<1>5. ASSUME NEW q \in Request, q # r PROVE RequestOK(q)'
  BY <1>2, <1>5, OthersKept DEF IInv, TypeOK, process, backend, history
<1> QED BY <1>3, <1>4, <1>5 DEF IInv, process

LEMMA LookupRatingStep == ASSUME IInv, NEW r \in Request, LookupRating(r) PROVE IInv'
<1> USE DEF LookupRating
<1>1. CASE pc' = [pc EXCEPT ![r] = "callRating"] /\ UNCHANGED <<panicked, reply, ctx>>
  <2>2. TypeOK'
    BY <1>1 DEF IInv, TypeOK, process, backend, history
  <2>3. RequestOK(r)'
    BY <1>1 DEF IInv, TypeOK, RequestOK, InFlight, Settled, Reading, Rating, Answered,
                process, backend, history
  <2>4. ASSUME NEW q \in Request, q # r PROVE RequestOK(q)'
    BY <1>1, <2>4, OthersKept DEF IInv, TypeOK, process, backend, history
  <2> QED BY <1>1, <2>2, <2>3, <2>4 DEF IInv, process
<1>2. CASE RatingFails(r, "none") /\ UNCHANGED panicked
  <2>1. Rating(r) /\ Return(r, "OK", found[r], 0)
    BY <1>2 DEF Rating, RatingFails, IsErrNotFound
  <2> QED BY <1>2, <2>1, RatingEnds, MovieConstantsOK DEF IInv, TypeOK, Aggregate
<1>3. CASE LookupPanics("rating") /\ Panic /\ UNCHANGED <<reply, ctx>>
  BY <1>3, PanicStep DEF LookupPanics
<1> QED BY <1>1, <1>2, <1>3

LEMMA CallRatingStep == ASSUME IInv, NEW r \in Request, CallRating(r) PROVE IInv'
<1> USE DEF CallRating
<1>1. /\ Rating(r) /\ aggregate[id[r]] \in aggregates[r] /\ aggregate[id[r]] \in Aggregate
      /\ lost' \in [Request -> BOOLEAN]
  BY DEF IInv, TypeOK, RequestOK, InFlight, Rating
<1>2. CASE Return(r, "OK", found[r], aggregate[id[r]]) /\ UNCHANGED failure
  BY <1>1, <1>2, RatingEnds DEF IInv, TypeOK
<1>3. ASSUME NEW code \in Failures(r, "rating", aggregate[id[r]]),
             failure' = [failure EXCEPT ![r] = code], RatingFails(r, code)
      PROVE  IInv'
  <2>1. code \in StatusCode /\ (code = "NotFound" => 0 \in aggregates[r])
    BY <1>1, <1>3, FailureCodes
  <2>2. failure' \in [Request -> StatusCode] /\ \A q \in Request : q # r => failure'[q] = failure[q]
    BY <1>3, <2>1 DEF IInv, TypeOK
  <2>3. \/ Return(r, "OK", found[r], 0)
        \/ transport = "http" /\ 0 \in aggregates[r] /\ Return(r, "Internal", 0, 0)
    BY <1>3, <2>1 DEF RatingFails, IsErrNotFound
  <2> QED BY <1>1, <2>2, <2>3, RatingEnds, MovieConstantsOK DEF Aggregate
<1> QED BY <1>2, <1>3

\* What happens around a request leaves it where it is.
LEMMA AroundStep ==
  ASSUME IInv, NEW r \in Request, LoseAnswer(r) \/ DeadlinePasses(r) \/ CallerLeaves(r)
  PROVE  IInv' /\ UNCHANGED <<pc, attempt>>
<1>1. /\ UNCHANGED <<process, backend, panicked, pc, id, attempt, failure, found, reply, history>>
      /\ ctx' \in [Request -> {"open", "deadline", "done"}] /\ lost' \in [Request -> BOOLEAN]
  BY DEF LoseAnswer, DeadlinePasses, CallerLeaves, ContextDone, IInv, TypeOK
<1>2. TypeOK'
  BY <1>1 DEF IInv, TypeOK, process, backend, history
<1>3. ASSUME NEW q \in Request PROVE RequestOK(q)'
  BY <1>1 DEF IInv, RequestOK, InFlight, Settled, Reading, Rating, Answered,
              process, backend, history
<1> QED BY <1>1, <1>2, <1>3 DEF IInv, process

LEMMA NextIInv == IInv /\ [Next]_vars => IInv'
<1> SUFFICES ASSUME IInv, [Next]_vars PROVE IInv'
  OBVIOUS
<1>1. CASE \/ \E m \in Movie : PutMetadata(m) \/ PutRating(m)
           \/ \E s \in Backend : ListingChanges(s) \/ Stop(s) \/ Start(s)
  BY <1>1, BackendStep
<1>2. ASSUME NEW r \in Request, Refuse(r) \/ GetMovieDetails(r) \/ Step(r) PROVE IInv'
  BY <1>2, RefuseStep, GetMovieDetailsStep, LookupMetadataStep, CallMetadataStep,
     LookupRatingStep, CallRatingStep DEF Step
<1>3. CASE Refill
  BY <1>3, RefillStep
<1>5. ASSUME NEW r \in Request, LoseAnswer(r) \/ DeadlinePasses(r) \/ CallerLeaves(r)
      PROVE  IInv'
  BY <1>5, AroundStep
<1>4. CASE UNCHANGED vars
  <2>1. TypeOK'
    BY <1>4 DEF IInv, TypeOK, vars
  <2>2. ASSUME NEW r \in Request PROVE RequestOK(r)'
    BY <1>4, <2>2 DEF IInv, RequestOK, InFlight, Settled, Reading, Rating, Answered, vars
  <2> QED BY <1>4, <2>1, <2>2 DEF IInv, vars
<1> QED BY <1>1, <1>2, <1>3, <1>4, <1>5 DEF Next

LEMMA Invariance == Spec => []IInv
BY InitIInv, NextIInv, PTL DEF Spec

(***************************************************************************)
(* The theorems                                                            *)
(***************************************************************************)

\* Every state of the movie service and its backends has its type.
THEOREM TypeCorrect == Spec => []TypeOK
<1>1. IInv => TypeOK
  BY DEF IInv
<1> QED BY <1>1, Invariance, PTL

\* A successful answer is made of what the movie had while the request ran
\* (controller.go:36-53 with both gateways).
THEOREM AnswersTrue == Spec => []AnswerWasTrue
<1>1. IInv => AnswerWasTrue
  BY DEF IInv, RequestOK, Settled, AnswerWasTrue
<1> QED BY <1>1, Invariance, PTL

\* An outage is never taken for a missing movie (controller.go:38).
THEOREM NotFoundTrue == Spec => []NotFoundWasTrue
<1>1. IInv => NotFoundWasTrue
  BY DEF IInv, RequestOK, Settled, NotFoundWasTrue
<1> QED BY <1>1, Invariance, PTL

\* A failure that may be retried is reported after the last attempt only
\* (gateway/metadata/grpc/metadata.go:33).
THEOREM Exhausted == Spec => []RetriesExhausted
<1>1. IInv => RetriesExhausted
  BY DEF IInv, RequestOK, Settled, RetriesExhausted
<1> QED BY <1>1, Invariance, PTL

\* The limiter admits what its burst and its rate allow, and no less
\* (movie/cmd/main.go:196).
THEOREM LimiterExact == Spec => []AdmitsUpToRate
<1>1. IInv => AdmitsUpToRate
  BY MovieConstantsOK DEF IInv, TypeOK, AdmitsUpToRate, Limit
<1> QED BY <1>1, Invariance, PTL

\* With the gRPC gateways only, which do not return ErrNotFound, a request whose
\* metadata was found has no answer but the details, as the comment at
\* controller.go:46 has it; it may have none, if the lookup of the rating
\* service panics.
THEOREM UnratedAnsweredByGrpc ==
  ASSUME Transports = {"grpc"} PROVE Spec => []UnratedAnswered
<1>1. IInv => UnratedAnswered
  BY DEF IInv, TypeOK, RequestOK, Settled, UnratedAnswered
<1> QED BY <1>1, Invariance, PTL

(***************************************************************************)
(* The safety half of RequestAnswered: the steps a request has left.       *)
(***************************************************************************)

\* The most steps the request may still take: the lookups, the attempts that
\* are left, the rating call.
StepsLeft(r) ==
  CASE pc[r] = "lookupMetadata" -> MaxRetries + 3
    [] pc[r] = "callMetadata"   -> MaxRetries - attempt[r] + 2
    [] pc[r] = "lookupRating"   -> 2
    [] pc[r] = "callRating"     -> 1
    [] OTHER                    -> 0

\* Each step of a request in flight leaves it fewer, and nothing that the other
\* requests, the services, the registry, the network, the callers and the
\* limiter do gives it more.  It is not answered by another's step, and another
\* takes it out only by a panic of a gRPC gateway.
Waits(r) == \/ pc'[r] = pc[r] /\ StepsLeft(r)' = StepsLeft(r)
            \/ pc'[r] = "cut" /\ panicked' /\ transport = "grpc"

Advance ==
  \A r \in Request : Pending(r) =>
    /\ StepsLeft(r) \in 1..(MaxRetries + 3)
    /\ Step(r) => StepsLeft(r)' \in 0..(StepsLeft(r) - 1)
    /\ ~Step(r) => Waits(r)

RequestAdvances == [][Advance]_vars

LEMMA StepsLeftRange ==
  ASSUME IInv, NEW r \in Request, Pending(r)
  PROVE  StepsLeft(r) \in 1..(MaxRetries + 3)
<1>1. MaxRetries \in Nat \ {0} /\ attempt[r] \in 0..MaxRetries
      /\ (pc[r] = "callMetadata" => attempt[r] < MaxRetries)
      /\ pc[r] \in {"lookupMetadata", "callMetadata", "lookupRating", "callRating"}
  BY MovieConstantsOK DEF IInv, TypeOK, RequestOK, InFlight, Pending
<1> QED BY <1>1 DEF StepsLeft

\* A step of a request moves it alone, or panics.
LEMMA StepMoves ==
  ASSUME IInv, NEW r \in Request, Step(r)
  PROVE  \/ Panic /\ attempt' = attempt /\ transport = "grpc"
            /\ pc[r] \in {"lookupMetadata", "lookupRating"}
         \/ /\ \A q \in Request : q # r => pc'[q] = pc[q] /\ attempt'[q] = attempt[q]
            /\ StepsLeft(r)' \in 0..(StepsLeft(r) - 1)
<1>1. /\ MaxRetries \in Nat \ {0} /\ attempt \in [Request -> 0..MaxRetries]
      /\ pc \in [Request -> {"idle", "lookupMetadata", "callMetadata", "lookupRating",
                             "callRating", "cut"}]
      /\ (pc[r] = "callMetadata" => attempt[r] < MaxRetries)
  BY MovieConstantsOK DEF IInv, TypeOK, RequestOK, InFlight
<1>2. CASE LookupMetadata(r)
  <2>1. /\ pc[r] = "lookupMetadata" /\ attempt' = attempt
        /\ \/ pc' = [pc EXCEPT ![r] = "callMetadata"] \/ pc' = [pc EXCEPT ![r] = "idle"]
           \/ Panic /\ transport = "grpc"
    BY <1>2 DEF LookupMetadata, MetadataFails, Return, LookupPanics
  <2> QED BY <1>1, <2>1 DEF StepsLeft
<1>3. CASE CallMetadata(r)
  <2>1. /\ pc[r] = "callMetadata" /\ attempt' = [attempt EXCEPT ![r] = attempt[r] + 1]
        /\ \/ pc' = [pc EXCEPT ![r] = "lookupRating"] \/ pc' = [pc EXCEPT ![r] = "idle"]
           \/ pc' = pc /\ attempt[r] + 1 < MaxRetries
    BY <1>3 DEF CallMetadata, MetadataFails, Return, NextAttempt, RetriesLeft
  <2> QED BY <1>1, <2>1 DEF StepsLeft
<1>4. CASE LookupRating(r)
  <2>1. /\ pc[r] = "lookupRating" /\ attempt' = attempt
        /\ \/ pc' = [pc EXCEPT ![r] = "callRating"] \/ pc' = [pc EXCEPT ![r] = "idle"]
           \/ Panic /\ transport = "grpc"
    BY <1>4 DEF LookupRating, RatingFails, Return, LookupPanics
  <2> QED BY <1>1, <2>1 DEF StepsLeft
<1>5. CASE CallRating(r)
  <2>1. pc[r] = "callRating" /\ attempt' = attempt /\ pc' = [pc EXCEPT ![r] = "idle"]
    BY <1>5 DEF CallRating, RatingFails, Return
  <2> QED BY <1>1, <2>1 DEF StepsLeft
<1> QED BY <1>2, <1>3, <1>4, <1>5 DEF Step

\* So its own step leaves it fewer, also the one that panics.
LEMMA StepAdvances ==
  ASSUME IInv, NEW r \in Request, Step(r), StepsLeft(r) \in 1..(MaxRetries + 3)
  PROVE  StepsLeft(r)' \in 0..(StepsLeft(r) - 1)
<1>1. CASE Panic /\ pc[r] \in {"lookupMetadata", "lookupRating"}
  <2>1. pc'[r] = "cut"
    BY <1>1 DEF Panic
  <2>2. StepsLeft(r)' = 0 /\ MaxRetries \in Nat
    BY <2>1, MovieConstantsOK DEF StepsLeft
  <2> QED BY <2>2
<1> QED BY <1>1, StepMoves

\* Other steps leave it where it is, but for a panic.
LEMMA OthersWait ==
  ASSUME IInv, [Next]_vars, NEW r \in Request, Pending(r), ~Step(r)
  PROVE  Waits(r)
<1>1. CASE UNCHANGED <<pc, attempt>>
  BY <1>1 DEF StepsLeft, Waits
<1>2. ASSUME NEW q \in Request, Refuse(q) \/ GetMovieDetails(q)
      PROVE  Waits(r)
  <2>1. q # r /\ pc'[r] = pc[r] /\ attempt'[r] = attempt[r]
    BY <1>2 DEF Refuse, GetMovieDetails, Return, IInv, TypeOK, Pending
  <2> QED BY <2>1 DEF StepsLeft, Waits
<1>3. ASSUME NEW q \in Request, Step(q)
      PROVE  Waits(r)
  <2>1. q # r
    BY <1>3
  <2>2. CASE Panic /\ transport = "grpc"
    BY <2>2 DEF Panic, Pending, Waits
  <2>3. CASE pc'[r] = pc[r] /\ attempt'[r] = attempt[r]
    BY <2>3 DEF StepsLeft, Waits
  <2> QED BY <1>3, <2>1, <2>2, <2>3, StepMoves
<1>4. CASE \/ \E m \in Movie : PutMetadata(m) \/ PutRating(m)
           \/ \E s \in Backend : ListingChanges(s) \/ Stop(s) \/ Start(s)
           \/ Refill
  <2>1. UNCHANGED request
    BY <1>4 DEF PutMetadata, PutRating, ListingChanges, Stop, Start, Refill
  <2> QED BY <1>1, <2>1 DEF request
<1>5. CASE UNCHANGED vars
  BY <1>1, <1>5 DEF vars
<1>6. ASSUME NEW q \in Request, LoseAnswer(q) \/ DeadlinePasses(q) \/ CallerLeaves(q)
      PROVE  Waits(r)
  BY <1>1, <1>6, AroundStep
<1> QED BY <1>2, <1>3, <1>4, <1>5, <1>6 DEF Next

\* A request makes MaxRetries + 3 steps at most to its answer or to the panic,
\* of which MaxRetries are calls of the metadata service: none of its loops runs
\* on, however the services fail, answers are lost and contexts end, whatever
\* the transport and the number of attempts.  What may keep it from its next
\* step is an answer it waits for.
THEOREM Advances == Spec => RequestAdvances
<1>1. IInv /\ [Next]_vars => Advance
  <2> SUFFICES ASSUME IInv, [Next]_vars, NEW r \in Request, Pending(r)
               PROVE  /\ StepsLeft(r) \in 1..(MaxRetries + 3)
                      /\ Step(r) => StepsLeft(r)' \in 0..(StepsLeft(r) - 1)
                      /\ ~Step(r) => Waits(r)
    BY Zenon DEF Advance
  <2>1. StepsLeft(r) \in 1..(MaxRetries + 3)
    BY StepsLeftRange
  <2> QED BY <2>1, StepAdvances, OthersWait
<1> QED BY <1>1, Invariance, PTL DEF Spec, RequestAdvances
=============================================================================
