---------------------------- MODULE MovieDetails ----------------------------
(***************************************************************************)
(* One GetMovieDetails request of the movie service: the gRPC handler      *)
(* (movie/internal/handler/grpc), the controller, and the two gateways     *)
(* that look the metadata and the rating service up and call them.         *)
(*                                                                         *)
(* The transport is that of the gateways: "http" is what movie/cmd/main.go *)
(* builds the service with, over Consul; "grpc" is what the integration    *)
(* test uses, over the in-memory registry.  A request reads two services   *)
(* one after the other, while both change, stop and restart (with empty    *)
(* in-memory repositories) and come and go in the registry.  Each service  *)
(* has one instance here.                                                  *)
(*                                                                         *)
(* Two things can leave a request without an answer.  A lookup of the      *)
(* in-memory registry that finds only stale records panics, which ends the *)
(* process and every request in it; the process is not restarted here.     *)
(* And an answer that is lost on the way is waited for until the request's *)
(* context is done, since no call has a timeout of its own; a lookup in    *)
(* Consul does not heed the context either.                                *)
(*                                                                         *)
(* Before the handler a rate limiter admits a request or turns it away: a  *)
(* token bucket (golang.org/x/time/rate), of which a Refill is the time    *)
(* that one token takes, a millisecond at the code's rate.                 *)
(***************************************************************************)
EXTENDS Naturals, FiniteSets

CONSTANTS Request,       \* handler goroutines of the movie service
          Movie,         \* movie ids
          NoMovie,       \* the empty id
          Transports,    \* the gateways to consider: "http", "grpc"
          Burst,         \* the tokens that the bucket holds, 1000 in the code
          MaxRetries,    \* the attempts of the gRPC metadata gateway
          MaxVersion,    \* bound: metadata Puts of a movie
          MaxRatings,    \* bound: ratings put for a movie
          MaxRestarts    \* bound: restarts of the two services

ASSUME MovieConstantsOK ==
  /\ NoMovie \notin Movie
  /\ Transports \subseteq {"http", "grpc"}
  /\ {Burst, MaxRetries} \subseteq Nat \ {0}
  /\ MaxVersion \in Nat /\ MaxRatings \in Nat /\ MaxRestarts \in Nat

Backend == {"metadata", "rating"}

VARIABLES
  transport,   \* the gateways the service is built with
  tokens,      \* the tokens in the limiter's bucket
  panicked,    \* whether a handler panicked, which ends the process
  listing,     \* each service's record in the registry: "active", "stale", "none"
  serving,     \* the services whose instance accepts calls
  restarts,
  version,     \* the metadata of each movie: 0 is none, a Put makes the next
  aggregate,   \* its aggregated rating: 0 is none, a Put makes the next
  pc,          \* where each request is; "cut" when it ended with the process
  id,          \* the movie it asks for
  attempt,     \* the calls of the metadata gateway so far
  failure,     \* the status of the last call that failed
  found,       \* details.Metadata
  reply,       \* what the handler returned
  ctx,         \* the handler's context: "open", with a "deadline" to come, "done"
  lost,        \* whether the answer that the request waits for is lost
  versions,    \* history: the metadata of the movie since the request came in
  aggregates,  \* history: and its aggregated ratings
  excess       \* history: the most that was admitted in an interval ending now,
               \* less the Refills in it

vars == <<transport, tokens, panicked, listing, serving, restarts, version, aggregate,
          pc, id, attempt, failure, found, reply, ctx, lost, versions, aggregates, excess>>

process == <<transport, tokens, excess>>

backend == <<listing, serving, restarts, version, aggregate>>
request == <<panicked, pc, id, attempt, failure, found, reply, ctx, lost>>
history == <<versions, aggregates>>

Version   == 0..MaxVersion
Aggregate == 0..MaxRatings

\* The codes that shouldRetry accepts, and the others a call may end with.
Retryable  == {"DeadlineExceeded", "ResourceExhausted", "Unavailable"}
StatusCode == Retryable \cup {"NotFound", "Internal", "none"}

NoReply == [status |-> "none", metadata |-> 0, rating |-> 0]
Reply   == [status : {"none", "ResourceExhausted", "InvalidArgument", "NotFound",
                      "Internal", "OK"},
            metadata : Version, rating : Aggregate]

\* The controller with its two gateways, of one transport; two services without
\* data; and no request.
Init ==
  /\ transport \in Transports
  /\ tokens     = Burst /\ excess = 0 /\ panicked = FALSE
  /\ listing    = [s \in Backend |-> "none"]
  /\ serving    = Backend /\ restarts = 0
  /\ version    = [m \in Movie |-> 0]
  /\ aggregate  = [m \in Movie |-> 0]
  /\ pc         = [r \in Request |-> "idle"]
  /\ id         = [r \in Request |-> NoMovie]
  /\ attempt    = [r \in Request |-> 0]
  /\ failure    = [r \in Request |-> "none"]
  /\ found      = [r \in Request |-> 0]
  /\ reply      = [r \in Request |-> NoReply]
  /\ ctx        = [r \in Request |-> "done"]
  /\ lost       = [r \in Request |-> FALSE]
  /\ versions   = [r \in Request |-> {}]
  /\ aggregates = [r \in Request |-> {}]

(***************************************************************************)
(* The two services and the registry                                       *)
(***************************************************************************)

\* A request in flight lives through what its movie becomes.
Observe ==
  /\ versions' = [r \in Request |->
       IF pc[r] = "idle" THEN versions[r] ELSE versions[r] \cup {version'[id[r]]}]
  /\ aggregates' = [r \in Request |->
       IF pc[r] = "idle" THEN aggregates[r] ELSE aggregates[r] \cup {aggregate'[id[r]]}]

PutMetadata(m) ==
  /\ "metadata" \in serving /\ version[m] < MaxVersion
  /\ version' = [version EXCEPT ![m] = @ + 1]
  /\ UNCHANGED <<process, listing, serving, restarts, aggregate, request>>
  /\ Observe

PutRating(m) ==
  /\ "rating" \in serving /\ aggregate[m] < MaxRatings
  /\ aggregate' = [aggregate EXCEPT ![m] = @ + 1]
  /\ UNCHANGED <<process, listing, serving, restarts, version, request>>
  /\ Observe

\* The registry follows the services late: a record may be active though the
\* service is gone, or stale or missing though it serves.  A new record is
\* active in the in-memory registry; in Consul its check starts critical.
ListingChanges(s) ==
  /\ \E l \in {"active", "stale", "none"} \ {listing[s]} :
       /\ ~(transport = "grpc" /\ listing[s] = "none" /\ l = "stale")
       /\ listing' = [listing EXCEPT ![s] = l]
  /\ UNCHANGED <<process, serving, restarts, version, aggregate, request, history>>

Stop(s) ==
  /\ s \in serving /\ restarts < MaxRestarts
  /\ serving' = serving \ {s}
  /\ UNCHANGED <<process, listing, restarts, version, aggregate, request, history>>

\* memory.New(): a restarted service has lost its records.
Start(s) ==
  /\ s \notin serving /\ restarts < MaxRestarts
  /\ serving' = serving \cup {s}
  /\ restarts' = restarts + 1
  /\ version' = IF s = "metadata" THEN [m \in Movie |-> 0] ELSE version
  /\ aggregate' = IF s = "rating" THEN [m \in Movie |-> 0] ELSE aggregate
  /\ UNCHANGED <<process, listing, request>>
  /\ Observe

(***************************************************************************)
(* The request                                                             *)
(***************************************************************************)

\* The handler returns, and its context is cancelled.
Return(r, status, metadata, rating) ==
  /\ reply' = [reply EXCEPT ![r] =
       [status |-> status, metadata |-> metadata, rating |-> rating]]
  /\ pc' = [pc EXCEPT ![r] = "idle"]
  /\ ctx' = [ctx EXCEPT ![r] = "done"]

\* Mutant: a token is kept in reserve.
LimitEarly == tokens <= 1

\* limiter.Limit: TRUE, the request is over the limit, if Allow finds no token.
Limit == ~(tokens > 0)

\* The interceptor: what Allow admits takes a token.
Refuse(r) ==
  /\ pc[r] = "idle" /\ ~panicked /\ Limit
  /\ id' = [id EXCEPT ![r] = NoMovie]
  /\ Return(r, "ResourceExhausted", 0, 0)
  /\ UNCHANGED <<process, panicked, backend, attempt, failure, found, lost, history>>

Admit ==
  /\ ~panicked /\ ~Limit
  /\ tokens' = tokens - 1
  /\ excess' = excess + 1

Refill ==
  /\ ~panicked /\ tokens < Burst
  /\ tokens' = tokens + 1
  /\ excess' = IF excess = 0 THEN 0 ELSE excess - 1
  /\ UNCHANGED <<transport, backend, request, history>>

\* The handler rejects an empty id, and calls the controller with another.
GetMovieDetails(r) ==
  /\ pc[r] = "idle" /\ Admit
  /\ attempt' = [attempt EXCEPT ![r] = 0]
  /\ failure' = [failure EXCEPT ![r] = "none"]
  /\ found'   = [found EXCEPT ![r] = 0]
  /\ \/ /\ id' = [id EXCEPT ![r] = NoMovie]
        /\ Return(r, "InvalidArgument", 0, 0)
        /\ UNCHANGED history
     \/ \E m \in Movie :
          /\ id' = [id EXCEPT ![r] = m]
          /\ pc' = [pc EXCEPT ![r] = "lookupMetadata"]
          /\ reply' = [reply EXCEPT ![r] = NoReply]
          /\ \E c \in {"open", "deadline"} : ctx' = [ctx EXCEPT ![r] = c]
          /\ versions' = [versions EXCEPT ![r] = {version[m]}]
          /\ aggregates' = [aggregates EXCEPT ![r] = {aggregate[m]}]
  /\ UNCHANGED <<transport, panicked, backend, lost>>

\* Mutant: the HTTP gateways map every error.
IsErrNotFoundAny(code) == transport = "http"

\* What an error of a gateway is to the controller: only the HTTP gateways
\* turn "not found" into gateway.ErrNotFound.
IsErrNotFound(code) == transport = "http" /\ code = "NotFound"

\* Mutant: the error is dropped and the details stay empty.
MetadataFailureDropped(r, code) == Return(r, "OK", 0, 0)

\* The metadata gateway failed for good.
MetadataFails(r, code) ==
  Return(r, IF IsErrNotFound(code) THEN "NotFound" ELSE "Internal", 0, 0)

Pending(r) == pc[r] \notin {"idle", "cut"}

\* The request's deadline passes, or its caller gives up.
ContextDone(r) ==
  /\ ctx' = [ctx EXCEPT ![r] = "done"]
  /\ UNCHANGED <<process, backend, panicked, pc, id, attempt, failure, found, reply, lost,
                 history>>
DeadlinePasses(r) == Pending(r) /\ ctx[r] = "deadline" /\ ContextDone(r)
CallerLeaves(r)   == Pending(r) /\ ctx[r] # "done" /\ ContextDone(r)

Calling(r) == pc[r] \in {"callMetadata", "callRating"}

\* An answer never comes, of a service or of Consul; the in-memory registry is
\* in the process.
LoseAnswer(r) ==
  /\ Pending(r) /\ ~lost[r]
  /\ IF Calling(r) THEN ctx[r] # "done" ELSE transport = "http"
  /\ lost' = [lost EXCEPT ![r] = TRUE]
  /\ UNCHANGED <<process, backend, panicked, pc, id, attempt, failure, found, reply, ctx,
                 history>>

\* ServiceAddresses of Consul fails when it finds no passing check, or cannot
\* be reached; that of the in-memory registry when there is no record.
LookupFails(s) == transport = "http" \/ listing[s] = "none"

\* ServiceConnection: the in-memory registry answers stale records with an empty
\* list and no error, and rand.Intn(0) panics.
LookupPanics(s) == transport = "grpc" /\ listing[s] = "stale"

\* Nothing recovers from it: the process ends, with all requests in it.
Panic ==
  /\ panicked' = TRUE
  /\ pc' = [r \in Request |-> IF pc[r] = "idle" THEN "idle" ELSE "cut"]

LookupMetadata(r) ==
  /\ pc[r] = "lookupMetadata" /\ ~lost[r]
  /\ \/ /\ listing["metadata"] = "active"
        /\ pc' = [pc EXCEPT ![r] = "callMetadata"]
        /\ UNCHANGED <<panicked, reply, ctx>>
     \/ LookupFails("metadata") /\ MetadataFails(r, "none") /\ UNCHANGED panicked
     \/ LookupPanics("metadata") /\ Panic /\ UNCHANGED <<reply, ctx>>
  /\ UNCHANGED <<process, backend, id, attempt, failure, found, lost, history>>

\* A call ends with its answer, or when the context is done.
CallEnds(r) == ~lost[r] \/ ctx[r] = "done"

\* How it may fail when the service answers value (0 for not found): the service
\* has no record, is gone, or the call fails on the way.  "Internal" stands for
\* all other codes, of which Canceled is one.
Failures(r, s, value) ==
  {"DeadlineExceeded", "Internal"} \cup
  (IF ctx[r] = "done" THEN {} ELSE Retryable) \cup
  (IF ctx[r] # "done" /\ s \in serving /\ value = 0 THEN {"NotFound"} ELSE {})

\* Mutants: one attempt too many, and one too few.
RetriesLeftMore(r, code) ==
  transport = "grpc" /\ code \in Retryable /\ attempt[r] < MaxRetries
RetriesLeftLess(r, code) ==
  transport = "grpc" /\ code \in Retryable /\ attempt[r] + 2 < MaxRetries

\* shouldRetry: the gRPC gateway's attempts, of which the HTTP gateway has one.
RetriesLeft(r, code) ==
  transport = "grpc" /\ code \in Retryable /\ attempt[r] + 1 < MaxRetries

\* Mutant: a call does not count as an attempt.
NextAttemptStays(n) == n

\* for range maxRetries
NextAttempt(n) == n + 1

CallMetadata(r) ==
  /\ pc[r] = "callMetadata" /\ CallEnds(r)
  /\ lost' = [lost EXCEPT ![r] = FALSE]
  /\ attempt' = [attempt EXCEPT ![r] = NextAttempt(@)]
  /\ \/ /\ ctx[r] # "done" /\ "metadata" \in serving /\ version[id[r]] # 0
        /\ found' = [found EXCEPT ![r] = version[id[r]]]
        /\ pc' = [pc EXCEPT ![r] = "lookupRating"]
        /\ UNCHANGED <<failure, reply, ctx>>
     \/ \E code \in Failures(r, "metadata", version[id[r]]) :
          /\ failure' = [failure EXCEPT ![r] = code]
          /\ \/ RetriesLeft(r, code) /\ UNCHANGED <<pc, reply, ctx>>
             \/ ~RetriesLeft(r, code) /\ MetadataFails(r, code)
          /\ UNCHANGED found
  /\ UNCHANGED <<process, panicked, backend, id, history>>

\* The controller after the rating gateway: an error that is ErrNotFound fails
\* the request, any other leaves details.Rating nil, which the handler makes 0.
RatingFails(r, code) ==
  IF IsErrNotFound(code) THEN Return(r, "Internal", 0, 0)
                         ELSE Return(r, "OK", found[r], 0)

LookupRating(r) ==
  /\ pc[r] = "lookupRating" /\ ~lost[r]
  /\ \/ /\ listing["rating"] = "active"
        /\ pc' = [pc EXCEPT ![r] = "callRating"]
        /\ UNCHANGED <<panicked, reply, ctx>>
     \/ LookupFails("rating") /\ RatingFails(r, "none") /\ UNCHANGED panicked
     \/ LookupPanics("rating") /\ Panic /\ UNCHANGED <<reply, ctx>>
  /\ UNCHANGED <<process, backend, id, attempt, failure, found, lost, history>>

CallRating(r) ==
  /\ pc[r] = "callRating" /\ CallEnds(r)
  /\ lost' = [lost EXCEPT ![r] = FALSE]
  /\ \/ /\ ctx[r] # "done" /\ "rating" \in serving /\ aggregate[id[r]] # 0
        /\ Return(r, "OK", found[r], aggregate[id[r]])
        /\ UNCHANGED failure
     \/ \E code \in Failures(r, "rating", aggregate[id[r]]) :
          /\ failure' = [failure EXCEPT ![r] = code]
          /\ RatingFails(r, code)
  /\ UNCHANGED <<process, panicked, backend, id, attempt, found, history>>

Step(r) == LookupMetadata(r) \/ CallMetadata(r) \/ LookupRating(r) \/ CallRating(r)

Next == \/ \E m \in Movie : PutMetadata(m) \/ PutRating(m)
        \/ \E s \in Backend : ListingChanges(s) \/ Stop(s) \/ Start(s)
        \/ \E r \in Request : Refuse(r) \/ GetMovieDetails(r) \/ Step(r)
        \/ \E r \in Request : LoseAnswer(r) \/ DeadlinePasses(r) \/ CallerLeaves(r)
        \/ Refill

\* A handler goroutine goes on, a call whose answer is not lost ends, with an
\* answer or an error, and a deadline passes.  A caller need not give up.
Fairness == \A r \in Request : WF_vars(Step(r)) /\ WF_vars(DeadlinePasses(r))

Spec     == Init /\ [][Next]_vars
FairSpec == Spec /\ Fairness

(***************************************************************************)
(* Properties                                                              *)
(***************************************************************************)

TypeOK ==
  /\ transport  \in Transports
  /\ tokens     \in 0..Burst /\ excess \in Nat
  /\ panicked   \in BOOLEAN
  /\ listing    \in [Backend -> {"active", "stale", "none"}]
  /\ serving    \in SUBSET Backend
  /\ restarts   \in 0..MaxRestarts
  /\ version    \in [Movie -> Version]
  /\ aggregate  \in [Movie -> Aggregate]
  /\ pc         \in [Request -> {"idle", "lookupMetadata", "callMetadata",
                                 "lookupRating", "callRating", "cut"}]
  /\ id         \in [Request -> Movie \cup {NoMovie}]
  /\ attempt    \in [Request -> 0..MaxRetries]
  /\ failure    \in [Request -> StatusCode]
  /\ found      \in [Request -> Version]
  /\ reply      \in [Request -> Reply]
  /\ ctx        \in [Request -> {"open", "deadline", "done"}]
  /\ lost       \in [Request -> BOOLEAN]
  /\ versions   \in [Request -> SUBSET Version]
  /\ aggregates \in [Request -> SUBSET Aggregate]

Answered(r) == pc[r] = "idle" /\ id[r] # NoMovie

\* A successful answer is made of metadata and of a rating that the movie had
\* while the request was running, however the two services changed, stopped and
\* restarted between its calls; a rating of 0 stands for none.
AnswerWasTrue ==
  \A r \in Request : Answered(r) /\ reply[r].status = "OK" =>
    /\ reply[r].metadata # 0 /\ reply[r].metadata \in versions[r]
    /\ reply[r].rating \in aggregates[r] \cup {0}

\* NotFound is answered only for a movie that had no metadata while the request
\* was running: an outage is never taken for a missing movie.
NotFoundWasTrue ==
  \A r \in Request : Answered(r) /\ reply[r].status = "NotFound" => 0 \in versions[r]

\* In every interval the service admits at most a burst and what the rate gives
\* for the interval, and it turns a request away only if admitting it would
\* exceed that for some interval.
AdmitsUpToRate == excess <= Burst /\ (Limit <=> excess = Burst)

\* The metadata gateway reports a failure that may be retried only when the last
\* of its attempts, five with gRPC and one with HTTP, met one.
RetriesExhausted ==
  \A r \in Request :
    Answered(r) /\ found[r] = 0 /\ failure[r] \in Retryable =>
      attempt[r] = IF transport = "grpc" THEN MaxRetries ELSE 1

\* It waits for an answer that was lost, and no deadline ends that: its context
\* has none, or the answer is Consul's.
Hung(r) == lost[r] /\ (ctx[r] = "open" \/ ~Calling(r))

\* Every request is answered, unless the process panics or an answer is lost that
\* no deadline limits; the lost answer of a call does no harm when the context
\* has a deadline or the caller gives up.
RequestAnswered ==
  \A r \in Request : Pending(r) ~> (pc[r] = "idle" \/ panicked \/ Hung(r))

\* "Just proceed in this case, it's ok not to have ratings yet"
\* (controller.go:46): the rating service's "not found" does not fail a request.
UnratedAnswered ==
  \A r \in Request : Answered(r) /\ found[r] # 0 => reply[r].status = "OK"
=============================================================================
