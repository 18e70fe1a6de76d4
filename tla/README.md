# A specification of movieapp

TLA+ models of the movieapp services, TLC runs that check them on small
instances, and TLAPS proofs of what holds of them for every instance.  The
source of every definition is listed under `map` in `PROJECT.json`.

Contents: 1 the system, 2 the models, 3 the runs, 4 what the runs show about
the code, 5 fairness, 6 proofs, 7 what is only model-checked, 8 what is not
modelled, 9 plan, 10 running it.

## 1. The system

movieapp is three gRPC/HTTP services in Go.  A client asks the movie service
for the details of a movie; the movie service looks the metadata and the rating
service up in a service registry and asks each of them.

| Component | State it keeps | Operations | Talks to |
|---|---|---|---|
| movie service (`movie/`) | none between requests | `GetMovieDetails` | registry, metadata, rating |
| metadata service (`metadata/`) | a record per movie (memory; MySQL not wired), the counters of its endpoints | `GetMetadata`, `PutMetadata`, `GET /metadata` | its repository |
| rating service (`rating/`) | a list of ratings per record type and id (memory; MySQL not wired) | `GetAggregatedRating`, `PutRating`, `/rating` | its repository, Kafka ingester (not wired) |
| rating ingestion (`rating/internal/ingester`, `StartIngestion`) | consumer position, channel of capacity 1 | read, decode, send; receive, store | Kafka, repository |
| service registry (`pkg/discovery`) | instances with the time of their last report | `Register`, `Deregister`, `ReportHealthyState`, `ServiceAddresses` | Consul, or its own memory |
| service processes (`*/cmd/main.go`) | goroutines of main, heartbeat, signal, HTTP server | start, serve, heartbeat, graceful stop | registry, OS |
| rating producer (`cmd/ratingproducer`) | Kafka's producer queue | produce, delivery reports, flush | Kafka |
| auth service (`auth/`) | none | `GetToken`, `ValidateToken` | - |
| rate limiter (`movie/cmd/main.go`) | a token bucket | `Limit` | - |

How they interact.  Processes register with Consul under a TTL check and report
healthy every second; clients look up the instances that pass.  The gRPC
gateways dial one of the addresses they found; the HTTP gateways, which the
movie service is built with, look the service up and then call a fixed port of
localhost.  Repositories are in the process and lost with it.  The integration
test (`test/integration`) wires the same handlers with the in-memory registry
and the gRPC gateways.

What is hard in it, and what must be right:

* rating repository: a map of maps with no lock, called from a goroutine per
  request.  Acknowledged ratings are kept, ratings stay with their record, a Get
  that succeeds has something to average.
* registry: lookups that time passes in, heartbeats that arrive at the edge of
  the TTL or after Deregister, crashes.  Live instances are listed, dead ones
  are not in the end, leavers stay away, an answer can be indexed.
* request path: two services read one after the other while they change,
  restart and come and go; two transports with different errors; retries; lost
  answers that nothing times out; a panic on an empty lookup.  Answers are true,
  outages are not taken for missing movies, requests end but for those two.
* process life: a set-up that may fail at each step, signals, crashes, late
  heartbeats, a metrics server that may end the process, two servers of which one is
  drained.  A graceful exit drains, a live process stays listed, a signal ends it.
* ingestion: offsets committed before ratings are stored, cancel, failing Puts,
  undecodable messages.  Order is kept, the losses of a crash and of a failed Put,
  which ends the ingestion, are bounded, both goroutines end.
* producer: a queue that fills, deliveries that fail or arrive twice, a Flush with
  a deadline.  After "all events produced" every event is accounted for.
* metadata and rating handlers: overlapping calls of two protocols that check
  their arguments differently, counters of two endpoints, a database whose
  statements fail before or after they stored, and a map of ratings without a lock
  under them.  A Get of metadata sees what was acknowledged before it, an aggregate
  counts the ratings that no other Put raced with, counters add up.
* rate limiter: bursts at its limits.  It admits what its rate allows, no more and
  no less.

`hazards` in `PROJECT.json` lists these at their lines, with the properties that
would catch each going wrong, or why none does.

## 2. The models

| Module | Models | Abstract specification it implements |
|---|---|---|
| `RatingStore` | what a rating repository promises: each Put adds one rating to one record | - |
| `RatingRepository` | the in-memory rating repository, one step per map access | `RatingStore` (one writer) |
| `ServiceRegistry` | what `discovery.Registry` promises: only Register makes a record, only a recorded instance can be reported, none returns after Deregister | - |
| `MemoryRegistry` | the in-memory registry, its instances and clients | `ServiceRegistry` |
| `ServiceLifecycle` | a service process, from its configuration to its end, and Consul's check of it | `ServiceRegistry` (for its own instance) |
| `MovieDetails` | the movie service's rate limiter and request over the two services | - |
| `RatingIngestion` | Kafka consumer, channel, `StartIngestion`, repository | - |
| `RatingProducer` | the program that fills the topic, Kafka's client in it | - |
| `RatingPipeline` | `RatingProducer` and `RatingIngestion`, which share the topic | - |
| `Storage` | what kind of repository the services have, and what a Put of it may do | - |
| `MetadataService` | handlers, controller and repositories of metadata, endpoint counters | - |
| `RatingService` | handlers and controller of ratings, over the unlocked map or MySQL | `RatingStore` (MySQL) |
| `Services` | `MetadataService` and `RatingService` side by side, with their clients | - |

`*Proofs` modules hold theorems (`RatingOrderProofs` the ones about the order of
events, over `RatingPipelineProofs`), `MC*` modules the constants and symmetries that
a `.cfg` cannot express.  Operators called *Mutant* in a comment are wrong
versions of the definition after them; no specification uses them.  They are
there so that every property can be seen to fail for a plausible mistake.

**RatingRepository.**  `Put` is start, check (`if _, ok := r.data[type]`),
install, load (the operands of `append`), store; `Get` is start, two checks and a
fetch that reads both maps again.  An inner map is named by the Put that
allocated it, so a goroutine can hold one that is no longer installed.  A slice
is the set of its ratings: each Put adds a rating of its own and the one reader
adds them up.  Which inner map the assignment of `store` goes to, if another was
installed meanwhile, is either.  `MapFatal` is the Go runtime's "concurrent map
writes", enabled when two accesses to one map may overlap and one writes.
`acked`, `floor`, `settled` are history.

**MemoryRegistry.**  `serviceAddrs` maps an instance to the age of its
`lastActive` in seconds, capped at the first stale second.  Writes are one step
because they hold the lock; a lookup is a start, one step per record in any
order, and a return, and `Tick` may come between them since the loop reads the
clock for each record.  `Block` is a writer waiting in `Lock()`, which keeps new
readers out.  `Pick` is `addrs[rand.Intn(len(addrs))]` in
`grpcutil.ServiceConnection` and the HTTP gateways.

**MovieDetails.**  A request goes through the handler (`GetMovieDetails`), the
metadata lookup and call, the rating lookup and call.  The variable `transport`
is the gateways the service is built with: "http" over Consul, as
`movie/cmd/main.go` has it, or "grpc" over the in-memory registry, as the
integration test has it.  `IsErrNotFound`, `RetriesLeft`, `LookupFails` and
`LookupPanics` are where they differ.  A service's record in the registry is
active, stale or missing (`listing`), whether the service runs or not: Consul
answers a stale one with an error, the in-memory registry with an empty list and
no error, on which `rand.Intn(0)` panics.  A panic ends the process and cuts off
every request in it (`Panic`); the process is not restarted.  Each request has
the context of its caller (`ctx`): without a deadline, with one to come, or done.
An answer may be lost on the way (`LoseAnswer`): a call then waits until the
context is done, a lookup in Consul, which does not use the context, for ever.

The metadata and the aggregate of a movie are versions; `versions` and
`aggregates` record which of them a request lived through.  The services stop,
restart empty (their versions count from 1 again), and the registry follows them
independently.  Each service has one instance.  A call that reaches nothing fails
with a retryable code or another; a call may also fail although the service runs.
In front of the handler is the limiter: `Refuse` and `Admit` are the
interceptor's two outcomes, `Refill` is the time of one token, `excess` the most
that was admitted in an interval ending now, less the refills in it.

**ServiceLifecycle.**  `main` is main's program counter or the way the process
ended; `stopper`, `heart` and `http` are the other goroutines; `check` and `left`
are Consul's TTL check.  The set-up is a step for the configuration, the client
of the registry, the tracer and the metrics (`SetUp`), and each may fail
(`StartFails`); from `StartMetrics` on the goroutine of the metrics server may end
the process at any time (`MetricsFail`).  The three mains are the same program but for the
heartbeat and the HTTP server, which the movie service lacks (`Heartbeats`); the
map points at one of the three for each action.  `logger.Fatal` and a signal
before `Notify` end the process without the deferred `Deregister`.  Consul and
grpc-go are external: a check starts critical, PassTTL makes it passing for the
TTL, `GracefulStop` waits for RPCs, `Serve` on a stopped server is an error.

**RatingIngestion.**  The goroutine's `select`, `ReadMessage` with `Unmarshal`,
send; `StartIngestion`'s receive and Put; Kafka's partitions, positions and
background commit; cancel, crash and restart.  The repository is the list of
events in the order they were stored; in MySQL a key occurs once.  A Put that
fails ends StartIngestion with its error: the event is `dropped`, and nobody
receives what the channel and the goroutine hold.  Delete events
are stored like puts, because the code does not look at the type.  `Only(s, S)`
is the part of a sequence that is in a set, as a function that recurses on the
length, so that the proofs can use it.

**RatingProducer** and **RatingPipeline.**  `main` is main's program counter or
how it ended.  `produceRatingEvents` hands events to the client's queue
(`outstanding`) and fails when it is full; `Flush` ends with nothing outstanding or
after its deadline.  The client delivers in any order, once, twice (an answer was
lost) or with a failure report, which the goroutine over `producer.Events()` only
logs.  `Deliver` is the step that the composition shares: the client reports and
the topic grows.

**Storage, MetadataService, RatingService, Services.**  Handlers of both services
run concurrently: begin (argument checks of the protocol, the call counter), the
repository, reply (outcome counter).  `storage` is the repository:
with "memory" a Put never fails and a restart loses everything; with "mysql" a
taken primary key is an error, and a statement may fail before or after it
stored (`PutResult`).  Metadata is the number of its write, a rating its user and
number, a mean the set of ratings it is of, so that the empty set stands for NaN.
`AnswerOf` is what the rating handlers make of the controller's result.  A
query's rows may end early (`RowsRead`), since `rows.Err` is not asked.
`macked`, `racked` and `floor` are history: what had been acknowledged, and what
of it when a call began.

A call of a locked map or of MySQL is one step.  The map of ratings has no lock:
`PutChecks`, `PutInstalls`, `PutLoads`, `PutStores`, `GetChecksMap` and `GetFetches`
are its accesses, as in `RatingRepository`, and any number of goroutines interleave
them.  Two checks of a Get that follow each other are one step, because entries
are never removed but by the installation that the check after them sees; an
inner map is named by the number of installations of its type.  `alone` says of a
Put that no other Put of its type was between its first and its last access
meanwhile, and `racked` takes the acknowledged ratings of those.

## 3. The runs

| Run | Instance | Shows |
|---|---|---|
| `rating_repository_racing` | 2 writers x 2 Puts, 1 reader, 1 type, 2 records | ratings readable before Puts overlap survive them; none leaks to another record |
| `rating_repository_serial` | 1 writer x 3 Puts, 2 readers, 2 types | acknowledged ratings are kept and seen, no empty answer, refinement of `RatingStore` |
| `rating_repository_lost_rating` | 2 writers x 1 Put | violation: an acknowledged rating is lost |
| `memory_registry` | 2 replicas, 2 services, 2 clients, TTL 5 | lookups are exact but for the clock, live instances listed, leavers stay away, refinement of `ServiceRegistry`, crashed ones unlisted |
| `memory_registry_empty_answer` | 3 instances of 2 services | violation: an answer without addresses and without error |
| `movie_details` | 1 request at a time, 1 movie, 1 version, 1 aggregate, 1 restart, both pairs of gateways, 5 attempts, burst 2 | answers and NotFound are true, retries are used up, the limiter is exact, every request ends unless the process panics or a lost answer is waited for without a deadline |
| `movie_details_unrated` | as above, HTTP | violation: an unrated movie fails the request |
| `service_lifecycle` | 2 RPCs, 1 HTTP request, TTL 5, 1 second late, 1 miss | drained exit, final Deregister, live process listed, ended unlisted, signal ends |
| `service_lifecycle_unlisted` | the movie service | violation: it serves and is never listed |
| `rating_ingestion` | 3 events (one undecodable, two of one key), 2 partitions, 1 crash | order and conservation, clean return, bounded reading after cancel, liveness; what a failed Put leaves |
| `rating_pipeline` | 4 events, 1 partition, queue of 2, 1 lost answer, 1 crash, MySQL | a crash or a failed Put loses at most three committed ratings; after "all events produced" every event is accounted for |
| `services` | 3 calls, 2 goroutines per service, 1 movie, 1 record, 1 user, both repositories | counters add up, a Get sees the Puts acknowledged before it, an aggregate counts the ratings that settled before it |

Bounds, and why they are enough.

* Two Puts race in every way two can; a second Put per writer lets a race begin
  on a repository with settled ratings, and two records tell a leak from a loss.
  The proofs cover any number.
* Two replicas let one fall silent while the other reports; two clients make
  the overlapping lookups that could keep a writer out.  A request lives alone:
  requests share nothing in the movie service, so a second one only multiplies states.  The
  registry's TTL is the code's 5 s.  (A panic cuts off all requests; that others
  are cut off with the one that panics is in the proofs, for any number.)
* `MaxVersion`, `MaxRatings` and `MaxRestarts` let the data change before,
  between and after the calls of a request and a restart lose it.  A burst of 2
  has a state between full and empty; the proof covers 1000.
* Three lost ratings need three slots (being stored or refused, in the channel, to
  be sent) and a fourth event to show that it is not lost.  A queue of 2 is filled by a
  file of 4 events, one lost answer makes a duplicate.
* Three calls let two Puts race and a Get overlap them, or a Put settle and
  another overlap the Get that must see it; that it also survives two Puts racing
  later is in the proof of `AggregateSafe`, for any number.  The empty id, type and
  user are values of their own beside the one that is not empty.
* Deadlock is not checked where the system may stop: every service may be left
  alone by its clients, and bounded counters end.

## 4. What the runs show about the code

Four runs are violations; each quotes the line it contradicts in `findings`.

1. Two first Puts of a record type race, and one of the acknowledged ratings is
   gone: the repository has no lock (`rating/internal/repository/memory/memory.go:33`).
2. When every record of a service is stale, `ServiceAddresses` of the in-memory
   registry returns an empty list and no error, and its callers index it with
   `rand.Intn(0)`, which panics (`pkg/discovery/memory/memory.go:78`).
   In the movie service over gRPC the panic ends the process (`LookupPanics`).
3. The controller of the movie service tests the error of the rating gateway the
   wrong way round: a movie without ratings fails, while an outage of the rating
   service is taken for one (`movie/internal/controller/movie/controller.go:45`).
4. The movie service never reports healthy, so its TTL check stays critical and
   a lookup does not find it (`movie/cmd/main.go:117`).

Further observations that have no run of their own: with several writers a Get
may return an empty list, of which the mean is NaN, over HTTP a 500 (`NoEmptyRead`
is checked and proved for one writer only, and `AggregateCountsAcked` excepts the
ratings whose Puts raced); a request whose answer is lost waits as long as its
caller does, and for ever if the answer was Consul's (`Hung`); the gRPC gateways do not map NotFound, so a missing
movie is answered Internal (`IsErrNotFound`); a signal handled before `Serve` ends
in Fatal and leaves the record to its TTL (`ServeAfterStop`); nothing shuts the
HTTP servers down, so their requests are cut off (`Exit`); after a failed Put, or
on an idle topic, cancel may not end the ingester (`CancelEnds` names the two
states, `Stuck` and `Idle`); a failed Put, such as a user's second rating in MySQL,
ends the ingestion for good, and what was read meanwhile is lost as in a crash
(`BrokenRuns` counts both);
with the gRPC gateways an unrated movie is answered (`UnratedAnsweredByGrpc`).

Of the two services and their repositories (`MetadataService`, `RatingService`):

* `PutMetadata` counts its calls in the metrics of `GetMetadata`
  (`metadata/internal/handler/grpc/grpc.go:69`), and a controller error that it
  answers with Internal as an invalid argument (`MetricsOf`, `OutcomeOf`).
  `CallsAccounted` is about the sums, which hold.
* Metadata with an empty movie id is stored and cannot be read: only Get checks it.
  A gRPC `PutRating` takes an empty record type, which Get rejects; an HTTP one
  takes an empty user.
* With MySQL a record without ratings is never NotFound: its mean is NaN, over HTTP
  a 500 because NaN has no JSON.  A user's second rating of a record fails on the
  primary key; the map takes it, and the integration test puts two.
* `rows.Err` is not asked: a broken connection gives the mean of a part of the
  ratings, while `rating/internal/repository/mysql/mysql.go:25` says that Get
  retrieves all of them.
* HTTP `GET /rating` answers 200 and 0 when the repository failed.
* "all events produced" is printed although deliveries failed; a delivery that the
  client repeated meets the primary key and ends the ingestion into MySQL.
* `StartIngestion` stores delete events as ratings: it does not look at the type.

## 5. Fairness

* `MemoryRegistry`: time passes, a lookup in progress ends, and the heartbeat
  goroutine of a process that is up keeps calling (a `for` loop that sleeps).
  Clients need not look up; processes need not register, leave or crash.
* `MovieDetails`: a handler's goroutine goes on, a call ends unless its answer is
  lost, and a deadline, if the caller set one, passes.  A caller need not set one
  and need not give up, and no client of the code has a timeout: `RequestAnswered`
  excepts what then waits for ever (`Hung`) instead of assuming that it ends.
* `ServiceLifecycle`: goroutines that can go on do, handlers return, the
  heartbeat's call ends, time passes.  Nothing makes a signal or a failure come.
* `Services` and `RatingPipeline` state none: their properties are safety.
* `RatingIngestion`: both goroutines go on.  Reading a partition is strongly
  fair: the loop comes back to `ReadMessage`, whose errors end, and the client serves all
  its partitions.  Commits, crashes, restarts and cancel may never come.

In the safety parts time is bounded instead: `MemoryRegistry`'s `MaxSilence`,
and `ServiceLifecycle`'s `MaxLate` and `MaxMisses`, say how late a heartbeat can
be; the assumption `(MaxMisses + 1) * (MaxLate + 1) < TTL` is what "stays listed"
rests on.

## 6. Proofs

All theorems hold for every value of the constants their module's `ASSUME`
admits.  `ServiceLifecycleProofs.Implements` is about a refinement that no run
checks, because with one instance `DeregisteredIsFinal` is the part of it that
could break.  Each invariance proof shows `Init => IInv`,
`IInv /\ [Next]_vars => IInv'` and `IInv => Inv`.

* `RatingRepositoryProofs`.  `SettledSafe`: ratings that were readable at a moment
  without a Put in flight are never lost, however many Puts race afterwards.  The
  invariant says that a Put that is to install a map began when there was none,
  and that what a Put has loaded contains all that was settled for its key, in
  any map it may store to.  `OriginSafe`: a rating is readable only under its
  record; the invariant adds that maps nobody allocated are empty and that a Put
  holds ratings of its own record.  `SerialSafe`, `SerialNotEmpty`, `SerialReads`
  and `SerialImplements` have the hypothesis of a single writer: then a reader's
  checks cannot be undone before its fetch, and each step is a Put or a stutter
  of `RatingStore`.
* `MemoryRegistryProofs`.  `AnswerSafe`, `HealthySafe`, `NeverResurrected` and
  `Implements`.  The invariant ties ages to the lock: while a lookup runs no
  record changes but by ageing, so what it has visited and what it has yet to
  visit cover every active record; a process that is up has a record no older than it
  has been quiet; one that left has no record, which is why a late heartbeat does
  nothing.
  `ServedNotEmpty` bounds the finding about empty answers: they need every process
  of the service to be down.  `CrashedExpires` (nothing makes a dead process' record
  younger) and `WritersServed` (a waiting writer lets no new reader in, and the
  running ones only get shorter) are what the liveness of the registry rests on.
* `ServiceLifecycleProofs`.  `LeavesDrainedSafe` (an RPC is pending only before the
  stopper is done), `DeregisteredSafe` (a Deregister comes after every
  registration of the process), `AliveListed` and `Implements`.  `AliveListed` needs
  the seconds left of a passing check plus the seconds since the last report that
  got through to be at least the TTL (`BeatsInTime`): misses and lateness are the
  potential that bounds the silence.  `HeartbeatLists` turns the same potential
  around: the silence of a live process stays below the TTL, every second adds to
  it, and only a report that lists the process breaks it.  `MuteNeverListed` is the
  finding about the movie service for every TTL.  `ShutdownEnds`: `StepsToEnd`,
  what main and the stopper have left to do, falls with each of their steps and
  with nothing else rises after the signal; they have seven at most, and one can go
  on unless an RPC is pending.  `EndedExpires`: the check of an ended process only
  loses seconds.
* `MovieDetailsProofs`.  `AnswersTrue`, `NotFoundTrue`, `Exhausted`,
  `UnratedAnsweredByGrpc`: for every request the invariant relates what has been
  found so far, and why a call failed, to the versions and aggregates it has lived
  through, at each program counter (`RequestOK`); a panic leaves no request in
  flight, and only the gRPC gateways can.  `LimiterExact` rests on
  `tokens + excess = Burst`.  `Advances`: the lookups and attempts a request has left
  (`StepsLeft`) fall with each step of it, from `MaxRetries + 3`, and change with no
  other; the panic, which cuts the request off, and a lost answer, which keeps it
  from its step until the context is done, are stated as what they are.
* `ServicesProofs`.  `GetSafe`: what was acknowledged is no later than what is
  stored, and so is what a Get in flight has to see.  `CountersAddUp`:
  each counter of calls is the sum of its outcomes and the number of calls in
  flight, so that beginning and replying shift one between the terms.
  `AggregateSafe`: the ratings that settled, and the floor of each Get, are among
  those stored, however many Puts race.  The invariant follows a Put of the map
  between its accesses: one that is to install began before any installation, so
  nothing had settled then or settles meanwhile; what one has loaded from the map
  that is installed contains all that had settled; and a rating settles only if no
  other Put was between its accesses, so none holds an older slice.  A restart of a
  map empties both sides at once.
  `TableImplements`: with MySQL the rating service implements `RatingStore` for any
  number of goroutines, which the map does for one writer only
  (`SerialImplements`); `OneRatingPerUser` is its primary key at work.
* `RatingPipelineProofs`.  `Gone` are the events read that are neither stored nor
  held.  A crash adds what is being stored, in the channel and about to be sent:
  three at most.  A failed Put adds its event, and what the channel and the
  goroutine then hold is lost too, though it is still there: again three
  (`GoneOrHeld`).  A crash after a failed Put adds no more than that, which is why
  the bound counts runs that broke off.  A committed offset is never beyond what
  was read.  That gives `CrashSafe`, and, with "each event handed over is
  outstanding, failed or in the topic" for the producer, `AccountingSafe`.
  `CancelSafe`: a read after cancel leaves the goroutine at its send or its select.
* `RatingOrderProofs`.  `InOrderSafe`: what the run has stored, followed by what
  StartIngestion, the channel and the goroutine hold (`Flow`), is moved along by
  the steps of the ingestion and grows at its end by the event that is read, so in
  each partition it remains what was read of it.  This needs that partitions
  share no message (`Apart`, in `OrderInv`), and what `Only` does to a sequence
  that is extended, cut or joined (the lemmas `Only*`, `Slice*`, `Concat*`), by
  induction over the length.  An induction is a set of counterexamples and its
  least element (`NatBySteps`).  `ReturnedSafe`: when StartIngestion returns without
  an error nothing is on its way any more.  `NeverStuckSafe`: in every state one of
  the goroutine and StartIngestion can go on, unless both have ended, nothing can
  be read, or a Put failed and the channel is full.  `EndsSoonSafe`: after cancel they have eleven steps at
  most, fewer after each.  All four hold of the ingestion alone and of the pipeline.

`TypeCorrect` of each module is the part of its invariant the rest builds on.

## 7. Only model-checked

Every invariant and every action property of a passing run has a theorem, and so
has every refinement.  The theorems about crashes and failed Puts are for MySQL
(`Durable`), since a map loses everything with its process.  What stays with TLC is liveness, since neither fairness nor
ENABLED can be reasoned about: `CrashedUnlisted`, `RequestAnswered`, `EndedUnlisted`,
`StoppedEnds`, `ServingListed`, `IngestedInTheEnd`, `CancelEnds`.  For all but
`IngestedInTheEnd` the safety half is proved, a measure that the steps under fairness
bring down and no other step raises, or, for the heartbeat, a silence that time raises
to a bound (`CrashedExpires`, `Advances`, `EndedExpires`,
`ShutdownEnds`, `HeartbeatLists`, `EndsSoonSafe`); that those steps are taken is what
the runs show.

## 8. Not modelled

* auth: it keeps no state and nothing calls it.  What `GetToken` and
  `ValidateToken` answer is a function of the request, the secret and the time in
  `iat`; a model would restate the JWT library.
* spans, metrics, the fields of the configuration, TLS, Docker and Kubernetes files, alert rules, the test
  utilities, `sizecompare`, generated code: no state of their own.  The set-up of a
  process is steps of `ServiceLifecycle`, without what they configure.
* The movie service's HTTP handler, which no main builds.
* A restart of the movie service after a panic: what was cut off is not resumed.
* The integration test is a script whose calls are among those of `Services` and
  `MovieDetails`.
* `PutRating` of the HTTP rating gateway, which nothing calls.
* The value of a mean and the truncation of HTTP's rating to an integer.
* Collisions of instance ids (`GenerateInstanceID`): ids are distinct.
* Rebalancing between consumers of a group: the group has one.
* Several replicas of a service behind one request: see the plan.

## 9. Plan

Done, in the order of importance to the core: 1 `RatingRepository`,
2 `MemoryRegistry`, 3 `MovieDetails` with the rate limiter, 4 `ServiceLifecycle`,
5 `RatingIngestion`, 6 `MetadataService`, 7 `RatingService`, 8 `RatingProducer` and
`RatingPipeline`, each with its proofs; 9 the order of events and the safety
halves of the liveness properties.

Next: `MovieApp`, two replicas of each service with repositories of their own,
registry and request path together, and what a read after a write may see through
either gateway.

## 10. Running it

    tlasany MODULE.tla
    tlc -workers 2 -config NAME.cfg MODULE.tla     # pairs in PROJECT.json "runs"
    tlapm MODULEProofs.tla
