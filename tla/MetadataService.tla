-------------------------- MODULE MetadataService ---------------------------
(***************************************************************************)
(* The metadata service: its gRPC and HTTP handlers, the controller, and   *)
(* the repository.  Handlers run concurrently; a call to the repository is *)
(* one step, because the map is under a RWMutex and MySQL runs single      *)
(* statements.                                                             *)
(*                                                                         *)
(* A record is named by its number in the order of the writes; its title,  *)
(* description and director pass through the mappers and the table as they *)
(* are.  The gRPC handlers count calls and outcomes in EndpointMetrics.    *)
(***************************************************************************)
EXTENDS Storage, Naturals, FiniteSets

CONSTANTS MetadataCall,   \* handler goroutines
          MovieId         \* movie ids other than the empty one

ASSUME MetadataConstantsOK == IsFiniteSet(MetadataCall) /\ Empty \notin MovieId

VARIABLES
  movies,      \* the record of each id: 0 is none
  written,     \* the number of records written so far
  metrics,     \* the counters of the two endpoints
  mcall,       \* what each goroutine is doing, or how its last call ended
  macked       \* history: the last record of each id whose Put returned OK

metadataVars == <<movies, written, metrics, mcall, macked>>

Id       == MovieId \cup {Empty}
Endpoint == {"GetMetadata", "PutMetadata"}
Outcome  == {"success", "invalid_argument", "not_found", "internal"}
Counter  == {"call"} \cup Outcome

NoMetadataCall == [at |-> "idle", op |-> "GetMetadata", api |-> "grpc", id |-> Empty,
                   status |-> "none", record |-> 0, floor |-> 0]

\* A call that has ended without an answer to look at but its status.
Ended(op, status) == [NoMetadataCall EXCEPT !.op = op, !.status = status]

MetadataInit ==
  /\ movies  = [i \in Id |-> 0]
  /\ written = 0
  /\ metrics = [e \in Endpoint |-> [n \in Counter |-> 0]]
  /\ mcall   = [c \in MetadataCall |-> NoMetadataCall]
  /\ macked  = [i \in Id |-> 0]

\* The counters that a handler uses: PutMetadata, too, counts in
\* h.getMetadataMetrics.
MetricsOf(op) == "GetMetadata"

\* Only the gRPC handlers count.
Count(api, op, names) ==
  metrics' = IF api = "http" THEN metrics ELSE
    [metrics EXCEPT ![MetricsOf(op)] =
       [n \in Counter |-> IF n \in names THEN @[n] + 1 ELSE @[n]]]

\* A handler accepts the call, or answers InvalidArgument at once.
Begin(c, op, api, id, accepted) ==
  /\ mcall[c].at = "idle"
  /\ mcall' = [mcall EXCEPT ![c] =
       IF accepted
       THEN [NoMetadataCall EXCEPT !.at = op, !.op = op, !.api = api, !.id = id,
                                   !.floor = macked[id]]
       ELSE Ended(op, "InvalidArgument")]
  /\ Count(api, op, {"call"} \cup (IF accepted THEN {} ELSE {"invalid_argument"}))
  /\ UNCHANGED <<movies, written, macked>>

GetMetadata(c, api, id) == Begin(c, "GetMetadata", api, id, id # Empty)

\* A request without metadata is rejected; metadata with an empty id is not, and
\* is stored under an id that GetMetadata rejects.
PutMetadata(c, id)   == Begin(c, "PutMetadata", "grpc", id, TRUE)
PutNoMetadata(c)     == Begin(c, "PutMetadata", "grpc", Empty, FALSE)

Finish(c, status, record) ==
  mcall' = [mcall EXCEPT ![c].at = "reply", ![c].status = status, ![c].record = record]

\* No entry, or sql.ErrNoRows, is ErrNotFound of the repository and then of the
\* controller.
StatusOf(record) == IF record = 0 THEN "NotFound" ELSE "OK"

\* Controller.Get and the repository's Get.
RepositoryGet(c) ==
  /\ mcall[c].at = "GetMetadata"
  /\ LET record == movies[mcall[c].id] IN
       \/ Finish(c, StatusOf(record), record)
       \/ \E failure \in Failure : Finish(c, failure, 0)
  /\ UNCHANGED <<movies, written, metrics, macked>>

\* Mutant: INSERT IGNORE, which reports no error for a taken key.
InsertIgnore(id) ==
  IF storage = "mysql" /\ movies[id] # 0
  THEN {[rows |-> 0, status |-> "OK"]} ELSE PutResult(FALSE)

\* The primary key of movies is the id: MySQL takes the first Put of a movie,
\* the map the last.
Insert(id) == PutResult(movies[id] # 0)

\* Controller.Put, which stores m under m.ID.
RepositoryPut(c) ==
  /\ mcall[c].at = "PutMetadata"
  /\ \E r \in Insert(mcall[c].id) :
       /\ Finish(c, r.status, written + 1)
       /\ movies' = IF r.rows = 1 THEN [movies EXCEPT ![mcall[c].id] = written + 1] ELSE movies
  /\ written' = written + 1
  /\ UNCHANGED <<metrics, macked>>

\* Mutant: the success of a Put is not counted.
OutcomeOfGetOnly(op, status) ==
  CASE status = "OK"       -> IF op = "GetMetadata" THEN {"success"} ELSE {}
    [] status = "NotFound" -> {"not_found"}
    [] OTHER               -> {"internal"}

\* How the answer is counted: PutMetadata counts an error of the controller,
\* which it answers with Internal, as an invalid argument.
OutcomeOf(op, status) ==
  CASE status = "OK"       -> {"success"}
    [] status = "NotFound" -> {"not_found"}
    [] OTHER               -> IF op = "GetMetadata" THEN {"internal"} ELSE {"invalid_argument"}

MetadataReply(c) ==
  LET call == mcall[c] IN
  /\ call.at = "reply"
  /\ mcall' = [mcall EXCEPT ![c] = IF call.op = "PutMetadata" THEN Ended(call.op, call.status)
                                  ELSE [call EXCEPT !.at = "idle"]]
  /\ Count(call.api, call.op, OutcomeOf(call.op, call.status))
  /\ macked' = IF call.op = "PutMetadata" /\ call.status = "OK" /\ macked[call.id] < call.record
               THEN [macked EXCEPT ![call.id] = call.record] ELSE macked
  /\ UNCHANGED <<movies, written>>

\* The process ends and is started again, with new counters: memory.New() makes
\* an empty map, and mysql.New() opens the table that is there.
MetadataRestart ==
  /\ mcall'   = [c \in MetadataCall |-> NoMetadataCall]
  /\ metrics' = [e \in Endpoint |-> [n \in Counter |-> 0]]
  /\ IF storage = "mysql" THEN UNCHANGED <<movies, macked>>
     ELSE movies' = [i \in Id |-> 0] /\ macked' = [i \in Id |-> 0]
  /\ UNCHANGED written

MetadataArrives == \E c \in MetadataCall :
  \/ \E api \in Api, id \in Id : GetMetadata(c, api, id)
  \/ \E id \in Id : PutMetadata(c, id)
  \/ PutNoMetadata(c)

MetadataGoesOn == \E c \in MetadataCall :
  RepositoryGet(c) \/ RepositoryPut(c) \/ MetadataReply(c)

MetadataNext == (MetadataArrives \/ MetadataGoesOn \/ MetadataRestart) /\ UNCHANGED storage

MetadataSpec == storage \in Storages /\ MetadataInit /\ [][MetadataNext]_<<storage, metadataVars>>

(***************************************************************************)
(* Properties                                                              *)
(***************************************************************************)

MetadataCallType == [at : {"idle", "reply"} \cup Endpoint, op : Endpoint, api : Api,
                     id : Id, status : Status, record : 0..written, floor : 0..written]

MetadataTypeOK ==
  /\ storage \in Storages
  /\ written \in Nat
  /\ movies \in [Id -> 0..written] /\ macked \in [Id -> 0..written]
  /\ metrics \in [Endpoint -> [Counter -> Nat]]
  /\ mcall \in [MetadataCall -> MetadataCallType]

InFlight(e) == {c \in MetadataCall :
  mcall[c].at # "idle" /\ mcall[c].api = "grpc" /\ MetricsOf(mcall[c].op) = e}

\* However calls overlap, every one that a process counted has been counted once
\* more with its outcome, or is still being served: the error rates that are
\* drawn from the counters add up.
CallsAccounted == \A e \in Endpoint :
  LET m == metrics[e] IN
  m["call"] = m["success"] + m["invalid_argument"] + m["not_found"] + m["internal"]
                + Cardinality(InFlight(e))

\* A Get that came after a Put of the movie had returned OK finds that record or
\* a later one, in the map and in the table, unless the service restarted with
\* an empty map: never an older one, and never none.
GetSeesAckedPut == \A c \in MetadataCall :
  mcall[c].op = "GetMetadata" /\ mcall[c].status \in {"OK", "NotFound"} =>
    mcall[c].record >= mcall[c].floor
=============================================================================
