--------------------------- MODULE RatingService ----------------------------
(***************************************************************************)
(* The rating service: its gRPC and HTTP handlers and the controller, over *)
(* a repository.  The map has no lock, and the handlers run in goroutines  *)
(* of their own: a Put or a Get is a step for each access to the maps, as  *)
(* in RatingRepository, here with the number of the inner map of a type in *)
(* the place of its reference.  In MySQL a Put is one INSERT, and a Get is *)
(* a query and the rows it iterates over.                                  *)
(*                                                                         *)
(* A rating is named by its number in the order of the Puts, with its      *)
(* user, and the mean of a record's ratings by the set it is the mean of:  *)
(* that of the empty set is NaN.                                           *)
(***************************************************************************)
EXTENDS Storage, Naturals, FiniteSets

CONSTANTS RatingCall,   \* handler goroutines
          RecordType,   \* record types other than the empty one; one record id
          User          \* user ids other than the empty one

ASSUME RatingArgumentsOK == Empty \notin RecordType \cup User

VARIABLES
  ratings,     \* the ratings of the record under each type: [user, n]
  installs,    \* the inner maps installed under each type, one after the other
  puts,        \* the number of Puts that reached the repository
  rcall,       \* what each goroutine is doing, or how its last call ended
  racked       \* history: the ratings whose Put overlapped no other and returned OK

ratingVars == <<ratings, installs, puts, rcall, racked>>

Type     == RecordType \cup {Empty}
NoRating == [user |-> Empty, n |-> 0]
NoRatingCall == [at |-> "idle", op |-> "Get", api |-> "grpc", type |-> Empty, user |-> Empty,
                 status |-> "none", rating |-> NoRating, rows |-> {}, ref |-> 0,
                 whole |-> TRUE, alone |-> TRUE, floor |-> {}]

\* A call that has ended without an answer to look at but its status.
Done(op, status) == [NoRatingCall EXCEPT !.op = op, !.status = status]

RatingInit ==
  /\ ratings = [t \in Type |-> {}]
  /\ installs = [t \in Type |-> 0]
  /\ puts    = 0
  /\ rcall   = [c \in RatingCall |-> NoRatingCall]
  /\ racked  = [t \in Type |-> {}]

\* A handler accepts the call, or answers it at once.
BeginRating(c, op, api, type, user, status) ==
  /\ rcall[c].at = "idle"
  /\ rcall' = [rcall EXCEPT ![c] =
       IF status = "none"
       THEN [NoRatingCall EXCEPT !.at = op, !.op = op, !.api = api, !.type = type,
                                 !.user = user, !.floor = racked[type]]
       ELSE Done(op, status)]
  /\ UNCHANGED <<ratings, installs, puts, racked>>

\* Both protocols require the record's id and its type.
GetAggregatedRating(c, api, type, hasId) ==
  BeginRating(c, "Get", api, type, Empty,
              IF hasId /\ type # Empty THEN "none" ELSE "InvalidArgument")

\* gRPC requires the id and the user, and takes an empty type.
PutRatingGrpc(c, type, user, hasId) ==
  BeginRating(c, "Put", "grpc", type, user,
              IF hasId /\ user # Empty THEN "none" ELSE "InvalidArgument")

\* HTTP requires the id, the type and a value that strconv.ParseFloat accepts,
\* and takes an empty user.
PutRatingHttp(c, type, user, hasId, parses) ==
  BeginRating(c, "Put", "http", type, user,
              CASE ~hasId \/ type = Empty -> "InvalidArgument"
                [] ~parses             -> "Internal"
                [] OTHER               -> "none")

Answer(c, status, rows, whole) ==
  rcall' = [rcall EXCEPT ![c].at = "reply", ![c].status = status,
                         ![c].rows = rows, ![c].whole = whole]

\* The map: ErrNotFound unless both maps have an entry, and then both are read
\* again for the result.
GetChecksMap(c) ==
  /\ storage = "memory" /\ rcall[c].at = "Get"
  /\ IF ratings[rcall[c].type] = {} THEN Answer(c, "NotFound", {}, TRUE)
     ELSE rcall' = [rcall EXCEPT ![c].at = "fetch"]

GetFetches(c) ==
  /\ rcall[c].at = "fetch"
  /\ Answer(c, "OK", ratings[rcall[c].type], TRUE)

\* Mutant: a row that Scan cannot read is appended as the zero Rating.
RowsReadWithZero(rows) == SUBSET (rows \cup {NoRating})

\* The rows that the loop over rows.Next() collects: it ends at the last row or
\* when the connection breaks, and rows.Err() is not asked which.
RowsRead(rows) == SUBSET rows

\* MySQL: the query fails, or its rows are read.  No row is no error.
GetFromTable(c) ==
  LET rows == ratings[rcall[c].type] IN
  /\ storage = "mysql" /\ rcall[c].at = "Get"
  /\ \/ Answer(c, "Internal", {}, FALSE)
     \/ \E read \in RowsRead(rows) : Answer(c, "OK", read, read = rows)

RepositoryGetRatings(c) ==
  /\ GetChecksMap(c) \/ GetFetches(c) \/ GetFromTable(c)
  /\ UNCHANGED <<ratings, installs, puts, racked>>

\* The primary key of ratings is the record and the user.
Rated(type, user) == \E x \in ratings[type] : x.user = user

\* Mutant: a new rating of a user replaces the old one.
AddedReplacing(rows, x) == {y \in rows : y.user # x.user} \cup {x}

\* append, or INSERT.
Added(rows, x) == rows \cup {x}

\* The name of the rating that goroutine c puts.
NewRating(c) == [user |-> rcall[c].user, n |-> puts + 1]

\* The calls of the type that are between the first and the last access of a Put
\* to the maps.
Storing(type) == {c \in RatingCall :
  rcall[c].type = type /\ rcall[c].at \in {"install", "load", "store"}}

\* if _, ok := r.data[recordType]; !ok
PutChecks(c) ==
  LET call   == rcall[c]
      others == Storing(call.type) IN
  /\ storage = "memory" /\ call.at = "Put"
  /\ rcall' = [d \in RatingCall |->
       IF d = c THEN [call EXCEPT !.at = IF installs[call.type] = 0 THEN "install" ELSE "load",
                                  !.rating = NewRating(c), !.alone = others = {}]
       ELSE IF d \in others THEN [rcall[d] EXCEPT !.alone = FALSE]
       ELSE rcall[d]]
  /\ puts' = puts + 1
  /\ UNCHANGED <<ratings, installs>>

\* The entry is replaced by an empty map, whatever it is by now.
PutInstalls(c) ==
  LET type == rcall[c].type IN
  /\ rcall[c].at = "install"
  /\ installs' = [installs EXCEPT ![type] = @ + 1]
  /\ ratings'  = [ratings EXCEPT ![type] = {}]
  /\ rcall'    = [rcall EXCEPT ![c].at = "load"]
  /\ UNCHANGED puts

\* The operands of append: the inner map and its slice.
PutLoads(c) ==
  LET type == rcall[c].type IN
  /\ rcall[c].at = "load"
  /\ rcall' = [rcall EXCEPT ![c].at = "store", ![c].ref = installs[type], ![c].rows = ratings[type]]
  /\ UNCHANGED <<ratings, installs, puts>>

\* The assignment: to the map that was loaded, which may have been replaced, or
\* to the one that is there now (see RatingRepository's PutStore).
PutStores(c) ==
  LET call == rcall[c] IN
  /\ call.at = "store"
  /\ \E map \in {call.ref, installs[call.type]} :
       ratings' = IF map = installs[call.type]
                  THEN [ratings EXCEPT ![call.type] = Added(call.rows, call.rating)] ELSE ratings
  /\ rcall' = [rcall EXCEPT ![c].at = "reply", ![c].status = "OK", ![c].ref = 0, ![c].rows = {}]
  /\ UNCHANGED <<installs, puts>>

\* MySQL: the INSERT.
PutInTable(c) ==
  LET call == rcall[c] IN
  /\ storage = "mysql" /\ call.at = "Put"
  /\ \E r \in PutResult(Rated(call.type, call.user)) :
       /\ rcall' = [rcall EXCEPT ![c].at = "reply", ![c].status = r.status, ![c].rating = NewRating(c)]
       /\ ratings' = IF r.rows = 1
                     THEN [ratings EXCEPT ![call.type] = Added(ratings[call.type], NewRating(c))]
                     ELSE ratings
  /\ puts' = puts + 1
  /\ UNCHANGED installs

\* Controller.PutRating and the repository's Put.
RepositoryPutRating(c) ==
  /\ PutChecks(c) \/ PutInstalls(c) \/ PutLoads(c) \/ PutStores(c) \/ PutInTable(c)
  /\ UNCHANGED racked

\* What a handler makes of the controller's result.  HTTP writes the value
\* whatever the error is, unless it is ErrNotFound, and cannot encode NaN.
AnswerOf(call) ==
  CASE call.op = "Get" /\ call.api = "http" /\ call.status = "Internal" -> "OK"
    [] call.op = "Get" /\ call.api = "http" /\ call.status = "OK" /\ call.rows = {} -> "Internal"
    [] OTHER -> call.status

RatingReply(c) ==
  LET call == rcall[c] IN
  /\ call.at = "reply"
  /\ rcall' = [rcall EXCEPT ![c] = IF call.op = "Put" THEN Done("Put", call.status)
                                  ELSE [call EXCEPT !.at = "idle", !.status = AnswerOf(call)]]
  /\ racked' = IF call.op = "Put" /\ call.status = "OK" /\ call.alone
               THEN [racked EXCEPT ![call.type] = @ \cup {call.rating}] ELSE racked
  /\ UNCHANGED <<ratings, installs, puts>>

\* The process ends and is started again: memory.New() makes an empty map, and
\* mysql.New() opens the table that is there.
RatingRestart ==
  /\ rcall' = [c \in RatingCall |-> NoRatingCall]
  /\ IF storage = "mysql" THEN UNCHANGED <<ratings, installs, racked>>
     ELSE /\ ratings'  = [t \in Type |-> {}]
          /\ installs' = [t \in Type |-> 0]
          /\ racked'   = [t \in Type |-> {}]
  /\ UNCHANGED puts

RatingArrives == \E c \in RatingCall, type \in Type, hasId \in BOOLEAN :
  \/ \E api \in Api : GetAggregatedRating(c, api, type, hasId)
  \/ \E user \in User \cup {Empty} :
       \/ PutRatingGrpc(c, type, user, hasId)
       \/ \E parses \in BOOLEAN : PutRatingHttp(c, type, user, hasId, parses)

RatingGoesOn == \E c \in RatingCall :
  RepositoryGetRatings(c) \/ RepositoryPutRating(c) \/ RatingReply(c)

RatingNext == (RatingArrives \/ RatingGoesOn \/ RatingRestart) /\ UNCHANGED storage

RatingSpec == storage \in Storages /\ RatingInit /\ [][RatingNext]_<<storage, ratingVars>>

(***************************************************************************)
(* Properties                                                              *)
(***************************************************************************)

RatingRow == [user : User \cup {Empty}, n : 1..puts]

RatingCallType == [at : {"idle", "reply", "Get", "fetch", "Put", "install", "load", "store"},
                   op : {"Get", "Put"}, api : Api, type : Type, user : User \cup {Empty},
                   status : Status, rating : RatingRow \cup {NoRating}, rows : SUBSET RatingRow,
                   ref : Nat, whole : BOOLEAN, alone : BOOLEAN, floor : SUBSET RatingRow]

RatingTypeOK ==
  /\ storage \in Storages
  /\ puts \in Nat
  /\ installs \in [Type -> Nat]
  /\ ratings \in [Type -> SUBSET RatingRow] /\ racked \in [Type -> SUBSET RatingRow]
  /\ rcall \in [RatingCall -> RatingCallType]

\* An aggregate counts every rating of the record whose Put had returned OK
\* before it was asked for, and NotFound and NaN are answered only if there was
\* none.  In the table it is so as long as the database delivers all rows (a
\* query that failed or was cut off is answered like a complete one).  In the map
\* it is so for the ratings whose Put was alone: no other Put of the type was
\* between its first and its last access to the maps meanwhile.  Those survive
\* all Puts that race later.
AggregateCountsAcked == \A c \in RatingCall :
  LET call == rcall[c] IN
  call.op = "Get" /\ call.at = "idle" /\ call.status # "InvalidArgument" /\ call.whole =>
    call.floor \subseteq call.rows
=============================================================================
