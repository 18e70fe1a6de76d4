--------------------------- MODULE ServicesProofs ---------------------------
(***************************************************************************)
(* Theorems about the metadata and the rating service: for any number of   *)
(* calls at a time and of calls in all, over a map or MySQL.               *)
(***************************************************************************)
EXTENDS Services, FiniteSetTheorems, TLAPS

\* A Put that reports success has stored its row.
LEMMA PutResults ==
  ASSUME NEW taken, NEW r \in PutResult(taken)
  PROVE  r.rows \in 0..1 /\ r.status \in Status /\ (r.status = "OK" => r.rows = 1)
<1>1. \/ r = [rows |-> 0, status |-> "Internal"]
      \/ r = [rows |-> 1, status |-> "OK"]
      \/ r \in [rows : 0..1, status : Failure]
  BY Zenon DEF PutResult
<1>2. Failure \subseteq {"Internal"}
  BY DEF Failure
<1>3. ASSUME r \in [rows : 0..1, status : Failure] PROVE r.rows \in 0..1 /\ r.status \in Failure
  BY <1>3, Zenon
<1>4. CASE r = [rows |-> 0, status |-> "Internal"]
  BY <1>4 DEF Status
<1>5. CASE r = [rows |-> 1, status |-> "OK"]
  BY <1>5 DEF Status
<1>6. CASE r \in [rows : 0..1, status : Failure]
  BY <1>2, <1>3, <1>6 DEF Status
<1> QED BY <1>1, <1>4, <1>5, <1>6

(***************************************************************************)
(* The metadata service.  What was acknowledged is not newer than what is  *)
(* in the repository, and no older than what a Get in flight must find.    *)
(***************************************************************************)

MetadataCallOK(c) ==
  LET call == mcall[c] IN
  /\ call.at \in Endpoint => call.op = call.at
  /\ call.at = "GetMetadata" => call.status = "none" /\ call.floor <= movies[call.id]
  /\ call.at = "reply" /\ call.op = "PutMetadata" /\ call.status = "OK" =>
       call.record <= movies[call.id]
  /\ call.op = "GetMetadata" /\ call.status \in {"OK", "NotFound"} => call.record >= call.floor

MetadataInv ==
  /\ MetadataTypeOK
  /\ \A i \in Id : macked[i] <= movies[i]
  /\ \A c \in MetadataCall : MetadataCallOK(c)

LEMMA MetadataInitInv ==
  ASSUME storage \in Storages, MetadataInit PROVE MetadataInv
<1>1. MetadataTypeOK
  <2>1. metrics \in [Endpoint -> [Counter -> Nat]]
    BY DEF MetadataInit
  <2>2. Empty \in Id
    BY DEF Id
  <2>3. written = 0 /\ NoMetadataCall \in MetadataCallType
    BY <2>2 DEF MetadataInit, NoMetadataCall, MetadataCallType, Endpoint, Api, Status
  <2> QED BY <2>1, <2>3 DEF MetadataInit, MetadataTypeOK
<1>2. ASSUME NEW c \in MetadataCall PROVE MetadataCallOK(c)
  BY DEF MetadataInit, MetadataCallOK, NoMetadataCall, Endpoint
<1> QED BY <1>1, <1>2 DEF MetadataInv, MetadataInit

\* Beginning a call.
LEMMA BeginKeeps ==
  ASSUME MetadataInv, UNCHANGED storage, NEW c \in MetadataCall, NEW op \in Endpoint,
         NEW api \in Api, NEW id \in Id, NEW accepted \in BOOLEAN,
         Begin(c, op, api, id, accepted)
  PROVE  MetadataInv'
<1> USE DEF MetadataInv, Begin
<1>1. mcall' = [mcall EXCEPT ![c] = mcall'[c]] /\ metrics' \in [Endpoint -> [Counter -> Nat]]
  BY DEF MetadataTypeOK, MetadataCallType, Count, MetricsOf, Endpoint
<1>2. /\ mcall'[c] \in MetadataCallType
      /\ MetadataCallOK(c)'
  <2>1. /\ Empty \in Id /\ 0 \in 0..written /\ macked[id] \in 0..written /\ macked[id] <= movies[id]
        /\ "none" \in Status /\ "InvalidArgument" \in Status /\ "grpc" \in Api
        /\ mcall \in [MetadataCall -> MetadataCallType]
    BY DEF MetadataTypeOK, Id, Status, Api
  <2>2. CASE accepted
    <3>1. mcall'[c] = [NoMetadataCall EXCEPT !.at = op, !.op = op, !.api = api, !.id = id,
                                             !.floor = macked[id]]
      BY <2>1, <2>2
    <3>2. mcall'[c] = [at |-> op, op |-> op, api |-> api, id |-> id,
                       status |-> "none", record |-> 0, floor |-> macked[id]]
      <4> HIDE DEF Begin
      <4> QED BY <3>1 DEF NoMetadataCall
    <3>3. UNCHANGED <<movies, written>>
      OBVIOUS
    <3> HIDE DEF Begin
    <3>4. mcall'[c] \in MetadataCallType
      BY <2>1, <3>2 DEF MetadataCallType
    <3>5. MetadataCallOK(c)'
      BY <2>1, <3>2, <3>3 DEF MetadataCallOK, Endpoint
    <3> QED BY <3>4, <3>5
  <2>3. CASE ~accepted
    <3>1. mcall'[c] = [at |-> "idle", op |-> op, api |-> "grpc", id |-> Empty,
                       status |-> "InvalidArgument", record |-> 0, floor |-> 0]
      <4>1. mcall'[c] = Ended(op, "InvalidArgument")
        BY <2>1, <2>3
      <4> HIDE DEF Begin
      <4> QED BY <4>1 DEF NoMetadataCall, Ended
    <3> HIDE DEF Begin
    <3>2. mcall'[c] \in MetadataCallType
      BY <2>1, <3>1 DEF MetadataCallType
    <3>3. MetadataCallOK(c)'
      BY <2>1, <3>1 DEF MetadataCallOK, Endpoint
    <3> QED BY <3>2, <3>3
  <2> QED BY <2>2, <2>3
<1>3. MetadataTypeOK'
  BY <1>1, <1>2 DEF MetadataTypeOK, MetadataCallType
<1>4. ASSUME NEW q \in MetadataCall, q # c PROVE MetadataCallOK(q)'
  BY <1>1, <1>4 DEF MetadataTypeOK, MetadataCallType, MetadataCallOK
<1> QED BY <1>2, <1>3, <1>4

LEMMA RepositoryGetKeeps ==
  ASSUME MetadataInv, UNCHANGED storage, NEW c \in MetadataCall, RepositoryGet(c)
  PROVE  MetadataInv'
<1> DEFINE call == mcall[c]
<1>1. /\ \/ mcall' = [mcall EXCEPT ![c].at = "reply", ![c].status = StatusOf(movies[call.id]),
                                  ![c].record = movies[call.id]]
         \/ \E failure \in Failure :
              mcall' = [mcall EXCEPT ![c].at = "reply", ![c].status = failure, ![c].record = 0]
      /\ call.at = "GetMetadata"
      /\ UNCHANGED <<movies, written, metrics, macked>>
  BY Zenon DEF RepositoryGet, Finish
<1>2. /\ call.id \in Id /\ call.op = "GetMetadata" /\ written \in Nat
      /\ call.floor <= movies[call.id] /\ movies[call.id] \in 0..written
      /\ mcall \in [MetadataCall -> MetadataCallType]
      /\ call \in MetadataCallType
  BY <1>1 DEF MetadataInv, MetadataTypeOK, MetadataCallType, MetadataCallOK, Endpoint
<1>3. PICK got \in Status, found \in 0..written :
        /\ mcall' = [mcall EXCEPT ![c] = [call EXCEPT !.at = "reply", !.status = got, !.record = found]]
        /\ got \in {"OK", "NotFound"} => found = movies[call.id]
  <2>1. CASE mcall' = [mcall EXCEPT ![c].at = "reply", ![c].status = StatusOf(movies[call.id]),
                                    ![c].record = movies[call.id]]
    <3>1. StatusOf(movies[call.id]) \in Status
      BY DEF StatusOf, Status
    <3>2. mcall' = [mcall EXCEPT ![c] = [call EXCEPT !.at = "reply", !.record = movies[call.id],
                                                    !.status = StatusOf(movies[call.id])]]
      BY <1>2, <2>1 DEF MetadataCallType
    <3> QED BY <1>2, <3>1, <3>2
  <2>2. ASSUME NEW failure \in Failure,
               mcall' = [mcall EXCEPT ![c].at = "reply", ![c].status = failure, ![c].record = 0]
        PROVE  failure = "Internal" /\
               mcall' = [mcall EXCEPT ![c] = [call EXCEPT !.at = "reply", !.status = "Internal", !.record = 0]]
    <3>1. failure = "Internal"
      BY DEF Failure
    <3> QED BY <1>2, <2>2, <3>1 DEF MetadataCallType
  <2>3. 0 \in 0..written /\ "Internal" \in Status /\ "Internal" \notin {"OK", "NotFound"}
    BY <1>2 DEF Status
  <2> QED BY <1>1, <2>1, <2>2, <2>3
<1> DEFINE next == [call EXCEPT !.at = "reply", !.status = got, !.record = found]
<1>4. next \in MetadataCallType /\ mcall' = [mcall EXCEPT ![c] = next] /\ mcall'[c] = next
  BY <1>2, <1>3 DEF MetadataCallType
<1>5. /\ next.at = "reply" /\ next.op = "GetMetadata" /\ next.floor = call.floor
      /\ next.status = got /\ next.record = found
  BY <1>2 DEF MetadataCallType
<1> HIDE DEF next, call
<1>6. MetadataTypeOK'
  BY <1>1, <1>2, <1>4 DEF MetadataInv, MetadataTypeOK, MetadataCallType
<1>7. MetadataCallOK(c)'
  BY <1>1, <1>2, <1>3, <1>4, <1>5 DEF MetadataCallOK, Endpoint
<1>8. ASSUME NEW q \in MetadataCall, q # c PROVE MetadataCallOK(q)'
  BY <1>1, <1>2, <1>4, <1>8 DEF MetadataInv, MetadataCallOK
<1> QED BY <1>1, <1>6, <1>7, <1>8 DEF MetadataInv

LEMMA RepositoryPutKeeps ==
  ASSUME MetadataInv, UNCHANGED storage, NEW c \in MetadataCall, RepositoryPut(c)
  PROVE  MetadataInv'
<1> USE DEF MetadataInv, RepositoryPut, Finish
<1>1. PICK rows \in 0..1, status \in Status :
        /\ status = "OK" => rows = 1
        /\ mcall' = [mcall EXCEPT ![c].at = "reply", ![c].status = status, ![c].record = written + 1]
        /\ movies' = IF rows = 1 THEN [movies EXCEPT ![mcall[c].id] = written + 1] ELSE movies
  BY PutResults DEF Insert
<1>2. /\ written \in Nat /\ movies \in [Id -> 0..written] /\ mcall[c].id \in Id
      /\ mcall[c].op = "PutMetadata"
  BY DEF MetadataTypeOK, MetadataCallType, MetadataCallOK, Endpoint
<1>3. \A i \in Id : movies[i] <= movies'[i] /\ movies'[i] \in 0..(written + 1)
  BY <1>1, <1>2
<1>4. MetadataTypeOK'
  BY <1>1, <1>2, <1>3 DEF MetadataTypeOK, MetadataCallType, Endpoint
<1>5. MetadataCallOK(c)'
  BY <1>1, <1>2 DEF MetadataTypeOK, MetadataCallType, MetadataCallOK, Endpoint
<1>6. ASSUME NEW q \in MetadataCall, q # c PROVE MetadataCallOK(q)'
  BY <1>1, <1>2, <1>3, <1>6 DEF MetadataTypeOK, MetadataCallType, MetadataCallOK
<1>7. \A i \in Id : macked'[i] <= movies'[i]
  BY <1>2, <1>3 DEF MetadataTypeOK, MetadataCallType
<1> QED BY <1>4, <1>5, <1>6, <1>7

LEMMA MetadataReplyKeeps ==
  ASSUME MetadataInv, UNCHANGED storage, NEW c \in MetadataCall, MetadataReply(c)
  PROVE  MetadataInv'
<1> USE DEF MetadataInv, MetadataReply
<1>1. mcall' = [mcall EXCEPT ![c] = mcall'[c]] /\ metrics' \in [Endpoint -> [Counter -> Nat]]
  BY DEF MetadataTypeOK, MetadataCallType, Count, MetricsOf, Endpoint
<1>2. /\ mcall'[c] \in MetadataCallType
      /\ MetadataCallOK(c)'
  <2>1. /\ Empty \in Id /\ 0 \in 0..written /\ "grpc" \in Api
        /\ mcall[c] \in MetadataCallType /\ mcall \in [MetadataCall -> MetadataCallType]
        /\ MetadataCallOK(c)
    BY DEF MetadataTypeOK, Id, Api
  <2>2. CASE mcall[c].op = "PutMetadata"
    <3>1. mcall'[c] = [at |-> "idle", op |-> "PutMetadata", api |-> "grpc", id |-> Empty,
                       status |-> mcall[c].status, record |-> 0, floor |-> 0]
      BY <2>1, <2>2 DEF NoMetadataCall, Ended
    <3> QED BY <2>1, <3>1 DEF MetadataCallType, MetadataCallOK, Endpoint
  <2>3. CASE mcall[c].op # "PutMetadata"
    <3>1. mcall'[c] = [mcall[c] EXCEPT !.at = "idle"]
      BY <2>1, <2>3
    <3> QED BY <2>1, <3>1 DEF MetadataCallType, MetadataCallOK, Endpoint
  <2> QED BY <2>2, <2>3
<1>3. macked' \in [Id -> 0..written] /\ \A i \in Id : macked'[i] <= movies[i]
  BY DEF MetadataTypeOK, MetadataCallType, MetadataCallOK
<1>4. MetadataTypeOK'
  BY <1>1, <1>2, <1>3 DEF MetadataTypeOK, MetadataCallType
<1>5. ASSUME NEW q \in MetadataCall, q # c PROVE MetadataCallOK(q)'
  BY <1>1, <1>5 DEF MetadataTypeOK, MetadataCallType, MetadataCallOK
<1> QED BY <1>2, <1>3, <1>4, <1>5

LEMMA MetadataRestartKeeps ==
  ASSUME MetadataInv, UNCHANGED storage, MetadataRestart PROVE MetadataInv'
<1> USE DEF MetadataInv, MetadataRestart
<1>1. MetadataTypeOK'
  <2>1. metrics' \in [Endpoint -> [Counter -> Nat]] /\ Empty \in Id /\ written \in Nat
    BY DEF MetadataTypeOK, Id
  <2>2. NoMetadataCall \in MetadataCallType
    BY <2>1 DEF NoMetadataCall, MetadataCallType, Endpoint, Api, Status
  <2>3. mcall' \in [MetadataCall -> MetadataCallType']
    BY <2>2 DEF MetadataCallType
  <2> QED BY <2>1, <2>3 DEF MetadataTypeOK
<1>2. ASSUME NEW c \in MetadataCall PROVE MetadataCallOK(c)'
  BY DEF MetadataCallOK, NoMetadataCall, Endpoint
<1>3. \A i \in Id : macked'[i] <= movies'[i]
  BY DEF MetadataTypeOK, MetadataCallType
<1> QED BY <1>1, <1>2, <1>3

(***************************************************************************)
(* The counters.  All calls count in those of GetMetadata, and a step      *)
(* changes at most one goroutine's share of them.                          *)
(***************************************************************************)

Busy(call) == call.at # "idle" /\ call.api = "grpc"

Outcomes(m) == m["success"] + m["invalid_argument"] + m["not_found"] + m["internal"]

LEMMA InFlightIs ==
  /\ InFlight("PutMetadata") = {}
  /\ InFlight("GetMetadata") = {c \in MetadataCall : Busy(mcall[c])}
  /\ IsFiniteSet(InFlight("GetMetadata"))
<1>1. InFlight("PutMetadata") = {} /\ InFlight("GetMetadata") = {c \in MetadataCall : Busy(mcall[c])}
  BY DEF InFlight, MetricsOf, Busy
<1>2. IsFiniteSet(InFlight("GetMetadata"))
  BY MetadataConstantsOK, <1>1, FS_Subset
<1> QED BY <1>1, <1>2

\* What Count does to the call counter and to the outcomes, at one outcome at most.
LEMMA CountAdds ==
  ASSUME metrics \in [Endpoint -> [Counter -> Nat]], NEW api, NEW op, NEW names,
         Count(api, op, names),
         names \in {{"call"}} \cup {{"call", o} : o \in Outcome} \cup {{o} : o \in Outcome}
  PROVE  LET m == metrics["GetMetadata"]
             k == metrics'["GetMetadata"]
         IN /\ metrics'["PutMetadata"] = metrics["PutMetadata"]
            /\ k["call"] = m["call"] + (IF api # "http" /\ "call" \in names THEN 1 ELSE 0)
            /\ Outcomes(k) = Outcomes(m) + (IF api # "http" /\ names # {"call"} THEN 1 ELSE 0)
            /\ k["call"] \in Nat /\ m["call"] \in Nat /\ Outcomes(m) \in Nat
<1> DEFINE m == metrics["GetMetadata"]
           k == metrics'["GetMetadata"]
<1>1. /\ m["call"] \in Nat /\ m["success"] \in Nat /\ m["invalid_argument"] \in Nat
      /\ m["not_found"] \in Nat /\ m["internal"] \in Nat
  BY DEF Endpoint, Counter, Outcome
<1>2. CASE api = "http"
  <2>1. metrics' = metrics
    BY <1>2 DEF Count
  <2> QED BY <1>1, <1>2, <2>1 DEF Outcomes
<1>3. CASE api # "http"
  <2>1. /\ metrics'["PutMetadata"] = metrics["PutMetadata"]
        /\ k = [n \in Counter |-> IF n \in names THEN m[n] + 1 ELSE m[n]]
    BY <1>3 DEF Count, MetricsOf, Endpoint
  <2> HIDE DEF k, m
  <2>2. \A n \in Counter : k[n] = IF n \in names THEN m[n] + 1 ELSE m[n]
    BY <2>1
  <2>3. /\ k["call"] = (IF "call" \in names THEN m["call"] + 1 ELSE m["call"])
        /\ k["success"] = (IF "success" \in names THEN m["success"] + 1 ELSE m["success"])
        /\ k["invalid_argument"] = (IF "invalid_argument" \in names THEN m["invalid_argument"] + 1
                                                                  ELSE m["invalid_argument"])
        /\ k["not_found"] = (IF "not_found" \in names THEN m["not_found"] + 1 ELSE m["not_found"])
        /\ k["internal"] = (IF "internal" \in names THEN m["internal"] + 1 ELSE m["internal"])
    BY <2>2 DEF Counter, Outcome
  <2> DEFINE one(n) == IF n \in names THEN 1 ELSE 0
         ones   == one("success") + one("invalid_argument") + one("not_found") + one("internal")
  <2>4. ones = IF names # {"call"} THEN 1 ELSE 0
    <3>1. CASE names = {"call"}
      BY <3>1
    <3>2. ASSUME NEW o \in Outcome, names = {"call", o} \/ names = {o}
          PROVE  names # {"call"} /\ ones = 1
      <4>1. \A n \in Outcome : one(n) = IF n = o THEN 1 ELSE 0
        BY <3>2 DEF Outcome
      <4>2. names # {"call"}
        BY <3>2 DEF Outcome
      <4> HIDE DEF one
      <4> QED BY <4>1, <4>2 DEF Outcome
    <3> QED BY <3>1, <3>2
  <2>5. /\ Outcomes(m) \in Nat
        /\ Outcomes(k) = Outcomes(m) + (IF names # {"call"} THEN 1 ELSE 0)
        /\ k["call"] = m["call"] + one("call")
    BY <1>1, <2>3, <2>4 DEF Outcomes, m
  <2> QED BY <1>1, <1>3, <2>1, <2>5 DEF m, k
<1> QED BY <1>2, <1>3

LEMMA InFlightChange ==
  ASSUME NEW c \in MetadataCall, DOMAIN mcall = MetadataCall, mcall' = [mcall EXCEPT ![c] = mcall'[c]]
  PROVE  LET n == Cardinality(InFlight("GetMetadata")) IN
         /\ n \in Nat
         /\ Cardinality(InFlight("GetMetadata")') \in Nat
         /\ (Busy(mcall[c]) <=> Busy(mcall'[c])) => Cardinality(InFlight("GetMetadata")') = n
         /\ ~Busy(mcall[c]) /\ Busy(mcall'[c]) => Cardinality(InFlight("GetMetadata")') = n + 1
         /\ Busy(mcall[c]) /\ ~Busy(mcall'[c]) => Cardinality(InFlight("GetMetadata")') = n - 1
<1> DEFINE X == InFlight("GetMetadata")
           Y == InFlight("GetMetadata")'
<1>1. X = {q \in MetadataCall : Busy(mcall[q])} /\ IsFiniteSet(X)
  BY InFlightIs
<1>2. Y = {q \in MetadataCall : Busy(mcall'[q])}
  BY DEF InFlight, MetricsOf, Busy
<1>3. \A q \in MetadataCall : q # c => mcall'[q] = mcall[q]
  OBVIOUS
<1>4. IsFiniteSet(Y)
  BY <1>2, MetadataConstantsOK, FS_Subset
<1> HIDE DEF X, Y
<1>5. Cardinality(X) \in Nat /\ Cardinality(Y) \in Nat
  BY <1>1, <1>4, FS_CardinalityType
<1>6. ASSUME Busy(mcall[c]) <=> Busy(mcall'[c]) PROVE X = Y
  BY <1>1, <1>2, <1>3, <1>6
<1>7. ASSUME ~Busy(mcall[c]), Busy(mcall'[c]) PROVE Cardinality(Y) = Cardinality(X) + 1
  <2>1. Y = X \cup {c} /\ c \notin X
    BY <1>1, <1>2, <1>3, <1>7
  <2> QED BY <1>1, <2>1, FS_AddElement
<1>8. ASSUME Busy(mcall[c]), ~Busy(mcall'[c]) PROVE Cardinality(Y) = Cardinality(X) - 1
  <2>1. Y = X \ {c} /\ c \in X
    BY <1>1, <1>2, <1>3, <1>8
  <2> QED BY <1>1, <2>1, FS_RemoveElement
<1> QED BY <1>5, <1>6, <1>7, <1>8 DEF X, Y

Balanced ==
  /\ metrics["PutMetadata"]["call"] = Outcomes(metrics["PutMetadata"])
  /\ metrics["GetMetadata"]["call"] =
       Outcomes(metrics["GetMetadata"]) + Cardinality(InFlight("GetMetadata"))

LEMMA AccountedIsBalanced ==
  ASSUME MetadataTypeOK PROVE CallsAccounted <=> Balanced
<1>1. Cardinality({}) = 0
  BY FS_EmptySet
<1>2. InFlight("PutMetadata") = {}
  BY DEF InFlight, MetricsOf
<1>3. Outcomes(metrics["PutMetadata"]) \in Nat
  <2>1. \A n \in Counter : metrics["PutMetadata"][n] \in Nat
    BY DEF MetadataTypeOK, Endpoint
  <2> QED BY <2>1 DEF Outcomes, Counter, Outcome
<1>4. CallsAccounted <=>
        \A e \in Endpoint : metrics[e]["call"] = Outcomes(metrics[e]) + Cardinality(InFlight(e))
  BY Zenon DEF CallsAccounted, Outcomes
<1> QED BY <1>1, <1>2, <1>3, <1>4 DEF Balanced, Endpoint

\* A call is counted, and is then served or counted with its outcome.
LEMMA BeginBalances ==
  ASSUME MetadataInv, Balanced, NEW c \in MetadataCall, NEW op \in Endpoint,
         NEW api \in Api, NEW id \in Id, NEW accepted \in BOOLEAN,
         Begin(c, op, api, id, accepted)
  PROVE  Balanced'
<1> DEFINE names == {"call"} \cup (IF accepted THEN {} ELSE {"invalid_argument"})
<1>1. /\ mcall[c].at = "idle" /\ DOMAIN mcall = MetadataCall
      /\ metrics \in [Endpoint -> [Counter -> Nat]]
  BY DEF MetadataInv, MetadataTypeOK, Begin
<1>2. Count(api, op, names)
  BY Zenon DEF Begin
<1>3. names = IF accepted THEN {"call"} ELSE {"call", "invalid_argument"}
  OBVIOUS
<1>4. mcall' = [mcall EXCEPT ![c] = mcall'[c]]
  BY <1>1 DEF Begin
<1>5. Busy(mcall'[c]) <=> accepted /\ api # "http"
  <2>1. CASE accepted
    <3>1. mcall'[c] = [NoMetadataCall EXCEPT !.at = op, !.op = op, !.api = api, !.id = id,
                                             !.floor = macked[id]]
      BY <1>1, <2>1 DEF Begin
    <3> QED BY <2>1, <3>1 DEF Busy, NoMetadataCall, Endpoint, Api
  <2>2. CASE ~accepted
    <3>1. mcall'[c] = Ended(op, "InvalidArgument")
      BY <1>1, <2>2 DEF Begin
    <3> QED BY <2>2, <3>1 DEF Busy, NoMetadataCall, Ended
  <2> QED BY <2>1, <2>2
<1>6. ~Busy(mcall[c])
  BY <1>1 DEF Busy
<1> HIDE DEF names
<1>7. names \in {{"call"}} \cup {{"call", o} : o \in Outcome} /\ "call" \in names
  BY <1>3 DEF Outcome
<1>8. names # {"call"} <=> ~accepted
  BY <1>3
<1> DEFINE calls   == metrics["GetMetadata"]["call"]
           calls1  == metrics'["GetMetadata"]["call"]
           outs    == Outcomes(metrics["GetMetadata"])
           outs1   == Outcomes(metrics'["GetMetadata"])
           flight  == Cardinality(InFlight("GetMetadata"))
           flight1 == Cardinality(InFlight("GetMetadata")')
<1>9. names \in {{"call"}} \cup {{"call", o} : o \in Outcome} \cup {{o} : o \in Outcome}
  BY <1>7
<1>10. /\ metrics'["PutMetadata"] = metrics["PutMetadata"]
       /\ calls1 = calls + (IF api # "http" /\ "call" \in names THEN 1 ELSE 0)
       /\ outs1 = outs + (IF api # "http" /\ names # {"call"} THEN 1 ELSE 0)
       /\ calls \in Nat /\ outs \in Nat
  BY <1>1, <1>2, <1>9, CountAdds
<1>11. /\ flight \in Nat
       /\ ~Busy(mcall'[c]) => flight1 = flight
       /\ Busy(mcall'[c]) => flight1 = flight + 1
  BY <1>1, <1>4, <1>6, InFlightChange
<1>12. /\ calls = outs + flight
       /\ metrics["PutMetadata"]["call"] = Outcomes(metrics["PutMetadata"])
  BY DEF Balanced
<1> HIDE DEF calls, calls1, outs, outs1, flight, flight1
<1>13. calls1 = outs1 + flight1
  BY <1>5, <1>7, <1>8, <1>10, <1>11, <1>12
<1> QED BY <1>10, <1>12, <1>13 DEF Balanced, calls1, outs1, flight1

\* The repository answers: the call stays in flight.
LEMMA RepositoryBalances ==
  ASSUME MetadataInv, Balanced, NEW c \in MetadataCall, RepositoryGet(c) \/ RepositoryPut(c)
  PROVE  Balanced'
<1>1. mcall[c].at \in Endpoint /\ mcall \in [MetadataCall -> MetadataCallType] /\ UNCHANGED metrics
  BY Zenon DEF MetadataInv, MetadataTypeOK, RepositoryGet, RepositoryPut, Endpoint
<1>2. PICK status, record :
        mcall' = [mcall EXCEPT ![c].at = "reply", ![c].status = status, ![c].record = record]
  BY Zenon DEF RepositoryGet, RepositoryPut, Finish
<1>3. mcall' = [mcall EXCEPT ![c] = mcall'[c]] /\ DOMAIN mcall = MetadataCall
  BY <1>1, <1>2 DEF MetadataCallType
<1>4. Busy(mcall'[c]) <=> Busy(mcall[c])
  BY <1>1, <1>2 DEF Busy, MetadataCallType, Endpoint
<1> QED BY <1>1, <1>3, <1>4, InFlightChange DEF Balanced

LEMMA OutcomeIs ==
  ASSUME NEW op, NEW status PROVE OutcomeOf(op, status) \in {{o} : o \in Outcome}
BY DEF OutcomeOf, Outcome

\* A call ends and is counted with its outcome.
LEMMA MetadataReplyBalances ==
  ASSUME MetadataInv, Balanced, NEW c \in MetadataCall, MetadataReply(c)
  PROVE  Balanced'
<1> DEFINE call  == mcall[c]
           names == OutcomeOf(call.op, call.status)
<1>1. /\ call.at = "reply" /\ call \in MetadataCallType /\ DOMAIN mcall = MetadataCall
      /\ metrics \in [Endpoint -> [Counter -> Nat]]
  BY DEF MetadataInv, MetadataTypeOK, MetadataReply
<1>2. Count(call.api, call.op, names)
  BY Zenon DEF MetadataReply
<1>3. mcall' = [mcall EXCEPT ![c] = mcall'[c]] /\ mcall'[c].at = "idle"
  BY <1>1 DEF MetadataReply, Ended, NoMetadataCall, MetadataCallType
<1>4. ~Busy(mcall'[c]) /\ (Busy(mcall[c]) <=> call.api # "http")
  BY <1>1, <1>3 DEF Busy, MetadataCallType, Api
<1>5. PICK o \in Outcome : names = {o}
  BY OutcomeIs
<1>6. "call" \notin names /\ names # {"call"}
  BY <1>5 DEF Outcome
<1> HIDE DEF names, call
<1> DEFINE calls   == metrics["GetMetadata"]["call"]
           calls1  == metrics'["GetMetadata"]["call"]
           outs    == Outcomes(metrics["GetMetadata"])
           outs1   == Outcomes(metrics'["GetMetadata"])
           flight  == Cardinality(InFlight("GetMetadata"))
           flight1 == Cardinality(InFlight("GetMetadata")')
<1>7. names \in {{"call"}} \cup {{"call", n} : n \in Outcome} \cup {{n} : n \in Outcome}
  BY <1>5
<1>8. /\ metrics'["PutMetadata"] = metrics["PutMetadata"]
      /\ calls1 = calls + (IF call.api # "http" /\ "call" \in names THEN 1 ELSE 0)
      /\ outs1 = outs + (IF call.api # "http" /\ names # {"call"} THEN 1 ELSE 0)
      /\ calls \in Nat /\ outs \in Nat
  BY <1>1, <1>2, <1>7, CountAdds
<1>9. /\ flight \in Nat
      /\ ~Busy(mcall[c]) => flight1 = flight
      /\ Busy(mcall[c]) => flight1 = flight - 1
  BY <1>1, <1>3, <1>4, InFlightChange
<1>10. /\ calls = outs + flight
       /\ metrics["PutMetadata"]["call"] = Outcomes(metrics["PutMetadata"])
  BY DEF Balanced
<1> HIDE DEF calls, calls1, outs, outs1, flight, flight1
<1>11. calls1 = outs1 + flight1
  BY <1>4, <1>6, <1>8, <1>9, <1>10
<1> QED BY <1>8, <1>10, <1>11 DEF Balanced, calls1, outs1, flight1

LEMMA MetadataRestartBalances ==
  ASSUME MetadataRestart PROVE Balanced'
<1>1. InFlight("GetMetadata")' = {}
  BY DEF MetadataRestart, InFlight, NoMetadataCall
<1>2. \A e \in Endpoint, n \in Counter : metrics'[e][n] = 0
  BY DEF MetadataRestart
<1> QED BY <1>1, <1>2, FS_EmptySet DEF Balanced, Outcomes, Endpoint, Counter, Outcome

LEMMA MetadataInitBalanced ==
  ASSUME MetadataInit PROVE Balanced
<1>1. InFlight("GetMetadata") = {}
  BY DEF MetadataInit, InFlight, NoMetadataCall
<1>2. \A e \in Endpoint, n \in Counter : metrics[e][n] = 0
  BY DEF MetadataInit
<1> QED BY <1>1, <1>2, FS_EmptySet DEF Balanced, Outcomes, Endpoint, Counter, Outcome

(***************************************************************************)
(* The rating service.  What was acknowledged is in the repository, and so *)
(* is what a Get in flight must find.                                      *)
(*                                                                         *)
(* Over the map the argument is about the ratings that have settled: those *)
(* whose Put was alone and has stored them, answered or not.  No Put was   *)
(* between its first and its last access to the maps when one settled, so  *)
(* every Put that is now has begun later: it found the type's map there    *)
(* and does not install another, and has loaded, or will, a slice with the *)
(* settled ratings in it.                                                  *)
(***************************************************************************)

AloneOK(call) == call.at = "reply" /\ call.op = "Put" /\ call.status = "OK" /\ call.alone

Settled(t) ==
  racked[t] \cup
    {rcall[c].rating : c \in {d \in RatingCall : rcall[d].type = t /\ AloneOK(rcall[d])}}

RatingCallOK(c) ==
  LET call == rcall[c] IN
  /\ call.at \in {"Get", "fetch"} => call.op = "Get" /\ call.floor \subseteq racked[call.type]
  /\ call.at \in {"Put", "install", "load", "store"} => call.op = "Put"
  /\ call.at \in {"fetch", "install", "load", "store"} => storage = "memory"
  /\ call.at \in {"install", "load", "store"} => call.rating \in RatingRow
  /\ call.at \in {"load", "store"} => installs[call.type] # 0
  /\ call.at = "install" => Settled(call.type) = {}
  /\ call.at = "store" => /\ Settled(call.type) \subseteq call.rows
                          /\ call.alone => call.ref = installs[call.type]
  /\ call.at \in {"install", "load", "store"} /\ call.alone => Storing(call.type) = {c}
  /\ call.op = "Get" /\ call.at \in {"reply", "idle"} /\ call.status # "InvalidArgument" /\ call.whole =>
       call.floor \subseteq call.rows

RatingInv ==
  /\ RatingTypeOK
  /\ \A t \in Type : Settled(t) \subseteq ratings[t]
  /\ \A t \in Type : storage = "memory" /\ installs[t] = 0 => ratings[t] = {}
  /\ \A c \in RatingCall : RatingCallOK(c)

\* The record of a call that has ended or not begun.
LEMMA NoRatingCallType ==
  ASSUME NEW op \in {"Get", "Put"}, NEW status \in Status
  PROVE  /\ NoRatingCall \in RatingCallType /\ NoRatingCall \in RatingCallType'
         /\ Done(op, status) \in RatingCallType /\ Done(op, status) \in RatingCallType'
         /\ Done(op, status) = [NoRatingCall EXCEPT !.op = op, !.status = status]
<1>1. Empty \in Type /\ Empty \in User \cup {Empty}
  BY DEF Type
<1>2. NoRatingCall \in RatingCallType /\ NoRatingCall \in RatingCallType'
  BY <1>1 DEF NoRatingCall, RatingCallType, Api, Status
<1>3. Done(op, status) = [NoRatingCall EXCEPT !.op = op, !.status = status]
  BY DEF Done
<1>4. Done(op, status) \in RatingCallType /\ Done(op, status) \in RatingCallType'
  <2> HIDE DEF NoRatingCall
  <2> QED BY <1>2, <1>3 DEF RatingCallType
<1> QED BY <1>2, <1>3, <1>4

LEMMA RatingInitInv ==
  ASSUME storage \in Storages, RatingInit PROVE RatingInv
<1>1. NoRatingCall \in RatingCallType
  BY NoRatingCallType DEF Status
<1>2. RatingTypeOK
  BY <1>1 DEF RatingInit, RatingTypeOK
<1>3. ASSUME NEW c \in RatingCall PROVE RatingCallOK(c)
  BY DEF RatingInit, RatingCallOK, NoRatingCall
<1>4. ASSUME NEW t \in Type PROVE Settled(t) \subseteq ratings[t] /\ ratings[t] = {}
  BY DEF RatingInit, Settled, NoRatingCall, AloneOK
<1> QED BY <1>2, <1>3, <1>4 DEF RatingInv

\* No rating settles in a step that acknowledges none.
LEMMA SettledNotGrown ==
  ASSUME UNCHANGED racked,
         \A d \in RatingCall : AloneOK(rcall'[d]) =>
           AloneOK(rcall[d]) /\ rcall'[d].type = rcall[d].type /\ rcall'[d].rating = rcall[d].rating
  PROVE  \A t \in Type : Settled(t)' \subseteq Settled(t)
BY DEF Settled

LEMMA StoringNotGrown ==
  ASSUME \A d \in RatingCall : rcall'[d].at \in {"install", "load", "store"} =>
           rcall[d].at \in {"install", "load", "store"} /\ rcall'[d].type = rcall[d].type
  PROVE  \A t \in Type : Storing(t)' \subseteq Storing(t)
BY DEF Storing

\* What a goroutine knows while its call does not change: the steps of the others
\* acknowledge more ratings and install more maps, but do neither while they
\* matter to a Put that is between its accesses to the maps.
LEMMA OtherRatingCalls ==
  ASSUME RatingInv, UNCHANGED storage, NEW q \in RatingCall, rcall'[q] = rcall[q],
         puts' \in Nat, puts <= puts',
         \A t \in Type : /\ racked[t] \subseteq racked'[t]
                         /\ installs'[t] \in Nat /\ installs[t] <= installs'[t],
         \A t \in Type : t = rcall[q].type /\ rcall[q].at \in {"install", "store"} =>
                           Settled(t)' \subseteq Settled(t),
         \A t \in Type : t = rcall[q].type /\ rcall[q].at = "store" /\ rcall[q].alone =>
                           installs'[t] = installs[t],
         \A t \in Type : t = rcall[q].type /\ rcall[q].at \in {"install", "load", "store"}
                           /\ rcall[q].alone => Storing(t)' \subseteq Storing(t)
  PROVE  RatingCallOK(q)'
<1> DEFINE call == rcall[q]
<1>0. PICK t \in Type : t = call.type
  BY DEF RatingInv, RatingTypeOK, RatingCallType
<1>1. /\ call \in RatingCallType /\ puts \in Nat /\ installs[t] \in Nat
      /\ RatingCallOK(q) /\ t = call.type
  BY <1>0 DEF RatingInv, RatingTypeOK, RatingCallType
<1>2. RatingRow \subseteq RatingRow'
  <2>1. 1..puts \subseteq 1..puts'
    BY <1>1
  <2> QED BY <2>1 DEF RatingRow
<1>3. /\ call.at = "install" => Settled(t)' = {}
      /\ call.at = "store" => /\ Settled(t)' \subseteq call.rows
                              /\ call.alone => call.ref = installs'[t]
  BY <1>1 DEF RatingCallOK
<1>4. call.at \in {"install", "load", "store"} /\ call.alone => Storing(t)' = {q}
  <2> SUFFICES ASSUME call.at \in {"install", "load", "store"}, call.alone
               PROVE  Storing(t)' = {q}
    OBVIOUS
  <2>1. Storing(t)' \subseteq {q}
    BY <1>1 DEF RatingCallOK
  <2>2. q \in Storing(t)'
    BY <1>1 DEF Storing
  <2> QED BY <2>1, <2>2
<1>5. /\ call.at \in {"load", "store"} => installs'[t] # 0
      /\ call.at \in {"Get", "fetch"} => call.op = "Get" /\ call.floor \subseteq racked'[t]
      /\ call.at \in {"install", "load", "store"} => call.rating \in RatingRow'
  BY <1>1, <1>2 DEF RatingCallOK
<1>6. /\ call.at \in {"Put", "install", "load", "store"} => call.op = "Put"
      /\ call.at \in {"fetch", "install", "load", "store"} => storage = "memory"
      /\ call.op = "Get" /\ call.at \in {"reply", "idle"} /\ call.status # "InvalidArgument" /\ call.whole =>
           call.floor \subseteq call.rows
  BY <1>1 DEF RatingCallOK
<1> QED BY <1>1, <1>3, <1>4, <1>5, <1>6 DEF RatingCallOK

\* A step that writes nothing to the maps and settles no rating changes one
\* goroutine's call.
LEMMA RatingCallChanges ==
  ASSUME RatingInv, UNCHANGED <<storage, ratings, installs, puts>>, NEW c \in RatingCall,
         NEW next \in RatingCallType, rcall' = [rcall EXCEPT ![c] = next],
         RatingCallOK(c)',
         racked' \in [Type -> SUBSET RatingRow],
         \A t \in Type : /\ racked[t] \subseteq racked'[t]
                         /\ Settled(t)' \subseteq Settled(t) /\ Storing(t)' \subseteq Storing(t)
  PROVE  RatingInv'
<1>1. rcall \in [RatingCall -> RatingCallType] /\ storage \in Storages /\ puts \in Nat
      /\ ratings \in [Type -> SUBSET RatingRow] /\ installs \in [Type -> Nat]
  BY DEF RatingInv, RatingTypeOK
<1>2. RatingRow' = RatingRow /\ RatingCallType' = RatingCallType
  BY DEF RatingRow, RatingCallType
<1>3. rcall' \in [RatingCall -> RatingCallType] /\ rcall'[c] = next
  BY <1>1
<1>4. RatingTypeOK'
  BY <1>1, <1>2, <1>3 DEF RatingTypeOK
<1>5. ASSUME NEW q \in RatingCall, q # c PROVE RatingCallOK(q)'
  <2>1. /\ rcall'[q] = rcall[q] /\ puts' \in Nat /\ puts <= puts'
        /\ \A t \in Type : installs'[t] \in Nat /\ installs[t] <= installs'[t]
    BY <1>1, <1>5
  <2> QED BY <2>1, OtherRatingCalls
<1>6. \A t \in Type : Settled(t)' \subseteq ratings'[t]
  BY DEF RatingInv
<1>7. \A t \in Type : (storage = "memory" /\ installs[t] = 0 => ratings[t] = {})'
  BY DEF RatingInv
<1> QED BY <1>4, <1>5, <1>6, <1>7 DEF RatingInv

LEMMA BeginRatingKeeps ==
  ASSUME RatingInv, UNCHANGED storage, NEW c \in RatingCall, NEW op \in {"Get", "Put"},
         NEW api \in Api, NEW type \in Type, NEW user \in User \cup {Empty},
         NEW status \in {"none", "InvalidArgument", "Internal"},
         op = "Get" => status # "Internal",
         BeginRating(c, op, api, type, user, status)
  PROVE  RatingInv'
<1>1. UNCHANGED <<storage, ratings, installs, puts, racked>>
  BY DEF BeginRating
<1>2. /\ racked \in [Type -> SUBSET RatingRow]
      /\ rcall \in [RatingCall -> RatingCallType]
      /\ status \in Status
  BY <1>1 DEF RatingInv, RatingTypeOK, Status
<1> DEFINE begun == [NoRatingCall EXCEPT !.at = op, !.op = op, !.api = api, !.type = type,
                                         !.user = user, !.floor = racked[type]]
           next  == IF status = "none" THEN begun ELSE Done(op, status)
<1>3. rcall' = [rcall EXCEPT ![c] = next]
  BY DEF BeginRating
<1>4. begun \in RatingCallType
  <2>1. NoRatingCall \in RatingCallType /\ racked[type] \in SUBSET RatingRow
    BY <1>2, NoRatingCallType
  <2> HIDE DEF NoRatingCall
  <2> QED BY <2>1 DEF RatingCallType
<1>5. next \in RatingCallType
  BY <1>2, <1>4, NoRatingCallType
<1>6. begun.at = op /\ begun.op = op /\ begun.type = type /\ begun.floor = racked[type]
  BY DEF NoRatingCall
<1>7. /\ Done(op, status).at = "idle" /\ Done(op, status).op = op
      /\ Done(op, status).floor = {} /\ Done(op, status).rows = {}
  BY DEF Done, NoRatingCall
<1>8. next.at \in {"Get", "Put", "idle"}
  BY <1>6, <1>7
<1>9. RatingCallOK(c)'
  <2>1. rcall'[c] = next
    BY <1>2, <1>3
  <2>2. CASE status = "none"
    <3>1. next = begun
      BY <2>2
    <3> HIDE DEF begun, next
    <3> QED BY <1>1, <1>6, <2>1, <3>1 DEF RatingCallOK
  <2>3. CASE status # "none"
    <3>1. next = Done(op, status)
      BY <2>3
    <3> HIDE DEF begun, next
    <3> QED BY <1>7, <2>1, <3>1 DEF RatingCallOK
  <2> QED BY <2>2, <2>3
<1> HIDE DEF begun, next
<1>10. \A d \in RatingCall : rcall'[d] = rcall[d] \/ rcall'[d].at \in {"Get", "Put", "idle"}
  BY <1>2, <1>3, <1>8
<1>11. \A t \in Type : Settled(t)' \subseteq Settled(t) /\ Storing(t)' \subseteq Storing(t)
  BY <1>1, <1>10, SettledNotGrown, StoringNotGrown DEF AloneOK
<1> QED BY <1>1, <1>2, <1>3, <1>5, <1>9, <1>11, RatingCallChanges

LEMMA RepositoryGetRatingsKeeps ==
  ASSUME RatingInv, UNCHANGED storage, NEW c \in RatingCall, RepositoryGetRatings(c)
  PROVE  RatingInv'
<1> DEFINE call == rcall[c]
<1>1. UNCHANGED <<storage, ratings, installs, puts, racked>> /\ call.at \in {"Get", "fetch"}
  BY DEF RepositoryGetRatings, GetChecksMap, GetFetches, GetFromTable
<1>2. /\ racked \in [Type -> SUBSET RatingRow]
      /\ ratings \in [Type -> SUBSET RatingRow]
      /\ rcall \in [RatingCall -> RatingCallType] /\ call \in RatingCallType
      /\ RatingCallOK(c)
  BY <1>1 DEF RatingInv, RatingTypeOK
<1>3. call.type \in Type /\ call.floor \subseteq ratings[call.type] /\ call.op = "Get"
      /\ call.floor \subseteq racked[call.type]
  <2>1. call.type \in Type /\ call.floor \subseteq racked[call.type] /\ call.op = "Get"
    BY <1>1, <1>2 DEF RatingCallOK, RatingCallType
  <2> QED BY <2>1 DEF RatingInv, Settled
<1>4. CASE storage = "memory" /\ rcall' = [rcall EXCEPT ![c].at = "fetch"]
  <2> DEFINE next == [call EXCEPT !.at = "fetch"]
  <2>1. rcall' = [rcall EXCEPT ![c] = next]
    BY <1>2, <1>4 DEF RatingCallType
  <2>2. next \in RatingCallType
    BY <1>2 DEF RatingCallType
  <2>3. next.at = "fetch" /\ next.op = "Get" /\ next.floor = call.floor /\ next.type = call.type
    BY <1>2, <1>3 DEF RatingCallType
  <2> HIDE DEF next, call
  <2>4. RatingCallOK(c)'
    BY <1>1, <1>2, <1>3, <1>4, <2>1, <2>3 DEF RatingCallOK
  <2>5. \A d \in RatingCall : rcall'[d] = rcall[d] \/ rcall'[d].at = "fetch"
    BY <1>2, <2>1, <2>3
  <2>6. \A t \in Type : Settled(t)' \subseteq Settled(t) /\ Storing(t)' \subseteq Storing(t)
    BY <1>1, <2>5, SettledNotGrown, StoringNotGrown DEF AloneOK
  <2> QED BY <1>1, <1>2, <2>1, <2>2, <2>4, <2>6, RatingCallChanges
<1>5. ASSUME NEW status \in Status, NEW read \in SUBSET ratings[call.type], NEW whole \in BOOLEAN,
             Answer(c, status, read, whole), whole => read = ratings[call.type]
      PROVE  RatingInv'
  <2> DEFINE next == [call EXCEPT !.at = "reply", !.status = status, !.rows = read, !.whole = whole]
  <2>1. rcall' = [rcall EXCEPT ![c] = next]
    BY <1>2, <1>5 DEF RatingCallType, Answer
  <2>2. next \in RatingCallType
    BY <1>2, <1>3 DEF RatingCallType
  <2>3. next.at = "reply" /\ next.op = "Get" /\ next.floor = call.floor /\ next.rows = read
        /\ next.whole = whole
    BY <1>2, <1>3 DEF RatingCallType
  <2> HIDE DEF next, call
  <2>4. RatingCallOK(c)'
    BY <1>2, <1>3, <1>5, <2>1, <2>3 DEF RatingCallOK
  <2>5. \A d \in RatingCall : rcall'[d] = rcall[d] \/ (rcall'[d].at = "reply" /\ rcall'[d].op = "Get")
    BY <1>2, <2>1, <2>3
  <2>6. \A t \in Type : Settled(t)' \subseteq Settled(t) /\ Storing(t)' \subseteq Storing(t)
    BY <1>1, <2>5, SettledNotGrown, StoringNotGrown DEF AloneOK
  <2> QED BY <1>1, <1>2, <2>1, <2>2, <2>4, <2>6, RatingCallChanges
<1>6. CASE GetChecksMap(c)
  <2>1. CASE ratings[call.type] # {}
    BY <1>4, <1>6, <2>1 DEF GetChecksMap
  <2>2. CASE ratings[call.type] = {}
    <3>1. Answer(c, "NotFound", {}, TRUE) /\ "NotFound" \in Status
      BY <1>6, <2>2 DEF GetChecksMap, Status
    <3> HIDE DEF call
    <3> QED BY <1>5, <2>2, <3>1
  <2> QED BY <2>1, <2>2
<1>7. CASE GetFetches(c)
  <2>1. Answer(c, "OK", ratings[call.type], TRUE) /\ "OK" \in Status
    BY <1>7 DEF GetFetches, Status
  <2> HIDE DEF call
  <2> QED BY <1>5, <2>1
<1>8. CASE GetFromTable(c)
  <2>1. \/ Answer(c, "Internal", {}, FALSE)
        \/ \E read \in SUBSET ratings[call.type] : Answer(c, "OK", read, read = ratings[call.type])
    BY <1>8 DEF GetFromTable, RowsRead
  <2>2. "Internal" \in Status /\ "OK" \in Status
    BY DEF Status
  <2> HIDE DEF call
  <2>3. CASE Answer(c, "Internal", {}, FALSE)
    BY <1>5, <2>2, <2>3
  <2>4. ASSUME NEW read \in SUBSET ratings[call.type], Answer(c, "OK", read, read = ratings[call.type])
        PROVE  RatingInv'
    <3>1. (read = ratings[call.type]) \in BOOLEAN
      OBVIOUS
    <3> QED BY <1>5, <2>2, <2>4, <3>1
  <2> QED BY <2>1, <2>3, <2>4
<1> QED BY <1>6, <1>7, <1>8 DEF RepositoryGetRatings

LEMMA RatingReplyKeeps ==
  ASSUME RatingInv, UNCHANGED storage, NEW c \in RatingCall, RatingReply(c)
  PROVE  RatingInv'
<1> DEFINE call == rcall[c]
           next == IF call.op = "Put" THEN Done("Put", call.status)
                   ELSE [call EXCEPT !.at = "idle", !.status = AnswerOf(call)]
<1>1. UNCHANGED <<storage, ratings, installs, puts>> /\ call.at = "reply"
  BY DEF RatingReply
<1>2. /\ racked \in [Type -> SUBSET RatingRow]
      /\ ratings \in [Type -> SUBSET RatingRow]
      /\ \A t \in Type : Settled(t) \subseteq ratings[t]
      /\ rcall \in [RatingCall -> RatingCallType] /\ call \in RatingCallType
      /\ RatingCallOK(c)
  BY DEF RatingInv, RatingTypeOK
<1>3. rcall' = [rcall EXCEPT ![c] = next]
  BY DEF RatingReply
<1>4. call.status \in Status /\ call.type \in Type /\ call.op \in {"Get", "Put"}
  BY <1>2 DEF RatingCallType
<1>5. next \in RatingCallType /\ next.at = "idle" /\ RatingCallOK(c)'
  <2>1. CASE call.op = "Put"
    <3>1. next = Done("Put", call.status)
      BY <2>1
    <3>2. RatingCallOK(c)' /\ next.at = "idle"
      BY <1>2, <1>3, <3>1 DEF RatingCallOK, Done, NoRatingCall
    <3> QED BY <1>4, <3>1, <3>2, NoRatingCallType
  <2>2. CASE call.op # "Put"
    <3>1. AnswerOf(call) \in Status /\ (AnswerOf(call) # "InvalidArgument" => call.status # "InvalidArgument")
      BY <1>4 DEF AnswerOf, Status
    <3>2. next = [call EXCEPT !.at = "idle", !.status = AnswerOf(call)]
      BY <2>2
    <3>3. next \in RatingCallType
      BY <1>2, <3>1, <3>2 DEF RatingCallType
    <3>4. /\ next.at = "idle" /\ next.op = call.op /\ next.floor = call.floor /\ next.rows = call.rows
          /\ next.whole = call.whole /\ next.status = AnswerOf(call)
      BY <1>2, <3>2 DEF RatingCallType
    <3> HIDE DEF next, call
    <3>5. rcall'[c] = next
      BY <1>2, <1>3
    <3>6. RatingCallOK(c) /\ rcall[c] = call /\ call.at = "reply"
      BY <1>1, <1>2 DEF call
    <3>7. RatingCallOK(c)'
      BY <1>4, <2>2, <3>1, <3>4, <3>5, <3>6 DEF RatingCallOK
    <3> QED BY <3>3, <3>4, <3>7
  <2> QED BY <2>1, <2>2
<1>6. /\ racked' \in [Type -> SUBSET RatingRow]
      /\ \A t \in Type : racked[t] \subseteq racked'[t] /\ racked'[t] \subseteq Settled(t)
  <2>1. CASE racked' = racked
    BY <1>2, <2>1 DEF Settled
  <2>2. CASE AloneOK(call) /\ racked' = [racked EXCEPT ![call.type] = racked[call.type] \cup {call.rating}]
    <3>1. call.rating \in Settled(call.type)
      BY <2>2 DEF Settled
    <3>2. call.rating \in RatingRow
      BY <1>2, <1>4, <3>1
    <3> HIDE DEF call
    <3> QED BY <1>2, <1>4, <2>2, <3>1, <3>2 DEF Settled
  <2> QED BY <1>1, <2>1, <2>2 DEF RatingReply, AloneOK
<1> HIDE DEF next, call
<1>7. \A d \in RatingCall : rcall'[d] = rcall[d] \/ rcall'[d].at = "idle"
  BY <1>2, <1>3, <1>5
<1>8. \A t \in Type : Settled(t)' \subseteq Settled(t)
  BY <1>6, <1>7 DEF Settled, AloneOK
<1>9. \A t \in Type : Storing(t)' \subseteq Storing(t)
  BY <1>7, StoringNotGrown
<1> QED BY <1>1, <1>2, <1>3, <1>5, <1>6, <1>8, <1>9, RatingCallChanges

(***************************************************************************)
(* Put, step by step                                                       *)
(***************************************************************************)

\* The check of the map: the Put is alone if no other has checked and not stored,
\* and it is no longer so for those.
LEMMA PutChecksKeeps ==
  ASSUME RatingInv, UNCHANGED <<storage, racked>>, NEW c \in RatingCall, PutChecks(c)
  PROVE  RatingInv'
<1>0. PICK t \in Type : t = rcall[c].type
  BY DEF RatingInv, RatingTypeOK, RatingCallType
<1> DEFINE call   == rcall[c]
           x      == NewRating(c)
           others == Storing(t)
           next   == [call EXCEPT !.at = IF installs[t] = 0 THEN "install" ELSE "load",
                                  !.rating = x, !.alone = (others = {})]
<1>1. /\ storage = "memory" /\ call.at = "Put"
      /\ puts' = puts + 1 /\ UNCHANGED <<storage, racked, ratings, installs>>
      /\ rcall' = [d \in RatingCall |-> IF d = c THEN next
                                        ELSE IF d \in others THEN [rcall[d] EXCEPT !.alone = FALSE]
                                        ELSE rcall[d]]
  BY <1>0, Zenon DEF PutChecks
<1>2. /\ storage \in Storages /\ puts \in Nat /\ installs \in [Type -> Nat]
      /\ racked \in [Type -> SUBSET RatingRow] /\ ratings \in [Type -> SUBSET RatingRow]
      /\ rcall \in [RatingCall -> RatingCallType] /\ call \in RatingCallType
      /\ RatingCallOK(c) /\ \A s \in Type : Settled(s) \subseteq ratings[s]
  BY DEF RatingInv, RatingTypeOK
<1>3. t = call.type /\ call.user \in User \cup {Empty} /\ call.op = "Put"
  BY <1>0, <1>1, <1>2 DEF RatingCallOK, RatingCallType
<1>4. RatingRow \subseteq RatingRow' /\ x \in RatingRow'
  <2>1. 1..puts \subseteq 1..puts' /\ puts + 1 \in 1..puts'
    <3>1. puts \in Nat /\ puts' = puts + 1
      BY <1>1, <1>2
    <3> QED BY ONLY <3>1
  <2>2. x = [user |-> call.user, n |-> puts + 1]
    BY DEF NewRating
  <2> HIDE DEF call, x
  <2> QED BY <1>3, <2>1, <2>2 DEF RatingRow
<1>5. \A r \in RatingCallType : r \in RatingCallType'
  BY <1>4 DEF RatingCallType
<1>6. /\ next.at = (IF installs[t] = 0 THEN "install" ELSE "load") /\ next.op = "Put"
      /\ next.type = t /\ next.rating = x /\ next.alone = (others = {})
  <2> HIDE DEF x, others
  <2> QED BY <1>2, <1>3 DEF RatingCallType
<1>7. next \in RatingCallType'
  <2>1. call \in RatingCallType'
    BY <1>2, <1>5
  <2> HIDE DEF x, others
  <2> QED BY <1>3, <1>4, <2>1 DEF RatingCallType
<1>8. ASSUME NEW d \in RatingCall, d # c, d \in others
      PROVE  /\ rcall'[d] = [rcall[d] EXCEPT !.alone = FALSE] /\ rcall'[d] \in RatingCallType
             /\ rcall[d].at \in {"install", "load", "store"} /\ rcall[d].type = t
             /\ rcall'[d].alone = FALSE /\ rcall'[d].at = rcall[d].at /\ rcall'[d].op = rcall[d].op
             /\ rcall'[d].type = rcall[d].type /\ rcall'[d].rating = rcall[d].rating
             /\ rcall'[d].rows = rcall[d].rows
  <2>1. rcall'[d] = [rcall[d] EXCEPT !.alone = FALSE] /\ rcall[d] \in RatingCallType
    BY <1>1, <1>2, <1>8
  <2>2. rcall[d].at \in {"install", "load", "store"} /\ rcall[d].type = t
    BY <1>8 DEF Storing, others
  <2> QED BY <2>1, <2>2 DEF RatingCallType
<1>9. ASSUME NEW d \in RatingCall, d # c, d \notin others
      PROVE  rcall'[d] = rcall[d]
  BY <1>1, <1>9
<1>10. rcall'[c] = next
  BY <1>1
<1> HIDE DEF next, x, others
<1>11. RatingTypeOK'
  <2>1. rcall' \in [RatingCall -> RatingCallType']
    <3>1. \A d \in RatingCall : rcall'[d] \in RatingCallType'
      BY <1>2, <1>5, <1>7, <1>8, <1>9, <1>10
    <3> QED BY <1>1, <3>1
  <2>2. racked' \in [Type -> SUBSET RatingRow'] /\ ratings' \in [Type -> SUBSET RatingRow']
    BY <1>1, <1>2, <1>4
  <2> QED BY <1>1, <1>2, <2>1, <2>2 DEF RatingTypeOK
<1>12. \A s \in Type : Settled(s)' \subseteq Settled(s)
  <2>1. \A d \in RatingCall : AloneOK(rcall'[d]) =>
          AloneOK(rcall[d]) /\ rcall'[d].type = rcall[d].type /\ rcall'[d].rating = rcall[d].rating
    BY <1>6, <1>8, <1>9, <1>10 DEF AloneOK
  <2> QED BY <1>1, <2>1, SettledNotGrown
<1>13. Storing(t)' \subseteq others \cup {c} /\ \A s \in Type \ {t} : Storing(s)' \subseteq Storing(s)
  <2>1. \A d \in RatingCall \ {c} : rcall'[d].at = rcall[d].at /\ rcall'[d].type = rcall[d].type
    BY <1>8, <1>9
  <2>2. rcall'[c].type = t
    BY <1>6, <1>10
  <2>3. Storing(t)' = {d \in RatingCall : rcall'[d].type = t /\ rcall'[d].at \in {"install", "load", "store"}}
    BY <2>2 DEF Storing
  <2>4. \A s \in Type : Storing(s)' = {d \in RatingCall : rcall'[d].type = s
                                         /\ rcall'[d].at \in {"install", "load", "store"}}
    BY DEF Storing
  <2> QED BY <1>3, <2>1, <2>2, <2>4 DEF Storing, others
<1>14. RatingCallOK(c)'
  <2>1. rcall'[c].type = t /\ rcall'[c].at \in {"install", "load"} /\ rcall'[c].op = "Put"
        /\ rcall'[c].rating = x /\ rcall'[c].alone = (others = {})
        /\ (rcall'[c].at = "install" <=> installs[t] = 0)
    BY <1>6, <1>10
  <2>2. rcall'[c].at = "install" => Settled(t)' = {}
    <3>1. installs[t] = 0 => ratings[t] = {}
      BY <1>1, <1>3 DEF RatingInv
    <3> QED BY <1>2, <1>3, <1>12, <2>1, <3>1
  <2>3. rcall'[c].alone => Storing(t)' = {c}
    <3>1. c \in Storing(t)'
      <4>1. \A s : s = t => (rcall'[c].type = s /\ rcall'[c].at \in {"install", "load", "store"})
        BY <2>1
      <4>2. c \in {d \in RatingCall : rcall'[d].type = t /\ rcall'[d].at \in {"install", "load", "store"}}
        BY <2>1
      <4> QED BY <2>1, <4>2 DEF Storing
    <3> QED BY <1>13, <2>1, <3>1
  <2>4. x \in RatingRow' /\ storage' = "memory"
    BY <1>1, <1>4
  <2> QED BY <1>1, <2>1, <2>2, <2>3, <2>4 DEF RatingCallOK
<1>15. ASSUME NEW q \in RatingCall, q # c PROVE RatingCallOK(q)'
  <2>0. RatingCallOK(q)
    BY DEF RatingInv
  <2>1. CASE q \in others
    <3>1. /\ rcall'[q].alone = FALSE /\ rcall'[q].at = rcall[q].at /\ rcall'[q].op = rcall[q].op
          /\ rcall'[q].type = rcall[q].type /\ rcall'[q].rating = rcall[q].rating
          /\ rcall'[q].rows = rcall[q].rows /\ rcall[q].type \in Type
          /\ rcall[q].at \in {"install", "load", "store"}
      BY <1>3, <1>8, <1>15, <2>1
    <3>2. Settled(rcall[q].type)' \subseteq Settled(rcall[q].type)
      <4>1. \A s \in Type : rcall'[q].type = s => Settled(rcall[q].type)' = Settled(s)'
        OBVIOUS
      <4> QED BY <1>12, <3>1
    <3> QED BY <1>1, <1>4, <2>0, <3>1, <3>2 DEF RatingCallOK
  <2>2. CASE q \notin others
    <3>1. rcall'[q] = rcall[q] /\ puts' \in Nat /\ puts <= puts'
          /\ \A s \in Type : racked[s] \subseteq racked'[s] /\ installs'[s] \in Nat
                             /\ installs[s] <= installs'[s] /\ installs'[s] = installs[s]
      BY <1>1, <1>2, <1>9, <1>15, <2>2
    <3>2. \A s \in Type : s = rcall[q].type /\ rcall[q].at \in {"install", "load", "store"}
                            => Storing(s)' \subseteq Storing(s)
      BY <1>13, <2>2 DEF Storing, others
    <3> QED BY <1>12, <3>1, <3>2, OtherRatingCalls
  <2> QED BY <2>1, <2>2
<1>16. /\ \A s \in Type : Settled(s)' \subseteq ratings'[s]
       /\ \A s \in Type : (storage = "memory" /\ installs[s] = 0 => ratings[s] = {})'
  BY <1>1, <1>2, <1>12 DEF RatingInv
<1>17. \A q \in RatingCall : RatingCallOK(q)'
  BY <1>14, <1>15
<1> QED BY <1>11, <1>16, <1>17 DEF RatingInv

\* The three steps over the maps that follow: what they have in common.
LEMMA MapStepKeeps ==
  ASSUME RatingInv, UNCHANGED <<storage, puts, racked>>, NEW c \in RatingCall,
         NEW next \in RatingCallType, rcall' = [rcall EXCEPT ![c] = next],
         next.type = rcall[c].type, rcall[c].at \in {"install", "load", "store"},
         next.at \in {"load", "store", "reply"},
         ratings' \in [Type -> SUBSET RatingRow], installs' \in [Type -> Nat],
         \A t \in Type : installs[t] <= installs'[t],
         \A t \in Type : installs'[t] # installs[t] => t = rcall[c].type,
         \A t \in Type : Settled(t)' \subseteq ratings'[t],
         \A t \in Type : ratings'[t] # ratings[t] => installs'[t] # 0,
         AloneOK(next) => rcall[c].alone,
         RatingCallOK(c)'
  PROVE  RatingInv'
<1>1. /\ rcall \in [RatingCall -> RatingCallType] /\ storage \in Storages /\ puts \in Nat
      /\ installs \in [Type -> Nat] /\ racked \in [Type -> SUBSET RatingRow]
      /\ rcall[c].type \in Type /\ RatingCallOK(c)
  BY DEF RatingInv, RatingTypeOK, RatingCallType
<1>2. RatingRow' = RatingRow /\ RatingCallType' = RatingCallType
  BY DEF RatingRow, RatingCallType
<1>3. rcall' \in [RatingCall -> RatingCallType] /\ rcall'[c] = next
      /\ \A d \in RatingCall \ {c} : rcall'[d] = rcall[d]
  BY <1>1
<1>4. RatingTypeOK'
  BY <1>1, <1>2, <1>3 DEF RatingTypeOK
<1>5. c \in Storing(rcall[c].type) /\ \A t \in Type : Storing(t)' \subseteq Storing(t)
  <2>1. \A d \in RatingCall : rcall'[d].at \in {"install", "load", "store"} =>
          rcall[d].at \in {"install", "load", "store"} /\ rcall'[d].type = rcall[d].type
    BY <1>3
  <2> QED BY <2>1, StoringNotGrown DEF Storing
<1>6. ASSUME NEW q \in RatingCall, q # c PROVE RatingCallOK(q)'
  <2>1. /\ rcall'[q] = rcall[q] /\ puts' \in Nat /\ puts <= puts'
        /\ \A t \in Type : racked[t] \subseteq racked'[t] /\ installs'[t] \in Nat
      BY <1>1, <1>3, <1>6
  <2>2. rcall[q].at \in {"install", "load", "store"} /\ rcall[q].alone => rcall[q].type # rcall[c].type
    <3>1. RatingCallOK(q)
      BY DEF RatingInv
    <3>2. rcall[q].at \in {"install", "load", "store"} /\ rcall[q].alone =>
            Storing(rcall[q].type) = {q}
      BY <3>1 DEF RatingCallOK
    <3> QED BY <1>5, <1>6, <3>2
  <2>3. ASSUME NEW t \in Type, t = rcall[q].type, rcall[q].at \in {"install", "store"}
        PROVE  Settled(t)' \subseteq Settled(t)
    <3>1. q \in Storing(t)
      BY <2>3 DEF Storing
    <3>2. AloneOK(next) => rcall[c].type # t
      <4> SUFFICES ASSUME rcall[c].alone, rcall[c].type = t PROVE FALSE
        OBVIOUS
      <4>1. Storing(t) = {c}
        BY <1>1 DEF RatingCallOK
      <4> QED BY <1>6, <3>1, <4>1
    <3>3. \A d \in RatingCall : rcall'[d].type = t /\ AloneOK(rcall'[d]) => rcall'[d] = rcall[d]
      BY <1>3, <3>2
    <3> QED BY <3>3 DEF Settled
  <2>4. \A t \in Type : t = rcall[q].type /\ rcall[q].at = "store" /\ rcall[q].alone =>
                          installs'[t] = installs[t]
    BY <2>2
  <2> QED BY <1>5, <2>1, <2>3, <2>4, OtherRatingCalls
<1>7. ASSUME NEW t \in Type, storage = "memory", installs'[t] = 0 PROVE ratings'[t] = {}
  <2>1. installs[t] = 0 /\ ratings'[t] = ratings[t]
    BY <1>1, <1>7
  <2> QED BY <1>7, <2>1 DEF RatingInv
<1>8. \A q \in RatingCall : RatingCallOK(q)'
  BY <1>6
<1> QED BY <1>4, <1>7, <1>8 DEF RatingInv

\* What a goroutine knows after such a step, in terms of the type of its record.
LEMMA PutGoesOn ==
  ASSUME NEW c \in RatingCall, NEW t \in Type, rcall'[c].type = t, rcall'[c].op = "Put",
         storage' = "memory", rcall'[c].rating \in RatingRow',
         rcall'[c].at \in {"load", "store"}, installs'[t] # 0,
         rcall'[c].at = "store" => Settled(t)' \subseteq rcall'[c].rows /\ rcall'[c].ref = installs'[t],
         rcall'[c].alone => Storing(t)' = {c}
  PROVE  RatingCallOK(c)'
BY DEF RatingCallOK

LEMMA PutInstallsKeeps ==
  ASSUME RatingInv, UNCHANGED <<storage, racked>>, NEW c \in RatingCall, PutInstalls(c)
  PROVE  RatingInv'
<1>0. PICK t \in Type : t = rcall[c].type
  BY DEF RatingInv, RatingTypeOK, RatingCallType
<1> DEFINE call == rcall[c]
           next == [call EXCEPT !.at = "load"]
<1>1. /\ call.at = "install" /\ UNCHANGED <<storage, racked, puts>>
      /\ installs' = [installs EXCEPT ![t] = installs[t] + 1]
      /\ ratings' = [ratings EXCEPT ![t] = {}]
      /\ rcall' = [rcall EXCEPT ![c].at = "load"]
  BY <1>0 DEF PutInstalls
<1>2. /\ installs \in [Type -> Nat] /\ ratings \in [Type -> SUBSET RatingRow]
      /\ rcall \in [RatingCall -> RatingCallType] /\ call \in RatingCallType
      /\ RatingCallOK(c) /\ \A s \in Type : Settled(s) \subseteq ratings[s]
      /\ t = call.type
  BY <1>0 DEF RatingInv, RatingTypeOK, RatingCallType
<1>3. rcall' = [rcall EXCEPT ![c] = next]
  BY <1>1, <1>2 DEF RatingCallType
<1>4. /\ next \in RatingCallType /\ next.at = "load" /\ next.type = t /\ next.op = call.op
      /\ next.rating = call.rating /\ next.alone = call.alone
  BY <1>2 DEF RatingCallType
<1> HIDE DEF next
<1>5. rcall'[c] = next /\ \A d \in RatingCall \ {c} : rcall'[d] = rcall[d]
  BY <1>2, <1>3
<1>6. /\ \A s \in Type : Settled(s)' \subseteq Settled(s)
      /\ \A s \in Type : Storing(s)' \subseteq Storing(s)
  <2>1. \A d \in RatingCall : rcall'[d] = rcall[d] \/ ~AloneOK(rcall'[d])
    BY <1>4, <1>5 DEF AloneOK
  <2>2. \A d \in RatingCall : rcall'[d].at \in {"install", "load", "store"} =>
          rcall[d].at \in {"install", "load", "store"} /\ rcall'[d].type = rcall[d].type
    BY <1>1, <1>4, <1>5
  <2> QED BY <1>1, <2>1, <2>2, SettledNotGrown, StoringNotGrown
<1>7. Settled(t) = {} /\ call.op = "Put" /\ storage = "memory" /\ call.rating \in RatingRow
      /\ (call.alone => Storing(t) = {c})
  BY <1>1, <1>2 DEF RatingCallOK
<1>1a. call.at = "install" /\ UNCHANGED <<storage, racked, puts>>
  BY <1>1
<1>8. RatingCallOK(c)'
  <2>1. call.alone => Storing(t)' = {c}
    <3>1. c \in {d \in RatingCall : rcall'[d].type = t /\ rcall'[d].at \in {"install", "load", "store"}}
      BY <1>4, <1>5
    <3> QED BY <1>6, <1>7, <3>1 DEF Storing
  <2>2. RatingRow' = RatingRow
    BY <1>1 DEF RatingRow
  <2>3. installs'[t] # 0
    BY <1>1, <1>2
  <2>4. /\ rcall'[c].type = t /\ rcall'[c].op = "Put" /\ storage' = "memory"
        /\ rcall'[c].rating \in RatingRow' /\ rcall'[c].at = "load"
        /\ rcall'[c].alone = call.alone
    BY <1>1a, <1>4, <1>5, <1>7, <2>2
  <2> QED BY <2>1, <2>3, <2>4, PutGoesOn
<1>9. /\ ratings' \in [Type -> SUBSET RatingRow] /\ installs' \in [Type -> Nat]
      /\ \A s \in Type : installs[s] <= installs'[s]
      /\ \A s \in Type : installs'[s] # installs[s] => s = rcall[c].type
      /\ \A s \in Type : ratings'[s] # ratings[s] => installs'[s] # 0
  BY <1>1, <1>2
<1>10. \A s \in Type : Settled(s)' \subseteq ratings'[s]
  BY <1>1, <1>2, <1>6, <1>7
<1>11. ~AloneOK(next)
  BY <1>4 DEF AloneOK
<1>12. /\ UNCHANGED <<storage, puts, racked>> /\ next.type = rcall[c].type
       /\ rcall[c].at \in {"install", "load", "store"}
  BY <1>0, <1>1, <1>4
<1> HIDE DEF call
<1> QED BY <1>3, <1>4, <1>8, <1>9, <1>10, <1>11, <1>12, MapStepKeeps

LEMMA PutLoadsKeeps ==
  ASSUME RatingInv, UNCHANGED <<storage, racked>>, NEW c \in RatingCall, PutLoads(c)
  PROVE  RatingInv'
<1>0. PICK t \in Type : t = rcall[c].type
  BY DEF RatingInv, RatingTypeOK, RatingCallType
<1> DEFINE call == rcall[c]
           next == [call EXCEPT !.at = "store", !.ref = installs[t], !.rows = ratings[t]]
<1>1. /\ call.at = "load" /\ UNCHANGED <<storage, racked, puts, installs, ratings>>
      /\ rcall' = [rcall EXCEPT ![c].at = "store", ![c].ref = installs[t],
                                ![c].rows = ratings[t]]
  BY <1>0 DEF PutLoads
<1>2. /\ installs \in [Type -> Nat] /\ ratings \in [Type -> SUBSET RatingRow]
      /\ racked \in [Type -> SUBSET RatingRow]
      /\ rcall \in [RatingCall -> RatingCallType] /\ call \in RatingCallType
      /\ RatingCallOK(c) /\ \A s \in Type : Settled(s) \subseteq ratings[s]
      /\ t = call.type
  BY <1>0 DEF RatingInv, RatingTypeOK, RatingCallType
<1>3. rcall' = [rcall EXCEPT ![c] = next]
  BY <1>1, <1>2 DEF RatingCallType
<1>4. /\ next \in RatingCallType /\ next.at = "store" /\ next.type = t /\ next.op = call.op
      /\ next.rating = call.rating /\ next.alone = call.alone
      /\ next.ref = installs[t] /\ next.rows = ratings[t]
  BY <1>2 DEF RatingCallType
<1> HIDE DEF next
<1>5. rcall'[c] = next /\ \A d \in RatingCall \ {c} : rcall'[d] = rcall[d]
  BY <1>2, <1>3
<1>1a. call.at = "load" /\ UNCHANGED <<storage, racked, puts, installs, ratings>>
  BY <1>1
<1>6. /\ \A s \in Type : Settled(s)' \subseteq Settled(s)
      /\ \A s \in Type : Storing(s)' \subseteq Storing(s)
  <2>1. \A d \in RatingCall : rcall'[d] = rcall[d] \/ ~AloneOK(rcall'[d])
    BY <1>4, <1>5 DEF AloneOK
  <2>2. ASSUME NEW d \in RatingCall
        PROVE  rcall'[d].at \in {"install", "load", "store"} =>
                 rcall[d].at \in {"install", "load", "store"} /\ rcall'[d].type = rcall[d].type
    <3>1. CASE d = c
      <4>1. rcall[c].at = "load" /\ rcall[c].type = t /\ rcall'[c].type = t
        BY <1>0, <1>1a, <1>4, <1>5
      <4> QED BY <3>1, <4>1
    <3>2. CASE d # c
      BY <1>5, <3>2
    <3> QED BY <3>1, <3>2
  <2> QED BY <1>1a, <2>1, <2>2, SettledNotGrown, StoringNotGrown
<1>7. call.op = "Put" /\ storage = "memory" /\ call.rating \in RatingRow
      /\ (call.alone => Storing(t) = {c}) /\ installs[t] # 0
  BY <1>1, <1>2 DEF RatingCallOK
<1>8. RatingCallOK(c)'
  <2>1. call.alone => Storing(t)' = {c}
    <3>1. c \in {d \in RatingCall : rcall'[d].type = t /\ rcall'[d].at \in {"install", "load", "store"}}
      BY <1>4, <1>5
    <3> QED BY <1>6, <1>7, <3>1 DEF Storing
  <2>2. RatingRow' = RatingRow
    BY <1>1 DEF RatingRow
  <2>3. Settled(t)' \subseteq ratings[t]
    BY <1>2, <1>4, <1>5, <1>6
  <2>4. /\ rcall'[c].type = t /\ rcall'[c].op = "Put" /\ storage' = "memory"
        /\ rcall'[c].rating \in RatingRow' /\ rcall'[c].at = "store" /\ installs'[t] # 0
        /\ rcall'[c].rows = ratings[t] /\ rcall'[c].ref = installs'[t]
        /\ rcall'[c].alone = call.alone
    BY <1>1a, <1>4, <1>5, <1>7, <2>2
  <2> QED BY <2>1, <2>3, <2>4, PutGoesOn
<1>9. /\ UNCHANGED <<storage, ratings, installs, puts>> /\ racked' \in [Type -> SUBSET RatingRow]
      /\ \A s \in Type : racked[s] \subseteq racked'[s]
  BY <1>1, <1>2
<1> HIDE DEF call
<1> QED BY <1>3, <1>4, <1>6, <1>8, <1>9, RatingCallChanges

\* A Put that is alone finds the map it has loaded from still there.
LEMMA PutStoresKeeps ==
  ASSUME RatingInv, UNCHANGED <<storage, racked>>, NEW c \in RatingCall, PutStores(c)
  PROVE  RatingInv'
<1>0. PICK t \in Type : t = rcall[c].type
  BY DEF RatingInv, RatingTypeOK, RatingCallType
<1> DEFINE call == rcall[c]
           next == [call EXCEPT !.at = "reply", !.status = "OK", !.ref = 0, !.rows = {}]
<1>1. /\ call.at = "store" /\ UNCHANGED <<storage, racked, puts, installs>>
      /\ \/ ratings' = [ratings EXCEPT ![t] = call.rows \cup {call.rating}]
         \/ ratings' = ratings /\ call.ref # installs[t]
      /\ rcall' = [rcall EXCEPT ![c].at = "reply", ![c].status = "OK", ![c].ref = 0, ![c].rows = {}]
  BY <1>0 DEF PutStores, Added
<1>2. /\ installs \in [Type -> Nat] /\ ratings \in [Type -> SUBSET RatingRow]
      /\ rcall \in [RatingCall -> RatingCallType] /\ call \in RatingCallType
      /\ RatingCallOK(c) /\ \A s \in Type : Settled(s) \subseteq ratings[s]
      /\ t = call.type /\ call.rows \in SUBSET RatingRow
  BY <1>0 DEF RatingInv, RatingTypeOK, RatingCallType
<1>3. rcall' = [rcall EXCEPT ![c] = next]
  BY <1>1, <1>2 DEF RatingCallType
<1>4. /\ next \in RatingCallType /\ next.at = "reply" /\ next.type = t /\ next.op = call.op
      /\ next.rating = call.rating /\ next.alone = call.alone
  BY <1>2 DEF RatingCallType, Status
<1>5. call.op = "Put" /\ storage = "memory" /\ call.rating \in RatingRow
      /\ Settled(t) \subseteq call.rows /\ (call.alone => call.ref = installs[t])
      /\ installs[t] # 0
  BY <1>1, <1>2 DEF RatingCallOK
<1> HIDE DEF next, call
<1>6. rcall'[c] = next /\ \A d \in RatingCall \ {c} : rcall'[d] = rcall[d]
  BY <1>2, <1>3
<1>7. ratings' \in [Type -> SUBSET RatingRow] /\ \A s \in Type \ {t} : ratings'[s] = ratings[s]
  BY <1>1, <1>2, <1>5
<1>8. /\ \A s \in Type \ {t} : Settled(s)' \subseteq Settled(s)
      /\ Settled(t)' \subseteq Settled(t) \cup (IF call.alone THEN {call.rating} ELSE {})
  <2>1. \A d \in RatingCall : rcall'[d] = rcall[d]
          \/ (d = c /\ rcall'[d].type = t /\ rcall'[d].rating = call.rating
                    /\ (AloneOK(rcall'[d]) => call.alone))
    BY <1>4, <1>6 DEF AloneOK
  <2>2. \A s \in Type : Settled(s)' =
          racked[s] \cup {rcall'[d].rating : d \in {d \in RatingCall : rcall'[d].type = s /\ AloneOK(rcall'[d])}}
    BY <1>1 DEF Settled
  <2> QED BY <1>2, <2>1, <2>2 DEF Settled
<1>9. \A s \in Type : Settled(s)' \subseteq ratings'[s]
  <2>1. Settled(t)' \subseteq ratings'[t]
    <3>1. CASE ratings' = [ratings EXCEPT ![t] = call.rows \cup {call.rating}]
      BY <1>2, <1>5, <1>8, <3>1
    <3>2. CASE ratings' = ratings /\ call.ref # installs[t]
      BY <1>2, <1>5, <1>8, <3>2
    <3> QED BY <1>1, <3>1, <3>2
  <2> QED BY <1>2, <1>7, <1>8, <2>1
<1>10. RatingCallOK(c)'
  BY <1>4, <1>5, <1>6 DEF RatingCallOK
<1>11. AloneOK(next) => call.alone
  BY <1>4 DEF AloneOK
<1>12. \A s \in Type : installs[s] <= installs'[s] /\ (ratings'[s] # ratings[s] => installs'[s] # 0)
                       /\ (installs'[s] # installs[s] => s = rcall[c].type)
  BY <1>0, <1>1, <1>2, <1>5, <1>7
<1>13. rcall[c] = call /\ next.type = rcall[c].type
  BY <1>0, <1>4 DEF call
<1>14. /\ UNCHANGED <<storage, puts, racked>> /\ rcall[c].at \in {"install", "load", "store"}
       /\ installs' \in [Type -> Nat] /\ (AloneOK(next) => rcall[c].alone)
  BY <1>1, <1>2, <1>11, <1>13
<1> QED BY <1>3, <1>4, <1>7, <1>9, <1>10, <1>12, <1>13, <1>14, MapStepKeeps

\* MySQL stores the row whole, and no goroutine is between accesses to a map.
LEMMA PutInTableKeeps ==
  ASSUME RatingInv, UNCHANGED <<storage, racked>>, NEW c \in RatingCall, PutInTable(c)
  PROVE  RatingInv'
<1> DEFINE call == rcall[c]
           x    == NewRating(c)
<1>1. /\ storage \in Storages /\ puts \in Nat /\ puts' = puts + 1 /\ installs \in [Type -> Nat]
      /\ UNCHANGED <<storage, installs, racked>> /\ call.at = "Put" /\ storage = "mysql"
      /\ racked \in [Type -> SUBSET RatingRow] /\ ratings \in [Type -> SUBSET RatingRow]
      /\ \A t \in Type : Settled(t) \subseteq ratings[t]
      /\ rcall \in [RatingCall -> RatingCallType] /\ call \in RatingCallType
      /\ RatingCallOK(c)
  BY DEF PutInTable, RatingInv, RatingTypeOK
<1>2. call.type \in Type /\ call.user \in User \cup {Empty} /\ call.op = "Put"
  BY <1>1 DEF RatingCallOK, RatingCallType
<1>3. RatingRow \subseteq RatingRow' /\ x \in RatingRow'
  <2>1. 1..puts \subseteq 1..puts' /\ puts + 1 \in 1..puts'
    BY <1>1
  <2>2. x = [user |-> call.user, n |-> puts + 1]
    BY DEF NewRating
  <2> HIDE DEF call, x
  <2> QED BY <1>2, <2>1, <2>2 DEF RatingRow
<1>4. \A r \in RatingCallType : r \in RatingCallType'
  BY <1>3 DEF RatingCallType
<1>5. PICK rows \in 0..1, status \in Status :
        /\ status = "OK" => rows = 1
        /\ rcall' = [rcall EXCEPT ![c].at = "reply", ![c].status = status, ![c].rating = x]
        /\ ratings' = IF rows = 1 THEN [ratings EXCEPT ![call.type] = Added(ratings[call.type], x)]
                                  ELSE ratings
  <2>1. PICK r \in PutResult(Rated(call.type, call.user)) :
          /\ rcall' = [rcall EXCEPT ![c].at = "reply", ![c].status = r.status, ![c].rating = x]
          /\ ratings' = IF r.rows = 1 THEN [ratings EXCEPT ![call.type] = Added(ratings[call.type], x)]
                                      ELSE ratings
    BY DEF PutInTable
  <2>2. r.rows \in 0..1 /\ r.status \in Status /\ (r.status = "OK" => r.rows = 1)
    BY PutResults
  <2> QED BY <2>1, <2>2
<1> DEFINE next == [call EXCEPT !.at = "reply", !.status = status, !.rating = x]
<1>6. rcall' = [rcall EXCEPT ![c] = next]
  BY <1>1, <1>5 DEF RatingCallType
<1>7. next \in RatingCallType' /\ next.at = "reply" /\ next.op = "Put" /\ next.status = status
      /\ next.type = call.type /\ next.rating = x
  <2>1. call \in RatingCallType'
    BY <1>1, <1>4
  <2> HIDE DEF call, x
  <2> QED BY <1>1, <1>2, <1>3, <2>1 DEF RatingCallType
<1> HIDE DEF next, call, x
<1>8. /\ ratings' \in [Type -> SUBSET RatingRow']
      /\ \A t \in Type : ratings[t] \subseteq ratings'[t]
      /\ status = "OK" => x \in ratings'[call.type]
  <2>1. Added(ratings[call.type], x) = ratings[call.type] \cup {x}
    BY DEF Added
  <2> QED BY <1>1, <1>2, <1>3, <1>5, <2>1
<1>9. RatingTypeOK'
  <2>1. rcall' \in [RatingCall -> RatingCallType']
    BY <1>1, <1>4, <1>6, <1>7
  <2>2. racked' \in [Type -> SUBSET RatingRow']
    BY <1>1, <1>3
  <2> QED BY <1>1, <1>8, <2>1, <2>2 DEF RatingTypeOK
<1>10. rcall'[c] = next /\ \A d \in RatingCall \ {c} : rcall'[d] = rcall[d]
  BY <1>1, <1>6
<1>11. RatingCallOK(c)'
  BY <1>7, <1>10 DEF RatingCallOK
<1>12. ASSUME NEW q \in RatingCall, q # c PROVE RatingCallOK(q)'
  <2>1. /\ rcall'[q] = rcall[q] /\ puts' \in Nat /\ puts <= puts'
        /\ \A t \in Type : racked[t] \subseteq racked'[t] /\ installs'[t] \in Nat
                           /\ installs[t] <= installs'[t]
    BY <1>1, <1>10, <1>12
  <2>2. rcall[q].at \notin {"install", "load", "store"}
    <3>1. RatingCallOK(q)
      BY DEF RatingInv
    <3> QED BY <1>1, <3>1 DEF RatingCallOK
  <2> QED BY <2>1, <2>2, OtherRatingCalls
<1>13. \A t \in Type : Settled(t)' \subseteq ratings'[t]
  <2> SUFFICES ASSUME NEW t \in Type, NEW y \in Settled(t)' PROVE y \in ratings'[t]
    OBVIOUS
  <2>1. CASE y \in racked[t]
    BY <1>1, <1>8, <2>1 DEF Settled
  <2>2. ASSUME NEW d \in RatingCall, rcall'[d].type = t, AloneOK(rcall'[d]), y = rcall'[d].rating
        PROVE  y \in ratings'[t]
    <3>1. CASE d = c
      BY <1>7, <1>8, <1>10, <2>2, <3>1 DEF AloneOK
    <3>2. CASE d # c
      <4>1. y \in Settled(t)
        BY <1>10, <2>2, <3>2 DEF Settled
      <4> QED BY <1>1, <1>8, <4>1
    <3> QED BY <3>1, <3>2
  <2> QED BY <1>1, <2>1, <2>2 DEF Settled
<1>14. \A t \in Type : (storage = "memory" /\ installs[t] = 0 => ratings[t] = {})'
  BY <1>1
<1>15. \A q \in RatingCall : RatingCallOK(q)'
  BY <1>11, <1>12
<1> QED BY <1>9, <1>13, <1>14, <1>15 DEF RatingInv

LEMMA RepositoryPutRatingKeeps ==
  ASSUME RatingInv, UNCHANGED storage, NEW c \in RatingCall, RepositoryPutRating(c)
  PROVE  RatingInv'
BY PutChecksKeeps, PutInstallsKeeps, PutLoadsKeeps, PutStoresKeeps, PutInTableKeeps
   DEF RepositoryPutRating

LEMMA RatingRestartKeeps ==
  ASSUME RatingInv, UNCHANGED storage, RatingRestart PROVE RatingInv'
<1>1. /\ storage' \in Storages /\ puts' \in Nat /\ RatingRow' = RatingRow
      /\ ratings' \in [Type -> SUBSET RatingRow] /\ racked' \in [Type -> SUBSET RatingRow]
      /\ installs' \in [Type -> Nat]
      /\ \A t \in Type : racked'[t] \subseteq ratings'[t]
      /\ storage' = "memory" => \A t \in Type : ratings'[t] = {}
      /\ rcall' = [c \in RatingCall |-> NoRatingCall]
  BY DEF RatingRestart, RatingInv, RatingTypeOK, RatingRow, Settled
<1>2. NoRatingCall \in RatingCallType'
  BY NoRatingCallType DEF Status
<1>3. RatingTypeOK'
  BY <1>1, <1>2 DEF RatingTypeOK
<1>4. ASSUME NEW c \in RatingCall PROVE RatingCallOK(c)'
  BY <1>1 DEF RatingCallOK, NoRatingCall
<1>5. \A t \in Type : Settled(t)' \subseteq ratings'[t]
  BY <1>1 DEF Settled, AloneOK, NoRatingCall
<1> QED BY <1>1, <1>3, <1>4, <1>5 DEF RatingInv

(***************************************************************************)
(* The services together.                                                  *)
(***************************************************************************)

Inv == MetadataInv /\ Balanced /\ RatingInv /\ made \in 0..MaxCalls

LEMMA MetadataStep ==
  ASSUME MetadataInv, Balanced, UNCHANGED storage,
         MetadataArrives \/ MetadataGoesOn \/ MetadataRestart
  PROVE  MetadataInv' /\ Balanced'
<1>1. ASSUME NEW c \in MetadataCall, NEW api \in Api, NEW id \in Id, GetMetadata(c, api, id)
      PROVE  MetadataInv' /\ Balanced'
  <2>1. Begin(c, "GetMetadata", api, id, id # Empty) /\ "GetMetadata" \in Endpoint
    BY <1>1 DEF GetMetadata, Endpoint
  <2>2. (id # Empty) \in BOOLEAN
    OBVIOUS
  <2> QED BY <2>1, <2>2, BeginKeeps, BeginBalances
<1>2. ASSUME NEW c \in MetadataCall, NEW id \in Id, PutMetadata(c, id)
      PROVE  MetadataInv' /\ Balanced'
  <2>1. Begin(c, "PutMetadata", "grpc", id, TRUE) /\ "PutMetadata" \in Endpoint /\ "grpc" \in Api
    BY <1>2 DEF PutMetadata, Endpoint, Api
  <2> QED BY <2>1, BeginKeeps, BeginBalances
<1>3. ASSUME NEW c \in MetadataCall, PutNoMetadata(c)
      PROVE  MetadataInv' /\ Balanced'
  <2>1. /\ Begin(c, "PutMetadata", "grpc", Empty, FALSE)
        /\ "PutMetadata" \in Endpoint /\ "grpc" \in Api /\ Empty \in Id
    BY <1>3 DEF PutNoMetadata, Endpoint, Api, Id
  <2> QED BY <2>1, BeginKeeps, BeginBalances
<1>4. CASE MetadataArrives
  BY <1>1, <1>2, <1>3, <1>4 DEF MetadataArrives
<1>5. CASE MetadataGoesOn
  BY <1>5, RepositoryGetKeeps, RepositoryPutKeeps, MetadataReplyKeeps, RepositoryBalances,
     MetadataReplyBalances DEF MetadataGoesOn
<1>6. CASE MetadataRestart
  BY <1>6, MetadataRestartKeeps, MetadataRestartBalances
<1> QED BY <1>4, <1>5, <1>6

LEMMA RatingStep ==
  ASSUME RatingInv, UNCHANGED storage, RatingArrives \/ RatingGoesOn \/ RatingRestart
  PROVE  RatingInv'
<1> DEFINE Statuses == {"none", "InvalidArgument", "Internal"}
<1>1. Empty \in User \cup {Empty} /\ "grpc" \in Api /\ "http" \in Api
  BY DEF Api
<1>2. ASSUME NEW c \in RatingCall, NEW type \in Type, NEW hasId \in BOOLEAN, NEW api \in Api,
             GetAggregatedRating(c, api, type, hasId)
      PROVE  RatingInv'
  <2>1. PICK status \in {"none", "InvalidArgument"} : BeginRating(c, "Get", api, type, Empty, status)
    BY <1>2 DEF GetAggregatedRating
  <2> QED BY <1>1, <2>1, BeginRatingKeeps
<1>3. ASSUME NEW c \in RatingCall, NEW type \in Type, NEW hasId \in BOOLEAN,
             NEW user \in User \cup {Empty}, PutRatingGrpc(c, type, user, hasId)
      PROVE  RatingInv'
  <2>1. PICK status \in Statuses : BeginRating(c, "Put", "grpc", type, user, status)
    BY <1>3 DEF PutRatingGrpc
  <2> QED BY <1>1, <2>1, BeginRatingKeeps
<1>4. ASSUME NEW c \in RatingCall, NEW type \in Type, NEW hasId \in BOOLEAN,
             NEW user \in User \cup {Empty}, NEW parses \in BOOLEAN,
             PutRatingHttp(c, type, user, hasId, parses)
      PROVE  RatingInv'
  <2>1. PICK status \in Statuses : BeginRating(c, "Put", "http", type, user, status)
    BY <1>4 DEF PutRatingHttp
  <2> QED BY <1>1, <2>1, BeginRatingKeeps
<1>5. CASE RatingArrives
  BY <1>2, <1>3, <1>4, <1>5 DEF RatingArrives
<1>6. CASE RatingGoesOn
  BY <1>6, RepositoryGetRatingsKeeps, RepositoryPutRatingKeeps, RatingReplyKeeps DEF RatingGoesOn
<1>7. CASE RatingRestart
  BY <1>7, RatingRestartKeeps
<1> QED BY <1>5, <1>6, <1>7

LEMMA MetadataUnchanged ==
  ASSUME MetadataInv, Balanced, UNCHANGED <<storage, metadataVars>>
  PROVE  MetadataInv' /\ Balanced'
<1>1. UNCHANGED <<storage, movies, written, metrics, mcall, macked>>
  BY DEF metadataVars
<1>2. MetadataInv'
  BY <1>1 DEF MetadataInv, MetadataTypeOK, MetadataCallType, MetadataCallOK
<1>3. InFlight("GetMetadata")' = InFlight("GetMetadata")
  BY <1>1 DEF InFlight
<1> QED BY <1>1, <1>2, <1>3 DEF Balanced

LEMMA RatingUnchanged ==
  ASSUME RatingInv, UNCHANGED <<storage, ratingVars>> PROVE RatingInv'
<1>1. UNCHANGED <<storage, ratings, installs, puts, rcall, racked>>
  BY DEF ratingVars
<1>2. RatingTypeOK'
  BY <1>1 DEF RatingInv, RatingTypeOK, RatingRow, RatingCallType
<1>3. \A t \in Type : Settled(t)' = Settled(t) /\ Storing(t)' = Storing(t)
  BY <1>1 DEF Settled, AloneOK, Storing
<1>4. puts \in Nat /\ installs \in [Type -> Nat]
  BY DEF RatingInv, RatingTypeOK
<1>5. \A c \in RatingCall : RatingCallOK(c)'
  BY <1>1, <1>3, <1>4, OtherRatingCalls
<1>6. /\ \A t \in Type : Settled(t)' \subseteq ratings'[t]
      /\ \A t \in Type : (storage = "memory" /\ installs[t] = 0 => ratings[t] = {})'
  BY <1>1, <1>3 DEF RatingInv
<1> QED BY <1>2, <1>5, <1>6 DEF RatingInv

LEMMA Inductive == Spec => []Inv
<1>1. Init => Inv
  BY MetadataInitInv, MetadataInitBalanced, RatingInitInv, MaxCallsOK DEF Init, Inv
<1>2. ASSUME Inv, [Next]_vars PROVE Inv'
  <2>1. CASE Next
    <3>1. UNCHANGED storage
      BY <2>1 DEF Next
    <3>2. CASE Call
      <4>1. made' \in 0..MaxCalls
        BY <1>2, <3>2, MaxCallsOK DEF Call, Inv
      <4>2. \/ MetadataArrives /\ UNCHANGED ratingVars
            \/ RatingArrives /\ UNCHANGED metadataVars
        BY <3>2 DEF Call
      <4> QED BY <1>2, <3>1, <4>1, <4>2, MetadataStep, RatingStep, MetadataUnchanged, RatingUnchanged
              DEF Inv
    <3>3. CASE (MetadataGoesOn \/ MetadataRestart) /\ UNCHANGED <<ratingVars, made>>
      BY <1>2, <3>1, <3>3, MetadataStep, RatingUnchanged DEF Inv
    <3>4. CASE (RatingGoesOn \/ RatingRestart) /\ UNCHANGED <<metadataVars, made>>
      BY <1>2, <3>1, <3>4, RatingStep, MetadataUnchanged DEF Inv
    <3> QED BY <2>1, <3>2, <3>3, <3>4 DEF Next
  <2>2. CASE UNCHANGED vars
    BY <1>2, <2>2, MetadataUnchanged, RatingUnchanged DEF Inv, vars
  <2> QED BY <1>2, <2>1, <2>2
<1> QED BY <1>1, <1>2, PTL DEF Spec

\* The state of both services has its type.
THEOREM TypeCorrect == Spec => []TypeOK
<1>1. Inv => TypeOK
  BY DEF Inv, MetadataInv, RatingInv, TypeOK
<1> QED BY <1>1, Inductive, PTL

\* The counters of the gRPC endpoints add up: every counted call has been counted
\* with one outcome, or is being served, whatever calls overlap.
THEOREM CountersAddUp == Spec => []CallsAccounted
<1>1. Inv => CallsAccounted
  BY AccountedIsBalanced DEF Inv, MetadataInv
<1> QED BY <1>1, Inductive, PTL

\* A Get of metadata finds the record of the last Put that had returned OK
\* before it, or a later one.
THEOREM GetSafe == Spec => []GetSeesAckedPut
<1>1. Inv => GetSeesAckedPut
  BY DEF Inv, MetadataInv, MetadataCallOK, GetSeesAckedPut
<1> QED BY <1>1, Inductive, PTL

\* An aggregate that is not cut off by the database counts every rating whose
\* Put had returned OK before it; over the unlocked map, every such rating whose
\* Put was alone, whatever Puts race before, meanwhile or later.
THEOREM AggregateSafe == Spec => []AggregateCountsAcked
<1>1. Inv => AggregateCountsAcked
  BY DEF Inv, RatingInv, RatingCallOK, AggregateCountsAcked
<1> QED BY <1>1, Inductive, PTL
(***************************************************************************)
(* The table of ratings.  Over MySQL the rating service is the abstract    *)
(* store, restarts of the process included, and its primary key holds.     *)
(***************************************************************************)

Table == INSTANCE RatingStore WITH
           Key    <- Type,
           Rating <- [user : User \cup {Empty}, n : Nat],
           store  <- ratings

OnePerUser ==
  storage = "mysql" =>
    \A t \in Type : \A x, y \in ratings[t] : x.user = y.user => x = y

\* An INSERT adds a rating that is new, of a user who had none; or nothing.
LEMMA PutAdds ==
  ASSUME RatingInv, storage = "mysql", NEW c \in RatingCall, RepositoryPutRating(c)
  PROVE  \/ ratings' = ratings
         \/ \E t \in Type, x \in [user : User \cup {Empty}, n : Nat] :
              /\ x \notin ratings[t] /\ \A y \in ratings[t] : y.user # x.user
              /\ ratings' = [ratings EXCEPT ![t] = ratings[t] \cup {x}]
<1> DEFINE type == rcall[c].type
           user == rcall[c].user
           x    == [user |-> user, n |-> puts + 1]
<1>0. PutInTable(c)
  BY DEF RepositoryPutRating, PutChecks, PutInstalls, PutLoads, PutStores, RatingInv, RatingCallOK
<1>1. PICK r \in PutResult(Rated(type, user)) :
        ratings' = IF r.rows = 1 THEN [ratings EXCEPT ![type] = Added(ratings[type], x)] ELSE ratings
  BY <1>0 DEF PutInTable, NewRating
<1>2. type \in Type /\ user \in User \cup {Empty} /\ puts \in Nat /\ ratings[type] \subseteq RatingRow
  BY DEF RatingInv, RatingTypeOK, RatingCallType
<1> HIDE DEF type, user
<1>3. x \in [user : User \cup {Empty}, n : Nat] /\ x \notin ratings[type]
  <2>1. \A y \in ratings[type] : y.n # puts + 1
    BY <1>2 DEF RatingRow
  <2> QED BY <1>2, <2>1
<1>4. CASE Rated(type, user)
  <2>1. r = [rows |-> 0, status |-> "Internal"]
    BY <1>1, <1>4 DEF PutResult
  <2>2. r.rows # 1
    BY <2>1
  <2> QED BY <1>1, <2>2
<1>5. CASE ~Rated(type, user)
  <2>1. \A y \in ratings[type] : y.user # x.user
    BY <1>5 DEF Rated
  <2>2. Added(ratings[type], x) = ratings[type] \cup {x}
    BY DEF Added
  <2> HIDE DEF x
  <2> QED BY <1>1, <1>2, <1>3, <2>1, <2>2
<1> QED BY <1>4, <1>5

\* Over MySQL no other step changes the ratings.
LEMMA TableStep ==
  ASSUME Inv, storage = "mysql", [Next]_vars
  PROVE  \/ ratings' = ratings
         \/ \E t \in Type, x \in [user : User \cup {Empty}, n : Nat] :
              /\ x \notin ratings[t] /\ \A y \in ratings[t] : y.user # x.user
              /\ ratings' = [ratings EXCEPT ![t] = ratings[t] \cup {x}]
<1>1. CASE UNCHANGED ratingVars \/ UNCHANGED vars
  BY <1>1 DEF ratingVars, vars
<1>2. CASE RatingArrives
  BY <1>2 DEF RatingArrives, GetAggregatedRating, PutRatingGrpc, PutRatingHttp, BeginRating
<1>3. ASSUME NEW c \in RatingCall, RepositoryGetRatings(c) \/ RatingReply(c)
      PROVE  ratings' = ratings
  BY <1>3 DEF RepositoryGetRatings, RatingReply
<1>4. ASSUME NEW c \in RatingCall, RepositoryPutRating(c)
      PROVE  \/ ratings' = ratings
             \/ \E t \in Type, x \in [user : User \cup {Empty}, n : Nat] :
                  /\ x \notin ratings[t] /\ \A y \in ratings[t] : y.user # x.user
                  /\ ratings' = [ratings EXCEPT ![t] = ratings[t] \cup {x}]
  BY <1>4, PutAdds DEF Inv
<1>5. CASE RatingRestart
  BY <1>5 DEF RatingRestart
<1> QED BY <1>1, <1>2, <1>3, <1>4, <1>5 DEF Next, Call, RatingGoesOn

\* Over MySQL the rating service is the abstract store: a rating that a Put of
\* any goroutine has stored is never changed or removed, by a restart either.
THEOREM TableImplements == Spec /\ storage = "mysql" => Table!Spec
<1>1. Init => Table!Init
  BY DEF Init, RatingInit, Table!Init
<1>2. Inv /\ storage = "mysql" /\ [Next]_vars => [Table!Next]_ratings
  BY TableStep DEF Table!Next, Table!Put
<1>3. storage = "mysql" /\ [Next]_vars => (storage = "mysql")'
  BY DEF Next, vars
<1> QED BY <1>1, <1>2, <1>3, Inductive, PTL DEF Spec, Table!Spec

\* The table has at most one rating of a user for a record, whatever Puts
\* overlap, fail half way or are repeated: a user's rating is never replaced.
THEOREM OneRatingPerUser == Spec => []OnePerUser
<1>1. Init => OnePerUser
  BY DEF Init, RatingInit, OnePerUser
<1>2. ASSUME Inv, OnePerUser, [Next]_vars PROVE OnePerUser'
  <2>1. storage' = storage
    BY <1>2 DEF Next, vars
  <2>2. SUFFICES ASSUME storage = "mysql" PROVE OnePerUser'
    BY <2>1 DEF OnePerUser
  <2>3. CASE ratings' = ratings
    BY <1>2, <2>1, <2>3 DEF OnePerUser
  <2>4. ASSUME NEW t \in Type, NEW x \in [user : User \cup {Empty}, n : Nat],
               \A y \in ratings[t] : y.user # x.user,
               ratings' = [ratings EXCEPT ![t] = ratings[t] \cup {x}]
        PROVE  OnePerUser'
    <3>1. ratings \in [Type -> SUBSET RatingRow]
      BY <1>2 DEF Inv, RatingInv, RatingTypeOK
    <3> QED BY <1>2, <2>2, <2>4, <3>1 DEF OnePerUser
  <2> QED BY <1>2, <2>2, <2>3, <2>4, TableStep
<1> QED BY <1>1, <1>2, Inductive, PTL DEF Spec
=============================================================================
