-------------------------- MODULE RatingRepository --------------------------
(***************************************************************************)
(* The in-memory rating repository (rating/internal/repository/memory),    *)
(* the store the rating service runs on.                                   *)
(*                                                                         *)
(* It is a map of maps with no lock, called from one goroutine per gRPC or *)
(* HTTP request, so a call is a sequence of steps, one per access to a map *)
(* that others may write, and the calls interleave.                        *)
(*                                                                         *)
(*   - Inner maps have an identity: a goroutine may hold a reference to    *)
(*     one that data no longer points to.                                  *)
(*   - The slice of a record is the set of its ratings: every Put adds a   *)
(*     rating of its own and the only reader sums them.  Two racing        *)
(*     appends leave the slice header that is stored last.                 *)
(*   - An access that overlaps a map write may be caught by the Go         *)
(*     runtime, which ends the process ("concurrent map writes").          *)
(***************************************************************************)
EXTENDS Naturals

CONSTANTS Writers,    \* goroutines that call Put
          Readers,    \* goroutines that call Get
          Types,      \* record types
          Records,    \* record ids
          MaxPuts,    \* bound: Puts of one writer
          NoMap       \* the value of an outer map entry that is absent

ASSUME ConstantsOK ==
  /\ Writers \cap Readers = {}          \* a goroutine serves one request
  /\ Types # {} /\ Records # {}
  /\ MaxPuts \in Nat
  /\ NoMap \notin Writers \X (1..MaxPuts)

Key    == Types \X Records
Rating == Writers \X (1..MaxPuts)   \* a rating is named by the Put that adds it
MapRef == Rating                    \* and a map by the Put that allocates it

VARIABLES
  data,      \* the outer map: record type -> inner map
  maps,      \* the inner maps on the heap: record id -> ratings
  pc,        \* where each goroutine is in its call
  key,       \* the arguments recordType, recordID of its call
  puts,      \* how many Puts each writer has started
  ref,       \* the inner map a writer has looked up
  seen,      \* the ratings it found there, to which it appends
  got,       \* what the last Get of each reader returned
  fatal,     \* the Go runtime has stopped the process
  acked,     \* history: the ratings of each record whose Put has returned
  floor,     \* history: acked[key] when the reader's Get was called
  settled    \* history: the ratings readable when no Put was last in flight

vars == <<data, maps, pc, key, puts, ref, seen, got, fatal,
          acked, floor, settled>>

local   == <<puts, ref, seen>>
history == <<acked, floor, settled>>

Current(k) == IF data[k[1]] = NoMap THEN {} ELSE maps[data[k[1]]][k[2]]

\* Mutant: the rating of the writer's previous Put, as if the request were reused.
MineReused(w) == <<w, puts[w] - 1>>

Mine(w) == <<w, puts[w]>>           \* the rating, or the map, of w's last Put

WriterPC == {"idle", "check", "install", "load", "store"}
ReaderPC == {"idle", "checkType", "checkRecord", "fetch"}
Outcome  == [status : {"none", "notFound", "ok"}, ratings : SUBSET Rating]

Init ==
  /\ data    = [t \in Types |-> NoMap]
  /\ maps    = [m \in MapRef |-> [id \in Records |-> {}]]
  /\ pc      = [p \in Writers \cup Readers |-> "idle"]
  /\ key     = [p \in Writers \cup Readers |-> CHOOSE k \in Key : TRUE]
  /\ puts    = [w \in Writers |-> 0]
  /\ ref     = [w \in Writers |-> NoMap]
  /\ seen    = [w \in Writers |-> {}]
  /\ got     = [r \in Readers |-> [status |-> "none", ratings |-> {}]]
  /\ fatal   = FALSE
  /\ acked   = [k \in Key |-> {}]
  /\ floor   = [r \in Readers |-> {}]
  /\ settled = [k \in Key |-> {}]

(***************************************************************************)
(* Put                                                                     *)
(***************************************************************************)

\* A Put is called.  When no other is in flight, what is readable now has
\* settled: see SettledKept.
PutStart(w) ==
  /\ ~fatal /\ pc[w] = "idle" /\ puts[w] < MaxPuts
  /\ \E k \in Key : key' = [key EXCEPT ![w] = k]
  /\ puts' = [puts EXCEPT ![w] = @ + 1]
  /\ pc' = [pc EXCEPT ![w] = "check"]
  /\ settled' = IF \A v \in Writers : pc[v] = "idle"
                  THEN [k \in Key |-> Current(k)] ELSE settled
  /\ UNCHANGED <<data, maps, ref, seen, got, fatal, acked, floor>>

\* Mutant: the entry is installed without looking whether there is one.
PutCheckNever(w) ==
  /\ ~fatal /\ pc[w] = "check"
  /\ pc' = [pc EXCEPT ![w] = "install"]
  /\ UNCHANGED <<data, maps, key, local, got, fatal, history>>

\* if _, ok := r.data[recordType]; !ok
PutCheck(w) ==
  /\ ~fatal /\ pc[w] = "check"
  /\ pc' = [pc EXCEPT ![w] = IF data[key[w][1]] = NoMap THEN "install" ELSE "load"]
  /\ UNCHANGED <<data, maps, key, local, got, fatal, history>>

\* r.data[recordType] = map[...]{}: replaces the entry, whatever it is by now.
PutInstall(w) ==
  /\ ~fatal /\ pc[w] = "install"
  /\ data' = [data EXCEPT ![key[w][1]] = Mine(w)]
  /\ pc' = [pc EXCEPT ![w] = "load"]
  /\ UNCHANGED <<maps, key, local, got, fatal, history>>

\* Mutant: the ratings are looked up by type, without the record id.
PutLoadByType(w) ==
  /\ ~fatal /\ pc[w] = "load"
  /\ ref' = [ref EXCEPT ![w] = data[key[w][1]]]
  /\ seen' = [seen EXCEPT ![w] = UNION {Current(<<key[w][1], id>>) : id \in Records}]
  /\ pc' = [pc EXCEPT ![w] = "store"]
  /\ UNCHANGED <<data, maps, key, puts, got, fatal, history>>

\* Mutant: the slice is made anew instead of appended to.
PutLoadFresh(w) ==
  /\ ~fatal /\ pc[w] = "load"
  /\ ref' = [ref EXCEPT ![w] = data[key[w][1]]]
  /\ pc' = [pc EXCEPT ![w] = "store"]
  /\ UNCHANGED <<data, maps, key, puts, seen, got, fatal, history>>

\* The operands of append: the inner map and its slice.
PutLoad(w) ==
  /\ ~fatal /\ pc[w] = "load"
  /\ ref' = [ref EXCEPT ![w] = data[key[w][1]]]
  /\ seen' = [seen EXCEPT ![w] = Current(key[w])]
  /\ pc' = [pc EXCEPT ![w] = "store"]
  /\ UNCHANGED <<data, maps, key, puts, got, fatal, history>>

\* The assignment, and the return.  The statement names r.data[recordType] on
\* both sides; whether it is read once or twice is the compiler's choice.
PutStore(w) ==
  /\ ~fatal /\ pc[w] = "store"
  /\ \E m \in {ref[w], data[key[w][1]]} :
       maps' = [maps EXCEPT ![m][key[w][2]] = seen[w] \cup {Mine(w)}]
  /\ acked' = [acked EXCEPT ![key[w]] = @ \cup {Mine(w)}]
  /\ ref' = [ref EXCEPT ![w] = NoMap]
  /\ seen' = [seen EXCEPT ![w] = {}]
  /\ pc' = [pc EXCEPT ![w] = "idle"]
  /\ UNCHANGED <<data, key, puts, got, fatal, floor, settled>>

(***************************************************************************)
(* Get                                                                     *)
(***************************************************************************)

GetStart(r) ==
  /\ ~fatal /\ pc[r] = "idle"
  /\ \E k \in Key : /\ key' = [key EXCEPT ![r] = k]
                    /\ floor' = [floor EXCEPT ![r] = acked[k]]
  /\ pc' = [pc EXCEPT ![r] = "checkType"]
  /\ got' = [got EXCEPT ![r] = [status |-> "none", ratings |-> {}]]
  /\ UNCHANGED <<data, maps, local, fatal, acked, settled>>

GetReturn(r, status, ratings) ==
  /\ got' = [got EXCEPT ![r] = [status |-> status, ratings |-> ratings]]
  /\ pc' = [pc EXCEPT ![r] = "idle"]

GetCheckType(r) ==
  /\ ~fatal /\ pc[r] = "checkType"
  /\ \/ /\ data[key[r][1]] = NoMap
        /\ GetReturn(r, "notFound", {})
     \/ /\ data[key[r][1]] # NoMap
        /\ pc' = [pc EXCEPT ![r] = "checkRecord"]
        /\ UNCHANGED got
  /\ UNCHANGED <<data, maps, key, local, fatal, history>>

\* Mutant: the record is not looked up before it is returned.
GetCheckRecordNever(r) ==
  /\ ~fatal /\ pc[r] = "checkRecord"
  /\ pc' = [pc EXCEPT ![r] = "fetch"]
  /\ UNCHANGED <<data, maps, key, local, got, fatal, history>>

\* ratings, ok := r.data[recordType][recordID]; !ok || len(ratings) == 0
GetCheckRecord(r) ==
  /\ ~fatal /\ pc[r] = "checkRecord"
  /\ \/ /\ Current(key[r]) = {}
        /\ GetReturn(r, "notFound", {})
     \/ /\ Current(key[r]) # {}
        /\ pc' = [pc EXCEPT ![r] = "fetch"]
        /\ UNCHANGED got
  /\ UNCHANGED <<data, maps, key, local, fatal, history>>

\* return r.data[recordType][recordID], nil: both maps are read again.
GetFetch(r) ==
  /\ ~fatal /\ pc[r] = "fetch"
  /\ GetReturn(r, "ok", Current(key[r]))
  /\ UNCHANGED <<data, maps, key, local, fatal, history>>

(***************************************************************************)
(* The Go runtime                                                          *)
(***************************************************************************)

\* The inner map p's next step may access.
Touches(p, m) ==
  \/ pc[p] \in {"load", "checkRecord", "fetch"} /\ data[key[p][1]] = m
  \/ pc[p] = "store" /\ m \in {ref[p], data[key[p][1]]}

\* Two goroutines are about to access one map, the first of them to write it.
OuterRace == \E w \in Writers : /\ pc[w] = "install"
                                /\ \E p \in (Writers \cup Readers) \ {w} : pc[p] # "idle"
InnerRace == \E w \in Writers : /\ pc[w] = "store"
                                /\ \E p \in (Writers \cup Readers) \ {w}, m \in MapRef :
                                     Touches(w, m) /\ Touches(p, m)

\* The runtime may notice the overlap, and then ends the process.
MapFatal ==
  /\ ~fatal /\ (OuterRace \/ InnerRace)
  /\ fatal' = TRUE
  /\ UNCHANGED <<data, maps, pc, key, local, got, history>>

PutStep(w) == PutStart(w) \/ PutCheck(w) \/ PutInstall(w) \/ PutLoad(w) \/ PutStore(w)
GetStep(r) == GetStart(r) \/ GetCheckType(r) \/ GetCheckRecord(r) \/ GetFetch(r)

Next == \/ \E w \in Writers : PutStep(w)
        \/ \E r \in Readers : GetStep(r)
        \/ MapFatal

Spec == Init /\ [][Next]_vars

(***************************************************************************)
(* Properties                                                              *)
(***************************************************************************)

TypeOK ==
  /\ data    \in [Types -> MapRef \cup {NoMap}]
  /\ maps    \in [MapRef -> [Records -> SUBSET Rating]]
  /\ pc      \in [Writers \cup Readers -> WriterPC \cup ReaderPC]
  /\ \A w \in Writers : pc[w] \in WriterPC
  /\ \A r \in Readers : pc[r] \in ReaderPC
  /\ key     \in [Writers \cup Readers -> Key]
  /\ puts    \in [Writers -> 0..MaxPuts]
  /\ ref     \in [Writers -> MapRef \cup {NoMap}]
  /\ seen    \in [Writers -> SUBSET Rating]
  /\ got     \in [Readers -> Outcome]
  /\ fatal   \in BOOLEAN
  /\ acked   \in [Key -> SUBSET Rating]
  /\ floor   \in [Readers -> SUBSET Rating]
  /\ settled \in [Key -> SUBSET Rating]

\* A rating that was readable at a moment when no Put was in flight is never
\* lost again, whatever Puts race after that: two first Puts of a type, and
\* two appends to one slice, can only lose ratings put while they overlap.
SettledKept == \A k \in Key : settled[k] \subseteq Current(k)

\* No Put leaks into another record: a record's readable ratings are ratings
\* whose Put was called with that record, in flight or returned.
StoredWerePut ==
  \A k \in Key : \A x \in Current(k) :
    \/ x \in acked[k]
    \/ pc[x[1]] # "idle" /\ key[x[1]] = k /\ x = Mine(x[1])

\* A rating whose Put has returned can be read ("Put adds a rating for a given
\* record", memory.go:31).
AckedKept == \A k \in Key : acked[k] \subseteq Current(k)

\* A Get that does not return ErrNotFound returns some rating, so the mean
\* that Controller.GetAggregatedRating takes of them is defined.
NoEmptyRead == \A r \in Readers : got[r].status = "ok" => got[r].ratings # {}

\* A Get returns every rating whose Put had returned before the Get was called.
ReadsSeeAcked ==
  \A r \in Readers : got[r].status # "none" => floor[r] \subseteq got[r].ratings

Store == INSTANCE RatingStore WITH store <- [k \in Key |-> Current(k)]

\* The repository implements the abstract store: each step adds one new rating
\* to one record, or leaves what is readable alone.
StoreSpec == Store!Spec
=============================================================================
