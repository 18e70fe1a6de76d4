------------------------ MODULE RatingPipelineProofs ------------------------
(***************************************************************************)
(* Theorems about the ingestion of rating events, alone and fed by the     *)
(* producer, for any events, partitions and crashes.                       *)
(*                                                                         *)
(* The argument about losses counts the events that a consumer has read    *)
(* and that are neither stored nor held by a goroutine or the channel.     *)
(* There get to be more of them in two ways: a failed Put drops its event  *)
(* and ends StartIngestion, so it happens once in a run, and a crash takes *)
(* what was held, at most one event in each goroutine and one in the       *)
(* channel.  After a failed Put what is held is lost too, since nobody     *)
(* receives it; there the goroutine of StartIngestion holds nothing.       *)
(***************************************************************************)
EXTENDS RatingPipeline, FiniteSetTheorems, SequenceTheorems, TLAPS

\* The events read so far and those that are stored or held, as sets.
SeenIn(p) == {topic[p][i] : i \in 1..position[p]}
Kept     == Range(stored) \cup Range(putting) \cup Range(ch) \cup Range(held)
Gone     == {e \in Event \ Malformed : (\E p \in Partition : e \in SeenIn(p)) /\ e \notin Kept}

\* Where each goroutine has what it handles, and what only a crash undoes.
Control ==
  /\ pc # "send" => held = <<>>
  /\ pc = "down" => ch = <<>>
  /\ ctl = "put" <=> putting # <<>>
  /\ dropped # <<>> => ctl = "failed"
  /\ pc = "down" => ctl = "down" /\ putting = <<>> /\ (~Durable => stored = <<>>)
  /\ ctl = "start" => pc = "none"
  /\ ~Durable => found = 0
  /\ \A p \in Partition : committed[p] <= position[p]

\* A message that was read after cancel is the last one.
LateOnce == lateReads = 0 \/ (lateReads = 1 /\ cancelled /\ pc # "read")

Losses == Durable => IsFiniteSet(Gone) /\ Cardinality(Gone) <= 3 * crashes + Len(dropped)

IInv == TypeOK /\ Control /\ LateOnce /\ Losses

LEMMA RangeOfShort ==
  ASSUME NEW s \in AtMostOne
  PROVE  (s = <<>> /\ Range(s) = {}) \/ \E e \in Event : s = <<e>> /\ Range(s) = {e}
BY DEF AtMostOne, Range

LEMMA RangeOfConcat ==
  ASSUME NEW S, NEW s \in Seq(S), NEW t \in Seq(S)
  PROVE  Range(s \o t) = Range(s) \cup Range(t)
<1>1. /\ DOMAIN s = 1..Len(s) /\ DOMAIN t = 1..Len(t) /\ Len(s) \in Nat /\ Len(t) \in Nat
      /\ DOMAIN (s \o t) = 1..(Len(s) + Len(t))
  BY LenProperties, ConcatProperties
<1>2. \A i \in 1..(Len(s) + Len(t)) : (s \o t)[i] = IF i <= Len(s) THEN s[i] ELSE t[i - Len(s)]
  BY ConcatProperties
<1>3. ASSUME NEW e \in Range(s \o t) PROVE e \in Range(s) \cup Range(t)
  <2>1. PICK i \in 1..(Len(s) + Len(t)) : e = (s \o t)[i]
    BY <1>1 DEF Range
  <2>2. CASE i <= Len(s)
    BY <1>1, <1>2, <2>1, <2>2 DEF Range
  <2>3. CASE ~(i <= Len(s))
    <3>1. i - Len(s) \in 1..Len(t) /\ e = t[i - Len(s)]
      BY <1>1, <1>2, <2>1, <2>3
    <3> QED BY <1>1, <3>1 DEF Range
  <2> QED BY <2>2, <2>3
<1>4. ASSUME NEW e \in Range(s) PROVE e \in Range(s \o t)
  <2>1. PICK i \in 1..Len(s) : e = s[i]
    BY <1>1 DEF Range
  <2>2. i \in 1..(Len(s) + Len(t)) /\ (s \o t)[i] = e
    BY <1>1, <1>2, <2>1
  <2> QED BY <1>1, <2>2 DEF Range
<1>5. ASSUME NEW e \in Range(t) PROVE e \in Range(s \o t)
  <2>1. PICK i \in 1..Len(t) : e = t[i]
    BY <1>1 DEF Range
  <2>2. Len(s) + i \in 1..(Len(s) + Len(t)) /\ (s \o t)[Len(s) + i] = e
    BY <1>1, <1>2, <2>1
  <2> QED BY <1>1, <2>2 DEF Range
<1> QED BY <1>3, <1>4, <1>5

LEMMA ShortIsSeq ==
  ASSUME NEW s \in AtMostOne PROVE s \in Seq(Event)
<1>1. CASE s = <<>>
  BY <1>1, EmptySeq
<1>2. ASSUME NEW e \in Event, s = <<e>> PROVE s \in Seq(Event)
  <2>1. <<e>> \in Seq(Event)
    OBVIOUS
  <2> QED BY <1>2, <2>1
<1> QED BY <1>1, <1>2 DEF AtMostOne

\* What is stored or will be is kept; what is kept and is neither is held by the
\* ingester or the channel after a failed Put.
LEMMA KeptIsRange ==
  ASSUME TypeOK, Control
  PROVE  Kept = Range(stored \o InFlight) \cup
                (IF ctl = "failed" THEN Range(ch) \cup Range(held) ELSE {})
<1>1. /\ stored \in Seq(Event)
      /\ held \in AtMostOne /\ ch \in AtMostOne /\ putting \in AtMostOne
  BY DEF TypeOK
<1>2. held \in Seq(Event) /\ ch \in Seq(Event) /\ putting \in Seq(Event)
  BY <1>1, ShortIsSeq
<1>3. putting \o ch \in Seq(Event) /\ (putting \o ch) \o held \in Seq(Event)
  BY <1>2, ConcatProperties
<1>4. CASE ctl # "failed"
  <2>1. InFlight = (putting \o ch) \o held
    BY <1>4, Zenon DEF InFlight
  <2>2. InFlight \in Seq(Event)
    BY <1>3, <2>1
  <2>3. Range(stored \o InFlight) = Range(stored) \cup Range(InFlight)
    BY <1>1, <2>2, RangeOfConcat
  <2>4. Range((putting \o ch) \o held) = Range(putting \o ch) \cup Range(held)
    BY <1>2, <1>3, RangeOfConcat
  <2>5. Range(putting \o ch) = Range(putting) \cup Range(ch)
    BY <1>2, RangeOfConcat
  <2>6. Kept = Range(stored \o InFlight)
    BY <2>1, <2>3, <2>4, <2>5, Zenon DEF Kept
  <2> QED BY <1>4, <2>6
<1>5. CASE ctl = "failed"
  <2>1. InFlight = <<>> /\ putting = <<>>
    BY <1>5 DEF InFlight, Control
  <2>2. stored \o InFlight = stored
    BY <1>1, <2>1, ConcatEmptySeq
  <2>3. Range(putting) = {}
    BY <2>1 DEF Range
  <2> QED BY <1>5, <2>2, <2>3 DEF Kept
<1> QED BY <1>4, <1>5

\* A set that grows by a short sequence has one more element at most.
LEMMA AddShort ==
  ASSUME NEW S, IsFiniteSet(S), NEW s \in AtMostOne
  PROVE  /\ IsFiniteSet(S \cup Range(s))
         /\ Cardinality(S \cup Range(s)) <= Cardinality(S) + 1
<1>1. Cardinality(S) \in Nat
  BY FS_CardinalityType
<1>2. CASE s = <<>> /\ Range(s) = {}
  <2>1. S \cup Range(s) = S
    BY <1>2
  <2> QED BY <1>1, <2>1
<1>3. ASSUME NEW e \in Event, Range(s) = {e}
      PROVE  IsFiniteSet(S \cup Range(s)) /\ Cardinality(S \cup Range(s)) <= Cardinality(S) + 1
  BY <1>1, <1>3, FS_AddElement
<1> QED BY <1>2, <1>3, RangeOfShort

LEMMA LossesKept ==
  ASSUME Losses, Gone' \subseteq Gone, crashes \in Nat, crashes' = crashes,
         dropped \in AtMostOne, dropped' = dropped
  PROVE  Losses'
<1> SUFFICES ASSUME Durable
             PROVE  IsFiniteSet(Gone') /\ Cardinality(Gone') <= 3 * crashes + Len(dropped)
  BY DEF Losses
<1>1. IsFiniteSet(Gone) /\ Cardinality(Gone) <= 3 * crashes + Len(dropped)
  BY DEF Losses
<1>4. Len(dropped) \in Nat
  BY ShortIsSeq, LenProperties
<1>2. IsFiniteSet(Gone') /\ Cardinality(Gone') <= Cardinality(Gone)
  BY <1>1, FS_Subset
<1>3. Cardinality(Gone) \in Nat /\ Cardinality(Gone') \in Nat
  BY <1>1, <1>2, FS_CardinalityType
<1> QED BY <1>1, <1>2, <1>3, <1>4

\* Nothing is lost when no more is read and all that was kept still is.
LEMMA GoneShrinks ==
  ASSUME \A p \in Partition : SeenIn(p)' \subseteq SeenIn(p), Kept \subseteq Kept'
  PROVE  Gone' \subseteq Gone
BY DEF Gone

LEMMA InitInv == Init => IInv
<1> SUFFICES ASSUME Init PROVE IInv
  OBVIOUS
<1>1. <<>> \in Seq(Event) /\ Len(<<>>) = 0
  BY EmptySeq
<1>2. TypeOK
  <2>1. committed \in Offsets /\ position \in Offsets /\ began \in Offsets
    BY DEF Init, Offsets
  <2>2. topic \in [Partition -> Seq(Event)] /\ \A p \in Partition : position[p] <= Len(topic[p])
    BY <1>1 DEF Init
  <2>3. <<>> \in AtMostOne
    BY DEF AtMostOne
  <2>4. stored \in Seq(Event) /\ found \in 0..Len(stored)
    BY <1>1 DEF Init
  <2>5. crashes \in 0..MaxCrashes /\ lateReads \in Nat
    BY IngestionConstantsOK DEF Init
  <2>6. held \in AtMostOne /\ ch \in AtMostOne /\ putting \in AtMostOne /\ dropped \in AtMostOne
    BY <2>3 DEF Init
  <2>7. pc = "none" /\ ctl = "start" /\ cancelled = FALSE
    BY DEF Init
  <2> QED BY <2>1, <2>2, <2>4, <2>5, <2>6, <2>7 DEF TypeOK
<1>3. Control /\ LateOnce
  BY DEF Init, Control, LateOnce
<1>4. Gone = {} /\ crashes = 0 /\ Len(dropped) = 0
  BY <1>1 DEF Init, Gone, SeenIn
<1> QED BY <1>2, <1>3, <1>4, FS_EmptySet DEF IInv, Losses

(***************************************************************************)
(* One lemma for each action.                                              *)
(***************************************************************************)

\* The topic grows at its end, beyond what has been read.
LEMMA PublishKeeps ==
  ASSUME IInv, NEW e \in Event, NEW p \in Partition, Publish(e, p) PROVE IInv'
<1>1. /\ topic \in [Partition -> Seq(Event)] /\ topic' = [topic EXCEPT ![p] = Append(topic[p], e)]
      /\ UNCHANGED <<committed, ingester, ch, control, run>>
      /\ position \in [Partition -> Nat] /\ \A q \in Partition : position[q] <= Len(topic[q])
  BY DEF Publish, IInv, TypeOK, Offsets
<1>2. /\ Append(topic[p], e) \in Seq(Event) /\ Len(Append(topic[p], e)) = Len(topic[p]) + 1
      /\ \A i \in 1..Len(topic[p]) : Append(topic[p], e)[i] = topic[p][i]
      /\ Len(topic[p]) \in Nat
  <2>1. topic[p] \in Seq(Event)
    BY <1>1
  <2> QED BY <2>1, AppendProperties, LenProperties
<1>3. \A q \in Partition : SeenIn(q)' = SeenIn(q) /\ position[q] <= Len(topic'[q])
  <2>1. SUFFICES ASSUME NEW q \in Partition
                 PROVE  SeenIn(q)' = SeenIn(q) /\ position[q] <= Len(topic'[q])
    OBVIOUS
  <2>2. position' = position
    BY <1>1 DEF ingester
  <2>3. CASE q = p
    <3>1. topic'[q] = Append(topic[p], e) /\ position[q] <= Len(topic[p]) /\ position[q] \in Nat
      BY <1>1, <2>3
    <3>2. \A i \in 1..position[q] : topic'[q][i] = topic[q][i]
      BY <1>2, <2>3, <3>1
    <3> QED BY <1>2, <2>2, <3>1, <3>2 DEF SeenIn
  <2>4. CASE q # p
    <3>1. topic'[q] = topic[q]
      BY <1>1, <2>4
    <3> QED BY <1>1, <2>2, <3>1 DEF SeenIn
  <2> QED BY <2>3, <2>4
<1>4. topic' \in [Partition -> Seq(Event)]
  BY <1>1, <1>2
<1>5. TypeOK' /\ Control' /\ LateOnce'
  BY <1>1, <1>3, <1>4 DEF IInv, TypeOK, Offsets, Control, LateOnce, ingester, control, run
<1>6. /\ Kept' = Kept /\ crashes' = crashes /\ crashes \in Nat
      /\ dropped' = dropped /\ dropped \in AtMostOne
  BY <1>1 DEF Kept, ingester, control, run, IInv, TypeOK
<1>7. Losses'
  BY <1>3, <1>6, GoneShrinks, LossesKept DEF IInv
<1> QED BY <1>5, <1>7 DEF IInv

\* Steps that neither read, nor move an event, nor end the process.
LEMMA QuietKeeps ==
  ASSUME IInv,
         \/ \E p \in Partition : AutoCommit(p)
         \/ Select \/ ReadFails \/ Close \/ Start \/ RangeEnds \/ Cancel
  PROVE  IInv'
<1> USE DEF kafka, ingester, control, run
<1>1. UNCHANGED <<topic, position, held, ch, putting, stored, crashes, began, found, dropped, lateReads>>
  BY Zenon DEF AutoCommit, Select, ReadFails, Close, Start, RangeEnds, Cancel
<1>2. TypeOK' /\ Control' /\ LateOnce'
  <2>1. ASSUME NEW p \in Partition, AutoCommit(p) PROVE TypeOK' /\ Control' /\ LateOnce'
    BY <1>1, <2>1 DEF IInv, TypeOK, Control, LateOnce, Offsets, AutoCommit
  <2>2. CASE Select
    BY <1>1, <2>2 DEF IInv, TypeOK, Control, LateOnce, Offsets, Select
  <2>3. CASE ReadFails
    BY <1>1, <2>3 DEF IInv, TypeOK, Control, LateOnce, Offsets, ReadFails
  <2>4. CASE Close
    BY <1>1, <2>4 DEF IInv, TypeOK, Control, LateOnce, Offsets, Close
  <2>5. CASE Start
    BY <1>1, <2>5 DEF IInv, TypeOK, Control, LateOnce, Offsets, Start
  <2>6. CASE RangeEnds
    BY <1>1, <2>6 DEF IInv, TypeOK, Control, LateOnce, Offsets, RangeEnds
  <2>7. CASE Cancel
    BY <1>1, <2>7 DEF IInv, TypeOK, Control, LateOnce, Offsets, Cancel
  <2> QED BY <2>1, <2>2, <2>3, <2>4, <2>5, <2>6, <2>7
<1>3. Gone' = Gone /\ crashes \in Nat /\ dropped \in AtMostOne
  BY <1>1 DEF Gone, SeenIn, Kept, IInv, TypeOK
<1>4. Losses'
  BY <1>1, <1>3, LossesKept DEF IInv
<1> QED BY <1>2, <1>4 DEF IInv

\* What a read takes from the topic is held until it is sent, or is undecodable.
LEMMA ReadKeeps ==
  ASSUME IInv, NEW p \in Partition, Read(p) PROVE IInv'
<1> DEFINE e == topic[p][position[p] + 1]
<1> USE DEF kafka, ingester, control, run
<1>1. /\ pc = "read" /\ position[p] < Len(topic[p]) /\ position' = [position EXCEPT ![p] = position[p] + 1]
      /\ lateReads' = IF cancelled THEN lateReads + 1 ELSE lateReads
      /\ \/ e \in Malformed /\ pc' = "select" /\ held' = held
         \/ e \notin Malformed /\ pc' = "send" /\ held' = <<e>>
      /\ UNCHANGED <<topic, committed, ch, ctl, putting, stored, cancelled, crashes, began, found,
                     dropped>>
  BY Zenon DEF Read
<1>2. /\ topic \in [Partition -> Seq(Event)] /\ position \in [Partition -> Nat]
      /\ held = <<>> /\ crashes \in Nat /\ dropped \in AtMostOne
  BY <1>1 DEF IInv, TypeOK, Offsets, Control
<1>3. e \in Event /\ Len(topic[p]) \in Nat
  <2>1. topic[p] \in Seq(Event) /\ position[p] \in Nat
    BY <1>2
  <2> QED BY <1>1, <2>1, ElementOfSeq, LenProperties
<1>4. position' \in Offsets /\ \A q \in Partition : position[q] <= position'[q] /\ position'[q] <= Len(topic[q])
  BY <1>1, <1>2, <1>3 DEF IInv, TypeOK, Offsets
<1> HIDE DEF e
<1>5. TypeOK'
  <2>1. held' \in AtMostOne
    BY <1>1, <1>2, <1>3 DEF AtMostOne
  <2>2. lateReads' \in Nat
    BY <1>1 DEF IInv, TypeOK
  <2> QED BY <1>1, <1>4, <2>1, <2>2 DEF IInv, TypeOK
<1>6. Control'
  BY <1>1, <1>2, <1>4 DEF IInv, TypeOK, Offsets, Control
<1>7. LateOnce'
  BY <1>1 DEF IInv, LateOnce, TypeOK
<1>8. Gone' \subseteq Gone
  <2>1. SUFFICES ASSUME NEW x \in Gone' PROVE x \in Gone
    OBVIOUS
  <2>2. Kept' = Kept \cup Range(held') /\ Kept = Kept \cup Range(held)
    BY <1>1, <1>2 DEF Kept, Range
  <2>3. x # e
    <3>1. CASE e \in Malformed
      BY <2>1, <3>1 DEF Gone
    <3>2. CASE held' = <<e>>
      <4>1. e \in Range(held')
        BY <3>2 DEF Range
      <4> QED BY <2>1, <2>2, <4>1 DEF Gone
    <3> QED BY <1>1, <3>1, <3>2
  <2>4. PICK q \in Partition : x \in SeenIn(q)'
    BY <2>1 DEF Gone
  <2>5. x \in SeenIn(q)
    <3>1. PICK i \in 1..position'[q] : x = topic[q][i]
      BY <1>1, <2>4 DEF SeenIn
    <3>2. i \in 1..position[q]
      BY <1>1, <1>2, <2>3, <3>1 DEF e
    <3> QED BY <3>1, <3>2 DEF SeenIn
  <2> QED BY <2>1, <2>2, <2>5 DEF Gone
<1>9. Losses'
  BY <1>1, <1>2, <1>8, LossesKept DEF IInv
<1> QED BY <1>5, <1>6, <1>7, <1>9 DEF IInv

\* An event moves on: to the channel, to StartIngestion, to the repository.
LEMMA SendKeeps ==
  ASSUME IInv, Send PROVE IInv'
<1> USE DEF kafka, ingester, control, run
<1>1. /\ pc = "send" /\ pc' = "select" /\ Len(ch) < 1 /\ ch' = ch \o held /\ held' = <<>>
      /\ UNCHANGED <<topic, committed, position, lateReads, ctl, putting, stored, cancelled, crashes, began, found,
                     dropped>>
  BY Zenon DEF Send, Capacity
<1>2. ch \in AtMostOne /\ held \in AtMostOne /\ crashes \in Nat /\ dropped \in AtMostOne
  BY DEF IInv, TypeOK
<1>3. ch = <<>> /\ ch' = held
  <2>1. ch = <<>>
    BY <1>1, <1>2 DEF AtMostOne
  <2>2. held \in Seq(Event)
    BY <1>2, ShortIsSeq
  <2> QED BY <1>1, <2>1, <2>2, ConcatEmptySeq
<1>4. Kept' = Kept
  BY <1>1, <1>3 DEF Kept, Range
<1>5. <<>> \in AtMostOne
  BY DEF AtMostOne
<1>6. TypeOK' /\ Control' /\ LateOnce'
  BY <1>1, <1>2, <1>3, <1>5 DEF IInv, TypeOK, Control, LateOnce
<1>7. Losses'
  <2>1. Gone' = Gone
    BY <1>1, <1>4 DEF Gone, SeenIn
  <2> QED BY <1>1, <1>2, <2>1, LossesKept DEF IInv
<1> QED BY <1>6, <1>7 DEF IInv

LEMMA ReceiveKeeps ==
  ASSUME IInv, Receive PROVE IInv'
<1> USE DEF kafka, ingester, control, run
<1>1. /\ ctl = "receive" /\ ch # <<>> /\ putting' = <<Head(ch)>> /\ ch' = Tail(ch) /\ ctl' = "put"
      /\ UNCHANGED <<topic, committed, position, pc, held, lateReads, stored, cancelled, crashes, began, found,
                     dropped>>
  BY Zenon DEF Receive
<1>2. ch \in AtMostOne /\ putting = <<>> /\ crashes \in Nat /\ dropped \in AtMostOne
  BY <1>1 DEF IInv, TypeOK, Control
<1>3. PICK e \in Event : ch = <<e>>
  BY <1>1, <1>2 DEF AtMostOne
<1>4. putting' = <<e>> /\ ch' = <<>>
  BY <1>1, <1>3
<1>5. Kept' = Kept
  BY <1>1, <1>2, <1>3, <1>4 DEF Kept, Range
<1>6. <<>> \in AtMostOne /\ <<e>> \in AtMostOne
  BY DEF AtMostOne
<1>7. TypeOK' /\ Control' /\ LateOnce'
  BY <1>1, <1>3, <1>4, <1>6 DEF IInv, TypeOK, Control, LateOnce
<1>8. Losses'
  <2>1. Gone' = Gone
    BY <1>1, <1>5 DEF Gone, SeenIn
  <2> QED BY <1>1, <1>2, <2>1, LossesKept DEF IInv
<1> QED BY <1>7, <1>8 DEF IInv

LEMMA PutKeeps ==
  ASSUME IInv, Put \/ PutFails PROVE IInv'
<1> USE DEF kafka, ingester, control, run
<1>1. /\ ctl = "put" /\ ctl' \in {"receive", "failed"} /\ putting' = <<>>
      /\ \/ ctl' = "failed" /\ dropped' = putting /\ stored' = stored
         \/ dropped' = dropped /\ stored' = stored \o putting
      /\ UNCHANGED <<topic, committed, position, pc, held, lateReads, ch, cancelled, crashes, began, found>>
  BY Zenon DEF Put, PutFails
<1>2. /\ putting \in AtMostOne /\ dropped = <<>> /\ stored \in Seq(Event)
      /\ crashes \in Nat /\ found \in 0..Len(stored)
      /\ <<>> \in AtMostOne
  BY <1>1 DEF IInv, TypeOK, AtMostOne, Control
<1>3. putting \in Seq(Event) /\ Range(<<>>) = {}
  BY <1>2, ShortIsSeq DEF Range
<1>4. CASE dropped' = dropped /\ stored' = stored \o putting
  <2>1. /\ stored' \in Seq(Event) /\ Len(stored) \in Nat /\ Len(putting) \in Nat
        /\ Len(stored') = Len(stored) + Len(putting)
    BY <1>2, <1>3, <1>4, ConcatProperties, LenProperties
  <2>2. Range(stored') = Range(stored) \cup Range(putting)
    BY <1>2, <1>3, <1>4, RangeOfConcat
  <2>3. Kept' = Kept
    BY <1>1, <1>3, <2>2 DEF Kept
  <2>4. TypeOK' /\ Control' /\ LateOnce'
    BY <1>1, <1>2, <1>4, <2>1 DEF IInv, TypeOK, Control, LateOnce
  <2>5. Gone' = Gone
    BY <1>1, <2>3 DEF Gone, SeenIn
  <2>6. Losses'
    BY <1>1, <1>2, <1>4, <2>5, LossesKept DEF IInv
  <2> QED BY <2>4, <2>6 DEF IInv
<1>5. CASE ctl' = "failed" /\ dropped' = putting /\ stored' = stored
  <2>1. TypeOK' /\ Control' /\ LateOnce'
    BY <1>1, <1>2, <1>5 DEF IInv, TypeOK, Control, LateOnce
  <2>2. Gone' \subseteq Gone \cup Range(putting)
    BY <1>1, <1>3, <1>5 DEF Gone, SeenIn, Kept
  <2>3. Len(dropped) = 0 /\ Len(putting) = 1
    <3>1. putting # <<>>
      BY <1>1 DEF IInv, Control
    <3> QED BY <1>2, <3>1, EmptySeq DEF AtMostOne
  <2>4. Losses'
    <3> SUFFICES ASSUME Durable
                 PROVE  IsFiniteSet(Gone') /\ Cardinality(Gone') <= 3 * crashes + 1
      BY <1>1, <1>5, <2>3 DEF Losses
    <3> DEFINE G == Gone \cup Range(putting)
    <3>1. IsFiniteSet(Gone) /\ Cardinality(Gone) <= 3 * crashes
      BY <1>2, <2>3 DEF IInv, Losses
    <3>2. IsFiniteSet(G) /\ Cardinality(G) <= Cardinality(Gone) + 1
      BY <1>2, <3>1, AddShort
    <3>3. Gone' \subseteq G
      BY <2>2
    <3> HIDE DEF G
    <3>4. IsFiniteSet(Gone') /\ Cardinality(Gone') <= Cardinality(G)
      BY <3>2, <3>3, FS_Subset
    <3>5. Cardinality(Gone) \in Nat /\ Cardinality(G) \in Nat /\ Cardinality(Gone') \in Nat
      BY <3>1, <3>2, <3>4, FS_CardinalityType
    <3> QED BY <1>2, <3>1, <3>2, <3>4, <3>5
  <2> QED BY <2>1, <2>4 DEF IInv
<1> QED BY <1>1, <1>4, <1>5

\* Three more than were gone before.
LEMMA AddThree ==
  ASSUME NEW S, IsFiniteSet(S), NEW r \in AtMostOne, NEW s \in AtMostOne, NEW t \in AtMostOne,
         NEW T, T \subseteq S \cup Range(r) \cup Range(s) \cup Range(t)
  PROVE  /\ IsFiniteSet(T) /\ Cardinality(T) \in Nat /\ Cardinality(S) \in Nat
         /\ Cardinality(T) <= Cardinality(S) + 3
         /\ r = <<>> => Cardinality(T) <= Cardinality(S) + 2
<1> DEFINE S1 == S \cup Range(r)
           S2 == S1 \cup Range(s)
           S3 == S2 \cup Range(t)
<1>1. IsFiniteSet(S1) /\ Cardinality(S1) <= Cardinality(S) + 1
  BY AddShort
<1>2. r = <<>> => S1 = S
  BY DEF Range
<1>3. S3 = S \cup Range(r) \cup Range(s) \cup Range(t)
  BY Zenon
<1> HIDE DEF S1
<1>4. IsFiniteSet(S2) /\ Cardinality(S2) <= Cardinality(S1) + 1
  BY <1>1, AddShort
<1> HIDE DEF S2
<1>5. IsFiniteSet(S3) /\ Cardinality(S3) <= Cardinality(S2) + 1
  BY <1>4, AddShort
<1> HIDE DEF S3
<1>6. IsFiniteSet(T) /\ Cardinality(T) <= Cardinality(S3)
  BY <1>3, <1>5, FS_Subset
<1>7. /\ Cardinality(S) \in Nat /\ Cardinality(S1) \in Nat /\ Cardinality(S2) \in Nat
      /\ Cardinality(S3) \in Nat /\ Cardinality(T) \in Nat
  BY <1>1, <1>4, <1>5, <1>6, FS_CardinalityType
<1> QED BY <1>1, <1>2, <1>4, <1>5, <1>6, <1>7

\* A crash costs what was being stored, in the channel, or to be sent; after a
\* failed Put, which dropped its event, nothing is being stored.
LEMMA CrashKeeps ==
  ASSUME IInv, Crash PROVE IInv'
<1> USE DEF kafka, ingester, control, run
<1>1. /\ crashes < MaxCrashes /\ crashes' = crashes + 1 /\ pc' = "down" /\ ctl' = "down"
      /\ held' = <<>> /\ ch' = <<>> /\ putting' = <<>> /\ dropped' = <<>>
      /\ stored' = IF Durable THEN stored ELSE <<>>
      /\ UNCHANGED <<topic, committed, position, lateReads, cancelled, began, found>>
  BY Zenon DEF Crash
<1>2. /\ held \in AtMostOne /\ ch \in AtMostOne /\ putting \in AtMostOne /\ dropped \in AtMostOne
      /\ crashes \in 0..MaxCrashes /\ MaxCrashes \in Nat /\ <<>> \in AtMostOne
      /\ <<>> \in Seq(Event) /\ Len(<<>>) = 0
  BY IngestionConstantsOK, EmptySeq DEF IInv, TypeOK, AtMostOne
<1>3. stored' \in Seq(Event) /\ found' \in 0..Len(stored')
  BY <1>1, <1>2 DEF IInv, TypeOK, Control
<1>4. TypeOK' /\ Control' /\ LateOnce'
  BY <1>1, <1>2, <1>3 DEF IInv, TypeOK, Control, LateOnce
<1>5. Losses'
  <2> SUFFICES ASSUME Durable PROVE IsFiniteSet(Gone') /\ Cardinality(Gone') <= 3 * (crashes + 1)
    BY <1>1, <1>2 DEF Losses
  <2>1. IsFiniteSet(Gone) /\ Cardinality(Gone) <= 3 * crashes + Len(dropped)
    BY DEF IInv, Losses
  <2>2. Gone' \subseteq Gone \cup Range(putting) \cup Range(ch) \cup Range(held)
    BY <1>1 DEF Gone, Kept, SeenIn, Range
  <2>3. /\ IsFiniteSet(Gone') /\ Cardinality(Gone') \in Nat /\ Cardinality(Gone) \in Nat
        /\ Cardinality(Gone') <= Cardinality(Gone) + 3
        /\ putting = <<>> => Cardinality(Gone') <= Cardinality(Gone) + 2
    BY <1>2, <2>1, <2>2, AddThree
  <2>4. Len(dropped) = 0 \/ (Len(dropped) = 1 /\ putting = <<>>)
    <3>1. dropped = <<>> \/ (ctl = "failed" /\ putting = <<>>)
      BY DEF IInv, Control
    <3> QED BY <1>2, <3>1 DEF AtMostOne
  <2> DEFINE g == Cardinality(Gone)
             h == Cardinality(Gone')
             d == Len(dropped)
  <2>5. /\ crashes \in Nat /\ g \in Nat /\ h \in Nat /\ g <= 3 * crashes + d /\ h <= g + 3
        /\ (d = 0 \/ (d = 1 /\ h <= g + 2))
    BY <1>2, <2>1, <2>3, <2>4
  <2> HIDE DEF g, h, d
  <2>6. h <= 3 * (crashes + 1)
    BY <2>5
  <2> QED BY <2>3, <2>6 DEF h
<1> QED BY <1>4, <1>5 DEF IInv

\* A new process begins at what was committed, which is no further than the old.
LEMMA RestartKeeps ==
  ASSUME IInv, Restart PROVE IInv'
<1> USE DEF kafka, ingester, control, run
<1>1. /\ pc = "down" /\ position' = committed /\ began' = committed /\ pc' = "none" /\ lateReads' = 0
      /\ ctl' = "start" /\ cancelled' = FALSE /\ found' = Len(stored)
      /\ UNCHANGED <<topic, committed, held, ch, putting, stored, crashes, dropped>>
  BY Zenon DEF Restart
<1>2. /\ committed \in Offsets /\ position \in Offsets /\ stored \in Seq(Event)
      /\ \A p \in Partition : /\ committed[p] \in Nat /\ position[p] \in Nat
                             /\ committed[p] <= position[p] /\ position[p] <= Len(topic[p])
                             /\ Len(topic[p]) \in Nat
      /\ crashes \in Nat /\ dropped \in AtMostOne
  BY LenProperties DEF IInv, TypeOK, Control, Offsets
<1>3. TypeOK'
  <2>1. found' \in 0..Len(stored)
    BY <1>1, <1>2, LenProperties
  <2>2. \A p \in Partition : position'[p] <= Len(topic[p])
    BY <1>1, <1>2
  <2> QED BY <1>1, <1>2, <2>1, <2>2 DEF IInv, TypeOK
<1>4. Control'
  <2>1. ~Durable => found' = 0
    BY <1>1, EmptySeq DEF IInv, Control
  <2> QED BY <1>1, <1>2, <2>1 DEF IInv, Control
<1>5. LateOnce'
  BY <1>1 DEF LateOnce
<1>6. Losses'
  <2>1. Kept' = Kept
    BY <1>1 DEF Kept
  <2>2. \A p \in Partition : SeenIn(p)' \subseteq SeenIn(p)
    BY <1>1, <1>2 DEF SeenIn
  <2> QED BY <1>1, <1>2, <2>1, <2>2, GoneShrinks, LossesKept DEF IInv
<1> QED BY <1>3, <1>4, <1>5, <1>6 DEF IInv

LEMMA ConsumeKeeps ==
  ASSUME IInv, Consume PROVE IInv'
BY QuietKeeps, ReadKeeps, SendKeeps, ReceiveKeeps, PutKeeps, CrashKeeps, RestartKeeps
   DEF Consume, Ingest, StartIngestion

LEMMA StutterKeeps ==
  ASSUME IInv, UNCHANGED vars PROVE IInv'
<1>1. UNCHANGED <<topic, committed, position, pc, held, ch, ctl, putting, cancelled,
                  stored, crashes, began, found, dropped, lateReads>>
  BY DEF vars
<1>2. TypeOK' /\ Control' /\ LateOnce'
  BY <1>1 DEF IInv, TypeOK, Control, LateOnce, Offsets
<1>3. Gone' = Gone
  BY <1>1 DEF Gone, SeenIn, Kept
<1> QED BY <1>1, <1>2, <1>3 DEF IInv, Losses

(***************************************************************************)
(* The ingestion by itself                                                 *)
(***************************************************************************)

LEMMA Invariance == Spec => []IInv
<1>1. IInv /\ [Next]_vars => IInv'
  BY ConsumeKeeps, PublishKeeps, StutterKeeps DEF Next
<1> QED BY InitInv, <1>1, PTL DEF Spec

\* What is gone, or held when nobody receives it, are three events at most for
\* every run that a crash or a failed Put has broken off.
LEMMA GoneOrHeld ==
  ASSUME IInv, Durable, NEW T,
         T \subseteq Gone \cup (IF ctl = "failed" THEN Range(ch) \cup Range(held) ELSE {})
  PROVE  Cardinality(T) <= 3 * BrokenRuns
<1>1. /\ IsFiniteSet(Gone) /\ Cardinality(Gone) <= 3 * crashes + Len(dropped)
      /\ crashes \in Nat /\ held \in AtMostOne /\ ch \in AtMostOne /\ dropped \in AtMostOne
      /\ dropped # <<>> => ctl = "failed"
      /\ <<>> \in AtMostOne
  BY DEF IInv, Losses, TypeOK, Control, AtMostOne
<1>2. Len(dropped) \in {0, 1} /\ (ctl # "failed" => Len(dropped) = 0)
  BY <1>1, EmptySeq DEF AtMostOne
<1>3. CASE ctl = "failed"
  <2>1. T \subseteq Gone \cup Range(<<>>) \cup Range(ch) \cup Range(held)
    BY <1>3
  <2>2. /\ Cardinality(T) \in Nat /\ Cardinality(Gone) \in Nat
        /\ Cardinality(T) <= Cardinality(Gone) + 2
    BY <1>1, <2>1, AddThree
  <2>3. 3 * BrokenRuns = 3 * crashes + 3
    BY <1>1, <1>3 DEF BrokenRuns
  <2> DEFINE g == Cardinality(Gone)
             h == Cardinality(T)
             d == Len(dropped)
             b == 3 * BrokenRuns
  <2>4. /\ crashes \in Nat /\ g \in Nat /\ h \in Nat /\ g <= 3 * crashes + d /\ h <= g + 2
        /\ d \in {0, 1} /\ b = 3 * crashes + 3
    BY <1>1, <1>2, <2>2, <2>3
  <2> HIDE DEF g, h, d, b
  <2>5. h <= b
    BY <2>4
  <2> QED BY <2>5 DEF h, b
<1>4. CASE ctl # "failed"
  <2>1. T \subseteq Gone
    BY <1>4
  <2>2. IsFiniteSet(T) /\ Cardinality(T) <= Cardinality(Gone)
    BY <1>1, <2>1, FS_Subset
  <2>3. Cardinality(T) \in Nat /\ Cardinality(Gone) \in Nat
    BY <1>1, <2>2, FS_CardinalityType
  <2>4. BrokenRuns = crashes
    BY <1>1, <1>4 DEF BrokenRuns
  <2> QED BY <1>1, <1>2, <1>4, <2>2, <2>3, <2>4
<1> QED BY <1>3, <1>4

\* The events that were committed and have got lost are such.
LEMMA LostAreGone == IInv => BrokenRunLosesThree
<1> SUFFICES ASSUME IInv, Durable PROVE Cardinality(Lost) <= 3 * BrokenRuns
  BY DEF BrokenRunLosesThree
<1>1. Kept = Range(stored \o InFlight) \cup
             (IF ctl = "failed" THEN Range(ch) \cup Range(held) ELSE {})
  BY KeptIsRange DEF IInv
<1>2. ASSUME NEW p \in Partition, NEW e \in Range(SubSeq(topic[p], 1, committed[p]))
      PROVE  e \in Event /\ e \in SeenIn(p)
  <2>1. /\ topic[p] \in Seq(Event) /\ committed[p] \in Nat /\ position[p] \in Nat
        /\ committed[p] <= position[p] /\ position[p] <= Len(topic[p]) /\ Len(topic[p]) \in Nat
        /\ \A i \in 1..Len(topic[p]) : topic[p][i] \in Event
    BY ElementOfSeq, LenProperties DEF IInv, TypeOK, Offsets, Control
  <2>2. DOMAIN SubSeq(topic[p], 1, committed[p]) = 1..committed[p]
    BY <2>1
  <2>3. PICK i \in 1..committed[p] : e = topic[p][i]
    BY <2>1, <2>2 DEF Range
  <2> QED BY <2>1, <2>3 DEF SeenIn
<1>3. Lost \subseteq Gone \cup (IF ctl = "failed" THEN Range(ch) \cup Range(held) ELSE {})
  BY <1>1, <1>2 DEF Lost, Committed, Gone
<1> QED BY <1>3, GoneOrHeld

\* The ingester's goroutine, the channel, StartIngestion and Kafka's offsets have
\* their types, and no offset is beyond the messages.
THEOREM TypeCorrect == Spec => []TypeOK
<1>1. IInv => TypeOK
  BY DEF IInv
<1> QED BY <1>1, Invariance, PTL

\* Once ctx is done the ingester reads one more message at most (ingester.go:42).
THEOREM CancelSafe == Spec => []CancelStopsReading
<1>1. IInv => CancelStopsReading
  BY DEF IInv, LateOnce, CancelStopsReading
<1> QED BY <1>1, Invariance, PTL

(***************************************************************************)
(* With the producer                                                       *)
(***************************************************************************)

\* An event that was handed over is outstanding, failed, or in the topic.
ProducerOK ==
  /\ sent \in 0..Len(File)
  /\ outstanding \subseteq Event
  /\ \A i \in 1..sent : File[i] \in outstanding \cup failed \cup Published
  /\ main = "done" => sent = Len(File) /\ outstanding = {}

LEMMA PublishedGrows ==
  ASSUME IInv, NEW e \in Event, NEW p \in Partition, Publish(e, p)
  PROVE  Published \subseteq Published' /\ e \in Published'
<1>1. topic \in [Partition -> Seq(Event)] /\ topic' = [topic EXCEPT ![p] = Append(topic[p], e)]
  BY DEF Publish, IInv, TypeOK
<1>2. /\ DOMAIN topic[p] = 1..Len(topic[p]) /\ Len(topic[p]) \in Nat
      /\ DOMAIN Append(topic[p], e) = 1..(Len(topic[p]) + 1)
      /\ Append(topic[p], e)[Len(topic[p]) + 1] = e
      /\ \A i \in 1..Len(topic[p]) : Append(topic[p], e)[i] = topic[p][i]
  <2>1. topic[p] \in Seq(Event)
    BY <1>1
  <2> QED BY <2>1, AppendProperties, LenProperties
<1>3. topic'[p] = Append(topic[p], e) /\ \A q \in Partition \ {p} : topic'[q] = topic[q]
  BY <1>1
<1>4. \A q \in Partition : Range(topic[q]) \subseteq Range(topic'[q])
  BY <1>2, <1>3 DEF Range
<1>5. e \in Range(topic'[p])
  <2>1. Len(topic[p]) + 1 \in 1..(Len(topic[p]) + 1)
    BY <1>2
  <2> QED BY <1>2, <1>3, <2>1 DEF Range
<1> QED BY <1>4, <1>5 DEF Published

LEMMA TopicKept == ASSUME Consume PROVE topic' = topic
BY Zenon DEF Consume, Ingest, StartIngestion, AutoCommit, Select, Read, ReadFails, Send, Close, Start,
   Receive, RangeEnds, Put, PutFails, Cancel, Crash, Restart, kafka

LEMMA ProgramKeeps ==
  ASSUME ProducerOK, Program, topic' = topic PROVE ProducerOK'
<1>1. Published' = Published
  BY DEF Published
<1>2. File \in Seq(Event) /\ Len(File) \in Nat /\ \A i \in 1..Len(File) : File[i] \in Event
  BY FileOK, ElementOfSeq, LenProperties
<1>3. CASE NewProducer \/ ReadRatingEvents \/ ReadRatingEventsFails
  BY <1>1, <1>3 DEF ProducerOK, NewProducer, ReadRatingEvents, ReadRatingEventsFails
<1>4. CASE Produce
  BY <1>1, <1>2, <1>4 DEF ProducerOK, Produce
<1>5. CASE ProduceFails
  BY <1>1, <1>5 DEF ProducerOK, ProduceFails
<1>6. CASE Flush
  BY <1>1, <1>6 DEF ProducerOK, Flush, Flushed
<1>7. ASSUME NEW e \in outstanding, DeliveryFails(e) PROVE ProducerOK'
  BY <1>1, <1>7 DEF ProducerOK, DeliveryFails
<1> QED BY <1>3, <1>4, <1>5, <1>6, <1>7 DEF Program

LEMMA DeliverKeeps ==
  ASSUME IInv, ProducerOK, Deliver PROVE IInv' /\ ProducerOK'
<1>1. PICK e \in outstanding : \E p \in PartitionFor(e) :
        (Arrives(e) \/ ArrivesUnanswered(e)) /\ Publish(e, p)
  BY DEF Deliver
<1> PICK p \in PartitionFor(e) : (Arrives(e) \/ ArrivesUnanswered(e)) /\ Publish(e, p)
  BY <1>1
<1>2. e \in Event /\ p \in Partition
  BY DEF ProducerOK, PartitionFor
<1>3. Published \subseteq Published' /\ e \in Published'
  BY <1>2, PublishedGrows
<1>4. UNCHANGED <<main, sent, failed>> /\ main = "producing"
      /\ outstanding \subseteq outstanding' \cup {e} /\ outstanding' \subseteq outstanding
  BY DEF Arrives, ArrivesUnanswered
<1>5. ProducerOK'
  BY <1>3, <1>4 DEF ProducerOK
<1> QED BY <1>2, <1>5, PublishKeeps

LEMMA PipelineInvariance == PipelineSpec => [](IInv /\ ProducerOK)
<1>1. PipelineInit => IInv /\ ProducerOK
  <2>1. Len(File) \in Nat
    BY FileOK, LenProperties
  <2> QED BY <2>1, InitInv DEF PipelineInit, ProducerInit, ProducerOK
<1>2. ASSUME IInv, ProducerOK, [PipelineNext]_pipelineVars PROVE IInv' /\ ProducerOK'
  <2>1. CASE Program /\ UNCHANGED vars
    BY <1>2, <2>1, ProgramKeeps, StutterKeeps DEF vars
  <2>2. CASE Deliver
    BY <1>2, <2>2, DeliverKeeps
  <2>3. CASE Consume /\ UNCHANGED producerVars
    <3>1. Published' = Published
      BY <2>3, TopicKept DEF Published
    <3> QED BY <1>2, <2>3, <3>1, ConsumeKeeps DEF ProducerOK, producerVars
  <2>4. CASE UNCHANGED pipelineVars
    BY <1>2, <2>4, StutterKeeps DEF ProducerOK, Published, pipelineVars, producerVars, vars
  <2> QED BY <1>2, <2>1, <2>2, <2>3, <2>4 DEF PipelineNext
<1> QED BY <1>1, <1>2, PTL DEF PipelineSpec

\* A crash or a failed Put costs three committed ratings at most, with the
\* ingestion by itself and with the producer, although offsets are committed
\* before ratings are stored and nobody receives what follows a failed Put.
THEOREM CrashSafe ==
  (Spec => []BrokenRunLosesThree) /\ (PipelineSpec => []BrokenRunLosesThree)
BY LostAreGone, Invariance, PipelineInvariance, PTL

\* When the producer says "all events produced", all events of its file can be
\* accounted for, but for three that each crash and each failed Put may cost.
THEOREM AccountingSafe == PipelineSpec => []EveryEventAccounted
<1>1. IInv /\ ProducerOK => EveryEventAccounted
  <2> SUFFICES ASSUME IInv, ProducerOK, Durable, main = "done"
               PROVE  Cardinality(Missing) <= 3 * BrokenRuns
    BY DEF EveryEventAccounted
  <2>1. Kept = Range(stored \o InFlight) \cup
               (IF ctl = "failed" THEN Range(ch) \cup Range(held) ELSE {})
    BY KeptIsRange DEF IInv
  <2>2. Range(File) \subseteq Event \cap (failed \cup Published)
    <3>1. DOMAIN File = 1..Len(File) /\ \A i \in 1..Len(File) : File[i] \in Event
      BY FileOK, ElementOfSeq, LenProperties
    <3> QED BY <3>1 DEF ProducerOK, Range
  <2>3. ASSUME NEW p \in Partition, NEW e \in Range(topic[p]), e \notin Uncommitted
        PROVE  e \in SeenIn(p)
    <3>1. /\ topic[p] \in Seq(Event) /\ committed[p] \in Nat /\ position[p] \in Nat
          /\ committed[p] <= position[p] /\ position[p] <= Len(topic[p]) /\ Len(topic[p]) \in Nat
          /\ DOMAIN topic[p] = 1..Len(topic[p])
      BY LenProperties DEF IInv, TypeOK, Offsets, Control
    <3>2. PICK i \in 1..Len(topic[p]) : e = topic[p][i]
      BY <3>1 DEF Range
    <3> DEFINE rest == SubSeq(topic[p], committed[p] + 1, Len(topic[p]))
    <3>3. CASE i <= committed[p]
      <4>1. i \in 1..position[p]
        BY <3>1, <3>3
      <4> QED BY <3>2, <4>1 DEF SeenIn
    <3>4. CASE i > committed[p]
      <4>1. i - committed[p] \in 1..(Len(topic[p]) - committed[p])
        BY <3>1, <3>2, <3>4
      <4>2. /\ DOMAIN rest = 1..(Len(topic[p]) - committed[p])
            /\ \A j \in 1..(Len(topic[p]) - committed[p]) : rest[j] = topic[p][j + committed[p]]
        BY <3>1
      <4>3. (i - committed[p]) + committed[p] = i
        BY <3>1, <3>2
      <4>4. e \in Range(rest)
        BY <3>2, <4>1, <4>2, <4>3 DEF Range
      <4> QED BY <2>3, <4>4 DEF Uncommitted
    <3> QED BY <3>1, <3>3, <3>4
  <2>4. Missing \subseteq Gone \cup (IF ctl = "failed" THEN Range(ch) \cup Range(held) ELSE {})
    BY <2>1, <2>2, <2>3 DEF Missing, Gone, Published
  <2> QED BY <2>4, GoneOrHeld
<1> QED BY <1>1, PipelineInvariance, PTL
=============================================================================
