-------------------------- MODULE RatingIngestion ---------------------------
(***************************************************************************)
(* The ingestion of rating events: the goroutine of Ingester.Ingest        *)
(* (rating/internal/ingester/kafka/ingester.go) reads the topic and sends  *)
(* what it decodes over a channel of capacity 1; Controller.StartIngestion *)
(* (rating/internal/controller/rating/controller.go) receives from the     *)
(* channel and stores each event as a rating.  The event's type is not     *)
(* looked at: a "delete" is stored like a "put".                           *)
(*                                                                         *)
(* Kafka's consumer is external.  Every ReadMessage moves the position of  *)
(* a partition; the client commits positions in the background             *)
(* (enable.auto.commit is left at its default) and once more in Close; a   *)
(* restarted consumer of the group resumes at what was committed.  The     *)
(* group has one consumer.                                                 *)
(*                                                                         *)
(* The repository is the list of ratings in the order of the Puts.  In     *)
(* MySQL they survive the process and the primary key of the table         *)
(* (schema.sql) admits one per record and user; in memory neither is so.   *)
(***************************************************************************)
EXTENDS Naturals, FiniteSets, Sequences, Functions

CONSTANTS Event, Malformed,   \* json.Unmarshal rejects the messages of Malformed
          Key, KeyOf,         \* the record and the user an event is about
          Partition,
          Durable,            \* MySQL: TRUE; memory: FALSE
          MaxCrashes          \* bound

ASSUME IngestionConstantsOK ==
  /\ Malformed \subseteq Event
  /\ KeyOf \in [Event -> Key]
  /\ Durable \in BOOLEAN
  /\ MaxCrashes \in Nat

VARIABLES
  topic,      \* Kafka: the messages of each partition
  committed,  \* Kafka: the offsets committed for the group
  position,   \* the consumer's next offset in each partition
  pc,         \* where the ingester's goroutine is
  held,       \* the event it wants to send, a sequence of at most one
  ch,         \* the channel
  ctl,        \* where StartIngestion is
  putting,    \* the event it stores, a sequence of at most one
  cancelled,  \* ctx
  stored,     \* the repository
  crashes,
  \* history of the current run of the process, read by the properties only:
  began,      \* the offsets it began at
  found,      \* how many ratings it found in the repository
  dropped,    \* the event whose Put failed, a sequence of at most one
  lateReads   \* messages read after cancel

vars == <<topic, committed, position, pc, held, ch, ctl, putting, cancelled,
          stored, crashes, began, found, dropped, lateReads>>

kafka    == <<topic, committed>>
ingester == <<position, pc, held, lateReads>>
control  == <<ctl, putting, stored>>
run      == <<cancelled, crashes, began, found, dropped>>

Capacity == 1

Init ==
  /\ topic = [p \in Partition |-> <<>>]
  /\ committed = [p \in Partition |-> 0]
  /\ position = committed /\ began = committed
  /\ pc = "none" /\ held = <<>> /\ ch = <<>> /\ lateReads = 0
  /\ ctl = "start" /\ putting = <<>>
  /\ cancelled = FALSE
  /\ stored = <<>> /\ found = 0 /\ dropped = <<>>
  /\ crashes = 0

(***************************************************************************)
(* Kafka: the producer's messages, in a partition the client chooses, and  *)
(* the background commit                                                   *)
(***************************************************************************)

Published == UNION {Range(topic[p]) : p \in Partition}

Publish(e, p) ==
  /\ topic' = [topic EXCEPT ![p] = Append(@, e)]
  /\ UNCHANGED <<committed, ingester, ch, control, run>>

AutoCommit(p) ==
  /\ pc \notin {"none", "closed", "down"}
  /\ committed' = [committed EXCEPT ![p] = position[p]]
  /\ UNCHANGED <<topic, ingester, ch, control, run>>

(***************************************************************************)
(* The ingester's goroutine                                                *)
(***************************************************************************)

\* Mutant: ctx is not looked at.
SelectWithoutDone ==
  /\ pc = "select"
  /\ pc' = "read"
  /\ UNCHANGED <<kafka, position, held, lateReads, ch, control, run>>

\* Mutant: the goroutine returns without close(ch).
SelectWithoutClose ==
  /\ pc = "select"
  /\ pc' = IF cancelled THEN "none" ELSE "read"
  /\ UNCHANGED <<kafka, position, held, lateReads, ch, control, run>>

\* The select: close(ch) once ctx is done, else go on to ReadMessage.
Select ==
  /\ pc = "select"
  /\ pc' = IF cancelled THEN "closing" ELSE "read"
  /\ UNCHANGED <<kafka, position, held, lateReads, ch, control, run>>

\* Mutant: the goroutine returns when it cannot decode a message.
ReadReturnsOnError(p) ==
  /\ pc = "read" /\ position[p] < Len(topic[p])
  /\ position' = [position EXCEPT ![p] = @ + 1]
  /\ lateReads' = IF cancelled THEN lateReads + 1 ELSE lateReads
  /\ LET e == topic[p][position[p] + 1] IN
       \/ /\ e \in Malformed
          /\ pc' = "closed"
          /\ UNCHANGED held
       \/ /\ e \notin Malformed
          /\ pc' = "send"
          /\ held' = <<e>>
  /\ UNCHANGED <<kafka, ch, control, run>>

\* ReadMessage(-1), which blocks until there is a message, and Unmarshal.
Read(p) ==
  /\ pc = "read" /\ position[p] < Len(topic[p])
  /\ position' = [position EXCEPT ![p] = @ + 1]
  /\ lateReads' = IF cancelled THEN lateReads + 1 ELSE lateReads
  /\ LET e == topic[p][position[p] + 1] IN
       \/ /\ e \in Malformed
          /\ pc' = "select"
          /\ UNCHANGED held
       \/ /\ e \notin Malformed
          /\ pc' = "send"
          /\ held' = <<e>>
  /\ UNCHANGED <<kafka, ch, control, run>>

\* ReadMessage returns an error.
ReadFails ==
  /\ pc = "read"
  /\ pc' = "select"
  /\ UNCHANGED <<kafka, position, held, lateReads, ch, control, run>>

\* Mutants: what finds no room is dropped; the channel is deeper.
SendOrDrop ==
  /\ pc = "send"
  /\ ch' = IF Len(ch) < Capacity THEN ch \o held ELSE ch
  /\ held' = <<>>
  /\ pc' = "select"
  /\ UNCHANGED <<kafka, position, lateReads, control, run>>
SendDeeper ==
  /\ pc = "send" /\ Len(ch) < Capacity + 1
  /\ ch' = ch \o held
  /\ held' = <<>>
  /\ pc' = "select"
  /\ UNCHANGED <<kafka, position, lateReads, control, run>>
\* ch <- event
Send ==
  /\ pc = "send" /\ Len(ch) < Capacity
  /\ ch' = ch \o held
  /\ held' = <<>>
  /\ pc' = "select"
  /\ UNCHANGED <<kafka, position, lateReads, control, run>>

\* consumer.Close(), which commits the positions if Kafka can be reached.
Close ==
  /\ pc = "closing"
  /\ pc' = "closed"
  /\ committed' \in {committed, position}
  /\ UNCHANGED <<topic, position, held, lateReads, ch, control, run>>

(***************************************************************************)
(* Controller.StartIngestion                                               *)
(***************************************************************************)

\* Ingest subscribes and starts the goroutine, or StartIngestion returns an error.
Start ==
  /\ ctl = "start"
  /\ \/ ctl' = "receive" /\ pc' = "select"
     \/ ctl' = "failed" /\ UNCHANGED pc
  /\ UNCHANGED <<kafka, position, held, lateReads, ch, putting, stored, run>>

\* for e := range ch
Receive ==
  /\ ctl = "receive" /\ ch # <<>>
  /\ putting' = <<Head(ch)>>
  /\ ch' = Tail(ch)
  /\ ctl' = "put"
  /\ UNCHANGED <<kafka, ingester, stored, run>>

\* Mutant: the loop ends as soon as ctx is done.
RangeEndsOnCancel ==
  /\ ctl = "receive" /\ cancelled
  /\ ctl' = "returned"
  /\ UNCHANGED <<kafka, ingester, ch, putting, stored, run>>

\* The channel is closed and empty: the loop ends, StartIngestion returns nil.
RangeEnds ==
  /\ ctl = "receive" /\ ch = <<>> /\ pc \in {"closing", "closed"}
  /\ ctl' = "returned"
  /\ UNCHANGED <<kafka, ingester, ch, putting, stored, run>>

KeyTaken(e) == \E i \in DOMAIN stored : KeyOf[stored[i]] = KeyOf[e]

\* PutRating
Put ==
  /\ ctl = "put"
  /\ Durable => ~KeyTaken(putting[1])
  /\ stored' = stored \o putting
  /\ putting' = <<>>
  /\ ctl' = "receive"
  /\ UNCHANGED <<kafka, ingester, ch, run>>

\* Mutant: the error is dropped and the loop goes on.
PutFailsAndGoesOn ==
  /\ ctl = "put" /\ Durable
  /\ putting' = <<>>
  /\ ctl' = "receive"
  /\ UNCHANGED <<kafka, ingester, ch, stored, run>>

\* PutRating fails, and StartIngestion returns the error: the event is dropped
\* and nobody receives from the channel any more.  Only MySQL's Put can fail:
\* the key is taken, or the database cannot be reached, in which case it may
\* have stored the rating.
PutFails ==
  /\ ctl = "put" /\ Durable
  /\ ctl' = "failed"
  /\ putting' = <<>>
  /\ \/ dropped' = putting /\ UNCHANGED stored
     \/ /\ ~KeyTaken(putting[1])
        /\ stored' = stored \o putting
        /\ UNCHANGED dropped
  /\ UNCHANGED <<kafka, ingester, ch, cancelled, crashes, began, found>>

(***************************************************************************)
(* The process                                                             *)
(***************************************************************************)

Cancel ==
  /\ ~cancelled /\ pc # "down"
  /\ cancelled' = TRUE
  /\ UNCHANGED <<kafka, ingester, ch, control, crashes, began, found, dropped>>

\* The process ends at any time.
Crash ==
  /\ pc # "down" /\ crashes < MaxCrashes
  /\ crashes' = crashes + 1
  /\ pc' = "down" /\ held' = <<>> /\ ch' = <<>>
  /\ ctl' = "down" /\ putting' = <<>> /\ dropped' = <<>>
  /\ stored' = IF Durable THEN stored ELSE <<>>
  /\ UNCHANGED <<kafka, position, lateReads, cancelled, began, found>>

\* A new process, NewIngester and StartIngestion.
Restart ==
  /\ pc = "down"
  /\ position' = committed /\ began' = committed
  /\ pc' = "none" /\ lateReads' = 0
  /\ ctl' = "start"
  /\ cancelled' = FALSE
  /\ found' = Len(stored)
  /\ UNCHANGED <<kafka, held, ch, putting, stored, crashes, dropped>>

Ingest == Select \/ (\E p \in Partition : Read(p)) \/ ReadFails \/ Send \/ Close
StartIngestion == Start \/ Receive \/ RangeEnds \/ Put \/ PutFails

Consume == \/ \E p \in Partition : AutoCommit(p)
           \/ Ingest \/ StartIngestion
           \/ Cancel \/ Crash \/ Restart

\* By itself the topic gets every event once, in any order.
Next == Consume \/ \E e \in Event \ Published, p \in Partition : Publish(e, p)

\* Goroutines that can go on do.  ReadMessage does not fail for ever, and the
\* client serves every partition that has messages.
Fairness ==
  /\ WF_vars(Select) /\ WF_vars(Send) /\ WF_vars(Close)
  /\ \A p \in Partition : SF_vars(Read(p))
  /\ WF_vars(StartIngestion)

Spec     == Init /\ [][Next]_vars
FairSpec == Spec /\ Fairness

(***************************************************************************)
(* Properties                                                              *)
(***************************************************************************)

Offsets == [Partition -> Nat]
AtMostOne == {<<>>} \cup {<<e>> : e \in Event}

TypeOK ==
  /\ topic \in [Partition -> Seq(Event)]
  /\ {committed, position, began} \subseteq Offsets
  /\ \A p \in Partition : position[p] <= Len(topic[p])
  /\ pc  \in {"none", "select", "read", "send", "closing", "closed", "down"}
  /\ ctl \in {"start", "receive", "put", "returned", "failed", "down"}
  /\ {held, ch, putting, dropped} \subseteq AtMostOne
  /\ cancelled \in BOOLEAN
  /\ stored \in Seq(Event)
  /\ crashes \in 0..MaxCrashes
  /\ found \in 0..Len(stored)
  /\ lateReads \in Nat

\* The elements of s that are in S, in their order: SelectSeq as a function of
\* the length that has been looked at.
Only(s, S) ==
  LET upTo[n \in 0..Len(s)] ==
        IF n = 0 THEN <<>>
        ELSE IF s[n] \in S THEN Append(upTo[n - 1], s[n]) ELSE upTo[n - 1]
  IN  upTo[Len(s)]

Good(s)        == Only(s, Event \ Malformed)
In(p, s)       == Only(s, Range(topic[p]))
ReadThisRun(p) == SubSeq(topic[p], began[p] + 1, position[p])
StoredThisRun  == SubSeq(stored, found + 1, Len(stored))
Handled        == dropped \o putting \o ch \o held

\* Nothing is lost, doubled or reordered between the consumer and the
\* repository: what the ingester has read from a partition in this run and could
\* decode is, in the partition's order, what StartIngestion has stored, the one
\* event whose Put may have failed, and what the two goroutines and the channel
\* hold.
InOrder ==
  pc # "down" =>
    \A p \in Partition :
      Good(ReadThisRun(p)) = In(p, StoredThisRun \o Handled)

\* An ingestion that was cancelled and returned nil has stored every event its
\* consumer may have committed.
ReturnedStoredAll ==
  ctl = "returned" => \A p \in Partition :
    /\ Good(ReadThisRun(p)) = In(p, StoredThisRun)
    /\ committed[p] <= position[p]

\* What will still be stored if the run goes on: nothing once a Put has failed.
InFlight   == IF ctl = "failed" THEN <<>> ELSE putting \o ch \o held
BrokenRuns == crashes + (IF ctl = "failed" THEN 1 ELSE 0)

\* Offsets are committed before the events are stored, so a run that a crash or
\* an error breaks off loses events.  With MySQL it loses at most three: one
\* being stored or refused, one in the channel, one to be sent.
Committed == UNION {Range(SubSeq(topic[p], 1, committed[p])) : p \in Partition}
Lost      == {e \in Committed \ Malformed : e \notin Range(stored \o InFlight)}
BrokenRunLosesThree == Durable => Cardinality(Lost) <= 3 * BrokenRuns

\* After cancel the ingester reads at most one more message.
CancelStopsReading == lateReads <= 1

\* An event not read yet is stored in the end, unless the run ends before.
Unread(e) == \E p \in Partition : \E i \in DOMAIN topic[p] :
               i > position[p] /\ topic[p][i] = e
IngestedInTheEnd ==
  \A e \in Event \ Malformed :
    Unread(e) ~> (e \in Range(stored) \/ cancelled \/ ctl = "failed" \/ pc = "down")

\* Cancel ends both goroutines, also after a failed Put, but for two states that
\* they may be left in: ReadMessage waits for a message that does not come, or
\* the ingester sends into a full channel that nobody receives from, because a
\* Put has failed.
Ended == pc \in {"none", "closed"} /\ ctl \in {"returned", "failed"}
Idle  == pc = "read" /\ \A p \in Partition : position[p] = Len(topic[p])
Stuck == ctl = "failed" /\ pc = "send" /\ ch # <<>>
CancelEnds == cancelled ~> (Ended \/ Idle \/ Stuck \/ pc = "down")
=============================================================================
