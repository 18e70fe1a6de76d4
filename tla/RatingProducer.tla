--------------------------- MODULE RatingProducer ---------------------------
(***************************************************************************)
(* The program that fills the topic from a file (cmd/ratingproducer):      *)
(* main hands the events of the file to Kafka's client one by one and then *)
(* flushes, while a goroutine takes the delivery reports and logs those    *)
(* that report a failure.                                                  *)
(*                                                                         *)
(* Kafka's client is external.  It delivers what is outstanding on its     *)
(* own, in any order, since it retries without being idempotent: when the  *)
(* answer to a delivery is lost the event is delivered again, or reported  *)
(* as failed though it has arrived.                                        *)
(***************************************************************************)
EXTENDS Naturals, Sequences, FiniteSets

CONSTANTS File,        \* the events in ratingsdata.json, a sequence
          QueueLimit,  \* what the client holds, queue.buffering.max.messages
          MaxResends   \* bound: lost answers

ASSUME ProducerConstantsOK ==
  /\ \A i, j \in DOMAIN File : File[i] = File[j] => i = j
  /\ QueueLimit \in Nat \ {0} /\ MaxResends \in Nat

VARIABLES
  main,         \* where main is, or how it ended
  sent,         \* how many events produceRatingEvents has handed over
  outstanding,  \* the events without a delivery report
  failed,       \* the events of which the goroutine took a failure report
  resends

producerVars == <<main, sent, outstanding, failed, resends>>

ProducerInit ==
  /\ main = "starting" /\ sent = 0
  /\ outstanding = {} /\ failed = {} /\ resends = 0

\* kafka.NewProducer, or log.Fatalf.
NewProducer ==
  /\ main = "starting"
  /\ main' \in {"connected", "fatal"}
  /\ UNCHANGED <<sent, outstanding, failed, resends>>

ReadRatingEvents ==
  /\ main = "connected"
  /\ main' = "producing"
  /\ UNCHANGED <<sent, outstanding, failed, resends>>

\* The file cannot be opened or decoded.
ReadRatingEventsFails ==
  /\ main = "connected"
  /\ main' = "fatal"
  /\ UNCHANGED <<sent, outstanding, failed, resends>>

Produce ==
  /\ main = "producing" /\ sent < Len(File)
  /\ Cardinality(outstanding) < QueueLimit
  /\ outstanding' = outstanding \cup {File[sent + 1]}
  /\ sent' = sent + 1
  /\ UNCHANGED <<main, failed, resends>>

\* Produce returns an error when the client's queue is full, and main ends with
\* what is outstanding.
ProduceFails ==
  /\ main = "producing" /\ sent < Len(File)
  /\ Cardinality(outstanding) = QueueLimit
  /\ main' = "fatal"
  /\ UNCHANGED <<sent, outstanding, failed, resends>>

\* Mutant: what Flush returns is not looked at.
FlushedAnyway == TRUE

\* remaining = 0
Flushed == outstanding = {}

\* producer.Flush returns when nothing is outstanding, and main says "all events
\* produced" and closes the client; or after ten seconds, and main ends.
Flush ==
  /\ main = "producing" /\ sent = Len(File)
  /\ \/ Flushed /\ main' = "done"
     \/ outstanding # {} /\ main' = "fatal"
  /\ UNCHANGED <<sent, outstanding, failed, resends>>

(***************************************************************************)
(* The client: an outstanding event is appended to the topic and reported, *)
(* or is appended and the answer lost, or is reported as failed.           *)
(***************************************************************************)

Arrives(e) ==
  /\ main = "producing" /\ e \in outstanding
  /\ outstanding' = outstanding \ {e}
  /\ UNCHANGED <<main, sent, failed, resends>>

ArrivesUnanswered(e) ==
  /\ main = "producing" /\ e \in outstanding /\ resends < MaxResends
  /\ resends' = resends + 1
  /\ UNCHANGED <<main, sent, outstanding, failed>>

DeliveryFails(e) ==
  /\ main = "producing" /\ e \in outstanding
  /\ outstanding' = outstanding \ {e}
  /\ failed' = failed \cup {e}
  /\ UNCHANGED <<main, sent, resends>>

Program == \/ NewProducer \/ ReadRatingEvents \/ ReadRatingEventsFails
           \/ Produce \/ ProduceFails \/ Flush
           \/ \E e \in outstanding : DeliveryFails(e)
=============================================================================
