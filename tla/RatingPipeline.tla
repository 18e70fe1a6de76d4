--------------------------- MODULE RatingPipeline ---------------------------
(***************************************************************************)
(* Rating events from the producer's file to the rating service's          *)
(* repository: RatingProducer and RatingIngestion, which share the topic.  *)
(***************************************************************************)
EXTENDS RatingIngestion, RatingProducer

ASSUME FileOK == File \in Seq(Event)

pipelineVars == <<vars, producerVars>>

PipelineInit == Init /\ ProducerInit

\* The client chooses a partition (PartitionAny), and a retry goes to the same.
PartitionFor(e) ==
  IF e \in Published THEN {p \in Partition : e \in Range(topic[p])} ELSE Partition

Deliver == \E e \in outstanding : \E p \in PartitionFor(e) :
  /\ Arrives(e) \/ ArrivesUnanswered(e)
  /\ Publish(e, p)

PipelineNext ==
  \/ Program /\ UNCHANGED vars
  \/ Deliver
  \/ Consume /\ UNCHANGED producerVars

PipelineSpec == PipelineInit /\ [][PipelineNext]_pipelineVars

Uncommitted == UNION {Range(SubSeq(topic[p], committed[p] + 1, Len(topic[p]))) : p \in Partition}
Missing     == {e \in Range(File) \ Malformed :
                  e \notin failed \cup Uncommitted \cup Range(stored \o InFlight)}

\* Once the producer has said "all events produced", every event of its file is
\* stored, on its way, in the topic yet to be committed, or was reported to the
\* producer as failed, but for at most three that each crash of the rating
\* service and each failed Put may cost.
EveryEventAccounted == Durable /\ main = "done" => Cardinality(Missing) <= 3 * BrokenRuns
=============================================================================
