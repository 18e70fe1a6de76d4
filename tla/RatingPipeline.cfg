\* Enough events in one partition for a crash to lose more than three; a queue
\* that the file may fill, and one delivery whose answer is lost.
SPECIFICATION PipelineSpec
CONSTANTS
  e1 = e1  e2 = e2  e3 = e3  e4 = e4
  k1 = k1  k2 = k2  k3 = k3
  Event = {e1, e2, e3, e4}
  Malformed = {}
  Key = {k1, k2, k3}
  KeyOf <- MCKeyOf
  File <- MCFile
  Partition = {p1}
  Durable = TRUE
  QueueLimit = 2
  MaxResends = 1
  MaxCrashes = 1
INVARIANTS BrokenRunLosesThree EveryEventAccounted
CHECK_DEADLOCK FALSE
