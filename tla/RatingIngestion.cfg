\* MySQL under fairness: two partitions, a crash, and Puts that fail.
SPECIFICATION FairSpec
CONSTANTS
  e1 = e1  e2 = e2  e3 = e3  e4 = e4  bad = bad
  k1 = k1  k2 = k2  k3 = k3
  Event = {e1, e2, bad}
  Malformed = {bad}
  Key = {k1, k2, k3}
  KeyOf <- MCKeyOf
  Partition = {p1, p2}
  Durable = TRUE
  MaxCrashes = 1
INVARIANTS TypeOK InOrder ReturnedStoredAll CancelStopsReading
PROPERTIES IngestedInTheEnd CancelEnds
CHECK_DEADLOCK FALSE
