\* Three calls to the two services, two at a time to each, over the map and over MySQL.
SPECIFICATION Spec
CONSTANTS
  Storages = {"memory", "mysql"}
  MetadataCall = {c1, c2}
  MovieId = {"m1"}
  RatingCall = {d1, d2}
  RecordType = {"movie"}
  User = {"u1"}
  MaxCalls = 3
SYMMETRY Symmetry
INVARIANTS TypeOK CallsAccounted GetSeesAckedPut AggregateCountsAcked
CHECK_DEADLOCK FALSE
