\* The metadata or the rating service: Consul's TTL, late and failing reports.
SPECIFICATION FairSpec
CONSTANTS
  GrpcRequest = {g1, g2}
  HttpRequest = {h1}
  Heartbeats = TRUE
  TTL = 5
  MaxLate = 1
  MaxMisses = 1
INVARIANTS TypeOK LeavesDrained DeregisteredIsFinal
PROPERTIES AliveStaysListed EndedUnlisted StoppedEnds ServingListed
CHECK_DEADLOCK FALSE
