\* The movie service: ServingListed does not hold of the code.
SPECIFICATION FairSpec
CONSTANTS
  GrpcRequest = {g1, g2}
  HttpRequest = {h1}
  Heartbeats = FALSE
  TTL = 5
  MaxLate = 1
  MaxMisses = 1
PROPERTY ServingListed
CHECK_DEADLOCK FALSE
