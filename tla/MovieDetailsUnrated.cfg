\* The HTTP gateways: UnratedAnswered does not hold of the code.
SPECIFICATION Spec
CONSTANTS
  Request = {r1}
  Movie = {m1}
  NoMovie = NoMovie
  Transports = {"http"}
  Burst = 2
  MaxRetries = 5
  MaxVersion = 1
  MaxRatings = 1
  MaxRestarts = 1
INVARIANT UnratedAnswered
CHECK_DEADLOCK FALSE
