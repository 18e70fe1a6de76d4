\* One request over either pair of gateways, with the limiter at its limits.
SPECIFICATION FairSpec
CONSTANTS
  Request = {r1}
  Movie = {m1}
  NoMovie = NoMovie
  Transports = {"http", "grpc"}
  Burst = 2
  MaxRetries = 5
  MaxVersion = 1
  MaxRatings = 1
  MaxRestarts = 1
INVARIANTS TypeOK AnswerWasTrue NotFoundWasTrue RetriesExhausted AdmitsUpToRate
PROPERTY RequestAnswered
CHECK_DEADLOCK FALSE
