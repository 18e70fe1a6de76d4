\* The code's TTL, two replicas of one service, another service without any, two clients whose
\* lookups may overlap, and heartbeats that may be as late as the TTL allows.
SPECIFICATION FairSpec
CONSTANTS
  metadata = metadata
  rating = rating
  i1 = i1
  i2 = i2
  i3 = i3
  Service = {metadata, rating}
  Instance = {i1, i2}
  Client = {c1, c2}
  ServiceOf <- MCServiceOf
  TTL = 5
  MaxSilence = 5
  NoRecord = NoRecord
INVARIANTS TypeOK AnswerBounded HealthyListed
PROPERTIES NoResurrection RegistrySpec CrashedUnlisted
CHECK_DEADLOCK FALSE
