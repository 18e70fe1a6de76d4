\* Every instance of a service has crashed, and its records are not yet gone:
\* EmptyIsNotFound does not hold of the code.
SPECIFICATION Spec
CONSTANTS
  metadata = metadata
  rating = rating
  i1 = i1
  i2 = i2
  i3 = i3
  Service = {metadata, rating}
  Instance = {i1, i2, i3}
  Client = {c1, c2}
  ServiceOf <- MCServiceOf
  TTL = 5
  MaxSilence = 5
  NoRecord = NoRecord
SYMMETRY Symmetry
INVARIANT EmptyIsNotFound
CHECK_DEADLOCK FALSE
