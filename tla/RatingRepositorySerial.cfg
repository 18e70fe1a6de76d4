\* One writer: Puts do not overlap, Gets do.
SPECIFICATION Spec
CONSTANTS
  Writers = {w1}
  Readers = {r1, r2}
  Types = {movie, series}
  Records = {m1}
  MaxPuts = 3
  NoMap = NoMap
SYMMETRY Symmetry
INVARIANTS AckedKept NoEmptyRead ReadsSeeAcked
PROPERTY StoreSpec
CHECK_DEADLOCK FALSE
