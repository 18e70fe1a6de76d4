\* Two racing writers: AckedKept does not hold of the code.
SPECIFICATION Spec
CONSTANTS
  Writers = {w1, w2}
  Readers = {r1}
  Types = {movie}
  Records = {m1, m2}
  MaxPuts = 1
  NoMap = NoMap
SYMMETRY Symmetry
INVARIANT AckedKept
CHECK_DEADLOCK FALSE
