\* Two writers whose first Puts may race, a reader, two records of one type.
SPECIFICATION Spec
CONSTANTS
  Writers = {w1, w2}
  Readers = {r1}
  Types = {movie}
  Records = {m1, m2}
  MaxPuts = 2
  NoMap = NoMap
SYMMETRY Symmetry
INVARIANTS TypeOK SettledKept StoredWerePut
CHECK_DEADLOCK FALSE
