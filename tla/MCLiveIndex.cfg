SPECIFICATION Spec
CONSTANTS
  k1 = k1
  k2 = k2
  Keys = {k1, k2}
  MaxAge <- MCMaxAge
  MaxSegment = 1
  Writes <- MCWrites
  ReadKeys = {k1}
  IoErrors = TRUE
  CompactionBase = 10
  MaxSeq = 3
  Instants = {0, 2}
  MaxCompactions = 1
INVARIANTS
  ChargesAreExact
  ReadsAreCurrent
  ReadsMissNothing
  NewestKeysRemain
  RestartShowsTheIndex
CONSTRAINT ReadsFirst
CHECK_DEADLOCK FALSE
