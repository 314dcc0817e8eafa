\* Batches of two writes, rollovers, all ways to go down twice.
SPECIFICATION FairSpec
CONSTANTS
  Requests = {r1, r2}
  Keys = {k1, k2}
  MaxWrites = 2
  QueueCap = 2
  MaxGroup = 2
  MaxSegment = 2
  CompactionBase = 100
  Kills = TRUE
  PowerLosses = TRUE
  IoErrors = TRUE
  MaxRestarts = 2
INVARIANTS
  TypeOK
  AckedDurableUnlessExposed
  IndexIsReplay
  SequenceIdsUnique
  TornTailIsActive
  LogHasNoHoles
PROPERTIES
  ImplementsAckedLog
  EveryRequestAnswered
CHECK_DEADLOCK FALSE
