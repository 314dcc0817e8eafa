\* Two compactions beside a flusher that rolls over on every other write.
SPECIFICATION CompactionSpec
CONSTANTS
  Requests = {r1, r2, r3}
  Keys = {k1, k2}
  MaxWrites = 1
  QueueCap = 1
  MaxGroup = 1
  MaxSegment = 1
  CompactionBase = 100
  Kills = TRUE
  PowerLosses = TRUE
  IoErrors = FALSE
  MaxRestarts = 1
  CompactionErrors = TRUE
  MaxCompactions = 2
SYMMETRY Symmetry
INVARIANTS
  CompactionTypeOK
  IndexReadable
  LiveKeysSurvive
  DeletedStaysDeletedUnlessHalfRemoved
  RestartChangesNothing
CHECK_DEADLOCK FALSE
