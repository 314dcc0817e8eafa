\* No crash at all: a rollover between the two readings of a compaction.
SPECIFICATION CompactionSpec
CONSTANTS
  Requests = {r1, r2, r3}
  Keys = {k1, k2}
  MaxWrites = 1
  QueueCap = 1
  MaxGroup = 1
  MaxSegment = 1
  CompactionBase = 100
  Kills = FALSE
  PowerLosses = FALSE
  IoErrors = FALSE
  MaxRestarts = 0
  CompactionErrors = FALSE
  MaxCompactions = 1
SYMMETRY Symmetry
INVARIANTS
  LiveKeysSurviveRollover
CHECK_DEADLOCK FALSE
