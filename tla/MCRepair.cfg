CONSTANTS
  k1 = k1
  k2 = k2
  Keys <- MCKeys
  Layouts <- MCLayouts
  CompactionBase = 10
  Large = TRUE
  RepairServes = FALSE
  MaxSeq = 6
  MaxOpens = 3
  MaxKills = 1
  MaxPowerLosses = 1
SPECIFICATION Spec
INVARIANTS
  RepairTypeOK
  CutFramesAreKept
  StrandedFramesStay
  RepairedStoreOpens
  NewestIsServed
  NextWriteIsReadable
CHECK_DEADLOCK FALSE
