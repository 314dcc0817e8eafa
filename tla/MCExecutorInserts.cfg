SPECIFICATION Spec
CONSTANTS
  s1 = s1
  s2 = s2
  s3 = s3
  k1 = k1
  k2 = k2
  k3 = k3
  k4 = k4
  Calls = {c1, c2}
  Nobody = Nobody
  Streams = {s1, s2, s3}
  Keys = {k1, k2, k3, k4}
  StreamOf <- MCStreamOf
  Ops <- OnlyInserts
  MaxBatch = 2
  MaxStreams = 1
  QueueCap = 2
  IoErrors = FALSE
  MaxReopens = 1
SYMMETRY Symmetry
INVARIANTS
  ReservationsSuffice
CHECK_DEADLOCK FALSE
