SPECIFICATION Spec
CONSTANTS
  k1 = k1
  k2 = k2
  l1 = l1
  Keys = {k1, k2}
  Listeners = {l1}
  Capacity = 2
  MaxWrites = 5
SYMMETRY Symmetry
INVARIANTS
  ListenersFollowTheIndex
CHECK_DEADLOCK FALSE
