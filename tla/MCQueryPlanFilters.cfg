CONSTANTS
  Cases <- MCCases
  MaxScan = 7
SPECIFICATION Spec
INVARIANTS
  FiltersSelectByCondition
CHECK_DEADLOCK FALSE
