CONSTANTS
  Cases <- MCCases
  MaxScan = 7
SPECIFICATION Spec
INVARIANTS
  AnswerIsThatOfTheWholeStream
  ExplainNamesThePath
  PagesVisitEveryRecord
  PatternsAreReal
  PatternsAreFound
  SearchReturnsTheBest
  GroupsCountEveryRecord
CHECK_DEADLOCK FALSE
