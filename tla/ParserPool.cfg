\* Four calls over two workers: the third meets the worker of the first again.
CONSTANTS
  Calls = 4
  Workers = 2
SPECIFICATION FairSpec
INVARIANTS
  TypeOK
  EntryWhilePending
PROPERTIES
  AnswersItsCaller
CHECK_DEADLOCK FALSE
