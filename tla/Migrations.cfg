\* The seven migrations of the repository; 001 and 005 only create what is not
\* there, and 007 makes its table anew; three processes, two ends.
CONSTANTS
  Process = {p, q, r}
  Nobody = Nobody
  N = 7
  Repeatable = {1, 5, 7}
  MaxEnds = 2
SPECIFICATION FairSpec
INVARIANTS
  TypeOK
  SchemaIsRecorded
  ReadyHasAll
PROPERTIES
  GetsItsDatabase
\* Once every process has its database nothing is left to do.
CHECK_DEADLOCK FALSE
