\* Two runs, one message, no retries: enough for one run to commit a message
\* that arrived after the other had listed the live UIDs.
CONSTANTS
  MaxUid = 1
  MaxEpoch = 1
  BatchSize = 1
  RetryBudget = 0
SPECIFICATION BothSpec
PROPERTIES
  OnlyGoneRowsDropped
CHECK_DEADLOCK FALSE
