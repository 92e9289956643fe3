\* Two messages, batches of two, two retries and a renumbering: full and partial
\* batches, with every kind of interruption before, between and after them.
CONSTANTS
  MaxUid = 2
  MaxEpoch = 2
  BatchSize = 2
  RetryBudget = 2
SPECIFICATION FairSpec
INVARIANTS
  TypeOK
  NoMessageLost
  CompleteWhenDone
  CancelledRunCommitsOnce
PROPERTIES
  OnlyGoneRowsDropped
  MirrorsMailbox
  IngestTerminates
