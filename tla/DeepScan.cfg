\* Two messages in two chunks, two retries, and four row ids.
CONSTANTS
  MaxUid = 2
  MaxRow = 4
  ChunkSize = 1
  RetryBudget = 2
  Unsubscribe = {1}
SPECIFICATION FairSpec
INVARIANTS
  TypeOK
  BodyBelongsToMessage
  NothingOutlivesItsMessage
  CachedWhenDone
PROPERTIES
  DeepScanEnds
