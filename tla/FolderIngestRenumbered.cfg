\* The mailbox is renumbered once between two scans.
CONSTANTS
  MaxUid = 2
  MaxEpoch = 2
  BatchSize = 2
  RetryBudget = 0
SPECIFICATION Spec
INVARIANTS
  RenumberedFolderIsRescanned
