\* Two connections, four folders, one retry each.
CONSTANTS
  Client = {c1, c2}
  Tasks = 4
  NoClient = NoClient
  RetryBudget = 1
SPECIFICATION FairSpec
INVARIANTS
  TypeOK
  EachClientInOnePlace
  NoWaitBesideFree
PROPERTIES
  ServedInOrder
  EveryTaskEnds
CHECK_DEADLOCK FALSE
