\* Two accounts, one login, one folder listing and one scan at a time, three
\* connections; a user who does not wait.
CONSTANTS
  Account = {a, b}
  Nobody = Nobody
  Login = {g1}
  Lister = {l1}
  Run = {r1}
  MaxObjects = 3
  Hasty = TRUE
  MaxInbox = 1
SPECIFICATION Spec
INVARIANTS
  HeaderNamesTheSession
