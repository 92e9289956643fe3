\* As App.cfg: two accounts, one login, one folder listing and one scan at a time, three
\* connections; a patient user.
CONSTANTS
  Account = {a, b}
  Nobody = Nobody
  Login = {g1}
  Lister = {l1}
  Run = {r1}
  MaxObjects = 3
  Hasty = FALSE
  MaxInbox = 1
SPECIFICATION Spec
INVARIANTS
  StoresWhatItsAccountHas
