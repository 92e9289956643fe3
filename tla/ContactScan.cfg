CONSTANTS
  c1 = c1
  c2 = c2
  m1 = m1
  m2 = m2
  f1 = f1
  f2 = f2
  Folder = {f1, f2}
  Contact = {c1, c2}
  Me = Me
  NoOne = NoOne
  Message = {m1, m2}
  Mail <- MixedMail
  Place <- MixedPlaces
  Options <- MixedOptions
  SamplesCap = 1
SPECIFICATION Spec
INVARIANTS
  TypeOK
  CountsLetters
  StreamHasResult
  UntaggedOnlyAfterInterruption
  BodiesDecide
PROPERTIES
  CancelledScanShowsNothing
