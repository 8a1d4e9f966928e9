SPECIFICATION Spec
CONSTANTS
  None = None
  Clients = {c}
  Prints = {f, g}
  Window = 1
  Depth = 3
  MaxSnapshots = 1
  DefaultLimit = 1
  Limits <- MinusOneAndZero
  Kinds = {"classic", "quorum"}
  MaxReturns = 1
  MaxMessages = 3
  MaxScans = 2
  MaxActs = 1
SYMMETRY Alike
INVARIANT TypeOK
 
PROPERTY ShownIsFound
PROPERTY CopiesAreRefused
PROPERTY DropsOnlyWhenOvertaken
CHECK_DEADLOCK FALSE
