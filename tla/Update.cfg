CONSTANTS
  MaxRelease = 3
  MaxFailures = 3
SPECIFICATION Spec
INVARIANTS
  SaysWhatItDid
  WholeUnlessUndone
