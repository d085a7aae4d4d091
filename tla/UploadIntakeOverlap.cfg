\* A client that sends its next deposit at any time, over the last one, and a
\* hidden file; a crash: the versions of a file keep their order.
CONSTANTS
  Expected = {a, b}
  Stray = {}
  Hidden = {h}
  MaxDeposit = 2
  MaxFolder = 2
  MaxReport = 1
  MaxCrash = 1
  Patient = FALSE
SPECIFICATION Spec
SYMMETRY ExpectedSymmetry
INVARIANTS
  NewerVersionLater
CHECK_DEADLOCK FALSE
