\* A client that sends one deposit after the other, and a crash: what the watcher
\* lets into the queue, and what is archived of it.
CONSTANTS
  Expected = {a, b}
  Stray = {}
  Hidden = {}
  MaxDeposit = 3
  MaxFolder = 3
  MaxReport = 2
  MaxCrash = 1
  Patient = TRUE
SPECIFICATION Spec
SYMMETRY ExpectedSymmetry
INVARIANTS
  ValidFolderIsOneDeposit
  SuccessIsWhole
CHECK_DEADLOCK FALSE
