\* A client that pauses and breaks off inside a deposit, and sends one file that
\* is hidden; a crash or a failed move: no visible file stays in the upload
\* directory for ever.
CONSTANTS
  Expected = {a, b}
  Stray = {}
  Hidden = {h}
  MaxDeposit = 1
  MaxFolder = 4
  MaxReport = 1
  MaxCrash = 1
  Patient = FALSE
SPECIFICATION FairSpec
PROPERTIES
  UploadDrains
CHECK_DEADLOCK FALSE
