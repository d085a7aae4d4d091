CONSTANTS
  MaxRun = 2
  MaxCrash = 1
  MaxFlip = 1
  MaxFault = 1
SPECIFICATION Spec
INVARIANTS
  AckedIsStored
  SuccessWasCommitted
  CauseShown
  DashboardAgrees
CHECK_DEADLOCK FALSE
