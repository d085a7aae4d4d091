\* Every export of the three tables with at most one unusual value and three stray
\* tabulations per line, one outage and one crash.
CONSTANTS
  Deposits <- MCDeposits
  MaxAttempt = 1
  MaxCrash = 1
  MaxShown = 2
SPECIFICATION Spec
INVARIANTS
  LoadedIsMeant
  AcceptedIsCopied
  InvestigationAgrees
CHECK_DEADLOCK FALSE
