\* One client, two folders, a quota of one and two fetches, moves and counter writes that may
\* fail: what archives/ holds, and that no file goes away with its folder.
CONSTANTS
  Client = {1}
  Name = {a, b}
  MaxStamp = 2
  Limit = 1
  MaxRetries = 2
  DiskFaults = TRUE
  MaxCrash = 1
  MaxAttempts = 5
SPECIFICATION Spec
SYMMETRY NameSymmetry
INVARIANTS
  ArchivedWasIngested
  NoFileRemovedWithFolder
