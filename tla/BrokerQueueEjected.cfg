\* A folder behind an outage or a crashing neighbour is ejected untried.
CONSTANTS
  Client = {1, 2}
  Name = {a, b}
  MaxStamp = 2
  Limit = 10
  MaxRetries = 2
  DiskFaults = FALSE
  MaxCrash = 1
  MaxAttempts = 5
SPECIFICATION Spec
SYMMETRY NameSymmetry
INVARIANT EjectedWasTried
