\* Two clients, two folders, a quota of one and two fetches: a folder comes back
\* to the worker after an outage, a crash, a torn counter or a COMMIT without an
\* answer, while the other folder of its client waits behind it. The attempts,
\* the order of the commits, the refinement of ClientLedger, and the drain of
\* the queue.
CONSTANTS
  Client = {1, 2}
  Name = {a, b}
  MaxStamp = 2
  Limit = 1
  MaxRetries = 2
  DiskFaults = FALSE
  MaxCrash = 1
  MaxAttempts = 5
SPECIFICATION FairSpec
INVARIANTS
  TypeOK
  AttemptsBounded
  DbHoldsNewestIngested
PROPERTIES
  LedgerSpec
  QueueDrains
