SPECIFICATION FairSpec
CONSTANTS
  WorkerNum = 2
  Signals <- MCSignals
  MaxLinks = 2
  MaxReplicas = 1
INVARIANTS
  ThereWhenUsed
PROPERTIES
  EveryLinkServed
  ShutdownEnds
\* The server ends.
CHECK_DEADLOCK FALSE
