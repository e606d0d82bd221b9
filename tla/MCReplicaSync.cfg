SPECIFICATION ReplicaSpec
SYMMETRY MCSymmetry
CONSTANTS
  w1 = w1
  k1 = k1
  k2 = k2
  Workers <- MCWorkers
  Keys <- MCKeys
  KeysOf <- MCKeysOf
  RotateSize = 1
  ChildMayDie = FALSE
  MaxCmds = 2
  MaxCrashes = 1
  PackLen <- MCPackLen
  SizeLen = 1
  ReadBytes = 3
  MaxReads = 3
  SlaveofIn <- MCSlaveofAny
  TransferMayFail = TRUE
  MaxChan = 2
  MaxFaults = 1
  MaxSlaveCrashes = 1
INVARIANTS
  ReplicaTypeOK
  Covered
  CachedCovered
  InFlightIsLog
  StraysOnlyBeyondOneRead
