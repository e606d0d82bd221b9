SPECIFICATION ReplicaFairSpec
CONSTANTS
  w1 = w1
  k1 = k1
  k2 = k2
  Workers <- MCWorkers
  Keys <- MCOneKey
  KeysOf <- MCKeysOf
  RotateSize = 1
  ChildMayDie = FALSE
  MaxCmds = 2
  MaxCrashes = 1
  PackLen <- MCPackLen
  SizeLen = 1
  ReadBytes = 3
  MaxReads = 2
  SlaveofIn <- MCSlaveofOnce
  TransferMayFail = FALSE
  MaxChan = 1
  MaxFaults = 1
  MaxSlaveCrashes = 0
PROPERTIES
  EventuallyReplicated
