SPECIFICATION Spec
CONSTANTS
  w1 = w1
  w2 = w2
  k1 = k1
  k2 = k2
  Workers <- MCWorkers
  Keys <- MCKeys
  KeysOf <- MCKeysOf
  RotateSize = 2
  ChildMayDie = TRUE
  MaxCmds = 3
  MaxCrashes = 2
INVARIANT
  SavedWithSuccess
