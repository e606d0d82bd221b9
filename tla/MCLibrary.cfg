SPECIFICATION Spec
CONSTANTS
  Base = 8
  SizeLen = 2
  FlagLen = 1
  TypeLen = 1
  x1 = x1
  x2 = x2
  k1 = k1
  k2 = k2
  k3 = k3
  f1 = f1
  f2 = f2
  m1 = m1
  n1 = n1
  n2 = n2
  d1 = d1
  d2 = d2
  d3 = d3
  Objects = {x1, x2}
  Numbers = {7, 35}
  Messages <- MCMessages
  Positions = {0, 6}
  Capacity = 7
  MaxOps = 5
  Keys = {k1, k2, k3}
  Fields = {f1, f2}
  MapKeys = {m1}
  Values = {0, 1}
  Bucket <- MCBucket
  Chunks = {5, 9}
  BodyBytes = {1, 3}
  Births <- MCBirths
  Ms = 2
  MaxLen = 2
  MaxChanges = 3
  FirstBytes <- MCFirstBytes
  LaterBytes = {0, 1, 97, 255}
  MaxKeyLen = 3
  Connects = {n1, n2}
  Fds = {d1, d2, d3}
SYMMETRY Symmetry
INVARIANTS
  FirstInFirstOut
  PackAtFront
  Reloaded
  NothingInvented
  SlotIsRemainder
  OneOwner
  UsableIfNotBroken
\* The bounded histories end.
CHECK_DEADLOCK FALSE
