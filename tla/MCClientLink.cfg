SPECIFICATION Spec
CONSTANTS
  Base = 8
  SizeLen = 2
  FlagLen = 1
  TypeLen = 1
  l1 = l1
  l2 = l2
  Links = {l1, l2}
  MaxFd = 2
  Requests <- MCRequests
  Hset = 5
  Known = {4, 5}
  Silent = {4}
  ReadBuf = 2
  Cuts = {2}
  MaxAsks <- MCMaxAsks
  MaxShort = 2
INVARIANTS
  ClosedForCause
  RepliesInOrder
  NoIdleWatcher
  OnePack
  ParsesOwnBody
PROPERTY
  EveryRequestAnswered
\* The clients may have nothing more to send.
CHECK_DEADLOCK FALSE
