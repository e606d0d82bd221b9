SPECIFICATION Spec
CONSTANTS
  c1 = c1
  c2 = c2
  c3 = c3
  c4 = c4
  Clients <- MCClients
  MaxConns = 2
  MaxCalls = 2
SYMMETRY MCSymmetry
INVARIANTS
  TypeOK
  InOnePlace
  OwnReply
  NoWakeupLost
\* The threads may be done with their calls, and an assertion may have failed.
CHECK_DEADLOCK FALSE
