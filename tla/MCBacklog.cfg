SPECIFICATION Spec
CONSTANTS
  w1 = w1
  w2 = w2
  m = m
  Workers <- MCWorkers
  Main = m
  MaxFeeds <- MCMaxFeeds
INVARIANTS
  TypeOK
  AofOrder
  NotLost
  BatchSorted
  IdPrecedesPack
PROPERTIES
  ImplementsCommandLog
