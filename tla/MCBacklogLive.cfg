SPECIFICATION FairSpec
CONSTANTS
  w1 = w1
  w2 = w2
  m = m
  Workers <- MCWorkers
  Main = m
  MaxFeeds <- MCOneFeed
PROPERTY
  EventuallyLogged
