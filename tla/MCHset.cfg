SPECIFICATION Spec
CONSTANTS
  w1 = w1
  w2 = w2
  w3 = w3
  f1 = f1
  Workers <- MCWorkers
  Fields <- MCFields
  MaxSets = 3
  MaxGets = 1
SYMMETRY Symmetry
INVARIANTS
  MemoryIsLog
  ReadsLatest
PROPERTY
  FieldKeepsElement
\* The clients may have nothing more to send.
CHECK_DEADLOCK FALSE
