SPECIFICATION FairSpec
CONSTANTS
  InitialSize = 4
  Powers = {1, 2, 4, 8, 16}
  Lengths <- SomeLengths
  MaxGiven = 10
  Garbage = Garbage
INVARIANTS TypeOK NoOverrun WriteWhileData
PROPERTIES SendsInOrder AllSent
CHECK_DEADLOCK FALSE
