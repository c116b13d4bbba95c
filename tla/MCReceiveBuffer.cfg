SPECIFICATION FairSpec
CONSTANTS
  InitialSize = 8
  Slack = 2
  MaxString = 16
  MaxChunk = 32
  Powers = {1, 2, 4, 8, 16, 32}
  Streams <- ThreeItems
INVARIANTS TypeOK NoOverrun NothingLost LinesAccepted
PROPERTIES AllFed
CHECK_DEADLOCK FALSE
