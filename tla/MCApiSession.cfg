SPECIFICATION FairSpec
CONSTANTS
  MaxFileSize = 3
  Scripts <- TwoRequests
  None = None
INVARIANTS TypeOK OnlyAfterHello FilesWhole
PROPERTIES ClosedForgotten RequestsAnswered
CHECK_DEADLOCK FALSE
