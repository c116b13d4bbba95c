SPECIFICATION FairSpec
CONSTANTS
  Sent <- TwoMessages
  None = None
INVARIANTS TypeOK Understood InStep
PROPERTIES NothingAfterRefusal AllActedOn
CHECK_DEADLOCK FALSE
