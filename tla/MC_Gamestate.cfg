CONSTANTS
  Lacks <- FromTheSecond
  MaxServerId = 3
  Restarts = 1
  MaxChanges = 1
  MaxCommands = 8
  MaxToClient = 2
  MaxToServer = 1
SPECIFICATION GamestateSpec
INVARIANTS GamestateTypeOK ConfigstringsAgreeIfOrderly EnteredInOrder
PROPERTIES EntersWorld
CHECK_DEADLOCK FALSE
