CONSTANTS
  Lacks <- FromTheFirst
  MaxServerId = 1
  Restarts = 0
  MaxChanges = 0
  MaxCommands = 8
  MaxToClient = 2
  MaxToServer = 2
SPECIFICATION GamestateSpec
PROPERTY GamestateArrives
CHECK_DEADLOCK FALSE
