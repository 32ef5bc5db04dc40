CONSTANTS
  MAX_RELIABLE_COMMANDS = 2
  MaxCommands = 4
  MaxInFlight = 2
SPECIFICATION Spec
INVARIANTS TypeOK ExecutedAsIssued NoMoveBeforeItsCommands
PROPERTIES CommandsArrive
CHECK_DEADLOCK FALSE
