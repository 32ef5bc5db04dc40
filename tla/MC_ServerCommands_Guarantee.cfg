CONSTANTS
  MAX_RELIABLE_COMMANDS = 2
  Loopback = FALSE
  NDEBUG = TRUE
  MaxCommands = 4
  MaxInFlight = 2
SPECIFICATION Spec
INVARIANT Guarantee
CHECK_DEADLOCK FALSE
