CONSTANTS
  MAX_RELIABLE_COMMANDS = 2
  Loopback = FALSE
  NDEBUG = TRUE
  MaxCommands = 4
  MaxInFlight = 2
SPECIFICATION Spec
INVARIANTS TypeOK GuaranteeUnlessForgotten ExecutedAsIssued
PROPERTIES DropIsTold
CHECK_DEADLOCK FALSE
