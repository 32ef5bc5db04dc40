CONSTANTS
  MAX_CHALLENGES = 2
  MAX_CHALLENGES_MULTI = 1
  RETRANSMIT_TIMEOUT = 3
  cl_timeout = 1
  sv_reconnectlimit = 2
  sv_timeout = 2
  sv_zombietime = 2
  MaxDelay = 1
  MaxInFlight = 2
  Numbers <- SomeNumbers
SPECIFICATION Spec
INVARIANTS TypeOK EndsAgree
PROPERTIES OneSetup GetsIn SlotFreed
CHECK_DEADLOCK FALSE
