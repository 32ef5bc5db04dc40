CONSTANTS
  VOIP_QUEUE_LENGTH = 3
  MaxPackets = 5
SPECIFICATION Spec
INVARIANTS TypeOK HeardInOrder NothingLeaksUnlessForgotten
CHECK_DEADLOCK FALSE
