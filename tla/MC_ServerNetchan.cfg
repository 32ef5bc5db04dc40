CONSTANTS
  Byte = {"a", "b", "c"}
  Messages <- MCMessages
  FRAGMENT_SIZE = 2
  MAX_MSGLEN = 5
  challenge = 7
  NETCHAN_GENCHECKSUM <- MCChecksum
  Stray <- MCStray
  MaxMessages = 4
SPECIFICATION Spec
INVARIANTS TypeOK BacklogInOrder DeliveredIntact DeliveredInOrder
PROPERTIES BacklogDrains ImplementsOrderedMessages
CHECK_DEADLOCK FALSE
