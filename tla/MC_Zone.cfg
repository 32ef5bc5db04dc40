CONSTANTS
  ZONE = 12
  HEADER = 1
  MINFRAGMENT = 1
  Requests <- OneToFour
  Tags <- GeneralAndRenderer
SPECIFICATION ZoneSpec
INVARIANTS ZoneTypeOK HeapWellFormed RefusedOnlyIfFull
PROPERTIES ImplementsAllocator
CHECK_DEADLOCK FALSE
