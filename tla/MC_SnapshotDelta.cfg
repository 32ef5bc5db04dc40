CONSTANTS
  Entities = {1, 2}
  Views <- MCViews
  Baseline <- MCBaseline
  PACKET_BACKUP = 5
  MAX_SNAPSHOT_ENTITIES = 2
  numSnapshotEntities = 4
  maxParseEntities = 3
  WRAP = 15
  UsedBefore = 9
  MaxMessages = 6
  MaxInFlight = 1
  OthersAt = {12}
SPECIFICATION Spec
INVARIANTS TypeOK GameSeesWorldWithBaselines DeltaBaseHeld
CHECK_DEADLOCK FALSE
