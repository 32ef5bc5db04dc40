CONSTANTS
  Files <- FourFiles
  MAX_DOWNLOAD_WINDOW = 3
  BLOCK_WRAP = 4
  MaxInFlight = 4
  MaxCommands = 6
SPECIFICATION Spec
INVARIANTS TypeOK FileIntact
PROPERTIES DownloadEnds
CHECK_DEADLOCK FALSE
