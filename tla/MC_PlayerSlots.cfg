CONSTANTS
  a = a
  b = b
  Addresses <- TwoAddresses
  NA_BOT = NA_BOT
  MAX_SPLITVIEW = 2
  Sizes <- TwoOrThree
SPECIFICATION SlotsSpec
CONSTRAINT Orderly
SYMMETRY AddressSymmetry
INVARIANTS SlotsTypeOK PlayersOwned GameToldOnce
PROPERTIES OthersStay
CHECK_DEADLOCK FALSE
