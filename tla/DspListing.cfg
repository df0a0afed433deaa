SPECIFICATION Spec
CONSTANTS
  Sources <- MCSources
  Dumps   <- MCDumps
  MaxItems = 3
INVARIANTS
  LineReadsBack
  SmallestIsChosen
  ListingIsTheFile
  AddressesKept
  ListingIsStable
CHECK_DEADLOCK FALSE
