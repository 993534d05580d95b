CONSTANTS
  Listings <- MCListings
  Text <- MCText
  Mapo <- MCMapo
  Spaces = " "
  GraceRuns = 1
  MaxRuns = 3
SPECIFICATION Spec
CHECK_DEADLOCK FALSE
INVARIANTS
  GeocoderAskedOnce
  NothingLostSilently
PROPERTIES
  OnePoiPerPlace
  RemovedOnlyUnplaced
