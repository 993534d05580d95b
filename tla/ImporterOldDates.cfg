CONSTANTS
  dated = dated
  undated = undated
  Ids <- MCIds
  Runners = {k1, k2}
  Nothing = Nothing
  Ages <- OldDates
  Grace = 1
  MaxNow = 2
  MaxFailures = 1
SPECIFICATION Spec
PROPERTIES
  ListedStaysActive
