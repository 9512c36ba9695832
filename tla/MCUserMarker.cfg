SPECIFICATION MapSpec
CONSTANTS
  Point = {paris, here}
  NoPoint = NoPoint
  Paris = paris
  Pin = {s}
  NoPin = NoPin
  DeniesLater = FALSE
  MaxGiven = 2
INVARIANT UserMarkerIsShown
CHECK_DEADLOCK FALSE
