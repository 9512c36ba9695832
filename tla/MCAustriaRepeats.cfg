SPECIFICATION Spec
CONSTANTS
  e1 = e1
  e2 = e2
  f1 = f1
  f2 = f2
  c1 = c1
  c2 = c2
  c3 = c3
  p1 = p1
  p2 = p2
  NoCall = NoCall
  External = {e1, e2}
  Sold <- TwoStations
  Places <- TwoPlaces
  Price = {1, 2}
  OpeningPrice = 1
  Reported = {2}
  Providers <- AustriaAlone
  Call = {c1, c2, c3}
  Runs = {c1, c2}
  Process = {p1, p2}
  Home <- TwoProcesses
  Callers <- TwoCalls
  BATCH_SIZE = 2
  MaxTime = 2
  MaxReports <- FewReports
  MaxFailures = 0
CHECK_DEADLOCK FALSE
INVARIANTS
  RepeatedPricesAddNothing
