SPECIFICATION Spec
CONSTANTS
  None = None
  Now = 200
  Station = {1, 2, 3}
  Distance <- MCDistance
  Radius = 2
  InBox = {1, 2, 3}
  Offers <- MCOffers
  MaxStored = 2
  Questions <- MCQuestions
  Absent = Absent
  Stop = {1, 2, 3, 4, 5}
  OffRoute <- MCOffRoute
  Markets <- MCMarkets
  Lengths = {10000, 11000}
  Extra <- MCExtra
  Trips <- MCTrips
  CORRIDOR_CANDIDATE_POOL = 4
  DETOUR_CANDIDATE_COUNT = 3
  DETOUR_CONCURRENCY = 2
  Caller = {1, 2}
  Question <- MCQuestion
  minIntervalMs = 2
  NotCached = NotCached
  Nobody = Nobody
  Aliased = {"diesel", "petrol"}
  Unsupported = {"niche"}
  NoSource = NoSource
  Table <- MCTable
  MaxUnits = 2
  Source = {"germany", "germanyPrices", "france", "spain", "italy", "slovenia", "croatia", "austria"}
  Client = {1, 2}
  Email = {e1}
  Locale = {"en", "ru"}
  MaxCalls = 3
  p1 = p1
  p2 = p2
  Place = {p1, p2}
  NoPlace = NoPlace
  Fallback = p1
  Fuel = {"diesel"}
  NoFuel = NoFuel
  Link <- MCLink
  MaxMoves = 2
  Text = {"ab", "berlin", "bern"}
  TooShort = {"ab"}
  MaxTyped = 3
  User = {"anna", "ben"}
  NoUser = "nobody"
  Starred = {"s"}
  MaxClicks = 2
  Point = {p1, p2}
  NoPoint = NoPoint
  Paris = p1
  Pin = {s1}
  NoPin = NoPin
  DeniesLater = TRUE
  MaxGiven = 3
  Picture = {p1, p2}
  NoPicture = NoPicture
  MaxActs = 3
  MaxForms = 2
INVARIANTS
  TypeOK
  ShownPriceIsBest
  NothingIsLeftOutSilently
  PlanIsSound
  IntervalToRequestsSeen
  FeedIsAccountedFor
  SessionsEndAsTold
  MainPageIsTrue
  BoxAnswersLastSearch
  PageKnowsUser
  StationPageIsTrue
PROPERTIES
  EveryRequestEnds
CHECK_DEADLOCK FALSE
