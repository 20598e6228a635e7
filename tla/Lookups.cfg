\* Two fences, a fleet of four, an API that sends at most three.
SPECIFICATION Spec
CONSTANTS
  ryde = ryde
  voi = voi
  r1 = r1
  r2 = r2
  r3 = r3
  v1 = v1
  east = east
  west = west
  Vehicles = {r1, r2, r3, v1}
  Operators = {ryde, voi}
  OpOf <- MCOpOf
  RangeOf <- MCRangeOf
  MaxResults = 3
  Fences <- MCFences
  Sites <- MCSites
  MaxQueryRadiusM = 2000
  ReachM = 5000
  ProbeCount = 2
  OperatorBonus <- MCBonus
  ComfortM = 10000
  LowPenalty = 250
  FloorM = 4000
  Ground = {0, 240, 751, 4400}
  Serviced = {r3}
  FullM = 30000
  Asked = {west}
  Asks <- MCAsks
  WatchKinds <- MCWatchKinds
INVARIANTS
  NothingOverlooked
  ReadingsAreTrue
  BoardAgreesWithTick
  ParkedFleetFiresNothing
  NothingBetterLeftOut
  BrandHolds
CHECK_DEADLOCK FALSE
