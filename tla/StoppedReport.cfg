\* A stop between MarkFired and RecordEvent loses the report.
SPECIFICATION Safe
CONSTANTS
  home = home  away = away  here = here  park = park  street = street
  phone = phone
  Elsewhere = Elsewhere  NoPlace = NoPlace  NoRow = NoRow  NoWatch = NoWatch
  Places = {park}
  Vehicles = {v1}
  Watches = {w1}
  MaxClock = 2
  Env = {"stop"}
  Fences = {home}
  Devices = {phone}
  Processes = {d}
  Daemon = d  Server = d
  MaxGen = 1
  Home = home  HomePlace = park
  OneCircle <- ManyQueries
  Clients = {c1}
  Requests <- AskOnce
  AdhocFences = {}
  Sites <- OnePlaceEach
INVARIANTS EveryFireReported
