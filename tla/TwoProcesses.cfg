\* A -once run beside the daemon, both may be stopped or killed.
SPECIFICATION Safe
CONSTANTS
  home = home  away = away  here = here  park = park  street = street
  phone = phone
  Elsewhere = Elsewhere  NoPlace = NoPlace  NoRow = NoRow  NoWatch = NoWatch
  Places = {park}
  Vehicles = {v1}
  Watches = {w1}
  MaxClock = 2
  Env = {"stop", "crash"}
  Fences = {home}
  Devices = {phone}
  Processes = {d, o}
  Daemon = d  Server = d
  MaxGen = 1
  Home = home  HomePlace = park
  OneCircle <- ManyQueries
  Clients = {c1}
  Requests <- AskMix
  AdhocFences = {}
  Sites <- OnePlaceEach
INVARIANTS FiredOnce
PROPERTIES KeepsBook
