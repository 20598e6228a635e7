\* Two watches on two fences that share a query; queries fail, nothing is lost.
SPECIFICATION Safe
CONSTANTS
  home = home  away = away  here = here  park = park  street = street
  phone = phone
  Elsewhere = Elsewhere  NoPlace = NoPlace  NoRow = NoRow  NoWatch = NoWatch
  Places = {park, street}
  Vehicles = {v1}
  Watches = {w1, w2}
  MaxClock = 2
  Env = {"cancel", "upstream"}
  Fences = {home, here}
  Devices = {phone}
  Processes = {d}
  Daemon = d  Server = d
  MaxGen = 1
  Home = home  HomePlace = park
  OneCircle <- OneQuery
  Clients = {c1}
  Requests <- AskOnce
  AdhocFences = {here}
  Sites <- OnePlaceEach
INVARIANTS TypeOK EveryFireReported
PROPERTIES ReportsArrivalsOnly MissesNothing
SYMMETRY Interchangeable
