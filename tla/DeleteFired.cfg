\* A fence whose watch has fired cannot be deleted.
SPECIFICATION Safe
CONSTANTS
  home = home  away = away  here = here  park = park  street = street
  phone = phone
  Elsewhere = Elsewhere  NoPlace = NoPlace  NoRow = NoRow  NoWatch = NoWatch
  Places = {park}
  Vehicles = {v1}
  Watches = {w1}
  MaxClock = 2
  Env = {"delete"}
  Fences = {home}
  Devices = {phone}
  Processes = {d}
  Daemon = d  Server = d
  MaxGen = 1
  Home = home  HomePlace = park
  OneCircle <- ManyQueries
  Clients = {c1}
  Requests <- AskOnce
  AdhocFences = {}
  Sites <- OnePlaceEach
INVARIANTS DeleteSucceeds
