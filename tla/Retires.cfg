\* Every watch ends, with blinks, failing queries, deletions, stops and a lost connection.
SPECIFICATION Spec
CONSTANTS
  home = home  away = away  here = here  park = park  street = street
  phone = phone
  Elsewhere = Elsewhere  NoPlace = NoPlace  NoRow = NoRow  NoWatch = NoWatch
  Places = {park}
  Vehicles = {v1}
  Watches = {w1}
  MaxClock = 2
  Env = {"blink", "upstream", "stop", "delete", "save", "cancel", "reconnect"}
  Fences = {home}
  Devices = {phone}
  Processes = {d}
  Daemon = d  Server = d
  MaxGen = 1
  Home = home  HomePlace = park
  OneCircle <- ManyQueries
  Clients = {c1}
  Requests <- AskMix
  AdhocFences = {}
  Sites <- AnyPlace
PROPERTIES EveryWatchRetires
