SPECIFICATION FairSpec
CONSTANTS
  None = None
  x = x
  y = y
  v = v
  home = home
  away = away
  Replicas = {p}
  Clients = {c, d}
  Names = {x, y}
  Vhosts = {v}
  Brokers = {home}
  DefaultBroker = home
  Configured <- AllNone
  StoredBefore <- AllNone
  Bodies <- XAndY
  MaxBundles = 2
  MaxChanges = 3
  MaxTroubles = 0
  Faults = {"database", "broker", "crash"}
PROPERTY RemovedStopsWorking
