SPECIFICATION FairSpec
CONSTANTS
  None = None
  x = x
  y = y
  v = v
  home = home
  away = away
  Replicas = {p, q}
  Clients = {c}
  Names = {x}
  Vhosts = {v}
  Brokers = {home, away}
  DefaultBroker = home
  Configured <- AllNone
  StoredBefore <- AllNone
  Bodies <- OnlyXAway
  MaxBundles = 2
  MaxChanges = 2
  MaxTroubles = 1
  Faults = {"database", "broker", "crash"}
INVARIANT ClosedWhenRemoved
 
PROPERTY RequestsEnd
PROPERTY ReadyInTheEnd
