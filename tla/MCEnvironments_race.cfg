SPECIFICATION Spec
CONSTANTS
  None = None
  x = x
  y = y
  v = v
  home = home
  away = away
  Replicas = {p, q}
  Clients = {c, d}
  Names = {x}
  Vhosts = {v}
  Brokers = {home}
  DefaultBroker = home
  Configured <- AllNone
  StoredBefore <- AllStored
  Bodies <- OnlyX
  MaxBundles = 2
  MaxChanges = 3
  MaxTroubles = 1
  Faults = {"database", "crash"}
SYMMETRY Alike
INVARIANT TypeOK
INVARIANT OneConnectionPerScope
