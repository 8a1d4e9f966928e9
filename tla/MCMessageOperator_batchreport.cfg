SPECIFICATION Spec
CONSTANTS
  c1 = c1
  c2 = c2
  r1 = r1
  r2 = r2
  a = a
  b = b
  None = None
  Fps = {a, b}
  N = 2
  B = 2
  MaxScan = 2
  Clients = {c1, c2}
  Replicas = {r1}
  Shared = FALSE
  Quorum = FALSE
  Faults = {"unroutable", "connection"}
  Fp <- FpDistinct
  ReplicaOf <- OneReplica
  Jobs <- MoveMany
INVARIANT BatchReportsWhatMoved
