SPECIFICATION Spec
CONSTANTS
  c1 = c1
  c2 = c2
  r1 = r1
  r2 = r2
  a = a
  b = b
  None = None
  Fps = {a, b}
  N = 4
  B = 3
  MaxScan = 3
  Clients = {c1, c2}
  Replicas = {r1, r2}
  Shared = TRUE
  Quorum = TRUE
  Faults = {"target", "refused"}
  Fp <- FpDuplicate
  ReplicaOf <- TwoReplicas
  Jobs <- KeepOrder
INVARIANT QuorumOrderKept
INVARIANT OneReader
INVARIANT DuplicatesUntouched
INVARIANT NotFoundIsTrue
INVARIANT RefusalChangesNothing
