SPECIFICATION Spec
CONSTANTS
  c1 = c1
  c2 = c2
  r1 = r1
  r2 = r2
  f = f
  g = g
  s1 = s1
  s2 = s2
  None = None
  Fps = {f, g}
  Tokens = {t}
  Runs = {c1, c2}
  Replicas = {r1, r2}
  ReplicaOf <- TwoReplicas
  Admins = {c1}
  Scopes = {s1, s2}
  Backlog <- OneOfEach
  Dryable = {"copy", "move", "delete"}
  Ttl = 0
  MaxNow = 1
  MaxCopies = 2
  MaxChanges = 1
  Faults = {"database", "delivery", "refused", "connection", "crash"}
SYMMETRY Symmetry
INVARIANT TypeOK
INVARIANT OneExecution
INVARIANT OnlyApproved
INVARIANT NoAuditNoAction
INVARIANT OnlyAdminsDelete
 
PROPERTY PromiseSpec
