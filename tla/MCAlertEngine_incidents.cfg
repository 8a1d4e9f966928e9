SPECIFICATION Spec
CONSTANTS
  p1 = p1
  p2 = p2
  r1 = r1
  r2 = r2
  None = None
  Rules = {r1}
  Replicas = {p1, p2}
  Duration = 0
  MaxTroubles = 5
  Faults = {"session"}
INVARIANT IncidentsResolved
