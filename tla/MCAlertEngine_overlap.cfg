SPECIFICATION FairSpec
CONSTANTS
  p1 = p1
  p2 = p2
  r1 = r1
  r2 = r2
  None = None
  Rules = {r1}
  Replicas = {p1, p2}
  Duration = 1
  MaxTroubles = 5
  Faults = {"session", "crash", "unreadable", "delivery", "database", "edit"}
INVARIANT TypeOK
INVARIANT NotifyOnce
 
PROPERTY FiredInTheEnd
PROPERTY RecoveredInTheEnd
