SPECIFICATION FairSpec
CONSTANTS
  m1 = m1
  m2 = m2
  s = s
  q1 = q1
  r1 = r1
  r2 = r2
  Messages = {m1, m2, s}
  Strays = {s}
  Queues = {q1}
  Origin <- OneQueue
  Runs = {r1, r2}
  MaxDeaths = 3
  Backoff = 1
  Cap = 1
  Brokers = {3, 4}
  MaxRound = 1
  MaxTroubles = 1
  Faults = {"refused", "broker", "database", "crash", "environment", "consumers", "edit"}
INVARIANT TypeOK
INVARIANT ParkedForCause
PROPERTY OnlyWhenDue
 
PROPERTY GonePolicyIsPaused
CHECK_DEADLOCK FALSE
