SPECIFICATION FairSpec
CONSTANTS
  Calls = {c1, c2}
  Guards = {g1}
  MaxToken = 2
  PendingTtl = 1
  Grace = 2
  DoneTtl = 3
  CacheTtl = 3
  MaxCall = 2
  Faults = {"lost", "crash", "redis"}
  MaxFaults = 1
  NoOne = NoOne
INVARIANTS Inv HonestKeepsSession
PROPERTIES Recovers
CHECK_DEADLOCK FALSE
