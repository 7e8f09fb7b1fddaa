SPECIFICATION FairSpec
CONSTANTS
  Stores = {s1, s2}
  Opened = {s1}
  MaxOpens = 2
  MaxRetries = 1
  MaxFaults = 2
  Nothing = Nothing
INVARIANTS
  Inv
PROPERTIES
  OpensAndPushes
