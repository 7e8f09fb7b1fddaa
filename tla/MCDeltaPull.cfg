SPECIFICATION FairSpec
CONSTANTS
  Entities = {1, 2}
  Rows = {1, 2}
  Initial = {1}
  Writers = {w1}
  PageSize = 1
  Lag = 1
  PoisonCap = 2
  RetryBatch = 1
  MaxVersion = 2
  MaxClock = 3
  MaxEvents = 1
  Kinds = {"lost", "logout", "view", "own"}
  NoCursor = NoCursor
  EntityOf <- MCEntityOf
  Faulty <- MCFaulty
CONSTRAINT Focus
INVARIANTS
  Inv
  NoGap
PROPERTIES
  Converges
