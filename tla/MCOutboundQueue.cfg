SPECIFICATION FairSpec
CONSTANTS
  sale = sale
  bad = bad
  cycle = cycle
  flush = flush
  Nobody = Nobody
  NoCursor = NoCursor
  Cycles = {cycle}
  MaxAttempts = 2
  MaxBatches = 2
  Mutations = {sale, bad}
  Poison = {bad}
  Flushes = {flush}
  Calls = {c1, c2}
  MaxFaults = 2
CONSTRAINT Focus
INVARIANTS
  Inv
  WritesStayVisible
PROPERTIES
  SettledStaysSettled
  EverythingSettles
