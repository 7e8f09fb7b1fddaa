SPECIFICATION BatchSpec
CONSTANTS
  NoGuuid = NoGuuid
  NoMutation = NoMutation
  Entities = {g1, g2}
  MaxBatch = 4
INVARIANTS
  CyclesExactly
  ParentsInEarlierWave
  EntityEditsInOrder
CHECK_DEADLOCK FALSE
