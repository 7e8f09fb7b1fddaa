SPECIFICATION Spec
CONSTANTS
  newP = newP
  newK = newK
  newQ = newQ
  editA = editA
  editB = editB
  delQ = delQ
  P = P
  K = K
  Q = Q
  NoGuuid = NoGuuid
  NoMutation = NoMutation
  Guuids = {P, K, Q}
  GuuidOf <- MCGuuid
  ParentOf <- MCParent
  ActionOf <- MCAction
  ExpectedOf <- MCExpected
  QueuedAt <- MCQueued
  InitialRows <- MCInitialRows
  Malformed = {}
  IdempotencyTtl = 2
  ConflictTtl = 1
  ReplayWindow = 1
  Mutations = {editA, editB, delQ, newQ}
  StateGuarded = {}
  Requests = {r1, r2}
  Batches <- EditBatches
  PoisonMax = 1
  WaveConcurrency = 2
  MaxClock = 1
  Gates = {"ok"}
SYMMETRY RequestSymmetry
CONSTRAINT EditFocus
INVARIANTS
  Inductive
  OneEditAtATime
  AppliedIffEffect
PROPERTIES
  AppliedIsFinal
