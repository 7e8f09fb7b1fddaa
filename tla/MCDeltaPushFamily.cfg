SPECIFICATION FairSpec
CONSTANTS
  newP = newP
  newK = newK
  newQ = newQ
  editA = editA
  editB = editB
  delQ = delQ
  P = P
  K = K
  Q = Q
  NoGuuid = NoGuuid
  NoMutation = NoMutation
  Guuids = {P, K, Q}
  GuuidOf <- MCGuuid
  ParentOf <- MCParent
  ActionOf <- MCAction
  ExpectedOf <- MCExpected
  QueuedAt <- MCQueued
  InitialRows <- MCInitialRows
  Malformed = {}
  IdempotencyTtl = 2
  ConflictTtl = 1
  ReplayWindow = 1
  Mutations = {newP, newK}
  StateGuarded = {newK}
  Requests = {r1, r2}
  Batches <- FamilyBatches
  PoisonMax = 1
  WaveConcurrency = 1
  MaxClock = 0
  Gates = {"ok", "deny", "later"}
INVARIANTS
  AppliedAnswerIsTrue
  ChildAfterParent
  PoisonBounded
PROPERTIES
  RefinesLedger EveryCallAnswered
