SPECIFICATION GateSpec
CONSTANTS
  Payments = {p1, p2}
  Requests = {r1}
  CacheTtl = 1
  MaxChanges = 5
  MaxWindow = 2
  Crashes = TRUE
INVARIANTS
  GateInv
  GateCatchesUp
SYMMETRY Renaming
