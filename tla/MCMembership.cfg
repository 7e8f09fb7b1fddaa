SPECIFICATION MembersSpec
CONSTANTS
  Users = {u1}
  Roles = {r1}
  Invites = {i1, i2}
  Grants = {g1}
  Workers = {w1, w2}
  CriticalTtl = 1
  StandardTtl = 3
  MaxVersion = 2
  NoOne = NoOne
SYMMETRY Renaming
CONSTRAINT Focus
INVARIANTS
  MembersInv
  GrantsCatchUp
PROPERTIES
  DecidedOnce
