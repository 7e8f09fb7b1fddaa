SPECIFICATION LimitsSpec
CONSTANTS
  Stores = {s1, s2}
  Devices = {d1, d2}
  Owners = {d1}
  Plans = {"small", "large"}
  MaxStores <- Limit
  MaxDevices <- Limit
  MaxPayments = 2
  MaxRows = 1
  MaxExpired = 1
INVARIANTS
  LimitsInv
PROPERTIES
  LimitsHold
  OwnerStaysIn
SYMMETRY Renaming
CHECK_DEADLOCK FALSE
