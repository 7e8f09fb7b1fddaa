SPECIFICATION Spec
CONSTANTS
  piece = piece
  Lines = {piece}
  QtyOf <- MCQty
  PaiseOf <- MCPaise
  Sales = {s1, s2}
  Bills = {b1}
  BillPaise = 4
  Limit = 6
  Credits = {0, 4}
  Sums = {2, 3}
  Workers = {w1, w2}
  NoOne = NoOne
SYMMETRY Renaming
CONSTRAINT Unraced
INVARIANTS
  Inv
  ReturnsAreExact
  BooksAgree
PROPERTIES
  DebtInHand
