CONSTANTS
  p1 = p1
  p2 = p2
  Pdas = {p1, p2}
  NoParent = NoParent
  Lists <- SplitLists
  Shares = {3000, 5000, 10000}
  Amounts = {1, 3}
  MaxPaid = 4
  Realloc = TRUE
SPECIFICATION Spec
SYMMETRY PdasSymmetry
INVARIANTS IInv
PROPERTIES SharesHonoured
CHECK_DEADLOCK FALSE
