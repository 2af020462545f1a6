CONSTANTS
  p1 = p1
  p2 = p2
  Pdas = {p1, p2}
  NoParent = NoParent
  Lists <- RunLists
  Shares = {3000}
  Amounts = {1, 3}
  MaxPaid = 4
  Realloc = FALSE
SPECIFICATION Spec
SYMMETRY PdasSymmetry
INVARIANTS IInv NobodyIsAChild
PROPERTIES SharesHonoured
CHECK_DEADLOCK FALSE
