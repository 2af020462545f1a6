CONSTANTS
  alice = alice
  bob = bob
  carol = carol
  pda = pda
  Keys = {alice, bob, carol}
  Pda = pda
  NoRecord = NoRecord
  Kinds <- ForwardRunKinds
  FeeBps = {0, 5000, 10000}
  Amounts = {1, 3}
  Purse = 5
  Rent = 2
  U64Max = 19999
  MaxPaid = 6
SPECIFICATION Spec
SYMMETRY KeysSymmetry
INVARIANTS IInv
PROPERTIES KeepsPromise TargetGetsHalf TooMuchStays
CHECK_DEADLOCK FALSE
