CONSTANTS
  alice = alice
  bob = bob
  carol = carol
  pda = pda
  Keys = {alice, bob}
  Pda = pda
  NoRecord = NoRecord
  Kinds <- LimitsRunKinds
  FeeBps = {0, 1}
  Amounts = {10001}
  Purse = 30010
  Rent = 2
  U64Max = 19999
  MaxPaid = 50005
SPECIFICATION FairSpec
INVARIANTS IInv
PROPERTIES KeepsPromise ForwardDrains
CHECK_DEADLOCK FALSE
