CONSTANTS
  alice = alice
  bob = bob
  m1 = m1
  m2 = m2
  Keys = {alice, bob}
  Creators = {alice}
  CollectionIds = {0}
  Mints = {m1, m2}
  MintKinds = {"AddressV3", "AddressV6"}
  MaxSupply = 2
  Lens = {1, 2}
  MetadataUpdates = TRUE
  OwnAccounts = TRUE
  NoHolder = NoHolder
SYMMETRY MintsSymmetry
SPECIFICATION Spec
INVARIANTS RecordsMatchTokens
CHECK_DEADLOCK FALSE
