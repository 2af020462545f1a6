CONSTANTS
  alice = alice
  bob = bob
  m1 = m1
  m2 = m2
  Keys = {alice, bob}
  Creators = {alice}
  CollectionIds = {0}
  Mints = {m1, m2}
  MintKinds <- SafetyRunKinds
  MaxSupply = 2
  Lens = {1, 2}
  MetadataUpdates = FALSE
  OwnAccounts = FALSE
  NoHolder = NoHolder
SPECIFICATION FairSpec
INVARIANTS IInv
PROPERTIES IssuedInOrder BlockedForGood SbtBound ShortenedIsFrozen FilledOrBlocked
CHECK_DEADLOCK FALSE
