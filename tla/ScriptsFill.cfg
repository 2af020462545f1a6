CONSTANTS
  wallet = wallet
  other = other
  s1 = s1
  Keys = {wallet, other}
  Creators = {wallet}
  CollectionIds = {0}
  Mints = {1, 2}
  MintKinds = {"AddressV6"}
  MaxSupply = 2
  Lens = {1}
  MetadataUpdates = FALSE
  NoHolder = NoHolder
  NoInstruction = NoInstruction
  NoMint = 0
  Scripts = {s1}
  Wallet = wallet
  Target <- RunTarget
  MaxFlight = 2
SPECIFICATION FairSpec
INVARIANTS IInv NothingLandsLate
PROPERTIES ImplementsRegistry ScriptsFill OneNftForAJob
CHECK_DEADLOCK FALSE
