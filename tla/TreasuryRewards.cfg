CONSTANTS
  c1 = c1
  c2 = c2
  Collections = {c1, c2}
  Supply = 2
  MintKinds = {"CloneV2"}
  Rewards = {2, 200}
  Payments = {1}
  MaxTreasury = 2
  MaxInits = 1
  Rent = 1
  U64 = 256
  U8 = 2
  Crafted <- RunCrafted
  None = None
SYMMETRY Symmetric
SPECIFICATION Spec
INVARIANTS IInv RewardsAccounted FamiliesSound
PROPERTIES NoRewardFromNothing
CHECK_DEADLOCK FALSE
