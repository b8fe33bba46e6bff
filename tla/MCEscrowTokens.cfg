CONSTANTS
  u1 = u1
  u2 = u2
  ar = ar
  eth = eth
  x1 = x1
  Users = {u1, u2}
  NoUser = NoUser
  NoVault = NoVault
  Slots = {1}
  Ids = {0}
  Amounts = {1}
  Locks = {1, 2}
  DefaultBounds <- MCDefaults
  DurationBounds <- MCBounds
  MinVaultSize = 1
  InitialWallet = 1
  InitialTreasury = 0
  MigrationAuthority = NoUser
  MigrationDeadline = 0
  ImportedVaults = {}
  ImportedIds = {}
  SupplySnapshots = {}
  MaxTime = 1
  Recipients = {ar, eth}
  Ethereum = {eth}
  AssetIds = {x1}
  MinVaultAmount = 1
  MinVaultLock = 1
  MaxRotations = 1
  MaxSignatures = 1
SPECIFICATION Spec
SYMMETRY MCSymmetry
CHECK_DEADLOCK FALSE
INVARIANTS
  EscrowsPaid
  OneEscrowPerSignature
PROPERTIES
  EscrowLocksKept
