CONSTANTS
  u1 = u1
  u2 = u2
  Users = {u1, u2}
  NoUser = NoUser
  NoVault = NoVault
  Slots = {1}
  Ids = {0}
  Amounts = {1}
  Locks <- MCLocks
  DefaultBounds <- MCDefaults
  DurationBounds <- MCBounds
  MinVaultSize = 1
  InitialWallet = 1
  InitialTreasury = 1
  MigrationAuthority = u2
  MigrationDeadline = 1
  ImportedVaults <- MCImports
  ImportedIds = {1}
  SupplySnapshots <- MCSnapshots
  MaxTime = 1
SPECIFICATION CoreSpec
CHECK_DEADLOCK FALSE
INVARIANTS
  SupplyAccounted
PROPERTIES
  VaultLocksKept
