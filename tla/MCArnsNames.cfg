SPECIFICATION Spec
SYMMETRY MCSymmetry
CHECK_DEADLOCK FALSE
CONSTANTS
  u1 = u1  u2 = u2  n1 = n1  n2 = n2  a1 = a1  a2 = a2
  Users = {u1, u2}
  Names = {n1, n2}
  Assets = {a1, a2}
  Protocol = Protocol
  Permanent = Permanent
  None = None
  LengthOf <- MCLengthOf
  Purses <- MCPurses
  Imported <- MCImported
  Qualified = {u1}
  Scale = 8
  FactorMin = 2
  FactorMax = 12
  UpAdjustment = 12
  DownAdjustment = 4
  MaxPeriodsAtMin = 1
  Window = 2
  MaxRollover = 3
  PeriodLength = 2
  GenesisFees <- MCFees
  InitialFactor = 4
  ByPurchases = FALSE
  AnnualPct = 16
  LeaseUndernamePct = 8
  PermabuyUndernamePct = 8
  DiscountPct = 2
  MaxMultiplier = 2
  AuctionDuration = 1
  Year = 2
  MaxLeaseYears = 1
  Grace = 1
  DefaultUndernames = 1
  MaxUndernames = 2
  Capacity = 1
  MaxIncrease = 1
  MaxCapacity = 2
  MaxTime = 3
  Reservations <- MCReservations
INVARIANTS
  RegistryMirrors
  LeaseHorizon
  LazyIsEager
PROPERTIES
  GraceProtects
