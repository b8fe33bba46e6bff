CONSTANTS
  h1 = h1
  h2 = h2
  ant = ant
  base = base
  NoHolder = NoHolder
  Closed = Closed
  Permanent = Permanent
  Holders = {h1, h2}
  Ants = {ant}
  Undernames = {"@", "blog"}
  MaxControllers = 2
  MaxPageEntries = 0
  MaxPages = 0
  AclHolders = {}
  Described = {}
  AntAuthority = h1
  Bases = {base}
  LeaseEnds = {0}
  GracePeriod = 0
  RequestExpiry = 1
  LeaseFee = 1
  PermabuyFee = 1
  DemandFactor = 3
  Scale = 2
  InitialFunds <- MCFunds
  MaxTime = 1
SPECIFICATION Spec
SYMMETRY Interchangeable
INVARIANTS
  NamesPaired
PROPERTIES
  NamesByRight
CHECK_DEADLOCK FALSE
