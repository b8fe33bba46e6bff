CONSTANTS
  h1 = h1
  h2 = h2
  h3 = h3
  NoHolder = NoHolder
  Closed = Closed
  ant = ant
  Holders = {h1, h2, h3}
  Ants = {ant}
  Undernames = {"@", "blog"}
  MaxControllers = 2
  MaxPageEntries = 2
  MaxPages = 1
  AclHolders = {h1, h2}
  Described = {"blog"}
  AntAuthority = h3
SPECIFICATION AntSpec
SYMMETRY Interchangeable
INVARIANTS
  NoInheritedAuthority
  AclIndexed
CHECK_DEADLOCK FALSE
