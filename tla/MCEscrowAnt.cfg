CONSTANTS
  u1 = u1
  u2 = u2
  ar = ar
  eth = eth
  x1 = x1
  Users = {u1, u2}
  Recipients = {ar, eth}
  Ethereum = {eth}
  Assets = {x1}
  Escrow = Escrow
  Burned = Burned
  Authority = u1
  PurgeGrace = 1
  MaxSlot = 1
  MaxRotations = 2
  MaxSignatures = 2
SPECIFICATION Spec
CHECK_DEADLOCK FALSE
INVARIANTS
  InCustody
PROPERTIES
  CustodyKept
