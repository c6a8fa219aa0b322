CONSTANTS
  lara = lara
  tom = tom
  bea = bea
  flat = flat
  link = link
  Users = {lara, tom, bea}
  Listings = {flat}
  Role <- MCRole
  LandlordOf <- MCLandlordOf
  Links = {link}
  Horizon = 0
  None = None
  NoRow = NoRow
  System = System
  MaxSlots = 1
  Requests = {r1, r2, r3}
  PoolSize = 3
  Bodies <- MCDecisions
  Seeds <- MCWindow
SPECIFICATION Spec
SYMMETRY Symmetry
CHECK_DEADLOCK FALSE
INVARIANTS
  AnsweredClaimIsStored
