CONSTANTS
  lara = lara
  tom = tom
  bea = bea
  flat = flat
  link = link
  Users = {lara, tom, bea}
  Listings = {flat}
  Role <- MCRole
  LandlordOf <- MCLandlordOf
  Links = {link}
  Horizon = 0
  None = None
  NoRow = NoRow
  System = System
  MaxSlots = 4
  Requests = {r1, r2, r3}
  PoolSize = 2
  Bodies <- MCDecisions
  Seeds <- MCPending
SPECIFICATION FairSpec
CHECK_DEADLOCK FALSE
PROPERTIES
  EveryRequestEnds
