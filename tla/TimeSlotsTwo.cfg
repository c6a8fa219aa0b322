CONSTANTS
  lara = lara
  tom = tom
  bea = bea
  ada = ada
  flat = flat
  Users = {lara, tom, bea}
  Listings = {flat}
  Role <- MCRoleNoAdmin
  LandlordOf <- MCLandlordOf
  Links = {}
  Horizon = 1
  None = None
  NoRow = NoRow
  MaxSlots = 2
  System = System
SPECIFICATION Spec
PROPERTIES
  FollowsLifecycle
