CONSTANTS
  lara = lara
  tom = tom
  bea = bea
  ada = ada
  flat = flat
  Users = {lara, tom, bea, ada}
  Listings = {flat}
  Role <- MCRole
  LandlordOf <- MCLandlordOf
  Links = {link}
  Horizon = 1
  None = None
  NoRow = NoRow
  MaxSlots = 1
  System = System
SPECIFICATION Spec
PROPERTIES
  TypeLockedOnceClaimed
