\* One listing; three requests, on a pool of one or two connections, so
\* that the same instance shows what holds one at a time and what overlaps.
SPECIFICATION Spec
CONSTANTS
  home = home
  landlord = landlord
  admin = admin
  other = other
  None = None
  Listings <- OneListing
  Landlords <- OneLandlord
  Admins <- TwoAdmins
  Landlord <- OwnerOf
  Keys = {k1, k2}
  Requests = {r1, r2, r3}
  Pools <- OneOrTwo
  MaxImages = 1
SYMMETRY Symmetric
INVARIANTS
  TypeOK
  ImagesBounded
  StoreAgrees
  NothingDangles
  VerificationAgrees
PROPERTIES
  VerdictsAreRecorded
CHECK_DEADLOCK FALSE
