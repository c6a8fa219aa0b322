----------------------------- MODULE MCListings -----------------------------
(* One listing, its landlord and two ADMINs, either of whom may go.        *)
EXTENDS Listings, TLC

CONSTANTS home, landlord, admin, other

OneListing  == {home}
OneLandlord == {landlord}
TwoAdmins   == {admin, other}
OwnerOf(l)  == landlord

OneOrTwo    == {1, 2}
Symmetric   == Permutations(Requests) \cup Permutations(Keys) \cup Permutations(TwoAdmins)
=============================================================================
