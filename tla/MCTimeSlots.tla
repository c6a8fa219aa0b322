---------------------------- MODULE MCTimeSlots ----------------------------
(* Instances of TimeSlots for TLC: the owner of the only listing, a tenant, *)
(* a user who is both, and an administrator.                                *)
EXTENDS SlotMigration, TLC

CONSTANTS lara, tom, bea, ada, flat

MCRole == lara :> "LANDLORD" @@ tom :> "TENANT" @@ bea :> "BOTH" @@ ada :> "ADMIN"
MCRoleNoAdmin == lara :> "LANDLORD" @@ tom :> "TENANT" @@ bea :> "BOTH"
MCLandlordOf == flat :> lara
============================================================================
