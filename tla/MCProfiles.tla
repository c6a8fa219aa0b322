----------------------------- MODULE MCProfiles -----------------------------
(* Two accounts and two emails: enough for an email to pass from one       *)
(* account to the other.  The second account starts with an ADMIN's row;   *)
(* the ids are enough for two more inserts, so that two first syncs of one *)
(* account, or of one email, can both get through where nothing stops them.*)
EXTENDS Profiles

CONSTANTS a1, a2, e1, e2

TwoAccounts == {a1, a2}
TwoEmails   == {e1, e2}
AskedOrNot  == {"LANDLORD", None}
AdminOnly ==
  {[account |-> a2, email |-> e2, role |-> "ADMIN", held |-> FALSE]}
=============================================================================
