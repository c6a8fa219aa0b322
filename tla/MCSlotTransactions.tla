------------------------ MODULE MCSlotTransactions ------------------------
(* Instances of SlotTransactions for TLC: one listing, its owner, a tenant  *)
(* and a user who is both, and one row in a state the program leaves it in. *)
EXTENDS SlotTransactions, TLC

CONSTANTS lara, tom, bea, flat, link

MCRole == lara :> "LANDLORD" @@ tom :> "TENANT" @@ bea :> "BOTH"
MCLandlordOf == flat :> lara

Empty == [status |-> None, meet_link |-> None, start_time |-> None, type |-> None]

(* One body for each thing a PATCH asks, and one that mixes both halves.     *)
Decide  == [Empty EXCEPT !.status = "CONFIRMED"]
Decline == [Empty EXCEPT !.status = "DECLINED"]
Cancel  == [Empty EXCEPT !.status = "CANCELLED"]
Relink  == [Empty EXCEPT !.meet_link = link]
Retype  == [Empty EXCEPT !.type = "ON_SITE"]
Mixed   == [Empty EXCEPT !.status = "CANCELLED", !.type = "ON_SITE"]

MCBodies == {Decide, Decline, Cancel, Relink, Retype, Mixed}
MCDecisions == {Decide, Cancel}
MCSerialBodies == {Decide, Mixed}

Window    == [NewWindow(flat, 0, "REMOTE", None) EXCEPT !.meet_link = link]
Pending   == Claimed(Window, tom, None)
Confirmed == [Pending EXCEPT !.status = "CONFIRMED"]
Proposal  == NewProposal(tom, flat, 0, "REMOTE", None)

MCSeeds == {Window, Pending, Confirmed, Proposal}
MCNoSeed == {NoRow}
MCPending == {Pending}
MCWindow == {Window}

Symmetry == Permutations(Requests)
============================================================================
