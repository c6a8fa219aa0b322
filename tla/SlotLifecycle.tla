--------------------------- MODULE SlotLifecycle ---------------------------
(***************************************************************************)
(* What the booking service promises of one window, without listings,      *)
(* links, roles or requests: a window is offered or proposed, held by at   *)
(* most one candidate at a time, decided once, freed, and gone for good.   *)
(***************************************************************************)
CONSTANTS Ids, Candidates, Nobody

VARIABLES
  phase,    \* "new", "open", "pending", "confirmed" or "gone"
  origin,   \* who authored the window: "landlord", "candidate" or "none"
  holder,   \* the candidate that booked it, or Nobody
  people    \* the candidates that still have a profile

lifecycle == <<phase, origin, holder, people>>

Init ==
  /\ phase = [i \in Ids |-> "new"]
  /\ origin = [i \in Ids |-> "none"]
  /\ holder = [i \in Ids |-> Nobody]
  /\ people = Candidates

Enter(i, p, h) ==
  /\ phase' = [phase EXCEPT ![i] = p]
  /\ holder' = [holder EXCEPT ![i] = h]
  /\ UNCHANGED people

Offer(i) ==
  /\ phase[i] = "new"
  /\ Enter(i, "open", Nobody)
  /\ origin' = [origin EXCEPT ![i] = "landlord"]

Propose(i, c) ==
  /\ phase[i] = "new" /\ c \in people
  /\ Enter(i, "pending", c)
  /\ origin' = [origin EXCEPT ![i] = "candidate"]

Book(i, c) ==
  /\ phase[i] = "open" /\ c \in people
  /\ Enter(i, "pending", c)
  /\ UNCHANGED origin

Confirm(i) ==
  /\ phase[i] = "pending"
  /\ Enter(i, "confirmed", holder[i])
  /\ UNCHANGED origin

(* Only a window the landlord offered returns to availability. *)
Free(i) ==
  /\ phase[i] \in {"pending", "confirmed"}
  /\ origin[i] = "landlord"
  /\ Enter(i, "open", Nobody)
  /\ UNCHANGED origin

(* Availability may be withdrawn and a proposal dropped; a booking of a     *)
(* window the landlord offered is never what a request deletes.            *)
Vanish(i) ==
  /\ \/ phase[i] = "open"
     \/ phase[i] \in {"pending", "confirmed"} /\ origin[i] = "candidate"
  /\ Enter(i, "gone", Nobody)
  /\ origin' = [origin EXCEPT ![i] = "none"]

(* A candidate's profile goes and takes every window he holds with it.     *)
Leave(c) ==
  /\ c \in people
  /\ people' = people \ {c}
  /\ phase' = [i \in Ids |-> IF holder[i] = c THEN "gone" ELSE phase[i]]
  /\ origin' = [i \in Ids |-> IF holder[i] = c THEN "none" ELSE origin[i]]
  /\ holder' = [i \in Ids |-> IF holder[i] = c THEN Nobody ELSE holder[i]]

Next ==
  \/ \E i \in Ids : Offer(i) \/ Confirm(i) \/ Free(i) \/ Vanish(i)
  \/ \E i \in Ids, c \in Candidates : Propose(i, c) \/ Book(i, c)
  \/ \E c \in Candidates : Leave(c)

Spec == Init /\ [][Next]_lifecycle
============================================================================
