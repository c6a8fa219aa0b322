----------------------------- MODULE SlotRules -----------------------------
(***************************************************************************)
(* The rules of app/services/time_slot.py that are functions of one row of *)
(* the time_slots table and one request: who may do what to the row, what  *)
(* the row becomes, and who is written to about it.  TimeSlots runs them   *)
(* one request at a time, SlotTransactions one database statement at a     *)
(* time.                                                                   *)
(***************************************************************************)
EXTENDS Naturals

CONSTANTS
  Users,        \* profiles that have ever existed
  Listings,
  Role,         \* Role[u]: users.role
  LandlordOf,   \* LandlordOf[l]: listings.landlord_id, never reassigned
  Links,        \* non-empty meeting links
  Horizon,      \* bound: the clock and every start time are 0..Horizon
  None,         \* SQL NULL, and a field the request left out
  NoRow         \* no row with this id

Roles    == {"LANDLORD", "TENANT", "BOTH", "ADMIN"}
Statuses == {"OPEN", "PENDING", "CONFIRMED", "DECLINED", "CANCELLED"}
Types    == {"REMOTE", "ON_SITE"}
Times    == 0..Horizon
Kinds    == {"created", "confirmed", "declined", "cancelled"}

SlotRow == [listing : Listings, start_time : Times, status : Statuses,
            candidate : Users \cup {None}, landlord_created : BOOLEAN,
            type : Types, meet_link : Links \cup {None}]

(* The body of PATCH /time-slots/{id}: four optional fields. *)
PatchData == [status : Statuses \cup {None}, meet_link : Links \cup {None},
              start_time : Times \cup {None}, type : Types \cup {None}]

Mail == [to : Users, kind : Kinds]

ASSUME RulesAssumption ==
  /\ Horizon \in Nat
  /\ Role \in [Users -> Roles]
  /\ LandlordOf \in [Listings -> Users]
  /\ None \notin Users /\ None \notin Links
  /\ None \notin Statuses /\ None \notin Types /\ None \notin Times
  /\ NoRow \notin SlotRow

VALID_TRANSITIONS ==
  [OPEN |-> {}, PENDING |-> {"CONFIRMED", "DECLINED", "CANCELLED"},
   CONFIRMED |-> {"CANCELLED"}, DECLINED |-> {}, CANCELLED |-> {}]

Landlord(row) == LandlordOf[row.listing]

(* A meeting link only makes sense on a REMOTE slot. *)
ValidateMeetLink(type, link) == link # None => type # "ON_SITE"

EnsureOwner(u, row) == Role[u] = "ADMIN" \/ Landlord(row) = u

(* Wrong: any caller passes the ownership check. *)
AnyoneActs(u, row) == row # NoRow

(* verify_time_slot_ownership: an ADMIN is let through without a row. *)
VerifyOwnership(u, row) ==
  \/ Role[u] = "ADMIN"
  \/ row # NoRow /\ (row.candidate = u \/ Landlord(row) = u)

(* Wrong: a field left out is written as NULL. *)
AssignNulls(field, old) == field

Given(field, old) == IF field = None THEN old ELSE field

----------------------------------------------------------------------------
(* New rows *)

NewWindow(l, t, type, link) ==
  [listing |-> l, start_time |-> t, status |-> "OPEN", candidate |-> None,
   landlord_created |-> TRUE, type |-> type, meet_link |-> link]

NewProposal(u, l, t, type, link) ==
  [listing |-> l, start_time |-> t, status |-> "PENDING", candidate |-> u,
   landlord_created |-> FALSE, type |-> type, meet_link |-> link]

MayCreate(u, l, type, link) ==
  /\ Role[u] \in {"LANDLORD", "BOTH", "ADMIN"}
  /\ Role[u] = "ADMIN" \/ LandlordOf[l] = u
  /\ ValidateMeetLink(type, link)

(* `listed` is the set of ACTIVE listings. *)
MayPropose(u, l, t, type, link, listed, clock) ==
  /\ l \in listed
  /\ LandlordOf[l] # u
  /\ ValidateMeetLink(type, link)
  /\ t >= clock

----------------------------------------------------------------------------
(* Claiming an open window *)

(* Wrong: the status of the window is not checked. *)
ClaimTaken(u, row, link, listed, clock) ==
  /\ row # NoRow /\ row.listing \in listed
  /\ Landlord(row) # u /\ row.start_time >= clock
  /\ ValidateMeetLink(row.type, link)

MayClaim(u, row, link, listed, clock) ==
  /\ row # NoRow
  /\ row.listing \in listed
  /\ Landlord(row) # u
  /\ row.status = "OPEN"
  /\ row.start_time >= clock
  /\ ValidateMeetLink(row.type, link)

Claimed(row, u, link) ==
  [row EXCEPT !.status = "PENDING", !.candidate = u, !.meet_link = link]

----------------------------------------------------------------------------
(* Releasing a booking *)

(* Wrong: the release forgets to clear the candidate. *)
ReleaseKeepsCandidate(row) ==
  IF row.landlord_created THEN [row EXCEPT !.status = "OPEN", !.meet_link = None] ELSE NoRow

(* Wrong: the release forgets to clear the meeting link. *)
ReleaseKeepsLink(row) ==
  IF row.landlord_created THEN [row EXCEPT !.status = "OPEN", !.candidate = None] ELSE NoRow

(* Wrong: a released proposal becomes availability. *)
ReleaseOpensAll(row) ==
  [row EXCEPT !.status = "OPEN", !.candidate = None, !.meet_link = None]

Release(row) ==
  IF row.landlord_created
  THEN [row EXCEPT !.status = "OPEN", !.candidate = None, !.meet_link = None]
  ELSE NoRow

(* `present` is the set of profiles in the users table. *)
CreatedMail(row, present) ==
  {[to |-> v, kind |-> "created"] : v \in {Landlord(row)} \cap present}

(* Wrong: the candidate is told of his own cancellation. *)
ReleaseMailToCandidate(actor, row, reason, present) ==
  {[to |-> u, kind |-> "cancelled"] : u \in {row.candidate} \cap present}

ReleaseMail(actor, row, reason, present) ==
  IF ~ {row.candidate, Landlord(row)} \subseteq present THEN {}
  ELSE IF reason = "DECLINED" THEN {[to |-> row.candidate, kind |-> "declined"]}
  ELSE {[to |-> IF actor = row.candidate THEN Landlord(row) ELSE row.candidate,
         kind |-> "cancelled"]}

ConfirmedMail(row, present) ==
  IF row.status = "CONFIRMED" /\ {row.candidate, Landlord(row)} \subseteq present
  THEN {[to |-> row.candidate, kind |-> "confirmed"]} ELSE {}

----------------------------------------------------------------------------
(* PATCH: update_time_slot calls update_booking, then update_slot *)

PatchesBooking(d) == d.status # None \/ d.meet_link # None
PatchesWindow(d)  == d.start_time # None \/ d.type # None

(* Wrong: DECLINED is assigned like any other status. *)
OnlyCancelReleases(d) == d.status = "CANCELLED"

Releases(d)       == d.status \in {"DECLINED", "CANCELLED"}

(* Wrong: the landlord check on decisions is missing. *)
AnyPartyConfirms(u, row, d) ==
  /\ d.status # None => d.status \in VALID_TRANSITIONS[row.status]
  /\ ~Releases(d) => ValidateMeetLink(row.type, d.meet_link)

MayUpdateBooking(u, row, d) ==
  /\ d.status # None =>
       /\ d.status \in {"CONFIRMED", "DECLINED"} => Landlord(row) = u
       /\ d.status \in VALID_TRANSITIONS[row.status]
  /\ ~Releases(d) => ValidateMeetLink(row.type, d.meet_link)

(* Every field the request gives is assigned, the landlord's included. *)
UpdateBooking(row, d) ==
  IF Releases(d) THEN Release(row)
  ELSE [row EXCEPT !.status = Given(d.status, @), !.meet_link = Given(d.meet_link, @),
                   !.start_time = Given(d.start_time, @), !.type = Given(d.type, @)]

(* Wrong: update_slot trusts the router's check. *)
CandidateUpdatesSlot(u, row, d) ==
  Given(d.type, row.type) # row.type => row.status = "OPEN"

MayUpdateSlot(u, row, d) ==
  /\ EnsureOwner(u, row)
  /\ Given(d.type, row.type) # row.type => row.status = "OPEN"

UpdateSlot(row, d) ==
  [row EXCEPT
     !.type = Given(d.type, @),
     !.meet_link = IF d.type = "ON_SITE" /\ row.type # "ON_SITE" THEN None ELSE @,
     !.start_time = Given(d.start_time, @)]

AfterBooking(row, d) == IF PatchesBooking(d) THEN UpdateBooking(row, d) ELSE row

UpdatesSlot(row, d) == PatchesWindow(d) /\ AfterBooking(row, d) # NoRow

MayPatch(u, row, d) ==
  /\ PatchesBooking(d) => MayUpdateBooking(u, row, d)
  /\ UpdatesSlot(row, d) => MayUpdateSlot(u, AfterBooking(row, d), d)

Patched(row, d) ==
  IF UpdatesSlot(row, d) THEN UpdateSlot(AfterBooking(row, d), d)
  ELSE AfterBooking(row, d)

PatchMail(u, row, d, present) ==
  IF ~PatchesBooking(d) THEN {}
  ELSE IF Releases(d) THEN ReleaseMail(u, row, d.status, present)
  ELSE ConfirmedMail(UpdateBooking(row, d), present)

----------------------------------------------------------------------------
(* DELETE: delete_time_slot *)

MayDelete(u, row) == row.status = "OPEN" => EnsureOwner(u, row)

(* Wrong: DELETE removes claimed windows too. *)
DestroyAny(row) == NoRow

Deleted(row) == IF row.status = "OPEN" THEN NoRow ELSE Release(row)

DeleteMail(u, row, present) ==
  IF row.status = "OPEN" THEN {} ELSE ReleaseMail(u, row, "CANCELLED", present)
============================================================================
