----------------------------- MODULE TimeSlots -----------------------------
(***************************************************************************)
(* The time_slots table and the endpoints of app/api/v1/time_slots.py that *)
(* change it, every request a single atomic transaction.  A request the    *)
(* code answers with an error rolls back and is a stuttering step, so the  *)
(* guards below are the conditions under which the handler succeeds.       *)
(***************************************************************************)
EXTENDS SlotRules

CONSTANTS
  MaxSlots,     \* bound: ids handed out by the autoincrement column
  System        \* author of the steps no profile requests

ASSUME TimeSlotsAssumption == MaxSlots \in Nat /\ System \notin Users

Ids == 1..MaxSlots

VARIABLES
  slots,    \* the table: id -> row, or NoRow
  used,     \* ids a row was ever stored under: autoincrement never reuses one
  listed,   \* listings with publication_status ACTIVE
  present,  \* profiles in the users table
  clock,    \* datetime.now(timezone.utc)
  last      \* the last request that committed: its author and the mails it queued

vars == <<slots, used, listed, present, clock, last>>

TypeOK ==
  /\ slots \in [Ids -> SlotRow \cup {NoRow}]
  /\ used \subseteq Ids
  /\ listed \subseteq Listings
  /\ present \subseteq Users
  /\ clock \in Times
  /\ last \in [by : Users \cup {System}, mails : SUBSET Mail]

Init ==
  /\ slots = [s \in Ids |-> NoRow]
  /\ used = {}
  /\ listed = Listings
  /\ present = Users
  /\ clock = 0
  /\ last = [by |-> System, mails |-> {}]

----------------------------------------------------------------------------
(* Rolled back inserts leave gaps, so the ids come in no particular order. *)
Insert(row) ==
  \E s \in Ids \ used :
    /\ slots' = [slots EXCEPT ![s] = row]
    /\ used' = used \cup {s}

Store(s, row) ==
  /\ slots' = [slots EXCEPT ![s] = row]
  /\ UNCHANGED used

Committed(u, mails) == last' = [by |-> u, mails |-> mails]

UNCHANGED_ENV == UNCHANGED <<listed, present, clock>>

(* POST /time-slots *)
CreateSlot(u, l, t, type, link) ==
  /\ u \in present
  /\ MayCreate(u, l, type, link)
  /\ Insert(NewWindow(l, t, type, link))
  /\ Committed(u, {})
  /\ UNCHANGED_ENV

(* POST /time-slots/propose *)
Propose(u, l, t, type, link) ==
  /\ u \in present
  /\ MayPropose(u, l, t, type, link, listed, clock)
  /\ \A s \in Ids : slots[s] # NoRow => slots[s].listing # l \/ slots[s].start_time # t
  /\ Insert(NewProposal(u, l, t, type, link))
  /\ Committed(u, CreatedMail(NewProposal(u, l, t, type, link), present))
  /\ UNCHANGED_ENV

(* POST /time-slots/{id}/claim *)
Claim(u, s, link) ==
  /\ u \in present
  /\ MayClaim(u, slots[s], link, listed, clock)
  /\ Store(s, Claimed(slots[s], u, link))
  /\ Committed(u, CreatedMail(slots[s], present))
  /\ UNCHANGED_ENV

(* PATCH /time-slots/{id} *)
UpdateTimeSlot(u, s, d) ==
  /\ u \in present
  /\ VerifyOwnership(u, slots[s]) /\ slots[s] # NoRow
  /\ MayPatch(u, slots[s], d)
  /\ Store(s, Patched(slots[s], d))
  /\ Committed(u, PatchMail(u, slots[s], d, present))
  /\ UNCHANGED_ENV

(* DELETE /time-slots/{id} *)
DeleteTimeSlot(u, s) ==
  /\ u \in present
  /\ VerifyOwnership(u, slots[s]) /\ slots[s] # NoRow
  /\ MayDelete(u, slots[s])
  /\ Store(s, Deleted(slots[s]))
  /\ Committed(u, DeleteMail(u, slots[s], present))
  /\ UNCHANGED_ENV

----------------------------------------------------------------------------
(* What the rest of the API does to the rows and values read above.        *)

(* A listing update that publishes it or takes it back to DRAFT. *)
SetPublication(l) ==
  /\ listed' = (listed \ {l}) \cup ({l} \ listed)
  /\ Committed(System, {})
  /\ UNCHANGED <<slots, used, present, clock>>

(* Wrong: the foreign key of the candidate does not cascade. *)
DeleteProfileOnly(u) ==
  /\ u \in present
  /\ \A l \in Listings : LandlordOf[l] # u
  /\ present' = present \ {u}
  /\ Committed(System, {})
  /\ UNCHANGED <<slots, used, listed, clock>>

(* Deleting a profile cascades to the rows it is the candidate of, whoever *)
(* authored the window.  A landlord of a listing cannot be deleted: the    *)
(* ORM blanks listings.landlord_id, which is NOT NULL.                     *)
DeleteProfile(u) ==
  /\ u \in present
  /\ \A l \in Listings : LandlordOf[l] # u
  /\ present' = present \ {u}
  /\ slots' = [s \in Ids |-> IF slots[s] # NoRow /\ slots[s].candidate = u
                             THEN NoRow ELSE slots[s]]
  /\ Committed(System, {})
  /\ UNCHANGED <<used, listed, clock>>

Tick ==
  /\ clock < Horizon
  /\ clock' = clock + 1
  /\ Committed(System, {})
  /\ UNCHANGED <<slots, used, listed, present>>

Next ==
  \/ \E u \in Users, l \in Listings, t \in Times, type \in Types, link \in Links \cup {None} :
       CreateSlot(u, l, t, type, link) \/ Propose(u, l, t, type, link)
  \/ \E u \in Users, s \in Ids, link \in Links \cup {None} : Claim(u, s, link)
  \/ \E u \in Users, s \in Ids, d \in PatchData : UpdateTimeSlot(u, s, d)
  \/ \E u \in Users, s \in Ids : DeleteTimeSlot(u, s)
  \/ \E l \in Listings : SetPublication(l)
  \/ \E u \in Users : DeleteProfile(u)
  \/ Tick

Spec == Init /\ [][Next]_vars

----------------------------------------------------------------------------
(* Safety: the shape of every row *)

Rows == {slots[s] : s \in Ids} \ {NoRow}

(* A row carries a candidate exactly when it is claimed or proposed (the   *)
(* docstring of the TimeSlot model): no PATCH, release or deletion leaves  *)
(* one without the other.                                                  *)
BookedIffCandidate == \A row \in Rows : row.status # "OPEN" <=> row.candidate # None

(* A candidate's proposal never becomes availability: it is PENDING or     *)
(* CONFIRMED until its row is deleted, whichever request ends it.          *)
ProposalNeverOpen == \A row \in Rows : row.status = "OPEN" => row.landlord_created

(* DECLINED and CANCELLED never persist, although PATCH assigns whatever   *)
(* status the body holds.                                                  *)
TerminalNeverPersists == \A row \in Rows : row.status \notin {"DECLINED", "CANCELLED"}

(* Nobody holds a booking of his own listing. *)
NoSelfBooking == \A row \in Rows : row.candidate # Landlord(row)

(* No booking outlives its candidate's profile: releasing one can always   *)
(* name the person it was taken from.                                      *)
CandidateExists == \A row \in Rows : row.candidate # None => row.candidate \in present

----------------------------------------------------------------------------
(* Safety: what a step may never do *)

Held(s)   == slots[s] # NoRow /\ slots[s].candidate # None
Kept(s)   == slots[s] # NoRow /\ slots'[s] # NoRow
By(u)     == last'.by = u
Mailed(u) == \E m \in last'.mails : m.to = u

(* A booking passes from one candidate to another only through OPEN: no    *)
(* single request replaces the candidate of a held window.                 *)
CandidateNeverSwapped ==
  [][\A s \in Ids : Held(s) /\ Held(s)' => slots'[s].candidate = slots[s].candidate]_vars

(* A held booking changes only at the request of its candidate, of the     *)
(* listing's landlord or of an ADMIN, or with its candidate's profile.     *)
OnlyPartiesTouchABooking ==
  [][\A s \in Ids : Held(s) /\ slots'[s] # slots[s] =>
        \/ \E u \in Users : /\ By(u)
                            /\ \/ u = slots[s].candidate
                               \/ EnsureOwner(u, slots[s])
        \/ slots[s].candidate \notin present']_vars

(* Only the listing's landlord confirms, not even an ADMIN does, and the   *)
(* booking he confirms was PENDING.                                        *)
OnlyLandlordConfirms ==
  [][\A s \in Ids : Kept(s) /\ slots'[s].status = "CONFIRMED" /\ slots[s].status # "CONFIRMED"
        => By(Landlord(slots[s])) /\ slots[s].status = "PENDING"]_vars

(* A candidate never moves the window he booked nor changes its type: a    *)
(* PATCH that mixes his fields with the landlord's is refused as a whole,  *)
(* even though update_booking has assigned them all by then.               *)
OnlyOwnersMoveAWindow ==
  [][\A s \in Ids : Kept(s) /\ (\/ slots'[s].start_time # slots[s].start_time
                                \/ slots'[s].type # slots[s].type)
        => \E u \in Users : By(u) /\ EnsureOwner(u, slots[s])]_vars

(* When a request ends a booking, the party that did not ask for it gets a *)
(* mail: the landlord when the candidate left, else the candidate.         *)
CounterpartIsTold ==
  [][\A s \in Ids : Held(s) /\ ~Held(s)' /\ slots[s].candidate \in present' =>
        LET c == slots[s].candidate
            w == Landlord(slots[s])
        IN w \in present => IF By(c) THEN Mailed(w) ELSE Mailed(c)]_vars

(* A window that becomes availability again keeps no meeting link of the   *)
(* booking that ended, nor does the same PATCH put one back.               *)
ReleasedIsClean ==
  [][\A s \in Ids : Held(s) /\ Kept(s) /\ slots'[s].status = "OPEN"
        => slots'[s].meet_link = None]_vars

(* A deleted id stays deleted. *)
DeletedStaysDeleted ==
  [][\A s \in Ids : s \in used /\ slots[s] = NoRow => slots'[s] = NoRow]_vars

----------------------------------------------------------------------------
(* Every window follows the life the service promises for it               *)
(* (VALID_TRANSITIONS, the docstrings of _release and delete_time_slot).   *)

PhaseOf(status) ==
  [OPEN |-> "open", PENDING |-> "pending", CONFIRMED |-> "confirmed",
   DECLINED |-> "declined", CANCELLED |-> "cancelled"][status]

Phase(s) == IF slots[s] # NoRow THEN PhaseOf(slots[s].status)
            ELSE IF s \in used THEN "gone" ELSE "new"

Origin(s) == IF slots[s] = NoRow THEN "none"
             ELSE IF slots[s].landlord_created THEN "landlord" ELSE "candidate"

Holder(s) == IF slots[s] = NoRow THEN None ELSE slots[s].candidate

Lifecycle == INSTANCE SlotLifecycle WITH
  Candidates <- Users, Nobody <- None,
  phase  <- [s \in Ids |-> Phase(s)],
  origin <- [s \in Ids |-> Origin(s)],
  holder <- [s \in Ids |-> Holder(s)],
  people <- present

(* The table implements the abstract life of its windows.                  *)
FollowsLifecycle == Lifecycle!Spec

----------------------------------------------------------------------------
(* What a comment says and the code does not do *)

(* time_slot.py:133: the type is locked as soon as someone claims or       *)
(* proposes the window.                                                    *)
TypeLockedOnceClaimed ==
  [][\A s \in Ids : Held(s) /\ Held(s)' => slots'[s].type = slots[s].type]_vars
============================================================================
