-------------------------- MODULE SlotRules_proofs --------------------------
(***************************************************************************)
(* What the operators of SlotRules do to one row, for every row, user and  *)
(* request body: the lemmas the theorems about the table rest on.          *)
(***************************************************************************)
EXTENDS SlotRules, TLAPS

(* A row as the endpoints keep it: a candidate exactly when it is claimed  *)
(* or proposed, never a terminal status, never the landlord as candidate.  *)
SoundRow(row) ==
  /\ row.status # "OPEN" <=> row.candidate # None
  /\ row.status = "OPEN" => row.landlord_created
  /\ row.status \notin {"DECLINED", "CANCELLED"}
  /\ row.candidate # Landlord(row)

(* What no request changes about a row, and what it may do to its          *)
(* candidate without a claim: keep it or clear it.                         *)
SameSlot(new, old) ==
  /\ new.listing = old.listing
  /\ new.landlord_created = old.landlord_created
  /\ new.candidate \in {old.candidate, None}

(* A field the body gives has the type of the column it is given to. *)
LEMMA GivenTyped ==
  ASSUME NEW row \in SlotRow, NEW d \in PatchData
  PROVE  /\ Given(d.status, row.status) \in Statuses
         /\ Given(d.meet_link, row.meet_link) \in Links \cup {None}
         /\ Given(d.start_time, row.start_time) \in Times
         /\ Given(d.type, row.type) \in Types
  BY DEF SlotRow, PatchData, Given

(* What update_booking assigns when it releases nothing. *)
LEMMA AssignedTyped ==
  ASSUME NEW row \in SlotRow, NEW d \in PatchData
  PROVE  [row EXCEPT !.status = Given(d.status, row.status),
                     !.meet_link = Given(d.meet_link, row.meet_link),
                     !.start_time = Given(d.start_time, row.start_time),
                     !.type = Given(d.type, row.type)] \in SlotRow
<1>1. ASSUME NEW status \in Statuses, NEW meet \in Links \cup {None}, NEW t \in Times,
             NEW type \in Types
      PROVE  [row EXCEPT !.status = status, !.meet_link = meet, !.start_time = t,
                         !.type = type] \in SlotRow
  BY DEF SlotRow
<1>2. QED
  BY <1>1, GivenTyped

LEMMA UpdateSlotTyped ==
  ASSUME NEW row \in SlotRow, NEW d \in PatchData
  PROVE  UpdateSlot(row, d) \in SlotRow
<1> DEFINE meet == IF d.type = "ON_SITE" /\ row.type # "ON_SITE" THEN None ELSE row.meet_link
<1>1. ASSUME NEW type \in Types, NEW m \in Links \cup {None}, NEW t \in Times
      PROVE  [row EXCEPT !.type = type, !.meet_link = m, !.start_time = t] \in SlotRow
  BY DEF SlotRow
<1>2. meet \in Links \cup {None}
  BY DEF SlotRow
<1>3. UpdateSlot(row, d) = [row EXCEPT !.type = Given(d.type, row.type), !.meet_link = meet,
                                       !.start_time = Given(d.start_time, row.start_time)]
  BY DEF UpdateSlot, SlotRow
<1> HIDE DEF meet
<1>4. [row EXCEPT !.type = Given(d.type, row.type), !.meet_link = meet,
                  !.start_time = Given(d.start_time, row.start_time)] \in SlotRow
  BY <1>1, <1>2, GivenTyped
<1>5. QED
  BY <1>3, <1>4

(* Landlords are users, so NULL is nobody's landlord. *)
LEMMA LandlordIsUser ==
  ASSUME NEW row \in SlotRow
  PROVE  Landlord(row) \in Users /\ Landlord(row) # None
  BY RulesAssumption DEF SlotRow, Landlord

(* create_slot inserts a sound OPEN row. *)
LEMMA NewWindowSound ==
  ASSUME NEW l \in Listings, NEW t \in Times, NEW type \in Types,
         NEW link \in Links \cup {None}
  PROVE  /\ NewWindow(l, t, type, link) \in SlotRow
         /\ SoundRow(NewWindow(l, t, type, link))
<1>1. NewWindow(l, t, type, link) \in SlotRow
  BY DEF NewWindow, SlotRow, Statuses
<1>2. QED
  BY <1>1, LandlordIsUser DEF NewWindow, SoundRow

(* propose inserts a sound PENDING row. *)
LEMMA NewProposalSound ==
  ASSUME NEW u \in Users, NEW l \in Listings, NEW t \in Times, NEW type \in Types,
         NEW link \in Links \cup {None}, LandlordOf[l] # u
  PROVE  /\ NewProposal(u, l, t, type, link) \in SlotRow
         /\ SoundRow(NewProposal(u, l, t, type, link))
<1>1. NewProposal(u, l, t, type, link) \in SlotRow
  BY DEF NewProposal, SlotRow, Statuses
<1>2. QED
  BY <1>1, RulesAssumption DEF NewProposal, SoundRow, Landlord

(* claim turns a sound row into a sound PENDING one of the claimant's. *)
LEMMA ClaimedSound ==
  ASSUME NEW u \in Users, NEW row \in SlotRow, NEW link \in Links \cup {None},
         Landlord(row) # u, row.status = "OPEN", SoundRow(row)
  PROVE  /\ Claimed(row, u, link) \in SlotRow
         /\ SoundRow(Claimed(row, u, link))
<1>1. Claimed(row, u, link) \in SlotRow
  BY DEF Claimed, SlotRow, Statuses
<1>2. QED
  BY <1>1, RulesAssumption DEF Claimed, SoundRow, Landlord, SlotRow

(* _release opens a landlord's window, emptied, and deletes a proposal. *)
LEMMA ReleaseSound ==
  ASSUME NEW row \in SlotRow, SoundRow(row), Release(row) # NoRow
  PROVE  /\ Release(row) \in SlotRow
         /\ SoundRow(Release(row))
         /\ SameSlot(Release(row), row)
         /\ Release(row).status = "OPEN"
<1>1. /\ row.landlord_created
      /\ Release(row) = [row EXCEPT !.status = "OPEN", !.candidate = None, !.meet_link = None]
  BY DEF Release
<1>2. Release(row) \in SlotRow
  BY <1>1 DEF SlotRow, Statuses
<1>3. QED
  BY <1>1, <1>2, LandlordIsUser DEF SoundRow, Landlord, SlotRow, SameSlot

(* update_booking keeps a row sound and of the same slot, or deletes it. *)
LEMMA UpdateBookingSound ==
  ASSUME NEW u \in Users, NEW row \in SlotRow, NEW d \in PatchData,
         SoundRow(row), MayUpdateBooking(u, row, d), UpdateBooking(row, d) # NoRow
  PROVE  /\ UpdateBooking(row, d) \in SlotRow
         /\ SoundRow(UpdateBooking(row, d))
         /\ SameSlot(UpdateBooking(row, d), row)
<1>1. CASE Releases(d)
  BY <1>1, ReleaseSound DEF UpdateBooking
<1>2. CASE ~Releases(d)
  <2> DEFINE new == [row EXCEPT
                       !.status = Given(d.status, row.status),
                       !.meet_link = Given(d.meet_link, row.meet_link),
                       !.start_time = Given(d.start_time, row.start_time),
                       !.type = Given(d.type, row.type)]
  <2>1. UpdateBooking(row, d) = new
    BY <1>2 DEF UpdateBooking, SlotRow
  <2>2. new \in SlotRow
    BY AssignedTyped
  <2>3. /\ new.status = Given(d.status, row.status)
        /\ new.candidate = row.candidate
        /\ new.listing = row.listing
        /\ new.landlord_created = row.landlord_created
    BY DEF SlotRow
  <2>4. d.status # None => /\ d.status = "CONFIRMED"
                           /\ row.status = "PENDING"
    <3> SUFFICES ASSUME d.status # None
                 PROVE  d.status = "CONFIRMED" /\ row.status = "PENDING"
      OBVIOUS
    <3>1. d.status \in VALID_TRANSITIONS[row.status]
      BY DEF MayUpdateBooking
    <3>2. QED
      BY <3>1, <1>2 DEF Releases, VALID_TRANSITIONS, SlotRow, Statuses
  <2>5. QED
    BY <2>1, <2>2, <2>3, <2>4 DEF SoundRow, Landlord, SameSlot, Given
<1>3. QED
  BY <1>1, <1>2

(* update_slot touches neither the status nor the candidate. *)
LEMMA UpdateSlotSound ==
  ASSUME NEW row \in SlotRow, NEW d \in PatchData, SoundRow(row)
  PROVE  /\ UpdateSlot(row, d) \in SlotRow
         /\ SoundRow(UpdateSlot(row, d))
         /\ SameSlot(UpdateSlot(row, d), row)
         /\ UpdateSlot(row, d).status = row.status
         /\ UpdateSlot(row, d).candidate = row.candidate
<1>1. UpdateSlot(row, d) \in SlotRow
  BY UpdateSlotTyped
<1>2. /\ UpdateSlot(row, d).status = row.status
      /\ UpdateSlot(row, d).candidate = row.candidate
      /\ UpdateSlot(row, d).listing = row.listing
      /\ UpdateSlot(row, d).landlord_created = row.landlord_created
  BY DEF UpdateSlot, SlotRow
<1>3. QED
  BY <1>1, <1>2 DEF SoundRow, Landlord, SameSlot

(* Every mail is addressed to a profile that exists. *)
LEMMA MailsTyped ==
  ASSUME NEW u \in Users, NEW row \in SlotRow, NEW present \in SUBSET Users,
         NEW d \in PatchData
  PROVE  /\ CreatedMail(row, present) \subseteq Mail
         /\ PatchMail(u, row, d, present) \subseteq Mail
         /\ DeleteMail(u, row, present) \subseteq Mail
<1>1. CreatedMail(row, present) \subseteq Mail
  BY DEF CreatedMail, Mail, Kinds
<1>2. ASSUME NEW reason
      PROVE  ReleaseMail(u, row, reason, present) \subseteq Mail
  BY DEF ReleaseMail, Mail, Kinds
<1>3. ASSUME NEW new
      PROVE  ConfirmedMail(new, present) \subseteq Mail
  BY DEF ConfirmedMail, Mail, Kinds
<1>4. QED
  BY <1>1, <1>2, <1>3 DEF PatchMail, DeleteMail

(* A whole PATCH keeps a row sound and of the same slot, or deletes it. *)
LEMMA PatchedSound ==
  ASSUME NEW u \in Users, NEW row \in SlotRow, NEW d \in PatchData,
         SoundRow(row), MayPatch(u, row, d), Patched(row, d) # NoRow
  PROVE  /\ Patched(row, d) \in SlotRow
         /\ SoundRow(Patched(row, d))
         /\ SameSlot(Patched(row, d), row)
<1> DEFINE mid == AfterBooking(row, d)
<1>1. mid # NoRow
  BY DEF Patched, UpdatesSlot
<1>2. /\ mid \in SlotRow
      /\ SoundRow(mid)
      /\ SameSlot(mid, row)
  <2>1. CASE PatchesBooking(d)
    BY <2>1, <1>1, UpdateBookingSound DEF MayPatch, AfterBooking
  <2>2. CASE ~PatchesBooking(d)
    BY <2>2 DEF AfterBooking, SameSlot
  <2>3. QED
    BY <2>1, <2>2
<1>3. CASE UpdatesSlot(row, d)
  <2>1. Patched(row, d) = UpdateSlot(mid, d)
    BY <1>3 DEF Patched
  <2>2. QED
    BY <2>1, <1>2, UpdateSlotSound DEF SameSlot
<1>4. CASE ~UpdatesSlot(row, d)
  BY <1>4, <1>2 DEF Patched
<1>5. QED
  BY <1>3, <1>4
============================================================================
