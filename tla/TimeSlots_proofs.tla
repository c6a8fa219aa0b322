-------------------------- MODULE TimeSlots_proofs --------------------------
(***************************************************************************)
(* Theorems about TimeSlots for every set of users, listings and links and *)
(* every bound: the invariants of the table, from one inductive invariant, *)
(* and what a step may never do.                                           *)
(***************************************************************************)
EXTENDS TimeSlots, SlotRules_proofs

(* Every stored row is sound and its candidate has a profile. *)
SoundTable ==
  \A s \in Ids : slots[s] # NoRow =>
    /\ SoundRow(slots[s])
    /\ slots[s].candidate # None => slots[s].candidate \in present

(* Ids not handed out yet have no row. *)
FreshIds == \A s \in Ids \ used : slots[s] = NoRow

IInv == TypeOK /\ SoundTable /\ FreshIds

----------------------------------------------------------------------------
(* The two ways a request writes the table *)

(* An insert under a fresh id keeps the invariant. *)
LEMMA InsertKeepsIInv ==
  ASSUME IInv, NEW row \in SlotRow, SoundRow(row), Insert(row), present' = present,
         row.candidate # None => row.candidate \in present
  PROVE  /\ slots' \in [Ids -> SlotRow \cup {NoRow}]
         /\ used' \subseteq Ids
         /\ SoundTable'
         /\ FreshIds'
<1> USE DEF IInv, TypeOK
<1>1. PICK s \in Ids \ used : /\ slots' = [slots EXCEPT ![s] = row]
                              /\ used' = used \cup {s}
  BY DEF Insert
<1>2. slots' \in [Ids -> SlotRow \cup {NoRow}] /\ used' \subseteq Ids
  BY <1>1
<1>3. SoundTable'
  BY <1>1 DEF SoundTable, SoundRow, Landlord
<1>4. FreshIds'
  BY <1>1 DEF FreshIds
<1>5. QED
  BY <1>2, <1>3, <1>4

(* So does rewriting or deleting a stored row. *)
LEMMA StoreKeepsIInv ==
  ASSUME IInv, NEW s \in Ids, NEW row \in SlotRow \cup {NoRow}, Store(s, row),
         present' = present, slots[s] # NoRow,
         row # NoRow => /\ SoundRow(row)
                        /\ row.candidate # None => row.candidate \in present
  PROVE  /\ slots' \in [Ids -> SlotRow \cup {NoRow}]
         /\ used' \subseteq Ids
         /\ SoundTable'
         /\ FreshIds'
<1> USE DEF IInv, TypeOK
<1>1. slots' = [slots EXCEPT ![s] = row] /\ used' = used
  BY DEF Store
<1>2. slots' \in [Ids -> SlotRow \cup {NoRow}] /\ used' \subseteq Ids
  BY <1>1
<1>3. SoundTable'
  BY <1>1 DEF SoundTable, SoundRow, Landlord
<1>4. FreshIds'
  BY <1>1 DEF FreshIds
<1>5. QED
  BY <1>2, <1>3, <1>4

----------------------------------------------------------------------------
(* The invariant holds initially. *)
LEMMA InitIInv == Init => IInv
  BY TimeSlotsAssumption, RulesAssumption
     DEF Init, IInv, TypeOK, SoundTable, FreshIds, Ids, Times

(* Every step keeps the invariant. *)
LEMMA NextIInv == IInv /\ [Next]_vars => IInv'
<1> SUFFICES ASSUME IInv, [Next]_vars
             PROVE  IInv'
  OBVIOUS
<1> USE DEF IInv, TypeOK
<1>1. ASSUME NEW u \in Users, NEW l \in Listings, NEW t \in Times, NEW type \in Types,
             NEW link \in Links \cup {None}, CreateSlot(u, l, t, type, link)
      PROVE  IInv'
  <2>1. /\ NewWindow(l, t, type, link) \in SlotRow
        /\ SoundRow(NewWindow(l, t, type, link))
        /\ NewWindow(l, t, type, link).candidate = None
    BY NewWindowSound DEF NewWindow
  <2>2. QED
    BY <1>1, <2>1, InsertKeepsIInv DEF CreateSlot, Committed, UNCHANGED_ENV
<1>2. ASSUME NEW u \in Users, NEW l \in Listings, NEW t \in Times, NEW type \in Types,
             NEW link \in Links \cup {None}, Propose(u, l, t, type, link)
      PROVE  IInv'
  <2>1. u \in present /\ LandlordOf[l] # u
    BY <1>2 DEF Propose, MayPropose
  <2>2. /\ NewProposal(u, l, t, type, link) \in SlotRow
        /\ SoundRow(NewProposal(u, l, t, type, link))
        /\ NewProposal(u, l, t, type, link).candidate \in present
    BY <2>1, NewProposalSound DEF NewProposal
  <2>3. CreatedMail(NewProposal(u, l, t, type, link), present) \subseteq Mail
    BY <2>2 DEF CreatedMail, Mail, Kinds
  <2>4. QED
    BY <1>2, <2>2, <2>3, InsertKeepsIInv DEF Propose, Committed, UNCHANGED_ENV
<1>3. ASSUME NEW u \in Users, NEW s \in Ids, NEW link \in Links \cup {None}, Claim(u, s, link)
      PROVE  IInv'
  <2>1. /\ slots[s] \in SlotRow /\ slots[s] # NoRow
        /\ SoundRow(slots[s])
        /\ Landlord(slots[s]) # u /\ slots[s].status = "OPEN" /\ u \in present
    BY <1>3 DEF Claim, MayClaim, SoundTable
  <2>2. /\ Claimed(slots[s], u, link) \in SlotRow
        /\ SoundRow(Claimed(slots[s], u, link))
        /\ Claimed(slots[s], u, link).candidate \in present
    BY <2>1, ClaimedSound DEF Claimed, SlotRow
  <2>3. CreatedMail(slots[s], present) \subseteq Mail
    BY <2>1 DEF CreatedMail, Mail, Kinds
  <2>4. QED
    BY <1>3, <2>1, <2>2, <2>3, StoreKeepsIInv DEF Claim, Committed, UNCHANGED_ENV
<1>4. ASSUME NEW u \in Users, NEW s \in Ids, NEW d \in PatchData, UpdateTimeSlot(u, s, d)
      PROVE  IInv'
  <2>1. /\ slots[s] \in SlotRow /\ slots[s] # NoRow
        /\ SoundRow(slots[s])
        /\ slots[s].candidate # None => slots[s].candidate \in present
        /\ MayPatch(u, slots[s], d)
    BY <1>4 DEF UpdateTimeSlot, SoundTable
  <2>2. Patched(slots[s], d) # NoRow =>
          /\ Patched(slots[s], d) \in SlotRow
          /\ SoundRow(Patched(slots[s], d))
          /\ Patched(slots[s], d).candidate # None => Patched(slots[s], d).candidate \in present
    BY <2>1, PatchedSound DEF SameSlot
  <2>3. PatchMail(u, slots[s], d, present) \subseteq Mail
    BY <2>1, MailsTyped
  <2>4. QED
    BY <1>4, <2>1, <2>2, <2>3, StoreKeepsIInv DEF UpdateTimeSlot, Committed, UNCHANGED_ENV
<1>5. ASSUME NEW u \in Users, NEW s \in Ids, DeleteTimeSlot(u, s)
      PROVE  IInv'
  <2>1. /\ slots[s] \in SlotRow /\ slots[s] # NoRow
        /\ SoundRow(slots[s])
        /\ slots[s].candidate # None => slots[s].candidate \in present
    BY <1>5 DEF DeleteTimeSlot, SoundTable
  <2>2. Deleted(slots[s]) # NoRow =>
          /\ Deleted(slots[s]) \in SlotRow
          /\ SoundRow(Deleted(slots[s]))
          /\ Deleted(slots[s]).candidate # None => Deleted(slots[s]).candidate \in present
    BY <2>1, ReleaseSound DEF SameSlot, Deleted
  <2>3. DeleteMail(u, slots[s], present) \subseteq Mail
    BY <2>1, MailsTyped DEF DeleteMail, ReleaseMail, Mail, Kinds
  <2>4. QED
    BY <1>5, <2>1, <2>2, <2>3, StoreKeepsIInv DEF DeleteTimeSlot, Committed, UNCHANGED_ENV
<1>6. ASSUME NEW l \in Listings, SetPublication(l)
      PROVE  IInv'
  BY <1>6 DEF SetPublication, Committed, SoundTable, SoundRow, Landlord, FreshIds
<1>7. ASSUME NEW u \in Users, DeleteProfile(u)
      PROVE  IInv'
  <2>1. /\ present' = present \ {u}
        /\ slots' = [s \in Ids |-> IF slots[s] # NoRow /\ slots[s].candidate = u
                                   THEN NoRow ELSE slots[s]]
        /\ UNCHANGED <<used, listed, clock>>
        /\ last' = [by |-> System, mails |-> {}]
    BY <1>7 DEF DeleteProfile, Committed
  <2>2. TypeOK'
    BY <2>1
  <2>3. SoundTable'
    BY <2>1 DEF SoundTable, SoundRow, Landlord
  <2>4. FreshIds'
    BY <2>1 DEF FreshIds
  <2>5. QED
    BY <2>2, <2>3, <2>4
<1>8. CASE Tick
  BY <1>8, RulesAssumption DEF Tick, Committed, SoundTable, SoundRow, Landlord, FreshIds, Times
<1>9. CASE UNCHANGED vars
  BY <1>9 DEF vars, SoundTable, SoundRow, Landlord, FreshIds
<1>10. QED
  BY <1>1, <1>2, <1>3, <1>4, <1>5, <1>6, <1>7, <1>8, <1>9 DEF Next

(* The inductive invariant holds in every reachable state. *)
THEOREM Invariant == Spec => []IInv
  BY InitIInv, NextIInv, PTL DEF Spec

(* Every variable keeps its type. *)
THEOREM TypeCorrect == Spec => []TypeOK
<1>1. IInv => TypeOK
  BY DEF IInv
<1>2. QED
  BY <1>1, Invariant, PTL

----------------------------------------------------------------------------
(* The invariants of the rows *)

(* The invariant, row by row. *)
LEMMA SoundRows ==
  ASSUME IInv, NEW row \in Rows
  PROVE  SoundRow(row) /\ (row.candidate # None => row.candidate \in present)
  BY DEF IInv, SoundTable, Rows

(* A row has a candidate exactly when it is claimed or proposed. *)
THEOREM BookingsHaveCandidates == Spec => []BookedIffCandidate
<1>1. IInv => BookedIffCandidate
  BY SoundRows DEF BookedIffCandidate, SoundRow
<1>2. QED
  BY <1>1, Invariant, PTL

(* No proposal is ever offered as availability. *)
THEOREM ProposalsStayBookings == Spec => []ProposalNeverOpen
<1>1. IInv => ProposalNeverOpen
  BY SoundRows DEF ProposalNeverOpen, SoundRow
<1>2. QED
  BY <1>1, Invariant, PTL

(* No row is DECLINED or CANCELLED. *)
THEOREM NoTerminalRow == Spec => []TerminalNeverPersists
<1>1. IInv => TerminalNeverPersists
  BY SoundRows DEF TerminalNeverPersists, SoundRow
<1>2. QED
  BY <1>1, Invariant, PTL

(* No landlord is the candidate of his own listing. *)
THEOREM SelfBookingExcluded == Spec => []NoSelfBooking
<1>1. IInv => NoSelfBooking
  BY SoundRows DEF NoSelfBooking, SoundRow
<1>2. QED
  BY <1>1, Invariant, PTL

(* The candidate of every row has a profile. *)
THEOREM CandidatesArePresent == Spec => []CandidateExists
<1>1. IInv => CandidateExists
  BY SoundRows DEF CandidateExists
<1>2. QED
  BY <1>1, Invariant, PTL

----------------------------------------------------------------------------
(* What a step may do to one row *)

(* The requests that rewrite an existing row, told apart for one id. *)
RowStep(s) ==
  \/ slots'[s] = slots[s]
  \/ /\ slots[s] = NoRow /\ s \notin used
     /\ \E u \in Users, l \in Listings, t \in Times, type \in Types, link \in Links \cup {None} :
          \/ slots'[s] = NewWindow(l, t, type, link)
          \/ slots'[s] = NewProposal(u, l, t, type, link)
  \/ \E u \in Users, link \in Links \cup {None} :
       /\ MayClaim(u, slots[s], link, listed, clock)
       /\ slots'[s] = Claimed(slots[s], u, link)
       /\ By(u)
  \/ \E u \in Users, d \in PatchData :
       /\ VerifyOwnership(u, slots[s]) /\ slots[s] # NoRow
       /\ MayPatch(u, slots[s], d)
       /\ slots'[s] = Patched(slots[s], d)
       /\ last' = [by |-> u, mails |-> PatchMail(u, slots[s], d, present)]
       /\ present' = present
  \/ \E u \in Users :
       /\ VerifyOwnership(u, slots[s]) /\ slots[s] # NoRow
       /\ MayDelete(u, slots[s])
       /\ slots'[s] = Deleted(slots[s])
       /\ last' = [by |-> u, mails |-> DeleteMail(u, slots[s], present)]
       /\ present' = present
  \/ /\ slots[s] # NoRow /\ slots[s].candidate \in Users
     /\ slots'[s] = NoRow /\ slots[s].candidate \notin present'

(* Whatever request a step serves, each row sees one of these. *)
LEMMA NextRowStep ==
  ASSUME IInv, [Next]_vars, NEW s \in Ids
  PROVE  RowStep(s)
<1> USE DEF IInv, TypeOK
<1>1. ASSUME NEW u \in Users, NEW l \in Listings, NEW t \in Times, NEW type \in Types,
             NEW link \in Links \cup {None},
             CreateSlot(u, l, t, type, link) \/ Propose(u, l, t, type, link)
      PROVE  RowStep(s)
  <2>1. PICK row \in {NewWindow(l, t, type, link), NewProposal(u, l, t, type, link)} :
           Insert(row)
    BY <1>1 DEF CreateSlot, Propose
  <2>2. PICK i \in Ids \ used : slots' = [slots EXCEPT ![i] = row]
    BY <2>1 DEF Insert
  <2>3. CASE s = i
    BY <2>1, <2>2, <2>3 DEF FreshIds, RowStep
  <2>4. CASE s # i
    BY <2>2, <2>4 DEF RowStep
  <2>5. QED
    BY <2>3, <2>4
<1>2. ASSUME NEW u \in Users, NEW i \in Ids, NEW link \in Links \cup {None}, Claim(u, i, link)
      PROVE  RowStep(s)
  BY <1>2 DEF Claim, Store, Committed, By, RowStep
<1>3. ASSUME NEW u \in Users, NEW i \in Ids, NEW d \in PatchData, UpdateTimeSlot(u, i, d)
      PROVE  RowStep(s)
  BY <1>3 DEF UpdateTimeSlot, Store, Committed, UNCHANGED_ENV, RowStep
<1>4. ASSUME NEW u \in Users, NEW i \in Ids, DeleteTimeSlot(u, i)
      PROVE  RowStep(s)
  BY <1>4 DEF DeleteTimeSlot, Store, Committed, UNCHANGED_ENV, RowStep
<1>5. ASSUME NEW u \in Users, DeleteProfile(u)
      PROVE  RowStep(s)
  BY <1>5 DEF DeleteProfile, RowStep
<1>6. CASE (\E l \in Listings : SetPublication(l)) \/ Tick \/ UNCHANGED vars
  BY <1>6 DEF SetPublication, Tick, vars, RowStep
<1>7. QED
  BY <1>1, <1>2, <1>3, <1>4, <1>5, <1>6 DEF Next

(* No single request replaces the candidate of a held window. *)
THEOREM CandidateIsNeverSwapped == Spec => CandidateNeverSwapped
<1>1. ASSUME IInv, [Next]_vars, NEW s \in Ids, Held(s), Held(s)'
      PROVE  slots'[s].candidate = slots[s].candidate
  <2>1. slots[s] \in SlotRow /\ slots[s] # NoRow /\ SoundRow(slots[s])
    BY <1>1 DEF IInv, TypeOK, SoundTable, Held
  <2>2. slots'[s] # NoRow /\ slots'[s].candidate # None
    BY <1>1 DEF Held
  <2>3. ASSUME NEW u \in Users, NEW d \in PatchData, MayPatch(u, slots[s], d),
               slots'[s] = Patched(slots[s], d)
        PROVE  slots'[s].candidate = slots[s].candidate
    BY <2>1, <2>2, <2>3, PatchedSound DEF SameSlot
  <2>4. ASSUME slots'[s] = Deleted(slots[s])
        PROVE  slots'[s].candidate = slots[s].candidate
    BY <2>1, <2>2, <2>4, ReleaseSound DEF SameSlot, Deleted
  <2>5. ASSUME NEW u \in Users, NEW link, MayClaim(u, slots[s], link, listed, clock)
        PROVE  FALSE
    BY <1>1, <2>1, <2>5 DEF MayClaim, SoundRow, Held
  <2>6. QED
    BY <1>1, <2>1, <2>2, <2>3, <2>4, <2>5, NextRowStep DEF RowStep
<1>2. IInv /\ [Next]_vars =>
        [\A s \in Ids : Held(s) /\ Held(s)' => slots'[s].candidate = slots[s].candidate]_vars
  BY <1>1
<1>3. QED
  BY <1>2, Invariant, PTL DEF Spec, CandidateNeverSwapped

(* A deleted id stays deleted. *)
THEOREM DeletionIsFinal == Spec => DeletedStaysDeleted
<1>1. ASSUME IInv, [Next]_vars, NEW s \in Ids, s \in used, slots[s] = NoRow
      PROVE  slots'[s] = NoRow
  <2>1. RowStep(s)
    BY <1>1, NextRowStep
  <2>2. QED
    BY <1>1, <2>1 DEF RowStep, MayClaim
<1>2. IInv /\ [Next]_vars =>
        [\A s \in Ids : s \in used /\ slots[s] = NoRow => slots'[s] = NoRow]_vars
  BY <1>1
<1>3. QED
  BY <1>2, Invariant, PTL DEF Spec, DeletedStaysDeleted

----------------------------------------------------------------------------
(* Who decides, and who moves a window *)

(* A release leaves the window where and what it was. *)
LEMMA ReleaseStaysPut ==
  ASSUME NEW row \in SlotRow, Release(row) # NoRow
  PROVE  Release(row).start_time = row.start_time /\ Release(row).type = row.type
  BY DEF Release, SlotRow

(* A PATCH that moves a window or changes its type comes from an owner. *)
LEMMA OwnerPatches ==
  ASSUME NEW u \in Users, NEW row \in SlotRow, NEW d \in PatchData,
         SoundRow(row), MayPatch(u, row, d), Patched(row, d) # NoRow,
         \/ Patched(row, d).start_time # row.start_time
         \/ Patched(row, d).type # row.type
  PROVE  EnsureOwner(u, row)
<1> DEFINE mid == AfterBooking(row, d)
<1>1. CASE UpdatesSlot(row, d)
  <2>1. EnsureOwner(u, mid)
    BY <1>1 DEF MayPatch, MayUpdateSlot
  <2>2. mid.listing = row.listing
    BY <1>1, UpdateBookingSound DEF UpdatesSlot, AfterBooking, MayPatch, SameSlot
  <2>3. QED
    BY <2>1, <2>2 DEF EnsureOwner, Landlord
<1>2. CASE ~UpdatesSlot(row, d)
  <2>1. Patched(row, d) = mid /\ d.start_time = None /\ d.type = None
    BY <1>2 DEF Patched, UpdatesSlot, PatchesWindow
  <2>2. mid.start_time = row.start_time /\ mid.type = row.type
    <3>1. CASE PatchesBooking(d) /\ Releases(d)
      BY <3>1, <2>1, ReleaseStaysPut DEF AfterBooking, UpdateBooking
    <3>2. CASE PatchesBooking(d) /\ ~Releases(d)
      BY <3>2, <2>1 DEF AfterBooking, UpdateBooking, Given, SlotRow
    <3>3. CASE ~PatchesBooking(d)
      BY <3>3 DEF AfterBooking
    <3>4. QED
      BY <3>1, <3>2, <3>3
  <2>3. QED
    BY <2>1, <2>2
<1>3. QED
  BY <1>1, <1>2

(* Nobody but an owner moves a window or changes its type. *)
THEOREM OwnersMoveWindows == Spec => OnlyOwnersMoveAWindow
<1>1. ASSUME IInv, [Next]_vars, NEW s \in Ids, Kept(s),
             slots'[s].start_time # slots[s].start_time \/ slots'[s].type # slots[s].type
      PROVE  \E u \in Users : By(u) /\ EnsureOwner(u, slots[s])
  <2>1. slots[s] \in SlotRow /\ SoundRow(slots[s])
    BY <1>1 DEF IInv, TypeOK, SoundTable, Kept
  <2>2. slots[s] # NoRow /\ slots'[s] # NoRow
    BY <1>1 DEF Kept
  <2>3. ASSUME NEW u \in Users, NEW link \in Links \cup {None},
               slots'[s] = Claimed(slots[s], u, link)
        PROVE  FALSE
    BY <1>1, <2>1, <2>3 DEF Claimed, SlotRow
  <2>4. ASSUME NEW u \in Users, NEW d \in PatchData, MayPatch(u, slots[s], d),
               slots'[s] = Patched(slots[s], d)
        PROVE  EnsureOwner(u, slots[s])
    BY <1>1, <2>1, <2>2, <2>4, OwnerPatches
  <2>5. ASSUME slots'[s] = Deleted(slots[s])
        PROVE  FALSE
    BY <1>1, <2>1, <2>2, <2>5, ReleaseStaysPut DEF Deleted
  <2>6. QED
    BY <1>1, <2>2, <2>3, <2>4, <2>5, NextRowStep DEF RowStep, By
<1>2. IInv /\ [Next]_vars =>
        [\A s \in Ids : Kept(s) /\ (\/ slots'[s].start_time # slots[s].start_time
                                    \/ slots'[s].type # slots[s].type)
           => \E u \in Users : By(u) /\ EnsureOwner(u, slots[s])]_vars
  BY <1>1
<1>3. QED
  BY <1>2, Invariant, PTL DEF Spec, OnlyOwnersMoveAWindow

(* A PATCH that confirms comes from the landlord, about a PENDING row. *)
LEMMA LandlordPatches ==
  ASSUME NEW u \in Users, NEW row \in SlotRow, NEW d \in PatchData,
         SoundRow(row), MayPatch(u, row, d), Patched(row, d) # NoRow,
         Patched(row, d).status = "CONFIRMED", row.status # "CONFIRMED"
  PROVE  u = Landlord(row) /\ row.status = "PENDING"
<1> DEFINE mid == AfterBooking(row, d)
<1>1. mid # NoRow
  BY DEF Patched, UpdatesSlot
<1>2. mid.status = "CONFIRMED"
  <2>1. CASE UpdatesSlot(row, d)
    <3>1. mid \in SlotRow /\ SoundRow(mid)
      BY <1>1, UpdateBookingSound DEF AfterBooking, MayPatch
    <3>2. QED
      BY <2>1, <3>1, UpdateSlotSound DEF Patched
  <2>2. CASE ~UpdatesSlot(row, d)
    BY <2>2 DEF Patched
  <2>3. QED
    BY <2>1, <2>2
<1>3. PatchesBooking(d) /\ ~Releases(d)
  BY <1>1, <1>2, ReleaseSound DEF AfterBooking, UpdateBooking
<1>4. d.status # None /\ d.status = "CONFIRMED"
  BY <1>2, <1>3 DEF AfterBooking, UpdateBooking, Given, SlotRow
<1>5. Landlord(row) = u /\ "CONFIRMED" \in VALID_TRANSITIONS[row.status]
  BY <1>3, <1>4 DEF MayPatch, MayUpdateBooking
<1>6. QED
  BY <1>5 DEF VALID_TRANSITIONS, SlotRow, Statuses

(* Only the listing's landlord confirms, and a PENDING booking. *)
THEOREM LandlordsConfirm == Spec => OnlyLandlordConfirms
<1>1. ASSUME IInv, [Next]_vars, NEW s \in Ids, Kept(s),
             slots'[s].status = "CONFIRMED", slots[s].status # "CONFIRMED"
      PROVE  By(Landlord(slots[s])) /\ slots[s].status = "PENDING"
  <2>1. slots[s] \in SlotRow /\ SoundRow(slots[s])
    BY <1>1 DEF IInv, TypeOK, SoundTable, Kept
  <2>2. slots[s] # NoRow /\ slots'[s] # NoRow
    BY <1>1 DEF Kept
  <2>3. ASSUME NEW u \in Users, NEW link \in Links \cup {None},
               slots'[s] = Claimed(slots[s], u, link)
        PROVE  FALSE
    BY <1>1, <2>1, <2>3 DEF Claimed, SlotRow
  <2>4. ASSUME NEW u \in Users, NEW d \in PatchData, MayPatch(u, slots[s], d),
               slots'[s] = Patched(slots[s], d)
        PROVE  u = Landlord(slots[s]) /\ slots[s].status = "PENDING"
    BY <1>1, <2>1, <2>2, <2>4, LandlordPatches
  <2>5. ASSUME slots'[s] = Deleted(slots[s])
        PROVE  FALSE
    BY <1>1, <2>1, <2>2, <2>5, ReleaseSound DEF Deleted
  <2>6. QED
    BY <1>1, <2>2, <2>3, <2>4, <2>5, NextRowStep DEF RowStep, By
<1>2. IInv /\ [Next]_vars =>
        [\A s \in Ids : Kept(s) /\ slots'[s].status = "CONFIRMED" /\ slots[s].status # "CONFIRMED"
           => By(Landlord(slots[s])) /\ slots[s].status = "PENDING"]_vars
  BY <1>1
<1>3. QED
  BY <1>2, Invariant, PTL DEF Spec, OnlyLandlordConfirms

----------------------------------------------------------------------------
(* Bookings: who touches one, what a release leaves, who is told *)

(* Only a party to a booking touches it, or its candidate's departure does. *)
THEOREM PartiesTouchBookings == Spec => OnlyPartiesTouchABooking
<1>1. ASSUME IInv, [Next]_vars, NEW s \in Ids, Held(s), slots'[s] # slots[s]
      PROVE  \/ \E u \in Users : By(u) /\ (u = slots[s].candidate \/ EnsureOwner(u, slots[s]))
             \/ slots[s].candidate \notin present'
  <2>1. slots[s] # NoRow /\ SoundRow(slots[s]) /\ slots[s].candidate # None
    BY <1>1 DEF IInv, SoundTable, Held
  <2>2. ASSUME NEW u \in Users, VerifyOwnership(u, slots[s])
        PROVE  u = slots[s].candidate \/ EnsureOwner(u, slots[s])
    BY <2>2 DEF VerifyOwnership, EnsureOwner
  <2>3. ASSUME NEW u, NEW link, MayClaim(u, slots[s], link, listed, clock)
        PROVE  FALSE
    BY <2>1, <2>3 DEF MayClaim, SoundRow
  <2>4. QED
    BY <1>1, <2>1, <2>2, <2>3, NextRowStep DEF RowStep, By
<1>2. IInv /\ [Next]_vars =>
        [\A s \in Ids : Held(s) /\ slots'[s] # slots[s] =>
           \/ \E u \in Users : /\ By(u)
                               /\ \/ u = slots[s].candidate
                                  \/ EnsureOwner(u, slots[s])
           \/ slots[s].candidate \notin present']_vars
  BY <1>1
<1>3. QED
  BY <1>2, Invariant, PTL DEF Spec, OnlyPartiesTouchABooking

(* A PATCH that ends a booking is a DECLINED or CANCELLED one. *)
LEMMA EndingPatch ==
  ASSUME NEW u \in Users, NEW row \in SlotRow, NEW d \in PatchData,
         SoundRow(row), row.candidate # None, MayPatch(u, row, d),
         Patched(row, d) = NoRow \/ Patched(row, d).candidate = None
  PROVE  PatchesBooking(d) /\ Releases(d)
<1> SUFFICES ASSUME ~(PatchesBooking(d) /\ Releases(d))
             PROVE  FALSE
  OBVIOUS
<1> DEFINE mid == AfterBooking(row, d)
<1>1. mid \in SlotRow /\ SoundRow(mid) /\ mid.candidate = row.candidate
  <2>1. CASE PatchesBooking(d)
    <3>1. UpdateBooking(row, d) =
            [row EXCEPT !.status = Given(d.status, row.status),
                        !.meet_link = Given(d.meet_link, row.meet_link),
                        !.start_time = Given(d.start_time, row.start_time),
                        !.type = Given(d.type, row.type)]
      BY <2>1 DEF UpdateBooking, SlotRow
    <3>2. UpdateBooking(row, d).candidate = row.candidate
      BY <3>1 DEF SlotRow
    <3>3. UpdateBooking(row, d) \in SlotRow
      BY <3>1, AssignedTyped
    <3>4. QED
      BY <2>1, <3>2, <3>3, UpdateBookingSound, RulesAssumption DEF AfterBooking, MayPatch
  <2>2. CASE ~PatchesBooking(d)
    BY <2>2 DEF AfterBooking
  <2>3. QED
    BY <2>1, <2>2
<1>2. Patched(row, d) \in SlotRow /\ Patched(row, d).candidate = row.candidate
  BY <1>1, UpdateSlotSound DEF Patched
<1>3. QED
  BY <1>2, RulesAssumption

(* A PATCH that makes a held window available leaves it without a link. *)
LEMMA OpeningPatchClearsLink ==
  ASSUME NEW u \in Users, NEW row \in SlotRow, NEW d \in PatchData,
         SoundRow(row), row.candidate # None, MayPatch(u, row, d),
         Patched(row, d) # NoRow, Patched(row, d).status = "OPEN"
  PROVE  Patched(row, d).meet_link = None
<1>1. Patched(row, d).candidate = None
  BY PatchedSound DEF SoundRow
<1>2. PatchesBooking(d) /\ Releases(d)
  BY <1>1, EndingPatch
<1>3. AfterBooking(row, d) = Release(row) /\ Release(row) # NoRow
  BY <1>2 DEF AfterBooking, UpdateBooking, Patched, UpdatesSlot
<1>4. Release(row) \in SlotRow /\ Release(row).meet_link = None
  BY <1>3, ReleaseSound DEF Release, SlotRow
<1>5. CASE UpdatesSlot(row, d)
  BY <1>3, <1>4, <1>5 DEF Patched, UpdateSlot, SlotRow
<1>6. CASE ~UpdatesSlot(row, d)
  BY <1>3, <1>4, <1>6 DEF Patched
<1>7. QED
  BY <1>5, <1>6

(* A window that becomes availability again keeps no link. *)
THEOREM ReleasesAreClean == Spec => ReleasedIsClean
<1>1. ASSUME IInv, [Next]_vars, NEW s \in Ids, Held(s), Kept(s), slots'[s].status = "OPEN"
      PROVE  slots'[s].meet_link = None
  <2>1. /\ slots[s] \in SlotRow /\ slots[s] # NoRow /\ slots'[s] # NoRow
        /\ SoundRow(slots[s]) /\ slots[s].candidate # None
    BY <1>1 DEF IInv, TypeOK, SoundTable, Held, Kept
  <2>2. slots'[s] # slots[s]
    BY <1>1, <2>1 DEF SoundRow
  <2>3. ASSUME NEW u, NEW link, MayClaim(u, slots[s], link, listed, clock)
        PROVE  FALSE
    BY <2>1, <2>3 DEF MayClaim, SoundRow
  <2>4. ASSUME NEW u \in Users, NEW d \in PatchData, MayPatch(u, slots[s], d),
               slots'[s] = Patched(slots[s], d)
        PROVE  slots'[s].meet_link = None
    BY <1>1, <2>1, <2>4, OpeningPatchClearsLink
  <2>5. ASSUME slots'[s] = Deleted(slots[s])
        PROVE  slots'[s].meet_link = None
    BY <2>1, <2>5 DEF Deleted, Release, SlotRow
  <2>6. QED
    BY <1>1, <2>1, <2>2, <2>3, <2>4, <2>5, NextRowStep DEF RowStep
<1>2. IInv /\ [Next]_vars =>
        [\A s \in Ids : Held(s) /\ Kept(s) /\ slots'[s].status = "OPEN"
           => slots'[s].meet_link = None]_vars
  BY <1>1
<1>3. QED
  BY <1>2, Invariant, PTL DEF Spec, ReleasedIsClean

(* A release mails the party that did not ask for it. *)
LEMMA ReleaseTellsTheOther ==
  ASSUME NEW u \in Users, NEW row \in SlotRow, NEW here \in SUBSET Users, NEW reason,
         SoundRow(row), row.candidate \in here, Landlord(row) \in here,
         reason = "DECLINED" => u # row.candidate
  PROVE  \E m \in ReleaseMail(u, row, reason, here) :
            m.to = IF u = row.candidate THEN Landlord(row) ELSE row.candidate
<1>1. CASE reason = "DECLINED"
  BY <1>1 DEF ReleaseMail
<1>2. CASE reason # "DECLINED"
  BY <1>2 DEF ReleaseMail
<1>3. QED
  BY <1>1, <1>2

(* When a request ends a booking, the other party is mailed. *)
THEOREM TheOtherPartyIsTold == Spec => CounterpartIsTold
<1>1. ASSUME IInv, [Next]_vars, NEW s \in Ids, Held(s), ~Held(s)',
             slots[s].candidate \in present', Landlord(slots[s]) \in present
      PROVE  IF By(slots[s].candidate) THEN Mailed(Landlord(slots[s]))
             ELSE Mailed(slots[s].candidate)
  <2> DEFINE row == slots[s]
             other(u) == IF u = row.candidate THEN Landlord(row) ELSE row.candidate
  <2>1. /\ row \in SlotRow /\ row # NoRow /\ SoundRow(row) /\ row.candidate # None
        /\ row.candidate \in present /\ present \in SUBSET Users
        /\ row.status # "OPEN"
    BY <1>1 DEF IInv, TypeOK, SoundTable, SoundRow, Held
  <2>2. slots'[s] # slots[s] /\ (slots'[s] = NoRow \/ slots'[s].candidate = None)
    BY <1>1, <2>1 DEF Held
  <2>3. ASSUME NEW u, NEW link, MayClaim(u, row, link, listed, clock)
        PROVE  FALSE
    BY <2>1, <2>3 DEF MayClaim
  <2>4. ASSUME NEW u \in Users, NEW d \in PatchData, MayPatch(u, row, d),
               slots'[s] = Patched(row, d),
               last' = [by |-> u, mails |-> PatchMail(u, row, d, present)]
        PROVE  By(u) /\ Mailed(other(u))
    <3>1. PatchesBooking(d) /\ Releases(d)
      BY <2>1, <2>2, <2>4, EndingPatch
    <3>2. d.status = "DECLINED" => u = Landlord(row)
      BY <3>1, <2>4, RulesAssumption DEF MayPatch, MayUpdateBooking, Statuses
    <3>3. \E m \in ReleaseMail(u, row, d.status, present) : m.to = other(u)
      BY <1>1, <2>1, <3>2, ReleaseTellsTheOther DEF SoundRow
    <3>4. QED
      BY <2>4, <3>1, <3>3 DEF PatchMail, By, Mailed
  <2>5. ASSUME NEW u \in Users, last' = [by |-> u, mails |-> DeleteMail(u, row, present)]
        PROVE  By(u) /\ Mailed(other(u))
    <3>1. \E m \in ReleaseMail(u, row, "CANCELLED", present) : m.to = other(u)
      BY <1>1, <2>1, ReleaseTellsTheOther
    <3>2. QED
      BY <2>1, <2>5, <3>1 DEF DeleteMail, By, Mailed
  <2>6. \E u \in Users : By(u) /\ Mailed(other(u))
    BY <1>1, <2>1, <2>2, <2>3, <2>4, <2>5, NextRowStep DEF RowStep
  <2>7. QED
    BY <2>6 DEF By
<1>2. IInv /\ [Next]_vars =>
        [\A s \in Ids : Held(s) /\ ~Held(s)' /\ slots[s].candidate \in present' =>
           LET c == slots[s].candidate
               w == Landlord(slots[s])
           IN w \in present => IF By(c) THEN Mailed(w) ELSE Mailed(c)]_vars
  BY <1>1
<1>3. QED
  BY <1>2, Invariant, PTL DEF Spec, CounterpartIsTold
============================================================================
