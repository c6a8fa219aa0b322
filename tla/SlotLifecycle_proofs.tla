------------------------ MODULE SlotLifecycle_proofs ------------------------
(***************************************************************************)
(* TimeSlots implements SlotLifecycle: the table's initial state maps to   *)
(* the abstract one, and every request maps to one abstract step or to a   *)
(* stutter.                                                                *)
(***************************************************************************)
EXTENDS TimeSlots_proofs

(* What a PATCH or DELETE may make of a row, as far as the abstract life   *)
(* of a window goes: delete availability or a proposal, or keep the slot   *)
(* with its candidate kept or cleared, never back to PENDING.              *)
RowEvolves(old, new) ==
  IF new = NoRow THEN old.status = "OPEN" \/ ~old.landlord_created
  ELSE /\ SoundRow(new)
       /\ SameSlot(new, old)
       /\ new.status = "PENDING" => old.status = "PENDING"

(* _release reopens a landlord's window or deletes a proposal. *)
LEMMA ReleaseEvolves ==
  ASSUME NEW row \in SlotRow, SoundRow(row)
  PROVE  RowEvolves(row, Release(row))
<1>1. CASE Release(row) = NoRow
  <2>1. ~row.landlord_created
    <3>1. [row EXCEPT !.status = "OPEN", !.candidate = None, !.meet_link = None] \in SlotRow
      BY DEF SlotRow, Statuses
    <3>2. QED
      BY <1>1, <3>1, RulesAssumption DEF Release
  <2>2. QED
    BY <1>1, <2>1 DEF RowEvolves
<1>2. CASE Release(row) # NoRow
  BY <1>2, ReleaseSound DEF RowEvolves
<1>3. QED
  BY <1>1, <1>2

(* update_booking decides a booking, releases it or keeps its phase. *)
LEMMA UpdateBookingEvolves ==
  ASSUME NEW u \in Users, NEW row \in SlotRow, NEW d \in PatchData,
         SoundRow(row), MayUpdateBooking(u, row, d)
  PROVE  RowEvolves(row, UpdateBooking(row, d))
<1>1. CASE Releases(d)
  BY <1>1, ReleaseEvolves DEF UpdateBooking
<1>2. CASE ~Releases(d)
  <2> DEFINE new == [row EXCEPT
                       !.status = Given(d.status, row.status),
                       !.meet_link = Given(d.meet_link, row.meet_link),
                       !.start_time = Given(d.start_time, row.start_time),
                       !.type = Given(d.type, row.type)]
  <2>1. UpdateBooking(row, d) = new
    BY <1>2 DEF UpdateBooking, SlotRow
  <2>2. new \in SlotRow
    BY AssignedTyped
  <2>3. new # NoRow
    BY <2>2, RulesAssumption
  <2>4. new.status = Given(d.status, row.status)
    BY DEF SlotRow
  <2>5. new.status = "PENDING" => row.status = "PENDING"
    <3> SUFFICES ASSUME d.status # None
                 PROVE  d.status # "PENDING"
      BY <2>4 DEF Given
    <3>1. d.status \in VALID_TRANSITIONS[row.status]
      BY DEF MayUpdateBooking
    <3>2. QED
      BY <3>1 DEF VALID_TRANSITIONS, SlotRow, Statuses
  <2>6. QED
    BY <2>1, <2>3, <2>5, UpdateBookingSound DEF RowEvolves
<1>3. QED
  BY <1>1, <1>2

(* So does a whole PATCH. *)
LEMMA PatchedEvolves ==
  ASSUME NEW u \in Users, NEW row \in SlotRow, NEW d \in PatchData,
         SoundRow(row), MayPatch(u, row, d)
  PROVE  RowEvolves(row, Patched(row, d))
<1> DEFINE mid == AfterBooking(row, d)
<1>1. RowEvolves(row, mid)
  <2>1. CASE PatchesBooking(d)
    BY <2>1, UpdateBookingEvolves DEF MayPatch, AfterBooking
  <2>2. CASE ~PatchesBooking(d)
    <3>1. mid = row /\ row # NoRow
      BY <2>2, RulesAssumption DEF AfterBooking
    <3>2. QED
      BY <3>1 DEF RowEvolves, SameSlot
  <2>3. QED
    BY <2>1, <2>2
<1>2. CASE UpdatesSlot(row, d)
  <2>1. /\ mid # NoRow
        /\ Patched(row, d) = UpdateSlot(mid, d)
    BY <1>2 DEF UpdatesSlot, Patched
  <2>2. mid \in SlotRow
    <3>1. CASE PatchesBooking(d)
      BY <3>1, <2>1, UpdateBookingSound DEF MayPatch, AfterBooking
    <3>2. CASE ~PatchesBooking(d)
      BY <3>2 DEF AfterBooking
    <3>3. QED
      BY <3>1, <3>2
  <2>3. SoundRow(mid) /\ SameSlot(mid, row)
    BY <1>1, <2>1 DEF RowEvolves
  <2>4. /\ UpdateSlot(mid, d) # NoRow
        /\ SoundRow(UpdateSlot(mid, d))
        /\ SameSlot(UpdateSlot(mid, d), mid)
        /\ UpdateSlot(mid, d).status = mid.status
    BY <2>2, <2>3, UpdateSlotSound, RulesAssumption
  <2>5. QED
    BY <1>1, <2>1, <2>3, <2>4 DEF RowEvolves, SameSlot
<1>3. CASE ~UpdatesSlot(row, d)
  BY <1>1, <1>3 DEF Patched
<1>4. QED
  BY <1>2, <1>3

(* DELETE releases a booking or withdraws availability. *)
LEMMA DeletedEvolves ==
  ASSUME NEW row \in SlotRow, SoundRow(row)
  PROVE  RowEvolves(row, Deleted(row))
  BY ReleaseEvolves DEF Deleted, RowEvolves

----------------------------------------------------------------------------
(* Steps of the table as steps of the abstract lifecycle *)

(* A step that changes one row enters that window's new phase. *)
LEMMA OneRowEnters ==
  ASSUME NEW s \in Ids, present' = present,
         \A i \in Ids \ {s} : slots'[i] = slots[i] /\ (i \in used' <=> i \in used)
  PROVE  /\ Lifecycle!Enter(s, Phase(s)', Holder(s)')
         /\ [i \in Ids |-> Origin(i)]' = [[i \in Ids |-> Origin(i)] EXCEPT ![s] = Origin(s)']
  BY DEF Lifecycle!Enter, Phase, Holder, Origin

(* A row that changes in nothing the lifecycle sees is a stutter. *)
LEMMA SamePhase ==
  ASSUME NEW s \in Ids, present' = present,
         \A i \in Ids \ {s} : slots'[i] = slots[i] /\ (i \in used' <=> i \in used),
         Phase(s)' = Phase(s), Holder(s)' = Holder(s), Origin(s)' = Origin(s)
  PROVE  UNCHANGED Lifecycle!lifecycle
  BY DEF Lifecycle!lifecycle, Phase, Holder, Origin

(* create_slot is an Offer, propose a Propose. *)
LEMMA InsertRefines ==
  ASSUME IInv, NEW row \in SlotRow, SoundRow(row), Insert(row), present' = present,
         \/ row.status = "OPEN" /\ row.landlord_created
         \/ row.status = "PENDING" /\ ~row.landlord_created /\ row.candidate \in present
  PROVE  Lifecycle!Next
<1>1. PICK s \in Ids \ used : /\ slots' = [slots EXCEPT ![s] = row]
                              /\ used' = used \cup {s}
  BY DEF Insert
<1>2. /\ slots[s] = NoRow /\ slots'[s] = row /\ row # NoRow
      /\ \A i \in Ids \ {s} : slots'[i] = slots[i] /\ (i \in used' <=> i \in used)
  BY <1>1, RulesAssumption DEF IInv, TypeOK, FreshIds
<1>3. /\ Phase(s) = "new" /\ Origin(s) = "none"
      /\ Phase(s)' = PhaseOf(row.status) /\ Holder(s)' = row.candidate
      /\ Origin(s)' = IF row.landlord_created THEN "landlord" ELSE "candidate"
  BY <1>1, <1>2 DEF Phase, Origin, Holder
<1>4. CASE row.status = "OPEN" /\ row.landlord_created
  <2>1. row.candidate = None
    BY <1>4 DEF SoundRow
  <2>2. Lifecycle!Offer(s)
    BY <1>2, <1>3, <1>4, <2>1, OneRowEnters DEF Lifecycle!Offer, PhaseOf
  <2>3. QED
    BY <2>2, <1>1 DEF Lifecycle!Next
<1>5. CASE row.status = "PENDING" /\ ~row.landlord_created /\ row.candidate \in present
  <2>1. Lifecycle!Propose(s, row.candidate)
    BY <1>2, <1>3, <1>5, OneRowEnters DEF Lifecycle!Propose, PhaseOf
  <2>2. row.candidate \in Users
    BY <1>5 DEF IInv, TypeOK
  <2>3. QED
    BY <2>1, <2>2, <1>1 DEF Lifecycle!Next
<1>6. QED
  BY <1>4, <1>5

(* What PATCH and DELETE store is a Confirm, a Free, a Vanish or a stutter. *)
LEMMA StoreRefines ==
  ASSUME IInv, NEW s \in Ids, slots[s] # NoRow, NEW row, Store(s, row), present' = present,
         row = NoRow \/ row \in SlotRow, RowEvolves(slots[s], row)
  PROVE  [Lifecycle!Next]_(Lifecycle!lifecycle)
<1> DEFINE old == slots[s]
<1>1. /\ old \in SlotRow /\ SoundRow(old) /\ s \in used
      /\ slots'[s] = row /\ used' = used
      /\ \A i \in Ids \ {s} : slots'[i] = slots[i] /\ (i \in used' <=> i \in used)
  BY DEF IInv, TypeOK, SoundTable, FreshIds, Store
<1>2. /\ Phase(s) = PhaseOf(old.status) /\ Holder(s) = old.candidate
      /\ Origin(s) = IF old.landlord_created THEN "landlord" ELSE "candidate"
  BY <1>1 DEF Phase, Holder, Origin
<1>3. old.status \in {"OPEN", "PENDING", "CONFIRMED"}
  BY <1>1 DEF SlotRow, Statuses, SoundRow
<1>4. CASE row = NoRow
  <2>1. /\ Phase(s)' = "gone" /\ Holder(s)' = None /\ Origin(s)' = "none"
    BY <1>1, <1>4 DEF Phase, Holder, Origin
  <2>2. old.status = "OPEN" \/ ~old.landlord_created
    BY <1>4 DEF RowEvolves
  <2>3. Lifecycle!Vanish(s)
    BY <1>1, <1>2, <1>3, <2>1, <2>2, OneRowEnters DEF Lifecycle!Vanish, PhaseOf
  <2>4. QED
    BY <2>3 DEF Lifecycle!Next
<1>5. CASE row # NoRow
  <2>1. /\ SoundRow(row) /\ SameSlot(row, old) /\ row \in SlotRow
        /\ row.status = "PENDING" => old.status = "PENDING"
    BY <1>5 DEF RowEvolves
  <2>2. /\ Phase(s)' = PhaseOf(row.status) /\ Holder(s)' = row.candidate
        /\ Origin(s)' = Origin(s)
    BY <1>1, <1>2, <1>5, <2>1 DEF Phase, Holder, Origin, SameSlot
  <2>3. row.status \in {"OPEN", "PENDING", "CONFIRMED"}
    BY <2>1 DEF SlotRow, Statuses, SoundRow
  <2>4. [i \in Ids |-> Origin(i)]' = [i \in Ids |-> Origin(i)]
    BY <1>1, <2>2 DEF Origin
  <2>5. CASE row.status = old.status
    <3>1. row.candidate = old.candidate
      BY <1>1, <2>1, <2>5 DEF SoundRow, SameSlot
    <3>2. QED
      BY <1>1, <1>2, <2>2, <2>5, <3>1, SamePhase
  <2>6. CASE row.status = "OPEN" /\ old.status # "OPEN"
    <3>1. row.landlord_created /\ row.candidate = None
      BY <2>1, <2>6 DEF SoundRow
    <3>2. /\ Phase(s) \in {"pending", "confirmed"} /\ Phase(s)' = "open"
          /\ Holder(s)' = None
      BY <1>2, <1>3, <2>2, <2>6, <3>1 DEF PhaseOf
    <3>3. Origin(s) = "landlord"
      BY <1>2, <2>1, <3>1 DEF SameSlot
    <3>4. Lifecycle!Enter(s, "open", None)
      BY <1>1, <3>2, OneRowEnters
    <3>5. Lifecycle!Free(s)
      BY <2>4, <3>2, <3>3, <3>4 DEF Lifecycle!Free
    <3>6. QED
      BY <3>5 DEF Lifecycle!Next
  <2>7. CASE row.status = "CONFIRMED" /\ old.status = "PENDING"
    <3>1. row.candidate = old.candidate
      BY <2>1, <2>7 DEF SoundRow, SameSlot
    <3>2. /\ Phase(s) = "pending" /\ Phase(s)' = "confirmed"
          /\ Holder(s)' = Holder(s)
      BY <1>2, <2>2, <2>7, <3>1 DEF PhaseOf
    <3>3. Lifecycle!Enter(s, "confirmed", Holder(s))
      BY <1>1, <3>2, OneRowEnters
    <3>4. Lifecycle!Confirm(s)
      BY <2>4, <3>2, <3>3 DEF Lifecycle!Confirm
    <3>5. QED
      BY <3>4 DEF Lifecycle!Next
  <2>8. CASE old.status = "OPEN" /\ row.status = "CONFIRMED"
    BY <1>1, <2>1, <2>8 DEF SoundRow, SameSlot
  <2>9. QED
    BY <1>3, <2>1, <2>3, <2>5, <2>6, <2>7, <2>8
<1>6. QED
  BY <1>4, <1>5

(* A claim is a Book. *)
LEMMA ClaimRefines ==
  ASSUME IInv, NEW u \in Users, NEW s \in Ids, NEW link \in Links \cup {None}, Claim(u, s, link)
  PROVE  Lifecycle!Next
<1> DEFINE row == Claimed(slots[s], u, link)
<1>1. /\ slots[s] # NoRow /\ slots[s] \in SlotRow /\ SoundRow(slots[s])
      /\ slots[s].status = "OPEN" /\ Landlord(slots[s]) # u
      /\ slots'[s] = row /\ u \in present /\ present' = present
      /\ \A i \in Ids \ {s} : slots'[i] = slots[i] /\ (i \in used' <=> i \in used)
  BY DEF Claim, MayClaim, Store, UNCHANGED_ENV, IInv, TypeOK, SoundTable
<1>2. /\ row \in SlotRow /\ row # NoRow
      /\ row.status = "PENDING" /\ row.candidate = u
      /\ row.landlord_created = slots[s].landlord_created
  <2>1. row \in SlotRow
    BY <1>1, ClaimedSound
  <2>2. /\ row.status = "PENDING" /\ row.candidate = u
        /\ row.landlord_created = slots[s].landlord_created
    BY <1>1 DEF Claimed, SlotRow
  <2>3. QED
    BY <2>1, <2>2, RulesAssumption
<1>3. /\ Phase(s) = "open" /\ Phase(s)' = "pending"
      /\ Holder(s)' = u /\ Origin(s)' = Origin(s)
  BY <1>1, <1>2 DEF Phase, PhaseOf, Holder, Origin
<1>4. [i \in Ids |-> Origin(i)]' = [i \in Ids |-> Origin(i)]
  BY <1>1, <1>3 DEF Origin
<1>5. Lifecycle!Book(s, u)
  BY <1>1, <1>3, <1>4, OneRowEnters DEF Lifecycle!Book
<1>6. QED
  BY <1>5 DEF Lifecycle!Next

(* Deleting a profile is a Leave. *)
LEMMA DeleteProfileRefines ==
  ASSUME IInv, NEW u \in Users, DeleteProfile(u)
  PROVE  Lifecycle!Next
<1>1. /\ u \in present /\ present' = present \ {u} /\ used' = used
      /\ slots' = [s \in Ids |-> IF slots[s] # NoRow /\ slots[s].candidate = u
                                 THEN NoRow ELSE slots[s]]
      /\ \A s \in Ids : slots[s] # NoRow => s \in used
      /\ u # None
  BY RulesAssumption DEF DeleteProfile, IInv, TypeOK, FreshIds
<1>2. \A i \in Ids : /\ Phase(i)' = IF Holder(i) = u THEN "gone" ELSE Phase(i)
                     /\ Origin(i)' = IF Holder(i) = u THEN "none" ELSE Origin(i)
                     /\ Holder(i)' = IF Holder(i) = u THEN None ELSE Holder(i)
  BY <1>1 DEF Phase, Origin, Holder
<1>3. Lifecycle!Leave(u)
  BY <1>1, <1>2 DEF Lifecycle!Leave
<1>4. QED
  BY <1>3 DEF Lifecycle!Next

----------------------------------------------------------------------------
(* The empty table is a lifecycle not begun. *)
LEMMA InitRefines == Init => Lifecycle!Init
  BY DEF Init, Lifecycle!Init, Phase, Origin, Holder

(* Every request is a step of the lifecycle or a stutter. *)
LEMMA NextRefines ==
  ASSUME IInv, [Next]_vars
  PROVE  [Lifecycle!Next]_(Lifecycle!lifecycle)
<1> USE DEF IInv, TypeOK
<1>1. ASSUME NEW u \in Users, NEW l \in Listings, NEW t \in Times, NEW type \in Types,
             NEW link \in Links \cup {None}, CreateSlot(u, l, t, type, link)
      PROVE  Lifecycle!Next
  <2>1. /\ NewWindow(l, t, type, link).status = "OPEN"
        /\ NewWindow(l, t, type, link).landlord_created
    BY DEF NewWindow
  <2>2. QED
    BY <1>1, <2>1, NewWindowSound, InsertRefines DEF CreateSlot, UNCHANGED_ENV
<1>2. ASSUME NEW u \in Users, NEW l \in Listings, NEW t \in Times, NEW type \in Types,
             NEW link \in Links \cup {None}, Propose(u, l, t, type, link)
      PROVE  Lifecycle!Next
  <2>1. /\ NewProposal(u, l, t, type, link).status = "PENDING"
        /\ ~NewProposal(u, l, t, type, link).landlord_created
        /\ NewProposal(u, l, t, type, link).candidate \in present
        /\ LandlordOf[l] # u
    BY <1>2 DEF NewProposal, Propose, MayPropose
  <2>2. QED
    BY <1>2, <2>1, NewProposalSound, InsertRefines DEF Propose, UNCHANGED_ENV
<1>3. ASSUME NEW u \in Users, NEW s \in Ids, NEW d \in PatchData, UpdateTimeSlot(u, s, d)
      PROVE  [Lifecycle!Next]_(Lifecycle!lifecycle)
  <2>1. /\ slots[s] \in SlotRow /\ slots[s] # NoRow /\ SoundRow(slots[s])
        /\ MayPatch(u, slots[s], d)
    BY <1>3 DEF UpdateTimeSlot, SoundTable
  <2>2. /\ RowEvolves(slots[s], Patched(slots[s], d))
        /\ Patched(slots[s], d) = NoRow \/ Patched(slots[s], d) \in SlotRow
    BY <2>1, PatchedEvolves, PatchedSound
  <2>3. QED
    BY <1>3, <2>1, <2>2, StoreRefines DEF UpdateTimeSlot, UNCHANGED_ENV
<1>4. ASSUME NEW u \in Users, NEW s \in Ids, DeleteTimeSlot(u, s)
      PROVE  [Lifecycle!Next]_(Lifecycle!lifecycle)
  <2>1. slots[s] \in SlotRow /\ slots[s] # NoRow /\ SoundRow(slots[s])
    BY <1>4 DEF DeleteTimeSlot, SoundTable
  <2>2. /\ RowEvolves(slots[s], Deleted(slots[s]))
        /\ Deleted(slots[s]) = NoRow \/ Deleted(slots[s]) \in SlotRow
    BY <2>1, DeletedEvolves, ReleaseSound DEF Deleted
  <2>3. QED
    BY <1>4, <2>1, <2>2, StoreRefines DEF DeleteTimeSlot, UNCHANGED_ENV
<1>5. CASE (\E l \in Listings : SetPublication(l)) \/ Tick \/ UNCHANGED vars
  BY <1>5 DEF SetPublication, Tick, vars, Lifecycle!lifecycle, Phase, Origin, Holder
<1>6. QED
  BY <1>1, <1>2, <1>3, <1>4, <1>5, ClaimRefines, DeleteProfileRefines DEF Next

(* Every behaviour of the table is, window by window, a behaviour of the   *)
(* abstract lifecycle.                                                     *)
THEOREM ImplementsLifecycle == Spec => FollowsLifecycle
<1>1. IInv /\ [Next]_vars => [Lifecycle!Next]_(Lifecycle!lifecycle)
  BY NextRefines
<1>2. QED
  BY <1>1, InitRefines, Invariant, PTL DEF Spec, FollowsLifecycle, Lifecycle!Spec
============================================================================
