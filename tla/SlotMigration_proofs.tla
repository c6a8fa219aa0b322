------------------------ MODULE SlotMigration_proofs ------------------------
(***************************************************************************)
(* The migrations, for tables of any size: the downgrade of a table that   *)
(* requests served one at a time have left (TimeSlots), its way back up,   *)
(* and what the two upgrades make of legacy tables.                        *)
(***************************************************************************)
EXTENDS SlotMigration, TimeSlots_proofs

(* A stored row is live or open, and a live one has a present candidate.   *)
LEMMA StoredRow ==
  ASSUME IInv, NEW s \in Ids, slots[s] # NoRow
  PROVE  /\ slots[s] \in SlotRow /\ SoundRow(slots[s])
         /\ slots[s].status \in Live \cup {"OPEN"}
         /\ slots[s].status \in Live <=> slots[s].candidate # None
         /\ slots[s].candidate # None => slots[s].candidate \in present
<1>1. slots[s] \in SlotRow /\ SoundRow(slots[s])
  BY DEF IInv, TypeOK, SoundTable
<1>2. slots[s].status \in Statuses
  BY <1>1 DEF SlotRow
<1>3. QED
  BY <1>1, <1>2 DEF SoundRow, Live, Statuses, IInv, SoundTable

(* The bookings that come back: one for each live row, under its id.       *)
LEMMA BookingsBack ==
  ASSUME TypeOK, NEW s \in Ids
  PROVE  /\ Bookings(slots)[s] =
              IF slots[s] # NoRow /\ slots[s].status \in Live
              THEN BookingOf(s, slots[s]) ELSE NoBooking
         /\ BookingsOf(Bookings(slots), s) =
              IF slots[s] # NoRow /\ slots[s].status \in Live THEN {s} ELSE {}
<1>1. DOMAIN slots = Ids /\ DOMAIN Bookings(slots) = Ids
  BY DEF TypeOK, Bookings
<1>2. ASSUME NEW b \in Ids
      PROVE  /\ Bookings(slots)[b] =
                  IF slots[b] # NoRow /\ slots[b].status \in Live
                  THEN BookingOf(b, slots[b]) ELSE NoBooking
             /\ Bookings(slots)[b].slot =
                  IF slots[b] # NoRow /\ slots[b].status \in Live THEN b ELSE None
  BY <1>1 DEF Bookings, BookingOf, NoBooking
<1>3. None # s
  BY MigrationAssumption
<1>4. QED
  BY <1>1, <1>2, <1>3 DEF BookingsOf

(* The windows that come back: one for each row.                           *)
LEMMA WindowsBack ==
  ASSUME TypeOK, NEW s \in Ids
  PROVE  Windows(slots)[s] = IF slots[s] = NoRow THEN NoWindow ELSE WindowOf(slots[s])
  BY DEF TypeOK, Windows

(* Of any table without terminal rows and without candidates who left, and *)
(* overlapping requests leave no other (KindsAreKept of                    *)
(* SlotTransactions_proofs), the downgrade satisfies its constraints       *)
(* exactly if no booked row lacks its candidate.                           *)
THEOREM OnlyOrphansStopTheDowngrade ==
  ASSUME TypeOK,
         \A s \in Ids : slots[s] # NoRow =>
           /\ slots[s].status \in Live \cup {"OPEN"}
           /\ slots[s].candidate \in present \cup {None}
  PROVE  DowngradeFits
           <=> \A s \in Ids : slots[s] # NoRow /\ slots[s].status \in Live
                               => slots[s].candidate # None
<1>1. ASSUME NEW s \in Ids, slots[s] # NoRow, slots[s].status \in Live
      PROVE  /\ Bookings(slots)[s] # NoBooking
             /\ Bookings(slots)[s] \in Booking /\ Bookings(slots)[s].candidate \in present
                  <=> slots[s].candidate # None
  <2>1. Bookings(slots)[s] = BookingOf(s, slots[s])
    BY <1>1, BookingsBack
  <2>2. slots[s] \in SlotRow /\ present \subseteq Users
    BY <1>1 DEF TypeOK
  <2>3. Landlord(slots[s]) \in Users
    BY <2>2, RulesAssumption DEF Landlord, SlotRow
  <2>4. BookingOf(s, slots[s]).candidate = slots[s].candidate
        /\ BookingOf(s, slots[s]).slot = s
    BY DEF BookingOf
  <2>5. s # None /\ None \notin Users
    BY MigrationAssumption, RulesAssumption
  <2>6. ASSUME slots[s].candidate # None
        PROVE  BookingOf(s, slots[s]) \in Booking
    <3>1. slots[s].candidate \in Users
      BY <2>2, <2>6 DEF SlotRow
    <3>2. QED
      BY <1>1, <2>2, <2>3, <3>1 DEF BookingOf, Booking, SlotRow, Live, OldStatuses
  <2>7. NoBooking.slot = None
    BY DEF NoBooking
  <2>8. QED
    BY <1>1, <2>1, <2>2, <2>4, <2>5, <2>6, <2>7
<1>2. ASSUME NEW s \in Ids, Bookings(slots)[s] # NoBooking
      PROVE  slots[s] # NoRow /\ slots[s].status \in Live
  BY <1>2, BookingsBack
<1>3. ASSUME NEW s \in Ids
      PROVE  Windows(slots)[s].is_booked <=> BookingsOf(Bookings(slots), s) # {}
  <2>1. CASE slots[s] = NoRow
    BY <2>1, WindowsBack, BookingsBack DEF NoWindow
  <2>2. CASE slots[s] # NoRow
    <3>1. Windows(slots)[s] = WindowOf(slots[s])
      BY <2>2, WindowsBack
    <3>2. WindowOf(slots[s]).is_booked <=> slots[s].status # "OPEN"
      BY Zenon DEF WindowOf
    <3>3. slots[s].status \in Live <=> slots[s].status # "OPEN"
      BY <2>2 DEF Live
    <3>4. QED
      BY <2>2, <3>1, <3>2, <3>3, BookingsBack
  <2>3. QED
    BY <2>1, <2>2
<1>4. QED
  BY <1>1, <1>2, <1>3 DEF DowngradeFits

(* The downgrade of a table that requests served one at a time have left   *)
(* satisfies its constraints.                                              *)
THEOREM DowngradesFit == Spec => []DowngradeFits
<1>1. ASSUME IInv
      PROVE  DowngradeFits
  <2>1. TypeOK
    BY <1>1 DEF IInv
  <2>2. ASSUME NEW s \in Ids, slots[s] # NoRow
        PROVE  /\ slots[s].status \in Live \cup {"OPEN"}
               /\ slots[s].candidate \in present \cup {None}
               /\ slots[s].status \in Live => slots[s].candidate # None
    BY <1>1, <2>2, StoredRow
  <2>3. QED
    BY <2>1, <2>2, OnlyOrphansStopTheDowngrade
<1>2. QED
  BY <1>1, Invariant, PTL DEF Spec

(* A live row, split in two and merged again.                              *)
LEMMA MergedLive ==
  ASSUME NEW s, NEW row \in SlotRow, row.status \in Live
  PROVE  Merged(WindowOf(row), BookingOf(s, row)) = ComesBack(row)
<1> DEFINE type == IF row.meet_link # None THEN "REMOTE" ELSE "ON_SITE"
<1>1. Merged(WindowOf(row), BookingOf(s, row)) =
        [listing |-> row.listing, start_time |-> row.start_time,
         status |-> row.status, candidate |-> row.candidate, landlord_created |-> TRUE,
         type |-> type, meet_link |-> row.meet_link]
  BY DEF Merged, WindowOf, BookingOf
<1>2. ComesBack(row) = [row EXCEPT !.landlord_created = TRUE, !.meet_link = row.meet_link,
                                   !.type = type]
  BY DEF ComesBack
<1> HIDE DEF type
<1>3. QED
  BY <1>1, <1>2 DEF SlotRow

(* An open row, which comes back without a booking.                        *)
LEMMA MergedOpen ==
  ASSUME NEW row \in SlotRow, row.status = "OPEN", row.candidate = None
  PROVE  Merged(WindowOf(row), NoBooking) = ComesBack(row)
<1>1. None \notin Live /\ "OPEN" \notin Live
  BY RulesAssumption DEF Live, Statuses
<1>2. Merged(WindowOf(row), NoBooking) =
        [listing |-> row.listing, start_time |-> row.start_time,
         status |-> "OPEN", candidate |-> None, landlord_created |-> TRUE,
         type |-> "ON_SITE", meet_link |-> None]
  BY <1>1 DEF Merged, WindowOf, NoBooking
<1>3. ComesBack(row) = [row EXCEPT !.landlord_created = TRUE, !.meet_link = None,
                                   !.type = "ON_SITE"]
  BY <1>1 DEF ComesBack
<1>4. QED
  BY <1>2, <1>3 DEF SlotRow

(* Down and up again, a row that requests served one at a time have left   *)
(* loses its author, the type without a link and the link without a        *)
(* booking, and nothing else.                                              *)
THEOREM RoundTripHolds == Spec => []RoundTripLosesNoBooking
<1>1. ASSUME IInv
      PROVE  RoundTripLosesNoBooking
  <2>0. TypeOK
    BY <1>1 DEF IInv
  <2> DEFINE windows == Windows(slots)
             bookings == Bookings(slots)
             back == Upgrade(windows, bookings)
  <2>1. ASSUME NEW s \in Ids
        PROVE  back[s] = IF windows[s] = NoWindow THEN NoRow
                         ELSE Merged(windows[s], JoinedTo(bookings, s))
    BY <1>1 DEF IInv, TypeOK, Windows, Upgrade
  <2> HIDE DEF back
  <2>2. ASSUME NEW s \in Ids, slots[s] = NoRow
        PROVE  back[s] = NoRow
    BY <2>0, <2>1, <2>2, WindowsBack
  <2>3. ASSUME NEW s \in Ids, slots[s] # NoRow
        PROVE  back[s] = ComesBack(slots[s])
    <3>1. windows[s] = WindowOf(slots[s])
      BY <2>0, <2>3, WindowsBack
    <3>2. slots[s] \in SlotRow
      BY <1>1, <2>3, StoredRow
    <3>3. windows[s] # NoWindow
      BY <3>1, <3>2, MigrationAssumption DEF WindowOf, NoWindow, SlotRow
    <3>4. back[s] = Merged(windows[s], JoinedTo(bookings, s))
      BY <2>1, <3>3
    <3>5. CASE slots[s].status \in Live
      <4>1. JoinedTo(bookings, s) = BookingOf(s, slots[s])
        BY <2>0, <2>3, <3>5, BookingsBack DEF JoinedTo
      <4>2. QED
        BY <3>1, <3>2, <3>4, <3>5, <4>1, MergedLive
    <3>6. CASE slots[s].status \notin Live
      <4>1. JoinedTo(bookings, s) = NoBooking
        BY <2>0, <2>3, <3>6, BookingsBack DEF JoinedTo
      <4>2. slots[s].status = "OPEN" /\ slots[s].candidate = None
        BY <1>1, <2>3, <3>6, StoredRow
      <4>3. QED
        BY <3>1, <3>2, <3>4, <4>1, <4>2, MergedOpen
    <3>7. QED
      BY <3>5, <3>6
  <2>4. QED
    BY <2>2, <2>3 DEF RoundTripLosesNoBooking, back
<1>2. QED
  BY <1>1, Invariant, PTL DEF Spec

----------------------------------------------------------------------------
(* Legacy tables *)

OldWindows  == [Ids -> Window \cup {NoWindow}]
OldBookings == UNION {[S -> Booking \cup {NoBooking}] : S \in SUBSET Nat}

(* slot_only_bookings leaves every booking with a slot and no slot with    *)
(* two: the NOT NULL column and the unique index it then adds fit.         *)
THEOREM SlotOnlyFits ==
  ASSUME NEW bookings \in OldBookings, NEW b \in DOMAIN bookings, NEW c \in DOMAIN bookings,
         SlotOnly(bookings)[b] # NoBooking, SlotOnly(bookings)[c] # NoBooking
  PROVE  /\ SlotOnly(bookings)[b].slot # None
         /\ SlotOnly(bookings)[b].slot = SlotOnly(bookings)[c].slot => b = c
<1>1. DOMAIN bookings \subseteq Nat
  BY DEF OldBookings
<1>2. /\ SlotOnly(bookings)[b] = bookings[b] /\ bookings[b].slot # None
      /\ \A d \in BookingsOf(bookings, bookings[b].slot) : b <= d
  BY DEF SlotOnly
<1>3. /\ SlotOnly(bookings)[c] = bookings[c]
      /\ \A d \in BookingsOf(bookings, bookings[c].slot) : c <= d
  BY DEF SlotOnly
<1>4. ASSUME bookings[b].slot = bookings[c].slot
      PROVE  b <= c /\ c <= b
  BY <1>2, <1>3, <1>4 DEF BookingsOf
<1>5. QED
  BY <1>1, <1>2, <1>3, <1>4

(* The upgrade turns any legacy tables into rows the service accepts: of   *)
(* no terminal status, with a candidate exactly when booked, and without a *)
(* meeting link on an ON_SITE window.                                      *)
THEOREM UpgradeIsSound ==
  ASSUME NEW windows \in OldWindows, NEW bookings \in OldBookings, NEW s \in Ids,
         windows[s] # NoWindow
  PROVE  LET row == Upgrade(windows, bookings)[s]
         IN  /\ row \in SlotRow /\ row # NoRow
             /\ row.status \in Live \cup {"OPEN"}
             /\ row.status # "OPEN" <=> row.candidate # None
             /\ row.status = "OPEN" => row.landlord_created
             /\ ValidateMeetLink(row.type, row.meet_link)
<1> DEFINE b == JoinedTo(bookings, s)
           row == Merged(windows[s], b)
<1>1. b \in Booking \cup {NoBooking}
  <2>1. CASE BookingsOf(bookings, s) = {}
    BY <2>1 DEF JoinedTo
  <2>2. CASE BookingsOf(bookings, s) # {}
    <3>1. PICK c \in BookingsOf(bookings, s) : b = bookings[c]
      BY <2>2 DEF JoinedTo
    <3>2. c \in DOMAIN bookings
      BY <3>1 DEF BookingsOf
    <3>3. PICK S \in SUBSET Nat : bookings \in [S -> Booking \cup {NoBooking}]
      BY DEF OldBookings
    <3>4. QED
      BY <3>1, <3>2, <3>3
  <2>3. QED
    BY <2>1, <2>2
<1>2. windows[s] \in Window
  BY DEF OldWindows
<1>3. Upgrade(windows, bookings)[s] = row
  BY DEF Upgrade, OldWindows
<1> HIDE DEF b
<1>4. row.landlord_created
  BY Zenon DEF Merged
<1>5. CASE b.status \in Live
  <2>1. b \in Booking
    BY <1>1, <1>5, RulesAssumption DEF NoBooking, Live, Statuses
  <2>2. row = [listing |-> windows[s].listing, start_time |-> windows[s].start_time,
               status |-> b.status, candidate |-> b.candidate, landlord_created |-> TRUE,
               type |-> IF b.meet_link # None THEN "REMOTE" ELSE "ON_SITE",
               meet_link |-> b.meet_link]
    BY <1>5 DEF Merged
  <2>3. row \in SlotRow
    BY <1>2, <1>5, <2>1, <2>2 DEF SlotRow, Window, Booking, Live, Statuses, Types
  <2>4. row.status = b.status /\ row.candidate = b.candidate /\ b.candidate # None
    BY <2>1, <2>2, RulesAssumption DEF Booking
  <2>5. ValidateMeetLink(row.type, row.meet_link)
    BY <2>2 DEF ValidateMeetLink
  <2> HIDE DEF row
  <2>6. QED
    BY <1>3, <1>4, <1>5, <2>3, <2>4, <2>5, RulesAssumption DEF Live
<1>6. CASE b.status \notin Live
  <2>1. row = [listing |-> windows[s].listing, start_time |-> windows[s].start_time,
               status |-> "OPEN", candidate |-> None, landlord_created |-> TRUE,
               type |-> IF b.meet_link # None THEN "REMOTE" ELSE "ON_SITE", meet_link |-> None]
    BY <1>6 DEF Merged
  <2>2. row \in SlotRow
    BY <1>2, <2>1 DEF SlotRow, Window, Statuses, Types
  <2>3. row.status = "OPEN" /\ row.candidate = None
    BY <2>1
  <2>4. ValidateMeetLink(row.type, row.meet_link)
    BY <2>1 DEF ValidateMeetLink
  <2> HIDE DEF row
  <2>5. QED
    BY <1>3, <1>4, <2>2, <2>3, <2>4, RulesAssumption
<1>7. QED
  BY <1>5, <1>6

(* A live booking, the only one of its slot after slot_only_bookings, is   *)
(* carried over with its candidate, its status and its link.               *)
THEOREM UpgradeKeepsLiveBookings ==
  ASSUME NEW windows \in OldWindows, NEW bookings \in OldBookings,
         NEW b \in DOMAIN bookings, NEW s \in Ids, windows[s] # NoWindow,
         bookings[b].slot = s, bookings[b].status \in Live,
         BookingsOf(bookings, s) = {b}
  PROVE  LET row == Upgrade(windows, bookings)[s]
         IN  /\ row.status = bookings[b].status
             /\ row.candidate = bookings[b].candidate
             /\ row.meet_link = bookings[b].meet_link
<1>1. JoinedTo(bookings, s) = bookings[b]
  BY DEF JoinedTo
<1>2. Upgrade(windows, bookings)[s] = Merged(windows[s], bookings[b])
  BY <1>1 DEF Upgrade, OldWindows
<1>3. QED
  BY <1>2 DEF Merged
=============================================================================
