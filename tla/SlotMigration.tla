--------------------------- MODULE SlotMigration ---------------------------
(***************************************************************************)
(* The two migrations of alembic/versions that move viewings: slot_only_   *)
(* bookings leaves at most one booking per availability slot, and unify_   *)
(* bookings_and_availability_slots merges the two tables into time_slots.  *)
(* Tables are functions of the id, as in TimeSlots; the downgrade is asked *)
(* of every table that requests served one at a time can leave.  Requests  *)
(* that overlap can also leave a CONFIRMED row without a candidate         *)
(* (SlotTransactions), and on that row its INSERT INTO bookings fails.     *)
(***************************************************************************)
EXTENDS TimeSlots

Live        == {"PENDING", "CONFIRMED"}
OldStatuses == Live \cup {"DECLINED", "CANCELLED"}

Window  == [listing : Listings, landlord : Users, start_time : Times, is_booked : BOOLEAN]
Booking == [slot : Ids \cup {None}, status : OldStatuses, candidate : Users,
            meet_link : Links \cup {None}, scheduled_at : Times,
            listing : Listings, landlord : Users]

NoWindow  == [listing |-> None, landlord |-> None, start_time |-> None, is_booked |-> FALSE]
NoBooking == [slot |-> None, status |-> None, candidate |-> None, meet_link |-> None,
              scheduled_at |-> None, listing |-> None, landlord |-> None]

ASSUME MigrationAssumption == None \notin Ids /\ None \notin Listings

BookingsOf(bookings, s) == {b \in DOMAIN bookings : bookings[b].slot = s}

(* slot_only_bookings: bookings without a slot go, and of a slot's only    *)
(* the one with the least id stays, whatever their statuses.               *)
SlotOnly(bookings) ==
  [b \in DOMAIN bookings |->
     IF bookings[b].slot # None /\ \A c \in BookingsOf(bookings, bookings[b].slot) : b <= c
     THEN bookings[b] ELSE NoBooking]

----------------------------------------------------------------------------
(* upgrade: the LEFT JOIN.  A terminal booking leaves plain availability,  *)
(* and the type is read off the meeting link.                              *)
Merged(w, b) ==
  LET live == b.status \in Live
  IN  [listing |-> w.listing, start_time |-> w.start_time,
       status           |-> IF live THEN b.status ELSE "OPEN",
       candidate        |-> IF live THEN b.candidate ELSE None,
       landlord_created |-> TRUE,
       type             |-> IF b.meet_link # None THEN "REMOTE" ELSE "ON_SITE",
       meet_link        |-> IF live THEN b.meet_link ELSE None]

(* NoBooking stands for the NULLs of the outer join.                       *)
JoinedTo(bookings, s) ==
  IF BookingsOf(bookings, s) = {} THEN NoBooking
  ELSE bookings[CHOOSE b \in BookingsOf(bookings, s) : TRUE]

Upgrade(windows, bookings) ==
  [s \in DOMAIN windows |->
     IF windows[s] = NoWindow THEN NoRow ELSE Merged(windows[s], JoinedTo(bookings, s))]

----------------------------------------------------------------------------
(* downgrade: the landlord comes from the listing.                         *)
WindowOf(row) ==
  [listing |-> row.listing, landlord |-> Landlord(row),
   start_time |-> row.start_time, is_booked |-> row.status # "OPEN"]

BookingOf(s, row) ==
  [slot |-> s, status |-> row.status, candidate |-> row.candidate,
   meet_link |-> row.meet_link, scheduled_at |-> row.start_time,
   listing |-> row.listing, landlord |-> Landlord(row)]

Windows(table) == [s \in DOMAIN table |-> IF table[s] = NoRow THEN NoWindow ELSE WindowOf(table[s])]

(* Wrong: only CONFIRMED rows come back as bookings.                       *)
BookingsConfirmed(table) ==
  [s \in DOMAIN table |->
     IF table[s] # NoRow /\ table[s].status = "CONFIRMED" THEN BookingOf(s, table[s]) ELSE NoBooking]

(* A booking reuses the id of its slot.                                    *)
Bookings(table) ==
  [s \in DOMAIN table |->
     IF table[s] # NoRow /\ table[s].status \in Live THEN BookingOf(s, table[s]) ELSE NoBooking]

----------------------------------------------------------------------------
(* The downgrade of a table that requests served one at a time have left   *)
(* satisfies the columns that may not be NULL and the foreign key to       *)
(* users, and a window says it is booked exactly when a booking comes with *)
(* it.                                                                     *)
DowngradeFits ==
  LET windows == Windows(slots)  bookings == Bookings(slots)
  IN  /\ \A s \in Ids : bookings[s] # NoBooking => bookings[s] \in Booking /\ bookings[s].candidate \in present
      /\ \A s \in Ids : windows[s].is_booked <=> BookingsOf(bookings, s) # {}

(* What a row is after the way down and up again.  A window is always the  *)
(* landlord's, its type is read off the link of its booking, and without a *)
(* booking it has no link.                                                 *)
ComesBack(row) ==
  LET link == IF row.status \in Live THEN row.meet_link ELSE None
  IN  [row EXCEPT !.landlord_created = TRUE,
                  !.meet_link = link,
                  !.type = IF link # None THEN "REMOTE" ELSE "ON_SITE"]

(* The downgrade is lossy, and this is all it loses of a table that        *)
(* requests served one at a time have left: who authored a row, the type   *)
(* of one without a link, the link of one without a booking.  No row comes *)
(* or goes and no booking changes hands, status, time or link.  That goes  *)
(* for a candidate's proposal too: the migration says it has "no old-world *)
(* counterpart at all", but it gets a window and a booking, and comes back *)
(* as the landlord's.                                                      *)
RoundTripLosesNoBooking ==
  LET back == Upgrade(Windows(slots), Bookings(slots))
  IN  \A s \in Ids : back[s] = IF slots[s] = NoRow THEN NoRow ELSE ComesBack(slots[s])
=============================================================================
