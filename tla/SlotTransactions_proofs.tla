---------------------- MODULE SlotTransactions_proofs ----------------------
(***************************************************************************)
(* What overlapping requests cannot break, for any number of requests,     *)
(* connections and rows.  The statements of other requests come between a  *)
(* handler's check and its write, so the invariant is about what survives  *)
(* a stale write: weaker about a row than in TimeSlots_proofs, and joined  *)
(* by what each request in flight remembers and each lock protects.        *)
(*                                                                         *)
(* The second half is about PoolSize = 1: nothing a request has read is    *)
(* stale when it writes (SerialInv), so its commit is a step of TimeSlots, *)
(* and what TransactionsOrphan and TransactionsDestroy break holds.        *)
(***************************************************************************)
EXTENDS SlotTransactions, SlotRules_proofs, FiniteSetTheorems

(* The part of a sound row that stale writes keep. *)
KindRow(row) ==
  /\ row.status = "OPEN" => row.landlord_created
  /\ row.status \notin {"DECLINED", "CANCELLED"}
  /\ row.candidate # Landlord(row)

(* The columns no request writes after the insert. *)
SameWindow(new, old) ==
  new.listing = old.listing /\ new.landlord_created = old.landlord_created

(* Who makes a CONFIRMED row of one that was not. *)
Decides(u, new, old) ==
  new.status = "CONFIRMED" /\ old.status # "CONFIRMED" => u = Landlord(old)

(* What a PATCH or release by u makes of a row that it keeps. *)
Rewrites(u, new, old) ==
  /\ new \in SlotRow
  /\ KindRow(new)
  /\ SameSlot(new, old)
  /\ Decides(u, new, old)

----------------------------------------------------------------------------
(* The rules of one row, for rows of which only the kind is known *)

(* _release opens a landlord's window, whoever held it. *)
LEMMA ReleaseRewrites ==
  ASSUME NEW u, NEW row \in SlotRow, Release(row) # NoRow
  PROVE  Rewrites(u, Release(row), row) /\ Release(row).status = "OPEN"
<1>1. /\ row.landlord_created
      /\ Release(row) = [row EXCEPT !.status = "OPEN", !.candidate = None, !.meet_link = None]
  BY DEF Release
<1>2. Release(row) \in SlotRow
  BY <1>1 DEF SlotRow, Statuses
<1>3. /\ Release(row).status = "OPEN" /\ Release(row).candidate = None
      /\ Release(row).listing = row.listing
      /\ Release(row).landlord_created = row.landlord_created
  BY <1>1 DEF SlotRow
<1>4. QED
  BY <1>1, <1>2, <1>3, LandlordIsUser DEF Rewrites, KindRow, SameSlot, Decides

(* update_booking keeps the kind of the row and the landlord's say. *)
LEMMA UpdateBookingRewrites ==
  ASSUME NEW u \in Users, NEW row \in SlotRow, NEW d \in PatchData,
         KindRow(row), MayUpdateBooking(u, row, d), UpdateBooking(row, d) # NoRow
  PROVE  Rewrites(u, UpdateBooking(row, d), row)
<1>1. CASE Releases(d)
  BY <1>1, ReleaseRewrites DEF UpdateBooking
<1>2. CASE ~Releases(d)
  <2> DEFINE new == [row EXCEPT
                       !.status = Given(d.status, row.status),
                       !.meet_link = Given(d.meet_link, row.meet_link),
                       !.start_time = Given(d.start_time, row.start_time),
                       !.type = Given(d.type, row.type)]
  <2>1. UpdateBooking(row, d) = new
    BY <1>2 DEF UpdateBooking, SlotRow
  <2>2. new \in SlotRow
    BY AssignedTyped
  <2>3. /\ new.status = Given(d.status, row.status)
        /\ new.candidate = row.candidate
        /\ new.listing = row.listing
        /\ new.landlord_created = row.landlord_created
    BY DEF SlotRow
  <2>4. d.status # None => d.status = "CONFIRMED" /\ Landlord(row) = u
    <3> SUFFICES ASSUME d.status # None
                 PROVE  d.status = "CONFIRMED" /\ Landlord(row) = u
      OBVIOUS
    <3>1. d.status \in VALID_TRANSITIONS[row.status]
      BY DEF MayUpdateBooking
    <3>2. d.status = "CONFIRMED"
      BY <3>1, <1>2 DEF Releases, VALID_TRANSITIONS, SlotRow, Statuses
    <3>3. QED
      BY <3>2 DEF MayUpdateBooking
  <2>5. KindRow(new) /\ Decides(u, new, row)
    BY <2>3, <2>4 DEF KindRow, Landlord, Given, Decides
  <2>6. QED
    BY <2>1, <2>2, <2>3, <2>5 DEF Rewrites, SameSlot
<1>3. QED
  BY <1>1, <1>2

(* So does a whole PATCH. *)
LEMMA PatchedRewrites ==
  ASSUME NEW u \in Users, NEW row \in SlotRow, NEW d \in PatchData,
         KindRow(row), MayPatch(u, row, d), Patched(row, d) # NoRow
  PROVE  Rewrites(u, Patched(row, d), row)
<1> DEFINE mid == AfterBooking(row, d)
<1>1. mid # NoRow
  BY DEF Patched, UpdatesSlot
<1>2. Rewrites(u, mid, row)
  <2>1. CASE PatchesBooking(d)
    BY <2>1, <1>1, UpdateBookingRewrites DEF MayPatch, AfterBooking
  <2>2. CASE ~PatchesBooking(d)
    BY <2>2 DEF AfterBooking, Rewrites, SameSlot, Decides
  <2>3. QED
    BY <2>1, <2>2
<1>3. CASE UpdatesSlot(row, d)
  <2>1. Patched(row, d) = UpdateSlot(mid, d)
    BY <1>3 DEF Patched
  <2>2. mid \in SlotRow
    BY <1>2 DEF Rewrites
  <2>3. UpdateSlot(mid, d) \in SlotRow
    BY <2>2, UpdateSlotTyped
  <2>4. /\ UpdateSlot(mid, d).status = mid.status
        /\ UpdateSlot(mid, d).candidate = mid.candidate
        /\ UpdateSlot(mid, d).listing = mid.listing
        /\ UpdateSlot(mid, d).landlord_created = mid.landlord_created
    BY <2>2 DEF UpdateSlot, SlotRow
  <2>5. QED
    BY <2>1, <2>3, <2>4, <1>2 DEF Rewrites, KindRow, Landlord, SameSlot, Decides
<1>4. CASE ~UpdatesSlot(row, d)
  BY <1>4, <1>2 DEF Patched
<1>5. QED
  BY <1>3, <1>4

(* The ORM's UPDATE applied to a newer version of the row it was computed  *)
(* from: still a row of the same window and kind.                          *)
LEMMA OverwriteRewrites ==
  ASSUME NEW u, NEW row \in SlotRow, NEW old \in SlotRow, NEW new \in SlotRow,
         KindRow(row), SameWindow(row, old), Rewrites(u, new, old)
  PROVE  Rewrites(u, Overwrite(row, old, new), row)
<1> DEFINE over == Overwrite(row, old, new)
           pick(c) == IF c \in Changed(old, new) THEN new[c] ELSE row[c]
<1>1. over = [c \in DOMAIN row |-> pick(c)]
  BY DEF Overwrite
<1>2. /\ DOMAIN row = {"listing", "start_time", "status", "candidate",
                       "landlord_created", "type", "meet_link"}
      /\ DOMAIN old = DOMAIN row
  BY DEF SlotRow
<1>3. over = [listing |-> pick("listing"), start_time |-> pick("start_time"),
              status |-> pick("status"), candidate |-> pick("candidate"),
              landlord_created |-> pick("landlord_created"),
              type |-> pick("type"), meet_link |-> pick("meet_link")]
  BY <1>1, <1>2
<1>4. ASSUME NEW c \in DOMAIN row
      PROVE  pick(c) = IF new[c] # old[c] THEN new[c] ELSE row[c]
  BY <1>2, <1>4 DEF Changed
<1>5. /\ over.listing = row.listing
      /\ over.landlord_created = row.landlord_created
      /\ over.status = IF new.status # old.status THEN new.status ELSE row.status
      /\ over.candidate = IF new.candidate # old.candidate THEN new.candidate ELSE row.candidate
  BY <1>2, <1>3, <1>4 DEF Rewrites, SameSlot
<1>6. over \in SlotRow
  BY <1>2, <1>3, <1>4 DEF SlotRow
<1>7. over.status = "OPEN" => over.landlord_created
  BY <1>5 DEF KindRow, Rewrites, SameSlot, SameWindow
<1>8. over.status \notin {"DECLINED", "CANCELLED"}
  BY <1>5 DEF KindRow, Rewrites
<1>9. over.candidate \in {row.candidate, None} /\ over.candidate # Landlord(over)
  BY <1>5, LandlordIsUser DEF KindRow, Rewrites, SameSlot, SameWindow, Landlord
<1>10. Decides(u, over, row)
  BY <1>5 DEF Decides, Rewrites, SameWindow, Landlord
<1>11. QED
  BY <1>5, <1>6, <1>7, <1>8, <1>9, <1>10 DEF Rewrites, KindRow, SameSlot

----------------------------------------------------------------------------
(* The inductive invariant *)

(* Committed rows are of a kind and their ids were handed out. *)
KindTable(table, ids) ==
  \A s \in Ids : table[s] # NoRow => KindRow(table[s]) /\ s \in ids

(* What a request remembers of the row it loaded, and of its own plan.  A   *)
(* row deleted since then never comes back, so an id that holds a row       *)
(* still holds the same window.                                            *)
Remembers(q, table, ids) ==
  /\ q.stage = "admitted" =>
       /\ q.op \in {"patch", "delete"} /\ q.by \in Users /\ q.slot \in Ids
       /\ q.op = "patch" => q.body \in Bodies
  /\ q.stage \in {"loaded", "flushed"} =>
       /\ q.by \in Users /\ q.op \in Ops
       /\ IF Inserts(q) THEN q.new \in SlotRow /\ KindRow(q.new)
          ELSE q.slot \in Ids
  /\ q.stage = "loaded" /\ ~Inserts(q) =>
       /\ q.old \in SlotRow /\ q.slot \in ids
       /\ table[q.slot] # NoRow => SameWindow(table[q.slot], q.old)
       /\ q.op = "claim" => Landlord(q.old) # q.by /\ q.new \in SlotRow
       /\ q.op # "claim" /\ q.new # NoRow => Rewrites(q.by, q.new, q.old)

(* What the holder of a row's lock will make of the row, which nobody else  *)
(* changes before it does.                                                 *)
Protects(q, s, row) ==
  /\ q.stage = "flushed" /\ ~Inserts(q) /\ q.slot = s
  /\ q.new # NoRow =>
       /\ row # NoRow /\ q.new \in SlotRow /\ KindRow(q.new)
       /\ SameWindow(q.new, row)
       /\ Decides(q.by, q.new, row)
       /\ \/ q.new.candidate \in {row.candidate, None}
          \/ row.status = "OPEN" /\ q.new.candidate = q.by

IInv ==
  /\ TypeOK
  /\ KindTable(slots, used)
  /\ \A r \in Requests : Remembers(req[r], slots, used)
  /\ \A s \in Ids, r \in Requests : lock[s] = r => Protects(req[r], s, slots[s])

(* The invariant holds initially. *)
LEMMA InitIInv == Init => IInv
<1> SUFFICES ASSUME Init
             PROVE  IInv
  OBVIOUS
<1>1. Unused \in Request
  BY DEF Unused, Request, Stages
<1>2. PICK seed \in Seeds :
        /\ slots = [s \in Ids |-> IF s = 1 THEN seed ELSE NoRow]
        /\ used = IF seed = NoRow THEN {} ELSE {1} \cap Ids
  BY DEF Init
<1>3. TypeOK
  BY <1>1, <1>2, TransactionsAssumption DEF Init, TypeOK
<1>4. KindTable(slots, used)
  BY <1>2, SeedsAssumption DEF KindTable, KindRow
<1>5. \A r \in Requests : Remembers(req[r], slots, used)
  BY DEF Init, Unused, Remembers
<1>6. \A s \in Ids : lock[s] \notin Requests
  BY TransactionsAssumption DEF Init
<1>7. QED
  BY <1>3, <1>4, <1>5, <1>6 DEF IInv

(* Steps that leave the table alone: only the request r moves, and it holds *)
(* no lock but one it has just taken.                                      *)
LEMMA AdvanceIInv ==
  ASSUME IInv, NEW r \in Requests, NEW q \in Request, Advance(r, q),
         UNCHANGED <<slots, used, last>>, Remembers(q, slots, used),
         lock' \in [Ids -> Requests \cup {None}],
         \A s \in Ids : \/ lock'[s] = lock[s] /\ lock[s] # r
                        \/ lock'[s] = None
                        \/ lock'[s] = r /\ Protects(q, s, slots[s])
  PROVE  IInv'
<1> USE DEF IInv, TypeOK
<1>1. req' = [req EXCEPT ![r] = q]
  BY DEF Advance
<1>2. TypeOK'
  BY <1>1
<1>3. \A x \in Requests : Remembers(req'[x], slots', used')
  BY <1>1
<1>4. \A s \in Ids, x \in Requests : lock'[s] = x => Protects(req'[x], s, slots'[s])
  BY <1>1, TransactionsAssumption
<1>5. KindTable(slots', used')
  OBVIOUS
<1>6. QED
  BY <1>2, <1>3, <1>4, <1>5

(* A request that has not flushed holds no lock. *)
LEMMA NoLockBeforeFlush ==
  ASSUME IInv, NEW r \in Requests, req[r].stage # "flushed"
  PROVE  \A s \in Ids : lock[s] # r
  BY DEF IInv, Protects

(* A step that only reads keeps the invariant. *)
LEMMA ReadIInv ==
  ASSUME IInv, NEW r \in Requests, NEW q \in Request, Advance(r, q), Reads,
         req[r].stage # "flushed", Remembers(q, slots, used)
  PROVE  IInv'
  BY AdvanceIInv, NoLockBeforeFlush DEF Reads, IInv, TypeOK

----------------------------------------------------------------------------
(* The statements that read *)

(* A refused request forgets its plan. *)
LEMMA RefuseIInv ==
  ASSUME IInv, NEW r \in Requests, Refuse(r), req[r].stage # "flushed"
  PROVE  IInv'
<1> DEFINE q == [req[r] EXCEPT !.stage = "refused"]
<1>1. q \in Request /\ q.stage = "refused"
  BY DEF IInv, TypeOK, Request, Stages
<1>2. Remembers(q, slots, used)
  BY <1>1 DEF Remembers
<1>3. QED
  BY <1>1, <1>2, ReadIInv DEF Refuse

(* The ownership check records who asked for what. *)
LEMMA AdmitIInv ==
  ASSUME IInv, NEW r \in Requests, NEW u \in Users, NEW s \in Ids,
         NEW op \in {"patch", "delete"}, NEW d \in Bodies \cup {None},
         op = "patch" => d \in Bodies, Admit(r, op, u, s, d)
  PROVE  IInv'
<1> DEFINE q == [Unused EXCEPT !.stage = "admitted", !.op = op, !.by = u,
                               !.slot = s, !.body = d]
<1>1. /\ q \in Request /\ q.stage = "admitted"
      /\ q.op = op /\ q.by = u /\ q.slot = s /\ q.body = d
  BY DEF Unused, Request, Stages, Ops
<1>2. Remembers(q, slots, used)
  BY <1>1 DEF Remembers
<1>3. QED
  BY <1>1, <1>2, ReadIInv DEF Admit, Arrives

(* The plan a handler leaves behind when it has loaded and checked. *)
LEMMA LoadsIInv ==
  ASSUME IInv, NEW r \in Requests, NEW q \in Request, NEW row \in SlotRow \cup {NoRow},
         NEW mails \in SUBSET Mail, Loads(r, q, row, mails), req[r].stage # "flushed",
         q.by \in Users, q.op \in Ops,
         Inserts(q) => row \in SlotRow /\ KindRow(row),
         ~Inserts(q) =>
           /\ q.slot \in Ids /\ slots[q.slot] # NoRow /\ q.old = slots[q.slot]
           /\ q.op = "claim" => Landlord(q.old) # q.by /\ row \in SlotRow
           /\ q.op # "claim" /\ row # NoRow => Rewrites(q.by, row, q.old)
  PROVE  IInv'
<1> DEFINE n == [q EXCEPT !.stage = "loaded", !.new = row, !.mails = mails]
<1>1. /\ n \in Request /\ n.stage = "loaded" /\ n.new = row
      /\ n.op = q.op /\ n.by = q.by /\ n.slot = q.slot /\ n.old = q.old
  BY DEF Request, Stages
<1>2. ~Inserts(q) => q.old \in SlotRow /\ q.slot \in used
  BY DEF IInv, TypeOK, KindTable
<1>3. Remembers(n, slots, used)
  BY <1>1, <1>2 DEF Remembers, Inserts, SameWindow
<1>4. QED
  BY <1>1, <1>3, ReadIInv DEF Loads

(* PATCH and DELETE plan a rewrite of the row they loaded. *)
LEMMA LoadIInv ==
  ASSUME IInv, NEW r \in Requests, Load(r)
  PROVE  IInv'
<1> DEFINE q == req[r]
           row == slots[q.slot]
           n == [q EXCEPT !.old = row]
<1>1. /\ q \in Request /\ q.stage = "admitted" /\ q.op \in {"patch", "delete"}
      /\ q.by \in Users /\ q.slot \in Ids /\ (q.op = "patch" => q.body \in PatchData)
  BY TransactionsAssumption DEF Load, IInv, TypeOK, Remembers
<1>2. CASE ~Accepts(q, row)
  BY <1>1, <1>2, RefuseIInv DEF Load
<1>3. CASE Accepts(q, row)
  <2>1. row # NoRow /\ row \in SlotRow /\ KindRow(row)
    BY <1>1, <1>3 DEF Accepts, IInv, TypeOK, KindTable
  <2>2. /\ n \in Request /\ n.op = q.op /\ n.by = q.by /\ n.slot = q.slot /\ n.old = row
        /\ ~Inserts(n)
    BY <1>1, <2>1 DEF Request, Inserts
  <2>3. CASE q.op = "patch"
    <3>1. Loads(r, n, Patched(row, q.body), PatchMail(q.by, row, q.body, Users))
      BY <1>3, <2>3 DEF Load
    <3>2. Patched(row, q.body) # NoRow => Rewrites(q.by, Patched(row, q.body), row)
      BY <1>1, <1>3, <2>1, <2>3, PatchedRewrites DEF Accepts
    <3>3. PatchMail(q.by, row, q.body, Users) \in SUBSET Mail
      BY <1>1, <2>1, <2>3, MailsTyped
    <3>4. QED
      BY <1>1, <2>1, <2>2, <2>3, <3>1, <3>2, <3>3, LoadsIInv DEF Rewrites, Ops
  <2>4. CASE q.op = "delete"
    <3>1. Loads(r, n, Deleted(row), DeleteMail(q.by, row, Users))
      BY <1>3, <2>4 DEF Load
    <3>2. Deleted(row) # NoRow => Rewrites(q.by, Deleted(row), row)
      BY <2>1, ReleaseRewrites DEF Deleted
    <3>3. DeleteMail(q.by, row, Users) \in SUBSET Mail
      BY <2>1 DEF DeleteMail, ReleaseMail, Mail, Kinds
    <3>4. QED
      BY <1>1, <2>1, <2>2, <2>4, <3>1, <3>2, <3>3, LoadsIInv DEF Rewrites, Ops
  <2>5. QED
    BY <1>1, <2>3, <2>4
<1>4. QED
  BY <1>2, <1>3

(* A claim plans to book a row of somebody else's listing. *)
LEMMA LoadClaimIInv ==
  ASSUME IInv, NEW r \in Requests, NEW u \in Users, NEW s \in Ids,
         NEW meet \in Links \cup {None}, LoadClaim(r, u, s, meet)
  PROVE  IInv'
<1> DEFINE q == [Unused EXCEPT !.op = "claim", !.by = u, !.slot = s, !.old = slots[s]]
<1>1. slots[s] \in SlotRow /\ slots[s] # NoRow /\ Landlord(slots[s]) # u
  BY DEF LoadClaim, MayClaim, IInv, TypeOK
<1>2. /\ q \in Request /\ q.op = "claim" /\ q.by = u /\ q.slot = s /\ q.old = slots[s]
      /\ ~Inserts(q)
  BY <1>1 DEF Unused, Request, Stages, Ops, Inserts
<1>3. Claimed(slots[s], u, meet) \in SlotRow
  BY <1>1 DEF Claimed, SlotRow, Statuses
<1>4. CreatedMail(slots[s], Users) \in SUBSET Mail
  BY DEF CreatedMail, Mail, Kinds
<1>5. QED
  BY <1>1, <1>2, <1>3, <1>4, LoadsIInv DEF LoadClaim, Arrives, Ops

(* create_slot and propose plan a row of a proper kind. *)
LEMMA LoadInsertIInv ==
  ASSUME IInv, NEW r \in Requests, NEW u \in Users, NEW l \in Listings, NEW t \in Times,
         NEW type \in Types, NEW meet \in Links \cup {None},
         LoadCreate(r, u, l, t, type, meet) \/ LoadPropose(r, u, l, t, type, meet)
  PROVE  IInv'
<1>1. ASSUME NEW op \in {"create", "propose"}
      PROVE  LET q == [Unused EXCEPT !.op = op, !.by = u]
             IN  q \in Request /\ q.op = op /\ q.by = u /\ Inserts(q)
  BY DEF Unused, Request, Stages, Ops, Inserts
<1>2. CASE LoadCreate(r, u, l, t, type, meet)
  <2>1. NewWindow(l, t, type, meet) \in SlotRow /\ KindRow(NewWindow(l, t, type, meet))
    BY NewWindowSound DEF SoundRow, KindRow
  <2> DEFINE q == [Unused EXCEPT !.op = "create", !.by = u]
  <2>2. Loads(r, q, NewWindow(l, t, type, meet), {}) /\ req[r].stage # "flushed"
    BY <1>2 DEF LoadCreate, Arrives
  <2>3. q \in Request /\ q.op = "create" /\ q.by = u /\ Inserts(q)
    BY <1>1
  <2>4. {} \in SUBSET Mail /\ q.op \in Ops /\ q.by \in Users
    BY <2>3 DEF Ops
  <2> HIDE DEF q
  <2>5. QED
    BY <2>1, <2>2, <2>3, <2>4, LoadsIInv
<1>3. CASE LoadPropose(r, u, l, t, type, meet)
  <2> DEFINE row == NewProposal(u, l, t, type, meet)
  <2>1. row \in SlotRow /\ KindRow(row)
    BY <1>3, NewProposalSound DEF LoadPropose, MayPropose, SoundRow, KindRow
  <2>2. CreatedMail(row, Users) \in SUBSET Mail
    BY DEF CreatedMail, Mail, Kinds
  <2>3. QED
    BY <1>1, <1>3, <2>1, <2>2, LoadsIInv DEF LoadPropose, Arrives, Ops
<1>4. QED
  BY <1>2, <1>3

----------------------------------------------------------------------------
(* The statements that write *)

(* A written row is locked, and stays as planned until the commit. *)
LEMMA LocksIInv ==
  ASSUME IInv, NEW r \in Requests, NEW row \in SlotRow \cup {NoRow}, Flushed(r, row),
         Locks(r), req[r].stage = "loaded", ~Inserts(req[r]),
         row # NoRow =>
           LET s == req[r].slot
           IN  /\ slots[s] # NoRow /\ KindRow(row)
               /\ SameWindow(row, slots[s])
               /\ Decides(req[r].by, row, slots[s])
               /\ \/ row.candidate \in {slots[s].candidate, None}
                  \/ slots[s].status = "OPEN" /\ row.candidate = req[r].by
  PROVE  IInv'
<1> DEFINE q == [req[r] EXCEPT !.stage = "flushed", !.new = row]
           s == req[r].slot
<1>1. /\ q \in Request /\ q.stage = "flushed" /\ q.new = row
      /\ q.op = req[r].op /\ q.by = req[r].by /\ q.slot = s
  BY DEF IInv, TypeOK, Request, Stages
<1>2. s \in Ids /\ Remembers(q, slots, used)
  BY <1>1 DEF IInv, Remembers, Inserts
<1>3. Protects(q, s, slots[s])
  BY <1>1 DEF Protects, Inserts
<1>4. lock' = [lock EXCEPT ![s] = r] /\ UNCHANGED <<slots, used, last>>
  BY DEF Locks
<1>5. \A x \in Ids : lock[x] # r
  BY NoLockBeforeFlush
<1>6. lock' \in [Ids -> Requests \cup {None}]
  BY <1>4 DEF IInv, TypeOK
<1>7. \A x \in Ids : \/ lock'[x] = lock[x] /\ lock[x] # r
                     \/ lock'[x] = r /\ Protects(q, x, slots[x])
  BY <1>2, <1>3, <1>4, <1>5 DEF IInv, TypeOK
<1>8. Advance(r, q)
  BY DEF Flushed
<1>9. QED
  BY <1>1, <1>2, <1>4, <1>6, <1>7, <1>8, AdvanceIInv

(* A flush that touches no row another transaction sees. *)
LEMMA QuietFlushIInv ==
  ASSUME IInv, NEW r \in Requests, NEW row \in SlotRow \cup {NoRow}, Flushed(r, row), Reads,
         req[r].stage = "loaded", Inserts(req[r]) => row = req[r].new
  PROVE  IInv'
<1> DEFINE q == [req[r] EXCEPT !.stage = "flushed", !.new = row]
<1>1. /\ q \in Request /\ q.stage = "flushed" /\ q.new = row
      /\ q.op = req[r].op /\ q.by = req[r].by /\ q.slot = req[r].slot
  <2>1. req[r] \in Request /\ "flushed" \in Stages
    BY DEF IInv, TypeOK, Stages
  <2>2. QED
    BY <2>1 DEF Request
<1> HIDE DEF q
<1>2. Remembers(q, slots, used)
  <2>1. Remembers(req[r], slots, used) /\ (Inserts(q) <=> Inserts(req[r]))
    BY <1>1 DEF IInv, Inserts
  <2>2. QED
    BY <1>1, <2>1 DEF Remembers
<1>3. QED
  BY <1>1, <1>2, ReadIInv DEF Flushed, q

(* The conditional UPDATE books a row that is OPEN under its lock. *)
LEMMA FlushClaimIInv ==
  ASSUME IInv, NEW r \in Requests, FlushClaim(r)
  PROVE  IInv'
<1> DEFINE q == req[r]
           row == slots[q.slot]
           new == Claimed(row, q.by, q.new.meet_link)
<1>1. /\ q.stage = "loaded" /\ q.op = "claim" /\ ~Inserts(q)
      /\ q.slot \in Ids /\ q.by \in Users /\ q.old \in SlotRow /\ q.new \in SlotRow
      /\ Landlord(q.old) # q.by
      /\ row # NoRow => SameWindow(row, q.old) /\ row \in SlotRow /\ KindRow(row)
  BY DEF FlushClaim, IInv, TypeOK, KindTable, Remembers, Inserts
<1>2. CASE row # NoRow /\ row.status = "OPEN"
  <2>1. Flushed(r, new) /\ Locks(r)
    BY <1>2 DEF FlushClaim
  <2>2. q.new.meet_link \in Links \cup {None} /\ row \in SlotRow
    BY <1>1, <1>2 DEF SlotRow
  <2>3. new \in SlotRow
    BY <1>1, <2>2 DEF Claimed, SlotRow, Statuses
  <2>4. /\ new.status = "PENDING" /\ new.candidate = q.by
        /\ SameWindow(new, row)
    BY <2>2 DEF Claimed, SlotRow, SameWindow
  <2>5. KindRow(new) /\ Decides(q.by, new, row)
    BY <1>1, <1>2, <2>4 DEF KindRow, SameWindow, Landlord, Decides
  <2>6. QED
    BY <1>1, <1>2, <2>1, <2>3, <2>4, <2>5, LocksIInv
<1>3. CASE ~(row # NoRow /\ row.status = "OPEN")
  BY <1>1, <1>3, RefuseIInv DEF FlushClaim
<1>4. QED
  BY <1>2, <1>3

(* The ORM's UPDATE rewrites the newest version of the row. *)
LEMMA FlushUpdateIInv ==
  ASSUME IInv, NEW r \in Requests, FlushUpdate(r)
  PROVE  IInv'
<1> DEFINE q == req[r]
           row == slots[q.slot]
           new == Overwrite(row, q.old, q.new)
<1>1. /\ q.stage = "loaded" /\ ~Inserts(q) /\ q.slot \in Ids /\ q.old \in SlotRow
      /\ Rewrites(q.by, q.new, q.old)
      /\ row # NoRow => SameWindow(row, q.old) /\ row \in SlotRow /\ KindRow(row)
  BY DEF FlushUpdate, IInv, TypeOK, KindTable, Remembers, Inserts
<1>2. CASE Flushed(r, NoRow) /\ Reads
  BY <1>1, <1>2, QuietFlushIInv
<1>3. CASE row # NoRow /\ Flushed(r, new) /\ Locks(r)
  <2>1. q.new \in SlotRow
    BY <1>1 DEF Rewrites
  <2>2. Rewrites(q.by, new, row)
    BY <1>1, <1>3, <2>1, OverwriteRewrites
  <2>3. QED
    BY <1>1, <1>3, <2>2, LocksIInv DEF Rewrites, SameSlot, SameWindow
<1>4. CASE Refuse(r)
  BY <1>1, <1>4, RefuseIInv
<1>5. QED
  BY <1>2, <1>3, <1>4 DEF FlushUpdate

(* Every writing statement keeps the invariant. *)
LEMMA FlushIInv ==
  ASSUME IInv, NEW r \in Requests, Flush(r)
  PROVE  IInv'
<1>1. CASE FlushInsert(r)
  <2>1. req[r].new \in SlotRow
    BY <1>1 DEF FlushInsert, IInv, Remembers
  <2>2. QED
    BY <1>1, <2>1, QuietFlushIInv DEF FlushInsert
<1>2. CASE FlushDelete(r)
  BY <1>2, LocksIInv DEF FlushDelete, Inserts
<1>3. QED
  BY <1>1, <1>2, FlushClaimIInv, FlushUpdateIInv DEF Flush
----------------------------------------------------------------------------
(* The end of a transaction *)

(* A rollback only frees the lock. *)
LEMMA LoseIInv ==
  ASSUME IInv, NEW r \in Requests, LoseToMail(r)
  PROVE  IInv'
<1> DEFINE q == [req[r] EXCEPT !.stage = "lost"]
<1>1. q \in Request /\ q.stage = "lost"
  BY DEF IInv, TypeOK, Request, Stages
<1>2. Remembers(q, slots, used)
  BY <1>1 DEF Remembers
<1>3. lock' = [s \in Ids |-> IF lock[s] = r THEN None ELSE lock[s]]
  BY DEF LoseToMail, Unlock
<1>4. lock' \in [Ids -> Requests \cup {None}]
  BY <1>3 DEF IInv, TypeOK
<1>5. \A s \in Ids : (lock'[s] = lock[s] /\ lock[s] # r) \/ lock'[s] = None
  BY <1>3
<1>6. Advance(r, q) /\ UNCHANGED <<slots, used, last>>
  BY DEF LoseToMail
<1>7. QED
  BY <1>1, <1>2, <1>4, <1>5, <1>6, AdvanceIInv

(* What a commit by r does to one row: it stores what r's lock protects, or *)
(* a new row under a fresh id, or nothing.                                 *)
CommitsRow(r, s) ==
  \/ slots'[s] = slots[s] /\ lock[s] # r
  \/ /\ lock[s] = r /\ Protects(req[r], s, slots[s])
     /\ slots'[s] = req[r].new
  \/ /\ slots[s] = NoRow /\ s \notin used /\ s \in used' /\ lock[s] # r
     /\ slots'[s] = req[r].new
     /\ req[r].new \in SlotRow /\ KindRow(req[r].new)

(* A commit does to each row one of the above. *)
LEMMA CommitRow ==
  ASSUME IInv, NEW r \in Requests, Commit(r)
  PROVE  /\ slots' \in [Ids -> SlotRow \cup {NoRow}]
         /\ used \subseteq used' /\ used' \subseteq Ids
         /\ \A s \in Ids : CommitsRow(r, s)
<1> DEFINE q == req[r]
<1>1. /\ q \in Request /\ q.stage = "flushed"
      /\ Inserts(q) => q.new \in SlotRow /\ KindRow(q.new)
  BY DEF Commit, IInv, TypeOK, Remembers
<1>2. \A s \in Ids : lock[s] = r => Protects(q, s, slots[s])
  BY DEF IInv
<1>3. CASE Inserts(q)
  <2>1. PICK i \in Ids \ used : slots' = [slots EXCEPT ![i] = q.new] /\ used' = used \cup {i}
    BY <1>3 DEF Commit
  <2>2. \A s \in Ids : lock[s] # r
    BY <1>2, <1>3 DEF Protects
  <2>3. slots[i] = NoRow
    BY DEF IInv, KindTable
  <2>4. QED
    BY <1>1, <1>3, <2>1, <2>2, <2>3 DEF IInv, TypeOK, CommitsRow
<1>4. CASE ~Inserts(q)
  <2>1. /\ slots' = [s \in Ids |-> IF lock[s] = r THEN q.new ELSE slots[s]]
        /\ used' = used
    BY <1>4 DEF Commit
  <2>2. q.new \in SlotRow \cup {NoRow}
    BY <1>1 DEF Request
  <2>3. QED
    BY <1>2, <2>1, <2>2 DEF IInv, TypeOK, CommitsRow
<1>5. QED
  BY <1>3, <1>4

(* A commit keeps the invariant, for the others in flight too. *)
LEMMA CommitIInv ==
  ASSUME IInv, NEW r \in Requests, Commit(r)
  PROVE  IInv'
<1> DEFINE q == req[r]
           n == [q EXCEPT !.stage = "committed"]
<1>1. /\ q \in Request /\ q.by \in Users /\ q.mails \in SUBSET Mail
  BY DEF Commit, IInv, TypeOK, Remembers, Request
<1>2. n \in Request /\ n.stage = "committed"
  BY <1>1 DEF Request, Stages
<1>3. /\ req' = [req EXCEPT ![r] = n]
      /\ lock' = [s \in Ids |-> IF lock[s] = r THEN None ELSE lock[s]]
      /\ last' = [by |-> q.by, mails |-> q.mails]
  BY DEF Commit, Advance, Unlock
<1>4. TypeOK'
  BY <1>1, <1>2, <1>3, CommitRow DEF IInv, TypeOK
<1>5. KindTable(slots', used')
  <2> SUFFICES ASSUME NEW s \in Ids, slots'[s] # NoRow
               PROVE  KindRow(slots'[s]) /\ s \in used'
    BY DEF KindTable
  <2>1. CommitsRow(r, s) /\ used \subseteq used'
    BY CommitRow
  <2>2. slots[s] # NoRow => KindRow(slots[s]) /\ s \in used
    BY DEF IInv, KindTable
  <2>3. QED
    BY <2>1, <2>2 DEF CommitsRow, Protects
<1>6. ASSUME NEW x \in Requests
      PROVE  Remembers(req'[x], slots', used')
  <2>1. CASE x = r
    BY <1>2, <1>3, <2>1 DEF Remembers, IInv, TypeOK
  <2>2. CASE x # r
    <3>1. req'[x] = req[x] /\ Remembers(req[x], slots, used)
      BY <1>3, <2>2 DEF IInv, TypeOK
    <3>2. ASSUME req[x].stage = "loaded", ~Inserts(req[x]), slots'[req[x].slot] # NoRow
          PROVE  SameWindow(slots'[req[x].slot], req[x].old)
      <4>1. req[x].slot \in Ids /\ req[x].slot \in used
        BY <3>1, <3>2 DEF Remembers
      <4>2. CommitsRow(r, req[x].slot)
        BY <4>1, CommitRow
      <4>3. QED
        BY <3>1, <3>2, <4>1, <4>2 DEF Remembers, CommitsRow, Protects, SameWindow
    <3>3. used \subseteq used'
      BY CommitRow
    <3>4. QED
      BY <3>1, <3>2, <3>3 DEF Remembers
  <2>3. QED
    BY <2>1, <2>2
<1>7. ASSUME NEW s \in Ids, NEW x \in Requests, lock'[s] = x
      PROVE  Protects(req'[x], s, slots'[s])
  <2>1. lock[s] = x /\ x # r
    BY <1>3, <1>7, TransactionsAssumption
  <2>2. Protects(req[x], s, slots[s]) /\ req'[x] = req[x]
    BY <1>3, <2>1 DEF IInv, TypeOK
  <2>3. slots'[s] = slots[s] \/ slots[s] = NoRow
    BY <2>1, CommitRow DEF CommitsRow
  <2>4. QED
    BY <2>2, <2>3 DEF Protects
<1>8. QED
  BY <1>4, <1>5, <1>6, <1>7 DEF IInv

(* Every step keeps the invariant. *)
LEMMA NextIInv == IInv /\ [Next]_vars => IInv'
<1> SUFFICES ASSUME IInv, [Next]_vars
             PROVE  IInv'
  OBVIOUS
<1>1. ASSUME NEW r \in Requests, Receive(r)
      PROVE  IInv'
  <2>1. ASSUME NEW u \in Users, NEW s \in Ids, Admit(r, "delete", u, s, None)
        PROVE  IInv'
    BY <2>1, AdmitIInv
  <2>2. ASSUME NEW u \in Users, NEW s \in Ids, NEW d \in Bodies, Admit(r, "patch", u, s, d)
        PROVE  IInv'
    BY <2>2, AdmitIInv
  <2>3. QED
    BY <1>1, <2>1, <2>2, LoadClaimIInv, LoadInsertIInv DEF Receive
<1>2. ASSUME NEW r \in Requests, Serve(r)
      PROVE  IInv'
  BY <1>2, LoadIInv, FlushIInv, CommitIInv, LoseIInv DEF Serve
<1>3. CASE UNCHANGED vars
  BY <1>3 DEF vars, IInv, TypeOK
<1>4. QED
  BY <1>1, <1>2, <1>3 DEF Next

(* The inductive invariant holds of every behaviour. *)
THEOREM Invariant == Spec => []IInv
  BY InitIInv, NextIInv, PTL DEF Spec

----------------------------------------------------------------------------
(* The theorems *)

(* Every variable keeps its type. *)
THEOREM TypeCorrect == Spec => []TypeOK
<1>1. IInv => TypeOK
  BY DEF IInv
<1>2. QED
  BY <1>1, Invariant, PTL

(* No interleaving offers a proposal or stores a terminal status. *)
THEOREM KindsAreKept == Spec => []RowsKeepTheirKind
<1>1. IInv => RowsKeepTheirKind
  BY DEF IInv, KindTable, KindRow, RowsKeepTheirKind, Rows
<1>2. QED
  BY <1>1, Invariant, PTL

(* No interleaving books a landlord into his own listing. *)
THEOREM SelfBookingExcluded == Spec => []NoSelfBooking
<1>1. IInv => NoSelfBooking
  BY DEF IInv, KindTable, KindRow, NoSelfBooking, Rows
<1>2. QED
  BY <1>1, Invariant, PTL

(* Only commits write the table, one request's at a time. *)
LEMMA NextWrites ==
  ASSUME IInv, [Next]_vars
  PROVE  \/ UNCHANGED slots
         \/ \E r \in Requests : /\ By(req[r].by)
                                /\ \A s \in Ids : CommitsRow(r, s)
<1>1. ASSUME NEW r \in Requests, Commit(r)
      PROVE  By(req[r].by) /\ \A s \in Ids : CommitsRow(r, s)
  BY <1>1, CommitRow DEF Commit, By
<1>2. ASSUME NEW r \in Requests, Receive(r)
      PROVE  UNCHANGED slots
  <2>1. ASSUME NEW op, NEW u, NEW s, NEW d, Admit(r, op, u, s, d)
        PROVE  UNCHANGED slots
    BY <2>1 DEF Admit, Reads
  <2>2. ASSUME NEW u, NEW s, NEW meet, LoadClaim(r, u, s, meet)
        PROVE  UNCHANGED slots
    BY <2>2 DEF LoadClaim, Loads, Reads
  <2>3. ASSUME NEW u, NEW l, NEW t, NEW type, NEW meet,
               LoadCreate(r, u, l, t, type, meet) \/ LoadPropose(r, u, l, t, type, meet)
        PROVE  UNCHANGED slots
    BY <2>3 DEF LoadCreate, LoadPropose, Loads, Reads
  <2>4. QED
    BY <1>2, <2>1, <2>2, <2>3 DEF Receive
<1>3. ASSUME NEW r \in Requests, Load(r) \/ LoseToMail(r)
      PROVE  UNCHANGED slots
  BY <1>3 DEF Load, LoseToMail, Loads, Refuse, Reads
<1>4. ASSUME NEW r \in Requests, Flush(r)
      PROVE  UNCHANGED slots
  BY <1>4 DEF Flush, FlushInsert, FlushClaim, FlushUpdate, FlushDelete, Locks, Refuse, Reads
<1>5. CASE UNCHANGED vars
  BY <1>5 DEF vars
<1>6. QED
  BY <1>1, <1>2, <1>3, <1>4, <1>5 DEF Next, Serve

(* Of overlapping claims one wins: a new candidate took an OPEN row. *)
THEOREM ClaimsAreRaceSafe == Spec => ClaimTakesOpenWindow
<1>1. ASSUME IInv, [Next]_vars, NEW s \in Ids, Kept(s),
             slots'[s].candidate \notin {slots[s].candidate, None}
      PROVE  slots[s].status = "OPEN" /\ By(slots'[s].candidate)
  <2>1. slots[s] # NoRow /\ slots'[s] # NoRow /\ slots'[s] # slots[s]
    BY <1>1 DEF Kept
  <2>2. PICK r \in Requests : By(req[r].by) /\ CommitsRow(r, s)
    BY <1>1, <2>1, NextWrites
  <2>3. QED
    BY <1>1, <2>1, <2>2 DEF CommitsRow, Protects
<1>2. IInv /\ [Next]_vars =>
        [\A s \in Ids : Kept(s) /\ slots'[s].candidate \notin {slots[s].candidate, None}
           => slots[s].status = "OPEN" /\ By(slots'[s].candidate)]_vars
  BY <1>1
<1>3. QED
  BY <1>2, Invariant, PTL DEF Spec, ClaimTakesOpenWindow

(* A booking is confirmed by its landlord, stale reads or not. *)
THEOREM LandlordsConfirm == Spec => OnlyLandlordConfirms
<1>1. ASSUME IInv, [Next]_vars, NEW s \in Ids, Kept(s),
             slots'[s].status = "CONFIRMED", slots[s].status # "CONFIRMED"
      PROVE  By(Landlord(slots[s]))
  <2>1. slots[s] # NoRow /\ slots'[s] # NoRow /\ slots'[s] # slots[s]
    BY <1>1 DEF Kept
  <2>2. PICK r \in Requests : By(req[r].by) /\ CommitsRow(r, s)
    BY <1>1, <2>1, NextWrites
  <2>3. QED
    BY <1>1, <2>1, <2>2 DEF CommitsRow, Protects, Decides
<1>2. IInv /\ [Next]_vars =>
        [\A s \in Ids : Kept(s) /\ slots'[s].status = "CONFIRMED" /\ slots[s].status # "CONFIRMED"
           => By(Landlord(slots[s]))]_vars
  BY <1>1
<1>3. QED
  BY <1>2, Invariant, PTL DEF Spec, OnlyLandlordConfirms

(* No late write brings back a deleted row. *)
THEOREM DeletionIsFinal == Spec => DeletedStaysDeleted
<1>1. ASSUME IInv, [Next]_vars, NEW s \in Ids, s \in used, slots[s] = NoRow
      PROVE  slots'[s] = NoRow
  <2>1. CASE UNCHANGED slots
    BY <1>1, <2>1
  <2>2. ASSUME NEW r \in Requests, CommitsRow(r, s)
        PROVE  slots'[s] = NoRow
    BY <1>1, <2>2 DEF CommitsRow, Protects
  <2>3. QED
    BY <1>1, <2>1, <2>2, NextWrites
<1>2. IInv /\ [Next]_vars =>
        [\A s \in used : slots[s] = NoRow => slots'[s] = NoRow]_vars
  BY <1>1 DEF IInv, TypeOK
<1>3. QED
  BY <1>2, Invariant, PTL DEF Spec, DeletedStaysDeleted

----------------------------------------------------------------------------
(* Connections and locks *)

(* The transactions in flight are finitely many, each with a connection. *)
Pooled == IsFiniteSet(InFlight) /\ Cardinality(InFlight) <= PoolSize

(* A step is one request's: of one that has just got a connection, or of   *)
(* one in flight.                                                          *)
LEMMA OneMoves ==
  ASSUME IInv, NEW r \in Requests, Receive(r) \/ Serve(r)
  PROVE  /\ \A x \in Requests \ {r} : req'[x] = req[x]
         /\ Receive(r) => Arrives(r)
         /\ Serve(r) => r \in InFlight
<1>1. ASSUME NEW q, Advance(r, q)
      PROVE  \A x \in Requests \ {r} : req'[x] = req[x]
  BY <1>1 DEF Advance, IInv, TypeOK
<1>2. ASSUME NEW op, NEW u, NEW s, NEW d, Admit(r, op, u, s, d)
      PROVE  Arrives(r) /\ \E q : Advance(r, q)
  BY <1>2 DEF Admit
<1>3. ASSUME NEW u, NEW s, NEW meet, LoadClaim(r, u, s, meet)
      PROVE  Arrives(r) /\ \E q : Advance(r, q)
  BY <1>3 DEF LoadClaim, Loads
<1>4. ASSUME NEW u, NEW l, NEW t, NEW type, NEW meet,
             LoadCreate(r, u, l, t, type, meet) \/ LoadPropose(r, u, l, t, type, meet)
      PROVE  Arrives(r) /\ \E q : Advance(r, q)
  BY <1>4 DEF LoadCreate, LoadPropose, Loads
<1>5. Receive(r) => Arrives(r) /\ \E q : Advance(r, q)
  BY <1>2, <1>3, <1>4 DEF Receive
<1>6. Load(r) => r \in InFlight /\ \E q : Advance(r, q)
  BY DEF Load, Loads, Refuse, InFlight
<1>7. Flush(r) => r \in InFlight /\ \E q : Advance(r, q)
  BY DEF Flush, FlushInsert, FlushClaim, FlushUpdate, FlushDelete, Flushed, Refuse, InFlight
<1>8. Commit(r) \/ LoseToMail(r) => r \in InFlight /\ \E q : Advance(r, q)
  BY DEF Commit, LoseToMail, InFlight
<1>9. Serve(r) => r \in InFlight /\ \E q : Advance(r, q)
  BY <1>6, <1>7, <1>8 DEF Serve
<1>10. QED
  BY <1>1, <1>5, <1>9

LEMMA NextPooled == IInv /\ Pooled /\ [Next]_vars => Pooled'
<1> SUFFICES ASSUME IInv, Pooled, [Next]_vars PROVE Pooled'
  OBVIOUS
<1>1. CASE UNCHANGED vars
  BY <1>1 DEF vars, Pooled, InFlight
<1>2. ASSUME NEW r \in Requests, Receive(r) \/ Serve(r)
      PROVE  Pooled'
  <2>1. InFlight' \subseteq InFlight \cup {r}
    BY <1>2, OneMoves DEF InFlight
  <2>2. IsFiniteSet(InFlight) /\ Cardinality(InFlight) \in Nat
    BY FS_CardinalityType DEF Pooled
  <2>3. /\ IsFiniteSet(InFlight \cup {r})
        /\ Cardinality(InFlight \cup {r})
             = IF r \in InFlight THEN Cardinality(InFlight) ELSE Cardinality(InFlight) + 1
    BY <2>2, FS_AddElement
  <2>4. /\ IsFiniteSet(InFlight') /\ Cardinality(InFlight') \in Nat
        /\ Cardinality(InFlight') <= Cardinality(InFlight \cup {r})
    BY <2>1, <2>3, FS_Subset, FS_CardinalityType
  <2>5. r \in InFlight \/ Cardinality(InFlight) < PoolSize
    BY <1>2, OneMoves DEF Arrives
  <2>6. QED
    BY <2>2, <2>3, <2>4, <2>5, TransactionsAssumption DEF Pooled
<1>3. QED
  BY <1>1, <1>2 DEF Next

LEMMA InitPooled == Init => Pooled
<1> SUFFICES ASSUME Init PROVE Pooled
  OBVIOUS
<1>1. InFlight = {}
  BY DEF Init, Unused, InFlight
<1>2. QED
  BY <1>1, FS_EmptySet, TransactionsAssumption DEF Pooled

(* No more transactions are in flight than the pool has connections.       *)
THEOREM PoolBoundsTransactions == Spec => []Pooled
  BY InitPooled, NextPooled, Invariant, PTL DEF Spec

(* Who waits for a lock waits for a transaction that waits for none: the   *)
(* holder has written its one row and only has to end, and it holds no     *)
(* second row.  So no set of requests waits on one another.                *)
HoldersWaitForNobody ==
  \A s \in Ids : lock[s] # None =>
    /\ lock[s] \in InFlight /\ req[lock[s]].stage = "flushed"
    /\ \A t \in Ids : lock[t] = lock[s] => t = s

THEOREM NobodyWaitsInCircles == Spec => []HoldersWaitForNobody
<1>1. IInv => HoldersWaitForNobody
  BY DEF IInv, TypeOK, Protects, HoldersWaitForNobody, InFlight
<1>2. QED
  BY <1>1, Invariant, PTL

----------------------------------------------------------------------------
(* One connection: what a request plans while no other is in flight        *)

(* What TimeSlots makes of the row of a request's slot. *)
Plans(q, row, new) ==
  /\ row # NoRow
  /\ \/ /\ q.op = "claim"
        /\ \E meet \in Links \cup {None} :
             MayClaim(q.by, row, meet, Listings, Now) /\ new = Claimed(row, q.by, meet)
        /\ q.mails = CreatedMail(row, Users)
     \/ /\ q.op = "patch" /\ q.body \in Bodies /\ VerifyOwnership(q.by, row)
        /\ MayPatch(q.by, row, q.body) /\ new = Patched(row, q.body)
        /\ q.mails = PatchMail(q.by, row, q.body, Users)
     \/ /\ q.op = "delete" /\ VerifyOwnership(q.by, row)
        /\ MayDelete(q.by, row) /\ new = Deleted(row)
        /\ q.mails = DeleteMail(q.by, row, Users)

(* What it inserts for one. *)
PlansInsert(q) ==
  \E l \in Listings, t \in Times, type \in Types, meet \in Links \cup {None} :
    \/ /\ q.op = "create" /\ MayCreate(q.by, l, type, meet)
       /\ q.new = NewWindow(l, t, type, meet) /\ q.mails = {}
    \/ /\ q.op = "propose" /\ MayPropose(q.by, l, t, type, meet, Listings, Now) /\ ~Taken(l, t)
       /\ q.new = NewProposal(q.by, l, t, type, meet) /\ q.mails = CreatedMail(q.new, Users)

(* Nothing the request r has checked or read has become stale: what it     *)
(* plans, and what its lock or the lack of one will leave behind, is still *)
(* what a single atomic step would do.                                     *)
UpToDate(r) ==
  LET q   == req[r]
      row == slots[q.slot]
  IN  /\ q.stage = "admitted" => VerifyOwnership(q.by, row)
      /\ q.stage \in {"loaded", "flushed"} /\ Inserts(q) => PlansInsert(q)
      /\ q.stage = "loaded" /\ ~Inserts(q) => q.old = row /\ Plans(q, row, q.new)
      /\ q.stage = "flushed" /\ ~Inserts(q) =>
           Plans(q, row, IF lock[q.slot] = r THEN q.new ELSE row)

SerialInv == \A r \in Requests : UpToDate(r)

(* With one connection whoever moves is alone. *)
LEMMA MoversAreAlone ==
  ASSUME PoolSize = 1, IInv, Pooled, NEW r \in Requests, Receive(r) \/ Serve(r)
  PROVE  InFlight \subseteq {r} /\ InFlight' \subseteq {r}
<1>1. IsFiniteSet(InFlight) /\ Cardinality(InFlight) \in Nat /\ Cardinality(InFlight) <= 1
  BY FS_CardinalityType DEF Pooled
<1>2. CASE Receive(r)
  <2>1. Cardinality(InFlight) < 1
    BY <1>2, OneMoves DEF Arrives
  <2>2. InFlight = {}
    BY <1>1, <2>1, FS_EmptySet
  <2>3. QED
    BY <2>2, OneMoves DEF InFlight
<1>3. CASE Serve(r)
  <2>1. r \in InFlight
    BY <1>3, OneMoves
  <2>2. {r} \subseteq InFlight /\ Cardinality({r}) = 1
    BY <2>1, FS_Singleton
  <2>3. {r} = InFlight
    BY <1>1, <2>2, FS_Subset
  <2>4. QED
    BY <2>3, OneMoves DEF InFlight
<1>4. QED
  BY <1>2, <1>3

(* So it is enough that its own plan stays true. *)
LEMMA OthersAreIdle ==
  ASSUME PoolSize = 1, IInv, Pooled, NEW r \in Requests, Receive(r) \/ Serve(r), UpToDate(r)'
  PROVE  SerialInv'
<1>1. \A x \in Requests \ {r} : req'[x].stage \notin {"admitted", "loaded", "flushed"}
  BY MoversAreAlone DEF InFlight
<1>2. \A x \in Requests \ {r} : UpToDate(x)'
  BY <1>1 DEF UpToDate
<1>3. QED
  BY <1>2 DEF SerialInv

(* A request whose transaction has ended plans nothing. *)
LEMMA EndedPlansNothing ==
  ASSUME NEW r \in Requests, req'[r].stage \notin {"admitted", "loaded", "flushed"}
  PROVE  UpToDate(r)'
  BY DEF UpToDate

----------------------------------------------------------------------------
(* The statements that read *)

LEMMA RefuseSerial ==
  ASSUME IInv, NEW r \in Requests, Refuse(r)
  PROVE  UpToDate(r)'
<1>1. req'[r].stage = "refused"
  BY DEF Refuse, Advance, IInv, TypeOK, Request
<1>2. QED
  BY <1>1, EndedPlansNothing

LEMMA AdmitSerial ==
  ASSUME IInv, NEW r \in Requests, NEW u \in Users, NEW s \in Ids,
         NEW op \in {"patch", "delete"}, NEW d, Admit(r, op, u, s, d)
  PROVE  UpToDate(r)'
<1>1. /\ req'[r].stage = "admitted" /\ req'[r].by = u /\ req'[r].slot = s
      /\ slots' = slots
  BY DEF Admit, Advance, Reads, Unused, IInv, TypeOK
<1>2. VerifyOwnership(u, slots[s])
  BY DEF Admit
<1>3. QED
  BY <1>1, <1>2 DEF UpToDate

(* What a handler that has loaded leaves. *)
LEMMA LoadsSerial ==
  ASSUME IInv, NEW r \in Requests, NEW q \in Request, NEW row \in SlotRow \cup {NoRow},
         NEW mails \in SUBSET Mail, Loads(r, q, row, mails)
  PROVE  LET n == req'[r]
         IN  /\ n.stage = "loaded" /\ n.op = q.op /\ n.by = q.by /\ n.slot = q.slot
             /\ n.body = q.body /\ n.old = q.old /\ n.new = row /\ n.mails = mails
             /\ slots' = slots /\ lock' = lock
  BY DEF Loads, Advance, Reads, IInv, TypeOK, Request

(* PATCH and DELETE check and plan on the row as it is.                    *)
LEMMA LoadSerial ==
  ASSUME IInv, NEW r \in Requests, UpToDate(r), Load(r)
  PROVE  UpToDate(r)'
<1> DEFINE q == req[r]
           row == slots[q.slot]
           n == [q EXCEPT !.old = row]
<1>1. /\ q \in Request /\ q.stage = "admitted" /\ q.op \in {"patch", "delete"}
      /\ q.by \in Users /\ q.slot \in Ids /\ (q.op = "patch" => q.body \in Bodies)
      /\ VerifyOwnership(q.by, row) /\ Bodies \subseteq PatchData
  BY TransactionsAssumption DEF Load, IInv, TypeOK, Remembers, UpToDate
<1>2. CASE ~Accepts(q, row)
  BY <1>1, <1>2, RefuseSerial DEF Load
<1>3. CASE Accepts(q, row)
  <2>1. row # NoRow /\ row \in SlotRow /\ KindRow(row)
    BY <1>1, <1>3 DEF Accepts, IInv, TypeOK, KindTable
  <2>2. /\ n \in Request /\ n.op = q.op /\ n.by = q.by /\ n.slot = q.slot /\ n.old = row
        /\ n.body = q.body
    BY <1>1, <2>1 DEF Request
  <2>3. CASE q.op = "patch"
    <3>1. Loads(r, n, Patched(row, q.body), PatchMail(q.by, row, q.body, Users))
      BY <1>3, <2>3 DEF Load
    <3>2. MayPatch(q.by, row, q.body)
      BY <1>3, <2>3 DEF Accepts
    <3>3. Patched(row, q.body) \in SlotRow \cup {NoRow}
      BY <1>1, <2>1, <2>3, <3>2, PatchedRewrites DEF Rewrites
    <3>4. PatchMail(q.by, row, q.body, Users) \in SUBSET Mail
      BY <1>1, <2>1, <2>3, MailsTyped
    <3> DEFINE m     == req'[r]
               new   == Patched(row, q.body)
               mails == PatchMail(q.by, row, q.body, Users)
    <3> HIDE DEF n, new, mails
    <3>5. /\ m.stage = "loaded" /\ m.op = "patch" /\ m.by = q.by /\ m.slot = q.slot
          /\ m.body = q.body /\ m.old = row /\ m.new = new
          /\ m.mails = mails /\ slots' = slots
      <4>1. new \in SlotRow \cup {NoRow} /\ mails \in SUBSET Mail /\ Loads(r, n, new, mails)
        BY <3>1, <3>3, <3>4 DEF new, mails
      <4>2. QED
        BY <2>2, <2>3, <4>1, LoadsSerial
    <3> HIDE DEF m
    <3>6. Plans(m, row, m.new)
      BY <1>1, <2>1, <2>3, <3>2, <3>5 DEF Plans, new, mails
    <3>7. QED
      BY <3>5, <3>6 DEF UpToDate, Inserts, m
  <2>4. CASE q.op = "delete"
    <3>1. Loads(r, n, Deleted(row), DeleteMail(q.by, row, Users))
      BY <1>3, <2>4 DEF Load
    <3>2. MayDelete(q.by, row)
      BY <1>3, <2>4 DEF Accepts
    <3>3. Deleted(row) \in SlotRow \cup {NoRow}
      BY <2>1, ReleaseRewrites DEF Deleted, Rewrites
    <3>4. DeleteMail(q.by, row, Users) \in SUBSET Mail
      BY <2>1 DEF DeleteMail, ReleaseMail, Mail, Kinds
    <3> DEFINE m     == req'[r]
               new   == Deleted(row)
               mails == DeleteMail(q.by, row, Users)
    <3> HIDE DEF n, new, mails
    <3>5. /\ m.stage = "loaded" /\ m.op = "delete" /\ m.by = q.by /\ m.slot = q.slot
          /\ m.old = row /\ m.new = new
          /\ m.mails = mails /\ slots' = slots
      <4>1. new \in SlotRow \cup {NoRow} /\ mails \in SUBSET Mail /\ Loads(r, n, new, mails)
        BY <3>1, <3>3, <3>4 DEF new, mails
      <4>2. QED
        BY <2>2, <2>4, <4>1, LoadsSerial
    <3> HIDE DEF m
    <3>6. Plans(m, row, m.new)
      BY <1>1, <2>1, <2>4, <3>2, <3>5 DEF Plans, new, mails
    <3>7. QED
      BY <3>5, <3>6 DEF UpToDate, Inserts, m
  <2>5. QED
    BY <1>1, <2>3, <2>4
<1>4. QED
  BY <1>2, <1>3

LEMMA LoadClaimSerial ==
  ASSUME IInv, NEW r \in Requests, NEW u \in Users, NEW s \in Ids,
         NEW meet \in Links \cup {None}, LoadClaim(r, u, s, meet)
  PROVE  UpToDate(r)'
<1> DEFINE q == [Unused EXCEPT !.op = "claim", !.by = u, !.slot = s, !.old = slots[s]]
           row == slots[s]
           m == req'[r]
<1>1. row \in SlotRow /\ row # NoRow /\ MayClaim(u, row, meet, Listings, Now)
  BY DEF LoadClaim, MayClaim, IInv, TypeOK
<1>2. q \in Request /\ q.op = "claim" /\ q.by = u /\ q.slot = s /\ q.old = row
  BY <1>1 DEF Unused, Request, Stages, Ops
<1>3. Claimed(row, u, meet) \in SlotRow
  BY <1>1 DEF Claimed, SlotRow, Statuses
<1>4. CreatedMail(row, Users) \in SUBSET Mail
  BY DEF CreatedMail, Mail, Kinds
<1>5. Loads(r, q, Claimed(row, u, meet), CreatedMail(row, Users))
  BY DEF LoadClaim
<1> HIDE DEF q
<1>6. /\ m.stage = "loaded" /\ m.op = "claim" /\ m.by = u /\ m.slot = s
      /\ m.old = row /\ m.new = Claimed(row, u, meet) /\ m.mails = CreatedMail(row, Users)
      /\ slots' = slots
  BY <1>2, <1>3, <1>4, <1>5, LoadsSerial
<1> HIDE DEF m
<1>7. Plans(m, row, m.new)
  BY <1>1, <1>6 DEF Plans
<1>8. QED
  BY <1>6, <1>7 DEF UpToDate, Inserts, m

LEMMA LoadInsertSerial ==
  ASSUME IInv, NEW r \in Requests, NEW u \in Users, NEW l \in Listings, NEW t \in Times,
         NEW type \in Types, NEW meet \in Links \cup {None},
         LoadCreate(r, u, l, t, type, meet) \/ LoadPropose(r, u, l, t, type, meet)
  PROVE  UpToDate(r)'
<1> DEFINE m == req'[r]
<1>1. ASSUME NEW op \in {"create", "propose"}
      PROVE  LET q == [Unused EXCEPT !.op = op, !.by = u]
             IN  q \in Request /\ q.op = op /\ q.by = u
  BY DEF Unused, Request, Stages, Ops
<1>2. CASE LoadCreate(r, u, l, t, type, meet)
  <2> DEFINE row == NewWindow(l, t, type, meet)
             q == [Unused EXCEPT !.op = "create", !.by = u]
  <2>1. row \in SlotRow /\ {} \in SUBSET Mail
    BY NewWindowSound
  <2>2. Loads(r, q, row, {}) /\ MayCreate(u, l, type, meet)
    BY <1>2 DEF LoadCreate
  <2>3. q \in Request /\ q.op = "create" /\ q.by = u
    BY <1>1
  <2> HIDE DEF q, row
  <2>4. /\ m.stage = "loaded" /\ m.op = "create" /\ m.by = u /\ m.new = row /\ m.mails = {}
        /\ slots' = slots
    BY <2>1, <2>2, <2>3, LoadsSerial
  <2> HIDE DEF m
  <2>5. PlansInsert(m)
    BY <2>2, <2>4 DEF PlansInsert, row
  <2>6. PlansInsert(req[r])'
    BY <2>4, <2>5 DEF PlansInsert, Taken, m
  <2>7. QED
    BY <2>4, <2>6 DEF UpToDate, Inserts, m
<1>3. CASE LoadPropose(r, u, l, t, type, meet)
  <2> DEFINE row == NewProposal(u, l, t, type, meet)
             q == [Unused EXCEPT !.op = "propose", !.by = u]
  <2>1. row \in SlotRow
    BY <1>3, NewProposalSound DEF LoadPropose, MayPropose
  <2>2. CreatedMail(row, Users) \in SUBSET Mail
    BY DEF CreatedMail, Mail, Kinds
  <2>3. /\ Loads(r, q, row, CreatedMail(row, Users)) /\ ~Taken(l, t)
        /\ MayPropose(u, l, t, type, meet, Listings, Now)
    BY <1>3 DEF LoadPropose
  <2>4. q \in Request /\ q.op = "propose" /\ q.by = u
    BY <1>1
  <2> HIDE DEF q, row
  <2>5. /\ m.stage = "loaded" /\ m.op = "propose" /\ m.by = u /\ m.new = row
        /\ m.mails = CreatedMail(row, Users) /\ slots' = slots
    BY <2>1, <2>2, <2>3, <2>4, LoadsSerial
  <2> HIDE DEF m
  <2>6. PlansInsert(m)
    BY <2>3, <2>5 DEF PlansInsert, row
  <2>7. PlansInsert(req[r])'
    BY <2>5, <2>6 DEF PlansInsert, Taken, m
  <2>8. QED
    BY <2>5, <2>7 DEF UpToDate, Inserts, m
<1>4. QED
  BY <1>2, <1>3

----------------------------------------------------------------------------
(* The statements that write *)

(* An UPDATE of no column leaves the row, and one of the row it was        *)
(* computed from makes it the row wanted.                                  *)
LEMMA OverwriteOwn ==
  ASSUME NEW old \in SlotRow, NEW new \in SlotRow
  PROVE  /\ Overwrite(old, old, new) = new
         /\ Changed(old, new) = {} => new = old
<1> DEFINE columns == {"listing", "start_time", "status", "candidate",
                       "landlord_created", "type", "meet_link"}
<1>1. /\ old = [c \in columns |-> old[c]] /\ DOMAIN old = columns
      /\ new = [c \in columns |-> new[c]] /\ DOMAIN new = columns
  BY DEF SlotRow
<1> HIDE DEF columns
<1>2. \A c \in columns : c \in Changed(old, new) <=> new[c] # old[c]
  BY <1>1 DEF Changed
<1>3. Overwrite(old, old, new) = [c \in columns |-> new[c]]
  BY <1>1, <1>2 DEF Overwrite
<1>4. Changed(old, new) = {} => [c \in columns |-> new[c]] = [c \in columns |-> old[c]]
  BY <1>2
<1>5. QED
  BY <1>1, <1>3, <1>4

(* What a request keeps when it has written. *)
LEMMA FlushedSerial ==
  ASSUME IInv, NEW r \in Requests, NEW row, Flushed(r, row)
  PROVE  LET q == req[r]
             n == req'[r]
         IN  /\ n.stage = "flushed" /\ n.op = q.op /\ n.by = q.by /\ n.slot = q.slot
             /\ n.body = q.body /\ n.new = row /\ n.mails = q.mails
             /\ \A from, to : Plans(q, from, to) => Plans(n, from, to)
<1> DEFINE q == req[r]
           n == req'[r]
<1>1. q \in Request /\ n = [q EXCEPT !.stage = "flushed", !.new = row]
  BY DEF Flushed, Advance, IInv, TypeOK
<1>2. /\ n.stage = "flushed" /\ n.op = q.op /\ n.by = q.by /\ n.slot = q.slot
      /\ n.body = q.body /\ n.new = row /\ n.mails = q.mails
  BY <1>1 DEF Request
<1> HIDE DEF q, n
<1>3. \A from, to : Plans(q, from, to) => Plans(n, from, to)
  BY <1>2 DEF Plans
<1>4. QED
  BY <1>2, <1>3 DEF q, n

(* A statement that writes a row locks it, one that writes none does not.  *)
LEMMA WriteSerial ==
  ASSUME IInv, NEW r \in Requests, NEW row, Flushed(r, row), UpToDate(r),
         req[r].stage = "loaded", ~Inserts(req[r]),
         LET q == req[r]
         IN  \/ Locks(r) /\ row = q.new
             \/ Reads /\ q.new = slots[q.slot]
  PROVE  UpToDate(r)'
<1> DEFINE q == req[r]
           n == req'[r]
           s == req[r].slot
<1>1. /\ n.stage = "flushed" /\ n.op = q.op /\ n.slot = s /\ n.new = row
      /\ \A from, to : Plans(q, from, to) => Plans(n, from, to)
  BY FlushedSerial
<1>2. Plans(n, slots[s], q.new) /\ s \in Ids
  BY <1>1 DEF UpToDate, IInv, Remembers
<1>3. lock[s] # r
  BY <1>2, NoLockBeforeFlush
<1>4. CASE Locks(r) /\ row = q.new
  <2>1. lock'[s] = r /\ slots' = slots
    BY <1>2, <1>4 DEF Locks, IInv, TypeOK
  <2>2. QED
    BY <1>1, <1>2, <1>4, <2>1 DEF UpToDate, Inserts
<1>5. CASE Reads /\ q.new = slots[s]
  <2>1. lock'[s] # r /\ slots' = slots
    BY <1>3, <1>5 DEF Reads
  <2>2. QED
    BY <1>1, <1>2, <1>5, <2>1 DEF UpToDate, Inserts
<1>6. QED
  BY <1>4, <1>5

LEMMA FlushSerial ==
  ASSUME IInv, NEW r \in Requests, UpToDate(r), Flush(r)
  PROVE  UpToDate(r)'
<1> DEFINE q == req[r]
           row == slots[q.slot]
<1>1. /\ q.stage = "loaded" /\ (row # NoRow /\ q.slot \in Ids => row \in SlotRow)
      /\ ~Inserts(q) => q.slot \in Ids /\ q.old = row /\ Plans(q, row, q.new)
  BY DEF Flush, FlushInsert, FlushClaim, FlushUpdate, FlushDelete, UpToDate, IInv, TypeOK, Remembers
<1>2. CASE FlushInsert(r)
  <2>1. /\ req'[r].stage = "flushed" /\ req'[r].op = q.op /\ req'[r].by = q.by
        /\ req'[r].new = q.new /\ req'[r].mails = q.mails
    BY <1>2, FlushedSerial DEF FlushInsert
  <2>2. Inserts(q) /\ PlansInsert(q) /\ slots' = slots
    BY <1>1, <1>2 DEF FlushInsert, Reads, UpToDate
  <2>3. PlansInsert(req[r])'
    BY <2>1, <2>2 DEF PlansInsert, Taken
  <2>4. QED
    BY <2>1, <2>2, <2>3 DEF UpToDate, Inserts
<1>3. CASE FlushClaim(r)
  <2>1. q.op = "claim" /\ ~Inserts(q)
    BY <1>3 DEF FlushClaim, Inserts
  <2>2. PICK meet \in Links \cup {None} :
          MayClaim(q.by, row, meet, Listings, Now) /\ q.new = Claimed(row, q.by, meet)
    BY <1>1, <2>1 DEF Plans
  <2>3. row # NoRow /\ row.status = "OPEN" /\ row \in SlotRow
    BY <1>1, <2>1, <2>2 DEF MayClaim
  <2>4. q.new.meet_link = meet
    BY <2>2, <2>3 DEF Claimed, SlotRow
  <2>5. Flushed(r, q.new) /\ Locks(r)
    BY <1>3, <2>2, <2>3, <2>4 DEF FlushClaim
  <2>6. QED
    BY <1>1, <2>1, <2>5, WriteSerial
<1>4. CASE FlushUpdate(r)
  <2>1. ~Inserts(q) /\ q.new # NoRow
    BY <1>4 DEF FlushUpdate, Inserts
  <2>2. row # NoRow /\ row \in SlotRow /\ q.old = row
    BY <1>1, <2>1 DEF Plans
  <2>3. q.new \in SlotRow
    BY <2>1 DEF IInv, TypeOK, Request
  <2>4. Overwrite(row, q.old, q.new) = q.new /\ (Changed(q.old, q.new) = {} => q.new = row)
    BY <2>2, <2>3, OverwriteOwn
  <2>5. CASE Changed(q.old, q.new) = {} /\ Flushed(r, NoRow) /\ Reads
    BY <1>1, <2>1, <2>4, <2>5, WriteSerial
  <2>6. CASE Flushed(r, Overwrite(row, q.old, q.new)) /\ Locks(r)
    BY <1>1, <2>1, <2>4, <2>6, WriteSerial
  <2>7. QED
    BY <1>4, <2>2, <2>5, <2>6 DEF FlushUpdate
<1>5. CASE FlushDelete(r)
  <2>1. ~Inserts(q) /\ q.new = NoRow /\ Flushed(r, NoRow) /\ Locks(r)
    BY <1>5 DEF FlushDelete, Inserts
  <2>2. QED
    BY <1>1, <2>1, WriteSerial
<1>6. QED
  BY <1>2, <1>3, <1>4, <1>5 DEF Flush

(* With one connection nothing a request has read is stale when it writes. *)
LEMMA NextSerial ==
  PoolSize = 1 /\ IInv /\ Pooled /\ SerialInv /\ [Next]_vars => SerialInv'
<1> SUFFICES ASSUME PoolSize = 1, IInv, Pooled, SerialInv, [Next]_vars PROVE SerialInv'
  OBVIOUS
<1>1. CASE UNCHANGED vars
  BY <1>1 DEF vars, SerialInv, UpToDate, PlansInsert, Taken
<1>2. ASSUME NEW r \in Requests, Receive(r)
      PROVE  UpToDate(r)'
  <2>1. ASSUME NEW u \in Users, NEW s \in Ids, NEW op \in {"patch", "delete"}, NEW d,
               Admit(r, op, u, s, d)
        PROVE  UpToDate(r)'
    BY <2>1, AdmitSerial
  <2>2. QED
    BY <1>2, <2>1, LoadClaimSerial, LoadInsertSerial DEF Receive
<1>3. ASSUME NEW r \in Requests, Serve(r)
      PROVE  UpToDate(r)'
  <2>1. UpToDate(r)
    BY DEF SerialInv
  <2>2. CASE Commit(r) \/ LoseToMail(r)
    <3>1. req'[r].stage \in {"committed", "lost"}
      BY <2>2 DEF Commit, LoseToMail, Advance, IInv, TypeOK, Request
    <3>2. QED
      BY <3>1, EndedPlansNothing
  <2>3. QED
    BY <1>3, <2>1, <2>2, LoadSerial, FlushSerial DEF Serve
<1>4. QED
  BY <1>1, <1>2, <1>3, OthersAreIdle DEF Next

----------------------------------------------------------------------------
(* Requests served one at a time are those of TimeSlots                    *)

(* TimeSlots judges and rewrites a row by the same rules. *)
LEMMA SameRules ==
  ASSUME NEW u, NEW row, NEW d, NEW l, NEW t, NEW type, NEW meet
  PROVE  /\ Serial!NewWindow(l, t, type, meet) = NewWindow(l, t, type, meet)
         /\ Serial!NewProposal(u, l, t, type, meet) = NewProposal(u, l, t, type, meet)
         /\ Serial!MayCreate(u, l, type, meet) <=> MayCreate(u, l, type, meet)
         /\ Serial!MayPropose(u, l, t, type, meet, Listings, Now)
              <=> MayPropose(u, l, t, type, meet, Listings, Now)
         /\ Serial!MayClaim(u, row, meet, Listings, Now) <=> MayClaim(u, row, meet, Listings, Now)
         /\ Serial!Claimed(row, u, meet) = Claimed(row, u, meet)
         /\ Serial!CreatedMail(row, Users) = CreatedMail(row, Users)
         /\ Serial!VerifyOwnership(u, row) <=> VerifyOwnership(u, row)
         /\ Serial!MayPatch(u, row, d) <=> MayPatch(u, row, d)
         /\ Serial!Patched(row, d) = Patched(row, d)
         /\ Serial!PatchMail(u, row, d, Users) = PatchMail(u, row, d, Users)
         /\ Serial!MayDelete(u, row) <=> MayDelete(u, row)
         /\ Serial!Deleted(row) = Deleted(row)
         /\ Serial!DeleteMail(u, row, Users) = DeleteMail(u, row, Users)
<1> USE DEF Serial!ValidateMeetLink, ValidateMeetLink, Serial!Landlord, Landlord,
            Serial!Release, Release, Serial!Releases, Releases,
            Serial!EnsureOwner, EnsureOwner, Serial!Given, Given,
            Serial!ReleaseMail, ReleaseMail
<1>1. /\ Serial!NewWindow(l, t, type, meet) = NewWindow(l, t, type, meet)
      /\ Serial!NewProposal(u, l, t, type, meet) = NewProposal(u, l, t, type, meet)
      /\ Serial!MayCreate(u, l, type, meet) <=> MayCreate(u, l, type, meet)
      /\ Serial!MayPropose(u, l, t, type, meet, Listings, Now)
           <=> MayPropose(u, l, t, type, meet, Listings, Now)
  BY DEF Serial!NewWindow, NewWindow, Serial!NewProposal, NewProposal, Serial!MayCreate,
         MayCreate, Serial!MayPropose, MayPropose
<1>2. /\ Serial!MayClaim(u, row, meet, Listings, Now) <=> MayClaim(u, row, meet, Listings, Now)
      /\ Serial!Claimed(row, u, meet) = Claimed(row, u, meet)
      /\ Serial!CreatedMail(row, Users) = CreatedMail(row, Users)
      /\ Serial!VerifyOwnership(u, row) <=> VerifyOwnership(u, row)
  BY DEF Serial!MayClaim, MayClaim, Serial!Claimed, Claimed, Serial!CreatedMail, CreatedMail,
         Serial!VerifyOwnership, VerifyOwnership
<1>3. /\ Serial!MayDelete(u, row) <=> MayDelete(u, row)
      /\ Serial!Deleted(row) = Deleted(row)
      /\ Serial!DeleteMail(u, row, Users) = DeleteMail(u, row, Users)
  BY DEF Serial!MayDelete, MayDelete, Serial!Deleted, Deleted, Serial!DeleteMail, DeleteMail
<1>4. /\ Serial!PatchesBooking(d) <=> PatchesBooking(d)
      /\ Serial!PatchesWindow(d) <=> PatchesWindow(d)
  BY DEF Serial!PatchesBooking, PatchesBooking, Serial!PatchesWindow, PatchesWindow
<1>5. ASSUME NEW r
      PROVE  /\ Serial!UpdateBooking(r, d) = UpdateBooking(r, d)
             /\ Serial!MayUpdateBooking(u, r, d) <=> MayUpdateBooking(u, r, d)
             /\ Serial!MayUpdateSlot(u, r, d) <=> MayUpdateSlot(u, r, d)
             /\ Serial!UpdateSlot(r, d) = UpdateSlot(r, d)
  BY DEF Serial!UpdateBooking, UpdateBooking, Serial!MayUpdateBooking, MayUpdateBooking,
         Serial!VALID_TRANSITIONS, VALID_TRANSITIONS, Serial!MayUpdateSlot, MayUpdateSlot,
         Serial!UpdateSlot, UpdateSlot
<1>6. /\ Serial!AfterBooking(row, d) = AfterBooking(row, d)
      /\ Serial!UpdatesSlot(row, d) <=> UpdatesSlot(row, d)
  BY <1>4, <1>5 DEF Serial!AfterBooking, AfterBooking, Serial!UpdatesSlot, UpdatesSlot
<1>7. /\ Serial!MayPatch(u, row, d) <=> MayPatch(u, row, d)
      /\ Serial!Patched(row, d) = Patched(row, d)
  BY <1>4, <1>5, <1>6 DEF Serial!MayPatch, MayPatch, Serial!Patched, Patched
<1>8. Serial!PatchMail(u, row, d, Users) = PatchMail(u, row, d, Users)
  BY <1>4, <1>5 DEF Serial!PatchMail, PatchMail, Serial!ConfirmedMail, ConfirmedMail
<1>9. QED
  BY <1>1, <1>2, <1>3, <1>7, <1>8

(* The ids are those of TimeSlots, and so are the users and the listings.  *)
LEMMA SerialEnvironment ==
  /\ Serial!Ids = Ids /\ Serial!Times = Times /\ Serial!Types = Types
  /\ Serial!PatchData = PatchData /\ Serial!UNCHANGED_ENV
  BY DEF Serial!Ids, Ids, Serial!Times, Times, Serial!Types, Types,
         Serial!PatchData, PatchData, Serial!Statuses, Statuses, Serial!UNCHANGED_ENV, Now

(* The commit of an insert is a CreateSlot or a Propose.                   *)
LEMMA InsertRefines ==
  ASSUME IInv, NEW r \in Requests, UpToDate(r), Commit(r), Inserts(req[r])
  PROVE  Serial!Next
<1> DEFINE q == req[r]
<1>1. q.by \in Users /\ PlansInsert(q)
  BY DEF Commit, UpToDate, IInv, Remembers
<1>2. Serial!Insert(q.new) /\ Serial!Committed(q.by, q.mails)
  BY SerialEnvironment DEF Commit, Serial!Insert, Serial!Committed
<1>3. PICK l \in Listings, t \in Times, type \in Types, meet \in Links \cup {None} :
        \/ /\ q.op = "create" /\ MayCreate(q.by, l, type, meet)
           /\ q.new = NewWindow(l, t, type, meet) /\ q.mails = {}
        \/ /\ q.op = "propose" /\ MayPropose(q.by, l, t, type, meet, Listings, Now) /\ ~Taken(l, t)
           /\ q.new = NewProposal(q.by, l, t, type, meet) /\ q.mails = CreatedMail(q.new, Users)
  BY <1>1 DEF PlansInsert
<1> HIDE DEF q
<1>4. CASE /\ MayCreate(q.by, l, type, meet)
           /\ q.new = NewWindow(l, t, type, meet) /\ q.mails = {}
  <2>1. Serial!CreateSlot(q.by, l, t, type, meet)
    BY <1>1, <1>2, <1>4, SameRules, SerialEnvironment DEF Serial!CreateSlot
  <2>2. QED
    BY <1>1, <2>1, SerialEnvironment DEF Serial!Next
<1>5. CASE /\ MayPropose(q.by, l, t, type, meet, Listings, Now) /\ ~Taken(l, t)
           /\ q.new = NewProposal(q.by, l, t, type, meet) /\ q.mails = CreatedMail(q.new, Users)
  <2>1. \A s \in Ids : slots[s] # NoRow => slots[s].listing # l \/ slots[s].start_time # t
    BY <1>5 DEF Taken
  <2>2. Serial!Propose(q.by, l, t, type, meet)
    BY <1>1, <1>2, <1>5, <2>1, SameRules, SerialEnvironment DEF Serial!Propose
  <2>3. QED
    BY <1>1, <2>2, SerialEnvironment DEF Serial!Next
<1>6. QED
  BY <1>3, <1>4, <1>5

(* The commit of a claim, PATCH or DELETE is that request of TimeSlots.    *)
LEMMA WriteRefines ==
  ASSUME IInv, NEW r \in Requests, UpToDate(r), Commit(r), ~Inserts(req[r])
  PROVE  Serial!Next
<1> DEFINE q   == req[r]
           s   == q.slot
           row == slots[s]
           new == IF lock[s] = r THEN q.new ELSE row
<1>1. q.by \in Users /\ s \in Ids /\ Plans(q, row, new)
  BY DEF Commit, UpToDate, IInv, Remembers
<1>2. Serial!Store(s, new)
  <2>1. /\ slots' = [i \in Ids |-> IF lock[i] = r THEN q.new ELSE slots[i]]
        /\ used' = used
    BY DEF Commit
  <2>2. \A i \in Ids : lock[i] = r => i = s
    BY DEF IInv, Protects
  <2>3. slots' = [slots EXCEPT ![s] = new]
    BY <1>1, <2>1, <2>2 DEF IInv, TypeOK
  <2>4. QED
    BY <2>1, <2>3 DEF Serial!Store
<1>3. Serial!Committed(q.by, q.mails)
  BY DEF Commit, Serial!Committed
<1> HIDE DEF q, s, new
<1>4. CASE /\ \E meet \in Links \cup {None} :
                MayClaim(q.by, row, meet, Listings, Now) /\ new = Claimed(row, q.by, meet)
           /\ q.mails = CreatedMail(row, Users)
  <2>1. PICK meet \in Links \cup {None} :
          MayClaim(q.by, row, meet, Listings, Now) /\ new = Claimed(row, q.by, meet)
    BY <1>4
  <2>2. Serial!Claim(q.by, s, meet)
    BY <1>1, <1>2, <1>3, <1>4, <2>1, SameRules, SerialEnvironment DEF Serial!Claim
  <2>3. QED
    BY <1>1, <2>2, SerialEnvironment DEF Serial!Next
<1>5. CASE /\ q.body \in Bodies /\ VerifyOwnership(q.by, row)
           /\ MayPatch(q.by, row, q.body) /\ new = Patched(row, q.body)
           /\ q.mails = PatchMail(q.by, row, q.body, Users)
  <2>1. q.body \in PatchData /\ row # NoRow
    BY <1>1, <1>5, TransactionsAssumption DEF Plans
  <2>2. Serial!UpdateTimeSlot(q.by, s, q.body)
    BY <1>1, <1>2, <1>3, <1>5, <2>1, SameRules, SerialEnvironment DEF Serial!UpdateTimeSlot
  <2>3. QED
    BY <1>1, <2>1, <2>2, SerialEnvironment DEF Serial!Next
<1>6. CASE /\ VerifyOwnership(q.by, row)
           /\ MayDelete(q.by, row) /\ new = Deleted(row)
           /\ q.mails = DeleteMail(q.by, row, Users)
  <2>1. row # NoRow
    BY <1>1 DEF Plans
  <2>2. Serial!DeleteTimeSlot(q.by, s)
    BY <1>1, <1>2, <1>3, <1>6, <2>1, SameRules, SerialEnvironment DEF Serial!DeleteTimeSlot
  <2>3. QED
    BY <1>1, <2>2, SerialEnvironment DEF Serial!Next
<1>7. QED
  BY <1>1, <1>4, <1>5, <1>6 DEF Plans

(* Every step but a commit leaves the table, its ids and the last commit.  *)
LEMMA OnlyCommitsCommit ==
  ASSUME NEW r \in Requests, Receive(r) \/ Serve(r), ~Commit(r)
  PROVE  UNCHANGED <<slots, used, last>>
<1>1. ASSUME NEW op, NEW u, NEW s, NEW d, Admit(r, op, u, s, d)
      PROVE  UNCHANGED <<slots, used, last>>
  BY <1>1 DEF Admit, Reads
<1>2. ASSUME NEW u, NEW s, NEW meet, LoadClaim(r, u, s, meet)
      PROVE  UNCHANGED <<slots, used, last>>
  BY <1>2 DEF LoadClaim, Loads, Reads
<1>3. ASSUME NEW u, NEW l, NEW t, NEW type, NEW meet,
             LoadCreate(r, u, l, t, type, meet) \/ LoadPropose(r, u, l, t, type, meet)
      PROVE  UNCHANGED <<slots, used, last>>
  BY <1>3 DEF LoadCreate, LoadPropose, Loads, Reads
<1>4. CASE Receive(r)
  BY <1>1, <1>2, <1>3, <1>4 DEF Receive
<1>5. CASE Load(r) \/ LoseToMail(r)
  BY <1>5 DEF Load, LoseToMail, Loads, Refuse, Reads
<1>6. CASE Flush(r)
  BY <1>6 DEF Flush, FlushInsert, FlushClaim, FlushUpdate, FlushDelete, Locks, Refuse, Reads
<1>7. QED
  BY <1>4, <1>5, <1>6 DEF Serve

LEMMA NextRefines ==
  ASSUME IInv, SerialInv, [Next]_vars
  PROVE  [Serial!Next]_(Serial!vars)
<1>1. ASSUME UNCHANGED <<slots, used, last>>
      PROVE  UNCHANGED Serial!vars
  BY <1>1 DEF Serial!vars, Now
<1>2. ASSUME NEW r \in Requests, Commit(r)
      PROVE  Serial!Next
  BY <1>2, InsertRefines, WriteRefines DEF SerialInv
<1>3. CASE UNCHANGED vars
  BY <1>1, <1>3 DEF vars
<1>4. QED
  BY <1>1, <1>2, <1>3, OnlyCommitsCommit DEF Next

LEMMA InitSerial == Init => SerialInv
  BY DEF Init, Unused, SerialInv, UpToDate

(* With one connection no request ever acts on what it read and is no      *)
(* longer so, whatever row the table starts with.                          *)
THEOREM NothingIsStale ==
  ASSUME PoolSize = 1
  PROVE  Spec => []SerialInv
<1>1. IInv /\ Pooled /\ SerialInv /\ [Next]_vars => SerialInv'
  BY NextSerial
<1>2. QED
  BY <1>1, InitSerial, Invariant, PoolBoundsTransactions, PTL DEF Spec

(* The table starts empty, as that of TimeSlots does. *)
LEMMA InitRefines ==
  ASSUME Seeds = {NoRow}
  PROVE  Init => Serial!Init
<1>1. Init => slots = [s \in Ids |-> NoRow] /\ used = {}
  BY DEF Init
<1>2. QED
  BY <1>1, SerialEnvironment DEF Init, Serial!Init, Now

(* The statements of the endpoints, one connection to the database and so  *)
(* one request at a time, implement the atomic requests of TimeSlots: what *)
(* is proved of those holds of the code until two requests overlap.        *)
THEOREM OneAtATimeHolds ==
  ASSUME PoolSize = 1, Seeds = {NoRow}
  PROVE  Spec => OneAtATime
<1>1. IInv /\ SerialInv /\ [Next]_vars => [Serial!Next]_(Serial!vars)
  BY NextRefines
<1>2. QED
  BY <1>1, InitRefines, Invariant, NothingIsStale, PTL DEF Spec, OneAtATime, Serial!Spec

----------------------------------------------------------------------------
(* What it takes two overlapping requests to break                         *)

SoundTable == \A s \in Ids : slots[s] # NoRow => SoundRow(slots[s])

(* A landlord's window survives every PATCH. *)
LEMMA PatchKeepsWindows ==
  ASSUME NEW row \in SlotRow, NEW d \in PatchData, row.landlord_created
  PROVE  Patched(row, d) \in SlotRow
<1>1. Release(row) \in SlotRow
  BY DEF Release, SlotRow, Statuses
<1>2. UpdateBooking(row, d) \in SlotRow
  <2>1. ~Releases(d) => UpdateBooking(row, d)
          = [row EXCEPT !.status = Given(d.status, row.status),
                        !.meet_link = Given(d.meet_link, row.meet_link),
                        !.start_time = Given(d.start_time, row.start_time),
                        !.type = Given(d.type, row.type)]
    BY DEF UpdateBooking, SlotRow
  <2>2. QED
    BY <1>1, <2>1, AssignedTyped DEF UpdateBooking
<1>3. AfterBooking(row, d) \in SlotRow
  BY <1>2 DEF AfterBooking
<1> DEFINE mid == AfterBooking(row, d)
<1>4. UpdateSlot(mid, d) \in SlotRow
  BY <1>3, UpdateSlotTyped
<1>5. QED
  BY <1>3, <1>4 DEF Patched

(* What a request plans for the row it has just read keeps it sound, and   *)
(* deletes a landlord's window only while it is open.                      *)
LEMMA PlansSound ==
  ASSUME NEW q, NEW row \in SlotRow, NEW new, q.by \in Users, SoundRow(row), Plans(q, row, new)
  PROVE  /\ new # NoRow => SoundRow(new)
         /\ new = NoRow /\ row.landlord_created => row.status = "OPEN"
<1>1. CASE \E meet \in Links \cup {None} :
             MayClaim(q.by, row, meet, Listings, Now) /\ new = Claimed(row, q.by, meet)
  BY <1>1, ClaimedSound, RulesAssumption DEF MayClaim
<1>2. CASE q.body \in Bodies /\ MayPatch(q.by, row, q.body) /\ new = Patched(row, q.body)
  BY <1>2, PatchedSound, PatchKeepsWindows, TransactionsAssumption, RulesAssumption
<1>3. CASE new = Deleted(row)
  <2>1. row.landlord_created => Release(row) # NoRow
    <3>1. row.landlord_created => Release(row) \in SlotRow
      BY DEF Release, SlotRow, Statuses
    <3>2. QED
      BY <3>1, RulesAssumption
  <2>2. QED
    BY <1>3, <2>1, ReleaseSound DEF Deleted
<1>4. QED
  BY <1>1, <1>2, <1>3 DEF Plans

LEMMA PlansInsertSound ==
  ASSUME NEW q, q.by \in Users, PlansInsert(q)
  PROVE  SoundRow(q.new)
<1>1. PICK l \in Listings, t \in Times, type \in Types, meet \in Links \cup {None} :
        \/ q.new = NewWindow(l, t, type, meet)
        \/ /\ MayPropose(q.by, l, t, type, meet, Listings, Now)
           /\ q.new = NewProposal(q.by, l, t, type, meet)
  BY DEF PlansInsert
<1>2. QED
  BY <1>1, NewWindowSound, NewProposalSound DEF MayPropose

(* A commit on up-to-date reads writes sound rows and spares bookings of a *)
(* landlord's window.                                                      *)
LEMMA CommitSound ==
  ASSUME IInv, SerialInv, SoundTable, NEW r \in Requests, Commit(r), NEW s \in Ids
  PROVE  /\ slots'[s] # NoRow => SoundRow(slots'[s])
         /\ slots[s] # NoRow /\ slots'[s] = NoRow /\ slots[s].landlord_created
              => slots[s].status = "OPEN"
<1> DEFINE q == req[r]
<1>1. /\ q.stage = "flushed" /\ q.by \in Users /\ UpToDate(r)
      /\ ~Inserts(q) => q.slot \in Ids
  BY DEF Commit, SerialInv, IInv, Remembers
<1>2. slots[s] # NoRow => SoundRow(slots[s]) /\ slots[s] \in SlotRow
  BY DEF SoundTable, IInv, TypeOK
<1>3. CASE Inserts(q)
  <2>1. PlansInsert(q) /\ q.new # NoRow
    BY <1>1, <1>3, RulesAssumption DEF UpToDate, IInv, Remembers
  <2>2. SoundRow(q.new)
    BY <1>1, <2>1, PlansInsertSound
  <2>3. slots'[s] \in {slots[s], q.new}
    BY <1>3 DEF Commit, IInv, TypeOK
  <2>4. QED
    BY <1>2, <2>1, <2>2, <2>3
<1>4. CASE ~Inserts(q) /\ lock[s] # r
  BY <1>2, <1>4 DEF Commit
<1>5. CASE ~Inserts(q) /\ lock[s] = r
  <2>1. s = q.slot /\ slots'[s] = q.new
    BY <1>5 DEF Commit, IInv, Protects
  <2>2. Plans(q, slots[s], q.new)
    BY <1>1, <1>5, <2>1 DEF UpToDate
  <2>3. slots[s] # NoRow
    BY <2>2 DEF Plans
  <2>4. QED
    BY <1>1, <1>2, <2>1, <2>2, <2>3, PlansSound
<1>6. QED
  BY <1>3, <1>4, <1>5

LEMMA NextSound ==
  ASSUME IInv, SerialInv, SoundTable, [Next]_vars
  PROVE  /\ SoundTable'
         /\ \A s \in Ids : slots[s] # NoRow /\ slots'[s] = NoRow /\ slots[s].landlord_created
              => slots[s].status = "OPEN"
<1>1. CASE UNCHANGED slots
  BY <1>1 DEF SoundTable
<1>2. ASSUME NEW r \in Requests, Commit(r)
      PROVE  /\ SoundTable'
             /\ \A s \in Ids : slots[s] # NoRow /\ slots'[s] = NoRow /\ slots[s].landlord_created
                  => slots[s].status = "OPEN"
  BY <1>2, CommitSound DEF SoundTable
<1>3. QED
  BY <1>1, <1>2, OnlyCommitsCommit DEF Next, vars

LEMMA InitSound == Init => SoundTable
  BY SeedsAssumption DEF Init, SoundTable, SoundRow

(* One request at a time stores sound rows only. *)
THEOREM RowsAreSound ==
  ASSUME PoolSize = 1
  PROVE  Spec => []SoundTable
<1>1. IInv /\ SerialInv /\ SoundTable /\ [Next]_vars => SoundTable'
  BY NextSound
<1>2. QED
  BY <1>1, InitSound, Invariant, NothingIsStale, PTL DEF Spec

(* One request at a time keeps what models/time_slot.py:15 says of a row:  *)
(* the orphan of TransactionsOrphan needs two that overlap.                *)
THEOREM BookedIffCandidateAlone ==
  ASSUME PoolSize = 1
  PROVE  Spec => []BookedIffCandidate
<1>1. SoundTable => BookedIffCandidate
  BY DEF SoundTable, SoundRow, BookedIffCandidate, Rows
<1>2. QED
  BY <1>1, RowsAreSound, PTL

(* And it keeps what services/time_slot.py:415 says of a DELETE: the       *)
(* booking lost in TransactionsDestroy needs two that overlap.             *)
THEOREM DeleteSparesBookingsAlone ==
  ASSUME PoolSize = 1
  PROVE  Spec => DeleteNeverDestroysABooking
<1>1. IInv /\ SerialInv /\ SoundTable /\ [Next]_vars =>
        [\A s \in Ids : slots[s] # NoRow /\ slots'[s] = NoRow /\ slots[s].landlord_created
           => slots[s].status = "OPEN"]_vars
  BY NextSound
<1>2. QED
  BY <1>1, Invariant, NothingIsStale, RowsAreSound, PTL DEF Spec, DeleteNeverDestroysABooking

(* A candidate never proposes a start his listing has a slot for already   *)
(* (services/time_slot.py:218).  No index backs the check: two proposals   *)
(* that overlap may both be stored.                                        *)
ProposesFreeStart ==
  [][\A s \in Ids : slots[s] = NoRow /\ slots'[s] # NoRow /\ ~slots'[s].landlord_created
       => ~Taken(slots'[s].listing, slots'[s].start_time)]_vars

LEMMA CommitProposes ==
  ASSUME IInv, SerialInv, NEW r \in Requests, Commit(r),
         NEW s \in Ids, slots[s] = NoRow, slots'[s] # NoRow, ~slots'[s].landlord_created
  PROVE  ~Taken(slots'[s].listing, slots'[s].start_time)
<1> DEFINE q == req[r]
<1>1. Inserts(q)
  <2> SUFFICES ASSUME ~Inserts(q)
               PROVE  FALSE
    OBVIOUS
  <2>1. lock[s] = r /\ slots'[s] = q.new
    BY DEF Commit
  <2>2. slots[s] # NoRow
    BY <2>1 DEF IInv, Protects
  <2>3. QED
    BY <2>2
<1>2. slots'[s] = q.new
  BY <1>1 DEF Commit, IInv, TypeOK
<1>3. PlansInsert(q)
  BY <1>1 DEF Commit, SerialInv, UpToDate
<1>4. PICK l \in Listings, t \in Times, type \in Types, meet \in Links \cup {None} :
        \/ q.new = NewWindow(l, t, type, meet)
        \/ q.new = NewProposal(q.by, l, t, type, meet) /\ ~Taken(l, t)
  BY <1>3 DEF PlansInsert
<1>5. q.new = NewProposal(q.by, l, t, type, meet) /\ ~Taken(l, t)
  BY <1>2, <1>4 DEF NewWindow
<1>6. QED
  BY <1>2, <1>5 DEF NewProposal

THEOREM ProposalsAreAlone ==
  ASSUME PoolSize = 1
  PROVE  Spec => ProposesFreeStart
<1>1. ASSUME IInv, SerialInv, [Next]_vars, NEW s \in Ids, slots[s] = NoRow, slots'[s] # NoRow,
             ~slots'[s].landlord_created
      PROVE  ~Taken(slots'[s].listing, slots'[s].start_time)
  <2>1. PICK r \in Requests : Commit(r)
    BY <1>1, OnlyCommitsCommit DEF Next, vars
  <2>2. QED
    BY <1>1, <2>1, CommitProposes
<1>2. IInv /\ SerialInv /\ [Next]_vars =>
        [\A s \in Ids : slots[s] = NoRow /\ slots'[s] # NoRow /\ ~slots'[s].landlord_created
           => ~Taken(slots'[s].listing, slots'[s].start_time)]_vars
  BY <1>1
<1>3. QED
  BY <1>2, Invariant, NothingIsStale, PTL DEF Spec, ProposesFreeStart
============================================================================
