-------------------------- MODULE SlotTransactions --------------------------
(***************************************************************************)
(* The same endpoints, one database statement at a time.  Each request     *)
(* runs in a transaction of its own (get_db), which PostgreSQL executes    *)
(* READ COMMITTED: a SELECT sees the committed table, an UPDATE or DELETE  *)
(* waits for the lock of its row and then sees what the holder committed.  *)
(*                                                                         *)
(*   idle -> admitted -> loaded -> flushed -> committed                    *)
(*                 \-> refused  \-> refused \-> lost                       *)
(*                                                                         *)
(* The ORM writes the columns whose value differs from the row it loaded,  *)
(* WHERE id only, so whatever the handler checked may be stale by then.    *)
(* The response leaves at `flushed`; the queued mails are sent next and    *)
(* the commit comes last, so a mail that raises rolls back a request the   *)
(* client saw succeed.                                                     *)
(***************************************************************************)
EXTENDS SlotRules, FiniteSets

CONSTANTS
  MaxSlots, System,
  Requests,     \* request identities, each used once
  PoolSize,     \* connections in the pool: transactions in flight at once
  Bodies,       \* the PATCH bodies clients send
  Seeds         \* rows slot 1 may start as (NoRow: the table starts empty)

Ids == 1..MaxSlots

ASSUME TransactionsAssumption ==
  /\ MaxSlots \in Nat
  /\ System \notin Users
  /\ None \notin Ids /\ None \notin Requests
  /\ PoolSize \in Nat \ {0}
  /\ Bodies \subseteq PatchData
  /\ Seeds \subseteq SlotRow \cup {NoRow}

(* A seed is a row as requests served one at a time leave it (TimeSlots).  *)
ASSUME SeedsAssumption ==
  \A row \in Seeds \ {NoRow} :
    /\ row.status # "OPEN" <=> row.candidate # None
    /\ row.status = "OPEN" => row.landlord_created
    /\ row.status \notin {"DECLINED", "CANCELLED"}
    /\ row.candidate # Landlord(row)

VARIABLES
  slots,    \* the committed table
  used,     \* ids a committed row was ever stored under
  lock,     \* lock[s]: the transaction that wrote row s and has not ended
  req,      \* what each request has done so far
  last      \* the last request that committed: its author and its mails

vars == <<slots, used, lock, req, last>>

Stages == {"idle", "admitted", "loaded", "flushed", "committed", "refused", "lost"}
Ops    == {"create", "propose", "claim", "patch", "delete"}

(* `old` is the row as loaded, `new` the row the handler wants; once       *)
(* flushed, `new` is the row its transaction will leave behind.            *)
Request == [stage : Stages, op : Ops \cup {None}, by : Users \cup {None},
            slot : Ids \cup {None}, body : Bodies \cup {None},
            old : SlotRow \cup {NoRow}, new : SlotRow \cup {NoRow},
            mails : SUBSET Mail]

TypeOK ==
  /\ slots \in [Ids -> SlotRow \cup {NoRow}]
  /\ used \subseteq Ids
  /\ lock \in [Ids -> Requests \cup {None}]
  /\ req \in [Requests -> Request]
  /\ last \in [by : Users \cup {System}, mails : SUBSET Mail]

Unused == [stage |-> "idle", op |-> None, by |-> None, slot |-> None, body |-> None,
           old |-> NoRow, new |-> NoRow, mails |-> {}]

Init ==
  /\ \E seed \in Seeds :
       /\ slots = [s \in Ids |-> IF s = 1 THEN seed ELSE NoRow]
       /\ used = IF seed = NoRow THEN {} ELSE {1} \cap Ids
  /\ lock = [s \in Ids |-> None]
  /\ req = [r \in Requests |-> Unused]
  /\ last = [by |-> System, mails |-> {}]

----------------------------------------------------------------------------
Now == 0    \* the requests in flight overlap within one instant

InFlight == {r \in Requests : req[r].stage \in {"admitted", "loaded", "flushed"}}

(* A request enters once a connection is free: pool_size + max_overflow.   *)
Arrives(r) == req[r].stage = "idle" /\ Cardinality(InFlight) < PoolSize

Advance(r, fields) == req' = [req EXCEPT ![r] = fields]

Reads == UNCHANGED <<slots, used, lock, last>>

(* First statement of PATCH and DELETE: verify_time_slot_ownership.        *)
Admit(r, op, u, s, d) ==
  /\ Arrives(r)
  /\ VerifyOwnership(u, slots[s])
  /\ Advance(r, [Unused EXCEPT !.stage = "admitted", !.op = op, !.by = u,
                               !.slot = s, !.body = d])
  /\ Reads

Loads(r, q, row, mails) ==
  /\ Advance(r, [q EXCEPT !.stage = "loaded", !.new = row, !.mails = mails])
  /\ Reads

Refuse(r) ==
  /\ Advance(r, [req[r] EXCEPT !.stage = "refused"])
  /\ Reads

(* Second statement: _load_slot, a fresh SELECT, and the service's checks. *)
Accepts(q, row) ==
  row # NoRow /\ IF q.op = "patch" THEN MayPatch(q.by, row, q.body) ELSE MayDelete(q.by, row)

Load(r) ==
  LET q   == req[r]
      row == slots[q.slot]
  IN  /\ q.stage = "admitted"
      /\ IF ~Accepts(q, row) THEN Refuse(r)
         ELSE IF q.op = "patch"
         THEN Loads(r, [q EXCEPT !.old = row], Patched(row, q.body),
                    PatchMail(q.by, row, q.body, Users))
         ELSE Loads(r, [q EXCEPT !.old = row], Deleted(row), DeleteMail(q.by, row, Users))

(* claim, create_slot and propose load and check in one statement.         *)
LoadClaim(r, u, s, link) ==
  /\ Arrives(r)
  /\ MayClaim(u, slots[s], link, Listings, Now)
  /\ Loads(r, [Unused EXCEPT !.op = "claim", !.by = u, !.slot = s, !.old = slots[s]],
           Claimed(slots[s], u, link), CreatedMail(slots[s], Users))

Inserts(q) == q.op \in {"create", "propose"}

(* MaxSlots bounds the ids: stored ones and those in-flight inserts need.  *)
Room == Cardinality(used) + Cardinality({r \in InFlight : Inserts(req[r])}) < MaxSlots

LoadCreate(r, u, l, t, type, link) ==
  /\ Arrives(r) /\ Room
  /\ MayCreate(u, l, type, link)
  /\ Loads(r, [Unused EXCEPT !.op = "create", !.by = u],
           NewWindow(l, t, type, link), {})

Taken(l, t) == \E s \in Ids : /\ slots[s] # NoRow
                              /\ slots[s].listing = l /\ slots[s].start_time = t

LoadPropose(r, u, l, t, type, link) ==
  /\ Arrives(r) /\ Room
  /\ MayPropose(u, l, t, type, link, Listings, Now)
  /\ ~Taken(l, t)
  /\ LET row == NewProposal(u, l, t, type, link)
     IN  Loads(r, [Unused EXCEPT !.op = "propose", !.by = u], row,
               CreatedMail(row, Users))

----------------------------------------------------------------------------
(* The statements that write *)

(* Wrong: a column set to NULL is not written. *)
SkipNulls(old, new) == {c \in DOMAIN old : new[c] # old[c] /\ new[c] # None}

(* The columns an ORM UPDATE sets: those the session changed.              *)
Changed(old, new) == {c \in DOMAIN old : new[c] # old[c]}

Overwrite(row, old, new) ==
  [c \in DOMAIN row |-> IF c \in Changed(old, new) THEN new[c] ELSE row[c]]

Flushed(r, row) == Advance(r, [req[r] EXCEPT !.stage = "flushed", !.new = row])

Locks(r) ==
  /\ lock[req[r].slot] = None
  /\ lock' = [lock EXCEPT ![req[r].slot] = r]
  /\ UNCHANGED <<slots, used, last>>

(* An INSERT conflicts with nothing: time_slots has no unique constraint.  *)
FlushInsert(r) ==
  /\ req[r].stage = "loaded" /\ Inserts(req[r])
  /\ Flushed(r, req[r].new)
  /\ Reads

(* Wrong: the claim's UPDATE has no status condition. *)
FlushClaimBlindly(r) ==
  /\ req[r].stage = "loaded" /\ req[r].op = "claim" /\ lock[req[r].slot] = None
  /\ IF slots[req[r].slot] # NoRow
     THEN Flushed(r, Claimed(slots[req[r].slot], req[r].by, None)) /\ Locks(r)
     ELSE Refuse(r)

(* The conditional UPDATE of claim, WHERE id AND status = 'OPEN'.          *)
FlushClaim(r) ==
  LET q   == req[r]
      row == slots[q.slot]
  IN  /\ q.stage = "loaded" /\ q.op = "claim"
      /\ lock[q.slot] = None
      /\ IF row # NoRow /\ row.status = "OPEN"
         THEN Flushed(r, Claimed(row, q.by, q.new.meet_link)) /\ Locks(r)
         ELSE Refuse(r)

(* Wrong: an UPDATE of a deleted row inserts it again. *)
FlushUpsert(r) ==
  /\ req[r].stage = "loaded" /\ req[r].op \in {"patch", "delete"} /\ req[r].new # NoRow
  /\ Flushed(r, req[r].new)
  /\ Locks(r)

(* A PATCH or release that keeps the row; StaleDataError if it is gone,    *)
(* and no statement at all if nothing changed.                             *)
FlushUpdate(r) ==
  LET q   == req[r]
      row == slots[q.slot]
  IN  /\ q.stage = "loaded" /\ q.op \in {"patch", "delete"} /\ q.new # NoRow
      /\ \/ Changed(q.old, q.new) = {} /\ Flushed(r, NoRow) /\ Reads
         \/ /\ Changed(q.old, q.new) # {} /\ lock[q.slot] = None /\ row # NoRow
            /\ Flushed(r, Overwrite(row, q.old, q.new)) /\ Locks(r)
         \/ /\ Changed(q.old, q.new) # {} /\ lock[q.slot] = None /\ row = NoRow
            /\ Refuse(r)

(* An ORM DELETE; that the row is gone already is only logged.             *)
FlushDelete(r) ==
  /\ req[r].stage = "loaded" /\ req[r].op \in {"patch", "delete"} /\ req[r].new = NoRow
  /\ Flushed(r, NoRow)
  /\ Locks(r)

Flush(r) == FlushInsert(r) \/ FlushClaim(r) \/ FlushUpdate(r) \/ FlushDelete(r)

----------------------------------------------------------------------------
(* Wrong: the end of a transaction frees no lock. *)
KeepLocks(r) == lock' = lock

Unlock(r) == lock' = [s \in Ids |-> IF lock[s] = r THEN None ELSE lock[s]]

(* Every mail went out and get_db commits.                                 *)
Commit(r) ==
  LET q == req[r]
  IN  /\ q.stage = "flushed"
      /\ IF Inserts(q)
         THEN \E s \in Ids \ used : /\ slots' = [slots EXCEPT ![s] = q.new]
                                    /\ used' = used \cup {s}
         ELSE /\ slots' = [s \in Ids |-> IF lock[s] = r THEN q.new ELSE slots[s]]
              /\ UNCHANGED used
      /\ Unlock(r)
      /\ Advance(r, [q EXCEPT !.stage = "committed"])
      /\ last' = [by |-> q.by, mails |-> q.mails]

(* _send_email raises inside the background task: get_db rolls back.       *)
LoseToMail(r) ==
  /\ req[r].stage = "flushed"
  /\ req[r].mails # {}
  /\ Unlock(r)
  /\ Advance(r, [req[r] EXCEPT !.stage = "lost"])
  /\ UNCHANGED <<slots, used, last>>

Receive(r) ==
  \/ \E u \in Users, s \in Ids :
       \/ Admit(r, "delete", u, s, None)
       \/ \E d \in Bodies : Admit(r, "patch", u, s, d)
       \/ \E link \in Links \cup {None} : LoadClaim(r, u, s, link)
  \/ \E u \in Users, l \in Listings, t \in Times, type \in Types, link \in Links \cup {None} :
       LoadCreate(r, u, l, t, type, link) \/ LoadPropose(r, u, l, t, type, link)

(* What the server does with a request it has received.                    *)
Serve(r) == Load(r) \/ Flush(r) \/ Commit(r) \/ LoseToMail(r)

Next == \E r \in Requests : Receive(r) \/ Serve(r)

Spec == Init /\ [][Next]_vars

FairSpec == Spec /\ \A r \in Requests : WF_vars(Serve(r))

----------------------------------------------------------------------------
(* What survives every interleaving *)

Rows == {slots[s] : s \in Ids} \ {NoRow}

Kept(s) == slots[s] # NoRow /\ slots'[s] # NoRow
By(u)   == last'.by = u

(* Stale requests never put a proposal on offer nor leave a terminal       *)
(* status behind: a release flushed over a newer row still sets OPEN only  *)
(* on a landlord's window.                                                 *)
RowsKeepTheirKind ==
  \A row \in Rows : /\ row.status = "OPEN" => row.landlord_created
                    /\ row.status \notin {"DECLINED", "CANCELLED"}

(* No interleaving books a landlord into his own listing. *)
NoSelfBooking == \A row \in Rows : row.candidate # Landlord(row)

(* The claim is race-safe (time_slot.py:166): whoever becomes the          *)
(* candidate of a window took it while its committed status was OPEN, so   *)
(* of two claims that saw the same window open one is refused.             *)
ClaimTakesOpenWindow ==
  [][\A s \in Ids : Kept(s) /\ slots'[s].candidate \notin {slots[s].candidate, None}
        => slots[s].status = "OPEN" /\ By(slots'[s].candidate)]_vars

(* A booking is confirmed by its listing's landlord alone, whatever was    *)
(* stale when he did.                                                      *)
OnlyLandlordConfirms ==
  [][\A s \in Ids : Kept(s) /\ slots'[s].status = "CONFIRMED" /\ slots[s].status # "CONFIRMED"
        => By(Landlord(slots[s]))]_vars

(* A late write never brings back a row another transaction deleted. *)
DeletedStaysDeleted ==
  [][\A s \in used : slots[s] = NoRow => slots'[s] = NoRow]_vars

(* Every request received is answered and its transaction ended: no set of *)
(* requests waits on one another's row locks or connections for ever.      *)
EveryRequestEnds ==
  \A r \in Requests : (r \in InFlight) ~> (r \notin InFlight)

(* With one connection the requests are those of TimeSlots, one at a time. *)
Serial == INSTANCE TimeSlots WITH
  listed <- Listings, present <- Users, clock <- Now

OneAtATime == Serial!Spec

----------------------------------------------------------------------------
(* What comments and documents say and interleavings or mails break *)

(* models/time_slot.py:15: OPEN rows are availability, claimed and         *)
(* proposed rows carry a candidate.                                        *)
BookedIffCandidate == \A row \in Rows : row.status # "OPEN" <=> row.candidate # None

(* services/time_slot.py:415: deleting a claimed window releases it and    *)
(* never destroys the booking; only OPEN windows of a landlord go.         *)
DeleteNeverDestroysABooking ==
  [][\A s \in Ids : slots[s] # NoRow /\ slots'[s] = NoRow /\ slots[s].landlord_created
        => slots[s].status = "OPEN"]_vars

(* README.md:115: claiming moves the slot to PENDING; a claim the client   *)
(* saw succeed is stored.                                                  *)
AnsweredClaimIsStored == \A r \in Requests : req[r].op = "claim" => req[r].stage # "lost"
============================================================================
