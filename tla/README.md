# Verification of the HomiDirect API

TLA+ models of the HomiDirect back end (`app/`), TLC configurations that check
them on small instances, and proofs that TLAPS checks for every instance: the
viewing slots and the bookings made of them, the profiles and their accounts at
Clerk, the listings with what hangs on them, the paginated lists, and the
migrations that moved rows.

Paths below are relative to the repository's root (`src/` in `PROJECT.json`).

## 1. The system

A FastAPI application over PostgreSQL (SQLAlchemy async sessions). Every
request runs a handler in one event loop, in a transaction of its own; handlers
interleave at every `await`, and several processes may serve the same database.
The components and the state each keeps:

| Component | State | Operations that change it | What must be true of it |
|---|---|---|---|
| Time slots and bookings (`services/time_slot.py`, `api/v1/time_slots.py`) | `time_slots` rows: listing, start, status, candidate, author, type, link | create, propose, claim, PATCH (decide, cancel, relink, reschedule, retype), DELETE | a window has at most one candidate and has one exactly while it is booked; decisions are the landlord's; a booking ends only at the request of a party; the other party is told |
| Request transactions (`config/database.py`) | a connection pool, one transaction per request | begin, statements, commit or rollback | a request takes effect entirely or not at all, and ends |
| Authentication, ownership (`dependencies/auth.py`) | none of its own | role and ownership checks on rows read just before the handler's own | nobody acts on what is not his |
| Mails (`utils/email.py`) | background tasks of a response | send | who is told what; a failure must not undo what was answered |
| Profiles (`services/user.py`, `services/auth.py`, `api/v1/users.py`, `api/v1/auth.py`) | `users` | sync, delete | one profile per account and per email; deletion takes dependants along or is refused |
| Clerk webhooks and Backend API (`api/v1/webhooks.py`, `utils/clerk_admin.py`) | the remote accounts, mirrored in `users` | user.created, updated, deleted, redelivered and reordered | the mirror converges; a deleted account stays deleted |
| Listings (`services/listing.py`) | `listings`: publication, features | create, update, delete, contact | only ACTIVE listings take claims and proposals; a deletion leaves no dependants |
| Search and pagination (`services/listing.py`, `services/favorite.py`) | none | none | a walk of the pages shows every row, none twice; the filters and the order agree with each other |
| Listing images (`services/listing_image.py`) | `listing_images` and the object store | upload, delete | no row without its object, no object without its row; at most the limit |
| Listing verification (`services/verification.py`) | status on `listings`, documents, history | submit, delete, review | the status agrees with the last history entry |
| Favourites (`services/favorite.py`) | `interested_listings` | add, remove | one per user and listing |
| Object storage, upload validation (`utils/storage.py`, `utils/file_validation.py`) | objects in a bucket | put, delete | belongs to images and verification |
| Migrations (`alembic/versions`) | the schema | upgrade, downgrade | no booking is lost by the merge of bookings into slots |
| Application shell (`main.py`, `config/`, `utils/errors.py`) | none of the program's own | none | none |

How they interact. `time_slots` refers to `listings` and `users`: a claim or
proposal reads the listing's publication status and owner; deleting a profile
cascades to the rows it is the candidate of; the router of time slots calls the
ownership check of `dependencies/auth.py`, which reads the row in one SELECT,
and then the service, which reads it again in another; the service queues mails
that run after the response and *before* `get_db` commits. A sync and both
deletions of a profile call Clerk, which calls the webhook back for whatever
changed there. Images and documents are objects in a bucket, put before and
erased before the row's transaction commits. A listing is referred to by images,
documents, history, favourites and slots; a profile by listings, favourites and
slots.

What is hard here is listed under `hazards` in `PROJECT.json`, each at its line.
In short: rows are read, checked in Python, and written with `WHERE id` only,
except for the claim; the transaction commits after the response and the mails;
PATCH assigns the whole body before the second half of the request is checked;
three endpoints share one release; external systems (object store, Clerk, SMTP)
fail apart from the database.

## 2. Modules

```
SlotRules            the rules of one row and one request, as operators
 ├─ TimeSlots        the table, one atomic action per request
 │   └─ refines SlotLifecycle   the abstract life of a window
 └─ SlotTransactions the same requests, one database statement at a time
     └─ refines TimeSlots when there is one connection
SlotMigration        TimeSlots' table taken down to the two old ones, and back
Profiles             users, the accounts at Clerk, syncs, deletions, webhooks
Listings             listings, images, documents, bucket, reviews, favourites
Catalogue            the pages of searches and lists, while listings change

MCTimeSlots, MCSlotTransactions, MCProfiles, MCListings, MCCatalogue
                     instances for TLC
SlotRules_proofs, TimeSlots_proofs, SlotLifecycle_proofs,
SlotTransactions_proofs, SlotMigration_proofs, Profiles_proofs,
Listings_proofs, Catalogue_proofs      theorems
```

Profiles, Listings and Catalogue stand beside TimeSlots rather than on it: what
one of them needs of another is a flag (`held` of a profile, `slotted` of a
listing, `listed` in TimeSlots) and an action that sets it at any time, or, for the
profiles TimeSlots and Listings refer to, the set `present` and `DeleteProfile`.

The operators under a comment `Wrong: ...` (`AnyoneActs`, `ReleaseKeepsLink`,
`ClaimTaken`, `FlushClaimBlindly`, ...) are mistakes on purpose: each is a
plausible bug in the operator it stands before, paired under `mutants` in
`PROJECT.json` with the property that catches it when that operator is
replaced. Nothing in the specifications uses them.

### SlotRules

One operator per function or branch of `services/time_slot.py`, on a row and a
request. `MayX` is the conjunction of the checks the handler passes through,
the other half what the row becomes: `MayClaim`/`Claimed`,
`MayUpdateBooking`/`UpdateBooking` (`update_booking`), `MayUpdateSlot`/
`UpdateSlot` (`update_slot`), `MayPatch`/`Patched` (the dispatcher), `Release`
(`_release`), `MayDelete`/`Deleted`. `...Mail` operators give the recipients.
`NoRow` as a result means the row is deleted.

`UpdateBooking` assigns every field the body holds, the landlord's too, as the
code's `for key, value in data.items()` does; `MayUpdateSlot` then sees the row
*after* that. The two flushes of such a PATCH are one statement in the models:
both write the same row under the same lock, and a refusal after the first rolls
both back.

Data left out: an instant is a number in `0..Horizon`, a link is a model value,
and ids of listings and users are model values. The empty string as a link or a
status is not modelled (the schema's enumeration refuses the latter).

### TimeSlots

`slots`, `used` (ids are never reused), `listed` (ACTIVE listings), `present`
(profiles), `clock` and `last` (author and mails of the last request that
committed). One action per endpoint that writes: `CreateSlot`, `Propose`,
`Claim`, `UpdateTimeSlot`, `DeleteTimeSlot`; and what the rest of the program
does to what they read: `SetPublication`, `DeleteProfile`, `Tick`. A request
answered with an error rolls back, which is a stuttering step, so an action's
guard is the condition under which the handler succeeds.

`DeleteProfile` is enabled for users without listings only: for a landlord the
ORM sets `listings.landlord_id` to NULL, the column refuses it, and the request
fails. Favourites refuse a deletion in the same way and are left out, which
only makes the action possible more often.

### SlotTransactions

The same requests, each as a transaction that executes statements:

| Stage | Code |
|---|---|
| `admitted` | PATCH and DELETE: `verify_time_slot_ownership` found the caller to be a party, in its own SELECT |
| `loaded` | `_load_slot` (or the first SELECTs of claim, create, propose) and every check of the service on that row |
| `flushed` | the INSERT, UPDATE or DELETE ran and holds its row lock; the response is sent, mails are being sent |
| `committed` | `get_db` resumed after the response and its background tasks, and committed |
| `refused`, `lost` | rolled back: before the answer (a check, a conditional UPDATE that found nothing, `StaleDataError`), or after it (a mail raised) |

Assumptions about what is below the code, `external` in the map:

- PostgreSQL runs the transactions READ COMMITTED. An UPDATE or DELETE waits for
  the row's lock, then applies to the row as committed by then, or to none.
- The ORM's UPDATE sets the columns whose value changed since the load, `WHERE
  id` only. `Changed` and `Overwrite` model exactly that, so a stale request
  overwrites the columns it changed and leaves the others. An UPDATE that
  matches no row raises; a DELETE that matches none only warns. The row that
  `verify_time_slot_ownership` read is dropped with its last reference, so
  `_load_slot` sees what its own SELECT returns.
- FastAPI (the version locked in `uv.lock`) finishes a dependency with `yield`
  after the response and its background tasks.

Fixed here and free in TimeSlots: the clock, the listings' publication and the
profiles. `Room` keeps inserts within `MaxSlots`; each element of `Requests` is
one request and is used once; `Seeds` are rows the table may start with, all of
them states TimeSlots reaches.

### SlotLifecycle

What the service promises of one window, without rows, roles, links or
requests: it is offered or proposed; booked only while open; confirmed only
while pending; freed only if a landlord offered it; deleted only while open or
if a candidate proposed it; and its candidate's departure takes it along.
TimeSlots maps `status`, `landlord_created` and `candidate` to `phase`,
`origin` and `holder`; PATCHes that only move, retype or relink a window map to
stutters, as do the clock and publication.

### SlotMigration

The two migrations that move rows, as functions between tables. `SlotOnly` is
`slot_only_bookings`; `Upgrade` is the LEFT JOIN of
`unify_bookings_and_availability_slots`, `Merged` its `CASE`s; `Windows` and
`Bookings` are the two INSERTs of its downgrade. The module extends TimeSlots, so
that the downgrade is asked of the tables requests served one at a time leave. On
the others it can fail (finding 2 below), and the theorem
`OnlyOrphansStopTheDowngrade` says on which. `ComesBack` is what a row is after the
downgrade and the upgrade: all that is lost, and nothing else. Not modelled: the
sequences (see section 4), `created_at`, and the columns that are dropped.

### Profiles

`clerk` (the email of each account, `NotYet` or `Gone`), `users`, `next` (the
sequence of ids), `events` (webhook events not answered 2xx yet), `req` (what
each worker's coroutine has read) and three that only observe: `lost`,
`survivors`, and `acts`, which bounds what users and the network do.

| Action | Code |
|---|---|
| `FetchAccount`, `SyncUser` | `POST /auth/sync`: Clerk is asked, then `sync_user` selects by account |
| `Deliver` | `POST /webhooks/clerk`: the handler's first SELECT; no row is the end of `updated` and `deleted` |
| `SelectEmail` | the SELECT by email of `sync_user`; a conflict is the 409, swallowed by `user.created` |
| `Insert`, `Update` | the INSERT or UPDATE with its commit; a unique index or a row gone is a 500 |
| `Remove`, `DeleteAuthUser` | `DELETE /users/{id}`: the ownership check, the account's deletion at Clerk, logged if it fails |
| `SelectUser`, `SelectDependants`, `Delete` | `delete_user`: `db.delete`, whose flush runs at the commit, after the answer, and first selects what refers to the row |
| `Stop` | the process or the commit fails, before the answer or after it |
| `SignUp`, `ChangeEmail`, `CloseAtClerk`, `Attach` | what users do at Clerk, and what gives or takes dependants |

The one write of a request and its commit are one step: the unique indexes make
every other writer of the same keys wait for the commit, and READ COMMITTED shows
nothing of it before. `SyncRoles` are the roles the body of a sync may hold
(`schemas/auth.py`), of which `Wishes` are those the clients ask for.
Clerk is `external`: it delivers in any order, and again
until it sees a 2xx (`Acknowledge` may leave an answered event in place, for an
answer that was lost). Left out: names, signatures (a library), events without an
email, unknown events.

### Listings

`listing` (publication, status, reviewer, date), `history`, `file` (image and
document rows by object key), `objects` (the bucket), `favourites`, `slotted`,
`present` (profiles), `req` and `pool`, the connections an instance has. An operation is a chain of
steps on `req[r].stage`:

    upload   ready  -> Put -> stored -> Upload
    drop     ready  -> EraseFile -> erased -> Drop
    remove   erasing -> EraseImage*, ErasedAll -> ready
                     -> SelectDependants -> bare -> Remove
    review   ready  -> Review          favourite  ready -> AddFavorite

The first step of each (`CountImages`, `LoadForDocument`, `LoadFile`,
`LoadListing`, `LoadReview`, `LoadFavorite`) is what the request reads and checks,
and the columns it remembers are those the ORM compares with at its UPDATE. `Lose`
ends a request anywhere by a rollback, which does not reach the bucket; `strays`
records the keys that leaves behind. The removal follows the ORM: its flush selects the
dependants and sets their keys to NULL, which only `listing_images.listing_id`
allows, so a listing with slots, favourites, documents or a history stays, after
its images were erased and a 204 was sent; what is inserted after that SELECT the
database removes by its foreign keys. Creating, updating and unfavouriting are one
statement each and atomic.

`DeleteProfile` is `delete_user` as it meets listings. The ORM and the foreign keys
clear the reviewer of listings and of history entries and delete the uploader's
documents, whose objects stay in the bucket (they join `strays`); a listing owned or
a favourite refuses the deletion. It is one step here: the statements of its flush
are told apart in Profiles. Requests the deleted user still has in flight go on, and
what they insert meets the foreign keys (`Upload`, `Review`, `AddFavorite`).

Of a listing's fifty columns the model keeps those some
check reads; of a key, that it is new (it holds the time in milliseconds).

### Catalogue

`db` (the listings and the client's favourites), `clock`, `signed_in` and `walk`:
the page, the count, what was seen, and `upset`, the set of reasons the walk may
be off. `Count` and `Page` are the two statements of a request; `Meets`, `Before`
and `Pages` are its WHERE, ORDER BY and LIMIT/OFFSET. Rows that the ORDER BY ties
come in any order: `Pages` is the set of all results the database may give, not
one of them. `HasNext` is the division by the limit. Meanwhile listings are
created, changed, featured, deleted, saved and unsaved, the clock ticks, and the
client's token expires, which changes the cap of the limit.

## 3. Runs

| Run | Instance | Question |
|---|---|---|
| `slots_one` | one listing, its landlord, a tenant, a user with both roles, an ADMIN; one slot id, two instants, one link, every PATCH body | what a row may look like, and what one request may do to it |
| `slots_two` | three users, two slot ids, no link | does the table implement the life of a window, with several rows deleted at once by a departure and duplicates refused |
| `races` | three requests in flight, two ids, six bodies, four starting rows | what survives every interleaving, stale write and failed mail |
| `serial` | four requests, one connection, empty table | do the statements of a handler add up to the atomic action |
| `requests_end` | three requests, two connections, one row | does every request end |
| `profiles` | two accounts, two emails, two workers, three ids, two acts, a role asked for or none; an ADMIN's row at the start, whose account may close | one profile each, who may change or remove it, and does a deletion at Clerk reach it |
| `listings` | one listing, its landlord, two ADMINs, two keys, three requests, limit 1, a pool of one or two; any of the three may leave | rows and objects, the limit, dependants and verdicts under overlap, rollback and the deletion of a profile |
| `catalogue` | three listings, pages of one or two, two prices, nine queries, one change and one tick | does a walk miss or repeat a row, announce an empty page, split or order by featured rightly |
| `type_unlocked` | as `slots_one` | finding 1 below |
| `orphan_booking`, `destroyed_booking`, `lost_claim` | three requests in flight on one row | findings 2 to 4 below |

Why the bounds are enough to be interesting. The rules relate one row, its
listing and the caller: the callers a rule can tell apart are the listing's
landlord, the row's candidate, another user able to claim it, and an ADMIN, and
`slots_one` has them all, with every row of its one listing reachable. A second
instant makes the past, a reschedule and a duplicate time possible. A second id
matters for deletion by profile and for the duplicate check only. Races between
statements need a writer, the writer it overtakes, and a third request whose
commit makes the second one's read stale, hence three requests; starting from a
booked row saves the requests that would create it. Runs of SlotTransactions
turn the deadlock check off because each identity is used once and the system
stops when they are used up; in `slots_one` and `slots_two` it is on. The
requests are symmetric in every run but the liveness ones.

`slots_one` also checks the two properties of SlotMigration, on every table it
reaches. In `profiles` an email can pass from one account to the other, which
needs two of each and a change of email; two workers overlap any two handlers; three
ids leave room for two inserts beside the ADMIN's row, so that of two first syncs of
one account, or of one email, the unique index and not the bound refuses the second
(the model without either index violates `OneProfileEach`); and `MaxActs = 2`
allows two acts, which are requests of users, changes of an email,
attachments of a listing or favourite, lost answers and stops; closing an account
and delivering an event are free. In `listings` three requests are the upload or
review, the one that overtakes it, and the removal; a pool of one shows in the
same run what holds one request at a time; two keys are a row another request
names and one it does not know; of two ADMINs one reviews what the other reviewed
before he left. In `catalogue` three rows and pages of one or two
give a page after the change, which is where an offset is off; one change is
enough, since each kind of `upset` is a change of its own. The three runs turn the
deadlock check off, because requests, acts and pages run out.

Properties, by what could go wrong:

- *The row.* `BookedIffCandidate`, `ProposalNeverOpen`, `TerminalNeverPersists`,
  `CandidateExists`: no sequence of legal calls, a PATCH
  mixing both halves included, stores a row the service does not mean.
- *The step.* `CandidateNeverSwapped`, `OnlyPartiesTouchABooking`,
  `OnlyLandlordConfirms`, `OnlyOwnersMoveAWindow`, `CounterpartIsTold`,
  `ReleasedIsClean`: who may change what, and who hears of it.
- *The races.* `RowsKeepTheirKind` is what remains of the row's shape once
  writes may be stale. `ClaimTakesOpenWindow` is the comment "race-safe by
  construction" of `claim`: among overlapping claims one wins, however the
  reads interleave. `OnlyLandlordConfirms` and `DeletedStaysDeleted` hold of the
  stale writes too; `EveryRequestEnds` says nobody waits for ever.
- *The refinements.* `FollowsLifecycle` and `OneAtATime`.
- *The migrations.* `DowngradeFits`, `RoundTripLosesNoBooking`: the old schema can
  hold what requests one at a time have left, and gives back all of it but the
  author of a row, the type of one without a link and the link of one without a
  booking.
- *The profiles.* `OneProfileEach` rests on the unique indexes alone, as every
  SELECT before an INSERT can be overtaken. `OutlivesWithACause` lists the ways a
  profile survives its account: an event still to come, a handler about to act, an
  event answered and lost, or one of `survivors`. `RolesComeFromSync`,
  `ProfilesLeaveOnRequest`, `AnswerMeansDone` say which step may change a role,
  remove a row, or tell Clerk not to come again; `DeletionReachesProfile` is the
  liveness of `user.deleted`.
- *The listings.* `StoreAgrees` relates rows and objects through every overlap of
  uploads, deletions and removals; `ImagesBounded` is what remains of the limit when
  uploads count at the same time; `NothingDangles` is the work of ORM and foreign
  keys together, for listings and profiles that go; `VerificationAgrees` holds one
  request at a time, the deletion of a reviewer's profile included, which takes him
  off the row and off its last entry together; `VerdictsAreRecorded` is what
  survives overlapping reviews: no status changes without its entry.
- *The lists.* `NothingMissed`, `NothingRepeated` and `NoEmptyPage` each name the
  exact disturbances they survive, so a disturbance too many in the model would
  show as a violation and one too few as a property nobody can break;
  `FeaturedSplits` and `FeaturedFirst` are about NULLs in comparisons and orders,
  the latter in a walk nothing disturbs, be it by a period that ends.

Fairness: `FairSpec` asks weak fairness of `Serve(r)` for each request, that is,
a request that arrived and can take its next step eventually takes one. The
event loop resumes every ready coroutine, and PostgreSQL grants a released row
lock to a waiter. It does not ask that clients send requests, nor that mails
succeed: `LoseToMail` is one of the steps that satisfy it. Weak fairness is
enough although a lock may be taken by others first, because requests are
finitely many; a single row updated for ever by new requests is not covered.

In Profiles, `FairSpec` asks weak fairness of `Step(w)` for each worker: a
coroutine that can go on does. For the delivery of `Deleted(a)` it asks strong
fairness per account: `Deliver` is disabled while every worker is busy, Clerk
redelivers until it is answered 2xx, and other events do not starve it for ever.
Nothing is asked of the users, nor that a call to Clerk
succeeds; `Stop` is never fair, and bounded by `MaxActs`, that is, mishaps are
finitely many.

## 4. Findings

Four statements of the repository that the code does not keep, each the single
property of a run TLC refutes:

1. "The meeting type is locked as soon as someone claims or proposes the
   window" (`app/services/time_slot.py:133`). A landlord's PATCH of `type`
   together with `meet_link` or `status` goes through `update_booking` first,
   which assigns `type`; `update_slot` then finds nothing to change. An ON_SITE
   slot may so keep, or get, a meeting link.
2. "claimed/proposed rows carry a candidate" (`app/models/time_slot.py:15`). A
   confirmation checked before a cancellation commits and flushed after it sets
   `status` alone on the released row: CONFIRMED, with no candidate. The
   downgrade of the unify migration then fails: it inserts the row into `bookings`,
   whose `candidate_id` may not be NULL (`b2f9d4c8e1a7_...py:158,185-195`).
3. "released instead of silently destroying a booking"
   (`app/services/time_slot.py:415`). `delete_time_slot` decides on OPEN and the
   row goes at the end of the request: a claim committed in between is deleted.
4. "Claiming moves the slot to `PENDING`" (`README.md:115`). `_send_email`
   raises, the background task runs before the commit, and the claim the client
   got a 201 for is rolled back.

Seen and not given a run, in the slots: `README.md:115` says rescheduling is not
supported while the code comment at `app/services/time_slot.py:142` and a test
(`test_reschedule_claimed_slot_allowed`) say it is. Proposals made at the same
time can share a start, since the duplicate check has no index behind it. And
the former candidate of a window, verified before a release and a new claim,
may end the new booking.

In the profiles: "every event is answered 200" (`app/api/v1/webhooks.py:66`), but
`Update` and `Insert` meet the unique index on the email and answer 500 for ever
while another profile holds it. `user.created` delivered again, or answered by
a slow handler, after `user.deleted` brings the profile back (`survivors`).
`README.md:165` says `DELETE /users/{id}` removes the local row and the Clerk user:
of a profile with listings or favourites it removes the Clerk user, answers 204
and fails to remove the row; the webhook that follows is not a no-op but fails the
same way, after a 200.

In the listings: the removal of a listing with a history, slots, documents or
favourites erases its images and answers 204, and the rows stay. Two uploads at
once pass the limit. Two reviews at once leave status, reviewer and date, and the
history, disagreeing. An APPROVED listing keeps its date but has no reviewer once
the profile of the ADMIN who approved it is deleted, and the documents of a deleted
profile leave their objects in the bucket. The total of `GET /favorites` counts listings that are no
longer published, so its last pages are empty.

In the migrations: the docstring calls the downgrade lossy, and so it is
(`ComesBack`), but of candidate-proposed rows it says that they "have no old-world
counterpart at all" (`b2f9d4c8e1a7_...py:14`), while the code makes a slot and a
booking of each, and the upgrade back takes them for the landlord's:
`RoundTripLosesNoBooking` is a property that passes on them. `c190c9732040` keeps the booking of
the least id of a slot even if it is declined and another is live. The INSERTs with
explicit ids do not advance the new sequences.

## 5. Proofs

`tlapm` checks every theorem for all users, listings, roles, links, requests and
bounds, from the named assumptions of the modules alone: types of the constants,
that the stand-ins for NULL and "no row" are not values, that Listings' keys and
requests are finite, and that the rows SlotTransactions may start with are ones
requests served one at a time leave.

**TimeSlots.** The safety properties of a row are not inductive separately. That
an OPEN row has no candidate depends on every writer of `status`; that a claim
cannot swap a candidate depends on OPEN rows having none; that a release leaves a
clean row or none depends on proposals never being OPEN. `SoundRow` (in
`SlotRules_proofs`) joins them in a statement about one row that every rule
preserves, and

    IInv == TypeOK /\ SoundTable /\ FreshIds

lifts it to the table: every row is sound, a candidate has a profile, and ids
not in `used` hold no row. The argument has three layers:

1. `SlotRules_proofs`: each rule maps a sound row to a sound row or to `NoRow`
   (`ReleaseSound`, `PatchedSound`, ...), keeping listing and author, and
   keeping or clearing the candidate.
2. `TimeSlots_proofs`: `Init => IInv`, `IInv /\ [Next]_vars => IInv'`, one step
   per action; then the theorems. `NextRowStep` says what any step can do to a
   single row, which is what the action properties need.
3. `SlotLifecycle_proofs`: `RowEvolves` abstracts what PATCH and DELETE make of
   a sound row; each action then maps to one abstract action or a stutter, under
   `IInv`.

**SlotTransactions.** Between a handler's check and its write other requests
commit, so `SoundRow` does not hold (finding 2 is a counterexample). What does is
`KindRow`, its part that a stale write keeps, and it is inductive only together
with two facts about the transactions: `Remembers`, that a row's listing and
author are still those its request loaded if the row is still there, and what the
request plans to make of it; and `Protects`, that the row under a lock is the one
its holder's write was computed from. `OverwriteRewrites` is the lemma about the
ORM's UPDATE of a newer version of the row, and `CommitRow` and `NextWrites` say
that the table changes by commits alone, and how.

Of liveness the prover reaches the safety core. `PoolBoundsTransactions`: the
transactions in flight are finitely many, at most `PoolSize`.
`NobodyWaitsInCircles`: who holds a row's lock has written, holds no second row and
waits for none, so whoever waits waits for a transaction that only has to end.

With `PoolSize = 1` more holds, and by a second invariant on top of the first:
`SerialInv`, that each request in flight is `UpToDate` (the row it loaded is the
committed one, its checks would pass again, and what it plans or has written is what
one atomic step would make of that row, `Plans` and `PlansInsert`). It is inductive
because whoever moves is alone (`MoversAreAlone`, from the bound on the pool);
without that bound what was read may be stale. TLC found it kept on all seeds and bodies
of the runs before it was proved. From it:

- `OneAtATimeHolds`: a commit is the request of TimeSlots that `Plans` names
  (`InsertRefines`, `WriteRefines`), every other step a stutter; so the statements
  implement the atomic requests, and what is proved of TimeSlots holds of the code
  until two requests overlap. The refinement asks for an empty table at first, as
  TimeSlots starts with one; `NothingIsStale` and what follows do not.
- `BookedIffCandidateAlone` and `DeleteSparesBookingsAlone`: the two statements
  that findings 2 and 3 refute, true of requests served one at a time, whatever
  seed the table starts with. So neither is a fault of a rule: each takes two
  requests that overlap.
- `ProposalsAreAlone`: a proposal takes a start that is free, which no index
  guarantees to proposals that overlap.

**SlotMigration.** `DowngradesFit` and `RoundTripHolds` stand on TimeSlots'
`IInv`: a live row has a present candidate, an open one has none. They speak of
requests served one at a time. Of any table, `OnlyOrphansStopTheDowngrade`: without
terminal rows and departed candidates, the downgrade meets its constraints exactly
if no booked row lacks its candidate; `KindsAreKept` of SlotTransactions says that
overlapping requests leave no terminal row. The three theorems about the upgrades
are about any legacy tables that meet the old constraints, which no run enumerates.

**Profiles.** `IInv` adds to `TypeOK` and the unique keys (`OneProfileEach`) what
requests and events know. `RequestsSound`: at each stage a request has the values
it works with, an id in hand was given by the sequence and its row is of the
request's account or gone, and the account of a user.deleted is gone.
`EventsSound`: a deleted event is of an account that is gone, the others carry an
email. `FreshIds`: ids not yet given hold no row. `Outlives`: `OutlivesWithACause`
with only the handlers past their answer counted among the causes, because a
handler that has yet to find the row can still end without effect. The lemma
`Grows` says what no step undoes: no account comes back, no id is used again, no
row changes its account. The action properties follow from the same `IInv`.

**Listings** is proved in layers, each a lemma `... /\ [Next]_vars => ...'` over the
ones before it. `RequestsSound` says what a request holds at each stage. `Store`
joins `StoreAgrees` to four facts without which it is not inductive: a key named
anywhere was put or erased by some request (`KeysUsed`), a key stored and without a
row belongs to its upload alone (`StoredAlone`), and what deletions and removals
in flight have erased (`Erased`, `RemovesOwn`). `NothingDangles` splits into what
refers to listings (`ListingsKept`) and to profiles (`ProfilesKept`), each kept by
every step on its own. `ImagesBounded` is inductive as it
is, thanks to its term for the uploads in flight. `VerificationAgrees` needs
`Alone` (with one connection, one request in flight), `Current` (what a review or a
document read of the listing is what it still says, but for a reviewer deleted since,
`StillBy`) and `NothingDangles` (a new listing has no history); that an APPROVED
listing without a reviewer means an ADMIN is gone rests on `NoneReturns`, that no
step brings a profile back. `StepKinds` and `WhoVerifies` say once which steps touch
what.

**Catalogue.** `NoEmptyPage` follows from `Filled`: while nothing leaves and the
limit stays, the next page's offset is below the number of rows, from one page to
the next by `NextHasRows`, the lemma about the rounded-up division. The type
invariant needs the same lemma, to bound the page.

`NothingMissed`, `NothingRepeated` and `FeaturedFirst` are about prefixes of an
order that changes while it is walked. `Prefix(d, q, now, D)` says that D holds the
first rows of a query; without ties, of two prefixes the smaller lies in the larger
(`PrefixesNest`). The invariant `Walked` ties what the client has seen to them, at
the time `View` of the page in flight and with the `Places` the pages so far have:

- `Covered`, while rows only leave: the rows seen that are still listed lie in a
  prefix no larger than `Places`. The next page starts behind it: none is repeated.
- `Reached`, while rows are only added: of every prefix no larger than `Places`,
  the rows that were there at first have been seen. The last page has all rows as
  its prefix (`LastHasAll`, from `HasNext`): none is missed.
- `Still`: undisturbed, the rows are those there were at first.
- `FirstPage` and `InFlight`: nothing is seen before the first page, and what the
  two statements of a page have in common although the table changed between them.

`OnlyForward`, `Unseen` and `ListedAtBoth` say what each disturbance does to the
order, `PageContinues` what LIMIT and OFFSET take of it, and `MeanwhileStep`,
`CountStep`, `PageStep`, `FailStep` and `SignStep` what each kind of step leaves.
TLC checked `Walked` over the run's instance before the proof.

No run checks the statement of `SelfBookingExcluded` (of both models), of
`DeletionIsFinal` of TimeSlots (its counterpart under overlapping requests is in
`races`), of `OnlyOrphansStopTheDowngrade` and the three theorems about
SlotMigration's upgrades, and of those of
SlotTransactions about the pool, locks and one connection but `OneAtATimeHolds`.

| Module | Theorem | States |
|---|---|---|
| TimeSlots_proofs | `TypeCorrect` | `Spec => []TypeOK` |
| | `BookingsHaveCandidates` | `Spec => []BookedIffCandidate` |
| | `ProposalsStayBookings` | `Spec => []ProposalNeverOpen` |
| | `NoTerminalRow` | `Spec => []TerminalNeverPersists` |
| | `SelfBookingExcluded` | `Spec => []NoSelfBooking` |
| | `CandidatesArePresent` | `Spec => []CandidateExists` |
| | `CandidateIsNeverSwapped` | `Spec => CandidateNeverSwapped` |
| | `PartiesTouchBookings` | `Spec => OnlyPartiesTouchABooking` |
| | `LandlordsConfirm` | `Spec => OnlyLandlordConfirms` |
| | `OwnersMoveWindows` | `Spec => OnlyOwnersMoveAWindow` |
| | `TheOtherPartyIsTold` | `Spec => CounterpartIsTold` |
| | `ReleasesAreClean` | `Spec => ReleasedIsClean` |
| | `DeletionIsFinal` | `Spec => DeletedStaysDeleted` |
| SlotLifecycle_proofs | `ImplementsLifecycle` | `Spec => FollowsLifecycle` |
| SlotTransactions_proofs | `TypeCorrect` | `Spec => []TypeOK` |
| | `KindsAreKept` | `Spec => []RowsKeepTheirKind` |
| | `SelfBookingExcluded` | `Spec => []NoSelfBooking` |
| | `ClaimsAreRaceSafe` | `Spec => ClaimTakesOpenWindow` |
| | `LandlordsConfirm` | `Spec => OnlyLandlordConfirms` |
| | `DeletionIsFinal` | `Spec => DeletedStaysDeleted` |
| | `PoolBoundsTransactions` | `Spec => []Pooled` |
| | `NobodyWaitsInCircles` | `Spec => []HoldersWaitForNobody` |
| | with `PoolSize = 1`: `OneAtATimeHolds` | `Spec => OneAtATime`, if `Seeds = {NoRow}` |
| | `NothingIsStale` | `Spec => []SerialInv` |
| | `RowsAreSound` | `Spec => []SoundTable` |
| | `BookedIffCandidateAlone` | `Spec => []BookedIffCandidate` |
| | `DeleteSparesBookingsAlone` | `Spec => DeleteNeverDestroysABooking` |
| | `ProposalsAreAlone` | `Spec => ProposesFreeStart` |
| SlotMigration_proofs | `DowngradesFit` | `Spec => []DowngradeFits` |
| | `RoundTripHolds` | `Spec => []RoundTripLosesNoBooking` |
| | `OnlyOrphansStopTheDowngrade` | of any table with the rows' kinds kept |
| | `SlotOnlyFits`, `UpgradeIsSound`, `UpgradeKeepsLiveBookings` | of any legacy tables |
| Profiles_proofs | `TypeCorrect` | `Spec => []TypeOK` |
| | `OneProfileEachHolds` | `Spec => []OneProfileEach` |
| | `SurvivorsHaveACause` | `Spec => []OutlivesWithACause` |
| | `RolesHold` | `Spec => RolesComeFromSync` |
| | `LeavingIsAsked` | `Spec => ProfilesLeaveOnRequest` |
| | `AnsweredIsDone` | `Spec => AnswerMeansDone` |
| Listings_proofs | `TypeCorrect` | `Spec => []TypeOK` |
| | `StoreAgreesHolds` | `Spec => []StoreAgrees` |
| | `NothingDanglesHolds` | `Spec => []NothingDangles` |
| | `ImagesStayBounded` | `Spec => []ImagesBounded` |
| | `VerdictsRecorded` | `Spec => VerdictsAreRecorded` |
| | `VerificationAgreesHolds` | `Spec => []VerificationAgrees` |
| Catalogue_proofs | `TypeCorrect` | `Spec => []TypeOK` |
| | `FeaturedSplitsHolds` | `Spec => []FeaturedSplits` |
| | `NoEmptyPageHolds` | `Spec => []NoEmptyPage` |
| | `WalkedHolds` | `Spec => []Walked` |
| | `NothingRepeatedHolds` | `Spec => []NothingRepeated` |
| | `NothingMissedHolds` | `Spec => []NothingMissed` |
| | `FeaturedFirstHolds` | `Spec => []FeaturedFirst` |

Model-checked only: liveness (`EveryRequestEnds`, `DeletionReachesProfile`), which is
out of the prover's reach, as is ENABLED. What safety can say of the two is proved:
`NobodyWaitsInCircles`, and `SurvivorsHaveACause`, that a profile without an account
has its deletion still to come or a named cause to stay.

## 6. Not modelled, and the plan

- The pool's 30-second timeout, reconnection and client disconnects: they end a
  request, which `Lose`, `Stop` and `lost` already do anywhere.
- Verification of tokens and of webhook signatures: libraries. Banned accounts only
  take users out of those who act.
- The other filters of a search: comparisons of a column with a value, as
  `max_price` is. The statistics, cities, contacts and single GETs: they change
  nothing.
- Byte signatures and sizes of uploads: data no property tells apart.
- Rendering and delivery of mails, rate limiting, logging, the shape of errors.
- The migrations that move no row.
- Composition of Listings with SlotTransactions and of Profiles with both: the
  flags of section 2 stand for it. TimeSlots and Listings each have what a profile's
  deletion does there, as one step.

Next: SlotTransactions with the listing's publication and the clock as variables,
and the proofs for it.
