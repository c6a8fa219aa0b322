------------------------------ MODULE Listings ------------------------------
(***************************************************************************)
(* A listing and what hangs on it: images and ownership documents, each a  *)
(* row and an object in the bucket; the verification status with its       *)
(* history; favourites; viewing slots; the profiles these refer to.  The   *)
(* bucket takes no part in the transaction: uploads put the object before  *)
(* the row is inserted, and deletions erase it before the row's deletion   *)
(* commits.                                                                *)
(*                                                                         *)
(* A request reads, calls the bucket, writes and commits; requests         *)
(* interleave between these steps, and may stop at any of them (`Lose`).   *)
(* The write and the commit are one step, as nobody sees the row before,   *)
(* except for a removal: its flush selects what depends on the listing     *)
(* before it deletes it, and the foreign keys cascade.                     *)
(***************************************************************************)
EXTENDS Naturals, FiniteSets, Sequences

CONSTANTS
  Listings, Landlords, Admins,
  Keys,         \* object keys; one is used per upload
  Requests,     \* request identities, each used once
  Pools,        \* sizes of the connection pool to consider
  MaxImages,    \* settings.max_images_per_listing
  Landlord(_),  \* the owner of a listing
  None

Users    == Landlords \cup Admins
Verdicts == {"PENDING", "APPROVED", "REJECTED"}
Kinds    == {"image", "document"}

Row      == [publication : {"DRAFT", "ACTIVE"}, status : Verdicts,
             verified_by : Admins \cup {None}, verified_at : BOOLEAN]
Fresh(p) == [publication |-> p, status |-> "PENDING", verified_by |-> None, verified_at |-> FALSE]
Unborn   == Fresh("unborn")
Removed  == Fresh("removed")
File     == [kind : Kinds, listing : Listings \cup {None}, uploaded_by : Users]
NoFile   == [kind |-> None, listing |-> None, uploaded_by |-> None]
Entry    == [previous : Verdicts, new : Verdicts, reviewed_by : Admins \cup {None}]

ASSUME ListingsAssumption ==
  /\ \A l \in Listings : Landlord(l) \in Landlords
  /\ Pools \subseteq Nat \ {0} /\ MaxImages \in Nat \ {0}
  /\ None \notin Users /\ None \notin Listings
  /\ None \notin Kinds \cup Verdicts
  /\ IsFiniteSet(Keys) /\ IsFiniteSet(Requests)

VARIABLES
  listing,     \* the rows; ids are not used again
  history,     \* verification_history of each listing, oldest first
  file,        \* listing_images and verification_documents, by object key
  favourites,  \* who saved each listing
  slotted,     \* listings some time slot refers to
  present,     \* profiles in the users table
  objects,     \* keys of the objects in the bucket
  req,         \* what each request has done so far
  pool,        \* connections: transactions in flight at once
  strays       \* keys put or erased by a request that rolled back, or whose
               \* row a cascade removed

vars == <<listing, history, file, favourites, slotted, present, objects, req, pool, strays>>

Stages == {"idle", "ready", "erasing", "stored", "erased", "bare", "done"}
Ops    == {"image", "document", "drop", "remove", "review", "favour"}

(* `status`, `verified_by` and `verified_at` are as loaded; `keys` are the *)
(* files the request means to write or delete, `touched` the objects it    *)
(* has put or erased, `orphans` the images a removal leaves behind.        *)
Request == [stage : Stages, op : Ops \cup {None}, by : Users \cup {None},
            listing : Listings \cup {None}, verdict : Verdicts \cup {None},
            status : Verdicts \cup {None}, verified_by : Admins \cup {None},
            verified_at : BOOLEAN, keys : SUBSET Keys, touched : SUBSET Keys,
            orphans : SUBSET Keys]

Idle == [stage |-> "idle", op |-> None, by |-> None, listing |-> None,
         verdict |-> None, status |-> None, verified_by |-> None,
         verified_at |-> FALSE, keys |-> {}, touched |-> {}, orphans |-> {}]

TypeOK ==
  /\ listing \in [Listings -> Row \cup {Unborn, Removed}]
  /\ history \in [Listings -> Seq(Entry)]
  /\ file \in [Keys -> File \cup {NoFile}]
  /\ favourites \in [Listings -> SUBSET Users]
  /\ slotted \subseteq Listings
  /\ present \subseteq Users
  /\ objects \subseteq Keys
  /\ req \in [Requests -> Request]
  /\ pool \in Pools
  /\ strays \subseteq Keys

Init ==
  /\ listing = [l \in Listings |-> Unborn]
  /\ history = [l \in Listings |-> <<>>]
  /\ file = [k \in Keys |-> NoFile]
  /\ favourites = [l \in Listings |-> {}]
  /\ slotted = {}
  /\ present = Users
  /\ objects = {}
  /\ req = [r \in Requests |-> Idle]
  /\ pool \in Pools
  /\ strays = {}

----------------------------------------------------------------------------
(* Requests of one write                                                   *)

Exists(l) == listing[l].publication \in {"DRAFT", "ACTIVE"}
Active(l) == Exists(l) /\ listing[l].publication = "ACTIVE"

(* verify_listing_ownership: an ADMIN passes without a look at the row.    *)
MayManage(u, l) == u \in Admins \/ (Exists(l) /\ Landlord(l) = u)

CreateListing(l, publication) ==
  /\ listing[l] = Unborn /\ Landlord(l) \in present
  /\ listing' = [listing EXCEPT ![l] = Fresh(publication)]
  /\ UNCHANGED <<history, file, favourites, slotted, present, objects, req, pool, strays>>

(* PATCH: the verification is none of its business.                        *)
UpdateListing(u, l, publication) ==
  /\ MayManage(u, l) /\ Exists(l)
  /\ listing' = [listing EXCEPT ![l].publication = publication]
  /\ UNCHANGED <<history, file, favourites, slotted, present, objects, req, pool, strays>>

RemoveFavorite(u, l) ==
  /\ u \in favourites[l]
  /\ favourites' = [favourites EXCEPT ![l] = @ \ {u}]
  /\ UNCHANGED <<listing, history, file, slotted, present, objects, req, pool, strays>>

(* The service of time slots inserts a first row, or deletes the last.     *)
OfferSlots(l) ==
  /\ Exists(l)
  /\ slotted' = IF l \in slotted THEN slotted \ {l} ELSE slotted \cup {l}
  /\ UNCHANGED <<listing, history, file, favourites, present, objects, req, pool, strays>>

(* delete_user.  The ORM clears what refers to the profile, which a        *)
(* listing's owner and a favourite do not let it; the database clears the  *)
(* reviewer of an entry and deletes documents, whose objects stay.         *)
DeleteProfile(u) ==
  LET theirs == {k \in Keys : file[k].kind = "document" /\ file[k].uploaded_by = u}
  IN  /\ u \in present
      /\ \A l \in Listings : u \notin favourites[l] /\ (Exists(l) => Landlord(l) # u)
      /\ present' = present \ {u}
      /\ listing' = [l \in Listings |->
           IF listing[l].verified_by = u THEN [listing[l] EXCEPT !.verified_by = None]
           ELSE listing[l]]
      /\ history' = [l \in Listings |-> [i \in 1..Len(history[l]) |->
           IF history[l][i].reviewed_by = u THEN [history[l][i] EXCEPT !.reviewed_by = None]
           ELSE history[l][i]]]
      /\ file' = [k \in Keys |-> IF k \in theirs THEN NoFile ELSE file[k]]
      /\ strays' = strays \cup theirs
      /\ UNCHANGED <<favourites, slotted, objects, req, pool>>

----------------------------------------------------------------------------
(* First statements: what the request reads and checks                     *)

InFlight   == {r \in Requests : req[r].stage \notin {"idle", "done"}}
Arrives(r) == req[r].stage = "idle" /\ Cardinality(InFlight) < pool

Advance(r, q) == req' = [req EXCEPT ![r] = q]
Reads         == UNCHANGED <<listing, history, file, favourites, slotted, present, objects, pool, strays>>

Starts(r, op, u, l) == [Idle EXCEPT !.stage = "ready", !.op = op, !.by = u, !.listing = l]

ImagesOf(l) == {k \in Keys : file[k].kind = "image" /\ file[k].listing = l}

(* Wrong: the comparison with the limit is off by one.                     *)
CountImagesInclusive(r, u, l) ==
  /\ Arrives(r) /\ MayManage(u, l)
  /\ Cardinality(ImagesOf(l)) <= MaxImages
  /\ Advance(r, Starts(r, "image", u, l))
  /\ Reads

(* upload_listing_image counts the rows; it does not look for the listing. *)
CountImages(r, u, l) ==
  /\ Arrives(r) /\ MayManage(u, l)
  /\ Cardinality(ImagesOf(l)) < MaxImages
  /\ Advance(r, Starts(r, "image", u, l))
  /\ Reads

LoadForDocument(r, u, l) ==
  /\ Arrives(r) /\ MayManage(u, l) /\ Exists(l)
  /\ Advance(r, [Starts(r, "document", u, l) EXCEPT !.status = listing[l].status])
  /\ Reads

(* delete_image and delete_document.                                       *)
LoadFile(r, u, l, k) ==
  /\ Arrives(r) /\ MayManage(u, l)
  /\ file[k] # NoFile /\ file[k].listing = l
  /\ (file[k].kind = "document" /\ Exists(l) /\ listing[l].status = "APPROVED")
       => file[k].uploaded_by = u
  /\ Advance(r, [Starts(r, "drop", u, l) EXCEPT !.keys = {k}])
  /\ Reads

(* delete_listing, then delete_images_by_listing_id.                       *)
LoadListing(r, u, l) ==
  /\ Arrives(r) /\ MayManage(u, l) /\ Exists(l)
  /\ Advance(r, [Starts(r, "remove", u, l) EXCEPT !.stage = "erasing", !.keys = ImagesOf(l)])
  /\ Reads

(* Wrong: whoever manages the listing may review it.                       *)
LoadReviewByOwner(r, u, l, verdict) ==
  /\ Arrives(r) /\ MayManage(u, l) /\ Active(l)
  /\ Advance(r, [Starts(r, "review", u, l) EXCEPT
                   !.verdict = verdict, !.status = listing[l].status,
                   !.verified_by = listing[l].verified_by,
                   !.verified_at = listing[l].verified_at])
  /\ Reads

LoadReview(r, u, l, verdict) ==
  /\ Arrives(r) /\ u \in Admins /\ Active(l)
  /\ Advance(r, [Starts(r, "review", u, l) EXCEPT
                   !.verdict = verdict, !.status = listing[l].status,
                   !.verified_by = listing[l].verified_by,
                   !.verified_at = listing[l].verified_at])
  /\ Reads

LoadFavorite(r, u, l) ==
  /\ Arrives(r) /\ Active(l) /\ u \notin favourites[l]
  /\ Advance(r, Starts(r, "favour", u, l))
  /\ Reads

----------------------------------------------------------------------------
(* Calls of the bucket                                                     *)

Unused(k) == file[k] = NoFile /\ \A r \in Requests : k \notin req[r].touched

Bucket == UNCHANGED <<listing, history, file, favourites, slotted, present, pool, strays>>

(* The key holds the time in milliseconds: no upload has used it.          *)
Put(r, k) ==
  LET q == req[r]
  IN  /\ q.stage = "ready" /\ q.op \in Kinds
      /\ Unused(k)
      /\ objects' = objects \cup {k}
      /\ Advance(r, [q EXCEPT !.stage = "stored", !.keys = {k}, !.touched = {k}])
      /\ Bucket

Erase(r, k, stage) ==
  /\ k \in req[r].keys \ req[r].touched
  /\ objects' = objects \ {k}
  /\ Advance(r, [req[r] EXCEPT !.stage = stage, !.touched = @ \cup {k}])
  /\ Bucket

EraseFile(r, k)  == req[r].stage = "ready" /\ req[r].op = "drop" /\ Erase(r, k, "erased")
EraseImage(r, k) == req[r].stage = "erasing" /\ Erase(r, k, "erasing")

(* Wrong: the rows go although an erasure raised.                          *)
ErasedAllAnyway(r) ==
  /\ req[r].stage = "erasing"
  /\ Advance(r, [req[r] EXCEPT !.stage = "ready"])
  /\ Reads

(* Every object is erased; or an erasure raised, is logged, and no image   *)
(* row is deleted.                                                         *)
ErasedAll(r) ==
  LET q == req[r]
  IN  /\ q.stage = "erasing"
      /\ \/ q.keys = q.touched /\ Advance(r, [q EXCEPT !.stage = "ready"])
         \/ q.keys # q.touched /\ Advance(r, [q EXCEPT !.stage = "ready", !.keys = {}])
      /\ Reads

----------------------------------------------------------------------------
(* The write and the commit, or the end without one                        *)

Done(r) == Advance(r, [req[r] EXCEPT !.stage = "done"])

RollBack(r) ==
  /\ Done(r)
  /\ strays' = strays \cup req[r].touched
  /\ UNCHANGED <<listing, history, file, favourites, slotted, present, objects, pool>>

(* A call of the bucket, a statement or the commit raises, the process     *)
(* stops.                                                                  *)
Lose(r) == r \in InFlight /\ RollBack(r)

Record(l, previous, new, u) ==
  history' = [history EXCEPT ![l] =
    Append(@, [previous |-> previous, new |-> new, reviewed_by |-> u])]

(* Wrong: a document resubmits the listing without an entry.               *)
UploadUnrecorded(r) ==
  LET q == req[r]
  IN  /\ q.stage = "stored" /\ Exists(q.listing)
      /\ file' = [k \in Keys |-> IF k \notin q.keys THEN file[k] ELSE
                     [kind |-> q.op, listing |-> q.listing, uploaded_by |-> q.by]]
      /\ listing' = [listing EXCEPT ![q.listing].status =
                        IF q.status = "REJECTED" THEN "PENDING" ELSE @]
      /\ Done(r)
      /\ UNCHANGED <<history, favourites, slotted, present, objects, pool, strays>>

(* The foreign keys refuse the row of a listing that is gone, and the      *)
(* document of an uploader who is.  A document of a listing loaded         *)
(* REJECTED resubmits it.                                                  *)
Upload(r) ==
  LET q == req[r]
  IN  /\ q.stage = "stored"
      /\ IF ~Exists(q.listing) \/ (q.op = "document" /\ q.by \notin present) THEN RollBack(r)
         ELSE /\ file' = [k \in Keys |-> IF k \notin q.keys THEN file[k] ELSE
                            [kind |-> q.op, listing |-> q.listing, uploaded_by |-> q.by]]
              /\ IF q.status = "REJECTED"
                 THEN /\ Record(q.listing, "REJECTED", "PENDING", None)
                      /\ listing' = [listing EXCEPT ![q.listing].status = "PENDING"]
                 ELSE UNCHANGED <<listing, history>>
              /\ Done(r)
              /\ UNCHANGED <<favourites, slotted, present, objects, pool, strays>>

Drop(r) ==
  /\ req[r].stage = "erased"
  /\ file' = [k \in Keys |-> IF k \in req[r].keys THEN NoFile ELSE file[k]]
  /\ Done(r)
  /\ UNCHANGED <<listing, history, favourites, slotted, present, objects, pool, strays>>

(* What refers to a listing through a column that may not be NULL.         *)
Bare(l) ==
  /\ l \notin slotted /\ favourites[l] = {} /\ history[l] = <<>>
  /\ \A k \in Keys : file[k].listing = l => file[k].kind = "image"

(* The flush at the commit, after the 204: any dependant but an image      *)
(* makes it fail, as its key would be cleared.                             *)
SelectDependants(r) ==
  LET q == req[r]
  IN  /\ q.stage = "ready" /\ q.op = "remove"
      /\ \/ ~Bare(q.listing) /\ RollBack(r)
         \/ /\ Bare(q.listing)
            /\ Advance(r, [q EXCEPT !.stage = "bare", !.orphans = ImagesOf(q.listing) \ q.keys])
            /\ Reads

(* Images it did not delete lose their listing; one deleted since is a     *)
(* StaleDataError.  The database removes with the listing what was         *)
(* inserted since.                                                         *)
Remove(r) ==
  LET q     == req[r]
      l     == q.listing
      taken == {k \in Keys \ (q.orphans \cup q.keys) : file[k].listing = l}
  IN  /\ q.stage = "bare"
      /\ IF \E k \in q.orphans : file[k] = NoFile THEN RollBack(r)
         ELSE /\ listing' = [listing EXCEPT ![l] = Removed]
              /\ file' = [k \in Keys |->
                   IF k \in q.keys \cup taken THEN NoFile
                   ELSE IF k \in q.orphans THEN [file[k] EXCEPT !.listing = None]
                   ELSE file[k]]
              /\ favourites' = [favourites EXCEPT ![l] = {}]
              /\ history' = [history EXCEPT ![l] = <<>>]
              /\ slotted' = slotted \ {l}
              /\ strays' = strays \cup taken
              /\ Done(r)
              /\ UNCHANGED <<present, objects, pool>>

(* Wrong: the reviewer of an earlier approval stays.                       *)
ReviewedKeeping(q, row) ==
  LET approved == q.verdict = "APPROVED"
  IN  [row EXCEPT
         !.status      = IF q.verdict # q.status THEN q.verdict ELSE @,
         !.verified_at = approved,
         !.verified_by = IF approved THEN q.by ELSE @]

(* The ORM's UPDATE: the columns that differ from the row as loaded.       *)
Reviewed(q, row) ==
  LET approved == q.verdict = "APPROVED"
      reviewer == IF approved THEN q.by ELSE None
  IN  [row EXCEPT
         !.status      = IF q.verdict # q.status THEN q.verdict ELSE @,
         !.verified_at = IF approved THEN TRUE ELSE IF q.verified_at THEN FALSE ELSE @,
         !.verified_by = IF reviewer # q.verified_by THEN reviewer ELSE @]

(* The entry's foreign keys refuse a listing or a reviewer that is gone.   *)
Review(r) ==
  LET q == req[r]
  IN  /\ q.stage = "ready" /\ q.op = "review"
      /\ IF ~Exists(q.listing) \/ q.by \notin present THEN RollBack(r)
         ELSE /\ listing' = [listing EXCEPT ![q.listing] = Reviewed(q, @)]
              /\ Record(q.listing, q.status, q.verdict, q.by)
              /\ Done(r)
              /\ UNCHANGED <<file, favourites, slotted, present, objects, pool, strays>>

(* Wrong: no foreign key.                                                  *)
AddFavoriteUnlinked(r) ==
  LET q == req[r]
  IN  /\ q.stage = "ready" /\ q.op = "favour"
      /\ favourites' = [favourites EXCEPT ![q.listing] = @ \cup {q.by}]
      /\ Done(r)
      /\ UNCHANGED <<listing, history, file, slotted, present, objects, pool, strays>>

(* The primary key refuses a second row, the foreign keys a listing or a   *)
(* profile that is gone.                                                   *)
AddFavorite(r) ==
  LET q == req[r]
  IN  /\ q.stage = "ready" /\ q.op = "favour"
      /\ IF ~Exists(q.listing) \/ q.by \notin present \ favourites[q.listing] THEN RollBack(r)
         ELSE /\ favourites' = [favourites EXCEPT ![q.listing] = @ \cup {q.by}]
              /\ Done(r)
              /\ UNCHANGED <<listing, history, file, slotted, present, objects, pool, strays>>

----------------------------------------------------------------------------
Starting(r, u, l) ==
  \/ CountImages(r, u, l) \/ LoadForDocument(r, u, l)
  \/ \E k \in Keys : LoadFile(r, u, l, k)
  \/ LoadListing(r, u, l)
  \/ \E verdict \in Verdicts : LoadReview(r, u, l, verdict)
  \/ LoadFavorite(r, u, l)

Continuing(r) ==
  \/ \E k \in Keys : Put(r, k) \/ EraseFile(r, k) \/ EraseImage(r, k)
  \/ ErasedAll(r) \/ Upload(r) \/ Drop(r) \/ SelectDependants(r) \/ Remove(r)
  \/ Review(r) \/ AddFavorite(r) \/ Lose(r)

(* Only a profile in the table passes the authentication.                  *)
Next ==
  \/ \E u \in present : DeleteProfile(u)
  \/ \E l \in Listings :
       \/ OfferSlots(l)
       \/ \E p \in {"DRAFT", "ACTIVE"} :
            CreateListing(l, p) \/ \E u \in present : UpdateListing(u, l, p)
       \/ \E u \in present :
            RemoveFavorite(u, l) \/ \E r \in Requests : Starting(r, u, l)
  \/ \E r \in Requests : Continuing(r)

Spec == Init /\ [][Next]_vars

----------------------------------------------------------------------------
(* Uploads that count at the same time pass the limit together, but never  *)
(* by more than the other connections of the pool.                         *)
Uploading(l)  == {r \in InFlight : req[r].op = "image" /\ req[r].listing = l}

ImagesBounded ==
  \A l \in Listings :
    Cardinality(ImagesOf(l)) + Cardinality(Uploading(l)) < MaxImages + pool

(* Apart from what a rollback or the cascade leaves behind, an image or    *)
(* document on a listing has its object, and an object its row, unless a   *)
(* request is between the two.                                             *)
StoreAgrees ==
  \A k \in Keys \ strays :
    \/ \E r \in InFlight : k \in req[r].touched
    \/ /\ file[k].listing # None => k \in objects
       /\ k \in objects => file[k] # NoFile

(* Nothing refers to a listing that is gone, whatever was being inserted   *)
(* while it was removed, nor to a profile that is gone, whatever its owner *)
(* was doing when it was deleted.                                          *)
NothingDangles ==
  /\ \A l \in Listings :
       ~Exists(l) => /\ l \notin slotted /\ favourites[l] = {} /\ history[l] = <<>>
                     /\ \A k \in Keys : file[k].listing # l
  /\ \A l \in Listings :
       /\ Exists(l) => Landlord(l) \in present
       /\ favourites[l] \subseteq present
       /\ listing[l].verified_by \in present \cup {None}
       /\ \A i \in 1..Len(history[l]) : history[l][i].reviewed_by \in present \cup {None}
  /\ \A k \in Keys : file[k].kind = "document" => file[k].uploaded_by \in present

(* Served one at a time, requests keep the status what the last entry of   *)
(* the history says, each entry following the one before.  The date is     *)
(* there exactly while the listing is approved, and the reviewer is then   *)
(* the one of the last entry: nobody, of both, once his profile is deleted.*)
VerificationAgrees ==
  pool = 1 =>
    \A l \in Listings : Exists(l) =>
      LET h   == history[l]
          row == listing[l]
      IN  /\ row.status = IF h = <<>> THEN "PENDING" ELSE h[Len(h)].new
          /\ \A i \in 1..Len(h) : h[i].previous = IF i = 1 THEN "PENDING" ELSE h[i - 1].new
          /\ row.verified_at <=> row.status = "APPROVED"
          /\ IF row.status = "APPROVED" THEN row.verified_by = h[Len(h)].reviewed_by
             ELSE row.verified_by = None
          /\ row.status = "APPROVED" /\ row.verified_by = None => ~(Admins \subseteq present)

(* However requests overlap, the status changes only together with a new   *)
(* entry that says so.  Entries are never lost or rewritten, but for the   *)
(* name of a reviewer whose profile is deleted.                            *)
VerdictsAreRecorded ==
  [][\A l \in Listings : Exists(l) /\ listing'[l] # Removed =>
       LET h == history[l]
           g == history'[l]
       IN  /\ \A i \in 1..Len(h) :
                \/ g[i] = h[i]
                \/ h[i].reviewed_by \notin present' /\ g[i] = [h[i] EXCEPT !.reviewed_by = None]
           /\ \/ Len(g) = Len(h) /\ listing'[l].status = listing[l].status
              \/ /\ Len(g) = Len(h) + 1
                 /\ listing'[l].status \in {listing[l].status, g[Len(g)].new}]_vars
=============================================================================
