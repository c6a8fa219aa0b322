-------------------------- MODULE Listings_proofs --------------------------
(***************************************************************************)
(* Theorems about Listings for any listings, people, keys, requests and    *)
(* bounds.  Each invariant stands on the ones before it: what a request    *)
(* holds at each stage, then who may touch an object, then the rest.       *)
(***************************************************************************)
EXTENDS Listings, TLAPS, FiniteSetTheorems

(* What a request holds at each stage of its operation. *)
Sound(q) ==
  /\ q.stage = "idle" => q.keys = {} /\ q.touched = {}
  /\ q.stage \notin {"idle", "done"} => q.op \in Ops /\ q.by \in Users /\ q.listing \in Listings
  /\ q.stage = "ready" =>
       IF q.op = "remove" THEN q.keys \subseteq q.touched
       ELSE q.touched = {} /\ IF q.op = "drop" THEN \E k \in Keys : q.keys = {k} ELSE q.keys = {}
  /\ q.stage = "stored" => q.op \in Kinds /\ q.keys = q.touched /\ \E k \in Keys : q.keys = {k}
  /\ q.stage = "erasing" => q.op = "remove"
  /\ q.stage = "erased" => q.op = "drop" /\ q.keys = q.touched
  /\ q.stage = "bare" => q.op = "remove" /\ q.keys \subseteq q.touched
  /\ q.stage \notin {"idle", "done"} =>
       /\ q.op = "review" => q.by \in Admins /\ q.verdict \in Verdicts /\ q.status \in Verdicts
       /\ q.op = "document" => q.status \in Verdicts
       /\ q.op = "image" => q.status = None

RequestsSound == \A r \in Requests : Sound(req[r])

----------------------------------------------------------------------------
(* Types, and what requests hold *)

(* One request goes on, soundly. *)
LEMMA AdvanceSound ==
  ASSUME TypeOK, RequestsSound, NEW r \in Requests, NEW q \in Request, Sound(q), Advance(r, q)
  PROVE  req' \in [Requests -> Request] /\ RequestsSound'
<1>1. req' = [req EXCEPT ![r] = q] /\ req \in [Requests -> Request]
  BY DEF Advance, TypeOK
<1>2. \A s \in Requests : req'[s] = IF s = r THEN q ELSE req[s]
  BY <1>1
<1>3. QED
  BY <1>1, <1>2 DEF RequestsSound

(* Done holds nothing against anyone. *)
LEMMA DoneSound ==
  ASSUME TypeOK, RequestsSound, NEW r \in Requests, Done(r)
  PROVE  req' \in [Requests -> Request] /\ RequestsSound'
<1> DEFINE q == [req[r] EXCEPT !.stage = "done"]
<1>1. q \in Request /\ q.stage = "done"
  <2>1. req[r] \in Request /\ "done" \in Stages
    BY DEF TypeOK, Stages
  <2>2. QED
    BY <2>1 DEF Request
<1>2. Advance(r, q)
  BY DEF Done
<1> HIDE DEF q
<1>3. Sound(q)
  BY <1>1 DEF Sound
<1>4. QED
  BY <1>1, <1>2, <1>3, AdvanceSound

(* A request as its first statements leave it. *)
LEMMA StartsHolds ==
  ASSUME NEW r \in Requests, NEW op \in Ops, NEW u \in Users, NEW l \in Listings,
         NEW q, q = Starts(r, op, u, l)
  PROVE  /\ q \in Request /\ q.stage = "ready" /\ q.op = op /\ q.by = u /\ q.listing = l
         /\ q.keys = {} /\ q.touched = {} /\ q.status = None
<1>1. Idle \in Request /\ Idle.keys = {} /\ Idle.touched = {} /\ Idle.status = None
  <2>1. {} \in SUBSET Keys
    OBVIOUS
  <2>2. QED
    BY <2>1 DEF Idle, Request, Stages
<1>2. [Idle EXCEPT !.stage = "ready", !.op = op, !.by = u, !.listing = l] \in Request
  <2>1. "ready" \in Stages /\ op \in Ops \cup {None} /\ u \in Users \cup {None}
        /\ l \in Listings \cup {None}
    BY DEF Stages
  <2>2. QED
    BY <1>1, <2>1 DEF Request
<1>3. QED
  BY <1>1, <1>2 DEF Starts, Request

(* A listing that exists is a row. *)
LEMMA ExistingIsRow ==
  ASSUME TypeOK, NEW l \in Listings, Exists(l)
  PROVE  listing[l] \in Row
<1>1. Unborn.publication = "unborn" /\ Removed.publication = "removed"
  BY DEF Unborn, Removed, Fresh
<1>2. listing[l] \in Row \cup {Unborn, Removed}
  BY DEF TypeOK
<1>3. QED
  BY <1>1, <1>2 DEF Exists

(* Six first statements, each with the check its operation makes. *)
LEMMA StartingHolds ==
  ASSUME TypeOK, NEW r \in Requests, NEW u \in Users, NEW l \in Listings, Starting(r, u, l)
  PROVE  \E q \in Request :
           /\ Arrives(r) /\ Advance(r, q) /\ Reads
           /\ q.stage \in {"ready", "erasing"} /\ q.listing = l /\ q.touched = {}
           /\ \A k \in q.keys : file[k] # NoFile /\ file[k].listing = l
           /\ q.op = "image" => Cardinality(ImagesOf(l)) < MaxImages
           /\ q.op = "document" => Exists(l) /\ q.status = listing[l].status
           /\ q.op = "review" => /\ Exists(l) /\ q.status = listing[l].status
                                 /\ q.verified_by = listing[l].verified_by
                                 /\ q.verified_at = listing[l].verified_at
           /\ Sound(q)
<1> DEFINE Good(q) ==
      /\ Arrives(r) /\ Advance(r, q) /\ Reads
      /\ q.stage \in {"ready", "erasing"} /\ q.listing = l /\ q.touched = {}
      /\ \A k \in q.keys : file[k] # NoFile /\ file[k].listing = l
      /\ q.op = "image" => Cardinality(ImagesOf(l)) < MaxImages
      /\ q.op = "document" => Exists(l) /\ q.status = listing[l].status
      /\ q.op = "review" => /\ Exists(l) /\ q.status = listing[l].status
                            /\ q.verified_by = listing[l].verified_by
                            /\ q.verified_at = listing[l].verified_at
      /\ Sound(q)
<1>1. ASSUME NEW op \in Ops, NEW q, q = Starts(r, op, u, l)
      PROVE  /\ q \in Request /\ q.stage = "ready" /\ q.op = op /\ q.by = u /\ q.listing = l
             /\ q.keys = {} /\ q.touched = {} /\ q.status = None
  BY <1>1, StartsHolds
<1>2. Exists(l) => listing[l] \in Row
  BY ExistingIsRow
<1>3. CASE CountImages(r, u, l)
  <2> DEFINE q == Starts(r, "image", u, l)
  <2>1. /\ q \in Request /\ q.stage = "ready" /\ q.op = "image" /\ q.by = u /\ q.listing = l
        /\ q.keys = {} /\ q.touched = {} /\ q.status = None
    BY <1>1 DEF Ops
  <2>2. Arrives(r) /\ Advance(r, q) /\ Reads /\ Cardinality(ImagesOf(l)) < MaxImages
    BY <1>3 DEF CountImages
  <2> HIDE DEF q
  <2>3. Sound(q)
    BY <2>1 DEF Sound, Ops
  <2>4. Good(q)
    BY <2>1, <2>2, <2>3
  <2>5. QED
    BY <2>1, <2>4
<1>4. CASE LoadForDocument(r, u, l)
  <2> DEFINE p == Starts(r, "document", u, l)
             q == [p EXCEPT !.status = listing[l].status]
  <2>1. /\ p \in Request /\ p.stage = "ready" /\ p.op = "document" /\ p.by = u /\ p.listing = l
        /\ p.keys = {} /\ p.touched = {}
    BY <1>1 DEF Ops
  <2>2. Arrives(r) /\ Advance(r, q) /\ Reads /\ Exists(l)
    BY <1>4 DEF LoadForDocument
  <2> HIDE DEF p
  <2>3. listing[l].status \in Verdicts
    BY <1>2, <2>2 DEF Row
  <2>4. /\ q \in Request /\ q.stage = "ready" /\ q.op = "document" /\ q.by = u /\ q.listing = l
        /\ q.keys = {} /\ q.touched = {} /\ q.status = listing[l].status
    BY <2>1, <2>3 DEF Request
  <2> HIDE DEF q
  <2>5. Sound(q)
    BY <2>3, <2>4 DEF Sound, Ops
  <2>6. Good(q)
    BY <2>2, <2>4, <2>5
  <2>7. QED
    BY <2>4, <2>6
<1>5. ASSUME NEW k \in Keys, LoadFile(r, u, l, k)
      PROVE  \E q \in Request : Good(q)
  <2> DEFINE p == Starts(r, "drop", u, l)
             q == [p EXCEPT !.keys = {k}]
  <2>1. /\ p \in Request /\ p.stage = "ready" /\ p.op = "drop" /\ p.by = u /\ p.listing = l
        /\ p.touched = {}
    BY <1>1 DEF Ops
  <2>2. Arrives(r) /\ Advance(r, q) /\ Reads /\ file[k] # NoFile /\ file[k].listing = l
    BY <1>5 DEF LoadFile
  <2> HIDE DEF p
  <2>3. /\ q \in Request /\ q.stage = "ready" /\ q.op = "drop" /\ q.by = u /\ q.listing = l
        /\ q.keys = {k} /\ q.touched = {}
    BY <2>1 DEF Request
  <2> HIDE DEF q
  <2>4. Sound(q)
    BY <2>3 DEF Sound, Ops
  <2>5. Good(q)
    BY <2>2, <2>3, <2>4
  <2>6. QED
    BY <2>3, <2>5
<1>6. CASE LoadListing(r, u, l)
  <2> DEFINE p == Starts(r, "remove", u, l)
             q == [p EXCEPT !.stage = "erasing", !.keys = ImagesOf(l)]
  <2>1. /\ p \in Request /\ p.op = "remove" /\ p.by = u /\ p.listing = l /\ p.touched = {}
    BY <1>1 DEF Ops
  <2>2. Arrives(r) /\ Advance(r, q) /\ Reads
    BY <1>6 DEF LoadListing
  <2> HIDE DEF p
  <2>3. ImagesOf(l) \in SUBSET Keys /\ "erasing" \in Stages
    BY DEF ImagesOf, Stages
  <2>4. /\ q \in Request /\ q.stage = "erasing" /\ q.op = "remove" /\ q.by = u /\ q.listing = l
        /\ q.keys = ImagesOf(l) /\ q.touched = {}
    BY <2>1, <2>3 DEF Request
  <2> HIDE DEF q
  <2>5. Sound(q)
    BY <2>4 DEF Sound, Ops
  <2>6. \A k \in ImagesOf(l) : file[k] # NoFile /\ file[k].listing = l
    BY ListingsAssumption DEF ImagesOf, NoFile
  <2>7. Good(q)
    BY <2>2, <2>4, <2>5, <2>6
  <2>8. QED
    BY <2>4, <2>7
<1>7. ASSUME NEW verdict \in Verdicts, LoadReview(r, u, l, verdict)
      PROVE  \E q \in Request : Good(q)
  <2> DEFINE p == Starts(r, "review", u, l)
             q == [p EXCEPT !.verdict = verdict, !.status = listing[l].status,
                            !.verified_by = listing[l].verified_by,
                            !.verified_at = listing[l].verified_at]
  <2>1. /\ p \in Request /\ p.stage = "ready" /\ p.op = "review" /\ p.by = u /\ p.listing = l
        /\ p.keys = {} /\ p.touched = {}
    BY <1>1 DEF Ops
  <2>2. Arrives(r) /\ Advance(r, q) /\ Reads /\ u \in Admins /\ Exists(l)
    BY <1>7 DEF LoadReview, Active
  <2> HIDE DEF p
  <2>3. /\ listing[l].status \in Verdicts /\ listing[l].verified_by \in Admins \cup {None}
        /\ listing[l].verified_at \in BOOLEAN
    BY <1>2, <2>2 DEF Row
  <2>4. q \in Request
    <3>1. ASSUME NEW status \in Verdicts, NEW by \in Admins \cup {None}, NEW at \in BOOLEAN
          PROVE  [p EXCEPT !.verdict = verdict, !.status = status, !.verified_by = by,
                           !.verified_at = at] \in Request
      BY <2>1 DEF Request
    <3>2. QED
      BY <2>3, <3>1
  <2>5. /\ q.stage = "ready" /\ q.op = "review" /\ q.by = u /\ q.listing = l
        /\ q.keys = {} /\ q.touched = {} /\ q.status = listing[l].status
        /\ q.verified_by = listing[l].verified_by /\ q.verdict = verdict
    BY <2>1 DEF Request
  <2>6. q.verified_at = listing[l].verified_at
    BY <2>1 DEF Request
  <2> HIDE DEF q
  <2>7. Sound(q)
    BY <2>2, <2>3, <2>5 DEF Sound, Ops
  <2>8. Good(q)
    BY <2>2, <2>5, <2>6, <2>7
  <2>9. QED
    BY <2>4, <2>8
<1>8. CASE LoadFavorite(r, u, l)
  <2> DEFINE q == Starts(r, "favour", u, l)
  <2>1. /\ q \in Request /\ q.stage = "ready" /\ q.op = "favour" /\ q.by = u /\ q.listing = l
        /\ q.keys = {} /\ q.touched = {}
    BY <1>1 DEF Ops
  <2>2. Arrives(r) /\ Advance(r, q) /\ Reads
    BY <1>8 DEF LoadFavorite
  <2> HIDE DEF q
  <2>3. Sound(q)
    BY <2>1 DEF Sound, Ops
  <2>4. Good(q)
    BY <2>1, <2>2, <2>3
  <2>5. QED
    BY <2>1, <2>4
<1>9. QED
  BY <1>3, <1>4, <1>5, <1>6, <1>7, <1>8 DEF Starting

(* Types through a request's first statements, or calls of the bucket. *)
LEMMA ReadsTypes ==
  ASSUME TypeOK, RequestsSound, NEW r \in Requests, NEW q \in Request, Sound(q), Advance(r, q),
         UNCHANGED <<listing, history, file, favourites, slotted, present, pool, strays>>,
         objects' \subseteq Keys
  PROVE  TypeOK' /\ RequestsSound'
  BY AdvanceSound DEF TypeOK

LEMMA BucketTypes ==
  ASSUME TypeOK, RequestsSound, NEW r \in Requests, NEW k \in Keys,
         Put(r, k) \/ EraseFile(r, k) \/ EraseImage(r, k)
  PROVE  TypeOK' /\ RequestsSound'
<1>1. req[r] \in Request /\ Sound(req[r]) /\ objects \subseteq Keys
  BY DEF TypeOK, RequestsSound
<1>2. CASE Put(r, k)
  <2> DEFINE q == [req[r] EXCEPT !.stage = "stored", !.keys = {k}, !.touched = {k}]
  <2>1. /\ req[r].stage = "ready" /\ req[r].op \in Kinds /\ Advance(r, q)
        /\ objects' = objects \cup {k} /\ Bucket
    BY <1>2 DEF Put
  <2>2. {k} \in SUBSET Keys /\ "stored" \in Stages
    BY DEF Stages
  <2>3. q \in Request
    BY <1>1, <2>2 DEF Request
  <2>4. /\ q.stage = "stored" /\ q.keys = {k} /\ q.touched = {k} /\ q.op = req[r].op
        /\ q.by = req[r].by /\ q.listing = req[r].listing /\ q.status = req[r].status
    BY <1>1 DEF Request
  <2> HIDE DEF q
  <2>5. Sound(q)
    BY <1>1, <2>1, <2>4 DEF Sound, Kinds
  <2>6. QED
    BY <1>1, <2>1, <2>3, <2>5, ReadsTypes DEF Bucket
<1>3. ASSUME NEW stage \in {"erased", "erasing"},
             stage = "erased" => req[r].stage = "ready" /\ req[r].op = "drop",
             stage = "erasing" => req[r].stage = "erasing", Erase(r, k, stage)
      PROVE  TypeOK' /\ RequestsSound'
  <2> DEFINE q == [req[r] EXCEPT !.stage = stage, !.touched = @ \cup {k}]
  <2>1. k \in req[r].keys /\ Advance(r, q) /\ objects' = objects \ {k} /\ Bucket
    BY <1>3 DEF Erase
  <2>2. q \in Request /\ q.stage = stage /\ q.touched = req[r].touched \cup {k}
        /\ q.keys = req[r].keys /\ q.op = req[r].op /\ q.by = req[r].by
        /\ q.listing = req[r].listing
    <3>1. req[r].touched \cup {k} \in SUBSET Keys /\ stage \in Stages
      BY <1>1 DEF Request, Stages
    <3>2. QED
      BY <1>1, <3>1 DEF Request
  <2> HIDE DEF q
  <2>3. req[r].op \in {"drop", "remove"} /\ req[r].by \in Users /\ req[r].listing \in Listings
    BY <1>1, <1>3 DEF Sound
  <2>4. stage = "erased" => q.op = "drop" /\ q.keys = q.touched
    BY <1>1, <1>3, <2>1, <2>2 DEF Sound
  <2>5. stage = "erasing" => q.op = "remove"
    BY <1>1, <1>3, <2>2 DEF Sound
  <2>6. Sound(q)
    BY <2>2, <2>3, <2>4, <2>5 DEF Sound, Ops
  <2>7. QED
    BY <1>1, <2>1, <2>2, <2>6, ReadsTypes DEF Bucket
<1>4. QED
  BY <1>2, <1>3 DEF EraseFile, EraseImage

LEMMA ErasedAllTypes ==
  ASSUME TypeOK, RequestsSound, NEW r \in Requests, ErasedAll(r)
  PROVE  TypeOK' /\ RequestsSound'
<1>1. req[r] \in Request /\ Sound(req[r]) /\ req[r].stage = "erasing"
  BY DEF TypeOK, RequestsSound, ErasedAll
<1>2. PICK q \in Request :
        /\ Advance(r, q) /\ q.stage = "ready" /\ q.op = req[r].op /\ q.by = req[r].by
        /\ q.listing = req[r].listing /\ q.keys \subseteq q.touched
  <2>1. CASE req[r].keys = req[r].touched
    <3>1. [req[r] EXCEPT !.stage = "ready"] \in Request
      BY <1>1 DEF Request, Stages
    <3>2. QED
      BY <1>1, <2>1, <3>1 DEF ErasedAll, Request
  <2>2. CASE req[r].keys # req[r].touched
    <3>1. {} \in SUBSET Keys /\ "ready" \in Stages
      BY DEF Stages
    <3>2. [req[r] EXCEPT !.stage = "ready", !.keys = {}] \in Request
      BY <1>1, <3>1 DEF Request
    <3>3. QED
      BY <1>1, <2>2, <3>2 DEF ErasedAll, Request
  <2>3. QED
    BY <2>1, <2>2
<1>3. Sound(q)
  BY <1>1, <1>2 DEF Sound
<1>4. QED
  BY <1>2, <1>3, ReadsTypes DEF ErasedAll, Reads, TypeOK

LEMMA SelectDependantsTypes ==
  ASSUME TypeOK, RequestsSound, NEW r \in Requests, SelectDependants(r), ~RollBack(r)
  PROVE  TypeOK' /\ RequestsSound'
<1> DEFINE q == [req[r] EXCEPT !.stage = "bare",
                               !.orphans = ImagesOf(req[r].listing) \ req[r].keys]
<1>1. req[r] \in Request /\ Sound(req[r]) /\ req[r].stage = "ready" /\ req[r].op = "remove"
  BY DEF TypeOK, RequestsSound, SelectDependants
<1>2. Advance(r, q) /\ Reads
  BY DEF SelectDependants
<1>3. ImagesOf(req[r].listing) \ req[r].keys \in SUBSET Keys /\ "bare" \in Stages
  BY DEF ImagesOf, Stages
<1>4. /\ q \in Request /\ q.stage = "bare" /\ q.op = req[r].op /\ q.by = req[r].by
      /\ q.listing = req[r].listing /\ q.keys = req[r].keys /\ q.touched = req[r].touched
  BY <1>1, <1>3 DEF Request
<1> HIDE DEF q
<1>5. Sound(q)
  BY <1>1, <1>4 DEF Sound
<1>6. QED
  BY <1>2, <1>4, <1>5, ReadsTypes DEF Reads, TypeOK

LEMMA RollBackTypes ==
  ASSUME TypeOK, RequestsSound, NEW r \in Requests, RollBack(r)
  PROVE  TypeOK' /\ RequestsSound'
<1>1. req[r].touched \subseteq Keys
  BY DEF TypeOK, Request
<1>2. req' \in [Requests -> Request] /\ RequestsSound'
  BY DoneSound DEF RollBack
<1>3. QED
  BY <1>1, <1>2 DEF RollBack, TypeOK

LEMMA UploadTypes ==
  ASSUME TypeOK, RequestsSound, NEW r \in Requests, Upload(r), ~RollBack(r)
  PROVE  TypeOK' /\ RequestsSound'
<1> DEFINE q == req[r]
<1>1. q \in Request /\ Sound(q) /\ q.stage = "stored" /\ Exists(q.listing)
  BY DEF TypeOK, RequestsSound, Upload
<1>2. q.op \in Kinds /\ q.by \in Users /\ q.listing \in Listings
  BY <1>1 DEF Sound
<1>3. /\ file' = [k \in Keys |-> IF k \notin q.keys THEN file[k] ELSE
                    [kind |-> q.op, listing |-> q.listing, uploaded_by |-> q.by]]
      /\ IF q.status = "REJECTED"
         THEN /\ Record(q.listing, "REJECTED", "PENDING", None)
              /\ listing' = [listing EXCEPT ![q.listing].status = "PENDING"]
         ELSE UNCHANGED <<listing, history>>
      /\ Done(r)
      /\ UNCHANGED <<favourites, slotted, present, objects, pool, strays>>
  BY <1>1 DEF Upload
<1>4. req' \in [Requests -> Request] /\ RequestsSound'
  BY <1>3, DoneSound
<1>5. listing[q.listing] \in Row
  BY <1>1, <1>2, ExistingIsRow
<1> HIDE DEF q
<1>6. file' \in [Keys -> File \cup {NoFile}]
  <2>1. [kind |-> q.op, listing |-> q.listing, uploaded_by |-> q.by] \in File
    BY <1>2 DEF File
  <2>2. QED
    BY <1>3, <2>1 DEF TypeOK
<1>7. listing' \in [Listings -> Row \cup {Unborn, Removed}] /\ history' \in [Listings -> Seq(Entry)]
  <2>1. CASE q.status = "REJECTED"
    <3>1. [listing[q.listing] EXCEPT !.status = "PENDING"] \in Row
      BY <1>5 DEF Row, Verdicts
    <3>2. [previous |-> "REJECTED", new |-> "PENDING", reviewed_by |-> None] \in Entry
      BY DEF Entry, Verdicts
    <3>3. Append(history[q.listing],
                 [previous |-> "REJECTED", new |-> "PENDING", reviewed_by |-> None]) \in Seq(Entry)
      BY <1>2, <3>2 DEF TypeOK
    <3>4. QED
      BY <1>3, <2>1, <3>1, <3>3 DEF TypeOK, Record
  <2>2. CASE q.status # "REJECTED"
    BY <1>3, <2>2 DEF TypeOK
  <2>3. QED
    BY <2>1, <2>2
<1>8. QED
  BY <1>3, <1>4, <1>6, <1>7 DEF TypeOK

LEMMA DropTypes ==
  ASSUME TypeOK, RequestsSound, NEW r \in Requests, Drop(r)
  PROVE  TypeOK' /\ RequestsSound'
<1>1. req' \in [Requests -> Request] /\ RequestsSound'
  BY DoneSound DEF Drop
<1>2. QED
  BY <1>1 DEF Drop, TypeOK

LEMMA RemoveTypes ==
  ASSUME TypeOK, RequestsSound, NEW r \in Requests, Remove(r), ~RollBack(r)
  PROVE  TypeOK' /\ RequestsSound'
<1> DEFINE q     == req[r]
           l     == q.listing
           taken == {k \in Keys \ (q.orphans \cup q.keys) : file[k].listing = l}
<1>1. /\ \A k \in q.orphans : file[k] # NoFile
      /\ listing' = [listing EXCEPT ![l] = Removed]
      /\ file' = [k \in Keys |->
           IF k \in q.keys \cup taken THEN NoFile
           ELSE IF k \in q.orphans THEN [file[k] EXCEPT !.listing = None]
           ELSE file[k]]
      /\ favourites' = [favourites EXCEPT ![l] = {}]
      /\ history' = [history EXCEPT ![l] = <<>>]
      /\ slotted' = slotted \ {l}
      /\ strays' = strays \cup taken
      /\ Done(r)
      /\ UNCHANGED <<present, objects, pool>>
  BY DEF Remove
<1>2. q \in Request
  BY DEF TypeOK
<1>3. req' \in [Requests -> Request] /\ RequestsSound'
  BY <1>1, DoneSound
<1>4. taken \subseteq Keys
  OBVIOUS
<1> HIDE DEF q, l, taken
<1>5. file' \in [Keys -> File \cup {NoFile}]
  <2>1. \A k \in q.orphans : file[k] \in File
    BY <1>1, <1>2 DEF TypeOK, Request
  <2>2. \A k \in q.orphans : [file[k] EXCEPT !.listing = None] \in File
    BY <2>1 DEF File
  <2>3. QED
    BY <1>1, <2>2 DEF TypeOK
<1>6. history' \in [Listings -> Seq(Entry)] /\ favourites' \in [Listings -> SUBSET Users]
  <2>1. <<>> \in Seq(Entry) /\ {} \in SUBSET Users
    OBVIOUS
  <2>2. QED
    BY <1>1, <2>1 DEF TypeOK
<1>7. QED
  BY <1>1, <1>3, <1>4, <1>5, <1>6 DEF TypeOK

(* A review writes a row that is one. *)
LEMMA ReviewedIsRow ==
  ASSUME TypeOK, RequestsSound, NEW r \in Requests, req[r].stage = "ready", req[r].op = "review",
         NEW row \in Row
  PROVE  Reviewed(req[r], row) \in Row
<1> DEFINE q        == req[r]
           reviewer == IF q.verdict = "APPROVED" THEN q.by ELSE None
           status   == IF q.verdict # q.status THEN q.verdict ELSE row.status
           at       == IF q.verdict = "APPROVED" THEN TRUE ELSE IF q.verified_at THEN FALSE ELSE row.verified_at
           by       == IF reviewer # q.verified_by THEN reviewer ELSE row.verified_by
<1>1. q \in Request /\ Sound(q)
  BY DEF TypeOK, RequestsSound
<1>2. q.by \in Admins /\ q.verdict \in Verdicts
  BY <1>1 DEF Sound
<1>3. status \in Verdicts /\ by \in Admins \cup {None}
  BY <1>2 DEF Row
<1>4. at \in BOOLEAN
  BY DEF Row
<1>5. Reviewed(q, row) = [row EXCEPT !.status = status, !.verified_at = at, !.verified_by = by]
  BY DEF Reviewed
<1> HIDE DEF status, by, at, q
<1>6. Reviewed(q, row) \in Row
  BY <1>3, <1>4, <1>5 DEF Row
<1>7. QED
  BY <1>6 DEF q

LEMMA ReviewTypes ==
  ASSUME TypeOK, RequestsSound, NEW r \in Requests, Review(r), ~RollBack(r)
  PROVE  TypeOK' /\ RequestsSound'
<1> DEFINE q == req[r]
           e == [previous |-> q.status, new |-> q.verdict, reviewed_by |-> q.by]
<1>1. /\ q.stage = "ready" /\ q.op = "review" /\ Exists(q.listing)
      /\ listing' = [listing EXCEPT ![q.listing] = Reviewed(q, @)]
      /\ history' = [history EXCEPT ![q.listing] = Append(@, e)]
      /\ Done(r)
      /\ UNCHANGED <<file, favourites, slotted, present, objects, pool, strays>>
  BY DEF Review, Record
<1>2. q \in Request /\ Sound(q)
  BY DEF TypeOK, RequestsSound
<1>3. q.listing \in Listings /\ q.by \in Admins /\ q.verdict \in Verdicts /\ q.status \in Verdicts
  BY <1>1, <1>2 DEF Sound
<1>4. Reviewed(q, listing[q.listing]) \in Row
  BY <1>1, <1>3, ExistingIsRow, ReviewedIsRow
<1>5. e \in Entry
  BY <1>3 DEF Entry
<1> HIDE DEF e
<1>6. history' \in [Listings -> Seq(Entry)]
  <2>1. Append(history[q.listing], e) \in Seq(Entry)
    BY <1>3, <1>5 DEF TypeOK
  <2>2. QED
    BY <1>1, <2>1 DEF TypeOK
<1>7. listing' \in [Listings -> Row \cup {Unborn, Removed}]
  BY <1>1, <1>4 DEF TypeOK
<1>8. req' \in [Requests -> Request] /\ RequestsSound'
  BY <1>1, DoneSound
<1>9. QED
  BY <1>1, <1>6, <1>7, <1>8 DEF TypeOK

LEMMA AddFavoriteTypes ==
  ASSUME TypeOK, RequestsSound, NEW r \in Requests, AddFavorite(r), ~RollBack(r)
  PROVE  TypeOK' /\ RequestsSound'
<1>1. /\ req[r].stage = "ready"
      /\ favourites' = [favourites EXCEPT ![req[r].listing] = @ \cup {req[r].by}]
      /\ Done(r)
      /\ UNCHANGED <<listing, history, file, slotted, present, objects, pool, strays>>
  BY DEF AddFavorite
<1>2. req[r].by \in Users /\ req[r].listing \in Listings
  BY <1>1 DEF RequestsSound, Sound
<1>3. req' \in [Requests -> Request] /\ RequestsSound'
  BY <1>1, DoneSound
<1>4. favourites' \in [Listings -> SUBSET Users]
  BY <1>1, <1>2 DEF TypeOK
<1>5. QED
  BY <1>1, <1>3, <1>4 DEF TypeOK

(* Writes outside the requests that are followed step by step. *)
LEMMA PlainTypes ==
  ASSUME TypeOK, RequestsSound, NEW l \in Listings,
         \/ OfferSlots(l)
         \/ \E p \in {"DRAFT", "ACTIVE"} :
              CreateListing(l, p) \/ \E u \in Users : UpdateListing(u, l, p)
         \/ \E u \in Users : RemoveFavorite(u, l)
  PROVE  TypeOK' /\ RequestsSound' /\ UNCHANGED <<file, objects, req, pool, strays>>
<1>1. UNCHANGED <<file, objects, req, pool, strays>>
  BY DEF OfferSlots, CreateListing, UpdateListing, RemoveFavorite
<1>2. RequestsSound'
  BY <1>1 DEF RequestsSound
<1>3. ASSUME OfferSlots(l)
      PROVE  TypeOK'
  <2>1. slotted \subseteq Listings /\ slotted' \in {slotted \ {l}, slotted \cup {l}}
    BY <1>3 DEF OfferSlots, TypeOK
  <2>2. slotted' \subseteq Listings
    BY <2>1
  <2>3. QED
    BY <1>3, <2>2 DEF OfferSlots, TypeOK
<1>4. ASSUME NEW p \in {"DRAFT", "ACTIVE"}, CreateListing(l, p)
      PROVE  TypeOK'
  <2>1. Fresh(p) \in Row
    BY DEF Fresh, Row, Verdicts
  <2>2. QED
    BY <1>1, <1>4, <2>1 DEF CreateListing, TypeOK
<1>5. ASSUME NEW p \in {"DRAFT", "ACTIVE"}, NEW u \in Users, UpdateListing(u, l, p)
      PROVE  TypeOK'
  <2>1. listing[l] \in Row
    BY <1>5, ExistingIsRow DEF UpdateListing
  <2>2. [listing[l] EXCEPT !.publication = p] \in Row
    BY <2>1 DEF Row
  <2>3. QED
    BY <1>1, <1>5, <2>2 DEF UpdateListing, TypeOK
<1>6. ASSUME NEW u \in Users, RemoveFavorite(u, l)
      PROVE  TypeOK'
  BY <1>1, <1>6 DEF RemoveFavorite, TypeOK
<1>7. QED
  BY <1>1, <1>2, <1>3, <1>4, <1>5, <1>6

Plain ==
  \E l \in Listings :
    \/ OfferSlots(l)
    \/ \E p \in {"DRAFT", "ACTIVE"} :
         CreateListing(l, p) \/ \E u \in Users : UpdateListing(u, l, p)
    \/ \E u \in Users : RemoveFavorite(u, l)

(* What a request does that commits, or comes to its delete. *)
Commits(r) ==
  \/ Upload(r) \/ Drop(r) \/ SelectDependants(r) \/ Remove(r) \/ Review(r) \/ AddFavorite(r)

(* The kinds of steps the proofs below tell apart. *)
LEMMA StepKinds ==
  ASSUME TypeOK, [Next]_vars
  PROVE  \/ UNCHANGED vars
         \/ Plain
         \/ \E u \in Users : DeleteProfile(u)
         \/ \E r \in Requests, u \in Users, l \in Listings : Starting(r, u, l)
         \/ \E r \in Requests, k \in Keys : Put(r, k) \/ EraseFile(r, k) \/ EraseImage(r, k)
         \/ \E r \in Requests : ErasedAll(r) \/ RollBack(r) \/ (Commits(r) /\ ~RollBack(r))
<1>1. present \subseteq Users
  BY DEF TypeOK
<1>2. QED
  BY <1>1 DEF Next, Plain, Continuing, Lose, Commits

(* What the deletion of a profile clears of a row, of an entry and of the  *)
(* files; all else stays.                                                  *)
Cleared(u, by) == IF by = u THEN None ELSE by

LEMMA DeletionKeeps ==
  ASSUME TypeOK, NEW u \in Users, DeleteProfile(u)
  PROVE  /\ UNCHANGED <<favourites, slotted, objects, req, pool>>
         /\ u \in present /\ present' = present \ {u}
         /\ \A l \in Listings : u \notin favourites[l] /\ (Exists(l) => Landlord(l) # u)
  BY DEF DeleteProfile

LEMMA DeletionFiles ==
  ASSUME TypeOK, NEW u \in Users, DeleteProfile(u)
  PROVE  /\ file' \in [Keys -> File \cup {NoFile}]
         /\ strays \subseteq strays' /\ strays' \subseteq Keys
         /\ \A k \in Keys :
              /\ file'[k] \in {file[k], NoFile}
              /\ file'[k] # file[k] => k \in strays'
              /\ file'[k].kind = "document" => file'[k].uploaded_by # u
<1> DEFINE theirs == {k \in Keys : file[k].kind = "document" /\ file[k].uploaded_by = u}
<1>1. file' = [k \in Keys |-> IF k \in theirs THEN NoFile ELSE file[k]] /\ strays' = strays \cup theirs
  BY DEF DeleteProfile
<1>2. NoFile.kind # "document"
  BY ListingsAssumption DEF NoFile, Kinds
<1>3. QED
  BY <1>1, <1>2 DEF TypeOK

LEMMA DeletionRows ==
  ASSUME TypeOK, NEW u \in Users, DeleteProfile(u), NEW l \in Listings
  PROVE  /\ listing'[l] \in Row \cup {Unborn, Removed}
         /\ listing'[l].publication = listing[l].publication
         /\ listing'[l].status = listing[l].status
         /\ listing'[l].verified_by = Cleared(u, listing[l].verified_by)
         /\ listing'[l].verified_at = listing[l].verified_at
<1> DEFINE row == [listing[l] EXCEPT !.verified_by = None]
<1>1. listing'[l] = IF listing[l].verified_by = u THEN row ELSE listing[l]
  BY DEF DeleteProfile
<1>2. listing[l].verified_by = u => listing[l] \in Row
  BY ListingsAssumption DEF TypeOK, Unborn, Removed, Fresh
<1>3. CASE listing[l].verified_by = u
  <2>1. ASSUME NEW r \in Row
        PROVE  /\ [r EXCEPT !.verified_by = None] \in Row
               /\ [r EXCEPT !.verified_by = None].publication = r.publication
               /\ [r EXCEPT !.verified_by = None].status = r.status
               /\ [r EXCEPT !.verified_by = None].verified_by = None
    BY DEF Row
  <2>2. ASSUME NEW r \in Row
        PROVE  [r EXCEPT !.verified_by = None].verified_at = r.verified_at
    BY DEF Row
  <2>3. QED
    BY <1>1, <1>2, <1>3, <2>1, <2>2 DEF Cleared
<1>4. CASE listing[l].verified_by # u
  BY <1>1, <1>4 DEF Cleared, TypeOK
<1>5. QED
  BY <1>3, <1>4

(* A deletion goes through the entries one by one. *)
LEMMA DeletionRewrites ==
  ASSUME TypeOK, NEW u \in Users, DeleteProfile(u), NEW l \in Listings
  PROVE  /\ history[l] \in Seq(Entry) /\ history'[l] \in Seq(Entry)
         /\ Len(history'[l]) = Len(history[l])
         /\ \A i \in 1..Len(history[l]) :
              /\ history[l][i] \in Entry
              /\ history'[l][i] = IF history[l][i].reviewed_by = u
                                 THEN [history[l][i] EXCEPT !.reviewed_by = None] ELSE history[l][i]
<1> DEFINE h     == history[l]
           e(i)  == IF h[i].reviewed_by = u THEN [h[i] EXCEPT !.reviewed_by = None] ELSE h[i]
<1>1. history'[l] = [i \in 1..Len(h) |-> e(i)]
  BY DEF DeleteProfile
<1>2. h \in Seq(Entry) /\ Len(h) \in Nat /\ \A i \in 1..Len(h) : h[i] \in Entry
  BY DEF TypeOK
<1>3. ASSUME NEW i \in 1..Len(h)
      PROVE  e(i) \in Entry
  BY <1>2 DEF Entry
<1>4. ASSUME NEW n \in Nat, NEW f \in [1..n -> Entry]
      PROVE  f \in Seq(Entry) /\ Len(f) = n
  OBVIOUS
<1>5. history'[l] \in [1..Len(h) -> Entry] /\ \A i \in 1..Len(h) : history'[l][i] = e(i)
  BY <1>1, <1>3
<1>6. history'[l] \in Seq(Entry) /\ Len(history'[l]) = Len(h)
  BY <1>2, <1>4, <1>5
<1>7. QED
  BY <1>2, <1>5, <1>6

(* An entry keeps what it says and loses a reviewer who leaves. *)
LEMMA DeletionEntries ==
  ASSUME TypeOK, NEW u \in Users, DeleteProfile(u), NEW l \in Listings
  PROVE  /\ history'[l] \in Seq(Entry) /\ Len(history'[l]) = Len(history[l])
         /\ \A i \in 1..Len(history[l]) :
              /\ history'[l][i].previous = history[l][i].previous
              /\ history'[l][i].new = history[l][i].new
              /\ history'[l][i].reviewed_by = Cleared(u, history[l][i].reviewed_by)
<1> DEFINE h == history[l]
           g == history'[l]
<1>1. /\ g \in Seq(Entry) /\ Len(g) = Len(h)
      /\ \A i \in 1..Len(h) :
           /\ h[i] \in Entry
           /\ g[i] = IF h[i].reviewed_by = u THEN [h[i] EXCEPT !.reviewed_by = None] ELSE h[i]
  BY DeletionRewrites, Zenon
<1> HIDE DEF h, g
<1>2. ASSUME NEW i \in 1..Len(h)
      PROVE  /\ g[i].previous = h[i].previous /\ g[i].new = h[i].new
             /\ g[i].reviewed_by = Cleared(u, h[i].reviewed_by)
  BY <1>1, <1>2 DEF Entry, Cleared
<1>3. QED
  BY <1>1, <1>2 DEF h, g

LEMMA DeletionTypes ==
  ASSUME TypeOK, RequestsSound, NEW u \in Users, DeleteProfile(u)
  PROVE  TypeOK' /\ RequestsSound'
<1>1. UNCHANGED <<favourites, slotted, objects, req, pool>> /\ present' = present \ {u}
  BY DeletionKeeps
<1>2. file' \in [Keys -> File \cup {NoFile}] /\ strays' \subseteq Keys
  BY DeletionFiles
<1>3. listing' \in [Listings -> Row \cup {Unborn, Removed}]
  <2>1. \A l \in Listings : listing'[l] \in Row \cup {Unborn, Removed}
    BY DeletionRows
  <2>2. QED
    BY <2>1 DEF DeleteProfile
<1>4. history' \in [Listings -> Seq(Entry)]
  <2>1. \A l \in Listings : history'[l] \in Seq(Entry)
    BY DeletionEntries
  <2>2. QED
    BY <2>1 DEF DeleteProfile
<1>5. QED
  BY <1>1, <1>2, <1>3, <1>4 DEF TypeOK, RequestsSound

LEMMA NextTypes == TypeOK /\ RequestsSound /\ [Next]_vars => TypeOK' /\ RequestsSound'
<1> SUFFICES ASSUME TypeOK, RequestsSound, [Next]_vars PROVE TypeOK' /\ RequestsSound'
  OBVIOUS
<1>1. CASE UNCHANGED vars
  BY <1>1 DEF vars, TypeOK, RequestsSound
<1>2. CASE Plain
  BY <1>2, PlainTypes DEF Plain
<1>3. ASSUME NEW r \in Requests, NEW u \in Users, NEW l \in Listings, Starting(r, u, l)
      PROVE  TypeOK' /\ RequestsSound'
  <2>1. PICK q \in Request : Advance(r, q) /\ Sound(q) /\ Reads
    BY <1>3, StartingHolds
  <2>2. UNCHANGED <<listing, history, file, favourites, slotted, present, pool, strays>> /\ objects' \subseteq Keys
    BY <2>1 DEF Reads, TypeOK
  <2>3. QED
    BY <2>1, <2>2, ReadsTypes
<1>4. CASE \E r \in Requests, k \in Keys : Put(r, k) \/ EraseFile(r, k) \/ EraseImage(r, k)
  BY <1>4, BucketTypes
<1>5. CASE \E r \in Requests : ErasedAll(r) \/ RollBack(r) \/ (Commits(r) /\ ~RollBack(r))
  BY <1>5, ErasedAllTypes, RollBackTypes, UploadTypes, DropTypes, SelectDependantsTypes,
     RemoveTypes, ReviewTypes, AddFavoriteTypes DEF Commits
<1>6. CASE \E u \in Users : DeleteProfile(u)
  BY <1>6, DeletionTypes
<1>7. QED
  BY <1>1, <1>2, <1>3, <1>4, <1>5, <1>6, StepKinds

(* Rows, files and requests have the form the model gives them. *)
THEOREM TypesAndRequests == Spec => [](TypeOK /\ RequestsSound)
<1>1. Init => TypeOK /\ RequestsSound
  <2> SUFFICES ASSUME Init PROVE TypeOK /\ RequestsSound
    OBVIOUS
  <2>1. Idle \in Request /\ Sound(Idle)
    <3>1. {} \in SUBSET Keys /\ "idle" \in Stages
      BY DEF Stages
    <3>2. QED
      BY <3>1 DEF Idle, Request, Sound
  <2>2. <<>> \in Seq(Entry) /\ {} \in SUBSET Users
    OBVIOUS
  <2>3. QED
    BY <2>1, <2>2 DEF Init, TypeOK, RequestsSound
<1>2. QED
  BY <1>1, NextTypes, PTL DEF Spec

(* The status, its history and every file are what their columns allow. *)
THEOREM TypeCorrect == Spec => []TypeOK
<1>1. QED
  BY TypesAndRequests, PTL

----------------------------------------------------------------------------
(* Rows and objects *)

(* A key that is named anywhere was put or erased by some request. *)
KeysUsed ==
  \A k \in Keys :
    file[k] # NoFile \/ (\E r \in Requests : k \in req[r].keys)
    => \E r \in Requests : k \in req[r].touched

(* Between its upload and its row, an object is its request's alone. *)
StoredAlone ==
  \A r \in Requests : req[r].stage = "stored" =>
    \A k \in req[r].keys :
      /\ file[k] = NoFile /\ k \in objects
      /\ \A s \in Requests \ {r} : k \notin req[s].keys \cup req[s].touched

(* What a deletion erased stays erased. *)
Erased ==
  \A r \in InFlight : req[r].op \in {"drop", "remove"} => req[r].touched \cap objects = {}

(* What a removal erases is on its listing, or on none any more. *)
RemovesOwn ==
  \A r \in InFlight : req[r].op = "remove" =>
    \A k \in req[r].keys \cup req[r].touched : file[k].listing \in {req[r].listing, None}

Store == KeysUsed /\ StoredAlone /\ Erased /\ RemovesOwn /\ StoreAgrees

(* No request and no row, but the ones below. *)
LEMMA Others ==
  ASSUME TypeOK, NEW r \in Requests, NEW q, Advance(r, q)
  PROVE  \A s \in Requests : req'[s] = IF s = r THEN q ELSE req[s]
  BY DEF TypeOK, Advance

LEMMA PlainStore ==
  ASSUME Store, UNCHANGED <<file, objects, req, strays>>
  PROVE  Store'
  BY DEF Store, KeysUsed, StoredAlone, Erased, RemovesOwn, StoreAgrees, InFlight

(* A request that begins names only keys of rows. *)
LEMMA StartingStore ==
  ASSUME TypeOK, RequestsSound, Store, NEW r \in Requests, NEW u \in Users, NEW l \in Listings,
         Starting(r, u, l)
  PROVE  Store'
<1>1. PICK q \in Request :
        /\ Arrives(r) /\ Advance(r, q) /\ Reads
        /\ q.stage \in {"ready", "erasing"} /\ q.listing = l /\ q.touched = {}
        /\ \A k \in q.keys : file[k] # NoFile /\ file[k].listing = l
  BY StartingHolds
<1>2. \A s \in Requests : req'[s] = IF s = r THEN q ELSE req[s]
  BY <1>1, Others
<1>3. UNCHANGED <<file, objects, strays>>
  BY <1>1 DEF Reads
<1>4. req[r].stage = "idle" /\ req[r].touched = {} /\ q.keys \subseteq Keys
  BY <1>1 DEF Arrives, RequestsSound, Sound, Request
<1>5. KeysUsed'
  <2>1. ASSUME NEW k \in Keys, file'[k] # NoFile \/ \E s \in Requests : k \in req'[s].keys
        PROVE  \E s \in Requests : k \in req'[s].touched
    <3>1. file[k] # NoFile \/ \E s \in Requests : k \in req[s].keys
      BY <1>1, <1>2, <1>3, <2>1
    <3>2. PICK s \in Requests : k \in req[s].touched
      BY <3>1 DEF Store, KeysUsed
    <3>3. s # r
      BY <1>4, <3>2
    <3>4. QED
      BY <1>2, <3>2, <3>3
  <2>2. QED
    BY <2>1 DEF KeysUsed
<1>6. StoredAlone'
  <2>1. ASSUME NEW s \in Requests, req'[s].stage = "stored", NEW k \in req'[s].keys
        PROVE  /\ file'[k] = NoFile /\ k \in objects'
               /\ \A x \in Requests \ {s} : k \notin req'[x].keys \cup req'[x].touched
    <3>1. s # r /\ req'[s] = req[s]
      BY <1>1, <1>2, <2>1
    <3>2. /\ file[k] = NoFile /\ k \in objects
          /\ \A x \in Requests \ {s} : k \notin req[x].keys \cup req[x].touched
      BY <2>1, <3>1 DEF Store, StoredAlone
    <3>3. QED
      BY <1>1, <1>2, <1>3, <3>2
  <2>2. QED
    BY <2>1 DEF StoredAlone
<1>7. Erased' /\ RemovesOwn'
  BY <1>1, <1>2, <1>3 DEF Store, Erased, RemovesOwn, InFlight
<1>8. StoreAgrees'
  BY <1>1, <1>2, <1>3, <1>4 DEF Store, StoreAgrees, InFlight
<1>9. QED
  BY <1>5, <1>6, <1>7, <1>8 DEF Store

(* A call of the bucket: the request has the key, and says so. *)
LEMMA PutStore ==
  ASSUME TypeOK, RequestsSound, Store, NEW r \in Requests, NEW k \in Keys, Put(r, k)
  PROVE  Store'
<1> DEFINE q == [req[r] EXCEPT !.stage = "stored", !.keys = {k}, !.touched = {k}]
<1>1. /\ req[r].stage = "ready" /\ req[r].op \in Kinds /\ Unused(k)
      /\ objects' = objects \cup {k} /\ Advance(r, q) /\ UNCHANGED <<file, strays>>
  BY DEF Put, Bucket
<1>2. /\ q.stage = "stored" /\ q.keys = {k} /\ q.touched = {k} /\ q.op = req[r].op
  BY DEF TypeOK, Request
<1> HIDE DEF q
<1>3. \A s \in Requests : req'[s] = IF s = r THEN q ELSE req[s]
  BY <1>1, Others
<1>4. req[r].touched = {} /\ req[r].keys = {} /\ q.op \notin {"drop", "remove"}
  BY <1>1, <1>2 DEF RequestsSound, Sound, Kinds
<1>5. file[k] = NoFile /\ \A s \in Requests : k \notin req[s].touched /\ k \notin req[s].keys
  BY <1>1 DEF Unused, Store, KeysUsed
<1>6. KeysUsed'
  <2>1. ASSUME NEW j \in Keys, file'[j] # NoFile \/ \E s \in Requests : j \in req'[s].keys
        PROVE  \E s \in Requests : j \in req'[s].touched
    <3>1. CASE j = k
      BY <1>2, <1>3, <3>1
    <3>2. CASE j # k
      <4>1. file[j] # NoFile \/ \E s \in Requests : j \in req[s].keys
        BY <1>1, <1>2, <1>3, <2>1, <3>2
      <4>2. PICK s \in Requests : j \in req[s].touched
        BY <4>1 DEF Store, KeysUsed
      <4>3. s # r
        BY <1>4, <4>2
      <4>4. QED
        BY <1>3, <4>2, <4>3
    <3>3. QED
      BY <3>1, <3>2
  <2>2. QED
    BY <2>1 DEF KeysUsed
<1>7. StoredAlone'
  <2>1. ASSUME NEW s \in Requests, req'[s].stage = "stored", NEW j \in req'[s].keys
        PROVE  /\ file'[j] = NoFile /\ j \in objects'
               /\ \A x \in Requests \ {s} : j \notin req'[x].keys \cup req'[x].touched
    <3>1. CASE s = r
      BY <1>1, <1>2, <1>3, <1>5, <2>1, <3>1
    <3>2. CASE s # r
      <4>1. /\ file[j] = NoFile /\ j \in objects /\ j # k
            /\ \A x \in Requests \ {s} : j \notin req[x].keys \cup req[x].touched
        BY <1>3, <1>5, <2>1, <3>2 DEF Store, StoredAlone
      <4>2. QED
        BY <1>1, <1>2, <1>3, <4>1
    <3>3. QED
      BY <3>1, <3>2
  <2>2. QED
    BY <2>1 DEF StoredAlone
<1>8. Erased'
  BY <1>1, <1>3, <1>4, <1>5 DEF Store, Erased, InFlight
<1>9. RemovesOwn'
  BY <1>1, <1>3, <1>4 DEF Store, RemovesOwn, InFlight
<1>10. StoreAgrees'
  <2>1. ASSUME NEW j \in Keys \ strays'
        PROVE  \/ \E s \in InFlight' : j \in req'[s].touched
               \/ /\ file'[j].listing # None => j \in objects'
                  /\ j \in objects' => file'[j] # NoFile
    <3>1. CASE j = k
      BY <1>2, <1>3, <3>1 DEF InFlight
    <3>2. CASE j # k
      BY <1>1, <1>3, <1>4, <2>1, <3>2 DEF Store, StoreAgrees, InFlight
    <3>3. QED
      BY <3>1, <3>2
  <2>2. QED
    BY <2>1 DEF StoreAgrees
<1>11. QED
  BY <1>6, <1>7, <1>8, <1>9, <1>10 DEF Store

LEMMA EraseStore ==
  ASSUME TypeOK, RequestsSound, Store, NEW r \in Requests, NEW k \in Keys,
         EraseFile(r, k) \/ EraseImage(r, k)
  PROVE  Store'
<1>1. PICK stage \in {"erased", "erasing"} : Erase(r, k, stage)
  BY DEF EraseFile, EraseImage
<1> DEFINE q == [req[r] EXCEPT !.stage = stage, !.touched = @ \cup {k}]
<1>2. /\ k \in req[r].keys /\ objects' = objects \ {k} /\ Advance(r, q)
      /\ UNCHANGED <<file, strays>>
  BY <1>1 DEF Erase, Bucket
<1>3. /\ q.stage = stage /\ q.keys = req[r].keys /\ q.touched = req[r].touched \cup {k}
      /\ q.op = req[r].op /\ q.listing = req[r].listing
  BY DEF TypeOK, Request
<1> HIDE DEF q
<1>4. \A s \in Requests : req'[s] = IF s = r THEN q ELSE req[s]
  BY <1>2, Others
<1>5. req[r].stage \in {"ready", "erasing"}
  BY DEF EraseFile, EraseImage
<1>6. KeysUsed'
  BY <1>2, <1>3, <1>4 DEF Store, KeysUsed
<1>7. StoredAlone'
  <2>1. ASSUME NEW s \in Requests, req'[s].stage = "stored", NEW j \in req'[s].keys
        PROVE  /\ file'[j] = NoFile /\ j \in objects'
               /\ \A x \in Requests \ {s} : j \notin req'[x].keys \cup req'[x].touched
    <3>1. s # r /\ req'[s] = req[s]
      BY <1>3, <1>4, <2>1
    <3>2. /\ file[j] = NoFile /\ j \in objects
          /\ \A x \in Requests \ {s} : j \notin req[x].keys \cup req[x].touched
      BY <2>1, <3>1 DEF Store, StoredAlone
    <3>3. j # k
      BY <1>2, <3>1, <3>2
    <3>4. QED
      BY <1>2, <1>3, <1>4, <3>1, <3>2, <3>3
  <2>2. QED
    BY <2>1 DEF StoredAlone
<1>8. Erased'
  BY <1>2, <1>3, <1>4, <1>5 DEF Store, Erased, InFlight
<1>9. RemovesOwn'
  BY <1>2, <1>3, <1>4, <1>5 DEF Store, RemovesOwn, InFlight
<1>10. StoreAgrees'
  <2>1. ASSUME NEW j \in Keys \ strays'
        PROVE  \/ \E s \in InFlight' : j \in req'[s].touched
               \/ /\ file'[j].listing # None => j \in objects'
                  /\ j \in objects' => file'[j] # NoFile
    <3>1. CASE j = k
      BY <1>3, <1>4, <3>1 DEF InFlight
    <3>2. CASE j # k
      BY <1>2, <1>3, <1>4, <2>1, <3>2 DEF Store, StoreAgrees, InFlight
    <3>3. QED
      BY <3>1, <3>2
  <2>2. QED
    BY <2>1 DEF StoreAgrees
<1>11. QED
  BY <1>6, <1>7, <1>8, <1>9, <1>10 DEF Store

(* Steps of a removal between its erasures and its delete. *)
LEMMA RemovalMoves ==
  ASSUME TypeOK, NEW r \in Requests, ErasedAll(r) \/ (SelectDependants(r) /\ ~RollBack(r))
  PROVE  /\ req[r].stage \in {"ready", "erasing"} /\ Reads
         /\ \E q : /\ Advance(r, q) /\ q.stage \in {"ready", "bare"}
                   /\ q.keys \subseteq req[r].keys /\ q.touched = req[r].touched
                   /\ q.op = req[r].op /\ q.listing = req[r].listing
                   /\ q.status = req[r].status /\ q.verified_by = req[r].verified_by
<1> DEFINE Moved(q) ==
      /\ q.stage \in {"ready", "bare"}
      /\ q.keys \subseteq req[r].keys /\ q.touched = req[r].touched
      /\ q.op = req[r].op /\ q.listing = req[r].listing
      /\ q.status = req[r].status /\ q.verified_by = req[r].verified_by
<1>1. req[r] \in Request
  BY DEF TypeOK
<1>2. CASE ErasedAll(r)
  <2>1. Moved([req[r] EXCEPT !.stage = "ready"])
    BY <1>1 DEF Request
  <2>2. Moved([req[r] EXCEPT !.stage = "ready", !.keys = {}])
    BY <1>1 DEF Request
  <2> SUFFICES \E q : Advance(r, q) /\ Moved(q)
    BY <1>2 DEF ErasedAll
  <2> HIDE DEF Moved
  <2>3. QED
    BY <1>2, <2>1, <2>2 DEF ErasedAll
<1>3. CASE SelectDependants(r) /\ ~RollBack(r)
  <2>1. Moved([req[r] EXCEPT !.stage = "bare",
                             !.orphans = ImagesOf(req[r].listing) \ req[r].keys])
    BY <1>1 DEF Request
  <2> SUFFICES \E q : Advance(r, q) /\ Moved(q)
    BY <1>3 DEF SelectDependants
  <2> HIDE DEF Moved
  <2>2. QED
    BY <1>3, <2>1 DEF SelectDependants
<1>4. QED
  BY <1>2, <1>3

LEMMA MoveStore ==
  ASSUME TypeOK, RequestsSound, Store, NEW r \in Requests,
         ErasedAll(r) \/ (SelectDependants(r) /\ ~RollBack(r))
  PROVE  Store'
<1>1. /\ req[r].stage \in {"ready", "erasing"} /\ Reads
      /\ \E q : /\ Advance(r, q) /\ q.stage \in {"ready", "bare"}
                /\ q.keys \subseteq req[r].keys /\ q.touched = req[r].touched
                /\ q.op = req[r].op /\ q.listing = req[r].listing
  BY RemovalMoves
<1>2. PICK q : /\ Advance(r, q) /\ q.stage \in {"ready", "bare"}
               /\ q.keys \subseteq req[r].keys /\ q.touched = req[r].touched
               /\ q.op = req[r].op /\ q.listing = req[r].listing
  BY <1>1
<1>3. \A s \in Requests : req'[s] = IF s = r THEN q ELSE req[s]
  BY <1>2, Others
<1>4. UNCHANGED <<file, objects, strays>>
  BY <1>1 DEF Reads
<1>5. KeysUsed'
  BY <1>2, <1>3, <1>4 DEF Store, KeysUsed
<1>6. StoredAlone'
  BY <1>2, <1>3, <1>4 DEF Store, StoredAlone
<1>7. Erased' /\ RemovesOwn'
  BY <1>1, <1>2, <1>3, <1>4 DEF Store, Erased, RemovesOwn, InFlight
<1>8. StoreAgrees'
  BY <1>1, <1>2, <1>3, <1>4 DEF Store, StoreAgrees, InFlight
<1>9. QED
  BY <1>5, <1>6, <1>7, <1>8 DEF Store

(* What a request that ends leaves as it is. *)
LEMMA DoneFields ==
  ASSUME TypeOK, NEW r \in Requests, Done(r)
  PROVE  \A s \in Requests :
           /\ req'[s].stage = IF s = r THEN "done" ELSE req[s].stage
           /\ req'[s].keys = req[s].keys /\ req'[s].touched = req[s].touched
           /\ req'[s].op = req[s].op /\ req'[s].listing = req[s].listing
           /\ s # r => req'[s] = req[s]
<1>1. req[r] \in Request
  BY DEF TypeOK
<1>2. \A s \in Requests : req'[s] = IF s = r THEN [req[r] EXCEPT !.stage = "done"] ELSE req[s]
  BY DEF TypeOK, Done, Advance
<1>3. QED
  BY <1>1, <1>2 DEF Request

(* A rollback, or a commit that has to do with no file. *)
LEMMA EndStore ==
  ASSUME TypeOK, RequestsSound, Store, NEW r \in Requests, Done(r), UNCHANGED <<file, objects>>,
         strays \subseteq strays', req[r].touched \subseteq strays'
  PROVE  Store'
<1>1. \A s \in Requests :
        /\ req'[s].stage = IF s = r THEN "done" ELSE req[s].stage
        /\ req'[s].keys = req[s].keys /\ req'[s].touched = req[s].touched
        /\ req'[s].op = req[s].op /\ req'[s].listing = req[s].listing
  BY DoneFields
<1>2. KeysUsed'
  BY <1>1 DEF Store, KeysUsed
<1>3. StoredAlone'
  BY <1>1 DEF Store, StoredAlone
<1>4. Erased' /\ RemovesOwn'
  BY <1>1 DEF Store, Erased, RemovesOwn, InFlight
<1>5. StoreAgrees'
  BY <1>1 DEF Store, StoreAgrees, InFlight
<1>6. QED
  BY <1>2, <1>3, <1>4, <1>5 DEF Store

(* The row of an upload meets its object. *)
LEMMA UploadStore ==
  ASSUME TypeOK, RequestsSound, Store, NEW r \in Requests, Upload(r), ~RollBack(r)
  PROVE  Store'
<1> DEFINE q == req[r]
<1>1. /\ q.stage = "stored" /\ Done(r) /\ UNCHANGED <<objects, strays>>
      /\ file' = [k \in Keys |-> IF k \notin q.keys THEN file[k] ELSE
                    [kind |-> q.op, listing |-> q.listing, uploaded_by |-> q.by]]
  BY DEF Upload
<1>2. q.op \in Kinds /\ q.keys = q.touched
  BY <1>1 DEF RequestsSound, Sound
<1>3. \A s \in Requests :
        /\ req'[s].stage = IF s = r THEN "done" ELSE req[s].stage
        /\ req'[s].keys = req[s].keys /\ req'[s].touched = req[s].touched
        /\ req'[s].op = req[s].op /\ req'[s].listing = req[s].listing
  BY <1>1, DoneFields
<1>4. \A k \in q.keys : /\ k \in objects
                        /\ \A s \in Requests \ {r} : k \notin req[s].keys \cup req[s].touched
  BY <1>1 DEF Store, StoredAlone
<1>5. \A k \in Keys : /\ k \notin q.keys => file'[k] = file[k]
                      /\ k \in q.keys => file'[k] # NoFile
  <2>1. [kind |-> q.op, listing |-> q.listing, uploaded_by |-> q.by] # NoFile
    BY <1>2, ListingsAssumption DEF NoFile
  <2>2. QED
    BY <1>1, <2>1
<1> HIDE DEF q
<1>6. KeysUsed'
  BY <1>2, <1>3, <1>5 DEF Store, KeysUsed, q
<1>7. StoredAlone'
  <2>1. ASSUME NEW s \in Requests, req'[s].stage = "stored", NEW k \in req'[s].keys
        PROVE  /\ file'[k] = NoFile /\ k \in objects'
               /\ \A x \in Requests \ {s} : k \notin req'[x].keys \cup req'[x].touched
    <3>1. s # r /\ req[s].stage = "stored" /\ k \in req[s].keys
      BY <1>3, <2>1
    <3>2. k \notin q.keys /\ k \in Keys
      BY <1>4, <3>1 DEF TypeOK, Request
    <3>3. QED
      BY <1>1, <1>3, <1>5, <3>1, <3>2 DEF Store, StoredAlone
  <2>2. QED
    BY <2>1 DEF StoredAlone
<1>8. Erased'
  BY <1>1, <1>3 DEF Store, Erased, InFlight
<1>9. RemovesOwn'
  <2>1. ASSUME NEW s \in InFlight', req'[s].op = "remove", NEW k \in req'[s].keys \cup req'[s].touched
        PROVE  file'[k].listing \in {req'[s].listing, None}
    <3>1. s \in InFlight /\ s # r /\ k \in req[s].keys \cup req[s].touched /\ req[s].op = "remove"
      BY <1>3, <2>1 DEF InFlight
    <3>2. k \notin q.keys /\ k \in Keys
      BY <1>4, <3>1 DEF TypeOK, Request, InFlight
    <3>3. QED
      BY <1>3, <1>5, <3>1, <3>2 DEF Store, RemovesOwn, InFlight
  <2>2. QED
    BY <2>1 DEF RemovesOwn
<1>10. StoreAgrees'
  <2>1. ASSUME NEW k \in Keys \ strays'
        PROVE  \/ \E s \in InFlight' : k \in req'[s].touched
               \/ /\ file'[k].listing # None => k \in objects'
                  /\ k \in objects' => file'[k] # NoFile
    <3>1. CASE k \in q.keys
      BY <1>1, <1>4, <1>5, <3>1
    <3>2. CASE k \notin q.keys
      BY <1>1, <1>2, <1>3, <1>5, <2>1, <3>2 DEF Store, StoreAgrees, InFlight, q
    <3>3. QED
      BY <3>1, <3>2
  <2>2. QED
    BY <2>1 DEF StoreAgrees
<1>11. QED
  BY <1>6, <1>7, <1>8, <1>9, <1>10 DEF Store

LEMMA DropStore ==
  ASSUME TypeOK, RequestsSound, Store, NEW r \in Requests, Drop(r)
  PROVE  Store'
<1> DEFINE q == req[r]
<1>1. /\ q.stage = "erased" /\ Done(r) /\ UNCHANGED <<objects, strays>>
      /\ file' = [k \in Keys |-> IF k \in q.keys THEN NoFile ELSE file[k]]
  BY DEF Drop
<1>2. /\ q.op = "drop" /\ q.keys = q.touched /\ q.touched \cap objects = {}
  <2>1. q.op = "drop" /\ q.keys = q.touched
    BY <1>1 DEF RequestsSound, Sound
  <2>2. QED
    BY <1>1, <2>1 DEF Store, Erased, InFlight
<1>3. \A s \in Requests :
        /\ req'[s].stage = IF s = r THEN "done" ELSE req[s].stage
        /\ req'[s].keys = req[s].keys /\ req'[s].touched = req[s].touched
        /\ req'[s].op = req[s].op /\ req'[s].listing = req[s].listing
  BY <1>1, DoneFields
<1>4. \A k \in Keys : file'[k] = IF k \in q.keys THEN NoFile ELSE file[k]
  BY <1>1
<1>5. NoFile.listing = None
  BY DEF NoFile
<1> HIDE DEF q
<1>6. KeysUsed'
  BY <1>3, <1>4 DEF Store, KeysUsed
<1>7. StoredAlone'
  <2>1. \A s \in Requests : req[s].keys \subseteq Keys
    BY DEF TypeOK, Request
  <2>2. QED
    BY <1>1, <1>3, <1>4, <2>1 DEF Store, StoredAlone
<1>8. Erased'
  BY <1>1, <1>3 DEF Store, Erased, InFlight
<1>9. RemovesOwn'
  <2>1. \A s \in Requests : req[s].keys \cup req[s].touched \subseteq Keys
    BY DEF TypeOK, Request
  <2>2. QED
    BY <1>3, <1>4, <1>5, <2>1 DEF Store, RemovesOwn, InFlight
<1>10. StoreAgrees'
  <2>1. ASSUME NEW k \in Keys \ strays'
        PROVE  \/ \E s \in InFlight' : k \in req'[s].touched
               \/ /\ file'[k].listing # None => k \in objects'
                  /\ k \in objects' => file'[k] # NoFile
    <3>1. CASE k \in q.keys
      BY <1>1, <1>2, <1>4, <1>5, <3>1
    <3>2. CASE k \notin q.keys
      BY <1>1, <1>2, <1>3, <1>4, <2>1, <3>2 DEF Store, StoreAgrees, InFlight, q
    <3>3. QED
      BY <3>1, <3>2
  <2>2. QED
    BY <2>1 DEF StoreAgrees
<1>11. QED
  BY <1>6, <1>7, <1>8, <1>9, <1>10 DEF Store

(* A removal deletes the rows of what it erased, lets go of the others it  *)
(* saw, and what the cascade takes is a stray.                             *)
LEMMA RemoveStore ==
  ASSUME TypeOK, RequestsSound, Store, NEW r \in Requests, Remove(r), ~RollBack(r)
  PROVE  Store'
<1> DEFINE q     == req[r]
           l     == q.listing
           taken == {k \in Keys \ (q.orphans \cup q.keys) : file[k].listing = l}
<1>1. /\ q.stage = "bare" /\ \A k \in q.orphans : file[k] # NoFile
      /\ file' = [k \in Keys |->
           IF k \in q.keys \cup taken THEN NoFile
           ELSE IF k \in q.orphans THEN [file[k] EXCEPT !.listing = None]
           ELSE file[k]]
      /\ strays' = strays \cup taken
      /\ Done(r)
      /\ UNCHANGED objects
  BY DEF Remove
<1>2. q.op = "remove" /\ q.keys \subseteq q.touched /\ q.keys \subseteq Keys /\ q.touched \subseteq Keys
  BY <1>1 DEF RequestsSound, Sound, TypeOK, Request
<1>3. /\ q.touched \cap objects = {}
      /\ \A k \in q.keys \cup q.touched : file[k].listing \in {l, None}
  BY <1>1, <1>2 DEF Store, Erased, RemovesOwn, InFlight
<1>4. \A s \in Requests :
        /\ req'[s].stage = IF s = r THEN "done" ELSE req[s].stage
        /\ req'[s].keys = req[s].keys /\ req'[s].touched = req[s].touched
        /\ req'[s].op = req[s].op /\ req'[s].listing = req[s].listing
  BY <1>1, DoneFields
<1>5. NoFile.listing = None
  BY DEF NoFile
<1>6. \A k \in Keys :
        \/ file'[k] = NoFile /\ k \in q.keys \cup taken
        \/ file'[k] # NoFile /\ file'[k].listing = None /\ file[k] # NoFile /\ k \in q.orphans
        \/ file'[k] = file[k] /\ k \notin q.keys \cup q.orphans \cup taken
  <2>1. ASSUME NEW k \in Keys, k \in q.orphans
        PROVE  LET f == [file[k] EXCEPT !.listing = None]
               IN  f # NoFile /\ f.listing = None
    <3>1. file[k] \in File
      BY <1>1, <2>1 DEF TypeOK
    <3>2. file[k].kind # None /\ [file[k] EXCEPT !.listing = None].kind = file[k].kind
      BY <3>1, ListingsAssumption DEF File
    <3>3. [file[k] EXCEPT !.listing = None].listing = None
      BY <3>1 DEF File
    <3>4. QED
      BY <3>2, <3>3 DEF NoFile
  <2>2. QED
    BY <1>1, <2>1
<1>7. \A k \in Keys : file[k] = NoFile => file'[k] = NoFile
  BY <1>6
<1>8. \A k \in taken : k \in strays'
  BY <1>1
<1> HIDE DEF q, taken, l
<1>9. KeysUsed'
  BY <1>4, <1>6 DEF Store, KeysUsed
<1>10. StoredAlone'
  <2>1. \A s \in Requests : req[s].keys \subseteq Keys
    BY DEF TypeOK, Request
  <2>2. QED
    BY <1>1, <1>4, <1>7, <2>1 DEF Store, StoredAlone
<1>11. Erased'
  BY <1>1, <1>4 DEF Store, Erased, InFlight
<1>12. RemovesOwn'
  <2>1. \A s \in Requests : req[s].keys \cup req[s].touched \subseteq Keys
    BY DEF TypeOK, Request
  <2>2. \A k \in Keys : file'[k].listing \in {file[k].listing, None}
    BY <1>5, <1>6
  <2>3. QED
    BY <1>4, <2>1, <2>2 DEF Store, RemovesOwn, InFlight
<1>13. StoreAgrees'
  <2>1. ASSUME NEW k \in Keys \ strays'
        PROVE  \/ \E s \in InFlight' : k \in req'[s].touched
               \/ /\ file'[k].listing # None => k \in objects'
                  /\ k \in objects' => file'[k] # NoFile
    <3>1. k \notin taken /\ k \in Keys \ strays
      BY <1>1, <1>8, <2>1
    <3>2. CASE k \in q.keys
      BY <1>1, <1>2, <1>3, <1>5, <1>6, <3>1, <3>2
    <3>3. CASE k \in q.orphans /\ k \notin q.keys
      BY <1>6, <3>1, <3>3
    <3>4. CASE k \notin q.keys \cup q.orphans
      <4>1. file'[k] = file[k]
        BY <1>6, <3>1, <3>4
      <4>2. CASE k \in q.touched
        <5>1. file[k].listing = None
          BY <1>3, <3>1, <3>4, <4>2 DEF taken
        <5>2. QED
          BY <1>1, <1>3, <4>1, <4>2, <5>1
      <4>3. CASE k \notin q.touched
        BY <1>1, <1>4, <3>1, <4>1, <4>3 DEF Store, StoreAgrees, InFlight, q
      <4>4. QED
        BY <4>2, <4>3
    <3>5. QED
      BY <3>2, <3>3, <3>4
  <2>2. QED
    BY <2>1 DEF StoreAgrees
<1>14. QED
  BY <1>9, <1>10, <1>11, <1>12, <1>13 DEF Store

(* Deleting a profile takes rows of documents away, and counts their keys  *)
(* as strays.                                                              *)
LEMMA DeletionStore ==
  ASSUME TypeOK, Store, NEW u \in Users, DeleteProfile(u)
  PROVE  Store'
<1>1. UNCHANGED <<objects, req>>
  BY DeletionKeeps
<1>2. /\ strays \subseteq strays'
      /\ \A k \in Keys : file'[k] \in {file[k], NoFile} /\ (file'[k] # file[k] => k \in strays')
  BY DeletionFiles
<1>3. KeysUsed' /\ StoredAlone'
  <2>1. \A r \in Requests : req[r].stage = "stored" => req[r].keys \subseteq Keys
    BY DEF TypeOK, Request
  <2>2. QED
    BY <1>1, <1>2, <2>1 DEF Store, KeysUsed, StoredAlone
<1>4. Erased' /\ RemovesOwn'
  <2>1. \A r \in Requests : req[r].keys \cup req[r].touched \subseteq Keys
    BY DEF TypeOK, Request
  <2>2. NoFile.listing = None
    BY DEF NoFile
  <2>3. QED
    BY <1>1, <1>2, <2>1, <2>2 DEF Store, Erased, RemovesOwn, InFlight
<1>5. StoreAgrees'
  BY <1>1, <1>2 DEF Store, StoreAgrees, InFlight
<1>6. QED
  BY <1>3, <1>4, <1>5 DEF Store

LEMMA NextStore == TypeOK /\ RequestsSound /\ Store /\ [Next]_vars => Store'
<1> SUFFICES ASSUME TypeOK, RequestsSound, Store, [Next]_vars PROVE Store'
  OBVIOUS
<1>1. CASE UNCHANGED vars
  BY <1>1, PlainStore DEF vars
<1>2. CASE Plain
  BY <1>2, PlainTypes, PlainStore DEF Plain
<1>3. ASSUME NEW r \in Requests, RollBack(r)
      PROVE  Store'
  BY <1>3, EndStore DEF RollBack
<1>4. ASSUME NEW r \in Requests, Review(r) \/ AddFavorite(r), ~RollBack(r)
      PROVE  Store'
  <2>1. req[r].touched = {}
    BY <1>4 DEF Review, AddFavorite, RequestsSound, Sound
  <2>2. Done(r) /\ UNCHANGED <<file, objects, strays>>
    BY <1>4 DEF Review, AddFavorite
  <2>3. QED
    BY <2>1, <2>2, EndStore
<1>5. CASE \E r \in Requests, k \in Keys : Put(r, k) \/ EraseFile(r, k) \/ EraseImage(r, k)
  BY <1>5, PutStore, EraseStore
<1>6. CASE \E r \in Requests, u \in Users, l \in Listings : Starting(r, u, l)
  BY <1>6, StartingStore
<1>7. CASE \E r \in Requests : ErasedAll(r) \/ RollBack(r) \/ (Commits(r) /\ ~RollBack(r))
  BY <1>3, <1>4, <1>7, MoveStore, UploadStore, DropStore, RemoveStore DEF Commits
<1>8. CASE \E u \in Users : DeleteProfile(u)
  BY <1>8, DeletionStore
<1>9. QED
  BY <1>1, <1>2, <1>5, <1>6, <1>7, <1>8, StepKinds

(* Rows and objects agree but for strays and what requests are at. *)
THEOREM StoreAgreesHolds == Spec => []StoreAgrees
<1>1. Init => Store
  BY DEF Init, Store, KeysUsed, StoredAlone, Erased, RemovesOwn, StoreAgrees, InFlight, Idle, NoFile
<1>2. Store => StoreAgrees
  BY DEF Store
<1>3. QED
  BY <1>1, <1>2, NextStore, TypesAndRequests, PTL DEF Spec

----------------------------------------------------------------------------
(* New entries *)

(* A write to one row, and an entry that is added to its history. *)
Entered(m, row, e) ==
  /\ listing' = [listing EXCEPT ![m] = row]
  /\ history' = [history EXCEPT ![m] = Append(@, e)]

LEMMA OneEntry ==
  ASSUME TypeOK, NEW l \in Listings, NEW row \in Row, NEW e \in Entry, Entered(l, row, e)
  PROVE  /\ listing'[l] = row
         /\ \A m \in Listings : m # l => listing'[m] = listing[m] /\ history'[m] = history[m]
         /\ Len(history'[l]) = Len(history[l]) + 1
         /\ \A i \in 1..Len(history[l]) : history'[l][i] = history[l][i]
         /\ history'[l][Len(history[l]) + 1] = e
<1>1. history[l] \in Seq(Entry) /\ listing'[l] = row /\ history'[l] = Append(history[l], e)
      /\ \A m \in Listings : m # l => listing'[m] = listing[m] /\ history'[m] = history[m]
  BY DEF TypeOK, Entered
<1>2. QED
  BY <1>1

(* What a review writes, and a document that resubmits its listing. *)
LEMMA ReviewWrites ==
  ASSUME TypeOK, RequestsSound, NEW r \in Requests, Review(r), ~RollBack(r)
  PROVE  \E l \in Listings :
           /\ l = req[r].listing /\ Exists(l) /\ r \in InFlight /\ Done(r)
           /\ req[r].op = "review" /\ req[r].by \in Admins \cap present
           /\ UNCHANGED <<file, favourites, slotted, present>>
           /\ Reviewed(req[r], listing[l]) \in Row
           /\ [previous |-> req[r].status, new |-> req[r].verdict, reviewed_by |-> req[r].by] \in Entry
           /\ listing' = [listing EXCEPT ![l] = Reviewed(req[r], listing[l])]
           /\ history' = [history EXCEPT ![l] = Append(@,
                [previous |-> req[r].status, new |-> req[r].verdict, reviewed_by |-> req[r].by])]
<1>1. /\ req[r].stage = "ready" /\ req[r].op = "review" /\ Exists(req[r].listing) /\ Done(r)
      /\ req[r].by \in present /\ UNCHANGED <<file, favourites, slotted, present>>
      /\ listing' = [listing EXCEPT ![req[r].listing] = Reviewed(req[r], @)]
      /\ history' = [history EXCEPT ![req[r].listing] = Append(@,
           [previous |-> req[r].status, new |-> req[r].verdict, reviewed_by |-> req[r].by])]
  BY DEF Review, Record
<1>2. /\ req[r].listing \in Listings /\ req[r].by \in Admins /\ req[r].verdict \in Verdicts
      /\ req[r].status \in Verdicts /\ r \in InFlight
  BY <1>1 DEF RequestsSound, Sound, InFlight
<1>3. listing[req[r].listing] \in Row
  BY <1>1, <1>2, ExistingIsRow
<1>4. Reviewed(req[r], listing[req[r].listing]) \in Row
  BY <1>1, <1>3, ReviewedIsRow
<1>5. [previous |-> req[r].status, new |-> req[r].verdict, reviewed_by |-> req[r].by] \in Entry
  BY <1>2 DEF Entry
<1>6. listing' = [listing EXCEPT ![req[r].listing] = Reviewed(req[r], listing[req[r].listing])]
  BY <1>1
<1>7. QED
  BY <1>1, <1>2, <1>4, <1>5, <1>6

LEMMA ResubmissionWrites ==
  ASSUME TypeOK, RequestsSound, NEW r \in Requests, Upload(r), ~RollBack(r),
         req[r].status = "REJECTED"
  PROVE  \E l \in Listings :
           /\ l = req[r].listing /\ Exists(l) /\ r \in InFlight /\ Done(r) /\ req[r].op = "document"
           /\ [listing[l] EXCEPT !.status = "PENDING"] \in Row
           /\ [previous |-> "REJECTED", new |-> "PENDING", reviewed_by |-> None] \in Entry
           /\ listing' = [listing EXCEPT ![l] = [listing[l] EXCEPT !.status = "PENDING"]]
           /\ history' = [history EXCEPT ![l] = Append(@,
                [previous |-> "REJECTED", new |-> "PENDING", reviewed_by |-> None])]
<1>1. /\ req[r].stage = "stored" /\ Exists(req[r].listing) /\ Done(r)
      /\ Record(req[r].listing, "REJECTED", "PENDING", None)
      /\ listing' = [listing EXCEPT ![req[r].listing].status = "PENDING"]
  BY DEF Upload
<1>2. req[r].listing \in Listings /\ req[r].op \in Kinds /\ r \in InFlight
  BY <1>1 DEF RequestsSound, Sound, InFlight
<1>3. req[r].op = "document"
  <2>1. req[r].op = "image" => req[r].status = None
    BY <1>1 DEF RequestsSound, Sound
  <2>2. QED
    BY <1>2, <2>1, ListingsAssumption DEF Kinds, Verdicts
<1>4. listing[req[r].listing] \in Row
  BY <1>1, <1>2, ExistingIsRow
<1>5. [listing[req[r].listing] EXCEPT !.status = "PENDING"] \in Row
  BY <1>4 DEF Row, Verdicts
<1>6. [previous |-> "REJECTED", new |-> "PENDING", reviewed_by |-> None] \in Entry
  BY DEF Entry, Verdicts
<1>7. QED
  BY <1>1, <1>2, <1>3, <1>5, <1>6 DEF Record

----------------------------------------------------------------------------
(* Removed listings *)

(* What refers to a listing, and what refers to a profile. *)
ListingsKept ==
  \A l \in Listings :
    ~Exists(l) => /\ l \notin slotted /\ favourites[l] = {} /\ history[l] = <<>>
                  /\ \A k \in Keys : file[k].listing # l

RowKept(l) ==
  /\ Exists(l) => Landlord(l) \in present
  /\ favourites[l] \subseteq present
  /\ listing[l].verified_by \in present \cup {None}

EntriesKept(l) == \A i \in 1..Len(history[l]) : history[l][i].reviewed_by \in present \cup {None}

FilesKept == \A k \in Keys : file[k].kind = "document" => file[k].uploaded_by \in present

ProfilesKept == (\A l \in Listings : RowKept(l) /\ EntriesKept(l)) /\ FilesKept

LEMMA DanglesParts == NothingDangles <=> ListingsKept /\ ProfilesKept
  BY DEF NothingDangles, ListingsKept, ProfilesKept, RowKept, EntriesKept, FilesKept

(* What a removal leaves: no file names the listing, the others lose theirs *)
(* at most.                                                                *)
LEMMA RemoveFiles ==
  ASSUME TypeOK, NEW r \in Requests, Remove(r), ~RollBack(r), NEW k \in Keys
  PROVE  /\ file'[k].listing # req[r].listing \/ file'[k].listing = None
         /\ file'[k].listing \in {file[k].listing, None}
<1> DEFINE q     == req[r]
           taken == {j \in Keys \ (q.orphans \cup q.keys) : file[j].listing = q.listing}
<1>1. /\ \A j \in q.orphans : file[j] # NoFile
      /\ file'[k] = IF k \in q.keys \cup taken THEN NoFile
                    ELSE IF k \in q.orphans THEN [file[k] EXCEPT !.listing = None]
                    ELSE file[k]
  BY DEF Remove
<1>2. k \in q.orphans => [file[k] EXCEPT !.listing = None].listing = None
  BY <1>1 DEF TypeOK, File
<1>3. QED
  BY <1>1, <1>2 DEF NoFile

LEMMA NextListingsKept == TypeOK /\ RequestsSound /\ ListingsKept /\ [Next]_vars => ListingsKept'
<1> SUFFICES ASSUME TypeOK, RequestsSound, ListingsKept, [Next]_vars PROVE ListingsKept'
  OBVIOUS
<1>1. CASE UNCHANGED <<listing, history, file, favourites, slotted>>
  BY <1>1 DEF ListingsKept, Exists
<1>2. ASSUME NEW l \in Listings, OfferSlots(l)
      PROVE  ListingsKept'
  BY <1>2 DEF OfferSlots, ListingsKept, Exists
<1>3. ASSUME NEW l \in Listings, NEW p \in {"DRAFT", "ACTIVE"},
             CreateListing(l, p) \/ \E u \in Users : UpdateListing(u, l, p)
      PROVE  ListingsKept'
  <2>1. \A m \in Listings : m # l => listing'[m] = listing[m]
    BY <1>3 DEF CreateListing, UpdateListing, TypeOK
  <2>2. Exists(l)'
    <3>1. CASE CreateListing(l, p)
      BY <3>1 DEF CreateListing, Exists, Fresh, TypeOK
    <3>2. ASSUME NEW u \in Users, UpdateListing(u, l, p)
          PROVE  Exists(l)'
      <4>1. listing[l] \in Row
        BY <3>2, ExistingIsRow DEF UpdateListing
      <4>2. listing'[l] = [listing[l] EXCEPT !.publication = p]
        BY <3>2 DEF UpdateListing, TypeOK
      <4>3. QED
        BY <4>1, <4>2 DEF Row, Exists
    <3>3. QED
      BY <1>3, <3>1, <3>2
  <2>3. UNCHANGED <<history, file, favourites, slotted>>
    BY <1>3 DEF CreateListing, UpdateListing
  <2>4. QED
    BY <2>1, <2>2, <2>3 DEF ListingsKept, Exists
<1>4. ASSUME NEW l \in Listings, NEW u \in Users, RemoveFavorite(u, l)
      PROVE  ListingsKept'
  BY <1>4 DEF RemoveFavorite, ListingsKept, Exists, TypeOK
<1>5. ASSUME NEW r \in Requests, Upload(r), ~RollBack(r)
      PROVE  ListingsKept'
  <2> DEFINE q == req[r]
  <2>1. PICK l \in Listings :
        /\ l = q.listing /\ Exists(l) /\ UNCHANGED <<favourites, slotted>>
        /\ file' = [k \in Keys |-> IF k \notin q.keys THEN file[k] ELSE
                      [kind |-> q.op, listing |-> l, uploaded_by |-> q.by]]
        /\ \/ UNCHANGED <<listing, history>>
           \/ /\ Record(l, "REJECTED", "PENDING", None)
              /\ listing' = [listing EXCEPT ![l].status = "PENDING"]
    BY <1>5 DEF Upload, RequestsSound, Sound
  <2>2. \A k \in Keys : file'[k].listing \in {file[k].listing, l}
    BY <2>1
  <2>3. /\ \A m \in Listings : m # l => listing'[m] = listing[m] /\ history'[m] = history[m]
        /\ Exists(l)'
    <3>1. listing[l] \in Row
      BY <2>1, ExistingIsRow
    <3>2. CASE UNCHANGED <<listing, history>>
      BY <2>1, <3>2 DEF Exists
    <3>3. CASE /\ Record(l, "REJECTED", "PENDING", None)
               /\ listing' = [listing EXCEPT ![l].status = "PENDING"]
      BY <2>1, <3>1, <3>3 DEF Exists, Record, TypeOK, Row
    <3>4. QED
      BY <2>1, <3>2, <3>3
  <2> HIDE DEF q
  <2>4. QED
    BY <2>1, <2>2, <2>3 DEF ListingsKept, Exists
<1>6. ASSUME NEW r \in Requests, Drop(r)
      PROVE  ListingsKept'
  <2>1. \A k \in Keys : file'[k].listing \in {file[k].listing, None}
    BY <1>6 DEF Drop, NoFile
  <2>2. UNCHANGED <<listing, history, favourites, slotted>>
    BY <1>6 DEF Drop
  <2>3. QED
    BY <2>1, <2>2, ListingsAssumption DEF ListingsKept, Exists
<1>7. ASSUME NEW r \in Requests, Remove(r), ~RollBack(r)
      PROVE  ListingsKept'
  <2> DEFINE l == req[r].listing
  <2>1. l \in Listings
    BY <1>7 DEF Remove, RequestsSound, Sound
  <2>2. /\ listing' = [listing EXCEPT ![l] = Removed] /\ slotted' = slotted \ {l}
        /\ favourites' = [favourites EXCEPT ![l] = {}] /\ history' = [history EXCEPT ![l] = <<>>]
    BY <1>7 DEF Remove
  <2> HIDE DEF l
  <2>3. /\ l \notin slotted' /\ favourites'[l] = {} /\ history'[l] = <<>>
        /\ \A m \in Listings : m # l =>
             /\ listing'[m] = listing[m] /\ favourites'[m] = favourites[m] /\ history'[m] = history[m]
             /\ m \in slotted' => m \in slotted
    BY <2>1, <2>2 DEF TypeOK
  <2>4. \A k \in Keys : file'[k].listing # l /\ file'[k].listing \in {file[k].listing, None}
    BY <1>7, <2>1, RemoveFiles, ListingsAssumption DEF l
  <2>5. QED
    BY <2>3, <2>4, ListingsAssumption DEF ListingsKept, Exists
<1>8. ASSUME NEW r \in Requests, Review(r), ~RollBack(r)
      PROVE  ListingsKept'
  <2> DEFINE q == req[r]
  <2>1. PICK l \in Listings :
        /\ q.stage = "ready" /\ q.op = "review" /\ l = q.listing /\ Exists(l)
        /\ listing' = [listing EXCEPT ![l] = Reviewed(q, @)]
        /\ UNCHANGED <<file, favourites, slotted>>
        /\ history' = [history EXCEPT ![l] =
             Append(@, [previous |-> q.status, new |-> q.verdict, reviewed_by |-> q.by])]
    BY <1>8 DEF Review, RequestsSound, Sound, Record
  <2>2. listing[l] \in Row /\ Reviewed(q, listing[l]) \in Row
    BY <2>1, ExistingIsRow, ReviewedIsRow
  <2>3. Exists(l)'
    BY <2>1, <2>2 DEF TypeOK, Exists, Row
  <2>4. \A m \in Listings : m # l => listing'[m] = listing[m] /\ history'[m] = history[m]
    BY <2>1 DEF TypeOK
  <2> HIDE DEF q
  <2>5. QED
    BY <2>1, <2>3, <2>4 DEF ListingsKept, Exists
<1>9. ASSUME NEW r \in Requests, AddFavorite(r), ~RollBack(r)
      PROVE  ListingsKept'
  <2>1. /\ Exists(req[r].listing) /\ UNCHANGED <<listing, history, file, slotted>>
        /\ favourites' = [favourites EXCEPT ![req[r].listing] = @ \cup {req[r].by}]
    BY <1>9 DEF AddFavorite
  <2>2. \A l \in Listings : ~Exists(l) => favourites'[l] = favourites[l]
    BY <2>1 DEF TypeOK
  <2>3. QED
    BY <2>1, <2>2 DEF ListingsKept, Exists
<1>10. CASE UNCHANGED vars
  BY <1>1, <1>10 DEF vars
<1>11. CASE Plain
  BY <1>2, <1>3, <1>4, <1>11 DEF Plain
<1>12. ASSUME NEW r \in Requests, NEW u \in Users, NEW l \in Listings, Starting(r, u, l)
       PROVE  ListingsKept'
  BY <1>1, <1>12, StartingHolds DEF Reads
<1>13. ASSUME NEW r \in Requests, NEW k \in Keys, Put(r, k) \/ EraseFile(r, k) \/ EraseImage(r, k)
       PROVE  ListingsKept'
  BY <1>1, <1>13 DEF Put, EraseFile, EraseImage, Erase, Bucket
<1>14. ASSUME NEW r \in Requests, ErasedAll(r) \/ RollBack(r) \/ (SelectDependants(r) /\ ~RollBack(r))
       PROVE  ListingsKept'
  BY <1>1, <1>14 DEF ErasedAll, RollBack, SelectDependants, Reads
<1>15. CASE \E r \in Requests : ErasedAll(r) \/ RollBack(r) \/ (Commits(r) /\ ~RollBack(r))
  BY <1>5, <1>6, <1>7, <1>8, <1>9, <1>14, <1>15 DEF Commits
<1>16. ASSUME NEW u \in Users, DeleteProfile(u)
       PROVE  ListingsKept'
  <2>1. UNCHANGED <<favourites, slotted>>
    BY <1>16, DeletionKeeps
  <2>2. \A l \in Listings : Exists(l)' = Exists(l)
    BY <1>16, DeletionRows DEF Exists
  <2>3. ASSUME NEW l \in Listings, history[l] = <<>>
        PROVE  history'[l] = <<>>
    <3>1. history'[l] \in Seq(Entry) /\ Len(history'[l]) = 0
      BY <1>16, <2>3, DeletionEntries
    <3>2. QED
      BY <3>1
  <2>4. \A k \in Keys : file'[k] \in {file[k], NoFile}
    BY <1>16, DeletionFiles
  <2>5. NoFile.listing = None
    BY DEF NoFile
  <2>6. QED
    BY <2>1, <2>2, <2>3, <2>4, <2>5, ListingsAssumption DEF ListingsKept
<1>17. QED
  BY <1>10, <1>11, <1>12, <1>13, <1>15, <1>16, StepKinds

(* A row, or its entries, that a step leaves as they are. *)
LEMMA SameKept ==
  ASSUME ProfilesKept, present' = present, NEW l \in Listings,
         listing'[l].verified_by = listing[l].verified_by,
         Exists(l)' => Exists(l), favourites'[l] \subseteq favourites[l]
  PROVE  RowKept(l)'
  BY DEF ProfilesKept, RowKept

LEMMA SameEntriesKept ==
  ASSUME ProfilesKept, present' = present, NEW l \in Listings, history'[l] = history[l]
  PROVE  EntriesKept(l)'
  BY DEF ProfilesKept, EntriesKept

LEMMA SameFilesKept ==
  ASSUME ProfilesKept, present' = present,
         \A k \in Keys : /\ file'[k].kind = "document" =>
                              file[k].kind = "document" /\ file'[k].uploaded_by = file[k].uploaded_by
  PROVE  FilesKept'
  BY DEF ProfilesKept, FilesKept

(* Entries that are kept, and one more by somebody who is there. *)
LEMMA EntryKept ==
  ASSUME TypeOK, ProfilesKept, present' = present, NEW m \in Listings, NEW row \in Row,
         NEW e \in Entry, Entered(m, row, e), e.reviewed_by \in present \cup {None}, NEW l \in Listings
  PROVE  EntriesKept(l)'
<1>1. CASE l = m
  <2>1. /\ Len(history'[m]) = Len(history[m]) + 1
        /\ \A i \in 1..Len(history[m]) : history'[m][i] = history[m][i]
        /\ history'[m][Len(history[m]) + 1] = e
    BY OneEntry
  <2>2. Len(history[m]) \in Nat
    BY DEF TypeOK
  <2>3. \A i \in 1..(Len(history[m]) + 1) : i \in 1..Len(history[m]) \/ i = Len(history[m]) + 1
    BY <2>2
  <2>4. QED
    BY <1>1, <2>1, <2>3 DEF ProfilesKept, EntriesKept
<1>2. CASE l # m
  BY <1>2, OneEntry, SameEntriesKept
<1>3. QED
  BY <1>1, <1>2

LEMMA ReviewedBy ==
  ASSUME NEW q, NEW row \in Row
  PROVE  /\ Reviewed(q, row).publication = row.publication
         /\ Reviewed(q, row).verified_by \in {q.by, row.verified_by, None}
<1>1. \A status, at, by :
        LET x == [row EXCEPT !.status = status, !.verified_at = at, !.verified_by = by]
        IN  x.verified_by = by /\ x.publication = row.publication
  BY DEF Row
<1>2. QED
  BY <1>1 DEF Reviewed

LEMMA NextProfilesKept == TypeOK /\ RequestsSound /\ ProfilesKept /\ [Next]_vars => ProfilesKept'
<1> SUFFICES ASSUME TypeOK, RequestsSound, ProfilesKept, [Next]_vars PROVE ProfilesKept'
  OBVIOUS
<1>1. CASE UNCHANGED <<listing, history, file, favourites, present>>
  BY <1>1 DEF ProfilesKept, RowKept, EntriesKept, FilesKept, Exists
<1>2. ASSUME NEW m \in Listings, NEW p \in {"DRAFT", "ACTIVE"}, CreateListing(m, p)
      PROVE  ProfilesKept'
  <2>1. /\ UNCHANGED <<history, file, favourites, present>> /\ Landlord(m) \in present
        /\ \A l \in Listings : listing'[l] = IF l = m THEN Fresh(p) ELSE listing[l]
    BY <1>2 DEF CreateListing, TypeOK
  <2>2. Fresh(p).verified_by = None
    BY DEF Fresh
  <2>3. \A l \in Listings : RowKept(l)'
    BY <2>1, <2>2 DEF ProfilesKept, RowKept, Exists
  <2>4. QED
    BY <2>1, <2>3 DEF ProfilesKept, EntriesKept, FilesKept
<1>3. ASSUME NEW m \in Listings, NEW p \in {"DRAFT", "ACTIVE"}, NEW u \in Users, UpdateListing(u, m, p)
      PROVE  ProfilesKept'
  <2>1. /\ UNCHANGED <<history, file, favourites, present>> /\ Exists(m)
        /\ \A l \in Listings : listing'[l] = IF l = m THEN [listing[m] EXCEPT !.publication = p]
                                             ELSE listing[l]
    BY <1>3 DEF UpdateListing, TypeOK
  <2>2. [listing[m] EXCEPT !.publication = p].verified_by = listing[m].verified_by
    BY <2>1, ExistingIsRow DEF Row
  <2>3. \A l \in Listings : RowKept(l)'
    BY <2>1, <2>2 DEF ProfilesKept, RowKept, Exists
  <2>4. QED
    BY <2>1, <2>3 DEF ProfilesKept, EntriesKept, FilesKept
<1>4. ASSUME NEW m \in Listings, OfferSlots(m) \/ \E u \in Users : RemoveFavorite(u, m)
      PROVE  ProfilesKept'
  <2>1. /\ UNCHANGED <<listing, history, file, present>>
        /\ \A l \in Listings : favourites'[l] \subseteq favourites[l]
    BY <1>4 DEF OfferSlots, RemoveFavorite, TypeOK
  <2>2. \A l \in Listings : RowKept(l)'
    BY <2>1, SameKept DEF Exists
  <2>3. QED
    BY <2>1, <2>2 DEF ProfilesKept, EntriesKept, FilesKept
<1>5. ASSUME NEW r \in Requests, Upload(r), ~RollBack(r)
      PROVE  ProfilesKept'
  <2> DEFINE q == req[r]
  <2>1. /\ UNCHANGED <<favourites, present>> /\ (q.op = "document" => q.by \in present)
        /\ file' = [k \in Keys |-> IF k \notin q.keys THEN file[k] ELSE
                      [kind |-> q.op, listing |-> q.listing, uploaded_by |-> q.by]]
        /\ q.status # "REJECTED" => UNCHANGED <<listing, history>>
    BY <1>5 DEF Upload
  <2>2. FilesKept'
    BY <2>1 DEF FilesKept, ProfilesKept
  <2>3. CASE q.status # "REJECTED"
    BY <2>1, <2>2, <2>3 DEF ProfilesKept, RowKept, EntriesKept, Exists
  <2>4. CASE q.status = "REJECTED"
    <3> DEFINE e == [previous |-> "REJECTED", new |-> "PENDING", reviewed_by |-> None]
    <3>1. PICK m \in Listings :
            /\ Exists(m) /\ [listing[m] EXCEPT !.status = "PENDING"] \in Row /\ e \in Entry
            /\ listing' = [listing EXCEPT ![m] = [listing[m] EXCEPT !.status = "PENDING"]]
            /\ history' = [history EXCEPT ![m] = Append(@, e)]
      BY <1>5, <2>4, ResubmissionWrites
    <3> DEFINE row == [listing[m] EXCEPT !.status = "PENDING"]
    <3>2. row \in Row /\ Entered(m, row, e) /\ e.reviewed_by = None
      BY <3>1 DEF Entered
    <3>3. row.verified_by = listing[m].verified_by
      BY <3>1, ExistingIsRow DEF Row
    <3> HIDE DEF e, row
    <3>4. \A l \in Listings : listing'[l] = IF l = m THEN row ELSE listing[l]
      BY <3>1, <3>2 DEF TypeOK, Entered
    <3>5. \A l \in Listings : RowKept(l)'
      BY <2>1, <3>1, <3>3, <3>4, SameKept DEF Exists
    <3>6. \A l \in Listings : EntriesKept(l)'
      BY <2>1, <3>1, <3>2, EntryKept
    <3>7. QED
      BY <2>2, <3>5, <3>6 DEF ProfilesKept
  <2>5. QED
    BY <2>3, <2>4
<1>6. ASSUME NEW r \in Requests, Drop(r)
      PROVE  ProfilesKept'
  <2>1. UNCHANGED <<listing, history, favourites, present>> /\ \A k \in Keys : file'[k] \in {file[k], NoFile}
    BY <1>6 DEF Drop
  <2>2. NoFile.kind # "document"
    BY ListingsAssumption DEF NoFile, Kinds
  <2>3. FilesKept'
    BY <2>1, <2>2, SameFilesKept
  <2>4. QED
    BY <2>1, <2>3 DEF ProfilesKept, RowKept, EntriesKept, Exists
<1>7. ASSUME NEW r \in Requests, Remove(r), ~RollBack(r)
      PROVE  ProfilesKept'
  <2> DEFINE m == req[r].listing
  <2>1. /\ present' = present /\ listing' = [listing EXCEPT ![m] = Removed]
        /\ favourites' = [favourites EXCEPT ![m] = {}] /\ history' = [history EXCEPT ![m] = <<>>]
        /\ \A k \in req[r].orphans : file[k] # NoFile
        /\ \A k \in Keys : \/ file'[k] \in {file[k], NoFile}
                           \/ k \in req[r].orphans /\ file'[k] = [file[k] EXCEPT !.listing = None]
    BY <1>7 DEF Remove
  <2>2. Removed.verified_by = None /\ Removed.publication = "removed" /\ NoFile.kind # "document"
    BY ListingsAssumption DEF NoFile, Kinds, Removed, Fresh
  <2> HIDE DEF m
  <2>3. ASSUME NEW f \in File
        PROVE  [f EXCEPT !.listing = None].kind = f.kind /\ [f EXCEPT !.listing = None].uploaded_by = f.uploaded_by
    BY DEF File
  <2>4. \A k \in Keys : file[k] # NoFile => file[k] \in File
    BY DEF TypeOK
  <2>5. FilesKept'
    BY <2>1, <2>2, <2>3, <2>4, SameFilesKept
  <2>6. \A l \in Listings : RowKept(l)' /\ EntriesKept(l)'
    BY <2>1, <2>2 DEF ProfilesKept, RowKept, EntriesKept, Exists, TypeOK
  <2>7. QED
    BY <2>5, <2>6 DEF ProfilesKept
<1>8. ASSUME NEW r \in Requests, Review(r), ~RollBack(r)
      PROVE  ProfilesKept'
  <2> DEFINE e == [previous |-> req[r].status, new |-> req[r].verdict, reviewed_by |-> req[r].by]
  <2>1. PICK m \in Listings :
          /\ Exists(m) /\ req[r].by \in Admins \cap present
          /\ UNCHANGED <<file, favourites, slotted, present>>
          /\ Reviewed(req[r], listing[m]) \in Row /\ e \in Entry
          /\ listing' = [listing EXCEPT ![m] = Reviewed(req[r], listing[m])]
          /\ history' = [history EXCEPT ![m] = Append(@, e)]
    BY <1>8, ReviewWrites
  <2> DEFINE row == Reviewed(req[r], listing[m])
  <2>2. row \in Row /\ Entered(m, row, e) /\ e.reviewed_by \in present
    BY <2>1 DEF Entered
  <2>3. row.verified_by \in {req[r].by, listing[m].verified_by, None}
    BY <2>1, ExistingIsRow, ReviewedBy
  <2> HIDE DEF e, row
  <2>4. \A l \in Listings : listing'[l] = IF l = m THEN row ELSE listing[l]
    BY <2>1, <2>2 DEF TypeOK, Entered
  <2>5. \A l \in Listings : RowKept(l)'
    BY <2>1, <2>3, <2>4 DEF ProfilesKept, RowKept, Exists
  <2>6. \A l \in Listings : EntriesKept(l)'
    BY <2>1, <2>2, EntryKept
  <2>7. QED
    BY <2>1, <2>5, <2>6 DEF ProfilesKept, FilesKept
<1>9. ASSUME NEW r \in Requests, AddFavorite(r), ~RollBack(r)
      PROVE  ProfilesKept'
  <2>1. /\ UNCHANGED <<listing, history, file, present>> /\ req[r].by \in present
        /\ favourites' = [favourites EXCEPT ![req[r].listing] = @ \cup {req[r].by}]
    BY <1>9 DEF AddFavorite
  <2>2. \A l \in Listings : favourites'[l] \subseteq favourites[l] \cup {req[r].by}
    BY <2>1 DEF TypeOK
  <2>3. QED
    BY <2>1, <2>2 DEF ProfilesKept, RowKept, EntriesKept, FilesKept, Exists
<1>10. ASSUME NEW u \in Users, DeleteProfile(u)
       PROVE  ProfilesKept'
  <2>1. /\ favourites' = favourites /\ present' = present \ {u}
        /\ \A l \in Listings : u \notin favourites[l] /\ (Exists(l) => Landlord(l) # u)
    BY <1>10, DeletionKeeps
  <2>2. FilesKept'
    <3>1. \A k \in Keys : /\ file'[k] \in {file[k], NoFile}
                          /\ file'[k].kind = "document" => file'[k].uploaded_by # u
      BY <1>10, DeletionFiles
    <3>2. NoFile.kind # "document"
      BY ListingsAssumption DEF NoFile, Kinds
    <3>3. QED
      BY <2>1, <3>1, <3>2 DEF ProfilesKept, FilesKept
  <2>3. ASSUME NEW l \in Listings
        PROVE  RowKept(l)'
    <3>1. /\ listing'[l].publication = listing[l].publication
          /\ listing'[l].verified_by = Cleared(u, listing[l].verified_by)
      BY <1>10, DeletionRows
    <3>2. QED
      BY <2>1, <3>1 DEF ProfilesKept, RowKept, Exists, Cleared
  <2>4. ASSUME NEW l \in Listings
        PROVE  EntriesKept(l)'
    <3>1. /\ Len(history'[l]) = Len(history[l])
          /\ \A i \in 1..Len(history[l]) :
               history'[l][i].reviewed_by = Cleared(u, history[l][i].reviewed_by)
      BY <1>10, DeletionEntries
    <3>2. QED
      BY <2>1, <3>1 DEF ProfilesKept, EntriesKept, Cleared
  <2>5. QED
    BY <2>2, <2>3, <2>4 DEF ProfilesKept
<1>11. CASE UNCHANGED vars
  BY <1>1, <1>11 DEF vars
<1>12. CASE Plain
  BY <1>2, <1>3, <1>4, <1>12 DEF Plain
<1>13. ASSUME NEW r \in Requests, NEW u \in Users, NEW l \in Listings, Starting(r, u, l)
       PROVE  ProfilesKept'
  BY <1>1, <1>13, StartingHolds DEF Reads
<1>14. ASSUME NEW r \in Requests, NEW k \in Keys, Put(r, k) \/ EraseFile(r, k) \/ EraseImage(r, k)
       PROVE  ProfilesKept'
  BY <1>1, <1>14 DEF Put, EraseFile, EraseImage, Erase, Bucket
<1>15. ASSUME NEW r \in Requests, ErasedAll(r) \/ RollBack(r) \/ (SelectDependants(r) /\ ~RollBack(r))
       PROVE  ProfilesKept'
  BY <1>1, <1>15 DEF ErasedAll, RollBack, SelectDependants, Reads
<1>16. CASE \E r \in Requests : ErasedAll(r) \/ RollBack(r) \/ (Commits(r) /\ ~RollBack(r))
  BY <1>5, <1>6, <1>7, <1>8, <1>9, <1>15, <1>16 DEF Commits
<1>17. QED
  BY <1>10, <1>11, <1>12, <1>13, <1>14, <1>16, StepKinds

(* Nothing refers to a listing or a profile that is gone, whatever         *)
(* overlapped.                                                             *)
THEOREM NothingDanglesHolds == Spec => []NothingDangles
<1>1. Init => NothingDangles
  <2> SUFFICES ASSUME Init PROVE NothingDangles
    OBVIOUS
  <2>1. ListingsKept /\ FilesKept
    BY ListingsAssumption DEF Init, ListingsKept, FilesKept, NoFile, Kinds
  <2>2. ASSUME NEW l \in Listings
        PROVE  RowKept(l) /\ EntriesKept(l)
    <3>1. /\ listing[l] = Unborn /\ history[l] = <<>> /\ favourites[l] = {}
          /\ ~Exists(l) /\ Unborn.verified_by = None
      BY <2>2 DEF Init, Exists, Unborn, Fresh
    <3>2. QED
      BY <3>1 DEF RowKept, EntriesKept
  <2>3. QED
    BY <2>1, <2>2, DanglesParts DEF ProfilesKept
<1>2. TypeOK /\ RequestsSound /\ NothingDangles /\ [Next]_vars => NothingDangles'
  <2>1. NothingDangles' <=> ListingsKept' /\ ProfilesKept'
    BY DEF NothingDangles, ListingsKept, ProfilesKept, RowKept, EntriesKept, FilesKept
  <2>2. QED
    BY <2>1, DanglesParts, NextListingsKept, NextProfilesKept
<1>3. QED
  BY <1>1, <1>2, TypesAndRequests, PTL DEF Spec

----------------------------------------------------------------------------
(* The limit of images *)

(* A part of a finite set is no larger. *)
LEMMA NoLarger ==
  ASSUME NEW S, IsFiniteSet(S), NEW T \in SUBSET S
  PROVE  IsFiniteSet(T) /\ Cardinality(S) \in Nat /\ Cardinality(T) \in Nat /\ Cardinality(T) <= Cardinality(S)
  BY FS_Subset, FS_CardinalityType

LEMMA AllFinite ==
  ASSUME NEW l
  PROVE  /\ IsFiniteSet(ImagesOf(l)) /\ IsFiniteSet(Uploading(l)) /\ IsFiniteSet(InFlight)
         /\ Cardinality(ImagesOf(l)) \in Nat /\ Cardinality(Uploading(l)) \in Nat
         /\ Cardinality(InFlight) \in Nat
<1>1. ImagesOf(l) \subseteq Keys /\ Uploading(l) \subseteq Requests /\ InFlight \subseteq Requests
  BY DEF ImagesOf, Uploading, InFlight
<1>2. QED
  BY <1>1, NoLarger, ListingsAssumption

(* Steps after which there are no more images, nor uploads, than before. *)
LEMMA FewerBounded ==
  ASSUME TypeOK, ImagesBounded, pool' = pool, NEW l \in Listings,
         ImagesOf(l)' \subseteq ImagesOf(l), Uploading(l)' \subseteq Uploading(l)
  PROVE  Cardinality(ImagesOf(l)') + Cardinality(Uploading(l)') < MaxImages + pool
<1>1. /\ Cardinality(ImagesOf(l)') \in Nat /\ Cardinality(ImagesOf(l)') <= Cardinality(ImagesOf(l))
      /\ Cardinality(Uploading(l)') \in Nat /\ Cardinality(Uploading(l)') <= Cardinality(Uploading(l))
      /\ Cardinality(ImagesOf(l)) \in Nat /\ Cardinality(Uploading(l)) \in Nat
  BY AllFinite, NoLarger
<1>2. MaxImages + pool \in Nat
  BY ListingsAssumption DEF TypeOK
<1>3. QED
  BY <1>1, <1>2 DEF ImagesBounded

(* The images of a listing, and its uploads, after steps that add none. *)
LEMMA NoneAdded ==
  ASSUME TypeOK, ImagesBounded, pool' = pool,
         \A k \in Keys : file'[k].kind = "image" /\ file'[k].listing # None =>
           file[k].kind = "image" /\ file'[k].listing = file[k].listing,
         \A r \in InFlight' : req'[r].op = "image" =>
           r \in InFlight /\ req[r].op = "image" /\ req'[r].listing = req[r].listing
  PROVE  ImagesBounded'
<1>1. ASSUME NEW l \in Listings
      PROVE  ImagesOf(l)' \subseteq ImagesOf(l) /\ Uploading(l)' \subseteq Uploading(l)
  BY ListingsAssumption DEF ImagesOf, Uploading
<1>2. QED
  BY <1>1, FewerBounded DEF ImagesBounded

(* Counting below the limit, with a connection to spare. *)
LEMMA StartingBounded ==
  ASSUME TypeOK, RequestsSound, ImagesBounded, NEW r \in Requests, NEW u \in Users,
         NEW m \in Listings, Starting(r, u, m)
  PROVE  ImagesBounded'
<1>1. PICK q \in Request :
        /\ Arrives(r) /\ Advance(r, q) /\ Reads /\ q.listing = m
        /\ q.op = "image" => Cardinality(ImagesOf(m)) < MaxImages
  BY StartingHolds
<1>2. \A s \in Requests : req'[s] = IF s = r THEN q ELSE req[s]
  BY <1>1, Others
<1>3. InFlight' \subseteq InFlight \cup {r} /\ r \notin InFlight /\ r \in Requests
  BY <1>1, <1>2 DEF InFlight, Arrives
<1>4. UNCHANGED <<file, pool>>
  BY <1>1 DEF Reads
<1>5. ASSUME NEW l \in Listings
      PROVE  Cardinality(ImagesOf(l)') + Cardinality(Uploading(l)') < MaxImages + pool
  <2>1. ImagesOf(l)' = ImagesOf(l)
    BY <1>4 DEF ImagesOf
  <2>2. CASE l = m /\ q.op = "image"
    <3>1. Uploading(l)' \subseteq InFlight \cup {r}
      BY <1>3 DEF Uploading
    <3>2. /\ IsFiniteSet(InFlight \cup {r})
          /\ Cardinality(InFlight \cup {r}) = Cardinality(InFlight) + 1
          /\ Cardinality(InFlight) \in Nat
      BY <1>3, AllFinite, FS_AddElement
    <3>3. Cardinality(Uploading(l)') \in Nat /\ Cardinality(Uploading(l)') <= Cardinality(InFlight) + 1
      BY <3>1, <3>2, NoLarger
    <3>4. Cardinality(InFlight) < pool /\ pool \in Nat /\ MaxImages \in Nat
      BY <1>1, ListingsAssumption DEF Arrives, TypeOK
    <3>5. Cardinality(ImagesOf(l)) \in Nat /\ Cardinality(ImagesOf(l)) < MaxImages
      BY <1>1, <2>2, AllFinite
    <3>6. QED
      BY <2>1, <3>2, <3>3, <3>4, <3>5
  <2>3. CASE ~(l = m /\ q.op = "image")
    <3>1. Uploading(l)' \subseteq Uploading(l)
      BY <1>1, <1>2, <1>3, <2>3 DEF Uploading, InFlight
    <3>2. QED
      BY <1>4, <2>1, <3>1, FewerBounded
  <2>4. QED
    BY <2>2, <2>3
<1>6. QED
  BY <1>4, <1>5 DEF ImagesBounded

(* An upload turns into an image. *)
LEMMA UploadBounded ==
  ASSUME TypeOK, RequestsSound, ImagesBounded, NEW r \in Requests, Upload(r), ~RollBack(r)
  PROVE  ImagesBounded'
<1> DEFINE q == req[r]
<1>1. /\ q.stage = "stored" /\ Done(r) /\ pool' = pool
      /\ file' = [k \in Keys |-> IF k \notin q.keys THEN file[k] ELSE
                    [kind |-> q.op, listing |-> q.listing, uploaded_by |-> q.by]]
  BY DEF Upload
<1>2. PICK k \in Keys : q.keys = {k}
  BY <1>1 DEF RequestsSound, Sound
<1>3. \A s \in Requests :
        /\ req'[s].stage = IF s = r THEN "done" ELSE req[s].stage
        /\ req'[s].op = req[s].op /\ req'[s].listing = req[s].listing
  BY <1>1, DoneFields
<1>4. InFlight' = InFlight \ {r} /\ r \in InFlight
  BY <1>1, <1>3 DEF InFlight
<1>5. ASSUME NEW l \in Listings
      PROVE  Cardinality(ImagesOf(l)') + Cardinality(Uploading(l)') < MaxImages + pool
  <2>1. CASE q.op = "image" /\ q.listing = l
    <3>1. ImagesOf(l)' \subseteq ImagesOf(l) \cup {k}
      BY <1>1, <1>2 DEF ImagesOf
    <3>2. Uploading(l)' \subseteq Uploading(l) \ {r} /\ r \in Uploading(l)
      <4>1. r \in Uploading(l)
        BY <1>4, <2>1 DEF Uploading
      <4>2. \A s \in InFlight' : s # r /\ s \in InFlight /\ s \in Requests
        BY <1>4 DEF InFlight
      <4>3. Uploading(l)' \subseteq Uploading(l) \ {r}
        BY <1>3, <4>2 DEF Uploading
      <4>4. QED
        BY <4>1, <4>3
    <3>3. /\ IsFiniteSet(ImagesOf(l) \cup {k}) /\ Cardinality(ImagesOf(l)) \in Nat
          /\ Cardinality(ImagesOf(l) \cup {k}) <= Cardinality(ImagesOf(l)) + 1
      <4>1. IsFiniteSet(ImagesOf(l)) /\ Cardinality(ImagesOf(l)) \in Nat
        BY AllFinite
      <4>2. /\ IsFiniteSet(ImagesOf(l) \cup {k})
            /\ \/ Cardinality(ImagesOf(l) \cup {k}) = Cardinality(ImagesOf(l))
               \/ Cardinality(ImagesOf(l) \cup {k}) = Cardinality(ImagesOf(l)) + 1
        BY <4>1, FS_AddElement
      <4>3. QED
        BY <4>1, <4>2
    <3>4. /\ IsFiniteSet(Uploading(l) \ {r}) /\ Cardinality(Uploading(l)) \in Nat
          /\ Cardinality(Uploading(l) \ {r}) = Cardinality(Uploading(l)) - 1
      BY <3>2, AllFinite, FS_RemoveElement
    <3>5. /\ Cardinality(ImagesOf(l)') \in Nat /\ Cardinality(ImagesOf(l)') <= Cardinality(ImagesOf(l)) + 1
          /\ Cardinality(Uploading(l)') \in Nat /\ Cardinality(Uploading(l)') <= Cardinality(Uploading(l)) - 1
      <4>1. /\ Cardinality(ImagesOf(l)') \in Nat /\ Cardinality(ImagesOf(l) \cup {k}) \in Nat
            /\ Cardinality(ImagesOf(l)') <= Cardinality(ImagesOf(l) \cup {k})
        BY <3>1, <3>3, NoLarger
      <4>2. /\ Cardinality(Uploading(l)') \in Nat
            /\ Cardinality(Uploading(l)') <= Cardinality(Uploading(l) \ {r})
        BY <3>2, <3>4, NoLarger
      <4>3. QED
        BY <3>3, <3>4, <4>1, <4>2
    <3>6. /\ Cardinality(ImagesOf(l)) + Cardinality(Uploading(l)) < MaxImages + pool
          /\ MaxImages + pool \in Nat
      BY ListingsAssumption DEF ImagesBounded, TypeOK
    <3>7. QED
      BY <3>3, <3>4, <3>5, <3>6
  <2>2. CASE ~(q.op = "image" /\ q.listing = l)
    <3>1. ImagesOf(l)' \subseteq ImagesOf(l)
      BY <1>1, <2>2 DEF ImagesOf
    <3>2. Uploading(l)' \subseteq Uploading(l)
      BY <1>3, <1>4 DEF Uploading, InFlight
    <3>3. QED
      BY <1>1, <3>1, <3>2, FewerBounded
  <2>3. QED
    BY <2>1, <2>2
<1>6. QED
  BY <1>1, <1>5 DEF ImagesBounded

LEMMA NextBounded == TypeOK /\ RequestsSound /\ ImagesBounded /\ [Next]_vars => ImagesBounded'
<1> SUFFICES ASSUME TypeOK, RequestsSound, ImagesBounded, [Next]_vars PROVE ImagesBounded'
  OBVIOUS
<1>1. CASE UNCHANGED <<file, req, pool>>
  BY <1>1 DEF ImagesBounded, ImagesOf, Uploading, InFlight
<1>2. ASSUME NEW r \in Requests, Done(r), pool' = pool,
             \A k \in Keys : file'[k].kind = "image" /\ file'[k].listing # None =>
               file[k].kind = "image" /\ file'[k].listing = file[k].listing
      PROVE  ImagesBounded'
  BY <1>2, DoneFields, NoneAdded DEF InFlight
<1>3. ASSUME NEW r \in Requests, NEW q \in Request, Advance(r, q), UNCHANGED <<file, pool>>,
             req[r].stage \notin {"idle", "done"}, q.op = req[r].op, q.listing = req[r].listing
      PROVE  ImagesBounded'
  <2>1. \A s \in Requests : req'[s] = IF s = r THEN q ELSE req[s]
    BY <1>3, Others
  <2>2. QED
    BY <1>3, <2>1, NoneAdded DEF InFlight
<1>4. CASE UNCHANGED vars
  BY <1>1, <1>4 DEF vars
<1>5. CASE Plain
  BY <1>1, <1>5, PlainTypes DEF Plain
<1>6. CASE \E r \in Requests, u \in Users, l \in Listings : Starting(r, u, l)
  BY <1>6, StartingBounded
<1>7. ASSUME NEW r \in Requests, NEW k \in Keys, Put(r, k) \/ EraseFile(r, k) \/ EraseImage(r, k)
      PROVE  ImagesBounded'
  <2>1. req[r] \in Request /\ req[r].touched \cup {k} \in SUBSET Keys /\ {k} \in SUBSET Keys
    BY DEF TypeOK, Request
  <2>2. UNCHANGED <<file, pool>> /\ req[r].stage \notin {"idle", "done"}
    BY <1>7 DEF Put, EraseFile, EraseImage, Erase, Bucket
  <2>3. CASE Put(r, k)
    <3> DEFINE q == [req[r] EXCEPT !.stage = "stored", !.keys = {k}, !.touched = {k}]
    <3>1. Advance(r, q) /\ q \in Request /\ q.op = req[r].op /\ q.listing = req[r].listing
      BY <2>1, <2>3 DEF Put, Request, Stages
    <3> HIDE DEF q
    <3>2. QED
      BY <1>3, <2>2, <3>1
  <2>4. ASSUME NEW stage \in {"erased", "erasing"}, Erase(r, k, stage)
        PROVE  ImagesBounded'
    <3> DEFINE q == [req[r] EXCEPT !.stage = stage, !.touched = @ \cup {k}]
    <3>1. Advance(r, q) /\ q \in Request /\ q.op = req[r].op /\ q.listing = req[r].listing
      BY <2>1, <2>4 DEF Erase, Request, Stages
    <3> HIDE DEF q
    <3>2. QED
      BY <1>3, <2>2, <3>1
  <2>5. QED
    BY <1>7, <2>3, <2>4 DEF EraseFile, EraseImage
<1>8. ASSUME NEW r \in Requests, ErasedAll(r) \/ (SelectDependants(r) /\ ~RollBack(r))
      PROVE  ImagesBounded'
  <2>1. req[r].op = "remove" /\ UNCHANGED <<file, pool>>
    BY <1>8 DEF ErasedAll, SelectDependants, Reads, RequestsSound, Sound
  <2>2. \E q : Advance(r, q) /\ q.op = req[r].op
    BY <1>8, RemovalMoves
  <2>3. \A s \in Requests : s # r => req'[s] = req[s]
    BY <2>2, Others
  <2>4. req'[r].op = "remove"
    BY <2>1, <2>2, Others
  <2>5. QED
    BY <2>1, <2>3, <2>4, NoneAdded DEF InFlight
<1>9. ASSUME NEW r \in Requests, RollBack(r) \/ ((Review(r) \/ AddFavorite(r)) /\ ~RollBack(r))
      PROVE  ImagesBounded'
  <2>1. Done(r) /\ UNCHANGED <<file, pool>>
    BY <1>9 DEF RollBack, Review, AddFavorite
  <2>2. QED
    BY <1>2, <2>1
<1>10. ASSUME NEW r \in Requests, Drop(r)
       PROVE  ImagesBounded'
  <2>1. Done(r) /\ pool' = pool /\ \A k \in Keys : file'[k] \in {file[k], NoFile}
    BY <1>10 DEF Drop
  <2>2. QED
    BY <1>2, <2>1 DEF NoFile
<1>11. ASSUME NEW r \in Requests, Remove(r), ~RollBack(r)
       PROVE  ImagesBounded'
  <2>1. /\ Done(r) /\ pool' = pool
        /\ \A k \in Keys : file'[k] \in {file[k], NoFile, [file[k] EXCEPT !.listing = None]}
        /\ \A k \in Keys : file'[k].listing \in {file[k].listing, None}
    BY <1>11, RemoveFiles DEF Remove
  <2>2. \A k \in Keys : file'[k].listing # None => file'[k].kind = file[k].kind
    BY <2>1 DEF NoFile, TypeOK, File
  <2>3. QED
    BY <1>2, <2>1, <2>2
<1>12. CASE \E r \in Requests : ErasedAll(r) \/ RollBack(r) \/ (Commits(r) /\ ~RollBack(r))
  BY <1>8, <1>9, <1>10, <1>11, <1>12, UploadBounded DEF Commits
<1>13. ASSUME NEW u \in Users, DeleteProfile(u)
       PROVE  ImagesBounded'
  <2>1. UNCHANGED <<req, pool>> /\ \A k \in Keys : file'[k] \in {file[k], NoFile}
    BY <1>13, DeletionKeeps, DeletionFiles
  <2>2. QED
    BY <2>1, NoneAdded DEF InFlight, NoFile
<1>14. QED
  BY <1>4, <1>5, <1>6, <1>7, <1>12, <1>13, StepKinds

(* However many uploads pass the limit together, the pool bounds them. *)
THEOREM ImagesStayBounded == Spec => []ImagesBounded
<1>1. Init => ImagesBounded
  <2> SUFFICES ASSUME Init, NEW l \in Listings
               PROVE  Cardinality(ImagesOf(l)) + Cardinality(Uploading(l)) < MaxImages + pool
    BY DEF ImagesBounded
  <2>1. ImagesOf(l) = {} /\ Uploading(l) = {}
    BY ListingsAssumption DEF Init, ImagesOf, Uploading, InFlight, Idle, NoFile
  <2>2. Cardinality({}) = 0
    BY FS_EmptySet
  <2>3. MaxImages \in Nat \ {0} /\ pool \in Nat
    BY ListingsAssumption DEF Init
  <2>4. QED
    BY <2>1, <2>2, <2>3
<1>2. QED
  BY <1>1, NextBounded, TypesAndRequests, PTL DEF Spec

----------------------------------------------------------------------------
(* Verification *)

(* Five actions write rows or histories. *)
LEMMA WhoVerifies ==
  ASSUME TypeOK, [Next]_vars, UNCHANGED <<listing, history>> => FALSE
  PROVE  \/ \E l \in Listings, p \in {"DRAFT", "ACTIVE"} :
              CreateListing(l, p) \/ \E u \in Users : UpdateListing(u, l, p)
         \/ \E r \in Requests :
              /\ ~RollBack(r)
              /\ \/ Upload(r) /\ req[r].status = "REJECTED"
                 \/ Remove(r) \/ Review(r)
         \/ \E u \in Users : DeleteProfile(u)
<1>1. ~UNCHANGED vars
  BY DEF vars
<1>2. ASSUME NEW r \in Requests, NEW u \in Users, NEW l \in Listings, Starting(r, u, l)
      PROVE  Reads
  <2>1. CASE CountImages(r, u, l) \/ LoadForDocument(r, u, l) \/ LoadListing(r, u, l) \/ LoadFavorite(r, u, l)
    BY <2>1 DEF CountImages, LoadForDocument, LoadListing, LoadFavorite
  <2>2. CASE \E k \in Keys : LoadFile(r, u, l, k)
    BY <2>2 DEF LoadFile
  <2>3. CASE \E verdict \in Verdicts : LoadReview(r, u, l, verdict)
    BY <2>3 DEF LoadReview
  <2>4. QED
    BY <1>2, <2>1, <2>2, <2>3 DEF Starting
<1>3. \A r \in Requests, k \in Keys : Put(r, k) \/ EraseFile(r, k) \/ EraseImage(r, k) => Bucket
  BY DEF Put, EraseFile, EraseImage, Erase
<1>4. \A r \in Requests : ~ErasedAll(r) /\ ~RollBack(r) /\ ~Drop(r)
  BY DEF ErasedAll, Reads, RollBack, Drop
<1>5. \A r \in Requests : ~(SelectDependants(r) /\ ~RollBack(r)) /\ ~(AddFavorite(r) /\ ~RollBack(r))
  BY DEF SelectDependants, Reads, AddFavorite
<1>6. \A r \in Requests : Upload(r) /\ ~RollBack(r) => req[r].status = "REJECTED"
  BY DEF Upload
<1>7. \A l \in Listings : ~OfferSlots(l) /\ \A u \in Users : ~RemoveFavorite(u, l)
  BY DEF OfferSlots, RemoveFavorite
<1>8. ~Reads /\ ~Bucket
  BY DEF Reads, Bucket
<1>9. QED
  BY <1>1, <1>2, <1>3, <1>4, <1>5, <1>6, <1>7, <1>8, StepKinds DEF Plain, Commits

(* A listing whose row and history change together shows the new entry. *)
LEMMA EntryShows ==
  ASSUME TypeOK, NEW l \in Listings, NEW m \in Listings, NEW row \in Row, NEW e \in Entry,
         Entered(m, row, e), l = m => row.status \in {listing[l].status, e.new}
  PROVE  \/ history'[l] = history[l] /\ listing'[l].status = listing[l].status
         \/ /\ Len(history'[l]) = Len(history[l]) + 1
            /\ \A i \in 1..Len(history[l]) : history'[l][i] = history[l][i]
            /\ listing'[l].status
                 \in {listing[l].status, history'[l][Len(history[l]) + 1].new}
<1>1. CASE l = m
  <2>1. /\ listing'[m] = row
        /\ Len(history'[m]) = Len(history[m]) + 1
        /\ \A i \in 1..Len(history[m]) : history'[m][i] = history[m][i]
        /\ history'[m][Len(history[m]) + 1] = e
    BY OneEntry
  <2>2. QED
    BY <1>1, <2>1
<1>2. CASE l # m
  <2>1. listing'[l] = listing[l] /\ history'[l] = history[l]
    BY <1>2, OneEntry
  <2>2. QED
    BY <2>1
<1>3. QED
  BY <1>1, <1>2

(* A review's new status is its verdict, or it is as it was. *)
LEMMA ReviewedStatus ==
  ASSUME NEW q, NEW row \in Row
  PROVE  Reviewed(q, row).status = IF q.verdict # q.status THEN q.verdict ELSE row.status
<1>1. \A status, at, by : [row EXCEPT !.status = status, !.verified_at = at, !.verified_by = by].status = status
  BY DEF Row
<1>2. QED
  BY <1>1 DEF Reviewed

(* What a step does to a listing and its entries. *)
Recorded(l) ==
  LET h == history[l]
      g == history'[l]
  IN  /\ \A i \in 1..Len(h) :
           \/ g[i] = h[i]
           \/ h[i].reviewed_by \notin present' /\ g[i] = [h[i] EXCEPT !.reviewed_by = None]
      /\ \/ Len(g) = Len(h) /\ listing'[l].status = listing[l].status
         \/ /\ Len(g) = Len(h) + 1
            /\ listing'[l].status \in {listing[l].status, g[Len(g)].new}

(* A status never changes without an entry that says so, and only the      *)
(* deletion of a reviewer's profile touches an entry.                      *)
THEOREM VerdictsRecorded == Spec => VerdictsAreRecorded
<1>1. ASSUME TypeOK, RequestsSound, [Next]_vars, NEW l \in Listings, Exists(l), listing'[l] # Removed,
             ~ \E u \in Users : DeleteProfile(u)
      PROVE  \/ history'[l] = history[l] /\ listing'[l].status = listing[l].status
             \/ /\ Len(history'[l]) = Len(history[l]) + 1
                /\ \A i \in 1..Len(history[l]) : history'[l][i] = history[l][i]
                /\ listing'[l].status
                     \in {listing[l].status, history'[l][Len(history[l]) + 1].new}
  <2>1. listing[l] \in Row
    BY <1>1, ExistingIsRow
  <2>2. ASSUME NEW m \in Listings, NEW p \in {"DRAFT", "ACTIVE"},
               CreateListing(m, p) \/ \E u \in Users : UpdateListing(u, m, p)
        PROVE  history'[l] = history[l] /\ listing'[l].status = listing[l].status
    <3>1. history' = history
      BY <2>2 DEF CreateListing, UpdateListing
    <3>2. CASE CreateListing(m, p)
      <4>1. m # l
        BY <1>1, <3>2 DEF CreateListing, Exists, Unborn, Fresh
      <4>2. QED
        BY <1>1, <3>1, <3>2, <4>1 DEF CreateListing, TypeOK
    <3>3. CASE \E u \in Users : UpdateListing(u, m, p)
      <4>1. listing' = [listing EXCEPT ![m].publication = p]
        BY <3>3 DEF UpdateListing
      <4>2. listing'[l] = IF l = m THEN [listing[l] EXCEPT !.publication = p] ELSE listing[l]
        BY <1>1, <4>1 DEF TypeOK
      <4>3. [listing[l] EXCEPT !.publication = p].status = listing[l].status
        BY <2>1 DEF Row
      <4>4. QED
        BY <3>1, <4>2, <4>3
    <3>4. QED
      BY <2>2, <3>2, <3>3
  <2>3. ASSUME NEW r \in Requests, Upload(r), ~RollBack(r), req[r].status = "REJECTED"
        PROVE  \/ history'[l] = history[l] /\ listing'[l].status = listing[l].status
               \/ /\ Len(history'[l]) = Len(history[l]) + 1
                  /\ \A i \in 1..Len(history[l]) : history'[l][i] = history[l][i]
                  /\ listing'[l].status
                       \in {listing[l].status, history'[l][Len(history[l]) + 1].new}
    <3> DEFINE e == [previous |-> "REJECTED", new |-> "PENDING", reviewed_by |-> None]
    <3>1. PICK m \in Listings :
            /\ [listing[m] EXCEPT !.status = "PENDING"] \in Row /\ e \in Entry
            /\ listing' = [listing EXCEPT ![m] = [listing[m] EXCEPT !.status = "PENDING"]]
            /\ history' = [history EXCEPT ![m] = Append(@, e)]
      BY <1>1, <2>3, ResubmissionWrites
    <3>2. e.new = "PENDING"
      OBVIOUS
    <3> DEFINE row == [listing[m] EXCEPT !.status = "PENDING"]
    <3>3. l = m => row.status = "PENDING"
      BY <2>1 DEF Row
    <3>4. row \in Row /\ Entered(m, row, e)
      BY <3>1 DEF Entered
    <3> HIDE DEF e, row
    <3>5. QED
      BY <1>1, <3>1, <3>2, <3>3, <3>4, EntryShows
  <2>4. ASSUME NEW r \in Requests, Review(r), ~RollBack(r)
        PROVE  \/ history'[l] = history[l] /\ listing'[l].status = listing[l].status
               \/ /\ Len(history'[l]) = Len(history[l]) + 1
                  /\ \A i \in 1..Len(history[l]) : history'[l][i] = history[l][i]
                  /\ listing'[l].status
                       \in {listing[l].status, history'[l][Len(history[l]) + 1].new}
    <3> DEFINE e == [previous |-> req[r].status, new |-> req[r].verdict, reviewed_by |-> req[r].by]
    <3>1. PICK m \in Listings :
            /\ Reviewed(req[r], listing[m]) \in Row /\ e \in Entry
            /\ listing' = [listing EXCEPT ![m] = Reviewed(req[r], listing[m])]
            /\ history' = [history EXCEPT ![m] = Append(@, e)]
      BY <1>1, <2>4, ReviewWrites
    <3>2. e.new = req[r].verdict
      OBVIOUS
    <3> DEFINE row == Reviewed(req[r], listing[m])
    <3>3. l = m => row.status \in {listing[l].status, req[r].verdict}
      BY <2>1, ReviewedStatus
    <3>4. row \in Row /\ Entered(m, row, e)
      BY <3>1 DEF Entered
    <3> HIDE DEF e, row
    <3>5. QED
      BY <1>1, <3>1, <3>2, <3>3, <3>4, EntryShows
  <2>5. ASSUME NEW r \in Requests, Remove(r), ~RollBack(r)
        PROVE  history'[l] = history[l] /\ listing'[l].status = listing[l].status
    <3>1. /\ listing' = [listing EXCEPT ![req[r].listing] = Removed]
          /\ history' = [history EXCEPT ![req[r].listing] = <<>>]
      BY <2>5 DEF Remove
    <3>2. l # req[r].listing
      BY <1>1, <3>1 DEF TypeOK
    <3>3. QED
      BY <1>1, <3>1, <3>2 DEF TypeOK
  <2>6. QED
    BY <2>2, <2>3, <2>4, <2>5, <1>1, WhoVerifies
<1>2. ASSUME TypeOK, RequestsSound, [Next]_vars, NEW l \in Listings, Exists(l), listing'[l] # Removed
      PROVE  Recorded(l)
  <2>1. Len(history[l]) \in Nat
    BY <1>2 DEF TypeOK
  <2>2. ASSUME NEW u \in Users, DeleteProfile(u)
        PROVE  Recorded(l)
    <3>1. listing'[l].status = listing[l].status /\ u \notin present'
      BY <1>2, <2>2, DeletionRows, DeletionKeeps
    <3>2. /\ Len(history'[l]) = Len(history[l])
          /\ \A i \in 1..Len(history[l]) :
               history'[l][i] = IF history[l][i].reviewed_by = u
                                THEN [history[l][i] EXCEPT !.reviewed_by = None] ELSE history[l][i]
      BY <1>2, <2>2, DeletionRewrites
    <3>3. QED
      BY <3>1, <3>2 DEF Recorded
  <2>3. CASE ~ \E u \in Users : DeleteProfile(u)
    <3>1. \/ history'[l] = history[l] /\ listing'[l].status = listing[l].status
          \/ /\ Len(history'[l]) = Len(history[l]) + 1
             /\ \A i \in 1..Len(history[l]) : history'[l][i] = history[l][i]
             /\ listing'[l].status \in {listing[l].status, history'[l][Len(history[l]) + 1].new}
      BY <1>1, <1>2, <2>3
    <3>2. QED
      BY <3>1 DEF Recorded
  <2>4. QED
    BY <2>2, <2>3
<1>3. TypeOK /\ RequestsSound /\ [Next]_vars =>
        [\A l \in Listings : Exists(l) /\ listing'[l] # Removed => Recorded(l)]_vars
  BY <1>2
<1>4. QED
  BY <1>3, TypesAndRequests, PTL DEF Spec, VerdictsAreRecorded, Recorded

----------------------------------------------------------------------------
(* Verification, one request at a time *)

(* What a request has read of a listing is what the listing still says,    *)
(* unless the reviewer it has read has left since.                         *)
StillBy(by, now) == by = now \/ (now = None /\ by \notin present)

Carries(q) ==
  q.op \in {"review", "document"} =>
    /\ Exists(q.listing) /\ q.status = listing[q.listing].status
    /\ q.op = "review" => /\ StillBy(q.verified_by, listing[q.listing].verified_by)
                          /\ q.verified_at = listing[q.listing].verified_at

Alone   == pool = 1 => \A r, s \in InFlight : r = s
Current == pool = 1 => \A r \in InFlight : Carries(req[r])

(* The fields a request keeps from its first statement to its end. *)
Same(p, q) ==
  /\ p.op = q.op /\ p.listing = q.listing /\ p.status = q.status
  /\ p.verified_by = q.verified_by
  /\ p.op = "review" => p.verified_at = q.verified_at

(* No step starts more than one request, and only into a free connection. *)
LEMMA WhoFlies ==
  ASSUME TypeOK, RequestsSound, [Next]_vars
  PROVE  /\ pool' = pool
         /\ \/ \E r \in Requests, u \in Users, l \in Listings : Starting(r, u, l)
            \/ \A s \in InFlight' : s \in InFlight /\ Same(req'[s], req[s])
<1>1. CASE UNCHANGED vars
  BY <1>1 DEF vars, InFlight, Same
<1>2. CASE Plain
  <2>1. UNCHANGED <<req, pool>>
    BY <1>2, PlainTypes DEF Plain
  <2>2. QED
    BY <2>1 DEF InFlight, Same
<1>3. ASSUME NEW r \in Requests, NEW u \in Users, NEW l \in Listings, Starting(r, u, l)
      PROVE  pool' = pool
  <2>1. Reads
    BY <1>3, StartingHolds
  <2>2. QED
    BY <2>1 DEF Reads
<1>4. ASSUME NEW r \in Requests, NEW q, Advance(r, q), Same(q, req[r]),
             req[r].stage \notin {"idle", "done"}
      PROVE  \A s \in InFlight' : s \in InFlight /\ Same(req'[s], req[s])
  <2>1. \A s \in Requests : req'[s] = IF s = r THEN q ELSE req[s]
    BY <1>4, Others
  <2>2. \A s \in Requests : Same(req[s], req[s])
    BY DEF Same
  <2>3. QED
    BY <1>4, <2>1, <2>2 DEF InFlight
<1>5. ASSUME NEW r \in Requests, Done(r)
      PROVE  \A s \in InFlight' : s \in InFlight /\ Same(req'[s], req[s])
  <2>1. \A s \in Requests : /\ req'[s].stage = IF s = r THEN "done" ELSE req[s].stage
                            /\ s # r => req'[s] = req[s]
    BY <1>5, DoneFields
  <2>2. QED
    BY <2>1 DEF InFlight, Same
<1>6. ASSUME NEW r \in Requests, NEW k \in Keys, Put(r, k) \/ EraseFile(r, k) \/ EraseImage(r, k)
      PROVE  pool' = pool /\ \A s \in InFlight' : s \in InFlight /\ Same(req'[s], req[s])
  <2>1. req[r] \in Request /\ pool' = pool /\ req[r].stage \notin {"idle", "done"}
    BY <1>6 DEF TypeOK, Put, EraseFile, EraseImage, Erase, Bucket
  <2>2. CASE Put(r, k)
    <3> DEFINE q == [req[r] EXCEPT !.stage = "stored", !.keys = {k}, !.touched = {k}]
    <3>1. Advance(r, q)
      BY <2>2 DEF Put
    <3>2. Same(q, req[r])
      BY <2>1 DEF Request, Same
    <3> HIDE DEF q
    <3>3. QED
      BY <1>4, <2>1, <3>1, <3>2
  <2>3. ASSUME NEW stage \in {"erased", "erasing"}, Erase(r, k, stage)
        PROVE  \A s \in InFlight' : s \in InFlight /\ Same(req'[s], req[s])
    <3> DEFINE q == [req[r] EXCEPT !.stage = stage, !.touched = @ \cup {k}]
    <3>1. Advance(r, q)
      BY <2>3 DEF Erase
    <3>2. Same(q, req[r])
      BY <2>1 DEF Request, Same
    <3> HIDE DEF q
    <3>3. QED
      BY <1>4, <2>1, <3>1, <3>2
  <2>4. QED
    BY <1>6, <2>1, <2>2, <2>3 DEF EraseFile, EraseImage
<1>7. ASSUME NEW r \in Requests, ErasedAll(r) \/ (SelectDependants(r) /\ ~RollBack(r))
      PROVE  pool' = pool /\ \A s \in InFlight' : s \in InFlight /\ Same(req'[s], req[s])
  <2>1. req[r].op = "remove"
    BY <1>7 DEF ErasedAll, SelectDependants, RequestsSound, Sound
  <2>2. /\ req[r].stage \in {"ready", "erasing"} /\ Reads
        /\ \E q : /\ Advance(r, q) /\ q.op = req[r].op /\ q.listing = req[r].listing
                  /\ q.status = req[r].status /\ q.verified_by = req[r].verified_by
    BY <1>7, RemovalMoves
  <2>3. PICK q : /\ Advance(r, q) /\ q.op = req[r].op /\ q.listing = req[r].listing
                 /\ q.status = req[r].status /\ q.verified_by = req[r].verified_by
    BY <2>2
  <2>4. Same(q, req[r])
    BY <2>1, <2>3 DEF Same
  <2>5. QED
    BY <1>4, <2>2, <2>3, <2>4 DEF Reads
<1>8. ASSUME NEW r \in Requests,
             RollBack(r) \/ (Commits(r) /\ ~RollBack(r) /\ ~SelectDependants(r))
      PROVE  Done(r) /\ pool' = pool
  BY <1>8 DEF RollBack, Commits, Upload, Drop, Remove, Review, AddFavorite
<1>9. CASE \E r \in Requests : ErasedAll(r) \/ RollBack(r) \/ (Commits(r) /\ ~RollBack(r))
  BY <1>5, <1>7, <1>8, <1>9
<1>10. CASE \E u \in Users : DeleteProfile(u)
  <2>1. UNCHANGED <<req, pool>>
    BY <1>10, DeletionKeeps
  <2>2. QED
    BY <2>1 DEF InFlight, Same
<1>11. QED
  BY <1>1, <1>2, <1>3, <1>6, <1>9, <1>10, StepKinds

(* A profile that is deleted does not return. *)
LEMMA NoneReturns ==
  ASSUME TypeOK, RequestsSound, [Next]_vars
  PROVE  present' \subseteq present
<1>1. CASE UNCHANGED vars
  BY <1>1 DEF vars
<1>2. CASE Plain
  BY <1>2 DEF Plain, OfferSlots, CreateListing, UpdateListing, RemoveFavorite
<1>3. CASE \E r \in Requests, u \in Users, l \in Listings : Starting(r, u, l)
  BY <1>3, StartingHolds DEF Reads
<1>4. CASE \E r \in Requests, k \in Keys : Put(r, k) \/ EraseFile(r, k) \/ EraseImage(r, k)
  BY <1>4 DEF Put, EraseFile, EraseImage, Erase, Bucket
<1>5. CASE \E r \in Requests : ErasedAll(r) \/ RollBack(r) \/ (Commits(r) /\ ~RollBack(r))
  BY <1>5 DEF ErasedAll, RollBack, Commits, SelectDependants, Upload, Drop, Remove, Review,
              AddFavorite, Reads
<1>6. CASE \E u \in Users : DeleteProfile(u)
  BY <1>6, DeletionKeeps
<1>7. QED
  BY <1>1, <1>2, <1>3, <1>4, <1>5, <1>6, StepKinds

(* With one connection, a request starts when no other is in flight. *)
LEMMA NextAlone == TypeOK /\ RequestsSound /\ Alone /\ [Next]_vars => Alone'
<1> SUFFICES ASSUME TypeOK, RequestsSound, Alone, [Next]_vars, pool = 1
             PROVE  \A r, s \in InFlight' : r = s
  BY WhoFlies DEF Alone
<1>1. ASSUME NEW r \in Requests, NEW u \in Users, NEW l \in Listings, Starting(r, u, l)
      PROVE  InFlight' \subseteq {r}
  <2>1. PICK q \in Request : Arrives(r) /\ Advance(r, q)
    BY <1>1, StartingHolds
  <2>2. InFlight = {}
    BY <2>1, AllFinite, FS_EmptySet DEF Arrives
  <2>3. \A s \in Requests : req'[s] = IF s = r THEN q ELSE req[s]
    BY <2>1, Others
  <2>4. QED
    BY <2>2, <2>3 DEF InFlight
<1>2. CASE \A s \in InFlight' : s \in InFlight /\ Same(req'[s], req[s])
  BY <1>2 DEF Alone
<1>3. QED
  BY <1>1, <1>2, WhoFlies

(* Steps that change what a request may have read end the request. *)
LEMMA WhoDisturbs ==
  ASSUME TypeOK, RequestsSound, [Next]_vars
  PROVE  \/ \A l \in Listings : Exists(l) =>
              /\ Exists(l)' /\ listing'[l].status = listing[l].status
              /\ \/ listing'[l].verified_by = listing[l].verified_by
                 \/ listing'[l].verified_by = None /\ listing[l].verified_by \notin present'
              /\ listing'[l].verified_at = listing[l].verified_at
         \/ \E r \in InFlight : Done(r)
<1>1. CASE UNCHANGED <<listing, history>>
  BY <1>1 DEF Exists
<1>2. ASSUME NEW m \in Listings, NEW p \in {"DRAFT", "ACTIVE"}, NEW l \in Listings, Exists(l),
             CreateListing(m, p) \/ \E u \in Users : UpdateListing(u, m, p)
      PROVE  /\ Exists(l)' /\ listing'[l].status = listing[l].status
             /\ listing'[l].verified_by = listing[l].verified_by
             /\ listing'[l].verified_at = listing[l].verified_at
  <2>1. CASE CreateListing(m, p)
    <3>1. m # l
      BY <1>2, <2>1 DEF CreateListing, Exists, Unborn, Fresh
    <3>2. listing'[l] = listing[l]
      BY <2>1, <3>1 DEF CreateListing, TypeOK
    <3>3. QED
      BY <1>2, <3>2 DEF Exists
  <2>2. CASE \E u \in Users : UpdateListing(u, m, p)
    <3>1. listing'[l] = IF l = m THEN [listing[l] EXCEPT !.publication = p] ELSE listing[l]
      BY <2>2 DEF UpdateListing, TypeOK
    <3>2. listing[l] \in Row
      BY <1>2, ExistingIsRow
    <3> DEFINE row == [listing[l] EXCEPT !.publication = p]
    <3>3. /\ row.publication = p /\ row.status = listing[l].status
          /\ row.verified_by = listing[l].verified_by
      BY <3>2 DEF Row
    <3>4. row.verified_at = listing[l].verified_at
      BY <3>2 DEF Row
    <3>5. listing'[l] = listing[l] \/ listing'[l] = row
      BY <3>1
    <3> HIDE DEF row
    <3>6. QED
      BY <1>2, <3>3, <3>4, <3>5 DEF Exists
  <2>3. QED
    BY <1>2, <2>1, <2>2
<1>3. ASSUME NEW r \in Requests,
             \/ Upload(r) /\ ~RollBack(r)
             \/ Remove(r) /\ ~RollBack(r)
             \/ Review(r) /\ ~RollBack(r)
      PROVE  r \in InFlight /\ Done(r)
  BY <1>3 DEF Upload, Remove, Review, InFlight
<1>4. ASSUME NEW u \in Users, DeleteProfile(u), NEW l \in Listings, Exists(l)
      PROVE  /\ Exists(l)' /\ listing'[l].status = listing[l].status
             /\ \/ listing'[l].verified_by = listing[l].verified_by
                \/ listing'[l].verified_by = None /\ listing[l].verified_by \notin present'
             /\ listing'[l].verified_at = listing[l].verified_at
  <2>1. /\ listing'[l].publication = listing[l].publication
        /\ listing'[l].status = listing[l].status
        /\ listing'[l].verified_by = Cleared(u, listing[l].verified_by)
    BY <1>4, DeletionRows
  <2>2. listing'[l].verified_at = listing[l].verified_at
    BY <1>4, DeletionRows
  <2>3. u \notin present'
    BY <1>4, DeletionKeeps
  <2>4. Exists(l)'
    BY <1>4, <2>1 DEF Exists
  <2>5. \/ listing'[l].verified_by = listing[l].verified_by
        \/ listing'[l].verified_by = None /\ listing[l].verified_by \notin present'
    BY <2>1, <2>3 DEF Cleared
  <2>6. QED
    BY <2>1, <2>2, <2>4, <2>5
<1>5. QED
  BY <1>1, <1>2, <1>3, <1>4, WhoVerifies

(* One request at a time finds the listing as it has read it. *)
LEMMA NextCurrent == TypeOK /\ RequestsSound /\ Alone /\ Current /\ [Next]_vars => Current'
<1> SUFFICES ASSUME TypeOK, RequestsSound, Alone, Current, [Next]_vars, pool = 1, NEW s \in InFlight'
             PROVE  Carries(req[s])'
  BY WhoFlies DEF Current
<1>1. s \in Requests /\ \A r, x \in InFlight' : r = x
  BY NextAlone, WhoFlies DEF Alone, InFlight
<1>2. ASSUME NEW r \in Requests, NEW u \in Users, NEW l \in Listings, Starting(r, u, l)
      PROVE  Carries(req[s])'
  <2>1. PICK q \in Request :
           /\ Arrives(r) /\ Advance(r, q) /\ Reads /\ q.listing = l
           /\ q.op = "document" => Exists(l) /\ q.status = listing[l].status
           /\ q.op = "review" => /\ Exists(l) /\ q.status = listing[l].status
                                 /\ q.verified_by = listing[l].verified_by
                                 /\ q.verified_at = listing[l].verified_at
    BY <1>2, StartingHolds
  <2>2. \A x \in Requests : req'[x] = IF x = r THEN q ELSE req[x]
    BY <2>1, Others
  <2>3. InFlight = {}
    BY <2>1, AllFinite, FS_EmptySet DEF Arrives
  <2>4. req'[s] = q
    BY <1>1, <2>2, <2>3 DEF InFlight
  <2>5. listing' = listing
    BY <2>1 DEF Reads
  <2>6. QED
    BY <2>1, <2>4, <2>5 DEF Carries, Exists, StillBy
<1>3. ASSUME s \in InFlight, Same(req'[s], req[s])
      PROVE  Carries(req[s])'
  <2>1. Carries(req[s])
    BY <1>3 DEF Current
  <2>2. ~ \E r \in InFlight : Done(r)
    <3>1. ASSUME NEW r \in InFlight, Done(r)
          PROVE  FALSE
      <4>1. r = s
        BY <1>3 DEF Alone
      <4>2. req'[r].stage = "done"
        BY <3>1, DoneFields DEF InFlight
      <4>3. QED
        BY <4>1, <4>2 DEF InFlight
    <3>2. QED
      BY <3>1
  <2>3. req[s].listing \in Listings
    BY <1>3 DEF InFlight, RequestsSound, Sound
  <2>4. PICK l \in Listings : l = req[s].listing
    BY <2>3
  <2>5. Exists(l) =>
          /\ Exists(l)' /\ listing'[l].status = listing[l].status
          /\ \/ listing'[l].verified_by = listing[l].verified_by
             \/ listing'[l].verified_by = None /\ listing[l].verified_by \notin present'
          /\ listing'[l].verified_at = listing[l].verified_at
    BY <2>2, WhoDisturbs
  <2>6. req'[s].listing = l /\ req'[s].op = req[s].op /\ req'[s].status = req[s].status
        /\ req'[s].verified_by = req[s].verified_by
        /\ (req[s].op = "review" => req'[s].verified_at = req[s].verified_at)
    BY <1>3, <2>4 DEF Same
  <2>7. req[s].op \in {"review", "document"} => Exists(l) /\ req[s].status = listing[l].status
    BY <2>1, <2>4 DEF Carries
  <2>8. req[s].op = "review" => /\ StillBy(req[s].verified_by, listing[l].verified_by)
                                /\ req[s].verified_at = listing[l].verified_at
    BY <2>1, <2>4 DEF Carries
  <2>9. req[s].op = "review" => StillBy(req[s].verified_by, listing[l].verified_by)'
    <3>1. present' \subseteq present
      BY NoneReturns
    <3>2. req[s].op = "review" => Exists(l)
      BY <2>7
    <3>3. QED
      BY <2>5, <2>6, <2>8, <3>1, <3>2 DEF StillBy
  <2>10. req[s].op = "review" => req'[s].verified_at = listing'[l].verified_at
    BY <2>5, <2>6, <2>7, <2>8
  <2>11. req'[s].op \in {"review", "document"} => Exists(l)' /\ req'[s].status = listing'[l].status
    BY <2>5, <2>6, <2>7
  <2>12. QED
    BY <2>6, <2>9, <2>10, <2>11 DEF Carries, Exists
<1>4. QED
  BY <1>2, <1>3, WhoFlies

(* The two halves of the agreement: the status follows the history, and    *)
(* the reviewer and the date go with an approval.                          *)
Follows(status, h) ==
  /\ status = IF h = <<>> THEN "PENDING" ELSE h[Len(h)].new
  /\ \A i \in 1..Len(h) : h[i].previous = IF i = 1 THEN "PENDING" ELSE h[i - 1].new

Signed(row, by) ==
  /\ row.verified_at <=> row.status = "APPROVED"
  /\ row.verified_by = IF row.status = "APPROVED" THEN by ELSE None

Manned(row) == row.status = "APPROVED" /\ row.verified_by = None => ~(Admins \subseteq present)

Agrees(l) ==
  /\ Follows(listing[l].status, history[l])
  /\ Signed(listing[l], history[l][Len(history[l])].reviewed_by)
  /\ Manned(listing[l])

LEMMA AgreesParts ==
  VerificationAgrees <=> (pool = 1 => \A l \in Listings : Exists(l) => Agrees(l))
  BY DEF VerificationAgrees, Agrees, Follows, Signed, Manned

LEMMA AgreesNext ==
  ASSUME pool' = pool, \A l \in Listings : Exists(l)' /\ pool = 1 => Agrees(l)'
  PROVE  VerificationAgrees'
<1>1. VerificationAgrees' <=> (pool' = 1 => \A l \in Listings : Exists(l)' => Agrees(l)')
  BY DEF VerificationAgrees, Agrees, Follows, Signed, Manned
<1>2. QED
  BY <1>1

(* An entry that starts from the status leads to the next one. *)
LEMMA Extends ==
  ASSUME NEW h \in Seq(Entry), NEW status, NEW e \in Entry, Follows(status, h),
         e.previous = status
  PROVE  Follows(e.new, Append(h, e))
<1> DEFINE g == Append(h, e)
<1>1. /\ Len(g) = Len(h) + 1 /\ Len(h) \in Nat /\ g[Len(h) + 1] = e /\ g # <<>>
      /\ \A i \in 1..Len(h) : g[i] = h[i]
  OBVIOUS
<1>2. h = <<>> <=> Len(h) = 0
  OBVIOUS
<1> HIDE DEF g
<1>3. ASSUME NEW i \in 1..Len(g)
      PROVE  g[i].previous = IF i = 1 THEN "PENDING" ELSE g[i - 1].new
  <2>1. CASE i = Len(h) + 1
    BY <1>1, <1>2, <2>1 DEF Follows
  <2>2. CASE i # Len(h) + 1
    BY <1>1, <2>2 DEF Follows
  <2>3. QED
    BY <2>1, <2>2
<1>4. Follows(e.new, g)
  BY <1>1, <1>3 DEF Follows
<1>5. QED
  BY <1>4 DEF g

(* A review of the row as it is leaves the marks of its verdict, also when *)
(* the reviewer before has left meanwhile.                                 *)
LEMMA ReviewMarks ==
  ASSUME TypeOK, NEW row \in Row, NEW q, q.verdict \in Verdicts, q.by \in present,
         q.status = row.status, StillBy(q.verified_by, row.verified_by),
         q.verified_at = row.verified_at
  PROVE  /\ Reviewed(q, row).status = q.verdict
         /\ Signed(Reviewed(q, row), q.by) /\ Manned(Reviewed(q, row))
<1> DEFINE approved == q.verdict = "APPROVED"
           reviewer == IF approved THEN q.by ELSE None
           status   == IF q.verdict # q.status THEN q.verdict ELSE row.status
           by       == IF reviewer # q.verified_by THEN reviewer ELSE row.verified_by
           at       == IF approved THEN TRUE ELSE IF q.verified_at THEN FALSE ELSE row.verified_at
<1>1. Reviewed(q, row) = [row EXCEPT !.status = status, !.verified_at = at, !.verified_by = by]
  BY DEF Reviewed
<1>2. q.by # None
  BY ListingsAssumption DEF TypeOK
<1>3. status = q.verdict /\ by = reviewer
  BY <1>2 DEF StillBy
<1>4. at <=> approved
  <2>1. q.verified_at <=> row.verified_at
    BY Zenon
  <2>2. QED
    BY <2>1
<1>5. /\ Reviewed(q, row).status = status /\ Reviewed(q, row).verified_by = by
  BY <1>1 DEF Row
<1>6. Reviewed(q, row).verified_at = at
  <2>1. ASSUME NEW x, NEW y, NEW z
        PROVE  [row EXCEPT !.status = x, !.verified_at = y, !.verified_by = z].verified_at = y
    BY DEF Row
  <2> HIDE DEF status, at, by
  <2>2. QED
    BY <1>1, <2>1
<1>7. Reviewed(q, row).verified_at <=> approved
  BY <1>4, <1>6
<1>8. Reviewed(q, row).status = "APPROVED" <=> approved
  BY <1>3, <1>5
<1>9. Reviewed(q, row).verified_by = IF approved THEN q.by ELSE None
  BY <1>3, <1>5
<1> HIDE DEF status, at, by, approved
<1>10. QED
  BY <1>2, <1>3, <1>5, <1>7, <1>8, <1>9 DEF Signed, Manned

(* Steps that leave every row's verification and history as they are. *)
LEMMA SameAgrees ==
  ASSUME VerificationAgrees, pool' = pool, present' \subseteq present,
         \A l \in Listings : Exists(l)' =>
           /\ Exists(l) /\ history'[l] = history[l]
           /\ listing'[l].status = listing[l].status
           /\ listing'[l].verified_by = listing[l].verified_by
           /\ listing'[l].verified_at = listing[l].verified_at
  PROVE  VerificationAgrees'
<1>1. ASSUME NEW l \in Listings, Exists(l)', pool = 1
      PROVE  Agrees(l)'
  <2>1. Agrees(l)
    BY <1>1, AgreesParts
  <2>2. /\ history'[l] = history[l] /\ listing'[l].status = listing[l].status
        /\ listing'[l].verified_by = listing[l].verified_by
    BY <1>1
  <2>3. listing'[l].verified_at <=> listing[l].verified_at
    <3>1. listing'[l].verified_at = listing[l].verified_at
      BY <1>1
    <3>2. QED
      BY <3>1, Zenon
  <2>4. Follows(listing[l].status, history[l])'
    BY <2>1, <2>2 DEF Agrees, Follows
  <2>5. QED
    BY <2>1, <2>2, <2>3, <2>4 DEF Agrees, Signed, Manned
<1>2. QED
  BY <1>1, AgreesNext

(* A row and its history that change together, and still agree. *)
LEMMA EntryAgrees ==
  ASSUME TypeOK, VerificationAgrees, pool' = pool, present' \subseteq present,
         NEW m \in Listings, Exists(m), NEW row \in Row, NEW e \in Entry, Entered(m, row, e),
         pool = 1 => /\ e.previous = listing[m].status /\ row.status = e.new
                     /\ Signed(row, e.reviewed_by) /\ Manned(row)
  PROVE  VerificationAgrees'
<1>1. ASSUME NEW l \in Listings, Exists(l)', pool = 1
      PROVE  Agrees(l)'
  <2>1. CASE l = m
    <3>1. listing'[m] = row /\ history'[m] = Append(history[m], e) /\ history[m] \in Seq(Entry)
      BY DEF TypeOK, Entered
    <3>2. Follows(listing[m].status, history[m])
      BY <1>1, AgreesParts DEF Agrees
    <3>3. Follows(e.new, Append(history[m], e))
      BY <1>1, <3>1, <3>2, Extends
    <3>4. history'[m][Len(history'[m])] = e
      BY <3>1
    <3>5. Manned(row)'
      BY <1>1 DEF Manned
    <3>6. Follows(listing'[l].status, history'[l])
      BY <1>1, <2>1, <3>1, <3>3
    <3>7. Signed(listing'[l], history'[l][Len(history'[l])].reviewed_by)
      BY <1>1, <2>1, <3>1, <3>4
    <3>8. Manned(listing[l])'
      BY <2>1, <3>1, <3>5 DEF Manned
    <3>9. QED
      BY <3>6, <3>7, <3>8 DEF Agrees
  <2>2. CASE l # m
    <3>1. listing'[l] = listing[l] /\ history'[l] = history[l]
      BY <2>2, OneEntry
    <3>2. Agrees(l)
      BY <1>1, <3>1, AgreesParts DEF Exists
    <3>3. QED
      BY <3>1, <3>2 DEF Agrees, Manned
  <2>3. QED
    BY <2>1, <2>2
<1>2. QED
  BY <1>1, AgreesNext

(* A reviewer who leaves is cleared on the row and in its last entry. *)
LEMMA DeletionAgrees ==
  ASSUME TypeOK, VerificationAgrees, pool' = pool, present' \subseteq present,
         NEW u \in Users, DeleteProfile(u)
  PROVE  VerificationAgrees'
<1>1. ASSUME NEW l \in Listings, Exists(l)', pool = 1
      PROVE  Agrees(l)'
  <2> DEFINE h == history[l]
             g == history'[l]
  <2>1. /\ listing'[l].publication = listing[l].publication
        /\ listing'[l].status = listing[l].status
        /\ listing'[l].verified_by = Cleared(u, listing[l].verified_by)
    BY DeletionRows
  <2>2. listing'[l].verified_at <=> listing[l].verified_at
    <3>1. listing'[l].verified_at = listing[l].verified_at
      BY DeletionRows
    <3>2. QED
      BY <3>1, Zenon
  <2>3. /\ h \in Seq(Entry) /\ g \in Seq(Entry) /\ Len(g) = Len(h)
        /\ \A i \in 1..Len(h) :
             /\ g[i].previous = h[i].previous /\ g[i].new = h[i].new
             /\ g[i].reviewed_by = Cleared(u, h[i].reviewed_by)
    <3>1. h \in Seq(Entry)
      BY DEF TypeOK
    <3>2. QED
      BY <3>1, DeletionEntries
  <2>4. Exists(l)
    BY <1>1, <2>1 DEF Exists
  <2>5. /\ Follows(listing[l].status, h) /\ Manned(listing[l])
        /\ Signed(listing[l], h[Len(h)].reviewed_by)
    BY <1>1, <2>4, AgreesParts DEF Agrees
  <2>6. u \notin present' /\ u # None
    BY ListingsAssumption, DeletionKeeps
  <2>7. listing[l].verified_by \in Admins \cup {None}
    BY <2>4, ExistingIsRow DEF Row
  <2> HIDE DEF h, g
  <2>8. (h = <<>> <=> Len(h) = 0) /\ (g = <<>> <=> Len(g) = 0) /\ Len(h) \in Nat
    BY <2>3
  <2>9. Follows(listing'[l].status, g)
    <3>1. g # <<>> => g[Len(g)].new = h[Len(h)].new
      BY <2>3, <2>8
    <3>2. ASSUME NEW i \in 1..Len(g)
          PROVE  g[i].previous = IF i = 1 THEN "PENDING" ELSE g[i - 1].new
      <4>1. i # 1 => i - 1 \in 1..Len(h)
        BY <2>3, <2>8
      <4>2. QED
        BY <2>3, <2>5, <4>1 DEF Follows
    <3>3. QED
      BY <2>1, <2>3, <2>5, <2>8, <3>1, <3>2 DEF Follows
  <2>10. Signed(listing'[l], g[Len(g)].reviewed_by)
    <3>1. listing[l].status = "APPROVED" => Len(h) \in 1..Len(h)
      BY <2>5, <2>8 DEF Follows
    <3>2. listing'[l].verified_by = IF listing'[l].status = "APPROVED" THEN g[Len(g)].reviewed_by ELSE None
      BY <2>1, <2>3, <2>5, <3>1 DEF Signed, Cleared
    <3>3. listing[l].verified_at <=> listing[l].status = "APPROVED"
      BY <2>5 DEF Signed
    <3>4. QED
      BY <2>1, <2>2, <3>2, <3>3 DEF Signed
  <2>11. Manned(listing[l])'
    BY <2>1, <2>5, <2>6, <2>7 DEF Manned, Cleared
  <2>12. QED
    BY <2>9, <2>10, <2>11 DEF Agrees, g
<1>2. QED
  BY <1>1, AgreesNext

LEMMA NextAgrees ==
  TypeOK /\ RequestsSound /\ NothingDangles /\ Current /\ VerificationAgrees /\ [Next]_vars
    => VerificationAgrees'
<1> SUFFICES ASSUME TypeOK, RequestsSound, NothingDangles, Current, VerificationAgrees, [Next]_vars
             PROVE  VerificationAgrees'
  OBVIOUS
<1>1. pool' = pool /\ present' \subseteq present
  BY WhoFlies, NoneReturns
<1>2. CASE UNCHANGED <<listing, history>>
  BY <1>1, <1>2, SameAgrees DEF Exists
<1>3. ASSUME NEW m \in Listings, NEW p \in {"DRAFT", "ACTIVE"}, CreateListing(m, p)
      PROVE  VerificationAgrees'
  <2>1. history[m] = <<>>
    BY <1>3 DEF CreateListing, NothingDangles, Exists, Unborn, Fresh
  <2>2. /\ history' = history
        /\ \A l \in Listings : listing'[l] = IF l = m THEN Fresh(p) ELSE listing[l]
    BY <1>3 DEF CreateListing, TypeOK
  <2>3. ASSUME NEW l \in Listings, Exists(l)', pool = 1
        PROVE  Agrees(l)'
    <3>1. CASE l = m
      <4>1. Fresh(p).status = "PENDING" /\ Fresh(p).verified_by = None /\ ~Fresh(p).verified_at
        BY DEF Fresh
      <4>2. Follows("PENDING", <<>>)
        BY DEF Follows
      <4>3. QED
        BY <2>1, <2>2, <3>1, <4>1, <4>2 DEF Agrees, Signed, Manned
    <3>2. CASE l # m
      <4>1. Agrees(l)
        BY <2>2, <2>3, <3>2, AgreesParts DEF Exists
      <4>2. QED
        BY <1>1, <2>2, <3>2, <4>1 DEF Agrees, Manned
    <3>3. QED
      BY <3>1, <3>2
  <2>4. QED
    BY <1>1, <2>3, AgreesNext
<1>4. ASSUME NEW m \in Listings, NEW p \in {"DRAFT", "ACTIVE"}, NEW u \in Users, UpdateListing(u, m, p)
      PROVE  VerificationAgrees'
  <2>1. history' = history /\ Exists(m) /\ listing[m] \in Row
    BY <1>4, ExistingIsRow DEF UpdateListing
  <2>2. ASSUME NEW l \in Listings, Exists(l)'
        PROVE  /\ Exists(l) /\ listing'[l].status = listing[l].status
               /\ listing'[l].verified_by = listing[l].verified_by
               /\ listing'[l].verified_at = listing[l].verified_at
    <3> DEFINE row == [listing[m] EXCEPT !.publication = p]
    <3>1. listing'[l] = IF l = m THEN row ELSE listing[l]
      BY <1>4 DEF UpdateListing, TypeOK
    <3>2. row.status = listing[m].status /\ row.verified_by = listing[m].verified_by
      BY <2>1 DEF Row
    <3>3. row.verified_at = listing[m].verified_at
      BY <2>1 DEF Row
    <3> HIDE DEF row
    <3>4. QED
      BY <2>1, <2>2, <3>1, <3>2, <3>3 DEF Exists
  <2>3. QED
    BY <1>1, <2>1, <2>2, SameAgrees
<1>5. ASSUME NEW r \in Requests, Remove(r), ~RollBack(r)
      PROVE  VerificationAgrees'
  <2>1. /\ listing' = [listing EXCEPT ![req[r].listing] = Removed]
        /\ history' = [history EXCEPT ![req[r].listing] = <<>>]
    BY <1>5 DEF Remove
  <2>2. ASSUME NEW l \in Listings, Exists(l)'
        PROVE  listing'[l] = listing[l] /\ history'[l] = history[l]
    <3>1. l # req[r].listing
      BY <2>1, <2>2 DEF TypeOK, Exists, Removed, Fresh
    <3>2. QED
      BY <2>1, <3>1 DEF TypeOK
  <2>3. QED
    BY <1>1, <2>2, SameAgrees DEF Exists
<1>6. ASSUME NEW r \in Requests, Upload(r), ~RollBack(r), req[r].status = "REJECTED"
      PROVE  VerificationAgrees'
  <2> DEFINE e == [previous |-> "REJECTED", new |-> "PENDING", reviewed_by |-> None]
  <2>1. PICK m \in Listings :
          /\ m = req[r].listing /\ Exists(m) /\ r \in InFlight /\ req[r].op = "document"
          /\ [listing[m] EXCEPT !.status = "PENDING"] \in Row /\ e \in Entry
          /\ listing' = [listing EXCEPT ![m] = [listing[m] EXCEPT !.status = "PENDING"]]
          /\ history' = [history EXCEPT ![m] = Append(@, e)]
    BY <1>6, ResubmissionWrites
  <2> DEFINE row == [listing[m] EXCEPT !.status = "PENDING"]
  <2>2. row \in Row /\ e \in Entry /\ Entered(m, row, e)
    BY <2>1 DEF Entered
  <2>3. e.previous = "REJECTED" /\ e.new = "PENDING" /\ e.reviewed_by = None
    OBVIOUS
  <2>4. listing[m] \in Row
    BY <2>1, ExistingIsRow
  <2>5. row.status = "PENDING" /\ row.verified_by = listing[m].verified_by
    BY <2>4 DEF Row
  <2>6. row.verified_at = listing[m].verified_at
    BY <2>4 DEF Row
  <2> HIDE DEF e, row
  <2>7. ASSUME pool = 1
        PROVE  /\ e.previous = listing[m].status /\ row.status = e.new
               /\ Signed(row, e.reviewed_by) /\ Manned(row)
    <3>1. listing[m].status = "REJECTED"
      BY <1>6, <2>1, <2>7 DEF Current, Carries
    <3>2. listing[m].verified_by = None /\ ~listing[m].verified_at
      BY <2>1, <2>7, <3>1, AgreesParts DEF Agrees, Signed
    <3>3. ~row.verified_at
      BY <2>6, <3>2
    <3>4. QED
      BY <2>3, <2>5, <3>1, <3>2, <3>3 DEF Signed, Manned
  <2>8. QED
    BY <1>1, <2>1, <2>2, <2>7, EntryAgrees
<1>7. ASSUME NEW r \in Requests, Review(r), ~RollBack(r)
      PROVE  VerificationAgrees'
  <2> DEFINE e == [previous |-> req[r].status, new |-> req[r].verdict, reviewed_by |-> req[r].by]
  <2>1. PICK m \in Listings :
          /\ m = req[r].listing /\ Exists(m) /\ r \in InFlight
          /\ req[r].op = "review" /\ req[r].by \in Admins \cap present
          /\ Reviewed(req[r], listing[m]) \in Row /\ e \in Entry
          /\ listing' = [listing EXCEPT ![m] = Reviewed(req[r], listing[m])]
          /\ history' = [history EXCEPT ![m] = Append(@, e)]
    BY <1>7, ReviewWrites
  <2> DEFINE row == Reviewed(req[r], listing[m])
  <2>2. row \in Row /\ e \in Entry /\ Entered(m, row, e)
    BY <2>1 DEF Entered
  <2>3. e.previous = req[r].status /\ e.new = req[r].verdict /\ e.reviewed_by = req[r].by
    OBVIOUS
  <2>4. ASSUME pool = 1
        PROVE  /\ e.previous = listing[m].status /\ row.status = e.new
               /\ Signed(row, e.reviewed_by) /\ Manned(row)
    <3>1. /\ req[r].status = listing[m].status
          /\ StillBy(req[r].verified_by, listing[m].verified_by)
      BY <2>1, <2>4 DEF Current, Carries
    <3>2. req[r].verified_at = listing[m].verified_at
      BY <2>1, <2>4 DEF Current, Carries
    <3>3. listing[m] \in Row
      BY <2>1, ExistingIsRow
    <3>4. req[r].verdict \in Verdicts
      BY <2>1 DEF RequestsSound, Sound, InFlight
    <3>5. row.status = req[r].verdict /\ Signed(row, req[r].by) /\ Manned(row)
      BY <2>1, <3>1, <3>2, <3>3, <3>4, ReviewMarks
    <3>6. QED
      BY <2>3, <3>1, <3>5
  <2> HIDE DEF e, row
  <2>5. QED
    BY <1>1, <2>1, <2>2, <2>4, EntryAgrees
<1>8. CASE \E u \in Users : DeleteProfile(u)
  BY <1>1, <1>8, DeletionAgrees
<1>9. QED
  BY <1>2, <1>3, <1>4, <1>5, <1>6, <1>7, <1>8, WhoVerifies

(* Whoever reviews, uploads or leaves, one request at a time keeps status, *)
(* reviewer, date and history in agreement.                                *)
THEOREM VerificationAgreesHolds == Spec => []VerificationAgrees
<1>1. Init => Alone /\ Current /\ VerificationAgrees
  <2> SUFFICES ASSUME Init PROVE Alone /\ Current /\ VerificationAgrees
    OBVIOUS
  <2>1. InFlight = {}
    BY DEF Init, InFlight, Idle
  <2>2. \A l \in Listings : ~Exists(l)
    BY DEF Init, Exists, Unborn, Fresh
  <2>3. QED
    BY <2>1, <2>2 DEF Alone, Current, VerificationAgrees
<1>2. QED
  BY <1>1, NextAlone, NextCurrent, NextAgrees, TypesAndRequests, NothingDanglesHolds, PTL DEF Spec
=============================================================================
