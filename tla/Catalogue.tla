----------------------------- MODULE Catalogue -----------------------------
(***************************************************************************)
(* A client walks the pages of a search, of a landlord's own listings or   *)
(* of his favourites, while the listings change.  A page is two statements *)
(* of one READ COMMITTED transaction: the count, then the rows; now() is   *)
(* the transaction's and the same in both.                                 *)
(*                                                                         *)
(* Rows the ORDER BY does not tell apart come in any order, and in another *)
(* one for the next page: `Pages` is the set of results the database may   *)
(* give.  ids grow with created_at.                                        *)
(***************************************************************************)
EXTENDS Naturals, FiniteSets

CONSTANTS
  MaxIds,      \* bounds the listings
  Mine,        \* listings whose landlord is the client
  Prices,
  Horizon,     \* bounds the clock
  Queries,     \* what the client may ask
  Tables,      \* rows there may be at the start
  Saved,       \* favourites of the client then
  Cap(_),      \* the largest limit of a search, signed in or not
  MaxChanges,  \* bounds the changes of the listings during the walk
  None

Ids   == 1..MaxIds
Times == 0..Horizon

Row    == [active : BOOLEAN, featured_until : Times \cup {None}, price : Prices]
NoRow  == [active |-> FALSE, featured_until |-> None, price |-> None]
Sorts  == {"featured", "newest", "oldest", "price_asc", "price_desc", "unknown"}
Query  == [kind : {"search", "mine", "favourites"}, sort : Sorts,
           is_featured : BOOLEAN \cup {None}, max_price : Prices \cup {None},
           limit : Nat]

ASSUME CatalogueAssumption ==
  /\ MaxIds \in Nat /\ Horizon \in Nat /\ MaxChanges \in Nat
  /\ Mine \subseteq Ids /\ Saved \subseteq Ids /\ Prices \subseteq Nat
  /\ Queries \subseteq Query
  /\ Tables \subseteq [Ids -> Row \cup {NoRow}]
  /\ \A signed_in \in BOOLEAN : Cap(signed_in) \in Nat \ {0}
  /\ None \notin Prices /\ None \notin Times /\ None \notin BOOLEAN

VARIABLES
  db,         \* db.rows: the listings; db.saved: the client's favourites
  clock,
  signed_in,  \* does the client's token still verify?
  changes,    \* of the listings so far
  walk        \* the client's pages so far, and the request in flight

vars == <<db, clock, signed_in, changes, walk>>

Upsets == {"added", "removed", "moved", "torn", "tied", "resized"}

(* `first` is what the walk should show, `upset` what disturbed it.        *)
Walk == [stage : {"asking", "counted", "ended", "failed"}, query : Query,
         page : Nat, limit : Nat, total : Nat, now : Times,
         first : SUBSET Ids, seen : SUBSET Ids,
         repeated : BOOLEAN, empty : BOOLEAN, upset : SUBSET Upsets]

TypeOK ==
  /\ db \in [rows : [Ids -> Row \cup {NoRow}], saved : SUBSET Ids]
  /\ \A l \in db.saved : db.rows[l] # NoRow
  /\ clock \in Times
  /\ signed_in \in BOOLEAN
  /\ changes \in 0..MaxChanges
  /\ walk \in Walk
  /\ walk.page \in 1..(MaxIds + 1)

Init ==
  /\ \E t \in Tables : db = [rows |-> t, saved |-> {l \in Saved : t[l] # NoRow}]
  /\ clock = 0
  /\ signed_in \in BOOLEAN
  /\ changes = 0
  /\ \E q \in Queries :
       walk = [stage |-> "asking", query |-> q, page |-> 1, limit |-> 0, total |-> 0,
               now |-> 0, first |-> {}, seen |-> {}, repeated |-> FALSE,
               empty |-> FALSE, upset |-> {}]

----------------------------------------------------------------------------
(* What a query selects, and in which order                                *)

Stored(d) == {l \in Ids : d.rows[l] # NoRow}

(* Wrong: rows never featured satisfy neither comparison.                  *)
FeaturedIsNull(row, wanted, now) ==
  row.featured_until # None /\ (wanted <=> row.featured_until > now)

FeaturedIs(row, wanted, now) ==
  IF wanted THEN row.featured_until # None /\ row.featured_until > now
  ELSE row.featured_until = None \/ row.featured_until <= now

(* One filter on a column and the one on time; the others compare columns  *)
(* of the row in the same way.                                             *)
Meets(row, q, now) ==
  /\ row.active
  /\ q.max_price # None => row.price <= q.max_price
  /\ q.is_featured # None => FeaturedIs(row, q.is_featured, now)

Found(d, q, now) == {l \in Stored(d) : Meets(d.rows[l], q, now)}

ByLandlord(d) == Stored(d) \cap Mine

Favorites(d) == {l \in d.saved : d.rows[l].active}

Listed(d, q, now) ==
  CASE q.kind = "search"     -> Found(d, q, now)
    [] q.kind = "mine"       -> ByLandlord(d)
    [] q.kind = "favourites" -> Favorites(d)

(* Wrong: the filters are left out of the count.                           *)
CountedAll(d, q, now) == Stored(d)

(* get_favorites counts the favourites that are not ACTIVE as well.        *)
Counted(d, q, now) == IF q.kind = "favourites" THEN d.saved ELSE Listed(d, q, now)

(* Wrong: no coalesce, and NULL sorts before TRUE.                         *)
RankNullsFirst(row, now) ==
  IF row.featured_until = None THEN 2 ELSE IF row.featured_until > now THEN 1 ELSE 0

(* coalesce(featured_until > now(), False).                                *)
Rank(row, now) ==
  IF row.featured_until # None /\ row.featured_until > now THEN 1 ELSE 0

(* Does the ORDER BY put x before y?                                       *)
Before(d, q, now, x, y) ==
  LET a == d.rows[x]  b == d.rows[y]
  IN  \/ q.sort = "featured" /\ \/ Rank(a, now) > Rank(b, now)
                                \/ Rank(a, now) = Rank(b, now) /\ x > y
      \/ q.sort = "newest" /\ x > y
      \/ q.sort = "oldest" /\ x < y
      \/ q.sort = "price_asc" /\ a.price < b.price
      \/ q.sort = "price_desc" /\ a.price > b.price

Tied(d, q, now) ==
  \E x, y \in Listed(d, q, now) :
    x # y /\ ~Before(d, q, now, x, y) /\ ~Before(d, q, now, y, x)

(* Wrong: pages are skipped as if they held one row each.                  *)
OffsetOfRows(page, limit) == page - 1

Offset(page, limit) == (page - 1) * limit

Least(m, n) == IF m < n THEN m ELSE n

(* LIMIT .. OFFSET: the rows after some `offset` that can come first.      *)
Pages(d, q, now, offset, limit) ==
  LET rows    == Listed(d, q, now)
      n       == Cardinality(rows)
      skipped == Least(offset, n)
      First(S) == \A x \in rows \ S, y \in S : ~Before(d, q, now, x, y)
  IN  {P \in SUBSET rows :
         /\ Cardinality(P) = Least(limit, n - skipped)
         /\ \E S \in SUBSET (rows \ P) :
              Cardinality(S) = skipped /\ First(S) /\ First(S \cup P)}

----------------------------------------------------------------------------
(* The walk                                                                *)

LimitOf(q, auth) == IF q.kind = "search" THEN Least(q.limit, Cap(auth)) ELSE q.limit

Refused(q) == q.kind # "search" /\ ~signed_in

(* The first statement of a page.                                          *)
Count ==
  LET q == walk.query
  IN  /\ walk.stage = "asking"
      /\ ~Refused(q) /\ LimitOf(q, signed_in) > 0
      /\ walk' = [walk EXCEPT
           !.stage = "counted", !.now = clock, !.limit = LimitOf(q, signed_in),
           !.total = Cardinality(Counted(db, q, clock)),
           !.first = IF walk.page = 1 THEN Listed(db, q, clock) ELSE @,
           !.upset = IF walk.page = 1 THEN {} ELSE @]
      /\ UNCHANGED <<db, clock, signed_in, changes>>

(* 401; or a limit of 0, by which the number of pages is a division.       *)
Fail ==
  /\ walk.stage = "asking"
  /\ Refused(walk.query) \/ LimitOf(walk.query, signed_in) = 0
  /\ walk' = [walk EXCEPT !.stage = "failed"]
  /\ UNCHANGED <<db, clock, signed_in, changes>>

(* Wrong: the number of pages is rounded down.                             *)
HasNextRoundedDown(page, total, limit) == page < total \div limit

HasNext(page, total, limit) == page < (total + limit - 1) \div limit

(* The second statement; the client goes on while there is a next page.    *)
Page ==
  LET q    == walk.query
      more == HasNext(walk.page, walk.total, walk.limit)
  IN  /\ walk.stage = "counted"
      /\ \E P \in Pages(db, q, walk.now, Offset(walk.page, walk.limit), walk.limit) :
           walk' = [walk EXCEPT
             !.stage    = IF more THEN "asking" ELSE "ended",
             !.page     = IF more THEN @ + 1 ELSE @,
             !.seen     = @ \cup P,
             !.repeated = @ \/ P \cap walk.seen # {},
             !.empty    = @ \/ (P = {} /\ walk.page > 1),
             !.upset    = IF Tied(db, q, walk.now) THEN @ \cup {"tied"} ELSE @]
      /\ UNCHANGED <<db, clock, signed_in, changes>>

----------------------------------------------------------------------------
(* What happens meanwhile                                                  *)

(* How the step to d and now disturbs the walk: what it does to the pages  *)
(* still to be asked for, and to the one in flight.                        *)
Effects(d, now) ==
  LET q == walk.query
      Upset(u, from, to) ==
        LET was == Listed(db, q, from)
            is  == Listed(d, q, to)
        IN  \/ u = "added" /\ is \ was # {}
            \/ u = "removed" /\ was \ is # {}
            \/ u = "moved" /\ \E x, y \in was \cap is :
                 Before(db, q, from, x, y) # Before(d, q, to, x, y)
      inFlight == walk.stage = "counted"
  IN  {u \in Upsets :
         \/ Upset(u, clock, now)
         \/ inFlight /\ (Upset(u, walk.now, walk.now) \/ (u = "torn" /\ d # db))}

Disturb(d, now) ==
  /\ walk.stage \in {"asking", "counted"}
  /\ db' = d /\ clock' = now
  /\ walk' = [walk EXCEPT !.upset = @ \cup Effects(d, now)]
  /\ UNCHANGED signed_in

Change(d) == changes < MaxChanges /\ changes' = changes + 1 /\ Disturb(d, clock)

CreateListing(l, row) ==
  /\ \A m \in Ids : m >= l => db.rows[m] = NoRow
  /\ Change([db EXCEPT !.rows[l] = row])

UpdateListing(l, active, price) ==
  /\ db.rows[l] # NoRow
  /\ Change([db EXCEPT !.rows[l].active = active, !.rows[l].price = price])

SetFeaturedUntil(l, until) ==
  /\ db.rows[l] # NoRow
  /\ until # None => until > clock
  /\ Change([db EXCEPT !.rows[l].featured_until = until])

(* Wrong: the favourites of a deleted listing stay.                        *)
DeleteSaved(l) ==
  /\ db.rows[l] # NoRow
  /\ Change([db EXCEPT !.rows[l] = NoRow])

(* Only a listing nobody saved can be deleted.                             *)
DeleteListing(l) ==
  /\ db.rows[l] # NoRow /\ l \notin db.saved
  /\ Change([db EXCEPT !.rows[l] = NoRow])

AddFavorite(l) ==
  /\ db.rows[l].active /\ l \notin db.saved
  /\ Change([db EXCEPT !.saved = @ \cup {l}])

RemoveFavorite(l) == l \in db.saved /\ Change([db EXCEPT !.saved = @ \ {l}])

Tick == clock < Horizon /\ Disturb(db, clock + 1) /\ UNCHANGED changes

(* A token expires, or the client signs in: the limit may be another.      *)
SignInOrOut ==
  LET q == walk.query
  IN  /\ walk.stage \in {"asking", "counted"}
      /\ changes < MaxChanges /\ changes' = changes + 1
      /\ signed_in' = ~signed_in
      /\ walk' = [walk EXCEPT !.upset =
           IF LimitOf(q, signed_in') # LimitOf(q, signed_in) THEN @ \cup {"resized"} ELSE @]
      /\ UNCHANGED <<db, clock>>

Next ==
  \/ Count \/ Page \/ Fail \/ Tick \/ SignInOrOut
  \/ \E l \in Ids :
       \/ \E row \in Row : row.featured_until = None /\ CreateListing(l, row)
       \/ \E active \in BOOLEAN, price \in Prices : UpdateListing(l, active, price)
       \/ \E until \in Times \cup {None} : SetFeaturedUntil(l, until)
       \/ DeleteListing(l) \/ AddFavorite(l) \/ RemoveFavorite(l)

Spec == Init /\ [][Next]_vars

----------------------------------------------------------------------------
(* A walk that ends has shown every row there was when it began, unless    *)
(* rows left or moved, one changed between the two statements of a page,   *)
(* the order has ties, or the limit changed.  New rows alone hide none.    *)
NothingMissed ==
  walk.stage = "ended" /\ walk.upset \subseteq {"added"} => walk.first \subseteq walk.seen

(* No row is shown twice, unless rows were added or moved, the order has   *)
(* ties or the limit changed.  Rows that leave hide others, but repeat     *)
(* none, even between the two statements of a page.                        *)
NothingRepeated ==
  walk.upset \subseteq {"removed", "torn"} => ~walk.repeated

(* has_next_page is said of a search or of one's own listings only if      *)
(* there is a next row, unless rows leave or the limit changes meanwhile.  *)
NoEmptyPage ==
  walk.query.kind # "favourites" /\ walk.upset \cap {"removed", "torn", "resized"} = {}
    => ~walk.empty

(* Searches with isFeatured=true and =false share the listings a search    *)
(* without it finds, also those never featured (NULL).                     *)
FeaturedSplits ==
  LET With(f) == Found(db, [walk.query EXCEPT !.is_featured = f], clock)
  IN  /\ With(TRUE) \cup With(FALSE) = With(None)
      /\ With(TRUE) \cap With(FALSE) = {}

(* Featured listings come first: an undisturbed search shows no other      *)
(* before it has shown them all.                                           *)
FeaturedFirst ==
  LET q == walk.query
      Featured(l) == FeaturedIs(db.rows[l], TRUE, clock)
  IN  q.kind = "search" /\ q.sort = "featured" /\ walk.upset = {} /\ walk.page > 1
        => \/ \A l \in walk.seen : Featured(l)
           \/ \A l \in walk.first : Featured(l) => l \in walk.seen
=============================================================================
