-------------------------- MODULE Catalogue_proofs --------------------------
(***************************************************************************)
(* Theorems about Catalogue, for any listings, queries, limits and changes *)
(* during a walk.                                                          *)
(***************************************************************************)
EXTENDS Catalogue, TLAPS, FiniteSetTheorems

Tabled(d) == /\ d \in [rows : [Ids -> Row \cup {NoRow}], saved : SUBSET Ids]
             /\ \A l \in d.saved : d.rows[l] # NoRow

(* A page that is counted has a limit, and a total the table can have. *)
Counts == walk.stage = "counted" => walk.limit \in Nat \ {0} /\ walk.total <= MaxIds

----------------------------------------------------------------------------
(* Sizes *)

LEMMA RowIsNone == Row \cap {NoRow} = {}
  BY CatalogueAssumption DEF Row, NoRow

LEMMA IdsFinite ==
  ASSUME NEW S \in SUBSET Ids
  PROVE  IsFiniteSet(S) /\ Cardinality(S) \in Nat /\ Cardinality(S) <= MaxIds
<1>1. IsFiniteSet(Ids) /\ Cardinality(Ids) = MaxIds
  BY FS_Interval, CatalogueAssumption DEF Ids
<1>2. QED
  BY <1>1, FS_Subset, FS_CardinalityType

(* What a query lists, and what it counts, are ids. *)
LEMMA ListedIds ==
  ASSUME NEW d, Tabled(d), NEW q \in Query, NEW now
  PROVE  /\ Listed(d, q, now) \in SUBSET Ids /\ Counted(d, q, now) \in SUBSET Ids
         /\ q.kind # "favourites" => Counted(d, q, now) = Listed(d, q, now)
<1>1. q.kind \in {"search", "mine", "favourites"} /\ d.saved \subseteq Ids
  BY DEF Query, Tabled
<1>2. QED
  BY <1>1 DEF Listed, Counted, Found, ByLandlord, Favorites, Stored

LEMMA LimitIsNat ==
  ASSUME NEW q \in Query, NEW auth \in BOOLEAN
  PROVE  LimitOf(q, auth) \in Nat
<1>1. q.limit \in Nat /\ Cap(auth) \in Nat
  BY CatalogueAssumption DEF Query
<1>2. QED
  BY <1>1 DEF LimitOf, Least

(* A next page is said to exist while there are rows after this one. *)
LEMMA NextHasRows ==
  ASSUME NEW page \in Nat, NEW total \in Nat, NEW limit \in Nat \ {0}, HasNext(page, total, limit)
  PROVE  page * limit < total
<1> DEFINE d == (total + limit - 1) \div limit
<1>1. total + limit - 1 \in Nat /\ d \in Nat /\ page + 1 <= d
  BY DEF HasNext
<1>2. d * limit <= total + limit - 1
  OBVIOUS
<1> HIDE DEF d
<1>3. (page + 1) * limit <= d * limit
  BY <1>1
<1>4. (page + 1) * limit = page * limit + limit /\ page * limit \in Nat /\ d * limit \in Nat
  BY <1>1
<1>5. QED
  BY <1>2, <1>3, <1>4

LEMMA TimesSize ==
  ASSUME NEW m \in Nat, NEW limit \in Nat \ {0}
  PROVE  m * limit \in Nat /\ m <= m * limit
  OBVIOUS

----------------------------------------------------------------------------
(* Types *)

(* What happens meanwhile leaves a table, and disturbs only `upset`. *)
LEMMA Meanwhile ==
  ASSUME TypeOK, Next, ~Count, ~Page, ~Fail, ~SignInOrOut
  PROVE  \E d : \E now \in Times : Tabled(d) /\ Disturb(d, now) /\ changes' \in 0..MaxChanges
<1>1. Tabled(db) /\ clock \in Times /\ changes \in 0..MaxChanges /\ MaxChanges \in Nat
  BY CatalogueAssumption DEF TypeOK, Tabled
<1>2. ASSUME NEW d, Tabled(d), Change(d)
      PROVE  \E x : \E now \in Times : Tabled(x) /\ Disturb(x, now) /\ changes' \in 0..MaxChanges
  <2>1. Disturb(d, clock) /\ changes' \in 0..MaxChanges
    BY <1>1, <1>2 DEF Change
  <2>2. QED
    BY <1>1, <1>2, <2>1
<1>3. CASE Tick
  <2>1. clock + 1 \in Times
    BY <1>1, <1>3, CatalogueAssumption DEF Tick, Times
  <2>2. QED
    BY <1>1, <1>3, <2>1 DEF Tick
<1>4. ASSUME NEW l \in Ids, NEW r \in Row
      PROVE  Tabled([db EXCEPT !.rows[l] = r])
  BY <1>1, <1>4, RowIsNone DEF Tabled
<1>5. ASSUME NEW l \in Ids, NEW row \in Row, CreateListing(l, row)
      PROVE  \E x : \E now \in Times : Tabled(x) /\ Disturb(x, now) /\ changes' \in 0..MaxChanges
  BY <1>2, <1>4, <1>5 DEF CreateListing
<1>6. ASSUME NEW l \in Ids, NEW active \in BOOLEAN, NEW price \in Prices,
             UpdateListing(l, active, price)
      PROVE  \E x : \E now \in Times : Tabled(x) /\ Disturb(x, now) /\ changes' \in 0..MaxChanges
  <2> DEFINE d == [db EXCEPT !.rows[l].active = active, !.rows[l].price = price]
             r == [db.rows[l] EXCEPT !.active = active, !.price = price]
  <2>1. Change(d) /\ db.rows[l] \in Row
    BY <1>1, <1>6 DEF UpdateListing, Tabled
  <2>2. r \in Row
    BY <2>1 DEF Row
  <2>3. d = [db EXCEPT !.rows[l] = r]
    BY <1>1 DEF Tabled
  <2>4. Tabled(d)
    BY <1>4, <2>2, <2>3
  <2> HIDE DEF d
  <2>5. QED
    BY <1>2, <2>1, <2>4
<1>7. ASSUME NEW l \in Ids, NEW until \in Times \cup {None}, SetFeaturedUntil(l, until)
      PROVE  \E x : \E now \in Times : Tabled(x) /\ Disturb(x, now) /\ changes' \in 0..MaxChanges
  <2> DEFINE d == [db EXCEPT !.rows[l].featured_until = until]
             r == [db.rows[l] EXCEPT !.featured_until = until]
  <2>1. Change(d) /\ db.rows[l] \in Row
    BY <1>1, <1>7 DEF SetFeaturedUntil, Tabled
  <2>2. r \in Row
    BY <2>1 DEF Row
  <2>3. d = [db EXCEPT !.rows[l] = r]
    BY <1>1 DEF Tabled
  <2>4. Tabled(d)
    BY <1>4, <2>2, <2>3
  <2> HIDE DEF d
  <2>5. QED
    BY <1>2, <2>1, <2>4
<1>8. ASSUME NEW l \in Ids, DeleteListing(l)
      PROVE  \E x : \E now \in Times : Tabled(x) /\ Disturb(x, now) /\ changes' \in 0..MaxChanges
  <2>1. Tabled([db EXCEPT !.rows[l] = NoRow])
    BY <1>1, <1>8 DEF DeleteListing, Tabled
  <2>2. QED
    BY <1>2, <1>8, <2>1 DEF DeleteListing
<1>9. ASSUME NEW l \in Ids, AddFavorite(l)
      PROVE  \E x : \E now \in Times : Tabled(x) /\ Disturb(x, now) /\ changes' \in 0..MaxChanges
  <2>1. db.rows[l] # NoRow
    BY <1>9 DEF AddFavorite, NoRow
  <2>2. Tabled([db EXCEPT !.saved = @ \cup {l}])
    BY <1>1, <2>1 DEF Tabled
  <2>3. QED
    BY <1>2, <1>9, <2>2 DEF AddFavorite
<1>10. ASSUME NEW l \in Ids, RemoveFavorite(l)
       PROVE  \E x : \E now \in Times : Tabled(x) /\ Disturb(x, now) /\ changes' \in 0..MaxChanges
  <2>1. Tabled([db EXCEPT !.saved = @ \ {l}])
    BY <1>1 DEF Tabled
  <2>2. QED
    BY <1>2, <1>10, <2>1 DEF RemoveFavorite
<1>11. QED
  BY <1>3, <1>5, <1>6, <1>7, <1>8, <1>9, <1>10 DEF Next

LEMMA NextTypes == TypeOK /\ Counts /\ [Next]_vars => TypeOK' /\ Counts'
<1> SUFFICES ASSUME TypeOK, Counts, [Next]_vars PROVE TypeOK' /\ Counts'
  OBVIOUS
<1>1. /\ Tabled(db) /\ walk \in Walk /\ walk.query \in Query /\ clock \in Times
      /\ signed_in \in BOOLEAN /\ walk.page \in 1..(MaxIds + 1) /\ MaxIds \in Nat
  BY CatalogueAssumption DEF TypeOK, Tabled, Walk
<1>2. CASE UNCHANGED vars
  BY <1>2 DEF vars, TypeOK, Counts
<1>3. CASE Count
  <2> DEFINE total == Cardinality(Counted(db, walk.query, clock))
             limit == LimitOf(walk.query, signed_in)
             first == IF walk.page = 1 THEN Listed(db, walk.query, clock) ELSE walk.first
             upset == IF walk.page = 1 THEN {} ELSE walk.upset
  <2>1. limit \in Nat \ {0}
    BY <1>1, <1>3, LimitIsNat DEF Count
  <2>2. total \in Nat /\ total <= MaxIds
    BY <1>1, ListedIds, IdsFinite
  <2>3. first \in SUBSET Ids
    BY <1>1, ListedIds DEF Walk
  <2>4. upset \in SUBSET Upsets
    BY <1>1 DEF Walk
  <2>5. walk' = [walk EXCEPT !.stage = "counted", !.now = clock, !.limit = limit,
                             !.total = total, !.first = first, !.upset = upset]
    BY <1>3 DEF Count
  <2>6. UNCHANGED <<db, clock, signed_in, changes>>
    BY <1>3 DEF Count
  <2> HIDE DEF total, limit, first, upset
  <2>7. /\ walk' \in Walk /\ walk'.page = walk.page /\ walk'.limit = limit
        /\ walk'.total = total
    BY <1>1, <2>1, <2>2, <2>3, <2>4, <2>5 DEF Walk
  <2>8. QED
    BY <2>1, <2>2, <2>6, <2>7 DEF TypeOK, Counts
<1>4. CASE Fail
  <2>1. walk' \in Walk /\ walk'.page = walk.page /\ walk'.stage = "failed"
    BY <1>1, <1>4 DEF Fail, Walk
  <2>2. QED
    BY <1>4, <2>1 DEF Fail, TypeOK, Counts
<1>5. CASE Page
  <2> DEFINE more == HasNext(walk.page, walk.total, walk.limit)
  <2>1. PICK P \in Pages(db, walk.query, walk.now, Offset(walk.page, walk.limit), walk.limit) :
          walk' = [walk EXCEPT
             !.stage    = IF more THEN "asking" ELSE "ended",
             !.page     = IF more THEN @ + 1 ELSE @,
             !.seen     = @ \cup P,
             !.repeated = @ \/ P \cap walk.seen # {},
             !.empty    = @ \/ (P = {} /\ walk.page > 1),
             !.upset    = IF Tied(db, walk.query, walk.now) THEN @ \cup {"tied"} ELSE @]
    BY <1>5 DEF Page
  <2> DEFINE page     == IF more THEN walk.page + 1 ELSE walk.page
             seen     == walk.seen \cup P
             repeated == walk.repeated \/ P \cap walk.seen # {}
             empty    == walk.empty \/ (P = {} /\ walk.page > 1)
             upset    == IF Tied(db, walk.query, walk.now) THEN walk.upset \cup {"tied"} ELSE walk.upset
             stage    == IF more THEN "asking" ELSE "ended"
  <2>2. P \in SUBSET Ids
    BY <1>1, ListedIds DEF Pages
  <2>3. page \in 1..(MaxIds + 1)
    <3>1. CASE more
      <4>1. /\ walk.total \in Nat /\ walk.limit \in Nat \ {0} /\ walk.total <= MaxIds
            /\ walk.page \in Nat
        BY <1>1, <1>5 DEF Page, Counts, Walk
      <4>2. walk.page * walk.limit < walk.total
        BY <3>1, <4>1, NextHasRows
      <4>3. walk.page * walk.limit \in Nat /\ walk.page <= walk.page * walk.limit
        BY <4>1, TimesSize
      <4>4. QED
        BY <1>1, <4>1, <4>2, <4>3
    <3>2. CASE ~more
      BY <1>1, <3>2
    <3>3. QED
      BY <3>1, <3>2
  <2>4. /\ seen \in SUBSET Ids /\ upset \in SUBSET Upsets /\ stage \in {"asking", "ended"}
        /\ page \in Nat
    BY <1>1, <2>2, <2>3 DEF Walk, Upsets
  <2>5. repeated \in BOOLEAN /\ empty \in BOOLEAN
    BY Zenon
  <2>6. walk' = [walk EXCEPT !.stage = stage, !.page = page, !.seen = seen,
                             !.repeated = repeated, !.empty = empty, !.upset = upset]
    BY <2>1
  <2> HIDE DEF more, page, seen, repeated, empty, upset, stage
  <2>7. walk' \in Walk /\ walk'.page = page /\ walk'.stage = stage
    BY <1>1, <2>4, <2>5, <2>6 DEF Walk
  <2>8. QED
    BY <1>5, <2>3, <2>4, <2>7 DEF Page, TypeOK, Counts
<1>6. CASE SignInOrOut
  <2> DEFINE upset == IF LimitOf(walk.query, signed_in') # LimitOf(walk.query, signed_in)
                      THEN walk.upset \cup {"resized"} ELSE walk.upset
  <2>1. upset \in SUBSET Upsets
    BY <1>1 DEF Walk, Upsets
  <2>2. walk' = [walk EXCEPT !.upset = upset]
    BY <1>6 DEF SignInOrOut
  <2>3. signed_in' \in BOOLEAN /\ changes' \in 0..MaxChanges /\ UNCHANGED <<db, clock>>
    BY <1>6, CatalogueAssumption DEF SignInOrOut, TypeOK
  <2> HIDE DEF upset
  <2>4. /\ walk' \in Walk /\ walk'.page = walk.page /\ walk'.stage = walk.stage
        /\ walk'.limit = walk.limit /\ walk'.total = walk.total
    BY <1>1, <2>1, <2>2 DEF Walk
  <2>5. QED
    BY <2>3, <2>4 DEF TypeOK, Counts
<1>7. CASE Next /\ ~Count /\ ~Page /\ ~Fail /\ ~SignInOrOut
  <2>1. PICK d : \E now \in Times : Tabled(d) /\ Disturb(d, now) /\ changes' \in 0..MaxChanges
    BY <1>7, Meanwhile
  <2>2. PICK now \in Times : Tabled(d) /\ Disturb(d, now) /\ changes' \in 0..MaxChanges
    BY <2>1
  <2> DEFINE upset == walk.upset \cup Effects(d, now)
  <2>3. upset \in SUBSET Upsets
    BY <1>1 DEF Walk, Effects
  <2>4. walk' = [walk EXCEPT !.upset = upset] /\ db' = d /\ clock' = now /\ UNCHANGED signed_in
    BY <2>2 DEF Disturb
  <2> HIDE DEF upset
  <2>5. /\ walk' \in Walk /\ walk'.page = walk.page /\ walk'.stage = walk.stage
        /\ walk'.limit = walk.limit /\ walk'.total = walk.total
    BY <1>1, <2>3, <2>4 DEF Walk
  <2>6. QED
    BY <2>2, <2>4, <2>5 DEF TypeOK, Tabled, Counts
<1>8. QED
  BY <1>2, <1>3, <1>4, <1>5, <1>6, <1>7

LEMMA InitTypes == Init => TypeOK /\ Counts
<1> SUFFICES ASSUME Init PROVE TypeOK /\ Counts
  OBVIOUS
<1>1. PICK q \in Queries :
        walk = [stage |-> "asking", query |-> q, page |-> 1, limit |-> 0, total |-> 0,
                now |-> 0, first |-> {}, seen |-> {}, repeated |-> FALSE,
                empty |-> FALSE, upset |-> {}]
  BY DEF Init
<1>2. q \in Query /\ {} \in SUBSET Ids /\ {} \in SUBSET Upsets /\ 0 \in Times
  BY CatalogueAssumption DEF Times
<1>3. walk \in Walk /\ walk.page = 1 /\ walk.stage = "asking"
  BY <1>1, <1>2 DEF Walk
<1>4. PICK t \in Tables : db = [rows |-> t, saved |-> {l \in Saved : t[l] # NoRow}]
  BY DEF Init
<1>5. /\ t \in [Ids -> Row \cup {NoRow}]
      /\ {l \in Saved : t[l] # NoRow} \in SUBSET Ids
  BY CatalogueAssumption
<1>6. QED
  BY <1>2, <1>3, <1>4, <1>5, CatalogueAssumption DEF Init, TypeOK, Counts

(* A walk never asks for a page beyond the rows a table can hold. *)
THEOREM TypesAndCounts == Spec => [](TypeOK /\ Counts)
  BY InitTypes, NextTypes, PTL DEF Spec

(* Every page that is asked for is one of at most as many as there are ids. *)
THEOREM TypeCorrect == Spec => []TypeOK
  BY TypesAndCounts, PTL

----------------------------------------------------------------------------
(* Searches *)

(* Whatever is stored and whenever it is asked, the two filters share what *)
(* a search finds, rows never featured among them.                         *)
THEOREM FeaturedSplitsHolds == Spec => []FeaturedSplits
<1>1. TypeOK => FeaturedSplits
  <2> SUFFICES ASSUME TypeOK PROVE FeaturedSplits
    OBVIOUS
  <2> DEFINE Asked(f) == [walk.query EXCEPT !.is_featured = f]
  <2>1. walk.query \in Query /\ clock \in Times /\ Tabled(db)
    BY DEF TypeOK, Walk, Tabled
  <2>2. ASSUME NEW f \in BOOLEAN \cup {None}
        PROVE  Asked(f).is_featured = f /\ Asked(f).max_price = walk.query.max_price
    BY <2>1 DEF Query
  <2> HIDE DEF Asked
  <2>3. ASSUME NEW l \in Stored(db)
        PROVE  /\ FeaturedIs(db.rows[l], TRUE, clock) <=> ~FeaturedIs(db.rows[l], FALSE, clock)
               /\ l \in Ids
    <3>1. db.rows[l] \in Row /\ l \in Ids
      BY <2>1 DEF Stored, Tabled
    <3>2. clock \in Nat /\ (db.rows[l].featured_until = None \/ db.rows[l].featured_until \in Nat)
      BY <2>1, <3>1, CatalogueAssumption DEF Row, Times
    <3>3. QED
      BY <3>1, <3>2 DEF FeaturedIs
  <2>4. TRUE # None /\ FALSE # None
    BY CatalogueAssumption
  <2> DEFINE Else(l) == /\ db.rows[l].active
                        /\ walk.query.max_price # None => db.rows[l].price <= walk.query.max_price
  <2>5. /\ Found(db, Asked(None), clock) = {l \in Stored(db) : Else(l)}
        /\ Found(db, Asked(TRUE), clock)
             = {l \in Stored(db) : Else(l) /\ FeaturedIs(db.rows[l], TRUE, clock)}
        /\ Found(db, Asked(FALSE), clock)
             = {l \in Stored(db) : Else(l) /\ FeaturedIs(db.rows[l], FALSE, clock)}
    BY <2>2, <2>4 DEF Found, Meets
  <2> HIDE DEF Else
  <2>6. /\ Found(db, Asked(TRUE), clock) \cup Found(db, Asked(FALSE), clock) = Found(db, Asked(None), clock)
        /\ Found(db, Asked(TRUE), clock) \cap Found(db, Asked(FALSE), clock) = {}
    BY <2>3, <2>5
  <2>7. QED
    BY <2>6 DEF FeaturedSplits, Asked
<1>2. QED
  BY <1>1, TypesAndCounts, PTL

----------------------------------------------------------------------------
(* The next page *)

Undisturbed ==
  walk.query.kind # "favourites" /\ walk.upset \cap {"removed", "torn", "resized"} = {}

(* While nothing leaves and the limit stays, the page that comes next, or  *)
(* is counted, begins before the last row.                                 *)
Filled ==
  /\ walk.page = 1 => ~walk.empty
  /\ Undisturbed =>
       /\ ~walk.empty
       /\ walk.stage = "asking" /\ walk.page > 1 =>
            (walk.page - 1) * LimitOf(walk.query, signed_in) < Cardinality(Listed(db, walk.query, clock))
       /\ walk.stage = "counted" =>
            /\ walk.limit = LimitOf(walk.query, signed_in)
            /\ walk.total = Cardinality(Listed(db, walk.query, walk.now))
            /\ Listed(db, walk.query, walk.now) \subseteq Listed(db, walk.query, clock)
            /\ walk.page > 1 => (walk.page - 1) * walk.limit < walk.total

(* A page that begins before the last row shows one. *)
LEMMA PageShows ==
  ASSUME NEW d, Tabled(d), NEW q \in Query, NEW now, NEW offset \in Nat, NEW limit \in Nat \ {0},
         offset < Cardinality(Listed(d, q, now)), NEW P \in Pages(d, q, now, offset, limit)
  PROVE  P # {}
<1> DEFINE n == Cardinality(Listed(d, q, now))
<1>1. n \in Nat /\ offset < n
  BY ListedIds, IdsFinite
<1>2. Cardinality(P) = Least(limit, n - Least(offset, n))
  BY DEF Pages
<1> HIDE DEF n
<1>3. Cardinality(P) > 0
  BY <1>1, <1>2 DEF Least
<1>4. QED
  BY <1>3, FS_EmptySet

(* More rows reach further. *)
LEMMA MoreListed ==
  ASSUME NEW d, Tabled(d), NEW q \in Query, NEW now, NEW S, S \subseteq Listed(d, q, now)
  PROVE  Cardinality(S) \in Nat /\ Cardinality(Listed(d, q, now)) \in Nat
         /\ Cardinality(S) <= Cardinality(Listed(d, q, now))
<1>1. IsFiniteSet(Listed(d, q, now)) /\ Cardinality(Listed(d, q, now)) \in Nat
  BY ListedIds, IdsFinite
<1>2. QED
  BY <1>1, FS_Subset, FS_CardinalityType

LEMMA NextFilled == TypeOK /\ Counts /\ Filled /\ [Next]_vars => Filled'
<1> SUFFICES ASSUME TypeOK, Counts, Filled, [Next]_vars PROVE Filled'
  OBVIOUS
<1> DEFINE q == walk.query
<1>1. /\ Tabled(db) /\ walk \in Walk /\ q \in Query /\ clock \in Times
      /\ signed_in \in BOOLEAN /\ walk.page \in 1..(MaxIds + 1) /\ MaxIds \in Nat
      /\ walk.page \in Nat /\ walk.upset \in SUBSET Upsets
  BY CatalogueAssumption DEF TypeOK, Tabled, Walk
<1> HIDE DEF q
<1>2. CASE UNCHANGED vars
  BY <1>2 DEF vars, Filled, Undisturbed
<1>3. CASE Count
  <2> DEFINE upset == IF walk.page = 1 THEN {} ELSE walk.upset
  <2>1. /\ walk'.stage = "counted" /\ walk'.now = clock /\ walk'.limit = LimitOf(q, signed_in)
        /\ walk'.total = Cardinality(Counted(db, q, clock)) /\ walk'.query = q
        /\ walk'.page = walk.page /\ walk'.upset = upset
    BY <1>1, <1>3 DEF Count, Walk, q
  <2>2. walk'.empty <=> walk.empty
    BY <1>1, <1>3 DEF Count, Walk
  <2>3. UNCHANGED <<db, clock, signed_in>> /\ walk.stage = "asking"
    BY <1>3 DEF Count
  <2>4. q.kind # "favourites" => Counted(db, q, clock) = Listed(db, q, clock)
    BY <1>1, ListedIds
  <2>5. walk.page # 1 => walk.page > 1 /\ upset = walk.upset
    BY <1>1
  <2> HIDE DEF upset
  <2>6. Undisturbed' => walk.page = 1 \/ Undisturbed
    BY <2>1, <2>5 DEF Undisturbed, q
  <2>7. QED
    BY <1>1, <2>1, <2>2, <2>3, <2>4, <2>5, <2>6 DEF Filled, Undisturbed, q
<1>4. CASE Fail
  <2>1. /\ walk'.stage = "failed" /\ walk'.query = q /\ walk'.page = walk.page
        /\ walk'.upset = walk.upset
    BY <1>1, <1>4 DEF Fail, Walk, q
  <2>2. walk'.empty <=> walk.empty
    BY <1>1, <1>4 DEF Fail, Walk
  <2>3. QED
    BY <2>1, <2>2 DEF Filled, Undisturbed, q
<1>5. CASE Page
  <2> DEFINE more == HasNext(walk.page, walk.total, walk.limit)
             offset == Offset(walk.page, walk.limit)
  <2>1. PICK P \in Pages(db, q, walk.now, offset, walk.limit) :
          walk' = [walk EXCEPT
             !.stage    = IF more THEN "asking" ELSE "ended",
             !.page     = IF more THEN @ + 1 ELSE @,
             !.seen     = @ \cup P,
             !.repeated = @ \/ P \cap walk.seen # {},
             !.empty    = @ \/ (P = {} /\ walk.page > 1),
             !.upset    = IF Tied(db, walk.query, walk.now) THEN @ \cup {"tied"} ELSE @]
    BY <1>5 DEF Page, q
  <2>2. /\ walk'.stage = IF more THEN "asking" ELSE "ended"
        /\ walk'.page = IF more THEN walk.page + 1 ELSE walk.page
        /\ walk'.query = q /\ walk.upset \subseteq walk'.upset
    BY <1>1, <2>1 DEF Walk, q
  <2>3. walk'.empty <=> (walk.empty \/ (P = {} /\ walk.page > 1))
    BY <1>1, <2>1 DEF Walk
  <2>4. UNCHANGED <<db, clock, signed_in>> /\ walk.stage = "counted"
    BY <1>5 DEF Page
  <2>5. walk.limit \in Nat \ {0} /\ walk.total \in Nat
    BY <1>1, <2>4 DEF Counts, Walk
  <2>6. Undisturbed' => Undisturbed
    BY <2>2 DEF Undisturbed, q
  <2>7. Undisturbed /\ walk.page > 1 => P # {}
    <3>1. SUFFICES ASSUME Undisturbed, walk.page > 1 PROVE P # {}
      OBVIOUS
    <3>2. (walk.page - 1) * walk.limit < walk.total
          /\ walk.total = Cardinality(Listed(db, q, walk.now))
      BY <2>4, <3>1 DEF Filled, q
    <3>3. offset \in Nat
      BY <1>1, <2>5, TimesSize DEF Offset
    <3>4. offset < Cardinality(Listed(db, q, walk.now))
      BY <3>2 DEF Offset
    <3> HIDE DEF offset
    <3>5. QED
      BY <1>1, <2>1, <2>5, <3>3, <3>4, PageShows
  <2>8. Undisturbed /\ more =>
          walk.page * LimitOf(q, signed_in) < Cardinality(Listed(db, q, clock))
    <3>1. SUFFICES ASSUME Undisturbed, more
                   PROVE  walk.page * LimitOf(q, signed_in) < Cardinality(Listed(db, q, clock))
      OBVIOUS
    <3>2. walk.page * walk.limit < walk.total
      BY <1>1, <2>5, <3>1, NextHasRows
    <3>3. /\ walk.limit = LimitOf(q, signed_in)
          /\ walk.total = Cardinality(Listed(db, q, walk.now))
          /\ Listed(db, q, walk.now) \subseteq Listed(db, q, clock)
      BY <2>4, <3>1 DEF Filled, q
    <3>4. walk.total <= Cardinality(Listed(db, q, clock)) /\ Cardinality(Listed(db, q, clock)) \in Nat
      BY <1>1, <3>3, MoreListed
    <3>5. walk.page * walk.limit \in Nat
      BY <1>1, <2>5, TimesSize
    <3>6. QED
      BY <2>5, <3>2, <3>3, <3>4, <3>5
  <2> HIDE DEF more, offset
  <2>9. walk'.page = 1 => ~walk'.empty
    BY <1>1, <2>2, <2>3 DEF Filled
  <2>10. Undisturbed' => ~walk'.empty
    BY <2>3, <2>6, <2>7 DEF Filled
  <2>11. ASSUME Undisturbed', walk'.stage = "asking"
         PROVE  (walk'.page - 1) * LimitOf(walk'.query, signed_in')
                  < Cardinality(Listed(db', walk'.query, clock'))
    <3>1. walk'.page - 1 = walk.page
      BY <1>1, <2>2, <2>11
    <3>2. more
      BY <2>2, <2>11
    <3>3. QED
      BY <2>2, <2>4, <2>6, <2>8, <2>11, <3>1, <3>2
  <2>12. QED
    BY <2>2, <2>9, <2>10, <2>11 DEF Filled
<1>6. CASE SignInOrOut
  <2>1. /\ walk'.stage = walk.stage /\ walk'.query = q /\ walk'.page = walk.page
        /\ walk'.limit = walk.limit /\ walk'.total = walk.total /\ walk'.now = walk.now
        /\ walk'.upset = IF LimitOf(q, signed_in') # LimitOf(q, signed_in)
                         THEN walk.upset \cup {"resized"} ELSE walk.upset
    BY <1>1, <1>6 DEF SignInOrOut, Walk, q
  <2>2. walk'.empty <=> walk.empty
    BY <1>1, <1>6 DEF SignInOrOut, Walk
  <2>3. UNCHANGED <<db, clock>>
    BY <1>6 DEF SignInOrOut
  <2>4. Undisturbed' => Undisturbed /\ LimitOf(q, signed_in') = LimitOf(q, signed_in)
    BY <2>1 DEF Undisturbed, q
  <2>5. QED
    BY <2>1, <2>2, <2>3, <2>4 DEF Filled, q
<1>7. CASE Next /\ ~Count /\ ~Page /\ ~Fail /\ ~SignInOrOut
  <2>1. PICK d : \E now \in Times : Tabled(d) /\ Disturb(d, now)
    BY <1>7, Meanwhile
  <2>2. PICK now \in Times : Tabled(d) /\ Disturb(d, now)
    BY <2>1
  <2>3. /\ walk'.stage = walk.stage /\ walk'.query = q /\ walk'.page = walk.page
        /\ walk'.limit = walk.limit /\ walk'.total = walk.total /\ walk'.now = walk.now
        /\ walk'.upset = walk.upset \cup Effects(d, now)
    BY <1>1, <2>2 DEF Disturb, Walk, q
  <2>4. walk'.empty <=> walk.empty
    BY <1>1, <2>2 DEF Disturb, Walk
  <2>5. db' = d /\ clock' = now /\ signed_in' = signed_in
    BY <2>2 DEF Disturb
  <2>6. Undisturbed' => Undisturbed /\ "removed" \notin Effects(d, now) /\ "torn" \notin Effects(d, now)
    BY <2>3 DEF Undisturbed, q
  <2>7. "removed" \notin Effects(d, now) => Listed(db, q, clock) \subseteq Listed(d, q, now)
    BY DEF Effects, Upsets, q
  <2>8. "torn" \notin Effects(d, now) /\ walk.stage = "counted" => d = db
    BY DEF Effects, Upsets
  <2>9. ASSUME Undisturbed'
        PROVE  /\ Cardinality(Listed(db, q, clock)) <= Cardinality(Listed(d, q, now))
               /\ Cardinality(Listed(db, q, clock)) \in Nat
               /\ Cardinality(Listed(d, q, now)) \in Nat
    BY <1>1, <2>2, <2>6, <2>7, <2>9, MoreListed
  <2>10. LimitOf(q, signed_in) \in Nat
    BY <1>1, LimitIsNat
  <2>11. ASSUME Undisturbed', walk.stage = "asking", walk.page > 1
         PROVE  (walk.page - 1) * LimitOf(q, signed_in) < Cardinality(Listed(d, q, now))
    <3>1. (walk.page - 1) * LimitOf(q, signed_in) < Cardinality(Listed(db, q, clock))
      BY <2>6, <2>11 DEF Filled, q
    <3>2. (walk.page - 1) * LimitOf(q, signed_in) \in Int
      BY <1>1, <2>10
    <3>3. QED
      BY <2>9, <2>11, <3>1, <3>2
  <2>12. QED
    BY <2>3, <2>4, <2>5, <2>6, <2>7, <2>8, <2>11 DEF Filled, q
<1>8. QED
  BY <1>2, <1>3, <1>4, <1>5, <1>6, <1>7

(* Whatever the limit and however many rows are added, a next page that is *)
(* announced has a row, unless rows leave or the limit changes.            *)
THEOREM NoEmptyPageHolds == Spec => []NoEmptyPage
<1>1. Init => Filled
  <2> SUFFICES ASSUME Init PROVE Filled
    OBVIOUS
  <2>1. walk.stage = "asking" /\ walk.page = 1 /\ ~walk.empty
    BY DEF Init
  <2>2. QED
    BY <2>1 DEF Filled
<1>2. Filled => NoEmptyPage
  BY DEF Filled, Undisturbed, NoEmptyPage
<1>3. QED
  BY <1>1, <1>2, NextFilled, TypesAndCounts, PTL DEF Spec

----------------------------------------------------------------------------
(* Prefixes of an order                                                     *)

(* D holds the first rows: none outside it comes before one of its own.    *)
Prefix(d, q, now, D) ==
  \A x \in Listed(d, q, now) \ D, y \in D : ~Before(d, q, now, x, y)

(* Two tables, or two times, order the rows of S alike.                    *)
SameOrder(d, from, e, to, q, S) ==
  \A x, y \in S : Before(d, q, from, x, y) <=> Before(e, q, to, x, y)

(* Of two prefixes of an order without ties the smaller is in the larger.  *)
LEMMA PrefixesNest ==
  ASSUME NEW d, Tabled(d), NEW q \in Query, NEW now, ~Tied(d, q, now),
         NEW D \in SUBSET Listed(d, q, now), NEW E \in SUBSET Listed(d, q, now),
         Prefix(d, q, now, D), Prefix(d, q, now, E), Cardinality(D) <= Cardinality(E)
  PROVE  D \subseteq E
<1>1. IsFiniteSet(Listed(d, q, now))
  BY ListedIds, IdsFinite
<1>2. /\ IsFiniteSet(D) /\ Cardinality(D) \in Nat
      /\ IsFiniteSet(E) /\ Cardinality(E) \in Nat
  BY <1>1, FS_Subset, FS_CardinalityType
<1>3. SUFFICES ASSUME NEW x \in D, x \notin E PROVE FALSE
  OBVIOUS
<1>4. CASE E \subseteq D
  <2>1. Cardinality(E) <= Cardinality(D) /\ (Cardinality(E) = Cardinality(D) => E = D)
    BY <1>2, <1>4, FS_Subset
  <2>2. QED
    BY <1>2, <1>3, <2>1
<1>5. ASSUME NEW y \in E, y \notin D
      PROVE  FALSE
  <2>1. ~Before(d, q, now, x, y) /\ ~Before(d, q, now, y, x)
    BY <1>3, <1>5 DEF Prefix
  <2>2. QED
    BY <1>3, <1>5, <2>1 DEF Tied
<1>6. QED
  BY <1>4, <1>5

(* What a prefix shares with fewer rows in the same order is a prefix.     *)
LEMMA PrefixWithin ==
  ASSUME NEW d, Tabled(d), NEW e, NEW q \in Query, NEW from, NEW to,
         Listed(e, q, to) \subseteq Listed(d, q, from),
         SameOrder(d, from, e, to, q, Listed(e, q, to)),
         NEW D \in SUBSET Listed(d, q, from), Prefix(d, q, from, D)
  PROVE  /\ Prefix(e, q, to, D \cap Listed(e, q, to))
         /\ Cardinality(D \cap Listed(e, q, to)) \in Nat /\ Cardinality(D) \in Nat
         /\ Cardinality(D \cap Listed(e, q, to)) <= Cardinality(D)
<1>1. Prefix(e, q, to, D \cap Listed(e, q, to))
  BY DEF Prefix, SameOrder
<1>2. IsFiniteSet(D)
  BY ListedIds, IdsFinite, FS_Subset
<1>3. QED
  BY <1>1, <1>2, FS_Subset, FS_CardinalityType

(* P follows the first rows S, of which there are n: a page after `offset` *)
(* rows, as far as there are any.                                          *)
Follows(d, q, now, offset, limit, n, S, P) ==
  /\ S \cap P = {} /\ S \cup P \in SUBSET Listed(d, q, now)
  /\ Prefix(d, q, now, S) /\ Prefix(d, q, now, S \cup P)
  /\ Cardinality(S) = Least(offset, n)
  /\ Cardinality(S \cup P) = Least(offset + limit, n)

LEMMA PageContinues ==
  ASSUME NEW d, Tabled(d), NEW q \in Query, NEW now, NEW offset \in Nat, NEW limit \in Nat,
         NEW P \in Pages(d, q, now, offset, limit), NEW n, n = Cardinality(Listed(d, q, now))
  PROVE  n \in Nat /\ \E S \in SUBSET Listed(d, q, now) : Follows(d, q, now, offset, limit, n, S, P)
<1> DEFINE rows == Listed(d, q, now)
<1>1. IsFiniteSet(rows) /\ n \in Nat
  BY ListedIds, IdsFinite
<1>2. PICK S \in SUBSET (rows \ P) :
        /\ Cardinality(S) = Least(offset, n)
        /\ \A x \in rows \ S, y \in S : ~Before(d, q, now, x, y)
        /\ \A x \in rows \ (S \cup P), y \in S \cup P : ~Before(d, q, now, x, y)
  BY DEF Pages
<1>3. P \subseteq rows /\ Cardinality(P) = Least(limit, n - Least(offset, n))
  BY DEF Pages
<1>4. S \cap P = {} /\ S \subseteq rows
  BY <1>2
<1>5. IsFiniteSet(S) /\ IsFiniteSet(P)
  BY <1>1, <1>3, <1>4, FS_Subset
<1>6. Cardinality(S \cup P) = Cardinality(S) + Cardinality(P)
  <2>1. Cardinality(S \cup P) = Cardinality(S) + Cardinality(P) - Cardinality(S \cap P)
    BY <1>5, FS_Union
  <2>2. Cardinality(S \cap P) = 0 /\ Cardinality(S) \in Nat /\ Cardinality(P) \in Nat
    BY <1>4, <1>5, FS_EmptySet, FS_CardinalityType
  <2>3. QED
    BY <2>1, <2>2
<1>7. Cardinality(S \cup P) = Least(offset + limit, n)
  BY <1>1, <1>2, <1>3, <1>6 DEF Least
<1>8. Prefix(d, q, now, S) /\ Prefix(d, q, now, S \cup P)
  BY <1>2 DEF Prefix
<1>9. QED
  BY <1>1, <1>2, <1>3, <1>4, <1>7, <1>8 DEF Follows

----------------------------------------------------------------------------
(* What each step does to the walk                                         *)

LEMMA CountStep ==
  ASSUME TypeOK, Count
  PROVE  LET q == walk.query
         IN  /\ walk.stage = "asking" /\ walk'.stage = "counted"
             /\ walk'.query = q /\ walk'.page = walk.page /\ walk'.seen = walk.seen
             /\ walk'.now = clock /\ walk'.limit = LimitOf(q, signed_in)
             /\ walk'.total = Cardinality(Counted(db, q, clock))
             /\ walk'.first = IF walk.page = 1 THEN Listed(db, q, clock) ELSE walk.first
             /\ walk'.upset = IF walk.page = 1 THEN {} ELSE walk.upset
             /\ walk'.repeated <=> walk.repeated
             /\ UNCHANGED <<db, clock, signed_in>>
<1>1. walk \in Walk
  BY DEF TypeOK
<1>2. walk'.repeated <=> walk.repeated
  BY <1>1 DEF Count, Walk
<1>3. QED
  BY <1>1, <1>2 DEF Count, Walk

LEMMA FailStep ==
  ASSUME TypeOK, Fail
  PROVE  /\ walk.stage = "asking" /\ walk'.stage = "failed"
         /\ walk'.query = walk.query /\ walk'.page = walk.page
         /\ walk'.first = walk.first /\ walk'.seen = walk.seen /\ walk'.upset = walk.upset
         /\ walk'.repeated <=> walk.repeated
         /\ UNCHANGED <<db, clock, signed_in>>
<1>1. walk \in Walk
  BY DEF TypeOK
<1>2. walk'.repeated <=> walk.repeated
  BY <1>1 DEF Fail, Walk
<1>3. QED
  BY <1>1, <1>2 DEF Fail, Walk

LEMMA PageStep ==
  ASSUME TypeOK, Page
  PROVE  LET q    == walk.query
             more == HasNext(walk.page, walk.total, walk.limit)
         IN  /\ walk.stage = "counted" /\ walk'.stage = IF more THEN "asking" ELSE "ended"
             /\ walk'.query = q /\ walk'.page = IF more THEN walk.page + 1 ELSE walk.page
             /\ walk'.limit = walk.limit /\ walk'.now = walk.now /\ walk'.first = walk.first
             /\ walk'.upset = IF Tied(db, q, walk.now) THEN walk.upset \cup {"tied"} ELSE walk.upset
             /\ \E P \in Pages(db, q, walk.now, Offset(walk.page, walk.limit), walk.limit) :
                  /\ walk'.seen = walk.seen \cup P
                  /\ walk'.repeated <=> walk.repeated \/ P \cap walk.seen # {}
             /\ UNCHANGED <<db, clock, signed_in>>
<1> DEFINE more == HasNext(walk.page, walk.total, walk.limit)
<1>1. walk \in Walk
  BY DEF TypeOK
<1>2. PICK P \in Pages(db, walk.query, walk.now, Offset(walk.page, walk.limit), walk.limit) :
        walk' = [walk EXCEPT
             !.stage    = IF more THEN "asking" ELSE "ended",
             !.page     = IF more THEN @ + 1 ELSE @,
             !.seen     = @ \cup P,
             !.repeated = @ \/ P \cap walk.seen # {},
             !.empty    = @ \/ (P = {} /\ walk.page > 1),
             !.upset    = IF Tied(db, walk.query, walk.now) THEN @ \cup {"tied"} ELSE @]
  BY DEF Page
<1>3. walk'.repeated <=> walk.repeated \/ P \cap walk.seen # {}
  BY <1>1, <1>2 DEF Walk
<1>4. walk.stage = "counted" /\ UNCHANGED <<db, clock, signed_in>>
  BY DEF Page
<1> HIDE DEF more
<1>5. /\ walk'.stage = IF more THEN "asking" ELSE "ended"
      /\ walk'.query = walk.query /\ walk'.page = IF more THEN walk.page + 1 ELSE walk.page
      /\ walk'.limit = walk.limit /\ walk'.now = walk.now /\ walk'.first = walk.first
      /\ walk'.upset = IF Tied(db, walk.query, walk.now) THEN walk.upset \cup {"tied"} ELSE walk.upset
      /\ walk'.seen = walk.seen \cup P
  BY <1>1, <1>2 DEF Walk
<1>6. QED
  BY <1>3, <1>4, <1>5 DEF more

LEMMA SignStep ==
  ASSUME TypeOK, SignInOrOut
  PROVE  LET q == walk.query
         IN  /\ walk.stage \in {"asking", "counted"} /\ walk'.stage = walk.stage
             /\ walk'.query = q /\ walk'.page = walk.page /\ walk'.limit = walk.limit
             /\ walk'.total = walk.total /\ walk'.now = walk.now
             /\ walk'.first = walk.first /\ walk'.seen = walk.seen
             /\ walk'.upset = IF LimitOf(q, signed_in') # LimitOf(q, signed_in)
                              THEN walk.upset \cup {"resized"} ELSE walk.upset
             /\ walk'.repeated <=> walk.repeated
             /\ UNCHANGED <<db, clock>>
<1>1. walk \in Walk
  BY DEF TypeOK
<1>2. walk'.repeated <=> walk.repeated
  BY <1>1 DEF SignInOrOut, Walk
<1>3. QED
  BY <1>1, <1>2 DEF SignInOrOut, Walk

LEMMA MeanwhileStep ==
  ASSUME TypeOK, Next, ~Count, ~Page, ~Fail, ~SignInOrOut
  PROVE  /\ walk.stage \in {"asking", "counted"} /\ walk'.stage = walk.stage
         /\ walk'.query = walk.query /\ walk'.page = walk.page /\ walk'.limit = walk.limit
         /\ walk'.total = walk.total /\ walk'.now = walk.now
         /\ walk'.first = walk.first /\ walk'.seen = walk.seen
         /\ walk'.upset = walk.upset \cup Effects(db', clock')
         /\ walk'.repeated <=> walk.repeated
         /\ signed_in' = signed_in /\ Tabled(db') /\ clock' \in Times
<1>1. walk \in Walk
  BY DEF TypeOK
<1>2. PICK d : \E now \in Times : Tabled(d) /\ Disturb(d, now) /\ changes' \in 0..MaxChanges
  BY Meanwhile
<1>3. PICK now \in Times : Tabled(d) /\ Disturb(d, now) /\ changes' \in 0..MaxChanges
  BY <1>2
<1>4. /\ db' = d /\ clock' = now /\ UNCHANGED signed_in
      /\ walk.stage \in {"asking", "counted"}
      /\ walk' = [walk EXCEPT !.upset = walk.upset \cup Effects(d, now)]
  BY <1>1, <1>3 DEF Disturb
<1>5. walk'.repeated <=> walk.repeated
  BY <1>1, <1>4 DEF Walk
<1>6. QED
  BY <1>1, <1>3, <1>4, <1>5 DEF Walk

(* Time passes or the listings change, and a featured period is only ever  *)
(* given up or set to end later than now.                                  *)
LEMMA OnlyForward ==
  ASSUME TypeOK, Next, ~Count, ~Page, ~Fail, ~SignInOrOut
  PROVE  /\ clock <= clock' /\ (db' = db \/ clock' = clock)
         /\ \A x \in Ids : db.rows[x] # NoRow /\ db'.rows[x] # NoRow =>
              \/ db'.rows[x].featured_until \in {db.rows[x].featured_until, None}
              \/ db'.rows[x].featured_until > clock
<1> DEFINE Forward(d) == \A x \in Ids : db.rows[x] # NoRow /\ d.rows[x] # NoRow =>
                           \/ d.rows[x].featured_until \in {db.rows[x].featured_until, None}
                           \/ d.rows[x].featured_until > clock
<1>1. Tabled(db) /\ clock \in Times /\ clock \in Nat
  BY CatalogueAssumption DEF TypeOK, Tabled, Times
<1>2. ASSUME NEW d, Change(d), Forward(d)
      PROVE  clock <= clock' /\ clock' = clock /\ Forward(db')
  BY <1>1, <1>2 DEF Change, Disturb
<1>3. ASSUME Tick
      PROVE  clock <= clock' /\ db' = db
  BY <1>1, <1>3 DEF Tick, Disturb
<1>4. Forward(db)
  OBVIOUS
<1>5. ASSUME NEW l \in Ids, NEW r \in Row \cup {NoRow},
             \/ db.rows[l] = NoRow \/ r = NoRow
             \/ r.featured_until \in {db.rows[l].featured_until, None}
             \/ r.featured_until > clock
      PROVE  Forward([db EXCEPT !.rows[l] = r])
  BY <1>1, <1>5 DEF Tabled
<1>6. ASSUME NEW l \in Ids, NEW row \in Row, CreateListing(l, row)
      PROVE  \E d : Change(d) /\ Forward(d)
  <2>1. db.rows[l] = NoRow /\ Change([db EXCEPT !.rows[l] = row])
    BY <1>1, <1>6 DEF CreateListing, Ids
  <2>2. QED
    BY <1>5, <2>1
<1>7. ASSUME NEW l \in Ids, NEW active \in BOOLEAN, NEW price \in Prices,
             UpdateListing(l, active, price)
      PROVE  \E d : Change(d) /\ Forward(d)
  <2> DEFINE d == [db EXCEPT !.rows[l].active = active, !.rows[l].price = price]
             r == [db.rows[l] EXCEPT !.active = active, !.price = price]
  <2>1. Change(d) /\ db.rows[l] \in Row
    BY <1>1, <1>7 DEF UpdateListing, Tabled
  <2>2. r \in Row /\ r.featured_until = db.rows[l].featured_until
    BY <2>1 DEF Row
  <2>3. d = [db EXCEPT !.rows[l] = r]
    BY <1>1 DEF Tabled
  <2> HIDE DEF d, r, Forward
  <2>4. Forward(d)
    BY <1>5, <2>2, <2>3
  <2>5. QED
    BY <2>1, <2>4
<1>8. ASSUME NEW l \in Ids, NEW until \in Times \cup {None}, SetFeaturedUntil(l, until)
      PROVE  \E d : Change(d) /\ Forward(d)
  <2> DEFINE d == [db EXCEPT !.rows[l].featured_until = until]
             r == [db.rows[l] EXCEPT !.featured_until = until]
  <2>1. Change(d) /\ db.rows[l] \in Row /\ (until = None \/ until > clock)
    BY <1>1, <1>8 DEF SetFeaturedUntil, Tabled
  <2>2. r \in Row /\ r.featured_until = until
    BY <2>1 DEF Row
  <2>3. d = [db EXCEPT !.rows[l] = r]
    BY <1>1 DEF Tabled
  <2> HIDE DEF d, r, Forward
  <2>4. Forward(d)
    BY <1>5, <2>1, <2>2, <2>3
  <2>5. QED
    BY <2>1, <2>4
<1>9. ASSUME NEW l \in Ids, DeleteListing(l)
      PROVE  \E d : Change(d) /\ Forward(d)
  BY <1>5, <1>9 DEF DeleteListing
<1>10. ASSUME NEW l \in Ids, AddFavorite(l) \/ RemoveFavorite(l)
       PROVE  \E d : Change(d) /\ Forward(d)
  <2>1. PICK favourites : Change([db EXCEPT !.saved = favourites])
    BY <1>1, <1>10 DEF AddFavorite, RemoveFavorite, Tabled
  <2>2. Forward([db EXCEPT !.saved = favourites])
    BY <1>1 DEF Tabled
  <2>3. QED
    BY <2>1, <2>2
<1> HIDE DEF Forward
<1>11. QED
  BY <1>2, <1>3, <1>4, <1>6, <1>7, <1>8, <1>9, <1>10 DEF Next, Forward

----------------------------------------------------------------------------
(* What happens meanwhile, as far as it leaves the walk undisturbed         *)

(* A kind of upset that is not recorded did not happen: neither to the     *)
(* rows as they are now, nor to those the page in flight sees.             *)
LEMMA Unseen ==
  ASSUME NEW d, NEW now, NEW q, q = walk.query
  PROVE  /\ "added" \notin Effects(d, now) =>
              /\ Listed(d, q, now) \subseteq Listed(db, q, clock)
              /\ walk.stage = "counted" =>
                   Listed(d, q, walk.now) \subseteq Listed(db, q, walk.now)
         /\ "removed" \notin Effects(d, now) =>
              /\ Listed(db, q, clock) \subseteq Listed(d, q, now)
              /\ walk.stage = "counted" =>
                   Listed(db, q, walk.now) \subseteq Listed(d, q, walk.now)
         /\ "moved" \notin Effects(d, now) =>
              /\ SameOrder(db, clock, d, now, q, Listed(db, q, clock) \cap Listed(d, q, now))
              /\ walk.stage = "counted" =>
                   SameOrder(db, walk.now, d, walk.now, q,
                             Listed(db, q, walk.now) \cap Listed(d, q, walk.now))
         /\ "torn" \notin Effects(d, now) /\ walk.stage = "counted" => d = db
<1>1. {"added", "removed", "moved", "torn"} \subseteq Upsets
  BY DEF Upsets
<1>2. "added" \notin Effects(d, now) =>
        /\ Listed(d, q, now) \subseteq Listed(db, q, clock)
        /\ walk.stage = "counted" => Listed(d, q, walk.now) \subseteq Listed(db, q, walk.now)
  BY <1>1 DEF Effects
<1>3. "removed" \notin Effects(d, now) =>
        /\ Listed(db, q, clock) \subseteq Listed(d, q, now)
        /\ walk.stage = "counted" => Listed(db, q, walk.now) \subseteq Listed(d, q, walk.now)
  BY <1>1 DEF Effects
<1>4. ASSUME "moved" \notin Effects(d, now)
      PROVE  /\ SameOrder(db, clock, d, now, q, Listed(db, q, clock) \cap Listed(d, q, now))
             /\ walk.stage = "counted" =>
                  SameOrder(db, walk.now, d, walk.now, q,
                            Listed(db, q, walk.now) \cap Listed(d, q, walk.now))
  <2>1. /\ \A x, y \in Listed(db, q, clock) \cap Listed(d, q, now) :
             Before(db, q, clock, x, y) = Before(d, q, now, x, y)
        /\ walk.stage = "counted" =>
             \A x, y \in Listed(db, q, walk.now) \cap Listed(d, q, walk.now) :
               Before(db, q, walk.now, x, y) = Before(d, q, walk.now, x, y)
    BY <1>1, <1>4 DEF Effects
  <2>2. QED
    BY <2>1 DEF SameOrder
<1>5. "torn" \notin Effects(d, now) /\ walk.stage = "counted" => d = db
  BY <1>1 DEF Effects
<1>6. QED
  BY <1>2, <1>3, <1>4, <1>5

(* What a query lists now it also lists at the time of the page in flight, *)
(* as long as nothing is added: a period that has ended since adds a row.  *)
LEMMA ListedAtBoth ==
  ASSUME NEW d, Tabled(d), NEW e, Tabled(e), NEW q \in Query,
         NEW then \in Times, NEW from \in Times, NEW to \in Times, then <= from, from <= to,
         e = d \/ to = from,
         \A x \in Ids : d.rows[x] # NoRow /\ e.rows[x] # NoRow =>
           \/ e.rows[x].featured_until \in {d.rows[x].featured_until, None}
           \/ e.rows[x].featured_until > from,
         Listed(d, q, from) \subseteq Listed(d, q, then),
         Listed(e, q, to) \subseteq Listed(d, q, from)
  PROVE  Listed(e, q, to) \subseteq Listed(e, q, then)
<1>1. q.kind \in {"search", "mine", "favourites"}
  BY DEF Query
<1>2. CASE q.kind = "mine" \/ q.kind = "favourites"
  BY <1>2 DEF Listed
<1>3. CASE e = d
  BY <1>3
<1>4. CASE q.kind = "search" /\ to = from
  <2>1. SUFFICES ASSUME NEW x \in Found(e, q, from)
                 PROVE  x \in Found(e, q, then)
    BY <1>4 DEF Listed
  <2>2. x \in Found(d, q, from) /\ x \in Found(d, q, then)
    BY <1>4, <2>1 DEF Listed
  <2> DEFINE old == d.rows[x]
             new == e.rows[x]
  <2>3. /\ x \in Ids /\ old # NoRow /\ new # NoRow
        /\ old \in Row /\ new \in Row
        /\ Meets(old, q, then) /\ Meets(new, q, from)
    BY <2>1, <2>2 DEF Found, Stored, Tabled
  <2>4. /\ new.featured_until \in {old.featured_until, None} \/ new.featured_until > from
        /\ old.featured_until \in Times \cup {None} /\ new.featured_until \in Times \cup {None}
    BY <2>3 DEF Row
  <2> HIDE DEF old, new
  <2>5. q.is_featured # None =>
          /\ FeaturedIs(old, q.is_featured, then) /\ FeaturedIs(new, q.is_featured, from)
          /\ q.is_featured \in BOOLEAN
    BY <2>3 DEF Meets, Query
  <2>6. /\ then \in Nat /\ from \in Nat /\ Times \subseteq Nat /\ None \notin Times
    BY CatalogueAssumption DEF Times
  <2>7. q.is_featured # None => FeaturedIs(new, q.is_featured, then)
    <3>1. SUFFICES ASSUME q.is_featured # None
                   PROVE  FeaturedIs(new, q.is_featured, then)
      OBVIOUS
    <3>2. CASE q.is_featured = TRUE
      <4>1. new.featured_until # None /\ new.featured_until > from
        BY <2>5, <3>1, <3>2 DEF FeaturedIs
      <4>2. new.featured_until \in Nat
        BY <2>4, <2>6, <4>1
      <4>3. new.featured_until > then
        BY <2>6, <4>1, <4>2
      <4>4. QED
        BY <3>2, <4>1, <4>3 DEF FeaturedIs
    <3>3. CASE q.is_featured = FALSE
      <4>1. FeaturedIs(old, FALSE, then) /\ FeaturedIs(new, FALSE, from)
        BY <2>5, <3>1, <3>3
      <4>2. /\ old.featured_until = None \/ old.featured_until <= then
            /\ new.featured_until = None \/ new.featured_until <= from
        BY <4>1 DEF FeaturedIs
      <4>3. CASE new.featured_until # None
        <5>1. new.featured_until \in Nat /\ new.featured_until <= from
          BY <2>4, <2>6, <4>2, <4>3
        <5>2. ~(new.featured_until > from)
          BY <2>6, <5>1
        <5>3. new.featured_until = old.featured_until
          BY <2>4, <4>3, <5>2
        <5>4. new.featured_until <= then
          BY <4>2, <4>3, <5>3
        <5>5. QED
          BY <3>3, <5>4 DEF FeaturedIs
      <4>4. QED
        BY <3>3, <4>3 DEF FeaturedIs
    <3>4. QED
      BY <2>5, <3>1, <3>2, <3>3
  <2>8. Meets(new, q, then)
    BY <2>3, <2>7 DEF Meets
  <2>9. QED
    BY <2>3, <2>8 DEF Found, Stored, old, new
<1>5. QED
  BY <1>1, <1>2, <1>3, <1>4

----------------------------------------------------------------------------
(* The invariant of a walk                                                 *)

(* When and on how many rows the pages so far stand.                       *)
View == IF walk.stage = "counted" THEN walk.now ELSE clock

Places ==
  CASE walk.stage = "counted" -> (walk.page - 1) * walk.limit
    [] walk.stage = "ended"   -> walk.page * walk.limit
    [] OTHER                  -> (walk.page - 1) * LimitOf(walk.query, signed_in)

Shown == Listed(db, walk.query, View)

(* The first page has been counted. *)
Begun == walk.page > 1 \/ walk.stage \in {"counted", "ended"}

FirstPage == walk.page = 1 /\ walk.stage # "ended" => walk.seen = {} /\ ~walk.repeated

(* The rows of the page in flight, at its time, and the rows as they are.  *)
InFlight ==
  walk.stage = "counted" =>
    LET q   == walk.query
        was == Listed(db, q, walk.now)
        is  == Listed(db, q, clock)
    IN  /\ walk.now <= clock
        /\ "resized" \notin walk.upset => walk.limit = LimitOf(q, signed_in)
        /\ walk.upset \cap {"added", "moved"} = {} =>
             is \subseteq was /\ SameOrder(db, walk.now, db, clock, q, is)
        /\ walk.upset \cap {"removed", "moved", "torn"} = {} =>
             was \subseteq is /\ SameOrder(db, clock, db, walk.now, q, was)
        /\ "torn" \notin walk.upset => walk.total = Cardinality(Counted(db, q, walk.now))

(* While rows only leave, those seen are among the first ones, as many as  *)
(* the pages so far have places; so the next page repeats none.            *)
Covered ==
  walk.upset \subseteq {"removed", "torn"} =>
    /\ ~walk.repeated
    /\ \E D \in SUBSET Shown : /\ Prefix(db, walk.query, View, D)
                               /\ Cardinality(D) <= Places
                               /\ walk.seen \cap Shown \subseteq D

(* While rows are only added, the first ones have been seen, as many as    *)
(* the pages so far have places, new ones excepted.                        *)
Reached ==
  Begun /\ walk.upset \subseteq {"added"} =>
    /\ walk.first \subseteq Shown
    /\ \A D \in SUBSET Shown :
         Prefix(db, walk.query, View, D) /\ Cardinality(D) <= Places
           => walk.first \cap D \subseteq walk.seen
    /\ walk.stage = "ended" => walk.first \subseteq walk.seen

(* A walk nothing disturbs lists what it listed at first. *)
Still == Begun /\ walk.upset = {} => walk.first = Shown /\ walk.seen \subseteq walk.first

Walked == FirstPage /\ InFlight /\ Covered /\ Reached /\ Still

----------------------------------------------------------------------------
(* Every step keeps it                                                     *)

LEMMA WalkTypes ==
  ASSUME TypeOK
  PROVE  /\ Tabled(db) /\ walk.query \in Query /\ clock \in Times /\ clock \in Nat
         /\ walk.now \in Times /\ walk.now \in Nat /\ walk.limit \in Nat
         /\ walk.page \in Nat /\ walk.page >= 1 /\ walk.upset \subseteq Upsets
         /\ LimitOf(walk.query, signed_in) \in Nat
<1>1. walk \in Walk /\ walk.page \in 1..(MaxIds + 1) /\ clock \in Times /\ signed_in \in BOOLEAN
      /\ Times \subseteq Nat
  BY CatalogueAssumption DEF TypeOK, Times
<1>2. walk.query \in Query /\ walk.now \in Times /\ walk.page \in Nat /\ walk.limit \in Nat
      /\ walk.upset \subseteq Upsets
  BY <1>1 DEF Walk
<1>3. LimitOf(walk.query, signed_in) \in Nat
  BY <1>1, <1>2, LimitIsNat
<1>4. walk.page \in Nat /\ walk.page >= 1
  BY <1>1, CatalogueAssumption
<1>5. Tabled(db)
  BY DEF TypeOK, Tabled
<1>6. QED
  BY <1>1, <1>2, <1>3, <1>4, <1>5

(* What the walk shows while others write, if nothing of it is disturbed.  *)
LEMMA ShownMeanwhile ==
  ASSUME TypeOK, Next, ~Count, ~Page, ~Fail, ~SignInOrOut
  PROVE  LET q == walk.query
             u == Effects(db', clock')
         IN  /\ Places' = Places /\ (Begun' <=> Begun)
             /\ "added" \notin u => Shown' \subseteq Shown
             /\ "removed" \notin u => Shown \subseteq Shown'
             /\ "moved" \notin u => SameOrder(db, View, db', View', q, Shown \cap Shown')
<1>1. /\ walk.stage \in {"asking", "counted"} /\ walk'.stage = walk.stage
      /\ walk'.query = walk.query /\ walk'.page = walk.page /\ walk'.limit = walk.limit
      /\ walk'.now = walk.now /\ signed_in' = signed_in
  BY MeanwhileStep
<1>2. Places' = Places
  BY <1>1 DEF Places
<1>3. Begun' <=> Begun
  BY <1>1 DEF Begun
<1>4. CASE walk.stage = "asking"
  <2>1. /\ View = clock /\ View' = clock'
        /\ Shown = Listed(db, walk.query, clock) /\ Shown' = Listed(db', walk.query, clock')
    BY <1>1, <1>4 DEF View, Shown
  <2>2. QED
    BY <1>2, <1>3, <2>1, Unseen
<1>5. CASE walk.stage = "counted"
  <2>1. /\ View = walk.now /\ View' = walk.now
        /\ Shown = Listed(db, walk.query, walk.now) /\ Shown' = Listed(db', walk.query, walk.now)
    BY <1>1, <1>5 DEF View, Shown
  <2>2. QED
    BY <1>2, <1>3, <1>5, <2>1, Unseen
<1>6. QED
  BY <1>1, <1>4, <1>5

(* The first page repeats nothing, as nothing was seen before it. *)
LEMMA NextFirstPage == TypeOK /\ FirstPage /\ [Next]_vars => FirstPage'
<1> SUFFICES ASSUME TypeOK, FirstPage, [Next]_vars PROVE FirstPage'
  OBVIOUS
<1>1. CASE UNCHANGED vars
  BY <1>1 DEF vars, FirstPage
<1>2. CASE Count
  BY <1>2, CountStep DEF FirstPage
<1>3. CASE Fail
  BY <1>3, FailStep DEF FirstPage
<1>4. CASE Page
  <2>1. walk'.stage = "ended" \/ walk'.page = walk.page + 1
    BY <1>4, PageStep
  <2>2. QED
    BY <2>1, WalkTypes DEF FirstPage
<1>5. CASE SignInOrOut
  BY <1>5, SignStep DEF FirstPage
<1>6. CASE Next /\ ~Count /\ ~Page /\ ~Fail /\ ~SignInOrOut
  BY <1>6, MeanwhileStep DEF FirstPage
<1>7. QED
  BY <1>1, <1>2, <1>3, <1>4, <1>5, <1>6

(* The two views of the page in flight stay as close as the upsets say. *)
LEMMA NextInFlight == TypeOK /\ InFlight /\ [Next]_vars => InFlight'
<1> SUFFICES ASSUME TypeOK, InFlight, [Next]_vars PROVE InFlight'
  OBVIOUS
<1>1. CASE UNCHANGED vars
  BY <1>1 DEF vars, InFlight
<1>2. CASE Count
  <2>1. clock <= clock /\ \A q, S : SameOrder(db, clock, db, clock, q, S)
    BY WalkTypes DEF SameOrder
  <2>2. QED
    BY <1>2, <2>1, CountStep DEF InFlight
<1>3. CASE Fail
  BY <1>3, FailStep DEF InFlight
<1>4. CASE Page
  <2>1. walk'.stage # "counted"
    BY <1>4, PageStep
  <2>2. QED
    BY <2>1 DEF InFlight
<1>5. CASE SignInOrOut
  <2>1. /\ walk'.stage = walk.stage /\ walk'.query = walk.query /\ walk'.limit = walk.limit
        /\ walk'.total = walk.total /\ walk'.now = walk.now /\ walk.upset \subseteq walk'.upset
        /\ "resized" \notin walk'.upset =>
             LimitOf(walk.query, signed_in') = LimitOf(walk.query, signed_in)
        /\ UNCHANGED <<db, clock>>
    BY <1>5, SignStep
  <2>2. \A U : walk'.upset \cap U = {} => walk.upset \cap U = {}
    BY <2>1
  <2>3. QED
    BY <2>1, <2>2 DEF InFlight
<1>6. CASE Next /\ ~Count /\ ~Page /\ ~Fail /\ ~SignInOrOut
  <2> DEFINE q    == walk.query
             now  == walk.now
             was  == Listed(db, q, now)
             is   == Listed(db, q, clock)
             was2 == Listed(db', q, now)
             is2  == Listed(db', q, clock')
             u    == Effects(db', clock')
  <2>1. /\ walk'.stage = walk.stage /\ walk'.query = q /\ walk'.limit = walk.limit
        /\ walk'.total = walk.total /\ walk'.now = now
        /\ walk'.upset = walk.upset \cup u /\ signed_in' = signed_in /\ Tabled(db')
    BY <1>6, MeanwhileStep
  <2>2. SUFFICES ASSUME walk.stage = "counted"
                 PROVE  /\ now <= clock'
                        /\ "resized" \notin walk'.upset => walk.limit = LimitOf(q, signed_in)
                        /\ walk'.upset \cap {"added", "moved"} = {} =>
                             is2 \subseteq was2 /\ SameOrder(db', now, db', clock', q, is2)
                        /\ walk'.upset \cap {"removed", "moved", "torn"} = {} =>
                             was2 \subseteq is2 /\ SameOrder(db', clock', db', now, q, was2)
                        /\ "torn" \notin walk'.upset =>
                             walk.total = Cardinality(Counted(db', q, now))
    BY <2>1 DEF InFlight
  <2>3. /\ now <= clock
        /\ "resized" \notin walk.upset => walk.limit = LimitOf(q, signed_in)
        /\ walk.upset \cap {"added", "moved"} = {} =>
             is \subseteq was /\ SameOrder(db, now, db, clock, q, is)
        /\ walk.upset \cap {"removed", "moved", "torn"} = {} =>
             was \subseteq is /\ SameOrder(db, clock, db, now, q, was)
        /\ "torn" \notin walk.upset => walk.total = Cardinality(Counted(db, q, now))
    BY <2>2 DEF InFlight
  <2>4. now \in Times /\ clock \in Times /\ clock' \in Times /\ q \in Query /\ Tabled(db)
    BY <1>6, MeanwhileStep, WalkTypes
  <2>5. now <= clock'
    <3>1. clock <= clock' /\ now \in Nat /\ clock \in Nat /\ clock' \in Nat
      BY <1>6, <2>4, OnlyForward, CatalogueAssumption DEF Times
    <3>2. QED
      BY <2>3, <3>1
  <2>6. ASSUME walk'.upset \cap {"added", "moved"} = {}
        PROVE  is2 \subseteq was2 /\ SameOrder(db', now, db', clock', q, is2)
    <3>1. "added" \notin u /\ "moved" \notin u /\ walk.upset \cap {"added", "moved"} = {}
      BY <2>1, <2>6
    <3>2. is \subseteq was /\ SameOrder(db, now, db, clock, q, is)
      BY <2>3, <3>1
    <3>3. /\ is2 \subseteq is
          /\ SameOrder(db, clock, db', clock', q, is \cap is2)
          /\ SameOrder(db, now, db', now, q, was \cap was2)
      BY <2>2, <3>1, Unseen
    <3>4. is2 \subseteq was2
      BY <1>6, <2>3, <2>4, <2>1, <3>2, <3>3, OnlyForward, ListedAtBoth
    <3> HIDE DEF is, was, is2, was2
    <3>5. QED
      BY <3>2, <3>3, <3>4 DEF SameOrder
  <2>7. ASSUME walk'.upset \cap {"removed", "moved", "torn"} = {}
        PROVE  was2 \subseteq is2 /\ SameOrder(db', clock', db', now, q, was2)
    <3>1. /\ "removed" \notin u /\ "moved" \notin u /\ "torn" \notin u
          /\ walk.upset \cap {"removed", "moved", "torn"} = {}
      BY <2>1, <2>7
    <3>2. was \subseteq is /\ SameOrder(db, clock, db, now, q, was)
      BY <2>3, <3>1
    <3>3. /\ is \subseteq is2 /\ db' = db
          /\ SameOrder(db, clock, db', clock', q, is \cap is2)
      BY <2>2, <3>1, Unseen
    <3>4. was2 = was
      BY <3>3
    <3> HIDE DEF is, was, is2, was2
    <3>5. QED
      BY <3>2, <3>3, <3>4 DEF SameOrder
  <2>8. "torn" \notin walk'.upset => walk.total = Cardinality(Counted(db', q, now))
    <3>1. SUFFICES ASSUME "torn" \notin walk'.upset
                   PROVE  walk.total = Cardinality(Counted(db', q, now))
      OBVIOUS
    <3>2. "torn" \notin u /\ "torn" \notin walk.upset
      BY <2>1, <3>1
    <3>3. db' = db
      BY <2>2, <3>2, Unseen
    <3>4. QED
      BY <2>3, <3>2, <3>3
  <2>9. QED
    BY <2>1, <2>3, <2>5, <2>6, <2>7, <2>8
<1>7. QED
  BY <1>1, <1>2, <1>3, <1>4, <1>5, <1>6

(* Where a page stands before and after it is read, if the limit stays.    *)
LEMMA PagePlaces ==
  ASSUME TypeOK, InFlight, Page, "resized" \notin walk.upset
  PROVE  /\ Offset(walk.page, walk.limit) \in Nat
         /\ Places = Offset(walk.page, walk.limit)
         /\ Places' = Offset(walk.page, walk.limit) + walk.limit
         /\ Places' = walk.page * walk.limit
         /\ View = walk.now /\ View' = clock
         /\ Shown = Listed(db, walk.query, walk.now) /\ Shown' = Listed(db, walk.query, clock)
<1> DEFINE more == HasNext(walk.page, walk.total, walk.limit)
           page == walk.page
           limit == walk.limit
<1>1. /\ walk.stage = "counted" /\ walk'.stage = IF more THEN "asking" ELSE "ended"
      /\ walk'.page = IF more THEN page + 1 ELSE page
      /\ walk'.query = walk.query /\ walk'.limit = limit /\ UNCHANGED <<db, clock, signed_in>>
  BY PageStep
<1>2. limit = LimitOf(walk.query, signed_in)
  BY <1>1 DEF InFlight
<1>3. page \in Nat /\ page >= 1 /\ limit \in Nat
  BY WalkTypes
<1> HIDE DEF more, page, limit
<1>4. page - 1 \in Nat /\ (page - 1) * limit \in Nat /\ (page - 1) * limit + limit = page * limit
  BY <1>3
<1>5. Places = (page - 1) * limit
  BY <1>1 DEF Places, page, limit
<1>6. Places' = page * limit
  <2>1. CASE more
    <3>1. walk'.page - 1 = page /\ walk'.stage = "asking"
      BY <1>1, <1>3, <2>1
    <3>2. QED
      BY <1>1, <1>2, <3>1 DEF Places
  <2>2. CASE ~more
    BY <1>1, <2>2 DEF Places
  <2>3. QED
    BY <2>1, <2>2
<1>7. View = walk.now /\ View' = clock
  BY <1>1 DEF View
<1>8. Shown = Listed(db, walk.query, walk.now) /\ Shown' = Listed(db, walk.query, clock)
  BY <1>1, <1>7 DEF Shown
<1>9. QED
  BY <1>4, <1>5, <1>6, <1>7, <1>8 DEF Offset, page, limit

(* A step that writes none of the places, the rows and the time leaves     *)
(* what the walk shows.                                                    *)
LEMMA ShownStays ==
  ASSUME TypeOK, Count \/ Fail \/ (SignInOrOut /\ "resized" \notin walk'.upset)
  PROVE  Places' = Places /\ View' = View /\ Shown' = Shown /\ walk'.query = walk.query
<1>1. CASE Count
  <2>1. /\ walk.stage = "asking" /\ walk'.stage = "counted" /\ walk'.query = walk.query
        /\ walk'.page = walk.page /\ walk'.now = clock
        /\ walk'.limit = LimitOf(walk.query, signed_in) /\ UNCHANGED <<db, clock, signed_in>>
    BY <1>1, CountStep
  <2>2. View = clock /\ View' = clock
    BY <2>1 DEF View
  <2>3. QED
    BY <2>1, <2>2 DEF Places, Shown
<1>2. CASE Fail
  <2>1. /\ walk.stage = "asking" /\ walk'.stage = "failed" /\ walk'.query = walk.query
        /\ walk'.page = walk.page /\ UNCHANGED <<db, clock, signed_in>>
    BY <1>2, FailStep
  <2>2. View = clock /\ View' = clock
    BY <2>1 DEF View
  <2>3. QED
    BY <2>1, <2>2 DEF Places, Shown
<1>3. CASE SignInOrOut /\ "resized" \notin walk'.upset
  <2>1. /\ walk'.stage = walk.stage /\ walk'.query = walk.query /\ walk'.page = walk.page
        /\ walk'.limit = walk.limit /\ walk'.now = walk.now /\ UNCHANGED <<db, clock>>
        /\ LimitOf(walk.query, signed_in') = LimitOf(walk.query, signed_in)
    BY <1>3, SignStep
  <2>2. View' = View
    BY <2>1 DEF View
  <2>3. QED
    BY <2>1, <2>2 DEF Places, Shown
<1>4. QED
  BY <1>1, <1>2, <1>3

LEMMA PlacesIsNat ==
  ASSUME TypeOK
  PROVE  Places \in Nat /\ (walk.page = 1 /\ walk.stage # "ended" => Places = 0)
<1> DEFINE page == walk.page
           limit == walk.limit
           l2 == LimitOf(walk.query, signed_in)
<1>1. page \in Nat /\ page >= 1 /\ limit \in Nat /\ l2 \in Nat
  BY WalkTypes
<1> HIDE DEF page, limit, l2
<1>2. page - 1 \in Nat
  BY <1>1
<1>3. (page - 1) * limit \in Nat /\ page * limit \in Nat /\ (page - 1) * l2 \in Nat
  BY <1>1, <1>2
<1>4. page = 1 => (page - 1) * limit = 0 /\ (page - 1) * l2 = 0
  BY <1>1
<1>5. QED
  BY <1>3, <1>4 DEF Places, page, limit, l2

(* A page shows the rows P after a prefix S: all of the first rows that    *)
(* fit into the places before the page, and together with it.              *)
LEMMA PageTakes ==
  ASSUME TypeOK, InFlight, Page, "resized" \notin walk.upset, ~Tied(db, walk.query, walk.now)
  PROVE  \E S \in SUBSET Shown, P \in SUBSET Shown :
           /\ walk'.seen = walk.seen \cup P
           /\ walk'.repeated <=> walk.repeated \/ P \cap walk.seen # {}
           /\ S \cap P = {}
           /\ Prefix(db, walk.query, View, S) /\ Prefix(db, walk.query, View, S \cup P)
           /\ Cardinality(S) <= Places
           /\ Cardinality(S \cup P) \in Nat /\ Cardinality(S \cup P) <= Places'
           /\ \A D \in SUBSET Shown : Prefix(db, walk.query, View, D) =>
                /\ Cardinality(D) <= Places => D \subseteq S
                /\ Cardinality(D) <= Places' => D \subseteq S \cup P
<1> DEFINE q      == walk.query
           offset == Offset(walk.page, walk.limit)
           limit  == walk.limit
           n      == Cardinality(Listed(db, q, View))
<1>1. Tabled(db) /\ q \in Query /\ limit \in Nat /\ n = Cardinality(Listed(db, q, View))
  BY WalkTypes
<1>2. /\ offset \in Nat /\ Places = offset /\ Places' = offset + limit
      /\ View = walk.now /\ Shown = Listed(db, q, View)
  BY PagePlaces
<1>3. PICK P \in Pages(db, q, View, offset, limit) :
        /\ walk'.seen = walk.seen \cup P
        /\ walk'.repeated <=> walk.repeated \/ P \cap walk.seen # {}
  BY <1>2, PageStep
<1> HIDE DEF q, offset, limit, n
<1>4. n \in Nat /\ \E S \in SUBSET Listed(db, q, View) : Follows(db, q, View, offset, limit, n, S, P)
  <2>1. offset \in Nat /\ P \in Pages(db, q, View, offset, limit)
    BY <1>2, <1>3
  <2>2. QED
    BY <1>1, <2>1, PageContinues
<1>5. PICK S \in SUBSET Listed(db, q, View) : Follows(db, q, View, offset, limit, n, S, P)
  BY <1>4
<1>6. ASSUME NEW D \in SUBSET Listed(db, q, View), Prefix(db, q, View, D)
      PROVE  /\ Cardinality(D) <= offset => D \subseteq S
             /\ Cardinality(D) <= offset + limit => D \subseteq S \cup P
  <2>1. Cardinality(D) \in Nat /\ Cardinality(D) <= n
    BY <1>1, MoreListed DEF n
  <2>2. /\ Cardinality(D) <= offset => Cardinality(D) <= Cardinality(S)
        /\ Cardinality(D) <= offset + limit => Cardinality(D) <= Cardinality(S \cup P)
    BY <1>1, <1>2, <1>4, <1>5, <2>1 DEF Least, Follows
  <2>3. ~Tied(db, q, View)
    BY <1>2 DEF q
  <2>4. QED
    BY <1>1, <1>5, <1>6, <2>2, <2>3, PrefixesNest DEF Follows
<1>7. /\ Cardinality(S) <= offset
      /\ Cardinality(S \cup P) \in Nat /\ Cardinality(S \cup P) <= offset + limit
  BY <1>1, <1>2, <1>4, <1>5 DEF Least, Follows
<1>8. S \in SUBSET Shown /\ P \in SUBSET Shown
  BY <1>2, <1>5 DEF Follows
<1>9. /\ S \cap P = {} /\ Prefix(db, q, View, S) /\ Prefix(db, q, View, S \cup P)
      /\ Cardinality(S) <= Places
      /\ Cardinality(S \cup P) \in Nat /\ Cardinality(S \cup P) <= Places'
      /\ \A D \in SUBSET Shown : Prefix(db, q, View, D) =>
           /\ Cardinality(D) <= Places => D \subseteq S
           /\ Cardinality(D) <= Places' => D \subseteq S \cup P
  BY <1>2, <1>5, <1>6, <1>7 DEF Follows
<1>10. QED
  BY <1>3, <1>8, <1>9 DEF q

(* A page shows rows after all those seen, and no more are seen than the   *)
(* pages have places.                                                      *)
LEMMA NextCovered == TypeOK /\ FirstPage /\ InFlight /\ Covered /\ [Next]_vars => Covered'
<1> SUFFICES ASSUME TypeOK, FirstPage, InFlight, Covered, [Next]_vars PROVE Covered'
  OBVIOUS
<1> DEFINE Hold(u) == u \subseteq {"removed", "torn"}
<1>0. Tabled(db) /\ walk.query \in Query
  BY WalkTypes
<1>1. CASE UNCHANGED vars
  <2>1. View' = View /\ Shown' = Shown /\ Places' = Places
    BY <1>1 DEF vars, View, Shown, Places
  <2>2. QED
    BY <1>1, <2>1 DEF vars, Covered
<1>2. CASE Count
  <2>1. /\ Places' = Places /\ View' = View /\ Shown' = Shown /\ walk'.query = walk.query
        /\ walk'.seen = walk.seen /\ db' = db /\ walk.stage = "asking"
        /\ walk'.upset = IF walk.page = 1 THEN {} ELSE walk.upset
        /\ walk'.repeated <=> walk.repeated
    BY <1>2, CountStep, ShownStays
  <2>2. CASE walk.page = 1
    <3>1. walk.seen = {} /\ ~walk.repeated
      BY <2>1, <2>2 DEF FirstPage
    <3>2. Places \in Nat /\ Cardinality({}) = 0
      BY PlacesIsNat, FS_EmptySet
    <3>3. Prefix(db, walk.query, View, {})
      BY DEF Prefix
    <3>4. {} \in SUBSET Shown /\ Cardinality({}) <= Places /\ walk.seen \cap Shown \subseteq {}
      BY <3>1, <3>2
    <3>5. QED
      BY <2>1, <3>1, <3>3, <3>4 DEF Covered
  <2>3. CASE walk.page # 1
    BY <2>1, <2>3 DEF Covered
  <2>4. QED
    BY <2>2, <2>3
<1>3. CASE Fail
  <2>1. /\ Places' = Places /\ View' = View /\ Shown' = Shown /\ walk'.query = walk.query
        /\ walk'.seen = walk.seen /\ db' = db /\ walk'.upset = walk.upset
        /\ walk'.repeated <=> walk.repeated
    BY <1>3, FailStep, ShownStays
  <2>2. QED
    BY <2>1 DEF Covered
<1>4. CASE SignInOrOut
  <2>1. SUFFICES ASSUME Hold(walk'.upset) PROVE Covered'
    BY DEF Covered
  <2>2. "resized" \notin walk'.upset
    BY <2>1
  <2>3. /\ Places' = Places /\ View' = View /\ Shown' = Shown /\ walk'.query = walk.query
        /\ walk'.seen = walk.seen /\ db' = db /\ walk.upset \subseteq walk'.upset
        /\ walk'.repeated <=> walk.repeated
    BY <1>4, <2>2, SignStep, ShownStays
  <2>4. QED
    BY <2>1, <2>3 DEF Covered
<1>5. CASE Page
  <2> DEFINE q  == walk.query
             is == Listed(db, q, clock)
  <2>1. SUFFICES ASSUME Hold(walk'.upset) PROVE Covered'
    BY DEF Covered
  <2>2. /\ walk'.upset = IF Tied(db, q, walk.now) THEN walk.upset \cup {"tied"} ELSE walk.upset
        /\ walk'.query = q /\ db' = db /\ walk.stage = "counted"
    BY <1>5, PageStep
  <2>3. ~Tied(db, q, walk.now) /\ Hold(walk.upset) /\ "resized" \notin walk.upset
    BY <2>1, <2>2
  <2>4. View = walk.now /\ View' = clock /\ Shown = Listed(db, q, View) /\ Shown' = is
    BY <1>5, <2>3, PagePlaces
  <2>5. is \subseteq Shown /\ SameOrder(db, View, db, clock, q, is)
    BY <2>2, <2>3, <2>4 DEF InFlight
  <2>6. PICK S \in SUBSET Shown, P \in SUBSET Shown :
          /\ walk'.seen = walk.seen \cup P
          /\ walk'.repeated <=> walk.repeated \/ P \cap walk.seen # {}
          /\ S \cap P = {}
          /\ Prefix(db, q, View, S \cup P)
          /\ Cardinality(S \cup P) \in Nat /\ Cardinality(S \cup P) <= Places'
          /\ \A D \in SUBSET Shown :
               Prefix(db, q, View, D) /\ Cardinality(D) <= Places => D \subseteq S
    BY <1>5, <2>3, PageTakes
  <2>7. ~walk.repeated /\ walk.seen \cap Shown \subseteq S
    BY <2>3, <2>6 DEF Covered
  <2>8. ~walk'.repeated /\ walk'.seen \cap Shown \subseteq S \cup P
    BY <2>6, <2>7
  <2> HIDE DEF q, is
  <2>9. /\ Prefix(db, q, clock, (S \cup P) \cap is)
        /\ Cardinality((S \cup P) \cap is) \in Nat
        /\ Cardinality((S \cup P) \cap is) <= Cardinality(S \cup P)
    BY <1>0, <2>4, <2>5, <2>6, PrefixWithin DEF is, q
  <2>10. Places' \in Nat
    BY <1>5, <2>3, PagePlaces, WalkTypes
  <2>11. Cardinality((S \cup P) \cap is) <= Places'
    BY <2>6, <2>9, <2>10
  <2>12. (S \cup P) \cap is \in SUBSET Shown' /\ walk'.seen \cap Shown' \subseteq (S \cup P) \cap is
    BY <2>4, <2>5, <2>8
  <2>13. Prefix(db', walk'.query, View', (S \cup P) \cap is)
    BY <2>2, <2>4, <2>9
  <2>14. QED
    BY <2>8, <2>11, <2>12, <2>13 DEF Covered
<1>6. CASE Next /\ ~Count /\ ~Page /\ ~Fail /\ ~SignInOrOut
  <2> DEFINE q == walk.query
             u == Effects(db', clock')
  <2>1. SUFFICES ASSUME Hold(walk'.upset) PROVE Covered'
    BY DEF Covered
  <2>2. /\ walk'.upset = walk.upset \cup u /\ walk'.seen = walk.seen /\ walk'.query = q
        /\ walk'.repeated <=> walk.repeated
    BY <1>6, MeanwhileStep
  <2>3. Hold(walk.upset) /\ "added" \notin u /\ "moved" \notin u
    BY <2>1, <2>2
  <2>4. /\ Places' = Places /\ Shown' \subseteq Shown
        /\ SameOrder(db, View, db', View', q, Shown')
    <3>1. /\ Places' = Places /\ Shown' \subseteq Shown
          /\ SameOrder(db, View, db', View', q, Shown \cap Shown')
      BY <1>6, <2>3, ShownMeanwhile
    <3>2. QED
      BY <3>1 DEF SameOrder
  <2>5. PICK D \in SUBSET Shown : /\ Prefix(db, q, View, D) /\ Cardinality(D) <= Places
                                  /\ walk.seen \cap Shown \subseteq D
    BY <2>3 DEF Covered
  <2>6. Shown = Listed(db, q, View) /\ Shown' = Listed(db', q, View')
    BY <2>2 DEF Shown
  <2> HIDE DEF q, u
  <2>7. /\ Prefix(db', q, View', D \cap Shown')
        /\ Cardinality(D \cap Shown') \in Nat /\ Cardinality(D) \in Nat
        /\ Cardinality(D \cap Shown') <= Cardinality(D)
    BY <1>0, <2>4, <2>5, <2>6, PrefixWithin DEF q
  <2>8. Cardinality(D \cap Shown') <= Places'
    BY <2>4, <2>5, <2>7, PlacesIsNat
  <2>9. D \cap Shown' \in SUBSET Shown' /\ walk'.seen \cap Shown' \subseteq D \cap Shown'
    BY <2>2, <2>4, <2>5
  <2>10. ~walk'.repeated
    BY <2>2, <2>3 DEF Covered
  <2>11. Prefix(db', walk'.query, View', D \cap Shown')
    BY <2>2, <2>7
  <2>12. QED
    BY <2>8, <2>9, <2>10, <2>11 DEF Covered
<1>7. QED
  BY <1>1, <1>2, <1>3, <1>4, <1>5, <1>6

(* The page after which none is announced has room for the last row.       *)
LEMMA LastHasAll ==
  ASSUME NEW page \in Nat, NEW total \in Nat, NEW limit \in Nat \ {0}, ~HasNext(page, total, limit)
  PROVE  total <= page * limit
<1> DEFINE d == (total + limit - 1) \div limit
<1>1. total + limit - 1 \in Nat /\ d \in Nat /\ d <= page
  BY DEF HasNext
<1>2. total + limit - 1 < (d + 1) * limit
  OBVIOUS
<1> HIDE DEF d
<1>3. (d + 1) * limit = d * limit + limit /\ d * limit \in Nat /\ page * limit \in Nat
  BY <1>1
<1>4. d * limit <= page * limit
  BY <1>1
<1>5. QED
  BY <1>2, <1>3, <1>4

(* A prefix of as many rows as there are places was shown.                 *)
LEMMA NextReached ==
  TypeOK /\ Counts /\ InFlight /\ Reached /\ [Next]_vars => Reached'
<1> SUFFICES ASSUME TypeOK, Counts, InFlight, Reached, [Next]_vars PROVE Reached'
  OBVIOUS
<1> DEFINE Grows(u) == u \subseteq {"added"}
<1>0. Tabled(db) /\ walk.query \in Query
  BY WalkTypes
<1>1. CASE UNCHANGED vars
  <2>1. View' = View /\ Shown' = Shown /\ Places' = Places /\ (Begun' <=> Begun)
    BY <1>1 DEF vars, View, Shown, Places, Begun
  <2>2. QED
    BY <1>1, <2>1 DEF vars, Reached
<1>2. CASE Count
  <2>1. /\ Places' = Places /\ View' = View /\ Shown' = Shown /\ walk'.query = walk.query
        /\ walk'.seen = walk.seen /\ db' = db /\ walk.stage = "asking" /\ walk'.stage = "counted"
        /\ walk'.first = IF walk.page = 1 THEN Listed(db, walk.query, clock) ELSE walk.first
        /\ walk'.upset = IF walk.page = 1 THEN {} ELSE walk.upset
    BY <1>2, CountStep, ShownStays
  <2>2. CASE walk.page = 1
    <3>1. View = clock /\ Places = 0
      BY <2>1, <2>2, PlacesIsNat DEF View
    <3>2. walk'.first = Shown
      BY <2>1, <2>2, <3>1 DEF Shown
    <3>3. ASSUME NEW D \in SUBSET Shown, Cardinality(D) <= 0
          PROVE  D = {}
      <4>1. IsFiniteSet(D) /\ Cardinality(D) \in Nat
        BY <1>0, ListedIds, IdsFinite, FS_Subset, FS_CardinalityType DEF Shown
      <4>2. QED
        BY <3>3, <4>1, FS_EmptySet
    <3>4. QED
      BY <2>1, <3>1, <3>2, <3>3 DEF Reached
  <2>3. CASE walk.page # 1
    <3>1. Begun
      BY <2>3, WalkTypes DEF Begun
    <3>2. QED
      BY <2>1, <2>3, <3>1 DEF Reached
  <2>4. QED
    BY <2>2, <2>3
<1>3. CASE Fail
  <2>1. /\ Places' = Places /\ View' = View /\ Shown' = Shown /\ walk'.query = walk.query
        /\ walk'.seen = walk.seen /\ db' = db /\ walk'.upset = walk.upset
        /\ walk'.first = walk.first /\ walk'.stage = "failed" /\ walk'.page = walk.page
    BY <1>3, FailStep, ShownStays
  <2>2. Begun' => Begun
    BY <2>1 DEF Begun
  <2>3. QED
    BY <2>1, <2>2 DEF Reached
<1>4. CASE SignInOrOut
  <2>1. SUFFICES ASSUME Begun', Grows(walk'.upset) PROVE Reached'
    BY DEF Reached
  <2>2. "resized" \notin walk'.upset
    BY <2>1
  <2>3. /\ Places' = Places /\ View' = View /\ Shown' = Shown /\ walk'.query = walk.query
        /\ walk'.seen = walk.seen /\ walk'.first = walk.first /\ db' = db
        /\ walk'.stage = walk.stage /\ walk'.page = walk.page /\ walk.upset \subseteq walk'.upset
    BY <1>4, <2>2, SignStep, ShownStays
  <2>4. Begun /\ Grows(walk.upset)
    BY <2>1, <2>3 DEF Begun
  <2>5. QED
    BY <2>3, <2>4 DEF Reached
<1>5. CASE Page
  <2> DEFINE q  == walk.query
             is == Listed(db, q, clock)
  <2>1. SUFFICES ASSUME Grows(walk'.upset) PROVE Reached'
    BY DEF Reached
  <2>2. /\ walk'.upset = IF Tied(db, q, walk.now) THEN walk.upset \cup {"tied"} ELSE walk.upset
        /\ walk'.query = q /\ db' = db /\ walk.stage = "counted" /\ walk'.first = walk.first
        /\ walk'.stage = "ended" => ~HasNext(walk.page, walk.total, walk.limit)
    BY <1>5, PageStep
  <2>3. ~Tied(db, q, walk.now) /\ Grows(walk.upset) /\ "resized" \notin walk.upset
    BY <2>1, <2>2
  <2>4. View = walk.now /\ View' = clock /\ Shown = Listed(db, q, View) /\ Shown' = is
    BY <1>5, <2>3, PagePlaces
  <2>5. Shown \subseteq is /\ SameOrder(db, clock, db, View, q, Shown)
    BY <2>2, <2>3, <2>4 DEF InFlight
  <2>6. PICK S \in SUBSET Shown, P \in SUBSET Shown :
          /\ walk'.seen = walk.seen \cup P
          /\ Prefix(db, q, View, S) /\ Cardinality(S) <= Places
          /\ \A D \in SUBSET Shown :
               Prefix(db, q, View, D) /\ Cardinality(D) <= Places' => D \subseteq S \cup P
    BY <1>5, <2>3, PageTakes
  <2>7. walk.first \subseteq Shown /\ walk.first \cap S \subseteq walk.seen
    BY <2>2, <2>3, <2>6 DEF Reached, Begun
  <2>8. walk.first \cap (S \cup P) \subseteq walk'.seen
    BY <2>6, <2>7
  <2>9. Places' \in Nat /\ Places' = walk.page * walk.limit
    BY <1>5, <2>3, PagePlaces, WalkTypes
  <2>10. walk.total = Cardinality(Counted(db, q, View)) /\ walk.limit \in Nat \ {0} /\ walk.page \in Nat
    BY <2>2, <2>3, <2>4, WalkTypes DEF InFlight, Counts
  <2> HIDE DEF q, is
  <2>11. ASSUME NEW D \in SUBSET is, Prefix(db, q, clock, D), Cardinality(D) <= Places'
         PROVE  walk.first \cap D \subseteq walk'.seen
    <3>1. /\ Prefix(db, q, View, D \cap Shown) /\ Cardinality(D \cap Shown) \in Nat
          /\ Cardinality(D) \in Nat /\ Cardinality(D \cap Shown) <= Cardinality(D)
      BY <1>0, <2>4, <2>5, <2>11, PrefixWithin DEF is, q
    <3>2. Cardinality(D \cap Shown) <= Places'
      BY <2>9, <2>11, <3>1
    <3>3. D \cap Shown \subseteq S \cup P
      BY <2>6, <3>1, <3>2
    <3>4. QED
      BY <2>7, <2>8, <3>3
  <2>12. ASSUME walk'.stage = "ended"
         PROVE  walk.first \subseteq walk'.seen
    <3> DEFINE counted == Counted(db, q, View)
    <3>1. counted \in SUBSET Ids /\ Shown \subseteq counted
      <4>1. q.kind # "favourites" => counted = Shown
        BY <1>0, <2>4, ListedIds DEF q
      <4>2. q.kind = "favourites" => Shown \subseteq counted
        BY <2>4 DEF Listed, Counted, Favorites
      <4>3. QED
        BY <1>0, <4>1, <4>2, ListedIds DEF q
    <3>2. /\ Cardinality(counted) \in Nat /\ Cardinality(Shown) \in Nat
          /\ Cardinality(Shown) <= Cardinality(counted)
      BY <3>1, IdsFinite, FS_Subset
    <3> HIDE DEF counted
    <3>3. walk.total \in Nat /\ Cardinality(Shown) <= walk.total
      BY <2>10, <3>2 DEF counted
    <3>4. walk.total <= walk.page * walk.limit
      BY <2>2, <2>10, <2>12, <3>3, LastHasAll
    <3>5. Cardinality(Shown) <= Places'
      BY <2>9, <3>2, <3>3, <3>4
    <3>6. Prefix(db, q, View, Shown)
      BY <2>4 DEF Prefix
    <3>7. Shown \subseteq S \cup P
      BY <2>6, <3>5, <3>6
    <3>8. QED
      BY <2>7, <2>8, <3>7
  <2>13. walk'.first \subseteq Shown'
    BY <2>2, <2>4, <2>5, <2>7
  <2>14. QED
    BY <2>2, <2>4, <2>11, <2>12, <2>13 DEF Reached
<1>6. CASE Next /\ ~Count /\ ~Page /\ ~Fail /\ ~SignInOrOut
  <2> DEFINE q == walk.query
             u == Effects(db', clock')
  <2>1. SUFFICES ASSUME Begun', Grows(walk'.upset) PROVE Reached'
    BY DEF Reached
  <2>2. /\ walk'.upset = walk.upset \cup u /\ walk'.seen = walk.seen /\ walk'.query = q
        /\ walk'.first = walk.first /\ walk'.stage = walk.stage /\ Tabled(db')
        /\ walk.stage \in {"asking", "counted"}
    BY <1>6, MeanwhileStep
  <2>3. Grows(walk.upset) /\ "removed" \notin u /\ "moved" \notin u
    BY <2>1, <2>2
  <2>4. /\ Places' = Places /\ Shown \subseteq Shown' /\ Begun
        /\ SameOrder(db', View', db, View, q, Shown)
    <3>1. /\ Places' = Places /\ Shown \subseteq Shown' /\ (Begun' <=> Begun)
          /\ SameOrder(db, View, db', View', q, Shown \cap Shown')
      BY <1>6, <2>3, ShownMeanwhile
    <3>2. QED
      BY <2>1, <3>1 DEF SameOrder
  <2>5. /\ walk.first \subseteq Shown
        /\ \A D \in SUBSET Shown :
             Prefix(db, q, View, D) /\ Cardinality(D) <= Places => walk.first \cap D \subseteq walk.seen
    BY <2>3, <2>4 DEF Reached
  <2>6. Shown = Listed(db, q, View) /\ Shown' = Listed(db', q, View')
    BY <2>2 DEF Shown
  <2> HIDE DEF q, u
  <2>7. ASSUME NEW D \in SUBSET Shown', Prefix(db', q, View', D), Cardinality(D) <= Places
        PROVE  walk.first \cap D \subseteq walk.seen
    <3>1. /\ Prefix(db, q, View, D \cap Shown)
          /\ Cardinality(D \cap Shown) \in Nat /\ Cardinality(D) \in Nat
          /\ Cardinality(D \cap Shown) <= Cardinality(D)
      BY <1>0, <2>2, <2>4, <2>6, <2>7, PrefixWithin DEF q
    <3>2. Cardinality(D \cap Shown) <= Places
      BY <2>7, <3>1, PlacesIsNat
    <3>3. walk.first \cap (D \cap Shown) \subseteq walk.seen
      BY <2>5, <3>1, <3>2
    <3>4. QED
      BY <2>5, <3>3
  <2>8. QED
    BY <2>2, <2>4, <2>5, <2>7 DEF Reached
<1>7. QED
  BY <1>1, <1>2, <1>3, <1>4, <1>5, <1>6

(* Undisturbed, every page shows rows of those listed at first.            *)
LEMMA NextStill == TypeOK /\ FirstPage /\ InFlight /\ Still /\ [Next]_vars => Still'
<1> SUFFICES ASSUME TypeOK, FirstPage, InFlight, Still, [Next]_vars PROVE Still'
  OBVIOUS
<1>1. CASE UNCHANGED vars
  <2>1. View' = View /\ Shown' = Shown /\ (Begun' <=> Begun)
    BY <1>1 DEF vars, View, Shown, Begun
  <2>2. QED
    BY <1>1, <2>1 DEF vars, Still
<1>2. CASE Count
  <2>1. /\ View' = View /\ Shown' = Shown /\ walk'.seen = walk.seen /\ walk.stage = "asking"
        /\ walk'.first = IF walk.page = 1 THEN Listed(db, walk.query, clock) ELSE walk.first
        /\ walk'.upset = IF walk.page = 1 THEN {} ELSE walk.upset
    BY <1>2, CountStep, ShownStays
  <2>2. CASE walk.page = 1
    <3>1. walk'.first = Shown /\ walk.seen = {}
      BY <2>1, <2>2 DEF View, Shown, FirstPage
    <3>2. QED
      BY <2>1, <3>1 DEF Still
  <2>3. CASE walk.page # 1
    <3>1. Begun
      BY <2>3, WalkTypes DEF Begun
    <3>2. QED
      BY <2>1, <2>3, <3>1 DEF Still
  <2>4. QED
    BY <2>2, <2>3
<1>3. CASE Fail
  <2>1. /\ View' = View /\ Shown' = Shown /\ walk'.seen = walk.seen /\ walk'.first = walk.first
        /\ walk'.upset = walk.upset /\ walk'.stage = "failed" /\ walk'.page = walk.page
    BY <1>3, FailStep, ShownStays
  <2>2. Begun' => Begun
    BY <2>1 DEF Begun
  <2>3. QED
    BY <2>1, <2>2 DEF Still
<1>4. CASE SignInOrOut
  <2>1. SUFFICES ASSUME Begun', walk'.upset = {} PROVE Still'
    BY DEF Still
  <2>2. "resized" \notin walk'.upset
    BY <2>1
  <2>3. /\ View' = View /\ Shown' = Shown /\ walk'.seen = walk.seen /\ walk'.first = walk.first
        /\ walk'.stage = walk.stage /\ walk'.page = walk.page /\ walk.upset \subseteq walk'.upset
    BY <1>4, <2>2, SignStep, ShownStays
  <2>4. Begun /\ walk.upset = {}
    BY <2>1, <2>3 DEF Begun
  <2>5. QED
    BY <2>3, <2>4 DEF Still
<1>5. CASE Page
  <2>1. SUFFICES ASSUME walk'.upset = {} PROVE Still'
    BY DEF Still
  <2>2. PICK P \in Pages(db, walk.query, walk.now, Offset(walk.page, walk.limit), walk.limit) :
          walk'.seen = walk.seen \cup P
    BY <1>5, PageStep
  <2>3. walk.stage = "counted" /\ walk.upset = {} /\ walk'.first = walk.first
    BY <1>5, <2>1, PageStep
  <2>4. Shown = Listed(db, walk.query, walk.now) /\ Shown' = Listed(db, walk.query, clock)
    BY <1>5, <2>3, PagePlaces
  <2>5. Shown' = Shown
    BY <2>3, <2>4 DEF InFlight
  <2>6. P \subseteq Shown
    BY <2>4 DEF Pages
  <2>7. walk.first = Shown /\ walk.seen \subseteq walk.first
    BY <2>3 DEF Still, Begun
  <2>8. QED
    BY <2>2, <2>3, <2>5, <2>6, <2>7 DEF Still
<1>6. CASE Next /\ ~Count /\ ~Page /\ ~Fail /\ ~SignInOrOut
  <2>1. SUFFICES ASSUME Begun', walk'.upset = {} PROVE Still'
    BY DEF Still
  <2>2. /\ walk'.upset = walk.upset \cup Effects(db', clock')
        /\ walk'.seen = walk.seen /\ walk'.first = walk.first
    BY <1>6, MeanwhileStep
  <2>3. walk.upset = {} /\ Effects(db', clock') = {}
    BY <2>1, <2>2
  <2>4. Shown' = Shown /\ Begun
    BY <1>6, <2>1, <2>3, ShownMeanwhile
  <2>5. QED
    BY <2>2, <2>3, <2>4 DEF Still
<1>7. QED
  BY <1>1, <1>2, <1>3, <1>4, <1>5, <1>6

----------------------------------------------------------------------------
(* What a walk shows                                                       *)

(* Before the first page nothing is seen; afterwards what is seen stands   *)
(* in the order of the rows: the inductive invariant of the walk.          *)
THEOREM WalkedHolds == Spec => []Walked
<1>1. Init => TypeOK /\ Counts /\ Walked
  <2> SUFFICES ASSUME Init, TypeOK PROVE Walked
    BY InitTypes
  <2>1. walk.stage = "asking" /\ walk.page = 1 /\ ~walk.repeated /\ walk.seen = {}
    BY DEF Init
  <2>2. FirstPage /\ InFlight /\ Reached /\ Still
    BY <2>1 DEF FirstPage, InFlight, Reached, Still, Begun
  <2>3. Covered
    <3>1. Prefix(db, walk.query, View, {}) /\ {} \in SUBSET Shown
      BY DEF Prefix
    <3>2. Cardinality({}) <= Places
      BY PlacesIsNat, FS_EmptySet
    <3>3. walk.seen \cap Shown \subseteq {}
      BY <2>1
    <3>4. QED
      BY <2>1, <3>1, <3>2, <3>3 DEF Covered
  <2>4. QED
    BY <2>2, <2>3 DEF Walked
<1>2. TypeOK /\ Counts /\ Walked /\ [Next]_vars => Walked'
  BY NextFirstPage, NextInFlight, NextCovered, NextReached, NextStill DEF Walked
<1>3. QED
  BY <1>1, <1>2, TypesAndCounts, PTL DEF Spec

(* A page that follows the rows seen repeats none of them, whatever leaves *)
(* between two pages, or between the two statements of one.                *)
THEOREM NothingRepeatedHolds == Spec => []NothingRepeated
<1>1. Walked => NothingRepeated
  BY DEF Walked, Covered, NothingRepeated
<1>2. QED
  BY <1>1, WalkedHolds, PTL

(* The rows there were when the walk began are shown by the time it ends,  *)
(* however many are added meanwhile.                                       *)
THEOREM NothingMissedHolds == Spec => []NothingMissed
<1>1. Walked => NothingMissed
  BY DEF Walked, Reached, Begun, NothingMissed
<1>2. QED
  BY <1>1, WalkedHolds, PTL

(* What an undisturbed search has shown is a prefix of the order, and the  *)
(* order puts the featured listings first.                                 *)
THEOREM FeaturedFirstHolds == Spec => []FeaturedFirst
<1>1. TypeOK /\ Walked => FeaturedFirst
  <2> DEFINE q == walk.query
             Featured(l) == FeaturedIs(db.rows[l], TRUE, clock)
  <2>1. SUFFICES ASSUME TypeOK, Walked,
                        q.kind = "search", q.sort = "featured", walk.upset = {}, walk.page > 1,
                        NEW x \in walk.seen, ~Featured(x),
                        NEW l \in walk.first, Featured(l), l \notin walk.seen
                 PROVE  FALSE
    BY DEF FeaturedFirst
  <2>2. walk.first = Shown /\ walk.seen \subseteq Shown
    BY <2>1 DEF Walked, Still, Begun
  <2>3. PICK D \in SUBSET Shown : /\ Prefix(db, q, View, D) /\ Cardinality(D) <= Places
                                  /\ walk.seen \cap Shown \subseteq D
    BY <2>1 DEF Walked, Covered
  <2>4. walk.first \cap D \subseteq walk.seen
    BY <2>1, <2>3 DEF Walked, Reached, Begun
  <2>5. x \in D /\ l \in Shown \ D
    BY <2>1, <2>2, <2>3, <2>4
  <2>6. ~Before(db, q, View, l, x)
    BY <2>3, <2>5 DEF Prefix, Shown
  <2>7. SameOrder(db, View, db, clock, q, Shown)
    <3>1. CASE walk.stage = "counted"
      <4>1. View = walk.now /\ Shown = Listed(db, q, walk.now)
        BY <3>1 DEF View, Shown
      <4>2. walk.upset \cap {"added", "moved"} = {} /\ walk.upset \cap {"removed", "moved", "torn"} = {}
        BY <2>1
      <4>3. /\ Listed(db, q, clock) = Listed(db, q, walk.now)
            /\ SameOrder(db, walk.now, db, clock, q, Listed(db, q, clock))
        BY <2>1, <3>1, <4>2 DEF Walked, InFlight
      <4>4. QED
        BY <4>1, <4>3
    <3>2. CASE walk.stage # "counted"
      BY <3>2 DEF View, SameOrder
    <3>3. QED
      BY <3>1, <3>2
  <2>8. ~Before(db, q, clock, l, x)
    BY <2>5, <2>6, <2>7 DEF SameOrder
  <2>9. Rank(db.rows[l], clock) = 1 /\ Rank(db.rows[x], clock) = 0
    BY <2>1 DEF Rank, FeaturedIs
  <2>10. QED
    BY <2>1, <2>8, <2>9 DEF Before
<1>2. QED
  BY <1>1, WalkedHolds, TypesAndCounts, PTL
=============================================================================
