---------------------------- MODULE MCCatalogue ----------------------------
(* Three listings, pages of one or two.                                    *)
EXTENDS Catalogue

OwnOf == {1, 3}
SavedBefore == {2, 3}
CapOf(auth) == IF auth THEN 2 ELSE 1

Ask(kind, sort, featured, max, limit) ==
  [kind |-> kind, sort |-> sort, is_featured |-> featured, max_price |-> max, limit |-> limit]

SomeQueries ==
  {Ask("search", "featured", None, None, limit) : limit \in {0, 2}}
  \cup {Ask("search", "newest", f, None, 2) : f \in BOOLEAN}
  \cup {Ask("search", "price_asc", None, None, 2), Ask("search", "price_desc", None, 1, 2)}
  \cup {Ask("search", sort, None, None, 2) : sort \in {"oldest", "unknown"}}
  \cup {Ask(kind, "newest", None, None, 1) : kind \in {"mine", "favourites"}}

Stock(l, active, until) ==
  [active |-> active, featured_until |-> until, price |-> IF l = 2 THEN 2 ELSE 1]

SomeTables ==
  {t \in [Ids -> Row \cup {NoRow}] :
     \A l \in Ids : t[l] \in {NoRow, Stock(l, FALSE, None), Stock(l, TRUE, None), Stock(l, TRUE, 1)}}
=============================================================================
