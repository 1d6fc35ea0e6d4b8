----------------------------- MODULE Pagination -----------------------------
(***************************************************************************)
(* Lists in pages (apps/core/pagination.py, apps/redis_storage): a client  *)
(* follows the "next" links of a list to its end and the "prev" links      *)
(* back, while rows come, go and change between its requests.  Lists of    *)
(* the database are in the order of the key ("standard") or of a field     *)
(* that may be null ("ordered"), lists of Redis in the order of the key.   *)
(***************************************************************************)
EXTENDS Integers, SequencesExt

CONSTANTS
    Keys,               \* primary keys
    FieldValues,        \* values of the field in the order
    Null,
    Gone,               \* no such row
    MaxPageSize,
    MaxRowChanges       \* changes of rows in a behaviour

ASSUME PaginationAssumption ==
    /\ Keys \subseteq Nat \ {0} /\ IsFiniteSet(Keys) /\ FieldValues \subseteq Nat
    /\ {Null, Gone} \cap FieldValues = {} /\ Null # Gone
    /\ MaxPageSize \in Nat \ {0} /\ MaxRowChanges \in Nat

VARIABLES
    rows,         \* by key: value of the field, Null, or Gone
    expired,      \* Redis: keys still in the list whose object has expired
    query,        \* the request: kind of list, ascending or not, page size asked for
    cursor,       \* the cursor of the page
    page,         \* the page
    links,        \* its links: the cursors behind "next" and "prev"
    walk,         \* which links the client follows: "next" or "prev"
    trail,        \* history: the keys seen on the walk, in the order of the list
    touched,      \* history: rows that changed during the walk
    thinned,      \* history: a page of the walk missed expired objects
    rowChanges

paginationVars == <<rows, expired, query, cursor, page, links, walk, trail, touched, thinned, rowChanges>>

NoKey == 0
FirstPage == [direction |-> "none", key |-> NoKey, value |-> Null]

(* get_page_size, with the cutoff. *)
PageSize == IF query.size > MaxPageSize THEN MaxPageSize ELSE query.size

Present == {k \in Keys : rows[k] # Gone}

(* PostgreSQL: nulls come last in ascending order. *)
Below(a, b) ==
    \/ rows[a] # Null /\ (rows[b] = Null \/ rows[a] < rows[b])
    \/ rows[a] = rows[b] /\ a < b
InOrderOf(q, a, b) == IF q.kind = "ordered" THEN Below(a, b) ELSE a < b

(* A list goes up or down in this order. *)
InOrder(up, a, b) == IF up THEN InOrderOf(query, a, b) ELSE InOrderOf(query, b, a)

Ordered(keys, up) ==
    CHOOSE s \in [1..Cardinality(keys) -> keys] : \A i, j \in DOMAIN s : i < j => InOrder(up, s[i], s[j])

(* _process_paginated_queryset: what is beyond the key of the cursor. *)
BeyondKey(c, up, k) == IF up THEN k > c.key ELSE k < c.key

(* The row's pair of value and key against the cursor's. *)
PairAbove(c, k) == rows[k] > c.value \/ (rows[k] = c.value /\ k > c.key)
PairBelow(c, k) == rows[k] < c.value \/ (rows[k] = c.value /\ k < c.key)

FaultBeyondValue(c, up, k) ==
    IF c.value = Null
    THEN IF up THEN rows[k] = Null /\ k > c.key ELSE rows[k] # Null \/ k < c.key
    ELSE rows[k] # Null /\ (IF up THEN PairAbove(c, k) ELSE PairBelow(c, k))

(* _process_ordered_paginated_queryset: nulls come after all values, and a  *)
(* comparison with one is never true in SQL.                                *)
BeyondValue(c, up, k) ==
    IF c.value = Null
    THEN IF up THEN rows[k] = Null /\ k > c.key ELSE rows[k] # Null \/ k < c.key
    ELSE IF up THEN rows[k] = Null \/ PairAbove(c, k) ELSE rows[k] # Null /\ PairBelow(c, k)

(* A link back goes against the direction of the list. *)
Up(c) == query.asc = (c.direction # "back")

Matching(c) ==
    {k \in Present : \/ c.key = NoKey
                    \/ IF query.kind = "ordered" THEN BeyondValue(c, Up(c), k) ELSE BeyondKey(c, Up(c), k)}

Prefix(s) == SubSeq(s, 1, IF Len(s) < PageSize THEN Len(s) ELSE PageSize)

(* get_page: rows from the cursor on, in the direction of the link. *)
Listed(c) == Prefix(Ordered(Matching(c), Up(c)))

(* RedisModel.list drops keys whose object is not there any more. *)
Loaded(c) == Ordered(ToSet(Listed(c)) \ expired, Up(c))
Thins(c) == ToSet(Listed(c)) \cap expired # {}

(* The rows of a link back are turned round. *)
PageAt(c) == IF c.direction = "back" THEN Reverse(Loaded(c)) ELSE Loaded(c)

Full(p) == Len(p) >= PageSize
CursorAt(direction, k) == [direction |-> direction, key |-> k, value |-> rows[k]]

(* get_next_cursor and get_previous_cursor of a page p, as sets: {} is no   *)
(* link.                                                                    *)
NextCursor(c, p) ==
    IF Full(p) THEN {CursorAt("on", Last(p))}
    ELSE IF c.direction = "back" THEN {FirstPage} ELSE {}

PreviousCursor(c, p) ==
    IF c.direction = "none" \/ (c.direction = "back" /\ ~Full(p)) THEN {}
    ELSE IF p = <<>> THEN {[direction |-> "back", key |-> NoKey, value |-> Null]}
    ELSE {CursorAt("back", Head(p))}

(* get_paginated_response: the links go out with the page. *)
LinksOf(c, p) == [next |-> NextCursor(c, p), prev |-> PreviousCursor(c, p)]
Shown(c) == cursor' = c /\ page' = PageAt(c) /\ links' = LinksOf(c, page')

-----------------------------------------------------------------------------
(* The first request of a list. *)
PaginationInit ==
    /\ rows \in [Keys -> FieldValues \cup {Null, Gone}]
    /\ expired = {}
    /\ query \in [kind : {"standard", "ordered", "redis"}, asc : BOOLEAN, size : 1..MaxPageSize + 1]
    /\ query.kind = "ordered" \/ \A k \in Keys : rows[k] \in {Null, Gone}
    /\ cursor = FirstPage
    /\ page = PageAt(FirstPage)
    /\ links = LinksOf(FirstPage, page)
    /\ walk = "next" /\ trail = page
    /\ touched = {} /\ thinned = FALSE /\ rowChanges = 0

(* The links that the client follows. *)
LinksAhead == IF walk = "next" THEN links.next ELSE links.prev

(* One more page of the walk. *)
Follow(c, joined) ==
    /\ Shown(c)
    /\ trail' = joined
    /\ thinned' = (thinned \/ Thins(c))
    /\ UNCHANGED <<rows, expired, query, walk, touched, rowChanges>>

FollowNext == walk = "next" /\ \E c \in LinksAhead : Follow(c, trail \o page')
FollowPrev == walk = "prev" /\ \E c \in LinksAhead : Follow(c, page' \o trail)

(* At an end the client turns round and follows the other links. *)
Turn ==
    /\ LinksAhead = {}
    /\ \/ /\ walk = "next" /\ links.prev # {}
          /\ walk' = "prev"
          /\ UNCHANGED <<cursor, page, links, touched>>
          /\ trail' = page /\ UNCHANGED thinned
       \/ /\ walk = "prev" /\ FirstPage \in links.next
          /\ walk' = "next"
          /\ Shown(FirstPage)
          /\ trail' = page' /\ thinned' = Thins(FirstPage)
          /\ touched' = {}
    /\ UNCHANGED <<rows, expired, query, rowChanges>>

(* Another request adds, changes or deletes a row. *)
ChangeRow(k, value) ==
    /\ rowChanges < MaxRowChanges /\ value # rows[k]
    /\ query.kind = "ordered" \/ value \in {Null, Gone}
    /\ rows' = [rows EXCEPT ![k] = value]
    /\ expired' = expired \ {k}
    /\ touched' = touched \cup {k}
    /\ rowChanges' = rowChanges + 1
    /\ UNCHANGED <<query, cursor, page, links, walk, trail, thinned>>

(* An object of Redis expires and stays in its list. *)
ExpireObject(k) ==
    /\ query.kind = "redis" /\ rowChanges < MaxRowChanges
    /\ k \in Present \ expired
    /\ expired' = expired \cup {k}
    /\ touched' = touched \cup {k}
    /\ rowChanges' = rowChanges + 1
    /\ UNCHANGED <<rows, query, cursor, page, links, walk, trail, thinned>>

PaginationNext ==
    \/ FollowNext \/ FollowPrev \/ Turn
    \/ \E k \in Keys : ExpireObject(k) \/ \E value \in FieldValues \cup {Null, Gone} : ChangeRow(k, value)

PaginationSpec == PaginationInit /\ [][PaginationNext]_paginationVars

-----------------------------------------------------------------------------
(* Rows that were there all the time and did not change. *)
Steady == Present \ (touched \cup expired)

SteadyInOrder(s) ==
    \A i, j \in DOMAIN s : i < j /\ {s[i], s[j]} \subseteq Steady => InOrder(query.asc, s[i], s[j])

(* A client that has followed links to an end of the list has seen every    *)
(* such row once and in order,                                              *)
(* unless a page of Redis was short of expired objects, where it stops.     *)
EveryRowOnce ==
    /\ SteadyInOrder(trail)
    /\ LinksAhead = {} /\ ~thinned => Steady \subseteq ToSet(trail)
=============================================================================
