-------------------------------- MODULE Lists --------------------------------
(***************************************************************************)
(* The paged lists of the bot: LazyPaginator (bot/misc/lazy_paginator.py), *)
(* its keyboard (bot/keyboards/inline.py), the queries with their cached   *)
(* counts (bot/database/methods/lazy_queries.py) and the handlers that     *)
(* draw a page. A behaviour follows one list, of one of the kinds below,   *)
(* while the tables it is read from change. What the rows hold is not      *)
(* modelled, only how many there are and which of them a page can reach.   *)
(***************************************************************************)
EXTENDS Naturals, FiniteSets, Functions

CONSTANTS
    Tables,         \* the tables an operation history is the union of
    MaxRows,        \* bound: rows per table
    PageSize,       \* per_page
    CountTtl,       \* _COUNT_TTL, in ticks
    NoCount

ASSUME ListsAssumption ==
    /\ PageSize \in Nat \ {0} /\ CountTtl \in Nat /\ MaxRows \in Nat
    /\ IsFiniteSet(Tables) /\ Tables # {} /\ NoCount \notin Nat

Kinds == {"orders", "bought", "users", "referrals", "all earnings", "earnings",
          "staff referrals", "promos", "operations", "reviews", "position"}

VARIABLES
    kind,           \* the list this behaviour is about
    rows,           \* per table: its rows
    reserved,       \* units of the position's stock that are reserved
    counted,        \* the cached count
    age,            \* its age
    still,          \* ticks since a row or a reservation last changed
    view            \* the page drawn last

listVars == <<kind, rows, reserved, counted, age, still, view>>

Read(k) == IF k = "operations" THEN Tables ELSE {CHOOSE t \in Tables : TRUE}
\* The rows an unpaged query would return.
Total == SumFunctionOnSet(rows, Read(kind))

\* The list's state is well formed.
ListsTypeOK ==
    /\ kind \in Kinds /\ rows \in [Tables -> 0..MaxRows] /\ reserved \in 0..MaxRows
    /\ counted \in Nat \cup {NoCount} /\ age \in 0..CountTtl /\ still \in 0..(CountTtl + 1)

NoView == [page |-> 0, of |-> 0, empty |-> TRUE, prev |-> FALSE, next |-> FALSE, settled |-> FALSE]

ListsInit ==
    /\ kind \in Kinds /\ rows \in [Tables -> 0..MaxRows]
    /\ \A t \in Tables \ Read(kind) : rows[t] = 0
    /\ reserved = 0 /\ counted = NoCount /\ age = 0 /\ still = 0 /\ view = NoView

-----------------------------------------------------------------------------
(***************************************************************************)
(* Counting and paging                                                     *)
(***************************************************************************)

\* What the count queries count: a position's count leaves out the units that
\* are reserved, its page does not; every other count is of the rows listed.
CountOf == IF kind = "position" THEN Total - reserved ELSE Total

\* _cached_count.
CountSeen == IF counted = NoCount THEN CountOf ELSE counted

CachedCount == counted' = CountSeen /\ age' = IF counted = NoCount THEN 0 ELSE age

\* Mutant: a last page that is not full is not counted.
TotalPagesFull(n) == IF n \div PageSize > 1 THEN n \div PageSize ELSE 1

\* get_total_pages.
TotalPages(n) ==
    LET pages == (n + PageSize - 1) \div PageSize IN IF pages > 1 THEN pages ELSE 1

\* get_page: offset and limit; TRUE if the page has rows.
HasRows(page) == Total > page * PageSize

\* The navigation of lazy_paginated_keyboard, and of the two lists that build
\* their own (reviews, operation history).
NavRow(page, pages, own) ==
    [prev |-> page > 0 /\ (own \/ pages > 1), next |-> page < pages - 1]

DrawPage(page, empty, own) ==
    LET nav == NavRow(page, TotalPages(CountSeen), own)
    IN /\ CachedCount
       /\ view' = [page |-> page, of |-> Total, empty |-> empty,
                   prev |-> ~empty /\ nav.prev, next |-> ~empty /\ nav.next,
                   settled |-> still > CountTtl /\ reserved = 0]
       /\ UNCHANGED <<kind, rows, reserved, still>>

-----------------------------------------------------------------------------
(***************************************************************************)
(* The lists: entry is the handler that opens the list at its first page,  *)
(* the other presses are of the navigation buttons drawn.                  *)
(***************************************************************************)

MayShow(k, page, entry) ==
    /\ kind = k
    /\ \/ entry /\ page = 0
       \/ ~entry /\ view.prev /\ page + 1 = view.page
       \/ ~entry /\ view.next /\ page = view.page + 1

\* my_orders and promo_mgmt say so when their first page is empty; the pages
\* reached by navigation do not ask.
ShowOrders(page, entry) ==
    MayShow("orders", page, entry) /\ DrawPage(page, entry /\ ~HasRows(0), FALSE)
ShowPromos(page, entry) ==
    MayShow("promos", page, entry) /\ DrawPage(page, entry /\ ~HasRows(0), FALSE)

\* view_referrals and view_all_earnings ask the count, their pages do not.
ShowReferrals(page, entry) ==
    MayShow("referrals", page, entry) /\ DrawPage(page, entry /\ CountSeen = 0, FALSE)
ShowAllEarnings(page, entry) ==
    MayShow("all earnings", page, entry) /\ DrawPage(page, entry /\ CountSeen = 0, FALSE)

\* _show_ref_earnings_page and the staff's referral lists ask it for page 0,
\* however that page is reached.
ShowEarnings(page, entry) ==
    MayShow("earnings", page, entry) /\ DrawPage(page, page = 0 /\ CountSeen = 0, FALSE)
ShowStaffReferrals(page, entry) ==
    MayShow("staff referrals", page, entry) /\ DrawPage(page, page = 0 /\ CountSeen = 0, FALSE)

\* _show_operations_page and view_reviews_handler ask the page they draw.
ShowOperations(page, entry) ==
    MayShow("operations", page, entry) /\ DrawPage(page, ~HasRows(page), TRUE)
ShowReviews(page, entry) ==
    MayShow("reviews", page, entry) /\ DrawPage(page, ~HasRows(page), TRUE)

\* bought_items, users_list: an empty list is an empty keyboard.
ShowBought(page, entry) ==
    MayShow("bought", page, entry) /\ DrawPage(page, FALSE, FALSE)
ShowUsers(page, entry) ==
    MayShow("users", page, entry) /\ DrawPage(page, FALSE, FALSE)

\* show__items_in_position and gip_ ask the count on every page.
ShowPosition(page, entry) ==
    MayShow("position", page, entry) /\ DrawPage(page, CountSeen = 0, FALSE)

-----------------------------------------------------------------------------
(***************************************************************************)
(* The rest of the program                                                 *)
(***************************************************************************)

\* A row is inserted or deleted; the invalidation hooks drop the count of some
\* lists and leave that of others to its TTL.
RowsChange(t, n, hook) ==
    /\ t \in Read(kind) /\ n \in 0..MaxRows /\ n # rows[t] /\ (kind = "position" => n >= reserved)
    /\ rows' = [rows EXCEPT ![t] = n] /\ still' = 0
    /\ counted' = IF hook THEN NoCount ELSE counted
    /\ UNCHANGED <<kind, reserved, age, view>>

\* A checkout reserves a unit of the position, or its reservation ends.
ReservationChanges(n) ==
    /\ kind = "position" /\ n \in 0..Total /\ n # reserved
    /\ reserved' = n /\ still' = 0
    /\ UNCHANGED <<kind, rows, counted, age, view>>

\* Time passes, and with it the cached count's TTL.
Tick ==
    /\ still' = IF still <= CountTtl THEN still + 1 ELSE still
    /\ IF counted # NoCount /\ age = CountTtl THEN counted' = NoCount /\ age' = 0
       ELSE counted' = counted /\ age' = IF counted = NoCount THEN 0 ELSE age + 1
    /\ UNCHANGED <<kind, rows, reserved, view>>

ListPages == 0..(MaxRows * 3)

ListsNext ==
    \/ \E page \in ListPages, entry \in BOOLEAN :
        \/ ShowOrders(page, entry) \/ ShowPromos(page, entry) \/ ShowReferrals(page, entry)
        \/ ShowAllEarnings(page, entry) \/ ShowEarnings(page, entry)
        \/ ShowStaffReferrals(page, entry)
        \/ ShowOperations(page, entry) \/ ShowReviews(page, entry) \/ ShowBought(page, entry)
        \/ ShowUsers(page, entry) \/ ShowPosition(page, entry)
    \/ \E t \in Tables, n \in 0..MaxRows, hook \in BOOLEAN : RowsChange(t, n, hook)
    \/ \E n \in 0..MaxRows : ReservationChanges(n)
    \/ Tick

ListsSpec == ListsInit /\ [][ListsNext]_listVars

-----------------------------------------------------------------------------
\* "catalog edits stay visible within a minute": a page drawn once the rows
\* have been still for longer than a count may live offers the next page
\* exactly if there are rows behind it, and claims an empty list only if the
\* page has none. Left out: a position with reserved units.
PagesSettle ==
    view.settled =>
        /\ ~view.empty => (view.next <=> view.of > (view.page + 1) * PageSize)
        /\ view.empty => view.of <= view.page * PageSize
=============================================================================
