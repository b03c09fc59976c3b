----------------------------- MODULE Storefront -----------------------------
(***************************************************************************)
(* One customer's way through the shop: the screens the bot draws, the     *)
(* FSM state and data behind them, and the handlers that move both         *)
(* (bot/handlers/user/shop_and_goods.py, purchase_ui.py, the two purchase  *)
(* handlers of balance_and_payment.py and the menu handlers of main.py).   *)
(*                                                                         *)
(* Messages the bot has sent keep their buttons, so a press is limited by  *)
(* the handler's own filter only, never by what is drawn now: screen is    *)
(* the message drawn last.                                                 *)
(***************************************************************************)
EXTENDS Naturals, Sequences, FiniteSets

CONSTANTS
    Shelf,          \* the positions of the category, in the order of their names
    Found,          \* the positions a search finds, in the same order
    GiftItems,      \* positions with allows_gift
    Recipients,     \* Telegram ids typed for a gift
    PerPage,        \* per_page of the paginators
    Presses,        \* runs of buy_confirm_handler
    MaxTaps,        \* bound: updates handled
    NoItem, NoOne, NoPurchase

Positions == {Shelf[i] : i \in 1..Len(Shelf)} \cup {Found[i] : i \in 1..Len(Found)}
FsmStates == {"none", "categories", "goods", "results", "query", "itemCode",
              "redeem", "gift", "rating", "text"}

ASSUME StorefrontAssumption ==
    /\ PerPage \in Nat \ {0} /\ MaxTaps \in Nat /\ GiftItems \subseteq Positions
    /\ Shelf \in Seq(Positions) /\ Found \in Seq(Positions)
    /\ NoItem \notin Positions /\ NoOne \notin Recipients

VARIABLES
    onSale,         \* the positions that exist
    ordered,        \* the positions with an order of this session
    fsm,            \* the FSM state
    data,           \* the FSM data the handlers share
    screen,         \* the message drawn last
    purchase,       \* per press: what buy_confirm read before its transaction
    since,          \* ghost: what happened under the message drawn last: "lost", the session
                    \* was dropped, and "purchase", one begun on an older message ended
    taps

storeVars == <<onSale, ordered, fsm, data, screen, purchase, since, taps>>

NoList == [page |-> 0, rows |-> <<>>, saved |-> FALSE]
\* state.clear().
Cleared == [csrf |-> NoItem, back |-> "goods", promo |-> NoItem, pre |-> "none",
            to |-> NoOne, reviewItem |-> NoItem, rated |-> FALSE,
            category |-> FALSE, goods |-> NoList, query |-> FALSE, results |-> NoList]

Drawn(kind) == [kind |-> kind, item |-> NoItem, to |-> NoOne, page |-> 0, rows |-> <<>>]
DrawnFor(kind, i) == [Drawn(kind) EXCEPT !.item = i]
Menu == Drawn("menu")

\* The customer's session is well formed.
StorefrontTypeOK ==
    /\ onSale \subseteq Positions /\ ordered \subseteq onSale
    /\ fsm \in FsmStates /\ data.pre \in FsmStates /\ data.back \in {"goods", "results"}
    /\ {data.csrf, data.promo, data.reviewItem, screen.item} \subseteq Positions \cup {NoItem}
    /\ data.to \in Recipients \cup {NoOne} /\ since \subseteq {"purchase", "lost"} /\ taps \in 0..MaxTaps

StorefrontInit ==
    /\ onSale = Positions /\ ordered = {}
    /\ fsm = "none" /\ data = Cleared /\ screen = Menu
    /\ purchase = [p \in Presses |-> NoPurchase] /\ since = {} /\ taps = 0

-----------------------------------------------------------------------------
(***************************************************************************)
(* Drawing                                                                 *)
(***************************************************************************)

\* Every handler takes one update of the customer; a new drawing resets the
\* ghost.
Tap == taps < MaxTaps /\ taps' = taps + 1
Draw(s) == screen' = s /\ since' = {}
Alert == UNCHANGED <<fsm, data, screen, since>>
shopVars == <<onSale, ordered, purchase>>

\* A query's rows in its order: the places in the list of what is on sale.
Ascending(S) == CHOOSE f \in [1..Cardinality(S) -> S] :
                    \A j, k \in 1..Cardinality(S) : j < k => f[j] < f[k]

\* LazyPaginator.get_page over query_items_in_category or query_goods_search:
\* the rows that exist now, in order, offset and limit applied.
PageOf(list, page) ==
    LET live == {n \in 1..Len(list) : list[n] \in onSale}
        shown == {n \in live : Cardinality({m \in live : m < n}) \div PerPage = page}
        place == Ascending(shown)
    IN [k \in 1..Cardinality(shown) |-> list[place[k]]]

\* The session's state, its data or both are dropped under the message drawn last.
StateDropped == fsm' = "none" /\ since' = since \cup {"lost"}
DataDropped == data' = Cleared /\ since' = since \cup {"lost"}

\* Mutant: the index is looked up in the list as it is now.
RowNow(saved, list, page, idx) ==
    LET rows == PageOf(list, page) IN IF idx <= Len(rows) THEN rows[idx] ELSE NoItem

\* _page_item_from_state, and _page_item_at when the state does not cover it.
Row(saved, list, page, idx) ==
    LET rows == PageOf(list, page)
    IN IF saved.saved /\ saved.page = page /\ idx <= Len(saved.rows) THEN saved.rows[idx]
       ELSE IF idx <= Len(rows) THEN rows[idx] ELSE NoItem

\* Mutant: the search's Back button is not known to need a state.
BrowsingStateGoodsOnly(d) == IF d.back = "goods" THEN "goods" ELSE fsm

\* _browsing_state_for.
BrowsingState(d) == IF d.back = "goods" THEN "goods" ELSE "results"

\* _render_item_page of i with session data d: an unknown position draws
\* nothing (missing is what the handler shows then); the promo, re-validated,
\* is dropped when it does not apply any more.
RenderItem(i, d, f, missing) ==
    IF i \notin onSale
    THEN /\ fsm' = f /\ data' = d
         /\ IF missing = screen THEN UNCHANGED <<screen, since>> ELSE Draw(missing)
    ELSE /\ fsm' = BrowsingState(d)
         /\ \E keep \in BOOLEAN : data' = IF keep THEN d ELSE [d EXCEPT !.promo = NoItem]
         /\ Draw(DrawnFor("card", i))

-----------------------------------------------------------------------------
(***************************************************************************)
(* Browsing                                                                *)
(***************************************************************************)

\* back_to_menu, profile, rules and /start: a menu and state.clear().
GoToMenu == Tap /\ fsm' = "none" /\ data' = Cleared /\ Draw(Menu) /\ UNCHANGED shopVars

\* rules with RULES unset: an alert and state.clear().
RulesUnset == Tap /\ StateDropped /\ DataDropped /\ UNCHANGED <<screen, shopVars>>

\* RedisStorage drops the state and the data FSM_TTL after each was written.
ExpireSession ==
    /\ fsm' \in {"none", fsm} /\ data' \in {Cleared, data}
    /\ StateDropped \/ DataDropped
    /\ UNCHANGED <<screen, taps, shopVars>>

\* shop and categories-page_; only the first sets the state.
ShowCategories(entry) ==
    /\ Tap /\ Draw(Drawn("categories"))
    /\ fsm' = IF entry THEN "categories" ELSE fsm
    /\ UNCHANGED <<data, shopVars>>

\* _show_goods_page.
ShowGoods(category, page) ==
    LET rows == IF category THEN PageOf(Shelf, page) ELSE <<>>
    IN /\ Draw([Drawn("goods") EXCEPT !.page = page, !.rows = rows])
       /\ data' = [data EXCEPT !.category = category,
                               !.goods = [page |-> page, rows |-> rows, saved |-> TRUE]]
       /\ fsm' = "goods"

\* cat:, and gp_, which is filtered by viewing_goods.
OpenCategory == Tap /\ ShowGoods(TRUE, 0) /\ UNCHANGED shopVars
NavigateGoods(page) == Tap /\ fsm = "goods" /\ ShowGoods(data.category, page) /\ UNCHANGED shopVars

\* _open_item: the position becomes the session's, and a promo entered for
\* another position is dropped.
OpenItem(i, back) ==
    LET d == [data EXCEPT !.csrf = i, !.back = back,
                          !.promo = IF data.csrf = i THEN @ ELSE NoItem]
    IN RenderItem(i, d, fsm, screen)

\* itm: and sitm:.
PressRow(idx, page) ==
    LET i == Row(data.goods, IF data.category THEN Shelf ELSE <<>>, page, idx)
    IN Tap /\ (IF i = NoItem THEN Alert ELSE OpenItem(i, "goods")) /\ UNCHANGED shopVars
PressResult(idx, page) ==
    LET i == Row(data.results, IF data.query THEN Found ELSE <<>>, page, idx)
    IN Tap /\ (IF i = NoItem THEN Alert ELSE OpenItem(i, "results")) /\ UNCHANGED shopVars

\* _show_search_page.
ShowResults(page) ==
    LET rows == PageOf(Found, page)
    IN IF rows = <<>> /\ page = 0
       THEN Draw(Drawn("nothing found")) /\ fsm' = "none" /\ UNCHANGED data
       ELSE /\ Draw([Drawn("results") EXCEPT !.page = page, !.rows = rows])
            /\ data' = [data EXCEPT !.query = TRUE,
                                    !.results = [page |-> page, rows |-> rows, saved |-> TRUE]]
            /\ fsm' = "results"

AskQuery == Tap /\ Draw(Drawn("query")) /\ fsm' = "query" /\ UNCHANGED <<data, shopVars>>
ReceiveQuery(long) ==
    /\ Tap /\ fsm = "query"
    /\ IF long THEN ShowResults(0) ELSE Draw(Drawn("query")) /\ UNCHANGED <<fsm, data>>
    /\ UNCHANGED shopVars
\* sp_, filtered by viewing_search_results.
NavigateResults(page) == Tap /\ fsm = "results" /\ ShowResults(page) /\ UNCHANGED shopVars

-----------------------------------------------------------------------------
(***************************************************************************)
(* The item card's own buttons                                             *)
(***************************************************************************)

\* _leave_promo_input.
LeftPromo == [data EXCEPT !.pre = "none"]
StateLeft == IF data.pre = "none" THEN fsm ELSE data.pre

AskPromo ==
    /\ Tap /\ Draw(Drawn("promo prompt"))
    /\ data' = [data EXCEPT !.pre = fsm] /\ fsm' = "itemCode"
    /\ UNCHANGED shopVars

\* promo_code_text_handler: valid is validate_promo_for_item's answer.
PromoText(valid) ==
    /\ Tap /\ fsm = "itemCode"
    /\ IF data.csrf = NoItem \/ ~valid
       THEN fsm' = StateLeft /\ data' = LeftPromo /\ Draw(Drawn("notice"))
       ELSE RenderItem(data.csrf, [LeftPromo EXCEPT !.promo = data.csrf], StateLeft, Drawn("notice"))
    /\ UNCHANGED shopVars

\* remove_promo.
RemovePromo ==
    /\ Tap
    /\ IF data.csrf = NoItem
       THEN data' = [data EXCEPT !.promo = NoItem] /\ UNCHANGED <<fsm, screen, since>>
       ELSE RenderItem(data.csrf, [data EXCEPT !.promo = NoItem], fsm, screen)
    /\ UNCHANGED shopVars

\* sub_stock and unsub_stock, which draw the card again.
ToggleNotice ==
    /\ Tap
    /\ IF data.csrf = NoItem THEN Alert ELSE RenderItem(data.csrf, data, fsm, screen)
    /\ UNCHANGED shopVars

\* back_to_item.
BackToItem ==
    /\ Tap
    /\ IF data.csrf = NoItem THEN Draw(Drawn("notice")) /\ UNCHANGED <<fsm, data>>
       ELSE RenderItem(data.csrf, LeftPromo, StateLeft, screen)
    /\ UNCHANGED shopVars

\* redeem_promo and the code typed for it.
AskRedeem == Tap /\ Draw(Drawn("redeem prompt")) /\ fsm' = "redeem" /\ UNCHANGED <<data, shopVars>>
RedeemText ==
    /\ Tap /\ fsm = "redeem"
    /\ fsm' = "none" /\ data' = Cleared /\ Draw(Drawn("notice")) /\ UNCHANGED shopVars

-----------------------------------------------------------------------------
(***************************************************************************)
(* Reviews                                                                 *)
(***************************************************************************)

\* review: allowed is the answer of has_purchased_item and get_user_review.
StartReview(allowed) ==
    /\ Tap
    /\ IF data.csrf = NoItem \/ ~allowed THEN Alert
       ELSE /\ data' = [data EXCEPT !.reviewItem = data.csrf] /\ fsm' = "rating"
            /\ Draw(Drawn("rating"))
    /\ UNCHANGED shopVars

Rate ==
    /\ Tap /\ fsm = "rating"
    /\ data' = [data EXCEPT !.rated = TRUE] /\ fsm' = "text" /\ Draw(Drawn("review text"))
    /\ UNCHANGED shopVars

\* skip_review_text and the text: _submit_review and state.clear().
SubmitReview ==
    /\ Tap /\ fsm = "text"
    /\ fsm' = "none" /\ data' = Cleared /\ Draw(Drawn("notice"))
    /\ UNCHANGED shopVars

\* reviews:.
ViewReviews ==
    /\ Tap
    /\ IF data.csrf = NoItem THEN Alert ELSE Draw(Drawn("reviews")) /\ UNCHANGED <<fsm, data>>
    /\ UNCHANGED shopVars

-----------------------------------------------------------------------------
(***************************************************************************)
(* Buying                                                                  *)
(***************************************************************************)

\* buy_gift.
AskRecipient ==
    /\ Tap
    /\ IF data.csrf \in onSale \cap GiftItems
       THEN fsm' = "gift" /\ Draw(Drawn("gift prompt")) /\ UNCHANGED data
       ELSE Alert
    /\ UNCHANGED shopVars

\* Mutant: buying for oneself leaves an earlier recipient in place.
ConfirmForKeeping(r) ==
    /\ data' = IF r = NoOne THEN data ELSE [data EXCEPT !.to = r]
    /\ Draw([DrawnFor("confirm", data.csrf) EXCEPT !.to = r])

\* build_purchase_confirm: the recipient, or none, is recorded and drawn.
ConfirmFor(r) ==
    /\ data' = [data EXCEPT !.to = r]
    /\ Draw([DrawnFor("confirm", data.csrf) EXCEPT !.to = r])

\* buy_gift_recipient_message; an id that is not a number is asked for again.
GiftRecipient(r) ==
    /\ Tap /\ fsm = "gift"
    /\ CASE r = NoOne -> Draw(Drawn("gift prompt")) /\ UNCHANGED <<fsm, data>>
         [] r # NoOne /\ data.csrf \notin onSale -> Draw(Drawn("notice")) /\ UNCHANGED <<fsm, data>>
         [] OTHER -> ConfirmFor(r) /\ fsm' = "goods"
    /\ UNCHANGED shopVars

\* buy_item: show_purchase_confirm.
BuyItem ==
    /\ Tap
    /\ IF data.csrf \notin onSale THEN Alert ELSE ConfirmFor(NoOne) /\ UNCHANGED fsm
    /\ UNCHANGED shopVars

\* buy_confirm: execute_confirmed_purchase up to its transaction.
BeginPurchase(p) ==
    /\ Tap /\ purchase[p] = NoPurchase /\ data.csrf # NoItem
    /\ purchase' = [purchase EXCEPT ![p] = [item |-> data.csrf, to |-> data.to, from |-> screen]]
    /\ UNCHANGED <<onSale, ordered, fsm, data, screen, since>>

\* ... and after it. The answer replaces the message the press came from; a
\* confirmation drawn meanwhile in a newer message stays the last one drawn.
EndPurchase(p, ok) ==
    /\ purchase[p] # NoPurchase /\ (ok => purchase[p].item \in onSale)
    /\ data' = IF ok THEN [data EXCEPT !.promo = NoItem, !.to = NoOne] ELSE data
    /\ IF screen = purchase[p].from THEN Draw(Drawn(IF ok THEN "receipt" ELSE "notice"))
       ELSE UNCHANGED screen /\ since' = since \cup {"purchase"}
    /\ purchase' = [purchase EXCEPT ![p] = NoPurchase]
    /\ ordered' = IF ok THEN ordered \cup {purchase[p].item} ELSE ordered
    /\ UNCHANGED <<onSale, fsm, taps>>

\* A restart ends the purchases under way, before or after their commit. The
\* session survives it in Redis, not in the MemoryStorage used without it.
RestartBot ==
    /\ \E paid \in SUBSET {p \in Presses : purchase[p] # NoPurchase /\ purchase[p].item \in onSale} :
          ordered' = ordered \cup {purchase[p].item : p \in paid}
    /\ purchase' = [p \in Presses |-> NoPurchase]
    /\ (StateDropped /\ DataDropped) \/ UNCHANGED <<fsm, data, since>>
    /\ UNCHANGED <<onSale, screen, taps>>

\* delete_item by the staff; orders.goods_id keeps a position with an order.
DeletePosition(i) ==
    /\ i \in onSale \ ordered /\ onSale' = onSale \ {i}
    /\ UNCHANGED <<ordered, fsm, data, screen, purchase, since, taps>>

Pages == 0..((Len(Shelf) - 1) \div PerPage)

StorefrontNext ==
    \/ RulesUnset \/ ExpireSession \/ RestartBot
    \/ GoToMenu \/ AskQuery \/ AskPromo \/ RemovePromo \/ ToggleNotice \/ BackToItem
    \/ AskRedeem \/ RedeemText \/ Rate \/ SubmitReview \/ ViewReviews
    \/ AskRecipient \/ BuyItem \/ OpenCategory
    \/ \E b \in BOOLEAN : ShowCategories(b) \/ ReceiveQuery(b) \/ PromoText(b) \/ StartReview(b)
    \/ \E page \in Pages : NavigateGoods(page) \/ NavigateResults(page)
    \/ \E page \in Pages, idx \in 1..PerPage : PressRow(idx, page) \/ PressResult(idx, page)
    \/ \E r \in Recipients \cup {NoOne} : GiftRecipient(r)
    \/ \E p \in Presses : BeginPurchase(p) \/ \E ok \in BOOLEAN : EndPurchase(p, ok)
    \/ \E i \in Positions : DeletePosition(i)

StorefrontSpec == StorefrontInit /\ [][StorefrontNext]_storeVars

-----------------------------------------------------------------------------
\* The buttons of the screen drawn last are served: the paging and Back
\* buttons gp_ and sp_ of a list or an item card are filtered by an FSM state,
\* and that is the state the session is in, whatever prompt, promo, gift or
\* review dialog was entered and left on the way. Left out: the session was
\* dropped under the screen, by rules without a text, its expiry or a restart
\* (the buttons are dead then), and its position has been deleted (back_to_item
\* then restores a state and draws nothing).
BrowsingButtonsWork ==
    "lost" \notin since /\ data.csrf \in onSale \cup {NoItem} =>
        /\ screen.kind = "goods" => fsm = "goods"
        /\ screen.kind = "results" => fsm = "results"
        /\ screen.kind = "card" => fsm = (IF data.back = "goods" THEN "goods" ELSE "results")

\* The confirmation drawn last says what its button buys, also after the session
\* was dropped: the session's position and recipient are the ones it shows, or
\* it has no position, and a promo code the session holds was accepted for that
\* position. Two cases are left out: the session was moved to a position that
\* is gone (nothing is bought then), and a purchase still running when the
\* confirmation was drawn has ended since.
SessionIsHonest ==
    /\ data.promo # NoItem => data.promo = data.csrf
    /\ screen.kind = "confirm" /\ "purchase" \notin since /\ data.csrf \in onSale =>
        data.csrf = screen.item /\ data.to = screen.to

\* A row of the list drawn last opens the position it names, also when the
\* staff delete positions after it was drawn. Under a dropped session it may be
\* "not found", but never another position.
OpensRow(idx) == data'.csrf = screen.rows[idx] \/ ("lost" \in since /\ UNCHANGED data)
RowsOpenTheirItem ==
    [][\A page \in Pages, idx \in 1..PerPage :
        screen.page = page /\ idx <= Len(screen.rows) =>
            /\ screen.kind = "goods" /\ PressRow(idx, page) => OpensRow(idx)
            /\ screen.kind = "results" /\ PressResult(idx, page) => OpensRow(idx)]_storeVars
=============================================================================
