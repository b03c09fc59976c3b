------------------------------- MODULE Carts -------------------------------
(***************************************************************************)
(* The cart and the promo codes: adding and editing lines, the             *)
(* confirmation dialog, checkout_cart_transaction, and what competes with  *)
(* it for stock and for the uses of a code: buy_item_transaction with a    *)
(* code, redeem_balance_promo, and the staff's edits of goods, stock and   *)
(* codes.                                                                  *)
(*                                                                         *)
(* A checkout locks the user's row, reads the cart WITHOUT locking it, then *)
(* locks goods, stock and codes until it commits.  It is therefore two     *)
(* actions: Confirm, which reads the lines, and an end that does the rest. *)
(* In between the user's row is locked, so nothing else charges that user, *)
(* and no line can be inserted (its foreign key needs the row), but lines  *)
(* can be changed and deleted.                                             *)
(***************************************************************************)
EXTENDS Integers, FiniteSets, FiniteSetsExt, Functions

CONSTANTS
    Users, NoUser,
    Funds,         \* the balance every user starts with
    Goods,         \* goods sold in one unit or several
    InfiniteGoods, \* the ones of them with an is_infinity template row
    ApiGoods,      \* the ones of them with fulfillment_type API
    Units,         \* AVAILABLE ItemValues rows every good starts with
    Prices,        \* kopecks a good may cost; it starts with the least
    SalePercent,   \* sale_percent of a running sale
    Promos,        \* PromoCodes rows
    NoCode,        \* NULL in promo_code
    Terms,         \* per code: kind, value, maxUses, perUser, minOrder, item
    NoGoods,       \* NULL in PromoCodes.item_id
    CartMaxItems,  \* CART_MAX_ITEMS
    CartMaxQty,    \* CART_MAX_QTY_PER_ITEM
    StartCarts,    \* carts a user may start with
    Slots,         \* bound: add_to_cart calls under way
    MaxEdits       \* bound: changes the staff and time make

Nothing == -1      \* no dialog is on the screen

Codes == Promos \cup {NoCode}
LineType == [qty : 0..CartMaxQty, promo : Codes]
CartType == [Goods -> LineType]

Kinds == {"percent", "fixed", "balance"}

ASSUME CartsAssumption ==
    /\ IsFiniteSet(Users) /\ IsFiniteSet(Goods)
    /\ NoUser \notin Users /\ NoCode \notin Promos /\ NoGoods \notin Goods
    /\ InfiniteGoods \subseteq Goods /\ ApiGoods \subseteq Goods
    /\ Funds \in Nat /\ Units \in Nat /\ MaxEdits \in Nat
    /\ Prices \subseteq Nat /\ Prices # {}
    /\ SalePercent \in 0..100
    /\ CartMaxItems \in Nat \ {0} /\ CartMaxQty \in Nat \ {0}
    /\ Terms \in [Promos -> [kind : Kinds, value : Nat, maxUses : Nat,
                             perUser : Nat \ {0}, minOrder : Nat,
                             item : Goods \cup {NoGoods}]]
    /\ StartCarts \subseteq CartType
    /\ \A c \in StartCarts :
         Cardinality({g \in Goods : c[g].qty > 0}) <= CartMaxItems

VARIABLES
    price,      \* Goods.price
    sale,       \* goods with a sale whose sale_until is ahead
    listed,     \* goods that have a row
    ordered,    \* goods that an Orders row refers to
    stock,      \* AVAILABLE finite ItemValues rows
    supplied,   \* of all those ever inserted, the ones staff did not delete
    code,       \* PromoCodes: on, off (inactive or expired) or gone
    uses,       \* PromoCodes.current_uses
    usages,     \* PromoCodeUsages rows of each code and user
    discounts,  \* lines that were charged less because of the code
    balance,    \* User.balance
    operations, \* the sum of the user's Operations rows
    bought,     \* BoughtGoods rows of each user and good
    paid,       \* the sum of the user's BoughtGoods.price
    cart,       \* CartItems: quantity and promo_code per user and good
    adds,       \* add_to_cart calls under way
    dialog,     \* the confirmation message: its total, and whether the
                \* conversation still has it in cart_expected_total
    job,        \* the open checkout of each user
    surprised,  \* users charged another total than the dialog's
    edits       \* changes made by staff and time so far

catalogVars == <<price, sale, listed, ordered>>
stockVars == <<stock, supplied>>
promoVars == <<code, uses, usages, discounts>>
moneyVars == <<balance, operations, bought, paid>>
dialogVars == <<dialog, job, surprised>>
vars == <<catalogVars, stockVars, promoVars, moneyVars, cart, adds,
          dialogVars, edits>>

-----------------------------------------------------------------------------
(***************************************************************************)
(* Prices and promo rules                                                  *)
(***************************************************************************)

NoLine == [qty |-> 0, promo |-> NoCode]
NoAdd == [at |-> "none", user |-> NoUser, goods |-> NoGoods,
          promo |-> NoCode, try |-> 0]
NoDialog == [total |-> Nothing, kept |-> FALSE]
NoJob == [on |-> FALSE, lines |-> [g \in Goods |-> NoLine], dialog |-> NoDialog]

\* effective_price
EffectivePrice(g) ==
    IF g \in sale THEN (price[g] * (100 - SalePercent)) \div 100 ELSE price[g]

\* apply_promo_discount to a line of n units
Discounted(p, unit, n) ==
    LET line == unit * n
        t == Terms[p]
    IN  IF t.kind = "percent"
        THEN (line * (100 - Min({t.value, 100}))) \div 100
        ELSE Max({line - t.value, 0})

\* Mutant: the last use is given away once more.
UsableOnceMore(p, u) ==
    /\ p \in Promos /\ code[p] = "on"
    /\ Terms[p].maxUses > 0 => uses[p] <= Terms[p].maxUses
    /\ usages[p][u] < Terms[p].perUser

\* promo_rule_error: what is asked of every kind of code ...
Usable(p, u) ==
    /\ p \in Promos /\ code[p] = "on"
    /\ Terms[p].maxUses > 0 => uses[p] < Terms[p].maxUses
    /\ usages[p][u] < Terms[p].perUser

\* ... and of a discount on a line that comes to `total'.
Applies(p, u, g, total) ==
    /\ Usable(p, u)
    /\ Terms[p].kind # "balance"
    /\ Terms[p].minOrder > 0 => total >= Terms[p].minOrder
    /\ Terms[p].item \in {NoGoods, g}

\* record_promo_usage for each code of the set; `lines' says which code each
\* line was charged with.
RecordUsage(ps, u, lines) ==
    /\ uses' = [p \in Promos |-> IF p \in ps THEN uses[p] + 1 ELSE uses[p]]
    /\ usages' = [p \in Promos |->
                    IF p \in ps THEN [usages[p] EXCEPT ![u] = @ + 1]
                    ELSE usages[p]]
    /\ discounts' = [p \in Promos |->
                       discounts[p] + Cardinality({g \in Goods : lines[g] = p})]
    /\ UNCHANGED code

\* A code discounts one line, the most expensive one it applies to; which of
\* several equal ones makes no difference to a total.
BestLine(lines, codes, p) ==
    LET eligible == {g \in Goods : codes[g] = p}
        total(g) == EffectivePrice(g) * lines[g].qty
    IN  CHOOSE g \in eligible : \A h \in eligible : total(g) >= total(h)

\* Mutant: every line a code applies to is discounted.
ChosenEverywhere(lines, codes) == codes

\* The code each line is charged with, given the codes that apply to them.
Chosen(lines, codes) ==
    [g \in Goods |->
       IF codes[g] \in Promos /\ BestLine(lines, codes, codes[g]) = g
       THEN codes[g] ELSE NoCode]

LineTotal(lines, chosen, g) ==
    IF chosen[g] \in Promos
    THEN Discounted(chosen[g], EffectivePrice(g), lines[g].qty)
    ELSE EffectivePrice(g) * lines[g].qty

SumOver(S, F(_)) == SumFunctionOnSet([x \in S |-> F(x)], S)

\* Mutant: the remainder of the division is dropped.
SplitEvenly(total, n) == [i \in 1..n |-> total \div n]

\* _split_amount: the prices of the n BoughtGoods rows of a line.
SplitAmount(total, n) ==
    [i \in 1..n |-> total \div n + IF i <= total % n THEN 1 ELSE 0]

\* What the rows of a line add up to.
RowsTotal(lines, chosen, g) ==
    LET n == lines[g].qty
        rows == SplitAmount(LineTotal(lines, chosen, g), n)
    IN  SumOver(1..n, LAMBDA i : rows[i])

-----------------------------------------------------------------------------
(***************************************************************************)
(* What the cart screen shows: _cart_view_data                             *)
(***************************************************************************)

InCart(u) == {g \in Goods : cart[u][g].qty > 0}

\* Mutant: the screen does not validate the stored codes.
ViewCodesStored(u) == [g \in Goods |-> cart[u][g].promo]

\* validate_promos_for_cart holds the minimum against the price before sale.
ViewCodes(u) ==
    [g \in Goods |->
       LET line == cart[u][g]
       IN  IF g \in InCart(u) /\ Applies(line.promo, u, g, price[g] * line.qty)
           THEN line.promo ELSE NoCode]

\* Sold-out lines count.
ViewTotal(u) ==
    LET chosen == Chosen(cart[u], ViewCodes(u))
    IN  SumOver(InCart(u), LAMBDA g : LineTotal(cart[u], chosen, g))

-----------------------------------------------------------------------------
(***************************************************************************)
(* What checkout_cart_transaction comes to, for the lines it has read      *)
(***************************************************************************)

Lines(u) == job[u].lines
Read(u) == {g \in Goods : Lines(u)[g].qty > 0}

\* Mutant: units that are no longer AVAILABLE are counted too.
HasAnyUnit(g) == g \in InfiniteGoods \/ supplied[g] > 0

\* There is a template row, or count_finite_available_units finds one.
HasUnit(g) == g \in InfiniteGoods \/ stock[g] > 0

\* items_to_remove: the good is gone or sold out entirely.
Unavailable(u) == {g \in Read(u) : g \notin listed \/ ~HasUnit(g)}

Buying(u) == Read(u) \ Unavailable(u)

\* consume_stock_units refuses.
Refused(u, g) ==
    \/ g \in ApiGoods
    \/ g \notin InfiniteGoods /\ stock[g] < Lines(u)[g].qty

\* The minimum is held against the line at its sale price.
CheckoutCodes(u) ==
    [g \in Goods |->
       LET line == Lines(u)[g]
       IN  IF g \in Buying(u)
              /\ Applies(line.promo, u, g, EffectivePrice(g) * line.qty)
           THEN line.promo ELSE NoCode]

CheckoutChosen(u) == Chosen(Lines(u), CheckoutCodes(u))

CheckoutTotal(u) ==
    SumOver(Buying(u), LAMBDA g : LineTotal(Lines(u), CheckoutChosen(u), g))

\* Mutant: only a total that has risen is refused.
MismatchRaised(u) == job[u].dialog.kept /\ job[u].dialog.total < CheckoutTotal(u)

\* The total is compared with cart_expected_total if there still is one.
Mismatch(u) == job[u].dialog.kept /\ job[u].dialog.total # CheckoutTotal(u)

\* Mutant: the balance is not checked.
OutcomeOnCredit(u) ==
    IF \E g \in Buying(u) : Refused(u, g) THEN "out_of_stock"
    ELSE IF Buying(u) = {} THEN "cart_items_unavailable"
    ELSE IF Mismatch(u) THEN "price_changed" ELSE "success"

\* The answer, by the order of the checks.
Outcome(u) ==
    IF \E g \in Buying(u) : Refused(u, g) THEN "out_of_stock"
    ELSE IF Buying(u) = {} THEN "cart_items_unavailable"
    ELSE IF Mismatch(u) THEN "price_changed"
    ELSE IF balance[u] < CheckoutTotal(u) THEN "insufficient_funds" ELSE "success"

-----------------------------------------------------------------------------
Init ==
    /\ price = [g \in Goods |-> Min(Prices)]
    /\ sale = {}
    /\ listed = Goods
    /\ ordered = {}
    /\ stock = [g \in Goods |-> Units]
    /\ supplied = [g \in Goods |-> Units]
    /\ code = [p \in Promos |-> "on"]
    /\ uses = [p \in Promos |-> 0]
    /\ usages = [p \in Promos |-> [u \in Users |-> 0]]
    /\ discounts = [p \in Promos |-> 0]
    /\ balance = [u \in Users |-> Funds]
    /\ operations = [u \in Users |-> 0]
    /\ bought = [u \in Users |-> [g \in Goods |-> 0]]
    /\ paid = [u \in Users |-> 0]
    /\ cart \in [Users -> StartCarts]
    /\ adds = [s \in Slots |-> NoAdd]
    /\ dialog = [u \in Users |-> NoDialog]
    /\ job = [u \in Users |-> NoJob]
    /\ surprised = {}
    /\ edits = 0

-----------------------------------------------------------------------------
(***************************************************************************)
(* Editing the cart                                                        *)
(***************************************************************************)

\* The user taps "add to cart" on an item page, with a code or without.
TapAdd(s, u, g, p) ==
    /\ adds[s] = NoAdd
    /\ adds' = [adds EXCEPT ![s] = [at |-> "look", user |-> u, goods |-> g,
                                    promo |-> p, try |-> 1]]
    /\ UNCHANGED <<catalogVars, stockVars, promoVars, moneyVars, cart,
                   dialogVars, edits>>

\* _add_to_cart_once finds no goods, or no room.
AddRefused(s) ==
    LET a == adds[s]
        line == cart[a.user][a.goods]
    IN  /\ a.at = "look"
        /\ \/ a.goods \notin listed
           \/ line.qty >= CartMaxQty
           \/ line.qty = 0 /\ Cardinality(InCart(a.user)) >= CartMaxItems
        /\ adds' = [adds EXCEPT ![s] = NoAdd]
        /\ UNCHANGED <<catalogVars, stockVars, promoVars, moneyVars, cart,
                       dialogVars, edits>>

\* It finds the line, which it locks: one more unit, and the latest code.
AddIncrement(s) ==
    LET a == adds[s]
        line == cart[a.user][a.goods]
    IN  /\ a.at = "look" /\ a.goods \in listed
        /\ line.qty \in 1..(CartMaxQty - 1)
        /\ cart' = [cart EXCEPT ![a.user][a.goods] =
                      [qty |-> line.qty + 1,
                       promo |-> IF a.promo # NoCode THEN a.promo
                                 ELSE line.promo]]
        /\ adds' = [adds EXCEPT ![s] = NoAdd]
        /\ UNCHANGED <<catalogVars, stockVars, promoVars, moneyVars,
                       dialogVars, edits>>

\* It finds no line and counts the others; the row is inserted at the end.
AddCount(s) ==
    LET a == adds[s]
    IN  /\ a.at = "look" /\ a.goods \in listed
        /\ cart[a.user][a.goods].qty = 0
        /\ Cardinality(InCart(a.user)) < CartMaxItems
        /\ adds' = [adds EXCEPT ![s].at = "insert"]
        /\ UNCHANGED <<catalogVars, stockVars, promoVars, moneyVars, cart,
                       dialogVars, edits>>

\* Mutant: the foreign key of the line is not checked.
AddInsertUnchecked(s) ==
    LET a == adds[s]
    IN  /\ a.at = "insert" /\ ~job[a.user].on
        /\ cart' = [cart EXCEPT ![a.user][a.goods] =
                      [qty |-> 1, promo |-> a.promo]]
        /\ adds' = [adds EXCEPT ![s] = NoAdd]
        /\ UNCHANGED <<catalogVars, stockVars, promoVars, moneyVars,
                       dialogVars, edits>>

\* The insert waits for the user's row.
AddInsert(s) ==
    LET a == adds[s]
    IN  /\ a.at = "insert" /\ a.goods \in listed /\ ~job[a.user].on
        /\ cart[a.user][a.goods].qty = 0
        /\ cart' = [cart EXCEPT ![a.user][a.goods] =
                      [qty |-> 1, promo |-> a.promo]]
        /\ adds' = [adds EXCEPT ![s] = NoAdd]
        /\ UNCHANGED <<catalogVars, stockVars, promoVars, moneyVars,
                       dialogVars, edits>>

\* IntegrityError: another call inserted the line, or the good is gone.
\* add_to_cart tries once more.
AddConflict(s) ==
    LET a == adds[s]
    IN  /\ a.at = "insert" /\ ~job[a.user].on
        /\ cart[a.user][a.goods].qty > 0 \/ a.goods \notin listed
        /\ adds' = [adds EXCEPT ![s] =
                      IF a.try = 1 THEN [a EXCEPT !.at = "look", !.try = 2]
                      ELSE NoAdd]
        /\ UNCHANGED <<catalogVars, stockVars, promoVars, moneyVars, cart,
                       dialogVars, edits>>

\* set_cart_item_quantity with the buttons' +1 and -1.
SetQuantity(u, g, delta) ==
    LET new == cart[u][g].qty + delta
    IN  /\ g \in InCart(u) /\ new <= CartMaxQty
        /\ cart' = [cart EXCEPT ![u][g] =
                      IF new = 0 THEN NoLine ELSE [@ EXCEPT !.qty = new]]
        /\ UNCHANGED <<catalogVars, stockVars, promoVars, moneyVars, adds,
                       dialogVars, edits>>

\* clear_cart_item_promo
ClearLinePromo(u, g) ==
    /\ g \in InCart(u) /\ cart[u][g].promo # NoCode
    /\ cart' = [cart EXCEPT ![u][g].promo = NoCode]
    /\ UNCHANGED <<catalogVars, stockVars, promoVars, moneyVars, adds,
                   dialogVars, edits>>

\* remove_from_cart and clear_cart
RemoveLines(u, gs) ==
    /\ gs # {} /\ gs \subseteq InCart(u)
    /\ cart' = [cart EXCEPT ![u] =
                  [g \in Goods |-> IF g \in gs THEN NoLine ELSE @[g]]]
    /\ UNCHANGED <<catalogVars, stockVars, promoVars, moneyVars, adds,
                   dialogVars, edits>>

-----------------------------------------------------------------------------
(***************************************************************************)
(* Dialog and checkout                                                     *)
(***************************************************************************)

\* cart_checkout_handler.  The screen is read in three short sessions that
\* are one step here: a total put together from different moments is one
\* more total that the checkout compares with its own.
OpenDialog(u) ==
    /\ dialog' = [dialog EXCEPT ![u] = [total |-> ViewTotal(u), kept |-> TRUE]]
    /\ UNCHANGED <<catalogVars, stockVars, promoVars, moneyVars, cart, adds,
                   job, surprised, edits>>

\* Another dialog ends with state.clear(), or FSM_TTL passes.  The message
\* with the button stays in the chat.
ClearConversation(u) ==
    /\ dialog[u].kept
    /\ dialog' = [dialog EXCEPT ![u].kept = FALSE]
    /\ UNCHANGED <<catalogVars, stockVars, promoVars, moneyVars, cart, adds,
                   job, surprised, edits>>

\* cart_checkout_confirm_handler; the user's row is locked and the cart read.
\* The button is there until the answer replaces it, so it may be tapped again.
Confirm(u) ==
    /\ dialog[u] # NoDialog /\ ~job[u].on
    /\ InCart(u) # {}
    /\ job' = [job EXCEPT ![u] =
                 [on |-> TRUE, lines |-> cart[u], dialog |-> dialog[u]]]
    /\ UNCHANGED <<catalogVars, stockVars, promoVars, moneyVars, cart, adds,
                   dialog, surprised, edits>>

\* A deadlock or a clash of unique_id: the session starts again.
RetryCheckout(u) ==
    /\ job[u].on /\ InCart(u) # {}
    /\ job' = [job EXCEPT ![u].lines = cart[u]]
    /\ UNCHANGED <<catalogVars, stockVars, promoVars, moneyVars, cart, adds,
                   dialog, surprised, edits>>

\* _Abort or any other exception: everything is rolled back, the removal of
\* unavailable lines included.
AbortCheckout(u) ==
    /\ job[u].on
    /\ job' = [job EXCEPT ![u] = NoJob]
    /\ UNCHANGED <<catalogVars, stockVars, promoVars, moneyVars, cart, adds,
                   dialog, surprised, edits>>

\* There is nothing to buy: the unavailable lines go.
DropUnavailable(u) ==
    /\ job[u].on /\ Outcome(u) = "cart_items_unavailable"
    /\ cart' = [cart EXCEPT ![u] =
                  [g \in Goods |-> IF g \in Unavailable(u) THEN NoLine ELSE @[g]]]
    /\ job' = [job EXCEPT ![u] = NoJob]
    /\ UNCHANGED <<catalogVars, stockVars, promoVars, moneyVars, adds, dialog,
                   surprised, edits>>

\* Everything that is available is bought, and the whole cart is emptied.
Checkout(u) ==
    LET lines == Lines(u)
        chosen == CheckoutChosen(u)
        total == CheckoutTotal(u)
    IN  /\ job[u].on /\ Outcome(u) = "success"
        /\ stock' = [g \in Goods |->
                       IF g \in Buying(u) \ InfiniteGoods
                       THEN stock[g] - lines[g].qty ELSE stock[g]]
        /\ bought' = [bought EXCEPT ![u] =
                        [g \in Goods |->
                           @[g] + IF g \in Buying(u) THEN lines[g].qty ELSE 0]]
        /\ paid' = [paid EXCEPT ![u] = @ + SumOver(Buying(u),
                      LAMBDA g : RowsTotal(lines, chosen, g))]
        /\ RecordUsage({chosen[g] : g \in Goods} \ {NoCode}, u, chosen)
        /\ balance' = [balance EXCEPT ![u] = @ - total]
        /\ cart' = [cart EXCEPT ![u] = [g \in Goods |-> NoLine]]
        /\ surprised' = IF total = job[u].dialog.total THEN surprised
                        ELSE surprised \cup {u}
        /\ job' = [job EXCEPT ![u] = NoJob]
        /\ UNCHANGED <<catalogVars, supplied, operations, adds, dialog,
                       edits>>

-----------------------------------------------------------------------------
(***************************************************************************)
(* Others who use stock and codes                                          *)
(***************************************************************************)

\* buy_item_transaction of one unit of a STOCK good.  What becomes of its order
\* is the subject of Orders.
BuyItem(u, g, p) ==
    LET unit == EffectivePrice(g)
        total == IF p \in Promos THEN Discounted(p, unit, 1) ELSE unit
    IN  /\ ~job[u].on
        /\ g \in listed \ ApiGoods
        /\ HasUnit(g)
        /\ p \in Promos => Applies(p, u, g, unit)
        /\ balance[u] >= total
        /\ stock' = IF g \in InfiniteGoods THEN stock
                    ELSE [stock EXCEPT ![g] = @ - 1]
        /\ bought' = [bought EXCEPT ![u][g] = @ + 1]
        /\ paid' = [paid EXCEPT ![u] = @ + total]
        /\ RecordUsage({p} \ {NoCode}, u,
                       [h \in Goods |-> IF h = g THEN p ELSE NoCode])
        /\ balance' = [balance EXCEPT ![u] = @ - total]
        /\ ordered' = ordered \cup {g}
        /\ UNCHANGED <<price, sale, listed, supplied, operations, cart, adds,
                       dialogVars, edits>>

\* redeem_balance_promo
Redeem(u, p) ==
    /\ ~job[u].on
    /\ Usable(p, u) /\ Terms[p].kind = "balance"
    /\ balance' = [balance EXCEPT ![u] = @ + Terms[p].value]
    /\ operations' = [operations EXCEPT ![u] = @ + Terms[p].value]
    /\ RecordUsage({p}, u, [g \in Goods |-> NoCode])
    /\ UNCHANGED <<catalogVars, stockVars, bought, paid, cart, adds,
                   dialogVars, edits>>

-----------------------------------------------------------------------------
(***************************************************************************)
(* The staff, and time                                                     *)
(***************************************************************************)

Edit == edits < MaxEdits /\ edits' = edits + 1

\* update_item
SetPrice(g, to) ==
    /\ Edit
    /\ g \in listed /\ price[g] # to
    /\ price' = [price EXCEPT ![g] = to]
    /\ UNCHANGED <<sale, listed, ordered, stockVars, promoVars, moneyVars, cart,
                   adds, dialogVars>>

\* set_item_sale, or sale_until passes.
ToggleSale(g) ==
    /\ Edit
    /\ g \in listed
    /\ sale' = IF g \in sale THEN sale \ {g} ELSE sale \cup {g}
    /\ UNCHANGED <<price, listed, ordered, stockVars, promoVars, moneyVars, cart,
                   adds, dialogVars>>

\* add_values_to_item and add_values_bulk, per value
Restock(g) ==
    /\ Edit
    /\ g \in listed
    /\ stock' = [stock EXCEPT ![g] = @ + 1]
    /\ supplied' = [supplied EXCEPT ![g] = @ + 1]
    /\ UNCHANGED <<catalogVars, promoVars, moneyVars, cart, adds, dialogVars>>

\* delete_item_from_position
DeleteUnit(g) ==
    /\ Edit
    /\ stock[g] > 0
    /\ stock' = [stock EXCEPT ![g] = @ - 1]
    /\ supplied' = [supplied EXCEPT ![g] = @ - 1]
    /\ UNCHANGED <<catalogVars, promoVars, moneyVars, cart, adds, dialogVars>>

\* delete_item: stock and, by cascade, cart lines go with the row.  A good with
\* an order stays (orders.goods_id RESTRICT); a checkout writes no order, and
\* BoughtGoods do not refer to their good.
DeleteGoods(g) ==
    /\ Edit
    /\ g \in listed \ ordered
    /\ listed' = listed \ {g}
    /\ stock' = [stock EXCEPT ![g] = 0]
    /\ supplied' = [supplied EXCEPT ![g] = @ - stock[g]]
    /\ cart' = [u \in Users |-> [cart[u] EXCEPT ![g] = NoLine]]
    /\ UNCHANGED <<price, sale, ordered, promoVars, moneyVars, adds, dialogVars>>

\* toggle_promo_code, or expires_at passes or is edited.
TogglePromo(p) ==
    /\ Edit
    /\ code[p] # "gone"
    /\ code' = [code EXCEPT ![p] = IF @ = "on" THEN "off" ELSE "on"]
    /\ UNCHANGED <<catalogVars, stockVars, uses, usages, discounts, moneyVars,
                   cart, adds, dialogVars>>

\* delete_promo_code: its usage rows go with it, its name stays in carts.
DeletePromo(p) ==
    /\ Edit
    /\ code[p] # "gone"
    /\ code' = [code EXCEPT ![p] = "gone"]
    /\ uses' = [uses EXCEPT ![p] = 0]
    /\ usages' = [usages EXCEPT ![p] = [u \in Users |-> 0]]
    /\ discounts' = [discounts EXCEPT ![p] = 0]
    /\ UNCHANGED <<catalogVars, stockVars, moneyVars, cart, adds, dialogVars>>

-----------------------------------------------------------------------------
\* An item page only keeps a code that applied to its good once.
PageCodes(g) ==
    {p \in Promos : Terms[p].kind # "balance" /\ Terms[p].item \in {NoGoods, g}}
      \cup {NoCode}

CartStep(u) ==
    \/ \E g \in Goods :
         \/ \E s \in Slots, p \in PageCodes(g) : TapAdd(s, u, g, p)
         \/ \E delta \in {-1, 1} : SetQuantity(u, g, delta)
         \/ ClearLinePromo(u, g)
         \/ RemoveLines(u, {g})
    \/ RemoveLines(u, InCart(u))

AddStep(s) ==
    \/ AddRefused(s) \/ AddIncrement(s) \/ AddCount(s) \/ AddInsert(s)
    \/ AddConflict(s)

CheckoutStep(u) ==
    \/ OpenDialog(u) \/ ClearConversation(u) \/ Confirm(u) \/ RetryCheckout(u)
    \/ AbortCheckout(u) \/ DropUnavailable(u) \/ Checkout(u)

StaffStep ==
    \/ \E g \in Goods :
         \/ \E to \in Prices : SetPrice(g, to)
         \/ ToggleSale(g) \/ Restock(g) \/ DeleteUnit(g) \/ DeleteGoods(g)
    \/ \E p \in Promos : TogglePromo(p) \/ DeletePromo(p)

Next ==
    \/ \E u \in Users :
         \/ CartStep(u)
         \/ CheckoutStep(u)
         \/ \E g \in Goods, p \in Codes : BuyItem(u, g, p)
         \/ \E p \in Promos : Redeem(u, p)
    \/ \E s \in Slots : AddStep(s)
    \/ StaffStep

Spec == Init /\ [][Next]_vars

-----------------------------------------------------------------------------
(***************************************************************************)
(* Properties                                                              *)
(***************************************************************************)

AddType == [at : {"none", "look", "insert"}, user : Users \cup {NoUser},
            goods : Goods \cup {NoGoods}, promo : Codes, try : 0..2]
DialogType == [total : Nat \cup {Nothing}, kept : BOOLEAN]
JobType == [on : BOOLEAN, lines : CartType, dialog : DialogType]

CatalogOK ==
    /\ price \in [Goods -> Prices] /\ sale \subseteq Goods
    /\ listed \subseteq Goods /\ ordered \subseteq listed
StockOK == stock \in [Goods -> Nat] /\ supplied \in [Goods -> Int]
PromosOK ==
    /\ code \in [Promos -> {"on", "off", "gone"}]
    /\ uses \in [Promos -> Nat] /\ discounts \in [Promos -> Nat]
    /\ usages \in [Promos -> [Users -> Nat]]
MoneyOK ==
    /\ balance \in [Users -> Nat] /\ operations \in [Users -> Nat]
    /\ bought \in [Users -> [Goods -> Nat]] /\ paid \in [Users -> Nat]
CartsOK == cart \in [Users -> CartType] /\ adds \in [Slots -> AddType]
DialogsOK ==
    /\ dialog \in [Users -> DialogType] /\ job \in [Users -> JobType]
    /\ surprised \subseteq Users

\* Every variable stays in its type: no balance, stock or counter goes below
\* zero (the CHECKs of the tables), and no line above CART_MAX_QTY_PER_ITEM.
TypeOK ==
    /\ CatalogOK /\ StockOK /\ PromosOK /\ MoneyOK /\ CartsOK /\ DialogsOK
    /\ edits \in 0..MaxEdits

\* What left the balance is what the user's BoughtGoods rows say they cost,
\* kopeck by kopeck, whichever way they were bought; what came is in
\* Operations.
LedgerBalances ==
    \A u \in Users : balance[u] = Funds + operations[u] - paid[u]

\* However checkouts, single purchases and deletions compete for the stored
\* units, buyers never get more of them than were supplied, and the others are
\* still there.
UnitsSoldOnce ==
    \A g \in Goods \ InfiniteGoods :
      LET sold == SumOver(Users, LAMBDA u : bought[u][g])
      IN  sold <= supplied[g] /\ supplied[g] = stock[g] + sold

\* However checkouts, single purchases and redemptions compete, a code is
\* used at most max_uses times and by each user max_uses_per_user times, and
\* current_uses is the number of usage rows.
PromoLimits ==
    \A p \in Promos :
      /\ uses[p] = SumOver(Users, LAMBDA u : usages[p][u])
      /\ Terms[p].maxUses > 0 => uses[p] <= Terms[p].maxUses
      /\ \A u \in Users : usages[p][u] <= Terms[p].perUser

\* One redemption is one line: a code on several lines of a cart makes only
\* one of them cheaper.
OneLinePerUse ==
    \A p \in Promos : Terms[p].kind # "balance" => discounts[p] = uses[p]

\* A line never outlives its good (ON DELETE CASCADE), whatever add_to_cart
\* or a checkout was in the middle of.
LinesHaveGoods == \A u \in Users : InCart(u) \subseteq listed

\* The cart screen and the checkout come to the same total: the lines a
\* checkout has read are priced as the screen would price them.
TotalsAgree ==
    \A u \in Users :
      job[u].on /\ Lines(u) = cart[u] => ViewTotal(u) = CheckoutTotal(u)

\* A checkout whose cart still shows the total the user confirmed is not
\* turned down because of its total.
UnchangedCartSells ==
    \A u \in Users :
      job[u].on /\ Lines(u) = cart[u] /\ job[u].dialog.total = ViewTotal(u)
        => Outcome(u) # "price_changed"

\* As long as the conversation keeps the total of the dialog, the user is
\* charged that total or nothing, whatever prices, sales, codes and lines have
\* become between the dialog, its confirmation, retries and the charge.
AgreedWhileKept == [][\A u \in surprised' \ surprised : ~job[u].dialog.kept]_vars

\* The same without the condition on the conversation (transactions.py: "Refuse
\* to charge a total the user did not agree to.").
AgreedTotal == surprised = {}

\* A cart holds at most CART_MAX_ITEMS lines (cart.full).
CartNotOverfull == \A u \in Users : Cardinality(InCart(u)) <= CartMaxItems
=============================================================================
