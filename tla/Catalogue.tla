------------------------------ MODULE Catalogue ------------------------------
(***************************************************************************)
(* The staff's dialogs that edit the catalogue (bot/handlers/admin/        *)
(* adding_position.py, update_position.py, goods_management.py,            *)
(* categories_management.py) and the sessions they end in                  *)
(* (bot/database/methods/create.py, update.py, delete.py,                  *)
(* transactions.py), against each other and against customers who buy.     *)
(* A dialog names positions; what it commits is found again by that name.  *)
(* Descriptions, prices and the texts of values are left out, and so is    *)
(* an answer that is refused and asked for again, which changes nothing.   *)
(***************************************************************************)
EXTENDS Naturals, FiniteSets

CONSTANTS
    Editors,        \* staff with CATALOG_MANAGE
    Ids,            \* primary keys of goods
    PositionNames,
    CategoryIds, CategoryNames,
    MaxDialogs,     \* bound: dialogs opened
    MaxBuys,        \* bound: purchases
    NoPosition, NoName, NoEdit, NoBuy

ASSUME CatalogueAssumption ==
    /\ MaxDialogs \in Nat /\ MaxBuys \in Nat
    /\ NoName \notin PositionNames \cup CategoryNames
    /\ NoPosition \notin [name : PositionNames \cup {NoName}, category : CategoryIds]
    /\ CategoryNames # {} /\ CategoryIds # {} /\ PositionNames # {} /\ Ids # {}

VARIABLES
    category,       \* per id: its name
    position,       \* per id: [name, category], or NoPosition
    stock,          \* per id: the kinds of item_values rows it has, "unit" and "endless"
    edit,           \* per editor: FSM state and data of the dialog
    buying,         \* the purchase in progress, which holds the row lock of its position
    history,        \* bought_goods: [id |-> the position, name |-> item_name]
    inOrders,       \* the ids that orders.goods_id names
    outdated,       \* ghost: editors whose position was edited by another one since the name was checked
    crossed,        \* ghost: positions that an outdated dialog has stocked
    opened, buys

catalogueVars ==
    <<category, position, stock, edit, buying, history, inOrders, outdated, crossed, opened, buys>>

goodsVars == <<category, position, stock, history>>
ghostVars == <<outdated, crossed>>
buyVars == <<buying, buys, inOrders, opened>>

\* FSM states by dialog: AddItemFSM, UpdateItemFSM (amount, then full update),
\* GoodsFSM and CategoryFSM.
EditStates ==
    {"add name", "add description", "add price", "add category", "add infinity",
     "add values", "add single", "add units", "add endless",
     "amount name", "amount values",
     "old name", "new name", "new description", "new price", "make infinity", "deny infinity",
     "single value", "multiple values", "delete name",
     "category add", "category delete", "category old", "category new"}

Live == {i \in Ids : position[i] # NoPosition}
WithName(n) == {i \in Live : position[i].name = n}
CategoryOf(c) == {k \in CategoryIds : category[k] = c}

\* The catalogue and the dialogs are well formed, and names unique. "If item is
\* infinite, we logically can't add individual values": a position has endless
\* and single values together only if two editors' dialogs about it crossed.
CatalogueTypeOK ==
    /\ category \in [CategoryIds -> CategoryNames \cup {NoName}]
    /\ position \in [Ids -> {NoPosition} \cup [name : PositionNames, category : CategoryIds]]
    /\ stock \in [Ids -> SUBSET {"unit", "endless"}]
    /\ \A i \in Ids \ Live : stock[i] = {}
    /\ \A i \in Live : category[position[i].category] # NoName
    /\ \A n \in PositionNames : Cardinality(WithName(n)) <= 1
    /\ \A p \in Editors : edit[p] = NoEdit \/ edit[p].at \in EditStates
    /\ outdated \subseteq Editors /\ crossed \subseteq Ids /\ inOrders \subseteq Live
    /\ \A i \in Ids \ crossed : stock[i] # {"unit", "endless"}

\* One category with one position, of either kind.
CatalogueInit ==
    /\ \E s \in {{"unit"}, {"endless"}} :
        LET c == CHOOSE x \in CategoryNames : TRUE   k == CHOOSE x \in CategoryIds : TRUE
            n == CHOOSE x \in PositionNames : TRUE   i == CHOOSE x \in Ids : TRUE
        IN
        /\ category = [x \in CategoryIds |-> IF x = k THEN c ELSE NoName]
        /\ position = [x \in Ids |-> IF x = i THEN [name |-> n, category |-> k] ELSE NoPosition]
        /\ stock = [x \in Ids |-> IF x = i THEN s ELSE {}]
    /\ edit = [p \in Editors |-> NoEdit] /\ buying = NoBuy
    /\ history = {} /\ inOrders = {} /\ outdated = {} /\ crossed = {}
    /\ opened = 0 /\ buys = 0

-----------------------------------------------------------------------------
(***************************************************************************)
(* Moving through a dialog                                                 *)
(***************************************************************************)

At(p, s) == edit[p] # NoEdit /\ edit[p].at = s
Blank == [at |-> "add name", name |-> NoName, to |-> NoName, category |-> NoName,
          values |-> FALSE]
\* set_state and update_data in one.
Goto(p, d) == edit' = [edit EXCEPT ![p] = d]
Ask(p, s) == Goto(p, [edit[p] EXCEPT !.at = s])
Leave(p) == Goto(p, NoEdit) /\ outdated' = outdated \ {p}

\* The buttons that open a dialog set the state only: data of a dialog that was
\* left by such a button of an older message stays.
Open(p, s) ==
    /\ opened < MaxDialogs /\ opened' = opened + 1
    /\ Goto(p, IF edit[p] = NoEdit THEN [Blank EXCEPT !.at = s] ELSE [edit[p] EXCEPT !.at = s])
    /\ outdated' = outdated \ {p}
    /\ UNCHANGED <<goodsVars, crossed, buying, buys, inOrders>>

\* goods_management and console: state.clear().
GoodsManagement(p) ==
    edit[p] # NoEdit /\ Leave(p) /\ UNCHANGED <<goodsVars, crossed, buyVars>>

\* The descriptions and prices, which are checked against nothing stored.
Describe(p) ==
    /\ \/ At(p, "add description") /\ Ask(p, "add price")
       \/ At(p, "add price") /\ Ask(p, "add category")
       \/ At(p, "new description") /\ Ask(p, "new price")
    /\ UNCHANGED <<goodsVars, ghostVars, buyVars>>

\* The values sent one by one are kept in item_values.
CollectValue(p) ==
    /\ (At(p, "add values") \/ At(p, "amount values") \/ At(p, "multiple values"))
    /\ Goto(p, [edit[p] EXCEPT !.values = TRUE])
    /\ UNCHANGED <<goodsVars, ghostVars, buyVars>>

-----------------------------------------------------------------------------
(***************************************************************************)
(* Sessions                                                                *)
(***************************************************************************)

\* Mutant: a purchase reads its position without the row lock.
HeldByNobody(i) == FALSE

\* The purchase locks the row of its position (with_for_update); an edit and a
\* deletion of the row wait for it.
Held(i) == buying # NoBuy /\ buying.id = i

\* An edit by p of the positions called ns: dialogs of others about that name.
Touch(p, ns) ==
    outdated' = (outdated \ {p}) \cup
        {q \in Editors \ {p} : edit[q] # NoEdit /\ edit[q].name \in ns}

\* Primary keys are not given out again.
FreshIds == Ids \ (Live \cup {h.id : h \in history} \cup crossed)

\* create_item: an existing name or a missing category is passed over silently.
CreateItem(n, c) ==
    IF WithName(n) # {} \/ CategoryOf(c) = {} THEN UNCHANGED position
    ELSE \E i \in FreshIds, k \in CategoryOf(c) :
            position' = [position EXCEPT ![i] = [name |-> n, category |-> k]]

\* add_values_bulk and add_values_to_item: to the position that has the name now.
AddValues(p, n, kind) ==
    /\ stock' = [i \in Ids |-> IF i \in WithName(n) THEN stock[i] \cup {kind} ELSE stock[i]]
    /\ crossed' = IF p \in outdated THEN crossed \cup WithName(n) ELSE crossed
    /\ Touch(p, {n})

\* The rename is carried over to bought_goods.
HistoryRenamed(old, new) ==
    history' = {IF h.name = old THEN [h EXCEPT !.name = new] ELSE h : h \in history}

\* update_item, and replace_item_stock_and_meta with the new stock; both look
\* the position and the category up by name and refuse a name that is taken.
UpdateRefused(d) ==
    \/ WithName(d.name) = {} \/ CategoryOf(d.category) = {}
    \/ d.to # d.name /\ WithName(d.to) # {}

UpdateItem(p, d) ==
    IF UpdateRefused(d) THEN UNCHANGED <<position, history>> /\ outdated' = outdated \ {p}
    ELSE /\ \E i \in WithName(d.name), k \in CategoryOf(d.category) :
              ~Held(i) /\ position' = [position EXCEPT ![i] = [name |-> d.to, category |-> k]]
         /\ HistoryRenamed(d.name, d.to)
         /\ Touch(p, {d.name, d.to})

ReplaceStock(d, kind) ==
    stock' = [i \in Ids |-> IF ~UpdateRefused(d) /\ i \in WithName(d.name) THEN {kind} ELSE stock[i]]

\* delete_item, and what the deletion of a category cascades to. A position
\* with an order is not deleted (orders.goods_id RESTRICT): the session fails,
\* and the dialog stays as it was. bought_goods refers to no position, so its
\* rows stand in nobody's way and stay behind.
DeletePositions(p, is) ==
    /\ is \cap inOrders = {} /\ \A i \in is : ~Held(i)
    /\ position' = [i \in Ids |-> IF i \in is THEN NoPosition ELSE position[i]]
    /\ stock' = [i \in Ids |-> IF i \in is THEN {} ELSE stock[i]]
    /\ Touch(p, {position[i].name : i \in is})

-----------------------------------------------------------------------------
(***************************************************************************)
(* Adding a position                                                       *)
(***************************************************************************)

Checked(p, d) == Goto(p, d) /\ outdated' = outdated \ {p}

AddName(p, n) ==
    /\ At(p, "add name") /\ WithName(n) = {}
    /\ Checked(p, [edit[p] EXCEPT !.at = "add description", !.name = n])
    /\ UNCHANGED <<goodsVars, crossed, buyVars>>

AddCategory(p, c) ==
    /\ At(p, "add category") /\ CategoryOf(c) # {}
    /\ Goto(p, [edit[p] EXCEPT !.at = "add infinity", !.category = c])
    /\ UNCHANGED <<goodsVars, ghostVars, buyVars>>

AddInfinity(p, yes) ==
    /\ At(p, "add infinity") /\ Ask(p, IF yes THEN "add single" ELSE "add values")
    /\ UNCHANGED <<goodsVars, ghostVars, buyVars>>

\* "Finish adding" and the single value: the position is created ...
FinishAdd(p, kind) ==
    /\ \/ kind = "unit" /\ At(p, "add values") /\ edit[p].values
       \/ kind = "endless" /\ At(p, "add single")
    /\ CreateItem(edit[p].name, edit[p].category)
    /\ Ask(p, IF kind = "unit" THEN "add units" ELSE "add endless")
    /\ outdated' = IF position' = position THEN outdated
                   ELSE outdated \cup {q \in Editors \ {p} :
                            edit[q] # NoEdit /\ edit[q].name = edit[p].name}
    /\ UNCHANGED <<category, stock, history, crossed, buyVars>>

\* ... and stocked, in a session of its own; then state.clear().
StockAdded(p, kind) ==
    /\ At(p, IF kind = "unit" THEN "add units" ELSE "add endless")
    /\ AddValues(p, edit[p].name, kind) /\ Goto(p, NoEdit)
    /\ UNCHANGED <<category, position, history, buyVars>>

-----------------------------------------------------------------------------
(***************************************************************************)
(* Updating, deleting                                                      *)
(***************************************************************************)

\* check_value.
Endless(n) == \E i \in WithName(n) : "endless" \in stock[i]

\* Mutant: units may be added to an endless position.
AmountNameAny(p, n) ==
    /\ At(p, "amount name") /\ WithName(n) # {}
    /\ Checked(p, [edit[p] EXCEPT !.at = "amount values", !.name = n])
    /\ UNCHANGED <<goodsVars, crossed, buyVars>>

AmountName(p, n) ==
    /\ At(p, "amount name") /\ WithName(n) # {} /\ ~Endless(n)
    /\ Checked(p, [edit[p] EXCEPT !.at = "amount values", !.name = n])
    /\ UNCHANGED <<goodsVars, crossed, buyVars>>

FinishAmount(p) ==
    /\ At(p, "amount values") /\ edit[p].values
    /\ AddValues(p, edit[p].name, "unit") /\ Goto(p, NoEdit)
    /\ UNCHANGED <<category, position, history, buyVars>>

OldName(p, n) ==
    /\ At(p, "old name")
    /\ \E i \in WithName(n) :
          Checked(p, [edit[p] EXCEPT !.at = "new name", !.name = n,
                                     !.category = category[position[i].category]])
    /\ UNCHANGED <<goodsVars, crossed, buyVars>>

NewName(p, n) ==
    /\ At(p, "new name")
    /\ Goto(p, [edit[p] EXCEPT !.at = "new description", !.to = n])
    /\ UNCHANGED <<goodsVars, ghostVars, buyVars>>

\* The price; the question asked next depends on the stock as it is now.
NewPrice(p) ==
    /\ At(p, "new price")
    /\ Ask(p, IF Endless(edit[p].name) THEN "deny infinity" ELSE "make infinity")
    /\ UNCHANGED <<goodsVars, ghostVars, buyVars>>

\* change_..._no: the metadata only.
KeepStock(p) ==
    /\ (At(p, "make infinity") \/ At(p, "deny infinity"))
    /\ UpdateItem(p, edit[p]) /\ Goto(p, NoEdit)
    /\ UNCHANGED <<category, stock, crossed, buyVars>>

\* change_..._yes.
ChangeStock(p) ==
    /\ \/ At(p, "make infinity") /\ Ask(p, "single value")
       \/ At(p, "deny infinity") /\ Ask(p, "multiple values")
    /\ UNCHANGED <<goodsVars, ghostVars, buyVars>>

\* The single value, or finish_update_item: stock and metadata in one session.
FinishUpdate(p, kind) ==
    /\ \/ kind = "endless" /\ At(p, "single value")
       \/ kind = "unit" /\ At(p, "multiple values") /\ edit[p].values
    /\ UpdateItem(p, edit[p]) /\ ReplaceStock(edit[p], kind) /\ Goto(p, NoEdit)
    /\ UNCHANGED <<category, crossed, buyVars>>

DeleteItem(p, n) ==
    /\ At(p, "delete name")
    /\ DeletePositions(p, WithName(n)) /\ Goto(p, NoEdit)
    /\ UNCHANGED <<category, history, crossed, buyVars>>

\* dip_: one row of the stock, by its id; the last of its kind, or not.
DeleteUnit(p, i, kind) ==
    /\ kind \in stock[i] /\ stock' = [stock EXCEPT ![i] = @ \ {kind}]
    /\ UNCHANGED <<category, position, history, edit, ghostVars, buyVars>>

-----------------------------------------------------------------------------
(***************************************************************************)
(* Categories                                                              *)
(***************************************************************************)

CreateCategory(p, c) ==
    /\ At(p, "category add") /\ Leave(p)
    /\ IF CategoryOf(c) # {} THEN UNCHANGED category
       ELSE \E k \in {x \in CategoryIds : category[x] = NoName} : category' = [category EXCEPT ![k] = c]
    /\ UNCHANGED <<position, stock, history, crossed, buyVars>>

DeleteCategory(p, c) ==
    /\ At(p, "category delete")
    /\ DeletePositions(p, {i \in Live : position[i].category \in CategoryOf(c)}) /\ Goto(p, NoEdit)
    /\ category' = [k \in CategoryIds |-> IF k \in CategoryOf(c) THEN NoName ELSE category[k]]
    /\ UNCHANGED <<history, crossed, buyVars>>

OldCategory(p, c) ==
    /\ At(p, "category old")
    /\ IF CategoryOf(c) = {} THEN Leave(p)
       ELSE Goto(p, [edit[p] EXCEPT !.at = "category new", !.category = c]) /\ UNCHANGED outdated
    /\ UNCHANGED <<goodsVars, crossed, buyVars>>

\* A category that is gone meanwhile raises, and the dialog stays open.
RenameCategory(p, c) ==
    /\ At(p, "category new")
    /\ \/ CategoryOf(c) # {} /\ Leave(p) /\ UNCHANGED category
       \/ CategoryOf(c) = {} /\ CategoryOf(edit[p].category) # {} /\ Leave(p)
          /\ category' = [k \in CategoryIds |->
                            IF k \in CategoryOf(edit[p].category) THEN c ELSE category[k]]
    /\ UNCHANGED <<position, stock, history, crossed, buyVars>>

-----------------------------------------------------------------------------
(***************************************************************************)
(* Customers                                                               *)
(***************************************************************************)

\* A purchase of stock: the position is locked and its name read ...
BeginBuy(i) ==
    /\ buying = NoBuy /\ buys < MaxBuys /\ i \in Live /\ stock[i] # {}
    /\ buying' = [id |-> i, name |-> position[i].name] /\ buys' = buys + 1
    /\ UNCHANGED <<goodsVars, edit, ghostVars, opened, inOrders>>

\* ... and a unit leaves the stock (the last one, or not) unless there is an
\* endless one, and bought_goods gets the name. A single purchase writes an
\* order too, a cart checkout does not.
EndBuy(last, cart) ==
    /\ buying # NoBuy
    /\ history' = history \cup {buying}
    /\ inOrders' = IF cart THEN inOrders ELSE inOrders \cup {buying.id}
    /\ stock' = IF last /\ "endless" \notin stock[buying.id]
                THEN [stock EXCEPT ![buying.id] = @ \ {"unit"}] ELSE stock
    /\ buying' = NoBuy
    /\ UNCHANGED <<category, position, edit, ghostVars, opened, buys>>

-----------------------------------------------------------------------------
Openers == {"add name", "amount name", "old name", "delete name",
            "category add", "category delete", "category old"}

CatalogueNext ==
    \/ \E p \in Editors :
        \/ \E s \in Openers : Open(p, s)
        \/ GoodsManagement(p) \/ Describe(p) \/ CollectValue(p) \/ FinishAmount(p)
        \/ NewPrice(p) \/ KeepStock(p) \/ ChangeStock(p)
        \/ \E n \in PositionNames :
            AddName(p, n) \/ AmountName(p, n) \/ OldName(p, n) \/ NewName(p, n) \/ DeleteItem(p, n)
        \/ \E c \in CategoryNames : \/ AddCategory(p, c) \/ CreateCategory(p, c) \/ DeleteCategory(p, c)
                                    \/ OldCategory(p, c) \/ RenameCategory(p, c)
        \/ \E yes \in BOOLEAN : AddInfinity(p, yes)
        \/ \E kind \in {"unit", "endless"} :
            \/ FinishAdd(p, kind) \/ StockAdded(p, kind) \/ FinishUpdate(p, kind)
            \/ \E i \in Live : DeleteUnit(p, i, kind)
    \/ \E i \in Ids : BeginBuy(i)
    \/ \E last, cart \in BOOLEAN : EndBuy(last, cart)

CatalogueSpec == CatalogueInit /\ [][CatalogueNext]_catalogueVars

-----------------------------------------------------------------------------
\* "Purchase history denormalizes the name, so carry the rename over": the sales
\* of a position that exists have the name it has now, however purchases,
\* renames, deletions and the reuse of a name cross.
HistoryFollowsName ==
    \A h \in history : h.id \in Live => h.name = position[h.id].name

\* "Renaming or deleting a product keeps carts, reviews, and purchase history
\* consistent automatically" (README.md): no dialog about one position rewrites
\* the sales of another. A position sold through the cart can be deleted; its
\* sales stay behind under its name and follow the next position of that name.
SalesOfTheGoneStand ==
    [][\A h \in history : h.id \notin Live => h \in history']_catalogueVars
=============================================================================
