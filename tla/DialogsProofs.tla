---------------------------- MODULE DialogsProofs ----------------------------
(***************************************************************************)
(* Proofs about the conversations: the catalogue under its editors, the    *)
(* support desk, the staff's roles, the storefront and the paged lists,    *)
(* for any number of people, dialogs, rows and presses.                    *)
(***************************************************************************)
EXTENDS MCDialogs, SumTheorems, SequenceTheorems

-----------------------------------------------------------------------------
(***************************************************************************)
(* The catalogue                                                           *)
(***************************************************************************)

AnyName == PositionNames \cup {NoName}
EditRecords == [at : EditStates, name : AnyName, to : AnyName,
                category : CategoryNames \cup {NoName}, values : BOOLEAN]
PositionRecords == [name : AnyName, category : CategoryIds]

GoodsTypes ==
    /\ category \in [CategoryIds -> CategoryNames \cup {NoName}]
    /\ position \in [Ids -> {NoPosition} \cup PositionRecords]
    /\ edit \in [Editors -> {NoEdit} \cup EditRecords]
    /\ history \subseteq [id : Ids, name : AnyName]
    /\ buying # NoBuy => buying \in [id : Ids, name : AnyName]

NamesUnique == \A i, j \in Live : position[i].name = position[j].name => i = j

\* A sale carries the name its position has.
Follows(h) == h.id \in Live /\ h.name = position[h.id].name

\* The rename of bought_goods goes by the name, so it hits a position's own
\* rows only because names are unique; and the purchase under way, which holds
\* the row's lock, must not see its position renamed or deleted.
CatalogueInv ==
    /\ GoodsTypes /\ NamesUnique /\ HistoryFollowsName /\ inOrders \subseteq Live
    /\ buying # NoBuy => Follows(buying)

LEMMA CatalogueFacts ==
    /\ MaxDialogs \in Nat /\ MaxBuys \in Nat /\ NoName \notin PositionNames \cup CategoryNames
    /\ NoPosition \notin [name : PositionNames \cup {NoName}, category : CategoryIds]
    /\ CategoryNames # {} /\ CategoryIds # {} /\ PositionNames # {} /\ Ids # {}
BY CatalogueAssumption

LEMMA LiveHas ==
    ASSUME GoodsTypes, NEW i \in Live
    PROVE  i \in Ids /\ position[i] \in PositionRecords /\ position[i].name \in AnyName
BY DEF GoodsTypes, Live, PositionRecords

\* Steps that touch no position and no sale.
LEMMA CatalogueQuiet ==
    ASSUME CatalogueInv, UNCHANGED <<position, history, buying, inOrders>>,
           category' \in [CategoryIds -> CategoryNames \cup {NoName}],
           edit' \in [Editors -> {NoEdit} \cup EditRecords]
    PROVE  CatalogueInv'
<1>1. GoodsTypes'
  BY DEF CatalogueInv, GoodsTypes
<1>2. /\ NamesUnique' /\ HistoryFollowsName' /\ inOrders' \subseteq Live'
      /\ buying' # NoBuy => Follows(buying)'
  BY DEF CatalogueInv, NamesUnique, HistoryFollowsName, Follows, Live
<1>3. QED
  BY <1>1, <1>2 DEF CatalogueInv

LEMMA GotoTypes ==
    ASSUME GoodsTypes, NEW p \in Editors, NEW d \in {NoEdit} \cup EditRecords, Goto(p, d)
    PROVE  edit' \in [Editors -> {NoEdit} \cup EditRecords]
BY DEF Goto, GoodsTypes

LEMMA EditForm ==
    ASSUME GoodsTypes, NEW p \in Editors, NEW s, At(p, s)
    PROVE  edit[p] \in EditRecords /\ edit[p].name \in AnyName /\ edit[p].to \in AnyName
BY DEF GoodsTypes, At, EditRecords

\* The fields a dialog step sets.
LEMMA EditSet ==
    ASSUME NEW e \in EditRecords, NEW s \in EditStates, NEW n \in AnyName,
           NEW c \in CategoryNames \cup {NoName}
    PROVE  /\ [e EXCEPT !.at = s] \in EditRecords
           /\ [e EXCEPT !.at = s, !.name = n] \in EditRecords
           /\ [e EXCEPT !.at = s, !.to = n] \in EditRecords
           /\ [e EXCEPT !.at = s, !.category = c] \in EditRecords
           /\ [e EXCEPT !.at = s, !.name = n, !.category = c] \in EditRecords
           /\ [e EXCEPT !.values = TRUE] \in EditRecords
BY DEF EditRecords

LEMMA DialogSteps ==
    ASSUME CatalogueInv, NEW p \in Editors,
           \/ \E s \in Openers : Open(p, s)
           \/ GoodsManagement(p) \/ Describe(p) \/ CollectValue(p)
           \/ NewPrice(p) \/ ChangeStock(p)
           \/ \E yes \in BOOLEAN : AddInfinity(p, yes)
    PROVE  CatalogueInv'
<1>1. UNCHANGED <<category, position, history, buying, inOrders>>
  BY DEF Open, GoodsManagement, Describe, CollectValue, NewPrice, ChangeStock, AddInfinity,
         goodsVars, buyVars
<1>2. GoodsTypes /\ category' \in [CategoryIds -> CategoryNames \cup {NoName}]
  BY <1>1 DEF CatalogueInv, GoodsTypes
<1>3. ASSUME NEW s, NEW q \in EditStates, At(p, s), Ask(p, q)
      PROVE  edit' \in [Editors -> {NoEdit} \cup EditRecords]
  <2>1. edit[p] \in EditRecords
    BY <1>2, <1>3, EditForm
  <2>2. [edit[p] EXCEPT !.at = q] \in EditRecords
    BY <2>1, EditSet DEF AnyName
  <2>3. QED
    BY <1>2, <1>3, <2>2, GotoTypes DEF Ask
<1>4. edit' \in [Editors -> {NoEdit} \cup EditRecords]
  <2>1. ASSUME NEW s \in Openers, Open(p, s)
        PROVE  edit' \in [Editors -> {NoEdit} \cup EditRecords]
    <3>1. s \in EditStates
      BY DEF Openers, EditStates
    <3>2. [Blank EXCEPT !.at = s] \in EditRecords
      BY <3>1 DEF Blank, EditRecords, AnyName
    <3>3. edit[p] = NoEdit \/ [edit[p] EXCEPT !.at = s] \in EditRecords
      BY <1>2, <3>1, EditSet DEF GoodsTypes, AnyName
    <3>4. PICK d : d = IF edit[p] = NoEdit THEN [Blank EXCEPT !.at = s]
                       ELSE [edit[p] EXCEPT !.at = s]
      OBVIOUS
    <3>5. d \in EditRecords /\ Goto(p, d)
      BY <2>1, <3>2, <3>3, <3>4 DEF Open
    <3>6. QED
      BY <1>2, <3>5, GotoTypes
  <2>2. CASE GoodsManagement(p)
    BY <1>2, <2>2, GotoTypes DEF GoodsManagement, Leave
  <2>3. CASE Describe(p)
    <3>1. "add price" \in EditStates /\ "add category" \in EditStates /\ "new price" \in EditStates
      BY DEF EditStates
    <3>2. QED
      BY <1>3, <2>3, <3>1 DEF Describe
  <2>4. CASE CollectValue(p)
    <3>1. PICK s : At(p, s)
      BY <2>4 DEF CollectValue
    <3>2. edit[p] \in EditRecords
      BY <1>2, <3>1, EditForm
    <3>3. [edit[p] EXCEPT !.values = TRUE] \in EditRecords
      BY <3>2 DEF EditRecords
    <3>4. QED
      BY <1>2, <2>4, <3>3, GotoTypes DEF CollectValue
  <2>5. CASE NewPrice(p)
    <3>1. "deny infinity" \in EditStates /\ "make infinity" \in EditStates
      BY DEF EditStates
    <3>2. QED
      BY <1>3, <2>5, <3>1 DEF NewPrice
  <2>6. CASE ChangeStock(p)
    <3>1. "single value" \in EditStates /\ "multiple values" \in EditStates
      BY DEF EditStates
    <3>2. QED
      BY <1>3, <2>6, <3>1 DEF ChangeStock
  <2>7. CASE \E yes \in BOOLEAN : AddInfinity(p, yes)
    <3>1. "add single" \in EditStates /\ "add values" \in EditStates
      BY DEF EditStates
    <3>2. PICK yes \in BOOLEAN : At(p, "add infinity") /\
                                 Ask(p, IF yes THEN "add single" ELSE "add values")
      BY <2>7 DEF AddInfinity
    <3>3. QED
      BY <1>3, <3>1, <3>2
  <2>8. QED
    BY <2>1, <2>2, <2>3, <2>4, <2>5, <2>6, <2>7
<1>5. QED
  BY <1>1, <1>2, <1>4, CatalogueQuiet

LEMMA NamingSteps ==
    ASSUME CatalogueInv, NEW p \in Editors, NEW n \in PositionNames,
           AddName(p, n) \/ AmountName(p, n) \/ OldName(p, n) \/ NewName(p, n)
    PROVE  CatalogueInv'
<1>1. UNCHANGED <<category, position, history, buying, inOrders>>
  BY DEF AddName, AmountName, OldName, NewName, goodsVars, buyVars
<1>2. GoodsTypes /\ category' \in [CategoryIds -> CategoryNames \cup {NoName}]
  BY <1>1 DEF CatalogueInv, GoodsTypes
<1>3. n \in AnyName /\ NoName \in CategoryNames \cup {NoName}
  BY DEF AnyName
<1>4. edit[p] \in EditRecords
  BY <1>2, EditForm DEF AddName, AmountName, OldName, NewName
<1>5. {"add description", "amount values", "new name", "new description"} \subseteq EditStates
  BY DEF EditStates
<1>6. CASE AddName(p, n)
  <2>1. [edit[p] EXCEPT !.at = "add description", !.name = n] \in EditRecords
    BY <1>3, <1>4, <1>5, EditSet
  <2>2. QED
    BY <1>1, <1>2, <1>6, <2>1, GotoTypes, CatalogueQuiet DEF AddName, Checked
<1>7. CASE AmountName(p, n)
  <2>1. [edit[p] EXCEPT !.at = "amount values", !.name = n] \in EditRecords
    BY <1>3, <1>4, <1>5, EditSet
  <2>2. QED
    BY <1>1, <1>2, <1>7, <2>1, GotoTypes, CatalogueQuiet DEF AmountName, Checked
<1>8. CASE OldName(p, n)
  <2>1. PICK i \in WithName(n) :
          Checked(p, [edit[p] EXCEPT !.at = "new name", !.name = n,
                                     !.category = category[position[i].category]])
    BY <1>8 DEF OldName
  <2>2. i \in Live
    BY <2>1 DEF WithName
  <2>3. position[i] \in PositionRecords
    BY <1>2, <2>2, LiveHas
  <2>4. category[position[i].category] \in CategoryNames \cup {NoName}
    BY <1>2, <2>3 DEF PositionRecords, GoodsTypes
  <2>5. PICK c \in CategoryNames \cup {NoName} : c = category[position[i].category]
    BY <2>4
  <2>6. [edit[p] EXCEPT !.at = "new name", !.name = n, !.category = c] \in EditRecords
    BY <1>3, <1>4, <1>5, EditSet
  <2>7. QED
    BY <1>1, <1>2, <2>1, <2>5, <2>6, GotoTypes, CatalogueQuiet DEF Checked
<1>9. CASE NewName(p, n)
  <2>1. [edit[p] EXCEPT !.at = "new description", !.to = n] \in EditRecords
    BY <1>3, <1>4, <1>5, EditSet
  <2>2. QED
    BY <1>1, <1>2, <1>9, <2>1, GotoTypes, CatalogueQuiet DEF NewName
<1>10. QED
  BY <1>6, <1>7, <1>8, <1>9

\* The stock is filled, or a unit of it goes, and the categories change.
LEMMA StockSteps ==
    ASSUME CatalogueInv, NEW p \in Editors, NEW k, NEW i,
           FinishAmount(p) \/ StockAdded(p, k) \/ DeleteUnit(p, i, k)
    PROVE  CatalogueInv'
<1>1. UNCHANGED <<category, position, history, buying, inOrders>>
  BY DEF FinishAmount, StockAdded, DeleteUnit, goodsVars, buyVars
<1>2. GoodsTypes /\ category' \in [CategoryIds -> CategoryNames \cup {NoName}]
  BY <1>1 DEF CatalogueInv, GoodsTypes
<1>3. edit' = edit \/ Goto(p, NoEdit)
  BY DEF FinishAmount, StockAdded, DeleteUnit
<1>4. edit' \in [Editors -> {NoEdit} \cup EditRecords]
  BY <1>2, <1>3, GotoTypes DEF GoodsTypes
<1>5. QED
  BY <1>1, <1>2, <1>4, CatalogueQuiet

LEMMA CategorySteps ==
    ASSUME CatalogueInv, NEW p \in Editors, NEW c \in CategoryNames,
           \/ AddCategory(p, c) \/ CreateCategory(p, c) \/ OldCategory(p, c) \/ RenameCategory(p, c)
    PROVE  CatalogueInv'
<1>1. UNCHANGED <<position, history, buying, inOrders>>
  BY DEF AddCategory, CreateCategory, OldCategory, RenameCategory, goodsVars, buyVars
<1>2. GoodsTypes /\ category \in [CategoryIds -> CategoryNames \cup {NoName}]
  BY DEF CatalogueInv, GoodsTypes
<1>3. edit[p] \in EditRecords
  BY <1>2, EditForm DEF AddCategory, CreateCategory, OldCategory, RenameCategory
<1>4. "add infinity" \in EditStates /\ "category new" \in EditStates /\ NoName \in AnyName
  BY DEF EditStates, AnyName
<1>5. edit' \in [Editors -> {NoEdit} \cup EditRecords]
  <2>1. Goto(p, NoEdit) \/ Goto(p, [edit[p] EXCEPT !.at = "add infinity", !.category = c])
        \/ Goto(p, [edit[p] EXCEPT !.at = "category new", !.category = c])
    BY DEF AddCategory, CreateCategory, OldCategory, RenameCategory, Leave
  <2>2. [edit[p] EXCEPT !.at = "add infinity", !.category = c] \in EditRecords
        /\ [edit[p] EXCEPT !.at = "category new", !.category = c] \in EditRecords
    BY <1>3, <1>4, EditSet
  <2>3. QED
    BY <1>2, <2>1, <2>2, GotoTypes
<1>6. category' \in [CategoryIds -> CategoryNames \cup {NoName}]
  <2>1. CASE UNCHANGED category
    BY <1>2, <2>1
  <2>2. CASE CreateCategory(p, c)
    BY <1>2, <2>2 DEF CreateCategory
  <2>3. CASE RenameCategory(p, c)
    BY <1>2, <2>3 DEF RenameCategory
  <2>4. QED
    BY <2>1, <2>2, <2>3 DEF AddCategory, OldCategory, goodsVars
<1>7. QED
  BY <1>1, <1>5, <1>6, CatalogueQuiet

\* A new position has a free name and an id that no sale has.
LEMMA AddingSteps ==
    ASSUME CatalogueInv, NEW p \in Editors, NEW k, FinishAdd(p, k)
    PROVE  CatalogueInv'
<1>1. /\ UNCHANGED <<category, history, buying, inOrders>>
      /\ CreateItem(edit[p].name, edit[p].category)
      /\ Ask(p, IF k = "unit" THEN "add units" ELSE "add endless")
  BY DEF FinishAdd, buyVars
<1>2. GoodsTypes /\ category' \in [CategoryIds -> CategoryNames \cup {NoName}]
  BY <1>1 DEF CatalogueInv, GoodsTypes
<1>3. edit[p] \in EditRecords /\ edit[p].name \in AnyName
  BY <1>2, EditForm DEF FinishAdd
<1>4. edit' \in [Editors -> {NoEdit} \cup EditRecords]
  <2>1. PICK s \in EditStates : s = IF k = "unit" THEN "add units" ELSE "add endless"
    BY DEF EditStates
  <2>2. [edit[p] EXCEPT !.at = s] \in EditRecords
    BY <1>3, EditSet DEF AnyName
  <2>3. QED
    BY <1>1, <1>2, <2>1, <2>2, GotoTypes DEF Ask
<1>5. CASE UNCHANGED position
  BY <1>1, <1>2, <1>4, <1>5, CatalogueQuiet
<1>6. ASSUME WithName(edit[p].name) = {}, NEW i \in FreshIds, NEW c \in CategoryIds,
             position' = [position EXCEPT ![i] = [name |-> edit[p].name, category |-> c]]
      PROVE  CatalogueInv'
  <2>1. PICK x : x = [name |-> edit[p].name, category |-> c]
    OBVIOUS
  <2>2. x \in PositionRecords /\ x.name = edit[p].name /\ x # NoPosition
    BY <1>3, <2>1, CatalogueFacts DEF PositionRecords, AnyName
  <2>3. i \in Ids /\ i \notin Live /\ \A h \in history : h.id # i
    BY DEF FreshIds
  <2>4. position \in [Ids -> {NoPosition} \cup PositionRecords]
    BY <1>2 DEF GoodsTypes
  <2>5. position' = [position EXCEPT ![i] = x]
    BY <1>6, <2>1
  <2>6. position'[i] = x /\ \A j \in Ids \ {i} : position'[j] = position[j]
    BY <2>3, <2>4, <2>5
  <2>7. Live' = Live \cup {i}
    BY <2>2, <2>3, <2>6 DEF Live
  <2>8. GoodsTypes'
    BY <1>1, <1>2, <1>4, <2>2, <2>3, <2>5 DEF GoodsTypes
  <2>9. NamesUnique'
    <3>1. \A j \in Live : position[j].name # x.name
      BY <1>6, <2>2 DEF WithName
    <3>2. \A j \in Live : j \in Ids /\ j # i /\ position'[j] = position[j]
      BY <2>3, <2>6 DEF Live
    <3>3. QED
      BY <2>6, <2>7, <3>1, <3>2 DEF CatalogueInv, NamesUnique
  <2>10. ASSUME NEW h, Follows(h) PROVE h.id \in Live' /\ h.name = position'[h.id].name
    <3>1. h.id \in Live /\ h.id \in Ids /\ h.id # i
      BY <2>3, <2>10 DEF Follows, Live
    <3>2. QED
      BY <2>6, <2>7, <2>10, <3>1 DEF Follows
  <2>11. HistoryFollowsName'
    <3>1. ASSUME NEW h \in history, h.id \in Live' PROVE Follows(h)
      BY <2>3, <2>7, <3>1 DEF CatalogueInv, HistoryFollowsName, Follows
    <3>2. QED
      BY <1>1, <2>10, <3>1 DEF HistoryFollowsName
  <2>12. buying' # NoBuy => Follows(buying)'
    BY <1>1, <2>10 DEF CatalogueInv, Follows
  <2>13. inOrders' \subseteq Live'
    BY <1>1, <2>7 DEF CatalogueInv
  <2>14. QED
    BY <2>8, <2>9, <2>11, <2>12, <2>13 DEF CatalogueInv
<1>7. QED
  <2>1. \A n : CategoryOf(n) \subseteq CategoryIds
    BY DEF CategoryOf
  <2>2. QED
    BY <1>1, <1>5, <1>6, <2>1 DEF CreateItem

\* The rename reaches exactly the rows of the position renamed.
LEMMA RenameFollows ==
    ASSUME CatalogueInv, NEW p \in Editors, NEW d \in EditRecords, UpdateItem(p, d),
           UNCHANGED <<category, buying, inOrders>>, edit' \in [Editors -> {NoEdit} \cup EditRecords]
    PROVE  CatalogueInv'
<1>1. GoodsTypes /\ category' \in [CategoryIds -> CategoryNames \cup {NoName}]
  BY DEF CatalogueInv, GoodsTypes
<1>2. CASE UpdateRefused(d)
  <2>1. UNCHANGED <<position, history>>
    BY <1>2 DEF UpdateItem
  <2>2. QED
    BY <1>1, <2>1, CatalogueQuiet
<1>3. CASE ~UpdateRefused(d)
  <2>1. PICK i \in WithName(d.name), c \in CategoryOf(d.category) :
          ~Held(i) /\ position' = [position EXCEPT ![i] = [name |-> d.to, category |-> c]]
    BY <1>3 DEF UpdateItem
  <2>2. PICK old, new : old = d.name /\ new = d.to
    OBVIOUS
  <2>3. old \in AnyName /\ new \in AnyName /\ (new # old => \A j \in Live : position[j].name # new)
    BY <1>3, <2>2 DEF EditRecords, UpdateRefused, WithName
  <2>4. i \in Live /\ i \in Ids /\ position[i].name = old /\ c \in CategoryIds
    BY <2>1, <2>2 DEF WithName, Live, CategoryOf
  <2>5. PICK x : x = [name |-> new, category |-> c]
    OBVIOUS
  <2>6. x \in PositionRecords /\ x.name = new /\ x # NoPosition
    BY <2>3, <2>4, <2>5, CatalogueFacts DEF PositionRecords, AnyName
  <2>7. position' = [position EXCEPT ![i] = x]
    BY <2>1, <2>2, <2>5
  <2>8. position'[i] = x /\ \A j \in Ids \ {i} : position'[j] = position[j]
    BY <1>1, <2>4, <2>7 DEF GoodsTypes
  <2>9. Live' = Live
    BY <2>4, <2>6, <2>8 DEF Live
  <2>10. history' = {IF h.name = old THEN [h EXCEPT !.name = new] ELSE h : h \in history}
    BY <1>3, <2>2 DEF UpdateItem, HistoryRenamed
  <2>11. NamesUnique
    BY DEF CatalogueInv
  <2>12. \A h \in history : /\ h \in [id : Ids, name : AnyName]
                            /\ h.id \in Live => h.name = position[h.id].name
    BY <1>1 DEF GoodsTypes, CatalogueInv, HistoryFollowsName
  <2>13. ASSUME NEW g \in history'
         PROVE  g \in [id : Ids, name : AnyName] /\ (g.id \in Live => g.name = position'[g.id].name)
    <3>1. PICK h \in history : g = IF h.name = old THEN [h EXCEPT !.name = new] ELSE h
      BY <2>10, <2>13
    <3>2. h \in [id : Ids, name : AnyName] /\ (h.id \in Live => h.name = position[h.id].name)
      BY <2>12
    <3>3. CASE h.name = old
      <4>1. g = [h EXCEPT !.name = new]
        BY <3>1, <3>3
      <4>2. g \in [id : Ids, name : AnyName] /\ g.id = h.id /\ g.name = new
        BY <2>3, <3>2, <4>1
      <4>3. h.id \in Live => h.id = i
        BY <2>4, <2>11, <3>2, <3>3 DEF NamesUnique
      <4>4. QED
        BY <2>6, <2>8, <3>2, <4>2, <4>3
    <3>4. CASE h.name # old
      <4>1. g = h /\ h.id # i /\ h.id \in Ids
        BY <2>4, <3>1, <3>2, <3>4
      <4>2. QED
        BY <2>8, <3>2, <4>1
    <3>5. QED
      BY <3>3, <3>4
  <2>14. GoodsTypes'
    <3>1. history' \subseteq [id : Ids, name : AnyName]
      BY <2>13
    <3>2. position' \in [Ids -> {NoPosition} \cup PositionRecords]
      BY <1>1, <2>4, <2>6, <2>7 DEF GoodsTypes
    <3>3. QED
      BY <1>1, <3>1, <3>2 DEF GoodsTypes
  <2>15. NamesUnique'
    <3>1. \A j \in Live \ {i} : position'[j] = position[j] /\ position[j].name # new
      <4>1. \A j \in Live : j \in Ids
        BY DEF Live
      <4>2. \A j \in Live \ {i} : position[j].name # old
        BY <2>4, <2>11 DEF NamesUnique
      <4>3. QED
        BY <2>3, <2>8, <4>1, <4>2
    <3>2. QED
      BY <2>6, <2>8, <2>9, <2>11, <3>1 DEF NamesUnique
  <2>16. HistoryFollowsName'
    BY <2>9, <2>13 DEF HistoryFollowsName
  <2>17. buying' # NoBuy => Follows(buying)'
    <3>1. buying # NoBuy => buying.id # i
      BY <2>1 DEF Held
    <3>2. buying # NoBuy => buying.id \in Live /\ buying.id \in Ids
                            /\ buying.name = position[buying.id].name
      BY DEF CatalogueInv, Follows, Live
    <3>3. QED
      BY <2>8, <2>9, <3>1, <3>2 DEF Follows
  <2>18. QED
    BY <2>9, <2>14, <2>15, <2>16, <2>17 DEF CatalogueInv
<1>4. QED
  BY <1>2, <1>3

\* Only positions without an order and without a purchase under way are deleted.
LEMMA DeletingKeeps ==
    ASSUME CatalogueInv, NEW p \in Editors, NEW is \in SUBSET Live, DeletePositions(p, is),
           UNCHANGED <<history, buying, inOrders>>,
           category' \in [CategoryIds -> CategoryNames \cup {NoName}],
           edit' \in [Editors -> {NoEdit} \cup EditRecords]
    PROVE  CatalogueInv'
<1>1. /\ is \cap inOrders = {} /\ \A i \in is : ~Held(i)
      /\ position' = [i \in Ids |-> IF i \in is THEN NoPosition ELSE position[i]]
  BY DEF DeletePositions
<1>2. Live' = Live \ is /\ \A i \in Live' : position'[i] = position[i]
  BY <1>1 DEF Live
<1>3. GoodsTypes'
  BY <1>1 DEF CatalogueInv, GoodsTypes
<1>4. NamesUnique'
  BY <1>2 DEF CatalogueInv, NamesUnique
<1>5. HistoryFollowsName'
  BY <1>1, <1>2 DEF CatalogueInv, HistoryFollowsName
<1>6. buying' # NoBuy => Follows(buying)'
  BY <1>1, <1>2 DEF CatalogueInv, Follows, Held
<1>7. inOrders' \subseteq Live'
  BY <1>1, <1>2 DEF CatalogueInv
<1>8. QED
  BY <1>3, <1>4, <1>5, <1>6, <1>7 DEF CatalogueInv

LEMMA EditingSteps ==
    ASSUME CatalogueInv, NEW p \in Editors, NEW k, KeepStock(p) \/ FinishUpdate(p, k)
    PROVE  CatalogueInv'
<1>1. UNCHANGED <<category, buying, inOrders>> /\ UpdateItem(p, edit[p]) /\ Goto(p, NoEdit)
  BY DEF KeepStock, FinishUpdate, buyVars
<1>2. GoodsTypes
  BY DEF CatalogueInv
<1>3. edit[p] \in EditRecords
  BY <1>2, EditForm DEF KeepStock, FinishUpdate
<1>4. edit' \in [Editors -> {NoEdit} \cup EditRecords]
  BY <1>1, <1>2, GotoTypes
<1>5. QED
  BY <1>1, <1>3, <1>4, RenameFollows

LEMMA DeletingSteps ==
    ASSUME CatalogueInv, NEW p \in Editors, NEW n, DeleteItem(p, n) \/ DeleteCategory(p, n)
    PROVE  CatalogueInv'
<1>1. GoodsTypes /\ category \in [CategoryIds -> CategoryNames \cup {NoName}]
  BY DEF CatalogueInv, GoodsTypes
<1>2. UNCHANGED <<history, buying, inOrders>> /\ Goto(p, NoEdit)
  BY DEF DeleteItem, DeleteCategory, buyVars
<1>3. edit' \in [Editors -> {NoEdit} \cup EditRecords]
  BY <1>1, <1>2, GotoTypes
<1>4. category' \in [CategoryIds -> CategoryNames \cup {NoName}]
  BY <1>1 DEF DeleteItem, DeleteCategory
<1>5. CASE DeleteItem(p, n)
  <2>1. WithName(n) \in SUBSET Live /\ DeletePositions(p, WithName(n))
    BY <1>5 DEF DeleteItem, WithName
  <2>2. QED
    BY <1>2, <1>3, <1>4, <2>1, DeletingKeeps
<1>6. CASE DeleteCategory(p, n)
  <2>1. PICK is \in SUBSET Live : DeletePositions(p, is)
    <3>1. {i \in Live : position[i].category \in CategoryOf(n)} \in SUBSET Live
      OBVIOUS
    <3>2. QED
      BY <1>6, <3>1 DEF DeleteCategory
  <2>2. QED
    BY <1>2, <1>3, <1>4, <2>1, DeletingKeeps
<1>7. QED
  BY <1>5, <1>6

LEMMA BuyingSteps ==
    ASSUME CatalogueInv, (\E i \in Ids : BeginBuy(i)) \/ (\E last, cart \in BOOLEAN : EndBuy(last, cart))
    PROVE  CatalogueInv'
<1>1. GoodsTypes /\ UNCHANGED <<category, position, edit>>
  BY DEF CatalogueInv, BeginBuy, EndBuy, goodsVars
<1>2. Live' = Live /\ NamesUnique'
  BY <1>1 DEF CatalogueInv, NamesUnique, Live
<1>3. ASSUME NEW i \in Ids, BeginBuy(i) PROVE CatalogueInv'
  <2>1. i \in Live /\ buying' = [id |-> i, name |-> position[i].name] /\ history' = history
        /\ inOrders' = inOrders
    BY <1>3 DEF BeginBuy, goodsVars
  <2>2. position[i].name \in AnyName
    BY <1>1, <2>1, LiveHas
  <2>3. buying' \in [id : Ids, name : AnyName]
    BY <2>1, <2>2
  <2>4. GoodsTypes'
    BY <1>1, <2>1, <2>3 DEF GoodsTypes
  <2>5. HistoryFollowsName'
    BY <1>1, <1>2, <2>1 DEF CatalogueInv, HistoryFollowsName
  <2>6. Follows(buying)'
    BY <1>1, <1>2, <2>1 DEF Follows
  <2>7. QED
    BY <1>2, <2>1, <2>4, <2>5, <2>6 DEF CatalogueInv
<1>4. ASSUME NEW last \in BOOLEAN, NEW cart \in BOOLEAN, EndBuy(last, cart) PROVE CatalogueInv'
  <2>1. buying # NoBuy /\ history' = history \cup {buying} /\ buying' = NoBuy
    BY <1>4 DEF EndBuy
  <2>2. Follows(buying) /\ buying \in [id : Ids, name : AnyName]
    BY <1>1, <2>1 DEF CatalogueInv, GoodsTypes
  <2>3. GoodsTypes'
    BY <1>1, <2>1, <2>2 DEF GoodsTypes
  <2>4. HistoryFollowsName'
    BY <1>1, <1>2, <2>1, <2>2 DEF CatalogueInv, HistoryFollowsName, Follows
  <2>5. inOrders' \subseteq Live'
    BY <1>2, <1>4, <2>2 DEF CatalogueInv, EndBuy, Follows
  <2>6. QED
    BY <1>2, <2>1, <2>3, <2>4, <2>5 DEF CatalogueInv
<1>5. QED
  BY <1>3, <1>4

LEMMA CatalogueStart == ASSUME CatalogueInit PROVE CatalogueInv
<1>1. PICK n, k, i, c :
        /\ n = (CHOOSE x \in PositionNames : TRUE) /\ k = (CHOOSE x \in CategoryIds : TRUE)
        /\ i = (CHOOSE x \in Ids : TRUE) /\ c = (CHOOSE x \in CategoryNames : TRUE)
  OBVIOUS
<1>2. n \in PositionNames /\ k \in CategoryIds /\ i \in Ids /\ c \in CategoryNames
  BY <1>1, CatalogueFacts
<1>3. /\ category = [x \in CategoryIds |-> IF x = k THEN c ELSE NoName]
      /\ position = [x \in Ids |-> IF x = i THEN [name |-> n, category |-> k] ELSE NoPosition]
  BY <1>1 DEF CatalogueInit
<1>4. edit = [p \in Editors |-> NoEdit] /\ buying = NoBuy /\ history = {} /\ inOrders = {}
  BY DEF CatalogueInit
<1>5. [name |-> n, category |-> k] \in PositionRecords
  BY <1>2 DEF PositionRecords, AnyName
<1>6. GoodsTypes
  BY <1>2, <1>3, <1>4, <1>5 DEF GoodsTypes
<1>7. Live \subseteq {i}
  BY <1>3 DEF Live
<1>8. QED
  BY <1>4, <1>6, <1>7 DEF CatalogueInv, NamesUnique, HistoryFollowsName

LEMMA CatalogueAlways == CatalogueSpec => []CatalogueInv
<1>1. CatalogueInit => CatalogueInv
  BY CatalogueStart
<1>2. CatalogueInv /\ [CatalogueNext]_catalogueVars => CatalogueInv'
  <2>1. SUFFICES ASSUME CatalogueInv, [CatalogueNext]_catalogueVars PROVE CatalogueInv'
    OBVIOUS
  <2>2. CASE UNCHANGED catalogueVars
    <3>1. UNCHANGED <<category, position, edit, history, buying, inOrders>>
      BY <2>2 DEF catalogueVars
    <3>2. QED
      BY <2>1, <3>1, CatalogueQuiet DEF CatalogueInv, GoodsTypes
  <2>3. ASSUME NEW p \in Editors, NEW n \in PositionNames,
               \/ AddName(p, n) \/ AmountName(p, n) \/ OldName(p, n) \/ NewName(p, n)
               \/ DeleteItem(p, n)
        PROVE  CatalogueInv'
    BY <2>1, <2>3, NamingSteps, DeletingSteps
  <2>4. ASSUME NEW p \in Editors, NEW c \in CategoryNames,
               \/ AddCategory(p, c) \/ CreateCategory(p, c) \/ DeleteCategory(p, c)
               \/ OldCategory(p, c) \/ RenameCategory(p, c)
        PROVE  CatalogueInv'
    BY <2>1, <2>4, CategorySteps, DeletingSteps
  <2>5. ASSUME NEW p \in Editors, NEW k \in {"unit", "endless"},
               \/ FinishAdd(p, k) \/ StockAdded(p, k) \/ FinishUpdate(p, k)
               \/ \E i \in Live : DeleteUnit(p, i, k)
        PROVE  CatalogueInv'
    BY <2>1, <2>5, AddingSteps, StockSteps, EditingSteps
  <2>6. ASSUME NEW p \in Editors, KeepStock(p) \/ FinishAmount(p)
        PROVE  CatalogueInv'
    BY <2>1, <2>6, StockSteps, EditingSteps
  <2>7. QED
    BY <2>1, <2>2, <2>3, <2>4, <2>5, <2>6, DialogSteps, BuyingSteps DEF CatalogueNext
<1>3. QED
  BY <1>1, <1>2, PTL DEF CatalogueSpec

\* The sales of a position that exists show the name it has now, however single
\* purchases and cart checkouts cross the renames and deletions of any number of
\* editors, whose dialogs keep the name they read, and whoever had the name
\* before: the row lock of the purchase, the unique name and the rename by name
\* in update_item are all needed for it.
THEOREM HistoryAlwaysFollows == CatalogueSpec => []HistoryFollowsName
BY CatalogueAlways, PTL DEF CatalogueInv

\* Dialogs by what they have asked for: a new position's name, the name of a
\* position, its category, its new name.
NewNameStates == {"add description", "add price", "add category", "add infinity",
                  "add values", "add single"}
CreatedStates == {"add units", "add endless"}
RenamingStates == {"new description", "new price", "make infinity", "deny infinity",
                   "single value", "multiple values"}
NamedStates == NewNameStates \cup CreatedStates \cup RenamingStates \cup {"amount values", "new name"}
PlacedStates == {"add infinity", "add values", "add single", "add units", "add endless",
                 "new name", "category new"} \cup RenamingStates

\* What a dialog has been told so far.
Filled(d) ==
    /\ d.at \in NamedStates => d.name \in PositionNames
    /\ d.at \in PlacedStates => d.category \in CategoryNames
    /\ d.at \in RenamingStates => d.to \in PositionNames

\* What the editor of a dialog was told is still true of the position: the name
\* is free, the position just made is empty, or it takes units.
Informed(d) ==
    /\ d.at \in NewNameStates => WithName(d.name) = {}
    /\ d.at \in CreatedStates => \A i \in WithName(d.name) : stock[i] = {}
    /\ d.at = "amount values" => ~Endless(d.name)

DialogsInformed ==
    /\ outdated \subseteq Editors
    /\ \A p \in Editors : edit[p] # NoEdit => Filled(edit[p])
    /\ \A p \in Editors \ outdated : edit[p] # NoEdit => Informed(edit[p])

GoodsFormed ==
    /\ stock \in [Ids -> SUBSET {"unit", "endless"}] /\ crossed \subseteq Ids
    /\ \A i \in Ids \ Live : stock[i] = {}
    /\ \A i \in Live : position[i].name \in PositionNames /\ category[position[i].category] # NoName
    /\ \A i \in Ids \ crossed : stock[i] # {"unit", "endless"}

\* A step after which no more positions have the name and no stock is added.
NoMore(n) == WithName(n)' \subseteq WithName(n) /\ \A i \in WithName(n)' : stock'[i] \subseteq stock[i]

LEMMA InformedStays == ASSUME NEW d, Informed(d), NoMore(d.name) PROVE Informed(d)'
BY DEF Informed, Endless, NoMore

\* One editor's step: the dialogs of the others that are not outdated by it see
\* no more positions of their name, and no more stock, than before.
LEMMA OneDialog ==
    ASSUME DialogsInformed, GoodsTypes, NEW p \in Editors, NEW d, Goto(p, d),
           d # NoEdit => Filled(d) /\ (p \notin outdated' => Informed(d)'),
           outdated' \subseteq Editors, outdated \ {p} \subseteq outdated',
           \A n : \A q \in Editors \ {p} : q \notin outdated' /\ edit[q] # NoEdit /\ edit[q].name = n => NoMore(n)
    PROVE  DialogsInformed'
<1>1. edit'[p] = d /\ \A q \in Editors \ {p} : edit'[q] = edit[q]
  BY DEF Goto, GoodsTypes
<1>2. ASSUME NEW q \in Editors, edit'[q] # NoEdit PROVE Filled(edit'[q])
  BY <1>1, <1>2 DEF DialogsInformed
<1>3. ASSUME NEW q \in Editors \ outdated', edit'[q] # NoEdit PROVE Informed(edit[q])'
  <2>1. CASE q = p
    BY <1>1, <1>3, <2>1 DEF Informed
  <2>2. CASE q # p
    <3>1. PICK e : e = edit[q]
      OBVIOUS
    <3>2. edit'[q] = e /\ e # NoEdit
      BY <1>1, <1>3, <2>2, <3>1
    <3>3. Informed(e)
      BY <1>3, <2>2, <3>1, <3>2 DEF DialogsInformed
    <3>4. Informed(e)'
      <4>1. NoMore(e.name)
        BY <1>3, <2>2, <3>1, <3>2
      <4>2. QED
        BY <3>3, <4>1, InformedStays
    <3>5. QED
      BY <3>2, <3>4 DEF Informed
  <2>3. QED
    BY <2>1, <2>2
<1>4. QED
  BY <1>2, <1>3 DEF DialogsInformed, Filled

\* A dialog moves on, and at most the categories change.
LEMMA OnlyAsked ==
    ASSUME DialogsInformed, GoodsFormed, GoodsTypes, NEW p \in Editors, NEW d, Goto(p, d),
           UNCHANGED <<position, stock, crossed>>, outdated' = outdated \/ outdated' = outdated \ {p},
           d # NoEdit => Filled(d) /\ (p \notin outdated' => Informed(d)),
           \A i \in Live : category'[position[i].category] # NoName
    PROVE  DialogsInformed' /\ GoodsFormed'
<1>1. Live' = Live /\ \A n : WithName(n)' = WithName(n)
  BY DEF Live, WithName
<1>2. Informed(d) => Informed(d)'
  BY <1>1 DEF Informed, Endless
<1>3. outdated' \subseteq Editors /\ outdated \ {p} \subseteq outdated'
  BY DEF DialogsInformed
<1>4. DialogsInformed'
  <2>1. d # NoEdit => Filled(d) /\ (p \notin outdated' => Informed(d)')
    BY <1>2
  <2>2. \A n : NoMore(n)
    BY <1>1 DEF NoMore
  <2>3. QED
    BY <1>3, <2>1, <2>2, OneDialog
<1>5. GoodsFormed'
  BY <1>1 DEF GoodsFormed
<1>6. QED
  BY <1>4, <1>5

\* Stock leaves.
LEMMA StockLeaves ==
    ASSUME DialogsInformed, GoodsFormed, UNCHANGED <<position, category, edit, outdated, crossed>>,
           stock' \in [Ids -> SUBSET {"unit", "endless"}], \A i \in Ids : stock'[i] \subseteq stock[i]
    PROVE  DialogsInformed' /\ GoodsFormed'
<1>1. Live' = Live /\ \A n : WithName(n)' = WithName(n)
  BY DEF Live, WithName
<1>2. ASSUME NEW q \in Editors \ outdated', edit'[q] # NoEdit PROVE Informed(edit[q])'
  <2>1. PICK e : e = edit[q]
    OBVIOUS
  <2>2. Informed(e)
    BY <1>2, <2>1 DEF DialogsInformed
  <2>3. Informed(e)'
    <3>1. NoMore(e.name)
      BY <1>1 DEF NoMore, WithName, Live
    <3>2. QED
      BY <2>2, <3>1, InformedStays
  <2>4. QED
    BY <2>1, <2>3 DEF Informed
<1>3. DialogsInformed'
  BY <1>2 DEF DialogsInformed, Filled
<1>4. \A i \in Ids \ crossed' : stock'[i] # {"unit", "endless"}
  <2>1. SUFFICES ASSUME NEW i \in Ids \ crossed, stock'[i] = {"unit", "endless"} PROVE FALSE
    OBVIOUS
  <2>2. stock[i] \subseteq {"unit", "endless"} /\ stock'[i] \subseteq stock[i]
    BY DEF GoodsFormed
  <2>3. stock[i] = {"unit", "endless"}
    BY <2>1, <2>2
  <2>4. QED
    BY <2>1, <2>3 DEF GoodsFormed
<1>5. GoodsFormed'
  BY <1>1, <1>4 DEF GoodsFormed
<1>6. QED
  BY <1>3, <1>5

\* The steps of a dialog that change no position.
LEMMA AskingSteps ==
    ASSUME CatalogueInv, DialogsInformed, GoodsFormed, NEW p \in Editors,
           \/ \E s \in Openers : Open(p, s)
           \/ GoodsManagement(p) \/ Describe(p) \/ CollectValue(p)
           \/ NewPrice(p) \/ ChangeStock(p)
           \/ \E yes \in BOOLEAN : AddInfinity(p, yes)
    PROVE  DialogsInformed' /\ GoodsFormed'
<1>1. UNCHANGED <<category, position, stock, crossed>>
  BY DEF Open, GoodsManagement, Describe, CollectValue, NewPrice, ChangeStock, AddInfinity,
         goodsVars, buyVars, ghostVars
<1>2. GoodsTypes /\ \A i \in Live : category'[position[i].category] # NoName
  BY <1>1 DEF CatalogueInv, GoodsFormed
<1>3. ASSUME NEW d, Goto(p, d), outdated' = outdated \/ outdated' = outdated \ {p},
             d # NoEdit => Filled(d) /\ (p \notin outdated' => Informed(d))
      PROVE  DialogsInformed' /\ GoodsFormed'
  BY <1>1, <1>2, <1>3, OnlyAsked
<1>4. edit[p] # NoEdit => Filled(edit[p]) /\ (p \notin outdated => Informed(edit[p]))
                          /\ edit[p] \in EditRecords
  BY <1>2 DEF DialogsInformed, GoodsTypes
<1>5. ASSUME NEW s \in Openers, Open(p, s) PROVE DialogsInformed' /\ GoodsFormed'
  <2>1. PICK d : d = IF edit[p] = NoEdit THEN [Blank EXCEPT !.at = s] ELSE [edit[p] EXCEPT !.at = s]
    OBVIOUS
  <2>2. d.at = s
    BY <1>4, <2>1 DEF Blank, EditRecords
  <2>3. Filled(d) /\ Informed(d)
    BY <2>2 DEF Openers, Filled, Informed, NamedStates, PlacedStates, RenamingStates,
                NewNameStates, CreatedStates
  <2>4. Goto(p, d) /\ outdated' = outdated \ {p}
    BY <1>5, <2>1 DEF Open
  <2>5. QED
    BY <1>3, <2>3, <2>4
<1>6. CASE GoodsManagement(p)
  BY <1>3, <1>6 DEF GoodsManagement, Leave
<1>7. ASSUME NEW s, NEW t, At(p, s), Ask(p, t), outdated' = outdated,
             \/ <<s, t>> \in {<<"add description", "add price">>, <<"add price", "add category">>,
                              <<"new description", "new price">>, <<"add infinity", "add single">>,
                              <<"add infinity", "add values">>, <<"new price", "deny infinity">>,
                              <<"new price", "make infinity">>, <<"make infinity", "single value">>,
                              <<"deny infinity", "multiple values">>}
      PROVE  DialogsInformed' /\ GoodsFormed'
  <2>1. PICK e : e = edit[p]
    OBVIOUS
  <2>2. e \in EditRecords /\ Filled(e) /\ (p \notin outdated => Informed(e)) /\ e.at = s
    BY <1>4, <1>7, <2>1 DEF At
  <2>3. PICK d : d = [e EXCEPT !.at = t]
    OBVIOUS
  <2>4. d.at = t /\ d.name = e.name /\ d.to = e.to /\ d.category = e.category
    BY <2>2, <2>3 DEF EditRecords
  <2>5. /\ t \in NamedStates /\ s \in NamedStates /\ (t \in PlacedStates => s \in PlacedStates)
        /\ (t \in RenamingStates => s \in RenamingStates) /\ (t \in NewNameStates => s \in NewNameStates)
        /\ t \notin CreatedStates /\ t # "amount values"
    BY <1>7 DEF NamedStates, PlacedStates, RenamingStates, NewNameStates, CreatedStates
  <2>6. Filled(d)
    BY <2>2, <2>4, <2>5 DEF Filled
  <2>7. Informed(e) => Informed(d)
    BY <2>2, <2>4, <2>5 DEF Informed
  <2>8. Goto(p, d)
    BY <1>7, <2>1, <2>3 DEF Ask
  <2>9. QED
    BY <1>3, <1>7, <2>2, <2>6, <2>7, <2>8
<1>8. CASE Describe(p)
  BY <1>7, <1>8 DEF Describe, ghostVars
<1>9. CASE CollectValue(p)
  <2>1. PICK e : e = edit[p]
    OBVIOUS
  <2>2. e \in EditRecords /\ Filled(e) /\ (p \notin outdated => Informed(e))
    BY <1>4, <1>9, <2>1 DEF CollectValue, At
  <2>3. PICK d : d = [e EXCEPT !.values = TRUE]
    OBVIOUS
  <2>4. d.at = e.at /\ d.name = e.name /\ d.to = e.to /\ d.category = e.category
    BY <2>2, <2>3 DEF EditRecords
  <2>5. Filled(d) /\ (Informed(e) => Informed(d))
    BY <2>2, <2>4 DEF Filled, Informed
  <2>6. Goto(p, d) /\ outdated' = outdated
    BY <1>9, <2>1, <2>3 DEF CollectValue, ghostVars
  <2>7. QED
    BY <1>3, <2>2, <2>5, <2>6
<1>10. CASE NewPrice(p)
  BY <1>7, <1>10 DEF NewPrice, ghostVars
<1>11. CASE ChangeStock(p)
  BY <1>7, <1>11 DEF ChangeStock, ghostVars
<1>12. ASSUME NEW yes \in BOOLEAN, AddInfinity(p, yes) PROVE DialogsInformed' /\ GoodsFormed'
  <2>1. /\ At(p, "add infinity") /\ outdated' = outdated
        /\ Ask(p, "add single") \/ Ask(p, "add values")
    BY <1>12 DEF AddInfinity, ghostVars
  <2>2. QED
    BY <1>7, <2>1
<1>13. QED
  BY <1>5, <1>6, <1>8, <1>9, <1>10, <1>11, <1>12

\* The steps that give a dialog a name or a category, or rename one.
LEMMA TellingSteps ==
    ASSUME CatalogueInv, DialogsInformed, GoodsFormed, NEW p \in Editors,
           \/ \E n \in PositionNames : AddName(p, n) \/ AmountName(p, n) \/ OldName(p, n) \/ NewName(p, n)
           \/ \E c \in CategoryNames : \/ AddCategory(p, c) \/ CreateCategory(p, c)
                                       \/ OldCategory(p, c) \/ RenameCategory(p, c)
    PROVE  DialogsInformed' /\ GoodsFormed'
<1>1. UNCHANGED <<position, stock, crossed>>
  BY DEF AddName, AmountName, OldName, NewName, AddCategory, CreateCategory, OldCategory,
         RenameCategory, goodsVars, ghostVars
<1>2. GoodsTypes
  BY DEF CatalogueInv
<1>3. ASSUME NEW d, Goto(p, d), outdated' = outdated \/ outdated' = outdated \ {p},
             d # NoEdit => Filled(d) /\ (p \notin outdated' => Informed(d)),
             \A i \in Live : category'[position[i].category] # NoName
      PROVE  DialogsInformed' /\ GoodsFormed'
  BY <1>1, <1>2, <1>3, OnlyAsked
<1>4. category' = category => \A i \in Live : category'[position[i].category] # NoName
  BY DEF GoodsFormed
<1>5. PICK e : e = edit[p]
  OBVIOUS
<1>6. e # NoEdit => e \in EditRecords /\ Filled(e) /\ (p \notin outdated => Informed(e))
  BY <1>2, <1>5 DEF DialogsInformed, GoodsTypes
<1>7. ASSUME NEW n \in PositionNames, AddName(p, n) PROVE DialogsInformed' /\ GoodsFormed'
  <2>1. PICK d : d = [e EXCEPT !.at = "add description", !.name = n]
    OBVIOUS
  <2>2. d.at = "add description" /\ d.name = n
    BY <1>5, <1>6, <1>7, <2>1 DEF AddName, At, EditRecords
  <2>3. Filled(d) /\ Informed(d)
    BY <1>7, <2>2 DEF AddName, Filled, Informed, NamedStates, PlacedStates, RenamingStates,
                      NewNameStates, CreatedStates
  <2>4. Goto(p, d) /\ outdated' = outdated \ {p} /\ category' = category
    BY <1>5, <1>7, <2>1 DEF AddName, Checked, goodsVars
  <2>5. QED
    BY <1>3, <1>4, <2>3, <2>4
<1>8. ASSUME NEW n \in PositionNames, AmountName(p, n) PROVE DialogsInformed' /\ GoodsFormed'
  <2>1. PICK d : d = [e EXCEPT !.at = "amount values", !.name = n]
    OBVIOUS
  <2>2. d.at = "amount values" /\ d.name = n
    BY <1>5, <1>6, <1>8, <2>1 DEF AmountName, At, EditRecords
  <2>3. Filled(d) /\ Informed(d)
    BY <1>8, <2>2 DEF AmountName, Filled, Informed, NamedStates, PlacedStates, RenamingStates,
                      NewNameStates, CreatedStates
  <2>4. Goto(p, d) /\ outdated' = outdated \ {p} /\ category' = category
    BY <1>5, <1>8, <2>1 DEF AmountName, Checked, goodsVars
  <2>5. QED
    BY <1>3, <1>4, <2>3, <2>4
<1>9. ASSUME NEW n \in PositionNames, OldName(p, n) PROVE DialogsInformed' /\ GoodsFormed'
  <2>1. PICK i \in WithName(n) : Checked(p, [edit[p] EXCEPT !.at = "new name", !.name = n,
                                     !.category = category[position[i].category]])
    BY <1>9 DEF OldName
  <2>2. PICK c : c = category[position[i].category]
    OBVIOUS
  <2>3. c \in CategoryNames
    <3>1. i \in Live
      BY DEF WithName
    <3>2. position[i].category \in CategoryIds
      BY <1>2, <3>1, LiveHas DEF PositionRecords
    <3>3. QED
      BY <1>2, <2>2, <3>1, <3>2 DEF GoodsTypes, GoodsFormed
  <2>4. PICK d : d = [e EXCEPT !.at = "new name", !.name = n, !.category = c]
    OBVIOUS
  <2>5. d.at = "new name" /\ d.name = n /\ d.category = c
    BY <1>5, <1>6, <1>9, <2>4 DEF OldName, At, EditRecords
  <2>6. Filled(d) /\ Informed(d)
    BY <2>3, <2>5 DEF Filled, Informed, NamedStates, PlacedStates, RenamingStates,
                      NewNameStates, CreatedStates
  <2>7. Goto(p, d) /\ outdated' = outdated \ {p} /\ category' = category
    BY <1>5, <1>9, <2>1, <2>2, <2>4 DEF OldName, Checked, goodsVars
  <2>8. QED
    BY <1>3, <1>4, <2>6, <2>7
<1>10. ASSUME NEW n \in PositionNames, NewName(p, n) PROVE DialogsInformed' /\ GoodsFormed'
  <2>1. PICK d : d = [e EXCEPT !.at = "new description", !.to = n]
    OBVIOUS
  <2>2. e \in EditRecords /\ Filled(e) /\ e.at = "new name"
    BY <1>5, <1>6, <1>10 DEF NewName, At
  <2>3. d.at = "new description" /\ d.name = e.name /\ d.to = n /\ d.category = e.category
    BY <2>1, <2>2 DEF EditRecords
  <2>4. e.name \in PositionNames /\ e.category \in CategoryNames
    BY <2>2 DEF Filled, NamedStates, PlacedStates
  <2>5. Filled(d) /\ Informed(d)
    BY <2>3, <2>4 DEF Filled, Informed, NamedStates, PlacedStates, RenamingStates,
                      NewNameStates, CreatedStates
  <2>6. Goto(p, d) /\ outdated' = outdated /\ category' = category
    BY <1>5, <1>10, <2>1 DEF NewName, goodsVars, ghostVars
  <2>7. QED
    BY <1>3, <1>4, <2>5, <2>6
<1>11. ASSUME NEW c \in CategoryNames, AddCategory(p, c) PROVE DialogsInformed' /\ GoodsFormed'
  <2>1. PICK d : d = [e EXCEPT !.at = "add infinity", !.category = c]
    OBVIOUS
  <2>2. e \in EditRecords /\ Filled(e) /\ e.at = "add category" /\ (p \notin outdated => Informed(e))
    BY <1>5, <1>6, <1>11 DEF AddCategory, At
  <2>3. d.at = "add infinity" /\ d.name = e.name /\ d.category = c
    BY <2>1, <2>2 DEF EditRecords
  <2>4. e.name \in PositionNames /\ (Informed(e) => WithName(e.name) = {})
    BY <2>2 DEF Filled, NamedStates, NewNameStates, Informed
  <2>5. Filled(d) /\ (Informed(e) => Informed(d))
    BY <2>3, <2>4 DEF Filled, Informed, NamedStates, PlacedStates, RenamingStates,
                      NewNameStates, CreatedStates
  <2>6. Goto(p, d) /\ outdated' = outdated /\ category' = category
    BY <1>5, <1>11, <2>1 DEF AddCategory, goodsVars, ghostVars
  <2>7. QED
    BY <1>3, <1>4, <2>2, <2>5, <2>6
<1>12. ASSUME NEW c \in CategoryNames, CreateCategory(p, c) PROVE DialogsInformed' /\ GoodsFormed'
  <2>1. Goto(p, NoEdit) /\ outdated' = outdated \ {p}
    BY <1>12 DEF CreateCategory, Leave
  <2>2. \A k \in CategoryIds : category[k] # NoName => category'[k] # NoName
    BY <1>2, <1>12, CatalogueFacts DEF CreateCategory, GoodsTypes
  <2>3. \A i \in Live : category'[position[i].category] # NoName
    BY <1>2, <2>2, LiveHas DEF GoodsFormed, PositionRecords
  <2>4. QED
    BY <1>3, <2>1, <2>3
<1>13. ASSUME NEW c \in CategoryNames, OldCategory(p, c) PROVE DialogsInformed' /\ GoodsFormed'
  <2>1. category' = category
    BY <1>13 DEF OldCategory, goodsVars
  <2>2. CASE Leave(p)
    BY <1>3, <1>4, <2>1, <2>2 DEF Leave
  <2>3. CASE ~Leave(p)
    <3>1. PICK d : d = [e EXCEPT !.at = "category new", !.category = c]
      OBVIOUS
    <3>2. d.at = "category new" /\ d.category = c
      BY <1>5, <1>6, <1>13, <3>1 DEF OldCategory, At, EditRecords
    <3>3. Filled(d) /\ Informed(d)
      BY <3>2 DEF Filled, Informed, NamedStates, PlacedStates, RenamingStates,
                  NewNameStates, CreatedStates
    <3>4. Goto(p, d) /\ outdated' = outdated
      BY <1>5, <1>13, <2>3, <3>1 DEF OldCategory
    <3>5. QED
      BY <1>3, <1>4, <2>1, <3>3, <3>4
  <2>4. QED
    BY <2>2, <2>3
<1>14. ASSUME NEW c \in CategoryNames, RenameCategory(p, c) PROVE DialogsInformed' /\ GoodsFormed'
  <2>1. Goto(p, NoEdit) /\ outdated' = outdated \ {p}
    BY <1>14 DEF RenameCategory, Leave
  <2>2. \A k \in CategoryIds : category[k] # NoName => category'[k] # NoName
    BY <1>2, <1>14, CatalogueFacts DEF RenameCategory, GoodsTypes
  <2>3. \A i \in Live : category'[position[i].category] # NoName
    BY <1>2, <2>2, LiveHas DEF GoodsFormed, PositionRecords
  <2>4. QED
    BY <1>3, <2>1, <2>3
<1>15. QED
  BY <1>7, <1>8, <1>9, <1>10, <1>11, <1>12, <1>13, <1>14

\* A position is made by one dialog: its name was free, and its id has no stock.
LEMMA MakingStep ==
    ASSUME CatalogueInv, DialogsInformed, GoodsFormed, NEW p \in Editors, NEW k \in {"unit", "endless"},
           FinishAdd(p, k)
    PROVE  DialogsInformed' /\ GoodsFormed'
<1>1. PICK e : e = edit[p]
  OBVIOUS
<1>2. /\ e # NoEdit /\ (e.at = "add values" \/ e.at = "add single")
      /\ CreateItem(e.name, e.category)
      /\ UNCHANGED <<category, stock, history, crossed>>
  BY <1>1 DEF FinishAdd, At
<1>3. PICK d : d = [e EXCEPT !.at = IF k = "unit" THEN "add units" ELSE "add endless"]
  OBVIOUS
<1>4. Goto(p, d)
  BY <1>1, <1>3 DEF FinishAdd, Ask
<1>5. GoodsTypes /\ e \in EditRecords /\ Filled(e) /\ (p \notin outdated => Informed(e))
  BY <1>1, <1>2 DEF CatalogueInv, GoodsTypes, DialogsInformed
<1>6. e.name \in PositionNames /\ e.category \in CategoryNames
  BY <1>2, <1>5 DEF Filled, NamedStates, PlacedStates, NewNameStates
<1>7. d.at \in CreatedStates /\ d.name = e.name /\ d.category = e.category
  BY <1>3, <1>5 DEF CreatedStates, EditRecords
<1>8. d.at \notin NewNameStates /\ d.at \notin RenamingStates /\ d.at # "amount values"
  BY <1>7 DEF CreatedStates, NewNameStates, RenamingStates
<1>9. Filled(d)
  BY <1>6, <1>7, <1>8 DEF Filled
<1>10. p \notin outdated => WithName(e.name) = {}
  BY <1>2, <1>5 DEF Informed, NewNameStates
<1>11. CASE position' = position
  <2>1. outdated' = outdated
    BY <1>11 DEF FinishAdd
  <2>2. p \notin outdated => Informed(d)
    BY <1>7, <1>8, <1>10 DEF Informed
  <2>3. \A i \in Live : category'[position[i].category] # NoName
    BY <1>2 DEF GoodsFormed
  <2>4. QED
    BY <1>2, <1>4, <1>5, <1>9, <1>11, <2>1, <2>2, <2>3, OnlyAsked
<1>12. CASE position' # position
  <2>1. PICK i \in FreshIds, c \in CategoryOf(e.category) :
          position' = [position EXCEPT ![i] = [name |-> e.name, category |-> c]]
    BY <1>2, <1>12 DEF CreateItem
  <2>2. i \in Ids \ Live /\ c \in CategoryIds /\ category[c] # NoName
    BY <1>6, <2>1, CatalogueFacts DEF FreshIds, CategoryOf
  <2>3. position'[i] = [name |-> e.name, category |-> c] /\ \A j \in Ids \ {i} : position'[j] = position[j]
    BY <1>5, <2>1, <2>2 DEF GoodsTypes
  <2>4. [name |-> e.name, category |-> c] # NoPosition
    BY <1>6, <2>2, CatalogueFacts
  <2>5. Live' = Live \cup {i}
    BY <2>2, <2>3, <2>4 DEF Live
  <2>6. \A n : n # e.name => WithName(n)' = WithName(n)
    BY <2>2, <2>3, <2>5 DEF WithName, Live
  <2>7. WithName(e.name)' = WithName(e.name) \cup {i}
    BY <2>2, <2>3, <2>5 DEF WithName, Live
  <2>8. outdated' = outdated \cup {q \in Editors \ {p} : edit[q] # NoEdit /\ edit[q].name = e.name}
    BY <1>1, <1>12 DEF FinishAdd
  <2>9. stock[i] = {} /\ stock' = stock
    BY <1>2, <2>2 DEF GoodsFormed
  <2>10. p \notin outdated' => Informed(d)'
    <3>1. p \notin outdated' => WithName(e.name)' = {i}
      BY <1>10, <2>7, <2>8
    <3>2. QED
      BY <1>7, <1>8, <2>9, <3>1 DEF Informed
  <2>11. ASSUME NEW n, NEW q \in Editors \ {p}, q \notin outdated', edit[q] # NoEdit, edit[q].name = n
         PROVE  NoMore(n)
    BY <2>6, <2>8, <2>9, <2>11 DEF NoMore
  <2>12. outdated' \subseteq Editors /\ outdated \ {p} \subseteq outdated'
    BY <2>8 DEF DialogsInformed
  <2>13. DialogsInformed'
    BY <1>4, <1>5, <1>9, <2>10, <2>11, <2>12, OneDialog
  <2>14. \A j \in Live' : position'[j].name \in PositionNames /\ category'[position'[j].category] # NoName
    <3>1. Live \subseteq Ids
      BY DEF Live
    <3>2. \A j \in Live : position'[j] = position[j]
      BY <2>2, <2>3, <3>1
    <3>3. \A j \in Live : position'[j].name \in PositionNames /\ category'[position'[j].category] # NoName
      BY <1>2, <3>2 DEF GoodsFormed
    <3>4. position'[i].name \in PositionNames /\ category'[position'[i].category] # NoName
      <4>1. position'[i].name = e.name /\ position'[i].category = c
        BY <2>3
      <4>2. QED
        BY <1>2, <1>6, <2>2, <4>1
    <3>5. QED
      BY <2>5, <3>3, <3>4
  <2>15. GoodsFormed'
    BY <1>2, <2>5, <2>9, <2>14 DEF GoodsFormed
  <2>16. QED
    BY <2>13, <2>15
<1>13. QED
  BY <1>11, <1>12

\* Values are added to the position that has the name now. An editor who was
\* told the truth adds a kind that it can take.
LEMMA ValuesAdded ==
    ASSUME CatalogueInv, DialogsInformed, GoodsFormed, NEW p \in Editors, NEW k \in {"unit", "endless"},
           NEW n, AddValues(p, n, k), Goto(p, NoEdit), UNCHANGED <<category, position>>,
           p \notin outdated => \A i \in WithName(n) : stock[i] = {} \/ (k = "unit" /\ "endless" \notin stock[i])
    PROVE  DialogsInformed' /\ GoodsFormed'
<1>1. Live' = Live /\ \A m : WithName(m)' = WithName(m)
  BY DEF Live, WithName
<1>2. WithName(n) \subseteq Live /\ Live \subseteq Ids
  BY DEF WithName, Live
<1>3. /\ stock' = [i \in Ids |-> IF i \in WithName(n) THEN stock[i] \cup {k} ELSE stock[i]]
      /\ crossed' = IF p \in outdated THEN crossed \cup WithName(n) ELSE crossed
      /\ outdated' = (outdated \ {p}) \cup {q \in Editors \ {p} : edit[q] # NoEdit /\ edit[q].name \in {n}}
  BY DEF AddValues, Touch
<1>4. ASSUME NEW m, NEW q \in Editors \ {p}, q \notin outdated', edit[q] # NoEdit, edit[q].name = m
      PROVE  NoMore(m)
  <2>1. m # n
    BY <1>3, <1>4
  <2>2. WithName(m) \cap WithName(n) = {} /\ WithName(m) \subseteq Ids
    BY <2>1 DEF WithName, Live
  <2>3. \A i \in WithName(m) : stock'[i] = stock[i]
    BY <1>3, <2>2
  <2>4. QED
    BY <1>1, <2>3 DEF NoMore
<1>5. outdated' \subseteq Editors /\ outdated \ {p} \subseteq outdated'
  BY <1>3 DEF DialogsInformed
<1>6. DialogsInformed'
  BY <1>4, <1>5, OneDialog DEF CatalogueInv
<1>7. stock' \in [Ids -> SUBSET {"unit", "endless"}]
  BY <1>3 DEF GoodsFormed
<1>8. \A i \in Ids \ Live' : stock'[i] = {}
  BY <1>1, <1>2, <1>3 DEF GoodsFormed
<1>9. ASSUME NEW i \in Ids \ crossed' PROVE stock'[i] # {"unit", "endless"}
  <2>1. CASE i \notin WithName(n)
    BY <1>3, <1>9, <2>1 DEF GoodsFormed
  <2>2. CASE i \in WithName(n)
    <3>1. p \notin outdated /\ stock'[i] = stock[i] \cup {k}
      BY <1>3, <1>9, <2>2
    <3>2. stock[i] = {} \/ (k = "unit" /\ "endless" \notin stock[i])
      BY <2>2, <3>1
    <3>3. QED
      BY <3>1, <3>2
  <2>3. QED
    BY <2>1, <2>2
<1>10. GoodsFormed'
  BY <1>1, <1>2, <1>3, <1>7, <1>8, <1>9 DEF GoodsFormed
<1>11. QED
  BY <1>6, <1>10

LEMMA AddingValues ==
    ASSUME CatalogueInv, DialogsInformed, GoodsFormed, NEW p \in Editors,
           FinishAmount(p) \/ \E k \in {"unit", "endless"} : StockAdded(p, k)
    PROVE  DialogsInformed' /\ GoodsFormed'
<1>1. PICK e : e = edit[p]
  OBVIOUS
<1>2. p \notin outdated /\ e # NoEdit => Informed(e)
  BY <1>1 DEF DialogsInformed
<1>3. CASE FinishAmount(p)
  <2>1. /\ e # NoEdit /\ e.at = "amount values" /\ AddValues(p, e.name, "unit")
        /\ Goto(p, NoEdit) /\ UNCHANGED <<category, position>>
    BY <1>1, <1>3 DEF FinishAmount, At
  <2>2. p \notin outdated => \A i \in WithName(e.name) : "endless" \notin stock[i]
    BY <1>2, <2>1 DEF Informed, Endless
  <2>3. QED
    BY <2>1, <2>2, ValuesAdded
<1>4. ASSUME NEW k \in {"unit", "endless"}, StockAdded(p, k) PROVE DialogsInformed' /\ GoodsFormed'
  <2>1. /\ e # NoEdit /\ e.at \in CreatedStates /\ AddValues(p, e.name, k)
        /\ Goto(p, NoEdit) /\ UNCHANGED <<category, position>>
    BY <1>1, <1>4 DEF StockAdded, At, CreatedStates
  <2>2. p \notin outdated => \A i \in WithName(e.name) : stock[i] = {}
    BY <1>2, <2>1 DEF Informed
  <2>3. QED
    BY <2>1, <2>2, ValuesAdded
<1>5. QED
  BY <1>3, <1>4

\* update_item and replace_item_stock_and_meta: everyone else whose dialog is
\* about the old or the new name is outdated.
LEMMA Updated ==
    ASSUME CatalogueInv, DialogsInformed, GoodsFormed, NEW p \in Editors, NEW e, e = edit[p], e # NoEdit,
           e.at \in RenamingStates, UpdateItem(p, e), Goto(p, NoEdit), UNCHANGED <<category, crossed>>,
           stock' = stock \/ \E k \in {"unit", "endless"} : ReplaceStock(e, k)
    PROVE  DialogsInformed' /\ GoodsFormed'
<1>1. GoodsTypes /\ e \in EditRecords /\ Filled(e)
  BY DEF CatalogueInv, GoodsTypes, DialogsInformed
<1>2. e.to \in PositionNames /\ e.category \in CategoryNames
  BY <1>1 DEF Filled, PlacedStates
<1>3. CASE UpdateRefused(e)
  <2>1. position' = position /\ outdated' = outdated \ {p}
    BY <1>3 DEF UpdateItem
  <2>2. stock' = stock
    BY <1>3 DEF ReplaceStock, GoodsFormed
  <2>3. \A i \in Live : category'[position[i].category] # NoName
    BY DEF GoodsFormed
  <2>4. QED
    BY <1>1, <2>1, <2>2, <2>3, OnlyAsked
<1>4. CASE ~UpdateRefused(e)
  <2>1. PICK i \in WithName(e.name), c \in CategoryOf(e.category) :
          position' = [position EXCEPT ![i] = [name |-> e.to, category |-> c]]
    BY <1>4 DEF UpdateItem
  <2>2. outdated' = (outdated \ {p}) \cup
          {q \in Editors \ {p} : edit[q] # NoEdit /\ edit[q].name \in {e.name, e.to}}
    BY <1>4 DEF UpdateItem, Touch
  <2>3. i \in Live /\ i \in Ids /\ position[i].name = e.name /\ c \in CategoryIds /\ category[c] # NoName
    BY <1>2, <2>1, CatalogueFacts DEF WithName, Live, CategoryOf
  <2>4. position'[i] = [name |-> e.to, category |-> c] /\ \A j \in Ids \ {i} : position'[j] = position[j]
    BY <1>1, <2>1, <2>3 DEF GoodsTypes
  <2>5. [name |-> e.to, category |-> c] # NoPosition
    BY <1>2, <2>3, CatalogueFacts
  <2>6. Live' = Live
    BY <2>3, <2>4, <2>5 DEF Live
  <2>7. \A n : n # e.name /\ n # e.to => WithName(n)' = WithName(n)
    BY <2>3, <2>4, <2>6 DEF WithName, Live
  <2>8. \A j \in Ids : stock'[j] = stock[j] \/ (j \in WithName(e.name) /\ stock'[j] \in {{"unit"}, {"endless"}})
    BY DEF ReplaceStock
  <2>9. stock' \in [Ids -> SUBSET {"unit", "endless"}]
    BY DEF ReplaceStock, GoodsFormed
  <2>10. ASSUME NEW n, NEW q \in Editors \ {p}, q \notin outdated', edit[q] # NoEdit, edit[q].name = n
         PROVE  NoMore(n)
    <3>1. n # e.name /\ n # e.to
      BY <2>2, <2>10
    <3>2. WithName(n)' = WithName(n) /\ WithName(n) \cap WithName(e.name) = {} /\ WithName(n) \subseteq Ids
      BY <2>7, <3>1 DEF WithName, Live
    <3>3. QED
      BY <2>8, <3>2 DEF NoMore
  <2>11. outdated' \subseteq Editors /\ outdated \ {p} \subseteq outdated'
    BY <2>2 DEF DialogsInformed
  <2>12. DialogsInformed'
    BY <1>1, <2>10, <2>11, OneDialog
  <2>13. ASSUME NEW j \in Live
         PROVE  position'[j].name \in PositionNames /\ category'[position'[j].category] # NoName
    <3>1. CASE j = i
      BY <1>2, <2>3, <2>4, <3>1
    <3>2. CASE j # i
      <4>1. position'[j] = position[j]
        BY <2>4, <2>13, <3>2 DEF Live
      <4>2. QED
        BY <2>13, <4>1 DEF GoodsFormed
    <3>3. QED
      BY <3>1, <3>2
  <2>14. \A j \in Ids \ Live : stock'[j] = {}
    BY <2>8 DEF GoodsFormed, WithName
  <2>15. \A j \in Ids \ crossed : stock'[j] # {"unit", "endless"}
    <3>1. {"unit"} # {"unit", "endless"} /\ {"endless"} # {"unit", "endless"}
      OBVIOUS
    <3>2. QED
      BY <2>8, <3>1 DEF GoodsFormed
  <2>16. GoodsFormed'
    BY <2>6, <2>9, <2>13, <2>14, <2>15 DEF GoodsFormed
  <2>17. QED
    BY <2>12, <2>16
<1>5. QED
  BY <1>3, <1>4

LEMMA UpdatingSteps ==
    ASSUME CatalogueInv, DialogsInformed, GoodsFormed, NEW p \in Editors,
           KeepStock(p) \/ \E k \in {"unit", "endless"} : FinishUpdate(p, k)
    PROVE  DialogsInformed' /\ GoodsFormed'
<1>1. PICK e : e = edit[p]
  OBVIOUS
<1>2. /\ e # NoEdit /\ e.at \in RenamingStates /\ UpdateItem(p, e) /\ Goto(p, NoEdit)
      /\ UNCHANGED <<category, crossed>>
  BY <1>1 DEF KeepStock, FinishUpdate, At, RenamingStates
<1>3. stock' = stock \/ \E k \in {"unit", "endless"} : ReplaceStock(e, k)
  BY <1>1 DEF KeepStock, FinishUpdate
<1>4. QED
  BY <1>1, <1>2, <1>3, Updated

\* Positions go with their stock.
LEMMA Removed ==
    ASSUME CatalogueInv, DialogsInformed, GoodsFormed, NEW p \in Editors, NEW S, S \subseteq Live,
           DeletePositions(p, S), Goto(p, NoEdit), crossed' = crossed,
           \A i \in Live \ S : category'[position[i].category] # NoName
    PROVE  DialogsInformed' /\ GoodsFormed'
<1>1. /\ position' = [i \in Ids |-> IF i \in S THEN NoPosition ELSE position[i]]
      /\ stock' = [i \in Ids |-> IF i \in S THEN {} ELSE stock[i]]
  BY DEF DeletePositions
<1>2. PICK ns : outdated' = (outdated \ {p}) \cup {q \in Editors \ {p} : edit[q] # NoEdit /\ edit[q].name \in ns}
  BY DEF DeletePositions, Touch
<1>3. Live' = Live \ S
  BY <1>1 DEF Live
<1>4. \A i \in Live \ S : position'[i] = position[i]
  BY <1>1 DEF Live
<1>5. ASSUME NEW n PROVE NoMore(n)
  <2>1. WithName(n)' \subseteq WithName(n)
    BY <1>3, <1>4 DEF WithName
  <2>2. WithName(n)' \subseteq Ids
    BY DEF WithName, Live
  <2>3. QED
    BY <1>1, <2>1, <2>2 DEF NoMore
<1>6. outdated' \subseteq Editors /\ outdated \ {p} \subseteq outdated'
  BY <1>2 DEF DialogsInformed
<1>7. DialogsInformed'
  BY <1>5, <1>6, OneDialog DEF CatalogueInv
<1>8. stock' \in [Ids -> SUBSET {"unit", "endless"}]
  BY <1>1 DEF GoodsFormed
<1>9. \A i \in Ids : stock'[i] = {} \/ (stock'[i] = stock[i] /\ i \notin S)
  BY <1>1
<1>10. \A i \in Ids \ Live' : stock'[i] = {}
  BY <1>3, <1>9 DEF GoodsFormed
<1>11. \A i \in Ids \ crossed : stock'[i] # {"unit", "endless"}
  BY <1>9 DEF GoodsFormed
<1>12. \A i \in Live' : position'[i].name \in PositionNames /\ category'[position'[i].category] # NoName
  BY <1>3, <1>4 DEF GoodsFormed
<1>13. QED
  BY <1>7, <1>8, <1>10, <1>11, <1>12 DEF GoodsFormed

LEMMA RemovingSteps ==
    ASSUME CatalogueInv, DialogsInformed, GoodsFormed, NEW p \in Editors,
           \/ \E n \in PositionNames : DeleteItem(p, n)
           \/ \E c \in CategoryNames : DeleteCategory(p, c)
    PROVE  DialogsInformed' /\ GoodsFormed'
<1>1. ASSUME NEW n \in PositionNames, DeleteItem(p, n) PROVE DialogsInformed' /\ GoodsFormed'
  <2>1. PICK S : S = WithName(n)
    OBVIOUS
  <2>2. S \subseteq Live /\ DeletePositions(p, S) /\ Goto(p, NoEdit) /\ crossed' = crossed /\ category' = category
    BY <1>1, <2>1 DEF DeleteItem, WithName
  <2>3. \A i \in Live \ S : category'[position[i].category] # NoName
    BY <2>2 DEF GoodsFormed
  <2>4. QED
    BY <2>2, <2>3, Removed
<1>2. ASSUME NEW c \in CategoryNames, DeleteCategory(p, c) PROVE DialogsInformed' /\ GoodsFormed'
  <2>1. PICK S : S = {i \in Live : position[i].category \in CategoryOf(c)}
    OBVIOUS
  <2>2. S \subseteq Live /\ DeletePositions(p, S) /\ Goto(p, NoEdit) /\ crossed' = crossed
    BY <1>2, <2>1 DEF DeleteCategory
  <2>3. \A k \in CategoryIds \ CategoryOf(c) : category'[k] = category[k]
    BY <1>2 DEF DeleteCategory
  <2>4. ASSUME NEW i \in Live \ S PROVE category'[position[i].category] # NoName
    <3>1. position[i].category \in CategoryIds \ CategoryOf(c)
      BY <2>1, <2>4, LiveHas DEF CatalogueInv, PositionRecords
    <3>2. QED
      BY <2>3, <2>4, <3>1 DEF GoodsFormed
  <2>5. QED
    BY <2>2, <2>4, Removed
<1>3. QED
  BY <1>1, <1>2

LEMMA LeavingSteps ==
    ASSUME CatalogueInv, DialogsInformed, GoodsFormed,
           \/ \E p \in Editors, k \in {"unit", "endless"}, i \in Live : DeleteUnit(p, i, k)
           \/ \E i \in Ids : BeginBuy(i)
           \/ \E last, cart \in BOOLEAN : EndBuy(last, cart)
           \/ UNCHANGED catalogueVars
    PROVE  DialogsInformed' /\ GoodsFormed'
<1>1. UNCHANGED <<position, category, edit, outdated, crossed>>
  BY DEF DeleteUnit, BeginBuy, EndBuy, catalogueVars, goodsVars, ghostVars
<1>2. \/ stock' = stock
      \/ \E i \in Ids, k \in {"unit", "endless"} : stock' = [stock EXCEPT ![i] = @ \ {k}]
  <2>1. ASSUME NEW last \in BOOLEAN, NEW cart \in BOOLEAN, EndBuy(last, cart)
        PROVE  stock' = stock \/ \E i \in Ids : stock' = [stock EXCEPT ![i] = @ \ {"unit"}]
    <3>1. buying.id \in Ids
      BY <2>1 DEF EndBuy, CatalogueInv, GoodsTypes
    <3>2. QED
      BY <2>1, <3>1 DEF EndBuy
  <2>2. QED
    BY <2>1 DEF DeleteUnit, BeginBuy, catalogueVars, goodsVars, Live
<1>3. stock' \in [Ids -> SUBSET {"unit", "endless"}] /\ \A i \in Ids : stock'[i] \subseteq stock[i]
  BY <1>2 DEF GoodsFormed
<1>4. QED
  BY <1>1, <1>3, StockLeaves

LEMMA GoodsStart == ASSUME CatalogueInit PROVE DialogsInformed /\ GoodsFormed
<1>1. PICK n, k, i, c :
        /\ n = (CHOOSE x \in PositionNames : TRUE) /\ k = (CHOOSE x \in CategoryIds : TRUE)
        /\ i = (CHOOSE x \in Ids : TRUE) /\ c = (CHOOSE x \in CategoryNames : TRUE)
  OBVIOUS
<1>2. n \in PositionNames /\ k \in CategoryIds /\ i \in Ids /\ c \in CategoryNames
  BY <1>1, CatalogueFacts
<1>3. PICK s \in {{"unit"}, {"endless"}} :
        /\ category = [x \in CategoryIds |-> IF x = k THEN c ELSE NoName]
        /\ position = [x \in Ids |-> IF x = i THEN [name |-> n, category |-> k] ELSE NoPosition]
        /\ stock = [x \in Ids |-> IF x = i THEN s ELSE {}]
  BY <1>1 DEF CatalogueInit
<1>4. edit = [p \in Editors |-> NoEdit] /\ outdated = {} /\ crossed = {}
  BY DEF CatalogueInit
<1>5. DialogsInformed
  BY <1>4 DEF DialogsInformed
<1>6. [name |-> n, category |-> k] # NoPosition
  BY <1>2, CatalogueFacts
<1>7. Live = {i}
  BY <1>2, <1>3, <1>6 DEF Live
<1>8. position[i].name \in PositionNames /\ category[position[i].category] # NoName
  BY <1>2, <1>3, CatalogueFacts
<1>9. \A x \in Ids : stock[x] # {"unit", "endless"}
  BY <1>3
<1>10. GoodsFormed
  BY <1>2, <1>3, <1>4, <1>7, <1>8, <1>9 DEF GoodsFormed
<1>11. QED
  BY <1>5, <1>10

\* The catalogue stays well formed, for any number of editors: above all, a
\* position gets endless and single values together only where two editors'
\* dialogs about its name crossed.
THEOREM CatalogueFormed == CatalogueSpec => []CatalogueTypeOK
<1> DEFINE Inv == DialogsInformed /\ GoodsFormed
<1>1. CatalogueInit => Inv
  BY GoodsStart
<1>2. CatalogueInv /\ Inv /\ [CatalogueNext]_catalogueVars => Inv'
  <2>1. SUFFICES ASSUME CatalogueInv, Inv, [CatalogueNext]_catalogueVars PROVE Inv'
    OBVIOUS
  <2>2. ASSUME NEW p \in Editors, NEW n \in PositionNames,
               \/ AddName(p, n) \/ AmountName(p, n) \/ OldName(p, n) \/ NewName(p, n)
               \/ DeleteItem(p, n)
        PROVE  Inv'
    BY <2>1, <2>2, TellingSteps, RemovingSteps
  <2>3. ASSUME NEW p \in Editors, NEW c \in CategoryNames,
               \/ AddCategory(p, c) \/ CreateCategory(p, c) \/ DeleteCategory(p, c)
               \/ OldCategory(p, c) \/ RenameCategory(p, c)
        PROVE  Inv'
    BY <2>1, <2>3, TellingSteps, RemovingSteps
  <2>4. ASSUME NEW p \in Editors, NEW k \in {"unit", "endless"},
               \/ FinishAdd(p, k) \/ StockAdded(p, k) \/ FinishUpdate(p, k)
               \/ \E i \in Live : DeleteUnit(p, i, k)
        PROVE  Inv'
    BY <2>1, <2>4, MakingStep, AddingValues, UpdatingSteps, LeavingSteps
  <2>5. ASSUME NEW p \in Editors, KeepStock(p) \/ FinishAmount(p)
        PROVE  Inv'
    BY <2>1, <2>5, AddingValues, UpdatingSteps
  <2>6. QED
    BY <2>1, <2>2, <2>3, <2>4, <2>5, AskingSteps, LeavingSteps DEF CatalogueNext
<1>3. CatalogueInv /\ Inv => CatalogueTypeOK
  <2>1. SUFFICES ASSUME CatalogueInv, Inv PROVE CatalogueTypeOK
    OBVIOUS
  <2>2. GoodsTypes /\ NamesUnique /\ GoodsFormed /\ DialogsInformed /\ inOrders \subseteq Live
    BY <2>1 DEF CatalogueInv
  <2>3. position \in [Ids -> {NoPosition} \cup [name : PositionNames, category : CategoryIds]]
    BY <2>2 DEF GoodsTypes, GoodsFormed, Live, PositionRecords
  <2>4. ASSUME NEW n \in PositionNames PROVE Cardinality(WithName(n)) <= 1
    <3>1. CASE WithName(n) = {}
      BY <3>1, FS_EmptySet
    <3>2. CASE WithName(n) # {}
      <4>1. PICK i \in WithName(n) : TRUE
        BY <3>2
      <4>2. WithName(n) = {i}
        BY <2>2, <4>1 DEF NamesUnique, WithName
      <4>3. Cardinality({i}) = 1
        BY FS_Singleton
      <4>4. QED
        BY <4>2, <4>3
    <3>3. QED
      BY <3>1, <3>2
  <2>5. \A p \in Editors : edit[p] = NoEdit \/ edit[p].at \in EditStates
    BY <2>2 DEF GoodsTypes, EditRecords
  <2>6. QED
    BY <2>2, <2>3, <2>4, <2>5 DEF CatalogueTypeOK, GoodsTypes, GoodsFormed, DialogsInformed
<1>4. QED
  BY <1>1, <1>2, <1>3, CatalogueAlways, PTL DEF CatalogueSpec

-----------------------------------------------------------------------------
(***************************************************************************)
(* The support desk                                                        *)
(***************************************************************************)

TicketRecords == [user : Customers, status : Statuses, order : ShopOrders \cup {NoOrder},
                  turn : {"user", "staff", "set"}]
LoadedSessions == [op : {"message", "close", "reply"} \cup Statuses, user : Customers,
                   ticket : TicketIds, was : Statuses]
LinkSessions == [op : {"link"}, user : Customers, ticket : TicketIds, order : ShopOrders]
CreateSessions == [op : {"create"}, user : Customers]

Prompts == {<<"none">>, <<"newBody">>} \cup ({"message", "orderId"} \X TicketIds)

DeskTypes ==
    /\ chat \in [Customers -> Prompts]
    /\ tickets \in [TicketIds -> {NoTicket} \cup TicketRecords]
    /\ session \in [Sessions -> {NoSession} \cup CreateSessions \cup LoadedSessions \cup LinkSessions]
    /\ \A u \in Customers, t \in TicketIds :
          chat[u] = <<"message", t>> \/ chat[u] = <<"orderId", t>> => t \in Filed

\* What a session that is under way knows: its ticket is its customer's for
\* ever; what it read is still true unless another session of the customer
\* overlapped with it.
SessionKnows(x) ==
    /\ x.op # "create" => x.ticket \in Filed /\ tickets[x.ticket].user = x.user
    /\ x.op = "link" => OrderOwner[x.order] = x.user
    /\ x.op \in {"message", "reply"} => x.was # "closed"
    /\ x.user \notin overlapped =>
          /\ x.op = "create" => ActiveOf(x.user) = {}
          /\ x.op \notin {"create", "link"} => x.was = tickets[x.ticket].status

OneActive(u) == \A a, b \in ActiveOf(u) : a = b
TurnTold(x) == /\ x.turn = "user" => x.status = "open"
               /\ x.turn = "staff" => x.status = "pending"
OwnOrder(x) == x.order # NoOrder => OrderOwner[x.order] = x.user

\* TicketQueueIsTrue, with what the sessions under way know and the reason that
\* they do: two of one customer mark the customer.
DeskInv ==
    /\ DeskTypes
    /\ \A s \in Sessions : session[s] # NoSession => SessionKnows(session[s])
    /\ \A r, s \in Sessions : session[r] # NoSession /\ session[s] # NoSession
                              /\ session[r].user = session[s].user /\ r # s
                                 => session[r].user \in overlapped
    /\ \A u \in Customers \ (overlapped \cup reopened) : OneActive(u)
    /\ \A t \in Filed : /\ OwnOrder(tickets[t])
                        /\ tickets[t].user \notin overlapped => TurnTold(tickets[t])

LEMMA DeskFacts ==
    /\ OrderOwner \in [ShopOrders -> Customers] /\ NoOrder \notin ShopOrders
    /\ NoTicket \notin TicketRecords
BY SupportAssumption DEF TicketRecords, Statuses, Active

LEMMA DeskMeans == ASSUME DeskInv PROVE TicketQueueIsTrue
<1>1. ASSUME NEW u \in Customers \ (overlapped \cup reopened)
      PROVE  Cardinality(ActiveOf(u)) <= 1
  <2>1. CASE ActiveOf(u) = {}
    <3>1. Cardinality({}) = 0
      BY FS_EmptySet
    <3>2. QED
      BY <2>1, <3>1
  <2>2. CASE ActiveOf(u) # {}
    <3>1. PICK a \in ActiveOf(u) : TRUE
      BY <2>2
    <3>2. ActiveOf(u) = {a}
      BY <3>1 DEF DeskInv, OneActive
    <3>3. Cardinality({a}) = 1
      BY FS_Singleton
    <3>4. QED
      BY <3>2, <3>3
  <2>3. QED
    BY <2>1, <2>2
<1>2. QED
  BY <1>1 DEF DeskInv, TicketQueueIsTrue, OwnOrder, TurnTold

LEMMA DeskSessions ==
    ASSUME DeskTypes, NEW s \in Sessions, session[s] # NoSession
    PROVE  /\ session[s].user \in Customers
           /\ session[s].op # "create" => session[s].ticket \in TicketIds
           /\ session[s].op = "link" => session[s].order \in ShopOrders
           /\ session[s].op \notin {"create", "link"} => session[s].was \in Statuses
BY DEF DeskTypes, LoadedSessions, LinkSessions, CreateSessions, Statuses, Active

LEMMA FiledHas ==
    ASSUME DeskTypes, NEW t \in Filed
    PROVE  t \in TicketIds /\ tickets[t] \in TicketRecords
BY DEF DeskTypes, Filed

\* Steps that only open or close a prompt.
LEMMA PromptSteps ==
    ASSUME DeskInv, UNCHANGED <<tickets, session, overlapped, reopened>>,
           chat' \in [Customers -> Prompts],
           \A u \in Customers, t \in TicketIds :
              chat'[u] = <<"message", t>> \/ chat'[u] = <<"orderId", t>> => t \in Filed
    PROVE  DeskInv'
<1>1. Filed' = Filed /\ \A u : ActiveOf(u)' = ActiveOf(u)
  BY DEF Filed, ActiveOf
<1>2. DeskTypes'
  BY <1>1 DEF DeskInv, DeskTypes
<1>3. \A s \in Sessions : session'[s] # NoSession => SessionKnows(session[s])'
  BY <1>1 DEF DeskInv, SessionKnows
<1>4. \A u \in Customers \ (overlapped' \cup reopened') : OneActive(u)'
  BY <1>1 DEF DeskInv, OneActive
<1>5. QED
  BY <1>1, <1>2, <1>3, <1>4 DEF DeskInv, OwnOrder, TurnTold

\* A session begins: what it read is true now.
LEMMA BeginKnows ==
    ASSUME DeskInv, NEW s \in Sessions, NEW u \in Customers,
           NEW x \in CreateSessions \cup LoadedSessions \cup LinkSessions,
           Begin(s, u, x), x.user = u, SessionKnows(x)
    PROVE  DeskInv'
<1>1. /\ session[s] = NoSession /\ session' = [session EXCEPT ![s] = x]
      /\ overlapped' = IF \E r \in Sessions : session[r] # NoSession /\ session[r].user = u
                       THEN overlapped \cup {u} ELSE overlapped
      /\ UNCHANGED <<tickets, chat, reopened>>
  BY DEF Begin
<1>2. Filed' = Filed /\ \A v : ActiveOf(v)' = ActiveOf(v)
  BY <1>1 DEF Filed, ActiveOf
<1>3. session'[s] = x /\ \A r \in Sessions \ {s} : session'[r] = session[r]
  BY <1>1 DEF DeskInv, DeskTypes
<1>4. DeskTypes'
  BY <1>1, <1>2 DEF DeskInv, DeskTypes
<1>5. overlapped \subseteq overlapped'
  BY <1>1
<1>6. ASSUME NEW r \in Sessions, session'[r] # NoSession PROVE SessionKnows(session[r])'
  <2>1. PICK y : y = session'[r]
    OBVIOUS
  <2>2. SessionKnows(y)
    BY <1>3, <1>6, <2>1 DEF DeskInv
  <2>3. QED
    BY <1>1, <1>2, <1>5, <2>1, <2>2 DEF SessionKnows
<1>7. ASSUME NEW r \in Sessions, NEW q \in Sessions, session'[r] # NoSession, session'[q] # NoSession,
             session'[r].user = session'[q].user, r # q
      PROVE  session'[r].user \in overlapped'
  BY <1>1, <1>3, <1>5, <1>7 DEF DeskInv
<1>8. \A v \in Customers \ (overlapped' \cup reopened') : OneActive(v)'
  BY <1>1, <1>2, <1>5 DEF DeskInv, OneActive
<1>9. \A t \in Filed' : /\ OwnOrder(tickets'[t])
                        /\ tickets'[t].user \notin overlapped' => TurnTold(tickets'[t])
  BY <1>1, <1>2, <1>5 DEF DeskInv
<1>10. QED
  BY <1>4, <1>6, <1>7, <1>8, <1>9 DEF DeskInv, OwnOrder, TurnTold

\* A session ends and leaves y in the row of its ticket, or in a new row.
LEMMA EndKeeps ==
    ASSUME DeskInv, NEW s \in Sessions, session[s] # NoSession,
           NEW u \in Customers, u = session[s].user,
           NEW t0 \in TicketIds, t0 \in Filed => tickets[t0].user = u,
           NEW y \in TicketRecords, y.user = u,
           session' = [session EXCEPT ![s] = NoSession],
           tickets' = [tickets EXCEPT ![t0] = y],
           overlapped' = overlapped, reopened \subseteq reopened',
           chat' = chat \/ chat' = [chat EXCEPT ![u] = <<"none">>],
           OwnOrder(y), u \notin overlapped => TurnTold(y),
           u \notin overlapped \cup reopened' /\ y.status \in Active =>
              \A a \in ActiveOf(u) : a = t0
    PROVE  DeskInv'
<1>1. DeskTypes /\ tickets \in [TicketIds -> {NoTicket} \cup TicketRecords]
  BY DEF DeskInv, DeskTypes
<1>2. tickets'[t0] = y /\ y # NoTicket /\ \A t \in TicketIds \ {t0} : tickets'[t] = tickets[t]
  BY <1>1, DeskFacts
<1>3. Filed' = Filed \cup {t0}
  BY <1>2 DEF Filed
<1>4. session'[s] = NoSession /\ \A r \in Sessions \ {s} : session'[r] = session[r]
  BY <1>1 DEF DeskTypes
<1>5. \A v \in Customers \ {u} : ActiveOf(v)' = ActiveOf(v)
  BY <1>2, <1>3 DEF ActiveOf, Filed
<1>6. \A a \in ActiveOf(u)' : a # t0 => a \in ActiveOf(u)
  BY <1>2, <1>3 DEF ActiveOf, Filed
<1>7. t0 \in ActiveOf(u)' => y.status \in Active
  BY <1>2 DEF ActiveOf
<1>8. DeskTypes'
  <2>1. tickets' \in [TicketIds -> {NoTicket} \cup TicketRecords]
    BY <1>1
  <2>2. session' \in [Sessions -> {NoSession} \cup CreateSessions \cup LoadedSessions \cup LinkSessions]
    BY <1>1 DEF DeskTypes
  <2>3. ASSUME NEW v \in Customers, NEW t \in TicketIds,
               chat'[v] = <<"message", t>> \/ chat'[v] = <<"orderId", t>>
        PROVE  t \in Filed'
    <3>1. CASE chat'[v] = chat[v]
      BY <1>1, <1>3, <2>3, <3>1 DEF DeskTypes
    <3>2. CASE chat'[v] = <<"none">>
      BY <2>3, <3>2
    <3>3. QED
      BY <1>1, <3>1, <3>2 DEF DeskTypes
  <2>4. chat' \in [Customers -> Prompts]
    BY <1>1 DEF DeskTypes, Prompts
  <2>5. QED
    BY <2>1, <2>2, <2>3, <2>4 DEF DeskTypes
\* The sessions that go on are others' or of an overlapped customer.
<1>9. ASSUME NEW r \in Sessions, session'[r] # NoSession PROVE SessionKnows(session[r])'
  <2>1. PICK x : x = session[r]
    OBVIOUS
  <2>2. r # s /\ session'[r] = x /\ SessionKnows(x) /\ x # NoSession
    BY <1>4, <1>9, <2>1 DEF DeskInv
  <2>3. x.user \in Customers
    BY <1>1, <2>1, <2>2, DeskSessions
  <2>4. x.user = u => u \in overlapped
    BY <2>1, <2>2 DEF DeskInv
  <2>5. x.op # "create" => x.ticket \in Filed' /\ tickets'[x.ticket].user = x.user
    <3>1. SUFFICES ASSUME x.op # "create" PROVE x.ticket \in Filed' /\ tickets'[x.ticket].user = x.user
      OBVIOUS
    <3>2. x.ticket \in Filed /\ tickets[x.ticket].user = x.user /\ x.ticket \in TicketIds
      BY <2>2, <3>1 DEF SessionKnows, Filed
    <3>3. QED
      BY <1>2, <1>3, <3>2
  <2>6. ASSUME x.user \notin overlapped
        PROVE  /\ x.op = "create" => ActiveOf(x.user)' = {}
               /\ x.op \notin {"create", "link"} => x.was = tickets'[x.ticket].status
    <3>1. x.user # u
      BY <2>4, <2>6
    <3>2. x.op = "create" => ActiveOf(x.user)' = {}
      BY <1>5, <2>2, <2>3, <2>6, <3>1 DEF SessionKnows
    <3>3. ASSUME x.op \notin {"create", "link"} PROVE x.was = tickets'[x.ticket].status
      <4>1. /\ x.ticket \in Filed /\ tickets[x.ticket].user = x.user /\ x.ticket \in TicketIds
            /\ x.was = tickets[x.ticket].status
        BY <2>2, <2>6, <3>3 DEF SessionKnows, Filed
      <4>2. x.ticket # t0
        BY <3>1, <4>1
      <4>3. QED
        BY <1>2, <4>1, <4>2
    <3>4. QED
      BY <3>2, <3>3
  <2>7. QED
    BY <2>2, <2>5, <2>6 DEF SessionKnows
<1>10. \A r, q \in Sessions : session'[r] # NoSession /\ session'[q] # NoSession
                              /\ session'[r].user = session'[q].user /\ r # q
                                 => session'[r].user \in overlapped'
  BY <1>4 DEF DeskInv
<1>11. ASSUME NEW v \in Customers \ (overlapped' \cup reopened') PROVE OneActive(v)'
  <2>1. OneActive(v)
    BY <1>11 DEF DeskInv
  <2>2. CASE v # u
    BY <1>5, <2>1, <2>2 DEF OneActive
  <2>3. CASE v = u
    BY <1>6, <1>7, <1>11, <2>1, <2>3 DEF OneActive
  <2>4. QED
    BY <2>2, <2>3
<1>12. ASSUME NEW t \in Filed'
       PROVE  OwnOrder(tickets'[t]) /\ (tickets'[t].user \notin overlapped => TurnTold(tickets'[t]))
  <2>1. CASE t = t0
    BY <1>2, <2>1
  <2>2. CASE t # t0
    <3>1. t \in Filed /\ t \in TicketIds /\ tickets'[t] = tickets[t]
      BY <1>2, <1>3, <1>12, <2>2 DEF Filed
    <3>2. QED
      BY <3>1 DEF DeskInv
  <2>3. QED
    BY <2>1, <2>2
<1>13. QED
  BY <1>8, <1>9, <1>10, <1>11, <1>12 DEF DeskInv, OwnOrder, TurnTold

LEMMA PromptActions ==
    ASSUME DeskInv, NEW u \in Customers,
           \/ SupportHome(u) \/ SupportNew(u)
           \/ \E t \in TicketIds, prompt \in {"message", "orderId"} : SupportPrompt(u, prompt, t)
    PROVE  DeskInv'
<1>1. UNCHANGED <<tickets, session, overlapped, reopened>>
  BY DEF SupportHome, SupportNew, SupportPrompt
<1>2. chat \in [Customers -> Prompts] /\ DeskTypes
  BY DEF DeskInv, DeskTypes
<1>3. PICK z \in Prompts : /\ chat' = [chat EXCEPT ![u] = z]
                           /\ \A t \in TicketIds : z = <<"message", t>> \/ z = <<"orderId", t>> => t \in Filed
  <2>1. ASSUME SupportHome(u) \/ SupportNew(u)
        PROVE  \E z \in Prompts :
                  /\ chat' = [chat EXCEPT ![u] = z]
                  /\ \A q \in TicketIds : z = <<"message", q>> \/ z = <<"orderId", q>> => q \in Filed
    <3>1. PICK z \in {<<"none">>, <<"newBody">>} : chat' = [chat EXCEPT ![u] = z]
      BY <2>1 DEF SupportHome, SupportNew
    <3>2. \A q \in TicketIds : z # <<"message", q>> /\ z # <<"orderId", q>>
      BY <3>1
    <3>3. z \in Prompts
      BY <3>1 DEF Prompts
    <3>4. QED
      BY <3>1, <3>2, <3>3
  <2>2. ASSUME NEW t \in TicketIds, NEW m \in {"message", "orderId"}, SupportPrompt(u, m, t)
        PROVE  \E z \in Prompts :
                  /\ chat' = [chat EXCEPT ![u] = z]
                  /\ \A q \in TicketIds : z = <<"message", q>> \/ z = <<"orderId", q>> => q \in Filed
    <3>1. t \in Filed /\ chat' = [chat EXCEPT ![u] = <<m, t>>] /\ <<m, t>> \in Prompts
      BY <2>2 DEF SupportPrompt, Prompts
    <3>2. \A q \in TicketIds : <<m, t>> = <<"message", q>> \/ <<m, t>> = <<"orderId", q>> => q \in Filed
      BY <3>1
    <3>3. QED
      BY <3>1, <3>2
  <2>3. QED
    BY <2>1, <2>2
<1>4. \A v \in Customers, t \in TicketIds :
         chat'[v] = <<"message", t>> \/ chat'[v] = <<"orderId", t>> => t \in Filed
  BY <1>2, <1>3 DEF DeskTypes
<1>5. chat' \in [Customers -> Prompts]
  BY <1>2, <1>3
<1>6. QED
  BY <1>1, <1>4, <1>5, PromptSteps

LEMMA LoadedKnows ==
    ASSUME DeskTypes, NEW t \in Filed, NEW op \in {"message", "close", "reply"} \cup Statuses,
           op \in {"message", "reply"} => tickets[t].status # "closed"
    PROVE  /\ Loaded(op, t) \in LoadedSessions /\ Loaded(op, t).user = tickets[t].user
           /\ tickets[t].user \in Customers /\ SessionKnows(Loaded(op, t))
<1>1. t \in TicketIds /\ tickets[t] \in TicketRecords
  BY FiledHas
<1>2. PICK x : x = Loaded(op, t)
  OBVIOUS
<1>3. x.op = op /\ x.user = tickets[t].user /\ x.ticket = t /\ x.was = tickets[t].status
  BY <1>2 DEF Loaded
<1>4. x \in LoadedSessions
  BY <1>1, <1>2 DEF Loaded, LoadedSessions, TicketRecords
<1>5. op # "create" /\ op # "link"
  BY DEF Statuses, Active
<1>6. SessionKnows(x)
  BY <1>3, <1>5 DEF SessionKnows
<1>7. QED
  BY <1>1, <1>2, <1>3, <1>4, <1>6 DEF TicketRecords

LEMMA BeginActions ==
    ASSUME DeskInv, NEW s \in Sessions,
           \/ \E u \in Customers : BeginCreate(s, u)
           \/ \E u \in Customers, t \in TicketIds : BeginMessage(s, u, t) \/ BeginClose(s, u, t)
           \/ \E u \in Customers, t \in TicketIds, o \in ShopOrders : BeginLink(s, u, t, o)
           \/ \E t \in TicketIds : BeginReply(s, t) \/ \E st \in Statuses : BeginStatus(s, t, st)
    PROVE  DeskInv'
<1>1. DeskTypes
  BY DEF DeskInv
<1>2. ASSUME NEW u \in Customers, BeginCreate(s, u) PROVE DeskInv'
  <2>1. PICK x : x = [op |-> "create", user |-> u]
    OBVIOUS
  <2>2. x \in CreateSessions /\ x.user = u /\ x.op = "create"
    BY <2>1 DEF CreateSessions
  <2>3. SessionKnows(x)
    BY <1>2, <2>2 DEF SessionKnows, BeginCreate
  <2>4. QED
    BY <1>2, <2>1, <2>2, <2>3, BeginKnows DEF BeginCreate
<1>3. ASSUME NEW op \in {"message", "close", "reply"} \cup Statuses, NEW t \in Filed,
             op \in {"message", "reply"} => tickets[t].status # "closed",
             Begin(s, tickets[t].user, Loaded(op, t))
      PROVE  DeskInv'
  <2>1. /\ Loaded(op, t) \in LoadedSessions /\ Loaded(op, t).user = tickets[t].user
        /\ tickets[t].user \in Customers /\ SessionKnows(Loaded(op, t))
    BY <1>1, <1>3, LoadedKnows
  <2>2. QED
    BY <1>3, <2>1, BeginKnows
<1>4. ASSUME NEW u \in Customers, NEW t \in TicketIds, BeginMessage(s, u, t) PROVE DeskInv'
  <2>1. t \in Filed /\ tickets[t].user = u /\ tickets[t].status # "closed"
        /\ Begin(s, u, Loaded("message", t))
    BY <1>1, <1>4 DEF BeginMessage, DeskTypes
  <2>2. QED
    BY <1>3, <2>1
<1>5. ASSUME NEW u \in Customers, NEW t \in TicketIds, BeginClose(s, u, t) PROVE DeskInv'
  BY <1>3, <1>5 DEF BeginClose
<1>6. ASSUME NEW u \in Customers, NEW t \in TicketIds, NEW o \in ShopOrders, BeginLink(s, u, t, o)
      PROVE  DeskInv'
  <2>1. PICK x : x = [op |-> "link", user |-> u, ticket |-> t, order |-> o]
    OBVIOUS
  <2>2. x \in LinkSessions /\ x.user = u /\ x.op = "link" /\ x.ticket = t /\ x.order = o
    BY <2>1 DEF LinkSessions
  <2>3. t \in Filed /\ tickets[t].user = u /\ OrderOwner[o] = u /\ Begin(s, u, x)
    BY <1>1, <1>6, <2>1 DEF BeginLink, DeskTypes
  <2>4. SessionKnows(x)
    BY <2>2, <2>3 DEF SessionKnows
  <2>5. QED
    BY <2>2, <2>3, <2>4, BeginKnows
<1>7. ASSUME NEW t \in TicketIds, BeginReply(s, t) PROVE DeskInv'
  BY <1>3, <1>7 DEF BeginReply
<1>8. ASSUME NEW t \in TicketIds, NEW st \in Statuses, BeginStatus(s, t, st) PROVE DeskInv'
  <2>1. st \notin {"message", "reply"}
    BY DEF Statuses, Active
  <2>2. QED
    BY <1>3, <1>8, <2>1 DEF BeginStatus
<1>9. QED
  BY <1>2, <1>4, <1>5, <1>6, <1>7, <1>8

\* A message, a close, a reply or a status that ends.
LEMMA EndWrites ==
    ASSUME DeskInv, NEW s \in Sessions, End(s), session[s].op \notin {"create", "link"},
           NEW st \in Statuses, NEW m \in {"user", "staff", "set"},
           m = "user" => st = "open", m = "staff" => st = "pending",
           tickets' = [tickets EXCEPT ![session[s].ticket] = Written(@, session[s].was, st, m)],
           overlapped' = overlapped, reopened \subseteq reopened',
           chat' = chat \/ chat' = [chat EXCEPT ![session[s].user] = <<"none">>],
           \/ st = "closed" \/ session[s].was # "closed"
           \/ tickets[session[s].ticket].status = "closed" => session[s].user \in reopened'
    PROVE  DeskInv'
<1>1. session[s] # NoSession /\ session' = [session EXCEPT ![s] = NoSession] /\ DeskTypes
  BY DEF End, DeskInv
<1>2. PICK x : x = session[s]
  OBVIOUS
<1>3. PICK u : u = x.user
  OBVIOUS
<1>4. PICK t0 : t0 = x.ticket
  OBVIOUS
<1>5. u \in Customers /\ t0 \in TicketIds /\ x.was \in Statuses
  BY <1>1, <1>2, <1>3, <1>4, DeskSessions
<1>6. SessionKnows(x)
  BY <1>1, <1>2 DEF DeskInv
<1>7. t0 \in Filed /\ tickets[t0].user = u /\ (u \notin overlapped => x.was = tickets[t0].status)
  BY <1>2, <1>3, <1>4, <1>6 DEF SessionKnows
<1>8. tickets[t0] \in TicketRecords
  BY <1>1, <1>7, FiledHas
<1>9. PICK y : y = Written(tickets[t0], x.was, st, m)
  OBVIOUS
<1>10. /\ y \in TicketRecords /\ y.user = u /\ y.order = tickets[t0].order /\ y.turn = m
       /\ y.status = IF x.was = st THEN tickets[t0].status ELSE st
  <2>1. y = [tickets[t0] EXCEPT !.status = IF x.was = st THEN tickets[t0].status ELSE st,
                                !.turn = m]
    BY <1>8, <1>9 DEF Written, TicketRecords
  <2>2. PICK w \in Statuses : w = IF x.was = st THEN tickets[t0].status ELSE st
    BY <1>8 DEF TicketRecords
  <2>3. y = [tickets[t0] EXCEPT !.status = w, !.turn = m]
    BY <2>1, <2>2
  <2>4. y \in TicketRecords
    BY <1>8, <2>3 DEF TicketRecords
  <2>5. y.user = u /\ y.order = tickets[t0].order /\ y.turn = m /\ y.status = w
    BY <1>7, <1>8, <2>3 DEF TicketRecords
  <2>6. QED
    BY <2>2, <2>4, <2>5
<1>11. tickets' = [tickets EXCEPT ![t0] = y]
  BY <1>2, <1>4, <1>9
<1>12. u \notin overlapped => y.status = st
  BY <1>7, <1>10
<1>13. OwnOrder(y)
  BY <1>7, <1>10 DEF DeskInv, OwnOrder
<1>14. u \notin overlapped => TurnTold(y)
  BY <1>10, <1>12 DEF TurnTold
<1>15. ASSUME u \notin overlapped \cup reopened', y.status \in Active, NEW a \in ActiveOf(u)
       PROVE  a = t0
  <2>1. y.status = st /\ x.was = tickets[t0].status /\ st # "closed"
    BY <1>7, <1>12, <1>15 DEF Active
  <2>2. tickets[t0].status # "closed"
    BY <1>2, <1>3, <1>4, <1>15, <2>1
  <2>3. tickets[t0].status \in Active
    BY <1>8, <2>2 DEF TicketRecords, Statuses
  <2>4. t0 \in ActiveOf(u)
    BY <1>7, <2>3 DEF ActiveOf
  <2>5. OneActive(u)
    BY <1>5, <1>15 DEF DeskInv
  <2>6. QED
    BY <1>15, <2>4, <2>5 DEF OneActive
<1>16. chat' = chat \/ chat' = [chat EXCEPT ![u] = <<"none">>]
  BY <1>2, <1>3
<1>17. u = session[s].user
  BY <1>2, <1>3
<1>18. QED
  BY <1>1, <1>5, <1>7, <1>10, <1>11, <1>13, <1>14, <1>15, <1>16, <1>17, EndKeeps

LEMMA EndActions ==
    ASSUME DeskInv, NEW s \in Sessions,
           \/ EndMessage(s) \/ EndClose(s) \/ EndReply(s)
           \/ \E st \in Statuses : EndStatus(s, st)
    PROVE  DeskInv'
<1>1. DeskTypes /\ {"open", "pending", "closed"} = Statuses
  BY DEF DeskInv, Statuses, Active
<1>2. CASE EndMessage(s)
  <2>1. /\ End(s) /\ session[s].op = "message" /\ overlapped' = overlapped /\ reopened' = reopened
        /\ tickets' = [tickets EXCEPT ![session[s].ticket] = Written(@, session[s].was, "open", "user")]
        /\ chat' = [chat EXCEPT ![session[s].user] = <<"none">>]
    BY <1>2 DEF EndMessage, Answered
  <2>2. session[s].was # "closed"
    BY <2>1 DEF DeskInv, SessionKnows, End
  <2>3. QED
    BY <1>1, <2>1, <2>2, EndWrites
<1>3. CASE EndClose(s)
  <2>1. /\ End(s) /\ session[s].op = "close" /\ overlapped' = overlapped /\ reopened' = reopened
        /\ tickets' = [tickets EXCEPT ![session[s].ticket] = Written(@, session[s].was, "closed", "set")]
        /\ chat' = [chat EXCEPT ![session[s].user] = <<"none">>]
    BY <1>3 DEF EndClose, Answered
  <2>2. QED
    BY <1>1, <2>1, EndWrites
<1>4. CASE EndReply(s)
  <2>1. /\ End(s) /\ session[s].op = "reply" /\ overlapped' = overlapped /\ reopened' = reopened
        /\ tickets' = [tickets EXCEPT ![session[s].ticket] = Written(@, session[s].was, "pending", "staff")]
        /\ chat' = chat
    BY <1>4 DEF EndReply
  <2>2. session[s].was # "closed"
    BY <2>1 DEF DeskInv, SessionKnows, End
  <2>3. QED
    BY <1>1, <2>1, <2>2, EndWrites
<1>5. ASSUME NEW st \in Statuses, EndStatus(s, st) PROVE DeskInv'
  <2>1. /\ End(s) /\ session[s].op = st /\ overlapped' = overlapped
        /\ tickets' = [tickets EXCEPT ![session[s].ticket] = Written(@, session[s].was, st, "set")]
        /\ chat' = chat
        /\ reopened' = IF st \in Active /\ tickets[session[s].ticket].status = "closed"
                       THEN reopened \cup {session[s].user} ELSE reopened
    BY <1>5 DEF EndStatus
  <2>2. session[s].op \notin {"create", "link"}
    BY <1>1, <2>1
  <2>3. reopened \subseteq reopened'
    BY <2>1
  <2>4. st = "closed" \/ (tickets[session[s].ticket].status = "closed" => session[s].user \in reopened')
    BY <1>1, <2>1 DEF Active
  <2>5. QED
    BY <2>1, <2>2, <2>3, <2>4, EndWrites
<1>6. QED
  BY <1>2, <1>3, <1>4, <1>5

LEMMA CreateEnds ==
    ASSUME DeskInv, NEW s \in Sessions, EndCreate(s)
    PROVE  DeskInv'
<1>1. PICK u : u = session[s].user
  OBVIOUS
<1>2. PICK y : y = [user |-> u, status |-> "open", order |-> NoOrder, turn |-> "user"]
  OBVIOUS
<1>3. PICK t0 : t0 = CHOOSE t \in TicketIds \ Filed : \A q \in TicketIds \ Filed : t <= q
  OBVIOUS
<1>4. /\ session[s] # NoSession /\ session' = [session EXCEPT ![s] = NoSession]
      /\ session[s].op = "create" /\ TicketIds \ Filed # {}
      /\ tickets' = [tickets EXCEPT ![t0] = y]
      /\ chat' = [chat EXCEPT ![u] = <<"none">>]
      /\ overlapped' = overlapped /\ reopened' = reopened
  BY <1>1, <1>2, <1>3 DEF EndCreate, End, Answered
<1>5. DeskTypes /\ u \in Customers /\ SessionKnows(session[s])
  BY <1>1, <1>4, DeskSessions DEF DeskInv
<1>6. t0 \in TicketIds \ Filed
  <2>1. TicketIds \ Filed \in SUBSET Nat
    BY SupportAssumption
  <2>2. \E t \in TicketIds \ Filed : \A q \in TicketIds \ Filed : t <= q
    BY <1>4, <2>1, LeastNat
  <2>3. QED
    BY <1>3, <2>2
<1>7. /\ y \in TicketRecords /\ y.user = u /\ y.order = NoOrder /\ y.status = "open"
      /\ y.turn = "user"
  BY <1>2, <1>5 DEF TicketRecords, Statuses, Active
<1>8. OwnOrder(y) /\ TurnTold(y)
  BY <1>7 DEF OwnOrder, TurnTold
<1>9. u \notin overlapped => ActiveOf(u) = {}
  BY <1>1, <1>4, <1>5 DEF SessionKnows
<1>10. u \notin overlapped \cup reopened' /\ y.status \in Active => \A a \in ActiveOf(u) : a = t0
  BY <1>9
<1>11. t0 \in TicketIds /\ (t0 \in Filed => tickets[t0].user = u)
  BY <1>6
<1>12. QED
  BY <1>1, <1>4, <1>5, <1>7, <1>8, <1>10, <1>11, EndKeeps

LEMMA LinkEnds ==
    ASSUME DeskInv, NEW s \in Sessions, EndLink(s)
    PROVE  DeskInv'
<1>1. PICK x : x = session[s]
  OBVIOUS
<1>2. PICK u : u = x.user
  OBVIOUS
<1>3. PICK t0 : t0 = x.ticket
  OBVIOUS
<1>4. PICK y : y = [tickets[t0] EXCEPT !.order = x.order]
  OBVIOUS
<1>5. /\ x # NoSession /\ x.op = "link" /\ session' = [session EXCEPT ![s] = NoSession]
      /\ chat' = [chat EXCEPT ![u] = <<"none">>] /\ overlapped' = overlapped /\ reopened' = reopened
  BY <1>1, <1>2 DEF EndLink, End, Answered
<1>6. /\ DeskTypes /\ u \in Customers /\ t0 \in TicketIds /\ x.order \in ShopOrders
  BY <1>1, <1>2, <1>3, <1>5, DeskSessions DEF DeskInv
<1>7. SessionKnows(x)
  BY <1>1, <1>5 DEF DeskInv
<1>8. t0 \in Filed /\ tickets[t0].user = u /\ OrderOwner[x.order] = u
  BY <1>2, <1>3, <1>5, <1>7 DEF SessionKnows
<1>9. tickets[t0] \in TicketRecords
  BY <1>6, <1>8, FiledHas
<1>10. tickets' = [tickets EXCEPT ![t0] = y]
  BY <1>1, <1>3, <1>4, <1>6 DEF EndLink, DeskTypes
<1>11. /\ y \in TicketRecords /\ y.user = u /\ y.order = x.order /\ y.status = tickets[t0].status
       /\ y.turn = tickets[t0].turn
  BY <1>4, <1>6, <1>8, <1>9 DEF TicketRecords
<1>12. OwnOrder(y)
  BY <1>8, <1>11 DEF OwnOrder
<1>13. u \notin overlapped => TurnTold(y)
  BY <1>8, <1>11 DEF DeskInv, TurnTold
<1>14. ASSUME u \notin overlapped \cup reopened', y.status \in Active, NEW a \in ActiveOf(u)
       PROVE  a = t0
  <2>1. t0 \in ActiveOf(u)
    BY <1>8, <1>11, <1>14 DEF ActiveOf
  <2>2. OneActive(u)
    BY <1>5, <1>6, <1>14 DEF DeskInv
  <2>3. QED
    BY <1>14, <2>1, <2>2 DEF OneActive
<1>15. u = session[s].user /\ session[s] # NoSession
  BY <1>1, <1>2, <1>5
<1>16. QED
  BY <1>5, <1>6, <1>8, <1>10, <1>11, <1>12, <1>13, <1>14, <1>15, EndKeeps

LEMMA DeskStart == ASSUME DeskInit PROVE DeskInv
<1>1. /\ tickets = [t \in TicketIds |-> NoTicket] /\ chat = [u \in Customers |-> <<"none">>]
      /\ session = [s \in Sessions |-> NoSession]
  BY DEF DeskInit
<1>2. Filed = {} /\ \A u : ActiveOf(u) = {}
  BY <1>1 DEF Filed, ActiveOf
<1>3. DeskTypes
  <2>1. \A u \in Customers, t \in TicketIds : chat[u] # <<"message", t>> /\ chat[u] # <<"orderId", t>>
    BY <1>1
  <2>2. chat \in [Customers -> Prompts]
    BY <1>1 DEF Prompts
  <2>3. QED
    BY <1>1, <2>1, <2>2 DEF DeskTypes
<1>4. QED
  BY <1>1, <1>2, <1>3 DEF DeskInv, OneActive

LEMMA DeskAlways == DeskSpec => []DeskInv
<1>1. DeskInit => DeskInv
  BY DeskStart
<1>2. DeskInv /\ [DeskNext]_deskVars => DeskInv'
  <2>1. SUFFICES ASSUME DeskInv, [DeskNext]_deskVars PROVE DeskInv'
    OBVIOUS
  <2>2. CASE UNCHANGED deskVars
    <3>1. UNCHANGED <<tickets, session, overlapped, reopened, chat>>
      BY <2>2 DEF deskVars
    <3>2. QED
      BY <2>1, <3>1, PromptSteps DEF DeskInv, DeskTypes
  <2>3. QED
    BY <2>1, <2>2, PromptActions, BeginActions, EndActions, CreateEnds, LinkEnds DEF DeskNext
<1>3. QED
  BY <1>1, <1>2, PTL DEF DeskSpec

\* What the staff see of a customer is true, for any customers, tickets and
\* overlapping sessions: one active ticket, the status that its last change
\* calls for and an order of the customer's own - the first two as long as no
\* two of the customer's sessions overlapped, the first also as long as staff
\* reopened nothing.
THEOREM QueueAlwaysTrue == DeskSpec => []TicketQueueIsTrue
<1>1. DeskInv => TicketQueueIsTrue
  BY DeskMeans
<1>2. QED
  BY <1>1, DeskAlways, PTL
-----------------------------------------------------------------------------
(***************************************************************************)
(* Roles and permissions                                                   *)
(***************************************************************************)

NamingDialogs == [step : {"newName"}]
NewDialogs == [step : {"newPerms"}, name : Names, perms : Perms, caller : Perms]
EditDialogs == [step : {"editName", "editPerms"}, role : RoleIds, name : Names,
                perms : Perms, caller : Perms]
AssignTasks == [kind : {"assign"}, role : RoleIds, user : People]
DeleteTasks == [kind : {"delete"}, role : RoleIds]
FlushTasks == [kind : {"flush"}, role : RoleIds, members : SUBSET People]

StaffTypes ==
    /\ roles \in [RoleIds -> {NoRow} \cup RoleRows]
    /\ roleOf \in [People -> RoleIds \cup {Unregistered, NoRoleId}]
    /\ roleDialog \in [People -> {NoDialog} \cup NamingDialogs \cup NewDialogs \cup EditDialogs]
    /\ task \in [People -> {NoTask} \cup AssignTasks \cup DeleteTasks \cup FlushTasks]
    /\ staffUp \in BOOLEAN /\ work \in 0..MaxWork
    /\ spread \in Perms /\ firstHolders \in [Bits -> SUBSET People] /\ demoted \in BOOLEAN

\* The person is in the middle of deleting role r.
Deleting(p, r) == task[p] # NoTask /\ task[p].kind \in {"delete", "flush"} /\ task[p].role = r

\* Role 1 is kept by its default flag, which only a restart's seeding takes.
RegistrationRole ==
    ~demoted => /\ 1 \in KnownRoles /\ roles[1].default
                /\ \A p \in People : ~Deleting(p, 1)

UsersHaveRoles == \A p \in People : roleOf[p] \in KnownRoles \cup {NoRoleId, Unregistered}

Editing(p, r) == roleDialog[p] # NoDialog /\ roleDialog[p].step \in {"editName", "editPerms"}
                 /\ roleDialog[p].role = r
Assigning(p, r) == task[p] # NoTask /\ task[p].kind = "assign" /\ task[p].role = r

\* A bit nobody spread is in the one role called SUPERADMIN, where the next
\* seeding puts it again; only its holders can have that role under edit, and
\* no assignment under way is of a role that has it.
SuperHolds(b) == Named(SuperName) = {2} /\ b \in roles[2].perms
RolesKept(b) ==
    /\ SuperHolds(b)
    /\ 1 \in KnownRoles => b \notin roles[1].perms
    /\ \A p \in People : ~Deleting(p, 2)
    /\ \A p \in People : Editing(p, 2) => b \in roleDialog[p].caller
    /\ \A p \in People, r \in KnownRoles : Assigning(p, r) => b \notin roles[r].perms
    /\ Holders(b) \subseteq firstHolders[b]

StaffInv ==
    /\ StaffTypes /\ RegistrationRole /\ UsersHaveRoles
    /\ roleOf[Owner] # Unregistered
    /\ \A b \in Bits \ spread : RolesKept(b)

LEMMA StaffFacts ==
    /\ Owner \in People /\ Manager \in People /\ Owner # Manager
    /\ AdminsManage \in Bits /\ Bits \subseteq Nat
    /\ 1 \in RoleIds /\ 2 \in RoleIds /\ 3 \in RoleIds /\ RoleIds \subseteq Nat
    /\ UserName \in Names /\ SuperName \in Names /\ CustomName \in Names
    /\ MaxWork \in Nat
    /\ Unregistered \notin RoleIds /\ NoRoleId \notin RoleIds /\ Unregistered # NoRoleId
    /\ NoRow \notin RoleRows
BY StaffAssumption DEF StaffAssumption, RoleRows, Perms

\* The built-in and custom names are different names.
LEMMA ThreeAreNotFour == ASSUME NEW a, NEW b, NEW c PROVE Cardinality({a, b, c}) # 4
<1>1. IsFiniteSet({a}) /\ Cardinality({a}) = 1
  BY FS_Singleton
<1>2. IsFiniteSet({a} \cup {b}) /\ Cardinality({a} \cup {b}) \in {1, 2}
  <2>1. Cardinality({a} \cup {b}) = IF b \in {a} THEN Cardinality({a}) ELSE Cardinality({a}) + 1
    BY <1>1, FS_AddElement
  <2>2. QED
    BY <1>1, <2>1, FS_AddElement
<1>3. Cardinality(({a} \cup {b}) \cup {c}) =
         IF c \in ({a} \cup {b}) THEN Cardinality({a} \cup {b}) ELSE Cardinality({a} \cup {b}) + 1
  BY <1>2, FS_AddElement
<1>4. Cardinality(({a} \cup {b}) \cup {c}) # 4
  BY <1>2, <1>3
<1>5. ({a} \cup {b}) \cup {c} = {a, b, c}
  OBVIOUS
<1>6. QED
  BY <1>4, <1>5

LEMMA NamesDiffer == UserName # SuperName /\ SuperName # CustomName
<1>1. Cardinality({UserName, SuperName, LegacyName, CustomName}) = 4
  BY StaffAssumption DEF StaffAssumption
<1>2. ASSUME UserName = SuperName PROVE FALSE
  <2>1. {UserName, SuperName, LegacyName, CustomName} = {SuperName, LegacyName, CustomName}
    BY <1>2
  <2>2. QED
    BY <1>1, <2>1, ThreeAreNotFour
<1>3. ASSUME SuperName = CustomName PROVE FALSE
  <2>1. {UserName, SuperName, LegacyName, CustomName} = {UserName, SuperName, LegacyName}
    BY <1>3
  <2>2. QED
    BY <1>1, <2>1, ThreeAreNotFour
<1>4. QED
  BY <1>2, <1>3

LEMMA StaffStart == StaffInit => StaffInv
<1>1. SUFFICES ASSUME StaffInit PROVE StaffInv
  OBVIOUS
<1>2. /\ roles[1] = [name |-> UserName, perms |-> {}, default |-> TRUE]
      /\ roles[2] = [name |-> SuperName, perms |-> Bits, default |-> FALSE]
      /\ roles[3] = [name |-> CustomName, perms |-> {AdminsManage}, default |-> FALSE]
      /\ \A r \in RoleIds \ {1, 2, 3} : roles[r] = NoRow
  BY <1>1, StaffFacts DEF StaffInit
<1>3. roles[1] \in RoleRows /\ roles[2] \in RoleRows /\ roles[3] \in RoleRows
  BY <1>2, StaffFacts DEF RoleRows, Perms
<1>4. DOMAIN roles = RoleIds /\ roles = [r \in RoleIds |-> roles[r]]
  BY <1>1 DEF StaffInit
<1>5. \A r \in RoleIds : roles[r] \in {NoRow} \cup RoleRows
  BY <1>2, <1>3
<1>6. KnownRoles = {1, 2, 3}
  BY <1>2, <1>3, StaffFacts DEF KnownRoles
<1>7. \A b \in Bits : firstHolders[b] = Holders(b)
  BY <1>1 DEF StaffInit
<1>8. firstHolders \in [Bits -> SUBSET People]
  BY <1>1 DEF StaffInit, Holders
<1>9. /\ roleOf = [p \in People |-> roleOf[p]]
      /\ roleOf[Owner] = 2 /\ \A p \in People : roleOf[p] \in {2, 3, Unregistered}
  BY <1>1, StaffFacts DEF StaffInit
<1>10. StaffTypes
  <2>1. roles \in [RoleIds -> {NoRow} \cup RoleRows]
    BY <1>4, <1>5
  <2>2. roleOf \in [People -> RoleIds \cup {Unregistered, NoRoleId}]
    BY <1>9, StaffFacts
  <2>3. /\ roleDialog \in [People -> {NoDialog} \cup NamingDialogs \cup NewDialogs \cup EditDialogs]
        /\ task \in [People -> {NoTask} \cup AssignTasks \cup DeleteTasks \cup FlushTasks]
    BY <1>1 DEF StaffInit
  <2>4. staffUp \in BOOLEAN /\ demoted \in BOOLEAN
    BY <1>1, Zenon DEF StaffInit
  <2>5. work \in 0..MaxWork /\ spread \in Perms
    BY <1>1, StaffFacts DEF StaffInit, Perms
  <2>6. QED
    BY <1>8, <2>1, <2>2, <2>3, <2>4, <2>5 DEF StaffTypes
<1>11. \A p \in People : roleDialog[p] = NoDialog /\ task[p] = NoTask
  BY <1>1 DEF StaffInit
<1>12. RegistrationRole
  BY <1>2, <1>6, <1>11 DEF RegistrationRole, Deleting
<1>13. UsersHaveRoles /\ roleOf[Owner] # Unregistered
  BY <1>6, <1>9, StaffFacts DEF UsersHaveRoles
<1>14. ASSUME NEW b \in Bits PROVE RolesKept(b)
  <2>1. SuperHolds(b)
    BY <1>2, <1>6, NamesDiffer DEF SuperHolds, Named
  <2>2. b \notin roles[1].perms
    BY <1>2
  <2>3. QED
    BY <1>7, <1>11, <2>1, <2>2 DEF RolesKept, Deleting, Editing, Assigning
<1>15. QED
  BY <1>10, <1>12, <1>13, <1>14 DEF StaffInv
\* What a step owes a bit that nobody has spread.
LEMMA KeptByStep ==
    ASSUME StaffInv, NEW b \in Bits \ spread, SuperHolds(b)',
           \A r \in KnownRoles' : b \in roles'[r].perms => r \in KnownRoles /\ b \in roles[r].perms,
           \A p \in People : Deleting(p, 2)' => Deleting(p, 2),
           \A p \in People : Editing(p, 2)' => b \in roleDialog'[p].caller,
           \A p \in People, r \in KnownRoles : Assigning(p, r)' => Assigning(p, r) \/ b \notin roles[r].perms,
           \A p \in People : roleOf'[p] \in KnownRoles' =>
              roleOf'[p] \in {roleOf[p], 1} \/ b \notin roles[roleOf'[p]].perms,
           UNCHANGED firstHolders
    PROVE  RolesKept(b)'
<1>1. RolesKept(b)
  BY DEF StaffInv
<1>2. 1 \in KnownRoles' => b \notin roles'[1].perms
  BY <1>1 DEF RolesKept
<1>3. \A p \in People : ~Deleting(p, 2)'
  BY <1>1 DEF RolesKept
<1>4. \A p \in People, r \in KnownRoles' : Assigning(p, r)' => b \notin roles'[r].perms
  BY <1>1 DEF RolesKept
<1>5. ASSUME NEW p \in Holders(b)' PROVE p \in firstHolders'[b]
  <2>1. p \in People /\ roleOf'[p] \in KnownRoles' /\ b \in roles'[roleOf'[p]].perms
    BY <1>5 DEF Holders, PermsOf
  <2>2. roleOf'[p] \in KnownRoles /\ b \in roles[roleOf'[p]].perms
    BY <2>1
  <2>3. roleOf'[p] # 1
    BY <1>2, <2>1
  <2>4. roleOf'[p] = roleOf[p]
    BY <2>1, <2>2, <2>3
  <2>5. p \in Holders(b)
    BY <2>1, <2>2, <2>4 DEF Holders, PermsOf
  <2>6. QED
    BY <1>1, <2>5 DEF RolesKept
<1>6. QED
  BY <1>2, <1>3, <1>4, <1>5 DEF RolesKept

\* The same where the roles table stays as it is.
LEMMA KeptWithTable ==
    ASSUME StaffInv, NEW b \in Bits \ spread, UNCHANGED <<roles, firstHolders>>,
           \A p \in People : Deleting(p, 2)' => Deleting(p, 2),
           \A p \in People : Editing(p, 2)' => b \in roleDialog'[p].caller,
           \A p \in People, r \in KnownRoles : Assigning(p, r)' => Assigning(p, r) \/ b \notin roles[r].perms,
           \A p \in People : roleOf'[p] \in KnownRoles =>
              roleOf'[p] \in {roleOf[p], 1} \/ b \notin roles[roleOf'[p]].perms
    PROVE  RolesKept(b)'
<1>1. RolesKept(b)
  BY DEF StaffInv
<1>2. KnownRoles' = KnownRoles
  BY DEF KnownRoles
<1>3. SuperHolds(b)'
  BY <1>1, <1>2 DEF RolesKept, SuperHolds, Named
<1>4. QED
  BY <1>2, <1>3, KeptByStep

\* A step of one dialog, which knows no more than its caller.
LEMMA DialogStep ==
    ASSUME StaffInv, NEW p \in People, NEW d, UNCHANGED <<roles, roleOf, task, staffUp, ghosts>>,
           work' \in 0..MaxWork,
           d \in {NoDialog} \cup NamingDialogs \cup NewDialogs \cup EditDialogs,
           d # NoDialog /\ d.step \in {"editName", "editPerms"} /\ d.role = 2 =>
              \A b \in Bits \ spread : b \in d.caller,
           roleDialog' = [roleDialog EXCEPT ![p] = d]
    PROVE  StaffInv'
<1>1. StaffTypes /\ RegistrationRole /\ UsersHaveRoles /\ roleOf[Owner] # Unregistered
  BY DEF StaffInv
<1>2. UNCHANGED <<spread, firstHolders, demoted>>
  BY DEF ghosts
<1>3. roleDialog' \in [People -> {NoDialog} \cup NamingDialogs \cup NewDialogs \cup EditDialogs]
  BY <1>1 DEF StaffTypes
<1>4. StaffTypes'
  BY <1>1, <1>2, <1>3 DEF StaffTypes
<1>5. RegistrationRole' /\ UsersHaveRoles' /\ roleOf'[Owner] # Unregistered
  BY <1>1, <1>2 DEF RegistrationRole, UsersHaveRoles, KnownRoles, Deleting
<1>6. ASSUME NEW b \in Bits \ spread' PROVE RolesKept(b)'
  <2>1. b \in Bits \ spread /\ RolesKept(b)
    BY <1>2, <1>6 DEF StaffInv
  <2>2. \A q \in People : Deleting(q, 2)' => Deleting(q, 2)
    BY DEF Deleting
  <2>3. \A q \in People, r \in KnownRoles : Assigning(q, r)' => Assigning(q, r)
    BY DEF Assigning
  <2>4. roleDialog'[p] = d /\ \A q \in People \ {p} : roleDialog'[q] = roleDialog[q]
    BY <1>1 DEF StaffTypes
  <2>5. ASSUME NEW q \in People, Editing(q, 2)' PROVE b \in roleDialog'[q].caller
    <3>1. CASE q = p
      BY <2>1, <2>4, <2>5, <3>1 DEF Editing
    <3>2. CASE q # p
      <4>1. Editing(q, 2)
        BY <2>4, <2>5, <3>2 DEF Editing
      <4>2. QED
        BY <2>1, <2>4, <3>2, <4>1 DEF RolesKept
    <3>3. QED
      BY <3>1, <3>2
  <2>6. QED
    BY <1>2, <2>1, <2>2, <2>3, <2>5, KeptWithTable
<1>7. QED
  BY <1>4, <1>5, <1>6 DEF StaffInv
LEMMA WorkGrows ==
    ASSUME StaffInv, NEW p \in People, MayBegin(p)
    PROVE  work' \in 0..MaxWork
<1>1. work \in 0..MaxWork /\ work < MaxWork /\ work' = work + 1
  BY DEF StaffInv, StaffTypes, MayBegin
<1>2. QED
  BY <1>1, StaffFacts

LEMMA PermsAreBits == ASSUME StaffInv, NEW p \in People PROVE PermsOf(p) \in Perms
<1>1. CASE roleOf[p] \in KnownRoles
  <2>1. roles[roleOf[p]] \in RoleRows
    BY <1>1 DEF StaffInv, StaffTypes, KnownRoles
  <2>2. QED
    BY <1>1, <2>1 DEF PermsOf, RoleRows
<1>2. CASE roleOf[p] \notin KnownRoles
  BY <1>2 DEF PermsOf, Perms
<1>3. QED
  BY <1>1, <1>2

LEMMA DialogActions ==
    ASSUME StaffInv, NEW p \in People,
           \/ LeaveRoleDialog(p) \/ StartCreate(p)
           \/ \E n \in Names : NameNewRole(p, n) \/ EditName(p, n)
           \/ \E b \in Bits : TogglePerm(p, b)
           \/ \E r \in RoleIds : StartEdit(p, r)
    PROVE  StaffInv'
<1>1. /\ roleDialog \in [People -> {NoDialog} \cup NamingDialogs \cup NewDialogs \cup EditDialogs]
      /\ work \in 0..MaxWork
  BY DEF StaffInv, StaffTypes
<1>2. ASSUME roleDialog[p] # NoDialog, roleDialog[p].step \in {"editName", "editPerms"},
             roleDialog[p].role = 2
      PROVE  \A b \in Bits \ spread : b \in roleDialog[p].caller
  BY <1>2 DEF StaffInv, RolesKept, Editing
<1>3. CASE LeaveRoleDialog(p)
  BY <1>1, <1>3, DialogStep DEF LeaveRoleDialog
<1>4. CASE StartCreate(p)
  <2>1. PICK d : d = [step |-> "newName"]
    OBVIOUS
  <2>2. d \in NamingDialogs /\ d.step = "newName"
    BY <2>1 DEF NamingDialogs
  <2>3. work' \in 0..MaxWork
    BY <1>4, WorkGrows DEF StartCreate
  <2>4. roleDialog' = [roleDialog EXCEPT ![p] = d]
    BY <1>4, <2>1 DEF StartCreate
  <2>5. UNCHANGED <<roles, roleOf, task, staffUp, ghosts>>
    BY <1>4 DEF StartCreate
  <2>6. QED
    BY <2>2, <2>3, <2>4, <2>5, DialogStep
<1>5. ASSUME NEW n \in Names, NameNewRole(p, n) PROVE StaffInv'
  <2>1. PICK d : d = [step |-> "newPerms", name |-> n, perms |-> {}, caller |-> PermsOf(p)]
    OBVIOUS
  <2>2. d \in NewDialogs /\ d.step = "newPerms"
    BY <2>1, PermsAreBits DEF NewDialogs, Perms
  <2>3. roleDialog' = [roleDialog EXCEPT ![p] = d]
    BY <1>5, <2>1 DEF NameNewRole
  <2>4. UNCHANGED <<roles, roleOf, task, staffUp, ghosts>> /\ UNCHANGED work
    BY <1>5 DEF NameNewRole
  <2>5. QED
    BY <1>1, <2>2, <2>3, <2>4, DialogStep
<1>6. ASSUME NEW n \in Names, EditName(p, n) PROVE StaffInv'
  <2>1. roleDialog[p] \in EditDialogs
    BY <1>1, <1>6 DEF EditName, NamingDialogs, NewDialogs, EditDialogs
  <2>2. PICK d : d = [roleDialog[p] EXCEPT !.step = "editPerms", !.name = n]
    OBVIOUS
  <2>3. d \in EditDialogs /\ d.role = roleDialog[p].role /\ d.caller = roleDialog[p].caller
    BY <2>1, <2>2 DEF EditDialogs
  <2>4. roleDialog' = [roleDialog EXCEPT ![p] = d]
    BY <1>1, <1>6, <2>1, <2>2 DEF EditName, EditDialogs
  <2>5. UNCHANGED <<roles, roleOf, task, staffUp, ghosts>> /\ UNCHANGED work
    BY <1>6 DEF EditName
  <2>6. roleDialog[p] # NoDialog /\ roleDialog[p].step \in {"editName", "editPerms"}
    BY <1>6 DEF EditName
  <2>7. d.role = 2 => \A b \in Bits \ spread : b \in d.caller
    BY <1>2, <2>3, <2>6
  <2>8. QED
    BY <1>1, <2>3, <2>4, <2>5, <2>7, DialogStep
<1>7. ASSUME NEW c \in Bits, TogglePerm(p, c) PROVE StaffInv'
  <2>1. roleDialog[p] \in NewDialogs \cup EditDialogs
    BY <1>1, <1>7 DEF TogglePerm, NamingDialogs
  <2>2. PICK q : q = IF c \in roleDialog[p].perms THEN roleDialog[p].perms \ {c}
                     ELSE roleDialog[p].perms \cup {c}
    OBVIOUS
  <2>3. q \in Perms
    BY <2>1, <2>2 DEF NewDialogs, EditDialogs, Perms
  <2>4. PICK d : d = [roleDialog[p] EXCEPT !.perms = q]
    OBVIOUS
  <2>5. roleDialog' = [roleDialog EXCEPT ![p] = d]
    BY <1>1, <1>7, <2>1, <2>2, <2>4 DEF TogglePerm
  <2>6. UNCHANGED <<roles, roleOf, task, staffUp, ghosts>> /\ UNCHANGED work
    BY <1>7 DEF TogglePerm
  <2>7. CASE roleDialog[p] \in NewDialogs
    <3>1. d \in NewDialogs /\ d.step = "newPerms"
      BY <2>3, <2>4, <2>7 DEF NewDialogs
    <3>2. QED
      BY <1>1, <2>5, <2>6, <3>1, DialogStep
  <2>8. CASE roleDialog[p] \in EditDialogs
    <3>1. d \in EditDialogs /\ d.role = roleDialog[p].role /\ d.caller = roleDialog[p].caller
      BY <2>3, <2>4, <2>8 DEF EditDialogs
    <3>2. roleDialog[p] # NoDialog /\ roleDialog[p].step \in {"editName", "editPerms"}
      BY <1>7, <2>8 DEF TogglePerm, EditDialogs
    <3>3. d.role = 2 => \A b \in Bits \ spread : b \in d.caller
      BY <1>2, <3>1, <3>2
    <3>4. QED
      BY <1>1, <2>5, <2>6, <3>1, <3>3, DialogStep
  <2>9. QED
    BY <2>1, <2>7, <2>8
<1>8. ASSUME NEW r \in RoleIds, StartEdit(p, r) PROVE StaffInv'
  <2>1. r \in KnownRoles /\ roles[r].perms \subseteq PermsOf(p) /\ roles[r] \in RoleRows
    BY <1>8 DEF StartEdit, KnownRoles, StaffInv, StaffTypes
  <2>2. PICK d : d = [step |-> "editName", role |-> r, name |-> roles[r].name,
                      perms |-> roles[r].perms, caller |-> PermsOf(p)]
    OBVIOUS
  <2>3. d \in EditDialogs /\ d.role = r /\ d.caller = PermsOf(p)
    BY <2>1, <2>2, PermsAreBits DEF EditDialogs, RoleRows
  <2>4. work' \in 0..MaxWork
    BY <1>8, WorkGrows DEF StartEdit
  <2>5. UNCHANGED <<roles, roleOf, task, staffUp, ghosts>>
    BY <1>8 DEF StartEdit
  <2>6. roleDialog' = [roleDialog EXCEPT ![p] = d]
    BY <1>8, <2>2 DEF StartEdit
  <2>7. d.role = 2 => \A b \in Bits \ spread : b \in d.caller
    BY <2>1, <2>3 DEF StaffInv, RolesKept, SuperHolds
  <2>8. QED
    BY <2>3, <2>4, <2>5, <2>6, <2>7, DialogStep
<1>9. QED
  BY <1>3, <1>4, <1>5, <1>6, <1>7, <1>8
\* A step of one handler that leaves the roles and their users alone: a task
\* that deletes goes after no protected role, one that assigns takes no bit
\* that nobody has spread.
LEMMA TaskStep ==
    ASSUME StaffInv, NEW p \in People, NEW t, UNCHANGED <<roles, roleOf, roleDialog, staffUp>>,
           UNCHANGED <<firstHolders, demoted>>, spread \subseteq spread', spread' \in Perms,
           work' \in 0..MaxWork,
           t \in {NoTask} \cup AssignTasks \cup DeleteTasks \cup FlushTasks,
           t # NoTask /\ t.kind \in {"delete", "flush"} =>
              /\ ~demoted => t.role # 1
              /\ Bits \ spread' # {} => t.role # 2,
           t # NoTask /\ t.kind = "assign" /\ t.role \in KnownRoles =>
              \A b \in Bits \ spread' : b \notin roles[t.role].perms,
           task' = [task EXCEPT ![p] = t]
    PROVE  StaffInv'
<1>1. StaffTypes /\ RegistrationRole /\ UsersHaveRoles /\ roleOf[Owner] # Unregistered
  BY DEF StaffInv
<1>2. task' \in [People -> {NoTask} \cup AssignTasks \cup DeleteTasks \cup FlushTasks]
  BY <1>1 DEF StaffTypes
<1>3. StaffTypes'
  BY <1>1, <1>2 DEF StaffTypes
<1>4. task'[p] = t /\ \A q \in People \ {p} : task'[q] = task[q]
  BY <1>1 DEF StaffTypes
<1>5. KnownRoles' = KnownRoles
  BY DEF KnownRoles
<1>6. RegistrationRole'
  BY <1>1, <1>4, <1>5 DEF RegistrationRole, Deleting
<1>7. UsersHaveRoles' /\ roleOf'[Owner] # Unregistered
  BY <1>1, <1>5 DEF UsersHaveRoles
<1>8. ASSUME NEW b \in Bits \ spread' PROVE RolesKept(b)'
  <2>1. b \in Bits \ spread /\ RolesKept(b)
    BY <1>8 DEF StaffInv
  <2>2. \A q \in People : Deleting(q, 2)' => Deleting(q, 2)
    BY <1>4, <1>8 DEF Deleting
  <2>3. \A q \in People, r \in KnownRoles : Assigning(q, r)' => Assigning(q, r) \/ b \notin roles[r].perms
    BY <1>4, <1>8 DEF Assigning
  <2>4. \A q \in People : Editing(q, 2)' => b \in roleDialog'[q].caller
    BY <2>1 DEF RolesKept, Editing
  <2>5. QED
    BY <2>1, <2>2, <2>3, <2>4, KeptWithTable
<1>9. QED
  BY <1>3, <1>6, <1>7, <1>8 DEF StaffInv

LEMMA TaskActions ==
    ASSUME StaffInv, NEW p \in People,
           \/ DeleteLoad(p)
           \/ \E r \in RoleIds : DeleteCheck(p, r)
           \/ \E r \in RoleIds, u \in People : AssignCheck(p, r, u)
    PROVE  StaffInv'
<1>1. /\ task \in [People -> {NoTask} \cup AssignTasks \cup DeleteTasks \cup FlushTasks]
      /\ roles \in [RoleIds -> {NoRow} \cup RoleRows]
      /\ work \in 0..MaxWork /\ spread \in Perms
  BY DEF StaffInv, StaffTypes
<1>2. \A b \in Bits \ spread : SuperHolds(b) /\ ~Deleting(p, 2)
  BY DEF StaffInv, RolesKept
<1>3. ~demoted => roles[1].default /\ ~Deleting(p, 1)
  BY DEF StaffInv, RegistrationRole
<1>4. CASE DeleteLoad(p)
  <2>1. task[p] \in DeleteTasks
    BY <1>1, <1>4 DEF DeleteLoad, AssignTasks, FlushTasks
  <2>2. PICK m : m = {q \in People : roleOf[q] = task[p].role}
    OBVIOUS
  <2>3. m \subseteq People
    BY <2>2
  <2>4. PICK t : t = [kind |-> "flush", role |-> task[p].role, members |-> m]
    OBVIOUS
  <2>5. t \in FlushTasks /\ t.role = task[p].role /\ t.kind = "flush"
    BY <2>1, <2>3, <2>4 DEF DeleteTasks, FlushTasks
  <2>6. Deleting(p, t.role)
    BY <1>4, <2>5 DEF Deleting, DeleteLoad
  <2>7. (~demoted => t.role # 1) /\ (Bits \ spread # {} => t.role # 2)
    BY <1>2, <1>3, <2>6
  <2>8. UNCHANGED <<roles, roleOf, roleDialog, staffUp>> /\ UNCHANGED <<spread, firstHolders, demoted>>
        /\ UNCHANGED work
    BY <1>4 DEF DeleteLoad, ghosts
  <2>9. task' = [task EXCEPT ![p] = t]
    BY <1>4, <2>2, <2>4 DEF DeleteLoad
  <2>10. QED
    BY <1>1, <2>5, <2>7, <2>8, <2>9, TaskStep
<1>5. ASSUME NEW r \in RoleIds, DeleteCheck(p, r) PROVE StaffInv'
  <2>1. PICK t : t = [kind |-> "delete", role |-> r]
    OBVIOUS
  <2>2. t \in DeleteTasks /\ t.kind = "delete" /\ t.role = r
    BY <2>1 DEF DeleteTasks
  <2>3. ~demoted => r # 1
    BY <1>3, <1>5 DEF DeleteCheck
  <2>4. Bits \ spread # {} => r # 2
    BY <1>2, <1>5 DEF DeleteCheck, SuperHolds, Named
  <2>5. work' \in 0..MaxWork
    BY <1>5, WorkGrows DEF DeleteCheck
  <2>6. UNCHANGED <<roles, roleOf, roleDialog, staffUp>> /\ UNCHANGED <<spread, firstHolders, demoted>>
    BY <1>5 DEF DeleteCheck, ghosts
  <2>7. task' = [task EXCEPT ![p] = t]
    BY <1>5, <2>1 DEF DeleteCheck
  <2>8. QED
    BY <1>1, <2>2, <2>3, <2>4, <2>5, <2>6, <2>7, TaskStep
<1>6. ASSUME NEW r \in RoleIds, NEW u \in People, AssignCheck(p, r, u) PROVE StaffInv'
  <2>1. PICK t : t = [kind |-> "assign", role |-> r, user |-> u]
    OBVIOUS
  <2>2. t \in AssignTasks /\ t.kind = "assign" /\ t.role = r
    BY <2>1 DEF AssignTasks
  <2>3. /\ roles[r].perms \subseteq PermsOf(p)
        /\ spread' = spread \cup (roles[r].perms \cap PermsOf(p))
    BY <1>6 DEF AssignCheck
  <2>4. \A b \in Bits \ spread' : b \notin roles[r].perms
    BY <2>3
  <2>5. spread \subseteq spread' /\ spread' \in Perms
    BY <1>1, <2>3, PermsAreBits DEF Perms
  <2>6. work' \in 0..MaxWork
    BY <1>6, WorkGrows DEF AssignCheck
  <2>7. UNCHANGED <<roles, roleOf, roleDialog, staffUp>> /\ UNCHANGED <<firstHolders, demoted>>
    BY <1>6 DEF AssignCheck
  <2>8. task' = [task EXCEPT ![p] = t]
    BY <1>6, <2>1 DEF AssignCheck
  <2>9. QED
    BY <2>2, <2>4, <2>5, <2>6, <2>7, <2>8, TaskStep
<1>7. QED
  BY <1>4, <1>5, <1>6

\* Registration gives role 1, and only a role that is there.
LEMMA RegisterStep == ASSUME StaffInv, NEW p \in People, Register(p) PROVE StaffInv'
<1>1. StaffTypes /\ RegistrationRole /\ UsersHaveRoles /\ roleOf[Owner] # Unregistered
  BY DEF StaffInv
<1>2. roleOf[p] = Unregistered /\ p # Owner
  BY <1>1 DEF Register
<1>3. 1 \in KnownRoles /\ roleOf' = [roleOf EXCEPT ![p] = 1]
  BY <1>2 DEF Register
<1>4. UNCHANGED <<roles, roleDialog, task, staffUp, work>> /\ UNCHANGED <<spread, firstHolders, demoted>>
  BY DEF Register, ghosts
<1>5. KnownRoles' = KnownRoles
  BY <1>4 DEF KnownRoles
<1>6. roleOf' \in [People -> RoleIds \cup {Unregistered, NoRoleId}]
  BY <1>1, <1>3, StaffFacts DEF StaffTypes
<1>7. StaffTypes'
  BY <1>1, <1>4, <1>6 DEF StaffTypes
<1>8. roleOf'[p] = 1 /\ \A q \in People \ {p} : roleOf'[q] = roleOf[q]
  BY <1>1, <1>3 DEF StaffTypes
<1>9. RegistrationRole' /\ UsersHaveRoles' /\ roleOf'[Owner] # Unregistered
  BY <1>1, <1>2, <1>3, <1>4, <1>5, <1>8, StaffFacts DEF RegistrationRole, UsersHaveRoles, Deleting
<1>10. ASSUME NEW b \in Bits \ spread' PROVE RolesKept(b)'
  <2>1. b \in Bits \ spread /\ RolesKept(b)
    BY <1>4, <1>10 DEF StaffInv
  <2>2. \A q \in People : Deleting(q, 2)' => Deleting(q, 2)
    BY <1>4 DEF Deleting
  <2>3. \A q \in People, r \in KnownRoles : Assigning(q, r)' => Assigning(q, r)
    BY <1>4 DEF Assigning
  <2>4. \A q \in People : Editing(q, 2)' => b \in roleDialog'[q].caller
    BY <1>4, <2>1 DEF RolesKept, Editing
  <2>5. QED
    BY <1>4, <1>8, <2>1, <2>2, <2>3, <2>4, KeptWithTable
<1>11. QED
  BY <1>7, <1>9, <1>10 DEF StaffInv

\* The assignment takes effect for a role that still is there, with no bit in
\* it that its check did not spread.
LEMMA AssignStep == ASSUME StaffInv, NEW p \in People, AssignCommit(p) PROVE StaffInv'
<1>1. StaffTypes /\ RegistrationRole /\ UsersHaveRoles /\ roleOf[Owner] # Unregistered
  BY DEF StaffInv
<1>2. UNCHANGED <<roles, roleDialog, staffUp, work>> /\ UNCHANGED <<spread, firstHolders, demoted>>
  BY DEF AssignCommit, ghosts
<1>3. task[p] \in AssignTasks /\ task[p] # NoTask /\ task[p].kind = "assign"
  BY <1>1 DEF AssignCommit, StaffTypes, DeleteTasks, FlushTasks
<1>4. PICK r \in RoleIds, u \in People : r = task[p].role /\ u = task[p].user
  BY <1>3 DEF AssignTasks
<1>5. roleOf' = IF r \in KnownRoles THEN [roleOf EXCEPT ![u] = r] ELSE roleOf
  BY <1>4 DEF AssignCommit
<1>6. task' = [task EXCEPT ![p] = NoTask]
  BY DEF AssignCommit
<1>7. task'[p] = NoTask /\ \A q \in People \ {p} : task'[q] = task[q]
  BY <1>1, <1>6 DEF StaffTypes
<1>8. task' \in [People -> {NoTask} \cup AssignTasks \cup DeleteTasks \cup FlushTasks]
  BY <1>1, <1>6 DEF StaffTypes
<1>9. roleOf' \in [People -> RoleIds \cup {Unregistered, NoRoleId}]
  BY <1>1, <1>5 DEF StaffTypes
<1>10. StaffTypes'
  BY <1>1, <1>2, <1>8, <1>9 DEF StaffTypes
<1>11. KnownRoles' = KnownRoles
  BY <1>2 DEF KnownRoles
<1>12. \A q \in People : roleOf'[q] = roleOf[q] \/ (roleOf'[q] = r /\ r \in KnownRoles)
  BY <1>1, <1>5 DEF StaffTypes
<1>13. RegistrationRole'
  BY <1>1, <1>2, <1>7, <1>11 DEF RegistrationRole, Deleting
<1>14. UsersHaveRoles' /\ roleOf'[Owner] # Unregistered
  BY <1>1, <1>11, <1>12, StaffFacts DEF UsersHaveRoles, KnownRoles
<1>15. ASSUME NEW b \in Bits \ spread' PROVE RolesKept(b)'
  <2>1. b \in Bits \ spread /\ RolesKept(b)
    BY <1>2, <1>15 DEF StaffInv
  <2>2. \A q \in People : Deleting(q, 2)' => Deleting(q, 2)
    BY <1>7 DEF Deleting
  <2>3. \A q \in People, s \in KnownRoles : Assigning(q, s)' => Assigning(q, s)
    BY <1>7 DEF Assigning
  <2>4. \A q \in People : Editing(q, 2)' => b \in roleDialog'[q].caller
    BY <1>2, <2>1 DEF RolesKept, Editing
  <2>5. r \in KnownRoles => b \notin roles[r].perms
    BY <1>3, <1>4, <2>1 DEF RolesKept, Assigning
  <2>6. QED
    BY <1>2, <1>12, <2>1, <2>2, <2>3, <2>4, <2>5, KeptWithTable
<1>16. QED
  BY <1>10, <1>13, <1>14, <1>15 DEF StaffInv
\* A role written by a dialog: the row keeps its default flag and carries only
\* spread bits, and while a bit is kept it is not the SUPERADMIN row and takes
\* no such name.
LEMMA RoleWritten ==
    ASSUME StaffInv, NEW p \in People, NEW k \in RoleIds, NEW row \in RoleRows,
           UNCHANGED <<roleOf, task, staffUp, work, firstHolders, demoted>>,
           roleDialog' = [roleDialog EXCEPT ![p] = NoDialog],
           spread \subseteq spread', spread' \in Perms,
           \/ UNCHANGED roles
           \/ /\ roles' = [roles EXCEPT ![k] = row]
              /\ row.perms \subseteq spread'
              /\ k \in KnownRoles => row.default = roles[k].default
              /\ Bits \ spread' # {} => k # 2 /\ row.name # SuperName
    PROVE  StaffInv'
<1>1. StaffTypes /\ RegistrationRole /\ UsersHaveRoles /\ roleOf[Owner] # Unregistered
  BY DEF StaffInv
<1>2. roles' \in [RoleIds -> {NoRow} \cup RoleRows]
  BY <1>1 DEF StaffTypes
<1>3. roleDialog' \in [People -> {NoDialog} \cup NamingDialogs \cup NewDialogs \cup EditDialogs]
  BY <1>1 DEF StaffTypes
<1>4. StaffTypes'
  BY <1>1, <1>2, <1>3 DEF StaffTypes
<1>5. \A r \in RoleIds :
         \/ roles'[r] = roles[r]
         \/ /\ r = k /\ roles'[r] = row /\ row.perms \subseteq spread'
            /\ k \in KnownRoles => row.default = roles[k].default
            /\ Bits \ spread' # {} => k # 2 /\ row.name # SuperName
  BY <1>1 DEF StaffTypes
<1>6. KnownRoles \subseteq KnownRoles' /\ KnownRoles' \subseteq RoleIds
  BY <1>5, StaffFacts DEF KnownRoles
<1>7. RegistrationRole'
  <2>1. \A r \in KnownRoles : roles'[r].default = roles[r].default
    BY <1>5 DEF KnownRoles
  <2>2. QED
    BY <1>1, <1>6, <2>1 DEF RegistrationRole, Deleting
<1>8. UsersHaveRoles' /\ roleOf'[Owner] # Unregistered
  BY <1>1, <1>6 DEF UsersHaveRoles
<1>9. ASSUME NEW b \in Bits \ spread' PROVE RolesKept(b)'
  <2>1. b \in Bits \ spread /\ RolesKept(b)
    BY <1>9 DEF StaffInv
  <2>2. \A r \in RoleIds : roles'[r] = roles[r] \/ (r # 2 /\ roles'[r] = row /\ row.name # SuperName)
    BY <1>5, <1>9
  <2>3. SuperHolds(b)'
    <3>1. 2 \in KnownRoles /\ roles[2].name = SuperName /\ b \in roles[2].perms
      BY <2>1 DEF RolesKept, SuperHolds, Named
    <3>2. 2 \in KnownRoles' /\ roles'[2] = roles[2]
      BY <1>6, <2>2, <3>1, StaffFacts
    <3>3. ASSUME NEW r \in KnownRoles', roles'[r].name = SuperName PROVE r = 2
      <4>1. r \in RoleIds /\ roles'[r] = roles[r]
        BY <1>6, <2>2, <3>3
      <4>2. r \in Named(SuperName)
        BY <3>3, <4>1 DEF Named, KnownRoles
      <4>3. QED
        BY <2>1, <4>2 DEF RolesKept, SuperHolds
    <3>4. QED
      BY <3>1, <3>2, <3>3 DEF SuperHolds, Named
  <2>4. ASSUME NEW r \in KnownRoles', b \in roles'[r].perms
        PROVE  r \in KnownRoles /\ b \in roles[r].perms
    <3>1. r \in RoleIds /\ roles'[r] = roles[r]
      BY <1>5, <1>6, <1>9, <2>4
    <3>2. QED
      BY <2>4, <3>1 DEF KnownRoles
  <2>5. \A q \in People : Deleting(q, 2)' => Deleting(q, 2)
    BY DEF Deleting
  <2>6. \A q \in People, r \in KnownRoles : Assigning(q, r)' => Assigning(q, r)
    BY DEF Assigning
  <2>7. ASSUME NEW q \in People, Editing(q, 2)' PROVE b \in roleDialog'[q].caller
    <3>1. q # p /\ roleDialog'[q] = roleDialog[q]
      BY <1>1, <2>7 DEF Editing, StaffTypes
    <3>2. Editing(q, 2)
      BY <2>7, <3>1 DEF Editing
    <3>3. QED
      BY <2>1, <3>1, <3>2 DEF RolesKept
  <2>8. \A q \in People : roleOf'[q] = roleOf[q]
    OBVIOUS
  <2>9. QED
    BY <2>1, <2>3, <2>4, <2>5, <2>6, <2>7, <2>8, KeptByStep
<1>10. QED
  BY <1>4, <1>7, <1>8, <1>9 DEF StaffInv

\* The next id is one that is free.
LEMMA FirstFreeIsFree ==
    ASSUME NEW S, S \subseteq RoleIds, S # {}
    PROVE  FirstFree(S) \in S
<1>1. \E r \in S : \A q \in S : r <= q
  BY StaffFacts, LeastNat
<1>2. QED
  BY <1>1 DEF FirstFree

LEMMA PermsDoneStep == ASSUME StaffInv, NEW p \in People, PermsDone(p) PROVE StaffInv'
<1>1. StaffTypes
  BY DEF StaffInv
<1>2. PICK d : d = roleDialog[p]
  OBVIOUS
<1>3. /\ d # NoDialog /\ d.step \in {"newPerms", "editPerms"} /\ d.perms \subseteq d.caller
      /\ d.step = "newPerms" => RoleIds \ KnownRoles # {}
      /\ roleDialog' = [roleDialog EXCEPT ![p] = NoDialog]
      /\ roles' = IF d.step = "newPerms" THEN CreateRole(d) ELSE UpdateRole(d)
      /\ spread' = spread \cup (d.caller \cap Touched(d))
      /\ UNCHANGED <<roleOf, task, staffUp, work, firstHolders, demoted>>
  BY <1>2 DEF PermsDone
<1>4. d \in NewDialogs \cup EditDialogs
  BY <1>1, <1>2, <1>3 DEF StaffTypes, NamingDialogs
<1>5. d.name \in Names /\ d.perms \in Perms /\ d.caller \in Perms
  BY <1>4 DEF NewDialogs, EditDialogs
<1>6. d.perms \subseteq spread'
  BY <1>3 DEF Touched
<1>7. spread \subseteq spread' /\ spread' \in Perms
  BY <1>1, <1>3, <1>5 DEF StaffTypes, Perms
<1>8. \A b \in Bits \ spread' : RolesKept(b)
  BY <1>7 DEF StaffInv
<1>9. Bits \ spread' # {} => 2 \in Named(SuperName)
  BY <1>8 DEF RolesKept, SuperHolds
<1>10. CASE d.step = "newPerms"
  <2>1. PICK k : k = FirstFree(RoleIds \ KnownRoles)
    OBVIOUS
  <2>2. k \in RoleIds \ KnownRoles
    BY <1>3, <1>10, <2>1, FirstFreeIsFree
  <2>3. PICK row : row = [name |-> d.name, perms |-> d.perms, default |-> FALSE]
    OBVIOUS
  <2>4. row \in RoleRows /\ row.perms = d.perms /\ row.name = d.name
    BY <1>5, <2>3 DEF RoleRows
  <2>5. roles' = IF Named(d.name) # {} THEN roles ELSE [roles EXCEPT ![k] = row]
    BY <1>3, <1>10, <2>1, <2>3 DEF CreateRole
  <2>6. CASE Named(d.name) # {}
    <3>1. UNCHANGED roles
      BY <2>5, <2>6
    <3>2. QED
      BY <1>3, <1>7, <2>2, <2>4, <3>1, RoleWritten
  <2>7. CASE Named(d.name) = {}
    <3>1. roles' = [roles EXCEPT ![k] = row]
      BY <2>5, <2>7
    <3>2. Bits \ spread' # {} => k # 2 /\ row.name # SuperName
      BY <1>9, <2>2, <2>4, <2>7 DEF Named
    <3>3. QED
      BY <1>3, <1>6, <1>7, <2>2, <2>4, <3>1, <3>2, RoleWritten
  <2>8. QED
    BY <2>6, <2>7
<1>11. CASE d.step = "editPerms"
  <2>1. PICK k \in RoleIds : k = d.role
    BY <1>4, <1>11 DEF NewDialogs, EditDialogs
  <2>2. roles' = IF k \notin KnownRoles \/ Named(d.name) \ {k} # {} THEN roles
                 ELSE [roles EXCEPT ![k].name = d.name, ![k].perms = d.perms]
    BY <1>3, <1>11, <2>1 DEF UpdateRole
  <2>3. CASE k \notin KnownRoles \/ Named(d.name) \ {k} # {}
    <3>1. UNCHANGED roles
      BY <2>2, <2>3
    <3>2. [name |-> SuperName, perms |-> {}, default |-> FALSE] \in RoleRows
      BY StaffFacts DEF RoleRows, Perms
    <3>3. PICK row \in RoleRows : TRUE
      BY <3>2
    <3>4. QED
      BY <1>3, <1>7, <3>1, <3>3, RoleWritten
  <2>4. CASE k \in KnownRoles /\ Named(d.name) \ {k} = {}
    <3>1. roles[k] \in RoleRows
      BY <1>1, <2>4 DEF StaffTypes, KnownRoles
    <3>2. PICK row : row = [roles[k] EXCEPT !.name = d.name, !.perms = d.perms]
      OBVIOUS
    <3>3. row \in RoleRows /\ row.perms = d.perms /\ row.name = d.name /\ row.default = roles[k].default
      BY <1>5, <3>1, <3>2 DEF RoleRows
    <3>4. roles' = [roles EXCEPT ![k] = row]
      BY <1>1, <2>2, <2>4, <3>1, <3>2 DEF StaffTypes, RoleRows
    <3>5. ASSUME Bits \ spread' # {} PROVE k # 2 /\ row.name # SuperName
      <4>1. PICK b \in Bits : b \notin spread'
        BY <3>5
      <4>2. RolesKept(b) /\ 2 \in Named(SuperName)
        BY <1>8, <1>9, <4>1
      <4>3. ASSUME k = 2 PROVE FALSE
        <5>1. Editing(p, 2)
          BY <1>2, <1>3, <1>11, <2>1, <4>3 DEF Editing
        <5>2. b \in d.caller /\ b \in roles[2].perms
          BY <1>2, <4>2, <5>1 DEF RolesKept, SuperHolds
        <5>3. b \in Touched(d)
          BY <1>11, <2>1, <2>4, <4>3, <5>2 DEF Touched
        <5>4. QED
          BY <1>3, <4>1, <5>2, <5>3
      <4>4. QED
        BY <2>4, <3>3, <4>2, <4>3
    <3>6. QED
      BY <1>3, <1>6, <1>7, <3>3, <3>4, <3>5, RoleWritten
  <2>5. QED
    BY <2>3, <2>4
<1>12. QED
  BY <1>3, <1>10, <1>11
\* A deletion ends: the role goes with its loaded members' role ids, or, when
\* somebody else has got the role, nothing happens.
LEMMA DeleteFlushStep == ASSUME StaffInv, NEW p \in People, DeleteFlush(p) PROVE StaffInv'
<1>1. StaffTypes /\ RegistrationRole /\ UsersHaveRoles /\ roleOf[Owner] # Unregistered
  BY DEF StaffInv
<1>2. UNCHANGED <<roleDialog, staffUp, work>> /\ UNCHANGED <<spread, firstHolders, demoted>>
  BY DEF DeleteFlush, ghosts
<1>3. task[p] \in FlushTasks /\ task[p] # NoTask /\ task[p].kind = "flush"
  BY <1>1 DEF DeleteFlush, StaffTypes, DeleteTasks, AssignTasks
<1>4. PICK k \in RoleIds, m \in SUBSET People : k = task[p].role /\ m = task[p].members
  BY <1>3 DEF FlushTasks
<1>5. task' = [task EXCEPT ![p] = NoTask]
  BY DEF DeleteFlush
<1>6. task'[p] = NoTask /\ \A q \in People \ {p} : task'[q] = task[q]
  BY <1>1, <1>5 DEF StaffTypes
<1>7. task' \in [People -> {NoTask} \cup AssignTasks \cup DeleteTasks \cup FlushTasks]
  BY <1>1, <1>5 DEF StaffTypes
<1>8. \/ UNCHANGED <<roles, roleOf>>
      \/ /\ \A q \in People \ m : roleOf[q] # k
         /\ roleOf' = [q \in People |-> IF q \in m THEN NoRoleId ELSE roleOf[q]]
         /\ roles' = [roles EXCEPT ![k] = NoRow]
  BY <1>4 DEF DeleteFlush
<1>9. roles' \in [RoleIds -> {NoRow} \cup RoleRows]
  BY <1>1, <1>8 DEF StaffTypes
<1>10. roleOf' \in [People -> RoleIds \cup {Unregistered, NoRoleId}]
  BY <1>1, <1>8 DEF StaffTypes
<1>11. StaffTypes'
  BY <1>1, <1>2, <1>7, <1>9, <1>10 DEF StaffTypes
<1>12. /\ \A r \in RoleIds : roles'[r] = roles[r] \/ (r = k /\ roles'[r] = NoRow)
       /\ \A q \in People : roleOf'[q] \in {roleOf[q], NoRoleId}
  BY <1>1, <1>8 DEF StaffTypes
<1>13. KnownRoles \ {k} \subseteq KnownRoles' /\ KnownRoles' \subseteq KnownRoles
  BY <1>12 DEF KnownRoles
<1>14. \A r \in KnownRoles' : roles'[r] = roles[r]
  BY <1>12 DEF KnownRoles
<1>15. Deleting(p, k)
  BY <1>3, <1>4 DEF Deleting
<1>16. RegistrationRole'
  <2>1. ASSUME ~demoted PROVE 1 \in KnownRoles' /\ roles'[1].default
    BY <1>1, <1>13, <1>14, <1>15, <2>1 DEF RegistrationRole
  <2>2. QED
    BY <1>1, <1>2, <1>6, <2>1 DEF RegistrationRole, Deleting
<1>17. UsersHaveRoles'
  <2>1. CASE UNCHANGED <<roles, roleOf>>
    BY <1>1, <2>1 DEF UsersHaveRoles, KnownRoles
  <2>2. CASE /\ \A q \in People \ m : roleOf[q] # k
             /\ roleOf' = [q \in People |-> IF q \in m THEN NoRoleId ELSE roleOf[q]]
    <3>1. \A q \in People : roleOf'[q] = NoRoleId \/ (roleOf'[q] = roleOf[q] /\ roleOf[q] # k)
      BY <2>2
    <3>2. QED
      BY <1>1, <1>13, <3>1 DEF UsersHaveRoles
  <2>3. QED
    BY <1>8, <2>1, <2>2
<1>18. roleOf'[Owner] # Unregistered
  <2>1. CASE roleOf'[Owner] = roleOf[Owner]
    BY <1>1, <2>1
  <2>2. CASE roleOf'[Owner] = NoRoleId
    BY <2>2, StaffFacts
  <2>3. QED
    BY <1>12, <2>1, <2>2, StaffFacts
<1>19. ASSUME NEW b \in Bits \ spread' PROVE RolesKept(b)'
  <2>1. b \in Bits \ spread /\ RolesKept(b)
    BY <1>2, <1>19 DEF StaffInv
  <2>2. k # 2
    BY <1>15, <2>1 DEF RolesKept
  <2>3. SuperHolds(b)'
    <3>1. 2 \in KnownRoles /\ roles[2].name = SuperName /\ b \in roles[2].perms
      BY <2>1 DEF RolesKept, SuperHolds, Named
    <3>2. 2 \in KnownRoles' /\ roles'[2] = roles[2]
      BY <1>13, <1>14, <2>2, <3>1
    <3>3. \A r \in KnownRoles' : roles'[r].name = SuperName => r \in Named(SuperName)
      BY <1>13, <1>14 DEF Named
    <3>4. QED
      BY <2>1, <3>1, <3>2, <3>3 DEF RolesKept, SuperHolds, Named
  <2>4. \A r \in KnownRoles' : b \in roles'[r].perms => r \in KnownRoles /\ b \in roles[r].perms
    BY <1>13, <1>14
  <2>5. \A q \in People : Deleting(q, 2)' => Deleting(q, 2)
    BY <1>6 DEF Deleting
  <2>6. \A q \in People, r \in KnownRoles : Assigning(q, r)' => Assigning(q, r)
    BY <1>6 DEF Assigning
  <2>7. \A q \in People : Editing(q, 2)' => b \in roleDialog'[q].caller
    BY <1>2, <2>1 DEF RolesKept, Editing
  <2>8. \A q \in People : roleOf'[q] \in KnownRoles' => roleOf'[q] = roleOf[q]
    BY <1>12, StaffFacts DEF KnownRoles
  <2>9. QED
    BY <1>2, <2>1, <2>3, <2>4, <2>5, <2>6, <2>7, <2>8, KeptByStep
<1>20. QED
  BY <1>11, <1>16, <1>17, <1>18, <1>19 DEF StaffInv

LEMMA ChosenIsNamed == ASSUME NEW S, S # {} PROVE (CHOOSE r \in S : TRUE) \in S
OBVIOUS

\* What the seeding writes: a row for each built-in role, and where one role
\* alone is called SUPERADMIN, that role is the one it finds.
LEMMA SeededTable ==
    ASSUME StaffInv
    PROVE  \E u, s :
              /\ InsertRoles = [roles EXCEPT
                    ![u] = [name |-> UserName, perms |-> {}, default |-> TRUE],
                    ![s] = [name |-> SuperName, perms |-> Bits, default |-> FALSE]]
              /\ Named(SuperName) = {2} => s = 2
<1>1. PICK u : u = Seeded(UserName, RoleIds \ KnownRoles)
  OBVIOUS
<1>2. PICK s : s = Seeded(SuperName, RoleIds \ (KnownRoles \cup {u}))
  OBVIOUS
<1>3. InsertRoles = [roles EXCEPT
         ![u] = [name |-> UserName, perms |-> {}, default |-> TRUE],
         ![s] = [name |-> SuperName, perms |-> Bits, default |-> FALSE]]
  BY <1>1, <1>2 DEF InsertRoles
<1>4. ASSUME Named(SuperName) = {2} PROVE s = 2
  <2>1. s = (CHOOSE r \in Named(SuperName) : TRUE)
    BY <1>2, <1>4 DEF Seeded
  <2>2. s \in Named(SuperName)
    BY <1>4, <2>1, ChosenIsNamed
  <2>3. QED
    BY <1>4, <2>2
<1>5. QED
  BY <1>3, <1>4
\* A restart forgets every dialog and handler; the seeding adds bits only to
\* the role called SUPERADMIN, and where it takes role 1's default flag the
\* step says so.
LEMMA RestartStaffStep == ASSUME StaffInv, RestartStaff PROVE StaffInv'
<1>1. StaffTypes /\ RegistrationRole /\ UsersHaveRoles /\ roleOf[Owner] # Unregistered
  BY DEF StaffInv
<1>2. UNCHANGED <<roleOf, work, spread, firstHolders>>
  BY DEF RestartStaff
<1>3. PICK u, s :
         /\ InsertRoles = [roles EXCEPT
               ![u] = [name |-> UserName, perms |-> {}, default |-> TRUE],
               ![s] = [name |-> SuperName, perms |-> Bits, default |-> FALSE]]
         /\ Named(SuperName) = {2} => s = 2
  BY SeededTable
<1>4. PICK userRow, superRow :
         /\ userRow = [name |-> UserName, perms |-> {}, default |-> TRUE]
         /\ superRow = [name |-> SuperName, perms |-> Bits, default |-> FALSE]
  OBVIOUS
<1>5. /\ userRow \in RoleRows /\ superRow \in RoleRows
      /\ userRow.name = UserName /\ userRow.perms = {} /\ superRow.perms = Bits
      /\ superRow.name = SuperName
  BY <1>4, StaffFacts DEF RoleRows, Perms
<1>6. roles' = roles \/ roles' = [roles EXCEPT ![u] = userRow, ![s] = superRow]
  BY <1>3, <1>4 DEF RestartStaff
<1>7. roles' \in [RoleIds -> {NoRow} \cup RoleRows]
  BY <1>1, <1>5, <1>6 DEF StaffTypes
<1>8. \A r \in RoleIds :
         \/ roles'[r] = roles[r]
         \/ r = s /\ roles'[r] = superRow
         \/ r # s /\ roles'[r] = userRow
  BY <1>1, <1>6 DEF StaffTypes
<1>9. \A q \in People : roleDialog'[q] = NoDialog /\ task'[q] = NoTask
  BY DEF RestartStaff
<1>10. StaffTypes'
  <2>1. /\ roleDialog' \in [People -> {NoDialog} \cup NamingDialogs \cup NewDialogs \cup EditDialogs]
        /\ task' \in [People -> {NoTask} \cup AssignTasks \cup DeleteTasks \cup FlushTasks]
    BY DEF RestartStaff
  <2>2. staffUp' \in BOOLEAN /\ demoted' \in BOOLEAN
    BY <1>1 DEF RestartStaff, StaffTypes
  <2>3. QED
    BY <1>1, <1>2, <1>7, <2>1, <2>2 DEF StaffTypes
<1>11. KnownRoles \subseteq KnownRoles' /\ KnownRoles' \subseteq RoleIds
  BY <1>5, <1>8, StaffFacts DEF KnownRoles
<1>12. RegistrationRole'
  <2>1. SUFFICES ASSUME ~demoted' PROVE 1 \in KnownRoles' /\ roles'[1].default
    BY <1>9 DEF RegistrationRole, Deleting
  <2>2. ~demoted /\ ~(1 \in KnownRoles /\ roles[1].default /\ ~roles'[1].default)
    BY <2>1 DEF RestartStaff
  <2>3. QED
    BY <1>1, <1>11, <2>2 DEF RegistrationRole
<1>13. UsersHaveRoles' /\ roleOf'[Owner] # Unregistered
  BY <1>1, <1>2, <1>11 DEF UsersHaveRoles
<1>14. ASSUME NEW b \in Bits \ spread' PROVE RolesKept(b)'
  <2>1. b \in Bits \ spread /\ RolesKept(b)
    BY <1>2, <1>14 DEF StaffInv
  <2>2. 2 \in KnownRoles /\ roles[2].name = SuperName /\ b \in roles[2].perms /\ s = 2
    BY <1>3, <2>1 DEF RolesKept, SuperHolds, Named
  <2>3. SuperHolds(b)'
    <3>1. 2 \in KnownRoles' /\ roles'[2].name = SuperName /\ b \in roles'[2].perms
      BY <1>5, <1>8, <1>11, <2>1, <2>2, StaffFacts
    <3>2. ASSUME NEW r \in KnownRoles', roles'[r].name = SuperName PROVE r = 2
      <4>1. CASE roles'[r] = roles[r]
        <5>1. r \in Named(SuperName)
          BY <1>11, <3>2, <4>1 DEF Named, KnownRoles
        <5>2. QED
          BY <2>1, <5>1 DEF RolesKept, SuperHolds
      <4>2. CASE roles'[r] = userRow
        BY <1>5, <3>2, <4>2, NamesDiffer
      <4>3. QED
        BY <1>8, <1>11, <2>2, <4>1, <4>2
    <3>3. QED
      BY <3>1, <3>2 DEF SuperHolds, Named
  <2>4. ASSUME NEW r \in KnownRoles', b \in roles'[r].perms
        PROVE  r \in KnownRoles /\ b \in roles[r].perms
    <3>1. r \in RoleIds
      BY <1>11
    <3>2. CASE roles'[r] = roles[r]
      BY <2>4, <3>1, <3>2 DEF KnownRoles
    <3>3. CASE r = s
      BY <2>2, <3>3
    <3>4. CASE roles'[r] = userRow
      BY <1>5, <2>4, <3>4
    <3>5. QED
      BY <1>8, <3>1, <3>2, <3>3, <3>4
  <2>5. \A q \in People : /\ Deleting(q, 2)' => Deleting(q, 2)
                          /\ Editing(q, 2)' => b \in roleDialog'[q].caller
    BY <1>9 DEF Deleting, Editing
  <2>6. \A q \in People, r \in KnownRoles : Assigning(q, r)' => Assigning(q, r)
    BY <1>9 DEF Assigning
  <2>7. \A q \in People : roleOf'[q] = roleOf[q]
    BY <1>2
  <2>8. QED
    BY <1>2, <2>1, <2>3, <2>4, <2>5, <2>6, <2>7, KeptByStep
<1>15. QED
  BY <1>10, <1>12, <1>13, <1>14 DEF StaffInv

LEMMA StaffSteps == StaffInv /\ [StaffNext]_staffVars => StaffInv'
<1>1. SUFFICES ASSUME StaffInv, [StaffNext]_staffVars PROVE StaffInv'
  OBVIOUS
<1>2. CASE UNCHANGED staffVars
  <2>1. /\ UNCHANGED <<roles, roleOf, roleDialog, task, staffUp, work>>
        /\ UNCHANGED <<spread, firstHolders, demoted>>
    BY <1>2 DEF staffVars
  <2>2. StaffTypes' /\ RegistrationRole' /\ UsersHaveRoles' /\ roleOf'[Owner] # Unregistered
    BY <1>1, <2>1 DEF StaffInv, StaffTypes, RegistrationRole, UsersHaveRoles, KnownRoles, Deleting
  <2>3. ASSUME NEW b \in Bits \ spread' PROVE RolesKept(b)'
    <3>1. b \in Bits \ spread /\ RolesKept(b)
      BY <1>1, <2>1, <2>3 DEF StaffInv
    <3>2. /\ \A q \in People : Deleting(q, 2)' => Deleting(q, 2)
          /\ \A q \in People, r \in KnownRoles : Assigning(q, r)' => Assigning(q, r)
      BY <2>1 DEF Deleting, Assigning
    <3>3. \A q \in People : Editing(q, 2)' => b \in roleDialog'[q].caller
      BY <2>1, <3>1 DEF RolesKept, Editing
    <3>4. QED
      BY <1>1, <2>1, <3>1, <3>2, <3>3, KeptWithTable
  <2>4. QED
    BY <2>2, <2>3 DEF StaffInv
<1>3. QED
  BY <1>1, <1>2, RestartStaffStep, RegisterStep, DialogActions, PermsDoneStep, AssignStep,
     TaskActions, DeleteFlushStep DEF StaffNext

LEMMA StaffAlways == StaffSpec => []StaffInv
BY StaffStart, StaffSteps, PTL DEF StaffSpec

\* Nobody comes by a permission that no holder of it gave to anyone or took
\* from a role, for any staff, roles, permissions and number of role dialogs,
\* assignments, deletions and restarts: what a dialog read when it was opened
\* and what an assignment read before it commits never lets a bit through.
THEOREM NobodyEscalates == StaffSpec => []NoEscalation
<1>1. StaffInv => NoEscalation
  BY DEF StaffInv, RolesKept, NoEscalation
<1>2. QED
  BY <1>1, StaffAlways, PTL

\* A user's role exists or was taken from the user by its deletion, and role 1,
\* which registration hard-codes, stays as long as no restart has seeded it as
\* another built-in role, whatever renames and deletions the staff attempt.
THEOREM RolesAlwaysStand == StaffSpec => []RolesStand
<1>1. StaffInv => RolesStand
  BY DEF StaffInv, RegistrationRole, UsersHaveRoles, RolesStand
<1>2. QED
  BY <1>1, StaffAlways, PTL
-----------------------------------------------------------------------------
(***************************************************************************)
(* The storefront                                                          *)
(***************************************************************************)

\* What a session, a list it remembers and a screen are made of.
AnItem == Positions \cup {NoItem}
Anyone == Recipients \cup {NoOne}
Listings == [page : Nat, rows : Seq(Positions), saved : BOOLEAN]
ShopData == [csrf : AnItem, back : {"goods", "results"}, promo : AnItem, pre : FsmStates,
             to : Anyone, reviewItem : AnItem, rated : BOOLEAN, category : BOOLEAN,
             goods : Listings, query : BOOLEAN, results : Listings]
ScreenKinds == {"menu", "categories", "goods", "results", "card", "confirm", "query", "nothing found",
                "promo prompt", "redeem prompt", "gift prompt", "rating", "review text", "reviews",
                "notice", "receipt"}
ShopScreens == [kind : ScreenKinds, item : AnItem, to : Anyone, page : Nat, rows : Seq(Positions)]

\* The rows of the list drawn last are the ones the session remembers for its
\* page: nothing draws over a list or forgets it without drawing, except that a
\* session dropped under it knows neither a list nor what to search for.
Remembered(l, known) ==
    \/ l = [page |-> screen.page, rows |-> screen.rows, saved |-> TRUE]
    \/ "lost" \in since /\ ~l.saved /\ ~known
RowsRemembered ==
    /\ screen.kind = "goods" => Remembered(data.goods, data.category)
    /\ screen.kind = "results" => Remembered(data.results, data.query)

\* The session data d has the lists of the session.
SameLists(d) == /\ d.goods = data.goods /\ d.results = data.results
                /\ d.category = data.category /\ d.query = data.query

ShopInv ==
    /\ onSale \subseteq Positions /\ ordered \subseteq onSale
    /\ fsm \in FsmStates /\ data \in ShopData /\ screen \in ShopScreens
    /\ since \subseteq {"purchase", "lost"} /\ taps \in 0..MaxTaps
    /\ RowsRemembered

LEMMA ShopFacts ==
    /\ PerPage \in Nat \ {0} /\ MaxTaps \in Nat /\ NoItem \notin Positions
    /\ Shelf \in Seq(Positions) /\ Found \in Seq(Positions)
BY StorefrontAssumption

\* A page of a query is a sequence of positions.
LEMMA PageType ==
    ASSUME NEW list \in Seq(Positions), NEW page \in Nat
    PROVE  PageOf(list, page) \in Seq(Positions)
<1>1. PICK live : live = {n \in 1..Len(list) : list[n] \in onSale}
  OBVIOUS
<1>2. PICK shown : shown = {n \in live : Cardinality({m \in live : m < n}) \div PerPage = page}
  OBVIOUS
<1>3. PICK size : size = Cardinality(shown)
  OBVIOUS
<1>4. Len(list) \in Nat /\ shown \subseteq 1..Len(list) /\ shown \subseteq Nat
  BY <1>1, <1>2
<1>5. IsFiniteSet(shown) /\ size \in Nat
  <2>1. IsFiniteSet(1..Len(list))
    BY <1>4, FS_Interval
  <2>2. IsFiniteSet(shown)
    BY <1>4, <2>1, FS_Subset
  <2>3. QED
    BY <1>3, <2>2, FS_CardinalityType
<1>6. \E f \in [1..size -> shown] : \A j, k \in 1..size : j < k => f[j] < f[k]
  BY <1>3, <1>4, <1>5, AscendingExists DEF Rises
<1>7. PICK place : place = Ascending(shown)
  OBVIOUS
<1>8. place \in [1..size -> shown]
  BY <1>3, <1>6, <1>7 DEF Ascending
<1>9. \A k \in 1..size : list[place[k]] \in Positions
  BY <1>4, <1>8, ElementOfSeq
<1>10. PageOf(list, page) = [k \in 1..size |-> list[place[k]]]
  BY <1>1, <1>2, <1>3, <1>7 DEF PageOf
<1>11. PageOf(list, page) \in [1..size -> Positions]
  BY <1>9, <1>10
<1>12. QED
  BY <1>5, <1>11, SeqDef

\* A session that knows no category finds no row.
LEMMA EmptyPage == ASSUME NEW page \in Nat PROVE Len(PageOf(<<>>, page)) = 0
<1>1. PICK live : live = {n \in 1..Len(<<>>) : <<>>[n] \in onSale}
  OBVIOUS
<1>2. PICK shown : shown = {n \in live : Cardinality({m \in live : m < n}) \div PerPage = page}
  OBVIOUS
<1>3. live = {} /\ shown = {}
  BY <1>1, <1>2
<1>4. Cardinality(shown) = 0
  BY <1>3, FS_EmptySet
<1>5. PICK place : place = Ascending(shown)
  OBVIOUS
<1>6. PageOf(<<>>, page) = [k \in 1..Cardinality(shown) |-> <<>>[place[k]]]
  BY <1>1, <1>2, <1>5 DEF PageOf
<1>7. QED
  BY <1>4, <1>6

\* What a press on a row opens is a position, or nothing.
LEMMA RowType ==
    ASSUME NEW saved \in Listings, NEW list \in Seq(Positions), NEW page \in Nat,
           NEW idx \in Nat \ {0}
    PROVE  Row(saved, list, page, idx) \in AnItem
<1>1. PICK found : found = PageOf(list, page)
  OBVIOUS
<1>2. found \in Seq(Positions) /\ saved.rows \in Seq(Positions)
  BY <1>1, PageType DEF Listings
<1>3. \A s \in Seq(Positions) : idx <= Len(s) => s[idx] \in Positions
  BY ElementOfSeq
<1>4. Row(saved, list, page, idx) =
         IF saved.saved /\ saved.page = page /\ idx <= Len(saved.rows) THEN saved.rows[idx]
         ELSE IF idx <= Len(found) THEN found[idx] ELSE NoItem
  BY <1>1 DEF Row
<1>5. QED
  BY <1>2, <1>3, <1>4 DEF AnItem

\* A row that is remembered opens what it names, whatever the query says now.
LEMMA RememberedRow ==
    ASSUME NEW drawn \in Seq(Positions), NEW list, NEW page \in Nat,
           NEW idx \in Nat \ {0}, idx <= Len(drawn)
    PROVE  Row([page |-> page, rows |-> drawn, saved |-> TRUE], list, page, idx) = drawn[idx]
BY DEF Row

LEMMA DrawnType ==
    /\ \A k \in ScreenKinds : Drawn(k) \in ShopScreens /\ Drawn(k).kind = k
    /\ \A k \in ScreenKinds, i \in AnItem : DrawnFor(k, i) \in ShopScreens /\ DrawnFor(k, i).kind = k
<1>1. <<>> \in Seq(Positions)
  OBVIOUS
<1>2. \A k \in ScreenKinds : Drawn(k) \in ShopScreens /\ Drawn(k).kind = k
  BY <1>1 DEF Drawn, ShopScreens, AnItem, Anyone
<1>3. ASSUME NEW k \in ScreenKinds, NEW i \in AnItem
      PROVE  DrawnFor(k, i) \in ShopScreens /\ DrawnFor(k, i).kind = k
  BY <1>2 DEF DrawnFor, ShopScreens
<1>4. QED
  BY <1>2, <1>3

LEMMA ClearedType == Cleared \in ShopData
<1>1. NoList \in Listings
  BY DEF NoList, Listings
<1>2. QED
  BY <1>1 DEF Cleared, ShopData, AnItem, Anyone, FsmStates

\* A handler draws something without rows, or leaves list and screen alone.
LEMMA ShopKept ==
    ASSUME ShopInv, onSale' = onSale, ordered' = ordered, fsm' \in FsmStates,
           data' \in ShopData, since' \subseteq {"purchase", "lost"}, Tap \/ taps' = taps,
           \/ screen' \in ShopScreens /\ screen'.kind \notin {"goods", "results"}
           \/ screen' = screen /\ SameLists(data') /\ since \subseteq since'
           \/ screen' = screen /\ data' = Cleared /\ "lost" \in since'
    PROVE  ShopInv'
<1>1. taps' \in 0..MaxTaps
  BY ShopFacts DEF ShopInv, Tap
<1>2. RowsRemembered'
  <2>1. CASE screen'.kind \notin {"goods", "results"}
    BY <2>1 DEF RowsRemembered
  <2>2. CASE screen' = screen /\ SameLists(data') /\ since \subseteq since'
    BY <2>2 DEF ShopInv, RowsRemembered, Remembered, SameLists
  <2>3. CASE screen' = screen /\ data' = Cleared /\ "lost" \in since'
    BY <2>3 DEF RowsRemembered, Remembered, Cleared, NoList
  <2>4. QED
    BY <2>1, <2>2, <2>3
<1>3. QED
  BY <1>1, <1>2 DEF ShopInv

LEMMA ShopQuiet ==
    ASSUME ShopInv, Tap \/ taps' = taps, onSale' = onSale, ordered' = ordered, Alert
    PROVE  ShopInv'
<1>1. fsm' \in FsmStates /\ data' \in ShopData /\ since' \subseteq {"purchase", "lost"}
      /\ screen' = screen /\ SameLists(data') /\ since \subseteq since'
  BY DEF Alert, ShopInv, SameLists
<1>2. QED
  BY <1>1, ShopKept

LEMMA ShopDrawn ==
    ASSUME ShopInv, Tap \/ taps' = taps, onSale' = onSale, ordered' = ordered,
           fsm' \in FsmStates, data' \in ShopData, NEW s \in ShopScreens, Draw(s),
           s.kind \notin {"goods", "results"}
    PROVE  ShopInv'
<1>1. screen' = s /\ since' = {}
  BY DEF Draw
<1>2. QED
  BY <1>1, ShopKept

\* _render_item_page draws the card ...
LEMMA ShopCardShown ==
    ASSUME ShopInv, Tap, onSale' = onSale, ordered' = ordered,
           NEW i \in AnItem, NEW d \in ShopData, NEW f, NEW m, i \in onSale, RenderItem(i, d, f, m)
    PROVE  ShopInv'
<1>1. fsm' = BrowsingState(d) /\ Draw(DrawnFor("card", i))
  BY DEF RenderItem
<1>2. fsm' \in FsmStates
  BY <1>1 DEF BrowsingState, FsmStates
<1>3. PICK e : e = [d EXCEPT !.promo = NoItem]
  OBVIOUS
<1>4. e \in ShopData
  BY <1>3 DEF ShopData, AnItem
<1>5. data' = d \/ data' = e
  BY <1>3 DEF RenderItem
<1>6. DrawnFor("card", i) \in ShopScreens /\ DrawnFor("card", i).kind = "card"
  BY DrawnType DEF ScreenKinds
<1>7. QED
  BY <1>1, <1>2, <1>4, <1>5, <1>6, ShopDrawn

\* ... or, for a position that is gone, leaves the screen as it is ...
LEMMA ShopCardStays ==
    ASSUME ShopInv, Tap, onSale' = onSale, ordered' = ordered,
           NEW i \in AnItem, NEW d \in ShopData, NEW f \in FsmStates, SameLists(d),
           RenderItem(i, d, f, screen)
    PROVE  ShopInv'
<1>1. CASE i \notin onSale
  <2>1. fsm' = f /\ data' = d /\ screen' = screen /\ since' = since
    BY <1>1 DEF RenderItem
  <2>2. since' \subseteq {"purchase", "lost"}
    BY <2>1 DEF ShopInv
  <2>3. QED
    BY <2>1, <2>2, ShopKept
<1>2. CASE i \in onSale
  <2>1. PICK m : m = screen
    OBVIOUS
  <2>2. RenderItem(i, d, f, m)
    BY <2>1
  <2>3. QED
    BY <1>2, <2>2, ShopCardShown
<1>3. QED
  BY <1>1, <1>2

\* ... or draws a notice.
LEMMA ShopCardElse ==
    ASSUME ShopInv, Tap, onSale' = onSale, ordered' = ordered,
           NEW i \in AnItem, NEW d \in ShopData, NEW f \in FsmStates, NEW m \in ShopScreens,
           m.kind \notin {"goods", "results"}, RenderItem(i, d, f, m)
    PROVE  ShopInv'
<1>1. CASE i \notin onSale
  <2>1. fsm' = f /\ data' = d /\ screen' = m /\ since' \in {{}, since}
    BY <1>1 DEF RenderItem, Draw
  <2>2. since' \subseteq {"purchase", "lost"}
    BY <2>1 DEF ShopInv
  <2>3. QED
    BY <2>1, <2>2, ShopKept
<1>2. CASE i \in onSale
  BY <1>2, ShopCardShown
<1>3. QED
  BY <1>1, <1>2

\* Handlers that draw a screen without rows or only answer the press.
LEMMA ShopPlain ==
    ASSUME ShopInv,
           \/ GoToMenu \/ AskQuery \/ AskPromo \/ AskRedeem \/ RedeemText \/ Rate \/ SubmitReview
           \/ ViewReviews \/ AskRecipient
           \/ \E b \in BOOLEAN : ShowCategories(b) \/ StartReview(b)
    PROVE  ShopInv'
<1>1. \A k \in {"menu", "query", "promo prompt", "redeem prompt", "notice", "rating", "review text",
                "reviews", "gift prompt", "categories"} :
         Drawn(k) \in ShopScreens /\ Drawn(k).kind \notin {"goods", "results"}
  BY DrawnType DEF ScreenKinds
<1>2. /\ Tap /\ onSale' = onSale /\ ordered' = ordered
  BY DEF GoToMenu, AskQuery, AskPromo, AskRedeem, RedeemText, Rate, SubmitReview,
         ViewReviews, AskRecipient, ShowCategories, StartReview, shopVars
<1>3. data \in ShopData /\ fsm \in FsmStates
  BY DEF ShopInv
<1>4. CASE GoToMenu \/ RedeemText \/ SubmitReview
  <2>1. data' = Cleared /\ fsm' = "none" /\ (Draw(Drawn("menu")) \/ Draw(Drawn("notice")))
    BY <1>4 DEF GoToMenu, RedeemText, SubmitReview, Menu
  <2>2. data' \in ShopData /\ fsm' \in FsmStates
    BY <2>1, ClearedType DEF FsmStates
  <2>3. QED
    BY <1>1, <1>2, <2>1, <2>2, ShopDrawn
<1>5. CASE AskQuery \/ AskRedeem \/ \E b \in BOOLEAN : ShowCategories(b)
  <2>1. /\ data' = data /\ fsm' \in {"query", "redeem", "categories", fsm}
        /\ Draw(Drawn("query")) \/ Draw(Drawn("redeem prompt")) \/ Draw(Drawn("categories"))
    BY <1>5 DEF AskQuery, AskRedeem, ShowCategories
  <2>2. data' \in ShopData /\ fsm' \in FsmStates
    BY <1>3, <2>1 DEF FsmStates
  <2>3. QED
    BY <1>1, <1>2, <2>1, <2>2, ShopDrawn
<1>6. CASE AskPromo
  <2>1. data' = [data EXCEPT !.pre = fsm] /\ fsm' = "itemCode" /\ Draw(Drawn("promo prompt"))
    BY <1>6 DEF AskPromo
  <2>2. data' \in ShopData /\ fsm' \in FsmStates
    BY <1>3, <2>1 DEF ShopData, FsmStates
  <2>3. QED
    BY <1>1, <1>2, <2>1, <2>2, ShopDrawn
<1>7. CASE Rate
  <2>1. data' = [data EXCEPT !.rated = TRUE] /\ fsm' = "text" /\ Draw(Drawn("review text"))
    BY <1>7 DEF Rate
  <2>2. data' \in ShopData /\ fsm' \in FsmStates
    BY <1>3, <2>1 DEF ShopData, FsmStates
  <2>3. QED
    BY <1>1, <1>2, <2>1, <2>2, ShopDrawn
<1>8. CASE ViewReviews \/ AskRecipient
  <2>1. CASE Alert
    BY <1>2, <2>1, ShopQuiet
  <2>2. CASE /\ data' = data /\ fsm' \in {"gift", fsm}
             /\ Draw(Drawn("reviews")) \/ Draw(Drawn("gift prompt"))
    <3>1. data' \in ShopData /\ fsm' \in FsmStates
      BY <1>3, <2>2 DEF FsmStates
    <3>2. QED
      BY <1>1, <1>2, <2>2, <3>1, ShopDrawn
  <2>3. QED
    BY <1>8, <2>1, <2>2 DEF ViewReviews, AskRecipient
<1>9. ASSUME NEW b \in BOOLEAN, StartReview(b) PROVE ShopInv'
  <2>1. CASE Alert
    BY <1>2, <2>1, ShopQuiet
  <2>2. CASE data' = [data EXCEPT !.reviewItem = data.csrf] /\ fsm' = "rating" /\ Draw(Drawn("rating"))
    <3>1. data' \in ShopData /\ fsm' \in FsmStates
      BY <1>3, <2>2 DEF ShopData, FsmStates
    <3>2. QED
      BY <1>1, <1>2, <2>2, <3>1, ShopDrawn
  <2>3. QED
    BY <1>9, <2>1, <2>2 DEF StartReview
<1>10. QED
  BY <1>4, <1>5, <1>6, <1>7, <1>8, <1>9

\* A list is drawn and remembered in one handler.
LEMMA ShopListed ==
    ASSUME ShopInv, Tap, onSale' = onSale, ordered' = ordered, NEW page \in Nat,
           \/ \E c \in BOOLEAN : ShowGoods(c, page)
           \/ ShowResults(page)
    PROVE  ShopInv'
<1>1. data \in ShopData /\ taps' \in 0..MaxTaps
  BY ShopFacts DEF ShopInv, Tap
<1>2. ASSUME NEW c \in BOOLEAN, ShowGoods(c, page) PROVE ShopInv'
  <2>1. PICK rs : rs = IF c THEN PageOf(Shelf, page) ELSE <<>>
    OBVIOUS
  <2>2. rs \in Seq(Positions)
    BY <2>1, PageType, ShopFacts
  <2>3. PICK l : l = [page |-> page, rows |-> rs, saved |-> TRUE]
    OBVIOUS
  <2>4. l \in Listings
    BY <2>2, <2>3 DEF Listings
  <2>5. data' = [data EXCEPT !.category = c, !.goods = l]
    BY <1>2, <2>1, <2>3 DEF ShowGoods
  <2>6. data' \in ShopData /\ data'.goods = l
    BY <1>1, <2>4, <2>5 DEF ShopData
  <2>7. screen' = [Drawn("goods") EXCEPT !.page = page, !.rows = rs] /\ since' = {}
        /\ fsm' = "goods"
    BY <1>2, <2>1 DEF ShowGoods, Draw
  <2>8. screen' \in ShopScreens /\ screen'.kind = "goods" /\ screen'.page = page /\ screen'.rows = rs
    BY <2>2, <2>7 DEF ShopScreens, ScreenKinds, Drawn, AnItem, Anyone
  <2>9. RowsRemembered'
    BY <2>3, <2>6, <2>8 DEF RowsRemembered, Remembered
  <2>10. fsm' \in FsmStates
    BY <2>7 DEF FsmStates
  <2>11. QED
    BY <1>1, <2>6, <2>7, <2>8, <2>9, <2>10 DEF ShopInv
<1>3. ASSUME ShowResults(page) PROVE ShopInv'
  <2>1. PICK rs : rs = PageOf(Found, page)
    OBVIOUS
  <2>2. rs \in Seq(Positions)
    BY <2>1, PageType, ShopFacts
  <2>3. PICK l : l = [page |-> page, rows |-> rs, saved |-> TRUE]
    OBVIOUS
  <2>4. l \in Listings
    BY <2>2, <2>3 DEF Listings
  <2>5. CASE rs = <<>> /\ page = 0
    <3>1. Draw(Drawn("nothing found")) /\ fsm' = "none" /\ data' = data
      BY <1>3, <2>1, <2>5 DEF ShowResults
    <3>2. fsm' \in FsmStates /\ data' \in ShopData
      BY <1>1, <3>1 DEF FsmStates
    <3>3. Drawn("nothing found") \in ShopScreens /\ Drawn("nothing found").kind = "nothing found"
      BY DrawnType DEF ScreenKinds
    <3>4. QED
      BY <3>1, <3>2, <3>3, ShopDrawn
  <2>6. CASE ~(rs = <<>> /\ page = 0)
    <3>1. data' = [data EXCEPT !.query = TRUE, !.results = l]
      BY <1>3, <2>1, <2>3, <2>6 DEF ShowResults
    <3>2. data' \in ShopData /\ data'.results = l
      BY <1>1, <2>4, <3>1 DEF ShopData
    <3>3. screen' = [Drawn("results") EXCEPT !.page = page, !.rows = rs] /\ since' = {}
          /\ fsm' = "results"
      BY <1>3, <2>1, <2>6 DEF ShowResults, Draw
    <3>4. screen' \in ShopScreens /\ screen'.kind = "results" /\ screen'.page = page
          /\ screen'.rows = rs
      BY <2>2, <3>3 DEF ShopScreens, ScreenKinds, Drawn, AnItem, Anyone
    <3>5. RowsRemembered'
      BY <2>3, <3>2, <3>4 DEF RowsRemembered, Remembered
    <3>6. fsm' \in FsmStates
      BY <3>3 DEF FsmStates
    <3>7. QED
      BY <1>1, <3>2, <3>3, <3>4, <3>5, <3>6 DEF ShopInv
  <2>7. QED
    BY <2>5, <2>6
<1>4. QED
  BY <1>2, <1>3

LEMMA ShopBrowsing ==
    ASSUME ShopInv,
           \/ OpenCategory
           \/ \E b \in BOOLEAN : ReceiveQuery(b)
           \/ \E page \in Pages : NavigateGoods(page) \/ NavigateResults(page)
           \/ \E page \in Pages, idx \in 1..PerPage : PressRow(idx, page) \/ PressResult(idx, page)
    PROVE  ShopInv'
<1>1. data \in ShopData /\ fsm \in FsmStates /\ PerPage \in Nat
  BY ShopFacts DEF ShopInv
<1>2. Tap /\ onSale' = onSale /\ ordered' = ordered
  BY DEF OpenCategory, ReceiveQuery, NavigateGoods, NavigateResults, PressRow, PressResult, shopVars
<1>3. Pages \subseteq Nat /\ data.category \in BOOLEAN /\ data.query \in BOOLEAN
      /\ data.goods \in Listings /\ data.results \in Listings /\ <<>> \in Seq(Positions)
  BY <1>1 DEF Pages, ShopData
<1>4. CASE OpenCategory
  BY <1>2, <1>4, ShopListed DEF OpenCategory
<1>5. ASSUME NEW page \in Pages, NavigateGoods(page) \/ NavigateResults(page) PROVE ShopInv'
  BY <1>2, <1>3, <1>5, ShopListed DEF NavigateGoods, NavigateResults
<1>6. ASSUME NEW b \in BOOLEAN, ReceiveQuery(b) PROVE ShopInv'
  <2>1. CASE ShowResults(0)
    BY <1>2, <2>1, ShopListed
  <2>2. CASE Draw(Drawn("query")) /\ UNCHANGED <<fsm, data>>
    <3>1. Drawn("query") \in ShopScreens /\ Drawn("query").kind = "query"
      BY DrawnType DEF ScreenKinds
    <3>2. fsm' \in FsmStates /\ data' \in ShopData
      BY <1>1, <2>2
    <3>3. QED
      BY <1>2, <2>2, <3>1, <3>2, ShopDrawn
  <2>3. QED
    BY <1>6, <2>1, <2>2 DEF ReceiveQuery
<1>7. ASSUME NEW i \in AnItem, NEW back \in {"goods", "results"}, OpenItem(i, back) PROVE ShopInv'
  <2>1. PICK v : v = IF data.csrf = i THEN data.promo ELSE NoItem
    OBVIOUS
  <2>2. PICK d : d = [data EXCEPT !.csrf = i, !.back = back, !.promo = v]
    OBVIOUS
  <2>3. v \in AnItem
    BY <1>1, <2>1 DEF ShopData, AnItem
  <2>4. d \in ShopData /\ SameLists(d)
    BY <1>1, <2>2, <2>3 DEF ShopData, SameLists
  <2>5. RenderItem(i, d, fsm, screen)
    BY <1>7, <2>1, <2>2 DEF OpenItem
  <2>6. QED
    BY <1>1, <1>2, <2>4, <2>5, ShopCardStays
<1>8. ASSUME NEW page \in Pages, NEW idx \in 1..PerPage, PressRow(idx, page) PROVE ShopInv'
  <2>1. PICK list : list = IF data.category THEN Shelf ELSE <<>>
    OBVIOUS
  <2>2. list \in Seq(Positions) /\ page \in Nat /\ idx \in Nat \ {0}
    BY <1>1, <1>3, <2>1, ShopFacts
  <2>3. PICK i : i = Row(data.goods, list, page, idx)
    OBVIOUS
  <2>4. i \in AnItem
    BY <1>3, <2>2, <2>3, RowType
  <2>5. Alert \/ OpenItem(i, "goods")
    BY <1>8, <2>1, <2>3 DEF PressRow
  <2>6. QED
    BY <1>2, <1>7, <2>4, <2>5, ShopQuiet
<1>9. ASSUME NEW page \in Pages, NEW idx \in 1..PerPage, PressResult(idx, page) PROVE ShopInv'
  <2>1. PICK list : list = IF data.query THEN Found ELSE <<>>
    OBVIOUS
  <2>2. list \in Seq(Positions) /\ page \in Nat /\ idx \in Nat \ {0}
    BY <1>1, <1>3, <2>1, ShopFacts
  <2>3. PICK i : i = Row(data.results, list, page, idx)
    OBVIOUS
  <2>4. i \in AnItem
    BY <1>3, <2>2, <2>3, RowType
  <2>5. Alert \/ OpenItem(i, "results")
    BY <1>9, <2>1, <2>3 DEF PressResult
  <2>6. QED
    BY <1>2, <1>7, <2>4, <2>5, ShopQuiet
<1>10. QED
  BY <1>4, <1>5, <1>6, <1>8, <1>9

LEMMA ShopCards ==
    ASSUME ShopInv, RemovePromo \/ ToggleNotice \/ BackToItem \/ \E b \in BOOLEAN : PromoText(b)
    PROVE  ShopInv'
<1>1. /\ data \in ShopData /\ fsm \in FsmStates /\ data.csrf \in AnItem /\ data.pre \in FsmStates
      /\ since \subseteq {"purchase", "lost"}
  BY DEF ShopInv, ShopData
<1>2. Tap /\ onSale' = onSale /\ ordered' = ordered
  BY DEF RemovePromo, ToggleNotice, BackToItem, PromoText, shopVars
<1>3. Drawn("notice") \in ShopScreens /\ Drawn("notice").kind = "notice"
  BY DrawnType DEF ScreenKinds
<1>4. LeftPromo \in ShopData /\ SameLists(LeftPromo)
  BY <1>1 DEF LeftPromo, ShopData, FsmStates, SameLists
<1>5. StateLeft \in FsmStates
  BY <1>1 DEF StateLeft
<1>6. CASE RemovePromo
  <2>1. PICK e : e = [data EXCEPT !.promo = NoItem]
    OBVIOUS
  <2>2. e \in ShopData /\ SameLists(e)
    BY <1>1, <2>1 DEF ShopData, AnItem, SameLists
  <2>3. CASE data' = e /\ UNCHANGED <<fsm, screen, since>>
    <3>1. fsm' \in FsmStates /\ data' \in ShopData /\ since' \subseteq {"purchase", "lost"}
      BY <1>1, <2>2, <2>3
    <3>2. QED
      BY <1>2, <2>2, <2>3, <3>1, ShopKept
  <2>4. CASE RenderItem(data.csrf, e, fsm, screen)
    BY <1>1, <1>2, <2>2, <2>4, ShopCardStays
  <2>5. QED
    BY <1>6, <2>1, <2>3, <2>4 DEF RemovePromo
<1>7. CASE ToggleNotice
  <2>1. CASE RenderItem(data.csrf, data, fsm, screen)
    BY <1>1, <1>2, <2>1, ShopCardStays DEF SameLists
  <2>2. QED
    BY <1>2, <1>7, <2>1, ShopQuiet DEF ToggleNotice
<1>8. CASE BackToItem
  <2>1. CASE Draw(Drawn("notice")) /\ UNCHANGED <<fsm, data>>
    <3>1. fsm' \in FsmStates /\ data' \in ShopData
      BY <1>1, <2>1
    <3>2. QED
      BY <1>2, <1>3, <2>1, <3>1, ShopDrawn
  <2>2. CASE RenderItem(data.csrf, LeftPromo, StateLeft, screen)
    BY <1>1, <1>2, <1>4, <1>5, <2>2, ShopCardStays
  <2>3. QED
    BY <1>8, <2>1, <2>2 DEF BackToItem
<1>9. ASSUME NEW b \in BOOLEAN, PromoText(b) PROVE ShopInv'
  <2>1. CASE fsm' = StateLeft /\ data' = LeftPromo /\ Draw(Drawn("notice"))
    <3>1. fsm' \in FsmStates /\ data' \in ShopData
      BY <1>4, <1>5, <2>1
    <3>2. QED
      BY <1>2, <1>3, <2>1, <3>1, ShopDrawn
  <2>2. PICK e : e = [LeftPromo EXCEPT !.promo = data.csrf]
    OBVIOUS
  <2>3. e \in ShopData
    BY <1>1, <1>4, <2>2 DEF ShopData
  <2>4. CASE RenderItem(data.csrf, e, StateLeft, Drawn("notice"))
    BY <1>1, <1>2, <1>3, <1>5, <2>3, <2>4, ShopCardElse
  <2>5. QED
    BY <1>9, <2>1, <2>2, <2>4 DEF PromoText
<1>10. QED
  BY <1>6, <1>7, <1>8, <1>9

LEMMA ShopBuying ==
    ASSUME ShopInv,
           \/ BuyItem
           \/ \E r \in Recipients \cup {NoOne} : GiftRecipient(r)
           \/ \E p \in Presses : BeginPurchase(p) \/ \E ok \in BOOLEAN : EndPurchase(p, ok)
           \/ \E i \in Positions : DeletePosition(i)
    PROVE  ShopInv'
<1>1. /\ data \in ShopData /\ fsm \in FsmStates /\ data.csrf \in AnItem
      /\ since \subseteq {"purchase", "lost"}
      /\ onSale \subseteq Positions /\ ordered \subseteq onSale /\ screen \in ShopScreens
      /\ taps \in 0..MaxTaps
  BY DEF ShopInv, ShopData
<1>2. \A k \in {"notice", "receipt", "gift prompt"} :
         Drawn(k) \in ShopScreens /\ Drawn(k).kind \notin {"goods", "results"}
  BY DrawnType DEF ScreenKinds
<1>3. ASSUME NEW r \in Anyone, ConfirmFor(r), Tap, UNCHANGED shopVars, fsm' \in FsmStates
      PROVE  ShopInv'
  <2>1. data' = [data EXCEPT !.to = r]
    BY <1>3 DEF ConfirmFor
  <2>2. data' \in ShopData
    BY <1>1, <2>1 DEF ShopData
  <2>3. PICK s : s = [DrawnFor("confirm", data.csrf) EXCEPT !.to = r]
    OBVIOUS
  <2>4. DrawnFor("confirm", data.csrf) \in ShopScreens /\ DrawnFor("confirm", data.csrf).kind = "confirm"
    BY <1>1, DrawnType DEF ScreenKinds
  <2>5. s \in ShopScreens /\ s.kind = "confirm"
    BY <2>3, <2>4 DEF ShopScreens
  <2>6. Draw(s) /\ onSale' = onSale /\ ordered' = ordered
    BY <1>3, <2>3 DEF ConfirmFor, shopVars
  <2>7. QED
    BY <1>3, <2>2, <2>5, <2>6, ShopDrawn
<1>4. CASE BuyItem
  <2>1. Tap /\ UNCHANGED shopVars
    BY <1>4 DEF BuyItem
  <2>2. CASE Alert
    BY <2>1, <2>2, ShopQuiet DEF shopVars
  <2>3. CASE ConfirmFor(NoOne) /\ UNCHANGED fsm
    BY <1>1, <1>3, <2>1, <2>3 DEF Anyone
  <2>4. QED
    BY <1>4, <2>2, <2>3 DEF BuyItem
<1>5. ASSUME NEW r \in Recipients \cup {NoOne}, GiftRecipient(r) PROVE ShopInv'
  <2>1. Tap /\ UNCHANGED shopVars /\ onSale' = onSale /\ ordered' = ordered
    BY <1>5 DEF GiftRecipient, shopVars
  <2>2. CASE UNCHANGED <<fsm, data>> /\ (Draw(Drawn("gift prompt")) \/ Draw(Drawn("notice")))
    <3>1. fsm' \in FsmStates /\ data' \in ShopData
      BY <1>1, <2>2
    <3>2. QED
      BY <1>2, <2>1, <2>2, <3>1, ShopDrawn
  <2>3. CASE ConfirmFor(r) /\ fsm' = "goods"
    <3>1. fsm' \in FsmStates /\ r \in Anyone
      BY <2>3 DEF FsmStates, Anyone
    <3>2. QED
      BY <1>3, <2>1, <2>3, <3>1
  <2>4. \/ UNCHANGED <<fsm, data>> /\ (Draw(Drawn("gift prompt")) \/ Draw(Drawn("notice")))
        \/ ConfirmFor(r) /\ fsm' = "goods"
    <3>1. CASE r = NoOne
      BY <1>5, <3>1 DEF GiftRecipient
    <3>2. CASE r # NoOne /\ data.csrf \notin onSale
      BY <1>5, <3>2 DEF GiftRecipient
    <3>3. CASE r # NoOne /\ data.csrf \in onSale
      BY <1>5, <3>3 DEF GiftRecipient
    <3>4. QED
      BY <3>1, <3>2, <3>3
  <2>5. QED
    BY <2>2, <2>3, <2>4
<1>6. ASSUME NEW p \in Presses, BeginPurchase(p) PROVE ShopInv'
  BY <1>6, ShopQuiet DEF BeginPurchase, Alert
<1>7. ASSUME NEW p \in Presses, NEW ok \in BOOLEAN, EndPurchase(p, ok) PROVE ShopInv'
  <2>1. PICK e : e = [data EXCEPT !.promo = NoItem, !.to = NoOne]
    OBVIOUS
  <2>2. e \in ShopData /\ SameLists(e)
    BY <1>1, <2>1 DEF ShopData, AnItem, Anyone, SameLists
  <2>3. data' = e \/ data' = data
    BY <1>7, <2>1 DEF EndPurchase
  <2>4. data' \in ShopData /\ SameLists(data')
    BY <1>1, <2>2, <2>3 DEF SameLists
  <2>5. onSale' = onSale /\ fsm' = fsm /\ taps' = taps /\ ordered' \subseteq onSale
    BY <1>1, <1>7 DEF EndPurchase
  <2>6. \/ screen' = Drawn("receipt") /\ since' = {}
        \/ screen' = Drawn("notice") /\ since' = {}
        \/ screen' = screen /\ since' = since \cup {"purchase"}
    BY <1>7 DEF EndPurchase, Draw
  <2>7. screen' \in ShopScreens /\ since' \subseteq {"purchase", "lost"}
    BY <1>1, <1>2, <2>6
  <2>8. RowsRemembered'
    BY <1>2, <2>4, <2>6 DEF ShopInv, RowsRemembered, Remembered, SameLists
  <2>9. QED
    BY <1>1, <2>4, <2>5, <2>7, <2>8 DEF ShopInv
<1>8. ASSUME NEW i \in Positions, DeletePosition(i) PROVE ShopInv'
  <2>1. onSale' \subseteq Positions /\ ordered' \subseteq onSale'
    BY <1>1, <1>8 DEF DeletePosition
  <2>2. UNCHANGED <<fsm, data, screen, since, taps>>
    BY <1>8 DEF DeletePosition
  <2>3. QED
    BY <1>1, <2>1, <2>2 DEF ShopInv, RowsRemembered, Remembered
<1>9. QED
  BY <1>4, <1>5, <1>6, <1>7, <1>8

\* The session is dropped, or survives a restart.
LEMMA ShopDropped ==
    ASSUME ShopInv, RulesUnset \/ ExpireSession \/ RestartBot
    PROVE  ShopInv'
<1>1. /\ data \in ShopData /\ fsm \in FsmStates /\ since \subseteq {"purchase", "lost"}
      /\ onSale' = onSale /\ ordered \subseteq onSale /\ onSale \subseteq Positions
      /\ screen' = screen /\ screen \in ShopScreens
  BY DEF ShopInv, RulesUnset, ExpireSession, RestartBot, shopVars
<1>2. "none" \in FsmStates
  BY DEF FsmStates
<1>3. data' \in {Cleared, data} /\ fsm' \in {"none", fsm}
      /\ \/ since' = since \cup {"lost"}
         \/ data' = data /\ since' = since
  BY DEF RulesUnset, ExpireSession, RestartBot, StateDropped, DataDropped
<1>4. fsm' \in FsmStates /\ data' \in ShopData /\ since' \subseteq {"purchase", "lost"}
  BY <1>1, <1>2, <1>3, ClearedType
<1>5. RowsRemembered'
  <2>1. CASE data' = data
    <3>1. since \subseteq since'
      BY <1>3
    <3>2. QED
      BY <1>1, <2>1, <3>1 DEF ShopInv, RowsRemembered, Remembered
  <2>2. CASE data' # data
    <3>1. data' = Cleared /\ "lost" \in since'
      BY <1>3, <2>2
    <3>2. QED
      BY <3>1 DEF RowsRemembered, Remembered, Cleared, NoList
  <2>3. QED
    BY <2>1, <2>2
<1>6. ordered' \subseteq onSale /\ taps' \in 0..MaxTaps
  <2>1. CASE RulesUnset \/ ExpireSession
    BY <2>1, <1>1, ShopFacts DEF ShopInv, RulesUnset, ExpireSession, shopVars, Tap
  <2>2. CASE RestartBot
    BY <2>2, <1>1 DEF ShopInv, RestartBot
  <2>3. QED
    BY <2>1, <2>2
<1>7. QED
  BY <1>1, <1>4, <1>5, <1>6 DEF ShopInv

LEMMA ShopAlways == StorefrontSpec => []ShopInv
<1>1. StorefrontInit => ShopInv
  <2>1. SUFFICES ASSUME StorefrontInit PROVE ShopInv
    OBVIOUS
  <2>2. data = Cleared /\ screen = Drawn("menu") /\ onSale = Positions /\ ordered = {}
        /\ fsm = "none" /\ since = {} /\ taps = 0
    BY <2>1 DEF StorefrontInit, Menu
  <2>3. Drawn("menu") \in ShopScreens /\ Drawn("menu").kind = "menu"
    BY DrawnType DEF ScreenKinds
  <2>4. RowsRemembered
    BY <2>2, <2>3 DEF RowsRemembered
  <2>5. QED
    <3>1. fsm \in FsmStates
      BY <2>2 DEF FsmStates
    <3>4. since \subseteq {"purchase", "lost"}
      BY <2>2
    <3>5. taps \in 0..MaxTaps
      BY <2>2, ShopFacts
    <3>2. data \in ShopData /\ screen \in ShopScreens
      BY <2>2, <2>3, ClearedType
    <3>3. QED
      BY <2>2, <2>4, <3>1, <3>2, <3>4, <3>5 DEF ShopInv
<1>2. ShopInv /\ [StorefrontNext]_storeVars => ShopInv'
  <2>1. SUFFICES ASSUME ShopInv, [StorefrontNext]_storeVars PROVE ShopInv'
    OBVIOUS
  <2>2. CASE UNCHANGED storeVars
    BY <2>1, <2>2, ShopQuiet DEF storeVars, Alert
  <2>3. QED
    BY <2>1, <2>2, ShopPlain, ShopBrowsing, ShopCards, ShopBuying, ShopDropped DEF StorefrontNext
<1>3. QED
  BY <1>1, <1>2, PTL DEF StorefrontSpec

SessionFields == {"csrf", "back", "promo", "pre", "to", "reviewItem", "rated",
                  "category", "goods", "query", "results"}
IsSession(d) == d = [f \in SessionFields |-> d[f]]
PromoFits(d) == d.promo # NoItem => d.promo = d.csrf

\* The two properties need each other's step only through the session's data.
StoreInv == IsSession(data) /\ PromoFits(data) /\ BrowsingButtonsWork /\ SessionIsHonest

ListedKinds == {"goods", "results", "card", "confirm"}

LEMMA DrawnKind == ASSUME NEW k PROVE Drawn(k).kind = k
BY DEF Drawn

LEMMA ClearedFits == IsSession(Cleared) /\ PromoFits(Cleared)
<1>1. IsSession(Cleared)
  BY DEF IsSession, Cleared, SessionFields
<1>2. QED
  BY <1>1 DEF Cleared, PromoFits

\* A screen without position, paging or buying buttons.
LEMMA PlainScreen ==
    ASSUME IsSession(data'), PromoFits(data'), NEW s, Draw(s), s.kind \notin ListedKinds
    PROVE  StoreInv'
BY DEF StoreInv, Draw, ListedKinds, BrowsingButtonsWork, SessionIsHonest, PromoFits

LEMMA NothingDrawn ==
    ASSUME StoreInv, UNCHANGED <<fsm, data, screen>>, since \subseteq since', onSale' \subseteq onSale
    PROVE  StoreInv'
BY DEF StoreInv, BrowsingButtonsWork, SessionIsHonest

\* The item card, or, for a position that is gone, whatever was there.
LEMMA CardDrawn ==
    ASSUME NEW i, NEW d, NEW f, NEW m, IsSession(d), PromoFits(d), d.csrf = i, i # NoItem,
           RenderItem(i, d, f, m), UNCHANGED onSale
    PROVE  StoreInv'
<1>1. CASE i \notin onSale
  <2>1. data' = d
    BY <1>1 DEF RenderItem
  <2>2. QED
    BY <1>1, <2>1 DEF StoreInv, BrowsingButtonsWork, SessionIsHonest, PromoFits
<1>2. CASE i \in onSale
  <2>1. fsm' = BrowsingState(d) /\ screen' = DrawnFor("card", i)
    BY <1>2 DEF RenderItem, Draw
  <2>2. PICK e : e = [d EXCEPT !.promo = NoItem]
    OBVIOUS
  <2>3. IsSession(e) /\ e.promo = NoItem /\ e.csrf = d.csrf /\ e.back = d.back
    BY <2>2 DEF IsSession, SessionFields
  <2>4. data' = d \/ data' = e
    BY <1>2, <2>2 DEF RenderItem
  <2>5. IsSession(data') /\ PromoFits(data') /\ data'.back = d.back
    BY <2>3, <2>4 DEF PromoFits
  <2>6. screen'.kind = "card"
    BY <2>1 DEF DrawnFor, Drawn
  <2>7. BrowsingButtonsWork'
    BY <2>1, <2>5, <2>6 DEF BrowsingButtonsWork, BrowsingState
  <2>8. QED
    BY <2>5, <2>6, <2>7 DEF StoreInv, SessionIsHonest, PromoFits
<1>3. QED
  BY <1>1, <1>2

\* A confirmation shows the session's position and the recipient it records.
LEMMA ConfirmDrawn ==
    ASSUME StoreInv, NEW r, ConfirmFor(r)
    PROVE  StoreInv'
<1>1. PICK e : e = [data EXCEPT !.to = r]
  OBVIOUS
<1>2. IsSession(e) /\ e.to = r /\ e.csrf = data.csrf /\ e.promo = data.promo
  BY <1>1 DEF StoreInv, IsSession, SessionFields
<1>3. data' = e
  BY <1>1 DEF ConfirmFor
<1>4. PICK s : s = [DrawnFor("confirm", data.csrf) EXCEPT !.to = r]
  OBVIOUS
<1>5. s.kind = "confirm" /\ s.item = data.csrf /\ s.to = r
  BY <1>4 DEF DrawnFor, Drawn
<1>6. screen' = s
  BY <1>4 DEF ConfirmFor, Draw
<1>7. PromoFits(data')
  BY <1>2, <1>3 DEF PromoFits, StoreInv
<1>8. QED
  BY <1>2, <1>3, <1>5, <1>6, <1>7 DEF StoreInv, BrowsingButtonsWork, SessionIsHonest, PromoFits
\* An edit of the fields that the two properties do not read.
LEMMA SessionEdited ==
    ASSUME StoreInv, NEW e, IsSession(e), e.csrf = data.csrf, e.promo = data.promo, data' = e
    PROVE  IsSession(data') /\ PromoFits(data')
BY DEF StoreInv, PromoFits

LEMMA ListDrawn ==
    ASSUME IsSession(data'), PromoFits(data'), NEW k \in {"goods", "results"},
           screen'.kind = k, fsm' = k
    PROVE  StoreInv'
BY DEF StoreInv, BrowsingButtonsWork, SessionIsHonest, PromoFits

LEMMA PlainActions ==
    ASSUME StoreInv,
           \/ GoToMenu \/ AskQuery \/ AskPromo \/ AskRedeem \/ RedeemText \/ Rate \/ SubmitReview
           \/ ViewReviews \/ AskRecipient
           \/ \E b \in BOOLEAN : ShowCategories(b) \/ StartReview(b)
    PROVE  StoreInv'
<1>1. \A k \in {"menu", "query", "promo prompt", "redeem prompt", "notice", "rating", "review text",
                "reviews", "gift prompt", "categories"} : Drawn(k).kind \notin ListedKinds
  BY DrawnKind DEF ListedKinds
<1>2. IsSession(data) /\ PromoFits(data)
  BY DEF StoreInv
<1>3. CASE GoToMenu \/ RedeemText \/ SubmitReview
  <2>1. data' = Cleared /\ (Draw(Drawn("menu")) \/ Draw(Drawn("notice")))
    BY <1>3 DEF GoToMenu, RedeemText, SubmitReview, Menu
  <2>2. QED
    BY <1>1, <2>1, ClearedFits, PlainScreen
<1>4. CASE AskQuery \/ AskRedeem \/ \E b \in BOOLEAN : ShowCategories(b)
  <2>1. /\ UNCHANGED data
        /\ Draw(Drawn("query")) \/ Draw(Drawn("redeem prompt")) \/ Draw(Drawn("categories"))
    BY <1>4 DEF AskQuery, AskRedeem, ShowCategories
  <2>2. IsSession(data') /\ PromoFits(data')
    BY <1>2, <2>1
  <2>3. QED
    BY <1>1, <2>1, <2>2, PlainScreen
<1>5. CASE AskPromo
  <2>1. PICK e : e = [data EXCEPT !.pre = fsm]
    OBVIOUS
  <2>2. IsSession(e) /\ e.csrf = data.csrf /\ e.promo = data.promo
    BY <1>2, <2>1 DEF IsSession, SessionFields
  <2>3. data' = e /\ Draw(Drawn("promo prompt"))
    BY <1>5, <2>1 DEF AskPromo
  <2>4. QED
    BY <1>1, <2>2, <2>3, SessionEdited, PlainScreen
<1>6. CASE Rate
  <2>1. PICK e : e = [data EXCEPT !.rated = TRUE]
    OBVIOUS
  <2>2. IsSession(e) /\ e.csrf = data.csrf /\ e.promo = data.promo
    BY <1>2, <2>1 DEF IsSession, SessionFields
  <2>3. data' = e /\ Draw(Drawn("review text"))
    BY <1>6, <2>1 DEF Rate
  <2>4. QED
    BY <1>1, <2>2, <2>3, SessionEdited, PlainScreen
<1>7. CASE ViewReviews \/ AskRecipient
  <2>1. /\ onSale' = onSale /\ UNCHANGED data
        /\ Alert \/ Draw(Drawn("reviews")) \/ Draw(Drawn("gift prompt"))
    BY <1>7 DEF ViewReviews, AskRecipient, Alert, shopVars
  <2>2. CASE Alert
    BY <2>1, <2>2, NothingDrawn DEF Alert
  <2>3. IsSession(data') /\ PromoFits(data')
    BY <1>2, <2>1
  <2>4. QED
    BY <1>1, <2>1, <2>2, <2>3, PlainScreen
<1>8. ASSUME NEW b \in BOOLEAN, StartReview(b) PROVE StoreInv'
  <2>1. onSale' = onSale
    BY <1>8 DEF StartReview, shopVars
  <2>2. CASE Alert
    BY <2>1, <2>2, NothingDrawn DEF Alert
  <2>3. PICK e : e = [data EXCEPT !.reviewItem = data.csrf]
    OBVIOUS
  <2>4. IsSession(e) /\ e.csrf = data.csrf /\ e.promo = data.promo
    BY <1>2, <2>3 DEF IsSession, SessionFields
  <2>5. CASE data' = e /\ Draw(Drawn("rating"))
    BY <1>1, <2>4, <2>5, SessionEdited, PlainScreen
  <2>6. QED
    BY <1>8, <2>2, <2>3, <2>5 DEF StartReview
<1>9. QED
  BY <1>3, <1>4, <1>5, <1>6, <1>7, <1>8

LEMMA GoodsShown ==
    ASSUME StoreInv, NEW c, NEW page, ShowGoods(c, page)
    PROVE  StoreInv'
<1>1. PICK rs : rs = IF c THEN PageOf(Shelf, page) ELSE <<>>
  OBVIOUS
<1>2. PICK l : l = [page |-> page, rows |-> rs, saved |-> TRUE]
  OBVIOUS
<1>3. PICK e : e = [data EXCEPT !.category = c, !.goods = l]
  OBVIOUS
<1>4. data' = e
  BY <1>1, <1>2, <1>3 DEF ShowGoods
<1>5. IsSession(e) /\ e.csrf = data.csrf /\ e.promo = data.promo
  BY <1>3 DEF StoreInv, IsSession, SessionFields
<1>6. PICK s : s = [Drawn("goods") EXCEPT !.page = page, !.rows = rs]
  OBVIOUS
<1>7. screen' = s /\ fsm' = "goods"
  BY <1>1, <1>6 DEF ShowGoods, Draw
<1>8. s.kind = "goods"
  BY <1>6 DEF Drawn
<1>9. QED
  BY <1>4, <1>5, <1>7, <1>8, SessionEdited, ListDrawn

LEMMA ResultsShown ==
    ASSUME StoreInv, NEW page, ShowResults(page)
    PROVE  StoreInv'
<1>1. PICK rs : rs = PageOf(Found, page)
  OBVIOUS
<1>2. CASE rs = <<>> /\ page = 0
  <2>1. Draw(Drawn("nothing found")) /\ UNCHANGED data
    BY <1>1, <1>2 DEF ShowResults
  <2>2. Drawn("nothing found").kind \notin ListedKinds
    BY DEF Drawn, ListedKinds
  <2>3. IsSession(data') /\ PromoFits(data')
    BY <2>1 DEF StoreInv
  <2>4. QED
    BY <2>1, <2>2, <2>3, PlainScreen
<1>3. CASE ~(rs = <<>> /\ page = 0)
  <2>1. PICK l : l = [page |-> page, rows |-> rs, saved |-> TRUE]
    OBVIOUS
  <2>2. PICK e : e = [data EXCEPT !.query = TRUE, !.results = l]
    OBVIOUS
  <2>3. data' = e
    BY <1>1, <1>3, <2>1, <2>2 DEF ShowResults
  <2>4. IsSession(e) /\ e.csrf = data.csrf /\ e.promo = data.promo
    BY <2>2 DEF StoreInv, IsSession, SessionFields
  <2>5. PICK s : s = [Drawn("results") EXCEPT !.page = page, !.rows = rs]
    OBVIOUS
  <2>6. screen' = s /\ fsm' = "results"
    BY <1>1, <1>3, <2>5 DEF ShowResults, Draw
  <2>7. s.kind = "results"
    BY <2>5 DEF Drawn
  <2>8. QED
    BY <2>3, <2>4, <2>6, <2>7, SessionEdited, ListDrawn
<1>4. QED
  BY <1>2, <1>3

LEMMA ItemOpened ==
    ASSUME StoreInv, NEW i, i # NoItem, NEW back, OpenItem(i, back), UNCHANGED onSale
    PROVE  StoreInv'
<1>1. PICK v : v = IF data.csrf = i THEN data.promo ELSE NoItem
  OBVIOUS
<1>2. PICK d : d = [data EXCEPT !.csrf = i, !.back = back, !.promo = v]
  OBVIOUS
<1>3. IsSession(d) /\ d.csrf = i /\ d.promo = v
  BY <1>2 DEF StoreInv, IsSession, SessionFields
<1>4. PromoFits(d)
  BY <1>1, <1>3 DEF StoreInv, PromoFits
<1>5. RenderItem(i, d, fsm, screen)
  BY <1>1, <1>2 DEF OpenItem
<1>6. QED
  BY <1>3, <1>4, <1>5, CardDrawn

LEMMA BrowsingActions ==
    ASSUME StoreInv,
           \/ OpenCategory
           \/ \E b \in BOOLEAN : ReceiveQuery(b)
           \/ \E page \in Pages : NavigateGoods(page) \/ NavigateResults(page)
           \/ \E page \in Pages, idx \in 1..PerPage : PressRow(idx, page) \/ PressResult(idx, page)
    PROVE  StoreInv'
<1>1. CASE OpenCategory
  BY <1>1, GoodsShown DEF OpenCategory
<1>2. ASSUME NEW page \in Pages, NavigateGoods(page) PROVE StoreInv'
  BY <1>2, GoodsShown DEF NavigateGoods
<1>3. ASSUME NEW page \in Pages, NavigateResults(page) PROVE StoreInv'
  BY <1>3, ResultsShown DEF NavigateResults
<1>4. ASSUME NEW b \in BOOLEAN, ReceiveQuery(b) PROVE StoreInv'
  <2>1. CASE ShowResults(0)
    BY <2>1, ResultsShown
  <2>2. CASE Draw(Drawn("query")) /\ UNCHANGED <<fsm, data>>
    <3>1. Drawn("query").kind \notin ListedKinds
      BY DrawnKind DEF ListedKinds
    <3>2. IsSession(data') /\ PromoFits(data')
      BY <2>2 DEF StoreInv
    <3>3. QED
      BY <2>2, <3>1, <3>2, PlainScreen
  <2>3. QED
    BY <1>4, <2>1, <2>2 DEF ReceiveQuery
<1>5. ASSUME NEW i, NEW back, IF i = NoItem THEN Alert ELSE OpenItem(i, back), UNCHANGED shopVars
      PROVE  StoreInv'
  <2>1. onSale' = onSale
    BY <1>5 DEF shopVars
  <2>2. CASE i = NoItem
    BY <1>5, <2>1, <2>2, NothingDrawn DEF Alert
  <2>3. CASE i # NoItem
    BY <1>5, <2>1, <2>3, ItemOpened
  <2>4. QED
    BY <2>2, <2>3
<1>6. ASSUME NEW page \in Pages, NEW idx \in 1..PerPage, PressRow(idx, page) PROVE StoreInv'
  BY <1>5, <1>6 DEF PressRow
<1>7. ASSUME NEW page \in Pages, NEW idx \in 1..PerPage, PressResult(idx, page) PROVE StoreInv'
  BY <1>5, <1>7 DEF PressResult
<1>8. QED
  BY <1>1, <1>2, <1>3, <1>4, <1>6, <1>7
LEMMA LeftPromoFits ==
    ASSUME StoreInv
    PROVE  IsSession(LeftPromo) /\ LeftPromo.csrf = data.csrf /\ LeftPromo.promo = data.promo
BY DEF StoreInv, LeftPromo, IsSession, SessionFields

LEMMA CardActions ==
    ASSUME StoreInv,
           RemovePromo \/ ToggleNotice \/ BackToItem \/ \E b \in BOOLEAN : PromoText(b)
    PROVE  StoreInv'
<1>1. IsSession(data) /\ PromoFits(data)
  BY DEF StoreInv
<1>2. Drawn("notice").kind \notin ListedKinds
  BY DEF Drawn, ListedKinds
<1>3. onSale' = onSale
  BY DEF RemovePromo, ToggleNotice, BackToItem, PromoText, shopVars
<1>4. CASE RemovePromo
  <2>1. PICK e : e = [data EXCEPT !.promo = NoItem]
    OBVIOUS
  <2>2. IsSession(e) /\ PromoFits(e) /\ e.csrf = data.csrf /\ e.back = data.back /\ e.to = data.to
        /\ e.promo = NoItem
    BY <1>1, <2>1 DEF IsSession, SessionFields, PromoFits
  <2>3. CASE data.csrf = NoItem
    <3>1. data' = e /\ UNCHANGED <<fsm, screen, since>>
      BY <1>4, <2>1, <2>3 DEF RemovePromo
    <3>2. QED
      BY <1>3, <2>2, <3>1 DEF StoreInv, BrowsingButtonsWork, SessionIsHonest
  <2>4. CASE data.csrf # NoItem
    <3>1. RenderItem(data.csrf, e, fsm, screen)
      BY <1>4, <2>1, <2>4 DEF RemovePromo
    <3>2. QED
      BY <1>3, <2>2, <2>4, <3>1, CardDrawn
  <2>5. QED
    BY <2>3, <2>4
<1>5. CASE ToggleNotice
  <2>1. CASE Alert
    BY <1>3, <2>1, NothingDrawn DEF Alert
  <2>2. CASE data.csrf # NoItem /\ RenderItem(data.csrf, data, fsm, screen)
    BY <1>1, <1>3, <2>2, CardDrawn
  <2>3. QED
    BY <1>5, <2>1, <2>2 DEF ToggleNotice
<1>6. PromoFits(LeftPromo)
  BY <1>1, LeftPromoFits DEF PromoFits
<1>7. CASE BackToItem
  <2>1. CASE Draw(Drawn("notice")) /\ UNCHANGED <<fsm, data>>
    <3>1. IsSession(data') /\ PromoFits(data')
      BY <1>1, <2>1
    <3>2. QED
      BY <1>2, <2>1, <3>1, PlainScreen
  <2>2. CASE data.csrf # NoItem /\ RenderItem(data.csrf, LeftPromo, StateLeft, screen)
    BY <1>3, <1>6, <2>2, LeftPromoFits, CardDrawn
  <2>3. QED
    BY <1>7, <2>1, <2>2 DEF BackToItem
<1>8. ASSUME NEW b \in BOOLEAN, PromoText(b) PROVE StoreInv'
  <2>1. CASE data' = LeftPromo /\ Draw(Drawn("notice"))
    <3>1. IsSession(data') /\ PromoFits(data')
      BY <1>6, <2>1, LeftPromoFits
    <3>2. QED
      BY <1>2, <2>1, <3>1, PlainScreen
  <2>2. PICK e : e = [LeftPromo EXCEPT !.promo = data.csrf]
    OBVIOUS
  <2>3. IsSession(e) /\ e.csrf = data.csrf /\ e.promo = data.csrf
    BY <2>2, LeftPromoFits DEF IsSession, SessionFields
  <2>4. PromoFits(e)
    BY <2>3 DEF PromoFits
  <2>5. CASE data.csrf # NoItem /\ RenderItem(data.csrf, e, StateLeft, Drawn("notice"))
    BY <1>3, <2>3, <2>4, <2>5, CardDrawn
  <2>6. QED
    BY <1>8, <2>1, <2>2, <2>5 DEF PromoText
<1>9. QED
  BY <1>4, <1>5, <1>7, <1>8

LEMMA BuyActions ==
    ASSUME StoreInv,
           \/ BuyItem
           \/ \E r \in Recipients \cup {NoOne} : GiftRecipient(r)
           \/ \E p \in Presses : BeginPurchase(p) \/ \E ok \in BOOLEAN : EndPurchase(p, ok)
           \/ \E i \in Positions : DeletePosition(i)
    PROVE  StoreInv'
<1>1. IsSession(data) /\ PromoFits(data)
  BY DEF StoreInv
<1>2. \A k \in {"notice", "receipt", "gift prompt"} : Drawn(k).kind \notin ListedKinds
  BY DrawnKind DEF ListedKinds
<1>3. CASE BuyItem
  <2>1. onSale' = onSale
    BY <1>3 DEF BuyItem, shopVars
  <2>2. CASE Alert
    BY <2>1, <2>2, NothingDrawn DEF Alert
  <2>3. CASE ConfirmFor(NoOne)
    BY <2>3, ConfirmDrawn
  <2>4. QED
    BY <1>3, <2>2, <2>3 DEF BuyItem
<1>4. ASSUME NEW r \in Recipients \cup {NoOne}, GiftRecipient(r) PROVE StoreInv'
  <2>1. CASE UNCHANGED data /\ (Draw(Drawn("gift prompt")) \/ Draw(Drawn("notice")))
    <3>1. IsSession(data') /\ PromoFits(data')
      BY <1>1, <2>1
    <3>2. QED
      BY <1>2, <2>1, <3>1, PlainScreen
  <2>2. CASE ConfirmFor(r)
    BY <2>2, ConfirmDrawn
  <2>3. \/ UNCHANGED data /\ (Draw(Drawn("gift prompt")) \/ Draw(Drawn("notice")))
        \/ ConfirmFor(r)
    <3>1. CASE r = NoOne
      BY <1>4, <3>1 DEF GiftRecipient
    <3>2. CASE r # NoOne /\ data.csrf \notin onSale
      BY <1>4, <3>2 DEF GiftRecipient
    <3>3. CASE r # NoOne /\ data.csrf \in onSale
      BY <1>4, <3>3 DEF GiftRecipient
    <3>4. QED
      BY <3>1, <3>2, <3>3
  <2>4. QED
    BY <2>1, <2>2, <2>3
<1>5. ASSUME NEW p \in Presses, BeginPurchase(p) PROVE StoreInv'
  BY <1>5, NothingDrawn DEF BeginPurchase
<1>6. ASSUME NEW i \in Positions, DeletePosition(i) PROVE StoreInv'
  BY <1>6, NothingDrawn DEF DeletePosition
<1>7. ASSUME NEW p \in Presses, NEW ok \in BOOLEAN, EndPurchase(p, ok) PROVE StoreInv'
  <2>1. PICK e : e = [data EXCEPT !.promo = NoItem, !.to = NoOne]
    OBVIOUS
  <2>2. IsSession(e) /\ e.csrf = data.csrf /\ e.back = data.back /\ e.promo = NoItem
    BY <1>1, <2>1 DEF IsSession, SessionFields
  <2>3. data' = e \/ data' = data
    BY <1>7, <2>1 DEF EndPurchase
  <2>4. IsSession(data') /\ PromoFits(data') /\ data'.csrf = data.csrf /\ data'.back = data.back
    BY <1>1, <2>2, <2>3 DEF PromoFits
  <2>5. CASE Draw(Drawn("receipt")) \/ Draw(Drawn("notice"))
    BY <1>2, <2>4, <2>5, PlainScreen
  <2>6. CASE UNCHANGED screen /\ since' = since \cup {"purchase"}
    <3>1. UNCHANGED <<onSale, fsm>>
      BY <1>7 DEF EndPurchase
    <3>2. QED
      BY <2>4, <2>6, <3>1 DEF StoreInv, BrowsingButtonsWork, SessionIsHonest, PromoFits
  <2>7. QED
    BY <1>7, <2>5, <2>6 DEF EndPurchase
<1>8. QED
  BY <1>3, <1>4, <1>5, <1>6, <1>7

\* A dropped session has no position, so a confirmation drawn before buys
\* nothing until another screen is drawn.
LEMMA DropActions ==
    ASSUME StoreInv, onSale \subseteq Positions, RulesUnset \/ ExpireSession \/ RestartBot
    PROVE  StoreInv'
<1>1. UNCHANGED <<screen, onSale>>
  BY DEF RulesUnset, ExpireSession, RestartBot, shopVars
<1>2. \/ since' = since \cup {"lost"} /\ data' \in {Cleared, data}
      \/ UNCHANGED <<fsm, data, since>>
  BY DEF RulesUnset, ExpireSession, RestartBot, StateDropped, DataDropped
<1>3. CASE UNCHANGED <<fsm, data, since>>
  BY <1>1, <1>3, NothingDrawn
<1>4. CASE since' = since \cup {"lost"} /\ data' = data
  BY <1>1, <1>4 DEF StoreInv, BrowsingButtonsWork, SessionIsHonest, PromoFits
<1>5. CASE since' = since \cup {"lost"} /\ data' = Cleared
  <2>1. Cleared.csrf = NoItem /\ NoItem \notin onSale'
    BY <1>1, ShopFacts DEF Cleared
  <2>2. QED
    BY <1>5, <2>1, ClearedFits DEF StoreInv, BrowsingButtonsWork, SessionIsHonest, PromoFits
<1>6. QED
  BY <1>2, <1>3, <1>4, <1>5

LEMMA StoreAlways == StorefrontSpec => []StoreInv
<1>1. StorefrontInit => StoreInv
  <2>1. SUFFICES ASSUME StorefrontInit PROVE StoreInv
    OBVIOUS
  <2>2. data = Cleared /\ screen = Drawn("menu")
    BY <2>1 DEF StorefrontInit, Menu
  <2>3. screen.kind = "menu"
    BY <2>2 DEF Drawn
  <2>4. QED
    BY <2>2, <2>3, ClearedFits DEF StoreInv, BrowsingButtonsWork, SessionIsHonest, PromoFits
<1>2. ShopInv /\ StoreInv /\ [StorefrontNext]_storeVars => StoreInv'
  <2>1. SUFFICES ASSUME ShopInv, StoreInv, [StorefrontNext]_storeVars PROVE StoreInv'
    OBVIOUS
  <2>2. CASE UNCHANGED storeVars
    BY <2>1, <2>2, NothingDrawn DEF storeVars
  <2>3. QED
    <3>1. onSale \subseteq Positions
      BY <2>1 DEF ShopInv
    <3>2. QED
      BY <2>1, <2>2, <3>1, PlainActions, BrowsingActions, CardActions, BuyActions, DropActions
         DEF StorefrontNext
<1>3. QED
  BY <1>1, <1>2, ShopAlways, PTL DEF StorefrontSpec

\* The buttons of the screen drawn last are served, whatever prompts, promo
\* codes, gifts, reviews and purchases a customer enters and leaves on the
\* way, for any catalogue, page size and number of presses.
THEOREM ButtonsAlwaysWork == StorefrontSpec => []BrowsingButtonsWork
BY StoreAlways, PTL DEF StoreInv

\* A confirmation says what its button buys and for whom, and a promo code is
\* the session's position's own, for any sequence of presses on new and old
\* messages and any purchases running at once.
THEOREM SessionAlwaysHonest == StorefrontSpec => []SessionIsHonest
BY StoreAlways, PTL DEF StoreInv

\* A row of the list drawn last opens the position it names: the handlers
\* itm: and sitm: take it from what _page_item_from_state remembers, so neither
\* a deleted position nor a changed query moves it, for any lists and pages. A
\* session dropped under the list has no category and no query to read again,
\* so the fallback finds nothing rather than another position.
THEOREM RowsAlwaysOpenTheirItem == StorefrontSpec => RowsOpenTheirItem
<1>1. ASSUME NEW l, NEW known, NEW list \in Seq(Positions), NEW page \in Nat, NEW idx \in Nat \ {0},
             screen.page = page, idx <= Len(screen.rows), screen.rows \in Seq(Positions),
             Remembered(l, known), data \in ShopData, NEW back,
             LET i == Row(l, IF known THEN list ELSE <<>>, page, idx)
             IN IF i = NoItem THEN Alert ELSE OpenItem(i, back)
      PROVE  OpensRow(idx)
  <2>1. PICK i : i = Row(l, IF known THEN list ELSE <<>>, page, idx)
    OBVIOUS
  <2>2. IF i = NoItem THEN Alert ELSE OpenItem(i, back)
    BY <1>1, <2>1
  <2>3. CASE l = [page |-> page, rows |-> screen.rows, saved |-> TRUE]
    <3>1. i = screen.rows[idx]
      BY <1>1, <2>1, <2>3, RememberedRow
    <3>2. i \in Positions /\ i # NoItem
      BY <1>1, <3>1, ElementOfSeq, ShopFacts
    <3>3. OpenItem(i, back)
      BY <2>2, <3>2
    <3>4. data'.csrf = i
      BY <1>1, <3>3 DEF OpenItem, RenderItem, ShopData
    <3>5. QED
      BY <3>1, <3>4 DEF OpensRow
  <2>4. CASE "lost" \in since /\ ~l.saved /\ ~known
    <3>1. i = IF idx <= Len(PageOf(<<>>, page)) THEN PageOf(<<>>, page)[idx] ELSE NoItem
      BY <2>1, <2>4 DEF Row
    <3>2. i = NoItem
      BY <3>1, EmptyPage
    <3>3. QED
      BY <2>2, <2>4, <3>2 DEF Alert, OpensRow
  <2>5. QED
    BY <1>1, <2>3, <2>4 DEF Remembered
<1>2. ASSUME ShopInv, NEW page \in Pages, NEW idx \in 1..PerPage,
             screen.page = page, idx <= Len(screen.rows), screen.kind = "goods", PressRow(idx, page)
      PROVE  OpensRow(idx)
  <2>1. /\ Remembered(data.goods, data.category) /\ data \in ShopData /\ page \in Nat
        /\ screen.rows \in Seq(Positions) /\ idx \in Nat \ {0} /\ Shelf \in Seq(Positions)
    BY <1>2, ShopFacts DEF ShopInv, RowsRemembered, ShopScreens
  <2>2. LET i == Row(data.goods, IF data.category THEN Shelf ELSE <<>>, page, idx)
        IN IF i = NoItem THEN Alert ELSE OpenItem(i, "goods")
    BY <1>2 DEF PressRow
  <2>3. QED
    BY <1>1, <1>2, <2>1, <2>2
<1>3. ASSUME ShopInv, NEW page \in Pages, NEW idx \in 1..PerPage,
             screen.page = page, idx <= Len(screen.rows), screen.kind = "results",
             PressResult(idx, page)
      PROVE  OpensRow(idx)
  <2>1. /\ Remembered(data.results, data.query) /\ data \in ShopData /\ page \in Nat
        /\ screen.rows \in Seq(Positions) /\ idx \in Nat \ {0} /\ Found \in Seq(Positions)
    BY <1>3, ShopFacts DEF ShopInv, RowsRemembered, ShopScreens
  <2>2. LET i == Row(data.results, IF data.query THEN Found ELSE <<>>, page, idx)
        IN IF i = NoItem THEN Alert ELSE OpenItem(i, "results")
    BY <1>3 DEF PressResult
  <2>3. QED
    BY <1>1, <1>3, <2>1, <2>2
<1> DEFINE Opens ==
      \A page \in Pages, idx \in 1..PerPage :
        screen.page = page /\ idx <= Len(screen.rows) =>
            /\ screen.kind = "goods" /\ PressRow(idx, page) => OpensRow(idx)
            /\ screen.kind = "results" /\ PressResult(idx, page) => OpensRow(idx)
<1>4. ShopInv /\ [StorefrontNext]_storeVars => [Opens]_storeVars
  BY <1>2, <1>3
<1>5. QED
  BY <1>4, ShopAlways, PTL DEF StorefrontSpec, RowsOpenTheirItem
-----------------------------------------------------------------------------
(***************************************************************************)
(* The paged lists                                                         *)
(***************************************************************************)

\* A cached count is true once the rows have been still for longer than it is
\* old, so one read after CountTtl still ticks is.
ListInv ==
    /\ rows \in [Tables -> 0..MaxRows] /\ age \in 0..CountTtl /\ still \in 0..(CountTtl + 1)
    /\ counted # NoCount /\ still > age => counted = CountOf
    /\ PagesSettle

LEMMA ListFacts ==
    /\ PageSize \in Nat /\ PageSize > 0 /\ CountTtl \in Nat /\ MaxRows \in Nat
    /\ IsFiniteSet(Tables) /\ Tables # {} /\ NoCount \notin Nat
BY ListsAssumption DEF ListsAssumption

LEMMA TotalIsNat == ASSUME rows \in [Tables -> 0..MaxRows] PROVE Total \in Nat
<1>1. PICK S : S = Read(kind)
  OBVIOUS
<1>2. S \subseteq Tables
  BY <1>1, ListFacts DEF Read
<1>3. IsFiniteSet(S)
  BY <1>2, ListFacts, FS_Subset
<1>4. \A t \in S : rows[t] \in Nat
  BY <1>2, ListFacts
<1>5. QED
  BY <1>1, <1>3, <1>4, SumType DEF Total
LEMMA ProductGrows ==
    ASSUME NEW x \in Nat, NEW y \in Nat, NEW k \in Nat, x <= y
    PROVE  x * k <= y * k
OBVIOUS

\* The number of pages tells whether there is a row behind this page.
LEMMA PagesAreEnough ==
    ASSUME NEW n \in Nat, NEW page \in Nat
    PROVE  page < TotalPages(n) - 1 <=> n > (page + 1) * PageSize
<1>1. PICK k \in Nat : k = PageSize /\ k > 0
  BY ListFacts
<1>2. PICK q : q = (n + k - 1) \div k
  OBVIOUS
<1>3. q \in Nat /\ q * k <= n + k - 1 /\ n + k - 1 < q * k + k
  BY <1>1, <1>2
<1>4. TotalPages(n) = IF q > 1 THEN q ELSE 1
  BY <1>1, <1>2 DEF TotalPages
<1>5. (page + 1) * k \in Nat /\ (page + 2) * k = (page + 1) * k + k
  OBVIOUS
<1>6. q * k \in Nat
  BY <1>3
<1>7. ASSUME page + 2 <= q PROVE n > (page + 1) * k
  <2>1. (page + 2) * k <= q * k
    BY <1>3, <1>7, ProductGrows
  <2>2. QED
    BY <1>1, <1>3, <1>5, <1>6, <2>1
<1>8. ASSUME q <= page + 1 PROVE ~(n > (page + 1) * k)
  <2>1. q * k <= (page + 1) * k
    BY <1>3, <1>8, ProductGrows
  <2>2. QED
    BY <1>1, <1>3, <1>5, <1>6, <2>1
<1>9. page < TotalPages(n) - 1 <=> page + 2 <= q
  BY <1>3, <1>4
<1>10. QED
  BY <1>1, <1>3, <1>7, <1>8, <1>9

\* A page drawn when the rows have been still long enough is true.
LEMMA PageDrawn ==
    ASSUME ListInv, NEW page \in Nat, NEW empty \in BOOLEAN, NEW own \in BOOLEAN,
           DrawPage(page, empty, own),
           still > CountTtl /\ reserved = 0 /\ empty => Total <= page * PageSize \/ CountSeen = 0
    PROVE  ListInv'
<1>1. /\ rows \in [Tables -> 0..MaxRows] /\ age \in 0..CountTtl /\ still \in 0..(CountTtl + 1)
      /\ counted # NoCount /\ still > age => counted = CountOf
  BY DEF ListInv
<1>2. UNCHANGED <<kind, rows, reserved, still>>
  BY DEF DrawPage
<1>3. counted' = CountSeen /\ age' = IF counted = NoCount THEN 0 ELSE age
  BY DEF DrawPage, CachedCount
<1>4. CountOf' = CountOf
  BY <1>2 DEF CountOf, Total
<1>5. age' \in 0..CountTtl
  BY <1>1, <1>3, ListFacts
<1>6. counted' # NoCount /\ still' > age' => counted' = CountOf'
  BY <1>1, <1>2, <1>3, <1>4 DEF CountSeen
<1>7. PICK nx, pv : /\ nx = (~empty /\ NavRow(page, TotalPages(CountSeen), own).next)
                    /\ pv = (~empty /\ NavRow(page, TotalPages(CountSeen), own).prev)
  OBVIOUS
<1>8. view' = [page |-> page, of |-> Total, empty |-> empty, prev |-> pv, next |-> nx,
               settled |-> still > CountTtl /\ reserved = 0]
  BY <1>7 DEF DrawPage
<1>9. /\ view'.page = page /\ view'.of = Total /\ view'.empty = empty /\ view'.next = nx
      /\ view'.settled = (still > CountTtl /\ reserved = 0)
  BY <1>8
<1>10. ASSUME still > CountTtl, reserved = 0
       PROVE  /\ ~empty => (nx <=> Total > (page + 1) * PageSize)
              /\ empty => Total <= page * PageSize
  <2>1. Total \in Nat
    BY <1>1, TotalIsNat
  <2>2. CountOf = Total
    BY <1>10, <2>1 DEF CountOf
  <2>3. still > age
    BY <1>1, <1>10, ListFacts
  <2>4. CountSeen = Total
    BY <1>1, <2>2, <2>3 DEF CountSeen
  <2>5. ~empty => (nx <=> page < TotalPages(Total) - 1)
    <3>1. PICK pages : pages = TotalPages(Total)
      OBVIOUS
    <3>2. NavRow(page, pages, own).next = (page < pages - 1)
      BY DEF NavRow
    <3>3. nx = (~empty /\ NavRow(page, pages, own).next)
      BY <1>7, <2>4, <3>1
    <3>4. QED
      BY <3>1, <3>2, <3>3
  <2>6. page * PageSize \in Nat
    BY ListFacts
  <2>7. empty => Total <= page * PageSize
    BY <1>10, <2>1, <2>4, <2>6
  <2>8. QED
    BY <2>1, <2>5, <2>7, PagesAreEnough
<1>11. PagesSettle'
  BY <1>9, <1>10 DEF PagesSettle
<1>12. QED
  BY <1>1, <1>2, <1>5, <1>6, <1>11 DEF ListInv

LEMMA ShowActions ==
    ASSUME ListInv, NEW page \in ListPages, NEW entry \in BOOLEAN,
           \/ ShowOrders(page, entry) \/ ShowPromos(page, entry) \/ ShowReferrals(page, entry)
           \/ ShowAllEarnings(page, entry) \/ ShowEarnings(page, entry)
           \/ ShowStaffReferrals(page, entry)
           \/ ShowOperations(page, entry) \/ ShowReviews(page, entry) \/ ShowBought(page, entry)
           \/ ShowUsers(page, entry) \/ ShowPosition(page, entry)
    PROVE  ListInv'
<1>1. page \in Nat
  BY ListFacts DEF ListPages
<1>2. Total \in Nat /\ page * PageSize \in Nat /\ 0 * PageSize = 0
  BY <1>1, TotalIsNat, ListFacts DEF ListInv
<1>3. ~HasRows(page) => Total <= page * PageSize
  BY <1>2 DEF HasRows
<1>4. CASE ShowOrders(page, entry) \/ ShowPromos(page, entry)
  <2>1. (entry => page = 0) /\ DrawPage(page, entry /\ ~HasRows(0), FALSE)
    BY <1>4 DEF ShowOrders, ShowPromos, MayShow
  <2>2. (entry /\ ~HasRows(0)) => Total <= page * PageSize
    BY <1>3, <2>1
  <2>3. QED
    BY <1>1, <2>1, <2>2, PageDrawn
<1>5. CASE ShowReferrals(page, entry) \/ ShowAllEarnings(page, entry)
  <2>1. DrawPage(page, entry /\ CountSeen = 0, FALSE)
    BY <1>5 DEF ShowReferrals, ShowAllEarnings
  <2>2. QED
    BY <1>1, <2>1, PageDrawn
<1>6. CASE ShowEarnings(page, entry) \/ ShowStaffReferrals(page, entry)
  <2>1. DrawPage(page, page = 0 /\ CountSeen = 0, FALSE)
    BY <1>6 DEF ShowEarnings, ShowStaffReferrals
  <2>2. QED
    BY <1>1, <2>1, PageDrawn
<1>7. CASE ShowOperations(page, entry) \/ ShowReviews(page, entry)
  <2>1. DrawPage(page, ~HasRows(page), TRUE)
    BY <1>7 DEF ShowOperations, ShowReviews
  <2>2. QED
    BY <1>1, <1>3, <2>1, PageDrawn
<1>8. CASE ShowBought(page, entry) \/ ShowUsers(page, entry)
  <2>1. DrawPage(page, FALSE, FALSE)
    BY <1>8 DEF ShowBought, ShowUsers
  <2>2. QED
    BY <1>1, <2>1, PageDrawn
<1>9. CASE ShowPosition(page, entry)
  <2>1. DrawPage(page, CountSeen = 0, FALSE)
    BY <1>9 DEF ShowPosition
  <2>2. QED
    BY <1>1, <2>1, PageDrawn
<1>10. QED
  BY <1>4, <1>5, <1>6, <1>7, <1>8, <1>9

LEMMA ListAlways == ListsSpec => []ListInv
<1>1. ListsInit => ListInv
  <2>1. SUFFICES ASSUME ListsInit PROVE ListInv
    OBVIOUS
  <2>2. ~view.settled
    BY <2>1 DEF ListsInit, NoView
  <2>3. QED
    BY <2>1, <2>2, ListFacts DEF ListsInit, ListInv, PagesSettle
<1>2. ListInv /\ [ListsNext]_listVars => ListInv'
  <2>1. SUFFICES ASSUME ListInv, [ListsNext]_listVars PROVE ListInv'
    OBVIOUS
  <2>2. /\ rows \in [Tables -> 0..MaxRows] /\ age \in 0..CountTtl /\ still \in 0..(CountTtl + 1)
        /\ counted # NoCount /\ still > age => counted = CountOf
        /\ PagesSettle
    BY <2>1 DEF ListInv
  <2>3. CASE UNCHANGED listVars
    BY <2>2, <2>3 DEF listVars, ListInv, PagesSettle, CountOf, Total
  <2>4. ASSUME NEW t \in Tables, NEW n \in 0..MaxRows, NEW hook \in BOOLEAN, RowsChange(t, n, hook)
        PROVE  ListInv'
    <3>1. rows' = [rows EXCEPT ![t] = n] /\ still' = 0 /\ age' = age /\ view' = view
      BY <2>4 DEF RowsChange
    <3>2. ~(still' > age')
      BY <2>2, <3>1
    <3>3. QED
      BY <2>2, <3>1, <3>2, ListFacts DEF ListInv, PagesSettle
  <2>5. ASSUME NEW n \in 0..MaxRows, ReservationChanges(n) PROVE ListInv'
    <3>1. rows' = rows /\ still' = 0 /\ age' = age /\ view' = view
      BY <2>5 DEF ReservationChanges
    <3>2. ~(still' > age')
      BY <2>2, <3>1
    <3>3. QED
      BY <2>2, <3>1, <3>2, ListFacts DEF ListInv, PagesSettle
  <2>6. CASE Tick
    <3>1. UNCHANGED <<kind, rows, reserved, view>>
      BY <2>6 DEF Tick
    <3>2. still' = IF still <= CountTtl THEN still + 1 ELSE still
      BY <2>6 DEF Tick
    <3>3. IF counted # NoCount /\ age = CountTtl THEN counted' = NoCount /\ age' = 0
          ELSE counted' = counted /\ age' = IF counted = NoCount THEN 0 ELSE age + 1
      BY <2>6 DEF Tick
    <3>4. CountOf' = CountOf
      BY <3>1 DEF CountOf, Total
    <3>5. still' \in 0..(CountTtl + 1) /\ age' \in 0..CountTtl
      BY <2>2, <3>2, <3>3, ListFacts
    <3>6. counted' # NoCount /\ still' > age' => counted' = CountOf'
      BY <2>2, <3>2, <3>3, <3>4, ListFacts
    <3>7. QED
      BY <2>2, <3>1, <3>5, <3>6 DEF ListInv, PagesSettle
  <2>7. QED
    BY <2>1, <2>3, <2>4, <2>5, <2>6, ShowActions DEF ListsNext
<1>3. QED
  BY <1>1, <1>2, PTL DEF ListsSpec

\* A page drawn once the rows have been still for longer than a count may live
\* offers the next page exactly if there are rows behind it and claims an empty
\* list only if there are none, for any number of rows and any page size.
THEOREM PagesAlwaysSettle == ListsSpec => []PagesSettle
BY ListAlways, PTL DEF ListInv

-----------------------------------------------------------------------------
(***************************************************************************)
(* The conversations together                                              *)
(***************************************************************************)

LEMMA StaffFormed == StaffSpec => []StaffTypeOK
<1>1. StaffInv => StaffTypeOK
  <2>1. SUFFICES ASSUME StaffInv PROVE StaffTypeOK
    OBVIOUS
  <2>2. StaffTypes
    BY <2>1 DEF StaffInv
  <2>3. ASSUME NEW p \in People, roleDialog[p] # NoDialog
        PROVE  roleDialog[p].step \in {"newName", "newPerms", "editName", "editPerms"}
    BY <2>2, <2>3 DEF StaffTypes, NamingDialogs, NewDialogs, EditDialogs
  <2>4. ASSUME NEW p \in People, task[p] # NoTask
        PROVE  task[p].kind \in {"assign", "delete", "flush"}
    BY <2>2, <2>4 DEF StaffTypes, AssignTasks, DeleteTasks, FlushTasks
  <2>5. QED
    BY <2>2, <2>3, <2>4 DEF StaffTypes, StaffTypeOK
<1>2. QED
  BY <1>1, StaffAlways, PTL

LEMMA DeskFormed == DeskSpec => []DeskTypeOK
<1> DEFINE Bounds == deskSteps \in 0..MaxDeskSteps /\ overlapped \subseteq Customers
                     /\ reopened \subseteq Customers
<1>1. DeskInit => Bounds
  BY SupportAssumption DEF DeskInit
<1>2. DeskInv /\ Bounds /\ [DeskNext]_deskVars => Bounds'
  <2>1. SUFFICES ASSUME DeskInv, Bounds, [DeskNext]_deskVars PROVE Bounds'
    OBVIOUS
  <2>2. CASE UNCHANGED <<deskSteps, overlapped, reopened>>
    BY <2>1, <2>2
  <2>3. ASSUME NEW s \in Sessions, NEW u \in Customers, NEW x, Begin(s, u, x) PROVE Bounds'
    <3>1. deskSteps < MaxDeskSteps /\ deskSteps' = deskSteps + 1
      BY <2>3 DEF Begin
    <3>2. overlapped' \subseteq Customers /\ reopened' = reopened
      BY <2>1, <2>3 DEF Begin
    <3>3. QED
      BY <2>1, <3>1, <3>2, SupportAssumption
  <2>4. ASSUME NEW t \in Filed PROVE tickets[t].user \in Customers
    BY <2>1, <2>4, FiledHas DEF DeskInv, TicketRecords
  <2>5. ASSUME NEW s \in Sessions, NEW t \in TicketIds,
               BeginReply(s, t) \/ \E st \in Statuses : BeginStatus(s, t, st)
        PROVE  Bounds'
    BY <2>3, <2>4, <2>5 DEF BeginReply, BeginStatus
  <2>6. ASSUME NEW s \in Sessions, NEW u \in Customers,
               \/ BeginCreate(s, u)
               \/ \E t \in TicketIds : \/ BeginMessage(s, u, t) \/ BeginClose(s, u, t)
                                       \/ \E o \in ShopOrders : BeginLink(s, u, t, o)
        PROVE  Bounds'
    BY <2>3, <2>6 DEF BeginCreate, BeginMessage, BeginClose, BeginLink
  <2>7. ASSUME NEW s \in Sessions, NEW st \in Statuses, EndStatus(s, st) PROVE Bounds'
    <3>1. session[s].user \in Customers
      BY <2>1, <2>7, DeskSessions DEF EndStatus, End, DeskInv
    <3>2. QED
      BY <2>1, <2>7, <3>1 DEF EndStatus, End
  <2>8. ASSUME NEW s \in Sessions,
               EndCreate(s) \/ EndMessage(s) \/ EndLink(s) \/ EndClose(s) \/ EndReply(s)
        PROVE  UNCHANGED <<deskSteps, overlapped, reopened>>
    BY <2>8 DEF EndCreate, EndMessage, EndLink, EndClose, EndReply, End
  <2>9. ASSUME NEW u \in Customers,
               \/ SupportHome(u) \/ SupportNew(u)
               \/ \E t \in TicketIds, prompt \in {"message", "orderId"} : SupportPrompt(u, prompt, t)
        PROVE  UNCHANGED <<deskSteps, overlapped, reopened>>
    BY <2>9 DEF SupportHome, SupportNew, SupportPrompt
  <2>10. CASE UNCHANGED deskVars
    BY <2>2, <2>10 DEF deskVars
  <2>11. QED
    BY <2>1, <2>2, <2>5, <2>6, <2>7, <2>8, <2>9, <2>10 DEF DeskNext
<1>3. DeskInv /\ Bounds => DeskTypeOK
  <2>1. SUFFICES ASSUME DeskInv, Bounds PROVE DeskTypeOK
    OBVIOUS
  <2>2. DeskTypes
    BY <2>1 DEF DeskInv
  <2>3. \A s \in Sessions : session[s] = NoSession \/ session[s].user \in Customers
    BY <2>2, DeskSessions
  <2>4. QED
    BY <2>1, <2>2, <2>3 DEF DeskTypeOK, DeskTypes, TicketRecords, Prompts
<1>4. QED
  BY <1>1, <1>2, <1>3, DeskAlways, PTL DEF DeskSpec

LEMMA StorefrontFormed == StorefrontSpec => []StorefrontTypeOK
<1>1. ShopInv => StorefrontTypeOK
  BY DEF ShopInv, StorefrontTypeOK, ShopData, ShopScreens, AnItem, Anyone
<1>2. QED
  BY <1>1, ShopAlways, PTL

\* No more units of a position are reserved than it has, so its count is one.
LEMMA ListsFormed == ListsSpec => []ListsTypeOK
<1> DEFINE Counts == /\ kind \in Kinds /\ reserved \in 0..MaxRows /\ counted \in Nat \cup {NoCount}
                     /\ kind = "position" => reserved <= Total
<1>1. ListsInit => Counts
  <2>1. SUFFICES ASSUME ListsInit PROVE Counts
    OBVIOUS
  <2>2. Total \in Nat
    BY <2>1, TotalIsNat DEF ListsInit
  <2>3. QED
    BY <2>1, <2>2, ListFacts DEF ListsInit
<1>2. ListInv /\ Counts /\ [ListsNext]_listVars => Counts'
  <2>1. SUFFICES ASSUME ListInv, Counts, [ListsNext]_listVars PROVE Counts'
    OBVIOUS
  <2>2. Total \in Nat /\ rows \in [Tables -> 0..MaxRows]
    BY <2>1, TotalIsNat DEF ListInv
  <2>3. CountOf \in Nat
    BY <2>1, <2>2, ListFacts DEF CountOf
  <2>4. CASE UNCHANGED <<kind, rows, reserved>> /\ counted' \in Nat \cup {NoCount}
    BY <2>1, <2>4 DEF Total
  <2>5. ASSUME NEW page, NEW empty, NEW own, DrawPage(page, empty, own) PROVE Counts'
    BY <2>1, <2>3, <2>4, <2>5 DEF DrawPage, CachedCount, CountSeen
  <2>6. ASSUME NEW t \in Tables, NEW n \in 0..MaxRows, NEW hook \in BOOLEAN, RowsChange(t, n, hook)
        PROVE  Counts'
    <3>1. /\ t \in Read(kind) /\ (kind = "position" => n >= reserved)
          /\ rows' = [rows EXCEPT ![t] = n] /\ kind' = kind /\ reserved' = reserved
          /\ counted' = IF hook THEN NoCount ELSE counted
      BY <2>6 DEF RowsChange
    <3>2. PICK S : S = Read(kind)
      OBVIOUS
    <3>3. S \subseteq Tables /\ t \in S /\ Read(kind') = S
      BY <3>1, <3>2, ListFacts DEF Read
    <3>4. IsFiniteSet(S)
      BY <3>3, ListFacts, FS_Subset
    <3>5. \A x \in S : rows'[x] \in Nat
      BY <2>2, <3>1, <3>3, ListFacts
    <3>6. rows'[t] <= SumFunctionOnSet(rows', S) /\ SumFunctionOnSet(rows', S) \in Nat
      BY <3>3, <3>4, <3>5, SumMember, SumType
    <3>7. rows'[t] = n /\ Total' = SumFunctionOnSet(rows', S)
      BY <2>2, <3>1, <3>3 DEF Total
    <3>8. kind' = "position" => reserved' <= Total'
      BY <2>1, <2>6, <3>1, <3>6, <3>7, ListFacts
    <3>9. QED
      BY <2>1, <3>1, <3>8
  <2>7. ASSUME NEW n \in 0..MaxRows, ReservationChanges(n) PROVE Counts'
    <3>1. n \in 0..Total /\ reserved' = n /\ UNCHANGED <<kind, rows, counted>>
      BY <2>7 DEF ReservationChanges
    <3>2. Total' = Total
      BY <3>1 DEF Total
    <3>3. QED
      BY <2>1, <2>2, <2>7, <3>1, <3>2
  <2>8. CASE Tick
    <3>1. UNCHANGED <<kind, rows, reserved>> /\ counted' \in {counted, NoCount}
      BY <2>8 DEF Tick
    <3>2. QED
      BY <2>1, <2>4, <3>1
  <2>9. CASE UNCHANGED listVars
    BY <2>1, <2>4, <2>9 DEF listVars
  <2>10. ASSUME NEW page \in ListPages, NEW entry \in BOOLEAN,
                \/ ShowOrders(page, entry) \/ ShowPromos(page, entry) \/ ShowReferrals(page, entry)
                \/ ShowAllEarnings(page, entry) \/ ShowEarnings(page, entry)
                \/ ShowStaffReferrals(page, entry)
                \/ ShowOperations(page, entry) \/ ShowReviews(page, entry) \/ ShowBought(page, entry)
                \/ ShowUsers(page, entry) \/ ShowPosition(page, entry)
         PROVE  Counts'
    <3>1. PICK empty, own : DrawPage(page, empty, own)
      BY <2>10 DEF ShowOrders, ShowPromos, ShowReferrals, ShowAllEarnings, ShowEarnings,
                   ShowStaffReferrals, ShowOperations, ShowReviews, ShowBought, ShowUsers, ShowPosition
    <3>2. QED
      BY <2>5, <3>1
  <2>11. QED
    BY <2>1, <2>6, <2>7, <2>8, <2>9, <2>10 DEF ListsNext
<1>3. ListInv /\ Counts => ListsTypeOK
  BY DEF ListInv, ListsTypeOK
<1>4. QED
  BY <1>1, <1>2, <1>3, ListAlways, PTL DEF ListsSpec

\* A behaviour of the conversations together is one of each of them.
LEMMA DialogsApart ==
    /\ DialogsSpec => StaffSpec
    /\ DialogsSpec => DeskSpec
    /\ DialogsSpec => StorefrontSpec
    /\ DialogsSpec => ListsSpec
    /\ DialogsSpec => CatalogueSpec
<1>1. Init => StaffInit /\ DeskInit /\ StorefrontInit /\ ListsInit /\ CatalogueInit
  BY DEF Init
<1>2. [Next]_vars => [StaffNext]_staffVars
  BY DEF Next, vars
<1>3. [Next]_vars => [DeskNext]_deskVars
  BY DEF Next, vars
<1>4. [Next]_vars => [StorefrontNext]_storeVars
  BY DEF Next, vars
<1>5. [Next]_vars => [ListsNext]_listVars
  BY DEF Next, vars
<1>6. [Next]_vars => [CatalogueNext]_catalogueVars
  BY DEF Next, vars
<1>7. QED
  BY <1>1, <1>2, <1>3, <1>4, <1>5, <1>6, PTL
     DEF DialogsSpec, StaffSpec, DeskSpec, StorefrontSpec, ListsSpec, CatalogueSpec

\* Roles, tickets, sessions, lists and catalogue stay well formed, for any
\* number of people, rows and presses: every role, dialog and cached count is
\* one the code can make, an id without a position has no stock, and endless
\* and single values meet only where two editors' dialogs crossed.
THEOREM DialogsFormed == DialogsSpec => []DialogsTypeOK
BY DialogsApart, StaffFormed, DeskFormed, StorefrontFormed, ListsFormed, CatalogueFormed, PTL
   DEF DialogsTypeOK
\* Put together as the `dialogs' run has them, the conversations keep every
\* property stated of each: who may do what, the ticket queue, the buttons and
\* the session of a customer, the pages of lists, the rows that open their item
\* and the history of a renamed position.
THEOREM DialogsKeepFaith ==
    DialogsSpec => /\ [](/\ NoEscalation /\ RolesStand /\ TicketQueueIsTrue
                         /\ BrowsingButtonsWork /\ SessionIsHonest /\ PagesSettle
                         /\ HistoryFollowsName)
                   /\ RowsOpenTheirItem
BY DialogsApart, NobodyEscalates, RolesAlwaysStand, QueueAlwaysTrue, ButtonsAlwaysWork,
   SessionAlwaysHonest, PagesAlwaysSettle, HistoryAlwaysFollows, RowsAlwaysOpenTheirItem, PTL
=============================================================================
