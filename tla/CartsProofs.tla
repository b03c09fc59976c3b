---------------------------- MODULE CartsProofs ----------------------------
(***************************************************************************)
(* Proofs about Carts, for every set of users, goods and codes, every      *)
(* price list and every promo rule the assumptions allow.                  *)
(***************************************************************************)
EXTENDS Carts, SumTheorems

-----------------------------------------------------------------------------
(***************************************************************************)
(* Amounts                                                                 *)
(***************************************************************************)

\* The assumptions on the constants, in the parts the proofs use.
LEMMA PriceFacts == Prices \subseteq Nat /\ Prices # {} /\ SalePercent \in 0..100
  BY CartsAssumption

LEMMA FiniteFacts == IsFiniteSet(Users) /\ IsFiniteSet(Goods)
  BY CartsAssumption

LEMMA QtyFacts == CartMaxQty \in Nat \ {0} /\ CartMaxItems \in Nat \ {0}
  BY CartsAssumption

LEMMA TermsFacts ==
    \A p \in Promos : /\ Terms[p].value \in Nat /\ Terms[p].maxUses \in Nat
                       /\ Terms[p].perUser \in Nat \ {0} /\ Terms[p].minOrder \in Nat
  BY CartsAssumption

\* A product and a quotient by 100 of natural numbers is one.
LEMMA NatArith ==
    /\ \A a, b \in Nat : a * b \in Nat
    /\ \A a \in Nat : a \div 100 \in Nat
  OBVIOUS

\* The least price is a price.
LEMMA MinPrice == Min(Prices) \in Prices
<1>1. PICK m \in Prices : \A k \in Prices : m <= k
  BY PriceFacts, LeastNat
<1>2. QED
  BY <1>1 DEF Min

\* Of a number and a bound, the smaller and the larger one (FiniteSetsExt).
LEMMA MinMaxPair ==
    ASSUME NEW a \in Int, NEW b \in Int
    PROVE  /\ Min({a, b}) \in {a, b} /\ Min({a, b}) <= a /\ Min({a, b}) <= b
           /\ Max({a, b}) \in {a, b} /\ Max({a, b}) >= a /\ Max({a, b}) >= b
<1>1. \E x \in {a, b} : \A y \in {a, b} : x <= y
  OBVIOUS
<1>2. \E x \in {a, b} : \A y \in {a, b} : x >= y
  OBVIOUS
<1>3. Min({a, b}) \in {a, b} /\ \A y \in {a, b} : Min({a, b}) <= y
  BY <1>1 DEF Min
<1>4. Max({a, b}) \in {a, b} /\ \A y \in {a, b} : Max({a, b}) >= y
  BY <1>2 DEF Max
<1>5. QED
  BY <1>3, <1>4

\* effective_price: kopecks, never below zero.
LEMMA EffectivePriceType ==
    ASSUME TypeOK, NEW g \in Goods
    PROVE  EffectivePrice(g) \in Nat
<1>1. price[g] \in Nat /\ 100 - SalePercent \in Nat
  <2>1. price[g] \in Prices
    BY DEF TypeOK, CatalogOK
  <2>2. price[g] \in Nat
    BY <2>1, PriceFacts
  <2>3. 100 - SalePercent \in Nat
    BY PriceFacts
  <2>4. QED
    BY <2>2, <2>3
<1>2. price[g] * (100 - SalePercent) \in Nat
  BY <1>1, NatArith
<1>3. QED
  BY <1>1, <1>2, NatArith DEF EffectivePrice

\* apply_promo_discount never goes below zero either.
LEMMA DiscountedType ==
    ASSUME NEW p \in Promos, NEW unit \in Nat, NEW n \in Nat
    PROVE  Discounted(p, unit, n) \in Nat
<1> DEFINE line == unit * n
           v == Terms[p].value
<1>1. line \in Nat /\ v \in Nat
  BY TermsFacts, NatArith
<1>2. 100 - Min({v, 100}) \in Nat
  <2>1. v \in Int /\ 100 \in Int
    BY <1>1
  <2> HIDE DEF v
  <2>2. Min({v, 100}) \in {v, 100} /\ Min({v, 100}) <= 100
    BY <2>1, MinMaxPair
  <2>3. QED
    BY <1>1, <2>2
<1>3. line * (100 - Min({v, 100})) \in Nat
  BY <1>1, <1>2, NatArith
<1>4. Max({line - v, 0}) \in Nat
  <2>1. line - v \in Int /\ 0 \in Int
    BY <1>1
  <2>2. QED
    BY <2>1, MinMaxPair
<1>5. Discounted(p, unit, n) =
        IF Terms[p].kind = "percent" THEN (line * (100 - Min({v, 100}))) \div 100
        ELSE Max({line - v, 0})
  BY DEF Discounted
<1>6. QED
  BY <1>3, <1>4, <1>5, NatArith

\* A line of a cart comes to a number of kopecks.
LEMMA LineTotalType ==
    ASSUME TypeOK, NEW lines \in CartType, NEW chosen, NEW g \in Goods
    PROVE  LineTotal(lines, chosen, g) \in Nat
<1>1. lines[g].qty \in Nat
  BY QtyFacts DEF CartType, LineType
<1>2. EffectivePrice(g) \in Nat
  BY EffectivePriceType
<1>3. QED
  BY <1>1, <1>2, DiscountedType, NatArith DEF LineTotal

\* _split_amount: the rows of a line add up to what the line was charged.
LEMMA RowsAddUp ==
    ASSUME TypeOK, NEW lines \in CartType, NEW chosen, NEW g \in Goods,
           lines[g].qty > 0
    PROVE  RowsTotal(lines, chosen, g) = LineTotal(lines, chosen, g)
<1> DEFINE n == lines[g].qty
           total == LineTotal(lines, chosen, g)
           rows == SplitAmount(total, n)
<1>1. n \in Nat \ {0} /\ total \in Nat
  BY LineTotalType, QtyFacts DEF CartType, LineType
<1>2. rows = [i \in 1..n |-> total \div n + IF i <= total % n THEN 1 ELSE 0]
  BY DEF SplitAmount
<1>3. SumFunctionOnSet(rows, 1..n) = total
  <2> HIDE DEF n, total, rows
  <2>1. QED
    BY <1>1, <1>2, SplitSum
<1>4. rows = [i \in 1..n |-> rows[i]]
  BY DEF SplitAmount
<1>5. RowsTotal(lines, chosen, g) = SumFunctionOnSet([i \in 1..n |-> rows[i]], 1..n)
  BY DEF RowsTotal, SumOver
<1>6. QED
  <2> HIDE DEF n, total, rows
  <2>1. QED
    BY <1>3, <1>4, <1>5 DEF total

\* The total of a set of lines is a number of kopecks.
LEMMA TotalType ==
    ASSUME TypeOK, NEW lines \in CartType, NEW chosen, NEW gs \in SUBSET Goods
    PROVE  SumFunctionOnSet([g \in gs |-> LineTotal(lines, chosen, g)], gs) \in Nat
<1> DEFINE f == [g \in gs |-> LineTotal(lines, chosen, g)]
<1>1. IsFiniteSet(gs)
  BY FiniteFacts, FS_Subset
<1>2. \A g \in gs : f[g] \in Nat
  BY LineTotalType
<1>3. SumFunctionOnSet(f, gs) \in Nat
  <2> HIDE DEF f
  <2>1. QED
    BY <1>1, <1>2, SumType
<1>4. QED
  BY <1>3

-----------------------------------------------------------------------------
(***************************************************************************)
(* Which actions change what                                               *)
(***************************************************************************)

\* Editing a cart changes the cart and the calls under way, and nothing else.
LEMMA CartStepFrame ==
    ASSUME NEW u \in Users, CartStep(u)
    PROVE  UNCHANGED <<catalogVars, stockVars, promoVars, moneyVars, dialogVars, edits>>
<1>1. ASSUME NEW g \in Goods, NEW s \in Slots, NEW p \in PageCodes(g), TapAdd(s, u, g, p)
      PROVE  UNCHANGED <<catalogVars, stockVars, promoVars, moneyVars, dialogVars, edits>>
  BY <1>1 DEF TapAdd
<1>2. ASSUME NEW g \in Goods, NEW delta \in {-1, 1}, SetQuantity(u, g, delta)
      PROVE  UNCHANGED <<catalogVars, stockVars, promoVars, moneyVars, dialogVars, edits>>
  BY <1>2 DEF SetQuantity
<1>3. ASSUME NEW g \in Goods, ClearLinePromo(u, g)
      PROVE  UNCHANGED <<catalogVars, stockVars, promoVars, moneyVars, dialogVars, edits>>
  BY <1>3 DEF ClearLinePromo
<1>4. ASSUME NEW gs, RemoveLines(u, gs)
      PROVE  UNCHANGED <<catalogVars, stockVars, promoVars, moneyVars, dialogVars, edits>>
  BY <1>4 DEF RemoveLines
<1>5. QED
  BY <1>1, <1>2, <1>3, <1>4 DEF CartStep

LEMMA AddStepFrame ==
    ASSUME NEW s \in Slots, AddStep(s)
    PROVE  UNCHANGED <<catalogVars, stockVars, promoVars, moneyVars, dialogVars, edits>>
<1>1. ASSUME AddRefused(s) \/ AddCount(s) \/ AddConflict(s)
      PROVE  UNCHANGED <<catalogVars, stockVars, promoVars, moneyVars, dialogVars, edits>>
  BY <1>1 DEF AddRefused, AddCount, AddConflict
<1>2. ASSUME AddIncrement(s) \/ AddInsert(s)
      PROVE  UNCHANGED <<catalogVars, stockVars, promoVars, moneyVars, dialogVars, edits>>
  BY <1>2 DEF AddIncrement, AddInsert
<1>3. QED
  BY <1>1, <1>2 DEF AddStep

\* Of the steps of a checkout only the last one sells anything.
LEMMA CheckoutStepFrame ==
    ASSUME NEW u \in Users, CheckoutStep(u)
    PROVE  \/ Checkout(u)
           \/ UNCHANGED <<catalogVars, stockVars, promoVars, moneyVars, adds, surprised, edits>>
<1>1. ASSUME OpenDialog(u) \/ ClearConversation(u) \/ Confirm(u)
      PROVE  UNCHANGED <<catalogVars, stockVars, promoVars, moneyVars, adds, surprised, edits>>
  BY <1>1 DEF OpenDialog, ClearConversation, Confirm
<1>2. ASSUME RetryCheckout(u) \/ AbortCheckout(u) \/ DropUnavailable(u)
      PROVE  UNCHANGED <<catalogVars, stockVars, promoVars, moneyVars, adds, surprised, edits>>
  BY <1>2 DEF RetryCheckout, AbortCheckout, DropUnavailable
<1>3. QED
  BY <1>1, <1>2 DEF CheckoutStep

\* The staff and time touch no money and no conversation.
LEMMA StaffStepFrame ==
    ASSUME StaffStep
    PROVE  UNCHANGED <<moneyVars, adds, dialogVars>> /\ Edit
<1>1. ASSUME NEW g \in Goods, NEW to \in Prices, SetPrice(g, to)
      PROVE  UNCHANGED <<moneyVars, adds, dialogVars>> /\ Edit
  BY <1>1 DEF SetPrice
<1>2. ASSUME NEW g \in Goods, ToggleSale(g) \/ Restock(g) \/ DeleteUnit(g) \/ DeleteGoods(g)
      PROVE  UNCHANGED <<moneyVars, adds, dialogVars>> /\ Edit
  BY <1>2 DEF ToggleSale, Restock, DeleteUnit, DeleteGoods
<1>3. ASSUME NEW p \in Promos, TogglePromo(p) \/ DeletePromo(p)
      PROVE  UNCHANGED <<moneyVars, adds, dialogVars>> /\ Edit
  BY <1>3 DEF TogglePromo, DeletePromo
<1>4. QED
  BY <1>1, <1>2, <1>3 DEF StaffStep

-----------------------------------------------------------------------------
(***************************************************************************)
(* Types                                                                   *)
(***************************************************************************)

\* A call under way is somebody's, for some good.
AddsKnown ==
    \A s \in Slots : adds[s].at # "none" => adds[s].user \in Users /\ adds[s].goods \in Goods

CartsInv == TypeOK /\ AddsKnown

\* The program starts in the types.
LEMMA InitTypes == Init => CartsInv
<1> SUFFICES ASSUME Init PROVE CartsInv
  OBVIOUS
<1>1. CatalogOK
  BY MinPrice DEF Init, CatalogOK
<1>2. StockOK /\ edits \in 0..MaxEdits
  BY CartsAssumption DEF Init, StockOK
<1>3. PromosOK
  BY DEF Init, PromosOK
<1>4. MoneyOK
  <2>1. Funds \in Nat
    BY CartsAssumption
  <2>2. QED
    BY <2>1 DEF Init, MoneyOK
<1>5. CartsOK
  <2>1. StartCarts \subseteq CartType
    BY CartsAssumption
  <2>2. NoAdd \in AddType
    BY DEF NoAdd, AddType, Codes
  <2>3. QED
    BY <2>1, <2>2 DEF Init, CartsOK
<1>6. DialogsOK
  <2>1. NoDialog \in DialogType
    BY DEF NoDialog, DialogType
  <2>2. NoJob \in JobType
    BY <2>1, QtyFacts DEF NoJob, JobType, CartType, LineType, NoLine, Codes
  <2>3. QED
    BY <2>1, <2>2 DEF Init, DialogsOK
<1>7. AddsKnown
  BY DEF Init, AddsKnown, NoAdd
<1>8. QED
  BY <1>1, <1>2, <1>3, <1>4, <1>5, <1>6, <1>7 DEF CartsInv, TypeOK

\* An empty line is a line.
LEMMA NoLineType == NoLine \in LineType
  BY QtyFacts DEF NoLine, LineType, Codes

\* A cart with one line replaced is a cart.
LEMMA CartWithLine ==
    ASSUME CartsOK, NEW u \in Users, NEW g \in Goods, NEW line \in LineType,
           cart' = [cart EXCEPT ![u][g] = line]
    PROVE  cart' \in [Users -> CartType]
  BY DEF CartsOK, CartType

\* What a step of add_to_cart does to the call and the cart.
LEMMA AddStepTypes ==
    ASSUME CartsInv, NEW s \in Slots, AddStep(s)
    PROVE  CartsOK' /\ AddsKnown'
<1> DEFINE a == adds[s]
<1>1. a \in AddType /\ NoAdd \in AddType /\ NoAdd.at = "none"
  BY DEF CartsInv, TypeOK, CartsOK, NoAdd, AddType, Codes
<1>2. a.at # "none" => a.user \in Users /\ a.goods \in Goods
  BY DEF CartsInv, AddsKnown
<1>3. CASE AddRefused(s)
  <2>1. adds' = [adds EXCEPT ![s] = NoAdd] /\ cart' = cart
    BY <1>3 DEF AddRefused
  <2>2. QED
    BY <1>1, <2>1 DEF CartsInv, TypeOK, CartsOK, AddsKnown
<1>4. CASE AddCount(s)
  <2>1. adds' = [adds EXCEPT ![s].at = "insert"] /\ cart' = cart /\ a.at = "look"
    BY <1>4 DEF AddCount
  <2>2. [a EXCEPT !.at = "insert"] \in AddType
    BY <1>1 DEF AddType
  <2>3. adds' = [adds EXCEPT ![s] = [a EXCEPT !.at = "insert"]]
    BY <2>1
  <2>4. QED
    BY <1>1, <1>2, <2>1, <2>2, <2>3 DEF CartsInv, TypeOK, CartsOK, AddsKnown, AddType
<1>5. CASE AddConflict(s)
  <2>1. /\ adds' = [adds EXCEPT ![s] = IF a.try = 1 THEN [a EXCEPT !.at = "look", !.try = 2]
                                       ELSE NoAdd]
        /\ cart' = cart /\ a.at = "insert"
    BY <1>5 DEF AddConflict
  <2>2. [a EXCEPT !.at = "look", !.try = 2] \in AddType
    <3> HIDE DEF a
    <3>1. [a EXCEPT !.at = "look"] \in AddType
      BY <1>1 DEF AddType
    <3>2. 2 \in 0..2
      OBVIOUS
    <3>3. \A b \in AddType : [b EXCEPT !.try = 2] \in AddType
      BY <3>2 DEF AddType
    <3>4. QED
      BY <3>1, <3>3
  <2>3. QED
    BY <1>1, <1>2, <2>1, <2>2 DEF CartsInv, TypeOK, CartsOK, AddsKnown, AddType
<1>6. CASE AddIncrement(s)
  <2> DEFINE line == cart[a.user][a.goods]
             new == [qty |-> line.qty + 1, promo |-> IF a.promo # NoCode THEN a.promo ELSE line.promo]
  <2>1. /\ adds' = [adds EXCEPT ![s] = NoAdd] /\ a.at = "look"
        /\ cart' = [cart EXCEPT ![a.user][a.goods] = new]
        /\ line.qty \in 1..(CartMaxQty - 1)
    BY <1>6 DEF AddIncrement
  <2>2. line \in LineType
    BY <1>2, <2>1 DEF CartsInv, TypeOK, CartsOK, CartType
  <2>3. new \in LineType
    BY <1>1, <2>1, <2>2, QtyFacts DEF LineType, AddType
  <2>4. cart' \in [Users -> CartType]
    <3> HIDE DEF new, a
    <3>1. QED
      BY <1>2, <2>1, <2>3, CartWithLine DEF CartsInv, TypeOK
  <2>5. QED
    BY <1>1, <2>1, <2>4 DEF CartsInv, TypeOK, CartsOK, AddsKnown
<1>7. CASE AddInsert(s)
  <2> DEFINE new == [qty |-> 1, promo |-> a.promo]
  <2>1. /\ adds' = [adds EXCEPT ![s] = NoAdd] /\ a.at = "insert"
        /\ cart' = [cart EXCEPT ![a.user][a.goods] = new]
    BY <1>7 DEF AddInsert
  <2>2. new \in LineType
    BY <1>1, QtyFacts DEF LineType, AddType
  <2>3. cart' \in [Users -> CartType]
    <3> HIDE DEF new, a
    <3>1. QED
      BY <1>2, <2>1, <2>2, CartWithLine DEF CartsInv, TypeOK
  <2>4. QED
    BY <1>1, <2>1, <2>3 DEF CartsInv, TypeOK, CartsOK, AddsKnown
<1>8. QED
  BY <1>3, <1>4, <1>5, <1>6, <1>7 DEF AddStep

\* What an edit of the cart does to the calls and the cart.
LEMMA CartStepTypes ==
    ASSUME CartsInv, NEW u \in Users, CartStep(u)
    PROVE  CartsOK' /\ AddsKnown'
<1>1. ASSUME NEW g \in Goods, NEW s \in Slots, NEW p \in PageCodes(g), TapAdd(s, u, g, p)
      PROVE  CartsOK' /\ AddsKnown'
  <2> DEFINE new == [at |-> "look", user |-> u, goods |-> g, promo |-> p, try |-> 1]
  <2>1. adds' = [adds EXCEPT ![s] = new] /\ cart' = cart
    BY <1>1 DEF TapAdd
  <2>2. new \in AddType /\ new.user \in Users /\ new.goods \in Goods
    BY DEF AddType, PageCodes, Codes
  <2> HIDE DEF new
  <2>3. QED
    BY <2>1, <2>2 DEF CartsInv, TypeOK, CartsOK, AddsKnown
<1>2. ASSUME NEW g \in Goods, NEW delta \in {-1, 1}, SetQuantity(u, g, delta)
      PROVE  CartsOK' /\ AddsKnown'
  <2> DEFINE n == cart[u][g].qty + delta
             new == IF n = 0 THEN NoLine ELSE [cart[u][g] EXCEPT !.qty = n]
  <2>1. /\ adds' = adds /\ n <= CartMaxQty /\ cart[u][g].qty > 0
        /\ cart' = [cart EXCEPT ![u][g] = new]
    BY <1>2 DEF SetQuantity, InCart
  <2>2. cart[u][g] \in LineType
    BY DEF CartsInv, TypeOK, CartsOK, CartType
  <2>3. new \in LineType
    BY <2>1, <2>2, NoLineType, QtyFacts DEF LineType
  <2> HIDE DEF new
  <2>4. cart' \in [Users -> CartType]
    BY <2>1, <2>3, CartWithLine DEF CartsInv, TypeOK
  <2>5. QED
    BY <2>1, <2>4 DEF CartsInv, TypeOK, CartsOK, AddsKnown
<1>3. ASSUME NEW g \in Goods, ClearLinePromo(u, g)
      PROVE  CartsOK' /\ AddsKnown'
  <2> DEFINE new == [cart[u][g] EXCEPT !.promo = NoCode]
  <2>1. adds' = adds /\ cart' = [cart EXCEPT ![u][g] = new]
    BY <1>3 DEF ClearLinePromo
  <2>2. new \in LineType
    BY DEF CartsInv, TypeOK, CartsOK, CartType, LineType, Codes
  <2> HIDE DEF new
  <2>3. cart' \in [Users -> CartType]
    BY <2>1, <2>2, CartWithLine DEF CartsInv, TypeOK
  <2>4. QED
    BY <2>1, <2>3 DEF CartsInv, TypeOK, CartsOK, AddsKnown
<1>4. ASSUME NEW gs, RemoveLines(u, gs)
      PROVE  CartsOK' /\ AddsKnown'
  BY <1>4, NoLineType DEF RemoveLines, CartsInv, TypeOK, CartsOK, CartType, AddsKnown
<1>5. QED
  BY <1>1, <1>2, <1>3, <1>4 DEF CartStep

\* What a checkout that succeeds has checked.
LEMMA CheckoutChecked ==
    ASSUME NEW u, Outcome(u) = "success"
    PROVE  /\ \A g \in Buying(u) : ~Refused(u, g)
           /\ ~Mismatch(u)
           /\ ~(balance[u] < CheckoutTotal(u))
  BY DEF Outcome

\* The lines a checkout has read, and what they come to.
LEMMA CheckoutTypes ==
    ASSUME TypeOK, NEW u \in Users
    PROVE  /\ Lines(u) \in CartType
           /\ Buying(u) \subseteq Goods
           /\ \A g \in Buying(u) : Lines(u)[g].qty \in Nat \ {0}
           /\ CheckoutTotal(u) \in Nat
           /\ SumOver(Buying(u), LAMBDA g : RowsTotal(Lines(u), CheckoutChosen(u), g))
                = CheckoutTotal(u)
<1>1. Lines(u) \in CartType
  BY DEF TypeOK, DialogsOK, JobType, Lines
<1>2. Buying(u) \subseteq Goods
  BY DEF Buying, Read
<1>3. \A g \in Buying(u) : Lines(u)[g].qty \in Nat \ {0}
  BY <1>1, QtyFacts DEF Buying, Read, CartType, LineType
<1>4. CheckoutTotal(u) \in Nat
  <2>1. SumFunctionOnSet([g \in Buying(u) |-> LineTotal(Lines(u), CheckoutChosen(u), g)], Buying(u)) \in Nat
    BY <1>1, <1>2, TotalType
  <2>2. QED
    BY <2>1 DEF CheckoutTotal, SumOver
<1>5. \A g \in Buying(u) : RowsTotal(Lines(u), CheckoutChosen(u), g)
                             = LineTotal(Lines(u), CheckoutChosen(u), g)
  BY <1>1, <1>2, <1>3, RowsAddUp
<1>6. [g \in Buying(u) |-> RowsTotal(Lines(u), CheckoutChosen(u), g)]
        = [g \in Buying(u) |-> LineTotal(Lines(u), CheckoutChosen(u), g)]
  BY <1>5
<1>7. SumOver(Buying(u), LAMBDA g : RowsTotal(Lines(u), CheckoutChosen(u), g)) = CheckoutTotal(u)
  BY <1>6 DEF SumOver, CheckoutTotal
<1>8. QED
  BY <1>1, <1>2, <1>3, <1>4, <1>7

\* The lines charged with one code are a number.
LEMMA ChargedFinite ==
    ASSUME NEW lines, NEW p
    PROVE  /\ IsFiniteSet({g \in Goods : lines[g] = p})
           /\ Cardinality({g \in Goods : lines[g] = p}) \in Nat
<1>1. {g \in Goods : lines[g] = p} \in SUBSET Goods
  OBVIOUS
<1>2. IsFiniteSet({g \in Goods : lines[g] = p})
  BY <1>1, FiniteFacts, FS_Subset
<1>3. QED
  BY <1>2, FS_CardinalityType

\* record_promo_usage keeps the counters numbers.
LEMMA RecordUsageTypes ==
    ASSUME PromosOK, NEW ps, NEW u \in Users, NEW lines, RecordUsage(ps, u, lines)
    PROVE  PromosOK'
<1>1. code' = code
  BY DEF RecordUsage
<1>2. uses' \in [Promos -> Nat]
  BY DEF RecordUsage, PromosOK
<1>3. usages' \in [Promos -> [Users -> Nat]]
  BY DEF RecordUsage, PromosOK
<1>4. discounts' \in [Promos -> Nat]
  <2>1. discounts' = [p \in Promos |-> discounts[p] + Cardinality({g \in Goods : lines[g] = p})]
    BY DEF RecordUsage
  <2>2. \A p \in Promos : discounts[p] + Cardinality({g \in Goods : lines[g] = p}) \in Nat
    <3> SUFFICES ASSUME NEW p \in Promos
                 PROVE  discounts[p] + Cardinality({g \in Goods : lines[g] = p}) \in Nat
      OBVIOUS
    <3>1. discounts[p] \in Nat /\ Cardinality({g \in Goods : lines[g] = p}) \in Nat
      BY ChargedFinite DEF PromosOK
    <3>2. QED
      BY <3>1
  <2>3. QED
    BY <2>1, <2>2
<1>5. QED
  BY <1>1, <1>2, <1>3, <1>4 DEF PromosOK

\* A checkout takes no more than there is.
LEMMA CheckoutStepTypes ==
    ASSUME CartsInv, NEW u \in Users, Checkout(u)
    PROVE  CartsInv'
<1>0. TypeOK
  BY DEF CartsInv
<1>1. Outcome(u) = "success"
  BY DEF Checkout
<1>2. CatalogOK' /\ (edits \in 0..MaxEdits)'
  BY <1>0 DEF Checkout, TypeOK, CatalogOK, catalogVars
<1>3. StockOK'
  <2>1. /\ supplied' = supplied
        /\ stock' = [g \in Goods |-> IF g \in Buying(u) \ InfiniteGoods
                                     THEN stock[g] - Lines(u)[g].qty ELSE stock[g]]
    BY DEF Checkout
  <2>2. ASSUME NEW g \in Buying(u) \ InfiniteGoods PROVE stock[g] - Lines(u)[g].qty \in Nat
    <3>1. stock[g] \in Nat /\ Lines(u)[g].qty \in Nat
      BY <1>0, CheckoutTypes DEF TypeOK, StockOK
    <3>2. ~(stock[g] < Lines(u)[g].qty)
      BY <1>1, CheckoutChecked DEF Refused
    <3>3. QED
      BY <3>1, <3>2
  <2>3. QED
    BY <1>0, <2>1, <2>2 DEF TypeOK, StockOK
<1>4. PromosOK'
  <2>1. RecordUsage({CheckoutChosen(u)[g] : g \in Goods} \ {NoCode}, u, CheckoutChosen(u))
    BY DEF Checkout
  <2>2. QED
    BY <1>0, <2>1, RecordUsageTypes DEF TypeOK
<1>5. MoneyOK'
  <2> DEFINE total == CheckoutTotal(u)
  <2>1. /\ balance' = [balance EXCEPT ![u] = @ - total]
        /\ paid' = [paid EXCEPT ![u] = @ + total]
        /\ operations' = operations
    BY <1>0, CheckoutTypes DEF Checkout
  <2>2. total \in Nat /\ ~(balance[u] < total) /\ balance[u] \in Nat /\ paid[u] \in Nat
    BY <1>0, <1>1, CheckoutTypes, CheckoutChecked DEF TypeOK, MoneyOK
  <2> HIDE DEF total
  <2>3. balance' \in [Users -> Nat] /\ paid' \in [Users -> Nat] /\ operations' \in [Users -> Nat]
    BY <1>0, <2>1, <2>2 DEF TypeOK, MoneyOK
  <2>4. bought' \in [Users -> [Goods -> Nat]]
    <3> DEFINE more == [g \in Goods |-> bought[u][g] + IF g \in Buying(u) THEN Lines(u)[g].qty ELSE 0]
    <3>1. bought' = [bought EXCEPT ![u] = more]
      BY DEF Checkout
    <3>2. more \in [Goods -> Nat]
      <4>1. \A g \in Goods : bought[u][g] \in Nat
        BY <1>0 DEF TypeOK, MoneyOK
      <4>2. \A g \in Goods : (IF g \in Buying(u) THEN Lines(u)[g].qty ELSE 0) \in Nat
        BY <1>0, CheckoutTypes
      <4>3. QED
        BY <4>1, <4>2
    <3> HIDE DEF more
    <3>3. QED
      BY <1>0, <3>1, <3>2 DEF TypeOK, MoneyOK
  <2>5. QED
    BY <2>3, <2>4 DEF MoneyOK
<1>6. CartsOK' /\ AddsKnown'
  <2>1. cart' = [cart EXCEPT ![u] = [g \in Goods |-> NoLine]] /\ adds' = adds
    BY DEF Checkout
  <2>2. QED
    BY <2>1, NoLineType DEF CartsInv, TypeOK, CartsOK, CartType, AddsKnown
<1>7. DialogsOK'
  <2>1. /\ dialog' = dialog /\ job' = [job EXCEPT ![u] = NoJob]
        /\ surprised' \subseteq surprised \cup {u}
    BY DEF Checkout
  <2>2. NoJob \in JobType
    BY NoLineType DEF NoJob, JobType, CartType, NoDialog, DialogType
  <2>3. QED
    BY <1>0, <2>1, <2>2 DEF TypeOK, DialogsOK
<1>8. QED
  BY <1>2, <1>3, <1>4, <1>5, <1>6, <1>7 DEF CartsInv, TypeOK

\* The price of a single purchase.
LEMMA BuyTotalType ==
    ASSUME TypeOK, NEW g \in Goods, NEW p
    PROVE  (IF p \in Promos THEN Discounted(p, EffectivePrice(g), 1) ELSE EffectivePrice(g)) \in Nat
<1>1. EffectivePrice(g) \in Nat
  BY EffectivePriceType
<1>2. 1 \in Nat
  OBVIOUS
<1>3. QED
  BY <1>1, <1>2, DiscountedType

\* Neither does a single purchase.
LEMMA BuyItemTypes ==
    ASSUME CartsInv, NEW u \in Users, NEW g \in Goods, NEW p \in Codes, BuyItem(u, g, p)
    PROVE  CartsInv'
<1> DEFINE total == IF p \in Promos THEN Discounted(p, EffectivePrice(g), 1) ELSE EffectivePrice(g)
<1>0. TypeOK /\ total \in Nat
  BY BuyTotalType DEF CartsInv
<1>1. /\ CatalogOK' /\ CartsOK' /\ AddsKnown' /\ DialogsOK' /\ (edits \in 0..MaxEdits)'
  BY DEF BuyItem, CartsInv, TypeOK, CatalogOK, CartsOK, AddsKnown, DialogsOK, catalogVars, dialogVars
<1>2. StockOK'
  <2>1. supplied' = supplied
    BY DEF BuyItem
  <2>2. /\ stock' = IF g \in InfiniteGoods THEN stock ELSE [stock EXCEPT ![g] = @ - 1]
        /\ g \in InfiniteGoods \/ stock[g] > 0
    BY DEF BuyItem, HasUnit
  <2>3. QED
    BY <1>0, <2>1, <2>2 DEF TypeOK, StockOK
<1>3. PromosOK'
  <2>1. RecordUsage({p} \ {NoCode}, u, [h \in Goods |-> IF h = g THEN p ELSE NoCode])
    BY DEF BuyItem
  <2>2. QED
    BY <1>0, <2>1, RecordUsageTypes DEF TypeOK
<1>4. MoneyOK'
  <2>1. /\ balance' = [balance EXCEPT ![u] = @ - total] /\ balance[u] >= total
        /\ paid' = [paid EXCEPT ![u] = @ + total]
        /\ operations' = operations
    BY DEF BuyItem
  <2>2. bought' = [bought EXCEPT ![u][g] = @ + 1]
    BY DEF BuyItem
  <2> HIDE DEF total
  <2>3. balance' \in [Users -> Nat] /\ paid' \in [Users -> Nat] /\ operations' \in [Users -> Nat]
    BY <1>0, <2>1 DEF TypeOK, MoneyOK
  <2>4. bought' \in [Users -> [Goods -> Nat]]
    BY <1>0, <2>2 DEF TypeOK, MoneyOK
  <2>5. QED
    BY <2>3, <2>4 DEF MoneyOK
<1>5. QED
  BY <1>1, <1>2, <1>3, <1>4 DEF CartsInv, TypeOK

LEMMA RedeemTypes ==
    ASSUME CartsInv, NEW u \in Users, NEW p \in Promos, Redeem(u, p)
    PROVE  CartsInv'
<1>0. TypeOK /\ Terms[p].value \in Nat
  BY TermsFacts DEF CartsInv
<1>1. /\ CatalogOK' /\ StockOK' /\ CartsOK' /\ AddsKnown' /\ DialogsOK' /\ (edits \in 0..MaxEdits)'
  BY DEF Redeem, CartsInv, TypeOK, CatalogOK, StockOK, CartsOK, AddsKnown, DialogsOK, catalogVars,
         stockVars, dialogVars
<1>2. PromosOK'
  <2>1. RecordUsage({p}, u, [g \in Goods |-> NoCode])
    BY DEF Redeem
  <2>2. QED
    BY <1>0, <2>1, RecordUsageTypes DEF TypeOK
<1>3. MoneyOK'
  <2>1. /\ balance' = [balance EXCEPT ![u] = @ + Terms[p].value]
        /\ operations' = [operations EXCEPT ![u] = @ + Terms[p].value]
        /\ UNCHANGED <<bought, paid>>
    BY DEF Redeem
  <2>2. QED
    BY <1>0, <2>1 DEF TypeOK, MoneyOK
<1>4. QED
  BY <1>1, <1>2, <1>3 DEF CartsInv, TypeOK

\* The other steps of a checkout.
LEMMA DialogStepTypes ==
    ASSUME CartsInv, NEW u \in Users, CheckoutStep(u), ~Checkout(u)
    PROVE  CartsOK' /\ AddsKnown' /\ DialogsOK'
<1>0. /\ dialog[u] \in DialogType /\ job[u] \in JobType /\ cart[u] \in CartType
      /\ CartsOK /\ AddsKnown /\ DialogsOK /\ TypeOK
  BY DEF CartsInv, TypeOK, DialogsOK, CartsOK
<1>1. NoJob \in JobType
  BY NoLineType DEF NoJob, JobType, CartType, NoDialog, DialogType
<1>2. CASE OpenDialog(u)
  <2> DEFINE new == [total |-> ViewTotal(u), kept |-> TRUE]
  <2>1. dialog' = [dialog EXCEPT ![u] = new] /\ UNCHANGED <<cart, adds, job, surprised>>
    BY <1>2 DEF OpenDialog
  <2>2. ViewTotal(u) \in Nat
    <3>1. InCart(u) \in SUBSET Goods
      BY DEF InCart
    <3>2. SumFunctionOnSet([g \in InCart(u) |-> LineTotal(cart[u], Chosen(cart[u], ViewCodes(u)), g)],
                           InCart(u)) \in Nat
      BY <1>0, <3>1, TotalType
    <3>3. QED
      BY <3>2 DEF ViewTotal, SumOver
  <2>3. new \in DialogType
    BY <2>2 DEF DialogType
  <2> HIDE DEF new
  <2>4. QED
    BY <1>0, <2>1, <2>3 DEF DialogsOK, CartsOK, AddsKnown
<1>3. CASE ClearConversation(u)
  <2>1. dialog' = [dialog EXCEPT ![u] = [@ EXCEPT !.kept = FALSE]]
    BY <1>3 DEF ClearConversation
  <2>2. [dialog[u] EXCEPT !.kept = FALSE] \in DialogType
    BY <1>0 DEF DialogType
  <2>3. UNCHANGED <<cart, adds, job, surprised>>
    BY <1>3 DEF ClearConversation
  <2>4. QED
    BY <1>0, <2>1, <2>2, <2>3 DEF DialogsOK, CartsOK, AddsKnown
<1>4. CASE Confirm(u)
  <2> DEFINE new == [on |-> TRUE, lines |-> cart[u], dialog |-> dialog[u]]
  <2>1. job' = [job EXCEPT ![u] = new] /\ UNCHANGED <<cart, adds, dialog, surprised>>
    BY <1>4 DEF Confirm
  <2>2. new \in JobType
    BY <1>0 DEF JobType
  <2> HIDE DEF new
  <2>3. QED
    BY <1>0, <2>1, <2>2 DEF DialogsOK, CartsOK, AddsKnown
<1>5. CASE RetryCheckout(u)
  <2> DEFINE new == [job[u] EXCEPT !.lines = cart[u]]
  <2>1. job' = [job EXCEPT ![u] = new] /\ UNCHANGED <<cart, adds, dialog, surprised>>
    BY <1>5 DEF RetryCheckout
  <2>2. new \in JobType
    BY <1>0 DEF JobType
  <2> HIDE DEF new
  <2>3. QED
    BY <1>0, <2>1, <2>2 DEF DialogsOK, CartsOK, AddsKnown
<1>6. CASE AbortCheckout(u)
  <2>1. job' = [job EXCEPT ![u] = NoJob] /\ UNCHANGED <<cart, adds, dialog, surprised>>
    BY <1>6 DEF AbortCheckout
  <2>2. QED
    BY <1>0, <1>1, <2>1 DEF DialogsOK, CartsOK, AddsKnown
<1>7. CASE DropUnavailable(u)
  <2>1. /\ job' = [job EXCEPT ![u] = NoJob] /\ UNCHANGED <<adds, dialog, surprised>>
        /\ cart' = [cart EXCEPT ![u] =
                      [g \in Goods |-> IF g \in Unavailable(u) THEN NoLine ELSE cart[u][g]]]
    BY <1>7 DEF DropUnavailable
  <2>2. [g \in Goods |-> IF g \in Unavailable(u) THEN NoLine ELSE cart[u][g]] \in CartType
    BY <1>0, NoLineType DEF CartType
  <2>3. QED
    BY <1>0, <1>1, <2>1, <2>2 DEF DialogsOK, CartsOK, AddsKnown
<1>8. QED
  BY <1>2, <1>3, <1>4, <1>5, <1>6, <1>7 DEF CheckoutStep

\* The staff's edits.
LEMMA StaffStepTypes ==
    ASSUME CartsInv, StaffStep
    PROVE  CartsInv'
<1>0. TypeOK /\ AddsKnown
  BY DEF CartsInv
<1>1. MoneyOK' /\ DialogsOK' /\ AddsKnown' /\ adds' \in [Slots -> AddType]
  BY <1>0, StaffStepFrame DEF TypeOK, MoneyOK, DialogsOK, CartsOK, AddsKnown, moneyVars, dialogVars
<1>2. (edits \in 0..MaxEdits)'
  BY <1>0, StaffStepFrame, CartsAssumption DEF TypeOK, Edit
<1>3. ASSUME NEW g \in Goods, NEW to \in Prices, SetPrice(g, to)
      PROVE  CatalogOK' /\ StockOK' /\ PromosOK' /\ cart' \in [Users -> CartType]
  BY <1>0, <1>3 DEF SetPrice, TypeOK, CatalogOK, StockOK, PromosOK, CartsOK, stockVars, promoVars
<1>4. ASSUME NEW g \in Goods, ToggleSale(g)
      PROVE  CatalogOK' /\ StockOK' /\ PromosOK' /\ cart' \in [Users -> CartType]
  BY <1>0, <1>4 DEF ToggleSale, TypeOK, CatalogOK, StockOK, PromosOK, CartsOK, stockVars, promoVars
<1>5. ASSUME NEW g \in Goods, Restock(g) \/ DeleteUnit(g)
      PROVE  CatalogOK' /\ StockOK' /\ PromosOK' /\ cart' \in [Users -> CartType]
  <2>1. CatalogOK' /\ PromosOK' /\ cart' \in [Users -> CartType]
    BY <1>0, <1>5 DEF Restock, DeleteUnit, TypeOK, CatalogOK, PromosOK, CartsOK, catalogVars, promoVars
  <2>2. CASE Restock(g)
    BY <1>0, <2>1, <2>2 DEF Restock, TypeOK, StockOK
  <2>3. CASE DeleteUnit(g)
    BY <1>0, <2>1, <2>3 DEF DeleteUnit, TypeOK, StockOK
  <2>4. QED
    BY <1>5, <2>2, <2>3
<1>6. ASSUME NEW g \in Goods, DeleteGoods(g)
      PROVE  CatalogOK' /\ StockOK' /\ PromosOK' /\ cart' \in [Users -> CartType]
  <2>1. CatalogOK' /\ StockOK' /\ PromosOK'
    BY <1>0, <1>6 DEF DeleteGoods, TypeOK, CatalogOK, StockOK, PromosOK, promoVars
  <2>2. cart' \in [Users -> CartType]
    BY <1>0, <1>6, NoLineType DEF DeleteGoods, TypeOK, CartsOK, CartType
  <2>3. QED
    BY <2>1, <2>2
<1>7. ASSUME NEW p \in Promos, TogglePromo(p) \/ DeletePromo(p)
      PROVE  CatalogOK' /\ StockOK' /\ PromosOK' /\ cart' \in [Users -> CartType]
  <2>1. CatalogOK' /\ StockOK' /\ cart' \in [Users -> CartType]
    BY <1>0, <1>7 DEF TogglePromo, DeletePromo, TypeOK, CatalogOK, StockOK, CartsOK, catalogVars, stockVars
  <2>2. CASE TogglePromo(p)
    BY <1>0, <2>1, <2>2 DEF TogglePromo, TypeOK, PromosOK
  <2>3. CASE DeletePromo(p)
    BY <1>0, <2>1, <2>3 DEF DeletePromo, TypeOK, PromosOK
  <2>4. QED
    BY <1>7, <2>2, <2>3
<1>8. CatalogOK' /\ StockOK' /\ PromosOK' /\ cart' \in [Users -> CartType]
  BY <1>3, <1>4, <1>5, <1>6, <1>7 DEF StaffStep
<1>9. QED
  BY <1>1, <1>2, <1>8 DEF CartsInv, TypeOK, CartsOK

\* CartsInv is inductive.
LEMMA TypesStep ==
    ASSUME CartsInv, [Next]_vars
    PROVE  CartsInv'
<1>0. TypeOK /\ AddsKnown
  BY DEF CartsInv
<1>1. ASSUME UNCHANGED <<catalogVars, stockVars, promoVars, moneyVars, edits>>
      PROVE  CatalogOK' /\ StockOK' /\ PromosOK' /\ MoneyOK' /\ (edits \in 0..MaxEdits)'
  BY <1>0, <1>1 DEF TypeOK, CatalogOK, StockOK, PromosOK, MoneyOK, catalogVars, stockVars, promoVars,
                    moneyVars
<1>2. ASSUME UNCHANGED dialogVars PROVE DialogsOK'
  BY <1>0, <1>2 DEF TypeOK, DialogsOK, dialogVars
<1>3. ASSUME NEW u \in Users, CartStep(u) PROVE CartsInv'
  BY <1>1, <1>2, <1>3, CartStepFrame, CartStepTypes DEF CartsInv, TypeOK
<1>4. ASSUME NEW s \in Slots, AddStep(s) PROVE CartsInv'
  BY <1>1, <1>2, <1>4, AddStepFrame, AddStepTypes DEF CartsInv, TypeOK
<1>5. ASSUME NEW u \in Users, CheckoutStep(u) PROVE CartsInv'
  <2>1. CASE Checkout(u)
    BY <2>1, CheckoutStepTypes
  <2>2. CASE ~Checkout(u)
    BY <1>1, <1>5, <2>2, CheckoutStepFrame, DialogStepTypes DEF CartsInv, TypeOK
  <2>3. QED
    BY <2>1, <2>2
<1>6. CASE UNCHANGED vars
  BY <1>0, <1>1, <1>2, <1>6 DEF CartsInv, TypeOK, CartsOK, AddsKnown, vars
<1>7. QED
  BY <1>3, <1>4, <1>5, <1>6, BuyItemTypes, RedeemTypes, StaffStepTypes DEF Next

LEMMA CartsInductive == Spec => []CartsInv
  BY InitTypes, TypesStep, PTL DEF Spec

\* Whatever is bought, redeemed, edited and deleted, in any order: no balance
\* and no stock goes below zero, no line above the limit (TypeOK).
THEOREM CartsTypeCorrect == Spec => []TypeOK
<1>1. CartsInv => TypeOK
  BY DEF CartsInv
<1>2. QED
  BY <1>1, CartsInductive, PTL

-----------------------------------------------------------------------------
(***************************************************************************)
(* Money                                                                   *)
(***************************************************************************)

LEMMA LedgerStep ==
    ASSUME CartsInv, LedgerBalances, [Next]_vars
    PROVE  LedgerBalances'
<1>0. TypeOK /\ MoneyOK /\ Funds \in Nat
  BY CartsAssumption DEF CartsInv, TypeOK
<1>1. ASSUME UNCHANGED moneyVars PROVE LedgerBalances'
  BY <1>1 DEF LedgerBalances, moneyVars
<1>2. ASSUME NEW u \in Users, NEW total \in Nat,
             balance' = [balance EXCEPT ![u] = @ - total], paid' = [paid EXCEPT ![u] = @ + total],
             operations' = operations
      PROVE  LedgerBalances'
  BY <1>0, <1>2 DEF LedgerBalances, MoneyOK
<1>3. ASSUME NEW u \in Users, Checkout(u) PROVE LedgerBalances'
  <2>1. /\ balance' = [balance EXCEPT ![u] = @ - CheckoutTotal(u)]
        /\ paid' = [paid EXCEPT ![u] = @ + CheckoutTotal(u)] /\ operations' = operations
    BY <1>0, <1>3, CheckoutTypes DEF Checkout
  <2>2. CheckoutTotal(u) \in Nat
    BY <1>0, CheckoutTypes
  <2>3. QED
    BY <1>2, <2>1, <2>2
<1>4. ASSUME NEW u \in Users, NEW g \in Goods, NEW p \in Codes, BuyItem(u, g, p)
      PROVE  LedgerBalances'
  <2> DEFINE total == IF p \in Promos THEN Discounted(p, EffectivePrice(g), 1) ELSE EffectivePrice(g)
  <2>1. /\ balance' = [balance EXCEPT ![u] = @ - total]
        /\ paid' = [paid EXCEPT ![u] = @ + total] /\ operations' = operations
    BY <1>4 DEF BuyItem
  <2>2. total \in Nat
    BY <1>0, BuyTotalType
  <2> HIDE DEF total
  <2>3. QED
    BY <1>2, <2>1, <2>2
<1>5. ASSUME NEW u \in Users, NEW p \in Promos, Redeem(u, p)
      PROVE  LedgerBalances'
  <2>1. /\ balance' = [balance EXCEPT ![u] = @ + Terms[p].value]
        /\ operations' = [operations EXCEPT ![u] = @ + Terms[p].value] /\ paid' = paid
    BY <1>5 DEF Redeem
  <2>2. Terms[p].value \in Nat
    BY TermsFacts
  <2>3. QED
    BY <1>0, <2>1, <2>2 DEF LedgerBalances, MoneyOK
<1>6. QED
  BY <1>1, <1>3, <1>4, <1>5, CartStepFrame, AddStepFrame, CheckoutStepFrame, StaffStepFrame
  DEF Next, vars

\* What left a balance is, kopeck by kopeck, what the user's purchases say they
\* cost, for every price, discount and quantity (LedgerBalances): the rows
\* _split_amount makes add up to the total that was charged.
THEOREM LedgerAlwaysBalances == Spec => []LedgerBalances
<1>1. Init => LedgerBalances
  BY CartsAssumption DEF Init, LedgerBalances
<1>2. QED
  BY <1>1, LedgerStep, CartsInductive, PTL DEF Spec

\* As long as the conversation keeps the total of the dialog, the user is charged
\* that total or nothing (AgreedWhileKept).
THEOREM ChargedAsAgreed == Spec => AgreedWhileKept
<1>1. ASSUME [Next]_vars
      PROVE  [\A u \in surprised' \ surprised : ~job[u].dialog.kept]_vars
  <2>1. ASSUME NEW u \in Users, Checkout(u)
        PROVE  \A v \in surprised' \ surprised : ~job[v].dialog.kept
    <3>1. ~Mismatch(u)
      BY <2>1, CheckoutChecked DEF Checkout
    <3>2. surprised' = IF CheckoutTotal(u) = job[u].dialog.total THEN surprised
                       ELSE surprised \cup {u}
      BY <2>1 DEF Checkout
    <3>3. QED
      BY <3>1, <3>2 DEF Mismatch
  <2>2. ASSUME UNCHANGED surprised
        PROVE  \A v \in surprised' \ surprised : ~job[v].dialog.kept
    BY <2>2
  <2>3. ASSUME NEW u \in Users, NEW g \in Goods, NEW p \in Codes, BuyItem(u, g, p)
        PROVE  UNCHANGED surprised
    BY <2>3 DEF BuyItem, dialogVars
  <2>4. ASSUME NEW u \in Users, NEW p \in Promos, Redeem(u, p)
        PROVE  UNCHANGED surprised
    BY <2>4 DEF Redeem, dialogVars
  <2>5. QED
    BY <1>1, <2>1, <2>2, <2>3, <2>4, CartStepFrame, AddStepFrame, CheckoutStepFrame, StaffStepFrame
    DEF Next, dialogVars
<1>2. QED
  BY <1>1, PTL DEF Spec, AgreedWhileKept

-----------------------------------------------------------------------------
(***************************************************************************)
(* Lines and goods                                                         *)
(***************************************************************************)

\* A step that keeps the goods and puts no line of another good into a cart.
LEMMA LinesKept ==
    ASSUME LinesHaveGoods, listed' = listed,
           \A u \in Users : \A g \in Goods : cart'[u][g].qty > 0 => cart[u][g].qty > 0 \/ g \in listed
    PROVE  LinesHaveGoods'
  BY DEF LinesHaveGoods, InCart

LEMMA LinesStep ==
    ASSUME CartsInv, LinesHaveGoods, [Next]_vars
    PROVE  LinesHaveGoods'
<1>0. /\ CartsOK /\ AddsKnown /\ \A u \in Users : \A g \in Goods : cart[u][g] \in LineType
      /\ ~(NoLine.qty > 0)
  BY DEF CartsInv, TypeOK, CartsOK, CartType, NoLine
<1>1. ASSUME UNCHANGED <<listed, cart>> PROVE LinesHaveGoods'
  BY <1>1 DEF LinesHaveGoods, InCart
<1>2. ASSUME NEW u \in Users, NEW g \in Goods, NEW line,
             cart' = [cart EXCEPT ![u][g] = line], listed' = listed, g \in listed
      PROVE  LinesHaveGoods'
  BY <1>0, <1>2, LinesKept DEF CartsOK, CartType
<1>3. ASSUME NEW u \in Users, NEW gs,
             cart' = [cart EXCEPT ![u] = [g \in Goods |-> IF g \in gs THEN NoLine ELSE cart[u][g]]],
             listed' = listed
      PROVE  LinesHaveGoods'
  BY <1>0, <1>3, LinesKept DEF CartsOK, CartType
<1>4. ASSUME NEW u \in Users, CartStep(u) PROVE LinesHaveGoods'
  <2>0. listed' = listed
    BY <1>4, CartStepFrame DEF catalogVars
  <2>1. ASSUME NEW g \in Goods, NEW s \in Slots, NEW p \in PageCodes(g), TapAdd(s, u, g, p)
        PROVE  LinesHaveGoods'
    BY <1>1, <2>0, <2>1 DEF TapAdd
  <2>2. ASSUME NEW g \in InCart(u) PROVE g \in listed /\ g \in Goods
    BY <2>2 DEF LinesHaveGoods, InCart
  <2>3. ASSUME NEW g \in Goods, NEW delta \in {-1, 1}, SetQuantity(u, g, delta)
        PROVE  LinesHaveGoods'
    <3> DEFINE n == cart[u][g].qty + delta
               new == IF n = 0 THEN NoLine ELSE [cart[u][g] EXCEPT !.qty = n]
    <3>1. cart' = [cart EXCEPT ![u][g] = new] /\ g \in InCart(u)
      BY <2>3 DEF SetQuantity
    <3> HIDE DEF new
    <3>2. QED
      BY <1>2, <2>0, <2>2, <3>1
  <2>4. ASSUME NEW g \in Goods, ClearLinePromo(u, g) PROVE LinesHaveGoods'
    <3> DEFINE new == [cart[u][g] EXCEPT !.promo = NoCode]
    <3>1. cart' = [cart EXCEPT ![u][g] = new] /\ g \in InCart(u)
      BY <2>4 DEF ClearLinePromo
    <3> HIDE DEF new
    <3>2. QED
      BY <1>2, <2>0, <2>2, <3>1
  <2>5. ASSUME NEW gs, RemoveLines(u, gs) PROVE LinesHaveGoods'
    <3>1. cart' = [cart EXCEPT ![u] = [g \in Goods |-> IF g \in gs THEN NoLine ELSE cart[u][g]]]
      BY <1>0, <2>5 DEF RemoveLines, CartsOK
    <3>2. QED
      BY <1>3, <2>0, <3>1
  <2>6. QED
    BY <1>4, <2>1, <2>3, <2>4, <2>5 DEF CartStep
<1>5. ASSUME NEW s \in Slots, AddStep(s) PROVE LinesHaveGoods'
  <2>0. listed' = listed
    BY <1>5, AddStepFrame DEF catalogVars
  <2>1. ASSUME AddRefused(s) \/ AddCount(s) \/ AddConflict(s) PROVE LinesHaveGoods'
    BY <1>1, <2>0, <2>1 DEF AddRefused, AddCount, AddConflict
  <2>2. ASSUME AddIncrement(s) \/ AddInsert(s) PROVE LinesHaveGoods'
    <3>1. adds[s].user \in Users /\ adds[s].goods \in Goods /\ adds[s].goods \in listed
      BY <1>0, <2>2 DEF AddsKnown, AddIncrement, AddInsert
    <3>2. \E line : cart' = [cart EXCEPT ![adds[s].user][adds[s].goods] = line]
      BY <2>2 DEF AddIncrement, AddInsert
    <3>3. QED
      BY <1>2, <2>0, <3>1, <3>2
  <2>3. QED
    BY <1>5, <2>1, <2>2 DEF AddStep
<1>6. ASSUME NEW u \in Users, CheckoutStep(u) PROVE LinesHaveGoods'
  <2>1. listed' = listed
    BY <1>6, CheckoutStepFrame DEF Checkout, catalogVars
  <2>2. ASSUME OpenDialog(u) \/ ClearConversation(u) \/ Confirm(u) \/ RetryCheckout(u) \/ AbortCheckout(u)
        PROVE  LinesHaveGoods'
    BY <1>1, <2>1, <2>2 DEF OpenDialog, ClearConversation, Confirm, RetryCheckout, AbortCheckout
  <2>3. CASE DropUnavailable(u)
    <3>1. cart' = [cart EXCEPT ![u] =
                     [g \in Goods |-> IF g \in Unavailable(u) THEN NoLine ELSE cart[u][g]]]
      BY <2>3 DEF DropUnavailable
    <3>2. QED
      BY <1>3, <2>1, <3>1
  <2>4. CASE Checkout(u)
    <3>1. cart' = [cart EXCEPT ![u] = [g \in Goods |-> IF g \in Goods THEN NoLine ELSE cart[u][g]]]
      BY <2>4 DEF Checkout
    <3>2. QED
      BY <1>3, <2>1, <3>1
  <2>5. QED
    BY <1>6, <2>2, <2>3, <2>4 DEF CheckoutStep
<1>7. ASSUME NEW u \in Users, NEW g \in Goods, NEW p \in Codes, BuyItem(u, g, p)
      PROVE  LinesHaveGoods'
  BY <1>1, <1>7 DEF BuyItem, catalogVars
<1>8. ASSUME NEW u \in Users, NEW p \in Promos, Redeem(u, p) PROVE LinesHaveGoods'
  BY <1>1, <1>8 DEF Redeem, catalogVars
<1>9. CASE StaffStep
  <2>1. ASSUME NEW g \in Goods, NEW to \in Prices, SetPrice(g, to) PROVE LinesHaveGoods'
    BY <1>1, <2>1 DEF SetPrice
  <2>2. ASSUME NEW g \in Goods, ToggleSale(g) \/ Restock(g) \/ DeleteUnit(g) PROVE LinesHaveGoods'
    BY <1>1, <2>2 DEF ToggleSale, Restock, DeleteUnit, catalogVars
  <2>3. ASSUME NEW g \in Goods, DeleteGoods(g) PROVE LinesHaveGoods'
    <3>1. /\ listed' = listed \ {g}
          /\ cart' = [u \in Users |-> [cart[u] EXCEPT ![g] = NoLine]]
      BY <2>3 DEF DeleteGoods
    <3>2. QED
      BY <1>0, <3>1 DEF LinesHaveGoods, InCart, CartsOK, CartType
  <2>4. ASSUME NEW p \in Promos, TogglePromo(p) \/ DeletePromo(p) PROVE LinesHaveGoods'
    BY <1>1, <2>4 DEF TogglePromo, DeletePromo, catalogVars
  <2>5. QED
    BY <1>9, <2>1, <2>2, <2>3, <2>4 DEF StaffStep
<1>10. CASE UNCHANGED vars
  BY <1>1, <1>10 DEF vars, catalogVars
<1>11. QED
  BY <1>4, <1>5, <1>6, <1>7, <1>8, <1>9, <1>10 DEF Next

\* A line never outlives its good, whatever add_to_cart or a checkout was in the
\* middle of when the good was deleted (LinesHaveGoods).
THEOREM LinesAlwaysHaveGoods == Spec => []LinesHaveGoods
<1>1. Init => LinesHaveGoods
  BY DEF Init, LinesHaveGoods, InCart
<1>2. QED
  BY <1>1, LinesStep, CartsInductive, PTL DEF Spec

-----------------------------------------------------------------------------
(***************************************************************************)
(* Stock                                                                   *)
(***************************************************************************)

\* Units of a good sold, by the purchases b of every user.
Sold(b, g) == SumFunctionOnSet([u \in Users |-> b[u][g]], Users)

LEMMA UnitsSoldOnceIs ==
    UnitsSoldOnce <=> \A g \in Goods \ InfiniteGoods :
                        Sold(bought, g) <= supplied[g] /\ supplied[g] = stock[g] + Sold(bought, g)
  BY DEF UnitsSoldOnce, SumOver, Sold

LEMMA SoldType ==
    ASSUME NEW b \in [Users -> [Goods -> Nat]], NEW g \in Goods
    PROVE  Sold(b, g) \in Nat
<1> DEFINE f == [u \in Users |-> b[u][g]]
<1>1. \A u \in Users : f[u] \in Nat
  OBVIOUS
<1> HIDE DEF f
<1>2. SumFunctionOnSet(f, Users) \in Nat
  BY <1>1, FiniteFacts, SumType
<1>3. QED
  BY <1>2 DEF Sold, f

LEMMA SoldChange ==
    ASSUME NEW b \in [Users -> [Goods -> Nat]], NEW c \in [Users -> [Goods -> Nat]],
           NEW g \in Goods, NEW u \in Users, \A v \in Users \ {u} : c[v][g] = b[v][g]
    PROVE  Sold(c, g) = Sold(b, g) + c[u][g] - b[u][g]
<1> DEFINE f == [v \in Users |-> b[v][g]]
           h == [v \in Users |-> c[v][g]]
<1>0. IsFiniteSet(Users)
  BY FiniteFacts
<1>1. \A v \in Users : f[v] \in Int /\ h[v] \in Int
  OBVIOUS
<1>a. \A v \in Users \ {u} : h[v] = f[v]
  OBVIOUS
<1>b. f[u] = b[u][g] /\ h[u] = c[u][g]
  OBVIOUS
<1>2. Sold(b, g) = SumFunctionOnSet(f, Users) /\ Sold(c, g) = SumFunctionOnSet(h, Users)
  BY DEF Sold
<1> HIDE DEF f, h
<1>3. SumFunctionOnSet(h, Users) = SumFunctionOnSet(f, Users) + h[u] - f[u]
  BY ONLY <1>0, <1>1, <1>a, u \in Users, SumChange
<1>4. QED
  BY <1>b, <1>2, <1>3

LEMMA SoldNone ==
    ASSUME NEW b \in [Users -> [Goods -> Nat]], NEW g \in Goods, \A u \in Users : b[u][g] = 0
    PROVE  Sold(b, g) = 0
<1> DEFINE f == [u \in Users |-> b[u][g]]
<1>1. \A u \in Users : f[u] = 0
  OBVIOUS
<1> HIDE DEF f
<1>2. SumFunctionOnSet(f, Users) = 0
  BY <1>1, FiniteFacts, SumZero
<1>3. QED
  BY <1>2 DEF Sold, f

LEMMA UnitsStep ==
    ASSUME CartsInv, UnitsSoldOnce, [Next]_vars
    PROVE  UnitsSoldOnce'
<1>0. CartsInv' /\ TypeOK /\ TypeOK'
  BY TypesStep DEF CartsInv
<1>a. /\ bought \in [Users -> [Goods -> Nat]] /\ bought' \in [Users -> [Goods -> Nat]]
      /\ stock \in [Goods -> Nat] /\ supplied \in [Goods -> Int]
      /\ stock' \in [Goods -> Nat]
  BY <1>0 DEF TypeOK, StockOK, MoneyOK
<1> SUFFICES ASSUME NEW g \in Goods \ InfiniteGoods
             PROVE  supplied'[g] = stock'[g] + Sold(bought', g)
  <2>1. \A g \in Goods \ InfiniteGoods :
          /\ Sold(bought', g) \in Nat /\ stock'[g] \in Nat
          /\ supplied'[g] = stock'[g] + Sold(bought', g)
    BY <1>a, SoldType
  <2>2. \A g \in Goods \ InfiniteGoods :
          Sold(bought', g) <= supplied'[g] /\ supplied'[g] = stock'[g] + Sold(bought', g)
    BY <2>1
  <2>3. QED
    BY <2>2 DEF UnitsSoldOnce, SumOver, Sold
<1>1. supplied[g] = stock[g] + Sold(bought, g) /\ Sold(bought, g) \in Nat
  BY <1>a, UnitsSoldOnceIs, SoldType
<1>2. ASSUME UNCHANGED <<stockVars, bought>> PROVE supplied'[g] = stock'[g] + Sold(bought', g)
  BY <1>1, <1>2 DEF stockVars
<1>3. ASSUME NEW u \in Users, NEW n \in Nat,
             supplied' = supplied, stock'[g] = stock[g] - n, bought'[u][g] = bought[u][g] + n,
             \A v \in Users \ {u} : bought'[v][g] = bought[v][g]
      PROVE  supplied'[g] = stock'[g] + Sold(bought', g)
  <2>1. Sold(bought', g) = Sold(bought, g) + bought'[u][g] - bought[u][g]
    <3>1. bought \in [Users -> [Goods -> Nat]]
      BY <1>a
    <3>2. bought' \in [Users -> [Goods -> Nat]]
      BY <1>a
    <3>3. g \in Goods
      OBVIOUS
    <3>4. \A v \in Users \ {u} : bought'[v][g] = bought[v][g]
      BY <1>3
    <3>5. QED
      BY ONLY <3>1, <3>2, <3>3, <3>4, u \in Users, SoldChange
  <2>2. bought[u][g] \in Nat /\ stock[g] \in Nat
    BY <1>a
  <2>3. QED
    BY <1>1, <1>3, <2>1, <2>2
<1>4. ASSUME NEW u \in Users, Checkout(u) PROVE supplied'[g] = stock'[g] + Sold(bought', g)
  <2> DEFINE n == IF g \in Buying(u) THEN Lines(u)[g].qty ELSE 0
  <2>1. n \in Nat
    BY <1>0, CheckoutTypes
  <2>2. supplied' = supplied /\ stock'[g] = stock[g] - n
    BY <1>a, <1>4 DEF Checkout
  <2>3. bought'[u][g] = bought[u][g] + n /\ \A v \in Users \ {u} : bought'[v][g] = bought[v][g]
    BY <1>a, <1>4 DEF Checkout
  <2> HIDE DEF n
  <2>4. QED
    BY <1>3, <2>1, <2>2, <2>3
<1>5. ASSUME NEW u \in Users, NEW h \in Goods, NEW p \in Codes, BuyItem(u, h, p)
      PROVE  supplied'[g] = stock'[g] + Sold(bought', g)
  <2> DEFINE n == IF h = g THEN 1 ELSE 0
  <2>1. n \in Nat
    OBVIOUS
  <2>2. supplied' = supplied /\ stock'[g] = stock[g] - n
    BY <1>a, <1>5 DEF BuyItem
  <2>3. bought'[u][g] = bought[u][g] + n /\ \A v \in Users \ {u} : bought'[v][g] = bought[v][g]
    BY <1>a, <1>5 DEF BuyItem
  <2> HIDE DEF n
  <2>4. QED
    BY <1>3, <2>1, <2>2, <2>3
<1>6. ASSUME NEW u \in Users, NEW p \in Promos, Redeem(u, p)
      PROVE  supplied'[g] = stock'[g] + Sold(bought', g)
  BY <1>2, <1>6 DEF Redeem
<1>7. ASSUME StaffStep PROVE supplied'[g] = stock'[g] + Sold(bought', g)
  <2>0. bought' = bought
    BY <1>7, StaffStepFrame DEF moneyVars
  <2>1. ASSUME NEW h \in Goods, NEW to \in Prices, SetPrice(h, to)
        PROVE  supplied'[g] = stock'[g] + Sold(bought', g)
    BY <1>2, <2>0, <2>1 DEF SetPrice
  <2>2. ASSUME NEW h \in Goods, ToggleSale(h) PROVE supplied'[g] = stock'[g] + Sold(bought', g)
    BY <1>2, <2>0, <2>2 DEF ToggleSale
  <2>3. ASSUME NEW h \in Goods, Restock(h) \/ DeleteUnit(h)
        PROVE  supplied'[g] = stock'[g] + Sold(bought', g)
    <3>1. \E d \in {-1, 1} : /\ stock' = [stock EXCEPT ![h] = @ + d]
                             /\ supplied' = [supplied EXCEPT ![h] = @ + d]
      BY <1>a, <2>3 DEF Restock, DeleteUnit
    <3>2. QED
      BY <1>a, <1>1, <2>0, <3>1
  <2>4. ASSUME NEW h \in Goods, DeleteGoods(h) PROVE supplied'[g] = stock'[g] + Sold(bought', g)
    <3>1. stock' = [stock EXCEPT ![h] = 0] /\ supplied' = [supplied EXCEPT ![h] = @ - stock[h]]
      BY <2>4 DEF DeleteGoods
    <3>2. QED
      BY <1>a, <1>1, <2>0, <3>1
  <2>5. ASSUME NEW p \in Promos, TogglePromo(p) \/ DeletePromo(p)
        PROVE  supplied'[g] = stock'[g] + Sold(bought', g)
    BY <1>2, <2>0, <2>5 DEF TogglePromo, DeletePromo
  <2>6. QED
    BY <1>7, <2>1, <2>2, <2>3, <2>4, <2>5 DEF StaffStep
<1>8. QED
  <2>1. ASSUME UNCHANGED <<stockVars, moneyVars>> PROVE supplied'[g] = stock'[g] + Sold(bought', g)
    BY <1>2, <2>1 DEF moneyVars
  <2>2. QED
    BY <1>4, <1>5, <1>6, <1>7, <2>1, CartStepFrame, AddStepFrame, CheckoutStepFrame DEF Next, vars

\* However checkouts, single purchases and deletions compete for the stored
\* units, none is sold twice and none is lost (UnitsSoldOnce).
THEOREM UnitsAlwaysSoldOnce == Spec => []UnitsSoldOnce
<1>1. Init => UnitsSoldOnce
  <2> SUFFICES ASSUME Init, NEW g \in Goods \ InfiniteGoods
               PROVE  Sold(bought, g) <= supplied[g] /\ supplied[g] = stock[g] + Sold(bought, g)
    BY UnitsSoldOnceIs
  <2>1. bought \in [Users -> [Goods -> Nat]] /\ \A u \in Users : bought[u][g] = 0
    BY DEF Init
  <2>2. Sold(bought, g) = 0
    BY <2>1, SoldNone
  <2>3. stock[g] = Units /\ supplied[g] = Units /\ Units \in Nat
    BY CartsAssumption DEF Init
  <2>4. QED
    BY <2>2, <2>3
<1>2. QED
  BY <1>1, UnitsStep, CartsInductive, PTL DEF Spec

-----------------------------------------------------------------------------
(***************************************************************************)
(* Promo codes                                                             *)
(***************************************************************************)

\* The usage rows of one code, given the rows r of each user.
Rows(r) == SumFunctionOnSet([u \in Users |-> r[u]], Users)

LEMMA PromoLimitsIs ==
    PromoLimits <=> \A p \in Promos : /\ uses[p] = Rows(usages[p])
                                      /\ Terms[p].maxUses > 0 => uses[p] <= Terms[p].maxUses
                                      /\ \A u \in Users : usages[p][u] <= Terms[p].perUser
  BY DEF PromoLimits, SumOver, Rows

LEMMA RowsOneMore ==
    ASSUME NEW r \in [Users -> Nat], NEW u \in Users
    PROVE  Rows([r EXCEPT ![u] = @ + 1]) = Rows(r) + 1
<1> DEFINE f == [v \in Users |-> r[v]]
           h == [v \in Users |-> [r EXCEPT ![u] = @ + 1][v]]
<1>0. IsFiniteSet(Users)
  BY FiniteFacts
<1>1. \A v \in Users : f[v] \in Int /\ h[v] \in Int
  OBVIOUS
<1>2. \A v \in Users \ {u} : h[v] = f[v]
  OBVIOUS
<1>3. h[u] = f[u] + 1 /\ f[u] \in Int
  OBVIOUS
<1>4. Rows(r) = SumFunctionOnSet(f, Users) /\ Rows([r EXCEPT ![u] = @ + 1]) = SumFunctionOnSet(h, Users)
  BY DEF Rows
<1>5. SumFunctionOnSet(f, Users) \in Int
  <2> HIDE DEF f, h
  <2>1. QED
    BY <1>0, <1>1, SumType
<1> HIDE DEF f, h
<1>6. SumFunctionOnSet(h, Users) = SumFunctionOnSet(f, Users) + h[u] - f[u]
  BY ONLY <1>0, <1>1, <1>2, u \in Users, SumChange
<1>7. QED
  BY <1>3, <1>4, <1>5, <1>6

LEMMA RowsNone == Rows([u \in Users |-> 0]) = 0
<1> DEFINE f == [v \in Users |-> [u \in Users |-> 0][v]]
<1>1. \A u \in Users : f[u] = 0
  OBVIOUS
<1> HIDE DEF f
<1>2. SumFunctionOnSet(f, Users) = 0
  BY <1>1, FiniteFacts, SumZero
<1>3. QED
  BY <1>2 DEF Rows, f

\* record_promo_usage, after the rules have been asked, keeps to the limits.
LEMMA RecordWithinLimits ==
    ASSUME PromosOK, PromoLimits, NEW u \in Users, NEW ps, NEW lines,
           \A p \in ps : Usable(p, u), RecordUsage(ps, u, lines)
    PROVE  PromoLimits'
<1> SUFFICES ASSUME NEW p \in Promos
             PROVE  /\ uses'[p] = Rows(usages'[p])
                    /\ Terms[p].maxUses > 0 => uses'[p] <= Terms[p].maxUses
                    /\ \A v \in Users : usages'[p][v] <= Terms[p].perUser
  BY DEF PromoLimits, SumOver, Rows
<1>1. /\ uses[p] = Rows(usages[p])
      /\ Terms[p].maxUses > 0 => uses[p] <= Terms[p].maxUses
      /\ \A v \in Users : usages[p][v] <= Terms[p].perUser
  BY PromoLimitsIs
<1>2. uses[p] \in Nat /\ usages[p] \in [Users -> Nat]
  BY DEF PromosOK
<1>3. Terms[p].maxUses \in Nat /\ Terms[p].perUser \in Nat
  BY TermsFacts
<1>4. /\ uses'[p] = IF p \in ps THEN uses[p] + 1 ELSE uses[p]
      /\ usages'[p] = IF p \in ps THEN [usages[p] EXCEPT ![u] = @ + 1] ELSE usages[p]
  BY DEF RecordUsage
<1>5. CASE p \notin ps
  BY <1>1, <1>4, <1>5
<1>6. CASE p \in ps
  <2>1. /\ Terms[p].maxUses > 0 => uses[p] < Terms[p].maxUses
        /\ usages[p][u] < Terms[p].perUser
    BY <1>6 DEF Usable
  <2>2. uses'[p] = Rows(usages'[p])
    BY <1>1, <1>2, <1>4, <1>6, RowsOneMore
  <2>3. Terms[p].maxUses > 0 => uses'[p] <= Terms[p].maxUses
    BY <1>2, <1>3, <1>4, <1>6, <2>1
  <2>4. \A v \in Users : usages'[p][v] <= Terms[p].perUser
    BY <1>1, <1>2, <1>3, <1>4, <1>6, <2>1
  <2>5. QED
    BY <2>2, <2>3, <2>4
<1>7. QED
  BY <1>5, <1>6

\* The codes a checkout charges lines with: each still applies, on one line.
LEMMA ChosenOnce ==
    ASSUME NEW u \in Users
    PROVE  /\ \A g \in Goods : CheckoutChosen(u)[g] # NoCode =>
                CheckoutChosen(u)[g] \in Promos /\ Usable(CheckoutChosen(u)[g], u)
                  /\ Terms[CheckoutChosen(u)[g]].kind # "balance"
           /\ \A g, h \in Goods : CheckoutChosen(u)[g] \in Promos
                /\ CheckoutChosen(u)[g] = CheckoutChosen(u)[h] => g = h
<1> DEFINE codes == CheckoutCodes(u)
<1>1. \A g \in Goods : CheckoutChosen(u)[g] = IF codes[g] \in Promos /\ BestLine(Lines(u), codes, codes[g]) = g
                                              THEN codes[g] ELSE NoCode
  BY DEF CheckoutChosen, Chosen
<1>2. \A g \in Goods : codes[g] \in Promos => Usable(codes[g], u) /\ Terms[codes[g]].kind # "balance"
  <2> SUFFICES ASSUME NEW g \in Goods, codes[g] \in Promos
               PROVE  Usable(codes[g], u) /\ Terms[codes[g]].kind # "balance"
    OBVIOUS
  <2>1. codes[g] = IF g \in Buying(u) /\ Applies(Lines(u)[g].promo, u, g, EffectivePrice(g) * Lines(u)[g].qty)
                   THEN Lines(u)[g].promo ELSE NoCode
    BY DEF CheckoutCodes
  <2>2. NoCode \notin Promos
    BY CartsAssumption
  <2>3. codes[g] = Lines(u)[g].promo
        /\ Applies(Lines(u)[g].promo, u, g, EffectivePrice(g) * Lines(u)[g].qty)
    BY <2>1, <2>2
  <2>4. QED
    BY <2>3 DEF Applies
<1>3. NoCode \notin Promos
  BY CartsAssumption
<1> HIDE DEF codes
<1>4. QED
  BY <1>1, <1>2, <1>3

LEMMA PromoStep ==
    ASSUME CartsInv, PromoLimits, [Next]_vars
    PROVE  PromoLimits'
<1>0. TypeOK /\ PromosOK
  BY DEF CartsInv, TypeOK
<1>1. ASSUME UNCHANGED <<uses, usages>> PROVE PromoLimits'
  BY <1>1 DEF PromoLimits, SumOver
<1>2. ASSUME NEW u \in Users, Checkout(u) PROVE PromoLimits'
  <2> DEFINE ps == {CheckoutChosen(u)[g] : g \in Goods} \ {NoCode}
  <2>1. RecordUsage(ps, u, CheckoutChosen(u))
    BY <1>2 DEF Checkout
  <2>2. \A p \in ps : Usable(p, u)
    BY ChosenOnce
  <2> HIDE DEF ps
  <2>3. QED
    BY <1>0, <2>1, <2>2, RecordWithinLimits
<1>3. ASSUME NEW u \in Users, NEW g \in Goods, NEW p \in Codes, BuyItem(u, g, p) PROVE PromoLimits'
  <2> DEFINE ps == {p} \ {NoCode}
             lines == [h \in Goods |-> IF h = g THEN p ELSE NoCode]
  <2>1. RecordUsage(ps, u, lines)
    BY <1>3 DEF BuyItem
  <2>2. \A q \in ps : Usable(q, u)
    BY <1>3 DEF BuyItem, Applies, Codes
  <2> HIDE DEF ps, lines
  <2>3. QED
    BY <1>0, <2>1, <2>2, RecordWithinLimits
<1>4. ASSUME NEW u \in Users, NEW p \in Promos, Redeem(u, p) PROVE PromoLimits'
  <2> DEFINE ps == {p}
             lines == [g \in Goods |-> NoCode]
  <2>1. RecordUsage(ps, u, lines)
    BY <1>4 DEF Redeem
  <2>2. \A q \in ps : Usable(q, u)
    BY <1>4 DEF Redeem
  <2> HIDE DEF ps, lines
  <2>3. QED
    BY <1>0, <2>1, <2>2, RecordWithinLimits
<1>5. ASSUME NEW q \in Promos, DeletePromo(q) PROVE PromoLimits'
  <2> SUFFICES ASSUME NEW p \in Promos
               PROVE  /\ uses'[p] = Rows(usages'[p])
                      /\ Terms[p].maxUses > 0 => uses'[p] <= Terms[p].maxUses
                      /\ \A u \in Users : usages'[p][u] <= Terms[p].perUser
    BY DEF PromoLimits, SumOver, Rows
  <2>1. /\ uses[p] = Rows(usages[p])
        /\ Terms[p].maxUses > 0 => uses[p] <= Terms[p].maxUses
        /\ \A v \in Users : usages[p][v] <= Terms[p].perUser
    BY PromoLimitsIs
  <2>2. uses' = [uses EXCEPT ![q] = 0] /\ usages' = [usages EXCEPT ![q] = [u \in Users |-> 0]]
    BY <1>5 DEF DeletePromo
  <2>3. CASE p = q
    <3>1. uses'[p] = 0 /\ usages'[p] = [u \in Users |-> 0]
      BY <1>0, <2>2, <2>3 DEF PromosOK
    <3>2. QED
      BY <3>1, RowsNone, TermsFacts
  <2>4. CASE p # q
    BY <1>0, <2>1, <2>2, <2>4 DEF PromosOK
  <2>5. QED
    BY <2>3, <2>4
<1>6. ASSUME StaffStep, \A p \in Promos : ~DeletePromo(p) PROVE PromoLimits'
  <2>1. ASSUME NEW g \in Goods, NEW to \in Prices, SetPrice(g, to) PROVE PromoLimits'
    BY <1>1, <2>1 DEF SetPrice, promoVars
  <2>2. ASSUME NEW g \in Goods, ToggleSale(g) \/ Restock(g) \/ DeleteUnit(g) \/ DeleteGoods(g)
        PROVE  PromoLimits'
    BY <1>1, <2>2 DEF ToggleSale, Restock, DeleteUnit, DeleteGoods, promoVars
  <2>3. ASSUME NEW p \in Promos, TogglePromo(p) PROVE PromoLimits'
    BY <1>1, <2>3 DEF TogglePromo
  <2>4. QED
    BY <1>6, <2>1, <2>2, <2>3 DEF StaffStep
<1>7. ASSUME UNCHANGED promoVars PROVE PromoLimits'
  BY <1>1, <1>7 DEF promoVars
<1>8. QED
  BY <1>2, <1>3, <1>4, <1>5, <1>6, <1>7, CartStepFrame, AddStepFrame, CheckoutStepFrame
  DEF Next, vars

\* However checkouts, single purchases and redemptions compete, a code is used
\* at most max_uses times and by each user max_uses_per_user times, and
\* current_uses is the number of usage rows (PromoLimits).
THEOREM PromoLimitsHold == Spec => []PromoLimits
<1>1. Init => PromoLimits
  <2> SUFFICES ASSUME Init, NEW p \in Promos
               PROVE  /\ uses[p] = Rows(usages[p])
                      /\ Terms[p].maxUses > 0 => uses[p] <= Terms[p].maxUses
                      /\ \A u \in Users : usages[p][u] <= Terms[p].perUser
    BY PromoLimitsIs
  <2>1. uses[p] = 0 /\ usages[p] = [u \in Users |-> 0]
    BY DEF Init
  <2>2. QED
    BY <2>1, RowsNone, TermsFacts
<1>2. QED
  BY <1>1, PromoStep, CartsInductive, PTL DEF Spec
-----------------------------------------------------------------------------
(***************************************************************************)
(* One redemption is one line                                              *)
(***************************************************************************)

\* A record of usage keeps the count when each recorded code is on exactly
\* one line and the others on none.
LEMMA RecordOneLine ==
    ASSUME PromosOK, OneLinePerUse, NEW ps, NEW u \in Users, NEW lines,
           RecordUsage(ps, u, lines),
           \A p \in Promos : Terms[p].kind # "balance" =>
              IF p \in ps THEN \E g \in Goods : {h \in Goods : lines[h] = p} = {g}
              ELSE {h \in Goods : lines[h] = p} = {}
    PROVE  OneLinePerUse'
<1> SUFFICES ASSUME NEW p \in Promos, Terms[p].kind # "balance"
             PROVE  discounts'[p] = uses'[p]
  BY DEF OneLinePerUse
<1> DEFINE on == {h \in Goods : lines[h] = p}
<1>1. discounts[p] = uses[p] /\ uses[p] \in Nat
  BY DEF OneLinePerUse, PromosOK
<1>2. /\ uses'[p] = IF p \in ps THEN uses[p] + 1 ELSE uses[p]
      /\ discounts'[p] = discounts[p] + Cardinality(on)
  BY DEF RecordUsage
<1>3. IF p \in ps THEN \E g \in Goods : on = {g} ELSE on = {}
  OBVIOUS
<1> HIDE DEF on
<1>4. Cardinality(on) = IF p \in ps THEN 1 ELSE 0
  BY <1>3, FS_Singleton, FS_EmptySet
<1>5. QED
  BY <1>1, <1>2, <1>4

LEMMA OneLineStep ==
    ASSUME CartsInv, OneLinePerUse, [Next]_vars
    PROVE  OneLinePerUse'
<1>0. PromosOK
  BY DEF CartsInv, TypeOK
<1>n. NoCode \notin Promos
  BY CartsAssumption
<1>1. ASSUME UNCHANGED <<uses, discounts>> PROVE OneLinePerUse'
  BY <1>1 DEF OneLinePerUse
<1>2. ASSUME NEW u \in Users, Checkout(u) PROVE OneLinePerUse'
  <2> DEFINE lines == CheckoutChosen(u)
             ps == {lines[g] : g \in Goods} \ {NoCode}
  <2>1. RecordUsage(ps, u, lines)
    BY <1>2 DEF Checkout
  <2>2. \A g, h \in Goods : lines[g] \in Promos /\ lines[g] = lines[h] => g = h
    BY ChosenOnce
  <2>3. \A p \in Promos : p \in ps <=> \E g \in Goods : lines[g] = p
    BY <1>n
  <2> HIDE DEF ps, lines
  <2>4. ASSUME NEW p \in Promos
        PROVE  IF p \in ps THEN \E g \in Goods : {h \in Goods : lines[h] = p} = {g}
               ELSE {h \in Goods : lines[h] = p} = {}
    <3>1. CASE p \in ps
      <4>1. PICK g \in Goods : lines[g] = p
        BY <2>3, <3>1
      <4>2. {h \in Goods : lines[h] = p} = {g}
        BY <2>2, <4>1
      <4>3. QED
        BY <3>1, <4>2
    <3>2. CASE p \notin ps
      BY <2>3, <3>2
    <3>3. QED
      BY <3>1, <3>2
  <2>5. QED
    BY <1>0, <2>1, <2>4, RecordOneLine
<1>3. ASSUME NEW u \in Users, NEW g \in Goods, NEW p \in Codes, BuyItem(u, g, p) PROVE OneLinePerUse'
  <2> DEFINE ps == {p} \ {NoCode}
             lines == [h \in Goods |-> IF h = g THEN p ELSE NoCode]
  <2>1. RecordUsage(ps, u, lines)
    BY <1>3 DEF BuyItem
  <2>2. ASSUME NEW q \in Promos
        PROVE  IF q \in ps THEN \E f \in Goods : {h \in Goods : lines[h] = q} = {f}
               ELSE {h \in Goods : lines[h] = q} = {}
    <3>1. CASE q = p
      <4>1. q \in ps /\ {h \in Goods : lines[h] = q} = {g}
        BY <1>n, <3>1
      <4>2. QED
        BY <4>1
    <3>2. CASE q # p
      BY <1>n, <3>2
    <3>3. QED
      BY <3>1, <3>2
  <2> HIDE DEF ps, lines
  <2>3. QED
    BY <1>0, <2>1, <2>2, RecordOneLine
<1>4. ASSUME NEW u \in Users, NEW p \in Promos, Redeem(u, p) PROVE OneLinePerUse'
  <2> DEFINE ps == {p}
             lines == [g \in Goods |-> NoCode]
  <2>1. RecordUsage(ps, u, lines)
    BY <1>4 DEF Redeem
  <2>2. Terms[p].kind = "balance"
    BY <1>4 DEF Redeem
  <2>3. \A q \in Promos : Terms[q].kind # "balance" => q \notin ps /\ {h \in Goods : lines[h] = q} = {}
    BY <1>n, <2>2
  <2> HIDE DEF ps, lines
  <2>4. QED
    BY <1>0, <2>1, <2>3, RecordOneLine
<1>5. ASSUME NEW q \in Promos, DeletePromo(q) PROVE OneLinePerUse'
  <2>1. uses' = [uses EXCEPT ![q] = 0] /\ discounts' = [discounts EXCEPT ![q] = 0]
    BY <1>5 DEF DeletePromo
  <2>2. QED
    BY <1>0, <2>1 DEF OneLinePerUse, PromosOK
<1>6. ASSUME StaffStep, \A p \in Promos : ~DeletePromo(p) PROVE OneLinePerUse'
  <2>1. ASSUME NEW g \in Goods, NEW to \in Prices, SetPrice(g, to) PROVE OneLinePerUse'
    BY <1>1, <2>1 DEF SetPrice, promoVars
  <2>2. ASSUME NEW g \in Goods, ToggleSale(g) \/ Restock(g) \/ DeleteUnit(g) \/ DeleteGoods(g)
        PROVE  OneLinePerUse'
    BY <1>1, <2>2 DEF ToggleSale, Restock, DeleteUnit, DeleteGoods, promoVars
  <2>3. ASSUME NEW p \in Promos, TogglePromo(p) PROVE OneLinePerUse'
    BY <1>1, <2>3 DEF TogglePromo
  <2>4. QED
    BY <1>6, <2>1, <2>2, <2>3 DEF StaffStep
<1>7. ASSUME UNCHANGED promoVars PROVE OneLinePerUse'
  BY <1>1, <1>7 DEF promoVars
<1>8. QED
  BY <1>2, <1>3, <1>4, <1>5, <1>6, <1>7, CartStepFrame, AddStepFrame, CheckoutStepFrame
  DEF Next, vars

\* A code that stands on several lines of a cart makes one of them cheaper,
\* and a use of it is a discounted line (OneLinePerUse).
THEOREM OneLineAlwaysPerUse == Spec => []OneLinePerUse
<1>1. Init => OneLinePerUse
  BY DEF Init, OneLinePerUse
<1>2. QED
  BY <1>1, OneLineStep, CartsInductive, PTL DEF Spec-----------------------------------------------------------------------------
(***************************************************************************)
(* The screen and the checkout                                             *)
(***************************************************************************)

\* The sale does not carry a line of the cart below its code's minimum.
MinimumHolds(u) ==
    \A g \in InCart(u) : LET line == cart[u][g] IN
        line.promo \in Promos /\ Terms[line.promo].minOrder > 0 =>
            (price[g] * line.qty >= Terms[line.promo].minOrder
               <=> EffectivePrice(g) * line.qty >= Terms[line.promo].minOrder)

\* Where no line is sold out and no minimum lies between a line's price and its
\* sale price, the checkout prices the lines it has read as the screen does.
LEMMA SamePricing ==
    ASSUME LinesHaveGoods, NEW u \in Users, Lines(u) = cart[u],
           \A g \in InCart(u) : HasUnit(g), MinimumHolds(u)
    PROVE  ViewTotal(u) = CheckoutTotal(u)
<1>1. Read(u) = InCart(u)
  BY DEF Read, InCart
<1>2. Unavailable(u) = {}
  BY <1>1 DEF Unavailable, LinesHaveGoods
<1>3. Buying(u) = InCart(u)
  BY <1>1, <1>2 DEF Buying
<1>4. ASSUME NEW g \in Goods PROVE CheckoutCodes(u)[g] = ViewCodes(u)[g]
  <2>1. PICK line : line = cart[u][g]
    OBVIOUS
  <2>2. g \in InCart(u) =>
          (Applies(line.promo, u, g, price[g] * line.qty)
             <=> Applies(line.promo, u, g, EffectivePrice(g) * line.qty))
    BY <2>1 DEF MinimumHolds, Applies, Usable
  <2>3. ViewCodes(u)[g] = IF g \in InCart(u) /\ Applies(line.promo, u, g, price[g] * line.qty)
                          THEN line.promo ELSE NoCode
    BY <2>1 DEF ViewCodes
  <2>4. CheckoutCodes(u)[g] =
          IF g \in InCart(u) /\ Applies(line.promo, u, g, EffectivePrice(g) * line.qty)
          THEN line.promo ELSE NoCode
    BY <1>3, <2>1 DEF CheckoutCodes
  <2>5. QED
    BY <2>2, <2>3, <2>4
<1>5. CheckoutCodes(u) = ViewCodes(u)
  <2>1. ViewCodes(u) = [g \in Goods |-> ViewCodes(u)[g]] /\ CheckoutCodes(u) = [g \in Goods |-> CheckoutCodes(u)[g]]
    BY DEF ViewCodes, CheckoutCodes
  <2>2. QED
    BY <1>4, <2>1
<1>6. CheckoutChosen(u) = Chosen(cart[u], ViewCodes(u))
  BY <1>5 DEF CheckoutChosen
<1>7. QED
  BY <1>3, <1>6 DEF ViewTotal, CheckoutTotal

\* What the screen and the checkout agree on for every catalogue and every code:
\* a cart with nothing sold out and no minimum that the sale undercuts comes to
\* one total, and is not turned down because of it.
AgreeInStock ==
    \A u \in Users :
      job[u].on /\ Lines(u) = cart[u] /\ (\A g \in InCart(u) : HasUnit(g)) /\ MinimumHolds(u) =>
        /\ ViewTotal(u) = CheckoutTotal(u)
        /\ job[u].dialog.total = ViewTotal(u) => Outcome(u) # "price_changed"

\* The two exceptions of the screen's total, sold-out lines and a minimum held
\* against the price before the sale, are the only ones: otherwise a confirmed
\* cart is charged what the screen showed, whatever users, goods, sales, codes
\* and interleavings there are.
THEOREM CheckoutPricesAsShown == Spec => []AgreeInStock
<1>1. LinesHaveGoods => AgreeInStock
  <2>1. SUFFICES ASSUME LinesHaveGoods, NEW u \in Users, Lines(u) = cart[u],
                        \A g \in InCart(u) : HasUnit(g), MinimumHolds(u)
                 PROVE  /\ ViewTotal(u) = CheckoutTotal(u)
                        /\ job[u].dialog.total = ViewTotal(u) => Outcome(u) # "price_changed"
    BY DEF AgreeInStock
  <2>2. ViewTotal(u) = CheckoutTotal(u)
    BY <2>1, SamePricing
  <2>3. QED
    BY <2>2 DEF Outcome, Mismatch
<1>2. QED
  BY <1>1, LinesAlwaysHaveGoods, PTL

\* The lines a checkout has read are priced as the screen would price them: for
\* every set of users, goods, prices, sales and codes, if the goods cannot sell
\* out and the codes ask for no minimum, as in the run that checks TotalsAgree.
THEOREM TotalsAlwaysAgree ==
    ASSUME InfiniteGoods = Goods, \A p \in Promos : Terms[p].minOrder = 0
    PROVE  Spec => []TotalsAgree
<1>1. AgreeInStock => TotalsAgree
  <2>1. SUFFICES ASSUME AgreeInStock, NEW u \in Users, job[u].on, Lines(u) = cart[u]
                 PROVE  ViewTotal(u) = CheckoutTotal(u)
    BY DEF TotalsAgree
  <2>2. \A g \in InCart(u) : HasUnit(g)
    BY DEF InCart, HasUnit
  <2>3. MinimumHolds(u)
    BY DEF MinimumHolds
  <2>4. QED
    BY <2>1, <2>2, <2>3 DEF AgreeInStock
<1>2. QED
  BY <1>1, CheckoutPricesAsShown, PTL
-----------------------------------------------------------------------------
(***************************************************************************)
(* How far a cart can pass CART_MAX_ITEMS                                  *)
(***************************************************************************)

\* The calls of add_to_cart that have counted the user's lines and have not
\* inserted theirs yet.
Inserting(u) == {s \in Slots : adds[s].at = "insert" /\ adds[s].user = u}

\* The lines a user has and the ones on their way exceed the limit by at most
\* the other calls under way when the last of them counted.
LinesFit ==
    \A u \in Users :
      Cardinality(InCart(u)) + Cardinality(Inserting(u))
        <= CartMaxItems + Cardinality(Slots) - 1

LEMMA LinesFinite ==
    ASSUME IsFiniteSet(Slots), NEW u \in Users
    PROVE  /\ IsFiniteSet(InCart(u)) /\ Cardinality(InCart(u)) \in Nat
           /\ IsFiniteSet(Inserting(u)) /\ Cardinality(Inserting(u)) \in Nat
           /\ Cardinality(Inserting(u)) <= Cardinality(Slots) /\ Cardinality(Slots) \in Nat
<1>1. InCart(u) \in SUBSET Goods /\ Inserting(u) \in SUBSET Slots
  BY DEF InCart, Inserting
<1>2. QED
  BY <1>1, FiniteFacts, FS_Subset, FS_CardinalityType

\* A step that adds no line to a user's cart and lets no call of theirs count.
LEMMA LinesFewer ==
    ASSUME IsFiniteSet(Slots), LinesFit, NEW u \in Users,
           InCart(u)' \subseteq InCart(u), Inserting(u)' \subseteq Inserting(u)
    PROVE  Cardinality(InCart(u)') + Cardinality(Inserting(u)') <= CartMaxItems + Cardinality(Slots) - 1
<1> DEFINE a == InCart(u)'
           b == Inserting(u)'
<1>1. Cardinality(a) <= Cardinality(InCart(u)) /\ Cardinality(a) \in Nat
  BY LinesFinite, FS_Subset, FS_CardinalityType
<1>2. Cardinality(b) <= Cardinality(Inserting(u)) /\ Cardinality(b) \in Nat
  BY LinesFinite, FS_Subset, FS_CardinalityType
<1>3. /\ Cardinality(InCart(u)) + Cardinality(Inserting(u)) <= CartMaxItems + Cardinality(Slots) - 1
      /\ Cardinality(InCart(u)) \in Nat /\ Cardinality(Inserting(u)) \in Nat /\ Cardinality(Slots) \in Nat
      /\ CartMaxItems \in Nat
  BY LinesFinite, QtyFacts DEF LinesFit
<1> HIDE DEF a, b
<1>4. Cardinality(a) + Cardinality(b) <= CartMaxItems + Cardinality(Slots) - 1
  BY <1>1, <1>2, <1>3
<1>5. QED
  BY <1>4 DEF a, b

LEMMA LinesFewerAll ==
    ASSUME IsFiniteSet(Slots), LinesFit,
           \A u \in Users : InCart(u)' \subseteq InCart(u) /\ Inserting(u)' \subseteq Inserting(u)
    PROVE  LinesFit'
<1>1. ASSUME NEW u \in Users
      PROVE  Cardinality(InCart(u)') + Cardinality(Inserting(u)')
               <= CartMaxItems + Cardinality(Slots) - 1
  BY LinesFewer
<1>2. QED
  BY <1>1 DEF LinesFit

\* A cart that is edited without a new line.
LEMMA LinesEdited ==
    ASSUME CartsInv, IsFiniteSet(Slots), LinesFit, adds' = adds,
           \A u \in Users : \A g \in Goods : cart'[u][g].qty > 0 => cart[u][g].qty > 0
    PROVE  LinesFit'
<1>1. \A u \in Users : InCart(u)' \subseteq InCart(u) /\ Inserting(u)' = Inserting(u)
  BY DEF InCart, Inserting
<1>2. QED
  BY <1>1, LinesFewerAll

\* A call counted before its line was inserted: AddCount sees room for one more.
LEMMA CallCounts ==
    ASSUME CartsInv, IsFiniteSet(Slots), LinesFit, NEW s \in Slots, AddCount(s)
    PROVE  LinesFit'
<1>1. /\ adds' = [adds EXCEPT ![s].at = "insert"] /\ cart' = cart /\ adds[s].at = "look"
      /\ Cardinality(InCart(adds[s].user)) < CartMaxItems
  BY DEF AddCount
<1>2. adds \in [Slots -> AddType] /\ adds[s].user \in Users
  BY <1>1 DEF CartsInv, TypeOK, CartsOK, AddsKnown
<1>3. ASSUME NEW u \in Users
      PROVE  Cardinality(InCart(u)') + Cardinality(Inserting(u)')
               <= CartMaxItems + Cardinality(Slots) - 1
  <2>0. InCart(u)' = InCart(u)
    BY <1>1 DEF InCart
  <2>1. CASE u = adds[s].user
    <3> DEFINE b == Inserting(u)'
    <3>1. b \in SUBSET Slots
      BY DEF Inserting
    <3>2. Cardinality(b) <= Cardinality(Slots) /\ Cardinality(b) \in Nat /\ Cardinality(Slots) \in Nat
      BY <3>1, FS_Subset, FS_CardinalityType
    <3>3. Cardinality(InCart(u)) < CartMaxItems /\ Cardinality(InCart(u)) \in Nat /\ CartMaxItems \in Nat
      BY <1>1, <2>1, LinesFinite, QtyFacts
    <3> HIDE DEF b
    <3>4. Cardinality(InCart(u)) + Cardinality(b) <= CartMaxItems + Cardinality(Slots) - 1
      BY <3>2, <3>3
    <3>5. QED
      BY <2>0, <3>4 DEF b
  <2>2. CASE u # adds[s].user
    <3>1. \A t \in Slots : adds'[t].user = adds[t].user /\ (t # s => adds'[t] = adds[t])
      BY <1>1, <1>2 DEF AddType
    <3>2. Inserting(u)' \subseteq Inserting(u)
      BY <2>2, <3>1 DEF Inserting
    <3>3. QED
      BY <2>0, <3>2, LinesFewer
  <2>3. QED
    BY <2>1, <2>2
<1>4. QED
  BY <1>3 DEF LinesFit

\* The insert: one call less under way, one line more.
LEMMA CallInserts ==
    ASSUME CartsInv, IsFiniteSet(Slots), LinesFit, NEW s \in Slots, AddInsert(s)
    PROVE  LinesFit'
<1> DEFINE owner == adds[s].user
           goods == adds[s].goods
           new == [qty |-> 1, promo |-> adds[s].promo]
<1>1. /\ adds' = [adds EXCEPT ![s] = NoAdd] /\ adds[s].at = "insert"
      /\ cart' = [cart EXCEPT ![owner][goods] = new]
      /\ cart[owner][goods].qty = 0
  BY DEF AddInsert
<1>2. /\ adds \in [Slots -> AddType] /\ cart \in [Users -> CartType]
      /\ owner \in Users /\ goods \in Goods
  BY <1>1 DEF CartsInv, TypeOK, CartsOK, AddsKnown
<1>3. NoAdd.at = "none" /\ new.qty = 1
  BY DEF NoAdd
<1> HIDE DEF new
<1>4. ASSUME NEW u \in Users
      PROVE  Cardinality(InCart(u)') + Cardinality(Inserting(u)')
               <= CartMaxItems + Cardinality(Slots) - 1
  <2>1. CASE u = owner
    <3>1. Inserting(u)' = Inserting(u) \ {s} /\ s \in Inserting(u)
      BY <1>1, <1>2, <1>3, <2>1 DEF Inserting
    <3>2. \A g \in Goods : cart'[u][g] = IF g = goods THEN new ELSE cart[u][g]
      BY <1>1, <1>2, <2>1 DEF CartType
    <3>3. InCart(u)' = InCart(u) \cup {goods} /\ goods \notin InCart(u)
      BY <1>1, <1>2, <1>3, <2>1, <3>2 DEF InCart
    <3>4. /\ Cardinality(InCart(u) \cup {goods}) = Cardinality(InCart(u)) + 1
          /\ Cardinality(Inserting(u) \ {s}) = Cardinality(Inserting(u)) - 1
      BY <3>1, <3>3, LinesFinite, FS_AddElement, FS_RemoveElement
    <3>5. /\ Cardinality(InCart(u)) + Cardinality(Inserting(u)) <= CartMaxItems + Cardinality(Slots) - 1
          /\ Cardinality(InCart(u)) \in Nat /\ Cardinality(Inserting(u)) \in Nat
          /\ Cardinality(Slots) \in Nat /\ CartMaxItems \in Nat
      BY LinesFinite, QtyFacts DEF LinesFit
    <3>6. QED
      BY <3>1, <3>3, <3>4, <3>5
  <2>2. CASE u # owner
    <3>1. cart'[u] = cart[u]
      BY <1>1, <1>2, <2>2
    <3>2. InCart(u)' \subseteq InCart(u)
      BY <3>1 DEF InCart
    <3>3. Inserting(u)' \subseteq Inserting(u)
      BY <1>1, <1>2, <1>3 DEF Inserting
    <3>4. QED
      BY <3>2, <3>3, LinesFewer
  <2>3. QED
    BY <2>1, <2>2
<1>5. QED
  BY <1>4 DEF LinesFit

LEMMA LinesFitStep ==
    ASSUME CartsInv, IsFiniteSet(Slots), LinesFit, [Next]_vars
    PROVE  LinesFit'
<1>0. /\ adds \in [Slots -> AddType] /\ cart \in [Users -> CartType] /\ AddsKnown
      /\ \A u \in Users : \A g \in Goods : cart[u][g] \in LineType
      /\ ~(NoLine.qty > 0)
  BY DEF CartsInv, TypeOK, CartsOK, CartType, NoLine
<1>1. ASSUME UNCHANGED <<adds, cart>> PROVE LinesFit'
  BY <1>1, LinesEdited
<1>2. ASSUME NEW u \in Users, NEW g \in InCart(u), NEW line, adds' = adds,
             cart' = [cart EXCEPT ![u][g] = line]
      PROVE  LinesFit'
  <2>1. g \in Goods /\ cart[u][g].qty > 0
    BY DEF InCart
  <2>2. QED
    BY <1>0, <1>2, <2>1, LinesEdited DEF CartType
<1>3. ASSUME NEW u \in Users, NEW gs, adds' = adds,
             cart' = [cart EXCEPT ![u] = [g \in Goods |-> IF g \in gs THEN NoLine ELSE cart[u][g]]]
      PROVE  LinesFit'
  BY <1>0, <1>3, LinesEdited DEF CartType
<1>4. ASSUME NEW s \in Slots, NEW a, adds' = [adds EXCEPT ![s] = a], a.at # "insert",
             \A u \in Users : InCart(u)' \subseteq InCart(u)
      PROVE  LinesFit'
  <2>1. \A u \in Users : Inserting(u)' \subseteq Inserting(u)
    BY <1>0, <1>4 DEF Inserting
  <2>2. QED
    BY <1>4, <2>1, LinesFewerAll
<1>5. ASSUME NEW u \in Users, CartStep(u) PROVE LinesFit'
  <2>1. ASSUME NEW g \in Goods, NEW s \in Slots, NEW p \in PageCodes(g), TapAdd(s, u, g, p)
        PROVE  LinesFit'
    <3> DEFINE a == [at |-> "look", user |-> u, goods |-> g, promo |-> p, try |-> 1]
    <3>1. adds' = [adds EXCEPT ![s] = a] /\ cart' = cart /\ a.at # "insert"
      BY <2>1 DEF TapAdd
    <3> HIDE DEF a
    <3>2. \A v \in Users : InCart(v)' \subseteq InCart(v)
      BY <3>1 DEF InCart
    <3>3. QED
      BY <1>4, <3>1, <3>2
  <2>2. ASSUME NEW g \in Goods, NEW delta \in {-1, 1}, SetQuantity(u, g, delta)
        PROVE  LinesFit'
    <3> DEFINE n == cart[u][g].qty + delta
               new == IF n = 0 THEN NoLine ELSE [cart[u][g] EXCEPT !.qty = n]
    <3>1. cart' = [cart EXCEPT ![u][g] = new] /\ g \in InCart(u) /\ adds' = adds
      BY <2>2 DEF SetQuantity
    <3> HIDE DEF new
    <3>2. QED
      BY <1>2, <3>1
  <2>3. ASSUME NEW g \in Goods, ClearLinePromo(u, g) PROVE LinesFit'
    <3> DEFINE new == [cart[u][g] EXCEPT !.promo = NoCode]
    <3>1. cart' = [cart EXCEPT ![u][g] = new] /\ g \in InCart(u) /\ adds' = adds
      BY <2>3 DEF ClearLinePromo
    <3> HIDE DEF new
    <3>2. QED
      BY <1>2, <3>1
  <2>4. ASSUME NEW gs, RemoveLines(u, gs) PROVE LinesFit'
    <3>1. /\ cart' = [cart EXCEPT ![u] = [g \in Goods |-> IF g \in gs THEN NoLine ELSE cart[u][g]]]
          /\ adds' = adds
      BY <1>0, <2>4 DEF RemoveLines
    <3>2. QED
      BY <1>3, <3>1
  <2>5. QED
    BY <1>5, <2>1, <2>2, <2>3, <2>4 DEF CartStep
<1>6. ASSUME NEW s \in Slots, AddStep(s) PROVE LinesFit'
  <2>0. NoAdd.at # "insert"
    BY DEF NoAdd
  <2>1. CASE AddRefused(s)
    <3>1. adds' = [adds EXCEPT ![s] = NoAdd] /\ cart' = cart
      BY <2>1 DEF AddRefused
    <3>2. \A v \in Users : InCart(v)' \subseteq InCart(v)
      BY <3>1 DEF InCart
    <3>3. QED
      BY <1>4, <2>0, <3>1, <3>2
  <2>2. CASE AddIncrement(s)
    <3> DEFINE owner == adds[s].user
               goods == adds[s].goods
    <3>1. /\ adds' = [adds EXCEPT ![s] = NoAdd] /\ adds[s].at = "look"
          /\ cart[owner][goods].qty \in 1..(CartMaxQty - 1)
      BY <2>2 DEF AddIncrement
    <3>2. owner \in Users /\ goods \in Goods /\ cart[owner][goods].qty > 0
      BY <1>0, <3>1, QtyFacts DEF AddsKnown
    <3>3. PICK line : cart' = [cart EXCEPT ![owner][goods] = line]
      BY <2>2 DEF AddIncrement
    <3>4. \A v \in Users : \A g \in Goods : cart'[v][g].qty > 0 => cart[v][g].qty > 0
      BY <1>0, <3>1, <3>2, <3>3 DEF CartType
    <3>5. \A v \in Users : InCart(v)' \subseteq InCart(v)
      BY <3>4 DEF InCart
    <3>6. QED
      BY <1>4, <2>0, <3>1, <3>5
  <2>3. CASE AddConflict(s)
    <3> DEFINE again == [adds[s] EXCEPT !.at = "look", !.try = 2]
               a == IF adds[s].try = 1 THEN again ELSE NoAdd
    <3>1. adds' = [adds EXCEPT ![s] = a] /\ cart' = cart
      BY <2>3 DEF AddConflict
    <3>2. again.at # "insert"
      BY <1>0 DEF AddType
    <3>3. a.at # "insert"
      BY <2>0, <3>2
    <3> HIDE DEF a
    <3>4. \A v \in Users : InCart(v)' \subseteq InCart(v)
      BY <3>1 DEF InCart
    <3>5. QED
      BY <1>4, <3>1, <3>3, <3>4
  <2>4. QED
    BY <1>6, <2>1, <2>2, <2>3, CallCounts, CallInserts DEF AddStep
<1>7. ASSUME NEW u \in Users, CheckoutStep(u) PROVE LinesFit'
  <2>1. adds' = adds
    BY <1>7, CheckoutStepFrame DEF Checkout
  <2>2. ASSUME OpenDialog(u) \/ ClearConversation(u) \/ Confirm(u) \/ RetryCheckout(u) \/ AbortCheckout(u)
        PROVE  LinesFit'
    BY <1>1, <2>1, <2>2 DEF OpenDialog, ClearConversation, Confirm, RetryCheckout, AbortCheckout
  <2>3. CASE DropUnavailable(u)
    <3>1. cart' = [cart EXCEPT ![u] =
                     [g \in Goods |-> IF g \in Unavailable(u) THEN NoLine ELSE cart[u][g]]]
      BY <2>3 DEF DropUnavailable
    <3>2. QED
      BY <1>3, <2>1, <3>1
  <2>4. CASE Checkout(u)
    <3>1. cart' = [cart EXCEPT ![u] = [g \in Goods |-> IF g \in Goods THEN NoLine ELSE cart[u][g]]]
      BY <2>4 DEF Checkout
    <3>2. QED
      BY <1>3, <2>1, <3>1
  <2>5. QED
    BY <1>7, <2>2, <2>3, <2>4 DEF CheckoutStep
<1>8. ASSUME NEW u \in Users, NEW g \in Goods, NEW p \in Codes, BuyItem(u, g, p)
      PROVE  LinesFit'
  BY <1>1, <1>8 DEF BuyItem
<1>9. ASSUME NEW u \in Users, NEW p \in Promos, Redeem(u, p) PROVE LinesFit'
  BY <1>1, <1>9 DEF Redeem
<1>10. CASE StaffStep
  <2>0. adds' = adds
    BY <1>10, StaffStepFrame
  <2>1. ASSUME NEW g \in Goods, NEW to \in Prices, SetPrice(g, to) PROVE LinesFit'
    BY <1>1, <2>1 DEF SetPrice
  <2>2. ASSUME NEW g \in Goods, ToggleSale(g) \/ Restock(g) \/ DeleteUnit(g) PROVE LinesFit'
    BY <1>1, <2>2 DEF ToggleSale, Restock, DeleteUnit
  <2>3. ASSUME NEW g \in Goods, DeleteGoods(g) PROVE LinesFit'
    <3>1. cart' = [u \in Users |-> [cart[u] EXCEPT ![g] = NoLine]]
      BY <2>3 DEF DeleteGoods
    <3>2. QED
      BY <1>0, <2>0, <3>1, LinesEdited DEF CartType
  <2>4. ASSUME NEW p \in Promos, TogglePromo(p) \/ DeletePromo(p) PROVE LinesFit'
    BY <1>1, <2>4 DEF TogglePromo, DeletePromo
  <2>5. QED
    BY <1>10, <2>1, <2>2, <2>3, <2>4 DEF StaffStep
<1>11. CASE UNCHANGED vars
  BY <1>1, <1>11 DEF vars
<1>12. QED
  BY <1>5, <1>6, <1>7, <1>8, <1>9, <1>10, <1>11 DEF Next

\* What is left of cart.full when the lines are counted without a lock: with n
\* calls of add_to_cart under way a cart passes CART_MAX_ITEMS by at most n - 1
\* lines, however often it is filled and emptied, because a call that finds it
\* full inserts nothing.
THEOREM CartOverrunBounded ==
    ASSUME IsFiniteSet(Slots), Slots # {}
    PROVE  Spec => [](\A u \in Users :
                        Cardinality(InCart(u)) <= CartMaxItems + Cardinality(Slots) - 1)
<1>1. Init => LinesFit
  <2> SUFFICES ASSUME Init, NEW u \in Users
               PROVE  Cardinality(InCart(u)) + Cardinality(Inserting(u))
                        <= CartMaxItems + Cardinality(Slots) - 1
    BY DEF LinesFit
  <2>1. Inserting(u) = {}
    BY DEF Init, Inserting, NoAdd
  <2>2. cart[u] \in StartCarts
    BY DEF Init
  <2>3. Cardinality(InCart(u)) <= CartMaxItems
    BY <2>2, CartsAssumption DEF InCart
  <2>4. Cardinality(Slots) # 0
    BY FS_EmptySet
  <2>5. QED
    BY <2>1, <2>3, <2>4, LinesFinite, QtyFacts, FS_EmptySet
<1>2. LinesFit => \A u \in Users : Cardinality(InCart(u)) <= CartMaxItems + Cardinality(Slots) - 1
  BY LinesFinite, QtyFacts DEF LinesFit
<1>3. CartsInv /\ LinesFit /\ [Next]_vars => LinesFit'
  BY LinesFitStep
<1>4. QED
  BY <1>1, <1>2, <1>3, CartsInductive, PTL DEF Spec
=============================================================================
